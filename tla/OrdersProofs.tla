---------------------------- MODULE OrdersProofs ----------------------------
(***************************************************************************)
(* Theorems about Orders, for any sets of calls and keys and any size of   *)
(* the outbox.                                                             *)
(***************************************************************************)
EXTENDS Orders, SequenceTheorems, TLAPS

\* Publish keeps the outbox a sequence of events no longer than maxSize.
LEMMA PublishType ==
  ASSUME NEW type \in EventType, NEW c \in Calls,
         outbox \in Seq(Event), Len(outbox) <= MaxOutbox,
         Publish(type, c)
  PROVE  outbox' \in Seq(Event) /\ Len(outbox') <= MaxOutbox
<1> DEFINE grown == Append(outbox, [type |-> type, order |-> c])
<1>1. grown \in Seq(Event) /\ Len(grown) = Len(outbox) + 1
  BY DEF Event
<1>2. MaxOutbox \in Nat \ {0} /\ Len(outbox) \in Nat
  BY OrdersAssumption
<1>3. CASE Len(grown) > MaxOutbox
  <2>1. Len(grown) - MaxOutbox + 1 = 2 /\ Len(grown) = MaxOutbox + 1
    BY <1>1, <1>2, <1>3
  <2>2. outbox' = SubSeq(grown, 2, Len(grown))
    BY <1>3, <2>1 DEF Publish
  <2>3. \A i \in 2 .. Len(grown) : grown[i] \in Event
    BY <1>1, ElementOfSeq
  <2>4. outbox' \in Seq(Event) /\ Len(outbox') = Len(grown) - 1
    BY <1>1, <1>2, <2>1, <2>2, <2>3, SubSeqProperties
  <2>. QED BY <2>1, <2>4, <1>2
<1>4. CASE ~(Len(grown) > MaxOutbox)
  BY <1>1, <1>2, <1>4 DEF Publish
<1>. QED BY <1>3, <1>4

-----------------------------------------------------------------------------
(* The inductive invariant. *)

\* A key's record names the call that claimed it; every other call with the key
\* came later and went through the lookup.
ClaimantOfKey ==
  \A k \in Keys : records[k] # NoCall =>
    /\ records[k] \in Calls
    /\ key[records[k]] = k
    /\ pc[records[k]] \notin {"idle", "lookup"}

KeyOfCall(c) ==
  /\ pc[c] = "idle" => key[c] = NoKey
  /\ pc[c] = "lookup" => key[c] \in Keys
  /\ key[c] \in Keys => records[key[c]] # NoCall

\* Which calls have stored their order, by the place they stand at.
StoredByPlace(c) ==
  /\ pc[c] \in {"idle", "lookup", "create"} => ~Stored(c)
  /\ pc[c] \notin {"idle", "lookup", "create", "done"} => Stored(c)
  /\ (pc[c] = "done" /\ key[c] \in Keys /\ records[key[c]] = c) => Stored(c)

\* One call at a time works on a serial key.
SerialTurns ==
  \A c, d \in Calls :
    (key[c] = key[d] /\ key[c] \in SerialKeys /\ InFlight(c) /\ InFlight(d)) => c = d

\* Only the claimant of a serial key gets past the lookup.
OthersOnlyLook(c) ==
  (key[c] \in SerialKeys /\ records[key[c]] # c) =>
    pc[c] \in {"idle", "lookup", "done"} /\ ~Stored(c)

\* ReplaysAgree, for one call.
ReplayOf(c) ==
  reply[c].idempotent =>
    /\ key[c] \in Keys
    /\ reply[c].order = records[key[c]]
    /\ Stored(reply[c].order)
    /\ key[reply[c].order] = key[c]

\* A replayed answer is given by a call that has ended.
ReplyOfEnded(c) == reply[c].idempotent => pc[c] = "done"

KeysInv ==
  /\ TypeOK
  /\ ClaimantOfKey
  /\ SerialTurns
  /\ \A c \in Calls :
       KeyOfCall(c) /\ StoredByPlace(c) /\ OthersOnlyLook(c) /\ ReplyOfEnded(c)
  /\ ReplaysAgree

-----------------------------------------------------------------------------
\* The stores hold what their Go types say in every reachable state.
LEMMA InitTypeOK == Init => TypeOK
<1>. SUFFICES ASSUME Init PROVE TypeOK
  OBVIOUS
<1>1. outbox \in Seq(Event) /\ Len(outbox) <= MaxOutbox
  BY OrdersAssumption DEF Init
<1>. QED BY <1>1, OrdersAssumption DEF Init, TypeOK, PC, Status, Reply, NoReply

\* Every step of Orders keeps the type invariant.
LEMMA NextTypeOK ==
  ASSUME TypeOK, \A c \in Calls : KeyOfCall(c), [Next]_vars
  PROVE  TypeOK'
<1>. USE OrdersAssumption DEF clients, history, PC, Status
<1>1. ASSUME NEW c \in Calls, StartUnkeyed(c) PROVE TypeOK'
  BY <1>1 DEF TypeOK, StartUnkeyed, Goto
<1>2. ASSUME NEW c \in Calls, LookupHit(c) PROVE TypeOK'
  BY <1>2 DEF TypeOK, LookupHit, Goto, Reply, KeyOfCall
<1>3. ASSUME NEW c \in Calls, LookupMiss(c) PROVE TypeOK'
  BY <1>3 DEF TypeOK, LookupMiss, Goto
<1>4. ASSUME NEW c \in Calls, Create(c) PROVE TypeOK'
  BY <1>4 DEF TypeOK, Create, Goto, Update
<1>5. ASSUME NEW c \in Calls, ReserveOK(c) PROVE TypeOK'
  BY <1>5 DEF TypeOK, ReserveOK, Goto
<1>6. ASSUME NEW c \in Calls, ReserveDown(c) PROVE TypeOK'
  BY <1>6 DEF TypeOK, ReserveDown, Goto
<1>7. ASSUME NEW c \in Calls, DegradeInventory(c) PROVE TypeOK'
  BY <1>7 DEF TypeOK, DegradeInventory, Goto, Update
<1>8. ASSUME NEW c \in Calls, Confirm(c) PROVE TypeOK'
  BY <1>8 DEF TypeOK, Confirm, Goto
<1>9. ASSUME NEW c \in Calls, ChargeOK(c) PROVE TypeOK'
  BY <1>9 DEF TypeOK, ChargeOK, Goto
<1>10. ASSUME NEW c \in Calls, ChargeDown(c) PROVE TypeOK'
  BY <1>10 DEF TypeOK, ChargeDown, Goto
<1>11. ASSUME NEW c \in Calls, DegradePayment(c) PROVE TypeOK'
  BY <1>11 DEF TypeOK, DegradePayment, Goto, Update
<1>12. ASSUME NEW c \in Calls, ConfirmPaid(c) PROVE TypeOK'
  BY <1>12 DEF TypeOK, ConfirmPaid, Goto
<1>13. ASSUME NEW c \in Calls, NEW k \in Keys, ClaimKey(c, k) PROVE TypeOK'
  BY <1>13 DEF TypeOK, ClaimKey, MayStart, Goto
<1>14. ASSUME NEW c \in Calls, NEW k \in Keys, FindKey(c, k) PROVE TypeOK'
  BY <1>14 DEF TypeOK, FindKey, MayStart, Goto
<1>15. ASSUME NEW c \in Calls, Announce(c) PROVE TypeOK'
  <2>1. outbox' \in Seq(Event) /\ Len(outbox') <= MaxOutbox
    BY <1>15, PublishType DEF TypeOK, Announce, EventType
  <2>. QED BY <1>15, <2>1 DEF TypeOK, Announce, Goto
<1>16. ASSUME NEW c \in Calls, NEW from \in PC, NEW event \in Outcome, Finish(c, from, event)
       PROVE  TypeOK'
  <2>1. outbox' \in Seq(Event) /\ Len(outbox') <= MaxOutbox
    BY <1>16, PublishType DEF TypeOK, Finish, EventType
  <2>. QED BY <1>16, <2>1 DEF TypeOK, Finish, Goto, Reply
<1>17. ASSUME NEW c \in Calls, Cancel(c) PROVE TypeOK'
  <2>1. outbox' \in Seq(Event) /\ Len(outbox') <= MaxOutbox
    BY <1>17, PublishType DEF TypeOK, Cancel, EventType
  <2>. QED BY <1>17, <2>1 DEF TypeOK, Cancel
<1>18. ASSUME SetInventoryStatus PROVE TypeOK'
  BY <1>18 DEF TypeOK, SetInventoryStatus
<1>19. ASSUME SetPaymentStatus PROVE TypeOK'
  BY <1>19 DEF TypeOK, SetPaymentStatus
<1>20. ASSUME UNCHANGED vars PROVE TypeOK'
  BY <1>20 DEF TypeOK, vars
<1>21. ASSUME NEW c \in Calls, Handle(c) PROVE TypeOK'
  <2>1. ASSUME FinishDegraded(c) \/ FinishPaymentPending(c) \/ FinishConfirmed(c)
        PROVE  TypeOK'
    BY <2>1, <1>16 DEF FinishDegraded, FinishPaymentPending, FinishConfirmed, Outcome
  <2>. QED BY <1>21, <2>1, <1>2, <1>3, <1>4, <1>5, <1>6, <1>7, <1>8, <1>9, <1>10, <1>11, <1>12,
              <1>15
           DEF Handle
<1>. QED BY <1>1, <1>13, <1>14, <1>17, <1>18, <1>19, <1>20, <1>21 DEF Next, Start

-----------------------------------------------------------------------------
(* The keys. *)

\* KeysInv without its type part, which NextTypeOK keeps.
KeysOnly ==
  /\ ClaimantOfKey
  /\ SerialTurns
  /\ \A c \in Calls :
       KeyOfCall(c) /\ StoredByPlace(c) /\ OthersOnlyLook(c) /\ ReplyOfEnded(c)
  /\ ReplaysAgree

\* A step between two places after the order was stored: it touches neither keys
\* nor records, and an answer it gives is its own.
Internal(c) ==
  /\ pc[c] \notin {"idle", "lookup", "create", "done"}
  /\ \E to \in PC \ {"idle", "lookup", "create"} : pc' = [pc EXCEPT ![c] = to]
  /\ UNCHANGED <<key, records>>
  /\ \A d \in Calls : Stored(d)' <=> Stored(d)
  /\ \/ UNCHANGED reply
     \/ reply' = [reply EXCEPT ![c] = [order |-> c, idempotent |-> FALSE]]

\* Such a step keeps what the invariant says of keys.
LEMMA InternalKeepsKeys ==
  ASSUME TypeOK, KeysOnly, NEW c \in Calls, Internal(c)
  PROVE  KeysOnly'
<1>. USE OrdersAssumption DEF TypeOK, KeysOnly, Internal
<1>1. ClaimantOfKey'
  BY DEF ClaimantOfKey, KeyOfCall
<1>2. SerialTurns'
  BY DEF SerialTurns, InFlight
<1>3. \A d \in Calls : KeyOfCall(d)'
  BY DEF KeyOfCall
<1>4. \A d \in Calls : StoredByPlace(d)'
  BY DEF StoredByPlace, KeyOfCall, ClaimantOfKey
<1>5. \A d \in Calls : OthersOnlyLook(d)'
  BY DEF OthersOnlyLook, KeyOfCall, StoredByPlace, ClaimantOfKey
<1>6. \A d \in Calls : ReplyOfEnded(d)'
  BY DEF ReplyOfEnded
<1>7. ReplaysAgree'
  <2>1. ASSUME NEW e \in Calls, reply[e].idempotent' PROVE ReplayOf(e)'
    <3>1. reply'[e] = reply[e] /\ key' = key /\ records' = records
      BY <2>1
    <3>2. ReplayOf(e) /\ KeyOfCall(e) /\ ClaimantOfKey
      BY DEF ReplaysAgree, ReplayOf
    <3>3. reply[e].order \in Calls
      BY <2>1, <3>1, <3>2 DEF ReplayOf, ClaimantOfKey, KeyOfCall
    <3>. QED BY <2>1, <3>1, <3>2, <3>3 DEF ReplayOf, Stored
  <2>. QED BY <2>1 DEF ReplaysAgree, ReplayOf
<1>. QED BY <1>1, <1>2, <1>3, <1>4, <1>5, <1>6, <1>7

\* A call without a key leaves the keys alone.
LEMMA StartKeepsKeys ==
  ASSUME TypeOK, KeysOnly, NEW c \in Calls, StartUnkeyed(c)
  PROVE  KeysOnly'
<1>. USE OrdersAssumption DEF TypeOK, KeysOnly, StartUnkeyed, Goto
<1>0. \A d \in Calls : ReplayOf(d)
  BY DEF ReplaysAgree, ReplayOf
<1>1. ClaimantOfKey'
  BY <1>0 DEF ClaimantOfKey, KeyOfCall
<1>2. SerialTurns'
  BY <1>0 DEF SerialTurns, InFlight, KeyOfCall
<1>3. \A d \in Calls : KeyOfCall(d)'
  BY <1>0 DEF KeyOfCall
<1>4. \A d \in Calls : StoredByPlace(d)'
  BY <1>0 DEF StoredByPlace, KeyOfCall, ClaimantOfKey, Stored
<1>5. \A d \in Calls : OthersOnlyLook(d)'
  BY <1>0 DEF OthersOnlyLook, KeyOfCall, StoredByPlace, ClaimantOfKey, Stored
<1>6. \A d \in Calls : ReplyOfEnded(d)'
  BY <1>0 DEF ReplyOfEnded
<1>7. \A d \in Calls : ReplayOf(d)'
  BY <1>0 DEF ReplayOf, ReplyOfEnded, KeyOfCall, ClaimantOfKey, Stored
<1>8. ReplaysAgree'
  BY <1>7 DEF ReplaysAgree, ReplayOf
<1>. QED BY <1>1, <1>2, <1>3, <1>4, <1>5, <1>6, <1>8

\* The first call with a key becomes its claimant.
LEMMA ClaimKeepsKeys ==
  ASSUME TypeOK, KeysOnly, NEW c \in Calls, NEW k \in Keys, ClaimKey(c, k)
  PROVE  KeysOnly'
<1>. USE OrdersAssumption DEF TypeOK, KeysOnly, ClaimKey, MayStart, InFlight, Goto
<1>0. \A d \in Calls : ReplayOf(d)
  BY DEF ReplaysAgree, ReplayOf
<1>1. ClaimantOfKey'
  BY <1>0 DEF ClaimantOfKey, KeyOfCall
<1>2. SerialTurns'
  BY <1>0 DEF SerialTurns, InFlight, KeyOfCall
<1>3. \A d \in Calls : KeyOfCall(d)'
  BY <1>0 DEF KeyOfCall
<1>4. \A d \in Calls : StoredByPlace(d)'
  BY <1>0 DEF StoredByPlace, KeyOfCall, ClaimantOfKey, Stored
<1>5. \A d \in Calls : OthersOnlyLook(d)'
  BY <1>0 DEF OthersOnlyLook, KeyOfCall, StoredByPlace, ClaimantOfKey, Stored
<1>6. \A d \in Calls : ReplyOfEnded(d)'
  BY <1>0 DEF ReplyOfEnded
<1>7. \A d \in Calls : ReplayOf(d)'
  BY <1>0 DEF ReplayOf, ReplyOfEnded, KeyOfCall, ClaimantOfKey, Stored
<1>8. ReplaysAgree'
  BY <1>7 DEF ReplaysAgree, ReplayOf
<1>. QED BY <1>1, <1>2, <1>3, <1>4, <1>5, <1>6, <1>8

\* A later call with the key goes to look its order up.
LEMMA FindKeepsKeys ==
  ASSUME TypeOK, KeysOnly, NEW c \in Calls, NEW k \in Keys, FindKey(c, k)
  PROVE  KeysOnly'
<1>. USE OrdersAssumption DEF TypeOK, KeysOnly, FindKey, MayStart, InFlight, Goto
<1>0. \A d \in Calls : ReplayOf(d)
  BY DEF ReplaysAgree, ReplayOf
<1>1. ClaimantOfKey'
  BY <1>0 DEF ClaimantOfKey, KeyOfCall
<1>2. SerialTurns'
  BY <1>0 DEF SerialTurns, InFlight, KeyOfCall
<1>3. \A d \in Calls : KeyOfCall(d)'
  BY <1>0 DEF KeyOfCall
<1>4. \A d \in Calls : StoredByPlace(d)'
  BY <1>0 DEF StoredByPlace, KeyOfCall, ClaimantOfKey, Stored
<1>5. \A d \in Calls : OthersOnlyLook(d)'
  BY <1>0 DEF OthersOnlyLook, KeyOfCall, StoredByPlace, ClaimantOfKey, Stored
<1>6. \A d \in Calls : ReplyOfEnded(d)'
  BY <1>0 DEF ReplyOfEnded
<1>7. \A d \in Calls : ReplayOf(d)'
  BY <1>0 DEF ReplayOf, ReplyOfEnded, KeyOfCall, ClaimantOfKey, Stored
<1>8. ReplaysAgree'
  BY <1>7 DEF ReplaysAgree, ReplayOf
<1>. QED BY <1>1, <1>2, <1>3, <1>4, <1>5, <1>6, <1>8

\* The lookup answers with the claimant's order.
LEMMA HitKeepsKeys ==
  ASSUME TypeOK, KeysOnly, NEW c \in Calls, LookupHit(c)
  PROVE  KeysOnly'
<1>. USE OrdersAssumption DEF TypeOK, KeysOnly, LookupHit, Goto
<1>0. \A d \in Calls : ReplayOf(d)
  BY DEF ReplaysAgree, ReplayOf
<1>1. ClaimantOfKey'
  BY <1>0 DEF ClaimantOfKey, KeyOfCall
<1>2. SerialTurns'
  BY <1>0 DEF SerialTurns, InFlight, KeyOfCall
<1>3. \A d \in Calls : KeyOfCall(d)'
  BY <1>0 DEF KeyOfCall
<1>4. \A d \in Calls : StoredByPlace(d)'
  BY <1>0 DEF StoredByPlace, KeyOfCall, ClaimantOfKey, Stored
<1>5. \A d \in Calls : OthersOnlyLook(d)'
  BY <1>0 DEF OthersOnlyLook, KeyOfCall, StoredByPlace, ClaimantOfKey, Stored
<1>6. \A d \in Calls : ReplyOfEnded(d)'
  BY <1>0 DEF ReplyOfEnded
<1>7. \A d \in Calls : ReplayOf(d)'
  BY <1>0 DEF ReplayOf, ReplyOfEnded, KeyOfCall, ClaimantOfKey, Stored
<1>8. ReplaysAgree'
  BY <1>7 DEF ReplaysAgree, ReplayOf
<1>. QED BY <1>1, <1>2, <1>3, <1>4, <1>5, <1>6, <1>8

\* The lookup can only miss for a key that is not serial: the claimant of a serial
\* key has answered before, so its order is stored.
LEMMA MissKeepsKeys ==
  ASSUME TypeOK, KeysOnly, NEW c \in Calls, LookupMiss(c)
  PROVE  KeysOnly'
<1>. USE OrdersAssumption DEF TypeOK, KeysOnly, LookupMiss, Goto
<1>0. \A d \in Calls : ReplayOf(d)
  BY DEF ReplaysAgree, ReplayOf
<1>a. key[c] \notin SerialKeys
  <2>. SUFFICES ASSUME key[c] \in SerialKeys PROVE FALSE
    OBVIOUS
  <2>. DEFINE w == records[key[c]]
  <2>1. w \in Calls /\ key[w] = key[c] /\ pc[w] \notin {"idle", "lookup"}
    BY DEF ClaimantOfKey, KeyOfCall
  <2>2. pc[w] = "done"
    BY <2>1 DEF SerialTurns, InFlight
  <2>. QED BY <2>1, <2>2 DEF StoredByPlace
<1>1. ClaimantOfKey'
  BY <1>0, <1>a DEF ClaimantOfKey, KeyOfCall
<1>2. SerialTurns'
  BY <1>0, <1>a DEF SerialTurns, InFlight, KeyOfCall
<1>3. \A d \in Calls : KeyOfCall(d)'
  BY <1>0, <1>a DEF KeyOfCall
<1>4. \A d \in Calls : StoredByPlace(d)'
  BY <1>0, <1>a DEF StoredByPlace, KeyOfCall, ClaimantOfKey, Stored
<1>5. \A d \in Calls : OthersOnlyLook(d)'
  BY <1>0, <1>a DEF OthersOnlyLook, KeyOfCall, StoredByPlace, ClaimantOfKey, Stored
<1>6. \A d \in Calls : ReplyOfEnded(d)'
  BY <1>0, <1>a DEF ReplyOfEnded
<1>7. \A d \in Calls : ReplayOf(d)'
  BY <1>0, <1>a DEF ReplayOf, ReplyOfEnded, KeyOfCall, ClaimantOfKey, Stored
<1>8. ReplaysAgree'
  BY <1>7 DEF ReplaysAgree, ReplayOf
<1>. QED BY <1>1, <1>2, <1>3, <1>4, <1>5, <1>6, <1>8

\* The order is stored by the claimant, or under a key that is not serial.
LEMMA CreateKeepsKeys ==
  ASSUME TypeOK, KeysOnly, NEW c \in Calls, Create(c)
  PROVE  KeysOnly'
<1>. USE OrdersAssumption DEF TypeOK, KeysOnly, Create, Update, Goto
<1>0. \A d \in Calls : ReplayOf(d)
  BY DEF ReplaysAgree, ReplayOf
<1>1. ClaimantOfKey'
  BY <1>0 DEF ClaimantOfKey, KeyOfCall
<1>2. SerialTurns'
  BY <1>0 DEF SerialTurns, InFlight, KeyOfCall
<1>3. \A d \in Calls : KeyOfCall(d)'
  BY <1>0 DEF KeyOfCall
<1>4. \A d \in Calls : StoredByPlace(d)'
  BY <1>0 DEF StoredByPlace, KeyOfCall, ClaimantOfKey, Stored
<1>5. \A d \in Calls : OthersOnlyLook(d)'
  BY <1>0 DEF OthersOnlyLook, KeyOfCall, StoredByPlace, ClaimantOfKey, Stored
<1>6. \A d \in Calls : ReplyOfEnded(d)'
  BY <1>0 DEF ReplyOfEnded
<1>7. \A d \in Calls : ReplayOf(d)'
  BY <1>0 DEF ReplayOf, ReplyOfEnded, KeyOfCall, ClaimantOfKey, Stored
<1>8. ReplaysAgree'
  BY <1>7 DEF ReplaysAgree, ReplayOf
<1>. QED BY <1>1, <1>2, <1>3, <1>4, <1>5, <1>6, <1>8

\* Everything CreateOrder does once its order is stored is an internal step.
LEMMA HandleIsInternal ==
  ASSUME TypeOK, NEW c \in Calls, StoredByPlace(c), Handle(c),
         ~LookupHit(c), ~LookupMiss(c), ~Create(c)
  PROVE  Internal(c)
<1>. USE DEF TypeOK, PC, Goto, Internal, Stored, history
<1>1. ASSUME Announce(c) PROVE Internal(c)
  BY <1>1 DEF Announce
<1>2. ASSUME ReserveOK(c) PROVE Internal(c)
  BY <1>2 DEF ReserveOK
<1>3. ASSUME ReserveDown(c) PROVE Internal(c)
  BY <1>3 DEF ReserveDown
<1>4. ASSUME DegradeInventory(c) PROVE Internal(c)
  BY <1>4 DEF DegradeInventory, Update, StoredByPlace
<1>5. ASSUME Confirm(c) PROVE Internal(c)
  BY <1>5 DEF Confirm, StoredByPlace
<1>6. ASSUME ChargeOK(c) PROVE Internal(c)
  BY <1>6 DEF ChargeOK
<1>7. ASSUME ChargeDown(c) PROVE Internal(c)
  BY <1>7 DEF ChargeDown
<1>8. ASSUME DegradePayment(c) PROVE Internal(c)
  BY <1>8 DEF DegradePayment, Update, StoredByPlace
<1>9. ASSUME ConfirmPaid(c) PROVE Internal(c)
  BY <1>9 DEF ConfirmPaid, StoredByPlace
<1>10. ASSUME FinishDegraded(c) PROVE Internal(c)
  BY <1>10 DEF FinishDegraded, Finish
<1>11. ASSUME FinishPaymentPending(c) PROVE Internal(c)
  BY <1>11 DEF FinishPaymentPending, Finish
<1>12. ASSUME FinishConfirmed(c) PROVE Internal(c)
  BY <1>12 DEF FinishConfirmed, Finish
<1>. QED BY <1>1, <1>2, <1>3, <1>4, <1>5, <1>6, <1>7, <1>8, <1>9, <1>10, <1>11, <1>12 DEF Handle

\* Cancelling, a change of a downstream service and stuttering leave the keys, the
\* calls and what is stored alone.
LEMMA OthersKeepKeys ==
  ASSUME TypeOK, KeysOnly, UNCHANGED <<pc, key, records, reply>>,
         \A d \in Calls : Stored(d)' <=> Stored(d)
  PROVE  KeysOnly'
<1>. USE OrdersAssumption DEF TypeOK, KeysOnly
<1>0. \A d \in Calls : ReplayOf(d)
  BY DEF ReplaysAgree, ReplayOf
<1>1. ClaimantOfKey'
  BY <1>0 DEF ClaimantOfKey
<1>2. SerialTurns'
  BY <1>0 DEF SerialTurns, InFlight
<1>3. \A d \in Calls : KeyOfCall(d)'
  BY <1>0 DEF KeyOfCall
<1>4. \A d \in Calls : StoredByPlace(d)'
  BY <1>0 DEF StoredByPlace
<1>5. \A d \in Calls : OthersOnlyLook(d)'
  BY <1>0 DEF OthersOnlyLook
<1>6. \A d \in Calls : ReplyOfEnded(d)'
  BY <1>0 DEF ReplyOfEnded
<1>7. \A d \in Calls : ReplayOf(d)'
  BY <1>0 DEF ReplayOf, KeyOfCall, ClaimantOfKey
<1>8. ReplaysAgree'
  BY <1>7 DEF ReplaysAgree, ReplayOf
<1>. QED BY <1>1, <1>2, <1>3, <1>4, <1>5, <1>6, <1>8

\* KeysInv is inductive.
LEMMA NextKeysInv == KeysInv /\ [Next]_vars => KeysInv'
<1>. SUFFICES ASSUME KeysInv, [Next]_vars PROVE KeysInv'
  OBVIOUS
<1>1. TypeOK /\ KeysOnly
  BY DEF KeysInv, KeysOnly
<1>2. TypeOK'
  BY <1>1, NextTypeOK DEF KeysOnly
<1>3. ASSUME NEW c \in Calls, Start(c) PROVE KeysOnly'
  BY <1>1, <1>3, StartKeepsKeys, ClaimKeepsKeys, FindKeepsKeys DEF Start
<1>4. ASSUME NEW c \in Calls, Handle(c) PROVE KeysOnly'
  <2>1. CASE LookupHit(c) \/ LookupMiss(c) \/ Create(c)
    BY <1>1, <2>1, HitKeepsKeys, MissKeepsKeys, CreateKeepsKeys
  <2>2. CASE ~(LookupHit(c) \/ LookupMiss(c) \/ Create(c))
    <3>1. Internal(c)
      BY <1>1, <1>4, <2>2, HandleIsInternal DEF KeysOnly
    <3>. QED BY <1>1, <3>1, InternalKeepsKeys
  <2>. QED BY <2>1, <2>2
<1>5. ASSUME NEW c \in Calls, Cancel(c) PROVE KeysOnly'
  <2>1. \A d \in Calls : Stored(d)' <=> Stored(d)
    BY <1>1, <1>5 DEF Cancel, Stored, TypeOK
  <2>2. UNCHANGED <<pc, key, records, reply>>
    BY <1>5 DEF Cancel
  <2>. QED BY <1>1, <2>1, <2>2, OthersKeepKeys
<1>6. ASSUME SetInventoryStatus \/ SetPaymentStatus \/ UNCHANGED vars PROVE KeysOnly'
  <2>1. UNCHANGED <<pc, key, records, status, reply>>
    BY <1>6 DEF SetInventoryStatus, SetPaymentStatus, vars
  <2>. QED BY <1>1, <2>1, OthersKeepKeys DEF Stored
<1>7. KeysOnly'
  BY <1>3, <1>4, <1>5, <1>6 DEF Next
<1>. QED BY <1>2, <1>7 DEF KeysInv, KeysOnly

\* KeysInv holds at the start.
LEMMA InitKeysInv == Init => KeysInv
<1>. SUFFICES ASSUME Init PROVE KeysInv
  OBVIOUS
<1>1. TypeOK
  BY InitTypeOK
<1>. QED
  BY <1>1, OrdersAssumption
  DEF Init, KeysInv, ClaimantOfKey, SerialTurns, InFlight, KeyOfCall, StoredByPlace,
      Stored, OthersOnlyLook, ReplyOfEnded, ReplaysAgree, NoReply

\* KeysInv holds always.
LEMMA KeysInvariant == Spec => []KeysInv
  BY InitKeysInv, NextKeysInv, PTL DEF Spec

-----------------------------------------------------------------------------
(* The theorems on keys. *)

\* The stores hold what their Go types say, and the outbox never outgrows maxSize,
\* for any maxSize.
THEOREM TypeCorrect == Spec => []TypeOK
<1>1. KeysInv => TypeOK
  BY DEF KeysInv
<1>. QED BY <1>1, KeysInvariant, PTL

\* All replays of a key answer with the stored order of the call that claimed it.
THEOREM ReplaysCorrect == Spec => []ReplaysAgree
<1>1. KeysInv => ReplaysAgree
  BY DEF KeysInv
<1>. QED BY <1>1, KeysInvariant, PTL

\* However many calls there are, a client that waits for its reply before it retries
\* makes at most one order with a key.
THEOREM SerialKeysCorrect == Spec => []OneOrderPerSerialKey
<1>1. KeysInv => OneOrderPerSerialKey
  BY DEF KeysInv, OthersOnlyLook, OneOrderPerSerialKey
<1>. QED BY <1>1, KeysInvariant, PTL

-----------------------------------------------------------------------------
(* The outcome of an order. *)

\* What has happened downstream for a call and what its order says of it, by the
\* place the call stands at.
OutcomeOf(c) ==
  /\ pc[c] \in {"idle", "lookup", "create", "announce", "reserve", "degradeInventory"} =>
       failure[c] = "none" /\ c \notin reserved /\ c \notin charged
  /\ pc[c] = "publishDegraded" =>
       failure[c] = "inventory" /\ c \notin reserved /\ c \notin charged
  /\ pc[c] \in {"confirm", "charge", "degradePayment"} =>
       failure[c] = "none" /\ c \in reserved /\ c \notin charged
  /\ pc[c] = "publishPaymentPending" =>
       failure[c] = "payment" /\ c \in reserved /\ c \notin charged
  /\ pc[c] \in {"confirmPaid", "publishConfirmed"} =>
       failure[c] = "none" /\ c \in reserved /\ c \in charged
  /\ (pc[c] = "done" /\ Stored(c)) =>
       \/ failure[c] = "inventory" /\ c \notin reserved /\ c \notin charged
       \/ failure[c] = "payment" /\ c \in reserved /\ c \notin charged
       \/ failure[c] = "none" /\ c \in reserved /\ c \in charged

\* The statuses an order may have, by the place its call stands at. At any place
\* a CancelOrder may have come in between.
StatusOf(c) ==
  /\ pc[c] \in {"idle", "lookup", "create"} => ~Stored(c)
  /\ pc[c] \in {"announce", "reserve", "degradeInventory", "confirm"} =>
       status[c] \in {"pending", "cancelled"}
  /\ pc[c] \in {"publishDegraded", "publishPaymentPending"} =>
       status[c] \in {"pending_payment", "cancelled"}
  /\ pc[c] = "publishConfirmed" => status[c] \in {"confirmed", "cancelled"}
  /\ (pc[c] = "done" /\ Stored(c) /\ c \in charged) => status[c] \in {"confirmed", "cancelled"}
  /\ (pc[c] = "done" /\ Stored(c) /\ c \notin charged) =>
       status[c] \in {"pending_payment", "cancelled"}

OutcomeInv == \A c \in Calls : OutcomeOf(c) /\ StatusOf(c)

\* Every step keeps the outcome invariant, of its own order and of the others.
LEMMA NextOutcomeInv == TypeOK /\ OutcomeInv /\ [Next]_vars => OutcomeInv'
<1>. SUFFICES ASSUME TypeOK, [Next]_vars,
                     NEW c \in Calls, OutcomeOf(c), StatusOf(c)
              PROVE  OutcomeOf(c)' /\ StatusOf(c)'
  BY DEF OutcomeInv
<1>. USE DEF TypeOK, clients, history, Goto, Update, OutcomeOf, StatusOf, Stored
<1>1. ASSUME NEW d \in Calls, StartUnkeyed(d) PROVE OutcomeOf(c)' /\ StatusOf(c)'
  BY <1>1 DEF StartUnkeyed
<1>2. ASSUME NEW d \in Calls, LookupHit(d) PROVE OutcomeOf(c)' /\ StatusOf(c)'
  BY <1>2 DEF LookupHit
<1>3. ASSUME NEW d \in Calls, LookupMiss(d) PROVE OutcomeOf(c)' /\ StatusOf(c)'
  BY <1>3 DEF LookupMiss
<1>4. ASSUME NEW d \in Calls, Create(d) PROVE OutcomeOf(c)' /\ StatusOf(c)'
  BY <1>4 DEF Create
<1>5. ASSUME NEW d \in Calls, Announce(d) PROVE OutcomeOf(c)' /\ StatusOf(c)'
  BY <1>5 DEF Announce
<1>6. ASSUME NEW d \in Calls, ReserveOK(d) PROVE OutcomeOf(c)' /\ StatusOf(c)'
  BY <1>6 DEF ReserveOK
<1>7. ASSUME NEW d \in Calls, ReserveDown(d) PROVE OutcomeOf(c)' /\ StatusOf(c)'
  BY <1>7 DEF ReserveDown
<1>8. ASSUME NEW d \in Calls, DegradeInventory(d) PROVE OutcomeOf(c)' /\ StatusOf(c)'
  BY <1>8 DEF DegradeInventory
<1>9. ASSUME NEW d \in Calls, Confirm(d) PROVE OutcomeOf(c)' /\ StatusOf(c)'
  BY <1>9 DEF Confirm
<1>10. ASSUME NEW d \in Calls, ChargeOK(d) PROVE OutcomeOf(c)' /\ StatusOf(c)'
  BY <1>10 DEF ChargeOK
<1>11. ASSUME NEW d \in Calls, ChargeDown(d) PROVE OutcomeOf(c)' /\ StatusOf(c)'
  BY <1>11 DEF ChargeDown
<1>12. ASSUME NEW d \in Calls, DegradePayment(d) PROVE OutcomeOf(c)' /\ StatusOf(c)'
  BY <1>12 DEF DegradePayment
<1>13. ASSUME NEW d \in Calls, ConfirmPaid(d) PROVE OutcomeOf(c)' /\ StatusOf(c)'
  BY <1>13 DEF ConfirmPaid
<1>14. ASSUME NEW d \in Calls, FinishDegraded(d) PROVE OutcomeOf(c)' /\ StatusOf(c)'
  BY <1>14 DEF FinishDegraded, Finish
<1>15. ASSUME NEW d \in Calls, FinishPaymentPending(d) PROVE OutcomeOf(c)' /\ StatusOf(c)'
  BY <1>15 DEF FinishPaymentPending, Finish
<1>16. ASSUME NEW d \in Calls, FinishConfirmed(d) PROVE OutcomeOf(c)' /\ StatusOf(c)'
  BY <1>16 DEF FinishConfirmed, Finish
<1>17. ASSUME NEW d \in Calls, NEW k \in Keys, ClaimKey(d, k) \/ FindKey(d, k)
      PROVE  OutcomeOf(c)' /\ StatusOf(c)'
  BY <1>17 DEF ClaimKey, FindKey, MayStart
<1>18. ASSUME NEW d \in Calls, Cancel(d) PROVE OutcomeOf(c)' /\ StatusOf(c)'
  BY <1>18 DEF Cancel
<1>19. ASSUME SetInventoryStatus \/ SetPaymentStatus \/ UNCHANGED vars
      PROVE  OutcomeOf(c)' /\ StatusOf(c)'
  BY <1>19 DEF SetInventoryStatus, SetPaymentStatus, vars
<1>20. ASSUME NEW d \in Calls, Handle(d) PROVE OutcomeOf(c)' /\ StatusOf(c)'
  BY <1>20, <1>2, <1>3, <1>4, <1>5, <1>6, <1>7, <1>8, <1>9, <1>10, <1>11, <1>12, <1>13, <1>14,
     <1>15, <1>16
  DEF Handle
<1>. QED BY <1>1, <1>17, <1>18, <1>19, <1>20 DEF Next, Start

\* TypeOK, whose proof goes through KeysInv, and OutcomeInv hold always.
LEMMA OutcomeInvariant == Spec => [](TypeOK /\ OutcomeInv)
<1>1. Init => OutcomeInv
  BY DEF Init, OutcomeInv, OutcomeOf, StatusOf, Stored
<1>2. TypeOK /\ OutcomeInv /\ [Next]_vars => OutcomeInv'
  BY NextOutcomeInv
<1>. QED BY <1>1, <1>2, TypeCorrect, PTL DEF Spec

-----------------------------------------------------------------------------
(* The theorems on outcomes. *)

\* When CreateOrder has answered, status, degraded mode and failure reason of its
\* order say truly whether stock is held and whether the order is paid.
THEOREM OutcomeCorrect == Spec => []OutcomeMatchesDownstream
<1>1. TypeOK /\ OutcomeInv => OutcomeMatchesDownstream
  BY DEF TypeOK, PC, OutcomeInv, OutcomeOf, StatusOf, Stored, OutcomeMatchesDownstream
<1>. QED BY <1>1, OutcomeInvariant, PTL

\* Once CreateOrder has answered, nothing but a cancellation changes its order.
THEOREM SettledOrderCorrect == Spec => SettledOrderOnlyCancels
<1>1. ASSUME TypeOK, [Next]_vars, NEW c \in Calls, pc[c] = "done"
      PROVE  status'[c] \in {status[c], "cancelled"} /\ failure'[c] = failure[c]
  <2>. USE <1>1 DEF TypeOK, history, clients, Goto, Update
  <2>1. ASSUME NEW d \in Calls, Start(d) PROVE status' = status /\ failure' = failure
    BY <2>1 DEF Start, StartUnkeyed, ClaimKey, FindKey
  <2>2. ASSUME NEW d \in Calls, Handle(d)
        PROVE  status'[c] = status[c] /\ failure'[c] = failure[c]
    BY <2>2 DEF Handle, LookupHit, LookupMiss, Create, Announce, ReserveOK, ReserveDown,
         DegradeInventory, Confirm, ChargeOK, ChargeDown, DegradePayment, ConfirmPaid,
         FinishDegraded, FinishPaymentPending, FinishConfirmed, Finish
  <2>3. ASSUME NEW d \in Calls, Cancel(d)
        PROVE  status'[c] \in {status[c], "cancelled"} /\ failure'[c] = failure[c]
    BY <2>3 DEF Cancel
  <2>4. ASSUME SetInventoryStatus \/ SetPaymentStatus \/ UNCHANGED vars
        PROVE  status' = status /\ failure' = failure
    BY <2>4 DEF SetInventoryStatus, SetPaymentStatus, vars
  <2>. QED BY <2>1, <2>2, <2>3, <2>4 DEF Next
<1>2. TypeOK /\ [Next]_vars =>
        [\A c \in Calls : pc[c] = "done" =>
           /\ status'[c] \in {status[c], "cancelled"}
           /\ failure'[c] = failure[c]]_vars
  BY <1>1
<1>. QED BY <1>2, TypeCorrect, PTL DEF Spec, SettledOrderOnlyCancels

-----------------------------------------------------------------------------
(* The outbox. *)

OutboxInv == EventsInOrder /\ EventsAreTrue /\ EventsLostOnlyWhenFull

\* What the outbox holds after Publish: the new event last, the others as they were,
\* the oldest of them gone if it was full.
LEMMA PublishContents ==
  ASSUME NEW type \in EventType, NEW c \in Calls,
         outbox \in Seq(Event), Len(outbox) <= MaxOutbox,
         Publish(type, c)
  PROVE  \E k \in {0, 1} :
           /\ k = 1 <=> Len(outbox) = MaxOutbox
           /\ Len(outbox') = Len(outbox) + 1 - k
           /\ \A i \in 1 .. Len(outbox') - 1 : outbox'[i] = outbox[i + k]
           /\ outbox'[Len(outbox')] = [type |-> type, order |-> c]
<1> DEFINE e == [type |-> type, order |-> c]
           grown == Append(outbox, e)
<1>1. MaxOutbox \in Nat \ {0} /\ Len(outbox) \in Nat /\ e \in Event
  BY OrdersAssumption, LenProperties DEF Event
<1>. HIDE DEF e
<1>2. /\ grown \in Seq(Event) /\ Len(grown) = Len(outbox) + 1
      /\ \A i \in 1 .. Len(outbox) : grown[i] = outbox[i]
      /\ grown[Len(outbox) + 1] = e
  BY <1>1, AppendProperties
<1>3. outbox' = IF Len(grown) > MaxOutbox
                  THEN SubSeq(grown, Len(grown) - MaxOutbox + 1, Len(grown)) ELSE grown
  BY DEF Publish, e
<1>. HIDE DEF grown
<1>4. CASE Len(outbox) = MaxOutbox
  <2>1. outbox' = SubSeq(grown, 2, Len(outbox) + 1)
    <3>1. Len(grown) - MaxOutbox + 1 = 2 /\ Len(grown) > MaxOutbox
      BY <1>1, <1>2, <1>4
    <3>. QED BY <1>2, <1>3, <3>1
  <2>2. \A i \in 2 .. Len(outbox) + 1 : grown[i] \in Event
    BY <1>1, <1>2, ElementOfSeq
  <2>3. /\ Len(outbox') = Len(outbox)
        /\ \A i \in 1 .. Len(outbox) : outbox'[i] = grown[i + 1]
    <3>1. Len(SubSeq(grown, 2, Len(outbox) + 1)) = Len(outbox)
      BY <1>1, <1>2, <2>2, SubSeqProperties
    <3>2. \A i \in 1 .. Len(outbox) :
            SubSeq(grown, 2, Len(outbox) + 1)[i] = grown[2 + i - 1] /\ 2 + i - 1 = i + 1
      BY <1>1, <1>2, <2>2, SubSeqProperties
    <3>. QED BY <2>1, <3>1, <3>2
  <2>. WITNESS 1 \in {0, 1}
  <2>. QED BY <1>1, <1>2, <1>4, <2>3 DEF e
<1>5. CASE Len(outbox) # MaxOutbox
  <2>1. outbox' = grown
    BY <1>1, <1>2, <1>3, <1>5
  <2>. WITNESS 0 \in {0, 1}
  <2>. QED BY <1>1, <1>2, <1>5, <2>1 DEF e
<1>. QED BY <1>4, <1>5

\* Each entry of the outbox is an event of some call.
LEMMA OutboxEntries ==
  ASSUME TypeOK, NEW i \in DOMAIN outbox
  PROVE  \E t \in EventType, d \in Calls : outbox[i] = [type |-> t, order |-> d]
<1>1. outbox[i] \in Event
  BY ElementOfSeq, LenProperties DEF TypeOK
<1>. QED BY <1>1 DEF Event

\* A step that publishes nothing keeps the invariant if nothing new has happened.
LEMMA QuietKeepsOutbox ==
  ASSUME OutboxInv, outbox' = outbox,
         \A d \in Calls, t \in EventType : Told(t, d)' <=> Told(t, d)
  PROVE  OutboxInv'
<1>1. EventsInOrder'
  BY DEF OutboxInv, EventsInOrder
<1>2. EventsAreTrue'
  BY DEF OutboxInv, EventsAreTrue, InOutbox
<1>3. EventsLostOnlyWhenFull'
  BY DEF OutboxInv, EventsLostOnlyWhenFull, InOutbox
<1>. QED BY <1>1, <1>2, <1>3 DEF OutboxInv

\* So does a step that publishes just what has newly happened, after events it may follow.
LEMMA PublishKeepsOutbox ==
  ASSUME TypeOK, OutboxInv, NEW type \in EventType, NEW c \in Calls, Publish(type, c),
         \A d \in Calls, t \in EventType :
           Told(t, d)' <=> Told(t, d) \/ (d = c /\ t = type),
         \A t \in EventType : Told(t, c) => MayPrecede(t, type)
  PROVE  OutboxInv'
<1> DEFINE e == [type |-> type, order |-> c]
           n == Len(outbox')
<1>1. PICK k \in {0, 1} :
        /\ k = 1 <=> Len(outbox) = MaxOutbox
        /\ n = Len(outbox) + 1 - k
        /\ \A i \in 1 .. n - 1 : outbox'[i] = outbox[i + k]
        /\ outbox'[n] = e
  BY PublishContents DEF TypeOK
<1>2. /\ Len(outbox) \in Nat /\ MaxOutbox \in Nat /\ Len(outbox) <= MaxOutbox
      /\ DOMAIN outbox = 1 .. Len(outbox) /\ outbox' \in Seq(Event)
  BY OrdersAssumption, LenProperties, PublishType DEF TypeOK
<1>3. DOMAIN outbox' = 1 .. n /\ n \in Nat
  BY <1>2, LenProperties
<1>4. \A i \in DOMAIN outbox :
        \E t \in EventType, d \in Calls : outbox[i] = [type |-> t, order |-> d]
  BY OutboxEntries
<1>5. e.type = type /\ e.order = c
  OBVIOUS
<1>. HIDE DEF e, n
<1>6. \A i \in 1 .. n - 1 : i + k \in DOMAIN outbox
  <2>1. /\ k = 0 \/ k = 1
        /\ n = Len(outbox) + 1 - k
    BY <1>1
  <2>. QED BY <1>2, <2>1
<1>7. EventsAreTrue'
  <2>1. ASSUME NEW d \in Calls, NEW t \in EventType, NEW i \in 1 .. n,
               outbox'[i] = [type |-> t, order |-> d]
        PROVE  Told(t, d)'
    <3>1. CASE i = n
      BY <1>1, <2>1, <3>1 DEF e
    <3>2. CASE i # n
      <4>1. i \in 1 .. n - 1
        BY <1>3, <3>2
      <4>2. InOutbox(t, d)
        BY <1>1, <1>6, <2>1, <4>1 DEF InOutbox
      <4>. QED BY <4>2 DEF OutboxInv, EventsAreTrue
    <3>. QED BY <3>1, <3>2
  <2>. QED BY <1>3, <2>1 DEF EventsAreTrue, InOutbox
<1>8. EventsInOrder'
  <2>1. ASSUME NEW i \in 1 .. n, NEW j \in 1 .. n, i < j,
               outbox'[i].order = outbox'[j].order
        PROVE  MayPrecede(outbox'[i].type, outbox'[j].type)
    <3>1. i \in 1 .. n - 1
      BY <1>3, <2>1
    <3>2. outbox'[i] = outbox[i + k] /\ i + k \in DOMAIN outbox
      BY <1>1, <1>6, <3>1
    <3>3. CASE j = n
      <4>1. PICK t \in EventType, d \in Calls : outbox[i + k] = [type |-> t, order |-> d]
        BY <1>4, <3>2
      <4>2. d = c
        BY <1>1, <1>5, <2>1, <3>2, <3>3, <4>1
      <4>3. Told(t, c)
        BY <3>2, <4>1, <4>2 DEF OutboxInv, EventsAreTrue, InOutbox
      <4>. QED BY <1>1, <1>5, <3>2, <3>3, <4>1, <4>3
    <3>4. CASE j # n
      <4>1. j \in 1 .. n - 1
        BY <1>3, <3>4
      <4>2. outbox'[j] = outbox[j + k] /\ j + k \in DOMAIN outbox /\ i + k < j + k
        BY <1>1, <1>6, <2>1, <4>1
      <4>. QED BY <2>1, <3>2, <4>2 DEF OutboxInv, EventsInOrder
    <3>. QED BY <3>3, <3>4
  <2>. QED BY <1>3, <2>1 DEF EventsInOrder, MayPrecede
<1>9. EventsLostOnlyWhenFull'
  <2>1. ASSUME NEW d \in Calls, NEW t \in EventType, Told(t, d)', n # MaxOutbox
        PROVE  \E i \in DOMAIN outbox' : outbox'[i] = [type |-> t, order |-> d]
    <3>1. k = 0 /\ Len(outbox) # MaxOutbox /\ n = Len(outbox) + 1
      <4>1. k = 1 => n = MaxOutbox
        BY <1>1, <1>2
      <4>2. k = 0
        BY <2>1, <4>1
      <4>. QED BY <1>1, <1>2, <4>2
    <3>2. CASE d = c /\ t = type
      <4>1. Len(outbox) \in Nat
        BY <1>2
      <4>2. n \in 1 .. n
        BY <3>1, <4>1
      <4>. QED BY <1>1, <1>3, <3>2, <4>2 DEF e
    <3>3. CASE Told(t, d)
      <4>1. PICK i \in DOMAIN outbox : outbox[i] = [type |-> t, order |-> d]
        BY <3>1, <3>3 DEF OutboxInv, EventsLostOnlyWhenFull, InOutbox
      <4>2. i \in 1 .. Len(outbox) /\ Len(outbox) \in Nat
        BY <1>2, <4>1
      <4>3. i \in 1 .. n - 1 /\ i \in 1 .. n /\ i + k = i
        BY <3>1, <4>2
      <4>. QED BY <1>1, <1>3, <4>1, <4>3
    <3>. QED BY <2>1, <3>2, <3>3
  <2>. QED BY <2>1 DEF EventsLostOnlyWhenFull, InOutbox, n
<1>. QED BY <1>7, <1>8, <1>9 DEF OutboxInv

\* OutboxInv is kept by every step.
LEMMA NextOutboxInv == KeysInv /\ OutcomeInv /\ OutboxInv /\ [Next]_vars => OutboxInv'
<1>. SUFFICES ASSUME TypeOK, OutboxInv, [Next]_vars,
                     \A c \in Calls : StoredByPlace(c) /\ OutcomeOf(c) /\ StatusOf(c)
              PROVE  OutboxInv'
  BY DEF KeysInv, OutcomeInv
<1>. DEFINE Quiet == /\ outbox' = outbox
                     /\ \A d \in Calls, t \in EventType : Told(t, d)' <=> Told(t, d)
<1>1. Quiet => OutboxInv'
  BY QuietKeepsOutbox
<1>2. /\ pc \in [Calls -> PC] /\ status \in [Calls -> Status]
      /\ failure \in [Calls -> {"none", "inventory", "payment"}]
  BY DEF TypeOK
<1>3. ASSUME NEW c \in Calls, Start(c) PROVE Quiet
  BY <1>2, <1>3 DEF Start, StartUnkeyed, ClaimKey, FindKey, MayStart, Goto, Told, Stored,
                    history, StatusOf
<1>4. ASSUME NEW c \in Calls, LookupHit(c) \/ LookupMiss(c) PROVE Quiet
  BY <1>2, <1>4 DEF LookupHit, LookupMiss, Goto, Told, Stored, history, OutcomeOf, StatusOf
<1>5. ASSUME NEW c \in Calls,
             ReserveOK(c) \/ ReserveDown(c) \/ ChargeOK(c) \/ ChargeDown(c)
      PROVE  Quiet
  BY <1>2, <1>5 DEF ReserveOK, ReserveDown, ChargeOK, ChargeDown, Goto, Told, Stored, history
<1>6. ASSUME NEW c \in Calls, Create(c) PROVE Quiet
  BY <1>2, <1>6 DEF Create, Update, Goto, Told, Stored, history, StatusOf
<1>7. ASSUME NEW c \in Calls,
             DegradeInventory(c) \/ Confirm(c) \/ DegradePayment(c) \/ ConfirmPaid(c)
      PROVE  Quiet
  <2>1. Stored(c)
    <3>1. pc[c] \in {"degradeInventory", "confirm", "degradePayment", "confirmPaid"}
      BY <1>7 DEF DegradeInventory, Confirm, DegradePayment, ConfirmPaid, Goto
    <3>. QED BY <3>1 DEF StoredByPlace
  <2>. QED BY <1>2, <1>7, <2>1 DEF DegradeInventory, Confirm, DegradePayment, ConfirmPaid,
                                   Update, Goto, Told, Stored, history
<1>8. ASSUME NEW c \in Calls, Announce(c) PROVE OutboxInv'
  <2>1. Publish("order.created", c) /\ pc[c] = "announce" /\ "order.created" \in EventType
    BY <1>8 DEF Announce, Goto, EventType
  <2>2. \A d \in Calls, t \in EventType :
          Told(t, d)' <=> Told(t, d) \/ (d = c /\ t = "order.created")
    BY <1>2, <1>8 DEF Announce, Goto, Told, Stored, history, StatusOf
  <2>3. \A t \in EventType : Told(t, c) => MayPrecede(t, "order.created")
    BY <2>1 DEF Told, MayPrecede, Outcome
  <2>. QED BY <2>1, <2>2, <2>3, PublishKeepsOutbox
<1>9. ASSUME NEW c \in Calls, NEW from \in PC \ {"announce", "done"}, NEW event \in Outcome,
             Finish(c, from, event),
             \A t \in Outcome : Told(t, c)' <=> t = event
      PROVE  OutboxInv'
  <2>1. Publish(event, c) /\ pc[c] = from /\ event \in EventType
    BY <1>9 DEF Finish, Goto, EventType
  <2>2. \A d \in Calls, t \in EventType : Told(t, d)' <=> Told(t, d) \/ (d = c /\ t = event)
    <3>1. \A t \in Outcome : ~Told(t, c)
      BY <1>2, <2>1 DEF Told, Outcome
    <3>2. \A d \in Calls, t \in EventType :
            d # c \/ t \notin Outcome => (Told(t, d)' <=> Told(t, d))
      BY <1>2, <1>9 DEF Finish, Goto, Told, Stored, history, Outcome
    <3>. QED BY <1>9, <3>1, <3>2
  <2>3. \A t \in EventType : Told(t, c) => MayPrecede(t, event)
    BY <1>2, <2>1 DEF Told, MayPrecede, Outcome
  <2>. QED BY <2>1, <2>2, <2>3, PublishKeepsOutbox
<1>10. ASSUME NEW c \in Calls, FinishDegraded(c) PROVE OutboxInv'
  <2>1. \A t \in Outcome : Told(t, c)' <=> t = "order.degraded"
    BY <1>2, <1>10 DEF FinishDegraded, Finish, Goto, Told, OutcomeOf, history, Outcome
  <2>. QED BY <1>9, <1>10, <2>1 DEF FinishDegraded, Outcome, PC
<1>11. ASSUME NEW c \in Calls, FinishPaymentPending(c) PROVE OutboxInv'
  <2>1. \A t \in Outcome : Told(t, c)' <=> t = "order.payment_pending"
    BY <1>2, <1>11 DEF FinishPaymentPending, Finish, Goto, Told, OutcomeOf, history, Outcome
  <2>. QED BY <1>9, <1>11, <2>1 DEF FinishPaymentPending, Outcome, PC
<1>12. ASSUME NEW c \in Calls, FinishConfirmed(c) PROVE OutboxInv'
  <2>1. \A t \in Outcome : Told(t, c)' <=> t = "order.confirmed"
    BY <1>2, <1>12 DEF FinishConfirmed, Finish, Goto, Told, OutcomeOf, history, Outcome
  <2>. QED BY <1>9, <1>12, <2>1 DEF FinishConfirmed, Outcome, PC
<1>13. ASSUME NEW c \in Calls, Cancel(c) PROVE OutboxInv'
  <2>1. Publish("order.cancelled", c) /\ "order.cancelled" \in EventType
    BY <1>13 DEF Cancel, EventType
  <2>2. \A d \in Calls, t \in EventType :
          Told(t, d)' <=> Told(t, d) \/ (d = c /\ t = "order.cancelled")
    BY <1>2, <1>13 DEF Cancel, Told, Stored
  <2>3. \A t \in EventType : MayPrecede(t, "order.cancelled")
    BY DEF MayPrecede
  <2>. QED BY <2>1, <2>2, <2>3, PublishKeepsOutbox
<1>14. ASSUME SetInventoryStatus \/ SetPaymentStatus \/ UNCHANGED vars PROVE Quiet
  BY <1>14 DEF SetInventoryStatus, SetPaymentStatus, vars, history, Told, Stored
<1>. HIDE DEF Quiet
<1>. QED BY <1>1, <1>3, <1>4, <1>5, <1>6, <1>7, <1>8, <1>10, <1>11, <1>12, <1>13, <1>14
     DEF Next, Handle

\* Whatever calls and cancellations interleave, and for any size of the outbox, its
\* events are true of their orders, each order's creation stands before its one outcome,
\* only cancellations stand elsewhere, and an event is missing only of a full outbox.
THEOREM OutboxCorrect == Spec => []OutboxIsFaithful
<1>1. Init => OutboxInv
  <2>. SUFFICES ASSUME Init PROVE OutboxInv
    OBVIOUS
  <2>1. Len(outbox) = 0 /\ DOMAIN outbox = {}
    BY DEF Init
  <2>2. \A c \in Calls, type \in EventType : ~Told(type, c)
    BY DEF Init, Stored, Told
  <2>. QED BY <2>1, <2>2
           DEF OutboxInv, EventsInOrder, EventsAreTrue, InOutbox, EventsLostOnlyWhenFull
<1>2. OutboxInv => OutboxIsFaithful
  BY DEF OutboxInv, OutboxIsFaithful
<1>. QED BY <1>1, <1>2, NextOutboxInv, KeysInvariant, OutcomeInvariant, PTL DEF Spec
=============================================================================
