--------------------------- MODULE PaymentsProofs ---------------------------
(***************************************************************************)
(* Theorems about Payments, for any sets of calls, refunds and keys.       *)
(***************************************************************************)
EXTENDS Payments, TLAPS

-----------------------------------------------------------------------------
(* The invariant on keys. *)

\* A key's record names the call that claimed it, which came before all others.
ClaimantOfKey ==
  \A k \in Keys : records[k] # NoPayment =>
    /\ records[k] \in Charges
    /\ key[records[k]] = k
    /\ pc[records[k]] \notin {"idle", "lookup", "refund", "recordRefund"}

KeyOfCall(c) ==
  /\ pc[c] \in {"idle", "refund", "recordRefund"} => key[c] = NoKey
  /\ pc[c] = "lookup" => key[c] \in Keys
  /\ key[c] \in Keys => records[key[c]] # NoPayment

\* One call at a time works on a serial key.
SerialTurns ==
  \A c, d \in Charges :
    (key[c] = key[d] /\ key[c] \in SerialKeys /\ InFlight(c) /\ InFlight(d)) => c = d

\* Only the claimant of a serial key gets past the lookup and has a payment, and once
\* it has ended it does have one. Other calls come after it has ended.
ClaimantPays(c) ==
  /\ (key[c] \in SerialKeys /\ records[key[c]] # c) =>
       pc[c] \in {"lookup", "done"} /\ ~Stored(c) /\ pc[records[key[c]]] = "done"
  /\ (key[c] \in SerialKeys /\ records[key[c]] = c /\ pc[c] = "done") => Stored(c)

\* All replies to a serial key name its claimant.
ReplyOfSerial(c) ==
  (key[c] \in SerialKeys /\ pc[c] = "done") => reply[c].payment = records[key[c]]

\* An error is the answer of a call that has ended.
ErrorOf(c) == reply[c].error => pc[c] = "done"

KeysInv ==
  /\ ClaimantOfKey
  /\ SerialTurns
  /\ \A c \in Charges : KeyOfCall(c) /\ ClaimantPays(c) /\ ReplyOfSerial(c) /\ ErrorOf(c)

-----------------------------------------------------------------------------
(* The invariant on money. *)

\* What is stored about a payment and whether it was charged, by the place its call
\* stands at.
MoneyOf(c) ==
  /\ ~Recorded(c) => attempts[c] = 0
  /\ pc[c] \in {"idle", "lookup", "create", "refund", "recordRefund"} =>
       ~Stored(c) /\ c \notin taken
  /\ pc[c] \in {"charge", "recordFailure"} => status[c] = "pending" /\ c \notin taken
  /\ pc[c] = "recordSuccess" => status[c] = "pending" /\ c \in taken
  /\ pc[c] = "returnPayment" => status[c] \in {"succeeded", "refunded"} /\ c \in taken
  /\ pc[c] = "returnError" => status[c] = "failed" /\ c \notin taken
  /\ (pc[c] = "done" /\ Stored(c)) =>
       \/ status[c] \in {"succeeded", "refunded"} /\ c \in taken
       \/ status[c] = "failed" /\ c \notin taken
  /\ (pc[c] = "done" /\ ~Stored(c)) => c \notin taken

\* A refund is of a payment that has been charged and recorded, and once it was paid
\* out and its call has ended, that payment is refunded.
RefundOf(r) ==
  /\ pc[r] \in {"refund", "recordRefund"} \/ r \in returned =>
       /\ target[r] \in Charges
       /\ pc[target[r]] \in {"returnPayment", "done"}
       /\ status[target[r]] \in {"succeeded", "refunded"}
  /\ pc[r] = "recordRefund" => r \in returned
  /\ r \in returned => pc[r] \in {"recordRefund", "done"}
  /\ (r \in returned /\ pc[r] = "done") => status[target[r]] = "refunded"

\* A payment is marked refunded only for a refund that was paid out.
RefundedBySome(p) == status[p] = "refunded" => \E r \in returned : target[r] = p

MoneyInv ==
  /\ \A c \in Charges : MoneyOf(c) /\ RefundedBySome(c)
  /\ \A r \in Refunds : RefundOf(r)

IInv == TypeOK /\ KeysInv /\ MoneyInv

-----------------------------------------------------------------------------
(* Types. *)

\* Every step keeps the types. That a payment is attempted at most once needs the
\* place of its call, and that a replay answers with a payment needs its key.
LEMMA NextTypeOK == IInv /\ [Next]_vars => TypeOK'
<1>. SUFFICES ASSUME IInv, [Next]_vars PROVE TypeOK'
  OBVIOUS
<1>. USE PaymentsAssumption DEF IInv, TypeOK, Status, Goto, Answer
<1>1. ASSUME NEW c \in Charges, StartUnkeyed(c) PROVE TypeOK'
  BY <1>1 DEF StartUnkeyed
<1>2. ASSUME NEW c \in Charges, NEW k \in Keys, ClaimKey(c, k) PROVE TypeOK'
  BY <1>2 DEF ClaimKey, MayStart
<1>3. ASSUME NEW c \in Charges, NEW k \in Keys, FindKey(c, k) PROVE TypeOK'
  BY <1>3 DEF FindKey, MayStart
<1>4. ASSUME NEW c \in Charges, LookupHit(c) PROVE TypeOK'
  BY <1>4 DEF LookupHit, KeysInv, KeyOfCall
<1>5. ASSUME NEW c \in Charges, LookupMiss(c) PROVE TypeOK'
  BY <1>5 DEF LookupMiss
<1>6. ASSUME NEW c \in Charges, Create(c) PROVE TypeOK'
  BY <1>6 DEF Create
<1>7. ASSUME NEW c \in Charges, GatewayCharges(c) PROVE TypeOK'
  BY <1>7 DEF GatewayCharges
<1>8. ASSUME NEW c \in Charges, GatewayDeclines(c) PROVE TypeOK'
  BY <1>8 DEF GatewayDeclines
<1>9. ASSUME NEW c \in Charges, RecordFailure(c) PROVE TypeOK'
  BY <1>9 DEF RecordFailure, MoneyInv, MoneyOf, Recorded
<1>10. ASSUME NEW c \in Charges, RecordSuccess(c) PROVE TypeOK'
  BY <1>10 DEF RecordSuccess, MoneyInv, MoneyOf, Recorded
<1>11. ASSUME NEW r \in Refunds, NEW p \in Charges, BeginRefund(r, p) PROVE TypeOK'
  BY <1>11 DEF BeginRefund
<1>12. ASSUME NEW r \in Refunds, NEW p \in Charges, RejectRefund(r, p) PROVE TypeOK'
  BY <1>12 DEF RejectRefund
<1>13. ASSUME NEW r \in Refunds, GatewayRefunds(r) PROVE TypeOK'
  BY <1>13 DEF GatewayRefunds
<1>14. ASSUME NEW r \in Refunds, GatewayRefuses(r) PROVE TypeOK'
  BY <1>14 DEF GatewayRefuses
<1>15. ASSUME NEW r \in Refunds, RecordRefund(r) PROVE TypeOK'
  BY <1>15 DEF RecordRefund, MoneyInv, RefundOf
<1>16. ASSUME SetGatewayStatus PROVE TypeOK'
  BY <1>16 DEF SetGatewayStatus
<1>17. ASSUME UNCHANGED vars PROVE TypeOK'
  BY <1>17 DEF vars
<1>18. ASSUME NEW c \in Charges, ReturnError(c) PROVE TypeOK'
  BY <1>18 DEF ReturnError
<1>19. ASSUME NEW c \in Charges, ReturnPayment(c) PROVE TypeOK'
  BY <1>19 DEF ReturnPayment
<1>. QED BY <1>1, <1>2, <1>3, <1>4, <1>5, <1>6, <1>7, <1>8, <1>9, <1>10, <1>11, <1>12,
            <1>13, <1>14, <1>15, <1>16, <1>17, <1>18, <1>19
         DEF Next, Charge, Refund

-----------------------------------------------------------------------------
(* Money. *)

\* Every step keeps what is known of a payment, whosever step it is.
LEMMA NextMoneyOf ==
  ASSUME TypeOK, MoneyInv, [Next]_vars, NEW m \in Charges
  PROVE  MoneyOf(m)'
<1>. USE PaymentsAssumption DEF TypeOK, MoneyInv, MoneyOf, RefundOf, Stored, Recorded, Goto, Status
<1>1. ASSUME NEW c \in Charges, StartUnkeyed(c) PROVE MoneyOf(m)'
  BY <1>1 DEF StartUnkeyed
<1>2. ASSUME NEW c \in Charges, NEW k \in Keys, ClaimKey(c, k) PROVE MoneyOf(m)'
  BY <1>2 DEF ClaimKey, MayStart
<1>3. ASSUME NEW c \in Charges, NEW k \in Keys, FindKey(c, k) PROVE MoneyOf(m)'
  BY <1>3 DEF FindKey, MayStart
<1>4. ASSUME NEW c \in Charges, LookupHit(c) PROVE MoneyOf(m)'
  BY <1>4 DEF LookupHit
<1>5. ASSUME NEW c \in Charges, LookupMiss(c) PROVE MoneyOf(m)'
  BY <1>5 DEF LookupMiss
<1>6. ASSUME NEW c \in Charges, Create(c) PROVE MoneyOf(m)'
  BY <1>6 DEF Create
<1>7. ASSUME NEW c \in Charges, GatewayCharges(c) PROVE MoneyOf(m)'
  BY <1>7 DEF GatewayCharges
<1>8. ASSUME NEW c \in Charges, GatewayDeclines(c) PROVE MoneyOf(m)'
  BY <1>8 DEF GatewayDeclines
<1>9. ASSUME NEW c \in Charges, RecordFailure(c) PROVE MoneyOf(m)'
  BY <1>9 DEF RecordFailure
<1>10. ASSUME NEW c \in Charges, RecordSuccess(c) PROVE MoneyOf(m)'
  BY <1>10 DEF RecordSuccess
<1>11. ASSUME NEW r \in Refunds, NEW p \in Charges, BeginRefund(r, p) PROVE MoneyOf(m)'
  BY <1>11 DEF BeginRefund
<1>12. ASSUME NEW r \in Refunds, NEW p \in Charges, RejectRefund(r, p) PROVE MoneyOf(m)'
  BY <1>12 DEF RejectRefund
<1>13. ASSUME NEW r \in Refunds, GatewayRefunds(r) PROVE MoneyOf(m)'
  BY <1>13 DEF GatewayRefunds
<1>14. ASSUME NEW r \in Refunds, GatewayRefuses(r) PROVE MoneyOf(m)'
  BY <1>14 DEF GatewayRefuses
<1>15. ASSUME NEW r \in Refunds, RecordRefund(r) PROVE MoneyOf(m)'
  BY <1>15 DEF RecordRefund
<1>16. ASSUME SetGatewayStatus PROVE MoneyOf(m)'
  BY <1>16 DEF SetGatewayStatus
<1>17. ASSUME UNCHANGED vars PROVE MoneyOf(m)'
  BY <1>17 DEF vars
<1>18. ASSUME NEW c \in Charges, ReturnError(c) PROVE MoneyOf(m)'
  BY <1>18 DEF ReturnError
<1>19. ASSUME NEW c \in Charges, ReturnPayment(c) PROVE MoneyOf(m)'
  BY <1>19 DEF ReturnPayment
<1>. QED BY <1>1, <1>2, <1>3, <1>4, <1>5, <1>6, <1>7, <1>8, <1>9, <1>10, <1>11, <1>12,
            <1>13, <1>14, <1>15, <1>16, <1>17, <1>18, <1>19
         DEF Next, Charge, Refund

\* A payment stays refunded, and becomes so only for a refund that was paid out.
LEMMA NextRefundedBySome ==
  ASSUME TypeOK, MoneyInv, [Next]_vars, NEW m \in Charges
  PROVE  RefundedBySome(m)'
<1>. USE PaymentsAssumption DEF TypeOK, MoneyInv, RefundedBySome, RefundOf, Goto, Status
<1>1. ASSUME NEW c \in Charges, StartUnkeyed(c) PROVE RefundedBySome(m)'
  BY <1>1 DEF StartUnkeyed
<1>2. ASSUME NEW c \in Charges, NEW k \in Keys, ClaimKey(c, k) PROVE RefundedBySome(m)'
  BY <1>2 DEF ClaimKey, MayStart
<1>3. ASSUME NEW c \in Charges, NEW k \in Keys, FindKey(c, k) PROVE RefundedBySome(m)'
  BY <1>3 DEF FindKey, MayStart
<1>4. ASSUME NEW c \in Charges, LookupHit(c) PROVE RefundedBySome(m)'
  BY <1>4 DEF LookupHit
<1>5. ASSUME NEW c \in Charges, LookupMiss(c) PROVE RefundedBySome(m)'
  BY <1>5 DEF LookupMiss
<1>6. ASSUME NEW c \in Charges, Create(c) PROVE RefundedBySome(m)'
  BY <1>6 DEF Create
<1>7. ASSUME NEW c \in Charges, GatewayCharges(c) PROVE RefundedBySome(m)'
  BY <1>7 DEF GatewayCharges
<1>8. ASSUME NEW c \in Charges, GatewayDeclines(c) PROVE RefundedBySome(m)'
  BY <1>8 DEF GatewayDeclines
<1>9. ASSUME NEW c \in Charges, RecordFailure(c) PROVE RefundedBySome(m)'
  BY <1>9 DEF RecordFailure
<1>10. ASSUME NEW c \in Charges, RecordSuccess(c) PROVE RefundedBySome(m)'
  BY <1>10 DEF RecordSuccess
<1>11. ASSUME NEW r \in Refunds, NEW p \in Charges, BeginRefund(r, p) PROVE RefundedBySome(m)'
  BY <1>11 DEF BeginRefund
<1>12. ASSUME NEW r \in Refunds, NEW p \in Charges, RejectRefund(r, p) PROVE RefundedBySome(m)'
  BY <1>12 DEF RejectRefund
<1>13. ASSUME NEW r \in Refunds, GatewayRefunds(r) PROVE RefundedBySome(m)'
  BY <1>13 DEF GatewayRefunds
<1>14. ASSUME NEW r \in Refunds, GatewayRefuses(r) PROVE RefundedBySome(m)'
  BY <1>14 DEF GatewayRefuses
<1>15. ASSUME NEW r \in Refunds, RecordRefund(r) PROVE RefundedBySome(m)'
  BY <1>15 DEF RecordRefund
<1>16. ASSUME SetGatewayStatus PROVE RefundedBySome(m)'
  BY <1>16 DEF SetGatewayStatus
<1>17. ASSUME UNCHANGED vars PROVE RefundedBySome(m)'
  BY <1>17 DEF vars
<1>18. ASSUME NEW c \in Charges, ReturnError(c) PROVE RefundedBySome(m)'
  BY <1>18 DEF ReturnError
<1>19. ASSUME NEW c \in Charges, ReturnPayment(c) PROVE RefundedBySome(m)'
  BY <1>19 DEF ReturnPayment
<1>. QED BY <1>1, <1>2, <1>3, <1>4, <1>5, <1>6, <1>7, <1>8, <1>9, <1>10, <1>11, <1>12,
            <1>13, <1>14, <1>15, <1>16, <1>17, <1>18, <1>19
         DEF Next, Charge, Refund

\* Every step keeps what is known of a refund, whosever step it is.
LEMMA NextRefundOf ==
  ASSUME TypeOK, MoneyInv, [Next]_vars, NEW m \in Refunds
  PROVE  RefundOf(m)'
<1>. USE PaymentsAssumption DEF TypeOK, MoneyInv, MoneyOf, RefundOf, Stored, Recorded, Goto, Status
<1>1. ASSUME NEW c \in Charges, StartUnkeyed(c) PROVE RefundOf(m)'
  BY <1>1 DEF StartUnkeyed
<1>2. ASSUME NEW c \in Charges, NEW k \in Keys, ClaimKey(c, k) PROVE RefundOf(m)'
  BY <1>2 DEF ClaimKey, MayStart
<1>3. ASSUME NEW c \in Charges, NEW k \in Keys, FindKey(c, k) PROVE RefundOf(m)'
  BY <1>3 DEF FindKey, MayStart
<1>4. ASSUME NEW c \in Charges, LookupHit(c) PROVE RefundOf(m)'
  BY <1>4 DEF LookupHit
<1>5. ASSUME NEW c \in Charges, LookupMiss(c) PROVE RefundOf(m)'
  BY <1>5 DEF LookupMiss
<1>6. ASSUME NEW c \in Charges, Create(c) PROVE RefundOf(m)'
  BY <1>6 DEF Create
<1>7. ASSUME NEW c \in Charges, GatewayCharges(c) PROVE RefundOf(m)'
  BY <1>7 DEF GatewayCharges
<1>8. ASSUME NEW c \in Charges, GatewayDeclines(c) PROVE RefundOf(m)'
  BY <1>8 DEF GatewayDeclines
<1>9. ASSUME NEW c \in Charges, RecordFailure(c) PROVE RefundOf(m)'
  BY <1>9 DEF RecordFailure
<1>10. ASSUME NEW c \in Charges, RecordSuccess(c) PROVE RefundOf(m)'
  BY <1>10 DEF RecordSuccess
<1>11. ASSUME NEW r \in Refunds, NEW p \in Charges, BeginRefund(r, p) PROVE RefundOf(m)'
  BY <1>11 DEF BeginRefund
<1>12. ASSUME NEW r \in Refunds, NEW p \in Charges, RejectRefund(r, p) PROVE RefundOf(m)'
  BY <1>12 DEF RejectRefund
<1>13. ASSUME NEW r \in Refunds, GatewayRefunds(r) PROVE RefundOf(m)'
  BY <1>13 DEF GatewayRefunds
<1>14. ASSUME NEW r \in Refunds, GatewayRefuses(r) PROVE RefundOf(m)'
  BY <1>14 DEF GatewayRefuses
<1>15. ASSUME NEW r \in Refunds, RecordRefund(r) PROVE RefundOf(m)'
  BY <1>15 DEF RecordRefund
<1>16. ASSUME SetGatewayStatus PROVE RefundOf(m)'
  BY <1>16 DEF SetGatewayStatus
<1>17. ASSUME UNCHANGED vars PROVE RefundOf(m)'
  BY <1>17 DEF vars
<1>18. ASSUME NEW c \in Charges, ReturnError(c) PROVE RefundOf(m)'
  BY <1>18 DEF ReturnError
<1>19. ASSUME NEW c \in Charges, ReturnPayment(c) PROVE RefundOf(m)'
  BY <1>19 DEF ReturnPayment
<1>. QED BY <1>1, <1>2, <1>3, <1>4, <1>5, <1>6, <1>7, <1>8, <1>9, <1>10, <1>11, <1>12,
            <1>13, <1>14, <1>15, <1>16, <1>17, <1>18, <1>19
         DEF Next, Charge, Refund

-----------------------------------------------------------------------------
(* Keys. *)

\* Every step keeps what is known of the keys.
LEMMA NextKeysInv == IInv /\ [Next]_vars => KeysInv'
<1>. SUFFICES ASSUME IInv, [Next]_vars PROVE KeysInv'
  OBVIOUS
<1>. USE PaymentsAssumption
     DEF IInv, TypeOK, Status, Goto, Answer, Stored, InFlight, Recorded, MoneyInv, MoneyOf,
         KeysInv, ClaimantOfKey, SerialTurns, KeyOfCall, ClaimantPays, ReplyOfSerial,
         ErrorOf
<1>1. ASSUME NEW c \in Charges, StartUnkeyed(c) PROVE KeysInv'
  BY <1>1 DEF StartUnkeyed
<1>2. ASSUME NEW c \in Charges, NEW k \in Keys, ClaimKey(c, k) PROVE KeysInv'
  BY <1>2 DEF ClaimKey, MayStart
<1>3. ASSUME NEW c \in Charges, NEW k \in Keys, FindKey(c, k) PROVE KeysInv'
  BY <1>3 DEF FindKey, MayStart
<1>4. ASSUME NEW c \in Charges, LookupHit(c) PROVE KeysInv'
  BY <1>4 DEF LookupHit
<1>5. ASSUME NEW c \in Charges, LookupMiss(c) PROVE KeysInv'
  BY <1>5 DEF LookupMiss
<1>6. ASSUME NEW c \in Charges, Create(c) PROVE KeysInv'
  BY <1>6 DEF Create
<1>7. ASSUME NEW c \in Charges, GatewayCharges(c) PROVE KeysInv'
  BY <1>7 DEF GatewayCharges
<1>8. ASSUME NEW c \in Charges, GatewayDeclines(c) PROVE KeysInv'
  BY <1>8 DEF GatewayDeclines
<1>9. ASSUME NEW c \in Charges, RecordFailure(c) PROVE KeysInv'
  BY <1>9 DEF RecordFailure
<1>10. ASSUME NEW c \in Charges, RecordSuccess(c) PROVE KeysInv'
  BY <1>10 DEF RecordSuccess
<1>11. ASSUME NEW r \in Refunds, NEW p \in Charges, BeginRefund(r, p) PROVE KeysInv'
  BY <1>11 DEF BeginRefund
<1>12. ASSUME NEW r \in Refunds, NEW p \in Charges, RejectRefund(r, p) PROVE KeysInv'
  BY <1>12 DEF RejectRefund
<1>13. ASSUME NEW r \in Refunds, GatewayRefunds(r) PROVE KeysInv'
  BY <1>13 DEF GatewayRefunds
<1>14. ASSUME NEW r \in Refunds, GatewayRefuses(r) PROVE KeysInv'
  BY <1>14 DEF GatewayRefuses
<1>15. ASSUME NEW r \in Refunds, RecordRefund(r) PROVE KeysInv'
  BY <1>15 DEF RecordRefund, RefundOf
<1>16. ASSUME SetGatewayStatus PROVE KeysInv'
  BY <1>16 DEF SetGatewayStatus
<1>17. ASSUME UNCHANGED vars PROVE KeysInv'
  BY <1>17 DEF vars
<1>18. ASSUME NEW c \in Charges, ReturnError(c) PROVE KeysInv'
  BY <1>18 DEF ReturnError
<1>19. ASSUME NEW c \in Charges, ReturnPayment(c) PROVE KeysInv'
  BY <1>19 DEF ReturnPayment
<1>. QED BY <1>1, <1>2, <1>3, <1>4, <1>5, <1>6, <1>7, <1>8, <1>9, <1>10, <1>11, <1>12,
            <1>13, <1>14, <1>15, <1>16, <1>17, <1>18, <1>19
         DEF Next, Charge, Refund

-----------------------------------------------------------------------------
(* The invariant and the theorems. *)

\* IInv holds at the start.
LEMMA InitIInv == Init => IInv
<1>. SUFFICES ASSUME Init PROVE IInv
  OBVIOUS
<1>. USE PaymentsAssumption DEF Init, Stored
<1>1. TypeOK
  BY DEF TypeOK, Status, NoReply
<1>2. KeysInv
  BY DEF KeysInv, ClaimantOfKey, SerialTurns, InFlight, KeyOfCall, ClaimantPays, ReplyOfSerial,
         ErrorOf, NoReply
<1>3. MoneyInv
  BY DEF MoneyInv, MoneyOf, RefundOf, RefundedBySome, Recorded
<1>. QED BY <1>1, <1>2, <1>3 DEF IInv

\* IInv is inductive.
LEMMA NextIInv == IInv /\ [Next]_vars => IInv'
<1>. SUFFICES ASSUME IInv, [Next]_vars PROVE IInv'
  OBVIOUS
<1>1. TypeOK' /\ KeysInv'
  BY NextTypeOK, NextKeysInv
<1>2. MoneyInv'
  BY NextMoneyOf, NextRefundedBySome, NextRefundOf DEF IInv, MoneyInv
<1>. QED BY <1>1, <1>2 DEF IInv

\* IInv holds always.
LEMMA IInvInvariant == Spec => []IInv
  BY InitIInv, NextIInv, PTL DEF Spec

\* The stores hold what their Go types say, and no payment is attempted twice,
\* whatever calls share its key.
THEOREM TypeCorrect == Spec => []TypeOK
<1>1. IInv => TypeOK
  BY DEF IInv
<1>. QED BY <1>1, IInvInvariant, PTL

\* The status of a payment whose outcome is recorded says truly whether the gateway has its money,
\* and money goes back only for payments that were charged.
THEOREM MoneyCorrect == Spec => []StatusTellsMoney
<1>1. IInv => StatusTellsMoney
  <2>. SUFFICES ASSUME IInv PROVE StatusTellsMoney
    OBVIOUS
  <2>. USE DEF IInv, TypeOK, Status, MoneyInv, MoneyOf, RefundOf, RefundedBySome, Stored, Recorded
  <2>1. ASSUME NEW p \in Charges, Recorded(p), Stored(p)
        PROVE  /\ status[p] \in {"succeeded", "refunded"} <=> p \in taken
               /\ status[p] = "failed" <=> p \notin taken
    BY <2>1
  <2>2. ASSUME NEW r \in returned PROVE target[r] \in taken
    BY <2>2
  <2>3. ASSUME NEW p \in Charges
        PROVE  /\ status[p] = "refunded" => \E r \in returned : target[r] = p
               /\ (\E r \in returned : target[r] = p /\ pc[r] = "done") => status[p] = "refunded"
    BY <2>3
  <2>. QED BY <2>1, <2>2, <2>3 DEF StatusTellsMoney
<1>. QED BY <1>1, IInvInvariant, PTL

\* A client that waits for its reply before it retries has one payment for its key,
\* stored once, and every reply speaks of it.
OnePaymentPerSerialKey ==
  \A c, d \in Charges : (key[c] = key[d] /\ key[c] \in SerialKeys) =>
    /\ (Stored(c) /\ Stored(d)) => c = d
    /\ (pc[c] = "done" /\ pc[d] = "done") => reply[c].payment = reply[d].payment

\* However many calls there are, a client that waits for its reply before it retries
\* makes one payment with a key, and every reply it gets names that payment.
THEOREM SerialKeysCorrect == Spec => []OnePaymentPerSerialKey
<1>1. IInv => OnePaymentPerSerialKey
  BY DEF IInv, KeysInv, ClaimantPays, ReplyOfSerial, OnePaymentPerSerialKey
<1>. QED BY <1>1, IInvInvariant, PTL
-----------------------------------------------------------------------------
(* The promise to clients that wait for their replies. *)

\* PaymentPromise's variables, as the calls made so far show them.
MadeWith == [k \in SerialKeys |-> {c \in CallsWith(k) : Stored(c)}]
ChargedWith == [k \in SerialKeys |-> taken \cap CallsWith(k)]
NamedFor == [k \in SerialKeys |-> {reply[c].payment : c \in AnsweredWith(k)}]
DeclinedKeys == {k \in SerialKeys : \E c \in CallsWith(k) : reply[c].error}
RefundedKeys == {k \in SerialKeys : \E r \in returned : target[r] \in CallsWith(k)}

Promised == <<MadeWith, ChargedWith, NamedFor, DeclinedKeys, RefundedKeys>>

\* A call that has not ended has no reply, and no refund before its charge is recorded.
LEMMA NotAnswered ==
  ASSUME IInv, NEW c \in Charges, pc[c] # "done"
  PROVE  ~reply[c].error /\ (~Recorded(c) => \A r \in returned : target[r] # c)
<1>1. ~reply[c].error
  BY DEF IInv, KeysInv, ErrorOf
<1>2. ~Recorded(c) => \A r \in returned : target[r] # c
  BY DEF IInv, TypeOK, MoneyInv, RefundOf, Recorded
<1>. QED BY <1>1, <1>2

\* A call with a serial key that gets past the lookup is the only one so far.
LEMMA ChargesAlone ==
  ASSUME IInv, NEW c \in Charges, key[c] \in SerialKeys, pc[c] \notin {"idle", "lookup", "done"}
  PROVE  CallsWith(key[c]) = {c} /\ AnsweredWith(key[c]) = {}
<1>. USE PaymentsAssumption DEF IInv, TypeOK, KeysInv
<1>1. records[key[c]] = c
  BY DEF ClaimantPays
<1>2. ASSUME NEW d \in Charges, key[d] = key[c], d # c PROVE FALSE
  BY <1>1, <1>2 DEF ClaimantPays
<1>. QED BY <1>2 DEF CallsWith, AnsweredWith

\* The steps that store nothing, move no money and do not answer: what they leave alone.
Quiet ==
  /\ UNCHANGED <<key, reply, taken, returned>>
  /\ \A p \in Charges : (status'[p] = "absent") = (status[p] = "absent")
  /\ \A p \in Charges : key[p] \in SerialKeys => (pc'[p] = "done") = (pc[p] = "done")
  /\ \A r \in returned : target'[r] = target[r]

\* Such steps are not seen by the client.
LEMMA QuietSteps == ASSUME Quiet PROVE UNCHANGED Promised
<1>. USE DEF Quiet, CallsWith
<1>1. \A k \in SerialKeys : CallsWith(k)' = CallsWith(k) /\ CallsWith(k) \subseteq Charges
  OBVIOUS
<1>2. UNCHANGED MadeWith
  BY DEF MadeWith, Stored
<1>3. UNCHANGED <<ChargedWith, DeclinedKeys, RefundedKeys>>
  BY <1>1 DEF ChargedWith, DeclinedKeys, RefundedKeys
<1>4. \A k \in SerialKeys : AnsweredWith(k)' = AnsweredWith(k)
  BY DEF AnsweredWith
<1>5. UNCHANGED NamedFor
  BY <1>4 DEF NamedFor
<1>. QED BY <1>2, <1>3, <1>5 DEF Promised

\* A call begins unseen: it has no payment, no reply and no refund yet.
LEMMA BeginSteps ==
  ASSUME IInv, NEW c \in Charges, NEW k \in Keys, ClaimKey(c, k) \/ FindKey(c, k)
  PROVE  UNCHANGED Promised
<1>. USE DEF IInv, TypeOK
<1>1. /\ pc[c] = "idle" /\ c \notin taken /\ ~Stored(c)
      /\ key' = [key EXCEPT ![c] = k]
      /\ \E to \in {"create", "lookup"} : pc' = [pc EXCEPT ![c] = to]
      /\ UNCHANGED <<target, status, reply, taken, returned>>
  BY DEF ClaimKey, FindKey, MayStart, MoneyInv, MoneyOf, Goto
<1>2. ~reply[c].error /\ \A r \in returned : target[r] # c
  BY <1>1, NotAnswered DEF Recorded
<1>3. key[c] = NoKey
  BY <1>1 DEF KeysInv, KeyOfCall
<1>4. \A i \in SerialKeys : CallsWith(i)' \ {c} = CallsWith(i) /\ c \notin CallsWith(i)
  BY <1>1, <1>3, PaymentsAssumption DEF CallsWith
<1>5. UNCHANGED MadeWith
  BY <1>1, <1>4 DEF MadeWith, Stored
<1>6. UNCHANGED ChargedWith
  BY <1>1, <1>4 DEF ChargedWith
<1>7. \A i \in SerialKeys : AnsweredWith(i)' = AnsweredWith(i)
  BY <1>1, <1>4 DEF AnsweredWith, CallsWith
<1>8. UNCHANGED NamedFor
  BY <1>1, <1>7 DEF NamedFor
<1>9. UNCHANGED <<DeclinedKeys, RefundedKeys>>
  BY <1>1, <1>2, <1>3, PaymentsAssumption DEF DeclinedKeys, RefundedKeys, CallsWith
<1>. QED BY <1>5, <1>6, <1>8, <1>9 DEF Promised

\* The other steps that are not seen: those of a call before its payment, the gateway's
\* failures, the records of what it said, and all of a refund but the paying itself.
LEMMA UnseenSteps ==
  ASSUME IInv
  PROVE  /\ \A c \in Charges :
              StartUnkeyed(c) \/ LookupMiss(c) \/ GatewayDeclines(c) => UNCHANGED Promised
         /\ \A c \in Charges : RecordFailure(c) \/ RecordSuccess(c) => UNCHANGED Promised
         /\ SetGatewayStatus => UNCHANGED Promised
         /\ \A r \in Refunds : GatewayRefuses(r) \/ RecordRefund(r) => UNCHANGED Promised
         /\ \A r \in Refunds, p \in Charges :
              BeginRefund(r, p) \/ RejectRefund(r, p) => UNCHANGED Promised
<1>. USE PaymentsAssumption DEF IInv, TypeOK, KeysInv, KeyOfCall, Goto, Quiet
<1>1. ASSUME NEW c \in Charges, StartUnkeyed(c) \/ LookupMiss(c) \/ GatewayDeclines(c)
      PROVE  Quiet
  BY <1>1 DEF StartUnkeyed, LookupMiss, GatewayDeclines
<1>2. SetGatewayStatus => Quiet
  BY DEF SetGatewayStatus
<1>3. ASSUME NEW r \in Refunds, GatewayRefuses(r) PROVE Quiet
  BY <1>3 DEF GatewayRefuses
<1>4. ASSUME NEW r \in Refunds, RecordRefund(r) PROVE Quiet
  BY <1>4 DEF RecordRefund, MoneyInv, RefundOf
<1>5. ASSUME NEW r \in Refunds, NEW p \in Charges, BeginRefund(r, p) \/ RejectRefund(r, p)
      PROVE  Quiet
  BY <1>5 DEF BeginRefund, RejectRefund, MoneyInv, RefundOf
<1>6. ASSUME NEW c \in Charges, RecordFailure(c) \/ RecordSuccess(c) PROVE Quiet
  BY <1>6 DEF RecordFailure, RecordSuccess, MoneyInv, MoneyOf
<1>. QED BY <1>1, <1>2, <1>3, <1>4, <1>5, <1>6, QuietSteps

\* A step by a call without a serial key is not seen, whatever it does to that call.
LEMMA ForeignSteps ==
  ASSUME TypeOK, NEW c \in Charges, key[c] \notin SerialKeys,
         UNCHANGED <<key, target, returned>>,
         taken' \in {taken, taken \cup {c}},
         \A d \in Charges \ {c} :
           pc'[d] = pc[d] /\ status'[d] = status[d] /\ reply'[d] = reply[d]
  PROVE  UNCHANGED Promised
<1>1. \A k \in SerialKeys : /\ CallsWith(k)' = CallsWith(k)
                            /\ CallsWith(k) \subseteq Charges \ {c}
  BY DEF CallsWith
<1>2. UNCHANGED <<MadeWith, ChargedWith>>
  BY <1>1 DEF MadeWith, ChargedWith, Stored
<1>3. \A k \in SerialKeys : /\ AnsweredWith(k)' = AnsweredWith(k)
                            /\ AnsweredWith(k) \subseteq Charges \ {c}
  BY <1>1 DEF AnsweredWith
<1>4. UNCHANGED NamedFor
  BY <1>3 DEF NamedFor
<1>5. UNCHANGED <<DeclinedKeys, RefundedKeys>>
  BY <1>1 DEF DeclinedKeys, RefundedKeys
<1>. QED BY <1>2, <1>4, <1>5 DEF Promised

\* The call that gets past the lookup makes the one payment of its key.
LEMMA MakeStep ==
  ASSUME IInv, NEW c \in Charges, Create(c), key[c] \in SerialKeys
  PROVE  \E k \in SerialKeys : Promise!Make(k)
<1>. USE DEF IInv, TypeOK
<1>1. /\ pc[c] = "create" /\ pc' = [pc EXCEPT ![c] = "charge"]
      /\ status' = [status EXCEPT ![c] = "pending"]
      /\ UNCHANGED <<key, target, reply, taken, returned>>
  BY DEF Create, Goto
<1>2. /\ CallsWith(key[c]) = {c} /\ ~Stored(c)
      /\ \A k \in SerialKeys : CallsWith(k)' = CallsWith(k)
  BY <1>1, ChargesAlone DEF MoneyInv, MoneyOf, CallsWith
<1>3. MadeWith[key[c]] = {}
  BY <1>2 DEF MadeWith
<1>4. MadeWith' = [MadeWith EXCEPT ![key[c]] = {c}]
  <2>1. {d \in CallsWith(key[c])' : Stored(d)'} = {c}
    BY <1>1, <1>2 DEF Stored
  <2>2. ASSUME NEW k \in SerialKeys, k # key[c]
        PROVE  {d \in CallsWith(k)' : Stored(d)'} = {d \in CallsWith(k) : Stored(d)}
    BY <1>1, <1>2, <2>2 DEF Stored, CallsWith
  <2>. QED BY <1>1, <2>1, <2>2 DEF MadeWith
<1>5. UNCHANGED <<ChargedWith, DeclinedKeys, RefundedKeys>>
  BY <1>1, <1>2 DEF ChargedWith, DeclinedKeys, RefundedKeys
<1>6. UNCHANGED NamedFor
  <2>1. \A k \in SerialKeys : AnsweredWith(k)' = AnsweredWith(k)
    BY <1>1, <1>2 DEF AnsweredWith, CallsWith
  <2>. QED BY <1>1, <2>1 DEF NamedFor
<1>. QED BY <1>3, <1>4, <1>5, <1>6
         DEF Promise!Make, MadeWith, ChargedWith, NamedFor, DeclinedKeys, RefundedKeys

\* The gateway charges it, once and before any reply.
LEMMA ChargeStep ==
  ASSUME IInv, NEW c \in Charges, GatewayCharges(c), key[c] \in SerialKeys
  PROVE  \E k \in SerialKeys : Promise!Charge(k)
<1>. USE DEF IInv, TypeOK
<1>1. /\ pc[c] = "charge" /\ pc' = [pc EXCEPT ![c] = "recordSuccess"]
      /\ taken' = taken \cup {c}
      /\ UNCHANGED <<key, target, status, reply, returned>>
  BY DEF GatewayCharges, Goto
<1>2. /\ CallsWith(key[c]) = {c} /\ AnsweredWith(key[c]) = {}
      /\ Stored(c) /\ c \notin taken
      /\ \A k \in SerialKeys : CallsWith(k)' = CallsWith(k)
  BY <1>1, ChargesAlone DEF MoneyInv, MoneyOf, Stored, CallsWith
<1>3. MadeWith[key[c]] = {c} /\ ChargedWith[key[c]] = {} /\ NamedFor[key[c]] = {}
  BY <1>2 DEF MadeWith, ChargedWith, NamedFor
<1>4. ChargedWith' = [ChargedWith EXCEPT ![key[c]] = {c}]
  <2>1. taken' \cap CallsWith(key[c])' = {c}
    BY <1>1, <1>2
  <2>2. ASSUME NEW k \in SerialKeys, k # key[c]
        PROVE  taken' \cap CallsWith(k)' = taken \cap CallsWith(k)
    BY <1>1, <1>2, <2>2 DEF CallsWith
  <2>. QED BY <1>1, <2>1, <2>2 DEF ChargedWith
<1>5. UNCHANGED <<MadeWith, DeclinedKeys, RefundedKeys>>
  BY <1>1, <1>2 DEF MadeWith, Stored, DeclinedKeys, RefundedKeys
<1>6. UNCHANGED NamedFor
  <2>1. \A k \in SerialKeys : AnsweredWith(k)' = AnsweredWith(k)
    BY <1>1, <1>2 DEF AnsweredWith, CallsWith
  <2>. QED BY <1>1, <2>1 DEF NamedFor
<1>. QED BY <1>3, <1>4, <1>5, <1>6
         DEF Promise!Charge, MadeWith, ChargedWith, NamedFor, DeclinedKeys, RefundedKeys

\* A call that answers with the payment its key's record names: what it does to the
\* payments that replies have named.
LEMMA Names ==
  ASSUME IInv, NEW c \in Charges, key[c] \in SerialKeys,
         Stored(records[key[c]]), NEW failed \in BOOLEAN,
         pc[c] # "done", pc' = [pc EXCEPT ![c] = "done"],
         reply' = [reply EXCEPT ![c] = [payment |-> records[key[c]], error |-> failed]],
         UNCHANGED <<key, target, records, taken, returned>>,
         \A p \in Charges : (status'[p] = "absent") = (status[p] = "absent")
  PROVE  /\ MadeWith[key[c]] = {records[key[c]]}
         /\ NamedFor' = [NamedFor EXCEPT ![key[c]] = MadeWith[key[c]]]
         /\ DeclinedKeys' = IF failed THEN DeclinedKeys \cup {key[c]} ELSE DeclinedKeys
         /\ UNCHANGED <<MadeWith, ChargedWith, RefundedKeys>>
<1>. USE PaymentsAssumption DEF IInv, TypeOK
<1>0. \A k \in SerialKeys : CallsWith(k)' = CallsWith(k) /\ CallsWith(k) \subseteq Charges
  BY DEF CallsWith
<1>1. MadeWith[key[c]] = {records[key[c]]}
  <2>1. records[key[c]] \in CallsWith(key[c])
    BY DEF KeysInv, KeyOfCall, ClaimantOfKey, CallsWith
  <2>2. \A d \in CallsWith(key[c]) : Stored(d) => d = records[key[c]]
    BY DEF KeysInv, ClaimantPays, CallsWith
  <2>. QED BY <2>1, <2>2 DEF MadeWith
<1>2. UNCHANGED <<MadeWith, ChargedWith, RefundedKeys>>
  BY <1>0 DEF MadeWith, Stored, ChargedWith, RefundedKeys
<1>3. NamedFor' = [NamedFor EXCEPT ![key[c]] = {records[key[c]]}]
  <2>1. AnsweredWith(key[c])' = AnsweredWith(key[c]) \cup {c}
    BY DEF AnsweredWith, CallsWith
  <2>2. \A d \in AnsweredWith(key[c])' : reply'[d].payment = records[key[c]]
    BY <2>1 DEF KeysInv, ReplyOfSerial, AnsweredWith, CallsWith
  <2>3. {reply'[d].payment : d \in AnsweredWith(key[c])'} = {records[key[c]]}
    BY <2>1, <2>2
  <2>4. ASSUME NEW k \in SerialKeys, k # key[c]
        PROVE  {reply'[d].payment : d \in AnsweredWith(k)'} =
               {reply[d].payment : d \in AnsweredWith(k)}
    <3>1. AnsweredWith(k)' = AnsweredWith(k) /\ AnsweredWith(k) \subseteq Charges \ {c}
      BY <2>4 DEF AnsweredWith, CallsWith
    <3>. QED BY <3>1
  <2>. QED BY <2>3, <2>4 DEF NamedFor
<1>4. DeclinedKeys' = IF failed THEN DeclinedKeys \cup {key[c]} ELSE DeclinedKeys
  <2>1. ~reply[c].error
    BY NotAnswered
  <2>2. CASE failed
    BY <2>1, <2>2 DEF DeclinedKeys, CallsWith
  <2>3. CASE ~failed
    BY <2>1, <2>3 DEF DeclinedKeys, CallsWith
  <2>. QED BY <2>2, <2>3
<1>. QED BY <1>1, <1>2, <1>3, <1>4

\* A reply without an error names the payment, be it a replay or not.
LEMMA AnswerStep ==
  ASSUME IInv, NEW c \in Charges, LookupHit(c) \/ ReturnPayment(c), key[c] \in SerialKeys
  PROVE  \E k \in SerialKeys : Promise!Answer(k)
<1>. USE DEF IInv, TypeOK
<1>1. /\ pc[c] \in {"lookup", "returnPayment"} /\ pc' = [pc EXCEPT ![c] = "done"]
      /\ reply' = [reply EXCEPT ![c] = [payment |-> records[key[c]], error |-> FALSE]]
      /\ UNCHANGED <<key, target, records, taken, returned>>
      /\ Stored(records[key[c]])
      /\ \A p \in Charges : (status'[p] = "absent") = (status[p] = "absent")
  <2>1. CASE LookupHit(c)
    BY <2>1 DEF LookupHit, Goto, Answer
  <2>2. CASE ReturnPayment(c)
    <3>1. pc[c] = "returnPayment" /\ records[key[c]] = c /\ Stored(c)
      BY <2>2 DEF ReturnPayment, Goto, KeysInv, ClaimantPays, MoneyInv, MoneyOf, Stored
    <3>. QED BY <2>2, <3>1 DEF ReturnPayment, Goto, Answer, Stored
  <2>. QED BY <2>1, <2>2
<1>2. /\ MadeWith[key[c]] = {records[key[c]]}
      /\ NamedFor' = [NamedFor EXCEPT ![key[c]] = MadeWith[key[c]]]
      /\ UNCHANGED <<MadeWith, ChargedWith, RefundedKeys, DeclinedKeys>>
  BY <1>1, Names
<1>. QED BY <1>2
         DEF Promise!Answer, MadeWith, ChargedWith, NamedFor, DeclinedKeys, RefundedKeys

\* An error is answered only for a key that has not been charged.
LEMMA ErrorStep ==
  ASSUME IInv, NEW c \in Charges, ReturnError(c), key[c] \in SerialKeys
  PROVE  \E k \in SerialKeys : Promise!AnswerError(k)
<1>. USE DEF IInv, TypeOK
<1>1. pc[c] = "returnError" /\ records[key[c]] = c /\ Stored(c)
  BY DEF ReturnError, Goto, KeysInv, ClaimantPays, MoneyInv, MoneyOf, Stored
<1>2. /\ pc' = [pc EXCEPT ![c] = "done"]
      /\ reply' = [reply EXCEPT ![c] = [payment |-> records[key[c]], error |-> TRUE]]
      /\ UNCHANGED <<key, target, records, taken, returned>>
      /\ \A p \in Charges : (status'[p] = "absent") = (status[p] = "absent")
  BY <1>1 DEF ReturnError, Goto, Answer, Stored
<1>3. /\ MadeWith[key[c]] = {records[key[c]]}
      /\ NamedFor' = [NamedFor EXCEPT ![key[c]] = MadeWith[key[c]]]
      /\ DeclinedKeys' = DeclinedKeys \cup {key[c]}
      /\ UNCHANGED <<MadeWith, ChargedWith, RefundedKeys>>
  BY <1>1, <1>2, Names
<1>4. ChargedWith[key[c]] = {}
  <2>1. CallsWith(key[c]) = {c} /\ c \notin taken
    BY <1>1, ChargesAlone DEF MoneyInv, MoneyOf
  <2>. QED BY <2>1 DEF ChargedWith
<1>. QED BY <1>3, <1>4
         DEF Promise!AnswerError, MadeWith, ChargedWith, NamedFor, DeclinedKeys, RefundedKeys

\* Money is paid back only for a key that was charged.
LEMMA RefundStep ==
  ASSUME IInv, NEW r \in Refunds, GatewayRefunds(r)
  PROVE  \/ UNCHANGED Promised
         \/ \E k \in SerialKeys : Promise!Refund(k)
<1>. USE DEF IInv, TypeOK
<1>1. /\ pc[r] = "refund" /\ pc' = [pc EXCEPT ![r] = "recordRefund"]
      /\ returned' = returned \cup {r}
      /\ UNCHANGED <<key, target, status, reply, taken>>
  BY DEF GatewayRefunds, Goto
<1>2. target[r] \in Charges /\ target[r] \in taken
  BY <1>1 DEF MoneyInv, RefundOf, MoneyOf, Stored
<1>3. \A k \in SerialKeys : CallsWith(k)' = CallsWith(k) /\ AnsweredWith(k)' = AnsweredWith(k)
  BY <1>1 DEF CallsWith, AnsweredWith
<1>4. UNCHANGED <<MadeWith, ChargedWith, NamedFor, DeclinedKeys>>
  BY <1>1, <1>3 DEF MadeWith, Stored, ChargedWith, NamedFor, DeclinedKeys
<1>5. CASE key[target[r]] \notin SerialKeys
  <2>1. UNCHANGED RefundedKeys
    BY <1>1, <1>2, <1>5 DEF RefundedKeys, CallsWith
  <2>. QED BY <1>4, <2>1 DEF Promised
<1>6. CASE key[target[r]] \in SerialKeys
  <2>1. target[r] \in ChargedWith[key[target[r]]]
    BY <1>2, <1>6 DEF ChargedWith, CallsWith
  <2>2. RefundedKeys' = RefundedKeys \cup {key[target[r]]}
    BY <1>1, <1>2, <1>6 DEF RefundedKeys, CallsWith
  <2>3. \E k \in SerialKeys : Promise!Refund(k)
    BY <1>4, <1>6, <2>1, <2>2
       DEF Promise!Refund, MadeWith, ChargedWith, NamedFor, DeclinedKeys, RefundedKeys
  <2>. QED BY <2>3
<1>. QED BY <1>5, <1>6

\* Every step of Charge is a step of the promise, or is not seen.
LEMMA ChargeSteps ==
  ASSUME IInv, NEW c \in Charges, Charge(c)
  PROVE  Promise!Next \/ UNCHANGED Promised
<1>. DEFINE Unseen == \/ LookupMiss(c) \/ GatewayDeclines(c)
                      \/ RecordFailure(c) \/ RecordSuccess(c)
<1>1. CASE Unseen
  BY <1>1, UnseenSteps
<1>2. CASE key[c] \notin SerialKeys /\ ~Unseen
  <2>1. /\ UNCHANGED <<key, target, returned>>
        /\ taken' \in {taken, taken \cup {c}}
        /\ \A d \in Charges \ {c} :
             pc'[d] = pc[d] /\ status'[d] = status[d] /\ reply'[d] = reply[d]
    BY <1>2
       DEF IInv, TypeOK, Charge, LookupHit, Create, GatewayCharges, ReturnError,
           ReturnPayment, Goto, Answer
  <2>. QED BY <1>2, <2>1, ForeignSteps DEF IInv
<1>3. CASE key[c] \in SerialKeys /\ ~Unseen
  BY <1>3, MakeStep, ChargeStep, AnswerStep, ErrorStep DEF Charge, Promise!Next
<1>. QED BY <1>1, <1>2, <1>3

\* The stores, the replies and the gateway together keep the promise to a client that
\* waits for each reply: its key has one payment, charged at most once and before any
\* reply, and named by every reply; an error means not charged, for good; and money goes
\* back only for a key that was charged.
THEOREM Refinement == Spec => ImplementsPromise
<1>1. Init => Promise!Init
  <2>. SUFFICES ASSUME Init PROVE Promise!Init
    OBVIOUS
  <2>1. \A k \in SerialKeys : CallsWith(k) = {} /\ AnsweredWith(k) = {}
    BY PaymentsAssumption DEF Init, CallsWith, AnsweredWith
  <2>2. taken = {} /\ returned = {}
    BY DEF Init
  <2>. QED BY <2>1, <2>2 DEF Promise!Init
<1>2. IInv /\ [Next]_vars => [Promise!Next]_(Promise!vars)
  <2>. SUFFICES ASSUME IInv, [Next]_vars
                PROVE  Promise!Next \/ UNCHANGED Promised
    BY DEF Promise!vars, Promised, MadeWith, ChargedWith, NamedFor, DeclinedKeys, RefundedKeys
  <2>1. CASE UNCHANGED vars
    <3>1. Quiet
      BY <2>1 DEF vars, Quiet
    <3>. QED BY <3>1, QuietSteps
  <2>2. CASE Next
    <3>1. ASSUME NEW c \in Charges, Charge(c) PROVE Promise!Next \/ UNCHANGED Promised
      BY <3>1, ChargeSteps
    <3>2. ASSUME NEW r \in Refunds, Refund(r) PROVE Promise!Next \/ UNCHANGED Promised
      BY <3>2, RefundStep, UnseenSteps DEF Refund, Promise!Next
    <3>. QED BY <2>2, <3>1, <3>2, BeginSteps, UnseenSteps DEF Next
  <2>. QED BY <2>1, <2>2
<1>. QED BY <1>1, <1>2, IInvInvariant, PTL DEF Spec, ImplementsPromise, Promise!Spec
=============================================================================
