------------------------ MODULE NotificationsProofs -------------------------
(***************************************************************************)
(* Theorems about Notifications, for any set of notifications and any      *)
(* bound on attempts.                                                      *)
(***************************************************************************)
EXTENDS Notifications, TLAPS

Delivering == {"send", "recordSent", "recordFailure"}

-----------------------------------------------------------------------------
(* The inductive invariant. *)

\* Where the workers can be, and what they deliver.
WorkersInv ==
  /\ \A n \in Notifs : on[n] = n /\ pc[n] # "next"
  /\ pc[Loop] \notin {"answer", "done"}
  /\ pc[Loop] \in Delivering \cup {"moveToDLQ"} => on[Loop] \in Notifs
  /\ on[Loop] \notin batch

\* The sender of a notification, or the loop, has still to record an attempt at it.
SenderWorks(n) == pc[n] \in Delivering
LoopWorks(n) == n \in batch \/ (on[Loop] = n /\ pc[Loop] \in Delivering)

\* Before its Send a notification is in nobody's hands.
NewOf(n) ==
  pc[n] = "idle" =>
    /\ status[n] = "absent" /\ attempts[n] = 0 /\ delivered[n] = 0
    /\ n \notin batch /\ on[Loop] # n

\* Only successes are counted beyond the attempts that may fail; while they are, each
\* of the two workers counts at most one.
AttemptsOf(n) ==
  lock = Nobody =>
    /\ attempts[n] >= MaxAttempts =>
         status[n] = "sent" /\ ~(SenderWorks(n) /\ LoopWorks(n))
    /\ attempts[n] > MaxAttempts => ~SenderWorks(n) /\ ~LoopWorks(n)

\* The loop has delivered the notification and will not take it up again, unless its
\* sender has a failure to record.
LoopSettled(n) ==
  \/ on[Loop] = n /\ pc[Loop] = "recordSent"
  \/ status[n] = "sent" /\ ~LoopWorks(n)

\* The sender delivers once. The loop delivers once before the sender's failure is
\* recorded, and once after it.
DeliveriesOf(n) ==
  /\ pc[n] \in {"send", "recordFailure"} =>
       delivered[n] = 0 \/ (delivered[n] = 1 /\ LoopSettled(n))
  /\ pc[n] \notin {"idle", "send", "recordFailure"} =>
       delivered[n] \in 0 .. 1 \/ (delivered[n] = 2 /\ LoopSettled(n))
  /\ pc[n] = "recordSent" => delivered[n] > 0

\* A success is recorded only after a delivery, and no notification is dead before its
\* attempts are used up.
SentOf(n) ==
  /\ status[n] = "sent" => delivered[n] > 0
  /\ status[n] = "dead" => attempts[n] >= MaxAttempts
  /\ (on[Loop] = n /\ pc[Loop] = "recordSent") => delivered[n] > 0

NotifInv(n) == NewOf(n) /\ AttemptsOf(n) /\ DeliveriesOf(n) /\ SentOf(n)

IInv == TypeOK /\ WorkersInv /\ \A n \in Notifs : NotifInv(n)

-----------------------------------------------------------------------------
(* Every step keeps it. *)

\* The steps of deliver, whoever takes them: which notification they are about.
LEMMA DeliverOn ==
  ASSUME TypeOK, WorkersInv, NEW w \in Workers, pc[w] \in Delivering
  PROVE  on[w] \in Notifs /\ (w # Loop => on[w] = w)
  BY DEF WorkersInv, Workers, Delivering

\* Every step keeps the types; that attempts stay bounded needs AttemptsOf.
LEMMA NextTypeOK == IInv /\ [Next]_vars => TypeOK'
<1>. SUFFICES ASSUME IInv, [Next]_vars PROVE TypeOK'
  OBVIOUS
<1>. USE NotificationsAssumption DEF Workers
<1>0. /\ TypeOK /\ WorkersInv
      /\ \A n \in Notifs : NotifInv(n)
  BY DEF IInv
<1>1. ASSUME NEW n \in Notifs, Create(n) \/ Answer(n) PROVE TypeOK'
  BY <1>0, <1>1 DEF Create, Answer, Goto, TypeOK, Status
<1>2. ASSUME Tick PROVE TypeOK'
  BY <1>0, <1>2 DEF Tick, Goto, TypeOK, Pending
<1>3. ASSUME NEW n \in Notifs, NextOfBatch(n) PROVE TypeOK'
  BY <1>0, <1>3 DEF NextOfBatch, Goto, TypeOK
<1>4. ASSUME BatchDone PROVE TypeOK'
  BY <1>0, <1>4 DEF BatchDone, Goto, TypeOK
<1>5. ASSUME NEW w \in Workers, ProviderSends(w) \/ ProviderFails(w) PROVE TypeOK'
  <2>1. on[w] \in Notifs
    BY <1>0, <1>5, DeliverOn DEF ProviderSends, ProviderFails, Goto, Delivering
  <2>. QED BY <1>0, <1>5, <2>1 DEF ProviderSends, ProviderFails, Goto, TypeOK
<1>6. ASSUME NEW w \in Workers, RecordSent(w) \/ RecordRetry(w) \/ RecordExhausted(w)
      PROVE  TypeOK'
  <2>1. /\ on[w] \in Notifs /\ (w # Loop => on[w] = w)
        /\ pc[w] \in Delivering
    BY <1>0, <1>6, DeliverOn DEF RecordSent, RecordRetry, RecordExhausted, Goto, Delivering
  <2>2. AttemptsOf(on[w]) /\ lock = Nobody
    BY <1>0, <1>6, <2>1 DEF NotifInv, RecordSent, RecordRetry, RecordExhausted, Free
  <2>3. SenderWorks(on[w]) \/ LoopWorks(on[w])
    BY <2>1 DEF SenderWorks, LoopWorks
  <2>4. attempts[on[w]] + 1 \in 0 .. MaxAttempts + 1
    BY <1>0, <2>1, <2>2, <2>3 DEF AttemptsOf, TypeOK
  <2>. QED BY <1>0, <1>6, <2>1, <2>4
           DEF RecordSent, RecordRetry, RecordExhausted, Goto, After, TypeOK, Status
<1>7. ASSUME SetProviderStatus \/ UNCHANGED vars PROVE TypeOK'
  BY <1>0, <1>7 DEF SetProviderStatus, vars, TypeOK
<1>. QED BY <1>1, <1>2, <1>3, <1>4, <1>5, <1>6, <1>7 DEF Next, ProcessPending, Deliver

\* Every step leaves the workers where they can be.
LEMMA NextWorkersInv == IInv /\ [Next]_vars => WorkersInv'
<1>. SUFFICES ASSUME IInv, [Next]_vars PROVE WorkersInv'
  OBVIOUS
<1>. USE NotificationsAssumption DEF Workers, WorkersInv, Delivering, Goto
<1>0. TypeOK /\ WorkersInv
  BY DEF IInv
<1>1. ASSUME NEW n \in Notifs, Create(n) \/ Answer(n) PROVE WorkersInv'
  BY <1>0, <1>1 DEF Create, Answer, TypeOK
<1>2. ASSUME Tick PROVE WorkersInv'
  BY <1>0, <1>2 DEF Tick, TypeOK, Pending
<1>3. ASSUME NEW n \in Notifs, NextOfBatch(n) PROVE WorkersInv'
  BY <1>0, <1>3 DEF NextOfBatch, TypeOK
<1>4. ASSUME BatchDone PROVE WorkersInv'
  BY <1>0, <1>4 DEF BatchDone, TypeOK
<1>5. ASSUME NEW w \in Workers, Deliver(w) PROVE WorkersInv'
  BY <1>0, <1>5
  DEF Deliver, ProviderSends, ProviderFails, RecordSent, RecordRetry, RecordExhausted, After,
      TypeOK
<1>6. ASSUME SetProviderStatus \/ UNCHANGED vars PROVE WorkersInv'
  BY <1>0, <1>6 DEF SetProviderStatus, vars
<1>. QED BY <1>1, <1>2, <1>3, <1>4, <1>5, <1>6 DEF Next, ProcessPending

\* What is known of a notification survives every step, whosever it is.
LEMMA NextNotifInv == IInv /\ [Next]_vars => \A m \in Notifs : NotifInv(m)'
<1>. SUFFICES ASSUME IInv, [Next]_vars, NEW m \in Notifs PROVE NotifInv(m)'
  OBVIOUS
<1>. USE NotificationsAssumption
     DEF Workers, NotifInv, NewOf, AttemptsOf, DeliveriesOf, SentOf, SenderWorks, LoopWorks,
         LoopSettled, Delivering, Goto, Free
<1>0. /\ TypeOK /\ WorkersInv /\ NotifInv(m)
      /\ attempts[m] \in Nat /\ delivered[m] \in Nat /\ MaxAttempts \in Nat \ {0}
      /\ Loop # m
  BY DEF IInv, TypeOK
<1>1. ASSUME NEW n \in Notifs, Create(n) PROVE NotifInv(m)'
  BY <1>0, <1>1 DEF Create, TypeOK, WorkersInv
<1>2. ASSUME NEW n \in Notifs, Answer(n) PROVE NotifInv(m)'
  BY <1>0, <1>2 DEF Answer, TypeOK, WorkersInv
<1>3. ASSUME Tick PROVE NotifInv(m)'
  BY <1>0, <1>3 DEF Tick, TypeOK, WorkersInv, Pending
<1>4. ASSUME NEW n \in Notifs, NextOfBatch(n) PROVE NotifInv(m)'
  BY <1>0, <1>4 DEF NextOfBatch, TypeOK, WorkersInv
<1>5. ASSUME BatchDone PROVE NotifInv(m)'
  BY <1>0, <1>5 DEF BatchDone, TypeOK, WorkersInv
<1>6. ASSUME NEW w \in Workers, ProviderSends(w) PROVE NotifInv(m)'
  <2>1. on[w] \in Notifs /\ (w # Loop => on[w] = w)
    BY <1>0, <1>6, DeliverOn DEF ProviderSends
  <2>. QED BY <1>0, <1>6, <2>1 DEF ProviderSends, TypeOK, WorkersInv
<1>7. ASSUME NEW w \in Workers, ProviderFails(w) PROVE NotifInv(m)'
  <2>1. on[w] \in Notifs /\ (w # Loop => on[w] = w)
    BY <1>0, <1>7, DeliverOn DEF ProviderFails
  <2>. QED BY <1>0, <1>7, <2>1 DEF ProviderFails, TypeOK, WorkersInv
<1>8. ASSUME NEW w \in Workers, RecordSent(w) PROVE NotifInv(m)'
  <2>1. on[w] \in Notifs /\ (w # Loop => on[w] = w)
    BY <1>0, <1>8, DeliverOn DEF RecordSent
  <2>. QED BY <1>0, <1>8, <2>1 DEF RecordSent, After, TypeOK, WorkersInv
<1>9. ASSUME NEW w \in Workers, RecordRetry(w) PROVE NotifInv(m)'
  <2>1. on[w] \in Notifs /\ (w # Loop => on[w] = w)
    BY <1>0, <1>9, DeliverOn DEF RecordRetry
  <2>. QED BY <1>0, <1>9, <2>1 DEF RecordRetry, After, TypeOK, WorkersInv
<1>10. ASSUME NEW w \in Workers, RecordExhausted(w) PROVE NotifInv(m)'
  <2>1. on[w] \in Notifs /\ (w # Loop => on[w] = w)
    BY <1>0, <1>10, DeliverOn DEF RecordExhausted
  <2>. QED BY <1>0, <1>10, <2>1 DEF RecordExhausted, TypeOK, WorkersInv
<1>11. ASSUME SetProviderStatus \/ UNCHANGED vars PROVE NotifInv(m)'
  BY <1>0, <1>11 DEF SetProviderStatus, vars
<1>. QED BY <1>1, <1>2, <1>3, <1>4, <1>5, <1>6, <1>7, <1>8, <1>9, <1>10, <1>11
         DEF Next, ProcessPending, Deliver

\* IInv holds at the start.
LEMMA InitIInv == Init => IInv
<1>. SUFFICES ASSUME Init PROVE IInv
  OBVIOUS
<1>. USE NotificationsAssumption DEF Init, Workers
<1>1. TypeOK
  BY DEF TypeOK, Status
<1>2. WorkersInv
  BY DEF WorkersInv, Delivering
<1>3. ASSUME NEW n \in Notifs PROVE NotifInv(n)
  BY DEF NotifInv, NewOf, AttemptsOf, DeliveriesOf, SentOf
<1>. QED BY <1>1, <1>2, <1>3 DEF IInv

\* IInv holds always.
LEMMA IInvInvariant == Spec => []IInv
<1>1. IInv /\ [Next]_vars => IInv'
  BY NextTypeOK, NextWorkersInv, NextNotifInv DEF IInv
<1>. QED BY <1>1, InitIInv, PTL DEF Spec

-----------------------------------------------------------------------------

\* The bounds of the store: no notification is attempted more often than MaxAttempts
\* and once more, whichever of its two workers comes late.
THEOREM TypeCorrect == Spec => []TypeOK
<1>1. IInv => TypeOK
  BY DEF IInv
<1>. QED BY <1>1, IInvInvariant, PTL

\* For any number of notifications, what says sent was delivered, what was not delivered
\* and has attempts left is taken up again, and nothing is delivered more than twice.
THEOREM DeliveryCorrect == Spec => []NotDroppedNorRepeated
<1>1. IInv => NotDroppedNorRepeated
  <2>. SUFFICES ASSUME IInv, NEW n \in Notifs
                PROVE  /\ status[n] = "sent" => delivered[n] > 0
                       /\ (status[n] # "absent" /\ delivered[n] = 0 /\ attempts[n] < MaxAttempts)
                            => n \in Pending
                       /\ delivered[n] <= 2
    BY DEF NotDroppedNorRepeated
  <2>1. TypeOK /\ NotifInv(n)
    BY DEF IInv
  <2>2. status[n] \in Status /\ delivered[n] \in Nat /\ attempts[n] \in Nat /\ MaxAttempts \in Nat
    BY <2>1, NotificationsAssumption DEF TypeOK
  <2>3. delivered[n] <= 2
    BY <2>1, <2>2 DEF NotifInv, NewOf, DeliveriesOf
  <2>. QED BY <2>1, <2>2, <2>3 DEF NotifInv, SentOf, Status, Pending
<1>. QED BY <1>1, IInvInvariant, PTL
=============================================================================
