--------------------------- MODULE Notifications ----------------------------
(***************************************************************************)
(* notification-service: Send delivers at once, in the goroutine of its    *)
(* request; processLoop delivers whatever is pending or retrying every     *)
(* five seconds.  Both go through deliver, whose steps are one provider    *)
(* call and one critical section of the NotificationStore.                 *)
(*                                                                         *)
(* The sender of a notification is named like the notification.            *)
(***************************************************************************)
EXTENDS Naturals, FiniteSets

CONSTANTS
  Notifs,       \* notifications, and the Send calls that make them
  Loop,         \* the goroutine of processLoop
  Nobody,       \* the lock is free
  MaxAttempts   \* Notification.MaxAttempts (5 in the code)

ASSUME NotificationsAssumption ==
  Loop \notin Notifs /\ Nobody \notin Notifs \cup {Loop} /\ MaxAttempts \in Nat \ {0}

Workers == Notifs \cup {Loop}

VARIABLES
  pc,         \* where each worker stands
  on,         \* the notification each worker is delivering
  batch,      \* what GetPending returned and processPending has yet to deliver
  status,     \* Notification.Status
  attempts,   \* Notification.Attempts
  lock,       \* the worker that holds NotificationStore.mu beyond its step
  provider,   \* DeliveryProvider.status
  delivered   \* history: how often the provider took each notification

vars == <<pc, on, batch, status, attempts, lock, provider, delivered>>

Status == {"absent", "pending", "retrying", "sent", "dead"}
Free == lock = Nobody

Init ==
  /\ pc = [w \in Workers |-> "idle"]
  /\ on = [w \in Workers |-> IF w = Loop THEN Nobody ELSE w]
  /\ batch = {}
  /\ status = [n \in Notifs |-> "absent"]
  /\ attempts = [n \in Notifs |-> 0]
  /\ lock = Nobody
  /\ provider = "up"
  /\ delivered = [n \in Notifs |-> 0]

Goto(w, from, to) == pc[w] = from /\ pc' = [pc EXCEPT ![w] = to]

\* Where deliver returns to.
After(w) == IF w = Loop THEN "next" ELSE "answer"

-----------------------------------------------------------------------------
(* Send and processPending. *)

Create(n) ==
  /\ Free
  /\ Goto(n, "idle", "send")
  /\ status' = [status EXCEPT ![n] = "pending"]
  /\ UNCHANGED <<on, batch, attempts, lock, provider, delivered>>

\* Send reads the notification back and answers with it.
Answer(n) ==
  /\ Free
  /\ Goto(n, "answer", "done")
  /\ UNCHANGED <<on, batch, status, attempts, lock, provider, delivered>>

\* Mutant: what is to be retried is not picked up.
PendingOnly == {n \in Notifs : status[n] = "pending"}

Pending == {n \in Notifs : status[n] \in {"pending", "retrying"}}

\* The ticker fires: processPending takes what is pending now.
Tick ==
  /\ Free
  /\ Pending # {}
  /\ Goto(Loop, "idle", "next")
  /\ batch' = Pending
  /\ UNCHANGED <<on, status, attempts, lock, provider, delivered>>

\* The loop delivers its snapshot one by one, in the order a map gave it.
NextOfBatch(n) ==
  /\ n \in batch
  /\ Goto(Loop, "next", "send")
  /\ on' = [on EXCEPT ![Loop] = n]
  /\ batch' = batch \ {n}
  /\ UNCHANGED <<status, attempts, lock, provider, delivered>>

BatchDone ==
  /\ batch = {}
  /\ Goto(Loop, "next", "idle")
  /\ on' = [on EXCEPT ![Loop] = Nobody]
  /\ UNCHANGED <<batch, status, attempts, lock, provider, delivered>>

-----------------------------------------------------------------------------
(* deliver *)

ProviderSends(w) ==
  /\ Goto(w, "send", "recordSent")
  /\ provider = "up"
  /\ delivered' = [delivered EXCEPT ![on[w]] = @ + 1]
  /\ UNCHANGED <<on, batch, status, attempts, lock, provider>>

\* Mutant: the provider's error is not looked at.
ProviderErrorIgnored(w) ==
  /\ Goto(w, "send", "recordSent")
  /\ provider = "down"
  /\ UNCHANGED <<on, batch, status, attempts, lock, provider, delivered>>

ProviderFails(w) ==
  /\ Goto(w, "send", "recordFailure")
  /\ provider = "down"
  /\ UNCHANGED <<on, batch, status, attempts, lock, provider, delivered>>

RecordSent(w) ==
  /\ Free
  /\ Goto(w, "recordSent", After(w))
  /\ status' = [status EXCEPT ![on[w]] = "sent"]
  /\ attempts' = [attempts EXCEPT ![on[w]] = @ + 1]
  /\ UNCHANGED <<on, batch, lock, provider, delivered>>

\* Mutant: one attempt too many is allowed.
RecordRetryOneMore(w) ==
  /\ Free
  /\ Goto(w, "recordFailure", After(w))
  /\ attempts[on[w]] <= MaxAttempts
  /\ status' = [status EXCEPT ![on[w]] = "retrying"]
  /\ attempts' = [attempts EXCEPT ![on[w]] = @ + 1]
  /\ UNCHANGED <<on, batch, lock, provider, delivered>>

\* The failed attempt was not the last: to be retried, even if another worker has
\* delivered it in the meantime.
RecordRetry(w) ==
  /\ Free
  /\ Goto(w, "recordFailure", After(w))
  /\ attempts[on[w]] + 1 < MaxAttempts
  /\ status' = [status EXCEPT ![on[w]] = "retrying"]
  /\ attempts' = [attempts EXCEPT ![on[w]] = @ + 1]
  /\ UNCHANGED <<on, batch, lock, provider, delivered>>

\* The failed attempt was the last: Update, which holds the store's lock, calls
\* MoveToDLQ, which locks it again. A Go mutex is not reentrant, so the call does
\* not return, Status is not set to dead, and the lock is never given up.
RecordExhausted(w) ==
  /\ Free
  /\ Goto(w, "recordFailure", "moveToDLQ")
  /\ attempts[on[w]] + 1 >= MaxAttempts
  /\ attempts' = [attempts EXCEPT ![on[w]] = @ + 1]
  /\ lock' = w
  /\ UNCHANGED <<on, batch, status, provider, delivered>>

\* SetStatus: the provider fails or recovers (degraded is slow, not down).
SetProviderStatus ==
  /\ provider' = IF provider = "up" THEN "down" ELSE "up"
  /\ UNCHANGED <<pc, on, batch, status, attempts, lock, delivered>>

-----------------------------------------------------------------------------

Deliver(w) ==
  \/ ProviderSends(w) \/ ProviderFails(w)
  \/ RecordSent(w) \/ RecordRetry(w) \/ RecordExhausted(w)

ProcessPending == Tick \/ (\E n \in Notifs : NextOfBatch(n)) \/ BatchDone \/ Deliver(Loop)

Next ==
  \/ \E n \in Notifs : Create(n) \/ Answer(n) \/ Deliver(n)
  \/ ProcessPending
  \/ SetProviderStatus

\* A goroutine that can run is scheduled, and the ticker keeps firing.
Spec ==
  /\ Init /\ [][Next]_vars
  /\ \A n \in Notifs : WF_vars(Answer(n) \/ Deliver(n))
  /\ WF_vars(ProcessPending)

-----------------------------------------------------------------------------
(* What must hold. *)

\* The store holds what its Go types say, the loop is idle only between batches, and
\* the one attempt that may follow MaxAttempts is one already under way.
TypeOK ==
  /\ pc \in [Workers -> {"idle", "send", "recordSent", "recordFailure", "moveToDLQ",
                         "answer", "next", "done"}]
  /\ on \in [Workers -> Notifs \cup {Nobody}]
  /\ batch \subseteq Notifs
  /\ pc[Loop] = "idle" => batch = {} /\ on[Loop] = Nobody
  /\ status \in [Notifs -> Status]
  /\ attempts \in [Notifs -> 0 .. MaxAttempts + 1]
  /\ lock \in Workers \cup {Nobody}
  /\ provider \in {"up", "down"}
  /\ delivered \in [Notifs -> Nat]

\* A notification that says sent was delivered. One that was not, and has attempts left,
\* is among those the loop takes up again, so none is dropped before its attempts are
\* used up. A user may get one twice, from its sender and from the loop, and never more
\* often: a retry after it was sent is the last. (One that was delivered may still read
\* retrying, when its other worker records a failure late. Nothing is said of those that
\* used up their attempts: README has them dead, the code has the store stop.)
NotDroppedNorRepeated ==
  \A n \in Notifs :
    /\ status[n] = "sent" => delivered[n] > 0
    /\ (status[n] # "absent" /\ delivered[n] = 0 /\ attempts[n] < MaxAttempts) => n \in Pending
    /\ delivered[n] <= 2

\* Every notification is sent in the end, unless some notification used up its
\* attempts: the provider need not recover for that.
SentOrStopped ==
  \A n \in Notifs : status[n] = "pending" ~> (status[n] = "sent" \/ lock # Nobody)
=============================================================================
