------------------------------ MODULE Payments ------------------------------
(***************************************************************************)
(* payment-service: Charge and Refund over the idempotency store, the      *)
(* payment store and the payment gateway.  Each step is one critical       *)
(* section; calls interleave between them.                                 *)
(*                                                                         *)
(* A call of Charge and the payment it may make share one identity, since  *)
(* newID() is drawn afresh by every call.                                  *)
(***************************************************************************)
EXTENDS Naturals, FiniteSets

CONSTANTS
  Charges,     \* invocations of Charge that pass its validation
  Refunds,     \* invocations of Refund
  Keys,        \* idempotency keys clients use
  SerialKeys,  \* keys whose client waits for each reply before it retries
  NoKey,       \* the empty idempotency key
  NoPayment    \* absence of a payment id

ASSUME PaymentsAssumption ==
  SerialKeys \subseteq Keys /\ NoKey \notin Keys /\ NoPayment \notin Charges

VARIABLES
  pc,        \* where each call of Charge or Refund stands
  key,       \* req.IdempotencyKey of each Charge
  target,    \* the paymentID each Refund was called with
  records,   \* IdempotencyStore.records
  status,    \* Payment.Status of each payment in PaymentStore.payments
  attempts,  \* Payment.Attempts
  gateway,   \* PaymentGateway.status
  reply,     \* the error each Charge returned, and the payment it returned
  taken,     \* history: payments the gateway has charged
  returned   \* history: Refund calls the gateway has paid out

vars == <<pc, key, target, records, status, attempts, gateway, reply, taken, returned>>

Status == {"absent", "pending", "succeeded", "failed", "refunded"}
Stored(p) == status[p] # "absent"
InFlight(c) == pc[c] \notin {"idle", "done"}
Recorded(c) == pc[c] \in {"returnPayment", "returnError", "done"}
NoReply == [payment |-> NoPayment, error |-> FALSE]

Init ==
  /\ pc = [c \in Charges \cup Refunds |-> "idle"]
  /\ key = [c \in Charges |-> NoKey]
  /\ target = [r \in Refunds |-> NoPayment]
  /\ records = [k \in Keys |-> NoPayment]
  /\ status = [p \in Charges |-> "absent"]
  /\ attempts = [p \in Charges |-> 0]
  /\ gateway = "up"
  /\ reply = [c \in Charges |-> NoReply]
  /\ taken = {} /\ returned = {}

Goto(c, from, to) == pc[c] = from /\ pc' = [pc EXCEPT ![c] = to]
Answer(c, p, failed) == reply' = [reply EXCEPT ![c] = [payment |-> p, error |-> failed]]

-----------------------------------------------------------------------------
(* Charge, step by step. *)

MayStart(c, k) ==
  /\ pc[c] = "idle"
  /\ k \in SerialKeys => \A d \in Charges : key[d] = k => ~InFlight(d)

StartUnkeyed(c) ==
  /\ Goto(c, "idle", "create")
  /\ UNCHANGED <<key, target, records, status, attempts, gateway, reply, taken, returned>>

\* GetOrSet, key not recorded yet.
ClaimKey(c, k) ==
  /\ MayStart(c, k)
  /\ records[k] = NoPayment
  /\ records' = [records EXCEPT ![k] = c]
  /\ key' = [key EXCEPT ![c] = k]
  /\ Goto(c, "idle", "create")
  /\ UNCHANGED <<target, status, attempts, gateway, reply, taken, returned>>

\* GetOrSet, key recorded before.
FindKey(c, k) ==
  /\ MayStart(c, k)
  /\ records[k] # NoPayment
  /\ key' = [key EXCEPT ![c] = k]
  /\ Goto(c, "idle", "lookup")
  /\ UNCHANGED <<target, records, status, attempts, gateway, reply, taken, returned>>

\* Mutant: a replay counts as another attempt at the recorded payment.
LookupHitCounts(c) ==
  /\ Goto(c, "lookup", "done")
  /\ Stored(records[key[c]])
  /\ Answer(c, records[key[c]], FALSE)
  /\ attempts' = [attempts EXCEPT ![records[key[c]]] = @ + 1]
  /\ UNCHANGED <<key, target, records, status, gateway, taken, returned>>

\* The recorded payment is the answer, whatever became of it, and never an error.
LookupHit(c) ==
  /\ Goto(c, "lookup", "done")
  /\ Stored(records[key[c]])
  /\ Answer(c, records[key[c]], FALSE)
  /\ UNCHANGED <<key, target, records, status, attempts, gateway, taken, returned>>

\* Mutant: a retry of a failed payment charges again.
LookupMissRetries(c) ==
  /\ Goto(c, "lookup", "create")
  /\ status[records[key[c]]] \in {"absent", "failed"}
  /\ UNCHANGED <<key, target, records, status, attempts, gateway, reply, taken, returned>>

\* The recorded payment is not stored yet: the handler falls through and charges.
LookupMiss(c) ==
  /\ Goto(c, "lookup", "create")
  /\ ~Stored(records[key[c]])
  /\ UNCHANGED <<key, target, records, status, attempts, gateway, reply, taken, returned>>

Create(c) ==
  /\ Goto(c, "create", "charge")
  /\ status' = [status EXCEPT ![c] = "pending"]
  /\ UNCHANGED <<key, target, records, attempts, gateway, reply, taken, returned>>

GatewayCharges(c) ==
  /\ Goto(c, "charge", "recordSuccess")
  /\ gateway = "up"
  /\ taken' = taken \cup {c}
  /\ UNCHANGED <<key, target, records, status, attempts, gateway, reply, returned>>

GatewayDeclines(c) ==
  /\ Goto(c, "charge", "recordFailure")
  /\ gateway = "down"
  /\ UNCHANGED <<key, target, records, status, attempts, gateway, reply, taken, returned>>

\* Mutant: the failed attempt is put back to pending.
RecordFailureAsPending(c) ==
  /\ Goto(c, "recordFailure", "returnError")
  /\ attempts' = [attempts EXCEPT ![c] = @ + 1]
  /\ UNCHANGED <<key, target, records, status, gateway, reply, taken, returned>>

RecordFailure(c) ==
  /\ Goto(c, "recordFailure", "returnError")
  /\ status' = [status EXCEPT ![c] = "failed"]
  /\ attempts' = [attempts EXCEPT ![c] = @ + 1]
  /\ UNCHANGED <<key, target, records, gateway, reply, taken, returned>>

ReturnError(c) ==
  /\ Goto(c, "returnError", "done")
  /\ Answer(c, c, TRUE)
  /\ UNCHANGED <<key, target, records, status, attempts, gateway, taken, returned>>

\* From here on others find the payment succeeded, and may refund it, before the
\* caller has its reply.
RecordSuccess(c) ==
  /\ Goto(c, "recordSuccess", "returnPayment")
  /\ status' = [status EXCEPT ![c] = "succeeded"]
  /\ attempts' = [attempts EXCEPT ![c] = @ + 1]
  /\ UNCHANGED <<key, target, records, gateway, reply, taken, returned>>

ReturnPayment(c) ==
  /\ Goto(c, "returnPayment", "done")
  /\ Answer(c, c, FALSE)
  /\ UNCHANGED <<key, target, records, status, attempts, gateway, taken, returned>>

-----------------------------------------------------------------------------
(* Refund, step by step. *)

\* Any caller may know the id, from GetByOrderID also before Charge has answered. The
\* status is read from the payment after the store's lock was given up.
BeginRefund(r, p) ==
  /\ Goto(r, "idle", "refund")
  /\ status[p] = "succeeded"
  /\ target' = [target EXCEPT ![r] = p]
  /\ UNCHANGED <<key, records, status, attempts, gateway, reply, taken, returned>>

\* Payment not found, or its status is not succeeded.
RejectRefund(r, p) ==
  /\ Goto(r, "idle", "done")
  /\ status[p] # "succeeded"
  /\ target' = [target EXCEPT ![r] = p]
  /\ UNCHANGED <<key, records, status, attempts, gateway, reply, taken, returned>>

GatewayRefunds(r) ==
  /\ Goto(r, "refund", "recordRefund")
  /\ gateway = "up"
  /\ returned' = returned \cup {r}
  /\ UNCHANGED <<key, target, records, status, attempts, gateway, reply, taken>>

GatewayRefuses(r) ==
  /\ Goto(r, "refund", "done")
  /\ gateway = "down"
  /\ UNCHANGED <<key, target, records, status, attempts, gateway, reply, taken, returned>>

\* Mutant: the refund is paid out and not recorded.
RecordRefundForgets(r) ==
  /\ Goto(r, "recordRefund", "done")
  /\ UNCHANGED <<key, target, records, status, attempts, gateway, reply, taken, returned>>

RecordRefund(r) ==
  /\ Goto(r, "recordRefund", "done")
  /\ status' = [status EXCEPT ![target[r]] = "refunded"]
  /\ UNCHANGED <<key, target, records, attempts, gateway, reply, taken, returned>>

-----------------------------------------------------------------------------

\* SetStatus: the gateway fails or recovers (degraded is slow, not down).
SetGatewayStatus ==
  /\ gateway' = IF gateway = "up" THEN "down" ELSE "up"
  /\ UNCHANGED <<pc, key, target, records, status, attempts, reply, taken, returned>>

Charge(c) ==
  \/ LookupHit(c) \/ LookupMiss(c) \/ Create(c) \/ GatewayCharges(c)
  \/ GatewayDeclines(c) \/ RecordFailure(c) \/ ReturnError(c)
  \/ RecordSuccess(c) \/ ReturnPayment(c)

Refund(r) == GatewayRefunds(r) \/ GatewayRefuses(r) \/ RecordRefund(r)

Next ==
  \/ \E c \in Charges :
       \/ StartUnkeyed(c) \/ Charge(c)
       \/ \E k \in Keys : ClaimKey(c, k) \/ FindKey(c, k)
  \/ \E r \in Refunds :
       Refund(r) \/ \E p \in Charges : BeginRefund(r, p) \/ RejectRefund(r, p)
  \/ SetGatewayStatus

\* A goroutine that can run is scheduled.
Spec ==
  /\ Init /\ [][Next]_vars
  /\ \A c \in Charges : WF_vars(Charge(c))
  /\ \A r \in Refunds : WF_vars(Refund(r))

-----------------------------------------------------------------------------
(* What must hold. *)

\* The stores hold what their Go types say; a payment is attempted at most once.
TypeOK ==
  /\ pc \in [Charges \cup Refunds ->
       {"idle", "lookup", "create", "charge", "recordSuccess", "returnPayment",
        "recordFailure", "returnError", "refund", "recordRefund", "done"}]
  /\ key \in [Charges -> Keys \cup {NoKey}]
  /\ target \in [Refunds -> Charges \cup {NoPayment}]
  /\ records \in [Keys -> Charges \cup {NoPayment}]
  /\ status \in [Charges -> Status]
  /\ attempts \in [Charges -> 0 .. 1]
  /\ gateway \in {"up", "down"}
  /\ reply \in [Charges -> [payment : Charges \cup {NoPayment}, error : BOOLEAN]]
  /\ taken \subseteq Charges /\ returned \subseteq Refunds

\* Once Charge has recorded the gateway's answer, its payment's status says whether
\* money was taken, also while refunds come and go before the reply. Money goes back
\* only for a payment whose money was taken, and the payment says refunded exactly when
\* money went back, as soon as the paying call has ended.
StatusTellsMoney ==
  /\ \A p \in Charges : (Recorded(p) /\ Stored(p)) =>
       /\ status[p] \in {"succeeded", "refunded"} <=> p \in taken
       /\ status[p] = "failed" <=> p \notin taken
  /\ \A r \in returned : target[r] \in taken
  /\ \A p \in Charges :
       /\ status[p] = "refunded" => \E r \in returned : target[r] = p
       /\ (\E r \in returned : target[r] = p /\ pc[r] = "done") => status[p] = "refunded"

\* For a client that waits for its reply before it retries, the service does, step by
\* step, what PaymentPromise says: one payment, charged at most once and before any
\* reply, that every reply names; whatever calls with other keys, refunds and failures
\* of the gateway come in between.
CallsWith(k) == {c \in Charges : key[c] = k}
AnsweredWith(k) == {c \in CallsWith(k) : pc[c] = "done"}
Promise == INSTANCE PaymentPromise WITH
  Keys <- SerialKeys,
  Ids <- Charges,
  made <- [k \in SerialKeys |-> {c \in CallsWith(k) : Stored(c)}],
  charged <- [k \in SerialKeys |-> taken \cap CallsWith(k)],
  named <- [k \in SerialKeys |-> {reply[c].payment : c \in AnsweredWith(k)}],
  declined <- {k \in SerialKeys : \E c \in CallsWith(k) : reply[c].error},
  refunded <- {k \in SerialKeys : \E r \in returned : target[r] \in CallsWith(k)}
ImplementsPromise == Promise!Spec

\* No payment stays pending, whatever the gateway does.
EveryPaymentSettles ==
  \A p \in Charges : status[p] = "pending" ~> status[p] \in {"succeeded", "failed", "refunded"}

-----------------------------------------------------------------------------
(* What the documentation says and the code does not do. *)

\* README: the same Idempotency-Key always returns the same payment.
NoDoubleCharge ==
  \A p, q \in taken : (key[p] = key[q] /\ key[p] \in Keys) => p = q

\* README: refunds are only valid on succeeded payments.
RefundsOnlySucceeded ==
  [][\A r \in returned' \ returned : status[target[r]] = "succeeded"]_vars
=============================================================================
