------------------------------- MODULE Orders -------------------------------
(***************************************************************************)
(* order-service: CreateOrder and CancelOrder over the idempotency store,  *)
(* the order store, the outbox of the EventPublisher and the inventory and *)
(* payment clients.  Every step below is one critical section of the code: *)
(* handlers run in goroutines of their own and interleave between the      *)
(* stores' locks.                                                          *)
(*                                                                         *)
(* A call of CreateOrder and the order it may create share one identity:   *)
(* newID() is drawn afresh by every call.                                  *)
(***************************************************************************)
EXTENDS Naturals, Sequences, FiniteSets

CONSTANTS
  Calls,       \* invocations of CreateOrder that pass its validation
  Keys,        \* idempotency keys clients use
  SerialKeys,  \* keys whose client waits for each reply before it retries
  NoKey,       \* the empty idempotency key
  NoCall,      \* absence of an order id
  MaxOutbox,   \* EventPublisher.maxSize (10000 in the code)
  MaxCancelled \* bound: orders that are cancelled, each once or more often

ASSUME OrdersAssumption ==
  /\ SerialKeys \subseteq Keys
  /\ NoKey \notin Keys
  /\ NoCall \notin Calls
  /\ MaxOutbox \in Nat \ {0}
  /\ MaxCancelled \in Nat

VARIABLES
  pc,         \* where each call of CreateOrder stands
  key,        \* req.IdempotencyKey of each call
  records,    \* IdempotencyStore.records
  status,     \* Order.Status of each order in OrderStore.orders
  failure,    \* Order.DegradedMode and FailureReason: the client that was down
  outbox,     \* EventPublisher.outbox
  inventory,  \* InventoryClient.status
  payment,    \* PaymentClient.status
  reply,      \* the CreateOrderResult each call returned
  reserved,   \* history: orders whose Reserve returned nil
  charged,    \* history: orders whose Charge returned nil
  cancelled   \* history: orders whose cancellation was acknowledged

clients == <<inventory, payment>>
history == <<reserved, charged, cancelled>>
vars == <<pc, key, records, status, failure, outbox, clients, reply, history>>

Status == {"absent", "pending", "pending_payment", "confirmed", "cancelled",
           "shipped", "delivered"}
Outcome == {"order.degraded", "order.payment_pending", "order.confirmed"}
EventType == Outcome \cup {"order.created", "order.cancelled"}
Event == [type : EventType, order : Calls]
PC == {"idle", "lookup", "create", "announce", "reserve", "degradeInventory",
       "publishDegraded", "confirm", "charge", "degradePayment",
       "publishPaymentPending", "confirmPaid", "publishConfirmed", "done"}
Reply == [order : Calls \cup {NoCall}, idempotent : BOOLEAN]

NoReply == [order |-> NoCall, idempotent |-> FALSE]
InFlight(c) == pc[c] \notin {"idle", "done"}
Stored(c) == status[c] # "absent"

Init ==
  /\ pc = [c \in Calls |-> "idle"]
  /\ key = [c \in Calls |-> NoKey]
  /\ records = [k \in Keys |-> NoCall]
  /\ status = [c \in Calls |-> "absent"]
  /\ failure = [c \in Calls |-> "none"]
  /\ outbox = <<>>
  /\ inventory = "up" /\ payment = "up"
  /\ reply = [c \in Calls |-> NoReply]
  /\ reserved = {} /\ charged = {} /\ cancelled = {}

-----------------------------------------------------------------------------
(* The stores and the publisher. *)

Goto(c, from, to) == pc[c] = from /\ pc' = [pc EXCEPT ![c] = to]

Update(c, s, f) ==
  /\ status' = [status EXCEPT ![c] = s]
  /\ failure' = [failure EXCEPT ![c] = f]

\* Mutant: the trim keeps one entry too few.
PublishTrimsTooMuch(type, c) ==
  LET grown == Append(outbox, [type |-> type, order |-> c])
  IN  outbox' = IF Len(grown) >= MaxOutbox
                  THEN SubSeq(grown, Len(grown) - MaxOutbox + 2, Len(grown))
                  ELSE grown

\* Mutant: the trim is missing.
PublishNeverTrims(type, c) ==
  outbox' = Append(outbox, [type |-> type, order |-> c])

\* Publish appends and then keeps the newest maxSize entries.
Publish(type, c) ==
  LET grown == Append(outbox, [type |-> type, order |-> c])
  IN  outbox' = IF Len(grown) > MaxOutbox
                  THEN SubSeq(grown, Len(grown) - MaxOutbox + 1, Len(grown))
                  ELSE grown

-----------------------------------------------------------------------------
(* CreateOrder, step by step. *)

\* A client waits for its reply before it retries a key in SerialKeys.
MayStart(c, k) ==
  /\ pc[c] = "idle"
  /\ k \in SerialKeys => \A d \in Calls : key[d] = k => ~InFlight(d)

StartUnkeyed(c) ==
  /\ Goto(c, "idle", "create")
  /\ UNCHANGED <<key, records, status, failure, outbox, clients, reply, history>>

\* GetOrSet, key not recorded yet: this call's order id is stored.
ClaimKey(c, k) ==
  /\ MayStart(c, k)
  /\ records[k] = NoCall
  /\ records' = [records EXCEPT ![k] = c]
  /\ key' = [key EXCEPT ![c] = k]
  /\ Goto(c, "idle", "create")
  /\ UNCHANGED <<status, failure, outbox, clients, reply, history>>

\* GetOrSet, key recorded before: its order id is looked up next.
FindKey(c, k) ==
  /\ MayStart(c, k)
  /\ records[k] # NoCall
  /\ key' = [key EXCEPT ![c] = k]
  /\ Goto(c, "idle", "lookup")
  /\ UNCHANGED <<records, status, failure, outbox, clients, reply, history>>

\* Mutant: a replay puts the order it found back to pending.
LookupHitRestarts(c) ==
  /\ Goto(c, "lookup", "done")
  /\ Stored(records[key[c]])
  /\ reply' = [reply EXCEPT ![c] = [order |-> records[key[c]], idempotent |-> TRUE]]
  /\ Update(records[key[c]], "pending", "none")
  /\ UNCHANGED <<key, records, outbox, clients, history>>

\* Mutant: the answer is given without a look at whether store.Get found the order.
LookupHitUnchecked(c) ==
  /\ Goto(c, "lookup", "done")
  /\ reply' = [reply EXCEPT ![c] = [order |-> records[key[c]], idempotent |-> TRUE]]
  /\ UNCHANGED <<key, records, status, failure, outbox, clients, history>>

\* store.Get finds the first claimant's order: it is the answer.
LookupHit(c) ==
  /\ Goto(c, "lookup", "done")
  /\ Stored(records[key[c]])
  /\ reply' = [reply EXCEPT ![c] = [order |-> records[key[c]], idempotent |-> TRUE]]
  /\ UNCHANGED <<key, records, status, failure, outbox, clients, history>>

\* Mutant: the recorded order is not looked for.
LookupMissAlways(c) ==
  /\ Goto(c, "lookup", "create")
  /\ UNCHANGED <<key, records, status, failure, outbox, clients, reply, history>>

\* store.Get finds nothing yet: the handler falls through and creates.
LookupMiss(c) ==
  /\ Goto(c, "lookup", "create")
  /\ ~Stored(records[key[c]])
  /\ UNCHANGED <<key, records, status, failure, outbox, clients, reply, history>>

Create(c) ==
  /\ Goto(c, "create", "announce")
  /\ Update(c, "pending", "none")
  /\ UNCHANGED <<key, records, outbox, clients, reply, history>>

Announce(c) ==
  /\ Goto(c, "announce", "reserve")
  /\ Publish("order.created", c)
  /\ UNCHANGED <<key, records, status, failure, clients, reply, history>>

ReserveOK(c) ==
  /\ Goto(c, "reserve", "confirm")
  /\ inventory = "up"
  /\ reserved' = reserved \cup {c}
  /\ UNCHANGED <<key, records, status, failure, outbox, clients, reply, charged,
                 cancelled>>

ReserveDown(c) ==
  /\ Goto(c, "reserve", "degradeInventory")
  /\ inventory = "down"
  /\ UNCHANGED <<key, records, status, failure, outbox, clients, reply, history>>

DegradeInventory(c) ==
  /\ Goto(c, "degradeInventory", "publishDegraded")
  /\ Update(c, "pending_payment", "inventory")
  /\ UNCHANGED <<key, records, outbox, clients, reply, history>>

\* The order is confirmed once the stock is held, before it is paid for.
Confirm(c) ==
  /\ Goto(c, "confirm", "charge")
  /\ status' = [status EXCEPT ![c] = "confirmed"]
  /\ UNCHANGED <<key, records, failure, outbox, clients, reply, history>>

ChargeOK(c) ==
  /\ Goto(c, "charge", "confirmPaid")
  /\ payment = "up"
  /\ charged' = charged \cup {c}
  /\ UNCHANGED <<key, records, status, failure, outbox, clients, reply, reserved,
                 cancelled>>

ChargeDown(c) ==
  /\ Goto(c, "charge", "degradePayment")
  /\ payment = "down"
  /\ UNCHANGED <<key, records, status, failure, outbox, clients, reply, history>>

\* Mutant: the status changes, DegradedMode and FailureReason are forgotten.
DegradePaymentForgetsReason(c) ==
  /\ Goto(c, "degradePayment", "publishPaymentPending")
  /\ status' = [status EXCEPT ![c] = "pending_payment"]
  /\ UNCHANGED <<key, records, failure, outbox, clients, reply, history>>

DegradePayment(c) ==
  /\ Goto(c, "degradePayment", "publishPaymentPending")
  /\ Update(c, "pending_payment", "payment")
  /\ UNCHANGED <<key, records, outbox, clients, reply, history>>

ConfirmPaid(c) ==
  /\ Goto(c, "confirmPaid", "publishConfirmed")
  /\ status' = [status EXCEPT ![c] = "confirmed"]
  /\ UNCHANGED <<key, records, failure, outbox, clients, reply, history>>

\* The outcome is published and the handler answers with its own order.
Finish(c, from, event) ==
  /\ Goto(c, from, "done")
  /\ Publish(event, c)
  /\ reply' = [reply EXCEPT ![c] = [order |-> c, idempotent |-> FALSE]]
  /\ UNCHANGED <<key, records, status, failure, clients, history>>

FinishDegraded(c) == Finish(c, "publishDegraded", "order.degraded")
FinishPaymentPending(c) == Finish(c, "publishPaymentPending", "order.payment_pending")
FinishConfirmed(c) == Finish(c, "publishConfirmed", "order.confirmed")

-----------------------------------------------------------------------------
(* CancelOrder and the environment. *)

\* The status change and the event are one critical section of the store. An
\* order's id is known to others as soon as the order is listed, before its own
\* CreateOrder has answered. Nothing in the service ships an order, so the early
\* return for shipped and delivered orders is never taken.
Cancel(c) ==
  /\ Stored(c)
  /\ status[c] \notin {"shipped", "delivered"}
  /\ Cardinality(cancelled \cup {c}) <= MaxCancelled
  /\ status' = [status EXCEPT ![c] = "cancelled"]
  /\ Publish("order.cancelled", c)
  /\ cancelled' = cancelled \cup {c}
  /\ UNCHANGED <<pc, key, records, failure, clients, reply, reserved, charged>>

\* SetStatus: a downstream service fails or recovers (degraded is slow, not down).
SetInventoryStatus ==
  /\ inventory' = IF inventory = "up" THEN "down" ELSE "up"
  /\ UNCHANGED <<pc, key, records, status, failure, outbox, payment, reply, history>>

SetPaymentStatus ==
  /\ payment' = IF payment = "up" THEN "down" ELSE "up"
  /\ UNCHANGED <<pc, key, records, status, failure, outbox, inventory, reply, history>>

Start(c) == StartUnkeyed(c) \/ \E k \in Keys : ClaimKey(c, k) \/ FindKey(c, k)

Handle(c) ==
  \/ LookupHit(c) \/ LookupMiss(c) \/ Create(c) \/ Announce(c)
  \/ ReserveOK(c) \/ ReserveDown(c) \/ DegradeInventory(c) \/ Confirm(c)
  \/ ChargeOK(c) \/ ChargeDown(c) \/ DegradePayment(c) \/ ConfirmPaid(c)
  \/ FinishDegraded(c) \/ FinishPaymentPending(c) \/ FinishConfirmed(c)

Next ==
  \/ \E c \in Calls : Start(c) \/ Handle(c) \/ Cancel(c)
  \/ SetInventoryStatus
  \/ SetPaymentStatus

Spec == Init /\ [][Next]_vars

-----------------------------------------------------------------------------
(* What must hold. *)

\* The stores hold what their Go types say, and the outbox respects maxSize.
TypeOK ==
  /\ pc \in [Calls -> PC]
  /\ key \in [Calls -> Keys \cup {NoKey}]
  /\ records \in [Keys -> Calls \cup {NoCall}]
  /\ status \in [Calls -> Status]
  /\ failure \in [Calls -> {"none", "inventory", "payment"}]
  /\ outbox \in Seq(Event) /\ Len(outbox) <= MaxOutbox
  /\ inventory \in {"up", "down"} /\ payment \in {"up", "down"}
  /\ reply \in [Calls -> Reply]
  /\ reserved \subseteq Calls /\ charged \subseteq Calls /\ cancelled \subseteq Calls

\* An answer marked idempotent is the stored order of the key's first claimant,
\* made by a request with the same key: all replays of a key agree.
ReplaysAgree ==
  \A c \in Calls : reply[c].idempotent =>
    /\ key[c] \in Keys
    /\ reply[c].order = records[key[c]]
    /\ Stored(reply[c].order)
    /\ key[reply[c].order] = key[c]

\* A client that waits for its reply before it retries never gets a second order
\* for the key, whatever other clients do meanwhile.
OneOrderPerSerialKey ==
  \A c, d \in Calls :
    (Stored(c) /\ Stored(d) /\ key[c] = key[d] /\ key[c] \in SerialKeys) => c = d

\* When CreateOrder has answered with its own order, the order says what happened
\* downstream: confirmed only if paid, degraded exactly if unpaid, and the reason
\* tells whether stock is held for it. Until then a reader may see it confirmed and
\* unpaid, but only between the two Updates around the charge.
OutcomeMatchesDownstream ==
  \A c \in Calls :
    /\ (pc[c] = "done" /\ Stored(c)) =>
         /\ failure[c] = "none" <=> c \in charged
         /\ status[c] = "confirmed" => c \in charged
         /\ status[c] = "pending_payment" => c \notin charged
         /\ failure[c] = "payment" <=> (c \in reserved /\ c \notin charged)
    /\ (status[c] = "confirmed" /\ c \notin charged) => pc[c] \in {"charge", "degradePayment"}

\* What has happened to an order, as an event of the outbox puts it.
Told(type, c) ==
  \/ type = "order.created" /\ Stored(c) /\ pc[c] # "announce"
  \/ type = "order.cancelled" /\ c \in cancelled
  \/ type = "order.degraded" /\ pc[c] = "done" /\ failure[c] = "inventory"
  \/ type = "order.payment_pending" /\ pc[c] = "done" /\ failure[c] = "payment"
  \/ type = "order.confirmed" /\ pc[c] = "done" /\ c \in charged

\* The event types that may stand before another one of the same order: only
\* cancellations before the creation, and nothing but cancellations after an outcome.
MayPrecede(earlier, later) ==
  /\ later = "order.created" => earlier = "order.cancelled"
  /\ earlier \in Outcome => later = "order.cancelled"

\* Events of one order follow one another so, whatever other calls append in between.
EventsInOrder ==
  \A i, j \in DOMAIN outbox :
    (i < j /\ outbox[i].order = outbox[j].order)
      => MayPrecede(outbox[i].type, outbox[j].type)

InOutbox(type, c) == \E i \in DOMAIN outbox : outbox[i] = [type |-> type, order |-> c]

\* Every event of the outbox is true of its order.
EventsAreTrue == \A c \in Calls, type \in EventType : InOutbox(type, c) => Told(type, c)

\* What has happened to an order is in the outbox, or the outbox is full.
EventsLostOnlyWhenFull ==
  \A c \in Calls, type \in EventType :
    Told(type, c) => InOutbox(type, c) \/ Len(outbox) = MaxOutbox

\* What a consumer of the outbox can rely on. An order's creation comes once and before
\* its outcome, of which there is one, given by a call that has answered and true of the
\* charge; a cancellation may stand anywhere among them, also before the creation, since
\* the order is listed between store.Create and Publish. And no event is missing, of
\* whatever kind, unless the outbox is full.
OutboxIsFaithful == EventsInOrder /\ EventsAreTrue /\ EventsLostOnlyWhenFull

\* Once CreateOrder has answered, its order changes only by being cancelled.
SettledOrderOnlyCancels ==
  [][\A c \in Calls : pc[c] = "done" =>
       /\ status'[c] \in {status[c], "cancelled"}
       /\ failure'[c] = failure[c]]_vars
=============================================================================
