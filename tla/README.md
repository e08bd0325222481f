# Verification of resilient-platform

TLA+ specifications of the services under `src/services` and the shared packages under `src/pkg`,
TLC configurations that check them on small instances, and TLAPS proofs for every value of the
constants. Every definition follows the Go code, not the documents; where a document or a test
promises something the code does not do, a run shows it (see *Findings*).

    tlc -workers 2 -config MCOrders.cfg MCOrders      # one run
    tlapm OrdersProofs.tla                            # one proof module

`PROJECT.json` maps every definition to the lines it models and lists the runs, the properties with
the mutants of the code that break them, the hazards, the findings and the theorems.

## The system

Five services and a gateway, each a process that keeps its state in memory behind mutexes, and two
shared packages. Every HTTP request runs in a goroutine of its own; two services also run a loop on
a ticker. The services do not import each other or the packages: the order service reaches inventory
and payment through client stubs whose status a test or a chaos script sets.

| Component | State | Operations | What is hard | What makes it correct |
|---|---|---|---|---|
| order-service | idempotency records, orders, outbox, status of two clients | CreateOrder (ten critical sections), CancelOrder, queries | retries, readers and cancellations between the sections; downstream failures in the middle; the outbox limit | replays agree, one order per key for a client that waits, an answered order tells what was reserved and charged, one creation before one true outcome in the outbox and nothing missing unless it is full |
| inventory-service | products (stock, reserved, available), reservations | AddProduct, Reserve, Confirm, Release, the sweep every 30 s, Stats | late and repeated confirm or release against the sweep; the lock taken twice in Stats | held units are those of active reservations, stock is conserved, abandoned reservations end while the lock can be had |
| payment-service | idempotency records, payments, gateway status | Charge, Refund, queries | concurrent calls with one key; two refunds; gateway failure after the payment was stored | status tells where the money is, a waiting client pays once, every payment settles |
| notification-service | notifications, dead letter queue, provider status | Send, the delivery loop every 5 s | two workers on one notification; the lock asked for twice at the last attempt | nothing dropped before its attempts are used up, at most two deliveries, bounded attempts |
| pkg/resilience | breaker state and counters; per call the attempt and its channel | Execute, Retry, WithTimeout, ResilientClient.Do | results that arrive in a later state of the breaker; attempts that overlap; effects after the reply | the cycle closed, open, half-open; totals add up; closes after recovery; a reply tells its effects; nothing waits for ever |
| pkg/events | outbox with its dead letters, event bus with its history | Add, GetPending, MarkPublished, MarkFailed, Subscribe, Publish | two publishers with one entry, marks out of order, a handler that fails in the middle, handlers that subscribe meanwhile | published events reached their handlers, in order; dead letters are exhausted; every event settles |
| api-gateway | rate limiter buckets, a breaker per upstream | RateLimiter.Allow, its cleanup, proxyHandler | failures recorded twice, outcomes lost or late, clients that go away, buckets removed while in use | the breaker's cycle; opens only over enough failed requests; closes after recovery; burst and rate bound what is granted; who keeps asking is served |
| user-service | users, an index by e-mail | create, update, deactivate, queries | one critical section each | not modelled |

## Modules

| Module | Models | Checked by |
|---|---|---|
| `Orders` | order-service | run `orders`; `OrdersProofs` |
| `Inventory` | stock and reservations | run `inventory`; `InventoryProofs` |
| `InventoryLocks` | the RWMutex of the inventory store | run `inventory_locks` |
| `Payments` | payment-service | runs `payments`, `payments_double`, `payments_refunds`; `PaymentsProofs` |
| `PaymentPromise` | what payment-service promises a client that waits for its replies, without the stores | implemented by `Payments` |
| `Notifications` | notification-service | run `notifications`; `NotificationsProofs` |
| `Breaker` | what a circuit breaker promises, without counters and clock | implemented by `CircuitBreaker` (so by `ResilientClient`) and `Gateway` |
| `CircuitBreaker` | `Execute` of `pkg/resilience` | run `breaker`; `ResilienceProofs` |
| `Gateway` | the gateway's own breaker for one upstream, driven by `proxyHandler` | run `gateway`; `GatewayProofs` |
| `ResilientClient` | `ResilientClient.Do` with `Retry` and `WithTimeout`; extends `CircuitBreaker` | run `client`; `ResilienceProofs` |
| `Outbox` | the outbox and the event bus of `pkg/events`, and publishers that use both | run `outbox`; `OutboxProofs` |
| `RateLimiter` | the gateway's token buckets for one key | run `rate_limiter`; `RateLimiterProofs` |

`MC<Module>` extends the module for TLC; a definition whose comment begins with *Mutant* is a
plausible bug that replaces its neighbour when a property is tested for strength and is used
nowhere else.

**How state and actions correspond to the code.** A critical section, or a call of a client stub, is
one action; a handler with several is a chain of actions with a program counter per call, and other
handlers interleave between them. `Orders` and `Payments` name an order or a payment by the call that
creates it (each call draws a fresh id), so `status[c]` is the order of call `c` and "absent" until
`Create`. The boolean and the text of a degraded order (`DegradedMode`, `FailureReason`) are one
variable `failure`. A downstream service is up or down: the degraded status only sleeps.
`Inventory` names reservations by their order of creation; all live fifteen minutes, so they fall
overdue in that order and the clock is the number of overdue reservations. Sums of quantities are
written as cardinalities of sets of units, which both TLC and TLAPS can handle. Every operation of
`Inventory` needs the store's lock; of what `InventoryLocks` shows, that a call of Stats and a writer may
wait for one another for ever, it keeps the fact (`mu`, `StatsStops`): from then on only time passes. In
`Payments` the update of a payment and the return of Charge are two steps, since others can find the
payment by its order and refund it before the caller has its reply. `Notifications`
keeps the store's lock as a variable only where it outlives a step: the call of `MoveToDLQ` under
`Update` is the one place. `InventoryLocks` follows the documented behaviour of `sync.RWMutex`: a
writer that has called Lock makes new readers wait, including one that already reads.
`CircuitBreaker` counts time since the last failure in ticks up to one more than the timeout and its
totals modulo a bound. In `Gateway` a request goes through `proxyHandler` in three steps (let through,
answered or failed, reported) and starts again; `upstream` is what a request meets that moment: an
answer, a 5xx, or a transport error. Clients (`clients`) may also go away from a healthy upstream: the
proxy calls its ErrorHandler for a request that was cancelled as for one that cannot reach its upstream, and
both count twice. An outcome can be lost at any moment (`Aborted`): ServeHTTP panics when a connection
breaks while the answer is copied. Each upstream has a breaker of its own, so one is enough.
`ResilientClient` extends `CircuitBreaker` and conjoins its own actions to those of the breaker, so that
Retry is what runs between the two sections of `Execute`; the calls of `Do` are the breaker's callers, and
`backend` is down while the function hangs. The goroutine of an attempt
is a member of `live` until the function returns, also after `WithTimeout` has given it up; each
attempt has its own channel, so a late result never reaches a later attempt. The function succeeds,
fails or hangs as it likes; pauses between attempts have no length. `Outbox` runs the handlers of one
publication one by one, as `Publish` does after it has copied them and unlocked. Nothing in `src`
calls the package, so its publishers (take the pending entries, publish each, mark it) come from the
pattern the repository's README describes and are marked external; they may take the same entries.
`RateLimiter` separates the lookup of the bucket from the bucket's own critical section, and keeps
fractions of a token as units of which `Cost` make a token. Buckets are named, so that a bucket
deleted from the map is still the one a request holds. A *window* of time that begins at any moment
counts what is granted in it. Variables called *history* are read by properties only.

Outcomes that change no state (a lookup that fails, a reservation refused for lack of stock, a
validation error) are not actions: they are stuttering steps.

## What the runs show

| Run | Instance | Shows |
|---|---|---|
| `orders` | 3 calls, a key whose client waits and one retried concurrently, outbox of 2, 1 order cancelled; 2.8 million states, symmetric calls | `ReplaysAgree`, `OneOrderPerSerialKey`: idempotency holds for clients that wait for a reply. `OutcomeMatchesDownstream`: the status tells what happened downstream, and readers see an unpaid confirmed order only during its charge. `SettledOrderOnlyCancels`: after the answer only a cancellation changes an order. `OutboxIsFaithful`: what a consumer of the outbox can rely on. An order's creation comes once, before its outcome; there is one outcome, given by a call that has answered and true of the order; a cancellation may stand anywhere, also before the creation, since the order is listed before its creation is published; and no event of any kind is missing unless the outbox is full |
| `inventory` | 2 products, 3 reservations of 1 or 2 units, posted stock of 1 or 3; 927 thousand states | `HeldIsActive`, `StockCoversHolds`, `StockIsConserved`: never a hold without a reservation, and, except for products posted again or released after expiry, holds and stock add up; `AbandonedHoldsEnd`: no reservation stays active for ever, as long as the sweep can get the lock. The store can stop, so deadlock is not checked |
| `inventory_locks` | 2 readers, 2 Stats calls, 2 writers | `StopsOnlyInStats`: every call returns unless a Stats call waits for itself. The store can stop, so deadlock is not checked |
| `payments` | 3 charges, 2 refunds, 2 keys; 340 thousand states, calls numbered by their keys | `StatusTellsMoney`: the status tells what was charged and refunded; `ImplementsPromise`: a client that waits has one payment for its key, charged at most once and before any reply; every reply names it, an error means it was not and never will be charged, and money goes back only for a key that was charged, perhaps before its client has the reply; `EveryPaymentSettles`: no payment stays pending |
| `notifications` | 2 notifications and the loop, 5 attempts as in the code; 102 thousand states | `NotDroppedNorRepeated`: what says sent was delivered, what was not and has attempts left is taken up again, nothing is delivered a third time. It says nothing of what becomes of an exhausted one. `SentOrStopped`: everything is sent unless the store has stopped |
| `breaker` | 3 callers, thresholds 5 and 2 as in the code, timeout of 3 ticks; 77 thousand states | `TotalsBalance`, `TripsOnFailuresInARow`, `ImplementsBreaker`, `ClosesAfterRecovery` |
| `gateway` | 3 requests, thresholds 5 and 2 as in the code, clients that may go away; 40 thousand states | `OpensOverHalfTheThreshold`: a failed request counts twice at most, and a success between its two reports resets the count. Three requests are what it takes to open the breaker in the shortest way (twice two failures and one). `ImplementsBreaker` although failures are reported twice and some outcomes never. `ClosesAfterRecovery`: once the upstream is up for good and clients wait, the breaker closes for good, although outcomes may still get lost |
| `client` | 3 calls of 2 attempts, thresholds 2 and 1, calls that may come when the breaker is closed, open or trying; 670 thousand states | `RepliesTellEffects`: after nil the last attempt took effect, any other effect is that of an attempt that timed out, and a rejected call has none. `EverythingEnds`: `Do` returns even if the function never does, and once the service no longer hangs no goroutine is left. Calls end, so deadlock is not checked |
| `outbox` | 2 events, 2 publishers, 2 handlers, 2 attempts, history of 1; 666 thousand states | `PublishedReachedAll`: a published event was accepted by every handler there when it was added. `EarlierHandlersFirst`: in the order of subscription. `DeadLettersAreExhausted`: the dead letter queue holds exhausted entries, at most once per publisher. `SettlesForGood`: every event ends up published or dead for good. Events settle, so deadlock is not checked |
| `rate_limiter` | 2 requests, 2 buckets, burst of 2, a token in 3 ticks, windows up to 8 ticks; 247 thousand states | `GrantsBounded`: no window of time grants more than burst and rate allow, beyond one request per handler that found a bucket before it was deleted. `NeverStarved`: a client that keeps asking keeps being served |
| `payments_double`, `payments_refunds` | 2 charges; 1 charge and 2 refunds | the two findings on payments below |

**Why the bounds are enough.** Three calls let one claim a key, a second fall through the check and a
third replay; an order makes at most three kinds of event, so an outbox of two is full in every
run. Three reservations on two products let a sweep take several reservations of one product while
another product is untouched, and let a double release eat into a third reservation's hold; a stock
of 3 covers two of them, a stock of 1 none of two units. Two refunds are the fewest that race.
The calls of `payments` are alike, so the constraint `Numbered` keeps one numbering of them, which
unlike a symmetry set is sound for liveness. The
notification and breaker thresholds are those of the code, so nothing about them is scaled down
(the timeout of `CircuitBreaker` is: what matters is before, at and after it). `Wrap` is larger than
the number of callers, so a lost count shows; in `client` it is 1, since no property of that run reads
the totals.

Three calls of `Do` are what it takes to open a breaker of threshold 2 and send a third call into it,
rejected or as a trial; one of them may still be inside while another is tried. Calls are alike, so
they are numbered in the order in which they reach the breaker. Two attempts are the fewest that
overlap. The breaker's timeout is 0 there, one tick of the open state: what the timeout does is the
subject of `breaker`. Two publishers with one entry in hand, an entry that fails once and once more, and a
handler that fails after another has accepted are all within the bounds of `outbox`; a history of 1
is trimmed by the second publication. In `rate_limiter` an idle bucket is full before it is swept, as
in the gateway (two seconds against ten minutes), the window is long enough for a deletion in it and
for more than one token from the rate, and two requests let one hold a deleted bucket while the other makes
a new one.

**Fairness.** The Go scheduler runs every goroutine that can run, tickers keep firing and Go's mutexes
hand over to a waiter after a millisecond: weak fairness for the steps of a call that has started,
for the loops and for time. New requests, cancellations and changes of a downstream service are
never fair. In `InventoryLocks` the steps of a goroutine are strongly fair, since writers queue in
order. `ClosesAfterRecovery` also assumes that callers come back, in both breakers: a breaker with no
traffic has nothing to close over. In the gateway its premises are that the upstream stays up, that clients
wait, and that of requests let through again and again some are answered; without any of them the breaker
may open again and again, or no trial ever counts. The sweep of `Inventory` is fair only while the
store's lock can be had: a store that has stopped frees nothing. `Orders` states no liveness: its
handler has no loop and no wait. In `ResilientClient` each call of `Do` and each goroutine is fair, and a
goroutine can go on only while the service answers. In `Outbox` each publisher is fair, whatever
its handlers answer. In `RateLimiter` time and the client's requests are fair, the cleanup is not.

## Findings

| Run | The code | The document or test |
|---|---|---|
| `payments_double` | the key is recorded before the payment is stored, so a concurrent retry charges again (the same hole lets CreateOrder make two orders) | README:95, README:87 |
| `payments_refunds` | two refunds both pass the check before either is recorded | README:97 |
| `inventory` | release after expiry gives the units back a second time: `HeldIsActive` needs its exception | README:105 |
| `notifications` | moving to the dead letter queue locks the store's mutex twice and stops the service, so an exhausted notification never becomes dead: `SentOrStopped` needs its exception | README:114 |
| `orders` | CreateOrder overwrites a cancellation: `SettledOrderOnlyCancels` holds of answered orders only | order_test.go:205 |
| `inventory_locks` | Stats deadlocks against a writer | inventory_test.go:170 |
| `gateway` | a request that cannot reach its upstream counts as two failures, so three open the breaker, and so do three that clients cancelled on a healthy upstream | README:416 |

Other disagreements met while modelling, not run: nothing retries `pending_payment` orders
(README:419); the order service drops events when its outbox is full and nothing publishes them (README:89); a
late failure prolongs the open state of a breaker (README:134); a retry of a failed charge is
answered without the error (ADR-005); `Outbox.GetPending` also gives out failed entries, which is what
makes retries happen, where README:177 speaks of pending ones.

## What is proved

`OrdersProofs`, from `OrdersAssumption` (the two "no value" constants are none of the values, the
outbox holds at least one entry), for every set of calls and keys and every bound:

- `TypeCorrect`: `Spec => []TypeOK`.
- `ReplaysCorrect`, `SerialKeysCorrect`: by the invariant `KeysInv`. A recorded key belongs to a call
  that claimed it, every call that uses a key comes after its claimant, and of the calls with a
  serial key at most the last is in flight. So when a waiting client's retry finds the key, the
  claimant has answered and its order is stored: the branch that creates a second order is not
  reachable. Without the claims about program counters the two properties are not inductive.
- `OutcomeCorrect`, `SettledOrderCorrect`: by the invariant `OutcomeInv`,
  which says for each program counter what has been reserved and charged and which failure is noted.
- `OutboxCorrect`: `OutboxIsFaithful` is inductive given `KeysInv` and `OutcomeInv`, because its parts
  support each other. That every event in the outbox is true of its order (`EventsAreTrue`) says where
  its call stands, so that a creation meets only cancellations of its order and an outcome no other
  outcome; what is true of an order says which events may not be missing. One lemma says what
  `Publish` does to the places of the outbox, so that no action needs to reason about sequences.

`InventoryProofs`, from `InventoryAssumption` (stocks and bounds are natural numbers), for every set
of products and any number of reservations of any quantity: `TypeCorrect`, `HoldsCorrect`, `CoverCorrect`
and `ConservedCorrect`, by one invariant, the account of each product. None of the properties is
inductive alone: confirming takes units from hold, stock and active total at once, so exact holds,
cover and conservation need each other, and a first post is only right since nothing was reserved
of an unknown product (`NewProducts`). What a total is, a sum over reservations, takes most of the
module: units of disjoint sets add (`UnitsAdd`), a reservation that changes its status moves its
quantity between two totals and touches no other (`StatusMoves`), a new one adds to one
(`ReservationAdds`), and the sweep takes a whole set of them out (`SweepExpires`).

`PaymentsProofs`, from `PaymentsAssumption` (the "no value" constants are none of the values), for any
numbers of charges, refunds and keys: `TypeCorrect`, `MoneyCorrect` and `SerialKeysCorrect`, by one
invariant of two parts. `MoneyInv` says for each place a call can stand at whether its payment is
stored and charged, that a refund under way is of a payment that was charged, and that a refunded
payment has a refund that paid out; it speaks of any number of refunds of one payment, since the code
lets them race. `KeysInv` is the argument of the order service, with its own end: only the
claimant of a serial key has a payment, and every reply names it. Types need both: that no
payment is attempted twice depends on where its call stands.

`Refinement`: every step of payment-service is a step of `PaymentPromise` or leaves its variables alone,
with the keys of clients that wait, and for each of them the payments made, charged and named in
replies, and whether an error was answered or money paid back. The heart is `ChargesAlone`: a call that
gets past the lookup with such a key is the only one there has been, since every other call with it comes
after the claimant has ended (a clause of `ClaimantPays`). So the key's payment is made and charged
before any reply, an error is answered for a key that was not charged and never will be, and a
replay (`Names`) speaks of the same payment. With a client that does not wait all this fails: that is
the finding of `payments_double`. `SerialKeysCorrect` says of any state what the promise comes to.

`NotificationsProofs`, from `NotificationsAssumption` (the loop and "nobody" are no notifications, at
least one attempt), for any number of notifications and any bound on attempts: `TypeCorrect`
and `DeliveryCorrect`, by one invariant on the two workers a notification can have, its
sender and the loop. `AttemptsOf`: while the lock is not lost, a notification with all its attempts
used up was sent, and at most one worker has still something to record. `DeliveriesOf`: the sender delivers
once, the loop once before the sender has recorded its result and once after it; `LoopSettled`
says when the loop will not take the notification up again, without which "at most two
deliveries" is not inductive. `SentOf`: what says sent was delivered, and
dead means that the attempts are used up, which is all `DeliveryCorrect` needs of it.

`ResilienceProofs` is about `CircuitBreaker` and `ResilientClient` together, from
`CircuitBreakerAssumption` (positive thresholds) and `ResilientClientAssumption` (at least one attempt), for
every number of callers. Of `Execute`: `CountersCorrect` (the counters stay below their thresholds;
trial successes only while half-open), `TripsCorrect`, by the invariant that the run of failures covers
the counter, `TotalsCorrect`, by the invariant that the two sides of `TotalsBalance` differ by a multiple of
`Wrap` (remainders themselves are beyond the provers, so the four counters are followed as integers), and
`Refinement`: every step of `Execute` is a step of `Breaker` or leaves its variables alone, with
`admitted` the callers inside the function and `elapsed` that the timeout has run out.
Of `Do`: its sections are those of the breaker, entered and left at the right places of the call
(`DoSteps`), and all other steps leave the breaker alone; so the lemmas on `Execute` (`ExecuteSteps`,
`BreakerStep`) carry over, and with them `ClientTypeCorrect` and `ClientRefinement`, that Do implements `Breaker`
as well (a run checks it of `Execute` only). `RepliesCorrect` is by an invariant that accounts for every attempt: one that runs or took
effect was given up, or is the one its call waits for or has answered with. `RepliesTellEffects`
speaks of calls that have returned and is not inductive without it.

`GatewayProofs`, from `GatewayAssumption` (positive thresholds), for every set of requests:
`TypeCorrect`; `OpensCorrect`, by the invariant `TwoPerCulprit`: the failures counted, plus one for
each failed request whose second report is due, are at most twice the requests that failed since
the last success; and `Refinement`: `proxyHandler` implements `Breaker`, with `admitted` the
requests under way. All three breakers thus implement the same specification.

`RateLimiterProofs`, from `RateLimiterAssumption` (as many bucket names as requests; an idle bucket
fills up before it is deleted): `TypeCorrect`, for which there must always be a fresh name;
`BurstCorrect`, by `WindowInv`: what the window has spent, together with what the bucket in the map
can still grant, is at most the burst and the time elapsed; and `GrantsCorrect`, which adds
the requests that hold a deleted bucket. For these, `StraysInv` finds a number of deletions such
that stray grants, made or still possible, are at most one per request for each of them and
one for the start of the window, and that each deletion but the first has taken an idle period. The number of
deletions is no variable of the model: the invariant says that there is one.

`OutboxProofs`, from `OutboxAssumption` (at least one attempt, finitely many publishers), for every
number of events, handlers and publishers: `TypeCorrect`; `ReachedCorrect` and `OrderCorrect`, by
`Progress`: what a publication has still to run is a stretch of the handlers in the order of subscription, all
before it have accepted the event, and it ends behind the event's audience; and `DeadLettersCorrect`,
by `DeadInv`: an exhausted entry is not given out again, so its dead letters and the publishers that
still hold it are together at most all publishers.

Only model-checked is liveness, which is out of the prover's reach: `AbandonedHoldsEnd`,
`StopsOnlyInStats`, `EveryPaymentSettles`, `SentOrStopped`, `ClosesAfterRecovery` of both breakers, `EverythingEnds`,
`SettlesForGood`, `NeverStarved`. `NoDoubleCharge` and `RefundsOnlySucceeded` are what the documents say
and the code does not do; TLC refutes them.

## What is not modelled

- Crashes: nothing is persisted, so there is no recovery to check; a restart forgets all keys.
- Data races on the records that handlers encode after the lock is given up.
- The user service: create, update, deactivate and the queries take one lock each, e-mails are neither
  changed nor given up, and what could go wrong a unit test reaches.
- The `DLQ` type of `pkg/events`: a bounded list that nothing fills, since `Outbox` keeps its own.
- The length of the pauses between attempts. `Retry` multiplies them out in floating point before it
  compares them with the limit; with the default three attempts they stay far below.
- HTTP, JSON, routing, metrics, log lines, prices, regions (a label in this code).
- A product posted with a reserved count or a negative stock; the documented requests have neither.
- Infrastructure, chaos scripts, load tests, CI.

## What could come next

Every component with a state worth a model is modelled, every safety property a run checks is proved for
all values of the constants, and so are the four refinements. What could still be added:

1. A promise of order-service to its clients, as `PaymentPromise` is for payments: with cancellations
   and degraded orders, and CreateOrder and CancelOrder to implement it where keys are serial.
2. `Orders` with `Payments` and `Inventory` in the place of their stubs, once the code calls them.
3. The user service, if it comes to keep more than one critical section.
