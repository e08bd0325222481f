------------------------------- MODULE Outbox -------------------------------
(***************************************************************************)
(* The Outbox and the EventBus of pkg/events.  Every method is one         *)
(* critical section, except EventBus.Publish, which copies the handlers,   *)
(* unlocks and then runs them one by one.  No service imports the package: *)
(* the publishers are those of the outbox pattern, which take the pending  *)
(* entries, publish each and record the outcome.  All events here are of   *)
(* one type, since the handlers of different types are unrelated.          *)
(***************************************************************************)
EXTENDS Naturals, Sequences, FiniteSets, SequencesExt

CONSTANTS
  Events,       \* events, each with its outbox entry
  Handlers,     \* handlers that subscribe to them
  Publishers,   \* background publishers that share the outbox
  MaxAttempts,  \* OutboxEntry.MaxAttempts
  MaxHist       \* b.maxHist

ASSUME OutboxAssumption ==
  /\ MaxAttempts \in Nat \ {0}
  /\ MaxHist \in Nat
  /\ IsFiniteSet(Publishers)

VARIABLES
  status,     \* the status of each entry, "absent" before it is added
  attempts,   \* entry.Attempts
  dlq,        \* how often each entry is in o.dlq
  handlers,   \* b.handlers of the one event type
  history,    \* b.history
  batch,      \* what is left of each publisher's answer of GetPending
  current,    \* the entry each publisher is publishing, as a set
  todo,       \* handlers that Publish has still to run, or that it has failed
  audience,   \* history: the handlers an event had when it was added
  delivered   \* history: <<event, handler>> pairs the handler accepted

outbox == <<status, attempts, dlq>>
bus == <<handlers, history>>
publishers == <<batch, current, todo>>
vars == <<outbox, bus, publishers, audience, delivered>>

Status == {"absent", "pending", "published", "failed", "dead"}
Failed == <<"error">>  \* todo of a Publish that returned an error

Init ==
  /\ status = [e \in Events |-> "absent"]
  /\ attempts = [e \in Events |-> 0]
  /\ dlq = [e \in Events |-> 0]
  /\ handlers = <<>> /\ history = <<>>
  /\ batch = [p \in Publishers |-> {}]
  /\ current = [p \in Publishers |-> {}]
  /\ todo = [p \in Publishers |-> <<>>]
  /\ audience = [e \in Events |-> {}]
  /\ delivered = {}

-----------------------------------------------------------------------------
(* The outbox. *)

Add(e) ==
  /\ status[e] = "absent"
  /\ status' = [status EXCEPT ![e] = "pending"]
  /\ audience' = [audience EXCEPT ![e] = Range(handlers)]
  /\ UNCHANGED <<attempts, dlq, bus, publishers, delivered>>

\* Mutant: an entry that has failed once is not pending any more.
PendingOnly == {e \in Events : status[e] = "pending"}

\* Mutant: dead entries are tried again.
PendingOrDead == {e \in Events : status[e] \in {"pending", "failed", "dead"}}

Pending == {e \in Events : status[e] \in {"pending", "failed"}}

GetPending(p) ==
  /\ batch[p] = {}
  /\ Pending # {}
  /\ batch' = [batch EXCEPT ![p] = Pending]
  /\ UNCHANGED <<outbox, bus, current, todo, audience, delivered>>

\* The publisher is done with its current entry.
NextEntry(p) ==
  /\ batch' = [batch EXCEPT ![p] = @ \ current[p]]
  /\ current' = [current EXCEPT ![p] = {}]
  /\ todo' = [todo EXCEPT ![p] = <<>>]

MarkPublished(p, e) ==
  /\ current[p] = {e} /\ todo[p] = <<>>
  /\ status' = [status EXCEPT ![e] = "published"]
  /\ NextEntry(p)
  /\ UNCHANGED <<attempts, dlq, bus, audience, delivered>>

MarkFailed(p, e) ==
  LET exhausted == attempts[e] + 1 >= MaxAttempts
  IN  /\ current[p] = {e} /\ todo[p] = Failed
      /\ attempts' = [attempts EXCEPT ![e] = @ + 1]
      /\ status' = [status EXCEPT ![e] = IF exhausted THEN "dead" ELSE "failed"]
      /\ dlq' = [dlq EXCEPT ![e] = IF exhausted THEN @ + 1 ELSE @]
      /\ NextEntry(p)
      /\ UNCHANGED <<bus, audience, delivered>>

-----------------------------------------------------------------------------
(* The event bus. *)

\* Mutant: a new handler goes in front of the others.
SubscribeFirst(h) ==
  /\ h \notin Range(handlers)
  /\ handlers' = <<h>> \o handlers
  /\ UNCHANGED <<outbox, history, publishers, audience, delivered>>

Subscribe(h) ==
  /\ h \notin Range(handlers)
  /\ handlers' = Append(handlers, h)
  /\ UNCHANGED <<outbox, history, publishers, audience, delivered>>

\* Mutant: the history is trimmed before the event is appended.
RememberLate(e) ==
  Append(IF Len(history) > MaxHist THEN Tail(history) ELSE history, e)

\* The last MaxHist events, e included.
Remember(e) ==
  LET all == Append(history, e)
  IN  IF Len(all) > MaxHist THEN Tail(all) ELSE all

\* Publish, up to the unlock: the handlers are copied.
Publish(p, e) ==
  /\ e \in batch[p] /\ current[p] = {}
  /\ history' = Remember(e)
  /\ current' = [current EXCEPT ![p] = {e}]
  /\ todo' = [todo EXCEPT ![p] = handlers]
  /\ UNCHANGED <<outbox, handlers, batch, audience, delivered>>

\* The next handler accepts the event.
HandlerAccepts(p, e) ==
  /\ current[p] = {e} /\ todo[p] \notin {<<>>, Failed}
  /\ delivered' = delivered \cup {<<e, Head(todo[p])>>}
  /\ todo' = [todo EXCEPT ![p] = Tail(@)]
  /\ UNCHANGED <<outbox, bus, batch, current, audience>>

\* Mutant: Publish goes on after a handler that failed, and forgets the error.
HandlerSkipped(p, e) ==
  /\ current[p] = {e} /\ todo[p] \notin {<<>>, Failed}
  /\ todo' = [todo EXCEPT ![p] = Tail(@)]
  /\ UNCHANGED <<outbox, bus, batch, current, audience, delivered>>

\* It returns an error, and Publish does not run the others.
HandlerFails(p, e) ==
  /\ current[p] = {e} /\ todo[p] \notin {<<>>, Failed}
  /\ todo' = [todo EXCEPT ![p] = Failed]
  /\ UNCHANGED <<outbox, bus, batch, current, audience, delivered>>

-----------------------------------------------------------------------------

Work(p) ==
  \/ GetPending(p)
  \/ \E e \in Events :
       \/ Publish(p, e) \/ HandlerAccepts(p, e) \/ HandlerFails(p, e)
       \/ MarkPublished(p, e) \/ MarkFailed(p, e)

Next ==
  \/ \E e \in Events : Add(e)
  \/ \E h \in Handlers : Subscribe(h)
  \/ \E p \in Publishers : Work(p)

\* Publishers come back every few seconds, and handlers return.
Spec == Init /\ [][Next]_vars /\ \A p \in Publishers : WF_vars(Work(p))

-----------------------------------------------------------------------------
(* What must hold. *)

\* The history keeps its bound, and a publisher works on an entry of its batch.
TypeOK ==
  /\ status \in [Events -> Status]
  /\ attempts \in [Events -> Nat] /\ dlq \in [Events -> Nat]
  /\ Range(handlers) \subseteq Handlers /\ IsInjective(handlers)
  /\ history \in Seq(Events) /\ Len(history) <= MaxHist
  /\ batch \in [Publishers -> SUBSET Events]
  /\ \A p \in Publishers :
       /\ current[p] \subseteq batch[p] /\ Cardinality(current[p]) <= 1
       /\ todo[p] = Failed \/ Range(todo[p]) \subseteq Handlers
       /\ current[p] = {} => todo[p] = <<>>
  /\ audience \in [Events -> SUBSET Handlers]
  /\ delivered \subseteq Events \X Handlers

\* An event is only marked published when every handler subscribed by the time it was
\* added has accepted it, whatever failed and was tried again in between.
PublishedReachedAll ==
  \A e \in Events : status[e] = "published" =>
    \A h \in audience[e] : <<e, h>> \in delivered

\* Handlers get an event in the order they subscribed: one that has accepted it comes
\* after handlers that have, also when the event was published several times.
EarlierHandlersFirst ==
  \A e \in Events : \A i, j \in 1 .. Len(handlers) :
    (i < j /\ <<e, handlers[j]>> \in delivered) => <<e, handlers[i]>> \in delivered

\* The dead letter queue holds what has used up its attempts, once, and once more for
\* each publisher that had it in hand at the time; what failed can still be tried.
DeadLettersAreExhausted ==
  \A e \in Events :
    /\ dlq[e] = IF attempts[e] < MaxAttempts THEN 0 ELSE attempts[e] - MaxAttempts + 1
    /\ dlq[e] <= Cardinality(Publishers)
    /\ status[e] = "dead" => dlq[e] > 0
    /\ status[e] = "failed" => dlq[e] = 0 /\ attempts[e] > 0

\* Every event that was added ends up published or dead for good, though a publisher
\* that is late may still turn one into the other.
SettlesForGood ==
  \A e \in Events : [](status[e] # "absent" => <>[](status[e] \in {"published", "dead"}))
=============================================================================
