---------------------------- MODULE OutboxProofs ----------------------------
(***************************************************************************)
(* Theorems about Outbox, for any sets of events, handlers and publishers, *)
(* any number of attempts and any length of the history.                   *)
(***************************************************************************)
EXTENDS Outbox, SequenceTheorems, FiniteSetTheorems, TLAPS

-----------------------------------------------------------------------------
(* Sequences of handlers. *)

\* What the history of the bus keeps is a sequence of events within its bound.
LEMMA RememberType ==
  ASSUME NEW e \in Events, history \in Seq(Events), Len(history) <= MaxHist
  PROVE  Remember(e) \in Seq(Events) /\ Len(Remember(e)) <= MaxHist
<1> DEFINE all == Append(history, e)
<1>1. all \in Seq(Events) /\ Len(all) = Len(history) + 1 /\ all # <<>>
  OBVIOUS
<1>2. MaxHist \in Nat /\ Len(history) \in Nat
  BY OutboxAssumption
<1>3. Tail(all) \in Seq(Events) /\ Len(Tail(all)) = Len(all) - 1
  BY <1>1
<1>. QED BY <1>1, <1>2, <1>3 DEF Remember

\* Taking the first handler off a sequence moves the others forward.
LEMMA TailOfHandlers ==
  ASSUME NEW s \in Seq(Handlers), s # <<>>
  PROVE  /\ Head(s) \in Handlers /\ Head(s) = s[1] /\ Len(s) >= 1
         /\ Tail(s) \in Seq(Handlers) /\ Len(Tail(s)) = Len(s) - 1
         /\ \A j \in 1 .. Len(Tail(s)) : Tail(s)[j] = s[j + 1]
  BY HeadTailProperties

\* A new handler comes after the others, which keep their places.
LEMMA AppendHandler ==
  ASSUME NEW s \in Seq(Handlers), NEW h \in Handlers
  PROVE  /\ Append(s, h) \in Seq(Handlers)
         /\ Len(Append(s, h)) = Len(s) + 1
         /\ \A i \in 1 .. Len(s) : Append(s, h)[i] = s[i]
         /\ Append(s, h)[Len(s) + 1] = h
  BY AppendProperties

\* With one handler more that has run there is one less to run, at the next place.
LEMMA NextPlace ==
  ASSUME NEW ran \in Nat, NEW left \in Nat, left >= 1
  PROVE  /\ ran + 1 + (left - 1) = ran + left
         /\ \A j \in 1 .. left - 1 : j + 1 \in 1 .. left /\ ran + (j + 1) = ran + 1 + j
  OBVIOUS

\* The range of a sequence of handlers, by its places.
LEMMA RangeByPlaces ==
  ASSUME NEW s \in Seq(Handlers)
  PROVE  Range(s) = {s[i] : i \in 1 .. Len(s)}
<1>1. DOMAIN s = 1 .. Len(s)
  BY LenProperties
<1>. QED BY <1>1 DEF Range

-----------------------------------------------------------------------------
(* The inductive invariant. *)

Types ==
  /\ status \in [Events -> Status]
  /\ attempts \in [Events -> Nat] /\ dlq \in [Events -> Nat]
  /\ handlers \in Seq(Handlers)
  /\ history \in Seq(Events) /\ Len(history) <= MaxHist
  /\ batch \in [Publishers -> SUBSET Events]
  /\ current \in [Publishers -> SUBSET Events]
  /\ todo \in [Publishers -> Seq(Handlers) \cup {Failed}]
  /\ audience \in [Events -> SUBSET Handlers]
  /\ delivered \subseteq Events \X Handlers

\* A publisher works on at most one entry of its batch, and only on what was added.
InHand ==
  \A p \in Publishers :
    /\ current[p] = {} \/ \E e \in batch[p] : current[p] = {e}
    /\ current[p] = {} => todo[p] = <<>>
    /\ \A e \in batch[p] : status[e] # "absent"

\* Handlers subscribe once, and only those that have get events.
Subscribed ==
  /\ \A i, j \in 1 .. Len(handlers) : handlers[i] = handlers[j] => i = j
  /\ \A e \in Events, h \in Handlers :
       <<e, h>> \in delivered \/ h \in audience[e] =>
         \E i \in 1 .. Len(handlers) : h = handlers[i]

\* Publish has run the first handlers and will run the next, up to those that had
\* subscribed when the event was added, and beyond.
Progress(p, e, ran) ==
  /\ ran + Len(todo[p]) <= Len(handlers)
  /\ \A j \in 1 .. Len(todo[p]) : todo[p][j] = handlers[ran + j]
  /\ \A i \in 1 .. ran : <<e, handlers[i]>> \in delivered
  /\ \A h \in audience[e] : \E i \in 1 .. ran + Len(todo[p]) : h = handlers[i]

InProgress ==
  \A p \in Publishers : \A e \in current[p] :
    todo[p] # Failed => \E ran \in Nat : Progress(p, e, ran)

OutboxInv ==
  /\ Types /\ InHand /\ Subscribed /\ InProgress
  /\ PublishedReachedAll /\ EarlierHandlersFirst

\* An empty outbox has no publication under way.
LEMMA InitOutboxInv == Init => OutboxInv
<1>. SUFFICES ASSUME Init PROVE OutboxInv
  OBVIOUS
<1>. USE DEF Init
<1>1. <<>> \in Seq(Events) /\ <<>> \in Seq(Handlers) /\ Len(<<>>) = 0
  OBVIOUS
<1>2. Types
  BY <1>1, OutboxAssumption DEF Types, Status
<1>3. InHand /\ Subscribed /\ InProgress
  BY DEF InHand, Subscribed, InProgress
<1>4. PublishedReachedAll /\ EarlierHandlersFirst
  BY DEF PublishedReachedAll, EarlierHandlersFirst
<1>. QED BY <1>2, <1>3, <1>4 DEF OutboxInv

-----------------------------------------------------------------------------
(* Steps that touch the outbox only. *)

\* What a publisher has done is not undone by a step of another one.
LEMMA ProgressFrame ==
  ASSUME InProgress, NEW q \in Publishers, NEW e \in current[q],
         todo'[q] = todo[q], todo[q] # Failed,
         handlers' = handlers, audience'[e] = audience[e], delivered \subseteq delivered'
  PROVE  \E ran \in Nat : Progress(q, e, ran)'
<1>1. PICK ran \in Nat : Progress(q, e, ran)
  BY DEF InProgress
<1>2. Progress(q, e, ran)'
  BY <1>1 DEF Progress
<1>. QED BY <1>2

\* A new entry is pending and in no publisher's hands.
LEMMA AddStep ==
  ASSUME OutboxInv, NEW e \in Events, Add(e)
  PROVE  OutboxInv'
<1>. USE DEF OutboxInv, Add, bus, publishers
<1>1. /\ Range(handlers) = {handlers[i] : i \in 1 .. Len(handlers)}
      /\ Range(handlers) \subseteq Handlers
  <2>1. handlers \in Seq(Handlers)
    BY DEF Types
  <2>2. \A i \in 1 .. Len(handlers) : handlers[i] \in Handlers
    BY <2>1, ElementOfSeq
  <2>. QED BY <2>1, <2>2, RangeByPlaces
<1>2. Types'
  BY <1>1 DEF Types, Status
<1>3. InHand'
  BY DEF InHand, Types
<1>4. Subscribed'
  BY <1>1 DEF Subscribed, Types
<1>5. \A p \in Publishers : e \notin current[p]
  BY DEF InHand, Types
<1>6. InProgress'
  <2>1. ASSUME NEW q \in Publishers, NEW f \in current[q], todo[q] # Failed
        PROVE  \E ran \in Nat : Progress(q, f, ran)'
    <3>1. audience'[f] = audience[f]
      BY <1>5, <2>1 DEF Types
    <3>. QED BY <2>1, <3>1, ProgressFrame
  <2>. QED BY <2>1 DEF InProgress, Failed
<1>7. PublishedReachedAll' /\ EarlierHandlersFirst'
  BY DEF PublishedReachedAll, EarlierHandlersFirst, Types
<1>. QED BY <1>2, <1>3, <1>4, <1>6, <1>7

\* A publisher takes up only entries that exist.
LEMMA GetPendingStep ==
  ASSUME OutboxInv, NEW p \in Publishers, GetPending(p)
  PROVE  OutboxInv'
<1>. USE DEF OutboxInv, GetPending, outbox, bus
<1>1. Types'
  BY DEF Types, Pending
<1>2. InHand'
  BY DEF InHand, Types, Pending
<1>3. Subscribed' /\ PublishedReachedAll' /\ EarlierHandlersFirst'
  BY DEF Subscribed, PublishedReachedAll, EarlierHandlersFirst
<1>4. InProgress'
  BY ProgressFrame DEF InProgress, Failed
<1>. QED BY <1>1, <1>2, <1>3, <1>4

\* When nothing is left to run, every handler of the event's audience has accepted it.
LEMMA RanThemAll ==
  ASSUME OutboxInv, NEW p \in Publishers, NEW e \in Events, current[p] = {e}, todo[p] = <<>>
  PROVE  \A h \in audience[e] : <<e, h>> \in delivered
<1>1. <<>> # Failed /\ Len(<<>>) = 0
  BY DEF Failed
<1>2. PICK ran \in Nat : Progress(p, e, ran)
  BY <1>1 DEF OutboxInv, InProgress
<1>. QED BY <1>1, <1>2 DEF Progress

\* An entry is marked published after its publication has run.
LEMMA MarkPublishedStep ==
  ASSUME OutboxInv, NEW p \in Publishers, NEW e \in Events, MarkPublished(p, e)
  PROVE  OutboxInv'
<1>. USE DEF OutboxInv, MarkPublished, NextEntry, bus
<1>1. \A h \in audience[e] : <<e, h>> \in delivered
  BY RanThemAll
<1>2. <<>> \in Seq(Handlers)
  OBVIOUS
<1>3. Types'
  BY <1>2 DEF Types, Status
<1>4. InHand'
  BY DEF InHand, Types
<1>5. Subscribed' /\ EarlierHandlersFirst'
  BY DEF Subscribed, EarlierHandlersFirst
<1>6. InProgress'
  <2>1. ASSUME NEW q \in Publishers, NEW f \in current'[q], todo'[q] # Failed
        PROVE  \E ran \in Nat : Progress(q, f, ran)'
    <3>1. f \in current[q] /\ todo'[q] = todo[q]
      BY DEF Types
    <3>. QED BY <2>1, <3>1, ProgressFrame
  <2>. QED BY <2>1 DEF InProgress, Failed
<1>7. PublishedReachedAll'
  BY <1>1 DEF PublishedReachedAll, Types
<1>. QED BY <1>3, <1>4, <1>5, <1>6, <1>7

\* An entry that failed has run some of its handlers, in order.
LEMMA MarkFailedStep ==
  ASSUME OutboxInv, NEW p \in Publishers, NEW e \in Events, MarkFailed(p, e)
  PROVE  OutboxInv'
<1>. USE DEF OutboxInv, MarkFailed, NextEntry, bus
<1>2. <<>> \in Seq(Handlers)
  OBVIOUS
<1>3. Types'
  BY <1>2 DEF Types, Status
<1>4. InHand'
  BY DEF InHand, Types
<1>5. Subscribed' /\ EarlierHandlersFirst'
  BY DEF Subscribed, EarlierHandlersFirst
<1>6. InProgress'
  <2>1. ASSUME NEW q \in Publishers, NEW f \in current'[q], todo'[q] # Failed
        PROVE  \E ran \in Nat : Progress(q, f, ran)'
    <3>1. f \in current[q] /\ todo'[q] = todo[q]
      BY DEF Types
    <3>. QED BY <2>1, <3>1, ProgressFrame
  <2>. QED BY <2>1 DEF InProgress, Failed
<1>7. PublishedReachedAll'
  BY DEF PublishedReachedAll, Types
<1>. QED BY <1>3, <1>4, <1>5, <1>6, <1>7

-----------------------------------------------------------------------------
(* Steps of the event bus. *)

\* A new handler is behind all places that a publication may still reach.
LEMMA SubscribeStep ==
  ASSUME OutboxInv, NEW h \in Handlers, Subscribe(h)
  PROVE  OutboxInv'
<1>. USE DEF OutboxInv, Subscribe, outbox, publishers
<1>1. handlers \in Seq(Handlers) /\ Len(handlers) \in Nat
  BY DEF Types
<1>2. /\ handlers' \in Seq(Handlers) /\ Len(handlers') = Len(handlers) + 1
      /\ \A i \in 1 .. Len(handlers) : handlers'[i] = handlers[i]
      /\ handlers'[Len(handlers) + 1] = h
  BY <1>1, AppendHandler
<1>3. \A i \in 1 .. Len(handlers) : handlers[i] # h
  BY <1>1, RangeByPlaces
<1>4. \A e \in Events : <<e, h>> \notin delivered
  BY <1>3 DEF Subscribed
<1>5. Types'
  BY <1>2 DEF Types
<1>6. InHand'
  BY DEF InHand
<1>7. Subscribed'
  <2>1. \A i, j \in 1 .. Len(handlers') : handlers'[i] = handlers'[j] => i = j
    BY <1>1, <1>2, <1>3 DEF Subscribed
  <2>2. ASSUME NEW e \in Events, NEW g \in Handlers, <<e, g>> \in delivered \/ g \in audience[e]
        PROVE  \E i \in 1 .. Len(handlers') : g = handlers'[i]
    <3>1. PICK i \in 1 .. Len(handlers) : g = handlers[i]
      BY <2>2 DEF Subscribed
    <3>. QED BY <1>1, <1>2, <3>1
  <2>. QED BY <2>1, <2>2 DEF Subscribed
<1>8. InProgress'
  <2>1. ASSUME NEW q \in Publishers, NEW e \in current[q], todo[q] # Failed
        PROVE  \E ran \in Nat : Progress(q, e, ran)'
    <3>1. PICK ran \in Nat : Progress(q, e, ran)
      BY <2>1 DEF InProgress
    <3>2. Len(todo[q]) \in Nat
      BY <2>1 DEF Types
    <3>3. Progress(q, e, ran)'
      BY <1>1, <1>2, <3>1, <3>2 DEF Progress
    <3>. QED BY <3>3
  <2>. QED BY <2>1 DEF InProgress, Failed
<1>9. PublishedReachedAll'
  BY DEF PublishedReachedAll
<1>10. EarlierHandlersFirst'
  BY <1>1, <1>2, <1>4 DEF EarlierHandlersFirst
<1>. QED BY <1>5, <1>6, <1>7, <1>8, <1>9, <1>10

\* A publication starts with the handlers subscribed so far, all still to run.
LEMMA PublishStep ==
  ASSUME OutboxInv, NEW p \in Publishers, NEW e \in Events, Publish(p, e)
  PROVE  OutboxInv'
<1>. USE DEF OutboxInv, Publish, outbox
<1>1. handlers \in Seq(Handlers) /\ Len(handlers) \in Nat
  BY DEF Types
<1>2. Types'
  BY RememberType DEF Types
<1>3. InHand'
  BY DEF InHand, Types
<1>4. Subscribed' /\ PublishedReachedAll' /\ EarlierHandlersFirst'
  BY DEF Subscribed, PublishedReachedAll, EarlierHandlersFirst
<1>5. Progress(p, e, 0)'
  <2>1. todo'[p] = handlers /\ handlers' = handlers /\ audience' = audience
    BY DEF Types
  <2>2. 0 + Len(handlers) = Len(handlers) /\ \A j \in 1 .. Len(handlers) : 0 + j = j
    BY <1>1
  <2>3. \A g \in audience[e] : \E i \in 1 .. Len(handlers) : g = handlers[i]
    BY DEF Subscribed, Types
  <2>. QED BY <1>1, <2>1, <2>2, <2>3 DEF Progress
<1>6. InProgress'
  <2>1. ASSUME NEW q \in Publishers, NEW f \in current'[q], todo'[q] # Failed, q # p
        PROVE  \E ran \in Nat : Progress(q, f, ran)'
    <3>1. f \in current[q] /\ todo'[q] = todo[q]
      BY <2>1 DEF Types
    <3>. QED BY <2>1, <3>1, ProgressFrame
  <2>2. \A f \in current'[p] : f = e
    BY DEF Types
  <2>. QED BY <1>5, <2>1, <2>2 DEF InProgress, Failed
<1>. QED BY <1>2, <1>3, <1>4, <1>6

\* The handlers that come before the one that accepts have accepted already.
LEMMA HandlerAcceptsStep ==
  ASSUME OutboxInv, NEW p \in Publishers, NEW e \in Events, HandlerAccepts(p, e)
  PROVE  OutboxInv'
<1>. USE DEF OutboxInv, HandlerAccepts, outbox, bus
<1>1. todo[p] \in Seq(Handlers) /\ todo[p] # <<>> /\ Len(handlers) \in Nat
  BY DEF Types
<1>2. /\ Head(todo[p]) \in Handlers /\ Head(todo[p]) = todo[p][1] /\ Len(todo[p]) >= 1
      /\ Tail(todo[p]) \in Seq(Handlers) /\ Len(Tail(todo[p])) = Len(todo[p]) - 1
      /\ \A j \in 1 .. Len(Tail(todo[p])) : Tail(todo[p])[j] = todo[p][j + 1]
  BY <1>1, TailOfHandlers
<1>3. PICK ran \in Nat : Progress(p, e, ran)
  BY DEF InProgress
<1>4. /\ Len(todo[p]) \in Nat /\ ran + 1 \in 1 .. Len(handlers)
      /\ Head(todo[p]) = handlers[ran + 1]
      /\ delivered' = delivered \cup {<<e, handlers[ran + 1]>>}
  BY <1>1, <1>2, <1>3 DEF Progress
<1>5. Types'
  BY <1>2 DEF Types
<1>6. InHand'
  BY DEF InHand, Types
<1>7. Subscribed'
  BY <1>4 DEF Subscribed
<1>8. PublishedReachedAll'
  BY DEF PublishedReachedAll
<1>9. EarlierHandlersFirst'
  <2>1. ASSUME NEW f \in Events, NEW i \in 1 .. Len(handlers), NEW j \in 1 .. Len(handlers),
               i < j, <<f, handlers[j]>> \in delivered'
        PROVE  <<f, handlers[i]>> \in delivered'
    <3>1. CASE <<f, handlers[j]>> \in delivered
      BY <2>1, <3>1 DEF EarlierHandlersFirst
    <3>2. CASE f = e /\ handlers[j] = handlers[ran + 1]
      <4>1. j = ran + 1
        BY <1>4, <3>2 DEF Subscribed
      <4>2. i \in 1 .. ran
        BY <2>1, <4>1
      <4>. QED BY <1>3, <3>2, <4>2 DEF Progress
    <3>. QED BY <1>4, <2>1, <3>1, <3>2
  <2>. QED BY <2>1 DEF EarlierHandlersFirst
<1>10. Progress(p, e, ran + 1)'
  <2>1. todo'[p] = Tail(todo[p])
    BY DEF Types
  <2>2. Len(todo'[p]) = Len(todo[p]) - 1
    BY <1>2, <2>1
  <2>3. ran + 1 + Len(todo'[p]) = ran + Len(todo[p])
    BY <1>2, <1>4, <2>2, NextPlace
  <2>4. \A j \in 1 .. Len(todo'[p]) : todo'[p][j] = handlers[ran + 1 + j]
    <3>1. ASSUME NEW j \in 1 .. Len(todo'[p]) PROVE todo'[p][j] = handlers[ran + 1 + j]
      <4>1. j + 1 \in 1 .. Len(todo[p]) /\ ran + (j + 1) = ran + 1 + j
        BY <1>2, <1>4, <2>2, NextPlace
      <4>. QED BY <1>2, <1>3, <2>1, <4>1 DEF Progress
    <3>. QED BY <3>1
  <2>5. \A i \in 1 .. ran + 1 : <<e, handlers[i]>> \in delivered'
    BY <1>3, <1>4 DEF Progress
  <2>. QED BY <1>3, <2>3, <2>4, <2>5 DEF Progress
<1>11. InProgress'
  <2>1. ASSUME NEW q \in Publishers, NEW f \in current[q], todo'[q] # Failed, q # p
        PROVE  \E n \in Nat : Progress(q, f, n)'
    <3>1. todo'[q] = todo[q]
      BY <2>1 DEF Types
    <3>. QED BY <2>1, <3>1, ProgressFrame
  <2>2. ran + 1 \in Nat
    OBVIOUS
  <2>. QED BY <1>10, <2>1, <2>2 DEF InProgress, Failed
<1>. QED BY <1>5, <1>6, <1>7, <1>8, <1>9, <1>11

\* A handler that fails ends its publication and accepts nothing.
LEMMA HandlerFailsStep ==
  ASSUME OutboxInv, NEW p \in Publishers, NEW e \in Events, HandlerFails(p, e)
  PROVE  OutboxInv'
<1>. USE DEF OutboxInv, HandlerFails, outbox, bus
<1>1. Types'
  BY DEF Types
<1>2. InHand'
  BY DEF InHand, Types
<1>3. Subscribed' /\ PublishedReachedAll' /\ EarlierHandlersFirst'
  BY DEF Subscribed, PublishedReachedAll, EarlierHandlersFirst
<1>4. InProgress'
  <2>1. ASSUME NEW q \in Publishers, NEW f \in current[q], todo'[q] # Failed
        PROVE  \E ran \in Nat : Progress(q, f, ran)'
    <3>1. todo'[q] = todo[q]
      BY <2>1 DEF Types
    <3>. QED BY <2>1, <3>1, ProgressFrame
  <2>. QED BY <2>1 DEF InProgress, Failed
<1>. QED BY <1>1, <1>2, <1>3, <1>4

-----------------------------------------------------------------------------

\* Every step keeps what is known of the publications.
LEMMA NextOutboxInv == OutboxInv /\ [Next]_vars => OutboxInv'
<1>1. CASE Next
  BY <1>1, AddStep, SubscribeStep, GetPendingStep, PublishStep, HandlerAcceptsStep,
     HandlerFailsStep, MarkPublishedStep, MarkFailedStep DEF Next, Work
<1>2. ASSUME OutboxInv, UNCHANGED vars PROVE OutboxInv'
  <2>. USE <1>2 DEF OutboxInv, vars, outbox, bus, publishers
  <2>1. Types' /\ InHand' /\ Subscribed'
    BY DEF Types, InHand, Subscribed
  <2>2. InProgress'
    BY ProgressFrame DEF InProgress, Failed
  <2>. QED BY <2>1, <2>2 DEF PublishedReachedAll, EarlierHandlersFirst
<1>. QED BY <1>1, <1>2

\* OutboxInv holds always.
LEMMA OutboxInvariant == Spec => []OutboxInv
  BY InitOutboxInv, NextOutboxInv, PTL DEF Spec

\* The history keeps its bound and a publisher has at most one entry in hand, for any
\* bound and any number of publishers.
THEOREM TypeCorrect == Spec => []TypeOK
<1>1. ASSUME OutboxInv PROVE TypeOK
  <2>. USE <1>1 DEF OutboxInv
  <2>1. Range(handlers) \subseteq Handlers /\ IsInjective(handlers)
    <3>1. /\ DOMAIN handlers = 1 .. Len(handlers)
          /\ \A i \in DOMAIN handlers : handlers[i] \in Handlers
      BY ElementOfSeq, LenProperties DEF Types
    <3>. QED BY <3>1 DEF Range, IsInjective, Subscribed
  <2>2. ASSUME NEW p \in Publishers
        PROVE  /\ current[p] \subseteq batch[p] /\ Cardinality(current[p]) <= 1
               /\ todo[p] = Failed \/ Range(todo[p]) \subseteq Handlers
               /\ current[p] = {} => todo[p] = <<>>
    <3>1. Cardinality(current[p]) <= 1
      <4>1. CASE current[p] = {}
        BY <4>1, FS_EmptySet
      <4>2. ASSUME NEW e \in batch[p], current[p] = {e} PROVE Cardinality(current[p]) = 1
        BY <4>2, FS_Singleton
      <4>. QED BY <4>1, <4>2 DEF InHand
    <3>2. todo[p] \in Seq(Handlers) => Range(todo[p]) \subseteq Handlers
      <4>1. ASSUME todo[p] \in Seq(Handlers) PROVE Range(todo[p]) \subseteq Handlers
        BY <4>1, ElementOfSeq, RangeByPlaces
      <4>. QED BY <4>1
    <3>. QED BY <3>1, <3>2 DEF InHand, Types
  <2>. QED BY <2>1, <2>2 DEF Types, TypeOK
<1>. QED BY <1>1, OutboxInvariant, PTL

\* However many publishers share the entries, whatever handlers fail and subscribe
\* meanwhile: an event marked published has reached its audience.
THEOREM ReachedCorrect == Spec => []PublishedReachedAll
<1>1. OutboxInv => PublishedReachedAll
  BY DEF OutboxInv
<1>. QED BY <1>1, OutboxInvariant, PTL

\* Every handler that has accepted an event comes after handlers that have.
THEOREM OrderCorrect == Spec => []EarlierHandlersFirst
<1>1. OutboxInv => EarlierHandlersFirst
  BY DEF OutboxInv
<1>. QED BY <1>1, OutboxInvariant, PTL

-----------------------------------------------------------------------------
(* The dead letter queue. *)

Holders(e) == {p \in Publishers : e \in batch[p]}

\* An exhausted entry is not given out again, so that only the publishers that hold it
\* can still add to the dead letter queue, each once.
DeadInv ==
  \A e \in Events :
    /\ dlq[e] = IF attempts[e] < MaxAttempts THEN 0 ELSE attempts[e] - MaxAttempts + 1
    /\ dlq[e] > 0 => status[e] \in {"published", "dead"}
    /\ dlq[e] > 0 => dlq[e] + Cardinality(Holders(e)) <= Cardinality(Publishers)
    /\ status[e] = "dead" => dlq[e] > 0
    /\ status[e] = "failed" => dlq[e] = 0 /\ attempts[e] > 0

\* Publishers are finitely many, and so are those that hold an entry.
LEMMA HoldersFinite ==
  ASSUME NEW e \in Events
  PROVE  /\ IsFiniteSet(Holders(e)) /\ Cardinality(Holders(e)) \in Nat
         /\ Cardinality(Publishers) \in Nat
         /\ Cardinality(Holders(e)) <= Cardinality(Publishers)
  BY OutboxAssumption, FS_Subset, FS_CardinalityType DEF Holders

\* A publisher that gives an entry back is one holder less.
LEMMA GiveBack ==
  ASSUME Types, NEW e \in Events, NEW p \in Publishers, current[p] = {e}, e \in batch[p],
         NextEntry(p)
  PROVE  /\ Cardinality(Holders(e)') = Cardinality(Holders(e)) - 1
         /\ \A f \in Events : f # e => Holders(f)' = Holders(f)
<1>1. Holders(e)' = Holders(e) \ {p} /\ p \in Holders(e)
  BY DEF Holders, NextEntry, Types
<1>2. Cardinality(Holders(e) \ {p}) = Cardinality(Holders(e)) - 1
  BY <1>1, HoldersFinite, FS_RemoveElement
<1>3. \A f \in Events : f # e => Holders(f)' = Holders(f)
  BY DEF Holders, NextEntry, Types
<1>. QED BY <1>1, <1>2, <1>3

\* At the start nothing has failed and nothing is dead.
LEMMA InitDeadInv == Init => DeadInv
  BY OutboxAssumption DEF Init, DeadInv

\* A failure of an entry at its last attempt, or beyond it, is one dead letter more.
LEMMA MarkFailedKeepsDead ==
  ASSUME OutboxInv, DeadInv, NEW p \in Publishers, NEW e \in Events, MarkFailed(p, e)
  PROVE  DeadInv'
<1>. USE OutboxAssumption DEF OutboxInv, MarkFailed
<1>1. attempts[e] \in Nat /\ dlq[e] \in Nat /\ e \in batch[p]
  BY DEF Types, InHand
<1>2. /\ Cardinality(Holders(e)') = Cardinality(Holders(e)) - 1
      /\ \A f \in Events : f # e => Holders(f)' = Holders(f)
  BY <1>1, GiveBack
<1>3. /\ Cardinality(Holders(e)) \in Nat /\ Cardinality(Publishers) \in Nat
      /\ Cardinality(Holders(e)) <= Cardinality(Publishers)
  BY HoldersFinite
<1>4. ASSUME NEW f \in Events, f # e
      PROVE  status'[f] = status[f] /\ dlq'[f] = dlq[f] /\ attempts'[f] = attempts[f]
  BY <1>4 DEF Types
<1>5. /\ attempts'[e] = attempts[e] + 1
      /\ status'[e] = IF attempts[e] + 1 >= MaxAttempts THEN "dead" ELSE "failed"
      /\ dlq'[e] = IF attempts[e] + 1 >= MaxAttempts THEN dlq[e] + 1 ELSE dlq[e]
  BY DEF Types
<1>6. /\ dlq'[e] = IF attempts'[e] < MaxAttempts THEN 0 ELSE attempts'[e] - MaxAttempts + 1
      /\ dlq'[e] > 0 => status'[e] = "dead"
      /\ status'[e] = "dead" => dlq'[e] > 0
      /\ status'[e] = "failed" => dlq'[e] = 0 /\ attempts'[e] > 0
  BY <1>1, <1>5 DEF DeadInv
<1>7. dlq'[e] > 0 => dlq'[e] + Cardinality(Holders(e)') <= Cardinality(Publishers)
  BY <1>1, <1>2, <1>3, <1>5 DEF DeadInv
<1>8. \A f \in Events : f # e =>
        (dlq'[f] > 0 => dlq'[f] + Cardinality(Holders(f)') <= Cardinality(Publishers))
  BY <1>2, <1>4 DEF DeadInv
<1>. QED BY <1>4, <1>6, <1>7, <1>8 DEF DeadInv

\* Marking an entry published adds no dead letter.
LEMMA MarkPublishedKeepsDead ==
  ASSUME OutboxInv, DeadInv, NEW p \in Publishers, NEW e \in Events, MarkPublished(p, e)
  PROVE  DeadInv'
<1>. USE DEF OutboxInv, MarkPublished
<1>1. dlq[e] \in Nat /\ e \in batch[p]
  BY DEF Types, InHand
<1>2. /\ Cardinality(Holders(e)') = Cardinality(Holders(e)) - 1
      /\ \A f \in Events : f # e => Holders(f)' = Holders(f)
  BY <1>1, GiveBack
<1>3. Cardinality(Holders(e)) \in Nat /\ Cardinality(Publishers) \in Nat
  BY HoldersFinite
<1>4. status'[e] = "published" /\ \A f \in Events : f # e => status'[f] = status[f]
  BY DEF Types
<1>5. \A f \in Events :
        dlq[f] > 0 => dlq[f] + Cardinality(Holders(f)') <= Cardinality(Publishers)
  BY <1>1, <1>2, <1>3 DEF DeadInv
<1>. QED BY <1>4, <1>5 DEF DeadInv

\* Every step keeps the account of the dead letters.
LEMMA NextDeadInv == OutboxInv /\ DeadInv /\ [Next]_vars => DeadInv'
<1>. SUFFICES ASSUME OutboxInv, DeadInv, [Next]_vars PROVE DeadInv'
  OBVIOUS
<1>. USE DEF OutboxInv, outbox, bus, publishers
<1>1. ASSUME NEW e \in Events, Add(e) PROVE DeadInv'
  BY <1>1 DEF Add, DeadInv, Holders, Types
<1>2. ASSUME NEW p \in Publishers, GetPending(p) PROVE DeadInv'
  <2>1. \A e \in Events : dlq[e] > 0 => Holders(e)' = Holders(e)
    BY <1>2 DEF GetPending, Pending, Holders, DeadInv, Types
  <2>. QED BY <1>2, <2>1 DEF GetPending, DeadInv
<1>3. ASSUME NEW p \in Publishers, NEW e \in Events,
             Publish(p, e) \/ HandlerAccepts(p, e) \/ HandlerFails(p, e)
      PROVE  DeadInv'
  BY <1>3 DEF Publish, HandlerAccepts, HandlerFails, DeadInv, Holders
<1>4. ASSUME NEW h \in Handlers, Subscribe(h) PROVE DeadInv'
  BY <1>4 DEF Subscribe, DeadInv, Holders
<1>5. CASE UNCHANGED vars
  BY <1>5 DEF vars, DeadInv, Holders
<1>. QED BY <1>1, <1>2, <1>3, <1>4, <1>5, MarkFailedKeepsDead, MarkPublishedKeepsDead
        DEF Next, Work

\* The dead letter queue holds an entry for every failure from its last attempt on, and
\* at most once for each publisher, however many share the outbox.
THEOREM DeadLettersCorrect == Spec => []DeadLettersAreExhausted
<1>1. OutboxInv /\ DeadInv => DeadLettersAreExhausted
  <2>. SUFFICES ASSUME OutboxInv, DeadInv, NEW e \in Events
                PROVE  dlq[e] <= Cardinality(Publishers)
    BY DEF DeadInv, DeadLettersAreExhausted
  <2>1. dlq[e] \in Nat
    BY DEF OutboxInv, Types
  <2>. QED BY <2>1, HoldersFinite DEF DeadInv
<1>. QED BY <1>1, InitDeadInv, NextDeadInv, OutboxInvariant, PTL DEF Spec
=============================================================================
