--------------------------- MODULE InventoryLocks ---------------------------
(***************************************************************************)
(* InventoryStore.mu, a sync.RWMutex, and the operations that take it:     *)
(* once for reading, once for writing, or, in Stats, for reading and then  *)
(* for reading again in LowStockProducts before the first hold is given    *)
(* up.  A writer that has called Lock makes later RLock calls wait, also   *)
(* those of a goroutine that holds the lock for reading already.           *)
(***************************************************************************)
EXTENDS FiniteSets

CONSTANTS
  Readers,       \* goroutines in GetProduct, LowStockProducts, ...
  StatsCallers,  \* goroutines in Stats
  Writers        \* goroutines in Reserve, Confirm, Release, AddProduct or expireLoop

ASSUME InventoryLocksAssumption ==
  Readers \cap StatsCallers = {} /\ (Readers \cup StatsCallers) \cap Writers = {}

VARIABLE at  \* where each goroutine stands

Goroutines == Readers \cup StatsCallers \cup Writers
Standing(places) == {g \in Goroutines : at[g] \in places}

Init == at = [g \in Goroutines |-> "idle"]

Goto(g, from, to) == at[g] = from /\ at' = [at EXCEPT ![g] = to]

\* The writer that has announced itself and makes new readers wait.
Announced == Standing({"draining", "writing"})

\* Goroutines that hold the lock for reading, waiting for it again or not.
Holders == Standing({"reading", "nestedWaiting", "nested"})

-----------------------------------------------------------------------------
(* Readers and Stats. *)

RLock(g) ==
  /\ g \notin Writers
  /\ Goto(g, "idle", IF Announced = {} THEN "reading" ELSE "waiting")

Read(g) ==
  /\ g \in Readers
  /\ Goto(g, "reading", "idle")

\* Stats has counted the reservations and calls LowStockProducts.
StatsLocksAgain(g) ==
  /\ g \in StatsCallers
  /\ Goto(g, "reading", IF Announced = {} THEN "nested" ELSE "nestedWaiting")

\* Both holds end with the call.
StatsReturns(g) ==
  /\ Goto(g, "nested", "idle")

-----------------------------------------------------------------------------
(* Writers. *)

\* Lock queues on the mutex inside the RWMutex first: one writer is announced.
CallLock(g) ==
  /\ g \in Writers
  /\ Goto(g, "idle", "queued")

Announce(g) ==
  /\ Announced = {}
  /\ Goto(g, "queued", "draining")

Acquire(g) ==
  /\ Holders = {}
  /\ Goto(g, "draining", "writing")

\* Mutant: the operation returns early with the lock held.
UnlockMissing(g) == FALSE

\* Unlock lets every waiting reader in before the next writer.
Unlock(g) ==
  /\ at[g] = "writing"
  /\ at' = [h \in Goroutines |->
       CASE h = g -> "idle"
         [] at[h] = "waiting" -> "reading"
         [] at[h] = "nestedWaiting" -> "nested"
         [] OTHER -> at[h]]

Go(g) ==
  \/ Read(g) \/ StatsLocksAgain(g) \/ StatsReturns(g)
  \/ Announce(g) \/ Acquire(g) \/ Unlock(g)

Next == \E g \in Goroutines : RLock(g) \/ CallLock(g) \/ Go(g)

\* A goroutine that can run is scheduled, and the queue of writers is fair.
Spec == Init /\ [][Next]_at /\ \A g \in Goroutines : SF_at(Go(g))

-----------------------------------------------------------------------------
(* What must hold. *)

\* Every operation gets the lock and returns, unless a Stats call waits for the lock
\* it holds: readers do not starve the sweep of expireLoop, nor writers the readers.
\* (TestStats_ReturnsData expects Stats to return; against a writer that calls Lock
\* between its two RLocks it does not, and then nothing in the store does.)
StopsOnlyInStats ==
  \A g \in Goroutines :
    at[g] # "idle" ~> (at[g] = "idle" \/ Standing({"nestedWaiting"}) # {})
=============================================================================
