--------------------------- MODULE CircuitBreaker ---------------------------
(***************************************************************************)
(* CircuitBreaker.Execute of pkg/resilience: one critical section before   *)
(* the protected function, one after it.  Between the two the breaker is   *)
(* unlocked, so a result may be recorded in another state of the breaker   *)
(* than the one that let its call through.                                 *)
(***************************************************************************)
EXTENDS Naturals, FiniteSets

CONSTANTS
  Callers,           \* goroutines that call Execute, over and over
  FailureThreshold,  \* cfg.FailureThreshold
  SuccessThreshold,  \* cfg.SuccessThreshold
  Timeout,           \* cfg.Timeout, in ticks
  Wrap               \* bound: the totals are counted modulo Wrap

ASSUME CircuitBreakerAssumption ==
  /\ FailureThreshold \in Nat \ {0}
  /\ SuccessThreshold \in Nat \ {0}
  /\ Timeout \in Nat
  /\ Wrap \in Nat \ {0}

VARIABLES
  state,      \* cb.state
  failures,   \* cb.failures
  successes,  \* cb.successes
  sinceFailure,  \* time.Since(cb.lastFailure) in ticks, counted up to Timeout + 1
  totals,     \* cb.totalRequests, totalFailures and totalSuccesses
  running,    \* callers inside the protected function
  backend,    \* whether the protected function succeeds now
  rejected,   \* history: calls answered ErrCircuitOpen, modulo Wrap
  failed      \* history: results in a row that were failures, up to FailureThreshold

counters == <<failures, successes, sinceFailure, totals>>
history == <<rejected, failed>>
vars == <<state, counters, running, backend, history>>

Long == Timeout + 1
Total == [requests : 0 .. Wrap - 1, failures : 0 .. Wrap - 1, successes : 0 .. Wrap - 1]

Init ==
  /\ state = "closed"
  /\ failures = 0 /\ successes = 0
  /\ sinceFailure = Long
  /\ totals = [requests |-> 0, failures |-> 0, successes |-> 0]
  /\ running = {}
  /\ backend = "up"
  /\ rejected = 0 /\ failed = 0

Next1(n) == (n + 1) % Wrap
CountRequest == totals' = [totals EXCEPT !.requests = Next1(@)]

-----------------------------------------------------------------------------
(* Execute, before the protected function. *)

Admit(c) ==
  /\ c \notin running
  /\ state # "open"
  /\ CountRequest
  /\ running' = running \cup {c}
  /\ UNCHANGED <<state, failures, successes, sinceFailure, backend, history>>

\* Mutant: the open breaker lets a call through without waiting for the timeout.
ProbeEarly(c) ==
  /\ c \notin running
  /\ state = "open"
  /\ CountRequest
  /\ state' = "half-open"
  /\ successes' = 0
  /\ running' = running \cup {c}
  /\ UNCHANGED <<failures, sinceFailure, backend, history>>

\* The first call after the timeout makes the breaker half-open. Once it is, calls
\* are admitted as if it were closed.
Probe(c) ==
  /\ c \notin running
  /\ state = "open" /\ sinceFailure > Timeout
  /\ CountRequest
  /\ state' = "half-open"
  /\ successes' = 0
  /\ running' = running \cup {c}
  /\ UNCHANGED <<failures, sinceFailure, backend, history>>

\* Mutant: a rejected call is not counted.
RejectUncounted(c) ==
  /\ c \notin running
  /\ state = "open" /\ sinceFailure <= Timeout
  /\ rejected' = Next1(rejected)
  /\ UNCHANGED <<state, counters, running, backend, failed>>

Reject(c) ==
  /\ c \notin running
  /\ state = "open" /\ sinceFailure <= Timeout
  /\ CountRequest
  /\ rejected' = Next1(rejected)
  /\ UNCHANGED <<state, failures, successes, sinceFailure, running, backend, failed>>

-----------------------------------------------------------------------------
(* Execute, after the protected function. *)

\* Mutant: opening leaves the failures that led to it in place.
FailKeepsCount(c) ==
  LET opens == state = "half-open" \/ failures + 1 >= FailureThreshold
  IN  /\ c \in running
      /\ running' = running \ {c}
      /\ totals' = [totals EXCEPT !.failures = Next1(@)]
      /\ successes' = 0
      /\ sinceFailure' = 0
      /\ failures' = failures + 1
      /\ state' = IF opens THEN "open" ELSE state
      /\ failed' = IF failed < FailureThreshold THEN failed + 1 ELSE failed
      /\ UNCHANGED <<backend, rejected>>

Fail(c) ==
  LET opens == state = "half-open" \/ failures + 1 >= FailureThreshold
  IN  /\ c \in running
      /\ running' = running \ {c}
      /\ totals' = [totals EXCEPT !.failures = Next1(@)]
      /\ successes' = 0
      /\ sinceFailure' = 0
      /\ failures' = IF opens THEN 0 ELSE failures + 1
      /\ state' = IF opens THEN "open" ELSE state
      /\ failed' = IF failed < FailureThreshold THEN failed + 1 ELSE failed
      /\ UNCHANGED <<backend, rejected>>

\* Mutant: a success does not end a run of failures.
SucceedKeepsFailures(c) ==
  LET closes == state = "half-open" /\ successes + 1 >= SuccessThreshold
  IN  /\ c \in running
      /\ running' = running \ {c}
      /\ totals' = [totals EXCEPT !.successes = Next1(@)]
      /\ state' = IF closes THEN "closed" ELSE state
      /\ successes' = IF state # "half-open" THEN successes
                      ELSE IF closes THEN 0 ELSE successes + 1
      /\ failed' = 0
      /\ UNCHANGED <<failures, sinceFailure, backend, rejected>>

\* Mutant: a success in the half-open state is not counted towards closing.
SucceedNeverCloses(c) ==
  /\ c \in running
  /\ running' = running \ {c}
  /\ totals' = [totals EXCEPT !.successes = Next1(@)]
  /\ failures' = 0
  /\ failed' = 0
  /\ UNCHANGED <<state, successes, sinceFailure, backend, rejected>>

Succeed(c) ==
  LET closes == state = "half-open" /\ successes + 1 >= SuccessThreshold
  IN  /\ c \in running
      /\ running' = running \ {c}
      /\ totals' = [totals EXCEPT !.successes = Next1(@)]
      /\ failures' = 0
      /\ state' = IF closes THEN "closed" ELSE state
      /\ successes' = IF state # "half-open" THEN successes
                      ELSE IF closes THEN 0 ELSE successes + 1
      /\ failed' = 0
      /\ UNCHANGED <<sinceFailure, backend, rejected>>

-----------------------------------------------------------------------------

\* Time passes.
Tick ==
  /\ sinceFailure < Long
  /\ sinceFailure' = sinceFailure + 1
  /\ UNCHANGED <<state, failures, successes, totals, running, backend, rejected, failed>>

\* The service behind the protected function fails or recovers.
SetBackend ==
  /\ backend' = IF backend = "up" THEN "down" ELSE "up"
  /\ UNCHANGED <<state, counters, running, history>>

Enter(c) == Admit(c) \/ Probe(c) \/ Reject(c)
Return(c) ==
  \/ backend = "up" /\ Succeed(c)
  \/ backend = "down" /\ Fail(c)

Next ==
  \/ \E c \in Callers : Enter(c) \/ Return(c)
  \/ Tick
  \/ SetBackend

\* Time passes, the protected function returns (WithTimeout sees to that), and
\* callers come back.
Spec ==
  /\ Init /\ [][Next]_vars
  /\ WF_vars(Tick)
  /\ \A c \in Callers : WF_vars(Enter(c)) /\ WF_vars(Return(c))

-----------------------------------------------------------------------------
(* What must hold. *)

\* The counters stay below the thresholds that would have reset them, and trial
\* successes are only kept while half-open.
TypeOK ==
  /\ state \in {"closed", "open", "half-open"}
  /\ failures \in 0 .. FailureThreshold - 1
  /\ successes \in 0 .. SuccessThreshold - 1
  /\ successes > 0 => state = "half-open"
  /\ sinceFailure \in 0 .. Long
  /\ totals \in Total
  /\ running \subseteq Callers
  /\ backend \in {"up", "down"}
  /\ rejected \in 0 .. Wrap - 1
  /\ failed \in 0 .. FailureThreshold

\* Stats adds up: each request was rejected, is running, or has one result.
TotalsBalance ==
  totals.requests =
    (totals.failures + totals.successes + rejected + Cardinality(running)) % Wrap

\* A closed breaker opens only over FailureThreshold failures in a row, whichever
\* calls they belong to.
TripsOnFailuresInARow ==
  [][(state = "closed" /\ state' = "open") => failed' = FailureThreshold]_vars

\* Execute does what a circuit breaker promises, results of earlier calls included.
Promise == INSTANCE Breaker WITH elapsed <- sinceFailure > Timeout, admitted <- running
ImplementsBreaker == Promise!Spec

\* Once the service has recovered for good the breaker closes, and stays closed.
ClosesAfterRecovery == <>[](backend = "up") => <>[](state = "closed")
=============================================================================
