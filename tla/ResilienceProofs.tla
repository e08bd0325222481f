-------------------------- MODULE ResilienceProofs --------------------------
(***************************************************************************)
(* Theorems about CircuitBreaker and about ResilientClient, which is built *)
(* around it, for any number of callers and attempts and any thresholds    *)
(* and timeout.                                                            *)
(***************************************************************************)
EXTENDS ResilientClient, Integers, FiniteSetTheorems, TLAPS

\* What may be done to the breaker, whatever the results of the protected function:
\* everything below about one step of the breaker holds of Execute and of Do.
BreakerStep ==
  \/ \E c \in Callers : Enter(c) \/ Succeed(c) \/ Fail(c)
  \/ Tick
  \/ SetBackend

\* Whatever Execute does is a step of the breaker that one caller takes, or its clock.
LEMMA ExecuteSteps == [Next]_vars => [BreakerStep]_vars
  BY DEF Next, Return, BreakerStep

\* Do touches its breaker only through Execute.
LEMMA DoSteps == [ClientNext]_clientVars => [BreakerStep]_vars
<1>. SUFFICES ASSUME [ClientNext]_clientVars PROVE [BreakerStep]_vars
  OBVIOUS
<1>1. ASSUME NEW d \in Callers, Do(d) PROVE [BreakerStep]_vars
  BY <1>1
  DEF Do, Admitted, Rejected, StartAttempt, Receive, TimeOut, ReturnNil, ReturnError,
      BreakerStep, Enter
<1>2. ASSUME NEW d \in Callers, NEW n \in 1 .. MaxAttempts, End(d, n) PROVE UNCHANGED vars
  BY <1>2 DEF End, Finish
<1>3. ASSUME TimePasses \/ SetService PROVE BreakerStep
  BY <1>3 DEF TimePasses, SetService, BreakerStep
<1>4. ASSUME UNCHANGED clientVars PROVE UNCHANGED vars
  BY <1>4 DEF clientVars
<1>. QED BY <1>1, <1>2, <1>3, <1>4 DEF ClientNext

-----------------------------------------------------------------------------
(* The counters of the breaker. *)

\* The totals stay below the modulus they are counted by.
LEMMA WrapType == ASSUME NEW n \in 0 .. Wrap - 1 PROVE Next1(n) \in 0 .. Wrap - 1
<1>1. Wrap \in Nat /\ Wrap > 0 /\ n + 1 \in Nat
  BY CircuitBreakerAssumption
<1>2. (n + 1) % Wrap \in 0 .. Wrap - 1
  BY <1>1
<1>. QED BY <1>2 DEF Next1

\* The failures counted are part of the run of failures results came in with.
RunCoversFailures == failures <= failed

BreakerInv == TypeOK /\ RunCoversFailures

\* BreakerInv holds at the start.
LEMMA InitBreakerInv == Init => BreakerInv
  BY CircuitBreakerAssumption
  DEF Init, BreakerInv, TypeOK, RunCoversFailures, Total, Long

\* BreakerInv is inductive.
LEMMA NextBreakerInv == BreakerInv /\ [BreakerStep]_vars => BreakerInv'
<1>. SUFFICES ASSUME BreakerInv, [BreakerStep]_vars PROVE BreakerInv'
  OBVIOUS
<1>. USE CircuitBreakerAssumption DEF BreakerInv, TypeOK, RunCoversFailures, Total, Long,
                                      counters, history
<1>1. /\ Next1(totals.requests) \in 0 .. Wrap - 1
      /\ Next1(totals.failures) \in 0 .. Wrap - 1
      /\ Next1(totals.successes) \in 0 .. Wrap - 1
      /\ Next1(rejected) \in 0 .. Wrap - 1
  BY WrapType
<1>2. ASSUME NEW c \in Callers, Admit(c) PROVE BreakerInv'
  BY <1>1, <1>2 DEF Admit, CountRequest
<1>3. ASSUME NEW c \in Callers, Probe(c) PROVE BreakerInv'
  BY <1>1, <1>3 DEF Probe, CountRequest
<1>4. ASSUME NEW c \in Callers, Reject(c) PROVE BreakerInv'
  BY <1>1, <1>4 DEF Reject, CountRequest
<1>5. ASSUME NEW c \in Callers, Succeed(c) PROVE BreakerInv'
  BY <1>1, <1>5 DEF Succeed
<1>6. ASSUME NEW c \in Callers, Fail(c) PROVE BreakerInv'
  BY <1>1, <1>6 DEF Fail
<1>7. ASSUME Tick PROVE BreakerInv'
  BY <1>7 DEF Tick
<1>8. ASSUME SetBackend \/ UNCHANGED vars PROVE BreakerInv'
  BY <1>8 DEF SetBackend, vars
<1>. QED BY <1>2, <1>3, <1>4, <1>5, <1>6, <1>7, <1>8 DEF BreakerStep, Enter

\* A closed breaker opens only by a failure that reaches the threshold, and the run of
\* failures is no shorter than the count.
LEMMA StepTrips ==
  BreakerInv /\ [BreakerStep]_vars =>
    [(state = "closed" /\ state' = "open") => failed' = FailureThreshold]_vars
<1>1. ASSUME BreakerInv, [BreakerStep]_vars, state = "closed", state' = "open"
      PROVE  failed' = FailureThreshold
  <2>. USE <1>1 DEF BreakerInv, TypeOK, RunCoversFailures
  <2>1. PICK c \in Callers : Fail(c)
    BY DEF BreakerStep, Enter, Admit, Probe, Reject, Succeed, Tick, SetBackend, vars
  <2>2. failures + 1 >= FailureThreshold
    BY <2>1 DEF Fail
  <2>. QED BY <2>1, <2>2, CircuitBreakerAssumption DEF Fail
<1>. QED BY <1>1

-----------------------------------------------------------------------------
(* The abstract breaker. *)

\* A new breaker is a new Breaker.
LEMMA InitPromise == Init => Promise!Init
  BY CircuitBreakerAssumption DEF Init, Promise!Init, Long

\* Whatever the order in which results of earlier and later calls come in, each step
\* is one that Breaker allows.
LEMMA StepPromise == BreakerInv /\ [BreakerStep]_vars => [Promise!Next]_(Promise!vars)
<1>. SUFFICES ASSUME BreakerInv, [BreakerStep]_vars
              PROVE  [Promise!Next]_(Promise!vars)
  OBVIOUS
<1>. USE CircuitBreakerAssumption
     DEF BreakerInv, TypeOK, Long, counters, history, Promise!Next, Promise!vars
<1>1. ASSUME NEW c \in Callers, Admit(c) PROVE Promise!Next
  <2>1. Promise!Admit(c)
    BY <1>1 DEF Admit, Promise!Admit
  <2>. QED BY <2>1
<1>2. ASSUME NEW c \in Callers, Probe(c) PROVE Promise!Next
  <2>1. Promise!Probe(c)
    BY <1>2 DEF Probe, Promise!Probe
  <2>. QED BY <2>1
<1>3. ASSUME NEW c \in Callers, Reject(c) PROVE UNCHANGED Promise!vars
  BY <1>3 DEF Reject
<1>4. ASSUME NEW c \in Callers, Succeed(c) PROVE Promise!Next
  <2>1. Promise!Succeed(c)
    BY <1>4 DEF Succeed, Promise!Succeed
  <2>. QED BY <2>1
<1>5. ASSUME NEW c \in Callers, Fail(c) PROVE Promise!Next
  <2>1. Promise!Fail(c)
    BY <1>5 DEF Fail, Promise!Fail
  <2>. QED BY <2>1
<1>6. ASSUME Tick PROVE Promise!Next \/ UNCHANGED Promise!vars
  BY <1>6 DEF Tick, Promise!TimeoutElapses
<1>7. ASSUME SetBackend \/ UNCHANGED vars PROVE UNCHANGED Promise!vars
  BY <1>7 DEF SetBackend, vars
<1>. QED BY <1>1, <1>2, <1>3, <1>4, <1>5, <1>6, <1>7 DEF BreakerStep, Enter

-----------------------------------------------------------------------------
(* The totals. *)

Multiples == {Wrap * k : k \in Int}

\* A counter goes up by one, or back to zero at the modulus.
LEMMA Counted ==
  ASSUME NEW n \in 0 .. Wrap - 1
  PROVE  Next1(n) \in {n + 1, n + 1 - Wrap}
  BY CircuitBreakerAssumption DEF Next1

\* Once round the modulus more or less is still a multiple of it.
LEMMA MultiplesMove ==
  ASSUME NEW m \in Multiples
  PROVE  m \in Int /\ m + Wrap \in Multiples /\ m - Wrap \in Multiples
<1>1. PICK k \in Int : m = Wrap * k
  BY DEF Multiples
<1>2. Wrap \in Int /\ m \in Int
  BY <1>1, CircuitBreakerAssumption
<1>3. m + Wrap = Wrap * (k + 1) /\ m - Wrap = Wrap * (k - 1)
  BY <1>1, <1>2
<1>4. k + 1 \in Int /\ k - 1 \in Int
  OBVIOUS
<1>. QED BY <1>2, <1>3, <1>4 DEF Multiples

\* A natural number is its remainder and a multiple.
LEMMA Remainder ==
  ASSUME NEW n \in Nat, NEW r \in 0 .. Wrap - 1, n - r \in Multiples
  PROVE  r = n % Wrap
<1>1. PICK k \in Int : n - r = Wrap * k
  BY DEF Multiples
<1>2. Wrap \in Nat \ {0}
  BY CircuitBreakerAssumption
<1>3. k \in Nat
  <2>. SUFFICES ASSUME k <= -1 PROVE FALSE
    OBVIOUS
  <2>1. Wrap * k <= -Wrap
    BY <1>2
  <2>. QED BY <1>1, <1>2, <2>1
<1>4. n = Wrap * k + r
  BY <1>1, <1>2
<1>. QED BY <1>2, <1>3, <1>4

\* What TotalsBalance compares differs by full rounds of the modulus: each call adds
\* one to both sides or moves from one part of the sum to another.
Surplus ==
  (totals.failures + totals.successes + rejected + Cardinality(running)) - totals.requests

BalanceInv == IsFiniteSet(running) /\ Surplus \in Multiples

\* BalanceInv is inductive.
LEMMA NextBalanceInv == BreakerInv /\ BalanceInv /\ [BreakerStep]_vars => BalanceInv'
<1>. SUFFICES ASSUME TypeOK, BalanceInv, [BreakerStep]_vars PROVE BalanceInv'
  BY DEF BreakerInv
<1>1. /\ totals \in Total /\ rejected \in 0 .. Wrap - 1 /\ Wrap \in Nat
      /\ totals.requests \in 0 .. Wrap - 1 /\ totals.failures \in 0 .. Wrap - 1
      /\ totals.successes \in 0 .. Wrap - 1
  BY CircuitBreakerAssumption DEF TypeOK, Total
<1>2. /\ Next1(totals.requests) \in {totals.requests + 1, totals.requests + 1 - Wrap}
      /\ Next1(totals.failures) \in {totals.failures + 1, totals.failures + 1 - Wrap}
      /\ Next1(totals.successes) \in {totals.successes + 1, totals.successes + 1 - Wrap}
      /\ Next1(rejected) \in {rejected + 1, rejected + 1 - Wrap}
  BY <1>1, Counted
<1>3. IsFiniteSet(running) /\ Cardinality(running) \in Nat
  BY FS_CardinalityType DEF BalanceInv
<1>4. /\ Surplus \in Multiples /\ Surplus \in Int
      /\ Surplus + Wrap \in Multiples /\ Surplus - Wrap \in Multiples
  BY MultiplesMove DEF BalanceInv
<1>5. ASSUME NEW c \in Callers, Admit(c) \/ Probe(c) PROVE BalanceInv'
  <2>1. IsFiniteSet(running') /\ Cardinality(running') = Cardinality(running) + 1
    BY <1>3, <1>5, FS_AddElement DEF Admit, Probe
  <2>2. /\ totals'.requests = Next1(totals.requests) /\ totals'.failures = totals.failures
        /\ totals'.successes = totals.successes /\ rejected' = rejected
    BY <1>1, <1>5 DEF Admit, Probe, CountRequest, Total, history
  <2>3. Surplus' \in {Surplus, Surplus + Wrap}
    BY <1>1, <1>2, <1>3, <2>1, <2>2 DEF Surplus
  <2>. QED BY <1>4, <2>1, <2>3 DEF BalanceInv
<1>6. ASSUME NEW c \in Callers, Reject(c) PROVE BalanceInv'
  <2>1. /\ totals'.requests = Next1(totals.requests) /\ totals'.failures = totals.failures
        /\ totals'.successes = totals.successes /\ rejected' = Next1(rejected)
        /\ running' = running
    BY <1>1, <1>6 DEF Reject, CountRequest, Total
  <2>2. Surplus' \in {Surplus, Surplus + Wrap, Surplus - Wrap}
    BY <1>1, <1>2, <1>3, <2>1 DEF Surplus
  <2>. QED BY <1>3, <1>4, <2>1, <2>2 DEF BalanceInv
<1>7. ASSUME NEW c \in Callers, Succeed(c) \/ Fail(c) PROVE BalanceInv'
  <2>1. IsFiniteSet(running') /\ Cardinality(running') = Cardinality(running) - 1
    BY <1>3, <1>7, FS_RemoveElement DEF Succeed, Fail
  <2>2. /\ totals'.requests = totals.requests /\ rejected' = rejected
        /\ \/ /\ totals'.failures = Next1(totals.failures)
              /\ totals'.successes = totals.successes
           \/ /\ totals'.failures = totals.failures
              /\ totals'.successes = Next1(totals.successes)
    BY <1>1, <1>7 DEF Succeed, Fail, Total
  <2>3. totals'.failures + totals'.successes \in
          {totals.failures + totals.successes + 1, totals.failures + totals.successes + 1 - Wrap}
    BY <1>1, <1>2, <2>2
  <2>4. Surplus' \in {Surplus, Surplus - Wrap}
    BY <1>1, <1>3, <2>1, <2>2, <2>3 DEF Surplus
  <2>. QED BY <1>4, <2>1, <2>4 DEF BalanceInv
<1>8. ASSUME Tick \/ SetBackend \/ UNCHANGED vars PROVE BalanceInv'
  <2>1. UNCHANGED <<totals, rejected, running>>
    BY <1>8 DEF Tick, SetBackend, vars, counters, history
  <2>. QED BY <2>1 DEF BalanceInv, Surplus
<1>. QED BY <1>5, <1>6, <1>7, <1>8 DEF BreakerStep, Enter

\* A new breaker has counted nothing.
LEMMA InitBalanceInv == Init => BalanceInv
<1>. SUFFICES ASSUME Init PROVE BalanceInv
  OBVIOUS
<1>1. IsFiniteSet(running) /\ Surplus = 0
  BY FS_EmptySet DEF Init, Surplus
<1>2. 0 = Wrap * 0 /\ 0 \in Int
  BY CircuitBreakerAssumption
<1>3. 0 \in Multiples
  BY <1>2 DEF Multiples
<1>. QED BY <1>1, <1>3 DEF BalanceInv

\* Sides that differ by a multiple of Wrap have the same remainder.
LEMMA BalanceFollows == BreakerInv /\ BalanceInv => TotalsBalance
<1>. SUFFICES ASSUME TypeOK, BalanceInv PROVE TotalsBalance
  BY DEF BreakerInv
<1>. DEFINE n == totals.failures + totals.successes + rejected + Cardinality(running)
<1>1. n \in Nat /\ totals.requests \in 0 .. Wrap - 1
  BY CircuitBreakerAssumption, FS_CardinalityType DEF TypeOK, Total, BalanceInv
<1>2. n - totals.requests = Surplus
  BY DEF Surplus
<1>3. n - totals.requests \in Multiples
  BY <1>2 DEF BalanceInv
<1>. HIDE DEF n
<1>4. totals.requests = n % Wrap
  BY <1>1, <1>3, Remainder
<1>. QED BY <1>4 DEF TotalsBalance, n

-----------------------------------------------------------------------------
(* Execute. *)

\* BreakerInv holds always.
LEMMA BreakerInvariant == Spec => []BreakerInv
  BY InitBreakerInv, NextBreakerInv, ExecuteSteps, PTL DEF Spec

\* The counters never reach the threshold that resets them, and trial successes are
\* kept only in the half-open state, for any thresholds.
THEOREM CountersCorrect == Spec => []TypeOK
<1>1. BreakerInv => TypeOK
  BY DEF BreakerInv
<1>. QED BY <1>1, BreakerInvariant, PTL

\* A closed breaker opens only over FailureThreshold failures in a row.
THEOREM TripsCorrect == Spec => TripsOnFailuresInARow
  BY StepTrips, BreakerInvariant, ExecuteSteps, PTL DEF Spec, TripsOnFailuresInARow

\* For any number of callers, Stats adds up: no request is lost between the two
\* critical sections of Execute, and none is counted twice.
THEOREM TotalsCorrect == Spec => []TotalsBalance
  BY InitBalanceInv, NextBalanceInv, BalanceFollows, BreakerInvariant, ExecuteSteps, PTL DEF Spec

\* Execute implements the abstract breaker, late results included.
THEOREM Refinement == Spec => ImplementsBreaker
  BY InitPromise, StepPromise, BreakerInvariant, ExecuteSteps, PTL
  DEF Spec, ImplementsBreaker, Promise!Spec

-----------------------------------------------------------------------------
(* The calls of Do. *)

\* An attempt that runs or took effect was given up, or is the one its call waits for
\* or has answered with.
Accounted(d, n) ==
  \/ <<d, n>> \notin live \cup effects
  \/ <<d, n>> \in abandoned
  \/ n = attempt[d] /\ pc[d] \in {"select", "ok", "nil"}

\* What the steps of one call keep.
CallInv(d) ==
  /\ pc[d] \in {"idle", "rejected"} => attempt[d] = 0
  /\ pc[d] = "retry" => attempt[d] < MaxAttempts
  /\ pc[d] \in {"select", "ok", "failed", "nil", "error"} => attempt[d] > 0
  /\ done[d] = "nil" => Current(d) \in effects
  /\ done[d] = "error" => Current(d) \notin live \cup effects
  /\ pc[d] \in {"ok", "nil"} => Current(d) \in effects
  /\ \A n \in 1 .. MaxAttempts : Accounted(d, n)

ClientInv == BreakerInv /\ ClientTypeOK /\ \A d \in Callers : CallInv(d)

\* Before the first call of Do nothing has been attempted.
LEMMA InitClientInv == ClientInit => ClientInv
<1>. SUFFICES ASSUME ClientInit PROVE ClientInv
  OBVIOUS
<1>1. BreakerInv
  BY InitBreakerInv DEF ClientInit
<1>2. ClientTypeOK
  BY <1>1, ResilientClientAssumption
  DEF BreakerInv, ClientInit, Init, ClientTypeOK, PC, Attempts
<1>3. ASSUME NEW d \in Callers PROVE CallInv(d)
  BY <1>3, ResilientClientAssumption DEF ClientInit, CallInv, Accounted
<1>. QED BY <1>1, <1>2, <1>3 DEF ClientInv

-----------------------------------------------------------------------------

\* ClientTypeOK is inductive.
LEMMA NextClientTypeOK == ClientInv /\ [ClientNext]_clientVars => ClientTypeOK'
<1>. SUFFICES ASSUME ClientInv, [ClientNext]_clientVars PROVE ClientTypeOK'
  OBVIOUS
<1>. USE ResilientClientAssumption
<1>0. /\ TypeOK' /\ ClientTypeOK
      /\ \A d \in Callers : CallInv(d)
  BY DoSteps, NextBreakerInv DEF ClientInv, BreakerInv
<1>1. ASSUME NEW d \in Callers, Admitted(d) PROVE ClientTypeOK'
  <2>1. running' = running \cup {d} /\ pc' = [pc EXCEPT ![d] = "retry"]
    BY <1>1 DEF Admitted, Admit, Probe
  <2>. QED BY <1>0, <1>1, <2>1 DEF ClientTypeOK, PC, Admitted, MayStart, Current
<1>2. ASSUME NEW d \in Callers, Rejected(d) PROVE ClientTypeOK'
  <2>1. running' = running /\ pc[d] = "idle" /\ pc' = [pc EXCEPT ![d] = "rejected"]
    BY <1>2 DEF Rejected, MayStart, Reject
  <2>. QED BY <1>0, <1>2, <2>1 DEF ClientTypeOK, PC, Rejected, Current
<1>3. ASSUME NEW d \in Callers, StartAttempt(d) PROVE ClientTypeOK'
  <2>1. attempt[d] < MaxAttempts /\ attempt[d] \in 0 .. MaxAttempts
    BY <1>0, <1>3 DEF CallInv, StartAttempt, ClientTypeOK
  <2>2. /\ pc' = [pc EXCEPT ![d] = "select"] /\ pc[d] = "retry"
        /\ attempt' = [attempt EXCEPT ![d] = @ + 1]
        /\ live' = live \cup {<<d, attempt[d] + 1>>}
        /\ UNCHANGED <<running, done, effects, abandoned>>
    BY <1>3 DEF StartAttempt, vars
  <2>3. attempt[d] + 1 \in 1 .. MaxAttempts
    BY <2>1
  <2>4. <<d, attempt[d] + 1>> \in Attempts
    BY <2>3 DEF Attempts
  <2>5. <<d, attempt[d] + 1>> \notin effects
    BY <1>0, <2>1, <2>3 DEF ClientTypeOK
  <2>6. \A e \in Callers, n \in 1 .. MaxAttempts :
          <<e, n>> \in live' \cup effects' \cup abandoned' => n <= attempt'[e]
    BY <1>0, <2>1, <2>2 DEF ClientTypeOK
  <2>7. \A e \in Callers : done'[e] # "empty" => pc'[e] = "select" /\ Current(e)' \notin live'
    BY <1>0, <2>1, <2>2 DEF ClientTypeOK, Current
  <2>8. /\ pc' \in [Callers -> PC] /\ attempt' \in [Callers -> 0 .. MaxAttempts]
        /\ running' = {e \in Callers : pc'[e] \in {"retry", "select", "ok", "failed"}}
    BY <1>0, <2>1, <2>2 DEF ClientTypeOK, PC
  <2>. QED BY <1>0, <2>2, <2>4, <2>5, <2>6, <2>7, <2>8 DEF ClientTypeOK
<1>4. ASSUME NEW d \in Callers, Receive(d) \/ TimeOut(d) PROVE ClientTypeOK'
  <2>1. /\ pc[d] = "select" /\ attempt' = attempt /\ running' = running
        /\ live' = live /\ effects' = effects
        /\ done' = [done EXCEPT ![d] = "empty"]
        /\ abandoned' = abandoned \/ abandoned' = abandoned \cup {<<d, attempt[d]>>}
    BY <1>4 DEF Receive, TimeOut, vars, Current
  <2>2. \E q \in {"ok", "retry", "failed"} : pc' = [pc EXCEPT ![d] = q]
    BY <1>4 DEF Receive, TimeOut, AfterError
  <2>3. attempt[d] \in 1 .. MaxAttempts
    BY <1>0, <2>1 DEF ClientTypeOK, CallInv
  <2>. QED BY <1>0, <2>1, <2>2, <2>3 DEF ClientTypeOK, PC, Attempts, Current
<1>5. ASSUME NEW d \in Callers, ReturnNil(d) \/ ReturnError(d) PROVE ClientTypeOK'
  <2>1. running' = running \ {d} /\ pc[d] \in {"ok", "failed"}
    BY <1>5 DEF ReturnNil, ReturnError, Succeed, Fail
  <2>2. \E q \in {"nil", "error"} : pc' = [pc EXCEPT ![d] = q]
    BY <1>5 DEF ReturnNil, ReturnError
  <2>. QED BY <1>0, <1>5, <2>1, <2>2
           DEF ClientTypeOK, PC, ReturnNil, ReturnError, Current
<1>6. ASSUME NEW d \in Callers, NEW n \in 1 .. MaxAttempts, End(d, n) PROVE ClientTypeOK'
  <2>1. PICK err \in {"nil", "error"} : Finish(d, n, err)
    BY <1>6 DEF End
  <2>. QED BY <1>0, <2>1 DEF ClientTypeOK, PC, Finish, vars, Current
<1>7. ASSUME TimePasses \/ SetService \/ UNCHANGED clientVars PROVE ClientTypeOK'
  <2>1. UNCHANGED <<running, pc, attempt, done, live, effects, abandoned>>
    BY <1>7 DEF TimePasses, Tick, SetService, SetBackend, clientVars, client, vars
  <2>. QED BY <1>0, <2>1 DEF ClientTypeOK, Current
<1>. QED BY <1>1, <1>2, <1>3, <1>4, <1>5, <1>6, <1>7 DEF ClientNext, Do

\* Each call's own account is inductive: a step of another call does not touch it.
LEMMA NextCallInv == ClientInv /\ [ClientNext]_clientVars => \A e \in Callers : CallInv(e)'
<1>. SUFFICES ASSUME ClientInv, [ClientNext]_clientVars, NEW e \in Callers PROVE CallInv(e)'
  OBVIOUS
<1>. USE ResilientClientAssumption DEF CallInv, Accounted, Current
<1>0. /\ ClientTypeOK
      /\ \A d \in Callers : CallInv(d)
  BY DEF ClientInv
<1>1. ASSUME NEW d \in Callers, Admitted(d) \/ Rejected(d) PROVE CallInv(e)'
  BY <1>0, <1>1 DEF Admitted, Rejected, MayStart, ClientTypeOK
<1>2. ASSUME NEW d \in Callers, StartAttempt(d) PROVE CallInv(e)'
  BY <1>0, <1>2 DEF StartAttempt, ClientTypeOK
<1>3. ASSUME NEW d \in Callers, Receive(d) PROVE CallInv(e)'
  BY <1>0, <1>3 DEF Receive, AfterError, ClientTypeOK
<1>4. ASSUME NEW d \in Callers, TimeOut(d) PROVE CallInv(e)'
  BY <1>0, <1>4 DEF TimeOut, AfterError, ClientTypeOK
<1>5. ASSUME NEW d \in Callers, ReturnNil(d) \/ ReturnError(d) PROVE CallInv(e)'
  BY <1>0, <1>5 DEF ReturnNil, ReturnError, ClientTypeOK
<1>6. ASSUME NEW d \in Callers, NEW n \in 1 .. MaxAttempts, End(d, n) PROVE CallInv(e)'
  BY <1>0, <1>6 DEF End, Finish, ClientTypeOK
<1>7. ASSUME TimePasses \/ SetService \/ UNCHANGED clientVars PROVE CallInv(e)'
  BY <1>0, <1>7 DEF TimePasses, SetService, clientVars, client
<1>. QED BY <1>1, <1>2, <1>3, <1>4, <1>5, <1>6, <1>7 DEF ClientNext, Do

\* ClientInv holds always.
LEMMA ClientInvariant == ClientSpec => []ClientInv
<1>1. ClientInv /\ [ClientNext]_clientVars => ClientInv'
  BY NextClientTypeOK, NextCallInv, NextBreakerInv, DoSteps DEF ClientInv
<1>. QED BY InitClientInv, <1>1, PTL DEF ClientSpec

-----------------------------------------------------------------------------

\* No call starts more than MaxAttempts attempts, and nothing runs or takes effect but
\* the attempts of calls, for any number of calls and any breaker.
THEOREM ClientTypeCorrect == ClientSpec => []ClientTypeOK
<1>1. ClientInv => ClientTypeOK
  BY DEF ClientInv
<1>. QED BY <1>1, ClientInvariant, PTL

\* A reply tells its caller which attempts took effect, up to those that timed out.
THEOREM RepliesCorrect == ClientSpec => []RepliesTellEffects
<1>1. ClientInv => RepliesTellEffects
  BY DEF ClientInv, ClientTypeOK, CallInv, Accounted, Current, Returned, RepliesTellEffects
<1>. QED BY <1>1, ClientInvariant, PTL

\* The breaker of a client is the breaker it is built from: Do implements the abstract
\* breaker, attempts that overlap and effects that come late notwithstanding.
THEOREM ClientRefinement == ClientSpec => ImplementsBreaker
<1>1. ClientInit => Promise!Init
  BY InitPromise DEF ClientInit
<1>2. ClientInv => BreakerInv
  BY DEF ClientInv
<1>. QED BY <1>1, <1>2, StepPromise, DoSteps, ClientInvariant, PTL
         DEF ClientSpec, ImplementsBreaker, Promise!Spec
=============================================================================
