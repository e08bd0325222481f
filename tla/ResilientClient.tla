--------------------------- MODULE ResilientClient ---------------------------
(***************************************************************************)
(* ResilientClient.Do of pkg/resilience: a circuit breaker around Retry    *)
(* around WithTimeout.  Every attempt runs in a goroutine of its own,      *)
(* which goes on when WithTimeout has given it up: its effect may come     *)
(* after the next attempt's, or after Do has returned.  The breaker, its   *)
(* two critical sections and its clock are those of CircuitBreaker: its    *)
(* callers are the calls of Do, and its backend is down while fn hangs.    *)
(***************************************************************************)
EXTENDS CircuitBreaker

CONSTANT MaxAttempts   \* retry.MaxAttempts

\* Calls of Do are numbered in the order in which they reach the breaker.
ASSUME ResilientClientAssumption == Callers \subseteq Nat /\ MaxAttempts \in Nat \ {0}

VARIABLES
  pc,         \* where each call of Do is
  attempt,    \* the attempt each call is at
  done,       \* the buffered channel WithTimeout waits for, while it waits
  live,       \* attempts <<call, attempt>> whose goroutine is running fn
  effects,    \* history: attempts in which fn succeeded
  abandoned   \* history: attempts that WithTimeout gave up

client == <<pc, attempt, done, live, effects, abandoned>>
clientVars == <<vars, client>>

Attempts == Callers \X (1 .. MaxAttempts)
PC == {"idle", "retry", "select", "ok", "failed", "nil", "error", "rejected"}
Returned == {"nil", "error", "rejected"}
Current(d) == <<d, attempt[d]>>

ClientInit ==
  /\ Init
  /\ pc = [d \in Callers |-> "idle"]
  /\ attempt = [d \in Callers |-> 0]
  /\ done = [d \in Callers |-> "empty"]
  /\ live = {}
  /\ effects = {} /\ abandoned = {}

-----------------------------------------------------------------------------
(* Do and Retry. *)

MayStart(d) == pc[d] = "idle" /\ \A e \in Callers : e < d => pc[e] # "idle"

\* The breaker lets the call through to Retry, or answers it.
Admitted(d) ==
  /\ MayStart(d)
  /\ UNCHANGED <<attempt, done, live, effects, abandoned>>
  /\ Admit(d) \/ Probe(d)
  /\ pc' = [pc EXCEPT ![d] = "retry"]

Rejected(d) ==
  /\ MayStart(d)
  /\ UNCHANGED <<attempt, done, live, effects, abandoned>>
  /\ Reject(d)
  /\ pc' = [pc EXCEPT ![d] = "rejected"]

\* After the back-off, if there was one: WithTimeout starts fn with a new channel.
StartAttempt(d) ==
  /\ pc[d] = "retry"
  /\ attempt' = [attempt EXCEPT ![d] = @ + 1]
  /\ live' = live \cup {<<d, attempt[d] + 1>>}
  /\ pc' = [pc EXCEPT ![d] = "select"]
  /\ UNCHANGED <<vars, done, effects, abandoned>>

\* Mutant: the loop runs once more.
AfterErrorOneMore(d) == IF attempt[d] <= MaxAttempts THEN "retry" ELSE "failed"

\* Where Retry goes when the attempt returned an error.
AfterError(d) == IF attempt[d] < MaxAttempts THEN "retry" ELSE "failed"

\* Mutant: Retry does not stop at the first success.
ReceiveRetries(d) ==
  /\ pc[d] = "select" /\ done[d] # "empty"
  /\ pc' = [pc EXCEPT ![d] = IF done[d] = "nil" /\ attempt[d] = MaxAttempts THEN "ok"
                             ELSE AfterError(d)]
  /\ done' = [done EXCEPT ![d] = "empty"]
  /\ UNCHANGED <<vars, attempt, live, effects, abandoned>>

Receive(d) ==
  /\ pc[d] = "select" /\ done[d] # "empty"
  /\ pc' = [pc EXCEPT ![d] = IF done[d] = "nil" THEN "ok" ELSE AfterError(d)]
  /\ done' = [done EXCEPT ![d] = "empty"]
  /\ UNCHANGED <<vars, attempt, live, effects, abandoned>>

\* The timer fires, whether or not a result has come in as well.
TimeOut(d) ==
  /\ pc[d] = "select"
  /\ pc' = [pc EXCEPT ![d] = AfterError(d)]
  /\ abandoned' = abandoned \cup {Current(d)}
  /\ done' = [done EXCEPT ![d] = "empty"]
  /\ UNCHANGED <<vars, attempt, live, effects>>

ReturnNil(d) ==
  /\ pc[d] = "ok"
  /\ UNCHANGED <<attempt, done, live, effects, abandoned>>
  /\ Succeed(d)
  /\ pc' = [pc EXCEPT ![d] = "nil"]

ReturnError(d) ==
  /\ pc[d] = "failed"
  /\ UNCHANGED <<attempt, done, live, effects, abandoned>>
  /\ Fail(d)
  /\ pc' = [pc EXCEPT ![d] = "error"]

-----------------------------------------------------------------------------
(* The goroutine of an attempt. *)

\* Mutant: the channel has no room, so a result must be received to be sent.
FinishUnbuffered(d, n, err) ==
  /\ <<d, n>> \in live
  /\ backend = "up"
  /\ n = attempt[d] /\ pc[d] = "select"
  /\ live' = live \ {<<d, n>>}
  /\ done' = [done EXCEPT ![d] = err]
  /\ effects' = IF err = "nil" THEN effects \cup {<<d, n>>} ELSE effects
  /\ UNCHANGED <<vars, pc, attempt, abandoned>>

\* fn returns, and its result goes to the channel of its own attempt; that of an
\* attempt given up is never read.
Finish(d, n, err) ==
  /\ <<d, n>> \in live
  /\ backend = "up"
  /\ live' = live \ {<<d, n>>}
  /\ done' = [done EXCEPT ![d] = IF n # attempt[d] \/ pc[d] # "select" THEN @
                                 ELSE err]
  /\ effects' = IF err = "nil" THEN effects \cup {<<d, n>>} ELSE effects
  /\ UNCHANGED <<vars, pc, attempt, abandoned>>

-----------------------------------------------------------------------------

\* Time only matters to the breaker while it is open.
TimePasses == state = "open" /\ Tick /\ UNCHANGED client

\* fn starts or ceases to hang.
SetService == SetBackend /\ UNCHANGED client

\* A call of Do runs by itself; it waits only in WithTimeout, for a result or the timer.
Do(d) ==
  \/ Admitted(d) \/ Rejected(d)
  \/ StartAttempt(d) \/ Receive(d) \/ TimeOut(d)
  \/ ReturnNil(d) \/ ReturnError(d)

End(d, n) == Finish(d, n, "nil") \/ Finish(d, n, "error")

ClientNext ==
  \/ \E d \in Callers : Do(d) \/ \E n \in 1 .. MaxAttempts : End(d, n)
  \/ TimePasses
  \/ SetService

\* The service may stay slow for ever: only then may a goroutine never return.
ClientSpec ==
  /\ ClientInit /\ [][ClientNext]_clientVars
  /\ \A d \in Callers : WF_clientVars(Do(d))
  /\ \A d \in Callers, n \in 1 .. MaxAttempts : WF_clientVars(End(d, n))

-----------------------------------------------------------------------------
(* What must hold. *)

\* A call is inside the breaker while Retry runs; only attempts that were started
\* run, took effect or were given up.
ClientTypeOK ==
  /\ TypeOK
  /\ pc \in [Callers -> PC]
  /\ attempt \in [Callers -> 0 .. MaxAttempts]
  /\ done \in [Callers -> {"empty", "nil", "error"}]
  /\ running = {d \in Callers : pc[d] \in {"retry", "select", "ok", "failed"}}
  /\ live \subseteq Attempts /\ effects \subseteq Attempts /\ abandoned \subseteq Attempts
  /\ \A d \in Callers, n \in 1 .. MaxAttempts :
       <<d, n>> \in live \cup effects \cup abandoned => n <= attempt[d]
  /\ \A d \in Callers : done[d] # "empty" => pc[d] = "select" /\ Current(d) \notin live
  /\ live \cap effects = {}

\* A caller can tell from the reply what happened: after nil the last attempt took
\* effect; any other effect, be the reply nil or an error, is or will be that of an
\* attempt that timed out; a rejected call never has one.
RepliesTellEffects ==
  \A d \in Callers :
    /\ pc[d] = "nil" => Current(d) \in effects
    /\ pc[d] \in Returned =>
         \A n \in 1 .. MaxAttempts : <<d, n>> \in live \cup effects =>
           <<d, n>> \in abandoned \/ (pc[d] = "nil" /\ n = attempt[d])
    /\ pc[d] = "rejected" => \A n \in 1 .. MaxAttempts : <<d, n>> \notin live \cup effects

\* Do returns, even if fn never does.
EveryCallEnds == <>(\A d \in Callers : pc[d] \in Returned)

\* Once the service no longer hangs, every goroutine left behind ends, its result
\* unread.
LeftoversEnd == <>[](backend = "up") => <>[](live = {})

\* No call waits for ever, nor, unless fn itself never returns, does a goroutine: not
\* for a result, and not to get rid of one.
EverythingEnds == EveryCallEnds /\ LeftoversEnd
=============================================================================
