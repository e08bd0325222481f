------------------------------- MODULE Gateway -------------------------------
(***************************************************************************)
(* api-gateway: the circuit breaker of one upstream, as proxyHandler       *)
(* drives it.  A request asks Allow, is proxied, and reports its outcome:  *)
(* once if the upstream answered, twice if the proxy could not reach it or *)
(* the client cancelled, since the ErrorHandler reports the failure and    *)
(* the handler reports the 502 it wrote, and not at all if the answer      *)
(* could not be copied to the client.  The breaker is unlocked in between. *)
(*                                                                         *)
(* The rate limiter in front of it only turns requests away, and the       *)
(* request counter only feeds /metrics: neither is modelled here.          *)
(***************************************************************************)
EXTENDS Naturals, FiniteSets

CONSTANTS
  Requests,    \* goroutines that serve requests to the upstream, over and over
  Threshold,   \* cb.threshold (5 in the code)
  SuccessReq   \* cb.successReq (2 in the code)

ASSUME GatewayAssumption == Threshold \in Nat \ {0} /\ SuccessReq \in Nat \ {0}

VARIABLES
  state,      \* cb.state
  failures,   \* cb.failures
  successes,  \* cb.successes
  elapsed,    \* time.Since(cb.lastFailure) > cb.timeout
  at,         \* where each request stands in proxyHandler
  upstream,   \* the upstream answers, answers with 5xx, or cannot be reached
  clients,    \* the clients wait for their answers, or may go away before
  blamed,     \* history: requests under way that reported failure since a success
  culprits    \* history: how many requests did since a success, up to Threshold

breaker == <<state, failures, successes, elapsed>>
world == <<upstream, clients>>
history == <<blamed, culprits>>
vars == <<breaker, at, world, history>>

Init ==
  /\ state = "closed" /\ failures = 0 /\ successes = 0 /\ elapsed = TRUE
  /\ at = [r \in Requests |-> "idle"]
  /\ upstream = "up" /\ clients = "stay"
  /\ blamed = {} /\ culprits = 0

Goto(r, from, to) == at[r] = from /\ at' = [at EXCEPT ![r] = to]

-----------------------------------------------------------------------------
(* The breaker. *)

\* Mutant: the open breaker lets requests through without waiting for the timeout.
AllowEarly ==
  /\ state' = IF state = "open" THEN "half-open" ELSE state
  /\ successes' = IF state = "open" THEN 0 ELSE successes
  /\ UNCHANGED <<failures, elapsed>>

Allow ==
  /\ state = "open" => elapsed
  /\ state' = IF state = "open" THEN "half-open" ELSE state
  /\ successes' = IF state = "open" THEN 0 ELSE successes
  /\ UNCHANGED <<failures, elapsed>>

\* Mutant: successes are counted in every state.
RecordSuccessAnywhere ==
  /\ failures' = 0
  /\ successes' = successes + 1
  /\ state' = IF state = "half-open" /\ successes' >= SuccessReq THEN "closed" ELSE state
  /\ UNCHANGED elapsed

\* Mutant: a success outside the half-open state leaves the failures counted.
RecordSuccessKeepsFailures ==
  /\ failures' = IF state = "half-open" THEN 0 ELSE failures
  /\ successes' = IF state = "half-open" THEN successes + 1 ELSE successes
  /\ state' = IF state = "half-open" /\ successes' >= SuccessReq THEN "closed" ELSE state
  /\ UNCHANGED elapsed

\* Mutant: one success more than required is waited for, and it never comes.
RecordSuccessNeverCloses ==
  /\ failures' = 0
  /\ successes' = IF state = "half-open" /\ successes < SuccessReq - 1
                    THEN successes + 1 ELSE successes
  /\ UNCHANGED <<state, elapsed>>

\* Closing leaves the count of trial successes as it is.
RecordSuccess ==
  /\ failures' = 0
  /\ successes' = IF state = "half-open" THEN successes + 1 ELSE successes
  /\ state' = IF state = "half-open" /\ successes' >= SuccessReq THEN "closed" ELSE state
  /\ UNCHANGED elapsed

RecordFailure ==
  LET opens == state = "half-open" \/ failures + 1 >= Threshold
  IN  /\ failures' = IF opens THEN 0 ELSE failures + 1
      /\ successes' = 0
      /\ elapsed' = FALSE
      /\ state' = IF opens THEN "open" ELSE state

\* History: a failure is blamed on its request, once until the next success.
Blame(r, done) ==
  /\ culprits' = IF r \in blamed \/ culprits = Threshold THEN culprits ELSE culprits + 1
  /\ blamed' = IF done THEN blamed \ {r} ELSE blamed \cup {r}

-----------------------------------------------------------------------------
(* proxyHandler, step by step. *)

Proxy(r) ==
  /\ Goto(r, "idle", "proxied")
  /\ Allow
  /\ UNCHANGED <<world, history>>

\* ServeHTTP copied an answer, with a status below 500 or with 5xx.
Answered(r) ==
  \/ upstream = "up" /\ Goto(r, "proxied", "good") /\ UNCHANGED <<breaker, world, history>>
  \/ upstream = "failing" /\ Goto(r, "proxied", "bad") /\ UNCHANGED <<breaker, world, history>>

\* The ErrorHandler: the upstream cannot be reached, or the client has cancelled its
\* request, whatever the upstream does.
ErrorHandler(r) ==
  /\ upstream = "unreachable" \/ clients = "leave"
  /\ Goto(r, "proxied", "bad")
  /\ RecordFailure
  /\ Blame(r, FALSE)
  /\ UNCHANGED world

\* The outcome is never reported: the URL of the upstream does not parse, or one of the
\* two connections broke while the answer was copied and ServeHTTP panics.
Aborted(r) ==
  /\ Goto(r, "proxied", "idle")
  /\ UNCHANGED <<breaker, world, history>>

ReportSuccess(r) ==
  /\ Goto(r, "good", "idle")
  /\ RecordSuccess
  /\ blamed' = {} /\ culprits' = 0
  /\ UNCHANGED world

ReportFailure(r) ==
  /\ Goto(r, "bad", "idle")
  /\ RecordFailure
  /\ Blame(r, TRUE)
  /\ UNCHANGED world

-----------------------------------------------------------------------------

TimeoutElapses ==
  /\ ~elapsed
  /\ elapsed' = TRUE
  /\ UNCHANGED <<state, failures, successes, at, world, history>>

\* The upstream fails, fails otherwise, or recovers.
SetUpstream ==
  /\ upstream' \in {"up", "failing", "unreachable"} \ {upstream}
  /\ UNCHANGED <<breaker, at, clients, history>>

SetClients ==
  /\ clients' = IF clients = "stay" THEN "leave" ELSE "stay"
  /\ UNCHANGED <<breaker, at, upstream, history>>

Serve(r) ==
  Answered(r) \/ ErrorHandler(r) \/ Aborted(r) \/ ReportSuccess(r) \/ ReportFailure(r)

Next ==
  \/ \E r \in Requests : Proxy(r) \/ Serve(r)
  \/ TimeoutElapses
  \/ SetUpstream
  \/ SetClients

\* Time passes, requests under way come to their end, and requests keep coming.
Spec ==
  /\ Init /\ [][Next]_vars
  /\ WF_vars(TimeoutElapses)
  /\ \A r \in Requests : WF_vars(Proxy(r)) /\ WF_vars(Serve(r))

-----------------------------------------------------------------------------
(* What must hold. *)

\* The counters stay below what would have reset them; a closed breaker may keep the
\* count of the trials that closed it.
TypeOK ==
  /\ state \in {"closed", "open", "half-open"}
  /\ failures \in 0 .. Threshold - 1
  /\ successes \in 0 .. SuccessReq
  /\ state = "half-open" => successes < SuccessReq
  /\ state = "open" => successes = 0
  /\ elapsed \in BOOLEAN
  /\ at \in [Requests -> {"idle", "proxied", "good", "bad"}]
  /\ upstream \in {"up", "failing", "unreachable"} /\ clients \in {"stay", "leave"}
  /\ blamed \subseteq {r \in Requests : at[r] = "bad"}
  /\ culprits \in 0 .. Threshold

\* A closed breaker opens only when, since the last success, at least half as many
\* requests have failed as the threshold says: each is reported twice at most.
\* (README: it opens after 5 failures. Three unreachable requests are enough, and so are
\* three that were cancelled while the upstream was healthy.)
OpensOverHalfTheThreshold ==
  [][(state = "closed" /\ state' = "open") => 2 * culprits' >= Threshold]_vars

\* The gateway's breaker does what a circuit breaker promises, although failures are
\* reported twice and some outcomes never.
Promise == INSTANCE Breaker
  WITH Callers <- Requests, admitted <- {r \in Requests : at[r] # "idle"}
ImplementsBreaker == Promise!Spec

\* Once the upstream has recovered for good and clients wait for its answers, the breaker
\* closes and stays closed. Outcomes may still get lost, those of trials too, as long as
\* of the requests that are let through again and again some are answered again and again.
\* (While clients go away it may open over a healthy upstream, again and again.)
ClosesAfterRecovery ==
  LET letThrough == \E r \in Requests : at[r] = "proxied"
      answered == \E r \in Requests : at[r] = "good"
  IN  (/\ <>[](upstream = "up" /\ clients = "stay")
       /\ []<>letThrough => []<>answered) => <>[](state = "closed")
=============================================================================
