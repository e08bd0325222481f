------------------------------ MODULE Breaker -------------------------------
(***************************************************************************)
(* What a circuit breaker promises, without its counters and clock: the    *)
(* cycle closed, open, half-open; no call is let through an open breaker   *)
(* before the timeout has run out since the last failure; a failed trial   *)
(* opens it again.                                                         *)
(***************************************************************************)
CONSTANT Callers

VARIABLES
  state,    \* "closed", "open" or "half-open"
  elapsed,  \* the timeout has run out since the last failure
  admitted  \* callers whose function was let through and has not returned

vars == <<state, elapsed, admitted>>

Init == state = "closed" /\ elapsed = TRUE /\ admitted = {}

Admit(c) ==
  /\ c \notin admitted
  /\ state # "open"
  /\ admitted' = admitted \cup {c}
  /\ UNCHANGED <<state, elapsed>>

\* The first call after the timeout starts the trial.
Probe(c) ==
  /\ c \notin admitted
  /\ state = "open" /\ elapsed
  /\ state' = "half-open"
  /\ admitted' = admitted \cup {c}
  /\ UNCHANGED elapsed

\* A call may also return without a word on the service, which changes nothing.
Succeed(c) ==
  /\ c \in admitted
  /\ admitted' = admitted \ {c}
  /\ state' = state \/ (state = "half-open" /\ state' = "closed")
  /\ UNCHANGED elapsed

\* One call may report its failure more than once before it returns.
Fail(c) ==
  /\ c \in admitted
  /\ admitted' \in {admitted, admitted \ {c}}
  /\ state' = "open" \/ (state = "closed" /\ state' = "closed")
  /\ elapsed' = FALSE

TimeoutElapses == ~elapsed /\ elapsed' = TRUE /\ UNCHANGED <<state, admitted>>

Next ==
  \/ \E c \in Callers : Admit(c) \/ Probe(c) \/ Succeed(c) \/ Fail(c)
  \/ TimeoutElapses

Spec == Init /\ [][Next]_vars
=============================================================================
