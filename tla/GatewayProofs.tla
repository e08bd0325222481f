---------------------------- MODULE GatewayProofs ----------------------------
(***************************************************************************)
(* Theorems about Gateway, for any set of requests and any thresholds.     *)
(***************************************************************************)
EXTENDS Gateway, FiniteSetTheorems, TLAPS

\* Until as many requests have failed as the threshold says, each failed request
\* accounts for at most two of the failures counted, and for one while its second
\* report is due.
TwoPerCulprit ==
  /\ IsFiniteSet(blamed)
  /\ culprits < Threshold => failures + Cardinality(blamed) <= 2 * culprits

GatewayInv == TypeOK /\ TwoPerCulprit

-----------------------------------------------------------------------------
(* The breaker's operations, apart from who calls them. *)

\* A failure counts one, or resets the count when the breaker opens.
LEMMA FailureCounts ==
  ASSUME TypeOK, RecordFailure
  PROVE  /\ failures' \in 0 .. Threshold - 1
         /\ failures' <= failures + 1
         /\ successes' = 0 /\ elapsed' = FALSE
         /\ state' = "open" \/ (state = "closed" /\ state' = "closed")
  BY GatewayAssumption DEF TypeOK, RecordFailure

\* Blaming a request adds a culprit unless it is blamed already and has
\* reported for the last time.
LEMMA BlameCounts ==
  ASSUME GatewayInv, NEW r \in Requests, NEW done \in BOOLEAN, Blame(r, done),
         done \/ r \notin blamed
  PROVE  /\ IsFiniteSet(blamed') /\ culprits' \in 0 .. Threshold
         /\ culprits' < Threshold => failures + 1 + Cardinality(blamed') <= 2 * culprits'
<1>. USE DEF GatewayInv, TypeOK, TwoPerCulprit
<1>. USE GatewayAssumption
<1>1. Cardinality(blamed) \in Nat
  BY FS_CardinalityType
<1>2. culprits' \in 0 .. Threshold /\ (culprits' < Threshold => culprits < Threshold)
  BY DEF Blame
<1>3. CASE r \in blamed
  <2>1. blamed' = blamed \ {r} /\ culprits' = culprits
    BY <1>3 DEF Blame
  <2>2. IsFiniteSet(blamed') /\ Cardinality(blamed') = Cardinality(blamed) - 1
    BY <1>3, <2>1, FS_RemoveElement
  <2>. QED BY <1>1, <1>2, <2>1, <2>2
<1>4. CASE r \notin blamed
  <2>1. IsFiniteSet(blamed') /\ Cardinality(blamed') \in Nat
        /\ Cardinality(blamed') <= Cardinality(blamed) + 1
    <3>1. CASE done
      <4>1. blamed' = blamed
        BY <1>4, <3>1 DEF Blame
      <4>. QED BY <1>1, <4>1
    <3>2. CASE ~done
      <4>1. blamed' = blamed \cup {r}
        BY <3>2 DEF Blame
      <4>2. IsFiniteSet(blamed') /\ Cardinality(blamed') = Cardinality(blamed) + 1
        BY <1>4, <4>1, FS_AddElement
      <4>. QED BY <1>1, <4>2
    <3>. QED BY <3>1, <3>2
  <2>2. culprits' < Threshold => culprits' = culprits + 1
    BY <1>4 DEF Blame
  <2>. QED BY <1>1, <1>2, <2>1, <2>2
<1>. QED BY <1>3, <1>4

-----------------------------------------------------------------------------
(* The invariant. *)

\* GatewayInv holds at the start.
LEMMA InitGatewayInv == Init => GatewayInv
<1>1. IsFiniteSet({}) /\ Cardinality({}) = 0
  BY FS_EmptySet
<1>. QED BY <1>1, GatewayAssumption DEF Init, GatewayInv, TypeOK, TwoPerCulprit

\* GatewayInv is inductive.
LEMMA NextGatewayInv == GatewayInv /\ [Next]_vars => GatewayInv'
<1>. SUFFICES ASSUME GatewayInv, [Next]_vars PROVE GatewayInv'
  OBVIOUS
<1>. USE GatewayAssumption DEF GatewayInv, TypeOK, TwoPerCulprit
<1>1. ASSUME NEW r \in Requests, Proxy(r) PROVE GatewayInv'
  BY <1>1 DEF Proxy, Goto, Allow, world, history
<1>2. ASSUME NEW r \in Requests, Answered(r) PROVE GatewayInv'
  BY <1>2 DEF Answered, Goto, breaker, world, history
<1>3. ASSUME NEW r \in Requests, ErrorHandler(r) PROVE GatewayInv'
  <2>1. RecordFailure /\ Blame(r, FALSE) /\ r \notin blamed
    BY <1>3 DEF ErrorHandler, Goto
  <2>2. /\ failures' \in 0 .. Threshold - 1 /\ failures' <= failures + 1
        /\ successes' = 0 /\ elapsed' = FALSE
        /\ state' \in {"open", "closed"}
    BY <2>1, FailureCounts
  <2>3. /\ IsFiniteSet(blamed') /\ culprits' \in 0 .. Threshold
        /\ culprits' < Threshold => failures + 1 + Cardinality(blamed') <= 2 * culprits'
    BY <2>1, BlameCounts
  <2>4. TypeOK'
    <3>1. /\ at' \in [Requests -> {"idle", "proxied", "good", "bad"}]
          /\ blamed' \subseteq {q \in Requests : at'[q] = "bad"}
      BY <1>3, <2>1 DEF ErrorHandler, Goto, Blame
    <3>2. upstream' \in {"up", "failing", "unreachable"} /\ clients' \in {"stay", "leave"}
      BY <1>3 DEF ErrorHandler, world
    <3>3. failures' \in 0 .. Threshold - 1 /\ culprits' \in 0 .. Threshold
      BY <2>2, <2>3
    <3>4. /\ state' \in {"closed", "open", "half-open"}
          /\ successes' \in 0 .. SuccessReq
          /\ state' = "half-open" => successes' < SuccessReq
          /\ state' = "open" => successes' = 0
      BY <2>2
    <3>5. elapsed' \in BOOLEAN
      BY <2>2
    <3>. QED BY <3>1, <3>2, <3>3, <3>4, <3>5
  <2>5. TwoPerCulprit'
    BY <2>2, <2>3, FS_CardinalityType
  <2>. QED BY <2>4, <2>5
<1>4. ASSUME NEW r \in Requests, Aborted(r) PROVE GatewayInv'
  BY <1>4 DEF Aborted, Goto, breaker, world, history
<1>5. ASSUME NEW r \in Requests, ReportSuccess(r) PROVE GatewayInv'
  <2>1. IsFiniteSet({}) /\ Cardinality({}) = 0
    BY FS_EmptySet
  <2>. QED BY <1>5, <2>1 DEF ReportSuccess, RecordSuccess, Goto, world
<1>6. ASSUME NEW r \in Requests, ReportFailure(r) PROVE GatewayInv'
  <2>1. RecordFailure /\ Blame(r, TRUE)
    BY <1>6 DEF ReportFailure
  <2>2. /\ failures' \in 0 .. Threshold - 1 /\ failures' <= failures + 1
        /\ successes' = 0 /\ elapsed' = FALSE
        /\ state' \in {"open", "closed"}
    BY <2>1, FailureCounts
  <2>3. /\ IsFiniteSet(blamed') /\ culprits' \in 0 .. Threshold
        /\ culprits' < Threshold => failures + 1 + Cardinality(blamed') <= 2 * culprits'
    BY <2>1, BlameCounts
  <2>4. TypeOK'
    <3>1. /\ at' \in [Requests -> {"idle", "proxied", "good", "bad"}]
          /\ blamed' \subseteq {q \in Requests : at'[q] = "bad"}
      BY <1>6, <2>1 DEF ReportFailure, Goto, Blame
    <3>2. upstream' \in {"up", "failing", "unreachable"} /\ clients' \in {"stay", "leave"}
      BY <1>6 DEF ReportFailure, world
    <3>3. failures' \in 0 .. Threshold - 1 /\ culprits' \in 0 .. Threshold
      BY <2>2, <2>3
    <3>4. /\ state' \in {"closed", "open", "half-open"}
          /\ successes' \in 0 .. SuccessReq
          /\ state' = "half-open" => successes' < SuccessReq
          /\ state' = "open" => successes' = 0
      BY <2>2
    <3>5. elapsed' \in BOOLEAN
      BY <2>2
    <3>. QED BY <3>1, <3>2, <3>3, <3>4, <3>5
  <2>5. TwoPerCulprit'
    BY <2>2, <2>3, FS_CardinalityType
  <2>. QED BY <2>4, <2>5
<1>7. ASSUME TimeoutElapses \/ SetUpstream \/ SetClients \/ UNCHANGED vars PROVE GatewayInv'
  BY <1>7 DEF TimeoutElapses, SetUpstream, SetClients, vars, breaker, world, history
<1>. QED BY <1>1, <1>2, <1>3, <1>4, <1>5, <1>6, <1>7 DEF Next, Serve

\* GatewayInv holds always.
LEMMA GatewayInvariant == Spec => []GatewayInv
  BY InitGatewayInv, NextGatewayInv, PTL DEF Spec

-----------------------------------------------------------------------------

\* The counters stay below the thresholds that reset them, and only a request whose
\* second report is due is blamed, for any thresholds.
THEOREM TypeCorrect == Spec => []TypeOK
<1>1. GatewayInv => TypeOK
  BY DEF GatewayInv
<1>. QED BY <1>1, GatewayInvariant, PTL

\* However the reports of the requests interleave, a closed breaker opens only when at
\* least half as many requests as the threshold says have failed since a success.
THEOREM OpensCorrect == Spec => OpensOverHalfTheThreshold
<1>1. ASSUME GatewayInv, [Next]_vars, state = "closed", state' = "open"
      PROVE  2 * culprits' >= Threshold
  <2>. USE <1>1, GatewayAssumption DEF GatewayInv, TypeOK
  <2>1. PICK r \in Requests : ErrorHandler(r) \/ ReportFailure(r)
    BY DEF Next, Serve, Proxy, Allow, Answered, Aborted, ReportSuccess, RecordSuccess,
           TimeoutElapses, SetUpstream, SetClients, vars, breaker
  <2>2. RecordFailure
    BY <2>1 DEF ErrorHandler, ReportFailure
  <2>3. failures + 1 >= Threshold
    BY <2>2 DEF RecordFailure
  <2>4. IsFiniteSet(blamed') /\ culprits' \in 0 .. Threshold
        /\ (culprits' < Threshold => failures + 1 + Cardinality(blamed') <= 2 * culprits')
    <3>1. CASE ErrorHandler(r)
      <4>1. Blame(r, FALSE) /\ r \notin blamed
        BY <3>1 DEF ErrorHandler, Goto
      <4>. QED BY <4>1, BlameCounts
    <3>2. CASE ReportFailure(r)
      BY <3>2, BlameCounts DEF ReportFailure
    <3>. QED BY <2>1, <3>1, <3>2
  <2>5. PICK n \in Nat, m \in Nat : n = culprits' /\ m = Cardinality(blamed')
    BY <2>4, FS_CardinalityType
  <2>6. n \in 0 .. Threshold /\ (n < Threshold => failures + 1 + m <= 2 * n)
    BY <2>4, <2>5
  <2>7. 2 * n >= Threshold
    BY <2>3, <2>6
  <2>. QED BY <2>5, <2>7
<1>2. GatewayInv /\ [Next]_vars =>
        [(state = "closed" /\ state' = "open") => 2 * culprits' >= Threshold]_vars
  BY <1>1
<1>. QED BY <1>2, GatewayInvariant, PTL DEF Spec, OpensOverHalfTheThreshold

\* The gateway's breaker implements the abstract one: the second report of a failure
\* and the reports of late requests are steps that Breaker allows.
THEOREM Refinement == Spec => ImplementsBreaker
<1>1. Init => Promise!Init
  BY DEF Init, Promise!Init
<1>2. GatewayInv /\ [Next]_vars => [Promise!Next]_(Promise!vars)
  <2>. SUFFICES ASSUME GatewayInv, [Next]_vars
                PROVE  [Promise!Next]_(Promise!vars)
    OBVIOUS
  <2>. USE DEF GatewayInv, TypeOK, Goto, breaker, Promise!Next, Promise!vars
  <2>1. ASSUME NEW r \in Requests, Proxy(r) PROVE Promise!Next
    <3>1. Promise!Admit(r) \/ Promise!Probe(r)
      BY <2>1 DEF Proxy, Allow, Promise!Admit, Promise!Probe
    <3>. QED BY <3>1
  <2>2. ASSUME NEW r \in Requests, Answered(r) PROVE UNCHANGED Promise!vars
    BY <2>2 DEF Answered
  <2>3. ASSUME NEW r \in Requests, ErrorHandler(r) PROVE Promise!Next
    <3>1. Promise!Fail(r)
      BY <2>3, FailureCounts DEF ErrorHandler, Promise!Fail
    <3>. QED BY <3>1
  <2>4. ASSUME NEW r \in Requests, Aborted(r) PROVE Promise!Next
    <3>1. Promise!Succeed(r)
      BY <2>4 DEF Aborted, Promise!Succeed
    <3>. QED BY <3>1
  <2>5. ASSUME NEW r \in Requests, ReportSuccess(r) PROVE Promise!Next
    <3>1. Promise!Succeed(r)
      BY <2>5 DEF ReportSuccess, RecordSuccess, Promise!Succeed
    <3>. QED BY <3>1
  <2>6. ASSUME NEW r \in Requests, ReportFailure(r) PROVE Promise!Next
    <3>1. Promise!Fail(r)
      BY <2>6, FailureCounts DEF ReportFailure, Promise!Fail
    <3>. QED BY <3>1
  <2>7. ASSUME TimeoutElapses PROVE Promise!Next
    <3>1. Promise!TimeoutElapses
      BY <2>7 DEF TimeoutElapses, Promise!TimeoutElapses
    <3>. QED BY <3>1
  <2>8. ASSUME SetUpstream \/ SetClients \/ UNCHANGED vars PROVE UNCHANGED Promise!vars
    BY <2>8 DEF SetUpstream, SetClients, vars
  <2>. QED BY <2>1, <2>2, <2>3, <2>4, <2>5, <2>6, <2>7, <2>8 DEF Next, Serve
<1>. QED BY <1>1, <1>2, GatewayInvariant, PTL DEF Spec, ImplementsBreaker, Promise!Spec
=============================================================================
