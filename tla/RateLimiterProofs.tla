-------------------------- MODULE RateLimiterProofs --------------------------
(***************************************************************************)
(* Theorems about RateLimiter, for any number of requests, any rate, burst *)
(* and idle limit, and windows of any length.                              *)
(***************************************************************************)
EXTENDS RateLimiter, FiniteSetTheorems, FunctionTheorems, TLAPS

\* A full bucket is a natural number of units.
LEMMA FullType == Full \in Nat
  BY RateLimiterAssumption DEF Full

\* There is a name left for a new bucket: the other requests hold one each.
LEMMA FreshType ==
  ASSUME TypeOK, NEW r \in Requests, found[r] = {}, entry = {}
  PROVE  Fresh \in Buckets \ InUse
<1>. DEFINE H == {q \in Requests : found[q] # {}}
            f == [q \in H |-> CHOOSE b \in Buckets : b \in found[q]]
            image == {f[q] : q \in H}
<1>1. InUse \subseteq image
  <2>. SUFFICES ASSUME NEW q \in Requests, NEW b \in found[q] PROVE b \in image
    BY DEF InUse
  <2>1. q \in H /\ b \in Buckets /\ \A c \in found[q] : c = b
    BY DEF TypeOK, AtMostOne
  <2>2. f[q] = b
    BY <2>1
  <2>. QED BY <2>1, <2>2
<1>2. IsFiniteSet(Requests) /\ IsFiniteSet(Requests \ {r}) /\ H \subseteq Requests \ {r}
  BY RateLimiterAssumption, FS_RemoveElement
<1>3. IsFiniteSet(H) /\ Cardinality(H) <= Cardinality(Requests \ {r})
  BY <1>2, FS_Subset
<1>4. Cardinality(Requests \ {r}) = Cardinality(Requests) - 1
  BY <1>2, FS_RemoveElement
<1>5. IsFiniteSet(image) /\ Cardinality(image) <= Cardinality(H)
  <2>1. f \in Surjection(H, image)
    <3>1. f \in [H -> image] /\ \A b \in image : \E q \in H : f[q] = b
      OBVIOUS
    <3>. QED BY <3>1, Fun_IsSurj
  <2>. QED BY <1>3, <2>1, FS_Surjection
<1>6. \E b \in Buckets : b \notin InUse
  <2>. SUFFICES ASSUME Buckets \subseteq InUse PROVE FALSE
    OBVIOUS
  <2>1. Cardinality(Buckets) <= Cardinality(image)
    BY <1>1, <1>5, FS_Subset
  <2>2. /\ Cardinality(Buckets) \in Nat /\ Cardinality(image) \in Nat
        /\ Cardinality(H) \in Nat /\ Cardinality(Requests) \in Nat
    BY <1>2, <1>3, <1>5, FS_CardinalityType, RateLimiterAssumption
  <2>. QED BY <1>3, <1>4, <1>5, <2>1, <2>2, RateLimiterAssumption
<1>. QED BY <1>6 DEF Fresh

\* A bucket's tokens as Allow would find them now.
LEMMA RefilledType ==
  ASSUME TypeOK, NEW b \in Buckets
  PROVE  Refilled(b) \in 0 .. Full
BY FullType, RateLimiterAssumption DEF TypeOK, Refilled, AtMost

\* The first state has the types.
LEMMA InitTypeOK == Init => TypeOK
<1>. SUFFICES ASSUME Init PROVE TypeOK
  OBVIOUS
<1>1. /\ tokens \in [Buckets -> 0 .. Full] /\ idle \in [Buckets -> 0 .. IdleLimit + 1]
      /\ elapsed \in 0 .. MaxWindow /\ spent \in Nat /\ strays \in Nat
      /\ elapsed = 0 /\ spent = 0 /\ strays = 0
  BY FullType, RateLimiterAssumption DEF Init
<1>2. /\ entry \subseteq Buckets /\ AtMostOne(entry)
      /\ found \in [Requests -> SUBSET Buckets] /\ \A r \in Requests : AtMostOne(found[r])
      /\ window \in BOOLEAN
  BY DEF Init, AtMostOne
<1>. QED BY <1>1, <1>2 DEF TypeOK

\* TypeOK is inductive.
LEMMA NextTypeOK == TypeOK /\ [Next]_vars => TypeOK'
<1>. SUFFICES ASSUME TypeOK, [Next]_vars PROVE TypeOK'
  OBVIOUS
<1>. USE FullType, RateLimiterAssumption DEF TypeOK, AtMostOne, buckets, watch
<1>1. ASSUME NEW r \in Requests, LookupHit(r) PROVE TypeOK'
  BY <1>1 DEF LookupHit
<1>2. ASSUME NEW r \in Requests, LookupMiss(r) PROVE TypeOK'
  <2>1. Fresh \in Buckets
    BY <1>2, FreshType DEF LookupMiss
  <2>. QED BY <1>2, <2>1 DEF LookupMiss
<1>3. ASSUME NEW r \in Requests, NEW b \in Buckets, Grant(r, b) PROVE TypeOK'
  <2>1. Refilled(b) \in 0 .. Full /\ Refilled(b) - Cost \in 0 .. Full
    BY <1>3, RefilledType DEF Grant
  <2>. QED BY <1>3, <2>1 DEF Grant
<1>4. ASSUME NEW r \in Requests, NEW b \in Buckets, Deny(r, b) PROVE TypeOK'
  <2>1. Refilled(b) \in 0 .. Full
    BY RefilledType
  <2>. QED BY <1>4, <2>1 DEF Deny
<1>5. ASSUME Sweep \/ Watch \/ UNCHANGED vars PROVE TypeOK'
  BY <1>5 DEF Sweep, Watch, vars
<1>6. ASSUME Tick PROVE TypeOK'
  <2>1. idle' \in [Buckets -> 0 .. IdleLimit + 1] /\ UNCHANGED <<tokens, entry, found>>
    BY <1>6 DEF Tick, AtMost
  <2>2. window' \in BOOLEAN
    BY <1>6 DEF Tick
  <2>3. elapsed' \in 0 .. MaxWindow /\ spent' \in Nat /\ strays' \in Nat
    BY <1>6 DEF Tick
  <2>4. ~window' => elapsed' = 0 /\ spent' = 0 /\ strays' = 0
    BY <1>6 DEF Tick
  <2>. QED BY <2>1, <2>2, <2>3, <2>4
<1>. QED BY <1>1, <1>2, <1>3, <1>4, <1>5, <1>6 DEF Next, Allow

\* TypeOK holds always: no bucket ever holds more than the burst.
THEOREM TypeCorrect == Spec => []TypeOK
  BY InitTypeOK, NextTypeOK, PTL DEF Spec

-----------------------------------------------------------------------------

\* What the window has spent and what the bucket in the map could spend now add up to
\* at most a burst and the ticks of the window; without a bucket, the next one brings
\* its burst along.
WindowInv ==
  /\ entry = {} => spent <= elapsed
  /\ \A b \in entry : spent + Refilled(b) <= Full + elapsed

\* WindowInv is inductive: a bucket is only deleted when it is full.
LEMMA NextWindowInv == TypeOK /\ WindowInv /\ [Next]_vars => WindowInv'
<1>. SUFFICES ASSUME TypeOK, WindowInv, [Next]_vars PROVE WindowInv'
  OBVIOUS
<1>. USE FullType, RateLimiterAssumption DEF TypeOK, WindowInv, AtMostOne, buckets, watch,
                                             Refilled, AtMost
<1>1. ASSUME NEW r \in Requests, LookupHit(r) PROVE WindowInv'
  BY <1>1 DEF LookupHit
<1>2. ASSUME NEW r \in Requests, LookupMiss(r) PROVE WindowInv'
  <2>1. Fresh \in Buckets
    BY <1>2, FreshType DEF LookupMiss
  <2>. QED BY <1>2, <2>1 DEF LookupMiss
<1>3. ASSUME NEW r \in Requests, NEW b \in Buckets, Grant(r, b) PROVE WindowInv'
  BY <1>3 DEF Grant
<1>4. ASSUME NEW r \in Requests, NEW b \in Buckets, Deny(r, b) PROVE WindowInv'
  BY <1>4 DEF Deny
<1>5. ASSUME Sweep PROVE WindowInv'
  BY <1>5 DEF Sweep
<1>6. ASSUME Tick PROVE WindowInv'
  BY <1>6 DEF Tick
<1>7. ASSUME Watch \/ UNCHANGED vars PROVE WindowInv'
  BY <1>7 DEF Watch, vars
<1>. QED BY <1>1, <1>2, <1>3, <1>4, <1>5, <1>6, <1>7 DEF Next, Allow

\* The burst and the rate bound what the bucket of a client grants in any window, for
\* every burst, rate and idle limit in which an idle bucket fills up.
THEOREM BurstCorrect == Spec => []BurstBounded
<1>1. Init => WindowInv
  BY DEF Init, WindowInv
<1>2. TypeOK /\ WindowInv => BurstBounded
  BY FullType, RateLimiterAssumption
  DEF TypeOK, WindowInv, BurstBounded, Refilled, AtMost
<1>. QED BY <1>1, <1>2, NextWindowInv, TypeCorrect, PTL DEF Spec

-----------------------------------------------------------------------------
(* Grants of buckets that are not in the map any more. *)

\* Requests that found a bucket which was deleted since.
StrayHolders == {r \in Requests : found[r] # {} /\ found[r] \cap entry = {}}
Period == IdleLimit + 1

\* With s deletions in the window, every stray grant there was or may be is that of a
\* request which held a bucket at the start of the window or at a deletion. Between two
\* deletions a bucket is made and stays idle for a period: the next one is not due
\* before the bucket in the map has been idle long enough.
StraysWithin(s) ==
  /\ strays + Cardinality(StrayHolders) <= Cardinality(Requests) * (1 + s)
  /\ s * Period <= elapsed + Period
  /\ \A b \in entry : s * Period + idle[b] <= elapsed + Period

StraysInv == \E s \in Nat : StraysWithin(s)

\* The least time between two deletions is positive.
LEMMA PeriodType == Period \in Nat \ {0}
  BY RateLimiterAssumption DEF Period

\* There are never more requests with a deleted bucket than requests.
LEMMA StrayHoldersType ==
  /\ IsFiniteSet(StrayHolders)
  /\ Cardinality(StrayHolders) \in Nat /\ Cardinality(Requests) \in Nat
  /\ Cardinality(StrayHolders) <= Cardinality(Requests)
<1>1. IsFiniteSet(Requests) /\ StrayHolders \subseteq Requests
  BY RateLimiterAssumption DEF StrayHolders
<1>. QED BY <1>1, FS_Subset, FS_CardinalityType

\* A deletion makes room for one more stray grant of each request, and takes a period.
LEMMA OneDeletionMore ==
  ASSUME NEW s \in Nat
  PROVE  /\ Cardinality(Requests) * (1 + s) \in Nat /\ s * Period \in Nat
         /\ Cardinality(Requests) * (1 + (s + 1))
              = Cardinality(Requests) * (1 + s) + Cardinality(Requests)
         /\ (s + 1) * Period = s * Period + Period
<1>1. Cardinality(Requests) \in Nat /\ Period \in Nat
  BY PeriodType, StrayHoldersType
<1>. QED BY <1>1

\* StraysInv holds at the start.
LEMMA InitStraysInv == Init => StraysInv
<1>. SUFFICES ASSUME Init PROVE StraysWithin(0)
  BY DEF StraysInv
<1>1. StrayHolders = {}
  BY DEF Init, StrayHolders
<1>2. Cardinality(StrayHolders) = 0
  BY <1>1, FS_EmptySet
<1>3. Cardinality(Requests) \in Nat /\ Period \in Nat
  BY PeriodType, StrayHoldersType
<1>. QED BY <1>2, <1>3 DEF Init, StraysWithin

\* StraysInv is inductive.
LEMMA NextStraysInv == TypeOK /\ StraysInv /\ [Next]_vars => StraysInv'
<1>. SUFFICES ASSUME TypeOK, [Next]_vars, NEW s \in Nat, StraysWithin(s)
              PROVE  StraysInv'
  BY DEF StraysInv
<1>. DEFINE room == Cardinality(Requests) * (1 + s)
            due == s * Period
<1>1. /\ room \in Nat /\ due \in Nat /\ Period \in Nat /\ Period = IdleLimit + 1
      /\ IdleLimit \in Nat
      /\ Cardinality(Requests) * (1 + (s + 1)) = room + Cardinality(Requests)
      /\ (s + 1) * Period = due + Period
  BY OneDeletionMore, PeriodType, RateLimiterAssumption DEF Period
<1>2. /\ strays + Cardinality(StrayHolders) <= room /\ due <= elapsed + Period
      /\ \A b \in entry : due + idle[b] <= elapsed + Period
  BY DEF StraysWithin
<1>3. /\ idle \in [Buckets -> 0 .. Period] /\ entry \subseteq Buckets
      /\ elapsed \in Nat /\ strays \in Nat
  BY RateLimiterAssumption DEF TypeOK, Period
<1>4. SUFFICES \/ /\ strays' + Cardinality(StrayHolders') <= room
                  /\ due <= elapsed' + Period
                  /\ \A b \in entry' : due + idle'[b] <= elapsed' + Period
               \/ StraysWithin(0)'
               \/ StraysWithin(s + 1)'
  <2>1. /\ strays' + Cardinality(StrayHolders') <= room
        /\ due <= elapsed' + Period
        /\ \A b \in entry' : due + idle'[b] <= elapsed' + Period
        => StraysWithin(s)'
    BY DEF StraysWithin, Period
  <2>2. 0 \in Nat /\ s + 1 \in Nat
    OBVIOUS
  <2>. QED BY <1>4, <2>1, <2>2 DEF StraysInv
<1>. HIDE DEF room, due
<1>5. /\ IsFiniteSet(StrayHolders) /\ Cardinality(StrayHolders) \in Nat
      /\ Cardinality(Requests) \in Nat /\ Cardinality(StrayHolders) <= Cardinality(Requests)
      /\ Cardinality(StrayHolders') \in Nat
      /\ Cardinality(StrayHolders') <= Cardinality(Requests)
  <2>1. IsFiniteSet(Requests) /\ StrayHolders' \subseteq Requests
    BY RateLimiterAssumption DEF StrayHolders
  <2>. QED BY <2>1, StrayHoldersType, FS_Subset, FS_CardinalityType
<1>6. ASSUME NEW r \in Requests, LookupHit(r)
      PROVE  StrayHolders' = StrayHolders /\ UNCHANGED <<strays, elapsed, entry, idle>>
  BY <1>6 DEF LookupHit, StrayHolders, watch, TypeOK
<1>7. ASSUME NEW r \in Requests, LookupMiss(r)
      PROVE  /\ StrayHolders' = StrayHolders /\ UNCHANGED <<strays, elapsed>>
             /\ \A b \in entry' : idle'[b] = 0
  <2>1. Fresh \in Buckets \ InUse
    BY <1>7, FreshType DEF LookupMiss
  <2>2. \A q \in Requests : Fresh \notin found[q]
    BY <2>1 DEF InUse
  <2>. QED BY <1>7, <2>1, <2>2 DEF LookupMiss, StrayHolders, watch, TypeOK
<1>8. ASSUME NEW r \in Requests, NEW b \in Buckets, Grant(r, b) \/ Deny(r, b), b \in entry
      PROVE  /\ StrayHolders' = StrayHolders /\ UNCHANGED <<strays, elapsed, entry>>
             /\ \A a \in entry : idle'[a] <= idle[a] /\ idle'[a] \in Nat
  <2>1. idle' = [idle EXCEPT ![b] = 0] /\ UNCHANGED <<strays, elapsed, entry>>
    BY <1>8 DEF Grant, Deny, watch
  <2>2. found' = [found EXCEPT ![r] = {}] /\ found[r] = {b}
    BY <1>8 DEF Grant, Deny
  <2>3. StrayHolders' = StrayHolders
    BY <1>8, <2>1, <2>2 DEF StrayHolders, TypeOK
  <2>. QED BY <1>3, <2>1, <2>3
<1>9. ASSUME NEW r \in Requests, NEW b \in Buckets, Grant(r, b) \/ Deny(r, b), b \notin entry
      PROVE  /\ Cardinality(StrayHolders') = Cardinality(StrayHolders) - 1
             /\ strays' \in {strays, strays + 1} /\ UNCHANGED <<elapsed, entry>>
             /\ \A a \in entry : idle'[a] = idle[a]
  <2>1. idle' = [idle EXCEPT ![b] = 0] /\ UNCHANGED <<elapsed, entry>>
        /\ strays' \in {strays, strays + 1}
    BY <1>9 DEF Grant, Deny, watch
  <2>2. found' = [found EXCEPT ![r] = {}] /\ found[r] = {b}
    BY <1>9 DEF Grant, Deny
  <2>3. r \in StrayHolders /\ StrayHolders' = StrayHolders \ {r}
    BY <1>9, <2>1, <2>2 DEF StrayHolders, TypeOK
  <2>4. Cardinality(StrayHolders') = Cardinality(StrayHolders) - 1
    BY <1>5, <2>3, FS_RemoveElement
  <2>. QED BY <1>3, <1>9, <2>1, <2>4
<1>10. ASSUME Sweep PROVE StraysWithin(s + 1)'
  <2>1. entry' = {} /\ UNCHANGED <<strays, elapsed>> /\ \E b \in entry : idle[b] > IdleLimit
    BY <1>10 DEF Sweep, watch
  <2>2. due <= elapsed
    BY <1>1, <1>2, <1>3, <2>1
  <2>3. /\ strays' + Cardinality(StrayHolders') <= room + Cardinality(Requests)
        /\ due + Period <= elapsed' + Period
    BY <1>1, <1>2, <1>3, <1>5, <2>1, <2>2
  <2>. QED BY <1>1, <2>1, <2>3 DEF StraysWithin, Period
<1>11. ASSUME Tick, window /\ elapsed < MaxWindow
       PROVE  /\ StrayHolders' = StrayHolders /\ strays' = strays /\ elapsed' = elapsed + 1
              /\ entry' = entry /\ \A a \in entry : idle'[a] <= idle[a] + 1 /\ idle'[a] \in Nat
  <2>1. /\ entry' = entry /\ found' = found /\ strays' = strays /\ elapsed' = elapsed + 1
        /\ idle' = [b \in Buckets |-> AtMost(idle[b] + 1, IdleLimit + 1)]
    BY <1>11 DEF Tick
  <2>. QED BY <1>1, <1>3, <2>1 DEF AtMost, StrayHolders
<1>12. ASSUME Tick, ~(window /\ elapsed < MaxWindow) PROVE StraysWithin(0)'
  <2>1. entry' = entry /\ strays' = 0 /\ elapsed' = 0
    BY <1>12 DEF Tick
  <2>2. \A b \in entry' : idle'[b] \in Int /\ idle'[b] <= Period
    <3>1. idle' = [b \in Buckets |-> AtMost(idle[b] + 1, IdleLimit + 1)]
      BY <1>12 DEF Tick
    <3>. QED BY <1>1, <1>3, <2>1, <3>1 DEF AtMost
  <2>3. Cardinality(Requests) * (1 + 0) = Cardinality(Requests) /\ 0 * Period = 0
    BY <1>1, <1>5
  <2>4. /\ strays' + Cardinality(StrayHolders') <= Cardinality(Requests) * (1 + 0)
        /\ 0 * Period <= elapsed' + Period
        /\ \A b \in entry' : 0 * Period + idle'[b] <= elapsed' + Period
    BY <1>1, <1>5, <2>1, <2>2, <2>3
  <2>. QED BY <2>4 DEF StraysWithin, Period
<1>13. ASSUME Watch \/ UNCHANGED vars
       PROVE  StrayHolders' = StrayHolders /\ UNCHANGED <<strays, elapsed, entry, idle>>
  BY <1>13 DEF Watch, vars, buckets, watch, StrayHolders
<1>14. CASE \E r \in Requests : LookupHit(r)
  BY <1>2, <1>6, <1>14
<1>15. CASE \E r \in Requests : LookupMiss(r)
  BY <1>1, <1>2, <1>7, <1>15
<1>16. CASE \E r \in Requests, b \in Buckets : Grant(r, b) \/ Deny(r, b)
  <2>1. PICK r \in Requests, b \in Buckets : Grant(r, b) \/ Deny(r, b)
    BY <1>16
  <2>2. CASE b \in entry
    BY <1>1, <1>2, <1>3, <1>8, <2>1, <2>2
  <2>3. CASE b \notin entry
    BY <1>1, <1>2, <1>3, <1>5, <1>9, <2>1, <2>3
  <2>. QED BY <2>2, <2>3
<1>17. CASE Tick
  BY <1>1, <1>2, <1>3, <1>11, <1>12, <1>17
<1>18. CASE Watch \/ UNCHANGED vars
  BY <1>2, <1>13, <1>18
<1>. QED BY <1>10, <1>14, <1>15, <1>16, <1>17, <1>18 DEF Next, Allow

\* What the deleted buckets grant in a window is bounded as well, for any number of
\* requests under way and windows of any length, so all that a client gets is.
THEOREM GrantsCorrect == Spec => []GrantsBounded
<1>1. TypeOK /\ StraysInv => StraysBounded
  <2>. SUFFICES ASSUME TypeOK, NEW s \in Nat, StraysWithin(s) PROVE StraysBounded
    BY DEF StraysInv
  <2>. DEFINE m == elapsed \div Period
  <2>1. elapsed \in Nat /\ Period \in Nat \ {0} /\ strays \in Nat
    BY RateLimiterAssumption, PeriodType DEF TypeOK
  <2>2. s * Period <= elapsed + Period
    BY DEF StraysWithin
  <2>3. m \in Nat /\ s <= 1 + m
    BY <2>1, <2>2
  <2>. HIDE DEF m
  <2>4. Cardinality(Requests) * (1 + s) <= Cardinality(Requests) * (2 + m)
    BY <2>3, StrayHoldersType
  <2>5. /\ Cardinality(Requests) * (1 + s) \in Nat /\ Cardinality(Requests) * (2 + m) \in Nat
        /\ Cardinality(StrayHolders) \in Nat
    BY <2>3, StrayHoldersType
  <2>6. strays <= Cardinality(Requests) * (2 + m)
    BY <2>1, <2>4, <2>5 DEF StraysWithin
  <2>. QED BY <2>6 DEF StraysBounded, Period, m
<1>. QED BY <1>1, InitStraysInv, NextStraysInv, TypeCorrect, BurstCorrect, PTL
         DEF Spec, GrantsBounded
==============================================================================
