----------------------------- MODULE RateLimiter -----------------------------
(***************************************************************************)
(* The token buckets of the api-gateway's RateLimiter, for one key: keys   *)
(* share nothing but the locks.  RateLimiter.Allow looks the bucket up     *)
(* under one lock and takes the token under the bucket's own; between the  *)
(* two the cleanup may delete the bucket from the map.  A tick is the time *)
(* in which a bucket gains one unit, and Cost units make a token, so that  *)
(* the fractions of a token are kept.                                      *)
(***************************************************************************)
EXTENDS Naturals, FiniteSets

CONSTANTS
  Requests,   \* handlers of requests with this key, that serve one after the other
  Buckets,    \* bound: names for the buckets in use, taken again when forgotten
  Burst,      \* rl.burst
  Cost,       \* ticks in which rl.rate yields a token
  IdleLimit,  \* the cleanup's ten minutes, in ticks
  MaxWindow   \* bound: the longest window in which grants are counted, in ticks

Full == Burst * Cost

\* An idle bucket is full long before it is swept: two seconds in the gateway.
ASSUME RateLimiterAssumption ==
  /\ IsFiniteSet(Requests) /\ IsFiniteSet(Buckets)
  /\ Cardinality(Buckets) >= Cardinality(Requests)
  /\ Burst \in Nat /\ Cost \in Nat \ {0} /\ IdleLimit \in Nat /\ MaxWindow \in Nat
  /\ IdleLimit >= Full

VARIABLES
  tokens,   \* b.tokens of each bucket, in units
  idle,     \* ticks since b.lastFill, counted up to IdleLimit + 1
  entry,    \* rl.buckets[key], as a set of at most one bucket
  found,    \* the bucket each request has looked up and not used yet, as a set
  window,   \* history: whether a window of time is being watched
  elapsed,  \* history: ticks in the window
  spent,    \* history: units taken in the window from the bucket in the map
  strays    \* history: requests granted in the window by a bucket not in it any more

buckets == <<tokens, idle, entry, found>>
watch == <<window, elapsed, spent, strays>>
vars == <<buckets, watch>>

Init ==
  /\ tokens = [b \in Buckets |-> 0]
  /\ idle = [b \in Buckets |-> 0]
  /\ entry = {}
  /\ found = [r \in Requests |-> {}]
  /\ window = FALSE /\ elapsed = 0 /\ spent = 0 /\ strays = 0

AtMostOne(S) == \A a, b \in S : a = b
AtMost(n, max) == IF n > max THEN max ELSE n
InUse == entry \cup UNION {found[r] : r \in Requests}

-----------------------------------------------------------------------------
(* RateLimiter.Allow. *)

LookupHit(r) ==
  /\ found[r] = {} /\ entry # {}
  /\ found' = [found EXCEPT ![r] = entry]
  /\ UNCHANGED <<tokens, idle, entry, watch>>

\* A name for a new bucket.
Fresh == CHOOSE b \in Buckets : b \notin InUse

\* The key has no bucket: NewTokenBucket makes one, full.
LookupMiss(r) ==
  /\ found[r] = {} /\ entry = {}
  /\ entry' = {Fresh}
  /\ found' = [found EXCEPT ![r] = {Fresh}]
  /\ tokens' = [tokens EXCEPT ![Fresh] = Full]
  /\ idle' = [idle EXCEPT ![Fresh] = 0]
  /\ UNCHANGED watch

\* Mutant: the burst does not limit what an idle bucket gains.
RefilledUncapped(b) == tokens[b] + idle[b]

\* Mutant: only whole tokens are gained, while lastFill moves all the same.
RefilledWhole(b) == AtMost(tokens[b] + (idle[b] \div Cost) * Cost, Full)

Refilled(b) == AtMost(tokens[b] + idle[b], Full)

\* TokenBucket.Allow on the bucket that was found, in the map or not.
Grant(r, b) ==
  /\ found[r] = {b} /\ Refilled(b) >= Cost
  /\ tokens' = [tokens EXCEPT ![b] = Refilled(b) - Cost]
  /\ idle' = [idle EXCEPT ![b] = 0]
  /\ found' = [found EXCEPT ![r] = {}]
  /\ spent' = IF window /\ b \in entry THEN spent + Cost ELSE spent
  /\ strays' = IF window /\ b \notin entry THEN strays + 1 ELSE strays
  /\ UNCHANGED <<entry, window, elapsed>>

Deny(r, b) ==
  /\ found[r] = {b} /\ Refilled(b) < Cost
  /\ tokens' = [tokens EXCEPT ![b] = Refilled(b)]
  /\ idle' = [idle EXCEPT ![b] = 0]
  /\ found' = [found EXCEPT ![r] = {}]
  /\ UNCHANGED <<entry, watch>>

-----------------------------------------------------------------------------

\* Mutant: the bucket is deleted however recently it was used.
SweepAny ==
  /\ entry # {}
  /\ entry' = {}
  /\ UNCHANGED <<tokens, idle, found, watch>>

\* The cleanup deletes the bucket.
Sweep ==
  /\ entry # {} /\ \A b \in entry : idle[b] > IdleLimit
  /\ entry' = {}
  /\ UNCHANGED <<tokens, idle, found, watch>>

\* Time passes, for the buckets and the window; a window ends at MaxWindow.
Tick ==
  /\ idle' = [b \in Buckets |-> AtMost(idle[b] + 1, IdleLimit + 1)]
  /\ IF window /\ elapsed < MaxWindow
     THEN elapsed' = elapsed + 1 /\ UNCHANGED <<window, spent, strays>>
     ELSE window' = FALSE /\ elapsed' = 0 /\ spent' = 0 /\ strays' = 0
  /\ UNCHANGED <<tokens, entry, found>>

\* The window to watch begins at any moment.
Watch ==
  /\ ~window
  /\ window' = TRUE
  /\ UNCHANGED <<buckets, elapsed, spent, strays>>

Allow(r) ==
  \/ LookupHit(r) \/ LookupMiss(r)
  \/ \E b \in Buckets : Grant(r, b) \/ Deny(r, b)

Next == (\E r \in Requests : Allow(r)) \/ Sweep \/ Tick \/ Watch

\* Time passes, and the client asks over and over.
Spec == Init /\ [][Next]_vars /\ WF_vars(Tick) /\ \A r \in Requests : WF_vars(Allow(r))

-----------------------------------------------------------------------------
(* What must hold. *)

\* A bucket never holds more than the burst, and grants are only counted in a window.
TypeOK ==
  /\ tokens \in [Buckets -> 0 .. Full]
  /\ idle \in [Buckets -> 0 .. IdleLimit + 1]
  /\ entry \subseteq Buckets /\ AtMostOne(entry)
  /\ found \in [Requests -> SUBSET Buckets] /\ \A r \in Requests : AtMostOne(found[r])
  /\ window \in BOOLEAN /\ elapsed \in 0 .. MaxWindow
  /\ spent \in Nat /\ strays \in Nat
  /\ ~window => elapsed = 0 /\ spent = 0 /\ strays = 0

\* In no window of time does the bucket of a client grant more than the burst and what
\* the rate yields: deleting it gives no second burst away.
BurstBounded == spent <= Full + elapsed

\* A deleted bucket grants at most one request to each handler that found it in time,
\* and there is one deletion per idle period.
StraysBounded == strays <= Cardinality(Requests) * (2 + elapsed \div (IdleLimit + 1))

\* What a client gets in a window of time, cleanup included.
GrantsBounded == BurstBounded /\ StraysBounded

\* A client that asks over and over is served over and over, however often it is denied
\* in between.
NeverStarved == []<><<\E r \in Requests, b \in Buckets : Grant(r, b)>>_vars
=============================================================================
