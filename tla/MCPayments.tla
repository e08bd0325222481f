----------------------------- MODULE MCPayments -----------------------------
(* Instances of Payments for TLC. *)
EXTENDS Payments

Started(calls) == {c \in calls : pc[c] # "idle"}

\* Bound: calls are alike, so each behaviour is checked under one numbering of its calls:
\* charges by their keys, the claimant of a key first, refunds by the payments they name.
\* (Permutations would do for the safety properties and are not sound for the liveness.)
Numbered ==
  /\ \A c, d \in Started(Charges) : c < d => key[c] <= key[d]
  /\ \A c \in Charges : key[c] \in Keys => records[key[c]] <= c
  /\ \A r, s \in Started(Refunds) : r < s => target[r] <= target[s]
=============================================================================
