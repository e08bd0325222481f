--------------------------- MODULE PaymentPromise ---------------------------
(***************************************************************************)
(* What payment-service promises a client that waits for each reply before *)
(* it retries with the same key, without the service's stores: there is    *)
(* one payment for the key; whether it is charged is decided before the    *)
(* first reply, once and for all; every reply names it; an error means     *)
(* that it was not charged; and money goes back only for a key that was    *)
(* charged, which may be before its client knows.                          *)
(***************************************************************************)
CONSTANTS
  Keys,  \* the keys of such clients
  Ids    \* payments

VARIABLES
  made,      \* the payments there are for each key
  charged,   \* those that were charged
  named,     \* those that replies to the key have named
  declined,  \* keys an error has been answered for
  refunded   \* keys money was paid back for

vars == <<made, charged, named, declined, refunded>>

Init ==
  /\ made = [k \in Keys |-> {}] /\ charged = made /\ named = made
  /\ declined = {} /\ refunded = {}

Make(k) ==
  /\ made[k] = {}
  /\ \E p \in Ids : made' = [made EXCEPT ![k] = {p}]
  /\ UNCHANGED <<charged, named, declined, refunded>>

Charge(k) ==
  /\ made[k] # {} /\ charged[k] = {} /\ named[k] = {}
  /\ charged' = [charged EXCEPT ![k] = made[k]]
  /\ UNCHANGED <<made, named, declined, refunded>>

Answer(k) ==
  /\ made[k] # {}
  /\ named' = [named EXCEPT ![k] = made[k]]
  /\ UNCHANGED <<made, charged, declined, refunded>>

AnswerError(k) ==
  /\ made[k] # {} /\ charged[k] = {}
  /\ named' = [named EXCEPT ![k] = made[k]]
  /\ declined' = declined \cup {k}
  /\ UNCHANGED <<made, charged, refunded>>

Refund(k) ==
  /\ charged[k] # {}
  /\ refunded' = refunded \cup {k}
  /\ UNCHANGED <<made, charged, named, declined>>

Next ==
  \E k \in Keys : Make(k) \/ Charge(k) \/ Answer(k) \/ AnswerError(k) \/ Refund(k)

Spec == Init /\ [][Next]_vars
=============================================================================
