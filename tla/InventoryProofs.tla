-------------------------- MODULE InventoryProofs ---------------------------
(***************************************************************************)
(* Theorems about Inventory, for any products, stocks and quantities and   *)
(* any number of reservations.                                             *)
(***************************************************************************)
EXTENDS Inventory, SequenceTheorems, FiniteSetTheorems, TLAPS

-----------------------------------------------------------------------------
(* The units of a set of reservations. *)

\* A unit is a reservation with a number up to its quantity.
LEMMA UnitsMember ==
  ASSUME NEW res, NEW R
  PROVE  \A u : u \in UnitsOf(res, R) <=>
                  \E r \in R : \E k \in 1 .. res[r].quantity : u = <<r, k>>
  BY DEF UnitsOf

\* What is stored about a reservation.
LEMMA ReservationFields ==
  ASSUME NEW res \in Seq(Reservation), NEW r \in 1 .. Len(res)
  PROVE  /\ res[r] \in Reservation
         /\ res[r].product \in Products /\ res[r].quantity \in 1 .. MaxQuantity
         /\ res[r].status \in ReservationStatus
<1>1. res[r] \in Reservation
  BY ElementOfSeq
<1>. QED BY <1>1 DEF Reservation

\* Reservations have finitely many units.
LEMMA UnitsFinite ==
  ASSUME NEW res \in Seq(Reservation), NEW R \in SUBSET (1 .. Len(res))
  PROVE  IsFiniteSet(UnitsOf(res, R)) /\ Cardinality(UnitsOf(res, R)) \in Nat
<1> DEFINE all == (1 .. Len(res)) \X (1 .. MaxQuantity)
<1>1. IsFiniteSet(all)
  <2>1. Len(res) \in Int /\ MaxQuantity \in Int
    BY InventoryAssumption, LenProperties
  <2>2. IsFiniteSet(1 .. Len(res)) /\ IsFiniteSet(1 .. MaxQuantity)
    BY <2>1, FS_Interval
  <2>. QED BY <2>2, FS_Product
<1>2. UnitsOf(res, R) \subseteq all
  <2>1. ASSUME NEW r \in R, NEW k \in 1 .. res[r].quantity PROVE <<r, k>> \in all
    <3>1. res[r].quantity \in 1 .. MaxQuantity
      BY ReservationFields
    <3>. QED BY <3>1, InventoryAssumption
  <2>2. \A u : u \in UnitsOf(res, R) => \E r \in R : \E k \in 1 .. res[r].quantity : u = <<r, k>>
    BY DEF UnitsOf
  <2>. HIDE DEF all
  <2>. QED BY <2>1, <2>2
<1>. HIDE DEF all
<1>3. IsFiniteSet(UnitsOf(res, R))
  BY <1>1, <1>2, FS_Subset
<1>. QED BY <1>3, FS_CardinalityType

\* Without reservations there are no units.
LEMMA UnitsOfNone == ASSUME NEW res PROVE Cardinality(UnitsOf(res, {})) = 0
<1>1. UnitsOf(res, {}) = {}
  BY UnitsMember
<1>. QED BY <1>1, FS_EmptySet

\* The units of one reservation are as many as its quantity says.
LEMMA UnitsOfOne ==
  ASSUME NEW res \in Seq(Reservation), NEW r \in 1 .. Len(res)
  PROVE  Cardinality(UnitsOf(res, {r})) = res[r].quantity
<1> DEFINE q == res[r].quantity
<1>1. q \in 1 .. MaxQuantity /\ q \in Nat /\ 1 \in Int
  BY ReservationFields, InventoryAssumption
<1>2. UnitsOf(res, {r}) = {r} \X (1 .. q)
  BY DEF UnitsOf
<1>. HIDE DEF q
<1>3. IsFiniteSet({r}) /\ Cardinality({r}) = 1
  BY FS_Singleton
<1>4. IsFiniteSet(1 .. q) /\ Cardinality(1 .. q) = q
  BY <1>1, FS_Interval
<1>5. Cardinality({r} \X (1 .. q)) = 1 * q
  BY <1>3, <1>4, FS_Product
<1>6. Cardinality({r} \X (1 .. q)) = q
  BY <1>1, <1>5
<1>. QED BY <1>2, <1>6 DEF q

\* Units of disjoint sets of reservations add up.
LEMMA UnitsAdd ==
  ASSUME NEW res \in Seq(Reservation),
         NEW R \in SUBSET (1 .. Len(res)), NEW S \in SUBSET (1 .. Len(res)), R \cap S = {}
  PROVE  Cardinality(UnitsOf(res, R \cup S))
           = Cardinality(UnitsOf(res, R)) + Cardinality(UnitsOf(res, S))
<1> DEFINE U == UnitsOf(res, R)
           V == UnitsOf(res, S)
<1>1. UnitsOf(res, R \cup S) = U \cup V
  BY DEF UnitsOf
<1>2. U \cap V = {}
  <2>1. ASSUME NEW u \in U, u \in V PROVE FALSE
    <3>1. PICK r \in R : \E k \in 1 .. res[r].quantity : u = <<r, k>>
      BY DEF UnitsOf
    <3>2. PICK s \in S : \E k \in 1 .. res[s].quantity : u = <<s, k>>
      BY <2>1 DEF UnitsOf
    <3>. QED BY <3>1, <3>2
  <2>. QED BY <2>1
<1>3. IsFiniteSet(U) /\ Cardinality(U) \in Nat /\ IsFiniteSet(V) /\ Cardinality(V) \in Nat
  BY UnitsFinite
<1>. HIDE DEF U, V
<1>4. Cardinality(U \cup V) = Cardinality(U) + Cardinality(V) - Cardinality(U \cap V)
  BY <1>3, FS_Union
<1>5. Cardinality(U \cap V) = 0
  BY <1>2, FS_EmptySet
<1>6. Cardinality(U \cup V) = Cardinality(U) + Cardinality(V)
  BY <1>3, <1>4, <1>5
<1>. QED BY <1>1, <1>6 DEF U, V

\* Only the quantities of the reservations matter.
LEMMA UnitsSame ==
  ASSUME NEW res, NEW new, NEW R, \A r \in R : new[r].quantity = res[r].quantity
  PROVE  UnitsOf(new, R) = UnitsOf(res, R)
  BY UnitsMember

-----------------------------------------------------------------------------
(* What the operations do to the totals of a product. *)

Weight(R) == Cardinality(UnitsOf(reservations, R))

\* The totals are sums of quantities of reservations in the store.
LEMMA TotalType ==
  ASSUME reservations \in Seq(Reservation), NEW p \in Products, NEW s \in ReservationStatus
  PROVE  Of(p, s) \subseteq 1 .. Len(reservations) /\ Total(p, s) \in Nat
<1>1. Of(p, s) \subseteq 1 .. Len(reservations)
  BY LenProperties DEF Of
<1>. QED BY <1>1, UnitsFinite DEF Total

\* A set of reservations and the rest of those of a product and status share its total.
LEMMA TotalSplits ==
  ASSUME reservations \in Seq(Reservation), NEW p \in Products, NEW s \in ReservationStatus,
         NEW R \in SUBSET Of(p, s)
  PROVE  /\ Weight(R) \in Nat /\ Weight(Of(p, s) \ R) \in Nat
         /\ Total(p, s) = Weight(R) + Weight(Of(p, s) \ R)
<1> DEFINE S == Of(p, s) \ R
<1>1. R \in SUBSET (1 .. Len(reservations)) /\ S \in SUBSET (1 .. Len(reservations))
  BY TotalType
<1>2. R \cap S = {} /\ R \cup S = Of(p, s)
  OBVIOUS
<1>3. Weight(R) \in Nat /\ Weight(S) \in Nat
  BY <1>1, UnitsFinite DEF Weight
<1>4. Weight(R \cup S) = Weight(R) + Weight(S)
  BY <1>1, <1>2, UnitsAdd DEF Weight
<1>. QED BY <1>2, <1>3, <1>4 DEF Weight, Total

\* A reservation that changes its status takes its quantity from one total of its
\* product to another, and leaves all other totals alone.
LEMMA StatusMoves ==
  ASSUME reservations \in Seq(Reservation), NEW r \in 1 .. Len(reservations),
         NEW t \in ReservationStatus, SetStatus(r, t), reservations[r].status # t,
         NEW x, x = reservations[r].product, NEW q, q = reservations[r].quantity,
         NEW old, old = reservations[r].status
  PROVE  /\ x \in Products /\ q \in Nat /\ old \in ReservationStatus
         /\ reservations' \in Seq(Reservation) /\ Len(reservations') = Len(reservations)
         /\ \A i \in 1 .. Len(reservations) : reservations'[i].product = reservations[i].product
         /\ Total(x, old) >= q
         /\ Total(x, old)' = Total(x, old) - q
         /\ Total(x, t)' = Total(x, t) + q
         /\ \A p \in Products, s \in ReservationStatus :
              p # x \/ s \notin {old, t} => Total(p, s)' = Total(p, s)
<1> DEFINE new == [reservations[r] EXCEPT !.status = t]
<1>1. x \in Products /\ q \in 1 .. MaxQuantity /\ q \in Nat /\ old \in ReservationStatus
  BY ReservationFields, InventoryAssumption
<1>2. new \in Reservation /\ new.product = x /\ new.quantity = q /\ new.status = t
  BY ReservationFields DEF Reservation
<1>3. /\ reservations' \in Seq(Reservation) /\ Len(reservations') = Len(reservations)
      /\ \A i \in 1 .. Len(reservations) :
           reservations'[i] = IF i = r THEN new ELSE reservations[i]
  <2>1. reservations' = [reservations EXCEPT ![r] = new]
    BY DEF SetStatus
  <2>. HIDE DEF new
  <2>. QED BY <1>2, <2>1, ExceptSeq
<1>4. DOMAIN reservations = 1 .. Len(reservations) /\ DOMAIN reservations' = 1 .. Len(reservations)
  BY <1>3, LenProperties
<1>. HIDE DEF new
<1>5. \A p \in Products, s \in ReservationStatus :
        Of(p, s)' = IF p # x \/ s \notin {old, t} THEN Of(p, s)
                    ELSE IF s = t THEN Of(p, s) \cup {r} ELSE Of(p, s) \ {r}
  BY <1>2, <1>3, <1>4 DEF Of
<1>6. \A i \in 1 .. Len(reservations) : /\ reservations'[i].quantity = reservations[i].quantity
                                        /\ reservations'[i].product = reservations[i].product
  BY <1>2, <1>3
<1>7. \A R \in SUBSET (1 .. Len(reservations)) :
       UnitsOf(reservations', R) = UnitsOf(reservations, R)
  BY <1>6, UnitsSame
<1>8. ASSUME NEW p \in Products, NEW s \in ReservationStatus, p # x \/ s \notin {old, t}
      PROVE  Total(p, s)' = Total(p, s)
  BY <1>5, <1>7, <1>8, TotalType DEF Total
<1>9. Weight({r}) = q
  BY UnitsOfOne DEF Weight
<1>10. Total(x, old) >= q /\ Total(x, old)' = Total(x, old) - q
  <2> DEFINE S == Of(x, old) \ {r}
  <2>1. r \in Of(x, old)
    BY <1>4 DEF Of
  <2>2. {r} \in SUBSET Of(x, old) /\ S \in SUBSET (1 .. Len(reservations))
    BY <1>1, <2>1, TotalType
  <2>3. Total(x, old) = Weight({r}) + Weight(S) /\ Weight(S) \in Nat
    BY <1>1, <2>2, TotalSplits
  <2>4. Of(x, old)' = S
    BY <1>1, <1>5
  <2>5. Total(x, old)' = Weight(S)
    BY <1>7, <2>2, <2>4 DEF Total, Weight
  <2>. HIDE DEF S
  <2>. QED BY <1>1, <1>9, <2>3, <2>5
<1>11. Total(x, t)' = Total(x, t) + q
  <2> DEFINE R == Of(x, t)
  <2>1. r \notin R
    BY DEF Of
  <2>2. /\ R \in SUBSET (1 .. Len(reservations)) /\ {r} \in SUBSET (1 .. Len(reservations))
        /\ R \cup {r} \in SUBSET (1 .. Len(reservations)) /\ R \cap {r} = {}
    BY <1>1, <2>1, TotalType
  <2>3. Weight(R \cup {r}) = Weight(R) + Weight({r})
    BY <2>2, UnitsAdd DEF Weight
  <2>4. R' = R \cup {r}
    BY <1>1, <1>5
  <2>5. Total(x, t)' = Weight(R \cup {r})
    BY <1>7, <2>2, <2>4 DEF Total, Weight
  <2>. QED BY <1>9, <2>3, <2>5 DEF Total, Weight
<1>. QED BY <1>1, <1>3, <1>6, <1>8, <1>10, <1>11

\* A new reservation is active, and the totals of all others stay what they were.
LEMMA ReservationAdds ==
  ASSUME reservations \in Seq(Reservation), NEW x \in Products, NEW q \in 1 .. MaxQuantity,
         reservations' = Append(reservations, [product |-> x, quantity |-> q, status |-> "active"])
  PROVE  /\ reservations' \in Seq(Reservation) /\ Len(reservations') = Len(reservations) + 1
         /\ \A i \in 1 .. Len(reservations) : reservations'[i] = reservations[i]
         /\ reservations'[Len(reservations) + 1].product = x
         /\ Total(x, "active")' = Total(x, "active") + q
         /\ \A p \in Products, s \in ReservationStatus :
              p # x \/ s # "active" => Total(p, s)' = Total(p, s)
<1> DEFINE new == [product |-> x, quantity |-> q, status |-> "active"]
           n == Len(reservations) + 1
<1>1. new \in Reservation /\ new.product = x /\ new.quantity = q /\ new.status = "active"
  BY DEF Reservation, ReservationStatus
<1>. HIDE DEF new
<1>2. /\ reservations' \in Seq(Reservation) /\ Len(reservations') = n
      /\ \A i \in 1 .. Len(reservations) : reservations'[i] = reservations[i]
      /\ reservations'[n] = new
  BY <1>1, AppendProperties DEF new
<1>3. /\ Len(reservations) \in Nat /\ DOMAIN reservations = 1 .. Len(reservations)
      /\ DOMAIN reservations' = 1 .. n
  BY <1>2, LenProperties
<1>4. n \in 1 .. n /\ n \notin 1 .. Len(reservations) /\ 1 .. n = (1 .. Len(reservations)) \cup {n}
  BY <1>3
<1>5. \A p \in Products, s \in ReservationStatus :
        Of(p, s)' = IF p # x \/ s # "active" THEN Of(p, s) ELSE Of(p, s) \cup {n}
  BY <1>1, <1>2, <1>3, <1>4 DEF Of
<1>6. \A R \in SUBSET (1 .. Len(reservations)) :
       UnitsOf(reservations', R) = UnitsOf(reservations, R)
  BY <1>2, UnitsSame
<1>7. ASSUME NEW p \in Products, NEW s \in ReservationStatus, p # x \/ s # "active"
      PROVE  Total(p, s)' = Total(p, s)
  BY <1>5, <1>6, <1>7, TotalType DEF Total
<1>8. Total(x, "active")' = Total(x, "active") + q
  <2> DEFINE R == Of(x, "active")
  <2>1. "active" \in ReservationStatus
    BY DEF ReservationStatus
  <2>2. R \in SUBSET (1 .. Len(reservations))
    BY <2>1, TotalType
  <2>3. /\ R \cap {n} = {} /\ n \in 1 .. Len(reservations')
        /\ R \in SUBSET (1 .. Len(reservations')) /\ {n} \in SUBSET (1 .. Len(reservations'))
    BY <1>2, <1>4, <2>2
  <2>. HIDE DEF n, R
  <2>4. reservations' \in Seq(Reservation) /\ reservations'[n].quantity = q
    BY <1>1, <1>2
  <2>5. Cardinality(UnitsOf(reservations', {n})) = reservations'[n].quantity
    BY <2>3, <2>4, UnitsOfOne
  <2>6. Cardinality(UnitsOf(reservations', {n})) = q
    BY <2>4, <2>5
  <2>7. Cardinality(UnitsOf(reservations', R \cup {n}))
          = Cardinality(UnitsOf(reservations', R)) + Cardinality(UnitsOf(reservations', {n}))
    BY <2>3, <2>4, UnitsAdd
  <2>8. UnitsOf(reservations', R) = UnitsOf(reservations, R)
    BY <1>6, <2>2
  <2>9. Of(x, "active")' = R \cup {n}
    BY <1>5, <2>1 DEF R, n
  <2>. QED BY <2>6, <2>7, <2>8, <2>9 DEF Total, R
<1>. QED BY <1>1, <1>2, <1>7, <1>8

\* The sweep takes its reservations out of the active totals, and changes no other
\* total the store keeps.
LEMMA SweepExpires ==
  ASSUME TypeOK, ExpireStale, NEW p \in Products,
         NEW R, R = Stale \cap Of(p, "active")
  PROVE  /\ reservations' \in Seq(Reservation) /\ Len(reservations') = Len(reservations)
         /\ \A i \in 1 .. Len(reservations) : reservations'[i].product = reservations[i].product
         /\ Weight(R) \in Nat /\ Weight(R) <= Total(p, "active")
         /\ Total(p, "active")' = Total(p, "active") - Weight(R)
         /\ Total(p, "confirmed")' = Total(p, "confirmed")
<1> DEFINE Expired(i) == [reservations[i] EXCEPT !.status = "expired"]
<1>1. reservations \in Seq(Reservation) /\ Len(reservations) \in Nat
      /\ DOMAIN reservations = 1 .. Len(reservations)
  BY LenProperties DEF TypeOK
<1>2. \A i \in 1 .. Len(reservations) :
        /\ Expired(i) \in Reservation
        /\ Expired(i).product = reservations[i].product
        /\ Expired(i).quantity = reservations[i].quantity
        /\ Expired(i).status = "expired"
  BY <1>1, ReservationFields DEF Reservation, ReservationStatus
<1>3. \A i \in 1 .. Len(reservations) : reservations[i] \in Reservation
  BY <1>1, ReservationFields
<1>4. reservations' = [i \in 1 .. Len(reservations) |->
                         IF i \in Stale THEN Expired(i) ELSE reservations[i]]
  BY <1>1 DEF ExpireStale
<1>. HIDE DEF Expired
<1>5. reservations' \in Seq(Reservation) /\ Len(reservations') = Len(reservations)
      /\ DOMAIN reservations' = 1 .. Len(reservations)
  BY <1>1, <1>2, <1>3, <1>4
<1>6. \A i \in 1 .. Len(reservations) :
        /\ reservations'[i].product = reservations[i].product
        /\ reservations'[i].quantity = reservations[i].quantity
        /\ reservations'[i].status = IF i \in Stale THEN "expired" ELSE reservations[i].status
  BY <1>2, <1>4
<1>7. \A Q \in SUBSET (1 .. Len(reservations)) :
       UnitsOf(reservations', Q) = UnitsOf(reservations, Q)
  BY <1>6, UnitsSame
<1>8. {"active", "confirmed"} \subseteq ReservationStatus
  BY DEF ReservationStatus
<1>9. /\ Weight(R) \in Nat /\ Weight(Of(p, "active") \ R) \in Nat
      /\ Total(p, "active") = Weight(R) + Weight(Of(p, "active") \ R)
  <2>1. R \in SUBSET Of(p, "active")
    OBVIOUS
  <2>. QED BY <1>1, <1>8, <2>1, TotalSplits
<1>10. Total(p, "active")' = Weight(Of(p, "active") \ R)
  <2>1. Of(p, "active")' = Of(p, "active") \ R
    BY <1>1, <1>5, <1>6 DEF Of
  <2>2. Of(p, "active") \ R \in SUBSET (1 .. Len(reservations))
    BY <1>1, <1>8, TotalType
  <2>. QED BY <1>7, <2>1, <2>2 DEF Total, Weight
<1>11. Total(p, "confirmed")' = Total(p, "confirmed")
  <2>1. Of(p, "confirmed")' = Of(p, "confirmed")
    <3>1. \A i \in Stale : reservations[i].status = "active"
      BY DEF Stale
    <3>. QED BY <1>1, <1>5, <1>6, <3>1 DEF Of
  <2>2. Of(p, "confirmed") \in SUBSET (1 .. Len(reservations))
    BY <1>1, <1>8, TotalType
  <2>. QED BY <1>7, <2>1, <2>2 DEF Total
<1>12. Weight(R) <= Total(p, "active") /\ Total(p, "active")' = Total(p, "active") - Weight(R)
  <2>1. \A a, b, c \in Nat : c = a + b => a <= c /\ b = c - a
    OBVIOUS
  <2>2. Total(p, "active") \in Nat
    BY <1>1, <1>8, TotalType
  <2>. QED BY <1>9, <1>10, <2>1, <2>2
<1>. QED BY <1>5, <1>6, <1>9, <1>11, <1>12

-----------------------------------------------------------------------------
(* The inductive invariant. *)

\* A product that was never posted has nothing, and nothing was reserved of it.
NewProducts ==
  /\ \A i \in 1 .. Len(reservations) : reservations[i].product \in known
  /\ \A p \in Products \ known : stock[p] = 0 /\ held[p] = 0 /\ posted[p] = 0

\* The accounts of one product. They are only lost by a second post of the product or
\* a release after expiry, so both are part of the invariant.
AccountOf(p) ==
  /\ held[p] <= Active(p)
  /\ p \notin reposted => stock[p] + Confirmed(p) = posted[p]
  /\ p \notin reposted \cup returnedTwice => held[p] = Active(p) /\ Active(p) <= stock[p]

IInv == TypeOK /\ NewProducts /\ \A p \in Products : AccountOf(p)

\* What nothing was reserved of has no active or confirmed units.
LEMMA UnknownTotals ==
  ASSUME IInv, NEW p \in Products \ known
  PROVE  Active(p) = 0 /\ Confirmed(p) = 0
<1>1. DOMAIN reservations = 1 .. Len(reservations)
  BY LenProperties DEF IInv, TypeOK
<1>2. Of(p, "active") = {} /\ Of(p, "confirmed") = {}
  BY <1>1 DEF IInv, NewProducts, Of
<1>. QED BY <1>2, UnitsOfNone DEF Active, Confirmed, Total

\* The totals are natural numbers.
LEMMA TotalsNat ==
  ASSUME TypeOK, NEW p \in Products
  PROVE  Active(p) \in Nat /\ Confirmed(p) \in Nat
  BY TotalType DEF TypeOK, Active, Confirmed, ReservationStatus

\* Posting a product starts its account, or leaves one that the invariant exempts.
LEMMA AddProductKeeps ==
  ASSUME IInv, NEW x \in Products, NEW n \in Stocks, UNCHANGED mu, AddProduct(x, n)
  PROVE  IInv'
<1>. USE DEF AddProduct, SetProduct
<1>1. TypeOK /\ NewProducts /\ n \in Nat
  BY InventoryAssumption DEF IInv
<1>2. TypeOK'
  BY <1>1 DEF TypeOK
<1>3. NewProducts'
  BY <1>1 DEF TypeOK, NewProducts
<1>4. ASSUME NEW p \in Products PROVE AccountOf(p)'
  <2>1. Active(p)' = Active(p) /\ Confirmed(p)' = Confirmed(p)
    BY DEF Active, Confirmed, Total, Of
  <2>2. AccountOf(p) /\ Active(p) \in Nat /\ Confirmed(p) \in Nat
    BY <1>1, TotalsNat DEF IInv
  <2>3. CASE p # x
    BY <1>1, <2>1, <2>2, <2>3 DEF TypeOK, AccountOf
  <2>4. CASE p = x /\ x \in known
    BY <1>1, <2>1, <2>2, <2>4 DEF TypeOK, AccountOf
  <2>5. CASE p = x /\ x \notin known
    <3>1. Active(p) = 0 /\ Confirmed(p) = 0
      BY <2>5, UnknownTotals
    <3>. QED BY <1>1, <2>1, <2>5, <3>1 DEF TypeOK, AccountOf
  <2>. QED BY <2>3, <2>4, <2>5
<1>. QED BY <1>2, <1>3, <1>4 DEF IInv

\* A reservation adds the same units to the hold and to the active total.
LEMMA ReserveKeeps ==
  ASSUME IInv, NEW x \in Products, NEW q \in 1 .. MaxQuantity, UNCHANGED mu, Reserve(x, q)
  PROVE  IInv'
<1>. USE DEF Reserve, SetProduct, history
<1>1. TypeOK /\ NewProducts /\ q \in Nat /\ Len(reservations) \in Nat
  BY InventoryAssumption, LenProperties DEF IInv, TypeOK
<1>2. /\ reservations' \in Seq(Reservation) /\ Len(reservations') = Len(reservations) + 1
      /\ \A i \in 1 .. Len(reservations) : reservations'[i] = reservations[i]
      /\ reservations'[Len(reservations) + 1].product = x
      /\ Total(x, "active")' = Total(x, "active") + q
      /\ \A p \in Products, s \in ReservationStatus :
           p # x \/ s # "active" => Total(p, s)' = Total(p, s)
  BY <1>1, ReservationAdds DEF TypeOK
<1>3. TypeOK'
  BY <1>1, <1>2 DEF TypeOK
<1>4. NewProducts'
  BY <1>1, <1>2 DEF TypeOK, NewProducts
<1>5. ASSUME NEW p \in Products PROVE AccountOf(p)'
  <2>1. /\ Active(p)' = IF p = x THEN Active(p) + q ELSE Active(p)
        /\ Confirmed(p)' = Confirmed(p)
    BY <1>2 DEF Active, Confirmed, ReservationStatus
  <2>2. AccountOf(p) /\ Active(p) \in Nat /\ Confirmed(p) \in Nat
    BY <1>1, TotalsNat DEF IInv
  <2>. QED BY <1>1, <2>1, <2>2 DEF TypeOK, AccountOf
<1>. QED BY <1>3, <1>4, <1>5 DEF IInv

\* Confirming moves units from the hold, the stock and the active total to the
\* confirmed total.
LEMMA ConfirmKeeps ==
  ASSUME IInv, NEW r \in DOMAIN reservations, UNCHANGED mu, ConfirmReservation(r)
  PROVE  IInv'
<1>. DEFINE x == reservations[r].product
            q == reservations[r].quantity
<1>1. TypeOK /\ NewProducts /\ r \in 1 .. Len(reservations)
  BY LenProperties DEF IInv, TypeOK
<1>2. /\ x \in Products /\ q \in Nat
      /\ reservations' \in Seq(Reservation) /\ Len(reservations') = Len(reservations)
      /\ \A i \in 1 .. Len(reservations) : reservations'[i].product = reservations[i].product
      /\ \A p \in Products :
           /\ Active(p)' = IF p = x THEN Active(p) - q ELSE Active(p)
           /\ Confirmed(p)' = IF p = x THEN Confirmed(p) + q ELSE Confirmed(p)
  <2>. SUFFICES ASSUME NEW y, y = x, NEW m, m = q
                PROVE  /\ y \in Products /\ m \in Nat
                       /\ reservations' \in Seq(Reservation)
                       /\ Len(reservations') = Len(reservations)
                       /\ \A i \in 1 .. Len(reservations) :
                            reservations'[i].product = reservations[i].product
                       /\ \A p \in Products :
                            /\ Active(p)' = IF p = y THEN Active(p) - m ELSE Active(p)
                            /\ Confirmed(p)' = IF p = y THEN Confirmed(p) + m ELSE Confirmed(p)
    OBVIOUS
  <2>1. /\ SetStatus(r, "confirmed") /\ reservations[r].status = "active"
        /\ "confirmed" \in ReservationStatus /\ "active" \in ReservationStatus
    BY DEF ConfirmReservation, ReservationStatus
  <2>2. reservations \in Seq(Reservation)
    BY <1>1 DEF TypeOK
  <2>3. /\ y \in Products /\ m \in Nat
        /\ reservations' \in Seq(Reservation) /\ Len(reservations') = Len(reservations)
        /\ \A i \in 1 .. Len(reservations) : reservations'[i].product = reservations[i].product
        /\ Total(y, "active")' = Total(y, "active") - m
        /\ Total(y, "confirmed")' = Total(y, "confirmed") + m
        /\ \A p \in Products, s \in ReservationStatus :
             p # y \/ s \notin {"active", "confirmed"} => Total(p, s)' = Total(p, s)
    BY <1>1, <2>1, <2>2, StatusMoves
  <2>. QED BY <2>1, <2>3 DEF Active, Confirmed
<1>3. /\ stock' = [stock EXCEPT ![x] = @ - q] /\ held' = [held EXCEPT ![x] = @ - q]
      /\ available' = [p \in Products |-> stock'[p] - held'[p]]
      /\ UNCHANGED <<known, overdue, posted, reposted, returnedTwice>>
  BY DEF ConfirmReservation, SetProduct, history
<1>4. x \in known
  BY <1>1 DEF NewProducts
<1>. HIDE DEF x, q
<1>5. TypeOK'
  BY <1>1, <1>2, <1>3 DEF TypeOK
<1>6. NewProducts'
  BY <1>1, <1>2, <1>3, <1>4 DEF TypeOK, NewProducts
<1>7. ASSUME NEW p \in Products PROVE AccountOf(p)'
  <2>1. AccountOf(p) /\ Active(p) \in Nat /\ Confirmed(p) \in Nat
    BY <1>1, TotalsNat DEF IInv
  <2>. QED BY <1>1, <1>2, <1>3, <2>1 DEF TypeOK, AccountOf
<1>. QED BY <1>5, <1>6, <1>7 DEF IInv

\* Releasing an active reservation takes its units from the hold and the active total.
\* Releasing an expired one leaves the active total alone and exempts the product.
LEMMA ReleaseKeeps ==
  ASSUME IInv, NEW r \in DOMAIN reservations, UNCHANGED mu, ReleaseReservation(r)
  PROVE  IInv'
<1>. DEFINE x == reservations[r].product
            q == reservations[r].quantity
            active == reservations[r].status = "active"
<1>1. TypeOK /\ NewProducts /\ r \in 1 .. Len(reservations)
  BY LenProperties DEF IInv, TypeOK
<1>2. /\ x \in Products /\ q \in Nat
      /\ reservations' \in Seq(Reservation) /\ Len(reservations') = Len(reservations)
      /\ \A i \in 1 .. Len(reservations) : reservations'[i].product = reservations[i].product
      /\ active => q <= Active(x)
      /\ \A p \in Products :
           /\ Active(p)' = IF p = x /\ active THEN Active(p) - q ELSE Active(p)
           /\ Confirmed(p)' = Confirmed(p)
  <2>. SUFFICES ASSUME NEW y, y = x, NEW m, m = q, NEW old, old = reservations[r].status
                PROVE  /\ y \in Products /\ m \in Nat
                       /\ reservations' \in Seq(Reservation)
                       /\ Len(reservations') = Len(reservations)
                       /\ \A i \in 1 .. Len(reservations) :
                            reservations'[i].product = reservations[i].product
                       /\ old = "active" => m <= Active(y)
                       /\ \A p \in Products :
                            /\ Active(p)' =
                                 IF p = y /\ old = "active" THEN Active(p) - m ELSE Active(p)
                            /\ Confirmed(p)' = Confirmed(p)
    OBVIOUS
  <2>1. reservations \in Seq(Reservation)
    BY <1>1 DEF TypeOK
  <2>2. /\ SetStatus(r, "released") /\ old \notin {"released", "confirmed"}
        /\ "released" \in ReservationStatus /\ {"active", "confirmed"} \subseteq ReservationStatus
    BY DEF ReleaseReservation, ReservationStatus
  <2>3. /\ y \in Products /\ m \in Nat
        /\ reservations' \in Seq(Reservation) /\ Len(reservations') = Len(reservations)
        /\ \A i \in 1 .. Len(reservations) : reservations'[i].product = reservations[i].product
        /\ Total(y, old) >= m
        /\ Total(y, old)' = Total(y, old) - m
        /\ \A p \in Products, s \in ReservationStatus :
             p # y \/ s \notin {old, "released"} => Total(p, s)' = Total(p, s)
    BY <1>1, <2>1, <2>2, StatusMoves
  <2>4. ASSUME NEW p \in Products
        PROVE  /\ Total(p, "active")' = IF p = y /\ old = "active" THEN Total(p, "active") - m
                                        ELSE Total(p, "active")
               /\ Total(p, "confirmed")' = Total(p, "confirmed")
    BY <2>2, <2>3
  <2>5. old = "active" => m <= Total(y, "active")
    <3>1. Total(y, "active") \in Nat
      BY <2>1, <2>2, <2>3, TotalType
    <3>. QED BY <2>3, <3>1
  <2>. QED BY <2>3, <2>4, <2>5 DEF Active, Confirmed
<1>3. /\ stock' = stock /\ held' = [held EXCEPT ![x] = AtLeastZero(@ - q)]
      /\ available' = [p \in Products |-> stock'[p] - held'[p]]
      /\ returnedTwice' = IF active THEN returnedTwice ELSE returnedTwice \cup {x}
      /\ UNCHANGED <<known, overdue, posted, reposted>>
  <2>1. reservations[r].status \in ReservationStatus
    BY <1>1, ReservationFields DEF TypeOK
  <2>2. active \/ reservations[r].status = "expired"
    BY <2>1 DEF ReleaseReservation, ReservationStatus
  <2>. QED BY <2>2 DEF ReleaseReservation, SetProduct
<1>4. x \in known
  BY <1>1 DEF NewProducts
<1>. HIDE DEF x, q, active
<1>5. TypeOK'
  BY <1>1, <1>2, <1>3, <1>4 DEF TypeOK, AtLeastZero
<1>6. NewProducts'
  BY <1>1, <1>2, <1>3, <1>4 DEF TypeOK, NewProducts
<1>7. ASSUME NEW p \in Products PROVE AccountOf(p)'
  <2>1. AccountOf(p) /\ Active(p) \in Nat /\ Confirmed(p) \in Nat
    BY <1>1, TotalsNat DEF IInv
  <2>2. CASE p # x
    BY <1>1, <1>2, <1>3, <2>1, <2>2 DEF TypeOK, AccountOf
  <2>3. CASE p = x /\ active
    BY <1>1, <1>2, <1>3, <2>1, <2>3 DEF TypeOK, AccountOf, AtLeastZero
  <2>4. CASE p = x /\ ~active
    BY <1>1, <1>2, <1>3, <2>1, <2>4 DEF TypeOK, AccountOf, AtLeastZero
  <2>. QED BY <2>2, <2>3, <2>4
<1>. QED BY <1>5, <1>6, <1>7 DEF IInv

\* The sweep takes the units of the overdue reservations from hold and active total.
LEMMA SweepKeeps ==
  ASSUME IInv, UNCHANGED mu, ExpireStale
  PROVE  IInv'
<1>. DEFINE S(p) == Stale \cap Of(p, "active")
<1>1. TypeOK /\ NewProducts
  BY DEF IInv
<1>2. /\ stock' = stock
      /\ held' = [p \in Products |-> IF S(p) = {} THEN held[p]
                                     ELSE AtLeastZero(held[p] - Weight(S(p)))]
      /\ available' = [p \in Products |-> stock'[p] - held'[p]]
      /\ UNCHANGED <<known, overdue, posted, reposted, returnedTwice>>
  BY DEF ExpireStale, SetProduct, history, Weight
<1>3. ASSUME NEW p \in Products
      PROVE  /\ reservations' \in Seq(Reservation) /\ Len(reservations') = Len(reservations)
             /\ \A i \in 1 .. Len(reservations) :
                  reservations'[i].product = reservations[i].product
             /\ Weight(S(p)) \in Nat /\ Weight(S(p)) <= Active(p)
             /\ Active(p)' = Active(p) - Weight(S(p))
             /\ Confirmed(p)' = Confirmed(p)
  <2>. SUFFICES ASSUME NEW R, R = S(p)
                PROVE  /\ reservations' \in Seq(Reservation)
                       /\ Len(reservations') = Len(reservations)
                       /\ \A i \in 1 .. Len(reservations) :
                            reservations'[i].product = reservations[i].product
                       /\ Weight(R) \in Nat /\ Weight(R) <= Active(p)
                       /\ Active(p)' = Active(p) - Weight(R)
                       /\ Confirmed(p)' = Confirmed(p)
    OBVIOUS
  <2>. QED BY <1>1, SweepExpires DEF Active, Confirmed
<1>4. \A p \in Products : S(p) = {} => Weight(S(p)) = 0
  BY UnitsOfNone DEF Weight
<1>5. Stale # {} => \E p \in Products : TRUE
  <2>1. ASSUME NEW i \in Stale PROVE reservations[i].product \in Products
    <3>1. overdue \in 0 .. Len(reservations) /\ reservations \in Seq(Reservation)
      BY <1>1 DEF TypeOK
    <3>2. i \in 1 .. Len(reservations)
      BY <3>1, LenProperties DEF Stale
    <3>. QED BY <3>1, <3>2, ReservationFields
  <2>. QED BY <2>1
<1>6. /\ reservations' \in Seq(Reservation) /\ Len(reservations') = Len(reservations)
      /\ \A i \in 1 .. Len(reservations) : reservations'[i].product = reservations[i].product
  BY <1>3, <1>5 DEF ExpireStale
<1>. HIDE DEF S
<1>7. TypeOK'
  <2>1. \A p \in Products : held'[p] \in Int
    BY <1>1, <1>2, <1>3 DEF TypeOK, AtLeastZero
  <2>2. held' \in [Products -> Int]
    BY <1>2, <2>1
  <2>. QED BY <1>1, <1>2, <1>6, <2>2 DEF TypeOK
<1>8. NewProducts'
  <2>1. ASSUME NEW p \in Products \ known PROVE held'[p] = 0
    <3>1. Active(p) = 0 /\ held[p] = 0
      BY UnknownTotals DEF IInv, NewProducts
    <3>2. Weight(S(p)) = 0
      BY <1>3, <3>1
    <3>. QED BY <1>2, <3>1, <3>2 DEF AtLeastZero
  <2>. QED BY <1>1, <1>2, <1>6, <2>1 DEF NewProducts
<1>9. ASSUME NEW p \in Products PROVE AccountOf(p)'
  <2>1. AccountOf(p) /\ Active(p) \in Nat /\ Confirmed(p) \in Nat
    BY <1>1, TotalsNat DEF IInv
  <2>2. held[p] \in Int /\ stock[p] \in Int
    BY <1>1 DEF TypeOK
  <2>3. PICK w \in Nat : /\ w <= Active(p)
                         /\ Active(p)' = Active(p) - w /\ Confirmed(p)' = Confirmed(p)
                         /\ held'[p] \in {IF w = 0 THEN held[p] ELSE AtLeastZero(held[p] - w),
                                          AtLeastZero(held[p] - w)}
    <3>1. held'[p] = IF S(p) = {} THEN held[p] ELSE AtLeastZero(held[p] - Weight(S(p)))
      BY <1>2
    <3>. QED BY <1>3, <1>4, <3>1
  <2>4. stock'[p] = stock[p] /\ posted' = posted /\ reposted' = reposted
        /\ returnedTwice' = returnedTwice
    BY <1>2
  <2>. QED BY <2>1, <2>2, <2>3, <2>4 DEF AccountOf, AtLeastZero
<1>. QED BY <1>7, <1>8, <1>9 DEF IInv

\* IInv is inductive: one step per operation.
LEMMA NextIInv == IInv /\ [Next]_vars => IInv'
<1>. SUFFICES ASSUME IInv, [Next]_vars PROVE IInv'
  OBVIOUS
<1>1. ASSUME NEW p \in Products, NEW n \in Stocks, UNCHANGED mu, AddProduct(p, n) PROVE IInv'
  BY <1>1, AddProductKeeps
<1>2. ASSUME NEW p \in Products, NEW q \in 1 .. MaxQuantity, UNCHANGED mu, Reserve(p, q) PROVE IInv'
  BY <1>2, ReserveKeeps
<1>3. ASSUME NEW r \in DOMAIN reservations, UNCHANGED mu, ConfirmReservation(r) PROVE IInv'
  BY <1>3, ConfirmKeeps
<1>4. ASSUME NEW r \in DOMAIN reservations, UNCHANGED mu, ReleaseReservation(r) PROVE IInv'
  BY <1>4, ReleaseKeeps
<1>5. ASSUME UNCHANGED mu, ExpireStale PROVE IInv'
  BY <1>5, SweepKeeps
<1>6. ASSUME TimePasses \/ StatsStops \/ UNCHANGED vars PROVE IInv'
  <2>1. UNCHANGED <<known, stock, held, available, reservations, posted, reposted, returnedTwice>>
    BY <1>6 DEF TimePasses, StatsStops, vars, product, history
  <2>2. overdue' \in 0 .. Len(reservations')
    BY <1>6, LenProperties DEF TimePasses, StatsStops, vars, product, history, IInv, TypeOK
  <2>3. mu' \in {"works", "stopped"}
    BY <1>6 DEF TimePasses, StatsStops, vars, IInv, TypeOK
  <2>4. TypeOK' /\ NewProducts'
    BY <2>1, <2>2, <2>3 DEF IInv, TypeOK, NewProducts
  <2>5. \A p \in Products : AccountOf(p)'
    BY <2>1 DEF IInv, AccountOf, Active, Confirmed, Total, Of
  <2>. QED BY <2>4, <2>5 DEF IInv
<1>. QED BY <1>1, <1>2, <1>3, <1>4, <1>5, <1>6 DEF Next, Locked, Sweep

\* IInv holds at the start.
LEMMA InitIInv == Init => IInv
<1>. SUFFICES ASSUME Init PROVE IInv
  OBVIOUS
<1>1. TypeOK /\ NewProducts
  BY EmptySeq DEF Init, TypeOK, NewProducts
<1>2. ASSUME NEW p \in Products PROVE AccountOf(p)
  <2>1. Of(p, "active") = {} /\ Of(p, "confirmed") = {}
    BY DEF Init, Of
  <2>2. Active(p) = 0 /\ Confirmed(p) = 0
    BY <2>1, UnitsOfNone DEF Active, Confirmed, Total
  <2>. QED BY <2>2 DEF Init, AccountOf
<1>. QED BY <1>1, <1>2 DEF IInv

\* IInv holds always.
LEMMA IInvInvariant == Spec => []IInv
  BY InitIInv, NextIInv, PTL DEF Spec

-----------------------------------------------------------------------------
(* The theorems. *)

\* Whatever is posted, reserved, confirmed, released and expired in whatever order,
\* Available is Stock less Reserved and the store keeps its types.
THEOREM TypeCorrect == Spec => []TypeOK
<1>1. IInv => TypeOK
  BY DEF IInv
<1>. QED BY <1>1, IInvInvariant, PTL

\* No hold outlives its reservations, and holds are exact for products that were
\* posted once and had nothing released after expiry.
THEOREM HoldsCorrect == Spec => []HeldIsActive
<1>1. IInv => HeldIsActive
  BY DEF IInv, AccountOf, HeldIsActive
<1>. QED BY <1>1, IInvInvariant, PTL

\* The stock of such a product covers all its active reservations.
THEOREM CoverCorrect == Spec => []StockCoversHolds
<1>1. IInv => StockCoversHolds
  BY DEF IInv, AccountOf, StockCoversHolds
<1>. QED BY <1>1, IInvInvariant, PTL

\* What was posted of a product posted once is in stock or confirmed.
THEOREM ConservedCorrect == Spec => []StockIsConserved
<1>1. IInv => StockIsConserved
  BY DEF IInv, AccountOf, StockIsConserved
<1>. QED BY <1>1, IInvInvariant, PTL
=============================================================================
