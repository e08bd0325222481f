----------------------------- MODULE Inventory ------------------------------
(***************************************************************************)
(* inventory-service: products with stock and holds, reservations that are *)
(* confirmed, released, or expired by the sweep of expireLoop.  Every      *)
(* operation is one critical section of InventoryStore.mu, so it is one    *)
(* action; the interleavings that matter are those of clients, of retried  *)
(* calls, and of the sweep with the clock.  Module InventoryLocks has the  *)
(* lock itself; of what it shows, that a call of Stats may leave everyone  *)
(* waiting for ever, this module keeps the fact that it has happened.      *)
(*                                                                         *)
(* A reservation is named by its place in the order of creation.  All of   *)
(* them get the same time to live, so they fall overdue in that order and  *)
(* the clock is the number of reservations whose ExpiresAt has passed.     *)
(***************************************************************************)
EXTENDS Integers, Sequences, FiniteSets

CONSTANTS
  Products,         \* product ids
  Stocks,           \* bound: the stocks a product is posted with
  MaxQuantity,      \* bound: the quantity of one reservation
  MaxReservations   \* bound: reservations made

ASSUME InventoryAssumption ==
  Stocks \subseteq Nat /\ MaxQuantity \in Nat /\ MaxReservations \in Nat

VARIABLES
  known,         \* the ids in InventoryStore.products
  stock,         \* Product.Stock
  held,          \* Product.Reserved
  available,     \* Product.Available
  reservations,  \* InventoryStore.reservations, in the order of creation
  overdue,       \* reservations 1 .. overdue have an ExpiresAt in the past
  mu,            \* whether Stats and a writer wait for one another on the lock
  posted,        \* history: the stock each product was last posted with
  reposted,      \* history: products posted again while they existed
  returnedTwice  \* history: products of a reservation released after it expired

product == <<known, stock, held, available>>
history == <<posted, reposted, returnedTwice>>
vars == <<product, reservations, overdue, mu, history>>

ReservationStatus == {"active", "confirmed", "released", "expired"}
Reservation ==
  [product : Products, quantity : 1 .. MaxQuantity, status : ReservationStatus]

Init ==
  /\ known = {}
  /\ stock = [p \in Products |-> 0]
  /\ held = [p \in Products |-> 0]
  /\ available = [p \in Products |-> 0]
  /\ reservations = <<>>
  /\ overdue = 0
  /\ mu = "works"
  /\ posted = [p \in Products |-> 0]
  /\ reposted = {}
  /\ returnedTwice = {}

\* Reservations of p that stand in the given status.
Of(p, s) ==
  {r \in DOMAIN reservations : reservations[r].product = p /\ reservations[r].status = s}

\* The units a set of reservations speaks of, each unit an element, so that the sum
\* of their quantities is a cardinality.
UnitsOf(res, R) == UNION {{r} \X (1 .. res[r].quantity) : r \in R}
Total(p, s) == Cardinality(UnitsOf(reservations, Of(p, s)))
Active(p) == Total(p, "active")
Confirmed(p) == Total(p, "confirmed")

-----------------------------------------------------------------------------
(* The operations of InventoryStore. *)

\* Mutant: Available is computed before Stock and Reserved have changed.
SetProductTooEarly(newStock, newHeld) ==
  /\ stock' = newStock
  /\ held' = newHeld
  /\ available' = [p \in Products |-> stock[p] - held[p]]

\* Product.Stock and Reserved change together, Available is what they leave.
SetProduct(newStock, newHeld) ==
  /\ stock' = newStock
  /\ held' = newHeld
  /\ available' = [p \in Products |-> newStock[p] - newHeld[p]]

SetStatus(r, s) == reservations' = [reservations EXCEPT ![r].status = s]

AtLeastZero(n) == IF n < 0 THEN 0 ELSE n

\* A posted product replaces the one of the same id, with its holds. The JSON body
\* may also carry a "reserved" count; clients leave it out, as in the README.
AddProduct(p, n) ==
  /\ known' = known \cup {p}
  /\ SetProduct([stock EXCEPT ![p] = n], [held EXCEPT ![p] = 0])
  /\ posted' = [posted EXCEPT ![p] = n]
  /\ reposted' = IF p \in known THEN reposted \cup {p} ELSE reposted
  /\ UNCHANGED <<reservations, overdue, returnedTwice>>

\* Mutant: one unit more than is available may be reserved.
ReserveOneTooMany(p, q) ==
  /\ Len(reservations) < MaxReservations
  /\ p \in known
  /\ available[p] >= q - 1
  /\ SetProduct(stock, [held EXCEPT ![p] = @ + q])
  /\ reservations' = Append(reservations,
                            [product |-> p, quantity |-> q, status |-> "active"])
  /\ UNCHANGED <<known, overdue, history>>

Reserve(p, q) ==
  /\ Len(reservations) < MaxReservations
  /\ p \in known
  /\ available[p] >= q
  /\ SetProduct(stock, [held EXCEPT ![p] = @ + q])
  /\ reservations' = Append(reservations,
                            [product |-> p, quantity |-> q, status |-> "active"])
  /\ UNCHANGED <<known, overdue, history>>

\* Mutant: only the hold is given up, the stock stays as it was.
ConfirmKeepsStock(r) ==
  LET res == reservations[r]
  IN  /\ res.status = "active"
      /\ SetProduct(stock, [held EXCEPT ![res.product] = @ - res.quantity])
      /\ SetStatus(r, "confirmed")
      /\ UNCHANGED <<known, overdue, history>>

\* The units leave the stock for good. ExpiresAt is not looked at, and Reserved is
\* not kept from falling below zero.
ConfirmReservation(r) ==
  LET res == reservations[r]
  IN  /\ res.status = "active"
      /\ SetProduct([stock EXCEPT ![res.product] = @ - res.quantity],
                    [held EXCEPT ![res.product] = @ - res.quantity])
      /\ SetStatus(r, "confirmed")
      /\ UNCHANGED <<known, overdue, history>>

\* Only a released or confirmed reservation is left alone: one that has expired
\* gives its units back again.
ReleaseReservation(r) ==
  LET res == reservations[r]
  IN  /\ res.status \notin {"released", "confirmed"}
      /\ SetProduct(stock, [held EXCEPT ![res.product] = AtLeastZero(@ - res.quantity)])
      /\ SetStatus(r, "released")
      /\ returnedTwice' = IF res.status = "expired"
                            THEN returnedTwice \cup {res.product} ELSE returnedTwice
      /\ UNCHANGED <<known, overdue, posted, reposted>>

\* Mutant: the reservation that fell overdue last is missed.
StaleButLast == {r \in 1 .. overdue - 1 : reservations[r].status = "active"}

\* Active reservations whose ExpiresAt lies before now.
Stale == {r \in 1 .. overdue : reservations[r].status = "active"}

\* Mutant: the sweep marks reservations expired and leaves the product alone.
ExpireStaleKeepsHeld ==
  /\ Stale # {}
  /\ reservations' = [r \in DOMAIN reservations |->
       IF r \in Stale THEN [reservations[r] EXCEPT !.status = "expired"]
                      ELSE reservations[r]]
  /\ UNCHANGED <<product, overdue, history>>

\* One sweep of expireLoop. The loop takes the reservations in any order and keeps
\* Reserved from falling below zero each time, which leaves the same count.
ExpireStale ==
  /\ Stale # {}
  /\ reservations' = [r \in DOMAIN reservations |->
       IF r \in Stale THEN [reservations[r] EXCEPT !.status = "expired"]
                      ELSE reservations[r]]
  /\ SetProduct(stock,
       [p \in Products |->
          LET R == Stale \cap Of(p, "active")
          IN  IF R = {} THEN held[p]
              ELSE AtLeastZero(held[p] - Cardinality(UnitsOf(reservations, R)))])
  /\ UNCHANGED <<known, overdue, history>>

\* Fifteen minutes have passed since the oldest reservation not overdue was made.
TimePasses ==
  /\ overdue < Len(reservations)
  /\ overdue' = overdue + 1
  /\ UNCHANGED <<product, reservations, mu, history>>

\* Stats reads under RLock and has LowStockProducts take it again; a writer that calls
\* Lock in between, as the sweep may, waits for the first and is waited for by the second.
StatsStops ==
  /\ mu = "works"
  /\ mu' = "stopped"
  /\ UNCHANGED <<product, reservations, overdue, history>>

\* The critical section is entered only while mu can still be had.
Locked == mu = "works" /\ UNCHANGED mu

Sweep == Locked /\ ExpireStale

Next ==
  \/ \E p \in Products, n \in Stocks : Locked /\ AddProduct(p, n)
  \/ \E p \in Products, q \in 1 .. MaxQuantity : Locked /\ Reserve(p, q)
  \/ \E r \in DOMAIN reservations :
       Locked /\ (ConfirmReservation(r) \/ ReleaseReservation(r))
  \/ Sweep
  \/ TimePasses
  \/ StatsStops

\* The clock goes on, and as long as mu can be had the ticker of expireLoop has the
\* sweep run every thirty seconds.
Spec == Init /\ [][Next]_vars /\ WF_vars(TimePasses) /\ WF_vars(Sweep)

-----------------------------------------------------------------------------
(* What must hold. *)

\* The store holds what its Go types say, and Available is Stock less Reserved.
TypeOK ==
  /\ known \subseteq Products
  /\ stock \in [Products -> Int]
  /\ held \in [Products -> Int]
  /\ available = [p \in Products |-> stock[p] - held[p]]
  /\ reservations \in Seq(Reservation)
  /\ overdue \in 0 .. Len(reservations)
  /\ mu \in {"works", "stopped"}
  /\ posted \in [Products -> Stocks \cup {0}]
  /\ reposted \subseteq known
  /\ returnedTwice \subseteq known

\* Nothing is held without an active reservation that accounts for it, whatever is
\* released late or posted again, so no stock stays locked; and each product's hold is
\* the sum of its active reservations, unless the product was itself posted again or
\* had a reservation released after expiry.
HeldIsActive ==
  /\ \A p \in Products : held[p] <= Active(p)
  /\ \A p \in Products \ (reposted \cup returnedTwice) : held[p] = Active(p)

\* Whoever holds an active reservation can confirm it: the stock covers them all,
\* with the same exceptions.
StockCoversHolds ==
  \A p \in Products \ (reposted \cup returnedTwice) : Active(p) <= stock[p]

\* Units leave the stock only by confirmation: stock and confirmed reservations
\* add up to what was posted.
StockIsConserved ==
  \A p \in Products \ reposted : stock[p] + Confirmed(p) = posted[p]

\* README: no permanently locked stock from abandoned orders, unless the store stops:
\* whatever clients do, an active reservation does not stay active for ever while the
\* sweep can get the lock.
AbandonedHoldsEnd ==
  \A r \in 1 .. MaxReservations :
    LET abandoned == r \in DOMAIN reservations /\ reservations[r].status = "active"
    IN  abandoned ~> (~abandoned \/ mu = "stopped")
=============================================================================
