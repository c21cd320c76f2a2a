------------------------------ MODULE MCBooking ------------------------------
(* Small instances of Booking. *)
EXTENDS BookingClaims, TLC

CONSTANTS car1, car2, olga, ann, bob, k1

request(c, booker, kind, start, end, max, key) ==
    [car |-> c, booker |-> booker, kind |-> kind, start |-> start,
     end |-> end, maxPrice |-> max, key |-> key]

MCOwner == [c \in Cars |-> olga]

MCCars == [c \in Cars |-> [state |-> "listed", rate |-> 1]]

\* One car.  Ann's hold and her retry with the same key, and Bob's overlapping
\* rental.
MCOrders ==
    {request(car1, ann, "rental_hold", 2, 4, 2, k1),
     request(car1, bob, "rental", 3, 5, 2, NoKey)}

MCLiveOrders ==
    {request(car1, ann, "rental_hold", 2, 4, 2, k1),
     request(car2, ann, "rental", 2, 4, 2, k1)}

\* Ann tries either car under one key, Olga blocks the first one and Bob may not.
MCOpsOrders ==
    {request(car1, ann, "rental", 2, 4, 2, k1),
     request(car2, ann, "rental_hold", 2, 4, 4, k1),
     request(car1, olga, "owner", 2, 3, 0, NoKey),
     request(car1, bob, "owner", 2, 3, 0, NoKey)}

\* The second car is listed while the others run.
MCOneCar == [c \in Cars |-> [state |-> IF c = car1 THEN "listed" ELSE "absent",
                             rate |-> 1]]

MCRaw == {request(car1, bob, "rental", 3, 5, 2, NoKey)}

NoRaw == {}

MCSpans == {[start |-> 1, end |-> 3]}

Symmetry == Permutations(Orderers) \cup Permutations(ResIds)
                \cup Permutations(Updaters)
=============================================================================
