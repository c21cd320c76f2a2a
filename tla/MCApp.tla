--------------------------------- MODULE MCApp ---------------------------------
(* One person at two browsers, a client of the API, and the car's owner. *)
EXTENDS App, TLC

CONSTANTS ann, script, k1

MCPersonOf == [b \in Browsers |-> ann]

MCTrip == [start |-> 2, end |-> 4, price |-> 2]

MCSchedule == [start |-> 3, end |-> 4]

MCOffers ==
    {[rate |-> 1, listed |-> TRUE, scheduled |-> FALSE],
     [rate |-> 1, listed |-> TRUE, scheduled |-> TRUE],
     [rate |-> 2, listed |-> TRUE, scheduled |-> FALSE],
     [rate |-> 1, listed |-> FALSE, scheduled |-> FALSE]}

\* A rental and an owner block, both of which overlap the trip, and a block that
\* is not the owner's.
MCScriptOrders ==
    {[booker |-> script, kind |-> "rental", start |-> 3, end |-> 5, maxPrice |-> 2, key |-> k1],
     [booker |-> Owner, kind |-> "owner", start |-> 1, end |-> 3, maxPrice |-> 0, key |-> NoKey],
     [booker |-> script, kind |-> "owner", start |-> 1, end |-> 3, maxPrice |-> 0, key |-> NoKey]}

Symmetry == Permutations(Calls)
=============================================================================
