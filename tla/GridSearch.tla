------------------------------ MODULE GridSearch ------------------------------
(***************************************************************************)
(* The search over a fleet: the walk over the grid of cells               *)
(* (internal/fleet/fleet.go), the paging of the handler, and the price     *)
(* search in SQL (internal/store/store.go).                                *)
(*                                                                         *)
(* Degrees are integers and the cosine of the latitude is CosNum / CosDen. *)
(* Distances are squared and scaled by CosDen, which keeps them integers   *)
(* and in their order.                                                     *)
(***************************************************************************)
EXTENDS Integers, SequencesExt

CONSTANTS
    CellSize,              \* cellDegrees
    CosNum, CosDen,        \* the cosine of the latitude searched at
    PageSize, MaxPages,    \* cars of a page, pages of a search
    PriceCandidateFactor   \* cars the price search ranks per car it returns

ASSUME SearchAssumption ==
    /\ CellSize \in Nat \ {0} /\ PageSize \in Nat \ {0} /\ MaxPages \in Nat \ {0}
    /\ CosNum \in Nat \ {0} /\ CosDen \in Nat /\ CosNum <= CosDen
    /\ PriceCandidateFactor \in Nat \ {0}

-----------------------------------------------------------------------------
(* A car is a record of id, lat, lng, price and free (whether it is available *)
(* for the window).  A query has lat, lng, range, sort and page.              *)

Square(n) == n * n

Distance(q, lat, lng) == Square(CosDen * (lat - q.lat)) + Square(CosNum * (lng - q.lng))

RangeOf(q) == Square(CosDen * q.range)

CarDistance(q, c) == Distance(q, c.lat, c.lng)

CellOf(lat, lng) == <<lat \div CellSize, lng \div CellSize>>

\* How far value is outside low .. high.
AxisGap(value, low, high) ==
    IF value < low THEN low - value ELSE IF value > high THEN value - high ELSE 0

\* The distance of the nearest point of the cell <<y, x>>.
MinDist(q, cell) ==
    LET y == cell[1] * CellSize
        x == cell[2] * CellSize
    IN  Square(CosDen * AxisGap(q.lat, y, y + CellSize))
        + Square(CosNum * AxisGap(q.lng, x, x + CellSize))

\* The cells with cars that the circle touches.  The span of columns grows with
\* the inverse of the cosine.
SearchCells(q, cars) ==
    LET rows    == (q.lat - q.range) \div CellSize .. (q.lat + q.range) \div CellSize
        span    == q.range * CosDen
        columns == (q.lng * CosNum - span) \div (CellSize * CosNum)
                   .. (q.lng * CosNum + span) \div (CellSize * CosNum)
    IN  {cell \in {CellOf(c.lat, c.lng) : c \in cars} :
            cell[1] \in rows /\ cell[2] \in columns /\ MinDist(q, cell) <= RangeOf(q)}

\* Any order that sorting by minDist can leave the cells in.
CellOrders(q, cars) ==
    {o \in SetToSeqs(SearchCells(q, cars)) :
        \A i, j \in DOMAIN o : i < j => MinDist(q, o[i]) <= MinDist(q, o[j])}

ByDistance(q, a, b) ==
    LET da == CarDistance(q, a)
        db == CarDistance(q, b)
    IN  da < db \/ (da = db /\ (a.price < b.price \/ (a.price = b.price /\ a.id < b.id)))

ByPrice(q, a, b) ==
    LET da == CarDistance(q, a)
        db == CarDistance(q, b)
    IN  a.price < b.price \/ (a.price = b.price /\ (da < db \/ (da = db /\ a.id < b.id)))

Before(q, a, b) == IF q.sort = "price" THEN ByPrice(q, a, b) ELSE ByDistance(q, a, b)

\* How many of the cars come before c.
Rank(q, cars, c) == Cardinality({d \in cars : Before(q, d, c)})

Sorted(q, cars) ==
    [i \in 1 .. Cardinality(cars) |-> CHOOSE c \in cars : Rank(q, cars, c) = i - 1]

Need(q) == PageSize + q.page * PageSize

PageOf(q, results) == SubSeq(results, q.page * PageSize + 1, Min({Need(q), Len(results)}))

-----------------------------------------------------------------------------
(* fleet.go: Availability and AvailabilityCount *)

InRange(q, cars) == {c \in cars : CarDistance(q, c) <= RangeOf(q)}

Matches(q, cars) == {c \in InRange(q, cars) : c.free}

\* Mutant of Enough: stops at a cell that may hold a car as near as the last.
Enough_NotStrict(q, found, cell) ==
    /\ q.sort = "distance" /\ Cardinality(found) >= Need(q)
    /\ MinDist(q, cell) >= CarDistance(q, Sorted(q, found)[Need(q)])

\* The page is full and no car of the cell, nor of any later one, can get into it.
Enough(q, found, cell) ==
    /\ q.sort = "distance" /\ Cardinality(found) >= Need(q)
    /\ MinDist(q, cell) > CarDistance(q, Sorted(q, found)[Need(q)])

\* What the cells before the n-th hold.
Found(q, cars, order, n) ==
    Matches(q, {c \in cars : \E i \in 1 .. n - 1 : CellOf(c.lat, c.lng) = order[i]})

\* The cell at which a walk over them in this order stops, or the end of it.
Stop(q, cars, order) ==
    Min({n \in DOMAIN order : Enough(q, Found(q, cars, order, n), order[n])} \cup {Len(order) + 1})

\* Availability, walking the cells in this order.
Availability(q, cars, order) ==
    PageOf(q, Sorted(q, Found(q, cars, order, Stop(q, cars, order))))

CountCap == PageSize * MaxPages + 1

AvailabilityCount(q, cars) ==
    LET cells == SearchCells(q, cars)
    IN  Min({CountCap, Cardinality(Matches(q, {c \in cars : CellOf(c.lat, c.lng) \in cells}))})

\* Mutant of Answer: the count is not cut back to what the pager can reach.
Answer_Uncut(q, cars, order) ==
    LET results == Availability(q, cars, order)
        counted == AvailabilityCount(q, cars)
    IN  IF Len(results) < PageSize
        THEN [cars |-> results, total |-> q.page * PageSize + Len(results), capped |-> FALSE]
        ELSE [cars |-> results, total |-> counted, capped |-> counted >= CountCap]

\* handleAvailability: a short page tells the total, a full one needs a count.
Answer(q, cars, order) ==
    LET results == Availability(q, cars, order)
        counted == AvailabilityCount(q, cars)
    IN  IF Len(results) < PageSize
        THEN [cars |-> results, total |-> q.page * PageSize + Len(results), capped |-> FALSE]
        ELSE [cars |-> results, total |-> Min({counted, CountCap - 1}),
              capped |-> counted >= CountCap]

-----------------------------------------------------------------------------
(* store.go: the price search *)

\* location <@ circle(point, radius / cos): a circle in degrees.
InPaddedCircle(q, c) ==
    Square(CosNum) * (Square(c.lat - q.lat) + Square(c.lng - q.lng)) <= Square(CosDen * q.range)

\* Cars of the circle, free or not.
Circle(q, cars) == {c \in InRange(q, cars) : InPaddedCircle(q, c)}

\* Mutant of PriceCandidates: ranked nearest first.
PriceCandidates_Nearest(q, cars) ==
    {c \in Circle(q, cars) :
        Rank([q EXCEPT !.sort = "distance"], Circle(q, cars), c) < Need(q) * PriceCandidateFactor}

\* The first of them, for a query sorted by price.
PriceCandidates(q, cars) ==
    {c \in Circle(q, cars) : Rank(q, Circle(q, cars), c) < Need(q) * PriceCandidateFactor}

SqlPricePage(q, cars) == PageOf(q, Sorted(q, {c \in PriceCandidates(q, cars) : c.free}))

-----------------------------------------------------------------------------
(* Reference *)

\* The page of a scan of the whole fleet.
ScanPage(q, cars) == PageOf(q, Sorted(q, Matches(q, cars)))
=============================================================================
