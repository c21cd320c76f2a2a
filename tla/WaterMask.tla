------------------------------- MODULE WaterMask -------------------------------
(***************************************************************************)
(* Where cmd/seed puts cars: a point near a city's centre that is not in   *)
(* water.  Whether the centre is in water is found by a ray cast over all  *)
(* rings; whether a point near it is, by the coastline edges between the   *)
(* two, found through a grid.                                              *)
(***************************************************************************)
EXTENDS Integers, Sequences, FiniteSetsExt

CONSTANTS
    MaskCell,    \* side of a grid cell
    MaxAttempts  \* points that are tried for one car

ASSUME MaskAssumption == MaskCell \in Nat \ {0} /\ MaxAttempts \in Nat

-----------------------------------------------------------------------------
(* A mask has land and lake rings: sets of sequences of points <<x, y>> whose *)
(* last point is the first.  An edge is <<x1, y1, x2, y2>>.                   *)

RingEdges(ring) ==
    {<<ring[i][1], ring[i][2], ring[i + 1][1], ring[i + 1][2]>> : i \in 1 .. Len(ring) - 1}

\* The edges of rings, each with the ring it belongs to.
EdgesOf(rings) == UNION {RingEdges(ring) \X {ring} : ring \in rings}

Edges(mask) == EdgesOf(mask.land \cup mask.lakes)

\* The cells of the box around two points.
Cells(x1, y1, x2, y2) ==
    (Min({x1, x2}) \div MaskCell .. Max({x1, x2}) \div MaskCell)
    \X (Min({y1, y2}) \div MaskCell .. Max({y1, y2}) \div MaskCell)

\* The ray from <<x, y>> in the direction of x meets the edge.
RayMeets(x, y, e) ==
    LET dy == e[2] - e[4]
        lhs == (x - e[3]) * dy
        rhs == (e[1] - e[3]) * (y - e[4])
    IN  /\ (e[4] > y) # (e[2] > y)
        /\ IF dy > 0 THEN lhs < rhs ELSE lhs > rhs

InsideAny(rings, x, y) ==
    Cardinality({p \in EdgesOf(rings) : RayMeets(x, y, p[1])}) % 2 = 1

InWater(mask, x, y) == ~InsideAny(mask.land, x, y) \/ InsideAny(mask.lakes, x, y)

Cross(ox, oy, tx, ty, x, y) == (tx - ox) * (y - oy) - (ty - oy) * (x - ox)

SegmentsCross(ax, ay, bx, by, e) ==
    /\ (Cross(e[1], e[2], e[3], e[4], ax, ay) > 0) # (Cross(e[1], e[2], e[3], e[4], bx, by) > 0)
    /\ (Cross(ax, ay, bx, by, e[1], e[2]) > 0) # (Cross(ax, ay, bx, by, e[3], e[4]) > 0)

\* Mutant of Crossings: an edge counts in every cell it is found in.
Crossings_EachCell(mask, cx, cy, x, y) ==
    Cardinality({p \in Cells(cx, cy, x, y) \X {edge[1] : edge \in Edges(mask)} :
                    LET e == p[2] IN
                    /\ p[1] \in Cells(e[1], e[2], e[3], e[4])
                    /\ SegmentsCross(cx, cy, x, y, e)})

\* The edges in the grid cells of the segment that cross it, each counted once.
Crossings(mask, cx, cy, x, y) ==
    Cardinality({e \in {p[1] : p \in Edges(mask)} :
                    /\ Cells(cx, cy, x, y) \cap Cells(e[1], e[2], e[3], e[4]) # {}
                    /\ SegmentsCross(cx, cy, x, y, e)})

\* The centre's answer, turned over by every crossing.
InWaterFrom(mask, cx, cy, centerInWater, x, y) ==
    IF Crossings(mask, cx, cy, x, y) % 2 = 1 THEN ~centerInWater ELSE centerInWater

NoPoint == <<>>

\* samplePoint: the first of the points tried that is dry, else a dry centre.
SamplePoint(mask, center, points) ==
    LET inWater == InWater(mask, center[1], center[2])
        dry     == {i \in 1 .. MaxAttempts :
                      ~InWaterFrom(mask, center[1], center[2], inWater, points[i][1], points[i][2])}
    IN  IF dry # {} THEN points[Min(dry)]
        ELSE IF inWater THEN NoPoint ELSE center

-----------------------------------------------------------------------------
(* Reference *)

\* The point lies on an edge, where inside and outside are a matter of taste.
OnShore(mask, x, y) ==
    \E p \in Edges(mask) :
        LET e == p[1] IN
        /\ Cross(e[1], e[2], e[3], e[4], x, y) = 0
        /\ Min({e[1], e[3]}) <= x /\ x <= Max({e[1], e[3]})
        /\ Min({e[2], e[4]}) <= y /\ y <= Max({e[2], e[4]})
=============================================================================
