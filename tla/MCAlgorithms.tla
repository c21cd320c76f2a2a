----------------------------- MODULE MCAlgorithms -----------------------------
(* Small inputs for Algorithms. *)
EXTENDS Algorithms

\* Cells and distances that tie: the search is at <<1, 1>>, a cell is 2 by 2, a
\* degree of longitude counts half.
Spots == {<<1, 1>>, <<2, 1>>, <<0, 1>>, <<1, 3>>, <<1, -1>>, <<2, 5>>}

Offers == {<<1, TRUE>>, <<2, TRUE>>, <<1, FALSE>>}

Car(id, spot, offer) == [id |-> id, lat |-> spot[1], lng |-> spot[2],
                         price |-> offer[1], free |-> offer[2]]

MCFleets == {{Car(i, spot[i], offer[i]) : i \in 1 .. 3} : spot \in [1 .. 3 -> Spots], offer \in [1 .. 3 -> Offers]}

MCQueries == [lat : {1}, lng : {1}, range : {1, 2}, sort : {"distance", "price"}, page : 0 .. 1]

MCMonthDays == <<4, 3, 5>>

Summers == {<<MonthStart[MonthsOfYear * y + 1] * DayLen + 1, MonthStart[MonthsOfYear * y + 2] * DayLen + 2>>
            : y \in 0 .. Years - 1}

Zones == {[offset |-> -2, summers |-> Summers], [offset |-> 0, summers |-> Summers],
          [offset |-> 2, summers |-> Summers]}

YearLen == MonthStart[MonthsOfYear] * DayLen

MCSchedules ==
    {[zone |-> z, start |-> s, end |-> s + d, period |-> p] :
        z \in Zones, s \in YearLen .. 2 * YearLen, d \in {1, 5}, p \in {"weekly", "monthly", "yearly"}}
    \cup
    {[zone |-> z, start |-> s, end |-> s + Floor(p) - 1, period |-> p] :
        z \in Zones, s \in YearLen .. 2 * YearLen, p \in {"weekly", "monthly", "yearly"}}

MCWindowStarts == YearLen - 5 .. 3 * YearLen

\* An L-shaped land with a lake in it, and an island with a shore in common
\* with the grid of cells.
MCMasks ==
    {[land  |-> {<< <<0, 0>>, <<6, 0>>, <<6, 3>>, <<4, 3>>, <<4, 6>>, <<0, 6>>, <<0, 0>> >>,
                 << <<5, 5>>, <<6, 4>>, <<7, 6>>, <<5, 5>> >>},
      lakes |-> {<< <<1, 1>>, <<3, 2>>, <<2, 4>>, <<1, 1>> >>}]}

MCPlaces == (-1 .. 7) \X (-1 .. 7)
=============================================================================
