------------------------------- MODULE TripPrice -------------------------------
(***************************************************************************)
(* The price of a trip, computed in three places: the fleet quotes it, the *)
(* insert of OrderCar charges it, and the classification of a refused      *)
(* order computes it again.  Rates are cents per hour, durations minutes.  *)
(***************************************************************************)
EXTENDS Integers

\* Sixtieths of a cent.
Exact(rate, minutes) == rate * minutes

\* Mutant of RoundHalfUp: cents are cut off.
RoundHalfUp_Cut(sixtieths) == sixtieths \div 60

\* Go's math.Round of a price, and int(x + 0.5).
RoundHalfUp(sixtieths) == (sixtieths + 30) \div 60

\* PostgreSQL's round of a float8.
RoundHalfEven(sixtieths) ==
    LET cents == sixtieths \div 60
        rest  == sixtieths % 60
    IN  IF rest < 30 \/ (rest = 30 /\ cents % 2 = 0) THEN cents ELSE cents + 1

\* fleet.go, memstore.go: what a search shows and the booking sheet sends.
Quote(rate, minutes) == RoundHalfUp(Exact(rate, minutes))

\* store.go: what OrderCar charges, and compares with the agreed price.
Charge(rate, minutes) == RoundHalfEven(Exact(rate, minutes))

\* classifyRejectedOrder: the price it compares with the agreed one.
ClassifiedPrice(rate, minutes) == (Exact(rate, minutes) + 30) \div 60

\* OrderCar at this rate, for a price agreed before; scheduled says whether the
\* owner's schedule is in the way.
OrderAnswer(rate, minutes, agreed, scheduled) ==
    IF Charge(rate, minutes) <= agreed /\ ~scheduled THEN "booked"
    ELSE IF ClassifiedPrice(rate, minutes) > agreed THEN "price_changed"
    ELSE "owner_schedule_conflict"
=============================================================================
