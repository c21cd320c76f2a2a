---------------------------- MODULE BookingLedger ----------------------------
(***************************************************************************)
(* What the store promises its callers about cars.reservations: a ledger   *)
(* in which a booking appears in one step, with the lapsed holds it takes  *)
(* the place of disappearing in that same step, and in which a booking     *)
(* once made only ever turns from a hold into a rental, or is cancelled.   *)
(* There are no locks, no transactions and no statements here.             *)
(***************************************************************************)
EXTENDS Naturals

CONSTANTS ResIds, NoKey, HoldTTL

VARIABLES clock, book

NoBooking == [status |-> "absent"]

Instants(row) == row.start .. row.end - 1

Init ==
    /\ clock = 0
    /\ book = [r \in ResIds |-> NoBooking]

\* A hold on car c whose time is up.
LapsedHold(s, c) ==
    /\ book[s].status = "confirmed" /\ book[s].car = c
    /\ book[s].kind = "rental_hold" /\ book[s].exp <= clock

\* The new row r may share an instant of the car with no other booking that
\* stays, nor its key with any row that stays.
Admissible(r, row, gone) ==
    /\ row.created <= clock
    /\ row.kind = "rental_hold" => row.exp = row.created + HoldTTL
    /\ \A s \in ResIds \ gone :
         /\ book[s].status = "confirmed" /\ book[s].car = row.car
              => \A t \in Instants(row) : t \notin Instants(book[s])
         /\ book[s].status \in {"confirmed", "cancelled"} /\ row.key # NoKey
              => ~(book[s].booker = row.booker /\ book[s].key = row.key)

Book(r) == \E gone \in SUBSET ResIds :
    /\ book[r].status = "absent" /\ book'[r].status = "confirmed"
    /\ \A s \in gone : LapsedHold(s, book'[r].car)
    /\ Admissible(r, book'[r], gone)
    /\ book' = [s \in ResIds |->
                  IF s = r THEN book'[r]
                  ELSE IF s \in gone THEN [book[s] EXCEPT !.status = "reaped"]
                  ELSE book[s]]
    /\ UNCHANGED clock

Confirm(r) ==
    /\ book[r].status = "confirmed" /\ book[r].kind = "rental_hold"
    /\ book' = [book EXCEPT ![r] = [@ EXCEPT !.kind = "rental", !.exp = 0]]
    /\ UNCHANGED clock

Cancel(r) ==
    /\ book[r].status = "confirmed"
    /\ book' = [book EXCEPT ![r] = [@ EXCEPT !.status = "cancelled"]]
    /\ UNCHANGED clock

Tick == clock' = clock + 1 /\ UNCHANGED book

Next == Tick \/ \E r \in ResIds : Book(r) \/ Confirm(r) \/ Cancel(r)

Spec == Init /\ [][Next]_<<clock, book>>
=============================================================================
