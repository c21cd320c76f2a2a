------------------------------ MODULE DataStore ------------------------------
(***************************************************************************)
(* store.DataStore, the interface the HTTP handlers book through, one call *)
(* a step, in its two implementations: the in-memory store of the tests,   *)
(* where a mutex makes it so, and the Postgres store, whose statements     *)
(* Booking takes apart.  Both keep the promises of BookingLedger.          *)
(* Accounts and sessions are those of Identity.                            *)
(***************************************************************************)
EXTENDS Identity

CONSTANTS
    Car,          \* the car
    Owner,        \* the account that owns it
    MaxRes,       \* bound on the reservations
    NoRes, NoKey, \* no reservation, the empty idempotency key
    HoldTTL, CancelLead, BookGrace, PastGrace,
    Offers,       \* what the owner can have made of the car: rate, listed, scheduled
    Schedule      \* an occurrence of the owner's schedule

ResIds == 1 .. MaxRes

ASSUME StoreAssumption ==
    /\ MaxRes \in Nat /\ NoRes \notin ResIds
    /\ Offers \subseteq [rate : Nat, listed : BOOLEAN, scheduled : BOOLEAN]
    /\ HoldTTL \in Nat /\ CancelLead \in Nat /\ BookGrace \in Nat /\ PastGrace \in Nat
    /\ Schedule.start < Schedule.end

VARIABLES
    offer,       \* the car's price and listing, and whether its schedule is active
    resv,        \* reservations; "reaped" rows are deleted
    superseded   \* history: lapsed holds that memory has booked over

storeVars == <<offer, resv, superseded>>

NoRow == [status |-> "absent"]

StoreInit ==
    /\ offer \in Offers
    /\ resv = [r \in ResIds |-> NoRow]
    /\ superseded = {}

Overlaps(a, b) == a.start < b.end /\ b.start < a.end

Confirmed(r) == resv[r].status = "confirmed"

\* Mutant of Lapsed: a hold is taken for lapsed while it has an instant left.
Lapsed_Early(r) == Confirmed(r) /\ resv[r].kind = "rental_hold" /\ resv[r].exp <= clock + 1

\* A hold whose time is up: hold_expires_at <= now(), HoldExpiresAt.Before(now).
Lapsed(r) ==
    /\ Confirmed(r) /\ resv[r].kind = "rental_hold"
    /\ IF backend = "postgres" THEN resv[r].exp <= clock ELSE resv[r].exp < clock

\* reservationByIdempotencyKey, and memory's map from keys to reservations:
\* whatever the status of the row.
ByKey(o) ==
    {r \in ResIds : /\ o.key # NoKey /\ resv[r].status \in {"confirmed", "cancelled"}
                    /\ resv[r].booker = o.booker /\ resv[r].key = o.key}

\* Mutant of InTheWay: nobody's bookings are in their own way.
InTheWay_Others(o) ==
    {r \in ResIds : Confirmed(r) /\ ~Lapsed(r) /\ Overlaps(resv[r], o) /\ resv[r].booker # o.booker}

\* The bookings an order conflicts with.
InTheWay(o) == {r \in ResIds : Confirmed(r) /\ ~Lapsed(r) /\ Overlaps(resv[r], o)}

TripPrice(o) == offer.rate * (o.end - o.start)

\* Why a customer may not have the car at all.
Unfit(o) ==
    IF ~offer.listed THEN "car_not_bookable"
    ELSE IF TripPrice(o) > o.maxPrice THEN "price_changed"
    ELSE IF offer.scheduled /\ Overlaps(Schedule, o) THEN "owner_schedule_conflict"
    ELSE "none"

\* The in-memory store looks at the car before the reservations ...
MemRefusal(o) ==
    IF o.kind = "owner" /\ o.booker # Owner THEN "not_found"
    ELSE IF o.kind # "owner" /\ Unfit(o) # "none" THEN Unfit(o)
    ELSE IF InTheWay(o) # {} THEN "conflict"
    ELSE "none"

\* ... and the Postgres store, by the precheck, at the reservations first.
PgRefusal(o) ==
    IF o.kind = "owner" /\ o.booker # Owner THEN "not_found"
    ELSE IF InTheWay(o) # {} THEN "conflict"
    ELSE IF o.kind # "owner" THEN Unfit(o)
    ELSE "none"

Refusal(o) == IF backend = "postgres" THEN PgRefusal(o) ELSE MemRefusal(o)

NewRow(o) ==
    [status |-> "confirmed", car |-> Car, booker |-> o.booker, kind |-> o.kind,
     start |-> o.start, end |-> o.end, key |-> o.key, created |-> clock,
     exp |-> IF o.kind = "rental_hold" THEN clock + HoldTTL ELSE 0]

NextRes == Cardinality({r \in ResIds : resv[r] # NoRow}) + 1

OrderCode(o) == IF ByKey(o) # {} \/ Refusal(o) = "none" THEN "ok" ELSE Refusal(o)

\* OrderCar, which answers OrderCode(o) and, if that is "ok", the reservation r.
\* Postgres deletes the lapsed holds of the car, memory only no longer minds them.
OrderCar(o, r) ==
    \/ r \in ByKey(o) /\ UNCHANGED <<resv, superseded>>
    \/ ByKey(o) = {} /\ Refusal(o) # "none" /\ r = NoRes /\ UNCHANGED <<resv, superseded>>
    \/ /\ ByKey(o) = {} /\ Refusal(o) = "none" /\ r = NextRes /\ r \in ResIds
       /\ resv' = [s \in ResIds |->
                     IF s = r THEN NewRow(o)
                     ELSE IF backend = "postgres" /\ Lapsed(s) THEN [resv[s] EXCEPT !.status = "reaped"]
                     ELSE resv[s]]
       /\ superseded' = IF backend = "postgres" THEN {}
                        ELSE superseded \cup {s \in ResIds : Lapsed(s) /\ Overlaps(resv[s], o)}

\* Mutant of Confirmable: the expiry is not looked at.
Confirmable_Lapsed(r, user) ==
    Confirmed(r) /\ resv[r].booker = user /\ resv[r].kind = "rental_hold"

Confirmable(r, user) ==
    /\ Confirmed(r) /\ resv[r].booker = user /\ resv[r].kind = "rental_hold"
    /\ IF backend = "postgres" THEN resv[r].exp > clock ELSE resv[r].exp >= clock

ConfirmCode(r, user) == IF Confirmable(r, user) THEN "ok" ELSE "not_found"

ConfirmHold(r, user) ==
    /\ resv' = IF Confirmable(r, user) THEN [resv EXCEPT ![r] = [@ EXCEPT !.kind = "rental", !.exp = 0]]
               ELSE resv
    /\ UNCHANGED superseded

InTime(r) ==
    \/ resv[r].kind = "rental_hold" \/ resv[r].start > clock + CancelLead
    \/ resv[r].created + BookGrace > clock /\ resv[r].start > clock

CancelCode(r, user) ==
    IF ~Confirmed(r) \/ resv[r].booker # user THEN "not_found"
    ELSE IF InTime(r) THEN "ok" ELSE "too_late_to_cancel"

CancelReservation(r, user) ==
    /\ resv' = IF CancelCode(r, user) = "ok" THEN [resv EXCEPT ![r] = [@ EXCEPT !.status = "cancelled"]]
               ELSE resv
    /\ UNCHANGED superseded

-----------------------------------------------------------------------------

\* The reservations that stand: a lapsed hold that was booked over is gone, whether
\* or not its row is.
Standing ==
    [r \in ResIds |-> IF r \in superseded THEN [resv[r] EXCEPT !.status = "reaped"] ELSE resv[r]]

\* The ledger of either implementation.
Ledger == INSTANCE BookingLedger WITH book <- Standing
=============================================================================
