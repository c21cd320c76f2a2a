---------------------------- MODULE BookingClaims ----------------------------
(***************************************************************************)
(* What comments in internal/store/store.go say of OrderCar and what the   *)
(* code does not keep.  TLC refutes each of them.                          *)
(***************************************************************************)
EXTENDS Booking

\* store.go:781, on a constraint error: "A concurrent identical request may have
\* won the race. If our key already has a reservation, this request succeeded
\* once already."  So no request is refused as a conflict at a moment when its
\* key has a committed reservation.
DuplicatesAreReplayed ==
    [][\A p \in Orderers :
         order[p].pc = "check" /\ order'[p].res = "conflict"
         => ByKey(order[p].req) = {}]_vars

\* store.go:799: classifyRejectedOrder figures out "why the conditional insert
\* matched no row, inside the same transaction so it reads the same snapshot".
\* So an order refused because of a schedule was refused by a schedule.
ScheduleConflictHasSchedule ==
    [][\A p \in Orderers :
         order[p].pc = "classify" /\ order'[p].res = "schedule_conflict"
         => \E x \in RecIds : /\ recs[x].state = "active"
                              /\ recs[x].car = order[p].req.car
                              /\ RecurrenceOverlaps(recs[x], order[p].req)]_vars
=============================================================================
