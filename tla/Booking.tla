------------------------------- MODULE Booking -------------------------------
(***************************************************************************)
(* The booking side of the Postgres store: OrderCar, ConfirmHold,          *)
(* CancelReservation and the owner's writes (internal/store/store.go) over *)
(* the tables and constraints of db/schema.sql.                            *)
(*                                                                         *)
(* Every SQL statement is one step, because the store runs at READ         *)
(* COMMITTED: each statement sees what was committed when it began, while  *)
(* now() stays the time its transaction began.  resv is the table heap: a  *)
(* "pending" row was inserted by a transaction still open and is seen by   *)
(* that transaction only; a row some transaction has deleted or updated    *)
(* without committing yet is row-locked and still read by everyone else.   *)
(***************************************************************************)
EXTENDS Naturals, FiniteSets

CONSTANTS
    Users,       \* signed-in users
    Cars,        \* car ids; an id is unknown to clients until CreateCar
    Owner,       \* the owner_id each car has, never updated
    Orderers,    \* connections that run OrderCar
    Updaters,    \* connections that run ConfirmHold and CancelReservation
    ResIds,      \* reservation ids: the bound on rows ever inserted
    NoRes,       \* not a reservation id
    RecIds,      \* recurrence ids: the bound on schedules ever created
    Keys,        \* idempotency keys
    NoKey,       \* the empty idempotency key
    Orders,      \* the booking requests clients send
    RawRows,     \* rows that tools outside the API insert
    Spans,       \* first occurrences owners give to schedules
    SeedCars,    \* the cars at the start
    Rates,       \* hourly prices owners set, in CreateCar and UpdateCar
    Listings,    \* what owners set is_listed to in UpdateCar
    Period,      \* the repeat period of a schedule
    HoldTTL,     \* how long a rental_hold lasts
    CancelLead,  \* free cancellation until this long before the start
    BookGrace,   \* free cancellation for this long after booking
    PastGrace,   \* how far in the past a booking may start
    MaxTime      \* bound on the clock

Kinds == {"rental", "rental_hold", "owner"}

OrderParams == [car : Cars, booker : Users, kind : Kinds, start : Nat,
                end : Nat, maxPrice : Nat, key : Keys \cup {NoKey}]

CarRow == [state : {"absent", "listed", "hidden"}, rate : Nat]

ASSUME CarsAssumption == Owner \in [Cars -> Users] /\ SeedCars \in [Cars -> CarRow]

ASSUME NullAssumption == NoRes \notin ResIds /\ NoKey \notin Keys

ASSUME ConnectionsAssumption == Orderers \cap Updaters = {}

\* handleOrderCar refuses an empty or inverted window before the store sees it.
ASSUME OrdersAssumption ==
    /\ Orders \subseteq OrderParams
    /\ Orders # {}
    /\ \A o \in Orders : o.start < o.end

\* during is a non-empty range in every insert a tool issues.
ASSUME RawAssumption ==
    /\ RawRows \subseteq OrderParams
    /\ \A o \in RawRows : o.start < o.end /\ o.kind = "rental" /\ o.key = NoKey

ASSUME NatAssumption ==
    /\ Rates \subseteq Nat /\ Listings \subseteq {"listed", "hidden"}
    /\ Spans \subseteq [start : Nat, end : Nat]
    /\ Period \in Nat \ {0}
    /\ \A w \in Spans : w.start < w.end /\ w.end < w.start + Period
    /\ HoldTTL \in Nat /\ CancelLead \in Nat /\ BookGrace \in Nat
    /\ PastGrace \in Nat /\ MaxTime \in Nat

VARIABLES
    clock,   \* Postgres' clock
    cars,    \* cars.cars
    recs,    \* cars.recurrences
    resv,    \* cars.reservations
    order,   \* the OrderCar call each orderer runs, or its last answer
    ahead,   \* the advisory lock queues: who each orderer still waits for
    upd      \* the ConfirmHold or CancelReservation call of each updater

vars == <<clock, cars, recs, resv, order, ahead, upd>>

-----------------------------------------------------------------------------
(* Rows and calls *)

NoRow == [status |-> "absent"]

\* exp is 0 where hold_expires_at is NULL: only rental_hold rows have one.
\* "reaped" stands for a deleted row, kept to say what it was.
ResRow == [status : {"pending", "confirmed", "cancelled", "reaped"},
           car : Cars, booker : Users, kind : Kinds, start : Nat, end : Nat,
           price : Nat, exp : Nat, key : Keys \cup {NoKey}, created : Nat]

NoRec == [state |-> "absent"]

\* A "pending" schedule is seen by nobody yet.  created is created_at, the time
\* its statement began; committed, which no column keeps, the time of its commit.
RecRow == [state : {"pending", "active", "inactive"}, car : Cars, start : Nat,
           end : Nat, created : Nat, committed : Nat]

Results == {"none", "ok", "conflict", "price_changed", "not_bookable",
            "schedule_conflict", "not_found", "error"}

\* The statement an OrderCar call runs next; "reap" includes the wait for the
\* car's advisory lock.  locked are the rows its DELETE holds.
OrderCall == [pc : {"done", "enqueue", "reap", "check", "insert", "classify",
                    "commit", "replay"},
              req : Orders, now : Nat, locked : SUBSET ResIds,
              id : ResIds \cup {NoRes}, err : {"none", "23P01", "23505"},
              res : Results]

UpdCall == [pc : {"done", "confirm", "cancel", "cancel_commit",
                  "cancel_classify"},
            id : ResIds \cup {NoRes}, user : Users, now : Nat]

NoCall == [pc |-> "done", id |-> NoRes, user |-> CHOOSE x \in Users : TRUE,
           now |-> 0]

TypeOK ==
    /\ clock \in Nat
    /\ cars \in [Cars -> CarRow]
    /\ recs \in [RecIds -> RecRow \cup {NoRec}]
    /\ resv \in [ResIds -> ResRow \cup {NoRow}]
    /\ order \in [Orderers -> OrderCall]
    /\ ahead \in [Orderers -> SUBSET Orderers]
    /\ upd \in [Updaters -> UpdCall]

Init ==
    /\ clock = 0
    /\ cars = SeedCars
    /\ recs = [x \in RecIds |-> NoRec]
    /\ resv = [r \in ResIds |-> NoRow]
    /\ order = [p \in Orderers |->
                  [pc |-> "done", req |-> CHOOSE o \in Orders : TRUE, now |-> 0,
                   locked |-> {}, id |-> NoRes, err |-> "none", res |-> "none"]]
    /\ ahead = [p \in Orderers |-> {}]
    /\ upd = [u \in Updaters |-> NoCall]

-----------------------------------------------------------------------------
(* What the statements read *)

\* tstzrange && tstzrange on half-open ranges.
Overlaps(a, b) == a.start < b.end /\ b.start < a.end

\* Mutant of Visible: a READ UNCOMMITTED lookup.
Visible_Dirty(r) == resv[r].status \in {"pending", "confirmed", "cancelled"}

\* Rows a statement of another transaction reads.
Visible(r) == resv[r].status \in {"confirmed", "cancelled"}

Confirmed(r) == resv[r].status = "confirmed"

\* A hold whose hold_expires_at <= t.
Lapsed(r, t) == resv[r].kind = "rental_hold" /\ resv[r].exp <= t

\* reservationByIdempotencyKey, whatever the status of the row.
ByKey(req) ==
    {r \in ResIds : /\ req.key # NoKey
                    /\ Visible(r)
                    /\ resv[r].booker = req.booker /\ resv[r].key = req.key}

\* cars.recurrence_overlaps: some occurrence start + n * Period meets the window.
RecurrenceOverlaps(rec, w) ==
    \E n \in 0 .. w.end :
        Overlaps([start |-> rec.start + n * Period,
                  end |-> rec.end + n * Period], w)

TripPrice(req) == cars[req.car].rate * (req.end - req.start)

\* Mutant of Insertable: the schedule condition is dropped.
Insertable_NoSchedule(req) ==
    /\ cars[req.car].state = "listed" \/ req.kind = "owner"
    /\ req.kind # "owner" => TripPrice(req) <= req.maxPrice

\* The WHERE of the conditional insert.
Insertable(req) ==
    /\ \/ req.kind = "owner" /\ cars[req.car].state # "absent"
                             /\ Owner[req.car] = req.booker
       \/ req.kind # "owner" /\ cars[req.car].state = "listed"
    /\ req.kind # "owner" =>
         /\ TripPrice(req) <= req.maxPrice
         /\ \A x \in RecIds :
              ~ /\ recs[x].state = "active" /\ recs[x].car = req.car
                /\ RecurrenceOverlaps(recs[x], req)

\* Mutant of LockedByOther: nobody waits for a row lock.
LockedByOther_Never(p, r) == FALSE

\* Rows an open transaction other than p's has deleted or updated.
LockedByOther(p, r) ==
    \/ \E q \in Orderers \ {p} : r \in order[q].locked
    \/ \E u \in Updaters : upd[u].pc = "cancel_commit" /\ upd[u].id = r

\* Mutants of OverlapClashes and KeyClashes: the constraint is dropped, and the
\* unique index is checked against committed rows only.
OverlapClashes_None(own, row) == {}

KeyClashes_CommittedOnly(own, row) ==
    {r \in ResIds \ own :
        /\ row.key # NoKey /\ Visible(r)
        /\ resv[r].booker = row.booker /\ resv[r].key = row.key}

\* The live index entries that clash with a row being inserted: under
\* cars_reservations_no_overlap, and under cars_reservations_idempotency_uindex.
\* Rows the inserting transaction itself deleted, own, no longer count.
OverlapClashes(own, row) ==
    {r \in ResIds \ own :
        /\ resv[r].status \in {"pending", "confirmed"}
        /\ resv[r].car = row.car /\ Overlaps(resv[r], row)}

KeyClashes(own, row) ==
    {r \in ResIds \ own :
        /\ row.key # NoKey
        /\ resv[r].status \in {"pending", "confirmed", "cancelled"}
        /\ resv[r].booker = row.booker /\ resv[r].key = row.key}

\* An index check waits for the transaction that inserted or is deleting an entry.
InDoubt(p, r) == resv[r].status = "pending" \/ LockedByOther(p, r)

FreeIds == {r \in ResIds : resv[r].status = "absent"}

\* Orderers queued for, or holding, the advisory lock of car c.
Queue(c) ==
    {q \in Orderers : /\ order[q].req.car = c
                      /\ order[q].pc \in {"reap", "check", "insert", "classify",
                                          "commit"}}

Running(p) == order[p].pc # "done"

\* Bound: a call begins only while every running call can still get a row id.
IdsLeft == Cardinality(FreeIds) > Cardinality({q \in Orderers : Running(q)})

-----------------------------------------------------------------------------
(* OrderCar *)

Advance(p, pc) == order' = [order EXCEPT ![p].pc = pc]

\* Mutants of EndTxn: a session-level advisory lock that nobody unlocks, and a
\* transaction that keeps its row locks.
EndTxn_KeepCarLock(p, pc, id, err, res) ==
    /\ order' = [order EXCEPT ![p] = [@ EXCEPT !.pc = pc, !.now = 0, !.locked = {},
                                              !.id = id, !.err = err, !.res = res]]
    /\ UNCHANGED ahead

EndTxn_KeepRowLocks(p, pc, id, err, res) ==
    /\ order' = [order EXCEPT ![p] = [@ EXCEPT !.pc = pc, !.now = 0,
                                              !.id = id, !.err = err, !.res = res]]
    /\ ahead' = [q \in Orderers |-> IF q = p THEN {} ELSE ahead[q] \ {p}]

\* COMMIT or ROLLBACK: row locks and the advisory lock go with the transaction.
EndTxn(p, pc, id, err, res) ==
    /\ order' = [order EXCEPT ![p] = [@ EXCEPT !.pc = pc, !.now = 0, !.locked = {},
                                              !.id = id, !.err = err, !.res = res]]
    /\ ahead' = [q \in Orderers |-> IF q = p THEN {} ELSE ahead[q] \ {p}]

Refuse(p, res) == EndTxn(p, "done", NoRes, "none", res)

\* The handler's checks, BEGIN, the idempotency lookup and the owner check.
OrderBegin(p) == \E req \in Orders :
    LET call(pc, id, res) ==
          [pc |-> pc, req |-> req, now |-> IF pc = "done" THEN 0 ELSE clock,
           locked |-> {}, id |-> id, err |-> "none", res |-> res]
    IN
    /\ ~Running(p) /\ IdsLeft
    /\ req.start + PastGrace >= clock
    /\ \/ \E r \in ByKey(req) : order' = [order EXCEPT ![p] = call("done", r, "ok")]
       \/ /\ ByKey(req) = {}
          /\ req.kind = "owner"
          /\ cars[req.car].state = "absent" \/ Owner[req.car] # req.booker
          /\ order' = [order EXCEPT ![p] = call("done", NoRes, "not_found")]
       \/ /\ ByKey(req) = {}
          /\ req.kind = "owner" =>
               cars[req.car].state # "absent" /\ Owner[req.car] = req.booker
          /\ order' = [order EXCEPT ![p] = call("enqueue", NoRes, "none")]
    /\ UNCHANGED <<clock, cars, recs, resv, ahead, upd>>

\* Mutant of OrderEnqueue: no car lock is taken.
OrderEnqueue_NoLock(p) ==
    /\ order[p].pc = "enqueue"
    /\ Advance(p, "reap")
    /\ UNCHANGED <<clock, cars, recs, resv, ahead, upd>>

\* pg_advisory_xact_lock: Postgres queues the waiters in order of arrival.
OrderEnqueue(p) ==
    /\ order[p].pc = "enqueue"
    /\ ahead' = [ahead EXCEPT ![p] = Queue(order[p].req.car)]
    /\ Advance(p, "reap")
    /\ UNCHANGED <<clock, cars, recs, resv, upd>>

\* The lock is granted and the DELETE of the car's expired holds runs, waiting
\* for any row another transaction is still updating.
OrderReap(p) ==
    LET lapsed == {r \in ResIds : /\ Confirmed(r)
                                  /\ resv[r].car = order[p].req.car
                                  /\ Lapsed(r, order[p].now)}
    IN
    /\ order[p].pc = "reap" /\ ahead[p] = {}
    /\ \A r \in lapsed : ~LockedByOther(p, r)
    /\ order' = [order EXCEPT ![p] = [@ EXCEPT !.locked = lapsed, !.pc = "check"]]
    /\ UNCHANGED <<clock, cars, recs, resv, ahead, upd>>

Blocked(p) ==
    \E r \in ResIds : /\ Confirmed(r)
                      /\ resv[r].car = order[p].req.car
                      /\ ~Lapsed(r, order[p].now)
                      /\ Overlaps(resv[r], order[p].req)

\* The conflict precheck; ErrConflict rolls the reap back.
OrderCheck(p) ==
    /\ order[p].pc = "check"
    /\ \/ Blocked(p) /\ Refuse(p, "conflict")
       \/ ~Blocked(p) /\ Advance(p, "insert") /\ UNCHANGED ahead
    /\ UNCHANGED <<clock, cars, recs, resv, upd>>

\* Mutant of NewRow: the expiry is set before now() instead of after it.
NewRow_ExpiryBefore(p) ==
    LET req == order[p].req IN
    [status |-> "pending", car |-> req.car, booker |-> req.booker,
     kind |-> req.kind, start |-> req.start, end |-> req.end,
     price |-> IF req.kind = "owner" THEN 0 ELSE TripPrice(req),
     exp |-> IF req.kind = "rental_hold" THEN order[p].now - HoldTTL ELSE 0,
     key |-> req.key, created |-> order[p].now]

\* The row the insert writes: the price and the expiry are frozen here.
NewRow(p) ==
    LET req == order[p].req IN
    [status |-> "pending", car |-> req.car, booker |-> req.booker,
     kind |-> req.kind, start |-> req.start, end |-> req.end,
     price |-> IF req.kind = "owner" THEN 0 ELSE TripPrice(req),
     exp |-> IF req.kind = "rental_hold" THEN order[p].now + HoldTTL ELSE 0,
     key |-> req.key, created |-> order[p].now]

\* A constraint error rolls back; a request with a key then looks for a replay.
Violation(p, err) ==
    IF order[p].req.key # NoKey
    THEN EndTxn(p, "replay", NoRes, err, "none")
    ELSE EndTxn(p, "done", NoRes, err, "conflict")

\* INSERT ... SELECT ... RETURNING.  Nothing to insert is classified; otherwise
\* the constraints decide once every clashing entry's transaction has ended.
OrderInsert(p) ==
    LET overlap == OverlapClashes(order[p].locked, NewRow(p))
        sameKey == KeyClashes(order[p].locked, NewRow(p))
        settled(clashes) == \A r \in clashes : ~InDoubt(p, r)
    IN
    /\ order[p].pc = "insert"
    /\ \/ /\ ~Insertable(order[p].req)
          /\ Advance(p, "classify")
          /\ UNCHANGED <<resv, ahead>>
       \/ /\ Insertable(order[p].req)
          /\ overlap # {} /\ settled(overlap)
          /\ Violation(p, "23P01")
          /\ UNCHANGED resv
       \/ /\ Insertable(order[p].req)
          /\ overlap = {} /\ sameKey # {} /\ settled(sameKey)
          /\ Violation(p, "23505")
          /\ UNCHANGED resv
       \/ /\ Insertable(order[p].req)
          /\ overlap = {} /\ sameKey = {}
          /\ \E r \in FreeIds :
               /\ resv' = [resv EXCEPT ![r] = NewRow(p)]
               /\ order' = [order EXCEPT ![p] = [@ EXCEPT !.pc = "commit", !.id = r]]
          /\ UNCHANGED ahead
    /\ UNCHANGED <<clock, cars, recs, upd>>

\* classifyRejectedOrder: a new statement, so a new snapshot of the car.
Rejection(req) ==
    CASE cars[req.car].state = "absent" -> "not_bookable"
      [] cars[req.car].state # "absent" /\ req.kind = "owner" ->
           IF Owner[req.car] # req.booker THEN "not_found" ELSE "not_bookable"
      [] cars[req.car].state = "hidden" /\ req.kind # "owner" -> "not_bookable"
      [] cars[req.car].state = "listed" /\ req.kind # "owner" ->
           IF TripPrice(req) > req.maxPrice
           THEN "price_changed" ELSE "schedule_conflict"

OrderClassify(p) ==
    /\ order[p].pc = "classify"
    /\ Refuse(p, Rejection(order[p].req))
    /\ UNCHANGED <<clock, cars, recs, resv, upd>>

\* Mutant of OrderCommit: the reaped holds stay.
OrderCommit_NoReap(p) == \E acked \in BOOLEAN :
    /\ order[p].pc = "commit"
    /\ resv' = [resv EXCEPT ![order[p].id].status = "confirmed"]
    /\ IF acked THEN EndTxn(p, "done", order[p].id, "none", "ok")
                ELSE EndTxn(p, "done", NoRes, "none", "error")
    /\ UNCHANGED <<clock, cars, recs, upd>>

\* COMMIT makes the insert and the reap visible together.  The answer may get
\* lost on the way back.
OrderCommit(p) == \E acked \in BOOLEAN :
    /\ order[p].pc = "commit"
    /\ resv' = [r \in ResIds |->
                  IF r = order[p].id
                  THEN [resv[r] EXCEPT !.status = "confirmed"]
                  ELSE IF r \in order[p].locked
                       THEN [resv[r] EXCEPT !.status = "reaped"] ELSE resv[r]]
    /\ IF acked THEN EndTxn(p, "done", order[p].id, "none", "ok")
                ELSE EndTxn(p, "done", NoRes, "none", "error")
    /\ UNCHANGED <<clock, cars, recs, upd>>

\* After a constraint error: the reservation of the same key if one is
\* committed by now, else (or when the lookup fails) the constraint's own answer.
OrderReplay(p) ==
    LET answer(id, res) ==
          order' = [order EXCEPT ![p] = [@ EXCEPT !.pc = "done", !.id = id, !.res = res]]
    IN
    /\ order[p].pc = "replay"
    /\ \/ \E r \in ByKey(order[p].req) : answer(r, "ok")
       \/ answer(NoRes, IF order[p].err = "23P01" THEN "conflict" ELSE "error")
    /\ UNCHANGED <<clock, cars, recs, resv, ahead, upd>>

\* The client gives up (its request context is cancelled), or the connection or
\* the database is lost, with a transaction open: it is rolled back.
OrderAbort(p) ==
    /\ order[p].pc \notin {"done", "replay"}
    /\ resv' = IF order[p].pc = "commit"
               THEN [resv EXCEPT ![order[p].id] = NoRow] ELSE resv
    /\ Refuse(p, "error")
    /\ UNCHANGED <<clock, cars, recs, upd>>

OrderStep(p) ==
    \/ OrderEnqueue(p) \/ OrderReap(p) \/ OrderCheck(p) \/ OrderInsert(p)
    \/ OrderClassify(p) \/ OrderCommit(p) \/ OrderReplay(p)

-----------------------------------------------------------------------------
(* ConfirmHold and CancelReservation *)

\* The call returns.  Its answer is not kept: no later step depends on it.
Return(u) == upd' = [upd EXCEPT ![u] = NoCall]

\* The call arrives and its transaction's now() is fixed.  A client only knows
\* ids of rows that were committed.
UpdBegin(u, pc) == \E r \in ResIds, user \in Users :
    /\ upd[u].pc = "done" /\ pc \in {"confirm", "cancel"}
    /\ resv[r].status \notin {"absent", "pending"}
    /\ upd' = [upd EXCEPT ![u] = [pc |-> pc, id |-> r, user |-> user,
                                  now |-> clock]]
    /\ UNCHANGED <<clock, cars, recs, resv, order, ahead>>

Confirmable(u) ==
    LET r == upd[u].id IN
    /\ Confirmed(r) /\ resv[r].booker = upd[u].user
    /\ resv[r].kind = "rental_hold" /\ resv[r].exp > upd[u].now

\* The conditional UPDATE of ConfirmHold.  A matching row another transaction
\* has locked is waited for and its new version matched again.
Confirm(u) ==
    /\ upd[u].pc = "confirm"
    /\ \/ /\ Confirmable(u) /\ ~LockedByOther(u, upd[u].id)
          /\ resv' = [resv EXCEPT ![upd[u].id] =
                         [@ EXCEPT !.kind = "rental", !.exp = 0]]
       \/ ~Confirmable(u) /\ UNCHANGED resv
    /\ Return(u)
    /\ UNCHANGED <<clock, cars, recs, order, ahead>>

Cancellable(u) ==
    LET r == upd[u].id  now == upd[u].now IN
    /\ Confirmed(r) /\ resv[r].booker = upd[u].user
    /\ \/ resv[r].kind = "rental_hold"
       \/ resv[r].start > now + CancelLead
       \/ resv[r].created + BookGrace > now /\ resv[r].start > now

\* The conditional UPDATE of CancelReservation; it keeps the row locked.
Cancel(u) ==
    /\ upd[u].pc = "cancel"
    /\ \/ /\ Cancellable(u) /\ ~LockedByOther(u, upd[u].id)
          /\ upd' = [upd EXCEPT ![u].pc = "cancel_commit"]
       \/ ~Cancellable(u) /\ upd' = [upd EXCEPT ![u].pc = "cancel_classify"]
    /\ UNCHANGED <<clock, cars, recs, resv, order, ahead>>

CancelCommit(u) ==
    /\ upd[u].pc = "cancel_commit"
    /\ resv' = [resv EXCEPT ![upd[u].id] = [@ EXCEPT !.status = "cancelled"]]
    /\ Return(u)
    /\ UNCHANGED <<clock, cars, recs, order, ahead>>

\* The second read only chooses between ErrTooLateToCancel and ErrNotFound.
CancelClassify(u) ==
    /\ upd[u].pc = "cancel_classify"
    /\ Return(u)
    /\ UNCHANGED <<clock, cars, recs, resv, order, ahead>>

UpdAbort(u) ==
    /\ upd[u].pc # "done"
    /\ Return(u)
    /\ UNCHANGED <<clock, cars, recs, resv, order, ahead>>

UpdStep(u) == Confirm(u) \/ Cancel(u) \/ CancelCommit(u) \/ CancelClassify(u)

-----------------------------------------------------------------------------
(* The owner's writes: one autocommit statement each.  What nobody reads before
   its commit, and keeps no time, is one step. *)

\* The id is a fresh random uuid, so no running call names it.
CreateCar(c) == \E rate \in Rates :
    /\ cars[c].state = "absent"
    /\ \A p \in Orderers : Running(p) => order[p].req.car # c
    /\ cars' = [cars EXCEPT ![c] = [state |-> "listed", rate |-> rate]]
    /\ UNCHANGED <<clock, recs, resv, order, ahead, upd>>

\* A patch of the price, the listing, or both, by the owner; one that changes
\* neither is no step.
UpdateCar(c) ==
    \E rate \in Rates \cup {cars[c].rate}, state \in Listings \cup {cars[c].state} :
        /\ cars[c].state # "absent"
        /\ cars' = [cars EXCEPT ![c] = [state |-> state, rate |-> rate]]
        /\ cars' # cars
        /\ UNCHANGED <<clock, recs, resv, order, ahead, upd>>

\* The statement begins, and its now() with it.  It never looks at reservations.
CreateSchedule(x) == \E c \in Cars, w \in Spans :
    /\ recs[x].state = "absent" /\ cars[c].state # "absent"
    /\ recs' = [recs EXCEPT ![x] = [state |-> "pending", car |-> c,
                                    start |-> w.start, end |-> w.end,
                                    created |-> clock, committed |-> 0]]
    /\ UNCHANGED <<clock, cars, resv, order, ahead, upd>>

\* Its transaction commits: from now on every statement reads the schedule.
CommitSchedule(x) ==
    /\ recs[x].state = "pending"
    /\ recs' = [recs EXCEPT ![x].state = "active", ![x].committed = clock]
    /\ UNCHANGED <<clock, cars, resv, order, ahead, upd>>

\* The request is cancelled, or the connection lost, before that.
AbortSchedule(x) ==
    /\ recs[x].state = "pending"
    /\ recs' = [recs EXCEPT ![x] = NoRec]
    /\ UNCHANGED <<clock, cars, resv, order, ahead, upd>>

DeactivateSchedule(x) ==
    /\ recs[x].state = "active"
    /\ recs' = [recs EXCEPT ![x].state = "inactive"]
    /\ UNCHANGED <<clock, cars, resv, order, ahead, upd>>

Tick ==
    /\ clock < MaxTime
    /\ clock' = clock + 1
    /\ UNCHANGED <<cars, recs, resv, order, ahead, upd>>

\* A tool inserts a rental with plain SQL and no car lock.  An insert that
\* clashes fails and changes nothing; one that meets an entry in doubt waits.
RawInsert == \E o \in RawRows, r \in FreeIds :
    /\ IdsLeft
    /\ OverlapClashes({}, o) = {}
    /\ resv' = [resv EXCEPT ![r] =
                  [status |-> "confirmed", car |-> o.car, booker |-> o.booker,
                   kind |-> o.kind, start |-> o.start, end |-> o.end,
                   price |-> o.maxPrice, exp |-> 0, key |-> o.key,
                   created |-> clock]]
    /\ UNCHANGED <<clock, cars, recs, order, ahead, upd>>

-----------------------------------------------------------------------------
(* The API alone, and the API with tools writing to the same tables *)

Next ==
    \/ \E p \in Orderers : OrderBegin(p) \/ OrderStep(p) \/ OrderAbort(p)
    \/ \E u \in Updaters : \/ \E pc \in {"confirm", "cancel"} : UpdBegin(u, pc)
                           \/ UpdStep(u) \/ UpdAbort(u)
    \/ \E c \in Cars : CreateCar(c) \/ UpdateCar(c)
    \/ \E x \in RecIds : \/ CreateSchedule(x) \/ CommitSchedule(x) \/ AbortSchedule(x)
                        \/ DeactivateSchedule(x)
    \/ Tick

Spec == Init /\ [][Next]_vars

OpsNext == Next \/ RawInsert

OpsSpec == Init /\ [][OpsNext]_vars

\* Postgres and the Go runtime keep running every statement whose turn it is;
\* nobody is obliged to send, to abort, or to let the clock move.  Statements
\* that wait for a row or an index entry of another transaction are strongly
\* fair: the wait is queued on that transaction, its end wakes the waiter, and
\* the waiter has looked again before a new call gets through the round trips
\* to its own write.
FairSpec ==
    /\ Spec
    /\ \A p \in Orderers : /\ WF_vars(OrderStep(p))
                           /\ SF_vars(OrderReap(p)) /\ SF_vars(OrderInsert(p))
    /\ \A u \in Updaters : /\ WF_vars(UpdStep(u))
                           /\ SF_vars(Confirm(u)) /\ SF_vars(Cancel(u))

-----------------------------------------------------------------------------
(* Properties *)

\* cars_reservations_no_overlap is "the single source of truth against
\* double-booking": no instant of a car belongs to two confirmed rows.  Stated
\* on instants, not on the operator the code uses to compare ranges.
NoDoubleBooking ==
    \A r, s \in ResIds :
        r # s /\ Confirmed(r) /\ Confirmed(s) /\ resv[r].car = resv[s].car
        => \A t \in resv[r].start .. resv[r].end - 1 :
              t \notin resv[s].start .. resv[s].end - 1

\* "Contention shedding, not correctness": when only the API writes, the car
\* lock, the reap and the precheck leave nothing for the exclusion constraint
\* to refuse, so no request ever pays for a 23P01.
ConstraintIdle == \A p \in Orderers : order[p].err # "23P01"

\* Two requests of one booker with one key that were both answered with a
\* booking were answered with the same one, whichever of the insert, the first
\* lookup or the replay answered; only a hold that lapsed and was reaped
\* in between frees its key.
RetriesAgree ==
    \A p, q \in Orderers :
        LET a == order[p]  b == order[q] IN
        /\ a.pc = "done" /\ a.res = "ok" /\ b.pc = "done" /\ b.res = "ok"
        /\ a.req.key # NoKey /\ a.req.key = b.req.key
        /\ a.req.booker = b.req.booker /\ a.id # b.id
        => "reaped" \in {resv[a.id].status, resv[b.id].status}

\* A booking a caller was told of is committed, is the caller's, and can only
\* disappear as a hold whose expiry has passed.
AnswersAreDurable ==
    \A p \in Orderers :
        LET a == order[p] IN
        a.pc = "done" /\ a.res = "ok" =>
            /\ resv[a.id].status \in {"confirmed", "cancelled", "reaped"}
            /\ resv[a.id].booker = a.req.booker
            /\ resv[a.id].status = "reaped" => Lapsed(a.id, clock)

\* "Reservations always beat recurrences" only backwards in time: a renter's
\* booking that an active schedule overlaps was begun no later than the
\* schedule's commit.  It may well be younger than the schedule's created_at: one
\* that begins between the schedule's statement and its commit cannot see it.
SchedulesYieldOnlyToOlder ==
    \A r \in ResIds, x \in RecIds :
        /\ Confirmed(r) /\ resv[r].kind # "owner"
        /\ recs[x].state = "active" /\ recs[x].car = resv[r].car
        /\ RecurrenceOverlaps(recs[x], resv[r])
        => resv[r].created <= recs[x].committed

\* Whatever the locks and the interleaving, the committed rows behave as the
\* ledger of BookingLedger.
Book == INSTANCE BookingLedger WITH
    book <- [r \in ResIds |-> IF resv[r].status = "pending" THEN NoRow ELSE resv[r]]

LedgerSpec == Book!Spec

\* Nobody waits for ever: a booking request that reached the store is
\* answered, through the queue for the car and every row and index wait.
OrderAnswered == \A p \in Orderers : Running(p) ~> ~Running(p)

\* The same for ConfirmHold and CancelReservation.
UpdateAnswered == \A u \in Updaters : upd[u].pc # "done" ~> upd[u].pc = "done"
=============================================================================
