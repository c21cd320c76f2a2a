------------------------------ MODULE FleetModel ------------------------------
(***************************************************************************)
(* The in-memory fleet of a pod (internal/fleet) beside the tables it      *)
(* mirrors: what a row's log entry says, how applying it changes the maps  *)
(* of the model, and which cars a search then finds.                       *)
(*                                                                         *)
(* FleetFeed is about which entries reach a pod, and keeps nothing of what *)
(* they say.  Here transactions are single steps, the log is in order, and *)
(* the pod's cursor may stop at any entry, so that any tail of the log is  *)
(* delivered again.                                                        *)
(***************************************************************************)
EXTENDS Integers, SequencesExt

CONSTANTS
    CarIds, ResIds, RecIds,  \* ids of rows, each given once
    Cells,      \* grid cells a car can stand in
    Windows,    \* the windows that are booked or blocked, as <<start, end>>
    Period,     \* the period of a schedule
    HoldTTL,    \* how long a hold blocks
    MaxTime,    \* bound on the clock
    MaxWrites   \* bound on the writing transactions

ASSUME WindowAssumption ==
    /\ Period \in Nat \ {0} /\ HoldTTL \in Nat \ {0} /\ MaxTime \in Nat /\ MaxWrites \in Nat
    /\ \A w \in Windows : w[1] \in Nat /\ w[2] \in Nat /\ w[1] < w[2]

VARIABLES
    now,     \* the clock of Postgres and of the pod
    db,      \* the tables: cars, reservations, recurrences
    used,    \* every id given so far
    writes,  \* how many transactions have written
    erased,  \* the rows a TRUNCATE has removed: no trigger logs that
    log,     \* cars.fleet_log past the pod's cursor
    pod      \* the feed loop of the pod

vars == <<now, db, used, writes, erased, log, pod>>

-----------------------------------------------------------------------------
(* Rows, entries and the model *)

Null == 0  \* hold_expires_at of a row that is no hold

CarRow == [cell : Cells, listed : BOOLEAN]
ResRow == [car : CarIds, start : Nat, end : Nat, confirmed : BOOLEAN, expires : Nat]
RecRow == [car : CarIds, start : Nat, end : Nat, active : BOOLEAN]

Busy == [id : ResIds, start : Nat, end : Nat, expires : Nat]
Schedule == [id : RecIds, start : Nat, end : Nat]

\* A car of the model.  Its windows and schedules are slices in the code, whose
\* order nothing looks at.
Car == [cell : Cells, listed : BOOLEAN, busy : SUBSET Busy, recurrences : SUBSET Schedule]

With(f, k, v) == [x \in DOMAIN f \cup {k} |-> IF x = k THEN v ELSE f[x]]

Without(f, S) == [x \in DOMAIN f \ S |-> f[x]]

Nothing == [x \in {} |-> x]  \* an empty table or map

NoRows == [cars |-> Nothing, resv |-> Nothing, recs |-> Nothing]

NewModel == [cars |-> Nothing, cells |-> {}, reservationCar |-> Nothing,
             recurrenceCar |-> Nothing]

\* What a pod has read and not yet installed.
NoRead == [view |-> NoRows, model |-> NewModel, read |-> 0]

Entry(table, op, id, row) == [table |-> table, op |-> op, id |-> id, row |-> row]

-----------------------------------------------------------------------------
(* feed.go: one entry applied to the model *)

\* Mutant of UpsertCar: the car stays in the bucket of the cell it left.
UpsertCar_KeepCell(m, id, row) ==
    LET old == IF id \in DOMAIN m.cars THEN m.cars[id]
               ELSE [cell |-> row.cell, listed |-> row.listed, busy |-> {}, recurrences |-> {}]
    IN  [m EXCEPT !.cars  = With(@, id, [old EXCEPT !.cell = row.cell, !.listed = row.listed]),
                  !.cells = @ \cup {<<row.cell, id>>}]

\* The buckets of the grid are pairs of a cell and a car.
UpsertCar(m, id, row) ==
    LET old == IF id \in DOMAIN m.cars THEN m.cars[id]
               ELSE [cell |-> row.cell, listed |-> row.listed, busy |-> {}, recurrences |-> {}]
    IN  [m EXCEPT !.cars  = With(@, id, [old EXCEPT !.cell = row.cell, !.listed = row.listed]),
                  !.cells = (@ \ {<<old.cell, id>>}) \cup {<<row.cell, id>>}]

\* The two id maps keep what they say of the car.
RemoveCar(m, id) ==
    IF id \notin DOMAIN m.cars THEN m
    ELSE [m EXCEPT !.cells = @ \ {<<m.cars[id].cell, id>>},
                   !.cars  = Without(@, {id})]

\* Windows of a car the model does not know are dropped.
UpsertWindow(m, car, w) ==
    IF car \notin DOMAIN m.cars THEN m
    ELSE [m EXCEPT !.reservationCar = With(@, w.id, car),
                   !.cars[car].busy = {b \in @ : b.id # w.id} \cup {w}]

\* Mutant of RemoveWindow: only the id map forgets the window.
RemoveWindow_MapOnly(m, id) == [m EXCEPT !.reservationCar = Without(@, {id})]

RemoveWindow(m, id) ==
    IF id \notin DOMAIN m.reservationCar THEN m
    ELSE LET car    == m.reservationCar[id]
             forgot == [m EXCEPT !.reservationCar = Without(@, {id})]
         IN  IF car \notin DOMAIN m.cars THEN forgot
             ELSE [forgot EXCEPT !.cars[car].busy = {b \in @ : b.id # id}]

UpsertRecurrence(m, car, s) ==
    IF car \notin DOMAIN m.cars THEN m
    ELSE [m EXCEPT !.recurrenceCar = With(@, s.id, car),
                   !.cars[car].recurrences = {x \in @ : x.id # s.id} \cup {s}]

RemoveRecurrence(m, id) ==
    IF id \notin DOMAIN m.recurrenceCar THEN m
    ELSE LET car    == m.recurrenceCar[id]
             forgot == [m EXCEPT !.recurrenceCar = Without(@, {id})]
         IN  IF car \notin DOMAIN m.cars THEN forgot
             ELSE [forgot EXCEPT !.cars[car].recurrences = {x \in @ : x.id # id}]

\* One entry, at time t.  Windows that are over are not kept.
Apply(m, e, t) ==
    CASE e.table = "car" ->
           IF e.op = "DELETE" THEN RemoveCar(m, e.id) ELSE UpsertCar(m, e.id, e.row)
      [] e.table = "reservation" ->
           IF e.op = "DELETE" \/ ~e.row.confirmed \/ e.row.end <= t
           THEN RemoveWindow(m, e.id)
           ELSE UpsertWindow(m, e.row.car, [id |-> e.id, start |-> e.row.start,
                                            end |-> e.row.end, expires |-> e.row.expires])
      [] e.table = "recurrence" ->
           IF e.op = "DELETE" \/ ~e.row.active
           THEN RemoveRecurrence(m, e.id)
           ELSE UpsertRecurrence(m, e.row.car, [id |-> e.id, start |-> e.row.start,
                                                end |-> e.row.end])

\* rebuild: the model of a snapshot of the tables, read at time t.
Load(d, t) ==
    LET kept   == {r \in DOMAIN d.resv : d.resv[r].confirmed /\ d.resv[r].end > t}
        active == {s \in DOMAIN d.recs : d.recs[s].active}
    IN  [cars |-> [c \in DOMAIN d.cars |->
                     [cell        |-> d.cars[c].cell,
                      listed      |-> d.cars[c].listed,
                      busy        |-> {[id |-> r, start |-> d.resv[r].start, end |-> d.resv[r].end,
                                        expires |-> d.resv[r].expires]
                                       : r \in {x \in kept : d.resv[x].car = c}},
                      recurrences |-> {[id |-> s, start |-> d.recs[s].start, end |-> d.recs[s].end]
                                       : s \in {x \in active : d.recs[x].car = c}}]],
         cells |-> {<<d.cars[c].cell, c>> : c \in DOMAIN d.cars},
         reservationCar |-> [r \in kept |-> d.resv[r].car],
         recurrenceCar  |-> [s \in active |-> d.recs[s].car]]

-----------------------------------------------------------------------------
(* fleet.go and store.go: what a search finds *)

Meet(start, end, s, e) == start < e /\ s < end

\* Some occurrence of the schedule meets [s, e).
Recurs(x, s, e) ==
    \E n \in 0 .. e : Meet(x.start + n * Period, x.end + n * Period, s, e)

Available(car, s, e) ==
    /\ car.listed
    /\ \A b \in car.busy : (b.expires # Null /\ b.expires <= now) \/ ~Meet(b.start, b.end, s, e)
    /\ \A x \in car.recurrences : ~Recurs(x, s, e)

\* The cars a search through cell finds in the model for [s, e).
Offered(m, cell, s, e) ==
    {c \in DOMAIN m.cars : <<cell, c>> \in m.cells /\ Available(m.cars[c], s, e)}

\* The cars of the cell that the tables say are free, as the SQL search filters
\* them.
Free(d, cell, s, e) ==
    {c \in DOMAIN d.cars :
        /\ d.cars[c].cell = cell /\ d.cars[c].listed
        /\ \A r \in DOMAIN d.resv :
              d.resv[r].car = c /\ d.resv[r].confirmed
              /\ (d.resv[r].expires = Null \/ d.resv[r].expires > now)
              => ~Meet(d.resv[r].start, d.resv[r].end, s, e)
        /\ \A x \in DOMAIN d.recs :
              d.recs[x].car = c /\ d.recs[x].active => ~Recurs(d.recs[x], s, e)}

-----------------------------------------------------------------------------
(* The tables: every write appends its entries to the log *)

Init ==
    /\ now = 0
    /\ db = NoRows /\ used = {} /\ writes = 0 /\ erased = {}
    /\ log = <<>>
    /\ pod = [phase |-> "down", model |-> NewModel, view |-> NoRows,
              next |-> NoRead]

\* The row triggers log_fleet_change: the entries of one transaction.
Logged(entries) ==
    /\ writes < MaxWrites /\ writes' = writes + 1
    /\ log' = log \o entries

ListCar(c, cell) ==
    LET row == [cell |-> cell, listed |-> TRUE]
    IN  /\ c \notin used /\ used' = used \cup {c}
        /\ db' = [db EXCEPT !.cars = With(@, c, row)]
        /\ Logged(<<Entry("car", "INSERT", c, row)>>)
        /\ UNCHANGED <<now, erased, pod>>

\* The owner moves, hides or shows the car.
EditCar(c, cell, listed) ==
    LET row == [cell |-> cell, listed |-> listed]
    IN  /\ c \in DOMAIN db.cars
        /\ db' = [db EXCEPT !.cars[c] = row]
        /\ Logged(<<Entry("car", "UPDATE", c, row)>>)
        /\ UNCHANGED <<now, used, erased, pod>>

Lapsed(c) == {r \in DOMAIN db.resv : /\ db.resv[r].car = c /\ db.resv[r].confirmed
                                     /\ db.resv[r].expires # Null
                                     /\ db.resv[r].expires <= now}

Kinds == {"rental", "rental_hold", "owner"}

\* A booking: lapsed holds of the car are deleted, the exclusion constraint lets
\* the new row in.  The owner's blocks need neither the listing nor a free
\* schedule.  The minute's grace for a start in the past is left out.
Book(r, c, w, kind) ==
    LET reaped == Lapsed(c)
        kept   == Without(db.resv, reaped)
        row    == [car |-> c, start |-> w[1], end |-> w[2], confirmed |-> TRUE,
                   expires |-> IF kind = "rental_hold" THEN now + HoldTTL ELSE Null]
        gone   == SetToSeq({Entry("reservation", "DELETE", x, db.resv[x]) : x \in reaped})
    IN
    /\ r \notin used /\ used' = used \cup {r}
    /\ c \in DOMAIN db.cars
    /\ w[1] >= now
    /\ \A x \in DOMAIN kept : kept[x].car = c /\ kept[x].confirmed
                              => ~Meet(kept[x].start, kept[x].end, w[1], w[2])
    /\ kind # "owner" =>
         /\ db.cars[c].listed
         /\ \A x \in DOMAIN db.recs : db.recs[x].car = c /\ db.recs[x].active
                                      => ~Recurs(db.recs[x], w[1], w[2])
    /\ db' = [db EXCEPT !.resv = With(kept, r, row)]
    /\ Logged(Append(gone, Entry("reservation", "INSERT", r, row)))
    /\ UNCHANGED <<now, erased, pod>>

UpdateReservation(r, row) ==
    /\ db' = [db EXCEPT !.resv[r] = row]
    /\ Logged(<<Entry("reservation", "UPDATE", r, row)>>)
    /\ UNCHANGED <<now, used, erased, pod>>

ConfirmHold(r) ==
    /\ r \in DOMAIN db.resv
    /\ db.resv[r].confirmed /\ db.resv[r].expires > now
    /\ UpdateReservation(r, [db.resv[r] EXCEPT !.expires = Null])

\* Holds are cancelled at any time, rentals before they start.
CancelReservation(r) ==
    /\ r \in DOMAIN db.resv
    /\ db.resv[r].confirmed
    /\ db.resv[r].expires # Null \/ db.resv[r].start > now
    /\ UpdateReservation(r, [db.resv[r] EXCEPT !.confirmed = FALSE])

CreateSchedule(x, c, w) ==
    LET row == [car |-> c, start |-> w[1], end |-> w[2], active |-> TRUE]
    IN  /\ x \notin used /\ used' = used \cup {x}
        /\ c \in DOMAIN db.cars
        /\ w[2] - w[1] < Period
        /\ db' = [db EXCEPT !.recs = With(@, x, row)]
        /\ Logged(<<Entry("recurrence", "INSERT", x, row)>>)
        /\ UNCHANGED <<now, erased, pod>>

DeactivateSchedule(x) ==
    /\ x \in DOMAIN db.recs /\ db.recs[x].active
    /\ db' = [db EXCEPT !.recs[x].active = FALSE]
    /\ Logged(<<Entry("recurrence", "UPDATE", x, [db.recs[x] EXCEPT !.active = FALSE])>>)
    /\ UNCHANGED <<now, used, erased, pod>>

\* The benchmark empties the reservations before it seeds them.
BenchTruncate ==
    /\ db' = [db EXCEPT !.resv = Nothing]
    /\ erased' = erased \cup DOMAIN db.resv
    /\ Logged(<<>>)
    /\ UNCHANGED <<now, used, pod>>

\* seed -wipe, its first statement.
WipeTruncate ==
    /\ db' = [db EXCEPT !.resv = Nothing, !.recs = Nothing]
    /\ erased' = erased \cup DOMAIN db.resv \cup DOMAIN db.recs
    /\ Logged(<<>>)
    /\ UNCHANGED <<now, used, pod>>

\* seed -wipe, its second statement: whatever was written since goes with its car.
\* The cascade runs without its own row triggers, which are put off to the end of
\* the statement: every car's entry precedes those of its rows.
WipeCars ==
    LET rows == {Entry("reservation", "DELETE", r, db.resv[r]) : r \in DOMAIN db.resv}
                \cup {Entry("recurrence", "DELETE", s, db.recs[s]) : s \in DOMAIN db.recs}
    IN
    /\ db' = NoRows
    /\ \E cars \in SetToSeqs({Entry("car", "DELETE", c, db.cars[c]) : c \in DOMAIN db.cars}),
          cascaded \in SetToSeqs(rows) : Logged(cars \o cascaded)
    /\ UNCHANGED <<now, used, erased, pod>>

-----------------------------------------------------------------------------
(* The pod *)

\* rebuild reads the tables, at the start or after an error of the feed.
Snapshot ==
    /\ pod.phase \in {"down", "up"}
    /\ pod' = [pod EXCEPT !.phase = IF @ = "down" THEN "starting" ELSE "rebuilding",
                          !.next = [view |-> db, model |-> Load(db, now), read |-> Len(log)]]
    /\ UNCHANGED <<now, db, used, writes, erased, log>>

\* pull reads the log past the cursor.
Pull ==
    /\ pod.phase = "up"
    /\ pod' = [pod EXCEPT !.phase = "pulled",
                          !.next = [view |-> db, model |-> NewModel, read |-> Len(log)]]
    /\ UNCHANGED <<now, db, used, writes, erased, log>>

\* The model after the first n of the entries, for the last n.
Applied(m, entries) ==
    LET after[n \in 0 .. Len(entries)] ==
            IF n = 0 THEN m ELSE Apply(after[n - 1], entries[n], now)
    IN  after[Len(entries)]

\* Mutant of Install: the cursor moves one entry too far.
Install_OffByOne(passed) ==
    /\ pod.phase \in {"starting", "rebuilding", "pulled"}
    /\ log' = SubSeq(log, passed + 2, Len(log))
    /\ pod' = [phase |-> "up", view |-> pod.next.view,
               model |-> IF pod.phase = "pulled"
                         THEN Applied(pod.model, SubSeq(log, 1, pod.next.read))
                         ELSE pod.next.model,
               next  |-> NoRead]
    /\ UNCHANGED <<now, db, used, writes, erased>>

\* Mutant of Install: what was read is kept for the next time.
Install_KeepRead(passed) ==
    /\ pod.phase \in {"starting", "rebuilding", "pulled"}
    /\ log' = SubSeq(log, passed + 1, Len(log))
    /\ pod' = [phase |-> "up", view |-> pod.next.view,
               model |-> IF pod.phase = "pulled"
                         THEN Applied(pod.model, SubSeq(log, 1, pod.next.read))
                         ELSE pod.next.model,
               next  |-> pod.next]
    /\ UNCHANGED <<now, db, used, writes, erased>>

\* Under fleet.mu: the entries that were read are applied in order, or the new
\* model takes the place of the old one.  The cursor passes those entries that
\* were stable when they were read.
Install(passed) ==
    /\ pod.phase \in {"starting", "rebuilding", "pulled"}
    /\ log' = SubSeq(log, passed + 1, Len(log))
    /\ pod' = [phase |-> "up", view |-> pod.next.view,
               model |-> IF pod.phase = "pulled"
                         THEN Applied(pod.model, SubSeq(log, 1, pod.next.read))
                         ELSE pod.next.model,
               next  |-> NoRead]
    /\ UNCHANGED <<now, db, used, writes, erased>>

Tick ==
    /\ now < MaxTime
    /\ now' = now + 1
    /\ UNCHANGED <<db, used, writes, erased, log, pod>>

WriteStep ==
    \/ \E c \in CarIds, cell \in Cells : ListCar(c, cell)
    \/ \E c \in CarIds, cell \in Cells, b \in BOOLEAN : EditCar(c, cell, b)
    \/ \E r \in ResIds, c \in CarIds, w \in Windows, k \in Kinds : Book(r, c, w, k)
    \/ \E r \in ResIds : ConfirmHold(r) \/ CancelReservation(r)
    \/ \E x \in RecIds, c \in CarIds, w \in Windows : CreateSchedule(x, c, w)
    \/ \E x \in RecIds : DeactivateSchedule(x)
    \/ BenchTruncate \/ WipeTruncate \/ WipeCars

PodStep ==
    \/ Snapshot \/ Pull
    \/ \E passed \in 0 .. pod.next.read : Install(passed)

Next == WriteStep \/ PodStep \/ Tick

Spec == Init /\ [][Next]_vars

-----------------------------------------------------------------------------
(* Properties *)

TypeOK ==
    /\ now \in 0 .. MaxTime
    /\ \A c \in DOMAIN db.cars : c \in CarIds /\ db.cars[c] \in CarRow
    /\ \A r \in DOMAIN db.resv : r \in ResIds /\ db.resv[r] \in ResRow
    /\ \A x \in DOMAIN db.recs : x \in RecIds /\ db.recs[x] \in RecRow
    /\ \A c \in DOMAIN pod.model.cars : /\ pod.model.cars[c].cell \in Cells
                                        /\ pod.model.cars[c].busy \in SUBSET Busy
                                        /\ pod.model.cars[c].recurrences \in SUBSET Schedule
    /\ pod.next.read <= Len(log)

\* The maps of the model describe the same fleet: a car is in the bucket of its
\* cell and in no other, and the id maps lead to exactly the windows and
\* schedules of the cars that are there, each held once, so that the entry that
\* ends one finds it (fleet.go:45, "find the owning car when a change entry
\* removes a window or schedule").
IndexesAgree ==
    LET m == pod.model IN
    /\ m.cells = {<<m.cars[c].cell, c>> : c \in DOMAIN m.cars}
    /\ \A c \in DOMAIN m.cars :
          /\ {b.id : b \in m.cars[c].busy} =
                {r \in DOMAIN m.reservationCar : m.reservationCar[r] = c}
          /\ {x.id : x \in m.cars[c].recurrences} =
                {x \in DOMAIN m.recurrenceCar : m.recurrenceCar[x] = c}
          /\ \A a, b \in m.cars[c].busy : a.id = b.id => a = b

\* fleet.go:71, "mirroring the SQL filter": a car the fleet offers for a window
\* that has not begun is one that the tables, as the pod last read them, have
\* free, whatever entries were delivered again and whatever the snapshot raced with.
FoundIsFree ==
    pod.phase \notin {"down", "starting"} =>
        \A cell \in Cells, s \in now .. MaxTime, e \in 1 .. MaxTime + 1 :
            s < e => Offered(pod.model, cell, s, e) \subseteq Free(pod.view, cell, s, e)

\* The other way round: a free car is offered, or only windows and schedules
\* that a TRUNCATE removed without an entry keep it back.
FreeIsFound ==
    pod.phase \notin {"down", "starting"} =>
        \A cell \in Cells, s \in now .. MaxTime, e \in 1 .. MaxTime + 1 :
            s < e => \A c \in Free(pod.view, cell, s, e) :
                /\ <<cell, c>> \in pod.model.cells
                /\ Available([pod.model.cars[c] EXCEPT
                                 !.busy        = {b \in @ : b.id \notin erased},
                                 !.recurrences = {x \in @ : x.id \notin erased}], s, e)
=============================================================================
