# carshare: TLA+ models, model checking and proofs

carshare is a car-sharing service: Go servers ("pods") behind HTTP, a Postgres
database that every pod writes, and in each pod an in-memory copy of the fleet
that answers searches. This directory holds TLA+ modules for the parts in which
ordering, locking and failure decide whether the service is correct, the TLC
configurations that check them on small instances, and TLAPS proofs of what
holds for instances of every size. `PROJECT.json` lists components, runs,
mutants, the source lines behind each definition, hazards and theorems.

    tlc -workers 2 -config booking_api.cfg MCBooking     # one run
    tlc -workers 2 -config app.cfg MCApp                 # another
    tlapm BookingProofs.tla                              # the proofs of one module;
    tlapm BookingLedgerProofs.tla                        # those of the modules it
    tlapm BookingLockProofs.tla                          # extends are checked apart
    tlapm AppProofs.tla
    tlapm FleetFeedProofs.tla
    tlapm FleetModelProofs.tla
    tlapm FleetSearchProofs.tla
    tlapm AlgorithmsProofs.tla

## 1. The system and its parts

| Component | State | Operations | Talks to | What makes it correct |
|---|---|---|---|---|
| Booking transactions (`internal/store/store.go`) | `cars.cars`, `cars.reservations`, `cars.recurrences`; per call: transaction, row locks, car lock | `OrderCar`, `ConfirmHold`, `CancelReservation`, `CreateCar`, `UpdateCar`, `CreateSchedule`, `DeactivateSchedule` | Postgres, called by the HTTP handlers | no instant of a car is sold twice; a booking that was answered stands; a retry finds the first booking; no call waits for ever |
| Constraints and locks (`db/schema.sql`) | exclusion constraint, unique index, advisory and row locks | what an insert, update or delete waits for and is refused by | every writer | the last line against double booking, also for writers that take no car lock |
| Tools beside the API (`cmd/bench`, `cmd/seed`) | the seed's coastline mask | plain `INSERT` of reservations, `TRUNCATE`, `DELETE` of all cars, placing of cars | the same tables, the log | cannot break what the constraints promise, nor leave a pod with what is gone; no car stands in water |
| Change feed (`internal/fleet/feed.go`, triggers in `schema.sql`) | `cars.fleet_log`, sequence, cursor and fleet of each pod | rebuild, pull, apply, prune, wake | the log is written inside every writer's transaction | a committed change is never skipped, never undone, and reaches every pod |
| Fleet model (`internal/fleet/fleet.go`, `apply` in `feed.go`) | slices and index maps of cars, windows, schedules | upsert and remove of one entry | feed, search | the maps agree with the rows; entries of unknown cars |
| Fleet search (`fleet.go`, `handlers.go`, `SearchCars` in the store) | grid of cells | `Availability`, `AvailabilityCount`, paging in the handler, the SQL search | fleet model | same cars as a full scan, page totals |
| Recurrence arithmetic (`recurrence.go`, `cars.recurrence_overlaps`, `memstore.go`) | none | does a repeating hold meet a window | search, booking | the occurrence guessed and its neighbours are enough; search and booking agree |
| Trip pricing | none | price of a trip in SQL and in Go | booking, search | the two roundings agree |
| Identity and sessions (`store.go`, `internal/auth`, `handlers_auth.go`) | `cars.users`, `cars.identities`, `cars.sessions` | sign-in, account creation, session lookup, logout | handlers | one account per identity, no orphans, every session is for the account of who signed in |
| In-memory store (`internal/store/memstore`) | maps under one mutex | all of `store.DataStore` | handlers, in the tests | answers as the Postgres store does |
| Booking metrics | `carshare_holds_expired_total` and others | `Add` in `OrderCar` | Prometheus | counts what its help text says |
| HTTP server | none of its own | routes, checks, error mapping | store, fleet | refuses malformed requests before the store sees them |
| Process lifecycle (`cmd/carshare`) | phases of start and shutdown, the double-booking monitor | start, serve, drain, `invariantLoop` | feed, store | serves only with a fleet; drains before it stops |
| Web client (`web/src/app`) | phases of the booking sheet, search state | hold, confirm, cancel, search | HTTP API | the sheet matches the ledger; a late answer does not replace a newer one |
| Deployment (`scripts/deploy.sh`) | recorded image tags | deploy, plan, rollback | Kubernetes | a rollback goes to a tag that ran |
| Configuration, logging, test database, Terraform | | | | not modelled: declarations, no protocol |

What is hard in this code:

* `OrderCar` is four to six SQL statements at READ COMMITTED. Each statement
  sees what is committed when it starts, but `now()` is the time the
  transaction began. Between any two statements others may commit.
* Five mechanisms keep two bookings apart: the car's advisory lock, the reap of
  lapsed holds, the precheck, the exclusion constraint and the unique index on
  idempotency keys. They overlap, and only some of them are needed for safety.
* Clients time out, retry under one key, and lose the answer of a commit that
  took effect.
* The change log has three orders: sequence number (taken when the trigger
  runs), `created_at` (the time the transaction began) and visibility (commit).
  A pod's cursor may only pass what no open transaction can still precede.
* The feed loop survives failed reads, failed rebuilds and restarts while other
  pods prune the log under it.
* A pull delivers the unstable tail of the log again and again, and a snapshot
  races with it: an entry is applied to a fleet that is already past it. `TRUNCATE`
  writes no entry at all.
* The same question (is the car free, does the hold recur, what does the trip
  cost) is answered in Go, in SQL and in the in-memory store, by different
  algorithms with different rounding, calendars and comparisons.
* The booking sheet, its calls, the session and the hold it shows all end on their
  own, in any order; calls are lost while their handlers run on.

`PROJECT.json` lists each such hazard at its line with the properties that watch
it.

## 2. Modules

### Booking.tla: the store's booking transactions

| Variable | In the code |
|---|---|
| `clock` | Postgres' clock |
| `cars`, `recs` | rows of `cars.cars`, `cars.recurrences` |
| `resv` | the heap of `cars.reservations`: *pending* rows belong to an open transaction, *reaped* rows are deleted and kept only to say what they were |
| `order` | for each connection, the `OrderCar` call it runs: next statement (`pc`), request, its `now()`, the rows its `DELETE` has locked, the row it inserted, the constraint error it met, its answer |
| `ahead` | for each connection, those it waits for in a car's advisory lock queue; Postgres serves the queue in order of arrival |
| `upd` | the `ConfirmHold` or `CancelReservation` call of each connection |

One action is one SQL statement with what the Go code does up to the next:

| Action | Code |
|---|---|
| `OrderBegin` | handler checks, `BEGIN`, lookup of the idempotency key, owner check |
| `OrderEnqueue`, `OrderReap` | `pg_advisory_xact_lock`, then the `DELETE` of lapsed holds |
| `OrderCheck` | the conflict precheck; `ErrConflict` rolls back |
| `OrderInsert` | the conditional `INSERT ... SELECT`, the wait for index entries in doubt, 23P01 and 23505 |
| `OrderClassify` | `classifyRejectedOrder`, from a newer snapshot |
| `OrderCommit` | `COMMIT`; its answer may be lost |
| `OrderReplay` | the lookup after a constraint error |
| `OrderAbort`, `UpdAbort` | the request context is cancelled or the connection dies |
| `UpdBegin`, `Confirm` | `ConfirmHold`'s conditional `UPDATE` |
| `Cancel`, `CancelCommit`, `CancelClassify` | `CancelReservation`'s `UPDATE`, commit, second read |
| `CreateCar`, `UpdateCar`, `DeactivateSchedule` | the owner's writes |
| `CreateSchedule`, `CommitSchedule`, `AbortSchedule` | the schedule's `INSERT`, which fixes `created_at`, and the end of its transaction: only then is the row seen, or gone |
| `RawInsert` | a tool's insert without the car lock (only in `OpsSpec`) |

Times and prices are natural numbers. Prices are whole; rounding is in
`TripPrice`. A recurrence is the set of all its occurrences. The lookup of the
idempotency key and the owner check read data that no step between them can make
inconsistent for the call, so they share a step with `BEGIN`; every later
statement has a step of its own. The `INSERT` with its index checks is one step
too: it happens once no clashing entry is in doubt, and a statement Postgres
gives up for a deadlock answers as `OrderAbort` does. `CancelCommit` is separate from `Cancel`
because other statements can meet the row lock in between.

### BookingLedger.tla: what callers are promised

No locks, statements or transactions: a booking appears in one step, takes the
place of lapsed holds in that same step, shares no instant of its car with
another booking that stays and no key with any row that stays, and then only
turns from a hold into a rental, or is cancelled. `Booking` implements it with
`book <- resv` without the pending rows (`LedgerSpec`).

The ledger says when a key is free again: when its hold has lapsed *and* a later
booking of the car has deleted it. Then a late retry under that key books a
second time. The code means it so (the lookup at `store.go:837` looks for a row of
any status, and a deleted row has none), so `RetriesAgree` excepts exactly that
case. A cancelled row keeps its key.

### BookingClaims.tla, BookingMetrics.tla

`BookingClaims` states what two comments say of `OrderCar` and the code does not
keep. `BookingMetrics` composes `Booking` with the counter of reaped holds, which
is added to before the transaction commits.

### FleetFeed.tla: the change feed

| Variable | In the code |
|---|---|
| `clock`, `lastSeq` | Postgres' clock, the sequence of `fleet_log.seq` |
| `log` | committed rows of `cars.fleet_log` |
| `db` | the committed content of each row |
| `txn` | the transaction of each writer: when it began, what entries it wrote |
| `pod` | phase of the feed loop, fleet and cursor served, snapshot or batch read and not yet swapped in |

A row's content is the sequence number of the entry that describes it. Every
writer is a transaction of the same form: begin, write rows (each takes the row
lock and then a sequence number), commit or roll back. `Snapshot`, `Pull`,
`Install`, `Wake`, `Prune`, `Fail`, `RebuildFail` and `Crash` are the steps of
`Start`, `rebuild`, `follow` and `pull`; a read and the critical section under
`fleet.mu` that installs it are two steps.

`MaxTxn` (how long a transaction stays open) and `MaxBehind` (how long a pod goes
without a successful read) are assumptions on the surroundings. Nothing in the
code enforces them. With `Lag` for `stabilityLag` (2 s) and `Retention` for
`logRetention` (24 h), TLC finds `NothingSkipped` to hold when

    Lag >= 2 * MaxTxn   and   MaxBehind + Lag <= Retention

and to fail past either bound (runs `claim_stability`, `claim_retention`). The
first is twice what one expects, because `created_at` is the *beginning* of the
writing transaction: an entry written at the end of a transaction of length
`MaxTxn` is already that old, and one that is still open may be as old again
when it commits.

### FleetModel.tla: what the entries say, and what a search then finds

`FleetFeed` shows that entries reach a pod and keeps nothing of what they say;
here is the other half.

| Variable | In the code |
|---|---|
| `now` | the clock of Postgres and of the pod |
| `db` | the rows of `cars.cars`, `cars.reservations`, `cars.recurrences` |
| `used`, `writes` | ids given, transactions done (bounds) |
| `erased` | rows a `TRUNCATE` removed, which fires no row trigger |
| `log` | `cars.fleet_log` past the pod's cursor |
| `pod` | phase of the feed loop; `model` is `Fleet` (cars with their windows and schedules, grid buckets, the two id maps); `next` is what was read and not yet swapped in; `view` is the tables at the last read that was installed |

`UpsertCar` ... `RemoveRecurrence` are the functions of those names in `feed.go`,
`Apply` is `apply`, `Load` is `rebuild`'s load. The writers are `ListCar`, `EditCar`,
`Book` (with the reap's `DELETE` entries), `ConfirmHold`, `CancelReservation`,
`CreateSchedule`, `DeactivateSchedule`, the benchmark's `TRUNCATE` and the two
statements of `seed -wipe`. `Book` inserts rentals, holds and the owner's blocks, and
asks of each what the code asks (the minute's grace for a start in the past is left
out). In `WipeCars` the entries of all cars come first and those of the rows that go
by the cascade after them, because the triggers on the rows are queued behind those
on the cars; so the rows' `DELETE`s reach a model that has forgotten the car, and
`RemoveWindow` and `RemoveRecurrence` return at their second test. A transaction is one step and the log is in order:
order, visibility, `Lag` and pruning are `FleetFeed`'s. What `FleetFeed` leaves of
them here is that `Install(passed)` may stop the cursor at any entry it has read,
so that any tail of the log is applied again to a fleet that has it already, or
on top of a snapshot that was taken past it.

### GridSearch, Recurrence, TripPrice, WaterMask and Algorithms.tla

Pure functions, each transcribed from the implementations the code has and
compared with a reference by `Algorithms`, whose only steps pick an input.

* `GridSearch`: `Availability`'s walk over cells in the order of their distance
  with its early stop, `AvailabilityCount`, the total a handler answers, and the
  price search in SQL with its over-fetch; the reference is a scan. Degrees are
  integers and distances squares, scaled by the denominator of the cosine: the
  order of distances is exact, and ties are as frequent as can be.
* `Recurrence`: the closed form of `recurrence.go` and of
  `cars.recurrence_overlaps`, and the walk of `memstore.go`; the reference is the
  set of all occurrences. The calendar is in small (three months of 4, 3 and 5
  days, a leap year every second, a daylight saving interval a year) and has what
  the real one has: clamped days, skipped and repeated hours, windows longer than
  a period. Go's and PostgreSQL's readings of a wall-clock time that does not
  exist, or exists twice, are modelled as their documentation and sources
  have them (external). The duration of a schedule in SQL is a day-hour `interval`
  (`schema.sql:16`), which is so many hours, as in Go, only while the session's
  `TimeZone` is UTC; nothing in the repository sets it, and the model takes the
  default of the Postgres images, UTC. A schedule is asked for as many occurrences as the calendar
  has room for, and daylight saving time is one hour, the unit of time.
* `TripPrice`: Go's `math.Round`, PostgreSQL's `round` of a `float8` (half to even)
  and the integer arithmetic of `classifyRejectedOrder`.
* `WaterMask`: the seed's placing of cars, which decides on water by the parity of
  coastline edges between a point and the city's centre; the reference is a ray
  cast.

### Identity.tla, DataStore.tla, App.tla: accounts, both stores, the booking sheet

`Identity` is sign-in (`UpdateUser`, `InsertIdentity` with its wait for the other
open transaction and the retry after 23505, `CommitSignIn`, `CreateSession`),
`UserOf` (`UserBySessionToken`), and logout. `DataStore` is the interface
`store.DataStore` with one step per call. `backend` is chosen in `Init` and stays:
"postgres" or "memory". The two differ where the code does: in the order of
refusals, in comparing with the instant of expiry, and in what becomes of a
lapsed hold. Memory leaves it where it is and books over it; the ledger of
`DataStore` shows such a hold (`superseded`) as deleted, and with that both
stores implement `BookingLedger`.

`App` puts the web client on top: `sheet` is the phase of `BookingSheet.tsx` in
each browser with the hold it shows, `calls` are requests between the click and
the answer. `Open`, `Close`, `Leave`, `Hold` and `Press` are what the user does,
`Serve` is a whole handler from `requireUser` to its answer, `Deliver` is what the
client makes of it, `Lose` is a request or an answer that is lost, of which
the browser may hear while the handler is still to run. `ActOnTrip` is the trips
page in another tab, `ScriptOrder` a client of the API that retries under its key.

## 3. What is checked

Each property has a mutant: a plausible bug in one mapped definition under which
TLC finds that property violated (`PROJECT.json`, "mutants").

| Run | Instance | Properties |
|---|---|---|
| `booking_api` | one car, two booking connections, one for confirm/cancel, three rows, clock 0..2, hold of length 1, two overlapping requests, one of them a hold that is retried under its key | `TypeOK`, `NoDoubleBooking`, `ConstraintIdle`, `AnswersAreDurable`, `LedgerSpec` |
| `booking_ops` | two cars under one key, the second listed during the run, a schedule, price and listing changes, owner blocks, a foreign owner, raw inserts; clock 0..1 | `NoDoubleBooking`, `RetriesAgree`, `SchedulesYieldOnlyToOlder`, `LedgerSpec` |
| `booking_live` | two cars under one key, two booking connections, one for confirm/cancel, `FairSpec` | `OrderAnswered`, `UpdateAnswered` |
| `feed` | two writers, two rows, one pod, two entries, `Lag` 2, `Retention` 4, transactions of length 1, clock 0..5, `FairSpec` | `TypeOK`, `NothingSkipped`, `NeverBackInTime`, `Converges` |
| `fleet` | two cars, two reservations, one schedule, two cells, two windows; four writing transactions, clock 0..2 | `TypeOK`, `IndexesAgree`, `FoundIsFree`, `FreeIsFound` |
| `algorithms` | 5832 fleets of three cars on six spots, searched at two ranges by price and by distance on two pages; schedules beginning at every hour of a year in three zones; nine rates by six durations; seeded points around an L-shaped coast with a lake and an island | `PageIsExact`, `TotalsAgree`, `PricePageIsPrefix`, `GuessSuffices`, `ImplementationsAgree`, `QuoteHonoured`, `CarsAreDry` |
| `app` | one person with two browsers, one of which books; a client of the API and the car's owner; two rows, one session token, two requests under way, clock 0..2; four states of the car; both stores | `TypeOK`, `OneAccount`, `RetrySuffices`, `HeldKeepsCar`, `ConfirmStands`, `LedgerSpec` |
| `claim_replay` | as `booking_api` | `DuplicatesAreReplayed`, violated |
| `claim_classify` | one car whose owner raises and lowers the price | `ScheduleConflictHasSchedule`, violated |
| `claim_metrics` | a hold and a rental that overlap only partly | `OnlyDeletedAreCounted`, violated |
| `claim_stability` | `feed` with transactions of length 2 | `NothingSkipped`, violated |
| `claim_retention` | two pods, one of which fails to read while the other prunes | `NothingSkipped`, violated |

Why the bounds are enough. The properties of bookings are about pairs of rows of
a car, pairs of calls with a key, or one row and one schedule. Three rows let a
lapsed hold, the booking that takes its place and a pending third row exist at
once. Two booking connections give every pairwise interleaving of their
statements, and the third connection adds row locks neither of them holds. The
clock passes the expiry of the first hold while a transaction that began before
the expiry is still open. What three or more connections can do to the rows is
covered by the proofs, which bound nothing. In the feed one pod is enough because pods
share only the log, and what another pod does to it (prune) the pod can do
itself at the same moments; `claim_retention` has two because the
counterexample there needs a pod that prunes while the other fails. Two writers and two entries are
needed to have an entry with a lower number commit later; two rows to have the
cursor carried past an entry by another row. Symmetry is used over connections,
row ids, writers and rows, in runs that check no liveness; `feed` and
`booking_live` use none.

In `fleet` two reservations let one be reaped, cancelled or wiped while the other
takes its place, two cars and two cells let a car move and an entry name a car
the model does not know, and four transactions are enough for: list, book,
change, and a change after that which the pod reads in the same or a later pull.
Cars, reservations and cells are symmetric. In `app` the two browsers race for
their person's first sign-in; two requests under way (sign-ins included) give a
second click, a lost answer and its repetition, or a call beside a sign-in; two
rows are a hold and the booking that would take its place; the clock passes the
end of the hold and of the session. The car's price, listing and schedule do not
change during a behaviour (`Booking` has that); what matters to the sheet is that
the price it was shown may differ from the car's. In `algorithms` the inputs
are exhaustive over the grids named in `MCAlgorithms`.

A bound on row ids (`IdsLeft`) only keeps calls from beginning when no id is left
for them. `booking_ops` disables the deadlock check: raw inserts may use up the
ids, and without fairness a model at its bounds simply stops. In `booking_api`
the check is on: a cycle of lock waits would show as a deadlock only if nothing
else could move, so the real statement about waits is `OrderAnswered`.

### What the properties say

* `NoDoubleBooking`: no instant of a car belongs to two confirmed rows; stated on
  instants and not with the range operator the code uses.
* `ConstraintIdle`: when only the API writes, the car lock, reap and precheck leave
  nothing for the exclusion constraint to refuse.
* `AnswersAreDurable`: a booking the caller was told of is committed, is the
  caller's, and is only ever deleted as a hold whose time has passed.
* `RetriesAgree`: two calls under one key that were both answered with a booking
  were answered with the same one, whichever of the first lookup, the insert or
  the replay answered.
* `SchedulesYieldOnlyToOlder`: a renter's booking that an active schedule overlaps
  was begun no later than the schedule was committed. Of `created_at` it would be
  false: that is when the schedule's statement began, and a booking that begins
  before its commit does not see it and is younger. Who lists the rows by
  `created_at` must not read off it which of the two yielded. In the model the
  property with `created` for `committed` fails after ten steps.
* `LedgerSpec`: refinement of `BookingLedger`.
* `OrderAnswered`, `UpdateAnswered`: every call is answered.
* `NothingSkipped`: a pod that follows the log serves a row's committed content, or
  the entry of that content is still in the log beyond the pod's cursor.
* `NeverBackInTime`: no re-delivered entry and no rebuild takes a served row back.
* `Converges`: a committed content, or a newer one, reaches each pod that stays up.
* `IndexesAgree`: grid buckets, id maps and the cars' own lists describe one fleet,
  whatever was applied again.
* `FoundIsFree`, `FreeIsFound`: what the pod offers for a window is what the tables,
  when it last read them, had free, and nothing free is withheld but for rows
  that a `TRUNCATE` removed. Windows that have begun are excepted from both:
  the fleet drops windows that are over although a search may begin `pastGrace`
  in the past.
* `PageIsExact`: the walk that stops early returns the page a full scan would, ties
  included, in every order the cells can be sorted in.
* `TotalsAgree`: the total is the number of cars, or is capped, on every page that is
  not past the end. (On one that is, the code answers the page's offset.)
* `PricePageIsPrefix`: the SQL price search may return too few cars but no wrong ones.
* `GuessSuffices`: trying the guessed occurrence and its neighbours misses none.
* `ImplementationsAgree`: search, booking and the in-memory store agree on a
  schedule. Excepted are occurrences that begin in an hour the wall clock skips
  or repeats, where Go and PostgreSQL do differ west of Greenwich, and for the
  in-memory store days that not every month has.
* `QuoteHonoured`: a price shown is not refused while the rate stands, nobody pays
  more than agreed, and a refusal names the price only if the price is to blame
  (excepted: a trip that costs exactly half a cent more).
* `CarsAreDry`: the parity test places no car in water.
* `OneAccount`: an identity has one account for good, no account is left without an
  identity, and a session is for the account of the person at the browser.
* `RetrySuffices`: the one retry after a lost race always succeeds.
* `HeldKeepsCar`: while the countdown of a sheet runs, nobody else gets the car,
  unless the user has cancelled the hold, in another tab for instance.
* `ConfirmStands`: a confirmation that was answered is a rental of the person who
  signed in, which nothing is booked over, however late the answer is heard.

### Fairness

`booking_live`: Postgres and the Go runtime run every statement whose turn it is
(weak fairness of `OrderStep`, `UpdStep`). No client is obliged to call or to give
up, and the clock need not move. Statements that wait for a row or an index entry
(`OrderReap`, `OrderInsert`, `Confirm`, `Cancel`) are strongly fair: Postgres
queues the waiter on the transaction it waits for and wakes it at its end, and
the waiter looks again before a new call gets through its round trips to its own
write. The advisory lock needs no such assumption; its queue is modelled.

`feed`: the loop's own steps are weakly fair (a Go loop on a ticker). Reads of the
database are strongly fair: they may fail again and again, but not all of them
for ever. Writers are not fair: they may stay open as long as `MaxTxn` allows.

### Disagreements between code and comments

1. `claim_replay`: a duplicate that queues behind the request that books is
   answered "conflict" by the precheck, although `store.go:781` means it to be
   replayed; the replay is only reached from a constraint error.
2. `claim_classify`: `store.go:799` says the classification reads the same
   snapshot; at READ COMMITTED it reads a newer one, so a refusal for the price
   can be answered `schedule_conflict` for a car without schedules.
3. `claim_metrics`: a refused booking rolls its reap back but has counted it, and
   each further attempt counts the same hold again.
4. `claim_stability`: `feed.go:211` relies on transactions being short compared
   with `stabilityLag`, which nothing enforces (an `OrderCar` call may queue for
   its car inside its transaction).
5. `claim_retention`: `feed.go:26` says a pod further behind than the retention
   rebuilds; a failed rebuild falls back to following the log from the old cursor.

### Met while modelling, without a run

* The sheet is taken away in the rendering that would show "Just taken" or
  "Booked" (`BookingSheet.tsx:38`): both start a new search, which closes it.
* Confirm stays enabled while its call is under way; a second click is answered
  "not found" after the first has booked, and the sheet offers the car again.
* A logout whose session could not be deleted is answered as a success; the token
  stays valid until it expires.
* `schema.sql:197` says that expired sessions are reaped; no code does that.
* The in-memory store answers a retry with the lapsed hold it was first answered
  with, even after it has booked over that hold.

## 4. What is proved

`BookingProofs.tla`, checked by TLAPS, for every set of users, cars,
connections, requests, row ids and for every value of the time constants:

* `TypeCorrect`: `Spec => []TypeOK`.
* `NoDoubleBookingOps`: `OpsSpec => []NoDoubleBooking`, tools without the car lock
  included.
* `NoDoubleBookingApi`: `Spec => []NoDoubleBooking`.

Assumptions: those in `Booking.tla` (a window is not empty, which the handler
checks; `NoRes` and `NoKey` are no ids; constants are natural numbers). TLC
evaluates them on every booking run.

`NoDoubleBooking` is not inductive: it says nothing of rows in flight. The
inductive invariant is `IInv == TypeOK /\ HeapInv /\ DisjointInv`:

* `HeapInv`: a transaction about to commit has one pending row, no two have the
  same one, every pending row has such a transaction, and the rows that calls
  have locked or named were committed.
* `DisjointInv`: two live rows (pending or confirmed) of a car overlap only while
  one is pending in a transaction that has deleted the other. This is what the
  exclusion constraint guarantees at insertion, where it overlooks rows the
  inserting transaction itself deleted, and what `COMMIT` needs: the new row
  and the deletion become visible in one step.

There is one lemma per action (`BeginIInv` ... `TickIInv`); those of the steps that
only move a call's `pc` share `AdvanceIInv`, and those that change calls alone
share `CallType` and `CallIInv`. `StepIInv` puts them together and `IInvDisjoint` derives `NoDoubleBooking`. The car lock (`ahead`) and
the precheck appear nowhere in the argument: they are not needed for safety,
which is what the comment "contention shedding, not correctness" says.

`BookingLedgerProofs.tla` goes on from there, for `OpsSpec`, so with tools that
write beside the API:

* `AnswersAreDurableAlways`: `OpsSpec => []AnswersAreDurable`.
* `RetriesAgreeAlways`: `OpsSpec => []RetriesAgree`.
* `LedgerImplemented`: `OpsSpec => LedgerSpec`, the refinement of `BookingLedger`.

One assumption is added, `ConnectionsAssumption`: a connection runs either
`OrderCar` calls or updates at a time, never both at once, so `Orderers` and
`Updaters` are disjoint names. The invariant is `JInv == IInv /\ LedgerInv`:

* `LockedInv`: what a call has deleted and not committed are committed holds of
  its car that had lapsed when its transaction began. The `DELETE` compares with
  `now()`, which is older than the clock: what had lapsed then has lapsed now.
* `PendingInv`: the row a call is about to commit is what its request asked for.
* `AnswerInv`: the row a caller was answered with is theirs, has their key, and
  was committed. For the first lookup and the replay this rests on `Visible`.
* `RowLockInv`: no row is locked by two transactions, so a commit never finds a row
  it has deleted or cancelled changed by another.
* `AgeInv`: no row is from the future, and what was reaped had lapsed.
* `KeyInv`: two rows of the unique index have one key only while one is pending in
  a transaction that has deleted the other. `RetriesAgree` follows: rows that were
  answered are not pending.

`LedgerStep` maps each step: `OrderCommit` to `Book!Book` with the deleted holds as
`gone` (`CommitBooks`; admissible by `DisjointInv` and `KeyInv`), `RawInsert` to
`Book!Book` with none, `Confirm` and `CancelCommit` to theirs, `Tick` to
`Book!Tick`, and all other steps, the insert and the rollback of a pending row
among them, to stuttering.

`BookingLockProofs.tla`, for `Spec`, the API alone:

* `ConstraintIdleAlways`: `Spec => []ConstraintIdle`.
* `SchedulesYieldAlways`: `Spec => []SchedulesYieldOnlyToOlder`.

Here the car lock is what the argument is about. `ApiInv == JInv /\ LockInv`:

* `QueueInv`: who runs under a car's lock waits for nobody, and of two calls queued
  for one car one waits for the other; so two calls under one lock are one
  (`OneHolder`).
* `ClearedInv`: a call under the lock has deleted every lapsed hold of its car and,
  past its precheck, every committed row in its way. Another call's commit cannot
  add a row in between, because that call would hold the same lock.
  `NothingClashes` follows: the insert meets no entry of the exclusion index.
* `ScheduleInv`: `SchedulesYieldOnlyToOlder` with the rows in flight; a schedule is
  committed at a time no row is younger than (`AgeInv`), and one that is not committed
  yet binds nobody, whatever its `created_at`.

Neither is a theorem of `OpsSpec`: a tool takes no lock and reads no schedule.
`booking_ops` checks `SchedulesYieldOnlyToOlder` all the same, and it passes
there only because the rows its tool inserts meet no schedule.

`FleetFeedProofs.tla`, for every number of pods, writers and rows:

* `TypeCorrect`: `Timing` implies `Spec => []TypeOK`.
* `NothingSkippedAlways`: `Timing` implies `Spec => []NothingSkipped`.
* `NeverBackInTimeAlways`: `Timing` implies `Spec => NeverBackInTime`.

`Timing` is the pair of inequalities of section 2 and `MaxTxn + Lag <= Retention`;
`feed.cfg` satisfies it, and the constants of the code (2 s and 24 h) do when no write
transaction stays open longer than one second and no pod goes a day without a
successful read. Without it the properties are false, as `claim_stability` and
`claim_retention` show. The invariant `IInv`:

* `TxnInv`, `LogInv`: an open transaction is at most `MaxTxn` old and its entries
  bear its start, so along the sequence `created_at` goes back by at most `MaxTxn`.
* `RowInv`: row locks make the entries of a row commit in sequence order, and the
  newest is the row's content. When pruning has taken it, the older entries of
  the row are almost old enough to be pruned themselves.
* `PodInv`: the fleet a pod serves and the one it is about to serve are `Current`:
  no open transaction can still write an entry at or before the cursor, and each
  row is `Covered`: served with its content, or its entry lies ahead of the
  cursor, or the content was stable when it was read and nothing older lies
  ahead. The last part is what keeps pruning from taking a row back in time.

`Max` and `Newest` are reasoned about through `MaxFact` and `NewestFact`; `MaxFact`
uses that the finite subsets of a finite set are well-founded, in place of an
induction.

`FleetModelProofs.tla`, for every set of cars, rows, cells and windows and every bound:

* `TypeCorrect`: `Spec => []TypeOK`.
* `IndexesAgreeAlways`: `Spec => []IndexesAgree`.

Assumption: `WindowAssumption`. `IndexesAgree` is about one model; that the next entry
finds the maps it needs is about the tables and the log as well. `IndexInv` has

* `Given`, `References`, `Owners`: no id is given twice, rows belong to cars that are
  there, and a row stays with its car in the tables, the log and the id maps.
* `LifeOfCar`: after the entry of a car's deletion the log has no entry of the car itself
  (those of its rows do follow), and while it has an entry of a deleted car it has
  that one too.
* `Agree` of the served model and of the one being built, and `Orphans`: `RemoveCar`
  leaves the id maps alone, so that they may know rows of a car that the model does
  not have. An `UpsertCar` of such a car would give it empty slices and break the
  agreement. It can still come: the tail of the log is delivered again to a model
  that has it already. But then the car is deleted and its `DELETE` comes again in
  the same batch, since the cursor only passes a prefix.

Hence within a batch the maps may disagree of a car, but only of one that the rest
of the batch removes: `BatchInv`, which `BatchStep` keeps from one entry to the next.
Each upsert and removal has a lemma that says what it makes of the model (`UpsertCarIs`,
...) and one that it keeps the agreement (`UpsertCarKeeps`, ...); `LoadAgrees` is about
snapshots; `WriteKeeps` gathers what the writers have in common; `WipeCarsIs` works out
the log of `seed -wipe`, with `SetToSeqsHas` and `EntriesFinite` for the two sequences it is
made of. `CountUp` is induction up to a bound, over a set, and with it `FoldExists` says
that the recursive function is what it should be.

`FleetSearchProofs.tla` goes on from `IndexInv`, under the same assumption:

* `FoundIsFreeAlways`: `Spec => []FoundIsFree`.
* `FreeIsFoundAlways`: `Spec => []FreeIsFound`.

`IndexInv` says that a model's maps agree, not with what. A model is built from a
snapshot that may hold more than the log had when the cursor was taken, and from
entries that may come again, so an older entry can overwrite a newer row. What saves
it is that a later entry of the row is then still to come. `MirrorInv` has

* `Mirrors` of the served model and of the one being built: it has the cars of the
  tables it stands for, their cells and listings, every window and schedule that
  counts there, and no other but for rows that a `TRUNCATE` took.
* `Accounted`: a row that the log past a cursor says nothing of is the same in the
  tables read and in those of now, or a `TRUNCATE` took it; a car that is only in
  those of now has its `INSERT` there.
* `LastWord`: the last entry about a row is what the tables have.
* `CarsFirst`: entries about the rows of a car come after the one that added the car;
  so a window never reaches a model that does not know its car yet, where
  `UpsertReservation` would drop it.

A write is a list of entries that `Tells` how the tables change; `TellKeeps` is what all
the writers have in common, and the lemmas from `TellCar` to `TruncateTells` show that
each of them tells. A batch goes on from one entry to the next with `Toward`: what the
rest of the batch is silent about, the model has as the tables read at its end have it. At
the start that is `Accounted`, at the end it is `Mirrors`. In between an entry is the
last word on its row, or another one comes. `NotRemoved` shows that a car of the tables
read is not removed by the batch, hence by `BatchInv` its maps agree throughout.

`AppProofs.tla`, for `App` with every set of browsers and persons, either store
and every bound. First, accounts:

* `OneAccountAlways`: `Spec => []OneAccount`.
* `RetrySufficesAlways`: `Spec => []RetrySuffices`.

Assumptions: `IdentityAssumption` (every browser's person is one of `Persons`, and
`NoOne` is neither an account nor a token). `OneAccount` says nothing of the
transactions under way; `AccountInv` adds

* `FlightInv`: a first sign-in past its first `INSERT` has a pending user that no
  other has, is a first attempt, and once past the second `INSERT` is alone for its
  identity, which is not yet known. A second attempt is only made when the
  identity is known: hence it takes the update path and is never refused. This
  rests on the `INSERT`'s wait for the other open transaction.
* `KnownInv`: tokens in cookies have been given, and to an account.
* `ShapeInv`: the types.

Again one lemma per action; those that link no identity share `LinksNothing`, the
two that roll back `RollbackInv`, and `StutterAccountInv` covers everything the
sheet, the bookings and the clock do.

Then the sheet and the stores, going on from `AccountInv`:

* `TypeCorrect`: `Spec => []TypeOK`.
* `HeldKeepsCarAlways`: `Spec => []HeldKeepsCar`.
* `ConfirmStandsAlways`: `Spec => []ConfirmStands`.
* `LedgerImplemented`: `Spec => LedgerSpec`, the refinement of `BookingLedger` by either
  store, with `Standing` as the ledger's book.

Assumptions: `StoreAssumption` and `AppAssumption` (windows of natural numbers that
are not empty, orders of the three kinds the API knows, `NoRes` no reservation).
The invariant is `SInv == AccountInv /\ StoreInv /\ SheetsInv /\ CallsInv`:

* `StoreInv`: rows are numbered without gaps; what was reaped, or superseded in
  memory, had lapsed; bookings that count do not overlap (`ApartInv`) and no two
  rows have one key (`KeysInv`). That a lapsed hold is never confirmed is where the
  two stores' comparisons of instants (`<=` and `<`, `>` and `>=`) have to agree.
* `SheetsInv`: the hold a sheet shows is a row of the trip, whatever became of it.
* `CallsInv`: a call's token was given to its browser, and its session is of the
  account of the person there (`TokenOf`); the row an order or a confirmation was
  answered with is of the trip, or a rental of that account.

`Steady` says what no step takes back (a row's window and booker, an identity's
account, a given token), and `SteadyFacts` that these facts survive any step;
`StoreStep` does the same for the three operations of the store, which turn rows
(`Turns`) or write one (`Written`). Each step then has only to say which sheet and
which call it changes.

`AlgorithmsProofs.tla`, for every fleet, query, rate, duration, latitude (as the fraction
its cosine is) and size of cells, pages and candidate lists, for every schedule, window,
zone and calendar, and for every coast, place and number of attempts:

* `PageIsExactAlways`: `Spec => []PageIsExact`.
* `TotalsAgreeAlways`: `Spec => []TotalsAgree`.
* `PricePageIsPrefixAlways`: `Spec => []PricePageIsPrefix`.
* `QuoteHonouredAlways`: `Spec => []QuoteHonoured`.
* `GuessSufficesAlways`: `Spec => []GuessSuffices`.
* `ImplementationsAgreeAlways`: `Spec => []ImplementationsAgree`.
* `CarsAreDryAlways`: `Spec => []CarsAreDry`.

Assumptions: `SearchAssumption` (sizes are positive, a cosine is more than 0 and at most 1)
and `InputAssumption` (the cars of a fleet are finitely many and have different ids, as
the primary key sees to; a page is one that `handleAvailability` lets through; rates and
durations are natural numbers). The state is only the input, and the invariant
`InputInv` that it is one of those given; the rest is about the operators:

* `Ordered`, `RankFact`, `SortedFact`: the comparators are strict total orders on a fleet,
  so the number of cars before a car is a bijection onto places, and `Sorted` puts each
  car at its place. No induction is needed.
* `SameHead`: two sorted sets begin alike for as long as neither has a car the other
  lacks before one of that head. This is why an early stop is harmless and why
  candidates may be cut before those that are booked are dropped.
* `CellIsNear`, `InCells`: a cell is no farther than what is in it, and whatever is in
  range is in a cell of the span searched: `DivBetween` for the rounding of rows and
  columns, `SquareGrows` and `SquareWithin` for distances. Degrees are exact here, as
  in the model.
* `OrderFact`, `FoundFact`, `StopFact`: every cell is in every order, nearer ones first;
  what a walk has not found is in a cell it has not come to.

For repeating holds the assumptions are `CalendarAssumption` (there is a month, each has
a day, and so on; which month leaps is free) and `ScheduleAssumption`: an occurrence is
shorter than the floor of its period, as `handlers.go:484` demands; schedules and
windows begin within the calendar, windows not in its last two years, since a calendar of
the model ends somewhere; daylight saving time and the rest of the year both last longer
than a zone is off from Greenwich, hours against months. The steps:

* `StartFact`, `MonthOfIn`, `MonthUnique`: the recursive function `MonthStart` exists and
  counts up, so every local time is in one month. Induction is over a set of numbers up
  to a bound (`CountUp`, from the least that is missing), which the provers can do.
* `ClampedAlike`: the two ways to add months are one, and lead to the month that many
  later however the day is clamped; unclamped days add up.
* `MonthGap`, `YearGap`, `WeekFact`: a month, year or week is at least as long as the floor
  of the period. A year is compared with the first one month by month: only
  that the first has no leap day is used, not which of the others have.
* `GuessReaches` is the reason why the guess suffices, for all periods at once. Occurrence
  `n` begins in block `n` on the clock, and as an instant up to an hour earlier; the
  window begins in block `g`. What is more than one block before `g` ends before the
  window, by the floor and that hour. If something more than two after `g` meets the
  window then so does block `g + 1`, or the first occurrence if `g` is negative. `GuessIs`:
  Go's quotient, rounded towards zero, is such a `g` too.
* `ReadAlikeOnce`, `ReadAlikeEast`: Go's two lookups of the offset and PostgreSQL's reading
  give one instant when the clock shows the time once, and at or east of
  Greenwich always.
* `WalkIs`, `WalkAgrees`: the in-memory walk is the list of occurrences, by uniqueness of
  what the recursion defines, and in order, so that stopping early misses none.

For the placing of cars the assumption is `CoastAssumption`, of the coastline files and not
of the code, which does not look: places are points of the plane (the grid of doubles is
one of integers); there are finitely many rings, each closed, none is land and lake; no
edge comes twice, in one ring or in two; and a lake is on land wherever a place is.
`inWaterFrom` is right only of such coasts. An edge drawn twice is met twice by the ray of
`insideAny` and counted once by `inWaterFrom`, which keeps the edges it has seen; and the
shore of a lake out at sea, or of a pond reaching over the beach, is a crossing that turns
the answer over where there is water on both sides. An edge that two rings run through in
opposite directions is two edges for the code, and is allowed. Products are exact here: of
a point that is off a shore by less than the rounding of doubles the theorem says nothing.
The steps:

* `WalkChanges`, `RingChanges`, `ChangesEven`: for any set of points, a closed ring enters
  it as often as it leaves it, so the edges with one end in the set are even in number, in a
  ring and in all of them. Induction is over the positions of a ring and over how many
  rings there are, by `CountUp`.
* `EdgeFlips`: for an edge that neither of two points lies on, the segment between them and
  the two rays together meet it an odd number of times if and only if one end of the edge
  is in `Strip`, what lies between the two rays and beyond the segment, and the other end is
  not. `StripChanges` is that by signs of products, once for a point above the other and
  for both orders of the two; the rule for an end on the segment's line is only that both
  its sides will do, which is why the half-open tests `> 0` of `segmentsCross` and the
  half-open ray agree. `LevelChanges` is the case of two points on one level.
  `OffFact`: what is not on the edge is not on the side 0 of it where that matters.
* `CellsMeet`: a crossed edge has a cell in common with the segment, since the point they
  share is a mean of the ends of either (`MeansMeet`) and rounding down is monotone; so
  the grid hides no crossing, and `CrossingsAre` counts each edge once.
* `DryIsOdd`, `FlipsAnswer`, `SampleIsDry`: with lakes on land a point is dry if its ray
  meets an odd number of edges of land and lakes together, so the edges crossed, turned
  over, are the answer of the ray cast from the other point.

Every safety invariant and action property that a passing run checks is a theorem.
Model-checked only: liveness (`OrderAnswered`, `UpdateAnswered`, `Converges`), which is out
of the prover's reach, as is ENABLED.

## 5. What is not modelled

* Foreign keys with `ON DELETE CASCADE` in `Booking`: nothing deletes a user, and
  only `seed -wipe` deletes cars, which is in `FleetModel`.
* The fields of a car that no booking or search decision reads, trip listings and
  other read-only queries, JSON, routing, logging, middleware, the load
  generator's measurements, Terraform.
* The search, cars and calendar of the in-memory store, which scan their maps.
* The distance order of the SQL search, and the conversion of a grid column to
  `int32` near a pole: both are about floating-point degrees and metres. No
  request is served by the SQL search, and `GridSearch` is at one latitude.
* The order of answers to two searches in `SearchPage.tsx`; `App` keeps only what a
  search does to the sheet.
* Google's OAuth: who the provider says one is comes as an input to `SignIn`.
* Start, drain and the monitor of double bookings in `cmd/carshare`, save for what
  the feed sees of a pod's start and death; `scripts/deploy.sh`.

A crash of Postgres is seen by a call as `OrderAbort` or as a commit whose answer
is lost. Postgres' deadlock detection is an `OrderAbort` too, which no fairness
obliges to happen: a cycle of waits would show as a call that is never answered.

## 6. Plan

Done: the booking transactions with their ledger, constraints and tools, the
change feed, the fleet, the algorithms, accounts with their proofs, both stores and
the sheet.
Left, in this order:

1. `Deploy`: tags, plan and rollback. `Lifecycle`: start, drain, and the monitor of
   double bookings as a reader of `Booking`'s rows.
