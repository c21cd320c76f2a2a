------------------------------ MODULE Algorithms ------------------------------
(***************************************************************************)
(* The pure algorithms of the repository against references, one input at  *)
(* a time: search, repeating holds, prices, and the placing of seeded      *)
(* cars.  The state is the subject of a behaviour and the input examined.  *)
(***************************************************************************)
EXTENDS GridSearch, Recurrence, TripPrice, WaterMask

CONSTANTS
    Fleets, Queries,             \* sets of cars, and searches over them
    Schedules, WindowStarts, WindowLengths,
    Rates, Minutes,
    Masks, Places                \* coastlines, and points

\* What the tables and the handlers let through: ids are different, a page is one
\* the pager reaches, rates and durations are not negative.
ASSUME InputAssumption ==
    /\ \A cars \in Fleets :
          /\ IsFiniteSet(cars)
          /\ \A c \in cars : c.id \in Int /\ c.lat \in Int /\ c.lng \in Int /\ c.price \in Int
          /\ \A c, d \in cars : c.id = d.id => c = d
    /\ \A q \in Queries :
          q.lat \in Int /\ q.lng \in Int /\ q.range \in Nat /\ q.page \in 0 .. MaxPages - 1
    /\ Rates \subseteq Nat /\ Minutes \subseteq Nat

\* A schedule is shorter than its period (handlers.go:484).  Daylight saving lasts
\* longer than the zone is off from Greenwich, and so does the rest of the year.
\* Schedules and windows begin in the calendar, windows not in its last two years.
ASSUME ScheduleAssumption ==
    /\ \A r \in Schedules :
          /\ r.start \in Int /\ r.end \in Int /\ r.period \in {"weekly", "monthly", "yearly"}
          /\ r.start < r.end /\ r.end - r.start < Floor(r.period)
          /\ r.zone.offset \in Int
          /\ \A i \in r.zone.summers :
                /\ i[1] \in Int /\ i[2] \in Int /\ r.zone.offset < i[2] - i[1]
                /\ \A j \in r.zone.summers : i[1] < j[1] => r.zone.offset < j[1] - i[2]
          /\ Local(r.zone, r.start) \in Calendar
          /\ \A s \in WindowStarts : /\ Local(r.zone, s) \in Calendar
                                    /\ YearOf(MonthOf(Local(r.zone, s))) + 2 < Years
    /\ WindowStarts \subseteq Int /\ WindowLengths \subseteq Nat

\* Rings close (GeoJSON).  Turning an answer over at each crossing is right of coasts on
\* which no edge comes twice, for inWaterFrom counts it once, and lakes are on land.
ASSUME CoastAssumption ==
    /\ Places \subseteq Int \X Int
    /\ \A mask \in Masks :
          /\ IsFiniteSet(mask.land) /\ IsFiniteSet(mask.lakes) /\ mask.land \cap mask.lakes = {}
          /\ \A r \in mask.land \cup mask.lakes :
                /\ r \in Seq(Int \X Int) /\ r # <<>> /\ r[Len(r)] = r[1]
                /\ \A i, j \in 1 .. Len(r) - 1 :
                      <<r[i], r[i + 1]>> = <<r[j], r[j + 1]>> => i = j
          /\ \A p, q \in Edges(mask) : p[1] = q[1] => p = q
          /\ \A p \in Places : ~OnShore(mask, p[1], p[2]) /\ InsideAny(mask.lakes, p[1], p[2])
                              => InsideAny(mask.land, p[1], p[2])

VARIABLES subject, input

NoInput == [kind |-> "none"]

Init == subject \in {"search", "schedule", "trip", "city"} /\ input = NoInput

ExamineSearch ==
    /\ subject = "search" /\ input = NoInput
    /\ \E cars \in Fleets : input' = [kind |-> "search", cars |-> cars]

ExamineSchedule ==
    /\ subject = "schedule" /\ input = NoInput
    /\ \E r \in Schedules : input' = [kind |-> "schedule", schedule |-> r]

ExamineTrip ==
    /\ subject = "trip" /\ input = NoInput
    /\ \E rate \in Rates, minutes \in Minutes :
          input' = [kind |-> "trip", rate |-> rate, minutes |-> minutes]

ExamineCity ==
    /\ subject = "city" /\ input = NoInput
    /\ \E mask \in Masks, center \in Places :
          /\ ~OnShore(mask, center[1], center[2])
          /\ input' = [kind |-> "city", mask |-> mask, center |-> center]

Done == input # NoInput /\ input' = NoInput

Next ==
    /\ ExamineSearch \/ ExamineSchedule \/ ExamineTrip \/ ExamineCity \/ Done
    /\ UNCHANGED subject

Spec == Init /\ [][Next]_<<subject, input>>

-----------------------------------------------------------------------------
(* Search *)

\* fleet.go:147: the walk "stops once no unvisited cell can beat the page": in
\* whatever order equally near cells come, every page is the page of a scan of
\* the whole fleet.
PageIsExact ==
    input.kind = "search" =>
        \A q \in Queries : \A order \in CellOrders(q, input.cars) :
            Availability(q, input.cars, order) = ScanPage(q, input.cars)

\* handlers.go:282: "Total is how many cars the search matches, and Capped says
\* the real number is higher", whether the total comes from a short page or from
\* a count, on every page that is not past the end of the results.
TotalsAgree ==
    input.kind = "search" =>
        \A q \in Queries : \A order \in CellOrders(q, input.cars) :
            LET answer  == Answer(q, input.cars, order)
                matches == Cardinality(Matches(q, input.cars))
            IN  q.page * PageSize <= matches =>
                    /\ answer.total = Min({matches, PageSize * MaxPages})
                    /\ answer.capped = (matches > PageSize * MaxPages)

\* store.go:539: the SQL price search may return a short page, but "the cars it
\* does return are always the right ones in the right order".
PricePageIsPrefix ==
    input.kind = "search" =>
        \A q \in Queries : q.sort = "price" =>
            IsPrefix(SqlPricePage(q, input.cars), ScanPage(q, input.cars))

-----------------------------------------------------------------------------
(* Repeating holds *)

WindowsOf == {<<s, s + length>> : s \in WindowStarts, length \in WindowLengths}

\* schema.sql:12, recurrence.go:15: trying the occurrence guessed and its
\* neighbours finds an occurrence that meets the window whenever there is one.
GuessSuffices ==
    input.kind = "schedule" =>
        LET r == input.schedule IN
        \A w \in WindowsOf : /\ GoOverlaps(r, w[1], w[2]) = GoRecurs(r, w[1], w[2])
                             /\ SqlOverlaps(r, w[1], w[2]) = SqlRecurs(r, w[1], w[2])

\* recurrence.go:18, "both exactly like the SQL": the search and the booking
\* agree on a schedule while the session's TimeZone is UTC, where an interval of
\* days is of so many hours, and so does the in-memory store if the day is in
\* every month.  Excepted are schedules with an occurrence that begins in an hour the
\* wall clock skips or repeats: west of Greenwich Go and PostgreSQL read
\* such an hour differently, and the in-memory store never gets back to the hour
\* it was moved from.
ImplementationsAgree ==
    input.kind = "schedule" =>
        LET r     == input.schedule
            plain == ~BeginsAtJump(r)
            every == InEveryMonth(r)
        IN
        \A w \in WindowsOf :
            /\ plain \/ r.zone.offset >= 0
               => GoOverlaps(r, w[1], w[2]) = SqlOverlaps(r, w[1], w[2])
            /\ plain /\ every
               => MemOverlaps(r, w[1], w[2]) = SqlOverlaps(r, w[1], w[2])

-----------------------------------------------------------------------------
(* Prices *)

\* A price the search has quoted is never refused while the rate stands, and
\* whatever is booked costs no more than was agreed (schema.sql:218, frozen at
\* booking time).  A refusal names the price only if the price is to blame, save
\* for a rate at which the trip costs exactly half a cent more than a whole one.
QuoteHonoured ==
    input.kind = "trip" =>
        LET agreed == Quote(input.rate, input.minutes) IN
        \A rate \in Rates, scheduled \in BOOLEAN :
            LET answer == OrderAnswer(rate, input.minutes, agreed, scheduled) IN
            /\ rate <= input.rate => answer = IF scheduled THEN "owner_schedule_conflict" ELSE "booked"
            /\ answer = "booked" => Charge(rate, input.minutes) <= agreed
            /\ answer = "price_changed" /\ Exact(rate, input.minutes) % 60 # 30
               => Charge(rate, input.minutes) > agreed
            /\ answer = "owner_schedule_conflict" => scheduled

-----------------------------------------------------------------------------
(* Seeded cars *)

\* seed/main.go:156, "rejects water": no car is placed in water, though only the
\* centre pays for a ray cast, and a car is given up only in a city whose centre
\* is in water itself.
CarsAreDry ==
    input.kind = "city" =>
        \A points \in [1 .. MaxAttempts -> {p \in Places : ~OnShore(input.mask, p[1], p[2])}] :
            LET placed == SamplePoint(input.mask, input.center, points) IN
            IF placed = NoPoint
            THEN /\ InWater(input.mask, input.center[1], input.center[2])
                 /\ \A i \in 1 .. MaxAttempts : InWater(input.mask, points[i][1], points[i][2])
            ELSE ~InWater(input.mask, placed[1], placed[2])
=============================================================================
