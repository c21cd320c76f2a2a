------------------------------ MODULE Recurrence ------------------------------
(***************************************************************************)
(* Does a repeating owner hold meet a window?  The closed form of          *)
(* internal/fleet/recurrence.go and of cars.recurrence_overlaps, and the   *)
(* walk of the in-memory store, over a calendar in small: months of        *)
(* uneven length, leap years, and zones with daylight saving time.         *)
(*                                                                         *)
(* Times are integers, in hours.  A local time is what the clock on the    *)
(* wall shows, counted as if it never jumped.  The duration in SQL is an   *)
(* interval of days and hours (schema.sql:16), and is the same number of   *)
(* hours for every occurrence because the session's TimeZone is UTC.       *)
(***************************************************************************)
EXTENDS Integers, Sequences, FiniteSetsExt

CONSTANTS
    DayLen,      \* hours of a day
    WeekDays,    \* days of a week
    MonthDays,   \* days of each month, in a common year
    LeapMonth,   \* the month that is a day longer every second year
    Years        \* years of the calendar

ASSUME CalendarAssumption ==
    /\ DayLen \in Nat \ {0} /\ WeekDays \in Nat \ {0} /\ Years \in Nat \ {0}
    /\ MonthDays \in Seq(Nat \ {0}) /\ MonthDays # <<>>

-----------------------------------------------------------------------------
(* The calendar: months are numbered through all years *)

MonthsOfYear == Cardinality(DOMAIN MonthDays)

YearOf(month) == month \div MonthsOfYear

DaysIn(month) ==
    LET m == (month % MonthsOfYear) + 1
    IN  MonthDays[m] + (IF m = LeapMonth /\ YearOf(month) % 2 = 1 THEN 1 ELSE 0)

AllMonths == 0 .. Years * MonthsOfYear

MonthStart[month \in AllMonths] ==
    IF month = 0 THEN 0 ELSE MonthStart[month - 1] + DaysIn(month - 1)

LastDay == MonthStart[Years * MonthsOfYear] - 1

MonthOfDay ==
    [day \in 0 .. LastDay |->
        CHOOSE month \in AllMonths : /\ MonthStart[month] <= day
                                     /\ day < MonthStart[month] + DaysIn(month)]

\* The local times that the calendar has.
Calendar == 0 .. (LastDay + 1) * DayLen - 1

MonthOf(local) == MonthOfDay[local \div DayLen]

\* PostgreSQL's timestamp + n * interval '1 month': Jan 31 + 1 month is Feb 28.
SqlAddMonths(local, months) ==
    LET month == MonthOf(local) + months
        day   == (local \div DayLen) - MonthStart[MonthOf(local)]
        last  == DaysIn(month) - 1
    IN  (MonthStart[month] + (IF day > last THEN last ELSE day)) * DayLen + (local % DayLen)

\* Mutant of AddMonthsClamped: the day overflows into the next month.
AddMonthsClamped_Overflow(local, months) ==
    LET month == MonthOf(local) + months
        day   == (local \div DayLen) - MonthStart[MonthOf(local)]
    IN  (MonthStart[month] + day) * DayLen + (local % DayLen)

\* The port of that to Go.
AddMonthsClamped(local, months) ==
    LET month == MonthOf(local) + months
        day   == (local \div DayLen) - MonthStart[MonthOf(local)]
    IN  (MonthStart[month] + Min({day, DaysIn(month) - 1})) * DayLen + (local % DayLen)

\* time.AddDate: Jan 31 + 1 month is Mar 3.
AddMonths(local, months) ==
    LET month == MonthOf(local) + months
        day   == (local \div DayLen) - MonthStart[MonthOf(local)]
    IN  (MonthStart[month] + day) * DayLen + (local % DayLen)

-----------------------------------------------------------------------------
(* Zones: an offset and the intervals in which it is an hour more *)

InSummer(zone, t) == \E i \in zone.summers : i[1] <= t /\ t < i[2]

Offset(zone, t) == zone.offset + (IF InSummer(zone, t) THEN 1 ELSE 0)

Local(zone, t) == t + Offset(zone, t)

\* The instants at which the wall clock shows local: none in the hour that is
\* skipped, two in the hour that is repeated.
Instants(zone, local) ==
    {t \in {local - zone.offset, local - zone.offset - 1} : Local(zone, t) = local}

\* Go's time.Date: the offset is looked up as if local were UTC, and once more
\* if the result is not in the same part of the year.
GoInstant(zone, local) ==
    LET first == Offset(zone, local)
        utc   == local - first
    IN  IF first = 0 \/ InSummer(zone, utc) = InSummer(zone, local) THEN utc
        ELSE local - Offset(zone, utc)

\* PostgreSQL's AT TIME ZONE: standard time in the hour that is skipped and in
\* the hour that is repeated.
SqlInstant(zone, local) ==
    IF Instants(zone, local) = {} THEN local - zone.offset ELSE Max(Instants(zone, local))

-----------------------------------------------------------------------------
(* Schedules: records of zone, start, end (instants) and period *)

Week == WeekDays * DayLen

\* periodFloor: an occurrence is shorter than the shortest gap to the next.
Floor(period) ==
    CASE period = "weekly"  -> Week
      [] period = "monthly" -> Min({DaysIn(m) : m \in 0 .. MonthsOfYear - 1}) * DayLen
      [] period = "yearly"  -> MonthStart[MonthsOfYear] * DayLen

\* As many occurrences as the calendar has room for.
Occurrences(r) ==
    LET first == MonthOf(Local(r.zone, r.start))
    IN  CASE r.period = "weekly"  -> 0 .. LastDay \div WeekDays + 2
          [] r.period = "monthly" -> 0 .. Years * MonthsOfYear - 1 - first
          [] r.period = "yearly"  -> 0 .. Years - 1 - YearOf(first)

\* The quotient, rounded towards zero.
Quot(a, b) == IF a >= 0 THEN a \div b ELSE -((-a) \div b)

\* Local time of occurrence n, counted from the first.
GoOccurrence(r, n) ==
    LET first == Local(r.zone, r.start)
    IN  CASE r.period = "weekly"  -> first + n * Week
          [] r.period = "monthly" -> AddMonthsClamped(first, n)
          [] r.period = "yearly"  -> AddMonthsClamped(first, n * MonthsOfYear)

SqlOccurrence(r, n) ==
    LET first == Local(r.zone, r.start)
    IN  CASE r.period = "weekly"  -> first + n * Week
          [] r.period = "monthly" -> SqlAddMonths(first, n)
          [] r.period = "yearly"  -> SqlAddMonths(first, n * MonthsOfYear)

MeetsAt(r, s, e, at) == at < e /\ s < at + (r.end - r.start)

Guess(r, s, weeks) ==
    LET first  == Local(r.zone, r.start)
        window == Local(r.zone, s)
    IN  CASE r.period = "weekly"  -> weeks
          [] r.period = "monthly" -> MonthOf(window) - MonthOf(first)
          [] r.period = "yearly"  -> YearOf(MonthOf(window)) - YearOf(MonthOf(first))

\* Mutant of Near: only the occurrence guessed and those after it.
Near_NoneBefore(guess) == Max({guess, 0}) .. Max({guess + 2, 0})

\* The occurrences that are tried.
Near(guess) == Max({guess - 1, 0}) .. Max({guess + 2, 0})

GoOverlaps(r, s, e) ==
    LET delta == Local(r.zone, s) - Local(r.zone, r.start)
    IN  \E n \in Near(Guess(r, s, Quot(delta, Week))) :
            MeetsAt(r, s, e, GoInstant(r.zone, GoOccurrence(r, n)))

SqlOverlaps(r, s, e) ==
    LET delta == Local(r.zone, s) - Local(r.zone, r.start)
    IN  \E n \in Near(Guess(r, s, delta \div Week)) :
            MeetsAt(r, s, e, SqlInstant(r.zone, SqlOccurrence(r, n)))

\* memstore: each occurrence is counted from the one before.
Walked(r) ==
    LET after(at) ==
            LET local == Local(r.zone, at)
            IN  GoInstant(r.zone,
                   CASE r.period = "weekly"  -> local + Week
                     [] r.period = "monthly" -> AddMonths(local, 1)
                     [] r.period = "yearly"  -> AddMonths(local, MonthsOfYear))
        walk[n \in Occurrences(r)] == IF n = 0 THEN r.start ELSE after(walk[n - 1])
    IN  walk

MemOverlaps(r, s, e) ==
    LET walk == Walked(r)
    IN  \E n \in DOMAIN walk : /\ \A i \in 0 .. n : walk[i] < e
                               /\ s < walk[n] + (r.end - r.start)

-----------------------------------------------------------------------------
(* Reference *)

\* Any occurrence at all, in the one reading of local times and in the other.
GoRecurs(r, s, e) ==
    \E n \in Occurrences(r) : MeetsAt(r, s, e, GoInstant(r.zone, GoOccurrence(r, n)))

SqlRecurs(r, s, e) ==
    \E n \in Occurrences(r) : MeetsAt(r, s, e, SqlInstant(r.zone, SqlOccurrence(r, n)))

\* Some occurrence begins in an hour that the wall clock skips or repeats.
BeginsAtJump(r) ==
    \E n \in Occurrences(r) : Cardinality(Instants(r.zone, SqlOccurrence(r, n))) # 1

\* The schedule's day is in every month.
InEveryMonth(r) ==
    LET first == Local(r.zone, r.start)
    IN  (first \div DayLen) - MonthStart[MonthOf(first)] < Min({DaysIn(m) : m \in 0 .. MonthsOfYear - 1})
=============================================================================
