------------------------------ MODULE Calendar ------------------------------
(***************************************************************************)
(* The calendar of the export schedules (src/export/timeutil.cpp) and the  *)
(* scheduler worker's use of it (src/export/export_scheduler.cpp): when a  *)
(* nightly, weekly or monthly export runs next, and which instants belong  *)
(* to a local month.                                                       *)
(*                                                                         *)
(* Time is counted in hours: the schedules' minutes and the seconds add    *)
(* nothing but finer steps.  A zone is two offsets from UTC and the        *)
(* instant the first gives way to the second (a constant zone has the same *)
(* offset twice).  mktime with tm_isdst = -1 is free to choose at a local  *)
(* time that occurs twice or never.                                        *)
(***************************************************************************)
EXTENDS Integers, FiniteSets

CONSTANTS
  Years,      \* years the runs fall into
  Zones,      \* [before, after : Int, at : Int], in hours
  Schedules,  \* [kind, day, time]: a row's schedule columns
  Starts,     \* instants at which a worker may start
  Horizon     \* bound: no instant after it is looked at

ASSUME CalendarAssumption ==
  /\ Years \subseteq Nat /\ Starts \subseteq Nat /\ Horizon \in Nat
  /\ Zones \subseteq [before : -12..14, after : -12..14, at : Nat]
  /\ Schedules \subseteq [kind : {"nightly", "weekly", "monthly"}, day : Int, time : Int]

VARIABLES
  zone, plan,  \* the sensor's zone and the target's schedule
  clock,       \* utc_now()
  phase,       \* the worker computes its wait, or waits
  asked, due,  \* the instant of the last computation, and its result
  odd          \* it met a local time that occurs twice or never

calendarVars == <<zone, plan, clock, phase, asked, due, odd>>

-----------------------------------------------------------------------------
(* The civil calendar, as the C library has it.  Months are 0..11, and     *)
(* months and days beyond their range are carried over.                    *)

Leap(y) == y % 4 = 0 /\ (y % 100 # 0 \/ y % 400 = 0)

DaysBefore(y) == 365 * (y - 1) + (y - 1) \div 4 - (y - 1) \div 100 + (y - 1) \div 400

MonthStarts == << 0, 31, 59, 90, 120, 151, 181, 212, 243, 273, 304, 334 >>

(* The number of a day, counted from 1 January of the year 1, a Monday. *)
DayNumber(year, mon, mday) ==
  LET y == year + mon \div 12
      m == mon % 12
  IN  DaysBefore(y) + MonthStarts[m + 1] + (IF Leap(y) /\ m >= 2 THEN 1 ELSE 0) + mday - 1

DayRange == UNION {DaysBefore(y)..(DaysBefore(y + 1) - 1) : y \in Years}

(* The years hold every day that is looked at: those of two months before  *)
(* and after a run.                                                        *)
ASSUME YearsAssumption ==
  \E first, last \in Years :
    /\ Years = first..last
    /\ Starts \subseteq (24 * (DaysBefore(first) + 80))..Horizon
    /\ Horizon + 24 * 80 <= 24 * DaysBefore(last + 1)

Civil ==
  [d \in DayRange |->
     LET y == CHOOSE y \in Years : DaysBefore(y) <= d /\ d < DaysBefore(y + 1)
         m == CHOOSE m \in 0..11 : DayNumber(y, m, 1) <= d /\ d < DayNumber(y, m + 1, 1)
     IN  [year |-> y, mon |-> m, mday |-> d - DayNumber(y, m, 1) + 1, wday |-> (d + 1) % 7]]

Offset(t) == IF t < zone.at THEN zone.before ELSE zone.after

LocalDay(t)  == (t + Offset(t)) \div 24
LocalHour(t) == (t + Offset(t)) % 24

(* local_tm: localtime_r in the zone. *)
LocalTm(t) == Civil[LocalDay(t)]

(* The instants at which the local clock shows an hour of a day. *)
Readings(day, hour) ==
  {t \in {24 * day + hour - zone.before, 24 * day + hour - zone.after} :
     LocalDay(t) = day /\ LocalHour(t) = hour}

(* tz_mktime: one of them; where there is none, the hour by either offset. *)
TzMktime(day, hour) ==
  IF Readings(day, hour) # {} THEN Readings(day, hour)
  ELSE {24 * day + hour - zone.before, 24 * day + hour - zone.after}

-----------------------------------------------------------------------------
(* parse_hhmm: 06:00 on anything malformed. *)
ParseHhmm(time) == IF time \in 0..23 THEN time ELSE 6

(* Each schedule has a first and a second day to try, from today's.        *)

(* next_local_hhmm_utc: today, else tomorrow. *)
TryNightly(tm) ==
  << DayNumber(tm.year, tm.mon, tm.mday), DayNumber(tm.year, tm.mon, tm.mday + 1) >>

(* next_local_weekly_utc: this week's day, or the next one's. *)
TryWeekly(tm, day) ==
  LET wday  == IF day < 0 THEN 0 ELSE IF day > 6 THEN 6 ELSE day
      delta == (wday - tm.wday + 7) % 7
  IN  << DayNumber(tm.year, tm.mon, tm.mday + delta),
         DayNumber(tm.year, tm.mon, tm.mday + delta + 7) >>

(* Fault: the last day of the next month is looked for one month early. *)
TryMonthlyStays(tm, day) ==
  IF day <= 0
  THEN << DayNumber(tm.year, tm.mon + 1, 0), DayNumber(tm.year, tm.mon + 1, 0) >>
  ELSE << DayNumber(tm.year, tm.mon, day), DayNumber(tm.year, tm.mon + 1, day) >>

(* next_local_monthly_utc: the last day of the month (day 0 of the next)   *)
(* for a day of 0 or less, and no day after the 28th.                      *)
TryMonthly(tm, day) ==
  LET mday == IF day > 28 THEN 28 ELSE day IN
  IF day <= 0
  THEN << DayNumber(tm.year, tm.mon + 1, 0), DayNumber(tm.year, tm.mon + 2, 0) >>
  ELSE << DayNumber(tm.year, tm.mon, mday), DayNumber(tm.year, tm.mon + 1, mday) >>

Try(now) ==
  CASE plan.kind = "nightly" -> TryNightly(LocalTm(now))
    [] plan.kind = "weekly"  -> TryWeekly(LocalTm(now), plan.day)
    [] plan.kind = "monthly" -> TryMonthly(LocalTm(now), plan.day)

(* if (cand <= now): the second. *)
FirstAfter(now, first, second) ==
  {c \in first : c > now} \cup (IF \E c \in first : c <= now THEN second ELSE {})

NextRuns(now) ==
  LET h == ParseHhmm(plan.time) IN
  FirstAfter(now, TzMktime(Try(now)[1], h), TzMktime(Try(now)[2], h))

(* Fault: every month has thirty days. *)
MonthEnds30(now) ==
  LET tm == LocalTm(now) IN {t - 1 : t \in TzMktime(DayNumber(tm.year, tm.mon, 31), 0)}

(* local_month_bounds_utc: midnight of the 1st, and one tick before that   *)
(* of the next month.                                                      *)
MonthBegins(now) ==
  LET tm == LocalTm(now) IN TzMktime(DayNumber(tm.year, tm.mon, 1), 0)

MonthEnds(now) ==
  LET tm == LocalTm(now) IN {t - 1 : t \in TzMktime(DayNumber(tm.year, tm.mon + 1, 1), 0)}

(* local_ym *)
LocalYm(t) == <<LocalTm(t).year, LocalTm(t).mon>>

-----------------------------------------------------------------------------
CalendarInit ==
  /\ zone \in Zones /\ plan \in Schedules /\ clock \in Starts
  /\ phase = "compute" /\ asked = 0 /\ due = 0 /\ odd = FALSE

(* The worker computes its wait, of a second at least. *)
ComputeWait ==
  /\ phase = "compute" /\ phase' = "wait"
  /\ \E next \in NextRuns(clock) : due' = IF next - clock < 1 THEN clock + 1 ELSE next
  /\ asked' = clock
  /\ odd' = \E i \in 1..2 : Cardinality(Readings(Try(clock)[i], ParseHhmm(plan.time))) # 1
  /\ UNCHANGED <<zone, plan, clock>>

(* The wait is over, the export runs, for some time. *)
RunDue ==
  /\ phase = "wait" /\ phase' = "compute"
  /\ clock' \in {due, due + 1} /\ clock' <= Horizon
  /\ UNCHANGED <<zone, plan, asked, due, odd>>

CalendarNext == ComputeWait \/ RunDue

CalendarSpec == CalendarInit /\ [][CalendarNext]_calendarVars

-----------------------------------------------------------------------------
(* The days a schedule means. *)
Meant(d) ==
  CASE plan.kind = "nightly" -> TRUE
    [] plan.kind = "weekly"  -> \/ Civil[d].wday = plan.day
                                \/ plan.day < 0 /\ Civil[d].wday = 0
                                \/ plan.day > 6 /\ Civil[d].wday = 6
    [] plan.kind = "monthly" -> \/ Civil[d].mday = plan.day /\ plan.day <= 28
                                \/ Civil[d].mday = 28 /\ plan.day > 28
                                \/ Civil[d + 1].mday = 1 /\ plan.day <= 0

(* The instants from one to another. *)
Between(a, b) == (a..b) \cup (b..a)

(* The next run is the first instant after now at which the sensor's local *)
(* clock shows the scheduled hour of a day the schedule means, across      *)
(* month ends, leap days, year ends and changes of the offset.  Where that *)
(* local time occurs twice or never, it is in the future and no further    *)
(* off than the change of the offset.                                      *)
NextRunRight ==
  phase = "wait" =>
    LET h == ParseHhmm(plan.time) IN
    /\ due > asked
    /\ \E d \in (LocalDay(due) - 2)..(LocalDay(due) + 2) :
         Meant(d) /\ due \in Between(24 * d + h - zone.before, 24 * d + h - zone.after)
    /\ ~odd => /\ Meant(LocalDay(due)) /\ LocalHour(due) = h
               /\ \A d \in LocalDay(asked)..LocalDay(due) :
                    Meant(d) => \A t \in Readings(d, h) : t <= asked \/ t >= due

(* The bounds of a month hold exactly the instants whose local month it    *)
(* is, unless the offset changes at the very midnight the month begins or  *)
(* ends: run_export rebuilds and names the files by them.                  *)
MonthBoundsExact ==
  LET tm   == LocalTm(clock)
      edge == {DayNumber(tm.year, tm.mon, 1), DayNumber(tm.year, tm.mon + 1, 1)}
  IN  (\A d \in edge : Cardinality(Readings(d, 0)) = 1) =>
        \A s \in MonthBegins(clock), e \in MonthEnds(clock) :
          /\ LocalYm(s) = LocalYm(clock) /\ LocalYm(s - 1) # LocalYm(clock)
          /\ LocalYm(e) = LocalYm(clock) /\ LocalYm(e + 1) # LocalYm(clock)
=============================================================================
