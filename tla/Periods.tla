-------------------------------- MODULE Periods --------------------------------
(***************************************************************************)
(* The arithmetic of RevenueService.getStatisticsData: which period it     *)
(* reports, with which period before it the report is compared, and what   *)
(* that comparison counts twice or leaves out.                             *)
(*                                                                         *)
(* Days are numbered from 1 January of Year0.  Days have Parts instants,   *)
(* the first is 00:00:00.000, the last 23:59:59.999, so the end of a day   *)
(* is one instant before the next day, as it is in milliseconds.  The      *)
(* server's clock has no daylight saving time.                             *)
(***************************************************************************)
EXTENDS Integers

CONSTANTS
  Year0,      \* the first year of the calendar
  Weekday0,   \* of its first day; Monday is 0
  Months,     \* months of the calendar
  Parts,      \* instants of a day
  None

ASSUME CalendarAssumption ==
  /\ Year0 \in Nat /\ Weekday0 \in 0 .. 6
  /\ Months \in Nat \ {0, 1} /\ Parts \in Nat \ {0, 1}
  /\ None \notin Int

-------------------------------------------------------------------------------
(* The calendar of JavaScript's Date: a month counts from Year0, and a day   *)
(* of the month beyond its end is a day of the next one.                     *)

LeapYear(y) == y % 4 = 0 /\ (y % 100 # 0 \/ y % 400 = 0)

Length(m) ==
  LET i == m % 12 IN
  IF i = 1 THEN IF LeapYear(Year0 + m \div 12) THEN 29 ELSE 28
  ELSE IF i \in {3, 5, 8, 10} THEN 30 ELSE 31

FirstDay[m \in 0 .. Months] ==
  IF m = 0 THEN 0 ELSE FirstDay[m - 1] + Length(m - 1)

MonthOf(d) ==
  CHOOSE m \in 0 .. Months - 1 : FirstDay[m] <= d /\ d < FirstDay[m + 1]

DayOfMonth(d) == d - FirstDay[MonthOf(d)]

DayOf(t) == t \div Parts
StartOfDay(t) == DayOf(t) * Parts
EndOfDay(t) == StartOfDay(t) + Parts - 1

\* Slip to catch: a month is thirty days.
ThirtyDaysBefore(t) == t - 30 * Parts

\* Date.setMonth(getMonth() - 1) keeps day and time.
MonthBefore(t) ==
  (FirstDay[MonthOf(DayOf(t)) - 1] + DayOfMonth(DayOf(t))) * Parts
    + (t % Parts)

\* EXTRACT(WEEK): the week belongs to the year of its Thursday.
Monday(d) == d - ((d + Weekday0) % 7)

\* Slip to catch: weeks are counted from the first of January.
WeekOfYear(d) == (d - FirstDay[(MonthOf(d) \div 12) * 12]) \div 7 + 1

Week(d) ==
  LET thursday == Monday(d) + 3
      january == (MonthOf(thursday) \div 12) * 12
  IN  (thursday - FirstDay[january]) \div 7 + 1

-------------------------------------------------------------------------------
(* The period that is asked for, and the one it is compared with. *)

Types == {"week", "month", "custom"}

\* from and to are midnights, or None.  `Includes today', says the code of the
\* six days.
Period(type, asked, from, to) ==
  CASE type = "week" -> [start |-> asked - 6 * Parts, end |-> EndOfDay(asked)]
    [] type = "month" ->
         LET m == MonthOf(DayOf(asked)) IN
         [start |-> FirstDay[m] * Parts, end |-> FirstDay[m + 1] * Parts - 1]
    [] type = "custom" ->
         [start |-> IF from = None THEN MonthBefore(asked) ELSE from,
          end   |-> EndOfDay(IF to = None THEN asked ELSE to)]

WholeDays(start, end) == [start |-> StartOfDay(start), end |-> EndOfDay(end)]

\* getPreviousPeriod
Previous(type, p) ==
  CASE type = "week" -> WholeDays(p.start - 7 * Parts, p.end - 7 * Parts)
    [] type = "month" -> WholeDays(MonthBefore(p.start), MonthBefore(p.end))
    [] type = "custom" ->
         LET diff == p.end - p.start IN
         WholeDays(p.start - diff, p.end - diff)

Within(t, p) == p.start <= t /\ t <= p.end

-------------------------------------------------------------------------------
(***************************************************************************)
(* What the comparison should be, for every day of the calendar but those  *)
(* of its first and last month.                                            *)
(***************************************************************************)
Calendar == FirstDay[1] .. FirstDay[Months - 1] - 1

WeekExact(today, time) ==
  LET p == Period("week", today * Parts + time, None, None)
      q == Previous("week", p)
  IN  \A t \in (today - 14) * Parts .. (today + 2) * Parts :
        /\ ~(Within(t, p) /\ Within(t, q))
        /\ (Within(t, p) \/ Within(t, q)) <=>
             /\ DayOf(t) \in today - 13 .. today
             /\ ~(DayOf(t) = today - 6 /\ t % Parts < time)

InexactWeeks ==
  {d \in Calendar : \E i \in 0 .. Parts - 1 : ~WeekExact(d, i)}

MonthExact(m) ==
  LET p == Period("month", FirstDay[m] * Parts, None, None)
      q == Previous("month", p)
  IN  \A d \in FirstDay[m - 1] - 5 .. FirstDay[m + 1] + 5 :
        /\ Within(d * Parts, p) <=> FirstDay[m] <= d /\ d < FirstDay[m + 1]
        /\ Within(d * Parts, q) <=>
             FirstDay[m - 1] <= d /\ d < FirstDay[m - 1] + Length(m)

InexactMonths == {m \in 1 .. Months - 2 : ~MonthExact(m)}

CustomExact(from, to) ==
  LET p == Period("custom", from, from, to)
      q == Previous("custom", p)
      n == DayOf(p.end) - DayOf(p.start) + 1
  IN  /\ q = [start |-> from - n * Parts, end |-> EndOfDay(from)]
      /\ \A t \in q.start .. p.end :
           (Within(t, p) /\ Within(t, q)) <=> DayOf(t) = DayOf(from)

InexactCustoms ==
  {d \in Calendar : \E n \in 0 .. 31 : ~CustomExact(d * Parts, (d + n) * Parts)}
===============================================================================
