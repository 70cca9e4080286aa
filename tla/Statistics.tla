------------------------------- MODULE Statistics ------------------------------
(***************************************************************************)
(* An organizer's statistics: RevenueService.getStatisticsData compares    *)
(* the rows of a period with those of the period before it and breaks the  *)
(* period down by weeks or days; getTicketsSoldStats adds up what the      *)
(* contract says was sold, one tier after the other.                       *)
(*                                                                         *)
(* The queries are awaited one by one or together, while sales are         *)
(* recorded and time passes.  Amounts are left out: a sum over rows is the *)
(* set of rows it adds up.                                                 *)
(***************************************************************************)
EXTENDS Periods, Sequences, FiniteSets

CONSTANTS
  Days,       \* bound: the days on which something happens
  Dates,      \* bound: the days a custom period is asked for
  NTiers,     \* tiers of an event
  Supply,     \* bound: tickets of a tier
  MaxSales    \* bound: rows of ticket_sale_transactions

\* The month before a day, and its end, are in the calendar, as they are in that
\* of the code.
ASSUME BoundsAssumption ==
  Days \cup Dates \subseteq Calendar /\ {NTiers, Supply, MaxSales} \subseteq Nat

VARIABLES
  now,    \* the clock
  sales,  \* created_at of each row of ticket_sale_transactions
  chart,  \* the request for the statistics, or None
  read,   \* per query of it: the rows it has counted, or None
  sold,   \* per tier, in the order of the answer: tickets sold by the contract
  tally   \* the request for the tickets sold, or None

chartVars == <<chart, read>>
vars == <<now, sales, chartVars, sold, tally>>

First == {"previousRevenue", "previousOrders"}  \* one after the other
Second == {"orders", "revenue", "breakdown"}    \* Promise.all
Queries == First \cup Second

Instants == {d * Parts + i : d \in Days, i \in 0 .. Parts - 1}
Midnights == {d * Parts : d \in Dates}

Span == [start : Int, end : Int]

TypeOK ==
  /\ now \in Instants
  /\ sales \in Seq(Instants) /\ Len(sales) <= MaxSales
  /\ chart \in [type : Types, period : Span, previous : Span,
               before : 0 .. Len(sales)] \cup {None}
  /\ read \in [Queries -> (SUBSET DOMAIN sales) \cup {None}]
  /\ sold \in [1 .. NTiers -> 0 .. Supply]
  /\ tally \in [done : 0 .. NTiers, sum : 0 .. Supply * NTiers,
               atStart : 0 .. Supply * NTiers] \cup {None}

Nothing == [q \in Queries |-> None]

Init ==
  /\ now \in Instants
  /\ sales = <<>>
  /\ chart = None /\ read = Nothing
  /\ sold = [t \in 1 .. NTiers |-> 0] /\ tally = None

\* Time passes, to any later instant of the calendar.
Pass ==
  /\ \E t \in Instants : now < t /\ now' = t
  /\ UNCHANGED <<sales, chartVars, sold, tally>>

\* A handler records a sale.
Sell ==
  /\ Len(sales) < MaxSales
  /\ sales' = Append(sales, now)
  /\ UNCHANGED <<now, chartVars, sold, tally>>

-------------------------------------------------------------------------------
(* getStatisticsData *)

\* `now' is read once; the periods do not change while the queries run.
\* Bound: one request at a time; requests only read.
Ask ==
  /\ chart = None /\ tally = None
  /\ \E type \in Types, from, to \in Midnights \cup {None} :
       /\ type # "custom" => from = None /\ to = None
       /\ LET p == Period(type, now, from, to) IN
          chart' = [type |-> type, period |-> p, previous |-> Previous(type, p),
                    before |-> Len(sales)]
  /\ UNCHANGED <<now, sales, read, sold, tally>>

\* Slip to catch: the breakdown leaves out the end of the period.
RowsUpTo(q) ==
  LET p == IF q \in First THEN chart.previous ELSE chart.period IN
  {i \in DOMAIN sales :
     Within(sales[i], p) /\ (q = "breakdown" => sales[i] < p.end)}

Rows(q) ==
  LET p == IF q \in First THEN chart.previous ELSE chart.period IN
  {i \in DOMAIN sales : Within(sales[i], p)}

Read(q) ==
  /\ chart # None
  /\ read[q] = None
  /\ q = "previousOrders" => read["previousRevenue"] # None
  /\ q \in Second => read["previousOrders"] # None
  /\ read' = [read EXCEPT ![q] = Rows(q)]
  /\ UNCHANGED <<now, sales, chart, sold, tally>>

Answered == \A q \in Queries : read[q] # None

Answer ==
  /\ Answered
  /\ chart' = None /\ read' = Nothing
  /\ UNCHANGED <<now, sales, sold, tally>>

\* One of the queries rejects, and the request with it.
Reject ==
  /\ chart # None /\ ~Answered
  /\ chart' = None /\ read' = Nothing
  /\ UNCHANGED <<now, sales, sold, tally>>

\* getRevenueBreakdown by weeks: the weeks that have rows, in the order of
\* their numbers, are called Week 1, Week 2 and so on.
WeekOf(i) == Week(DayOf(sales[i]))
Label(i) ==
  Cardinality({w \in {WeekOf(j) : j \in read["breakdown"]} : w <= WeekOf(i)})

-------------------------------------------------------------------------------
(* getTicketsSoldStats *)

\* What the first n tiers have sold.
SoldUpTo[n \in 0 .. NTiers] == IF n = 0 THEN 0 ELSE SoldUpTo[n - 1] + sold[n]

TotalSold == SoldUpTo[NTiers]

\* A purchase on the contract; the job will record it later.
Buy ==
  /\ \E t \in 1 .. NTiers : /\ sold[t] < Supply
                            /\ sold' = [sold EXCEPT ![t] = @ + 1]
  /\ UNCHANGED <<now, sales, chartVars, tally>>

AskSold ==
  /\ chart = None /\ tally = None
  /\ tally' = [done |-> 0, sum |-> 0, atStart |-> TotalSold]
  /\ UNCHANGED <<now, sales, chartVars, sold>>

\* Slip to catch: the contract is asked for the first tier every time.
CountFirstTier ==
  /\ tally # None
  /\ tally.done < NTiers
  /\ tally' = [tally EXCEPT !.done = @ + 1, !.sum = @ + sold[1]]
  /\ UNCHANGED <<now, sales, chartVars, sold>>

\* Slip to catch: for each tier, what all of them have sold.
CountAllTiers ==
  /\ tally # None
  /\ tally.done < NTiers
  /\ tally' = [tally EXCEPT !.done = @ + 1, !.sum = @ + TotalSold]
  /\ UNCHANGED <<now, sales, chartVars, sold>>

\* totalSupply minus the contract's remaining tickets, one await to a tier.
CountTier ==
  /\ tally # None
  /\ tally.done < NTiers
  /\ tally' = [tally EXCEPT !.done = @ + 1, !.sum = @ + sold[tally.done + 1]]
  /\ UNCHANGED <<now, sales, chartVars, sold>>

AnswerSold ==
  /\ tally # None
  /\ tally.done = NTiers
  /\ tally' = None
  /\ UNCHANGED <<now, sales, chartVars, sold>>

Next ==
  \/ Pass \/ Sell
  \/ Ask \/ (\E q \in Queries : Read(q)) \/ Answer \/ Reject
  \/ Buy \/ AskSold \/ CountTier \/ AnswerSold

Spec == Init /\ [][Next]_vars

-------------------------------------------------------------------------------
\* Each period is compared with as many days before it, for every day of the
\* calendar, and what the comparison counts twice or leaves out is no more than
\* this: the first of seven days up to the time of day of the request, which is
\* left out; the days by which a month and the one before differ, which are
\* counted in both if that one is shorter and in neither if it is longer; and
\* the first day of a custom period, which is counted in both
\* (getStatisticsData, getPreviousPeriod).
PeriodsCompared ==
  chart # None =>
    InexactWeeks = {} /\ InexactMonths = {} /\ InexactCustoms = {}

\* The parts of one answer are about the same rows, except for rows that were
\* recorded while it was put together (the awaits and the Promise.all of
\* getStatisticsData read the table at different times).
PartsAgree ==
  chart # None =>
    \A qs \in {First, Second} : \A q, u \in qs :
      read[q] # None /\ read[u] # None =>
        \A i \in 1 .. chart.before : i \in read[q] <=> i \in read[u]

\* Weeks of a month are numbered in the order of the year; in January and
\* December the last or first days may belong to the other year's weeks.
Wraps(m) == Week(FirstDay[m]) > Week(FirstDay[m + 1] - 1)

\* `Week n' of a month's chart is the n-th of its weeks that has sales, in the
\* order of time, unless the month has days of another year's week
\* (EXTRACT(WEEK) and ORDER BY in getRevenueBreakdown).
LabelsInOrder ==
  /\ chart # None /\ chart.type = "month" /\ read["breakdown"] # None
  => LET m == MonthOf(DayOf(chart.period.start))
         rows == read["breakdown"]
         mondays == {Monday(DayOf(sales[i])) : i \in rows}
     IN  Wraps(m) \/
         \A i \in rows :
           Label(i) = Cardinality({d \in mondays : d <= DayOf(sales[i])})

\* What is answered of tickets sold was true at some time between question and
\* answer: the tiers are read one after the other, and counts only grow
\* (getTicketsSoldStats, getRemainingTickets).
SoldBetween ==
  tally # None /\ tally.done = NTiers =>
    tally.atStart <= tally.sum /\ tally.sum <= TotalSold
===============================================================================
