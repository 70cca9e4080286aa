---------------------------- MODULE StatisticsProofs ----------------------------
(***************************************************************************)
(* Proofs about an organizer's statistics, for every calendar and for any  *)
(* number of tiers, sales and instants of a day.                           *)
(*                                                                         *)
(* The calendar and the tickets sold are running totals, defined by        *)
(* recursive functions: a least counterexample among the numbers takes the *)
(* place of induction (Least), since the theorems of the library that are  *)
(* about induction take an operator as a parameter.                        *)
(*                                                                         *)
(* The periods are arithmetic on days and times of day, ordered as pairs   *)
(* (InstantOrder).  Reports and totals need an invariant: what a query has *)
(* counted of the rows that were there when it was asked (ReadInv), what   *)
(* has been added up so far against what the tiers have sold (TallyInv),   *)
(* and which month is reported (MonthInv).                                 *)
(***************************************************************************)
EXTENDS Statistics, FiniteSetTheorems, SequenceTheorems, WellFoundedInduction,
        TLAPS

-------------------------------------------------------------------------------
(* Running totals. *)

\* A set of numbers that is not empty has a least one.
LEMMA Least ==
  ASSUME NEW B \in SUBSET Nat, B # {}
  PROVE  \E n \in B : n = 0 \/ n - 1 \notin B
<1>1. PICK n \in B : \A m \in B : ~ (<<m, n>> \in OpToRel(<, Nat))
  BY WFMin, NatLessThanWellFounded
<1>2. ASSUME n # 0, n - 1 \in B PROVE FALSE
  <2>1. <<n - 1, n>> \in OpToRel(<, Nat)
    BY <1>2 DEF OpToRel
  <2> QED
    BY <1>1, <1>2, <2>1
<1> QED
  BY <1>2

\* f is the running total of d up to n.
Totals(f, d, n) ==
  /\ f \in [0 .. n -> Int] /\ f[0] = 0
  /\ \A k \in 1 .. n : f[k] = f[k - 1] + d[k]

\* Running totals exist.
LEMMA TotalsExist ==
  ASSUME NEW N \in Nat, NEW d, \A k \in 1 .. N : d[k] \in Int
  PROVE  \E f : Totals(f, d, N)
<1> DEFINE B == {n \in 0 .. N : ~ \E f : Totals(f, d, n)}
<1>1. SUFFICES ASSUME B # {} PROVE FALSE
  OBVIOUS
<1>2. PICK n \in B : n = 0 \/ n - 1 \notin B
  BY <1>1, Least, B \in SUBSET Nat
<1>3. CASE n = 0
  <2>1. Totals([k \in 0 .. 0 |-> 0], d, 0)
    BY DEF Totals
  <2> QED
    BY <1>2, <1>3, <2>1
<1>4. CASE n # 0
  <2>1. n \in 1 .. N /\ n - 1 \in 0 .. N
    BY <1>2, <1>4
  <2>2. PICK f : Totals(f, d, n - 1)
    BY <1>2, <1>4, <2>1
  <2> DEFINE g == [k \in 0 .. n |-> IF k = n THEN f[n - 1] + d[n] ELSE f[k]]
  <2>3. \A k \in 0 .. n - 1 : g[k] = f[k] /\ f[k] \in Int
    BY <2>1, <2>2 DEF Totals
  <2>4. g[n] = g[n - 1] + d[n] /\ g[n] \in Int /\ g[0] = 0
    BY <2>1, <2>2, <2>3 DEF Totals
  <2>5. g \in [0 .. n -> Int]
    BY <2>1, <2>3, <2>4
  <2>6. ASSUME NEW k \in 1 .. n PROVE g[k] = g[k - 1] + d[k]
    <3>1. CASE k = n
      BY <3>1, <2>4
    <3>2. CASE k # n
      <4>1. k \in 1 .. n - 1 /\ k - 1 \in 0 .. n - 1 /\ k \in 0 .. n - 1
        BY <3>2, <2>1
      <4> QED
        BY <4>1, <2>2, <2>3 DEF Totals
    <3> QED
      BY <3>1, <3>2
  <2>7. Totals(g, d, n)
    BY <2>4, <2>5, <2>6 DEF Totals
  <2> QED
    BY <1>2, <2>7
<1> QED
  BY <1>3, <1>4

\* A function defined by the recursion is the running total.
LEMMA TotalsAre ==
  ASSUME NEW N \in Nat, NEW d, \A k \in 1 .. N : d[k] \in Int,
         NEW f, f = CHOOSE g : g = [n \in 0 .. N |->
                                     IF n = 0 THEN 0 ELSE g[n - 1] + d[n]]
  PROVE  Totals(f, d, N)
<1>1. PICK h : Totals(h, d, N)
  BY TotalsExist
<1>2. h = [n \in 0 .. N |-> IF n = 0 THEN 0 ELSE h[n - 1] + d[n]]
  BY <1>1 DEF Totals
<1>3. f = [n \in 0 .. N |-> IF n = 0 THEN 0 ELSE f[n - 1] + d[n]]
  BY <1>2
<1>4. f[0] = 0 /\ \A k \in 1 .. N : f[k] = f[k - 1] + d[k]
  BY <1>3
<1> DEFINE B == {n \in 0 .. N : f[n] \notin Int}
<1>5. B = {}
  <2>1. SUFFICES ASSUME B # {} PROVE FALSE
    OBVIOUS
  <2>2. PICK n \in B : n = 0 \/ n - 1 \notin B
    BY <2>1, Least, B \in SUBSET Nat
  <2>3. n # 0 /\ n - 1 \in 0 .. N /\ n \in 1 .. N
    BY <1>4, <2>2
  <2> QED
    BY <1>4, <2>2, <2>3
<1>6. f \in [0 .. N -> Int]
  BY <1>3, <1>5
<1> QED
  BY <1>4, <1>6 DEF Totals

-------------------------------------------------------------------------------
(* The calendar. *)

\* Months have between 28 and 31 days.
LEMMA LengthBounds == ASSUME NEW m \in Nat PROVE Length(m) \in 28 .. 31
  BY DEF Length

\* FirstDay adds up the lengths of the months.
LEMMA FirstDayIs ==
  /\ FirstDay \in [0 .. Months -> Int] /\ FirstDay[0] = 0
  /\ \A m \in 0 .. Months - 1 : FirstDay[m + 1] = FirstDay[m] + Length(m)
<1> DEFINE d == [k \in 1 .. Months |-> Length(k - 1)]
<1>1. Months \in Nat
  BY CalendarAssumption
<1>2. \A k \in 1 .. Months : d[k] \in Int
  BY LengthBounds
<1>3. FirstDay = CHOOSE g : g = [n \in 0 .. Months |->
                                   IF n = 0 THEN 0 ELSE g[n - 1] + d[n]]
  <2>1. \A g : [n \in 0 .. Months |-> IF n = 0 THEN 0 ELSE g[n - 1] + d[n]]
             = [n \in 0 .. Months |->
                  IF n = 0 THEN 0 ELSE g[n - 1] + Length(n - 1)]
    BY <1>1
  <2> QED
    BY <2>1 DEF FirstDay
<1>4. Totals(FirstDay, d, Months)
  <2> HIDE DEF d
  <2> QED
    BY <1>1, <1>2, <1>3, TotalsAre
<1>5. ASSUME NEW m \in 0 .. Months - 1
      PROVE  FirstDay[m + 1] = FirstDay[m] + Length(m)
  <2>1. m + 1 \in 1 .. Months /\ (m + 1) - 1 = m
    BY <1>1
  <2>2. FirstDay[m + 1] = FirstDay[(m + 1) - 1] + d[m + 1]
    BY <1>4, <2>1 DEF Totals
  <2> QED
    BY <2>1, <2>2
<1> QED
  BY <1>4, <1>5 DEF Totals

\* Months follow one another.
LEMMA FirstDayGrows ==
  ASSUME NEW m \in 0 .. Months, NEW n \in 0 .. Months, m < n
  PROVE  FirstDay[m] < FirstDay[n]
<1> DEFINE B == {k \in 0 .. Months : m < k /\ ~ (FirstDay[m] < FirstDay[k])}
<1>1. SUFFICES ASSUME B # {} PROVE FALSE
  OBVIOUS
<1>2. PICK k \in B : k = 0 \/ k - 1 \notin B
  BY <1>1, Least, CalendarAssumption, B \in SUBSET Nat
<1>3. /\ Months \in Nat /\ k - 1 \in 0 .. Months - 1 /\ (k - 1) + 1 = k
      /\ k - 1 \in Nat
  BY <1>2, CalendarAssumption
<1>4. FirstDay[k] = FirstDay[k - 1] + Length(k - 1)
  BY <1>3, FirstDayIs
<1>5. FirstDay[m] \in Int /\ FirstDay[k] \in Int /\ FirstDay[k - 1] \in Int
  BY <1>3, FirstDayIs
<1>6. FirstDay[k - 1] < FirstDay[k]
  BY <1>3, <1>4, <1>5, LengthBounds
<1>7. m = k - 1 \/ FirstDay[m] < FirstDay[k - 1]
  BY <1>2, <1>3
<1> QED
  BY <1>2, <1>5, <1>6, <1>7

\* The month of a day is the one that it lies in.
LEMMA MonthOfIs ==
  ASSUME NEW m \in 0 .. Months - 1, NEW d \in Int,
         FirstDay[m] <= d, d < FirstDay[m + 1]
  PROVE  MonthOf(d) = m
<1>1. Months \in Nat
  BY CalendarAssumption
<1>2. ASSUME NEW n \in 0 .. Months - 1, FirstDay[n] <= d, d < FirstDay[n + 1]
      PROVE  n = m
  <2>1. /\ {m, m + 1, n, n + 1} \subseteq 0 .. Months
        /\ \A k \in {m, m + 1, n, n + 1} : FirstDay[k] \in Int
    BY <1>1, FirstDayIs
  <2>2. ASSUME NEW i \in {m, n}, NEW j \in {m, n}, i < j PROVE FALSE
    <3>1. i + 1 = j \/ FirstDay[i + 1] < FirstDay[j]
      BY <1>1, <2>1, <2>2, FirstDayGrows
    <3> QED
      BY <1>2, <2>1, <2>2, <3>1
  <2> QED
    BY <1>1, <2>2
<1> QED
  BY <1>2 DEF MonthOf

\* A day of the calendar lies in a month.
LEMMA InMonth ==
  ASSUME NEW d \in Int, 0 <= d, NEW n \in 0 .. Months, d < FirstDay[n]
  PROVE  /\ MonthOf(d) \in 0 .. n - 1
         /\ FirstDay[MonthOf(d)] <= d /\ d < FirstDay[MonthOf(d) + 1]
<1> DEFINE B == {k \in 0 .. Months : d < FirstDay[k]}
<1>1. Months \in Nat /\ B \in SUBSET Nat /\ n \in B
  BY CalendarAssumption
<1> DEFINE C == {k \in B : k <= n}
<1>2. PICK k \in C : k = 0 \/ k - 1 \notin C
  <2>1. C # {} /\ C \in SUBSET Nat
    BY <1>1
  <2> QED
    BY <2>1, Least
<1>3. k \in 0 .. Months /\ k # 0 /\ k <= n /\ d < FirstDay[k]
  BY <1>2, FirstDayIs
<1>4. /\ k - 1 \in 0 .. Months - 1 /\ k - 1 \in 0 .. n - 1
      /\ k - 1 \in 0 .. Months /\ (k - 1) + 1 = k
  BY <1>1, <1>3
<1>5. FirstDay[k - 1] <= d
  BY <1>2, <1>3, <1>4, FirstDayIs
<1>6. MonthOf(d) = k - 1
  BY <1>3, <1>4, <1>5, MonthOfIs
<1> QED
  BY <1>3, <1>4, <1>5, <1>6

-------------------------------------------------------------------------------
(* Days and instants. *)

\* An instant is a day and a time of day.
LEMMA InstantIs ==
  ASSUME NEW d \in Int, NEW i \in 0 .. Parts - 1
  PROVE  /\ DayOf(d * Parts + i) = d /\ (d * Parts + i) % Parts = i
         /\ d * Parts + i \in Int
  BY CalendarAssumption DEF DayOf

\* Every instant is one.
LEMMA InstantOf ==
  ASSUME NEW t \in Int
  PROVE  /\ DayOf(t) \in Int /\ t % Parts \in 0 .. Parts - 1
         /\ t = DayOf(t) * Parts + (t % Parts)
  BY CalendarAssumption DEF DayOf

\* The instants of a day come before those of the next.
LEMMA DaysApart ==
  ASSUME NEW d \in Int, NEW e \in Int, d < e
  PROVE  d * Parts + Parts <= e * Parts
  BY CalendarAssumption

\* So many days later or earlier.
LEMMA DaysMoved ==
  ASSUME NEW d \in Int, NEW e \in Int
  PROVE  /\ (d + e) * Parts = d * Parts + e * Parts
         /\ (d - e) * Parts = d * Parts - e * Parts
         /\ d * Parts \in Int
  BY CalendarAssumption

\* Instants are ordered by day, then by time of day.
LEMMA InstantOrder ==
  ASSUME NEW t \in Int, NEW d \in Int, NEW i \in 0 .. Parts - 1
  PROVE  /\ d * Parts + i <= t <=>
              d < DayOf(t) \/ (d = DayOf(t) /\ i <= t % Parts)
         /\ d * Parts <= t <=> d <= DayOf(t)
         /\ t <= d * Parts + Parts - 1 <=> DayOf(t) <= d
<1> DEFINE e == DayOf(t)
           j == t % Parts
<1>1. e \in Int /\ j \in 0 .. Parts - 1 /\ t = e * Parts + j
  BY InstantOf
<1>2. Parts \in Nat /\ d * Parts \in Int /\ e * Parts \in Int
  BY <1>1, CalendarAssumption
<1> HIDE DEF e, j
<1>3. /\ d * Parts + i <= t <=> d < e \/ (d = e /\ i <= j)
      /\ d * Parts <= t <=> d <= e
      /\ t <= d * Parts + Parts - 1 <=> e <= d
  <2>1. CASE d < e
    BY <1>1, <1>2, <2>1, DaysApart
  <2>2. CASE e < d
    BY <1>1, <1>2, <2>2, DaysApart
  <2>3. CASE d = e
    BY <1>1, <1>2, <2>3
  <2> QED
    BY <1>1, <2>1, <2>2, <2>3
<1> QED
  BY <1>3 DEF e, j

\* The ends of the day of an instant.
LEMMA EndsOfDay ==
  ASSUME NEW d \in Int, NEW i \in 0 .. Parts - 1
  PROVE  /\ StartOfDay(d * Parts + i) = d * Parts
         /\ EndOfDay(d * Parts + i) = d * Parts + Parts - 1
  BY InstantIs DEF StartOfDay, EndOfDay

\* The first and the last instant of a day are instants of it.
LEMMA DayEnds ==
  ASSUME NEW d \in Int
  PROVE  /\ 0 \in 0 .. Parts - 1 /\ 1 \in 0 .. Parts - 1
         /\ Parts - 1 \in 0 .. Parts - 1 /\ Parts \in Int
         /\ d * Parts \in Int
         /\ d * Parts = d * Parts + 0
         /\ d * Parts + Parts - 1 = d * Parts + (Parts - 1)
         /\ (d + 1) * Parts - 1 = d * Parts + (Parts - 1)
  BY CalendarAssumption

-------------------------------------------------------------------------------
(* The periods compared. *)

\* A week and the week before it.
LEMMA WeeksExact ==
  ASSUME NEW today \in Int, NEW time \in 0 .. Parts - 1
  PROVE  WeekExact(today, time)
<1> DEFINE asked == today * Parts + time
           p == [start |-> (today - 6) * Parts + time,
                 end |-> today * Parts + Parts - 1]
           q == [start |-> (today - 13) * Parts,
                 end |-> (today - 7) * Parts + Parts - 1]
<1>1. /\ (today - 6) * Parts = today * Parts - 6 * Parts
      /\ (today - 13) * Parts = today * Parts - 13 * Parts
      /\ (today - 7) * Parts = today * Parts - 7 * Parts
      /\ Parts \in Int /\ today * Parts \in Int /\ time \in Int
  BY DaysMoved, CalendarAssumption
<1>2. Period("week", asked, None, None) = p
  <2>1. EndOfDay(asked) = today * Parts + Parts - 1
    BY EndsOfDay
  <2>2. asked - 6 * Parts = (today - 6) * Parts + time
    BY <1>1
  <2> QED
    BY <2>1, <2>2 DEF Period
<1>3. Previous("week", p) = q
  <2>1. /\ p.start - 7 * Parts = (today - 13) * Parts + time
        /\ p.end - 7 * Parts = (today - 7) * Parts + (Parts - 1)
    BY <1>1
  <2>2. /\ StartOfDay((today - 13) * Parts + time) = (today - 13) * Parts
        /\ EndOfDay((today - 7) * Parts + (Parts - 1))
             = (today - 7) * Parts + Parts - 1
    <3>1. today - 13 \in Int /\ today - 7 \in Int /\ Parts - 1 \in 0 .. Parts - 1
      BY CalendarAssumption
    <3> QED
      BY <3>1, EndsOfDay
  <2> QED
    BY <2>1, <2>2 DEF Previous, WholeDays
<1>4. ASSUME NEW t \in Int
      PROVE  /\ Within(t, p) <=>
                  /\ \/ today - 6 < DayOf(t)
                     \/ today - 6 = DayOf(t) /\ time <= t % Parts
                  /\ DayOf(t) <= today
             /\ Within(t, q) <=> today - 13 <= DayOf(t) /\ DayOf(t) <= today - 7
  BY InstantOrder DEF Within
<1> DEFINE span == (today - 14) * Parts .. (today + 2) * Parts
<1>5. ASSUME NEW t \in span
      PROVE  /\ ~(Within(t, p) /\ Within(t, q))
             /\ (Within(t, p) \/ Within(t, q)) <=>
                  /\ DayOf(t) \in today - 13 .. today
                  /\ ~(DayOf(t) = today - 6 /\ t % Parts < time)
  <2>1. t \in Int
    BY <1>1, DaysMoved
  <2>2. DayOf(t) \in Int /\ t % Parts \in Int
    BY <2>1, InstantOf
  <2> HIDE DEF p, q
  <2> QED
    BY <1>4, <2>1, <2>2
<1> HIDE DEF p, q
<1> QED
  BY <1>2, <1>3, <1>5 DEF WeekExact

\* A custom period and the days before it.
LEMMA CustomsExact ==
  ASSUME NEW d \in Int, NEW n \in Nat
  PROVE  CustomExact(d * Parts, (d + n) * Parts)
<1> DEFINE from == d * Parts
           to == (d + n) * Parts
           p == [start |-> from, end |-> to + Parts - 1]
           q == [start |-> (d - (n + 1)) * Parts, end |-> from + Parts - 1]
<1>1. /\ (d + n) * Parts = d * Parts + n * Parts
      /\ (n + 1) * Parts = n * Parts + Parts
      /\ (d - (n + 1)) * Parts = d * Parts - (n + 1) * Parts
      /\ Parts \in Int /\ d * Parts \in Int /\ n * Parts \in Int
      /\ d + n \in Int /\ d - (n + 1) \in Int
  BY DaysMoved, CalendarAssumption
<1>2. from # None /\ to # None
  BY <1>1, CalendarAssumption
<1>3. /\ EndOfDay(to) = to + Parts - 1 /\ EndOfDay(from) = from + Parts - 1
      /\ DayOf(from) = d
  <2>1. from = d * Parts + 0 /\ to = (d + n) * Parts + 0 /\ 0 \in 0 .. Parts - 1
    BY <1>1, CalendarAssumption
  <2> QED
    BY <1>1, <2>1, EndsOfDay, InstantIs
<1>4. Period("custom", from, from, to) = p
  BY <1>2, <1>3 DEF Period
<1>5. Previous("custom", p) = q
  <2>1. /\ p.start - (p.end - p.start) = (d - (n + 1)) * Parts + 1
        /\ p.end - (p.end - p.start) = from
    BY <1>1
  <2>2. StartOfDay((d - (n + 1)) * Parts + 1) = (d - (n + 1)) * Parts
    BY <1>1, EndsOfDay, DayEnds
  <2> QED
    BY <1>3, <2>1, <2>2 DEF Previous, WholeDays
<1>6. DayOf(p.start) = d /\ DayOf(p.end) = d + n
  BY <1>1, <1>3, InstantIs, DayEnds
<1>7. q = [start |-> from - (n + 1) * Parts, end |-> EndOfDay(from)]
  BY <1>1, <1>3
<1>8. ASSUME NEW t \in q.start .. p.end
      PROVE  (Within(t, p) /\ Within(t, q)) <=> DayOf(t) = DayOf(from)
  <2>1. t \in Int
    BY <1>1
  <2>2. /\ Within(t, p) <=> d <= DayOf(t) /\ DayOf(t) <= d + n
        /\ Within(t, q) <=> d - (n + 1) <= DayOf(t) /\ DayOf(t) <= d
    BY <1>1, <2>1, InstantOrder, DayEnds DEF Within
  <2>3. DayOf(t) \in Int
    BY <2>1, InstantOf
  <2> HIDE DEF p, q, from
  <2> QED
    BY <1>3, <2>2, <2>3
<1>9. DayOf(p.end) - DayOf(p.start) + 1 = n + 1
  BY <1>6
<1> HIDE DEF p, q, from, to
<1>10. CustomExact(from, to)
  BY <1>3, <1>4, <1>5, <1>7, <1>8, <1>9 DEF CustomExact
<1> QED
  BY <1>10 DEF from, to

\* A month and the month before it.
LEMMA MonthsExact ==
  ASSUME NEW m \in 1 .. Months - 2
  PROVE  MonthExact(m)
<1> DEFINE first == FirstDay[m]
           next == FirstDay[m + 1]
           last == FirstDay[m - 1]
           p == [start |-> first * Parts, end |-> (next - 1) * Parts + (Parts - 1)]
           q == [start |-> last * Parts,
                 end |-> (last + Length(m) - 1) * Parts + Parts - 1]
<1>1. /\ Months \in Nat /\ m \in 0 .. Months - 1 /\ m - 1 \in 0 .. Months - 1
      /\ m + 1 \in 0 .. Months /\ m \in 0 .. Months /\ m \in Nat
      /\ m - 1 \in 0 .. Months
  BY CalendarAssumption
<1>2. /\ first \in Int /\ next \in Int /\ last \in Int
      /\ next = first + Length(m) /\ Length(m) \in 28 .. 31
  BY <1>1, FirstDayIs, LengthBounds
<1>3. MonthOf(first) = m /\ MonthOf(next - 1) = m
  BY <1>1, <1>2, MonthOfIs
<1>4. /\ DayOf(first * Parts) = first /\ (first * Parts) % Parts = 0
      /\ DayOf((next - 1) * Parts + (Parts - 1)) = next - 1
      /\ ((next - 1) * Parts + (Parts - 1)) % Parts = Parts - 1
      /\ next * Parts - 1 = (next - 1) * Parts + (Parts - 1)
  <2> HIDE DEF first, next
  <2>1. first * Parts = first * Parts + 0 /\ 0 \in 0 .. Parts - 1
        /\ Parts - 1 \in 0 .. Parts - 1 /\ next - 1 \in Int
    BY <1>2, DayEnds
  <2>2. next * Parts - 1 = (next - 1) * Parts + (Parts - 1)
    BY <1>2, CalendarAssumption
  <2> QED
    BY <1>2, <2>1, <2>2, InstantIs
<1>5. Period("month", first * Parts, None, None) = p
  BY <1>3, <1>4 DEF Period
<1>6. MonthBefore(p.start) = last * Parts + 0
  <2> HIDE DEF next
  <2>1. DayOfMonth(first) = 0
    BY <1>2, <1>3 DEF DayOfMonth
  <2>2. MonthBefore(p.start) = (last + 0) * Parts + 0
    BY <1>3, <1>4, <2>1 DEF MonthBefore
  <2> QED
    BY <1>2, <2>2
<1>7. MonthBefore(p.end) = (last + Length(m) - 1) * Parts + (Parts - 1)
  <2>1. DayOfMonth(next - 1) = Length(m) - 1
    BY <1>2, <1>3 DEF DayOfMonth
  <2>2. MonthBefore(p.end) = (last + (Length(m) - 1)) * Parts + (Parts - 1)
    BY <1>3, <1>4, <2>1 DEF MonthBefore
  <2>3. last + (Length(m) - 1) = last + Length(m) - 1
    BY <1>2
  <2> QED
    BY <2>2, <2>3
<1>8. Previous("month", p) = q
  <2>1. /\ last + Length(m) - 1 \in Int
        /\ 0 \in 0 .. Parts - 1 /\ Parts - 1 \in 0 .. Parts - 1
    BY <1>2, CalendarAssumption
  <2> HIDE DEF first, next, last
  <2>2. /\ StartOfDay(last * Parts + 0) = last * Parts
        /\ EndOfDay((last + Length(m) - 1) * Parts + (Parts - 1))
             = (last + Length(m) - 1) * Parts + Parts - 1
    BY <1>2, <2>1, EndsOfDay
  <2> QED
    BY <1>6, <1>7, <2>2 DEF Previous, WholeDays
<1>9. ASSUME NEW d \in Int
      PROVE  /\ Within(d * Parts, p) <=> first <= d /\ d < next
             /\ Within(d * Parts, q) <=> last <= d /\ d < last + Length(m)
  <2> HIDE DEF first, next, last
  <2>1. d * Parts \in Int /\ DayOf(d * Parts) = d /\ next - 1 \in Int
        /\ last + Length(m) - 1 \in Int
    <3>1. d * Parts = d * Parts + 0 /\ 0 \in 0 .. Parts - 1
      BY DayEnds
    <3> QED
      BY <1>2, <3>1, InstantIs
  <2>2. /\ first * Parts <= d * Parts <=> first <= d
        /\ d * Parts <= (next - 1) * Parts + Parts - 1 <=> d <= next - 1
        /\ last * Parts <= d * Parts <=> last <= d
        /\ d * Parts <= (last + Length(m) - 1) * Parts + Parts - 1
             <=> d <= last + Length(m) - 1
    <3>1. 0 \in 0 .. Parts - 1
      BY CalendarAssumption
    <3> QED
      BY <1>2, <2>1, <3>1, InstantOrder
  <2>3. p.end = (next - 1) * Parts + Parts - 1
    BY <1>2, <2>1, DayEnds
  <2> QED
    BY <1>2, <2>2, <2>3 DEF Within
<1>10. \A d \in FirstDay[m - 1] - 5 .. FirstDay[m + 1] + 5 : d \in Int
  BY <1>2
<1> HIDE DEF p, q
<1> QED
  BY <1>5, <1>8, <1>9, <1>10 DEF MonthExact

\* In every calendar, whatever its first year, its length and how finely days are
\* divided: a week and the days before it share no instant and leave out only the
\* time of day of the request, months are compared from first to last day, and a
\* custom period shares exactly its first day with the period before it
\* (getStatisticsData, getPreviousPeriod).
THEOREM PeriodsComparedAlways == Spec => []PeriodsCompared
<1>1. Calendar \subseteq Int
  BY FirstDayIs, CalendarAssumption DEF Calendar
<1>2. InexactWeeks = {}
  BY <1>1, WeeksExact DEF InexactWeeks
<1>3. InexactMonths = {}
  BY MonthsExact DEF InexactMonths
<1>4. InexactCustoms = {}
  <2>1. ASSUME NEW d \in Calendar, NEW n \in 0 .. 31
        PROVE  CustomExact(d * Parts, (d + n) * Parts)
    <3>1. d \in Int /\ n \in Nat
      BY <1>1
    <3> QED
      BY <3>1, CustomsExact, Zenon
  <2> QED
    BY <2>1 DEF InexactCustoms
<1>5. PeriodsCompared
  BY <1>2, <1>3, <1>4 DEF PeriodsCompared
<1> QED
  BY <1>5, PTL

-------------------------------------------------------------------------------
(* The types of periods. *)

\* The month before an instant is in the calendar, and so is the same time then.
LEMMA MonthBeforeInt ==
  ASSUME NEW t \in Int, FirstDay[1] <= DayOf(t), DayOf(t) < FirstDay[Months]
  PROVE  MonthBefore(t) \in Int
<1> DEFINE d == DayOf(t)
           m == MonthOf(d)
<1>1. /\ Months \in Nat \ {0, 1} /\ Months \in 0 .. Months /\ 1 \in 0 .. Months
      /\ 0 \in 0 .. Months /\ d \in Int /\ t % Parts \in Int /\ Parts \in Int
  BY InstantOf, CalendarAssumption
<1>2. FirstDay[0] = 0 /\ FirstDay[1] \in Int /\ FirstDay[0] < FirstDay[1]
  BY <1>1, FirstDayIs, FirstDayGrows
<1>3. /\ m \in 0 .. Months - 1 /\ FirstDay[m] <= d /\ d < FirstDay[m + 1]
  BY <1>1, <1>2, InMonth
<1>4. ASSUME m = 0 PROVE FALSE
  <2>1. d < FirstDay[1]
    BY <1>3, <1>4
  <2> QED
    BY <1>1, <1>2, <2>1
<1>5. m \in 0 .. Months /\ m - 1 \in 0 .. Months
  BY <1>1, <1>3, <1>4
<1>6. FirstDay[m] \in Int /\ FirstDay[m - 1] \in Int
  BY <1>5, FirstDayIs
<1>7. MonthBefore(t) = (FirstDay[m - 1] + (d - FirstDay[m])) * Parts + (t % Parts)
  BY DEF MonthBefore, DayOfMonth
<1> HIDE DEF d, m
<1> QED
  BY <1>1, <1>6, <1>7

\* The ends of days are numbers.
LEMMA DaysInt ==
  ASSUME NEW t \in Int
  PROVE  StartOfDay(t) \in Int /\ EndOfDay(t) \in Int
<1>1. DayOf(t) \in Int /\ Parts \in Int
  BY InstantOf, CalendarAssumption
<1> QED
  BY <1>1 DEF StartOfDay, EndOfDay

\* The month that is asked for has one before it and one after it.
LEMMA AskedMonth ==
  ASSUME NEW d \in Calendar
  PROVE  LET m == MonthOf(d) IN
         m \in 1 .. Months - 2 /\ FirstDay[m] <= d /\ d < FirstDay[m + 1]
<1> DEFINE m == MonthOf(d)
<1>1. /\ Months \in Nat \ {0, 1} /\ Months - 1 \in 0 .. Months
      /\ 1 \in 0 .. Months /\ 0 \in 0 .. Months
  BY CalendarAssumption
<1>2. /\ FirstDay[0] = 0 /\ FirstDay[1] \in Int /\ FirstDay[0] < FirstDay[1]
      /\ FirstDay[Months - 1] \in Int
  BY <1>1, FirstDayIs, FirstDayGrows
<1>3. d \in Int /\ FirstDay[1] <= d /\ d < FirstDay[Months - 1]
  BY <1>1, <1>2 DEF Calendar
<1>4. /\ m \in 0 .. (Months - 1) - 1 /\ FirstDay[m] <= d /\ d < FirstDay[m + 1]
  BY <1>1, <1>2, <1>3, InMonth
<1>5. ASSUME m = 0 PROVE FALSE
  <2>1. d < FirstDay[1]
    BY <1>4, <1>5
  <2> QED
    BY <1>2, <1>3, <2>1
<1> QED
  BY <1>1, <1>4, <1>5

\* Periods, and the periods before them, begin and end at instants.
LEMMA PeriodsInt ==
  ASSUME NEW type \in Types, NEW asked \in Int, DayOf(asked) \in Calendar,
         NEW from \in Int \cup {None}, NEW to \in Int \cup {None}
  PROVE  LET p == Period(type, asked, from, to)
             q == Previous(type, p)
         IN  p \in Span /\ q \in Span
<1> DEFINE p == Period(type, asked, from, to)
           q == Previous(type, p)
           m == MonthOf(DayOf(asked))
<1>1. /\ Months \in Nat \ {0, 1} /\ Months \in 0 .. Months
      /\ Months - 1 \in 0 .. Months /\ 1 \in 0 .. Months
      /\ 0 \in 0 .. Months /\ DayOf(asked) \in Int /\ Parts \in Nat
  BY InstantOf, CalendarAssumption
<1>2. /\ FirstDay[0] = 0 /\ FirstDay[1] \in Int /\ FirstDay[0] < FirstDay[1]
      /\ FirstDay[Months] \in Int /\ FirstDay[Months - 1] \in Int
      /\ FirstDay[Months - 1] < FirstDay[Months]
  BY <1>1, FirstDayIs, FirstDayGrows
<1>3. /\ FirstDay[1] <= DayOf(asked) /\ DayOf(asked) < FirstDay[Months - 1]
      /\ DayOf(asked) < FirstDay[Months]
  BY <1>1, <1>2 DEF Calendar
<1>4. \A t \in Int, u \in Int : WholeDays(t, u) \in Span
  BY DaysInt DEF WholeDays, Span
<1>5. CASE type = "week"
  <2>1. p = [start |-> asked - 6 * Parts, end |-> EndOfDay(asked)]
    BY <1>5 DEF Period
  <2>2. p \in Span /\ p.start \in Int /\ p.end \in Int
    BY <1>1, <2>1, DaysInt DEF Span
  <2>3. q = WholeDays(p.start - 7 * Parts, p.end - 7 * Parts)
    BY <1>5 DEF Previous
  <2>4. p.start - 7 * Parts \in Int /\ p.end - 7 * Parts \in Int
    BY <1>1, <2>2
  <2> HIDE DEF p
  <2> QED
    BY <1>4, <2>2, <2>3, <2>4 DEF p
<1>6. CASE type = "month"
  <2>1. p = [start |-> FirstDay[m] * Parts, end |-> FirstDay[m + 1] * Parts - 1]
    BY <1>6 DEF Period
  <2>2. m \in 1 .. Months - 2
    BY AskedMonth
  <2> HIDE DEF m
  <2>4. m \in 0 .. Months /\ m + 1 \in 0 .. Months /\ m + 1 < Months /\ m >= 1
    BY <1>1, <2>2
  <2>5. FirstDay[m] \in Int /\ FirstDay[m + 1] \in Int
    BY <2>4, FirstDayIs
  <2>6. /\ FirstDay[1] <= FirstDay[m] /\ FirstDay[m] < FirstDay[m + 1]
        /\ FirstDay[m + 1] < FirstDay[Months]
    <3>1. m = 1 \/ 1 < m
      BY <2>4
    <3> QED
      BY <1>1, <1>2, <2>4, <2>5, <3>1, FirstDayGrows
  <2>7. p.start = FirstDay[m] * Parts + 0
        /\ p.end = (FirstDay[m + 1] - 1) * Parts + (Parts - 1)
    BY <1>1, <2>1, <2>5, DayEnds
  <2>8. p \in Span /\ p.start \in Int /\ p.end \in Int
    BY <1>1, <2>1, <2>5 DEF Span
  <2>9. DayOf(p.start) = FirstDay[m] /\ DayOf(p.end) = FirstDay[m + 1] - 1
    <3> HIDE DEF p
    <3>1. 0 \in 0 .. Parts - 1 /\ Parts - 1 \in 0 .. Parts - 1
      BY CalendarAssumption
    <3> QED
      BY <2>5, <2>7, <3>1, InstantIs
  <2>10. MonthBefore(p.start) \in Int /\ MonthBefore(p.end) \in Int
    <3> HIDE DEF p
    <3> QED
      BY <1>2, <2>5, <2>6, <2>8, <2>9, MonthBeforeInt
  <2>11. q = WholeDays(MonthBefore(p.start), MonthBefore(p.end))
    BY <1>6 DEF Previous
  <2> HIDE DEF p
  <2> QED
    BY <1>4, <2>8, <2>10, <2>11 DEF p
<1>7. CASE type = "custom"
  <2>1. p = [start |-> IF from = None THEN MonthBefore(asked) ELSE from,
             end |-> EndOfDay(IF to = None THEN asked ELSE to)]
    BY <1>7 DEF Period
  <2>2. MonthBefore(asked) \in Int
    BY <1>3, MonthBeforeInt
  <2>3. p \in Span /\ p.start \in Int /\ p.end \in Int
    BY <2>1, <2>2, DaysInt DEF Span
  <2>4. q = WholeDays(p.start - (p.end - p.start), p.end - (p.end - p.start))
    BY <1>7 DEF Previous
  <2>5. p.start - (p.end - p.start) \in Int /\ p.end - (p.end - p.start) \in Int
    BY <2>3
  <2> HIDE DEF p
  <2> QED
    BY <1>4, <2>3, <2>4, <2>5 DEF p
<1> QED
  BY <1>5, <1>6, <1>7 DEF Types

\* The clock shows an instant of a day of the calendar, and custom periods are
\* asked for from and to midnights.
LEMMA InstantsInt ==
  /\ \A t \in Instants : t \in Int /\ DayOf(t) \in Calendar
  /\ Midnights \subseteq Int
<1>1. Days \subseteq Calendar /\ Dates \subseteq Calendar /\ Calendar \subseteq Int
  BY BoundsAssumption DEF Calendar
<1>2. ASSUME NEW t \in Instants PROVE t \in Int /\ DayOf(t) \in Calendar
  <2>1. PICK d \in Days, i \in 0 .. Parts - 1 : t = d * Parts + i
    BY DEF Instants
  <2>2. d \in Int
    BY <1>1
  <2> QED
    BY <1>1, <2>1, <2>2, InstantIs
<1>3. Midnights \subseteq Int
  BY <1>1, CalendarAssumption DEF Midnights
<1> QED
  BY <1>2, <1>3

-------------------------------------------------------------------------------
(* Running totals, continued. *)

\* Totals of what is not negative grow, and no faster than the largest of it.
LEMMA TotalsGrow ==
  ASSUME NEW N \in Nat, NEW f, NEW d, Totals(f, d, N), NEW S \in Nat,
         \A k \in 1 .. N : d[k] \in 0 .. S,
         NEW n \in 0 .. N
  PROVE  f[n] \in 0 .. S * n /\ f[n] <= f[N]
<1> DEFINE B == {k \in 0 .. N : f[k] \notin 0 .. S * k}
           C == {k \in 0 .. N : n <= k /\ ~ (f[n] <= f[k])}
<1>1. \A k \in 0 .. N : f[k] \in Int
  BY DEF Totals
<1>2. ASSUME NEW k \in 0 .. N, k # 0
      PROVE  /\ k - 1 \in 0 .. N /\ f[k] = f[k - 1] + d[k] /\ d[k] \in 0 .. S
             /\ S * k = S * (k - 1) + S
  BY <1>2 DEF Totals
<1>3. B = {}
  <2>1. SUFFICES ASSUME B # {} PROVE FALSE
    OBVIOUS
  <2>2. PICK k \in B : k = 0 \/ k - 1 \notin B
    BY <2>1, Least, B \in SUBSET Nat
  <2>3. CASE k = 0
    BY <2>2, <2>3 DEF Totals
  <2>4. CASE k # 0
    <3>1. f[k - 1] \in 0 .. S * (k - 1)
      BY <1>2, <2>2, <2>4
    <3>2. S * k \in Int /\ S * (k - 1) \in Int
      BY <2>2
    <3>3. f[k] \in 0 .. S * k
      BY <1>2, <2>2, <2>4, <3>1, <3>2
    <3> QED
      BY <2>2, <3>3
  <2> QED
    BY <2>3, <2>4
<1>4. C = {}
  <2>1. SUFFICES ASSUME C # {} PROVE FALSE
    OBVIOUS
  <2>2. PICK k \in C : k = 0 \/ k - 1 \notin C
    BY <2>1, Least, C \in SUBSET Nat
  <2>3. k # n /\ n <= k /\ k # 0
    BY <1>1, <2>2
  <2>4. f[n] <= f[k - 1]
    BY <1>2, <2>2, <2>3
  <2> QED
    BY <1>1, <1>2, <2>2, <2>3, <2>4
<1> QED
  BY <1>3, <1>4

\* One more of the t-th adds one to the totals from t on.
LEMMA TotalsAddOne ==
  ASSUME NEW N \in Nat, NEW f, NEW d, Totals(f, d, N), NEW g, NEW e, Totals(g, e, N),
         \A k \in 1 .. N : d[k] \in Int,
         NEW t \in 1 .. N, e[t] = d[t] + 1, \A k \in (1 .. N) \ {t} : e[k] = d[k],
         NEW n \in 0 .. N
  PROVE  g[n] = IF t <= n THEN f[n] + 1 ELSE f[n]
<1> DEFINE B == {k \in 0 .. N : g[k] # IF t <= k THEN f[k] + 1 ELSE f[k]}
<1>1. SUFFICES ASSUME B # {} PROVE FALSE
  OBVIOUS
<1>2. PICK k \in B : k = 0 \/ k - 1 \notin B
  BY <1>1, Least, B \in SUBSET Nat
<1>3. \A j \in 0 .. N : f[j] \in Int
  BY DEF Totals
<1>4. k # 0
  BY <1>2 DEF Totals
<1>5. k \in 1 .. N /\ k - 1 \in 0 .. N
  BY <1>2, <1>4
<1>6. /\ f[k] = f[k - 1] + d[k] /\ g[k] = g[k - 1] + e[k]
      /\ f[k] \in Int /\ f[k - 1] \in Int /\ d[k] \in Int
      /\ g[k - 1] = IF t <= k - 1 THEN f[k - 1] + 1 ELSE f[k - 1]
      /\ g[k] # IF t <= k THEN f[k] + 1 ELSE f[k]
  BY <1>2, <1>3, <1>4, <1>5 DEF Totals
<1>7. CASE k = t
  BY <1>5, <1>6, <1>7
<1>8. CASE k # t
  BY <1>5, <1>6, <1>8
<1> QED
  BY <1>7, <1>8

\* SoldUpTo adds up what the tiers have sold, before and after a step.
LEMMA SoldUpToIs ==
  /\ TypeOK => Totals(SoldUpTo, sold, NTiers)
  /\ TypeOK' => Totals(SoldUpTo', sold', NTiers)
<1>1. NTiers \in Nat /\ Supply \in Nat
  BY BoundsAssumption
<1>2. ASSUME TypeOK PROVE Totals(SoldUpTo, sold, NTiers)
  <2>1. \A k \in 1 .. NTiers : sold[k] \in Int
    BY <1>1, <1>2 DEF TypeOK
  <2> QED
    BY <1>1, <2>1, TotalsAre DEF SoldUpTo
<1>3. ASSUME TypeOK' PROVE Totals(SoldUpTo', sold', NTiers)
  <2>1. \A k \in 1 .. NTiers : sold'[k] \in Int
    BY <1>1, <1>3 DEF TypeOK
  <2> QED
    BY <1>1, <2>1, TotalsAre DEF SoldUpTo
<1> QED
  BY <1>2, <1>3

-------------------------------------------------------------------------------
(* The inductive invariant. *)

\* The period that a query is about.
PeriodOf(q) == IF q \in First THEN chart.previous ELSE chart.period

\* What a query has counted are rows of its period, and among those that were
\* there when the request arrived it has counted them all.
ReadInv ==
  /\ chart = None => read = Nothing
  /\ chart # None =>
       \A q \in Queries : read[q] # None =>
         /\ \A i \in read[q] : Within(sales[i], PeriodOf(q))
         /\ \A i \in 1 .. chart.before :
              Within(sales[i], PeriodOf(q)) => i \in read[q]

\* What a request has added up lies between what was sold when it began, less
\* what is left to ask for, and what is sold now.
TallyInv ==
  tally # None =>
    /\ tally.atStart <= tally.sum + (TotalSold - SoldUpTo[tally.done])
    /\ tally.sum <= SoldUpTo[tally.done]

\* The inductive invariant.
Inv == TypeOK /\ ReadInv /\ TallyInv

\* Bounds of the model.
LEMMA Bounds == NTiers \in Nat /\ Supply \in Nat /\ MaxSales \in Nat
  BY BoundsAssumption

\* No query has read anything.
LEMMA NothingTyped == \A S : Nothing \in [Queries -> S \cup {None}]
  BY DEF Nothing

\* The invariant holds at the beginning.
LEMMA InitInv == Init => Inv
<1> SUFFICES ASSUME Init PROVE Inv
  OBVIOUS
<1>1. TypeOK
  <2>1. /\ now \in Instants /\ sales = <<>> /\ chart = None /\ read = Nothing
        /\ sold = [t \in 1 .. NTiers |-> 0] /\ tally = None
    BY DEF Init
  <2>2. sales \in Seq(Instants) /\ Len(sales) <= MaxSales
    BY <2>1, Bounds
  <2>3. read \in [Queries -> (SUBSET DOMAIN sales) \cup {None}]
    BY <2>1, NothingTyped
  <2>4. sold \in [1 .. NTiers -> 0 .. Supply]
    BY <2>1, Bounds
  <2> QED
    BY <2>1, <2>2, <2>3, <2>4 DEF TypeOK
<1>2. ReadInv /\ TallyInv
  BY DEF Init, ReadInv, TallyInv
<1> QED
  BY <1>1, <1>2 DEF Inv

\* Rows that are there stay, and new ones come after them.
LEMMA SaleAdded ==
  ASSUME TypeOK, NEW t \in Instants, sales' = Append(sales, t)
  PROVE  /\ Len(sales') = Len(sales) + 1 /\ sales' \in Seq(Instants)
         /\ Len(sales) \in Nat /\ DOMAIN sales = 1 .. Len(sales)
         /\ DOMAIN sales \subseteq DOMAIN sales'
         /\ \A i \in DOMAIN sales : sales'[i] = sales[i]
  BY DEF TypeOK

\* A sale is recorded.
LEMMA SellKeeps == ASSUME Inv, Sell PROVE Inv'
<1>1. /\ TypeOK /\ ReadInv /\ TallyInv
      /\ Len(sales) < MaxSales /\ now \in Instants /\ sales' = Append(sales, now)
      /\ UNCHANGED <<now, chart, read, sold, tally>>
  BY DEF Inv, Sell, TypeOK, chartVars
<1>2. /\ Len(sales') = Len(sales) + 1 /\ sales' \in Seq(Instants)
      /\ Len(sales) \in Nat /\ DOMAIN sales = 1 .. Len(sales)
      /\ DOMAIN sales \subseteq DOMAIN sales'
      /\ \A i \in DOMAIN sales : sales'[i] = sales[i]
  BY <1>1, SaleAdded
<1>3. TypeOK'
  <2>1. Len(sales') <= MaxSales
    BY <1>1, <1>2, Bounds
  <2>2. read \in [Queries -> (SUBSET DOMAIN sales') \cup {None}]
    BY <1>1, <1>2 DEF TypeOK
  <2>3. chart # None => chart.before \in 0 .. Len(sales')
    BY <1>1, <1>2 DEF TypeOK
  <2> QED
    BY <1>1, <1>2, <2>1, <2>2, <2>3 DEF TypeOK
<1>4. ReadInv'
  <2>1. (chart = None => read = Nothing)'
    BY <1>1 DEF ReadInv, Nothing
  <2>2. ASSUME chart # None, NEW q \in Queries, read[q] # None
        PROVE  /\ \A i \in read[q] : Within(sales'[i], PeriodOf(q))
               /\ \A i \in 1 .. chart.before :
                    Within(sales'[i], PeriodOf(q)) => i \in read[q]
    <3>1. read[q] \subseteq DOMAIN sales
      BY <1>1, <2>2 DEF TypeOK
    <3>2. 1 .. chart.before \subseteq DOMAIN sales
      BY <1>1, <1>2, <2>2 DEF TypeOK
    <3>3. /\ \A i \in read[q] : Within(sales[i], PeriodOf(q))
          /\ \A i \in 1 .. chart.before :
               Within(sales[i], PeriodOf(q)) => i \in read[q]
      BY <1>1, <2>2 DEF ReadInv
    <3> QED
      BY <1>2, <3>1, <3>2, <3>3
  <2> QED
    BY <1>1, <2>1, <2>2 DEF ReadInv, PeriodOf
<1>5. TallyInv'
  BY <1>1 DEF TallyInv, TotalSold, SoldUpTo
<1> QED
  BY <1>3, <1>4, <1>5 DEF Inv

\* What tells that the tickets sold and the request for them are as they were.
LEMMA TallyStays ==
  ASSUME TallyInv, UNCHANGED <<sold, tally>> PROVE TallyInv'
  BY DEF TallyInv, TotalSold, SoldUpTo

\* Steps of the statistics' request and of time.
LEMMA ChartKeeps ==
  ASSUME Inv, Pass \/ Ask \/ (\E q \in Queries : Read(q)) \/ Answer \/ Reject
  PROVE  Inv'
<1>1. /\ TypeOK /\ ReadInv /\ TallyInv /\ now \in Instants
      /\ sales' = sales /\ sold' = sold /\ tally' = tally /\ now' \in Instants
  BY DEF Inv, TypeOK, Pass, Ask, Read, Answer, Reject, chartVars
<1>2. TallyInv'
  BY <1>1, TallyStays
<1>3. CASE Pass
  <2>1. UNCHANGED <<chart, read>>
    BY <1>3 DEF Pass, chartVars
  <2>2. TypeOK'
    BY <1>1, <2>1 DEF TypeOK
  <2>3. ReadInv'
    BY <1>1, <2>1 DEF ReadInv, Nothing, PeriodOf
  <2> QED
    BY <1>2, <2>2, <2>3 DEF Inv
<1>4. CASE Ask
  <2>1. PICK type \in Types, from \in Midnights \cup {None},
             to \in Midnights \cup {None} :
          LET p == Period(type, now, from, to) IN
          chart' = [type |-> type, period |-> p, previous |-> Previous(type, p),
                    before |-> Len(sales)]
    BY <1>4 DEF Ask
  <2> DEFINE p == Period(type, now, from, to)
             q == Previous(type, p)
  <2>2. p \in Span /\ q \in Span
    BY <1>1, PeriodsInt, InstantsInt
  <2>3. Len(sales) \in Nat
    BY <1>1 DEF TypeOK
  <2>4. chart' = [type |-> type, period |-> p, previous |-> q, before |-> Len(sales)]
    BY <2>1
  <2> HIDE DEF p, q
  <2>5. chart' \in [type : Types, period : Span, previous : Span,
                     before : 0 .. Len(sales)]
    BY <2>2, <2>3, <2>4
  <2>6. read' = read /\ read = Nothing
    BY <1>1, <1>4 DEF Ask, ReadInv
  <2>7. TypeOK'
    BY <1>1, <2>5, <2>6 DEF TypeOK
  <2>8. ReadInv'
    BY <2>6 DEF ReadInv, Nothing
  <2> QED
    BY <1>2, <2>7, <2>8 DEF Inv
<1>5. CASE \E q \in Queries : Read(q)
  <2>1. PICK q \in Queries : Read(q)
    BY <1>5
  <2>2. /\ chart # None /\ chart' = chart
        /\ read' = [read EXCEPT ![q] = Rows(q)]
    BY <2>1 DEF Read
  <2>3. Rows(q) = {i \in DOMAIN sales : Within(sales[i], PeriodOf(q))}
    BY DEF Rows, PeriodOf
  <2>4. 1 .. chart.before \subseteq DOMAIN sales
    BY <1>1, <2>2 DEF TypeOK
  <2>5. TypeOK'
    BY <1>1, <2>2, <2>3 DEF TypeOK
  <2>6. ReadInv'
    <3>1. ASSUME NEW u \in Queries, read'[u] # None
          PROVE  /\ \A i \in read'[u] : Within(sales[i], PeriodOf(u))
                 /\ \A i \in 1 .. chart.before :
                      Within(sales[i], PeriodOf(u)) => i \in read'[u]
      <4>1. CASE u = q
        <5>1. read'[u] = Rows(q)
          BY <1>1, <2>2, <4>1 DEF TypeOK
        <5> QED
          BY <2>3, <2>4, <4>1, <5>1
      <4>2. CASE u # q
        <5>1. read'[u] = read[u]
          BY <1>1, <2>2, <4>2 DEF TypeOK
        <5> QED
          BY <1>1, <2>2, <3>1, <5>1 DEF ReadInv
      <4> QED
        BY <4>1, <4>2
    <3> QED
      BY <1>1, <2>2, <3>1 DEF ReadInv, PeriodOf
  <2> QED
    BY <1>2, <2>5, <2>6 DEF Inv
<1>6. CASE Answer \/ Reject
  <2>1. chart' = None /\ read' = Nothing
    BY <1>6 DEF Answer, Reject
  <2>2. TypeOK'
    BY <1>1, <2>1, NothingTyped DEF TypeOK
  <2>3. ReadInv'
    BY <2>1 DEF ReadInv, Nothing
  <2> QED
    BY <1>2, <2>2, <2>3 DEF Inv
<1> QED
  BY <1>3, <1>4, <1>5, <1>6

\* Steps of the request for the tickets sold, and purchases.
LEMMA TallyKeeps ==
  ASSUME Inv, Buy \/ AskSold \/ CountTier \/ AnswerSold
  PROVE  Inv'
<1>1. /\ TypeOK /\ ReadInv /\ TallyInv
      /\ UNCHANGED <<now, sales, chart, read>>
  BY DEF Inv, Buy, AskSold, CountTier, AnswerSold, chartVars
<1>2. ReadInv'
  BY <1>1 DEF ReadInv, Nothing, PeriodOf
<1>3. Totals(SoldUpTo, sold, NTiers)
  BY <1>1, SoldUpToIs
<1>4. NTiers \in Nat /\ Supply \in Nat /\ NTiers \in 0 .. NTiers
      /\ Supply * NTiers \in Int
  BY Bounds
<1>5. ASSUME NEW n \in 0 .. NTiers
      PROVE  /\ SoldUpTo[n] \in Int /\ 0 <= SoldUpTo[n]
             /\ SoldUpTo[n] <= SoldUpTo[NTiers]
             /\ SoldUpTo[NTiers] <= Supply * NTiers
  <2>1. \A k \in 1 .. NTiers : sold[k] \in 0 .. Supply
    BY <1>1 DEF TypeOK
  <2>2. SoldUpTo[n] \in 0 .. Supply * n /\ SoldUpTo[n] <= SoldUpTo[NTiers]
    BY <1>3, <1>4, <2>1, TotalsGrow
  <2>3. SoldUpTo[NTiers] \in 0 .. Supply * NTiers
    BY <1>3, <1>4, <2>1, TotalsGrow
  <2> QED
    BY <1>4, <2>2, <2>3
<1>6. CASE Buy
  <2>1. PICK t \in 1 .. NTiers :
          sold[t] < Supply /\ sold' = [sold EXCEPT ![t] = @ + 1]
    BY <1>6 DEF Buy
  <2>2. tally' = tally
    BY <1>6 DEF Buy
  <2>3. TypeOK'
    <3>1. sold' \in [1 .. NTiers -> 0 .. Supply]
      BY <1>1, <1>4, <2>1 DEF TypeOK
    <3> QED
      BY <1>1, <2>2, <3>1 DEF TypeOK
  <2>4. ASSUME NEW n \in 0 .. NTiers
        PROVE  SoldUpTo'[n] = IF t <= n THEN SoldUpTo[n] + 1 ELSE SoldUpTo[n]
    <3>1. Totals(SoldUpTo', sold', NTiers)
      BY <2>3, SoldUpToIs
    <3>2. /\ \A k \in 1 .. NTiers : sold[k] \in Int
          /\ sold'[t] = sold[t] + 1
          /\ \A k \in (1 .. NTiers) \ {t} : sold'[k] = sold[k]
      BY <1>1, <2>1 DEF TypeOK
    <3> QED
      BY <1>3, <1>4, <3>1, <3>2, TotalsAddOne
  <2>5. TallyInv'
    <3>1. SUFFICES ASSUME tally # None
                   PROVE  /\ tally.atStart <=
                               tally.sum + (SoldUpTo'[NTiers] - SoldUpTo'[tally.done])
                          /\ tally.sum <= SoldUpTo'[tally.done]
      BY <2>2 DEF TallyInv, TotalSold
    <3>2. tally.done \in 0 .. NTiers /\ tally.sum \in Int /\ tally.atStart \in Int
      BY <1>1, <1>4, <3>1 DEF TypeOK
    <3>3. /\ tally.atStart <= tally.sum + (SoldUpTo[NTiers] - SoldUpTo[tally.done])
          /\ tally.sum <= SoldUpTo[tally.done]
      BY <1>1, <3>1 DEF TallyInv, TotalSold
    <3> QED
      BY <1>4, <1>5, <2>4, <3>2, <3>3
  <2> QED
    BY <1>2, <2>3, <2>5 DEF Inv
<1>7. ASSUME sold' = sold PROVE SoldUpTo' = SoldUpTo
  BY <1>7 DEF SoldUpTo
<1>8. CASE AskSold
  <2>1. sold' = sold /\ tally' = [done |-> 0, sum |-> 0, atStart |-> SoldUpTo[NTiers]]
    BY <1>8 DEF AskSold, TotalSold
  <2>2. TypeOK'
    BY <1>1, <1>4, <1>5, <2>1 DEF TypeOK
  <2>3. SoldUpTo[0] = 0
    BY <1>3 DEF Totals
  <2>4. TallyInv'
    BY <1>4, <1>5, <1>7, <2>1, <2>3 DEF TallyInv, TotalSold
  <2> QED
    BY <1>2, <2>2, <2>4 DEF Inv
<1>9. CASE CountTier
  <2>1. /\ tally # None /\ tally.done < NTiers /\ sold' = sold
        /\ tally' = [tally EXCEPT !.done = @ + 1, !.sum = @ + sold[tally.done + 1]]
    BY <1>9 DEF CountTier
  <2>2. tally \in [done : 0 .. NTiers, sum : 0 .. Supply * NTiers,
                   atStart : 0 .. Supply * NTiers]
    BY <1>1, <2>1 DEF TypeOK
  <2> DEFINE n == tally.done + 1
  <2>3. /\ n \in 1 .. NTiers /\ n \in 0 .. NTiers /\ tally.done \in 0 .. NTiers
        /\ n - 1 = tally.done
        /\ tally.sum \in Int /\ 0 <= tally.sum /\ tally.atStart \in Int
        /\ tally.atStart \in 0 .. Supply * NTiers
    BY <1>4, <2>1, <2>2
  <2>4. /\ tally'.done = n /\ tally'.sum = tally.sum + sold[n]
        /\ tally'.atStart = tally.atStart
        /\ tally' = [done |-> n, sum |-> tally.sum + sold[n],
                     atStart |-> tally.atStart]
    BY <2>1, <2>2
  <2>5. /\ tally.atStart <= tally.sum + (SoldUpTo[NTiers] - SoldUpTo[tally.done])
        /\ tally.sum <= SoldUpTo[tally.done]
    BY <1>1, <2>1 DEF TallyInv, TotalSold
  <2>6. SoldUpTo[n] = SoldUpTo[tally.done] + sold[n]
    BY <1>3, <2>3 DEF Totals
  <2>7. sold[n] \in 0 .. Supply
    BY <1>1, <2>3 DEF TypeOK
  <2> HIDE DEF n
  <2>8. /\ tally'.sum \in 0 .. Supply * NTiers
        /\ tally'.sum <= SoldUpTo[n]
        /\ tally'.atStart <= tally'.sum + (SoldUpTo[NTiers] - SoldUpTo[n])
    BY <1>4, <1>5, <2>3, <2>4, <2>5, <2>6, <2>7
  <2>9. TypeOK'
    BY <1>1, <2>1, <2>3, <2>4, <2>8 DEF TypeOK
  <2>10. TallyInv'
    BY <1>7, <2>1, <2>4, <2>8 DEF TallyInv, TotalSold
  <2> QED
    BY <1>2, <2>9, <2>10 DEF Inv
<1>10. CASE AnswerSold
  <2>1. sold' = sold /\ tally' = None
    BY <1>10 DEF AnswerSold
  <2> QED
    BY <1>1, <1>2, <2>1 DEF Inv, TypeOK, TallyInv
<1> QED
  BY <1>6, <1>8, <1>9, <1>10

-------------------------------------------------------------------------------
(* The invariant holds, and what follows from it. *)

\* Every step keeps the invariant.
LEMMA NextInv == Inv /\ [Next]_vars => Inv'
<1> SUFFICES ASSUME Inv, [Next]_vars PROVE Inv'
  OBVIOUS
<1>1. CASE UNCHANGED vars
  <2>1. UNCHANGED <<now, sales, chart, read, sold, tally>>
    BY <1>1 DEF vars, chartVars
  <2> QED
    BY <2>1, TallyStays DEF Inv, TypeOK, ReadInv, Nothing, PeriodOf
<1> QED
  BY <1>1, SellKeeps, ChartKeeps, TallyKeeps DEF Next

\* The invariant of the two requests, while rows are recorded, tickets are bought
\* and time passes (getStatisticsData, getTicketsSoldStats).
THEOREM StatisticsInvariant == Spec => []Inv
  BY InitInv, NextInv, PTL DEF Spec

\* Periods are instants, counted rows are rows, and totals stay within the supply
\* (getStatisticsData, getTicketsSoldStats).
THEOREM StatisticsTypes == Spec => []TypeOK
<1>1. Inv => TypeOK
  BY DEF Inv
<1> QED
  BY <1>1, StatisticsInvariant, PTL

\* The parts of one answer are about the same rows, but for those recorded while
\* it was put together, however many there are (getStatisticsData).
THEOREM PartsAgreeAlways == Spec => []PartsAgree
<1>1. ASSUME Inv PROVE PartsAgree
  <2>1. SUFFICES ASSUME chart # None, NEW qs \in {First, Second},
                        NEW q \in qs, NEW u \in qs,
                        read[q] # None, read[u] # None,
                        NEW i \in 1 .. chart.before, i \in read[q]
                 PROVE  i \in read[u]
    BY DEF PartsAgree
  <2>2. q \in Queries /\ u \in Queries /\ PeriodOf(q) = PeriodOf(u)
    BY <2>1 DEF First, Second, Queries, PeriodOf
  <2> QED
    BY <1>1, <2>1, <2>2 DEF Inv, ReadInv
<1> QED
  BY <1>1, StatisticsInvariant, PTL

\* What is answered of tickets sold was true at some time between question and
\* answer, for any number of tiers and purchases in between
\* (getTicketsSoldStats, getRemainingTickets).
THEOREM SoldBetweenAlways == Spec => []SoldBetween
<1>1. ASSUME Inv PROVE SoldBetween
  <2>1. SUFFICES ASSUME tally # None, tally.done = NTiers
                 PROVE  tally.atStart <= tally.sum /\ tally.sum <= TotalSold
    BY DEF SoldBetween
  <2>2. TotalSold \in Int
    <3>1. Totals(SoldUpTo, sold, NTiers)
      BY <1>1, SoldUpToIs DEF Inv
    <3> QED
      BY <3>1, Bounds DEF Totals, TotalSold
  <2>3. tally.sum \in Int /\ tally.atStart \in Int
    BY <1>1, <2>1, Bounds DEF Inv, TypeOK
  <2>4. /\ tally.atStart <= tally.sum + (TotalSold - TotalSold)
        /\ tally.sum <= TotalSold
    BY <1>1, <2>1 DEF Inv, TallyInv, TotalSold
  <2> QED
    BY <2>2, <2>3, <2>4
<1> QED
  BY <1>1, StatisticsInvariant, PTL

-------------------------------------------------------------------------------
(* Weeks of a month. *)

\* So many months are at least 28 days each.
LEMMA MonthsApart ==
  ASSUME NEW m \in 0 .. Months, NEW j \in Nat, m + j \in 0 .. Months
  PROVE  FirstDay[m] + 28 * j <= FirstDay[m + j]
<1> DEFINE B == {k \in 0 .. j : FirstDay[m + k] < FirstDay[m] + 28 * k}
<1>1. \A k \in 0 .. j : m + k \in 0 .. Months /\ FirstDay[m + k] \in Int
  BY FirstDayIs, CalendarAssumption
<1>2. ASSUME B # {} PROVE FALSE
  <2>1. PICK k \in B : k = 0 \/ k - 1 \notin B
    BY <1>2, Least, B \in SUBSET Nat
  <2>2. /\ k \in 0 .. j /\ FirstDay[m] \in Int /\ FirstDay[m + k] \in Int
        /\ FirstDay[m + k] < FirstDay[m] + 28 * k
    BY <1>1, <2>1, FirstDayIs
  <2>3. k # 0
    BY <2>2
  <2>4. /\ k - 1 \in 0 .. j /\ k - 1 \notin B /\ FirstDay[m + (k - 1)] \in Int
    BY <1>1, <2>1, <2>2, <2>3
  <2>5. /\ m + (k - 1) \in Nat /\ m + (k - 1) \in 0 .. Months - 1
        /\ (m + (k - 1)) + 1 = m + k
    BY <1>1, <2>2, <2>3, CalendarAssumption
  <2>6. /\ FirstDay[m + k] = FirstDay[m + (k - 1)] + Length(m + (k - 1))
        /\ Length(m + (k - 1)) \in 28 .. 31
    BY <2>5, FirstDayIs, LengthBounds
  <2>7. FirstDay[m + (k - 1)] >= FirstDay[m] + 28 * (k - 1)
    BY <2>2, <2>4
  <2> QED
    BY <2>2, <2>4, <2>6, <2>7
<1>3. FirstDay[m] \in Int /\ FirstDay[m + j] \in Int /\ j \in 0 .. j
  BY FirstDayIs
<1> QED
  BY <1>2, <1>3

\* Mondays are seven days apart, and a day's Monday is at most six days before it.
LEMMA MondayIs ==
  ASSUME NEW d \in Int
  PROVE  /\ Monday(d) \in Int /\ Monday(d) <= d /\ d <= Monday(d) + 6
         /\ Monday(d) = 7 * ((d + Weekday0) \div 7) - Weekday0
         /\ (d + Weekday0) \div 7 \in Int
  BY CalendarAssumption DEF Monday

\* The first of January of the year that a day's week belongs to.
January(d) == FirstDay[(MonthOf(Monday(d) + 3) \div 12) * 12]

\* The week's number counts the Thursdays since then.
LEMMA WeekIs ==
  ASSUME NEW d \in Int
  PROVE  Week(d) = ((Monday(d) + 3) - January(d)) \div 7 + 1
  BY DEF Week, January

\* The Thursday of a day's week is in the day's month or in one next to it.
LEMMA ThursdayIn ==
  ASSUME NEW m \in 1 .. Months - 2, NEW d \in Int,
         FirstDay[m] <= d, d < FirstDay[m + 1]
  PROVE  LET t == Monday(d) + 3 IN
         /\ t \in Int /\ d - 3 <= t /\ t <= d + 3
         /\ t < FirstDay[m] => MonthOf(t) = m - 1
         /\ FirstDay[m] <= t /\ t < FirstDay[m + 1] => MonthOf(t) = m
         /\ FirstDay[m + 1] <= t => MonthOf(t) = m + 1
<1> DEFINE t == Monday(d) + 3
<1>1. t \in Int /\ d - 3 <= t /\ t <= d + 3
  BY MondayIs
<1>2. /\ Months \in Nat
      /\ {m - 1, m, m + 1} \subseteq 0 .. Months - 1
      /\ {m - 1, m, m + 1, m + 2} \subseteq 0 .. Months
      /\ {m - 1, m, m + 1, m + 2} \subseteq Nat
      /\ (m - 1) + 1 = m /\ (m + 1) + 1 = m + 2
  BY CalendarAssumption
<1>3. /\ FirstDay[m] = FirstDay[m - 1] + Length(m - 1)
      /\ FirstDay[m + 2] = FirstDay[m + 1] + Length(m + 1)
      /\ Length(m - 1) \in 28 .. 31 /\ Length(m + 1) \in 28 .. 31
      /\ \A k \in {m - 1, m, m + 1, m + 2} : FirstDay[k] \in Int
  BY <1>2, FirstDayIs, LengthBounds
<1> HIDE DEF t
<1>4. FirstDay[m - 1] <= t /\ t < FirstDay[m + 2]
  BY <1>1, <1>3
<1>5. t < FirstDay[m] => MonthOf(t) = m - 1
  BY <1>1, <1>2, <1>4, MonthOfIs
<1>6. FirstDay[m] <= t /\ t < FirstDay[m + 1] => MonthOf(t) = m
  BY <1>1, <1>2, MonthOfIs
<1>7. FirstDay[m + 1] <= t => MonthOf(t) = m + 1
  BY <1>1, <1>2, <1>4, MonthOfIs
<1> QED
  BY <1>1, <1>5, <1>6, <1>7 DEF t

\* Years have twelve months.
LEMMA Years ==
  ASSUME NEW m \in Nat \ {0}
  PROVE  /\ m \div 12 \in Nat /\ (m \div 12) * 12 \in Nat
         /\ (m \div 12) * 12 <= m /\ m <= (m \div 12) * 12 + 11
         /\ \/ (m - 1) \div 12 = m \div 12
            \/ m = (m \div 12) * 12 /\ ((m - 1) \div 12) * 12 = m - 12 /\ m >= 12
         /\ \/ (m + 1) \div 12 = m \div 12
            \/ /\ m = (m \div 12) * 12 + 11
               /\ ((m + 1) \div 12) * 12 = m + 1
  OBVIOUS

\* In a month whose weeks are in the order of the year, all of them belong to
\* the same year.
LEMMA SameYear ==
  ASSUME NEW m \in 1 .. Months - 2, ~Wraps(m), NEW d \in Int,
         FirstDay[m] <= d, d < FirstDay[m + 1]
  PROVE  January(d) = FirstDay[(m \div 12) * 12]
<1> DEFINE first == FirstDay[m]
           next == FirstDay[m + 1]
           last == next - 1
           y == (m \div 12) * 12
           J == FirstDay[y]
           T(x) == Monday(x) + 3
           M(x) == MonthOf(T(x))
<1>1. /\ Months \in Nat /\ m \in Nat \ {0} /\ m \in 0 .. Months - 1
      /\ m \in 0 .. Months /\ m + 1 \in 0 .. Months /\ m - 1 \in 0 .. Months
      /\ y \in 0 .. Months /\ y <= m /\ m <= y + 11 /\ y \in Nat
      /\ m - 1 \in Nat /\ m + 1 \in Nat
  BY CalendarAssumption, Years
<1>2. /\ first \in Int /\ next = first + Length(m) /\ next \in Int
      /\ Length(m) \in 28 .. 31 /\ J \in Int
  BY <1>1, FirstDayIs, LengthBounds
<1>3. /\ first <= first /\ first < next /\ first <= last /\ last < next
      /\ last \in Int
  BY <1>2
<1>4. ASSUME NEW x \in {first, last, d}
      PROVE  /\ T(x) \in Int /\ x - 3 <= T(x) /\ T(x) <= x + 3
             /\ T(x) < first => M(x) = m - 1
             /\ first <= T(x) /\ T(x) < next => M(x) = m
             /\ next <= T(x) => M(x) = m + 1
             /\ Week(x) = (T(x) - January(x)) \div 7 + 1
             /\ January(x) = FirstDay[(M(x) \div 12) * 12]
             /\ January(x) \in Int
  <2>1. x \in Int /\ first <= x /\ x < next
    BY <1>2, <1>3
  <2>2. /\ T(x) \in Int /\ x - 3 <= T(x) /\ T(x) <= x + 3
        /\ T(x) < first => M(x) = m - 1
        /\ first <= T(x) /\ T(x) < next => M(x) = m
        /\ next <= T(x) => M(x) = m + 1
    BY <2>1, ThursdayIn
  <2>3. /\ Week(x) = (T(x) - January(x)) \div 7 + 1
        /\ January(x) = FirstDay[(M(x) \div 12) * 12]
    <3>1. x \in Int
      BY <1>2, <2>1
    <3>2. Week(x) = (T(x) - January(x)) \div 7 + 1
      BY <3>1, WeekIs
    <3>3. January(x) = FirstDay[(M(x) \div 12) * 12]
      BY DEF January
    <3> QED
      BY <3>2, <3>3
  <2>4. M(x) \in {m - 1, m, m + 1}
    <3> HIDE DEF T, M, first, next
    <3> QED
      BY <1>2, <2>2
  <2>5. (M(x) \div 12) * 12 \in 0 .. Months
    <3> HIDE DEF M
    <3>1. M(x) \in Nat /\ M(x) <= Months
      BY <1>1, <2>4
    <3> QED
      BY <1>1, <3>1
  <2>6. January(x) \in Int
    BY <2>3, <2>5, FirstDayIs
  <2> QED
    BY <2>2, <2>3, <2>6
<1>5. Week(first) <= Week(last)
  <2>1. Week(first) \in Int /\ Week(last) \in Int
    <3>1. \A x \in {first, last} :
            Week(x) = (T(x) - January(x)) \div 7 + 1
            /\ T(x) \in Int /\ January(x) \in Int
      BY <1>4
    <3> HIDE DEF first, last, T
    <3> QED
      BY <3>1
  <2> QED
    BY <2>1 DEF Wraps
<1>6. T(first) <= T(d) /\ T(d) <= T(last)
  BY <1>2, <1>3, MondayIs, CalendarAssumption
<1>7. /\ first \in {first, last, d} /\ last \in {first, last, d}
      /\ d \in {first, last, d}
  OBVIOUS
<1> HIDE DEF first, last, T, M, J
<1>8. ASSUME (m - 1) \div 12 # m \div 12, T(d) < first PROVE FALSE
  <2>1. /\ m = y /\ ((m - 1) \div 12) * 12 = m - 12 /\ m >= 12
        /\ (m + 1) \div 12 = m \div 12 /\ m - 12 \in 0 .. Months
    BY <1>1, <1>8, Years
  <2>2. J = first
    BY <2>1 DEF J, first
  <2>3. January(first) = FirstDay[m - 12] /\ first - 3 <= T(first)
    <3>1. T(first) \in Int /\ T(d) \in Int /\ first - 3 <= T(first)
      BY <1>4, <1>7
    <3>2. M(first) = m - 1
      BY <1>2, <1>4, <1>6, <1>7, <1>8, <3>1
    <3> QED
      BY <1>4, <1>7, <2>1, <3>1, <3>2
  <2>4. FirstDay[m - 12] + 28 * 12 <= first /\ FirstDay[m - 12] \in Int
    <3>1. (m - 12) + 12 = m /\ 12 \in Nat
      BY <1>1
    <3>2. FirstDay[m - 12] + 28 * 12 <= FirstDay[(m - 12) + 12]
      BY <1>1, <2>1, <3>1, MonthsApart
    <3> QED
      BY <2>1, <3>1, <3>2, FirstDayIs DEF first
  <2>5. Week(first) >= 48
    BY <1>4, <1>7, <2>3, <2>4, <1>2
  <2>6. January(last) = first /\ T(last) <= first + 33
    BY <1>2, <1>3, <1>4, <1>7, <2>1, <2>2 DEF last, J
  <2>7. Week(last) <= 5
    BY <1>2, <1>4, <1>7, <2>6
  <2>8. Week(first) \in Int /\ Week(last) \in Int
    BY <1>4, <1>7
  <2> QED
    BY <1>5, <2>5, <2>7, <2>8
<1>9. ASSUME (m + 1) \div 12 # m \div 12, next <= T(d) PROVE FALSE
  <2>1. /\ m = y + 11 /\ ((m + 1) \div 12) * 12 = m + 1
        /\ (m - 1) \div 12 = m \div 12
    BY <1>1, <1>9, Years
  <2>2. January(last) = next /\ T(last) <= next + 2
    BY <1>2, <1>4, <1>6, <1>7, <1>9, <2>1 DEF last
  <2>3. Week(last) <= 1
    BY <1>2, <1>4, <1>7, <2>2
  <2>4. J + 28 * 11 <= first
    <3>1. m = y + 11 /\ 11 \in Nat
      BY <2>1
    <3> HIDE DEF y
    <3> QED
      BY <1>1, <3>1, MonthsApart DEF J, first
  <2>5. January(first) = J /\ first - 3 <= T(first)
    BY <1>2, <1>3, <1>4, <1>7, <2>1 DEF J
  <2>6. Week(first) >= 44
    BY <1>2, <1>4, <1>7, <2>4, <2>5
  <2>7. Week(first) \in Int /\ Week(last) \in Int
    BY <1>4, <1>7
  <2> QED
    BY <1>5, <2>3, <2>6, <2>7
<1>10. M(d) \div 12 = m \div 12
  <2>1. T(d) \in Int
    BY <1>4, <1>7
  <2>2. CASE T(d) < first
    BY <1>4, <1>7, <1>8, <2>2
  <2>3. CASE first <= T(d) /\ T(d) < next
    BY <1>4, <1>7, <2>3
  <2>4. CASE next <= T(d)
    BY <1>4, <1>7, <1>9, <2>4
  <2> QED
    BY <1>2, <2>1, <2>2, <2>3, <2>4
<1> QED
  BY <1>4, <1>7, <1>10 DEF J

\* In such a month weeks are numbered as their Mondays follow one another, and a
\* Monday is past when its week is.
LEMMA WeekOrder ==
  ASSUME NEW m \in 1 .. Months - 2, ~Wraps(m),
         NEW d \in Int, FirstDay[m] <= d, d < FirstDay[m + 1],
         NEW e \in Int, FirstDay[m] <= e, e < FirstDay[m + 1]
  PROVE  /\ Week(d) <= Week(e) <=> Monday(d) <= e
         /\ Week(d) = Week(e) <=> Monday(d) = Monday(e)
<1> DEFINE J == FirstDay[(m \div 12) * 12]
<1>1. /\ Week(d) = ((Monday(d) + 3) - J) \div 7 + 1
      /\ Week(e) = ((Monday(e) + 3) - J) \div 7 + 1
  BY SameYear, WeekIs
<1>2. J \in Int
  <2>1. m \in Nat \ {0} /\ m <= Months /\ Months \in Nat
    BY CalendarAssumption
  <2>2. (m \div 12) * 12 \in 0 .. Months
    BY <2>1, Years
  <2> QED
    BY <2>2, FirstDayIs
<1> DEFINE a == (d + Weekday0) \div 7
           b == (e + Weekday0) \div 7
<1>3. /\ Monday(d) = 7 * a - Weekday0 /\ Monday(e) = 7 * b - Weekday0
      /\ a \in Int /\ b \in Int /\ Weekday0 \in Int
      /\ Monday(d) <= d /\ d <= Monday(d) + 6
      /\ Monday(e) <= e /\ e <= Monday(e) + 6
  BY MondayIs, CalendarAssumption
<1> HIDE DEF J, a, b
<1> DEFINE c == (3 - Weekday0) - J
<1>4. c \in Int
  BY <1>2, <1>3
<1>5. (Monday(d) + 3) - J = 7 * a + c /\ (Monday(e) + 3) - J = 7 * b + c
  BY <1>2, <1>3
<1> HIDE DEF c
<1>6. /\ (7 * a + c) \div 7 = a + (c \div 7) /\ (7 * b + c) \div 7 = b + (c \div 7)
      /\ c \div 7 \in Int
  BY <1>3, <1>4
<1>7. Week(d) <= Week(e) <=> a <= b
  BY <1>1, <1>3, <1>5, <1>6
<1>8. Week(d) = Week(e) <=> a = b
  BY <1>1, <1>3, <1>5, <1>6
<1>9. (Monday(d) <= e <=> a <= b) /\ (Monday(d) = Monday(e) <=> a = b)
  BY <1>3
<1> QED
  BY <1>7, <1>8, <1>9

\* Two ways to name the members of a finite set that tell the same members
\* apart use equally many names.
LEMMA SameCount ==
  ASSUME NEW R, IsFiniteSet(R), NEW f, NEW g,
         \A i, j \in R : f[i] = f[j] <=> g[i] = g[j]
  PROVE  Cardinality({f[i] : i \in R}) = Cardinality({g[i] : i \in R})
<1> DEFINE A == {f[i] : i \in R}
           B == {g[i] : i \in R}
           F == [i \in R |-> f[i]]
           h == [a \in A |-> g[CHOOSE i \in R : f[i] = a]]
<1>1. F \in Surjection(R, A)
  BY DEF Surjection
<1>2. IsFiniteSet(A)
  BY <1>1, FS_Surjection
<1>3. \A i \in R : f[i] \in A /\ g[i] \in B /\ h[f[i]] = g[i]
  OBVIOUS
<1>4. \A a \in A : \E i \in R : a = f[i]
  OBVIOUS
<1>5. \A b \in B : \E i \in R : b = g[i]
  OBVIOUS
<1>6. h \in [A -> B] /\ \A b \in B : \E a \in A : h[a] = b
  <2>1. \A a \in A : h[a] \in B
    BY <1>3, <1>4
  <2>2. h \in [A -> B]
    <3> HIDE DEF A, B
    <3> QED
      BY <2>1
  <2> HIDE DEF A, B, h
  <2> QED
    BY <1>3, <1>5, <2>2
<1>7. \A a, b \in A : h[a] = h[b] => a = b
  BY <1>3, <1>4
<1>8. h \in Surjection(A, B) /\ h \in Injection(A, B)
  BY <1>6, <1>7 DEF Surjection, Injection, IsInjective
<1> HIDE DEF A, B, h
<1>9. Cardinality(A) = Cardinality(B)
  BY <1>2, <1>8, FS_Surjection
<1> QED
  BY <1>9 DEF A, B

\* A report of a month is about one with a month before and one after it.
MonthInv ==
  chart # None /\ chart.type = "month" =>
    \E m \in 1 .. Months - 2 :
      /\ chart.period.start = FirstDay[m] * Parts
      /\ chart.period.end = FirstDay[m + 1] * Parts - 1

\* The month of a report is fixed when it is asked for, and is not at an end of
\* the calendar (getStatisticsData).
THEOREM MonthInvariant == Spec => []MonthInv
<1>1. Init => MonthInv
  BY DEF Init, MonthInv
<1>2. ASSUME Inv, MonthInv, [Next]_vars PROVE MonthInv'
  <2>1. CASE Ask
    <3>1. PICK type \in Types, from \in Midnights \cup {None},
               to \in Midnights \cup {None} :
            LET p == Period(type, now, from, to) IN
            chart' = [type |-> type, period |-> p, previous |-> Previous(type, p),
                      before |-> Len(sales)]
      BY <2>1 DEF Ask
    <3>2. chart'.type = type /\ chart'.period = Period(type, now, from, to)
      BY <3>1
    <3>3. SUFFICES ASSUME type = "month" PROVE MonthInv'
      BY <3>2 DEF MonthInv
    <3> DEFINE m == MonthOf(DayOf(now))
    <3>4. /\ chart'.period.start = FirstDay[m] * Parts
          /\ chart'.period.end = FirstDay[m + 1] * Parts - 1
      BY <3>2, <3>3 DEF Period
    <3>5. m \in 1 .. Months - 2
      BY <1>2, InstantsInt, AskedMonth DEF Inv, TypeOK
    <3> HIDE DEF m
    <3> QED
      BY <3>4, <3>5 DEF MonthInv
  <2>2. CASE chart' = chart \/ chart' = None
    BY <1>2, <2>2 DEF MonthInv
  <2> QED
    BY <1>2, <2>1, <2>2 DEF Next, vars, chartVars, Pass, Sell, Read, Answer,
       Reject, Buy, AskSold, CountTier, AnswerSold
<1> QED
  BY <1>1, <1>2, StatisticsInvariant, PTL DEF Spec

\* `Week n' of a month's chart is the n-th of its weeks that has sales, in the
\* order of time, in every month without days of another year's week
\* (getRevenueBreakdown).
THEOREM LabelsInOrderAlways == Spec => []LabelsInOrder
<1>1. ASSUME Inv, MonthInv PROVE LabelsInOrder
  <2> DEFINE rows == read["breakdown"]
             month == MonthOf(DayOf(chart.period.start))
             mondays == {Monday(DayOf(sales[j])) : j \in rows}
  <2>1. SUFFICES ASSUME chart # None, chart.type = "month", rows # None,
                        ~Wraps(month), NEW i \in rows
                 PROVE  Label(i) =
                          Cardinality({d \in mondays : d <= DayOf(sales[i])})
    BY DEF LabelsInOrder
  <2>2. PICK m \in 1 .. Months - 2 :
          /\ chart.period.start = FirstDay[m] * Parts
          /\ chart.period.end = FirstDay[m + 1] * Parts - 1
    BY <1>1, <2>1 DEF MonthInv
  <2>3. /\ m \in 0 .. Months - 1 /\ m \in 0 .. Months /\ m + 1 \in 0 .. Months
        /\ FirstDay[m] \in Int /\ FirstDay[m + 1] \in Int
        /\ FirstDay[m] < FirstDay[m + 1]
    <3>1. /\ m \in 0 .. Months - 1 /\ m \in 0 .. Months /\ m + 1 \in 0 .. Months
          /\ m < m + 1
      BY CalendarAssumption
    <3> QED
      BY <3>1, FirstDayIs, FirstDayGrows
  <2>4. month = m
    <3>1. chart.period.start = FirstDay[m] * Parts + 0 /\ 0 \in 0 .. Parts - 1
      BY <2>2, <2>3, DayEnds
    <3>2. DayOf(chart.period.start) = FirstDay[m]
      BY <2>3, <3>1, InstantIs
    <3> QED
      BY <2>3, <3>2, MonthOfIs
  <2>5. rows \subseteq DOMAIN sales /\ "breakdown" \in Queries
        /\ "breakdown" \notin First
    BY <1>1, <2>1 DEF Inv, TypeOK, Queries, Second, First
  <2>6. ASSUME NEW j \in rows
        PROVE  /\ DayOf(sales[j]) \in Int
               /\ FirstDay[m] <= DayOf(sales[j])
               /\ DayOf(sales[j]) < FirstDay[m + 1]
    <3>1. sales[j] \in Int
      <4>1. sales[j] \in Instants
        BY <1>1, <2>5 DEF Inv, TypeOK
      <4> QED
        BY <4>1, InstantsInt
    <3>2. Within(sales[j], chart.period)
      BY <1>1, <2>1, <2>5 DEF Inv, ReadInv, PeriodOf
    <3>3. /\ FirstDay[m] * Parts <= sales[j]
          /\ sales[j] <= (FirstDay[m + 1] - 1) * Parts + Parts - 1
      <4>1. FirstDay[m + 1] * Parts - 1 = (FirstDay[m + 1] - 1) * Parts + Parts - 1
        BY <2>3, CalendarAssumption
      <4> QED
        BY <2>2, <3>2, <4>1 DEF Within
    <3>4. 0 \in 0 .. Parts - 1 /\ FirstDay[m + 1] - 1 \in Int
      BY <2>3, CalendarAssumption
    <3>5. FirstDay[m] <= DayOf(sales[j]) /\ DayOf(sales[j]) <= FirstDay[m + 1] - 1
      BY <2>3, <3>1, <3>3, <3>4, InstantOrder
    <3> QED
      BY <2>3, <3>1, <3>5, InstantOf
  <2> DEFINE R == {j \in rows : WeekOf(j) <= WeekOf(i)}
             f == [j \in rows |-> WeekOf(j)]
             g == [j \in rows |-> Monday(DayOf(sales[j]))]
  <2>7. \A j, k \in rows :
          /\ WeekOf(j) <= WeekOf(k) <=> Monday(DayOf(sales[j])) <= DayOf(sales[k])
          /\ WeekOf(j) = WeekOf(k)
               <=> Monday(DayOf(sales[j])) = Monday(DayOf(sales[k]))
    BY <2>1, <2>4, <2>6, WeekOrder DEF WeekOf
  <2>8. IsFiniteSet(R)
    <3>1. IsFiniteSet(DOMAIN sales)
      BY <1>1, FS_Interval DEF Inv, TypeOK
    <3> QED
      BY <2>5, <3>1, FS_Subset
  <2>9. {w \in {WeekOf(j) : j \in rows} : w <= WeekOf(i)} = {f[j] : j \in R}
    OBVIOUS
  <2>10. {d \in mondays : d <= DayOf(sales[i])} = {g[j] : j \in R}
    BY <2>7
  <2>11. \A j, k \in R : f[j] = f[k] <=> g[j] = g[k]
    BY <2>7
  <2>12. Cardinality({f[j] : j \in R}) = Cardinality({g[j] : j \in R})
    <3> HIDE DEF R, f, g
    <3> QED
      BY <2>8, <2>11, SameCount
  <2>13. Label(i) = Cardinality({w \in {WeekOf(j) : j \in rows} : w <= WeekOf(i)})
    BY DEF Label
  <2> QED
    BY <2>9, <2>10, <2>12, <2>13
<1> QED
  BY <1>1, StatisticsInvariant, MonthInvariant, PTL
===============================================================================
