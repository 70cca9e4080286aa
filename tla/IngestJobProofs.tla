---------------------------- MODULE IngestJobProofs ----------------------------
(***************************************************************************)
(* Proofs about the polling job for every chain, batch size, lag, provider *)
(* limit and number of overlapping ticks: its types, the exclusion of its  *)
(* runs, that it leaves no gap behind its cursor, and that the cursor only *)
(* moves back by being lost.                                               *)
(***************************************************************************)
EXTENDS IngestJob, TLAPS

USE BoundsAssumption DEF BoundsAssumption

\* The blocks of logs in the chain are numbers (Log, TypeOK).
LEMMA LogBlocks == TypeOK => \A l \in logs : l \in Log /\ l[1] \in Nat /\ l[1] > 0
  BY DEF TypeOK, Log, Blocks

\* A range of runJob starts at lastBlockProcessed, is never empty and never
\* passes currentBlock.
LEMMA RangeBounds ==
  ASSUME TypeOK, NEW t \in Ticks, last[t] < current[t]
  PROVE  /\ ToBlock(t) \in Nat
         /\ last[t] < ToBlock(t)
         /\ ToBlock(t) <= current[t]
  BY DEF TypeOK, ToBlock, Least

\* Every action keeps the types of the job's variables; the start block never
\* becomes negative (runJob, handleCron, handleGetLatestBlock).
THEOREM TypeCorrect == Spec => [](TypeOK /\ CurrentKnown)
<1>1. Init => TypeOK /\ CurrentKnown
  <2> SUFFICES ASSUME Init PROVE TypeOK /\ CurrentKnown
    OBVIOUS
  <2>1. head \in Blocks /\ logs \subseteq Log
    BY DEF Init, Log, Blocks
  <2> QED
    BY <2>1 DEF Init, TypeOK, CurrentKnown, Phases, NoCursor
<1>2. TypeOK /\ CurrentKnown /\ [Next]_vars => (TypeOK /\ CurrentKnown)'
  <2> SUFFICES ASSUME TypeOK, CurrentKnown, [Next]_vars
               PROVE  TypeOK' /\ CurrentKnown'
    OBVIOUS
  <2> USE DEF TypeOK, CurrentKnown, Phases, chainVars
  <2>1. CASE MineBlock
    <3>1. head' \in Blocks
      BY <2>1 DEF MineBlock, Blocks
    <3>2. PICK new \in SUBSET {i \in Indexes : head + 1 < MaxHead} :
            logs' = logs \cup ({head'} \X new)
      BY <2>1 DEF MineBlock
    <3>3. {head'} \X new \subseteq Log
      BY <3>1, <3>2 DEF Log
    <3>4. logs \subseteq logs' /\ logs' \subseteq Log
      BY <3>2, <3>3
    <3> QED
      BY <2>1, <3>1, <3>4 DEF MineBlock
  <2>2. ASSUME NEW t \in Ticks, Tick(t) PROVE TypeOK' /\ CurrentKnown'
    BY <2>2 DEF Tick
  <2>3. ASSUME NEW t \in Ticks, GetCurrentBlock(t)
        PROVE  TypeOK' /\ CurrentKnown'
    BY <2>3 DEF GetCurrentBlock, Blocks
  <2>4. ASSUME NEW t \in Ticks, ReadCache(t) PROVE TypeOK' /\ CurrentKnown'
    BY <2>4 DEF ReadCache
  <2>5. ASSUME NEW t \in Ticks, ReadLatestFromDb(t)
        PROVE  TypeOK' /\ CurrentKnown'
    BY <2>5 DEF ReadLatestFromDb, Blocks
  <2>6. ASSUME NEW t \in Ticks, Query(t) PROVE TypeOK' /\ CurrentKnown'
    BY <2>6 DEF Query, Fetched
  <2>7. ASSUME NEW t \in Ticks, FinishRange(t) PROVE TypeOK' /\ CurrentKnown'
    <3>1. ToBlock(t) \in Nat
      BY DEF ToBlock, Least
    <3> QED
      BY <2>7, <3>1 DEF FinishRange
  <2>8. ASSUME NEW t \in Ticks, StoreCursor(t) PROVE TypeOK' /\ CurrentKnown'
    BY <2>8 DEF StoreCursor
  <2>9. ASSUME NEW t \in Ticks, FinishRun(t) \/ Throw(t)
        PROVE  TypeOK' /\ CurrentKnown'
    <3>1. Leave(t) /\ UNCHANGED <<chainVars, cache, recorded, handled>>
      BY <2>9 DEF FinishRun, Throw
    <3> QED
      BY <3>1 DEF Leave
  <2>10. ASSUME NEW t \in Ticks, SaveSnapshot(t)
         PROVE  TypeOK' /\ CurrentKnown'
    BY <2>10 DEF SaveSnapshot
  <2>11. ASSUME NEW t \in Ticks, FinishLog(t) PROVE TypeOK' /\ CurrentKnown'
    BY <2>11 DEF FinishLog
  <2>12. ASSUME NEW t \in Ticks, RangeError(t) PROVE TypeOK' /\ CurrentKnown'
    <3>1. ToBlock(t) - last[t] \in Nat
      BY <2>12 DEF RangeError, ToBlock, Least
    <3> QED
      BY <2>12, <3>1 DEF RangeError
  <2>13. CASE ExpireCache
    BY <2>13 DEF ExpireCache, NoCursor
  <2>15. CASE Restart
    BY <2>15 DEF Restart, NoCursor
  <2>14. CASE UNCHANGED vars
    BY <2>14 DEF vars
  <2> QED
    BY <2>1, <2>2, <2>3, <2>4, <2>5, <2>6, <2>7, <2>8, <2>9, <2>10, <2>11,
       <2>12, <2>13, <2>14, <2>15 DEF Next, Advance, HandleLog
<1> QED
  BY <1>1, <1>2, PTL DEF Spec

-------------------------------------------------------------------------------
(* The inductive invariant: one action at a time. *)

\* A log that is the handler's next has no unfinished log before its block.
LEMMA NextIsFirst ==
  ASSUME TypeOK, NEW t \in Ticks, NEW l \in todo[t], IsNext(t, l),
         NEW m \in todo[t]
  PROVE  l[1] <= m[1]
<1>1. l[1] \in Nat /\ m[1] \in Nat
  BY LogBlocks DEF TypeOK
<1>2. CASE m = l
  BY <1>1, <1>2
<1>3. CASE m # l
  BY <1>1, <1>3 DEF IsNext, Earlier
<1> QED
  BY <1>2, <1>3

\* Nobody else is in a run while t is (OneRun), so t's step can only disturb
\* what RangeInv says of t.
LEMMA OthersIdle ==
  ASSUME OneRun, NEW t \in Ticks, pc[t] # "idle", NEW u \in Ticks, u # t
  PROVE  pc[u] = "idle"
  BY DEF OneRun

\* MineBlock adds logs above everything the job has looked at.
LEMMA MineKeeps ==
  ASSUME TypeOK, IngestInv, MineBlock PROVE IngestInv'
<1> USE DEF IngestInv, TypeOK
<1>1. PICK new \in SUBSET {i \in Indexes : head + 1 < MaxHead} :
        logs' = logs \cup ({head + 1} \X new)
  BY DEF MineBlock
<1>2. /\ head' = head + 1 /\ head \in Nat
      /\ UNCHANGED <<cache, isRunning, pc, current, last, todo, recorded,
                     handled, refused>>
  BY DEF MineBlock, Blocks
<1>3. \A l \in logs' : l \in logs \/ l[1] = head + 1
  BY <1>1
<1>4. \A l \in logs : l[1] \in Nat /\ l[1] <= head
  BY LogBlocks DEF ChainInv
<1>5. ChainInv'
  BY <1>2, <1>3, <1>4 DEF ChainInv
<1>6. OneRun'
  BY <1>2 DEF OneRun
<1>7. NoGap' /\ CursorInv'
  BY <1>2, <1>3, <1>4 DEF NoGap, CursorInv, Followed, ChainInv
<1>8. NoGapBehindSnapshot'
  BY <1>2, <1>3, <1>4 DEF NoGapBehindSnapshot, Followed
<1>9. ASSUME NEW t \in Ticks PROVE RangeInv(t)'
  <2>1. RangeInv(t) /\ current[t] \in Nat /\ last[t] \in Nat
    OBVIOUS
  <2>2. pc[t] = "logs" => ToBlock(t) \in Nat /\ ToBlock(t) <= head
    BY <1>2, <2>1, RangeBounds DEF RangeInv
  <2>3. ToBlock(t)' = ToBlock(t)
    BY <1>2 DEF ToBlock
  <2>4. pc[t] = "logs" =>
          Fetched(last[t], ToBlock(t))' = Fetched(last[t], ToBlock(t))
    BY <1>1, <1>2, <1>3, <1>4, <2>2, <2>3 DEF Fetched
  <2> QED
    BY <1>2, <1>3, <1>4, <2>1, <2>3, <2>4 DEF RangeInv, Followed
<1> QED
  BY <1>5, <1>6, <1>7, <1>8, <1>9

\* A tick enters only when no run is in flight.
LEMMA TickKeeps ==
  ASSUME TypeOK, IngestInv, NEW t \in Ticks, Tick(t) PROVE IngestInv'
<1> USE DEF IngestInv, TypeOK, Tick, chainVars
<1>1. OneRun'
  BY DEF OneRun
<1>2. (ChainInv /\ NoGap /\ NoGapBehindSnapshot /\ CursorInv)'
  BY DEF ChainInv, NoGap, NoGapBehindSnapshot, CursorInv, Followed
<1>3. \A u \in Ticks : RangeInv(u)'
  BY DEF RangeInv, Followed, Fetched, ToBlock
<1> QED
  BY <1>1, <1>2, <1>3

\* Steps of a run that write neither the database nor the cache: it is enough
\* that the run itself stays in order.
LEMMA QuietStepKeeps ==
  ASSUME TypeOK, TypeOK', IngestInv, NEW t \in Ticks,
         UNCHANGED <<chainVars, cache, recorded, handled>>,
         OneRun',
         \A u \in Ticks \ {t} :
           UNCHANGED <<pc[u], current[u], last[u], todo[u]>>,
         RangeInv(t)'
  PROVE  IngestInv'
<1> USE DEF IngestInv, chainVars
<1>1. (ChainInv /\ NoGap /\ NoGapBehindSnapshot /\ CursorInv)'
  BY DEF ChainInv, NoGap, NoGapBehindSnapshot, CursorInv, Followed
<1>2. ASSUME NEW u \in Ticks \ {t} PROVE RangeInv(u)'
  <2>1. ToBlock(u)' = ToBlock(u)
    BY DEF ToBlock
  <2>2. Fetched(last[u], ToBlock(u))' = Fetched(last[u], ToBlock(u))
    BY <2>1 DEF Fetched
  <2> QED
    BY <2>1, <2>2 DEF RangeInv, Followed
<1> QED
  BY <1>1, <1>2

\* The awaited reads at the beginning of runJob.
LEMMA ReadsKeep ==
  ASSUME TypeOK, TypeOK', CurrentKnown, IngestInv, NEW t \in Ticks,
         GetCurrentBlock(t) \/ ReadCache(t) \/ ReadLatestFromDb(t)
  PROVE  IngestInv'
<1> USE DEF TypeOK, chainVars
<1>1. OneRun'
  BY DEF OneRun, IngestInv, GetCurrentBlock, ReadCache, ReadLatestFromDb
<1>2. \A l \in logs : l[1] \in Nat /\ l[1] > 0 /\ l[1] <= head
  BY LogBlocks DEF IngestInv, ChainInv
<1>3. RangeInv(t)'
  <2>1. CASE GetCurrentBlock(t)
    BY <2>1 DEF GetCurrentBlock, RangeInv, IngestInv, Blocks
  <2>2. CASE ReadCache(t) /\ cache # NoCursor
    <3>1. /\ last'[t] = cache /\ pc'[t] = "while"
          /\ UNCHANGED <<head, logs, cache, current, recorded, handled>>
      BY <2>2 DEF ReadCache
    <3>2. \A l \in logs : Followed(l)' <=> Followed(l)
      BY <3>1 DEF Followed
    <3> QED
      BY <2>2, <3>1, <3>2, <1>2 DEF RangeInv, IngestInv, CursorInv, NoGap,
         ChainInv
  <2>3. CASE ReadCache(t) /\ cache = NoCursor
    BY <2>3 DEF ReadCache, RangeInv, IngestInv
  <2>4. CASE ReadLatestFromDb(t)
    <3>1. /\ current[t] \in Blocks /\ current[t] <= head /\ head \in Nat
          /\ cache = 0
          /\ pc'[t] = "while"
          /\ UNCHANGED <<head, logs, cache, current, recorded, handled>>
      BY <2>4 DEF ReadLatestFromDb, CurrentKnown, RangeInv, IngestInv, NoCursor,
         Blocks
    <3>2. last'[t] \in Nat /\ last'[t] <= head
      BY <2>4, <3>1, <1>2 DEF ReadLatestFromDb, IsLatestRecorded, Blocks
    <3>3. CASE recorded = {}
      BY <3>1, <3>2, <3>3 DEF RangeInv, Followed, NoCursor
    <3>4. CASE IsLatestRecorded(last'[t])
      <4>1. PICK s \in recorded : s[1] = last'[t]
        BY <3>4 DEF IsLatestRecorded
      <4>2. \A r \in recorded : r[1] <= last'[t] /\ r[1] \in Nat
        BY <3>4, <1>2 DEF IsLatestRecorded
      <4>3. \A l \in logs : Followed(l) /\ l[1] < last'[t] => l \in handled
        BY <4>1 DEF IngestInv, NoGapBehindSnapshot
      <4>4. \A r \in recorded, l \in logs :
              ~(last'[t] <= l[1] /\ l[1] < r[1])
        BY <4>2, <1>2, <3>2
      <4> QED
        BY <3>1, <3>2, <4>3, <4>4 DEF RangeInv, Followed, NoCursor
    <3> QED
      BY <2>4, <3>3, <3>4 DEF ReadLatestFromDb, Blocks
  <2> QED
    BY <2>1, <2>2, <2>3, <2>4
<1> QED
  BY <1>1, <1>3, QuietStepKeeps
     DEF GetCurrentBlock, ReadCache, ReadLatestFromDb

\* The steps of the loop over ranges that only move the run itself.
LEMMA RangesKeep ==
  ASSUME TypeOK, TypeOK', IngestInv, NEW t \in Ticks,
         Query(t) \/ RangeError(t) \/ FinishRange(t)
  PROVE  IngestInv'
<1> USE DEF TypeOK, chainVars
<1>1. OneRun'
  BY DEF OneRun, IngestInv, Query, RangeError, FinishRange
<1>2. \A l \in logs : l[1] \in Nat /\ l[1] <= head
  BY LogBlocks DEF IngestInv, ChainInv
<1>3. RangeInv(t)'
  <2>1. CASE Query(t)
    <3>1. ToBlock(t)' = ToBlock(t)
      BY <2>1 DEF Query, ToBlock
    <3>2. Fetched(last[t], ToBlock(t))' = Fetched(last[t], ToBlock(t))
      BY <2>1, <3>1 DEF Query, Fetched
    <3> QED
      BY <2>1, <3>1, <3>2 DEF Query, RangeInv, IngestInv, Followed
  <2>2. CASE RangeError(t)
    <3>1. ToBlock(t)' = ToBlock(t)
      BY <2>2 DEF RangeError, ToBlock
    <3> QED
      BY <2>2, <3>1 DEF RangeError, RangeInv, IngestInv, Followed
  <2>3. CASE FinishRange(t)
    <3>1. /\ last[t] < current[t] /\ RangeInv(t) /\ todo[t] = {}
          /\ pc[t] = "logs"
      BY <2>3 DEF FinishRange, RangeInv, IngestInv
    <3>2. /\ ToBlock(t) \in Nat /\ last[t] < ToBlock(t)
          /\ ToBlock(t) <= head
      BY <3>1, RangeBounds DEF RangeInv, Blocks
    <3>3. \A l \in logs : last[t] <= l[1] /\ l[1] <= ToBlock(t) => l \in handled
      BY <3>1 DEF RangeInv, Fetched
    <3> QED
      BY <1>2, <2>3, <3>1, <3>2, <3>3 DEF FinishRange, RangeInv, Followed
  <2> QED
    BY <2>1, <2>2, <2>3
<1> QED
  BY <1>1, <1>3, QuietStepKeeps DEF Query, RangeError, FinishRange

\* Leaving the job, in order or by an error, keeps what it has written.
LEMMA LeaveKeeps ==
  ASSUME TypeOK, TypeOK', IngestInv, NEW t \in Ticks,
         FinishRun(t) \/ Throw(t)
  PROVE  IngestInv'
<1>1. /\ Leave(t) /\ pc[t] # "idle"
      /\ UNCHANGED <<chainVars, cache, recorded, handled>>
  BY DEF FinishRun, Throw
<1>2. OneRun'
  BY <1>1 DEF OneRun, IngestInv, Leave, TypeOK
<1>3. RangeInv(t)'
  BY <1>1 DEF RangeInv, Leave, TypeOK, Blocks, chainVars
<1> QED
  BY <1>1, <1>2, <1>3, QuietStepKeeps DEF Leave, TypeOK

\* A snapshot is written for the first unfinished log of the range: every
\* earlier log of the range has been handled.
LEMMA SaveKeeps ==
  ASSUME TypeOK, TypeOK', IngestInv, NEW t \in Ticks, SaveSnapshot(t)
  PROVE  IngestInv'
<1>1. PICK n \in todo[t] : IsNext(t, n) /\ recorded' = recorded \cup {n}
  BY DEF SaveSnapshot
<1>2. /\ pc[t] = "logs"
      /\ UNCHANGED <<head, logs, cache, isRunning, pc, current, last, todo,
                     handled>>
  BY DEF SaveSnapshot, chainVars
<1>3. RangeInv(t)
  BY DEF IngestInv
<1>4. \A l \in logs : l[1] \in Nat
  BY LogBlocks
<1>5. /\ n \in logs
      /\ cache <= last[t] /\ last[t] <= n[1] /\ n[1] <= ToBlock(t)
  BY <1>2, <1>3 DEF RangeInv, Fetched, TypeOK, NoCursor
<1>6. ToBlock(t) \in Nat /\ last[t] \in Nat /\ cache \in Nat
  BY <1>2, <1>3, RangeBounds DEF RangeInv, TypeOK
<1>7. \A l \in logs : last[t] <= l[1] /\ l[1] < n[1] => l \in handled
  <2> SUFFICES ASSUME NEW l \in logs, last[t] <= l[1], l[1] < n[1]
               PROVE  l \in handled
    OBVIOUS
  <2>1. l \in handled \/ l \in todo[t]
    BY <1>2, <1>3, <1>4, <1>5, <1>6 DEF RangeInv, Fetched
  <2>2. l \notin todo[t]
    BY <1>1, <1>4, <1>5, NextIsFirst
  <2> QED
    BY <2>1, <2>2
<1>8. \A l \in logs : Followed(l)' <=> Followed(l) \/ n[1] <= l[1]
  BY <1>1, <1>2 DEF Followed
<1>9. OneRun' /\ ChainInv'
  BY <1>2 DEF IngestInv, OneRun, ChainInv
<1>10. NoGap'
  <2>1. \A l \in logs : n[1] <= l[1] /\ l[1] <= cache => l[1] = cache
    BY <1>4, <1>5, <1>6
  <2> QED
    BY <1>2, <1>8, <2>1 DEF IngestInv, NoGap, CursorInv
<1>11. NoGapBehindSnapshot'
  <2> SUFFICES ASSUME NEW s \in recorded', NEW l \in logs, Followed(l)',
                      l[1] < s[1]
               PROVE  l \in handled
    BY <1>2 DEF NoGapBehindSnapshot
  <2>1. CASE s \in recorded /\ Followed(l)
    BY <2>1 DEF IngestInv, NoGapBehindSnapshot
  <2>2. CASE s \in recorded /\ n[1] <= l[1]
    BY <2>2, <1>2, <1>3, <1>4, <1>5, <1>6 DEF RangeInv
  <2>3. CASE s = n
    BY <2>3, <1>2, <1>3, <1>4, <1>5, <1>6, <1>7, <1>8 DEF RangeInv
  <2> QED
    BY <1>1, <1>8, <2>1, <2>2, <2>3
<1>12. CursorInv'
  <2> SUFFICES ASSUME NEW s \in recorded', NEW l \in logs,
                      cache # NoCursor, cache <= l[1], l[1] < s[1]
               PROVE  l \in handled
    BY <1>2 DEF CursorInv, IngestInv
  <2>1. CASE s \in recorded
    BY <2>1 DEF CursorInv, IngestInv
  <2>2. CASE s = n
    BY <2>2, <1>2, <1>3, <1>7 DEF RangeInv
  <2> QED
    BY <1>1, <2>1, <2>2
<1>13. ASSUME NEW u \in Ticks PROVE RangeInv(u)'
  <2>1. CASE u = t
    <3>1. ToBlock(t)' = ToBlock(t)
      BY <1>2 DEF ToBlock
    <3>2. Fetched(last[t], ToBlock(t))' = Fetched(last[t], ToBlock(t))
      BY <1>2, <3>1 DEF Fetched
    <3>3. \A l \in logs : Followed(l)' /\ l[1] < last[t] => l \in handled
      BY <1>3, <1>2, <1>4, <1>5, <1>6, <1>8 DEF RangeInv
    <3>4. \A s \in recorded', l \in logs :
            last[t] <= l[1] /\ l[1] < s[1] => l \in handled
      BY <1>1, <1>2, <1>3, <1>7 DEF RangeInv
    <3> QED
      BY <1>2, <1>3, <2>1, <3>1, <3>2, <3>3, <3>4 DEF RangeInv
  <2>2. CASE u # t
    <3>1. pc[u] = "idle"
      BY <1>2, <2>2, OthersIdle DEF IngestInv
    <3> QED
      BY <1>2, <3>1 DEF RangeInv, IngestInv
  <2> QED
    BY <2>1, <2>2
<1> QED
  BY <1>9, <1>10, <1>11, <1>12, <1>13 DEF IngestInv

\* A log leaves the range only as handled.
LEMMA FinishKeeps ==
  ASSUME TypeOK, TypeOK', IngestInv, NEW t \in Ticks, FinishLog(t)
  PROVE  IngestInv'
<1>1. PICK n \in todo[t] :
        /\ todo' = [todo EXCEPT ![t] = @ \ {n}]
        /\ handled' = handled \cup {n}
  BY DEF FinishLog
<1>2. UNCHANGED <<head, logs, cache, isRunning, pc, current, last, recorded>>
  BY DEF FinishLog, chainVars
<1>3. (ChainInv /\ OneRun /\ NoGap /\ NoGapBehindSnapshot /\ CursorInv)'
  BY <1>1, <1>2 DEF IngestInv, ChainInv, OneRun, NoGap, NoGapBehindSnapshot,
     CursorInv, Followed
<1>4. ASSUME NEW u \in Ticks PROVE RangeInv(u)'
  <2>1. ToBlock(u)' = ToBlock(u)
    BY <1>2 DEF ToBlock
  <2>2. Fetched(last[u], ToBlock(u))' = Fetched(last[u], ToBlock(u))
    BY <1>2, <2>1 DEF Fetched
  <2>3. todo'[u] \subseteq todo[u] /\ todo[u] \ todo'[u] \subseteq handled'
    BY <1>1 DEF TypeOK
  <2> QED
    BY <1>1, <1>2, <2>1, <2>2, <2>3 DEF RangeInv, IngestInv, Followed
<1> QED
  BY <1>3, <1>4 DEF IngestInv

\* The cursor is stored only after the whole range has been handled.
LEMMA StoreKeeps ==
  ASSUME TypeOK, TypeOK', IngestInv, NEW t \in Ticks, StoreCursor(t)
  PROVE  IngestInv'
<1>1. /\ pc[t] = "store" /\ cache' = last[t]
      /\ pc' = [pc EXCEPT ![t] = "while"]
      /\ UNCHANGED <<head, logs, isRunning, current, last, todo, recorded,
                     handled>>
  BY DEF StoreCursor, chainVars
<1>2. RangeInv(t)
  BY DEF IngestInv
<1>3. (ChainInv /\ OneRun /\ NoGapBehindSnapshot)'
  BY <1>1, <1>2 DEF IngestInv, ChainInv, OneRun, NoGapBehindSnapshot,
     Followed, RangeInv, TypeOK
<1>4. NoGap' /\ CursorInv'
  BY <1>1, <1>2 DEF NoGap, CursorInv, Followed, RangeInv
<1>5. RangeInv(t)'
  BY <1>1, <1>2 DEF RangeInv, Followed, TypeOK
<1>6. ASSUME NEW u \in Ticks, u # t PROVE RangeInv(u)'
  <2>1. pc[u] = "idle"
    BY <1>1, <1>6, OthersIdle DEF IngestInv
  <2> QED
    BY <1>1, <1>6, <2>1 DEF RangeInv, IngestInv, TypeOK
<1> QED
  BY <1>3, <1>4, <1>5, <1>6 DEF IngestInv

\* Losing the cursor loses no obligation: the snapshots carry it.
LEMMA LossKeeps ==
  ASSUME TypeOK, TypeOK', IngestInv, ExpireCache \/ Restart
  PROVE  IngestInv'
<1>1. /\ cache' = 0
      /\ UNCHANGED <<head, logs, recorded, handled>>
  BY DEF ExpireCache, Restart, NoCursor, chainVars
<1>2. \A l \in logs : l[1] \in Nat /\ l[1] > 0
  BY LogBlocks
<1>3. OneRun'
  BY DEF IngestInv, OneRun, ExpireCache, Restart
<1>4. (ChainInv /\ NoGap /\ NoGapBehindSnapshot /\ CursorInv)'
  BY <1>1, <1>2 DEF IngestInv, ChainInv, NoGap, NoGapBehindSnapshot, CursorInv,
     Followed, NoCursor, TypeOK, Blocks
<1>5. ASSUME NEW u \in Ticks PROVE RangeInv(u)'
  <2>1. CASE Restart
    BY <2>1, <1>1 DEF Restart, RangeInv, TypeOK, Blocks
  <2>2. CASE ExpireCache
    <3>1. /\ UNCHANGED <<pc, current, last, todo>>
          /\ ToBlock(u)' = ToBlock(u)
      BY <2>2 DEF ExpireCache, ToBlock
    <3>2. Fetched(last[u], ToBlock(u))' = Fetched(last[u], ToBlock(u))
      BY <1>1, <3>1 DEF Fetched
    <3> QED
      BY <1>1, <3>1, <3>2 DEF RangeInv, IngestInv, Followed, NoCursor
  <2> QED
    BY <2>1, <2>2
<1> QED
  BY <1>3, <1>4, <1>5 DEF IngestInv

\* The job's inductive invariant: between the cursor, the range in hand and
\* the snapshots no log is lost (runJob, handleGetLatestBlock, queryEvents).
THEOREM IngestInvariant == Spec => []IngestInv
<1>1. Init => IngestInv
  <2> SUFFICES ASSUME Init PROVE IngestInv
    OBVIOUS
  <2>1. \A l \in logs : l[1] = 1
    BY DEF Init
  <2>2. \A t \in Ticks : RangeInv(t)
    BY DEF Init, RangeInv, NoCursor
  <2> QED
    BY <2>1, <2>2 DEF Init, IngestInv, ChainInv, OneRun, NoGap,
       NoGapBehindSnapshot, CursorInv, NoCursor
<1>2. /\ TypeOK /\ CurrentKnown /\ TypeOK' /\ IngestInv
      /\ [Next]_vars
      => IngestInv'
  <2> SUFFICES ASSUME TypeOK, CurrentKnown, TypeOK', IngestInv, [Next]_vars
               PROVE  IngestInv'
    OBVIOUS
  <2>1. CASE UNCHANGED vars
    <3>1. (ChainInv /\ OneRun /\ NoGap /\ NoGapBehindSnapshot /\ CursorInv)'
      BY <2>1 DEF vars, IngestInv, ChainInv, OneRun, NoGap,
         NoGapBehindSnapshot, CursorInv, Followed
    <3>2. \A t \in Ticks : RangeInv(t)'
      BY <2>1 DEF vars, IngestInv, RangeInv, Followed, Fetched, ToBlock
    <3> QED
      BY <3>1, <3>2 DEF IngestInv
  <2> QED
    BY <2>1, MineKeeps, TickKeeps, ReadsKeep, RangesKeep, LeaveKeeps, SaveKeeps,
       FinishKeeps, StoreKeeps, LossKeeps DEF Next, Advance, HandleLog
<1> QED
  BY <1>1, <1>2, TypeCorrect, PTL DEF Spec

\* Whatever restarts, expires or throws, no log the job follows is left behind
\* its cursor (runJob, handleGetLatestBlock).
THEOREM NoGapAlways == Spec => []NoGap
<1>1. IngestInv => NoGap
  BY DEF IngestInv
<1> QED
  BY <1>1, IngestInvariant, PTL

\* The block a restart resumes from has no unhandled log behind it
\* (getLatestBlockFromDb, handleGetLatestBlock).
THEOREM NoGapBehindSnapshotAlways == Spec => []NoGapBehindSnapshot
<1>1. IngestInv => NoGapBehindSnapshot
  BY DEF IngestInv
<1> QED
  BY <1>1, IngestInvariant, PTL

\* Runs of the job exclude each other, and the flag says when one is in
\* flight (handleCron).
THEOREM RunsExclude == Spec => []OneRun
<1>1. IngestInv => OneRun
  BY DEF IngestInv
<1> QED
  BY <1>1, IngestInvariant, PTL

\* The cached cursor only moves back by being lost (runJob's cache.set).
THEOREM CursorNeverRewinds == Spec => CursorMonotone
<1>1. /\ TypeOK /\ IngestInv /\ [Next]_vars
      => [cache # NoCursor /\ cache' # NoCursor => cache' >= cache]_vars
  <2> SUFFICES ASSUME TypeOK, IngestInv, [Next]_vars, cache # NoCursor,
                      cache' # NoCursor
               PROVE  cache' >= cache
    OBVIOUS
  <2>1. CASE \E t \in Ticks : StoreCursor(t)
    BY <2>1 DEF StoreCursor, IngestInv, RangeInv, TypeOK
  <2>2. CASE UNCHANGED cache
    BY <2>2 DEF TypeOK
  <2>3. UNCHANGED cache \/ \E t \in Ticks : StoreCursor(t)
    BY DEF Next, Advance, HandleLog, vars, MineBlock, Tick, GetCurrentBlock,
       ReadCache, ReadLatestFromDb, Query, FinishRange, FinishRun, Leave,
       SaveSnapshot, FinishLog, RangeError, Throw, ExpireCache, Restart
  <2> QED
    BY <2>1, <2>2, <2>3
<1> QED
  BY <1>1, IngestInvariant, TypeCorrect, PTL DEF Spec, CursorMonotone

-------------------------------------------------------------------------------
(* The job implements LogDelivery. *)

\* Every log that precedes the handler's next one, and that the job follows,
\* has been handled: before the range by IngestInv, within it by the order.
LEMMA NextIsDue ==
  ASSUME TypeOK, IngestInv, NEW t \in Ticks, pc[t] = "logs",
         NEW l \in todo[t], IsNext(t, l)
  PROVE  Delivery!Due(l)
<1> SUFFICES ASSUME NEW m \in logs, Delivery!Precedes(m, l), Delivery!Since(m)
             PROVE  m \in handled
  BY DEF Delivery!Due, TypeOK
<1>1. RangeInv(t) /\ Followed(m) /\ Earlier(m, l)
  BY DEF IngestInv, Delivery!Since, Followed, Delivery!Precedes, Earlier
<1>2. /\ l \in Log /\ l[1] \in Nat /\ l[2] \in Nat
      /\ m \in Log /\ m[1] \in Nat /\ m[2] \in Nat
  <2>1. \A k \in Log : k[1] \in Nat /\ k[2] \in Nat
    <3>1. \A k \in Log : k[1] \in Blocks /\ k[2] \in Indexes
      BY DEF Log
    <3>2. Blocks \subseteq Nat
      BY DEF Blocks
    <3>3. Indexes \subseteq Nat
      OBVIOUS
    <3> QED
      BY <3>1, <3>2, <3>3
  <2>2. l \in logs /\ logs \subseteq Log
    BY DEF TypeOK
  <2> QED
    BY <2>1, <2>2
<1>3. last[t] \in Nat /\ ToBlock(t) \in Nat /\ l[1] <= ToBlock(t)
  BY <1>1, RangeBounds DEF RangeInv, TypeOK, Fetched
<1>4. CASE m[1] < last[t]
  BY <1>1, <1>4 DEF RangeInv
<1>5. CASE last[t] <= m[1]
  <2>1. m \in Fetched(last[t], ToBlock(t))
    BY <1>1, <1>2, <1>3, <1>5 DEF Fetched, Earlier
  <2>2. m \notin todo[t]
    BY <1>1, <1>2 DEF IsNext, Earlier
  <2> QED
    BY <1>1, <2>1, <2>2 DEF RangeInv
<1> QED
  BY <1>2, <1>3, <1>4, <1>5

\* The job implements LogDelivery for every chain, batch size, lag, provider
\* limit and number of ticks: no interleaving of ticks, failures, expired
\* cursors and restarts records or finishes a log before the logs that precede
\* it, and the steps that touch neither are stutters (runJob, queryEvents).
THEOREM Implementation == Spec => DeliversInOrder
<1>1. Init => Delivery!Init
  BY DEF Init, Delivery!Init, Log, Blocks
<1>2. /\ TypeOK /\ IngestInv /\ [Next]_vars
      => [Delivery!Next]_(Delivery!deliveryVars)
  <2> SUFFICES ASSUME TypeOK, IngestInv, [Next]_vars,
                      Delivery!deliveryVars' # Delivery!deliveryVars
               PROVE  Delivery!Next
    OBVIOUS
  <2>1. CASE MineBlock
    <3>1. PICK new \in SUBSET {i \in Indexes : head + 1 < MaxHead} :
            logs' = logs \cup ({head + 1} \X new)
      BY <2>1 DEF MineBlock
    <3> DEFINE blocks == {head + 1} \X new
    <3>2. head + 1 \in Blocks /\ head \in Nat
      BY <2>1 DEF MineBlock, Blocks, TypeOK
    <3>3. blocks \subseteq Log
      BY <3>2 DEF Log
    <3>4. \A l \in blocks, m \in logs : m[1] < l[1]
      BY <3>2, LogBlocks DEF IngestInv, ChainInv
    <3>5. Delivery!Extend
      BY <2>1, <3>1, <3>3, <3>4 DEF Delivery!Extend, MineBlock
    <3> QED
      BY <3>5 DEF Delivery!Next
  <2>2. ASSUME NEW t \in Ticks, SaveSnapshot(t) PROVE Delivery!Next
    <3>1. PICK l \in todo[t] : /\ IsNext(t, l) /\ l \notin recorded
                              /\ recorded' = recorded \cup {l}
      BY <2>2 DEF SaveSnapshot
    <3>2. Delivery!Due(l) /\ l \in Log
      BY <2>2, <3>1, NextIsDue, LogBlocks DEF SaveSnapshot, TypeOK
    <3>3. Delivery!Record(l)
      BY <2>2, <3>1, <3>2 DEF Delivery!Record, SaveSnapshot, chainVars
    <3> QED
      BY <3>2, <3>3 DEF Delivery!Next
  <2>3. ASSUME NEW t \in Ticks, FinishLog(t) PROVE Delivery!Next
    <3>1. PICK l \in todo[t] : IsNext(t, l) /\ handled' = handled \cup {l}
      BY <2>3 DEF FinishLog
    <3>2. Delivery!Due(l) /\ l \in Log
      BY <2>3, <3>1, NextIsDue, LogBlocks DEF FinishLog, TypeOK
    <3>3. Delivery!Finish(l)
      BY <2>3, <3>1, <3>2 DEF Delivery!Finish, FinishLog, chainVars
    <3> QED
      BY <3>2, <3>3 DEF Delivery!Next
  <2>4. \/ MineBlock
        \/ \E t \in Ticks : SaveSnapshot(t) \/ FinishLog(t)
        \/ UNCHANGED <<logs, recorded, handled>>
    BY DEF Next, Advance, HandleLog, vars, chainVars, Tick, GetCurrentBlock,
       ReadCache, ReadLatestFromDb, Query, FinishRange, StoreCursor, FinishRun,
       RangeError, Throw, ExpireCache, Restart
  <2> QED
    BY <2>1, <2>2, <2>3, <2>4 DEF Delivery!deliveryVars
<1> QED
  BY <1>1, <1>2, TypeCorrect, IngestInvariant, PTL
     DEF Spec, DeliversInOrder, Delivery!Spec
===============================================================================
