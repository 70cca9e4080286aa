------------------------------- MODULE IngestJob -------------------------------
(***************************************************************************)
(* The polling job that mirrors ONE kind of contract event into the        *)
(* database: CronService.handleCron, BlockchainEventProcessor.runJob,      *)
(* handleGetLatestBlock, queryEvents and the loop every handle...Event     *)
(* method runs over the logs it fetched.  The five kinds of event have     *)
(* their own flag, cache key and event_name, so each job is an instance    *)
(* of this module.  What a handler writes besides the snapshot row is in   *)
(* TicketLedger; here a log is recorded, dropped, or makes the job throw.  *)
(*                                                                         *)
(* Every `await' is a point where another tick, a new block, the expiry    *)
(* of the cache entry or a restart of the process may happen.              *)
(***************************************************************************)
EXTENDS Naturals

CONSTANTS
  EventType,          \* the kind of event this job polls, one of EventBlockchain
  Ticks,              \* invocations of handleCron that may overlap
  BatchSize,          \* env BATCH_SIZE
  MaxBlocksPerQuery,  \* the literal 500 of runJob
  RangeLimit,         \* the provider may refuse getLogs over a wider range
  MaxLag,             \* how far getBlockNumber may lag behind the chain
  MaxHead,            \* bound: length of the chain
  Indexes             \* bound: positions of this event's logs within a block

EventBlockchain ==
  {"CreatedEvent", "TicketSold", "ResoldTicket", "CancelledResellTicket",
   "BoughtTicket"}

ASSUME EventAssumption == EventType \in EventBlockchain

ASSUME BoundsAssumption ==
  /\ BatchSize \in Nat \ {0}
  /\ MaxBlocksPerQuery \in Nat \ {0}
  /\ RangeLimit \in Nat
  /\ MaxLag \in Nat
  /\ MaxHead \in Nat \ {0}
  /\ Indexes \subseteq Nat

NoCursor == 0   \* `if (!latestBlock)': a missing entry and 0 are the same

Blocks == 1 .. MaxHead
Log == Blocks \X Indexes      \* a log is named by its block and its index

\* The order in which queryFilter returns logs, and the loop takes them.
Earlier(l, m) == l[1] < m[1] \/ (l[1] = m[1] /\ l[2] < m[2])

VARIABLES
  head,       \* number of the newest block of the chain
  logs,       \* logs of this event in the chain
  cache,      \* the cached last processed block, or NoCursor
  isRunning,  \* CronService.isRunning[EventType]
  pc,         \* per tick: what the invocation is awaiting
  current,    \* per tick: currentBlock
  last,       \* per tick: lastBlockProcessed
  todo,       \* per tick: fetched logs the handler has not finished
  recorded,   \* logs that have a row in blockchain_snapshots
  handled,    \* history: logs a handler has finished, whatever it did
  refused     \* history, per tick: width of the last refused query, or 0

chainVars == <<head, logs>>
vars == <<head, logs, cache, isRunning, pc, current, last, todo, recorded,
          handled, refused>>

Phases == {"idle", "block", "cache", "db", "while", "logs", "store"}

TypeOK ==
  /\ head \in Blocks
  /\ logs \subseteq Log
  /\ cache \in Nat
  /\ isRunning \in BOOLEAN
  /\ pc \in [Ticks -> Phases]
  /\ current \in [Ticks -> Nat]
  /\ last \in [Ticks -> Nat]
  /\ todo \in [Ticks -> SUBSET logs]
  /\ recorded \subseteq logs
  /\ handled \subseteq logs
  /\ refused \in [Ticks -> Nat]

\* handleGetLatestBlock subtracts one from a block number it has been given.
CurrentKnown ==
  \A t \in Ticks : pc[t] \in {"cache", "db"} => current[t] \in Blocks

Init ==
  /\ head = 1
  /\ logs \in SUBSET ({1} \X Indexes)
  /\ cache = NoCursor
  /\ isRunning = FALSE
  /\ pc = [t \in Ticks |-> "idle"]
  /\ current = [t \in Ticks |-> 0]
  /\ last = [t \in Ticks |-> 0]
  /\ todo = [t \in Ticks |-> {}]
  /\ recorded = {}
  /\ handled = {}
  /\ refused = [t \in Ticks |-> 0]

-------------------------------------------------------------------------------
(***************************************************************************)
(* The chain.  The last block of the bound carries no log: it stands for   *)
(* the chain going on.                                                     *)
(***************************************************************************)
MineBlock ==
  /\ head < MaxHead
  /\ head' = head + 1
  /\ \E new \in SUBSET {i \in Indexes : head + 1 < MaxHead} :
       logs' = logs \cup ({head + 1} \X new)
  /\ UNCHANGED <<cache, isRunning, pc, current, last, todo, recorded, handled,
                 refused>>

-------------------------------------------------------------------------------
(***************************************************************************)
(* One tick.  handleCron's `finally' resets the flag on every way out of   *)
(* the job, but not on the early return of a tick that finds it set, which *)
(* changes nothing and is a stuttering step.                               *)
(***************************************************************************)
\* Slip to catch: the flag is not reset on the way out.
LeaveKeepingFlag(t) ==
  /\ pc' = [pc EXCEPT ![t] = "idle"]
  /\ current' = [current EXCEPT ![t] = 0]
  /\ last' = [last EXCEPT ![t] = 0]
  /\ todo' = [todo EXCEPT ![t] = {}]
  /\ refused' = [refused EXCEPT ![t] = 0]
  /\ UNCHANGED isRunning

Leave(t) ==
  /\ pc' = [pc EXCEPT ![t] = "idle"]
  /\ isRunning' = FALSE
  /\ current' = [current EXCEPT ![t] = 0]
  /\ last' = [last EXCEPT ![t] = 0]
  /\ todo' = [todo EXCEPT ![t] = {}]
  /\ refused' = [refused EXCEPT ![t] = 0]

\* Slip to catch: the tick does not look at the flag.
TickUnguarded(t) ==
  /\ pc[t] = "idle"
  /\ isRunning' = TRUE
  /\ pc' = [pc EXCEPT ![t] = "block"]
  /\ UNCHANGED <<chainVars, cache, current, last, todo, recorded, handled,
                 refused>>

Tick(t) ==
  /\ pc[t] = "idle"
  /\ ~isRunning
  /\ isRunning' = TRUE
  /\ pc' = [pc EXCEPT ![t] = "block"]
  /\ UNCHANGED <<chainVars, cache, current, last, todo, recorded, handled,
                 refused>>

\* getCurrentBlockNumber: the node may answer with a block it saw earlier.
GetCurrentBlock(t) ==
  /\ pc[t] = "block"
  /\ \E b \in Blocks :
       /\ b <= head /\ head <= b + MaxLag
       /\ current' = [current EXCEPT ![t] = b]
  /\ pc' = [pc EXCEPT ![t] = "cache"]
  /\ UNCHANGED <<chainVars, cache, isRunning, last, todo, recorded, handled,
                 refused>>

ReadCache(t) ==
  /\ pc[t] = "cache"
  /\ \/ /\ cache # NoCursor
        /\ last' = [last EXCEPT ![t] = cache]
        /\ pc' = [pc EXCEPT ![t] = "while"]
     \/ /\ cache = NoCursor
        /\ pc' = [pc EXCEPT ![t] = "db"]
        /\ UNCHANGED last
  /\ UNCHANGED <<chainVars, cache, isRunning, current, todo, recorded, handled,
                 refused>>

\* getLatestBlockFromDb: MAX(block_number) of this event's snapshots.
IsLatestRecorded(b) ==
  /\ \E l \in recorded : l[1] = b
  /\ \A l \in recorded : l[1] <= b

\* handleGetLatestBlock: without a snapshot, start one block before current.
ReadLatestFromDb(t) ==
  /\ pc[t] = "db"
  /\ \/ \E b \in Blocks :
          /\ IsLatestRecorded(b)
          /\ last' = [last EXCEPT ![t] = b]
     \/ /\ recorded = {}
        /\ last' = [last EXCEPT ![t] = current[t] - 1]
  /\ pc' = [pc EXCEPT ![t] = "while"]
  /\ UNCHANGED <<chainVars, cache, isRunning, current, todo, recorded, handled,
                 refused>>

-------------------------------------------------------------------------------
(* The loop of runJob over ranges of blocks. *)

Least(a, b) == IF a <= b THEN a ELSE b

\* toBlock of the range that starts at lastBlockProcessed.
ToBlock(t) ==
  Least(last[t] + Least(BatchSize, MaxBlocksPerQuery), current[t])

\* Slip to catch: the range starts after the last processed block.
FetchedAfter(from, to) == {l \in logs : from < l[1] /\ l[1] <= to}

\* queryFilter is inclusive at both ends.
Fetched(from, to) == {l \in logs : from <= l[1] /\ l[1] <= to}

Query(t) ==
  /\ pc[t] = "while"
  /\ last[t] < current[t]
  /\ todo' = [todo EXCEPT ![t] = Fetched(last[t], ToBlock(t))]
  /\ pc' = [pc EXCEPT ![t] = "logs"]
  /\ refused' = [refused EXCEPT ![t] = 0]
  /\ UNCHANGED <<chainVars, cache, isRunning, current, last, recorded, handled>>

\* A `block range' error is caught and the loop goes round again; nothing of
\* the range it computes from has changed.
RangeError(t) ==
  /\ pc[t] = "while"
  /\ last[t] < current[t]
  /\ ToBlock(t) - last[t] > RangeLimit
  /\ refused' = [refused EXCEPT ![t] = ToBlock(t) - last[t]]
  /\ UNCHANGED <<chainVars, cache, isRunning, pc, current, last, todo, recorded,
                 handled>>

\* Slip to catch: the logs of a range are taken in any order.
IsInHand(t, l) == l \in todo[t]

IsNext(t, l) == l \in todo[t] /\ \A m \in todo[t] \ {l} : Earlier(l, m)

\* The snapshot row is committed: by itself (CreatedEvent, TicketSold) or with
\* everything the handler's transaction writes.
SaveSnapshot(t) ==
  /\ pc[t] = "logs"
  /\ \E l \in todo[t] :
       /\ IsNext(t, l)
       /\ l \notin recorded
       /\ recorded' = recorded \cup {l}
  /\ UNCHANGED <<chainVars, cache, isRunning, pc, current, last, todo, handled,
                 refused>>

\* The loop body ends: the log had, or now has, its snapshot; or it is given
\* up without one, by `continue' when the event is not published (TicketSold)
\* or by the catch around the marketplace transactions.
FinishLog(t) ==
  /\ pc[t] = "logs"
  /\ \E l \in todo[t] :
       /\ IsNext(t, l)
       /\ l \in recorded \/ EventType # "CreatedEvent"
       /\ todo' = [todo EXCEPT ![t] = @ \ {l}]
       /\ handled' = handled \cup {l}
  /\ UNCHANGED <<chainVars, cache, isRunning, pc, current, last, recorded,
                 refused>>

\* The handler returns and lastBlockProcessed moves, in memory.
FinishRange(t) ==
  /\ pc[t] = "logs"
  /\ todo[t] = {}
  /\ last' = [last EXCEPT ![t] = ToBlock(t)]
  /\ pc' = [pc EXCEPT ![t] = "store"]
  /\ UNCHANGED <<chainVars, cache, isRunning, current, todo, recorded, handled,
                 refused>>

StoreCursor(t) ==
  /\ pc[t] = "store"
  /\ cache' = last[t]
  /\ pc' = [pc EXCEPT ![t] = "while"]
  /\ UNCHANGED <<chainVars, isRunning, current, last, todo, recorded, handled,
                 refused>>

FinishRun(t) ==
  /\ pc[t] = "while"
  /\ last[t] >= current[t]
  /\ Leave(t)
  /\ UNCHANGED <<chainVars, cache, recorded, handled>>

\* Any awaited call may reject: the RPC node, the cache, the database, or a
\* handler that throws.  Nothing it did before is undone.
Throw(t) ==
  /\ \/ pc[t] \in {"block", "cache", "db", "store"}
     \/ pc[t] = "while" /\ last[t] < current[t]
     \/ pc[t] = "logs" /\ todo[t] # {}
  /\ Leave(t)
  /\ UNCHANGED <<chainVars, cache, recorded, handled>>

-------------------------------------------------------------------------------
\* The entry is stored with a time to live.
ExpireCache ==
  /\ cache # NoCursor
  /\ cache' = NoCursor
  /\ UNCHANGED <<chainVars, isRunning, pc, current, last, todo, recorded,
                 handled, refused>>

\* The process restarts: the in-memory cache, the flag and the runs are lost.
Restart ==
  /\ cache' = NoCursor
  /\ isRunning' = FALSE
  /\ pc' = [t \in Ticks |-> "idle"]
  /\ current' = [t \in Ticks |-> 0]
  /\ last' = [t \in Ticks |-> 0]
  /\ todo' = [t \in Ticks |-> {}]
  /\ refused' = [t \in Ticks |-> 0]
  /\ UNCHANGED <<chainVars, recorded, handled>>

Advance(t) ==
  \/ GetCurrentBlock(t) \/ ReadCache(t) \/ ReadLatestFromDb(t)
  \/ Query(t) \/ FinishRange(t) \/ StoreCursor(t) \/ FinishRun(t)

HandleLog(t) == SaveSnapshot(t) \/ FinishLog(t)

Next ==
  \/ MineBlock
  \/ \E t \in Ticks :
       Tick(t) \/ Advance(t) \/ HandleLog(t) \/ RangeError(t) \/ Throw(t)
  \/ ExpireCache
  \/ Restart

\* The chain grows, the cron expression fires every ten seconds, and an
\* awaited call that does not reject resolves.
Fairness ==
  /\ WF_vars(MineBlock)
  /\ WF_vars(\E t \in Ticks : Tick(t))
  /\ \A t \in Ticks : WF_vars(Advance(t)) /\ WF_vars(HandleLog(t))

Spec == Init /\ [][Next]_vars
FairSpec == Spec /\ Fairness

-------------------------------------------------------------------------------
\* Some snapshot of this event is at or below the block of l: the job has been
\* following the chain since before l.
Followed(l) == \E s \in recorded : s[1] <= l[1]

\* No log is skipped for good: once some log has been recorded, every later
\* log up to the cached cursor has been through the handler, in spite of
\* restarts, an expired cursor, ranges that throw half way and restarting
\* from the newest snapshot (runJob, handleGetLatestBlock, queryEvents).
NoGap == \A l \in logs : Followed(l) /\ l[1] <= cache => l \in handled

\* A restart without cursor resumes at the newest snapshot; nothing that an
\* earlier run left unhandled lies strictly between two snapshots
\* (handleGetLatestBlock, the in-order loop of the handlers).
NoGapBehindSnapshot ==
  \A s \in recorded, l \in logs :
    Followed(l) /\ l[1] < s[1] => l \in handled

\* At most one run of the job is in flight, and only under the flag, however
\* the ticks, failures and restarts interleave (handleCron).
OneRun ==
  /\ \A t, u \in Ticks : pc[t] # "idle" /\ pc[u] # "idle" => t = u
  /\ isRunning <=> \E t \in Ticks : pc[t] # "idle"

(***************************************************************************)
(* NoGap is not inductive.  What keeps it is that the cursor, the range in *)
(* hand and the snapshots agree: between the cursor (or the start of the   *)
(* range) and the newest snapshot every log has been handled, because the  *)
(* logs of a range are taken in order and ranges overlap by one block.     *)
(***************************************************************************)
ChainInv ==
  /\ \A l \in logs : l[1] <= head
  /\ cache <= head

CursorInv ==
  /\ \A l \in logs : l[1] = cache => l \in handled
  /\ \A s \in recorded, l \in logs :
       cache # NoCursor /\ cache <= l[1] /\ l[1] < s[1] => l \in handled

RangeInv(t) ==
  /\ current[t] <= head /\ last[t] <= head
  /\ pc[t] = "db" => cache = NoCursor
  /\ pc[t] \in {"while", "logs", "store"} =>
       /\ \/ cache \in {NoCursor, last[t]}
          \/ pc[t] = "store" /\ cache < last[t]
       /\ \A l \in logs : Followed(l) /\ l[1] < last[t] => l \in handled
       /\ \A s \in recorded, l \in logs :
            last[t] <= l[1] /\ l[1] < s[1] => l \in handled
  /\ pc[t] = "logs" =>
       /\ last[t] < current[t]
       /\ todo[t] \subseteq Fetched(last[t], ToBlock(t))
       /\ Fetched(last[t], ToBlock(t)) \subseteq handled \cup todo[t]
  /\ pc[t] = "store" =>
       \A l \in logs :
         l[1] = last[t] \/ (Followed(l) /\ l[1] <= last[t]) => l \in handled

IngestInv ==
  /\ ChainInv
  /\ OneRun
  /\ NoGap
  /\ NoGapBehindSnapshot
  /\ CursorInv
  /\ \A t \in Ticks : RangeInv(t)

\* The cached cursor moves back only by being lost (runJob's cache.set is a
\* blind write: an overlapping or older run would rewind it).
CursorMonotone ==
  [][cache # NoCursor /\ cache' # NoCursor => cache' >= cache]_vars

\* What the job promises, without its machinery.
Delivery == INSTANCE LogDelivery
  WITH Log <- Log, logs <- logs, recorded <- recorded, handled <- handled

\* The job implements the delivery in order that LogDelivery specifies: across
\* ticks, batches, failures half way, expired cursors and restarts, no log is
\* recorded or finished before the logs that precede it (runJob, queryEvents,
\* handleGetLatestBlock, the loops of the handlers).
DeliversInOrder == Delivery!Spec

\* The comment on a refused range says the job retries "with a smaller range".
RetryShrinks ==
  \A t \in Ticks :
    pc[t] = "while" /\ refused[t] > 0 => ToBlock(t) - last[t] < refused[t]

\* A fault is what the job cannot help: a rejected call, a lost cursor, a
\* refused range, a restart.
Fault ==
  (\E t \in Ticks : Throw(t) \/ RangeError(t)) \/ ExpireCache \/ Restart

\* When faults stop, every block the job follows is eventually handled: no
\* failure leaves the flag set or the cursor past a log (handleCron, runJob).
EventuallyHandled ==
  <>[][~Fault]_vars =>
    \A b \in Blocks :
      (\E s \in recorded : s[1] <= b)
        ~> (\A l \in logs : l[1] = b => l \in handled)
===============================================================================
