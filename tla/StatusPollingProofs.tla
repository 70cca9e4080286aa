-------------------------- MODULE StatusPollingProofs --------------------------
(***************************************************************************)
(* Proofs about the status polls for every set of transactions and of      *)
(* overlapping requests: a purchase is one sold row, an answer of success  *)
(* is true, and later polls repeat it.  The inductive invariant is TypeOK  *)
(* with PollingInv; it is needed because a handler that has found a row    *)
(* takes a pending one away (RowsInv) and because a poll goes on with a    *)
(* transaction it has looked up awaits ago (AnswerInv).  RetreatInv, on    *)
(* top of it, says what a poll that follows an answer of success will find.*)
(***************************************************************************)
EXTENDS StatusPolling, FiniteSetTheorems, TLAPS

\* The inductive invariant.
Inv == TypeOK /\ PollingInv

\* A transaction is of one kind.
LEMMA Kinds ==
  ASSUME NEW t \in Txs
  PROVE  /\ t \in Purchases => t \notin Cancels /\ t \notin Resales
         /\ t \in Cancels => t \notin Purchases /\ t \notin Resales
         /\ t \in Resales => t \notin Purchases /\ t \notin Cancels
         /\ t \in Purchases \/ t \in Cancels \/ t \in Resales
  BY TxAssumption DEF Txs

\* What AddRow adds: one row of one status to one transaction.
LEMMA AddRowAdds ==
  ASSUME TypeOK, NEW t \in Txs, NEW s \in RowStatuses, rows' = AddRow(t, s)
  PROVE  /\ rows' \in [Txs -> [RowStatuses -> Nat]]
         /\ \A u \in Txs : u # t => rows'[u] = rows[u]
         /\ \A q \in RowStatuses : q # s => rows'[t][q] = rows[t][q]
         /\ rows'[t][s] = rows[t][s] + 1
<1>1. rows[t] \in [RowStatuses -> Nat]
  BY DEF TypeOK
<1>2. rows' = [rows EXCEPT ![t] = [rows[t] EXCEPT ![s] = rows[t][s] + 1]]
  BY DEF AddRow, TypeOK
<1>3. [rows[t] EXCEPT ![s] = rows[t][s] + 1] \in [RowStatuses -> Nat]
  BY <1>1
<1> QED
  BY <1>1, <1>2, <1>3 DEF TypeOK

\* A purchase that has no sold, listed or drafted row has a row only if it has
\* a pending one.
LEMMA RowIsPending ==
  ASSUME TypeOK, NEW t \in Txs, HasRow(t), rows[t]["sold"] = 0,
         rows[t]["selling"] = 0, rows[t]["draft"] = 0
  PROVE  rows[t]["pending"] > 0
<1>1. rows[t] \in [RowStatuses -> Nat]
  BY DEF TypeOK
<1>2. ASSUME rows[t]["pending"] = 0 PROVE rows[t] = NoRows
  <2>1. \A q \in RowStatuses : rows[t][q] = 0
    BY <1>2 DEF RowStatuses
  <2> QED
    BY <1>1, <2>1 DEF NoRows
<1> QED
  BY <1>1, <1>2 DEF HasRow, RowStatuses

-------------------------------------------------------------------------------
(* The chain and the handlers. *)

\* A step that leaves the handlers' and the polls' variables alone.
LEMMA ChainKeeps ==
  ASSUME Inv,
         \/ \E t \in Txs : Settle(t)
         \/ ListSale
         \/ UNCHANGED vars
  PROVE  Inv'
<1>1. UNCHANGED <<snapshots, rows, job, read, poll, told, later>>
  BY DEF Settle, ListSale, vars, dbVars
<1>2. /\ sale' = sale \/ sale' = "selling"
      /\ tx' \in [Txs -> {"sent", "mined", "failed"}]
  BY DEF Inv, TypeOK, Settle, ListSale, vars, dbVars
<1>3. TypeOK'
  BY <1>1, <1>2 DEF Inv, TypeOK, SaleStatuses
<1>4. (SoldOnce /\ RowsInv /\ ListedInv /\ AnswerInv)'
  BY <1>1 DEF Inv, PollingInv, SoldOnce, RowsInv, ListedInv, AnswerInv
<1>5. JobInv'
  BY <1>1, <1>2 DEF Inv, PollingInv, JobInv
<1> QED
  BY <1>3, <1>4, <1>5 DEF Inv, PollingInv

\* When snapshots only grow, what the polls rest on stays true.
LEMMA AnswersKept ==
  ASSUME AnswerInv, snapshots \subseteq snapshots',
         UNCHANGED <<poll, told, later>>
  PROVE  AnswerInv'
  BY DEF AnswerInv

\* handleResoldTicketEvent adds the listing's row.
LEMMA ResoldKeeps ==
  ASSUME Inv, NEW t \in Txs, CommitResold(t) PROVE Inv'
<1> USE DEF Inv, PollingInv, CommitResold, Due
<1>1. /\ rows' \in [Txs -> [RowStatuses -> Nat]]
      /\ \A u \in Txs : u # t => rows'[u] = rows[u]
      /\ rows'[t]["selling"] = rows[t]["selling"] + 1
  BY AddRowAdds DEF RowStatuses
<1>2. rows[t]["selling"] = 0
  BY DEF RowsInv
<1>3. TypeOK'
  BY <1>1 DEF TypeOK
<1>4. SoldOnce' /\ ListedInv'
  BY <1>1, <1>2, Kinds DEF SoldOnce, ListedInv, Txs
<1>5. RowsInv'
  BY <1>1 DEF RowsInv
<1>6. JobInv'
  BY DEF JobInv
<1> QED
  BY <1>3, <1>4, <1>5, <1>6, AnswersKept

\* handleBoughtTicketEvent finds the sale and the pending row: there is one to
\* take away when it says so.
LEMMA FindKeeps ==
  ASSUME Inv, NEW t \in Txs, FindPendingRow(t) PROVE Inv'
<1> USE DEF Inv, PollingInv, FindPendingRow, Due, dbVars
<1>1. TypeOK'
  BY DEF TypeOK
<1>2. job'[t] = "found" => rows[t]["pending"] > 0
  BY RowIsPending DEF RowsInv, TypeOK
<1>3. RowsInv'
  BY <1>2 DEF RowsInv, TypeOK
<1>4. SoldOnce' /\ ListedInv'
  BY DEF SoldOnce, ListedInv
<1>5. JobInv'
  BY DEF JobInv, TypeOK
<1> QED
  BY <1>1, <1>3, <1>4, <1>5, AnswersKept

\* The purchase is recorded with exactly one sold row.
LEMMA BoughtKeeps ==
  ASSUME Inv, NEW t \in Txs, CommitBought(t) PROVE Inv'
<1> USE DEF Inv, PollingInv, CommitBought
<1>1. t \in Purchases
  BY DEF JobInv
<1>2. rows[t] \in [RowStatuses -> Nat]
  BY DEF TypeOK
<1>3. /\ rows' \in [Txs -> [RowStatuses -> Nat]]
      /\ \A u \in Txs : u # t => rows'[u] = rows[u]
      /\ rows'[t]["sold"] = rows[t]["sold"] + 1
  <2>1. CASE job[t] = "missing"
    BY <2>1, AddRowAdds DEF RowStatuses
  <2>2. CASE job[t] = "found"
    <3>1. rows[t]["pending"] > 0
      BY <2>2 DEF RowsInv
    <3> DEFINE moved == [rows[t] EXCEPT !["pending"] = @ - 1, !["sold"] = @ + 1]
    <3>2. moved \in [RowStatuses -> Nat] /\ moved["sold"] = rows[t]["sold"] + 1
      BY <1>2, <3>1 DEF RowStatuses
    <3>3. rows' = [rows EXCEPT ![t] = moved]
      BY <2>2, <1>2 DEF TypeOK, RowStatuses
    <3> QED
      BY <3>2, <3>3 DEF TypeOK
  <2> QED
    BY <2>1, <2>2
<1>4. TypeOK'
  BY <1>3 DEF TypeOK
<1>5. rows[t]["sold"] = 0
  BY DEF RowsInv
<1>6. SoldOnce' /\ ListedInv'
  BY <1>1, <1>3, <1>5, Kinds DEF SoldOnce, ListedInv, Txs
<1>7. RowsInv'
  BY <1>3 DEF RowsInv, TypeOK
<1>8. JobInv'
  BY DEF JobInv, TypeOK
<1> QED
  BY <1>4, <1>6, <1>7, <1>8, AnswersKept

\* handleCancelledResellTicketEvent closes the sale and records why.
LEMMA CancelledKeeps ==
  ASSUME Inv, NEW t \in Txs, CommitCancelled(t) PROVE Inv'
<1> USE DEF Inv, PollingInv, CommitCancelled, Due
<1>1. TypeOK'
  BY DEF TypeOK, SaleStatuses
<1>2. (SoldOnce /\ ListedInv /\ RowsInv)'
  BY Kinds DEF SoldOnce, ListedInv, RowsInv, Txs
<1>3. JobInv'
  BY DEF JobInv
<1> QED
  BY <1>1, <1>2, <1>3, AnswersKept

\* A transaction that is rolled back or swallowed leaves the rows alone.
LEMMA InterruptKeeps ==
  ASSUME Inv, NEW t \in Txs, Interrupt(t) PROVE Inv'
<1> USE DEF Inv, PollingInv, Interrupt, dbVars
<1>1. PICK j \in {"waiting", "passed"} : job' = [job EXCEPT ![t] = j]
  OBVIOUS
<1>2. TypeOK'
  BY <1>1 DEF TypeOK
<1>3. (SoldOnce /\ ListedInv)'
  BY DEF SoldOnce, ListedInv
<1>4. RowsInv' /\ JobInv'
  BY <1>1 DEF RowsInv, JobInv, TypeOK
<1> QED
  BY <1>2, <1>3, <1>4, AnswersKept

-------------------------------------------------------------------------------
(* The polls. *)

\* What the handlers rest on stays true when the polls leave the rows alone.
LEMMA RowsKept ==
  ASSUME PollingInv, UNCHANGED <<dbVars, job, read>>
  PROVE  (SoldOnce /\ RowsInv /\ ListedInv /\ JobInv)'
  BY DEF PollingInv, SoldOnce, RowsInv, ListedInv, JobInv, dbVars

\* A poll that ends with a true answer leaves the answers true.
LEMMA AnswerKeeps ==
  ASSUME TypeOK, PollingInv, NEW r \in Requests, NEW a \in {"pending", "success"},
         poll[r].tx \in Txs, Answer(r, a), UNCHANGED snapshots,
         a = "success" => poll[r].tx \in snapshots
  PROVE  /\ poll' \in [Requests -> Polls]
         /\ told' \in [Txs -> {"nothing", "pending", "success"}]
         /\ later' \in [Requests -> BOOLEAN]
         /\ AnswerInv'
<1> USE DEF Answer, TypeOK
<1>1. IdlePoll \in Polls /\ IdlePoll.step = "idle"
  BY DEF IdlePoll, Polls, Steps
<1>2. /\ poll' \in [Requests -> Polls]
      /\ told' \in [Txs -> {"nothing", "pending", "success"}]
      /\ later' \in [Requests -> BOOLEAN]
  BY <1>1
<1>3. AnswerInv'
  BY <1>1 DEF PollingInv, AnswerInv
<1> QED
  BY <1>2, <1>3

\* A poll begins: it is later than an answer of success only when there was one.
LEMMA BeginKeeps ==
  ASSUME Inv, NEW r \in Requests, NEW t \in Txs, BeginPoll(r, t) PROVE Inv'
<1> USE DEF Inv, PollingInv, BeginPoll, dbVars
<1>1. TypeOK'
  BY DEF TypeOK, Polls, Steps
<1>2. AnswerInv'
  BY DEF AnswerInv, TypeOK
<1> QED
  BY <1>1, <1>2, RowsKept

\* A closed sale was closed by a recorded cancellation, so the answer is true.
LEMMA ClosedKeeps ==
  ASSUME Inv, NEW t \in Txs, AnswerClosed(t) PROVE Inv'
<1> USE DEF Inv, PollingInv, AnswerClosed, dbVars
<1>1. TypeOK'
  BY DEF TypeOK
<1>2. Cancels \cap snapshots # {}
  BY DEF JobInv
<1>3. AnswerInv'
  BY <1>2 DEF AnswerInv, TypeOK
<1> QED
  BY <1>1, <1>3, RowsKept

\* Going on to the next await, for a transaction that is not recorded.
LEMMA AwaitKeeps ==
  ASSUME Inv, NEW r \in Requests, NEW s \in {"row", "insert"},
         poll[r].step # "idle", poll[r].tx \notin Cancels,
         Await(r, s), UNCHANGED <<tx, dbVars, job, read, told, later>>
  PROVE  Inv'
<1> USE DEF Inv, PollingInv, Await
<1>1. poll[r] \in Polls
  BY DEF TypeOK
<1>2. /\ poll'[r].tx = poll[r].tx /\ poll'[r].step = s
      /\ poll' \in [Requests -> Polls]
      /\ \A q \in Requests : q # r => poll'[q] = poll[q]
  BY <1>1 DEF TypeOK, Polls, Steps
<1>3. TypeOK'
  BY <1>2 DEF TypeOK, dbVars
<1>4. AnswerInv'
  BY <1>2 DEF AnswerInv, dbVars
<1> QED
  BY <1>3, <1>4, RowsKept

\* The poll's read of the snapshot.
LEMMA SnapshotKeeps ==
  ASSUME Inv, NEW r \in Requests, ReadSnapshot(r) PROVE Inv'
<1> USE DEF Inv, PollingInv, ReadSnapshot
<1>1. poll[r].tx \in Txs
  BY DEF AnswerInv
<1>2. CASE \E a \in {"pending", "success"} :
             Answer(r, a) /\ (a = "success" => poll[r].tx \in snapshots)
  <2>1. /\ poll' \in [Requests -> Polls]
        /\ told' \in [Txs -> {"nothing", "pending", "success"}]
        /\ later' \in [Requests -> BOOLEAN]
        /\ AnswerInv'
    BY <1>1, <1>2, AnswerKeeps DEF dbVars
  <2>2. TypeOK'
    BY <2>1 DEF TypeOK, dbVars
  <2> QED
    BY <2>1, <2>2, RowsKept
<1>3. CASE /\ poll[r].tx \notin snapshots /\ poll[r].tx \notin Cancels
           /\ Await(r, "row") /\ UNCHANGED <<told, later>>
  BY <1>3, AwaitKeeps
<1> QED
  BY <1>2, <1>3

\* The poll's look for a row with the hash.
LEMMA RowKeeps ==
  ASSUME Inv, NEW r \in Requests, FindRow(r) PROVE Inv'
<1> USE DEF Inv, PollingInv, FindRow
<1>1. poll[r].tx \in Txs /\ poll[r].tx \notin Cancels
  BY DEF AnswerInv
<1>2. CASE Answer(r, "pending")
  <2>1. /\ poll' \in [Requests -> Polls]
        /\ told' \in [Txs -> {"nothing", "pending", "success"}]
        /\ later' \in [Requests -> BOOLEAN]
        /\ AnswerInv'
    BY <1>1, <1>2, AnswerKeeps DEF dbVars
  <2>2. TypeOK'
    BY <2>1 DEF TypeOK, dbVars
  <2> QED
    BY <2>1, <2>2, RowsKept
<1>3. CASE Await(r, "insert") /\ UNCHANGED <<told, later>>
  BY <1>1, <1>3, AwaitKeeps
<1> QED
  BY <1>2, <1>3

\* The poll's insert: a pending row for a purchase, a draft for a resale.
LEMMA InsertKeeps ==
  ASSUME Inv, NEW r \in Requests, InsertRow(r) PROVE Inv'
<1> USE DEF Inv, PollingInv, InsertRow
<1> DEFINE t == poll[r].tx
           s == IF t \in Purchases THEN "pending" ELSE "draft"
<1>1. t \in Txs /\ t \notin Cancels /\ s \in RowStatuses
  BY DEF AnswerInv, RowStatuses
<1> HIDE DEF t
<1>2. /\ rows' \in [Txs -> [RowStatuses -> Nat]]
      /\ \A u \in Txs : u # t => rows'[u] = rows[u]
      /\ \A q \in RowStatuses : q # s => rows'[t][q] = rows[t][q]
      /\ rows'[t][s] = rows[t][s] + 1
  BY <1>1, AddRowAdds DEF t
<1>3. /\ poll' \in [Requests -> Polls]
      /\ told' \in [Txs -> {"nothing", "pending", "success"}]
      /\ later' \in [Requests -> BOOLEAN]
      /\ AnswerInv'
  BY <1>1, AnswerKeeps DEF t
<1>4. TypeOK'
  BY <1>2, <1>3 DEF TypeOK
<1>5. /\ rows'[t]["sold"] = rows[t]["sold"]
      /\ rows'[t]["selling"] = rows[t]["selling"]
      /\ t \in Purchases => rows'[t]["draft"] = rows[t]["draft"]
      /\ rows'[t]["pending"] >= rows[t]["pending"]
  BY <1>1, <1>2 DEF RowStatuses, TypeOK
<1>6. (SoldOnce /\ ListedInv)'
  BY <1>1, <1>2, <1>5 DEF SoldOnce, ListedInv, Txs
<1>7. RowsInv'
  <2>1. rows[t]["pending"] \in Nat /\ rows'[t]["pending"] \in Nat
    BY <1>1, <1>2 DEF TypeOK, RowStatuses
  <2> QED
    BY <1>1, <1>2, <1>5, <2>1 DEF RowsInv
<1>8. JobInv'
  BY DEF JobInv
<1> QED
  BY <1>3, <1>4, <1>6, <1>7, <1>8

-------------------------------------------------------------------------------
\* Before anything is sent nothing is recorded, told or polled.
LEMMA InitInv == Init => Inv
<1> SUFFICES ASSUME Init PROVE Inv
  OBVIOUS
<1>1. NoRows \in [RowStatuses -> Nat] /\ \A q \in RowStatuses : NoRows[q] = 0
  BY DEF NoRows
<1>2. IdlePoll \in Polls /\ IdlePoll.step = "idle"
  BY DEF IdlePoll, Polls, Steps
<1>3. TypeOK
  BY <1>1, <1>2 DEF Init, TypeOK, SaleStatuses
<1>4. SoldOnce /\ RowsInv /\ ListedInv
  BY <1>1 DEF Init, SoldOnce, RowsInv, ListedInv, RowStatuses, Txs
<1>5. JobInv /\ AnswerInv
  BY <1>2 DEF Init, JobInv, AnswerInv
<1> QED
  BY <1>3, <1>4, <1>5 DEF Inv, PollingInv

\* The rows, the handlers' reads and the answers fit together at every await
\* (the three verify...Status methods with the three marketplace handlers).
THEOREM PollingInvariant == Spec => []Inv
<1>1. Inv /\ [Next]_vars => Inv'
  <2> SUFFICES ASSUME Inv, [Next]_vars PROVE Inv'
    OBVIOUS
  <2>1. CASE ListSale \/ UNCHANGED vars
    BY <2>1, ChainKeeps
  <2>2. ASSUME NEW t \in Txs, Settle(t) PROVE Inv'
    BY <2>2, ChainKeeps
  <2>3. ASSUME NEW t \in Txs, Handle(t) PROVE Inv'
    BY <2>3, ResoldKeeps, FindKeeps, BoughtKeeps, CancelledKeeps DEF Handle
  <2>4. ASSUME NEW t \in Txs, Interrupt(t) \/ AnswerClosed(t) PROVE Inv'
    BY <2>4, InterruptKeeps, ClosedKeeps
  <2>5. ASSUME NEW r \in Requests, Poll(r) PROVE Inv'
    BY <2>5, SnapshotKeeps, RowKeeps, InsertKeeps DEF Poll
  <2>6. ASSUME NEW r \in Requests, NEW t \in Txs, BeginPoll(r, t) PROVE Inv'
    BY <2>6, BeginKeeps
  <2> QED
    BY <2>1, <2>2, <2>3, <2>4, <2>5, <2>6 DEF Next
<1> QED
  BY InitInv, <1>1, PTL DEF Spec

\* The tables, jobs and polls keep their types: in particular a handler never
\* takes away a pending row that is not there.
THEOREM PollingTypes == Spec => []TypeOK
<1>1. Inv => TypeOK
  BY DEF Inv
<1> QED
  BY <1>1, PollingInvariant, PTL

\* For any number of purchases, overlapping polls and interruptions, a purchase
\* is exactly one sold row from the moment it is recorded
\* (handleBoughtTicketEvent, verifyBuyResaleTicketStatus).
THEOREM SoldOnceAlways == Spec => []SoldOnce
<1>1. Inv => SoldOnce
  BY DEF Inv, PollingInv
<1> QED
  BY <1>1, PollingInvariant, PTL

\* A client that is told success finds what the transaction did
\* (verifyResaleCreationStatus, verifyBuyResaleTicketStatus,
\* verifyResaleCancellationStatus).
THEOREM SuccessTrueAlways == Spec => []SuccessIsTrue
<1>1. Inv => SuccessIsTrue
  <2> SUFFICES ASSUME Inv, NEW t \in Txs, told[t] = "success"
               PROVE  /\ t \in Purchases => rows[t]["sold"] = 1
                      /\ t \in Resales => rows[t]["selling"] = 1
                      /\ t \in Cancels => Cancels \cap snapshots # {}
    BY DEF SuccessIsTrue
  <2>1. t \in snapshots \/ (t \in Cancels /\ Cancels \cap snapshots # {})
    BY DEF Inv, PollingInv, AnswerInv
  <2> QED
    BY <2>1, Kinds DEF Inv, PollingInv, SoldOnce, ListedInv
<1> QED
  BY <1>1, PollingInvariant, PTL

-------------------------------------------------------------------------------
(* An answer of success is not taken back. *)

\* A sale that is on offer again stays so: one cancellation only is mined, and
\* the purchase in hand, if any, has read the sale as on offer.
LEMMA ReopenedStays ==
  ASSUME Inv, ReopenedInv, [Next]_vars
  PROVE  ReopenedInv' /\ (Reopened => Reopened')
<1> USE DEF Reopened, ReopenedInv, InHand
<1>1. TypeOK /\ JobInv
  BY DEF Inv, PollingInv
<1>2. CASE UNCHANGED <<tx, sale, snapshots, job, read>>
  BY <1>2
<1>3. CASE ListSale
  BY <1>3 DEF ListSale
<1>4. ASSUME NEW t \in Txs, Settle(t) PROVE ReopenedInv' /\ (Reopened => Reopened')
  <2>1. UNCHANGED <<sale, snapshots, job, read>>
    BY <1>4 DEF Settle, dbVars
  <2>2. \A u \in Txs : tx[u] = "mined" => tx'[u] = "mined"
    BY <1>1, <1>4 DEF Settle, TypeOK
  <2>3. \A u, v \in Cancels : tx'[u] = "mined" /\ tx'[v] = "mined" => u = v
    <3>1. \A u \in Txs : u # t => tx'[u] = tx[u]
      BY <1>1, <1>4 DEF Settle, TypeOK
    <3>2. t \in Cancels /\ tx'[t] = "mined" => \A c \in Cancels : tx[c] # "mined"
      BY <1>1, <1>4, Kinds DEF Settle, TypeOK
    <3> QED
      BY <3>1, <3>2 DEF Txs
  <2>4. \A u \in snapshots \cup InHand : u \in Txs /\ tx[u] = "mined"
    BY <1>1 DEF TypeOK
  <2>5. \A u \in snapshots \cup InHand : tx'[u] = "mined"
    BY <2>2, <2>4
  <2> QED
    BY <2>1, <2>3, <2>5
<1>5. ASSUME NEW t \in Txs, CommitResold(t)
      PROVE  ReopenedInv' /\ (Reopened => Reopened')
  BY <1>5, Kinds DEF CommitResold, Due
<1>6. ASSUME NEW t \in Txs, FindPendingRow(t)
      PROVE  ReopenedInv' /\ (Reopened => Reopened')
  <2>1. UNCHANGED <<tx, sale, snapshots>> /\ sale # "none"
    BY <1>6 DEF FindPendingRow, dbVars
  <2>2. \A u \in Txs : u # t => job'[u] = job[u] /\ job[u] \notin {"found", "missing"}
    BY <1>1, <1>6 DEF FindPendingRow, JobInv, TypeOK
  <2>3. read'[t] = sale /\ tx[t] = "mined"
    BY <1>1, <1>6 DEF FindPendingRow, Due, TypeOK
  <2>4. InHand' \subseteq {t}
    BY <2>2
  <2> QED
    BY <2>1, <2>3, <2>4
<1>7. ASSUME NEW t \in Txs, CommitBought(t)
      PROVE  ReopenedInv' /\ (Reopened => Reopened')
  <2>1. t \in InHand /\ t \notin Cancels
    BY <1>1, <1>7, Kinds DEF CommitBought, JobInv
  <2>2. InHand' = {}
    BY <1>1, <1>7, <2>1 DEF CommitBought, TypeOK
  <2>3. /\ sale' = read[t] /\ sale' # "none"
        /\ snapshots' = snapshots \cup {t} /\ tx' = tx
    BY <1>7, <2>1 DEF CommitBought
  <2>4. tx[t] = "mined"
    BY <2>1
  <2>5. Reopened => Reopened'
    BY <2>1, <2>3
  <2> QED
    BY <2>1, <2>2, <2>3, <2>4, <2>5
<1>8. ASSUME NEW t \in Txs, CommitCancelled(t)
      PROVE  ReopenedInv' /\ (Reopened => Reopened')
  <2>1. UNCHANGED <<tx, job, read>> /\ sale # "none" /\ sale' = "closed"
    BY <1>8 DEF CommitCancelled
  <2>2. Cancels \cap snapshots = {}
    BY <1>8 DEF CommitCancelled, Due
  <2>3. \A u \in snapshots' : tx'[u] = "mined"
    BY <1>8 DEF CommitCancelled, Due
  <2> QED
    BY <2>1, <2>2, <2>3
<1>9. ASSUME NEW t \in Txs, Interrupt(t)
      PROVE  ReopenedInv' /\ (Reopened => Reopened')
  <2>1. UNCHANGED <<tx, sale, snapshots, read>>
    BY <1>9 DEF Interrupt, dbVars
  <2>2. InHand' \subseteq InHand
    BY <1>1, <1>9 DEF Interrupt, TypeOK
  <2> QED
    BY <2>1, <2>2
<1>10. ASSUME NEW t \in Txs, AnswerClosed(t)
       PROVE  ReopenedInv' /\ (Reopened => Reopened')
  BY <1>2, <1>10 DEF AnswerClosed, dbVars
<1>11. ASSUME NEW r \in Requests, Poll(r) \/ \E t \in Txs : BeginPoll(r, t)
       PROVE  ReopenedInv' /\ (Reopened => Reopened')
  BY <1>2, <1>11 DEF Poll, ReadSnapshot, FindRow, InsertRow, BeginPoll, dbVars
<1>12. CASE UNCHANGED vars
  BY <1>2, <1>12 DEF vars, dbVars
<1> QED
  BY <1>3, <1>4, <1>5, <1>6, <1>7, <1>8, <1>9, <1>10, <1>11, <1>12
     DEF Next, Handle

\* A poll that follows an answer of success goes on finding what the answer
\* rested on.
LEMMA LaterKeeps ==
  ASSUME Inv, LaterInv, Reopened => Reopened', [Next]_vars
  PROVE  LaterInv'
<1>1. TypeOK /\ JobInv /\ AnswerInv
  BY DEF Inv, PollingInv
<1>2. snapshots \subseteq snapshots'
  BY DEF Next, Settle, ListSale, Handle, CommitResold, FindPendingRow,
         CommitBought, CommitCancelled, Interrupt, AnswerClosed, Poll,
         ReadSnapshot, FindRow, InsertRow, BeginPoll, vars, dbVars
<1>3. CASE UNCHANGED <<poll, later>>
  BY <1>2, <1>3 DEF LaterInv
<1>4. ASSUME NEW r \in Requests, NEW t \in Txs, BeginPoll(r, t) PROVE LaterInv'
  <2>1. /\ \A q \in Requests : q # r => poll'[q] = poll[q] /\ later'[q] = later[q]
        /\ poll'[r].tx = t /\ poll'[r].step = "snapshot"
        /\ later'[r] => told[t] = "success"
    BY <1>1, <1>4 DEF BeginPoll, TypeOK
  <2>2. told[t] = "success" => t \in snapshots \/ (t \in Cancels /\ Reopened)
    BY <1>1, <1>4 DEF AnswerInv, BeginPoll, Reopened
  <2> QED
    BY <1>2, <2>1, <2>2 DEF LaterInv
<1>5. ASSUME NEW r \in Requests, Poll(r) PROVE LaterInv'
  <2>1. \A q \in Requests : q # r => poll'[q] = poll[q] /\ later'[q] = later[q]
    BY <1>1, <1>5 DEF Poll, ReadSnapshot, FindRow, InsertRow, Answer, Await, TypeOK
  <2>2. poll'[r].step = "idle" \/ ~later'[r]
    <3>1. CASE poll' = [poll EXCEPT ![r] = IdlePoll]
      BY <1>1, <3>1 DEF IdlePoll, TypeOK
    <3>2. CASE later' = later /\ (ReadSnapshot(r) \/ FindRow(r))
      <4>1. ReadSnapshot(r) /\ poll[r].tx \in snapshots => poll' = [poll EXCEPT ![r] = IdlePoll]
        BY DEF ReadSnapshot, Answer
      <4>2. ReadSnapshot(r) /\ poll[r].tx \in Cancels => poll' = [poll EXCEPT ![r] = IdlePoll]
        BY DEF ReadSnapshot, Answer
      <4>3. CASE FindRow(r)
        BY <3>2, <4>3 DEF FindRow, LaterInv
      <4>4. CASE ReadSnapshot(r)
        BY <3>1, <3>2, <4>1, <4>2, <4>4 DEF ReadSnapshot, LaterInv
      <4> QED
        BY <3>2, <4>3, <4>4
    <3> QED
      BY <1>5, <3>1, <3>2 DEF Poll, ReadSnapshot, FindRow, InsertRow, Answer
  <2> QED
    BY <1>2, <2>1, <2>2 DEF LaterInv
<1> QED
  BY <1>3, <1>4, <1>5
     DEF Next, Settle, ListSale, Handle, CommitResold, FindPendingRow,
         CommitBought, CommitCancelled, Interrupt, AnswerClosed, vars

\* A poll that follows an answer of success is answered at once, when it reads
\* the snapshot.
LEMMA RepliesStand ==
  ASSUME Inv, LaterInv, [Next]_vars, NEW r \in Requests, later[r], Replied(r)
  PROVE  /\ rows' = rows
         /\ \/ told'[poll[r].tx] = "success"
            \/ Reopened /\ poll[r].tx \in Cancels \ snapshots
<1>1. TypeOK /\ AnswerInv
  BY DEF Inv, PollingInv
<1>2. IdlePoll.step = "idle"
  BY DEF IdlePoll
<1>3. Poll(r)
  <2>1. \A q \in Requests : Poll(q) => q = r
    BY <1>1 DEF Replied, Poll, ReadSnapshot, FindRow, InsertRow, Answer, Await,
                TypeOK
  <2>2. \A q \in Requests, t \in Txs : ~BeginPoll(q, t)
    BY <1>1, <1>2 DEF Replied, BeginPoll, TypeOK
  <2>3. poll' # poll
    BY DEF Replied
  <2> QED
    BY <2>1, <2>2, <2>3
       DEF Next, Settle, ListSale, Handle, CommitResold, FindPendingRow,
           CommitBought, CommitCancelled, Interrupt, AnswerClosed, vars
<1>4. poll[r].step = "snapshot"
  BY <1>3 DEF LaterInv, Poll, ReadSnapshot, FindRow, InsertRow
<1>5. ReadSnapshot(r) /\ rows' = rows /\ poll[r].tx \in Txs
  BY <1>1, <1>3, <1>4 DEF Poll, ReadSnapshot, FindRow, InsertRow, AnswerInv, dbVars
<1>6. poll[r].tx \in snapshots \/ (poll[r].tx \in Cancels /\ Reopened)
  BY <1>4 DEF LaterInv
<1>7. poll[r].tx \in snapshots => told'[poll[r].tx] = "success"
  BY <1>1, <1>5 DEF ReadSnapshot, Answer, TypeOK
<1> QED
  BY <1>5, <1>6, <1>7

\* For any number of transactions, requests and interruptions, a client that
\* has been told success is told so by every later poll; only an attempt to
\* cancel that is not itself recorded may be told pending again, and only while
\* the sale that another cancellation closed is back on offer (verify...Status
\* with the three marketplace handlers).
THEOREM NoRetreatAlways == Spec => NoRetreat
<1>1. Init => RetreatInv
  <2> SUFFICES ASSUME Init PROVE RetreatInv
    OBVIOUS
  <2>1. IdlePoll.step = "idle"
    BY DEF IdlePoll
  <2> QED
    BY <2>1 DEF Init, RetreatInv, LaterInv, ReopenedInv, InHand, Txs
<1>2. Inv /\ RetreatInv /\ [Next]_vars => RetreatInv'
  BY ReopenedStays, LaterKeeps DEF RetreatInv
<1>3. Inv /\ RetreatInv /\ [Next]_vars =>
        [\A r \in Requests : later[r] /\ Replied(r) =>
           /\ rows' = rows
           /\ \/ told'[poll[r].tx] = "success"
              \/ Reopened /\ poll[r].tx \in Cancels \ snapshots]_vars
  BY RepliesStand DEF RetreatInv
<1> QED
  BY <1>1, <1>2, <1>3, PollingInvariant, PTL DEF Spec, NoRetreat

-------------------------------------------------------------------------------
(* The number of rows. *)

\* Any set of requests is finite and no larger than all of them.
LEMMA RequestSets ==
  ASSUME NEW S \in SUBSET Requests
  PROVE  /\ IsFiniteSet(S)
         /\ Cardinality(S) \in Nat /\ Cardinality(Requests) \in Nat
         /\ Cardinality(S) <= Cardinality(Requests)
<1>1. IsFiniteSet(Requests)
  BY TxAssumption
<1>2. IsFiniteSet(S) /\ Cardinality(S) <= Cardinality(Requests)
  BY <1>1, FS_Subset
<1> QED
  BY <1>1, <1>2, FS_CardinalityType

\* A sum of counts is a count.
LEMMA RowCountIsNat == ASSUME TypeOK, NEW t \in Txs PROVE RowCount(t) \in Nat
<1>1. rows[t] \in [RowStatuses -> Nat]
  BY DEF TypeOK
<1> QED
  BY <1>1 DEF RowCount, RowStatuses

\* AddRow adds one row.
LEMMA AddRowCounts ==
  ASSUME TypeOK, NEW t \in Txs, NEW s \in RowStatuses, rows' = AddRow(t, s)
  PROVE  /\ RowCount(t)' = RowCount(t) + 1
         /\ \A u \in Txs : u # t => RowCount(u)' = RowCount(u)
<1>1. /\ \A u \in Txs : u # t => rows'[u] = rows[u]
      /\ \A q \in RowStatuses : q # s => rows'[t][q] = rows[t][q]
      /\ rows'[t][s] = rows[t][s] + 1
  BY AddRowAdds
<1>2. rows[t] \in [RowStatuses -> Nat]
  BY DEF TypeOK
<1>3. RowCount(t)' = RowCount(t) + 1
  BY <1>1, <1>2 DEF RowCount, RowStatuses
<1> QED
  BY <1>1, <1>3 DEF RowCount

\* A transaction's bound holds on when it gets no row and no further insert.
LEMMA BoundKept ==
  ASSUME TypeOK, BoundInv, NEW t \in Txs, RowCount(t)' = RowCount(t),
         Inserting(t)' \subseteq Inserting(t), snapshots \subseteq snapshots'
  PROVE  RowCount(t)' + Cardinality(Inserting(t)')
           <= Cardinality(Requests) + (IF t \in snapshots' THEN 1 ELSE 0)
<1>1. Inserting(t) \in SUBSET Requests
  BY DEF Inserting
<1>2. IsFiniteSet(Inserting(t)) /\ Cardinality(Inserting(t)) \in Nat
      /\ Cardinality(Requests) \in Nat
  BY <1>1, RequestSets
<1>3. Cardinality(Inserting(t)') <= Cardinality(Inserting(t))
      /\ Cardinality(Inserting(t)') \in Nat
  BY <1>2, FS_Subset, FS_CardinalityType
<1>4. RowCount(t) + Cardinality(Inserting(t))
        <= Cardinality(Requests) + (IF t \in snapshots THEN 1 ELSE 0)
  BY DEF BoundInv
<1>5. RowCount(t) \in Nat
  BY RowCountIsNat
<1> DEFINE i == Cardinality(Inserting(t))
           j == Cardinality(Inserting(t)')
           n == Cardinality(Requests)
           c == RowCount(t)
<1>6. t \in snapshots => t \in snapshots'
  OBVIOUS
<1>7. c + j <= n + (IF t \in snapshots' THEN 1 ELSE 0)
  <2>1. i \in Nat /\ j \in Nat /\ n \in Nat /\ c \in Nat /\ j <= i
    BY <1>2, <1>3, <1>5
  <2>2. c + i <= n + (IF t \in snapshots THEN 1 ELSE 0)
    BY <1>4
  <2> HIDE DEF i, j, n, c
  <2> QED
    BY <2>1, <2>2, <1>6
<1> QED
  BY <1>7

\* Recording a transaction adds at most the one row that is allowed for it.
LEMMA BoundRecorded ==
  ASSUME TypeOK, BoundInv, NEW t \in Txs, t \notin snapshots,
         snapshots' = snapshots \cup {t}, UNCHANGED poll,
         RowCount(t)' \in {RowCount(t), RowCount(t) + 1},
         \A u \in Txs : u # t => RowCount(u)' = RowCount(u)
  PROVE  BoundInv'
<1> SUFFICES ASSUME NEW u \in Txs
             PROVE  RowCount(u)' + Cardinality(Inserting(u)')
                      <= Cardinality(Requests)
                           + (IF u \in snapshots' THEN 1 ELSE 0)
  BY DEF BoundInv
<1>1. Inserting(u)' = Inserting(u)
  BY DEF Inserting
<1>2. CASE u # t
  BY <1>1, <1>2, BoundKept
<1>3. CASE u = t
  <2> DEFINE i == Cardinality(Inserting(t))
             n == Cardinality(Requests)
             c == RowCount(t)
             d == RowCount(t)'
  <2>1. Inserting(t) \in SUBSET Requests
    BY DEF Inserting
  <2>2. i \in Nat /\ n \in Nat
    BY <2>1, RequestSets
  <2>3. c \in Nat /\ d \in {c, c + 1}
    BY RowCountIsNat
  <2>4. c + i <= n
    <3>1. c + i <= n + (IF t \in snapshots THEN 1 ELSE 0)
      BY DEF BoundInv
    <3> HIDE DEF i, n, c
    <3> QED
      BY <3>1, <2>2
  <2>5. d + i <= n + 1
    <3> HIDE DEF i, n, c, d
    <3> QED
      BY <2>2, <2>3, <2>4
  <2> QED
    BY <1>1, <1>3, <2>5
<1> QED
  BY <1>2, <1>3

\* The handlers that record a transaction.
LEMMA RecordingBounded ==
  ASSUME Inv, BoundInv, NEW t \in Txs, CommitResold(t) \/ CommitBought(t)
  PROVE  BoundInv'
<1>1. TypeOK /\ RowsInv
  BY DEF Inv, PollingInv
<1>2. t \notin snapshots /\ snapshots' = snapshots \cup {t} /\ UNCHANGED poll
  BY DEF CommitResold, CommitBought, Due
<1>3. CASE \E s \in RowStatuses : rows' = AddRow(t, s)
  <2>1. /\ RowCount(t)' = RowCount(t) + 1
        /\ \A u \in Txs : u # t => RowCount(u)' = RowCount(u)
    BY <1>1, <1>3, AddRowCounts
  <2> QED
    BY <1>1, <1>2, <2>1, BoundRecorded
<1>4. CASE /\ job[t] = "found"
           /\ rows' = [rows EXCEPT ![t]["pending"] = @ - 1,
                                   ![t]["sold"] = @ + 1]
  <2>1. /\ rows[t] \in [RowStatuses -> Nat]
        /\ rows \in [Txs -> [RowStatuses -> Nat]]
    BY <1>1 DEF TypeOK
  <2>2. rows'[t] = [rows[t] EXCEPT !["pending"] = @ - 1, !["sold"] = @ + 1]
        /\ \A u \in Txs : u # t => rows'[u] = rows[u]
    BY <1>4, <2>1 DEF RowStatuses
  <2>3. RowCount(t)' = RowCount(t)
    BY <2>1, <2>2 DEF RowCount, RowStatuses
  <2>4. \A u \in Txs : u # t => RowCount(u)' = RowCount(u)
    BY <2>2 DEF RowCount
  <2> QED
    BY <1>1, <1>2, <2>3, <2>4, BoundRecorded
<1> QED
  BY <1>3, <1>4 DEF CommitResold, CommitBought, RowStatuses

\* Steps that add no row and bring no poll to its insert.
LEMMA QuietBounded ==
  ASSUME TypeOK, BoundInv, UNCHANGED rows, snapshots \subseteq snapshots',
         \A r \in Requests : poll'[r] = poll[r] \/ poll'[r].step # "insert"
  PROVE  BoundInv'
<1> SUFFICES ASSUME NEW t \in Txs
             PROVE  RowCount(t)' + Cardinality(Inserting(t)')
                      <= Cardinality(Requests)
                           + (IF t \in snapshots' THEN 1 ELSE 0)
  BY DEF BoundInv
<1>1. RowCount(t)' = RowCount(t)
  BY DEF RowCount
<1>2. Inserting(t)' \subseteq Inserting(t)
  BY DEF Inserting
<1> QED
  BY <1>1, <1>2, BoundKept

\* A poll goes on to its insert only when there is no row.
LEMMA FindBounded ==
  ASSUME Inv, BoundInv, NEW r \in Requests, FindRow(r), ~HasRow(poll[r].tx),
         Await(r, "insert")
  PROVE  BoundInv'
<1>1. TypeOK
  BY DEF Inv
<1>2. UNCHANGED <<rows, snapshots>>
  BY DEF FindRow, dbVars
<1>3. poll[r].tx \in Txs
  BY DEF Inv, PollingInv, AnswerInv, FindRow
<1>4. /\ poll'[r].tx = poll[r].tx
      /\ \A q \in Requests : q # r => poll'[q] = poll[q]
  BY <1>1 DEF TypeOK, Polls, Await
<1> SUFFICES ASSUME NEW t \in Txs
             PROVE  RowCount(t)' + Cardinality(Inserting(t)')
                      <= Cardinality(Requests)
                           + (IF t \in snapshots' THEN 1 ELSE 0)
  BY DEF BoundInv
<1>5. RowCount(t)' = RowCount(t)
  BY <1>2 DEF RowCount
<1>6. CASE t # poll[r].tx
  <2>1. Inserting(t)' \subseteq Inserting(t)
    BY <1>4, <1>6 DEF Inserting
  <2> QED
    BY <1>1, <1>2, <1>5, <2>1, BoundKept
<1>7. CASE t = poll[r].tx
  <2>1. \A q \in RowStatuses : rows[t][q] = 0
    BY <1>7 DEF HasRow, NoRows
  <2>2. RowCount(t)' = 0
    BY <1>5, <2>1 DEF RowCount, RowStatuses
  <2> DEFINE j == Cardinality(Inserting(t)')
             n == Cardinality(Requests)
  <2>3. Inserting(t)' \in SUBSET Requests
    BY DEF Inserting
  <2>4. j \in Nat /\ n \in Nat /\ j <= n
    BY <2>3, RequestSets
  <2>5. 0 + j <= n + (IF t \in snapshots' THEN 1 ELSE 0)
    <3> HIDE DEF j, n
    <3> QED
      BY <2>4
  <2> QED
    BY <2>2, <2>5
<1> QED
  BY <1>6, <1>7

\* An insert turns a poll that was counted into a row.
LEMMA InsertBounded ==
  ASSUME Inv, BoundInv, NEW r \in Requests, InsertRow(r) PROVE BoundInv'
<1>1. TypeOK
  BY DEF Inv
<1>2. poll[r].step = "insert" /\ UNCHANGED snapshots
  BY DEF InsertRow
<1>3. poll[r].tx \in Txs
  BY <1>2 DEF Inv, PollingInv, AnswerInv
<1>4. /\ poll'[r].step = "idle"
      /\ \A q \in Requests : q # r => poll'[q] = poll[q]
  BY <1>1 DEF TypeOK, InsertRow, Answer, IdlePoll
<1> PICK p \in Txs : p = poll[r].tx
  BY <1>3
<1>5. \E s \in RowStatuses : rows' = AddRow(p, s)
  BY DEF InsertRow, RowStatuses
<1>6. /\ RowCount(p)' = RowCount(p) + 1
      /\ \A u \in Txs : u # p => RowCount(u)' = RowCount(u)
  BY <1>1, <1>3, <1>5, AddRowCounts
<1> SUFFICES ASSUME NEW t \in Txs
             PROVE  RowCount(t)' + Cardinality(Inserting(t)')
                      <= Cardinality(Requests)
                           + (IF t \in snapshots' THEN 1 ELSE 0)
  BY DEF BoundInv
<1>7. CASE t # p
  <2>1. Inserting(t)' \subseteq Inserting(t)
    BY <1>4 DEF Inserting
  <2> QED
    BY <1>1, <1>2, <1>6, <1>7, <2>1, BoundKept
<1>8. CASE t = p
  <2>1. Inserting(t)' = Inserting(t) \ {r} /\ r \in Inserting(t)
    BY <1>2, <1>4, <1>8 DEF Inserting
  <2> DEFINE i == Cardinality(Inserting(t))
             j == Cardinality(Inserting(t)')
             n == Cardinality(Requests)
             c == RowCount(t)
             d == RowCount(t)'
  <2>2. Inserting(t) \in SUBSET Requests
    BY DEF Inserting
  <2>3. IsFiniteSet(Inserting(t)) /\ i \in Nat /\ n \in Nat
    BY <2>2, RequestSets
  <2>4. j = i - 1
    BY <2>1, <2>3, FS_RemoveElement
  <2>5. c \in Nat /\ d = c + 1
    BY <1>1, <1>6, <1>8, RowCountIsNat
  <2>6. c + i <= n + (IF t \in snapshots THEN 1 ELSE 0)
    BY DEF BoundInv
  <2>7. d + j <= n + (IF t \in snapshots' THEN 1 ELSE 0)
    <3> HIDE DEF i, j, n, c, d
    <3> QED
      BY <1>2, <2>3, <2>4, <2>5, <2>6
  <2> QED
    BY <2>7
<1> QED
  BY <1>7, <1>8

\* Every step keeps the bound.
LEMMA StepBounded == ASSUME Inv, BoundInv, [Next]_vars PROVE BoundInv'
<1>1. TypeOK
  BY DEF Inv
<1>2. CASE UNCHANGED <<rows, poll>> /\ snapshots \subseteq snapshots'
  BY <1>1, <1>2, QuietBounded
<1>3. CASE ListSale \/ UNCHANGED vars
  BY <1>2, <1>3 DEF ListSale, vars, dbVars
<1>4. ASSUME NEW t \in Txs, Settle(t) \/ Interrupt(t) \/ AnswerClosed(t)
      PROVE  BoundInv'
  BY <1>2, <1>4 DEF Settle, Interrupt, AnswerClosed, dbVars
<1>5. ASSUME NEW t \in Txs, FindPendingRow(t) \/ CommitCancelled(t)
      PROVE  BoundInv'
  BY <1>2, <1>5 DEF FindPendingRow, CommitCancelled, dbVars
<1>6. ASSUME NEW t \in Txs, CommitResold(t) \/ CommitBought(t) PROVE BoundInv'
  BY <1>6, RecordingBounded
<1>7. ASSUME NEW r \in Requests, NEW t \in Txs, BeginPoll(r, t) PROVE BoundInv'
  <2>1. UNCHANGED <<rows, snapshots>>
    BY <1>7 DEF BeginPoll, dbVars
  <2>2. \A q \in Requests : poll'[q] = poll[q] \/ poll'[q].step # "insert"
    BY <1>1, <1>7 DEF TypeOK, BeginPoll
  <2> QED
    BY <1>1, <2>1, <2>2, QuietBounded
<1>8. ASSUME NEW r \in Requests, ReadSnapshot(r) \/ FindRow(r) PROVE BoundInv'
  <2>1. UNCHANGED <<rows, snapshots>>
    BY <1>8 DEF ReadSnapshot, FindRow, dbVars
  <2>2. CASE poll' = [poll EXCEPT ![r] = IdlePoll] \/ Await(r, "row")
    <3>1. \A q \in Requests : poll'[q] = poll[q] \/ poll'[q].step # "insert"
      BY <1>1, <2>2 DEF TypeOK, Polls, Await, IdlePoll
    <3> QED
      BY <1>1, <2>1, <3>1, QuietBounded
  <2>3. CASE FindRow(r) /\ ~HasRow(poll[r].tx) /\ Await(r, "insert")
    BY <2>3, FindBounded
  <2> QED
    BY <1>8, <2>2, <2>3 DEF ReadSnapshot, FindRow, Answer
<1>9. ASSUME NEW r \in Requests, InsertRow(r) PROVE BoundInv'
  BY <1>9, InsertBounded
<1> QED
  BY <1>3, <1>4, <1>5, <1>6, <1>7, <1>8, <1>9 DEF Next, Handle, Poll

\* For any number of transactions and of overlapping requests, however often
\* clients ask and however their polls interleave with the handlers, a
\* transaction has at most one row for each request that can be in flight and
\* the handler's (verifyResaleCreationStatus, verifyBuyResaleTicketStatus).
THEOREM RowsBoundedAlways == Spec => []RowsBounded
<1>1. Init => BoundInv
  <2> SUFFICES ASSUME Init, NEW t \in Txs
               PROVE  RowCount(t) + Cardinality(Inserting(t))
                        <= Cardinality(Requests)
                             + (IF t \in snapshots THEN 1 ELSE 0)
    BY DEF BoundInv
  <2>1. RowCount(t) = 0
    BY DEF Init, RowCount, NoRows, RowStatuses
  <2>2. Inserting(t) \in SUBSET Requests
    BY DEF Inserting
  <2>3. /\ Cardinality(Inserting(t)) \in Nat /\ Cardinality(Requests) \in Nat
        /\ Cardinality(Inserting(t)) <= Cardinality(Requests)
    BY <2>2, RequestSets
  <2> QED
    BY <2>1, <2>3
<1>2. Inv /\ BoundInv /\ [Next]_vars => BoundInv'
  BY StepBounded
<1>3. Inv /\ BoundInv => RowsBounded
  <2> SUFFICES ASSUME Inv, BoundInv, NEW t \in Txs
               PROVE  RowCount(t) <= Cardinality(Requests) + 1
    BY DEF RowsBounded
  <2>1. Inserting(t) \in SUBSET Requests
    BY DEF Inserting
  <2>2. Cardinality(Inserting(t)) \in Nat /\ Cardinality(Requests) \in Nat
    BY <2>1, RequestSets
  <2>3. RowCount(t) \in Nat
    BY RowCountIsNat DEF Inv
  <2>4. RowCount(t) + Cardinality(Inserting(t))
          <= Cardinality(Requests) + (IF t \in snapshots THEN 1 ELSE 0)
    BY DEF BoundInv
  <2> QED
    BY <2>2, <2>3, <2>4
<1> QED
  BY <1>1, <1>2, <1>3, PollingInvariant, PTL DEF Spec
===============================================================================
