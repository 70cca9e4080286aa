----------------------------- MODULE StatusPolling -----------------------------
(***************************************************************************)
(* A client sends a marketplace transaction and then polls the backend     *)
(* with its hash: verifyResaleCreationStatus, verifyBuyResaleTicketStatus  *)
(* and verifyResaleCancellationStatus.  Until the polling jobs have        *)
(* recorded the transaction, a poll itself writes a row for it into        *)
(* ticket_sale_transactions, which the handlers of ResoldTicket and        *)
(* BoughtTicket may find, or not.  transaction_hash is not unique there.   *)
(*                                                                         *)
(* One resale is followed: the purchases and cancellations are of it, and  *)
(* each of the resale transactions opens a listing of its own.  The tickets*)
(* themselves are in TicketLedger.                                         *)
(***************************************************************************)
EXTENDS Naturals, FiniteSets

CONSTANTS
  Purchases, Cancels, Resales,   \* hashes of the transactions clients send
  Requests                       \* status requests that may overlap

Txs == Purchases \cup Cancels \cup Resales

ASSUME TxAssumption ==
  /\ Purchases \cap Cancels = {}
  /\ Purchases \cap Resales = {}
  /\ Cancels \cap Resales = {}
  /\ IsFiniteSet(Requests)

NoTx == "none"
RowStatuses == {"draft", "pending", "selling", "sold"}
SaleStatuses == {"none", "selling", "closed"}
NoRows == [s \in RowStatuses |-> 0]
Steps == {"idle", "snapshot", "row", "insert"}

VARIABLES
  tx,         \* per transaction: sent, mined or failed on the chain
  sale,       \* status of the row of the resale, "none" before it is recorded
  snapshots,  \* transactions recorded in blockchain_snapshots
  rows,       \* per transaction: its rows in ticket_sale_transactions
  job,        \* per transaction: how far its handler is
  read,       \* per transaction: status of the sale its handler has read
  poll,       \* per request: the transaction asked about and the next await
  told,       \* history, per transaction: the last answer
  later       \* history, per request: it began after an answer of success

dbVars == <<sale, snapshots, rows>>
vars == <<tx, sale, snapshots, rows, job, read, poll, told, later>>

Polls == [tx : Txs \cup {NoTx}, step : Steps]
IdlePoll == [tx |-> NoTx, step |-> "idle"]

TypeOK ==
  /\ tx \in [Txs -> {"sent", "mined", "failed"}]
  /\ sale \in SaleStatuses
  /\ snapshots \subseteq Txs
  /\ rows \in [Txs -> [RowStatuses -> Nat]]
  /\ job \in [Txs -> {"waiting", "found", "missing", "passed"}]
  /\ read \in [Txs -> SaleStatuses]
  /\ poll \in [Requests -> Polls]
  /\ told \in [Txs -> {"nothing", "pending", "success"}]
  /\ later \in [Requests -> BOOLEAN]

Init ==
  /\ tx = [t \in Txs |-> "sent"]
  /\ sale = "none"
  /\ snapshots = {}
  /\ rows = [t \in Txs |-> NoRows]
  /\ job = [t \in Txs |-> "waiting"]
  /\ read = [t \in Txs |-> "none"]
  /\ poll = [r \in Requests |-> IdlePoll]
  /\ told = [t \in Txs |-> "nothing"]
  /\ later = [r \in Requests |-> FALSE]

-------------------------------------------------------------------------------
(* The chain, and the handler that records the resale itself. *)

\* A transaction that fails emits no log, so no handler ever sees it.  The
\* resale is cancelled once, and neither bought from nor cancelled afterwards.
Settle(t) ==
  /\ tx[t] = "sent"
  /\ \/ tx' = [tx EXCEPT ![t] = "failed"]
     \/ /\ t \notin Resales => \A c \in Cancels : tx[c] # "mined"
        /\ tx' = [tx EXCEPT ![t] = "mined"]
  /\ UNCHANGED <<dbVars, job, read, poll, told, later>>

ListSale ==
  /\ sale = "none"
  /\ sale' = "selling"
  /\ UNCHANGED <<tx, snapshots, rows, job, read, poll, told, later>>

-------------------------------------------------------------------------------
(* The handlers, each one transaction of the database. *)

Due(t) ==
  /\ tx[t] = "mined"
  /\ t \notin snapshots
  /\ job[t] = "waiting"

AddRow(t, status) == [rows EXCEPT ![t][status] = @ + 1]

HasRow(t) == rows[t] # NoRows

\* handleResoldTicketEvent looks for a row with this hash and this sale_id; the
\* row a poll has drafted has no sale_id, so the handler always adds a row.
CommitResold(t) ==
  /\ t \in Resales
  /\ Due(t)
  /\ rows' = AddRow(t, "selling")
  /\ snapshots' = snapshots \cup {t}
  /\ UNCHANGED <<tx, sale, job, read, poll, told, later>>

\* Slips to catch: the snapshot is committed before the rest; the pending row is
\* taken for granted.
FindAfterSnapshot(t) ==
  /\ t \in Purchases
  /\ Due(t)
  /\ sale # "none"
  /\ snapshots' = snapshots \cup {t}
  /\ read' = [read EXCEPT ![t] = sale]
  /\ job' = [job EXCEPT ![t] = IF HasRow(t) THEN "found" ELSE "missing"]
  /\ UNCHANGED <<tx, sale, rows, poll, told, later>>
FindAssumed(t) ==
  /\ t \in Purchases
  /\ Due(t)
  /\ sale # "none"
  /\ read' = [read EXCEPT ![t] = sale]
  /\ job' = [job EXCEPT ![t] = "found"]
  /\ UNCHANGED <<tx, dbVars, poll, told, later>>

\* handleBoughtTicketEvent, one log at a time, reads the sale, then looks for a
\* row with the hash.
FindPendingRow(t) ==
  /\ t \in Purchases
  /\ Due(t)
  /\ sale # "none"
  /\ \A u \in Purchases : job[u] \in {"waiting", "passed"}
  /\ read' = [read EXCEPT ![t] = sale]
  /\ job' = [job EXCEPT ![t] = IF HasRow(t) THEN "found" ELSE "missing"]
  /\ UNCHANGED <<tx, dbVars, poll, told, later>>

\* Slip to catch: every row with the hash becomes the purchase.
CommitBoughtByHash(t) ==
  /\ t \notin snapshots
  /\ \/ /\ job[t] = "found"
        /\ rows' = [rows EXCEPT ![t]["sold"] = rows[t]["pending"],
                                ![t]["pending"] = 0]
     \/ /\ job[t] = "missing"
        /\ rows' = AddRow(t, "sold")
  /\ snapshots' = snapshots \cup {t}
  /\ sale' = read[t]
  /\ job' = [job EXCEPT ![t] = "waiting"]
  /\ UNCHANGED <<tx, read, poll, told, later>>

\* The pending row becomes the purchase, or a row is created for it; the sale
\* is saved with the status that was read.
CommitBought(t) ==
  /\ t \notin snapshots
  /\ \/ /\ job[t] = "found"
        /\ rows' = [rows EXCEPT ![t]["pending"] = @ - 1, ![t]["sold"] = @ + 1]
     \/ /\ job[t] = "missing"
        /\ rows' = AddRow(t, "sold")
  /\ snapshots' = snapshots \cup {t}
  /\ sale' = read[t]
  /\ job' = [job EXCEPT ![t] = "waiting"]
  /\ UNCHANGED <<tx, read, poll, told, later>>

\* handleCancelledResellTicketEvent.
CommitCancelled(t) ==
  /\ t \in Cancels
  /\ Due(t)
  /\ sale # "none"
  /\ sale' = "closed"
  /\ snapshots' = snapshots \cup {t}
  /\ UNCHANGED <<tx, rows, job, read, poll, told, later>>

\* The process stops in the transaction, which is rolled back; or the handler
\* swallows an error and the log is passed over, until the job is set back.
Interrupt(t) ==
  /\ tx[t] = "mined" /\ t \notin snapshots
  /\ \E j \in {"waiting", "passed"} : job[t] # j /\ job' = [job EXCEPT ![t] = j]
  /\ UNCHANGED <<tx, dbVars, read, poll, told, later>>

-------------------------------------------------------------------------------
(* The polls. *)

Await(r, step) == poll' = [poll EXCEPT ![r].step = step]

Answer(r, answer) ==
  /\ poll' = [poll EXCEPT ![r] = IdlePoll]
  /\ told' = [told EXCEPT ![poll[r].tx] = answer]
  /\ later' = [later EXCEPT ![r] = FALSE]

\* Slip to catch: a poll about a cancellation goes on when the sale is closed.
BeginPollIfKnown(r, t) ==
  /\ poll[r] = IdlePoll
  /\ t \in Purchases \cup Cancels => sale # "none"
  /\ poll' = [poll EXCEPT ![r] = [tx |-> t, step |-> "snapshot"]]
  /\ later' = [later EXCEPT ![r] = told[t] = "success"]
  /\ UNCHANGED <<tx, dbVars, job, read, told>>

\* A poll about the sale (a purchase or a cancellation) reads the sale first
\* and is refused before the sale is known.
BeginPoll(r, t) ==
  /\ poll[r] = IdlePoll
  /\ t \in Purchases => sale # "none"
  /\ t \in Cancels => sale = "selling"
  /\ poll' = [poll EXCEPT ![r] = [tx |-> t, step |-> "snapshot"]]
  /\ later' = [later EXCEPT ![r] = told[t] = "success"]
  /\ UNCHANGED <<tx, dbVars, job, read, told>>

\* A poll about a cancellation of a sale that is closed asks no further.
AnswerClosed(t) ==
  /\ t \in Cancels
  /\ sale = "closed"
  /\ told' = [told EXCEPT ![t] = "success"]
  /\ UNCHANGED <<tx, dbVars, job, read, poll, later>>

\* Slip to catch: the row is looked for before the snapshot.
ReadSnapshotIfNoRow(r) ==
  /\ poll[r].step = "snapshot"
  /\ \/ /\ poll[r].tx \in snapshots /\ ~HasRow(poll[r].tx)
        /\ Answer(r, "success")
     \/ /\ poll[r].tx \notin snapshots \/ HasRow(poll[r].tx)
        /\ Await(r, "row")
        /\ UNCHANGED <<told, later>>
  /\ UNCHANGED <<tx, dbVars, job, read>>

ReadSnapshot(r) ==
  /\ poll[r].step = "snapshot"
  /\ \/ /\ poll[r].tx \in snapshots
        /\ Answer(r, "success")
     \/ /\ poll[r].tx \notin snapshots /\ poll[r].tx \in Cancels
        /\ Answer(r, "pending")
     \/ /\ poll[r].tx \notin snapshots /\ poll[r].tx \notin Cancels
        /\ Await(r, "row")
        /\ UNCHANGED <<told, later>>
  /\ UNCHANGED <<tx, dbVars, job, read>>

\* Slip to catch: the poll does not look for the row it added before.
FindRowNever(r) ==
  /\ poll[r].step = "row"
  /\ Await(r, "insert")
  /\ UNCHANGED <<tx, dbVars, job, read, told, later>>

FindRow(r) ==
  /\ poll[r].step = "row"
  /\ \/ /\ HasRow(poll[r].tx)
        /\ Answer(r, "pending")
     \/ /\ ~HasRow(poll[r].tx)
        /\ Await(r, "insert")
        /\ UNCHANGED <<told, later>>
  /\ UNCHANGED <<tx, dbVars, job, read>>

InsertRow(r) ==
  /\ poll[r].step = "insert"
  /\ rows' = AddRow(poll[r].tx,
                    IF poll[r].tx \in Purchases THEN "pending" ELSE "draft")
  /\ Answer(r, "pending")
  /\ UNCHANGED <<tx, sale, snapshots, job, read>>

-------------------------------------------------------------------------------
Handle(t) ==
  CommitResold(t) \/ FindPendingRow(t) \/ CommitBought(t) \/ CommitCancelled(t)

Poll(r) == ReadSnapshot(r) \/ FindRow(r) \/ InsertRow(r)

Next ==
  \/ ListSale
  \/ \E t \in Txs : Settle(t) \/ Handle(t) \/ Interrupt(t) \/ AnswerClosed(t)
  \/ \E r \in Requests : Poll(r) \/ \E t \in Txs : BeginPoll(r, t)

\* Transactions are mined or fail, logs are delivered and handled, and a client
\* repeats its poll and gets answers.
Fairness ==
  /\ WF_vars(ListSale)
  /\ \A t \in Txs : WF_vars(Settle(t)) /\ WF_vars(Handle(t))
  /\ \A r \in Requests : WF_vars(Poll(r))
  /\ \A t \in Txs : SF_vars(AnswerClosed(t) \/ \E r \in Requests : BeginPoll(r, t))

Spec == Init /\ [][Next]_vars
FairSpec == Spec /\ Fairness

-------------------------------------------------------------------------------
\* A purchase is one row of status sold, no more and no fewer, from the moment
\* it is recorded, whatever rows polls add before, meanwhile and after
\* (handleBoughtTicketEvent; revenue sums these rows).
SoldOnce ==
  \A t \in Purchases :
    rows[t]["sold"] = IF t \in snapshots THEN 1 ELSE 0

\* The answer success is true: the handler's rows are there, and a cancelled
\* sale has been closed by a recorded cancellation (verify...Status).
SuccessIsTrue ==
  \A t \in Txs : told[t] = "success" =>
    /\ t \in Purchases => rows[t]["sold"] = 1
    /\ t \in Resales => rows[t]["selling"] = 1
    /\ t \in Cancels => Cancels \cap snapshots # {}

\* Request r is answered in this step.
Replied(r) == poll[r] # IdlePoll /\ poll'[r] = IdlePoll

\* A sale that a recorded cancellation has closed is on offer again: a purchase
\* has saved the status it had read before.
Reopened == sale = "selling" /\ Cancels \cap snapshots # {}

\* A client that has been told success is told success again by every poll it
\* sends afterwards, and no row is added.  The one exception: an attempt to
\* cancel that is not itself recorded is told pending once a late purchase has
\* put the sale, closed by another cancellation, back on offer
\* (verify...Status with handleBoughtTicketEvent).
NoRetreat ==
  [][\A r \in Requests : later[r] /\ Replied(r) =>
       /\ rows' = rows
       /\ \/ told'[poll[r].tx] = "success"
          \/ Reopened /\ poll[r].tx \in Cancels \ snapshots]_vars

RowCount(t) ==
  rows[t]["draft"] + rows[t]["pending"] + rows[t]["selling"] + rows[t]["sold"]

\* However often clients ask, a transaction has no more rows than there were
\* polls in flight at once, and the handler's (verify...Status).
RowsBounded == \A t \in Txs : RowCount(t) <= Cardinality(Requests) + 1

Fault == \E t \in Txs : Interrupt(t)

\* If the handlers are not interrupted for ever, a client that keeps asking
\* about a mined transaction is told success in the end, unless its log was
\* passed over (verify...Status with the three marketplace handlers).
EventuallyTold ==
  <>[][~Fault]_vars =>
    \A t \in Txs :
      tx[t] = "mined" ~> (told[t] = "success" \/ job[t] = "passed")

-------------------------------------------------------------------------------
(***************************************************************************)
(* What makes the answers true and the types hold: until a transaction is  *)
(* recorded its only rows are the ones polls have added, and only recorded *)
(* transactions and closed sales are ever answered with success.           *)
(***************************************************************************)
RowsInv ==
  \A t \in Txs \ snapshots :
    /\ rows[t]["sold"] = 0 /\ rows[t]["selling"] = 0
    /\ t \in Purchases => rows[t]["draft"] = 0
    /\ job[t] = "found" => rows[t]["pending"] > 0

ListedInv ==
  \A t \in Resales : t \in snapshots => rows[t]["selling"] = 1

JobInv ==
  /\ \A t \in Txs : job[t] \in {"found", "missing"} => t \in Purchases
  /\ "closed" \in {sale} \cup {read[t] : t \in Txs} => Cancels \cap snapshots # {}

AnswerInv ==
  /\ \A t \in Txs : told[t] = "success" =>
       t \in snapshots \/ (t \in Cancels /\ Cancels \cap snapshots # {})
  /\ \A r \in Requests :
       /\ poll[r].step # "idle" => poll[r].tx \in Txs
       /\ poll[r].step \in {"row", "insert"} => poll[r].tx \notin Cancels

PollingInv == SoldOnce /\ RowsInv /\ ListedInv /\ JobInv /\ AnswerInv

\* A poll that began after an answer of success finds the transaction recorded,
\* unless it asks about a cancellation and the sale is on offer again.
LaterInv ==
  \A r \in Requests : later[r] /\ poll[r].step # "idle" =>
    /\ poll[r].step = "snapshot"
    /\ poll[r].tx \in snapshots \/ (poll[r].tx \in Cancels /\ Reopened)

\* Why a sale on offer again stays so: the chain lets the resale be cancelled
\* once, and purchases are handled one after the other, so that nobody is left
\* who closes it, or has read it closed.
InHand == {t \in Txs : job[t] \in {"found", "missing"}}

ReopenedInv ==
  /\ \A t \in snapshots \cup InHand : tx[t] = "mined"
  /\ \A t, u \in Cancels : tx[t] = "mined" /\ tx[u] = "mined" => t = u
  /\ \A t, u \in InHand : t = u
  /\ \A t \in InHand : read[t] # "none" /\ (Reopened => read[t] = "selling")
  /\ sale = "none" => Cancels \cap snapshots = {} /\ InHand = {}

RetreatInv == LaterInv /\ ReopenedInv

\* Why the rows are bounded: a poll gets as far as the insert only when there is
\* no row, so the rows and the inserts to come are no more than the requests,
\* and the one row that recording adds.
Inserting(t) == {r \in Requests : poll[r].tx = t /\ poll[r].step = "insert"}

BoundInv ==
  \A t \in Txs :
    RowCount(t) + Cardinality(Inserting(t))
      <= Cardinality(Requests) + (IF t \in snapshots THEN 1 ELSE 0)
===============================================================================
