---------------------------- MODULE EventPublication ----------------------------
(***************************************************************************)
(* How a draft becomes a published event.  Three parties write its row in  *)
(* events: requests that create, edit and delete drafts (saveEventsDraft,  *)
(* updateEventDraft, verifyEventInformation, deleteDraftEvent), clients    *)
(* that ask whether the transaction that creates the event on chain has    *)
(* gone through (checkEventCreationStatus), and the polling job of         *)
(* CreateEvent (handleCreateEvent), which only finds the row once such a   *)
(* request has written the transaction's hash into it.                     *)
(*                                                                         *)
(* Requests and handler are broken at their awaits.  The job takes its     *)
(* logs in chain order, at least once, and may be set back (IngestJob).    *)
(* The id and the ticket contract that a transaction gives its event are   *)
(* named by the transaction.                                               *)
(***************************************************************************)
EXTENDS Integers, Sequences, SequencesExt

CONSTANTS
  Events,     \* ids of rows of events
  Txs,        \* transactions that create an event on chain
  NoTx,       \* a column that is NULL
  NoEvent,    \* no row in hand
  Requests,   \* requests of organizers that run concurrently
  Retries,    \* how often handleCreateEvent looks for the row (5 in the code)
  MaxFaults   \* bound: handlers that throw, restarts and logs passed over

ASSUME PublicationAssumption ==
  /\ NoTx \notin Txs
  /\ NoEvent \notin Events
  /\ Retries \in Nat \ {0}
  /\ MaxFaults \in Nat

\* EventStatus; nothing in the code writes 'cancelled'.  A row that is not
\* there has not been created yet or has been deleted.
Statuses == {"draft", "pending", "published"}
Absent == {"unused", "gone"}
Row == [status : Statuses \cup Absent, transactionHash : Txs \cup {NoTx},
        onChainId : Txs \cup {NoTx}, ticketAddress : Txs \cup {NoTx}]
Blank(status) ==
  [status |-> status, transactionHash |-> NoTx, onChainId |-> NoTx,
   ticketAddress |-> NoTx]

Ops == {"none", "poll", "edit", "publish", "delete"}
Stops == {"idle", "lookup", "pend", "publish",
          "check", "refind", "delete", "recreate", "offer"}
Request == [op : Ops, at : Stops, event : Events \cup {NoEvent},
            tx : Txs \cup {NoTx}, read : Statuses \cup Absent]
Idle == [op |-> "none", at |-> "idle", event |-> NoEvent, tx |-> NoTx,
         read |-> "unused"]

Phases == {"idle", "find", "save"}
Causes == {"stale poll", "stale edit", "no row", "gave up", "lost"}

VARIABLES
  row,        \* events
  offered,    \* events whose metadata a client has been given to create from
  about,      \* per transaction sent: the event its metadata names
  chain,      \* the CreateEvent logs in chain order, by transaction
  snapshots,  \* blockchain_snapshots: recorded transactions
  request,    \* per request: the endpoint, where in it, and what it has read
  upTo,       \* the job has passed this many logs
  phase,      \* where in the handler of the next log the job is
  tries,      \* how often the handler has looked for the row in vain
  entity,     \* the row that the handler has found
  told,       \* history: events of which a client was told 'published'
  blame,      \* history: which known causes of disagreement have struck
  faults      \* bound: faults so far

chainVars == <<offered, about, chain>>
job == <<upTo, phase, tries, entity>>
vars == <<row, offered, about, chain, snapshots, request, upTo, phase, tries,
          entity, told, blame, faults>>

TypeOK ==
  /\ row \in [Events -> Row]
  /\ offered \subseteq Events
  /\ about \in [Txs -> Events \cup {NoEvent}]
  /\ chain \in Seq(Txs)
  /\ snapshots \subseteq Txs
  /\ request \in [Requests -> Request]
  /\ upTo \in 0 .. Len(chain)
  /\ phase \in Phases
  /\ tries \in 0 .. Retries - 1
  /\ entity \in Row
  /\ told \subseteq Events
  /\ blame \subseteq Causes
  /\ faults \in 0 .. MaxFaults

Init ==
  /\ row = [e \in Events |-> Blank("unused")]
  /\ offered = {}
  /\ about = [tx \in Txs |-> NoEvent]
  /\ chain = <<>>
  /\ snapshots = {}
  /\ request = [r \in Requests |-> Idle]
  /\ upTo = 0
  /\ phase = "idle"
  /\ tries = 0
  /\ entity = Blank("unused")
  /\ told = {}
  /\ blame = {}
  /\ faults = 0

Present(e) == row[e].status \in Statuses

-------------------------------------------------------------------------------
(* The client sends the transaction with its wallet; one that fails leaves no *)
(* log. An organizer who tries again sends another one about the same event.  *)

Send == \E tx \in Txs, e \in offered :
  /\ about[tx] = NoEvent
  /\ about' = [about EXCEPT ![tx] = e]
  /\ UNCHANGED <<row, offered, chain, snapshots, request, job, told, blame,
                 faults>>

Mine == \E tx \in Txs :
  /\ about[tx] # NoEvent
  /\ tx \notin ToSet(chain)
  /\ chain' = Append(chain, tx)
  /\ UNCHANGED <<row, offered, about, snapshots, request, job, told, blame,
                 faults>>

-------------------------------------------------------------------------------
(* Drafts. The files, tiers, artist classes and artists that a request uploads,*)
(* deletes and creates on the way are awaits between its steps.               *)

Enter(r, op, at, e, tx) ==
  /\ request[r].op = "none"
  /\ request' = [request EXCEPT ![r] =
       [op |-> op, at |-> at, event |-> e, tx |-> tx,
        read |-> row[e].status]]
Move(r, at) == request' = [request EXCEPT ![r].at = at]
Leave(r) == request' = [request EXCEPT ![r] = Idle]
OnlyRequest ==
  UNCHANGED <<row, chainVars, snapshots, job, told, blame, faults>>

CreateDraft == \E e \in Events :
  /\ row[e].status = "unused"
  /\ row' = [row EXCEPT ![e] = Blank("draft")]
  /\ UNCHANGED <<chainVars, snapshots, request, job, told, blame, faults>>

\* verifyEventInformation without an id creates the draft that it offers.
PublishNew(r) == \E e \in Events :
  /\ row[e].status = "unused"
  /\ row' = [row EXCEPT ![e] = Blank("draft")]
  /\ Enter(r, "publish", "offer", e, NoTx)
  /\ UNCHANGED <<chainVars, snapshots, job, told, blame, faults>>

BeginEdit(r) == \E e \in Events, op \in {"edit", "publish"} :
  /\ Present(e)
  /\ Enter(r, op, "check", e, NoTx)
  /\ OnlyRequest

BeginDelete(r) == \E e \in Events :
  /\ Enter(r, "delete", "check", e, NoTx)
  /\ OnlyRequest

\* deleteDraftEvent looks for a row that is a draft, and throws without one.
CheckDraft(r) ==
  /\ request[r].at = "check"
  /\ IF row[request[r].event].status = "draft" THEN Move(r, "refind")
     ELSE Leave(r)
  /\ OnlyRequest

\* deleteEvent looks for the row once more, whatever its status is now.
RefindEvent(r) ==
  /\ request[r].at = "refind"
  /\ IF Present(request[r].event) THEN Move(r, "delete") ELSE Leave(r)
  /\ OnlyRequest

\* The row has left the status draft since the request checked it.
NoDraftNow(e) ==
  IF Present(e) /\ row[e].status # "draft" THEN {"stale edit"} ELSE {}

DeleteRow(r) == LET e == request[r].event IN
  /\ request[r].at = "delete"
  /\ row' = IF Present(e) THEN [row EXCEPT ![e] = Blank("gone")] ELSE row
  /\ blame' = blame \cup NoDraftNow(e)
  /\ IF request[r].op = "delete" THEN Leave(r) ELSE Move(r, "recreate")
  /\ UNCHANGED <<chainVars, snapshots, job, told, faults>>

\* save with an id inserts the row, or writes the columns it was given over
\* the row that another request has put there.
Recreate(r) == LET e == request[r].event IN
  /\ request[r].at = "recreate"
  /\ row' = IF Present(e) THEN [row EXCEPT ![e].status = "draft"]
            ELSE [row EXCEPT ![e] = Blank("draft")]
  /\ blame' = blame \cup NoDraftNow(e)
  /\ IF request[r].op = "publish" THEN Move(r, "offer") ELSE Leave(r)
  /\ UNCHANGED <<chainVars, snapshots, job, told, faults>>

Offer(r) ==
  /\ request[r].at = "offer"
  /\ offered' = offered \cup {request[r].event}
  /\ Leave(r)
  /\ UNCHANGED <<row, about, chain, snapshots, job, told, blame, faults>>

-------------------------------------------------------------------------------
(* checkEventCreationStatus. *)

\* A row that is published, or pending, is answered at once.  A row that is
\* not there is taken for a draft.
BeginPoll(r) == \E tx \in Txs :
  /\ about[tx] # NoEvent
  /\ row[about[tx]].status \notin {"pending", "published"}
  /\ Enter(r, "poll", "lookup", about[tx], tx)
  /\ OnlyRequest

LookUp(r) ==
  /\ request[r].at = "lookup"
  /\ Move(r, IF request[r].tx \in snapshots THEN "publish" ELSE "pend")
  /\ OnlyRequest

\* What the request read no longer holds when it writes, or never was a row.
Outdated(r) == LET e == request[r].event IN
  (IF row[e].status # request[r].read THEN {"stale poll"} ELSE {})
    \cup (IF ~Present(e) THEN {"no row"} ELSE {})

\* update: writes nothing when there is no row.
AnswerPending(r) == LET e == request[r].event IN
  /\ request[r].at = "pend"
  /\ row' = IF Present(e)
            THEN [row EXCEPT ![e].status = "pending",
                             ![e].transactionHash = request[r].tx]
            ELSE row
  /\ blame' = blame \cup Outdated(r)
       \cup (IF request[r].tx \in snapshots THEN {"stale poll"} ELSE {})
  /\ Leave(r)
  /\ UNCHANGED <<chainVars, snapshots, job, told, faults>>

\* Slip to catch: the hash is left as it was.
AnswerPublishedWithoutHash(r) == LET e == request[r].event IN
  /\ request[r].at = "publish"
  /\ row' = IF Present(e)
            THEN [row EXCEPT ![e].status = "published",
                             ![e].onChainId = request[r].tx]
            ELSE row
  /\ told' = told \cup {e}
  /\ blame' = blame \cup Outdated(r)
  /\ Leave(r)
  /\ UNCHANGED <<chainVars, snapshots, job, faults>>
AnswerPublished(r) == LET e == request[r].event IN
  /\ request[r].at = "publish"
  /\ row' = IF Present(e)
            THEN [row EXCEPT ![e].status = "published",
                             ![e].transactionHash = request[r].tx,
                             ![e].onChainId = request[r].tx]
            ELSE row
  /\ told' = told \cup {e}
  /\ blame' = blame \cup Outdated(r)
  /\ Leave(r)
  /\ UNCHANGED <<chainVars, snapshots, job, faults>>

\* An await of a request rejects, or the process stops.
Reject(r) ==
  /\ request[r].op # "none"
  /\ Leave(r)
  /\ OnlyRequest

-------------------------------------------------------------------------------
(* handleCreateEvent. *)

InHand == chain[upTo + 1]
HasNext == upTo < Len(chain)
StartFinding == phase' = "find" /\ UNCHANGED <<upTo, tries, entity>>
Rest == phase' = "idle" /\ tries' = 0 /\ entity' = Blank("unused")
Pass == upTo' = upTo + 1 /\ Rest

RecordLog ==
  /\ phase = "idle" /\ HasNext /\ InHand \notin snapshots
  /\ snapshots' = snapshots \cup {InHand}
  /\ StartFinding
  /\ UNCHANGED <<row, chainVars, request, told, blame, faults>>

\* Slip to catch: a recorded log is passed over, as the other handlers do.
SkipRecorded ==
  /\ phase = "idle" /\ HasNext /\ InHand \in snapshots
  /\ Pass
  /\ UNCHANGED <<row, chainVars, snapshots, request, told, blame, faults>>
RetakeRecorded ==
  /\ phase = "idle" /\ HasNext /\ InHand \in snapshots
  /\ StartFinding
  /\ UNCHANGED <<row, chainVars, snapshots, request, told, blame, faults>>

Matches(e) == Present(e) /\ row[e].transactionHash = InHand

FindEvent == \E e \in Events :
  /\ phase = "find" /\ Matches(e)
  /\ phase' = "save"
  /\ entity' = row[e]
  /\ UNCHANGED <<upTo, tries>>
  /\ UNCHANGED <<row, chainVars, snapshots, request, told, blame, faults>>

WaitForEvent ==
  /\ phase = "find" /\ tries < Retries - 1
  /\ \A e \in Events : ~Matches(e)
  /\ tries' = tries + 1
  /\ UNCHANGED <<upTo, phase, entity>>
  /\ UNCHANGED <<row, chainVars, snapshots, request, told, blame, faults>>

\* Slip to catch: the handler throws instead of going on to the next log.
GiveUpThrowing ==
  /\ phase = "find" /\ tries = Retries - 1
  /\ \A e \in Events : ~Matches(e)
  /\ Rest /\ UNCHANGED upTo
  /\ blame' = blame \cup {"gave up"}
  /\ UNCHANGED <<row, chainVars, snapshots, request, told, faults>>
GiveUp ==
  /\ phase = "find" /\ tries = Retries - 1
  /\ \A e \in Events : ~Matches(e)
  /\ Pass
  /\ blame' = blame \cup {"gave up"}
  /\ UNCHANGED <<row, chainVars, snapshots, request, told, faults>>

\* save: the row ends as the handler's copy of it, and is inserted again if it
\* has been deleted.
\* Slip to catch: the address is not copied.
SaveEventWithoutAddress ==
  /\ phase = "save"
  /\ row' = [row EXCEPT ![about[InHand]] =
       [entity EXCEPT !.status = "published", !.onChainId = InHand]]
  /\ Pass
  /\ UNCHANGED <<chainVars, snapshots, request, told, blame, faults>>
SaveEvent ==
  /\ phase = "save"
  /\ row' = [row EXCEPT ![about[InHand]] =
       [entity EXCEPT !.status = "published", !.onChainId = InHand,
                      !.ticketAddress = InHand]]
  /\ Pass
  /\ UNCHANGED <<chainVars, snapshots, request, told, blame, faults>>

\* The handler throws or the process stops; the range that the log is in is
\* delivered again.
Abort ==
  /\ phase # "idle" /\ faults < MaxFaults
  /\ Rest
  /\ upTo' \in 0 .. upTo
  /\ faults' = faults + 1
  /\ UNCHANGED <<row, chainVars, snapshots, request, told, blame>>

\* The cursor is lost: the job starts at the newest snapshot, which may be
\* further back ...
Rewind ==
  /\ phase = "idle" /\ faults < MaxFaults
  /\ upTo' \in 0 .. upTo - 1
  /\ faults' = faults + 1
  /\ UNCHANGED <<phase, tries, entity>>
  /\ UNCHANGED <<row, chainVars, snapshots, request, told, blame>>

\* ... or, when there is none, at the head of the chain.
ColdStart ==
  /\ phase = "idle" /\ HasNext /\ snapshots = {} /\ faults < MaxFaults
  /\ upTo' \in upTo + 1 .. Len(chain)
  /\ Rest
  /\ faults' = faults + 1
  /\ blame' = blame \cup {"lost"}
  /\ UNCHANGED <<row, chainVars, snapshots, request, told>>

-------------------------------------------------------------------------------
Serve(r) ==
  \/ PublishNew(r) \/ BeginEdit(r) \/ BeginDelete(r)
  \/ CheckDraft(r) \/ RefindEvent(r) \/ DeleteRow(r) \/ Recreate(r) \/ Offer(r)
  \/ BeginPoll(r) \/ LookUp(r) \/ AnswerPending(r) \/ AnswerPublished(r)
  \/ Reject(r)

Handle ==
  \/ RecordLog \/ RetakeRecorded
  \/ FindEvent \/ WaitForEvent \/ GiveUp \/ SaveEvent

Next ==
  \/ Send \/ Mine \/ CreateDraft
  \/ \E r \in Requests : Serve(r)
  \/ Handle
  \/ Abort \/ Rewind \/ ColdStart

Spec == Init /\ [][Next]_vars

\* The polling job runs every ten seconds and its awaits return.
FairSpec == Spec /\ WF_vars(Handle)

-------------------------------------------------------------------------------
\* Whatever polls, edits and handlers interleave, a published row carries the
\* hash of a recorded transaction about this very event, and that
\* transaction's id (checkEventCreationStatus, handleCreateEvent).
PublishedIsReal == \A e \in Events :
  row[e].status = "published" =>
    /\ row[e].transactionHash \in snapshots
    /\ about[row[e].transactionHash] = e
    /\ row[e].onChainId = row[e].transactionHash

\* The job is going to deliver the log of a transaction, or has it in hand.
Awaits(tx) == \E i \in upTo + 1 .. Len(chain) : chain[i] = tx

\* A row does not stay pending once its transaction is recorded, although
\* polls no longer look at the snapshots when it is: the handler still has the
\* log before it, or a poll wrote 'pending' on what it had read earlier.
PendingSettles == \A e \in Events :
  row[e].status = "pending" /\ row[e].transactionHash \in snapshots =>
    Awaits(row[e].transactionHash) \/ "stale poll" \in blame

\* A published row has the ticket contract of the event it stands for, which
\* handleCreateEvent saves and the details of a ticket show its owner
\* (getNftTicketDetails): only a handler that stopped looking before the first
\* poll, or a write on an outdated read, leaves it out.
AddressKnown == \A e \in Events :
  row[e].status = "published" =>
    \/ row[e].ticketAddress = row[e].onChainId
    \/ Awaits(row[e].transactionHash)
    \/ blame \cap {"gave up", "stale poll", "stale edit"} # {}

\* A client that has been told its event is published does not find it pending,
\* a draft or gone later, unless a request wrote on an outdated read.
ToldStays == \A e \in told :
  \/ row[e].status = "published"
  \/ blame \cap {"stale poll", "stale edit", "no row"} # {}

\* A row that waits for a transaction whose log is there is published in the
\* end, however often the job is interrupted, unless a known cause struck.
EventuallyPublished == \A e \in Events :
  (row[e].status = "pending" /\ row[e].transactionHash \in ToSet(chain))
    ~> \/ row[e].status = "published"
       \/ blame \cap {"stale poll", "stale edit", "lost"} # {}

-------------------------------------------------------------------------------
(* The inductive invariant: TypeOK with the conjuncts of PublicationInv. *)

\* A hash names the event whose row it is written into.
SentInv ==
  /\ \A i \in 1 .. Len(chain) : about[chain[i]] # NoEvent
  /\ \A tx \in snapshots : about[tx] # NoEvent
  /\ \A e \in Events : row[e].transactionHash \in Txs =>
       about[row[e].transactionHash] = e

\* What a request has in hand between two awaits stays what it was about.
RequestInv == \A r \in Requests :
  /\ request[r].at # "idle" => request[r].event \in Events
  /\ request[r].at \in {"lookup", "pend", "publish"} =>
       /\ request[r].tx \in Txs
       /\ about[request[r].tx] = request[r].event
       /\ request[r].read \notin {"pending", "published"}
  /\ request[r].at = "publish" => request[r].tx \in snapshots

\* The handler looks for the row of a recorded log, and has found it.
HandInv ==
  /\ phase # "idle" => HasNext /\ InHand \in snapshots
  /\ phase = "save" => entity.transactionHash = InHand

\* The handler has left a recorded log behind it: it has published the row, or
\* it has given up, and only an outdated write can have changed that since.
RecordedInv == \A tx \in snapshots :
  \/ Awaits(tx)
  \/ /\ row[about[tx]].status = "published"
     /\ row[about[tx]].ticketAddress = row[about[tx]].onChainId
  \/ blame \cap {"gave up", "stale poll", "stale edit"} # {}

PublicationInv ==
  /\ SentInv /\ RequestInv /\ HandInv /\ RecordedInv
  /\ PublishedIsReal /\ PendingSettles /\ AddressKnown /\ ToldStays
===============================================================================
