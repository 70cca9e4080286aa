------------------------- MODULE EventPublicationProofs -------------------------
(***************************************************************************)
(* Proofs about the publication of events, for any number of events,       *)
(* transactions, concurrent requests and retries: what a published row     *)
(* says is real, a pending row is settled, its ticket contract becomes     *)
(* known and a client that was told 'published' can rely on it, unless one *)
(* of the named races has struck.  The inductive invariant is TypeOK with  *)
(* PublicationInv: requests and handler write awaits after they read, so   *)
(* it says what still holds of what they have in hand (RequestInv,         *)
(* HandInv) and what the handler leaves behind it (RecordedInv).           *)
(***************************************************************************)
EXTENDS EventSearch, TLAPS

\* The inductive invariant.
Inv == TypeOK /\ PublicationInv

-------------------------------------------------------------------------------
(* Logs before the job. *)

\* A job that is set back, and a chain that grows, leave every log before the
\* job that was before it.
LEMMA AwaitsKept ==
  ASSUME TypeOK, upTo' \in 0 .. upTo,
         chain' = chain \/ \E tx \in Txs : chain' = Append(chain, tx)
  PROVE  \A tx \in Txs : Awaits(tx) => Awaits(tx)'
<1>1. /\ Len(chain) \in Nat /\ Len(chain') \in Nat
      /\ Len(chain) <= Len(chain')
      /\ \A i \in 1 .. Len(chain) : chain'[i] = chain[i]
  BY DEF TypeOK
<1>2. SUFFICES ASSUME NEW tx \in Txs, Awaits(tx) PROVE Awaits(tx)'
  OBVIOUS
<1>3. PICK i \in upTo + 1 .. Len(chain) : chain[i] = tx
  BY <1>2 DEF Awaits
<1>4. upTo \in Nat /\ upTo' \in Nat /\ upTo' <= upTo
  BY <1>1 DEF TypeOK
<1>5. i \in Nat /\ upTo + 1 <= i /\ i <= Len(chain)
  BY <1>1, <1>3, <1>4
<1>6. i \in upTo' + 1 .. Len(chain')
  <2> DEFINE now == upTo' size == Len(chain')
  <2>1. now \in Int /\ size \in Int /\ now <= upTo /\ i <= size
    BY <1>1, <1>4, <1>5
  <2> HIDE DEF now, size
  <2>2. i \in now + 1 .. size
    BY <1>4, <1>5, <2>1
  <2> QED
    BY <2>2 DEF now, size
<1>7. chain'[i] = tx
  BY <1>1, <1>3, <1>4, <1>5
<1> QED
  BY <1>6, <1>7 DEF Awaits

\* The job leaves the log behind it that it had in hand, and no other.
LEMMA AwaitsPassed ==
  ASSUME TypeOK, HasNext, upTo' = upTo + 1, chain' = chain
  PROVE  \A tx \in Txs : tx # InHand /\ Awaits(tx) => Awaits(tx)'
  BY DEF Awaits, TypeOK, HasNext, InHand

\* The log in hand is a transaction's about an event, and is before the job.
LEMMA InHandTyped ==
  ASSUME Inv, HasNext
  PROVE  /\ InHand \in Txs
         /\ about[InHand] \in Events
         /\ Awaits(InHand)
         /\ upTo + 1 \in 1 .. Len(chain)
<1>1. upTo + 1 \in 1 .. Len(chain)
  BY DEF Inv, TypeOK, HasNext
<1>2. about[chain[upTo + 1]] # NoEvent
  BY <1>1 DEF Inv, PublicationInv, SentInv
<1>3. chain[upTo + 1] \in Txs
  BY <1>1 DEF Inv, TypeOK
<1> QED
  BY <1>1, <1>2, <1>3 DEF Inv, TypeOK, InHand, Awaits

-------------------------------------------------------------------------------
(* The chain. *)

\* A transaction is sent about one event and none other.
LEMMA SendKeeps ==
  ASSUME Inv, Send PROVE Inv'
<1> USE DEF Inv, PublicationInv, job, Send
<1>1. PICK tx \in Txs, e \in Events :
        about[tx] = NoEvent /\ about' = [about EXCEPT ![tx] = e]
  BY DEF TypeOK
<1>2. /\ about' \in [Txs -> Events \cup {NoEvent}]
      /\ about'[tx] = e
      /\ \A u \in Txs : u # tx => about'[u] = about[u]
  BY <1>1 DEF TypeOK
<1>3. TypeOK'
  BY <1>2 DEF TypeOK, Row, Request
<1>4. SentInv'
  BY <1>1, <1>2, PublicationAssumption DEF SentInv, TypeOK
<1>5. RequestInv'
  BY <1>1, <1>2, PublicationAssumption DEF RequestInv
<1>6. HandInv' /\ PendingSettles' /\ AddressKnown' /\ ToldStays'
  BY DEF HandInv, HasNext, InHand, PendingSettles, AddressKnown, ToldStays,
         Awaits
<1>7. \A u \in snapshots : u # tx /\ u \in Txs
  BY <1>1 DEF SentInv, TypeOK
<1>8. PublishedIsReal'
  BY <1>2, <1>7 DEF PublishedIsReal
<1>9. \A u \in Txs : Awaits(u)' <=> Awaits(u)
  BY DEF Awaits
<1>10. RecordedInv'
  BY <1>2, <1>7, <1>9 DEF RecordedInv
<1> QED
  BY <1>3, <1>4, <1>5, <1>6, <1>8, <1>10

\* A log that is mined is before the job.
LEMMA MineKeeps ==
  ASSUME Inv, Mine PROVE Inv'
<1> USE DEF Inv, PublicationInv, job, Mine
<1>1. PICK tx \in Txs : about[tx] # NoEvent /\ chain' = Append(chain, tx)
  OBVIOUS
<1>2. /\ chain' \in Seq(Txs)
      /\ Len(chain') = Len(chain) + 1
      /\ \A i \in 1 .. Len(chain) : chain'[i] = chain[i]
      /\ chain'[Len(chain) + 1] = tx
  BY <1>1 DEF TypeOK
<1>3. TypeOK'
  BY <1>2 DEF TypeOK
<1>4. SentInv' /\ HandInv'
  BY <1>1, <1>2 DEF SentInv, HandInv, HasNext, InHand, TypeOK
<1>5. RequestInv' /\ PublishedIsReal' /\ ToldStays'
  BY DEF RequestInv, PublishedIsReal, ToldStays
<1>6. \A u \in Txs : Awaits(u) => Awaits(u)'
  BY <1>1, AwaitsKept DEF TypeOK
<1>7. RecordedInv' /\ PendingSettles' /\ AddressKnown'
  BY <1>6 DEF RecordedInv, PendingSettles, AddressKnown, PublishedIsReal,
              TypeOK
<1> QED
  BY <1>3, <1>4, <1>5, <1>7

-------------------------------------------------------------------------------
(* The requests. *)

\* What the invariant says besides the requests' own state.
Kept == SentInv /\ HandInv /\ RecordedInv /\ PublishedIsReal /\ PendingSettles
          /\ AddressKnown /\ ToldStays

\* Steps that write nothing besides, except that they may add a cause, such as
\* that a client was told of an event without a row.
LEMMA MoreBlameKeeps ==
  ASSUME Inv, blame \subseteq blame',
         told' = told \/ "no row" \in blame',
         UNCHANGED <<row, about, chain, snapshots, job>>
  PROVE  Kept'
<1> USE DEF Inv, PublicationInv, job
<1>1. SentInv' /\ HandInv'
  BY DEF SentInv, HandInv, HasNext, InHand
<1>2. RecordedInv'
  BY DEF RecordedInv, Awaits
<1>3. PublishedIsReal' /\ ToldStays'
  BY DEF PublishedIsReal, ToldStays
<1>4. PendingSettles' /\ AddressKnown'
  BY DEF PendingSettles, AddressKnown, Awaits
<1> QED
  BY <1>1, <1>2, <1>3, <1>4 DEF Kept

\* A request that leaves, or goes on to a stop that is not a poll's, needs
\* nothing but its event.
LEMMA MovesKeep ==
  ASSUME Inv, snapshots \subseteq snapshots', about' = about,
         NEW r \in Requests,
         \/ Leave(r)
         \/ request[r].at # "idle"
              /\ \E at \in {"refind", "delete", "recreate", "offer"} : Move(r, at)
         \/ request' = request
  PROVE  RequestInv' /\ request' \in [Requests -> Request]
<1> USE DEF Inv, PublicationInv
<1>1. request \in [Requests -> Request]
  BY DEF TypeOK
<1>2. CASE Leave(r)
  <2>1. Idle \in Request
    BY DEF Idle, Request, Ops, Stops, Absent
  <2> QED
    BY <1>1, <1>2, <2>1 DEF Leave, RequestInv, Idle
<1>3. CASE request[r].at # "idle"
             /\ \E at \in {"refind", "delete", "recreate", "offer"} : Move(r, at)
  <2>1. PICK at \in {"refind", "delete", "recreate", "offer"} : Move(r, at)
    BY <1>3
  <2>2. [request[r] EXCEPT !.at = at] \in Request
    BY <1>1 DEF Request, Stops
  <2>3. request' = [request EXCEPT ![r] = [request[r] EXCEPT !.at = at]]
    BY <1>1, <2>1 DEF Move
  <2>4. [request[r] EXCEPT !.at = at].event = request[r].event
    BY <1>1 DEF Request
  <2>5. [request[r] EXCEPT !.at = at].at = at
    BY <1>1 DEF Request
  <2> QED
    BY <1>1, <1>3, <2>2, <2>3, <2>4, <2>5 DEF RequestInv
<1>4. CASE request' = request
  BY <1>1, <1>4 DEF RequestInv
<1> QED
  BY <1>2, <1>3, <1>4

\* The rest of TypeOK when a request moves.
LEMMA OnlyRequestTypes ==
  ASSUME TypeOK, OnlyRequest, request' \in [Requests -> Request]
  PROVE  TypeOK'
  BY DEF TypeOK, OnlyRequest, chainVars, job

\* A request that enters an endpoint has the event in hand, and a poll has read
\* that its row is neither pending nor published.
LEMMA EnterKeeps ==
  ASSUME Inv, NEW r \in Requests, UNCHANGED <<snapshots, about>>,
         NEW e \in Events, NEW op \in Ops \ {"none"}, NEW at \in Stops,
         NEW tx \in Txs \cup {NoTx},
         at \in {"check", "offer"} \/
           /\ at = "lookup" /\ tx \in Txs /\ about[tx] = e
           /\ row[e].status \notin {"pending", "published"},
         Enter(r, op, at, e, tx)
  PROVE  RequestInv' /\ request' \in [Requests -> Request]
<1> USE DEF Inv, PublicationInv
<1> DEFINE new == [op |-> op, at |-> at, event |-> e, tx |-> tx,
                   read |-> row[e].status]
<1>1. new \in Request
  BY DEF Request, TypeOK, Row
<1>2. request' = [request EXCEPT ![r] = new]
  BY DEF Enter
<1>3. new.at = at /\ new.event = e /\ new.tx = tx /\ new.read = row[e].status
  OBVIOUS
<1> HIDE DEF new
<1> QED
  BY <1>1, <1>2, <1>3 DEF RequestInv, TypeOK

\* The steps of a request that write nothing but its own state.
LEMMA ReadsKeep ==
  ASSUME Inv, NEW r \in Requests,
         BeginEdit(r) \/ BeginDelete(r) \/ CheckDraft(r) \/ RefindEvent(r)
           \/ BeginPoll(r) \/ LookUp(r) \/ Reject(r)
  PROVE  Inv'
<1>1. OnlyRequest
  BY DEF BeginEdit, BeginDelete, CheckDraft, RefindEvent, BeginPoll, LookUp,
         Reject
<1>2. Kept'
  BY <1>1, MoreBlameKeeps DEF OnlyRequest, chainVars
<1>3. UNCHANGED <<snapshots, about>>
  BY <1>1 DEF OnlyRequest, chainVars
<1>4. RequestInv' /\ request' \in [Requests -> Request]
  <2>1. CASE BeginEdit(r)
    BY <1>3, <2>1, EnterKeeps DEF BeginEdit, Ops, Stops
  <2>2. CASE BeginDelete(r)
    BY <1>3, <2>2, EnterKeeps DEF BeginDelete, Ops, Stops
  <2>3. CASE CheckDraft(r) \/ RefindEvent(r)
    BY <1>3, <2>3, MovesKeep DEF CheckDraft, RefindEvent
  <2>4. CASE BeginPoll(r)
    <3>1. PICK tx \in Txs :
            /\ about[tx] # NoEvent
            /\ row[about[tx]].status \notin {"pending", "published"}
            /\ Enter(r, "poll", "lookup", about[tx], tx)
      BY <2>4 DEF BeginPoll
    <3>2. about[tx] \in Events
      BY <3>1 DEF Inv, TypeOK
    <3> QED
      BY <1>3, <3>1, <3>2, EnterKeeps DEF Ops, Stops
  <2>5. CASE LookUp(r)
    <3>1. PICK at \in {"publish", "pend"} :
            Move(r, at) /\ (at = "publish" => request[r].tx \in snapshots)
      BY <2>5 DEF LookUp
    <3>2. request[r] \in Request /\ request \in [Requests -> Request]
      BY DEF Inv, TypeOK
    <3> DEFINE new == [request[r] EXCEPT !.at = at]
    <3>3. /\ new \in Request /\ new.at = at /\ new.event = request[r].event
          /\ new.tx = request[r].tx /\ new.read = request[r].read
      BY <3>2 DEF Request, Stops
    <3>4. request' = [request EXCEPT ![r] = new]
      BY <3>1, <3>2 DEF Move
    <3> HIDE DEF new
    <3> QED
      BY <1>3, <2>5, <3>1, <3>2, <3>3, <3>4
         DEF Inv, PublicationInv, RequestInv, LookUp
  <2>6. CASE Reject(r)
    BY <1>3, <2>6, MovesKeep DEF Reject
  <2> QED
    BY <2>1, <2>2, <2>3, <2>4, <2>5, <2>6
<1>5. TypeOK'
  BY <1>1, <1>4, OnlyRequestTypes DEF Inv
<1> QED
  BY <1>2, <1>4, <1>5 DEF Inv, PublicationInv, Kept

-------------------------------------------------------------------------------
(* The drafts. *)

\* Writing a draft, or no row, over a row that was neither pending nor published
\* disturbs nothing; over one that was, it is a stale edit.
LEMMA UnpublishKeeps ==
  ASSUME Inv, NEW e \in Events, NEW new \in Row,
         new.status \in {"draft", "gone"},
         new.transactionHash \in {NoTx, row[e].transactionHash},
         row' = [row EXCEPT ![e] = new],
         blame \subseteq blame',
         row[e].status \in {"pending", "published"} => "stale edit" \in blame',
         UNCHANGED <<about, chain, snapshots, job, told>>
  PROVE  Kept' /\ row' \in [Events -> Row]
<1> USE DEF Inv, PublicationInv, job
<1>1. /\ row' \in [Events -> Row]
      /\ row'[e] = new
      /\ \A d \in Events : d # e => row'[d] = row[d]
  BY DEF TypeOK
<1>2. \A tx \in Txs : Awaits(tx)' <=> Awaits(tx)
  BY DEF Awaits
<1>3. SentInv' /\ HandInv'
  BY <1>1, PublicationAssumption DEF SentInv, HandInv, HasNext, InHand
<1>4. RecordedInv'
  <2>1. SUFFICES ASSUME NEW tx \in snapshots,
                        ~(blame' \cap {"gave up", "stale poll", "stale edit"} # {}),
                        ~Awaits(tx)'
                 PROVE  /\ row'[about[tx]].status = "published"
                        /\ row'[about[tx]].ticketAddress
                             = row'[about[tx]].onChainId
    BY DEF RecordedInv
  <2>2. tx \in Txs /\ about[tx] \in Events
    BY DEF SentInv, TypeOK
  <2>3. /\ row[about[tx]].status = "published"
        /\ row[about[tx]].ticketAddress = row[about[tx]].onChainId
    BY <1>2, <2>1, <2>2 DEF RecordedInv
  <2> QED
    BY <1>1, <2>1, <2>2, <2>3
<1>5. PublishedIsReal'
  BY <1>1 DEF PublishedIsReal
<1>6. ToldStays'
  BY <1>1 DEF ToldStays, TypeOK
<1>7. PendingSettles'
  BY <1>1, <1>2 DEF PendingSettles, TypeOK
<1>8. AddressKnown'
  <2>1. \A d \in Events : row[d].status = "published" =>
          row[d].transactionHash \in Txs
    BY DEF PublishedIsReal, TypeOK
  <2> QED
    BY <1>1, <1>2, <2>1 DEF AddressKnown
<1> QED
  BY <1>1, <1>3, <1>4, <1>5, <1>6, <1>7, <1>8 DEF Kept

\* What Blank builds, and a row that becomes a draft, are rows.
LEMMA BlankRows ==
  /\ \A s \in Statuses \cup Absent :
       /\ Blank(s) \in Row
       /\ Blank(s).status = s
       /\ Blank(s).transactionHash = NoTx
  /\ \A d \in Row : /\ [d EXCEPT !.status = "draft"] \in Row
                    /\ [d EXCEPT !.status = "draft"].status = "draft"
                    /\ [d EXCEPT !.status = "draft"].transactionHash
                         = d.transactionHash
  BY DEF Blank, Row, Statuses

\* A new draft is nobody's row yet.
LEMMA CreateKeeps ==
  ASSUME Inv, CreateDraft \/ \E r \in Requests : PublishNew(r) PROVE Inv'
<1>1. PICK e \in Events :
        /\ row[e].status = "unused"
        /\ row' = [row EXCEPT ![e] = Blank("draft")]
        /\ \/ request' = request
           \/ \E r \in Requests : Enter(r, "publish", "offer", e, NoTx)
  BY DEF CreateDraft, PublishNew
<1>2. UNCHANGED <<chainVars, snapshots, job, told, blame, faults>>
  BY DEF CreateDraft, PublishNew
<1>3. Kept' /\ row' \in [Events -> Row]
  BY <1>1, <1>2, BlankRows, UnpublishKeeps DEF chainVars, Statuses
<1>4. RequestInv' /\ request' \in [Requests -> Request]
  <2>1. CASE request' = request
    BY <1>2, <2>1 DEF chainVars, Inv, TypeOK, PublicationInv, RequestInv
  <2>2. CASE \E r \in Requests : Enter(r, "publish", "offer", e, NoTx)
    BY <1>2, <2>2, EnterKeeps DEF chainVars, Ops, Stops
  <2> QED
    BY <1>1, <2>1, <2>2
<1>5. TypeOK'
  BY <1>2, <1>3, <1>4 DEF Inv, TypeOK, chainVars, job
<1> QED
  BY <1>3, <1>4, <1>5 DEF Inv, PublicationInv, Kept

\* The event that a request has in hand.
LEMMA RequestEvent ==
  ASSUME Inv, NEW r \in Requests, request[r].at # "idle"
  PROVE  request[r].event \in Events
  BY DEF Inv, PublicationInv, RequestInv

\* The row of a draft is deleted ...
LEMMA DeleteKeeps ==
  ASSUME Inv, NEW r \in Requests, DeleteRow(r) PROVE Inv'
<1> DEFINE e == request[r].event
<1>1. e \in Events /\ request[r].at # "idle"
  BY RequestEvent DEF DeleteRow
<1>2. UNCHANGED <<chainVars, snapshots, job, told, faults>>
  BY DEF DeleteRow
<1>3. /\ blame \subseteq blame' /\ blame' \subseteq Causes
      /\ row[e].status \in {"pending", "published"} => "stale edit" \in blame'
  BY DEF DeleteRow, NoDraftNow, Present, Statuses, Causes, Inv, TypeOK
<1>4. Kept' /\ row' \in [Events -> Row]
  <2>1. CASE Present(e)
    BY <1>1, <1>2, <1>3, <2>1, BlankRows, UnpublishKeeps
       DEF DeleteRow, chainVars, Absent
  <2>2. CASE ~Present(e)
    <3>1. row' = row
      BY <2>2 DEF DeleteRow
    <3> QED
      BY <1>2, <1>3, <3>1, MoreBlameKeeps DEF chainVars, Inv, TypeOK
  <2> QED
    BY <2>1, <2>2
<1>5. RequestInv' /\ request' \in [Requests -> Request]
  BY <1>1, <1>2, MovesKeep DEF DeleteRow, chainVars
<1>6. TypeOK'
  BY <1>2, <1>3, <1>4, <1>5 DEF Inv, TypeOK, chainVars, job
<1> QED
  BY <1>4, <1>5, <1>6 DEF Inv, PublicationInv, Kept

\* ... written again ...
LEMMA RecreateKeeps ==
  ASSUME Inv, NEW r \in Requests, Recreate(r) PROVE Inv'
<1> DEFINE e == request[r].event
<1>1. e \in Events /\ request[r].at # "idle"
  BY RequestEvent DEF Recreate
<1>2. UNCHANGED <<chainVars, snapshots, job, told, faults>>
  BY DEF Recreate
<1>3. /\ blame \subseteq blame' /\ blame' \subseteq Causes
      /\ row[e].status \in {"pending", "published"} => "stale edit" \in blame'
  BY DEF Recreate, NoDraftNow, Present, Statuses, Causes, Inv, TypeOK
<1>4. row[e] \in Row /\ row \in [Events -> Row]
  BY <1>1 DEF Inv, TypeOK
<1>5. Kept' /\ row' \in [Events -> Row]
  <2>1. CASE Present(e)
    <3>1. row' = [row EXCEPT ![e] = [row[e] EXCEPT !.status = "draft"]]
      BY <1>1, <1>4, <2>1 DEF Recreate
    <3> QED
      BY <1>1, <1>2, <1>3, <1>4, <3>1, BlankRows, UnpublishKeeps DEF chainVars
  <2>2. CASE ~Present(e)
    BY <1>1, <1>2, <1>3, <2>2, BlankRows, UnpublishKeeps
       DEF Recreate, chainVars, Statuses
  <2> QED
    BY <2>1, <2>2
<1>6. RequestInv' /\ request' \in [Requests -> Request]
  BY <1>1, <1>2, MovesKeep DEF Recreate, chainVars
<1>7. TypeOK'
  BY <1>2, <1>3, <1>5, <1>6 DEF Inv, TypeOK, chainVars, job
<1> QED
  BY <1>5, <1>6, <1>7 DEF Inv, PublicationInv, Kept

\* ... and offered.
LEMMA OfferKeeps ==
  ASSUME Inv, NEW r \in Requests, Offer(r) PROVE Inv'
<1>1. request[r].event \in Events
  BY RequestEvent DEF Offer
<1>2. UNCHANGED <<row, about, chain, snapshots, job, told, blame, faults>>
  BY DEF Offer
<1>3. Kept'
  BY <1>2, MoreBlameKeeps
<1>4. RequestInv' /\ request' \in [Requests -> Request]
  BY <1>2, MovesKeep DEF Offer
<1>5. TypeOK'
  BY <1>1, <1>2, <1>4 DEF Inv, TypeOK, job, Offer
<1> QED
  BY <1>3, <1>4, <1>5 DEF Inv, PublicationInv, Kept

-------------------------------------------------------------------------------
(* The polls. *)

\* What a poll has in hand when it writes: the event and transaction it asked
\* about.  When the row is published by now, its write is a stale one.
LEMMA PollHand ==
  ASSUME Inv, NEW r \in Requests, request[r].at \in {"pend", "publish"},
         blame' = blame \cup Outdated(r) \/
           blame' = blame \cup Outdated(r) \cup {"stale poll"}
  PROVE  /\ request[r].event \in Events
         /\ request[r].tx \in Txs
         /\ about[request[r].tx] = request[r].event
         /\ request[r].at = "publish" => request[r].tx \in snapshots
         /\ row[request[r].event].status = "published" =>
              "stale poll" \in blame'
         /\ ~Present(request[r].event) => "no row" \in blame'
         /\ blame \subseteq blame' /\ blame' \subseteq Causes
  BY DEF Inv, TypeOK, PublicationInv, RequestInv, Outdated, Causes

\* Writing a transaction's hash into the row of the event that it is about.
LEMMA PollWritesKeep ==
  ASSUME Inv, NEW e \in Events, NEW tx \in Txs, about[tx] = e,
         NEW new \in Row, new.transactionHash = tx,
         \/ new.status = "pending" /\ (tx \in snapshots => "stale poll" \in blame')
              /\ told' = told
         \/ new.status = "published" /\ new.onChainId = tx /\ tx \in snapshots
              /\ told' = told \cup {e},
         row[e].status = "published" => "stale poll" \in blame',
         blame \subseteq blame',
         row' = [row EXCEPT ![e] = new],
         UNCHANGED <<about, chain, snapshots, job>>
  PROVE  Kept' /\ row' \in [Events -> Row]
<1> USE DEF Inv, PublicationInv, job
<1>1. /\ row' \in [Events -> Row]
      /\ row'[e] = new
      /\ \A d \in Events : d # e => row'[d] = row[d]
  BY DEF TypeOK
<1>2. \A u \in Txs : Awaits(u)' <=> Awaits(u)
  BY DEF Awaits
<1>3. SentInv' /\ HandInv'
  BY <1>1 DEF SentInv, HandInv, HasNext, InHand
<1>4. RecordedInv'
  <2>1. SUFFICES ASSUME NEW u \in snapshots,
                        ~(blame' \cap {"gave up", "stale poll", "stale edit"} # {}),
                        ~Awaits(u)'
                 PROVE  /\ row'[about[u]].status = "published"
                        /\ row'[about[u]].ticketAddress = row'[about[u]].onChainId
    BY DEF RecordedInv
  <2>2. u \in Txs /\ about[u] \in Events
    BY DEF SentInv, TypeOK
  <2>3. /\ row[about[u]].status = "published"
        /\ row[about[u]].ticketAddress = row[about[u]].onChainId
    BY <1>2, <2>1, <2>2 DEF RecordedInv
  <2> QED
    BY <1>1, <2>1, <2>2, <2>3
<1>5. PublishedIsReal'
  BY <1>1 DEF PublishedIsReal
<1>6. ToldStays'
  BY <1>1 DEF ToldStays, TypeOK
<1>7. PendingSettles'
  BY <1>1, <1>2 DEF PendingSettles, TypeOK
<1>8. AddressKnown'
  <2>1. SUFFICES ASSUME NEW d \in Events, row'[d].status = "published",
                        ~(blame' \cap {"gave up", "stale poll", "stale edit"} # {})
                 PROVE  \/ row'[d].ticketAddress = row'[d].onChainId
                        \/ Awaits(row[d].transactionHash)'
    BY DEF AddressKnown
  <2>2. CASE d = e
    BY <1>1, <1>2, <2>1, <2>2 DEF RecordedInv
  <2>3. CASE d # e
    <3>1. row[d].transactionHash \in Txs
      BY <1>1, <2>1, <2>3 DEF PublishedIsReal, TypeOK
    <3> QED
      BY <1>1, <1>2, <2>1, <2>3, <3>1 DEF AddressKnown
  <2> QED
    BY <2>2, <2>3
<1> QED
  BY <1>1, <1>3, <1>4, <1>5, <1>6, <1>7, <1>8 DEF Kept

\* checkEventCreationStatus answers 'pending' ...
LEMMA AnswerPendingKeeps ==
  ASSUME Inv, NEW r \in Requests, AnswerPending(r) PROVE Inv'
<1> DEFINE e == request[r].event
           tx == request[r].tx
<1>1. /\ e \in Events /\ tx \in Txs /\ about[tx] = e
      /\ row[e].status = "published" => "stale poll" \in blame'
      /\ blame \subseteq blame' /\ blame' \subseteq Causes
  BY PollHand DEF AnswerPending
<1>2. UNCHANGED <<chainVars, snapshots, job, told, faults>>
  BY DEF AnswerPending
<1>3. row[e] \in Row /\ row \in [Events -> Row]
  BY <1>1 DEF Inv, TypeOK
<1>4. Kept' /\ row' \in [Events -> Row]
  <2>1. CASE Present(e)
    <3> DEFINE new == [row[e] EXCEPT !.status = "pending", !.transactionHash = tx]
    <3>1. row' = [row EXCEPT ![e] = new]
      BY <1>1, <1>3, <2>1 DEF AnswerPending
    <3>2. new \in Row /\ new.status = "pending" /\ new.transactionHash = tx
      BY <1>1, <1>3 DEF Row, Statuses
    <3>3. tx \in snapshots => "stale poll" \in blame'
      BY DEF AnswerPending
    <3> HIDE DEF new
    <3> QED
      BY <1>1, <1>2, <3>1, <3>2, <3>3, PollWritesKeep DEF chainVars
  <2>2. CASE ~Present(e)
    BY <1>1, <1>2, <1>3, <2>2, MoreBlameKeeps DEF AnswerPending, chainVars
  <2> QED
    BY <2>1, <2>2
<1>5. RequestInv' /\ request' \in [Requests -> Request]
  BY <1>2, MovesKeep DEF AnswerPending, chainVars
<1>6. TypeOK'
  BY <1>1, <1>2, <1>4, <1>5 DEF Inv, TypeOK, chainVars, job
<1> QED
  BY <1>4, <1>5, <1>6 DEF Inv, PublicationInv, Kept

\* ... or 'published'.
LEMMA AnswerPublishedKeeps ==
  ASSUME Inv, NEW r \in Requests, AnswerPublished(r) PROVE Inv'
<1> DEFINE e == request[r].event
           tx == request[r].tx
<1>1. /\ e \in Events /\ tx \in Txs /\ about[tx] = e /\ tx \in snapshots
      /\ row[e].status = "published" => "stale poll" \in blame'
      /\ ~Present(e) => "no row" \in blame'
      /\ blame \subseteq blame' /\ blame' \subseteq Causes
  BY PollHand DEF AnswerPublished
<1>2. UNCHANGED <<chainVars, snapshots, job, faults>> /\ told' = told \cup {e}
  BY DEF AnswerPublished
<1>3. row[e] \in Row /\ row \in [Events -> Row]
  BY <1>1 DEF Inv, TypeOK
<1>4. Kept' /\ row' \in [Events -> Row]
  <2>1. CASE Present(e)
    <3> DEFINE new == [row[e] EXCEPT !.status = "published",
                                     !.transactionHash = tx, !.onChainId = tx]
    <3>1. row' = [row EXCEPT ![e] = new]
      BY <1>1, <1>3, <2>1 DEF AnswerPublished
    <3>2. new \in Row /\ new.status = "published" /\ new.transactionHash = tx
            /\ new.onChainId = tx
      BY <1>1, <1>3 DEF Row, Statuses
    <3> HIDE DEF new
    <3> QED
      BY <1>1, <1>2, <3>1, <3>2, PollWritesKeep DEF chainVars
  <2>2. CASE ~Present(e)
    BY <1>1, <1>2, <1>3, <2>2, MoreBlameKeeps DEF AnswerPublished, chainVars
  <2> QED
    BY <2>1, <2>2
<1>5. RequestInv' /\ request' \in [Requests -> Request]
  BY <1>2, MovesKeep DEF AnswerPublished, chainVars
<1>6. told' \subseteq Events
  BY <1>1, <1>2 DEF Inv, TypeOK
<1>7. TypeOK'
  BY <1>1, <1>2, <1>4, <1>5, <1>6 DEF Inv, TypeOK, chainVars, job
<1> QED
  BY <1>4, <1>5, <1>7 DEF Inv, PublicationInv, Kept

-------------------------------------------------------------------------------
(* The job. *)

\* A job that stays where it is or is set back, whatever it has in hand.
LEMMA JobStaysKeeps ==
  ASSUME Inv, upTo' \in 0 .. upTo, HandInv',
         UNCHANGED <<row, chainVars, snapshots, request, told, blame>>,
         phase' \in Phases, tries' \in 0 .. Retries - 1, entity' \in Row,
         faults' \in 0 .. MaxFaults
  PROVE  Inv'
<1> USE DEF Inv, PublicationInv, chainVars
<1>1. TypeOK'
  BY DEF TypeOK
<1>2. \A tx \in Txs : Awaits(tx) => Awaits(tx)'
  BY AwaitsKept
<1>3. SentInv' /\ RequestInv' /\ PublishedIsReal' /\ ToldStays'
  BY DEF SentInv, RequestInv, PublishedIsReal, ToldStays
<1>4. RecordedInv' /\ PendingSettles'
  BY <1>2 DEF RecordedInv, PendingSettles, TypeOK
<1>5. AddressKnown'
  BY <1>2 DEF AddressKnown, PublishedIsReal, TypeOK
<1> QED
  BY <1>1, <1>3, <1>4, <1>5

\* handleCreateEvent goes on with a recorded log, finds its row, or waits.
LEMMA HandlerReadsKeep ==
  ASSUME Inv, RetakeRecorded \/ FindEvent \/ WaitForEvent PROVE Inv'
<1> USE DEF Inv, PublicationInv
<1>1. /\ UNCHANGED <<row, chainVars, snapshots, request, told, blame, faults, upTo>>
      /\ phase' \in Phases
  BY DEF RetakeRecorded, StartFinding, FindEvent, WaitForEvent, Phases, TypeOK
<1>2. tries' \in 0 .. Retries - 1
  BY PublicationAssumption
     DEF RetakeRecorded, StartFinding, FindEvent, WaitForEvent, TypeOK
<1>3. entity' \in Row
  BY DEF RetakeRecorded, StartFinding, FindEvent, WaitForEvent, TypeOK
<1>4. HandInv'
  BY <1>1 DEF RetakeRecorded, StartFinding, FindEvent, WaitForEvent, Matches,
              HandInv, HasNext, InHand, chainVars
<1>5. upTo' \in 0 .. upTo
  BY <1>1 DEF TypeOK
<1> QED
  BY <1>1, <1>2, <1>3, <1>4, <1>5, JobStaysKeeps DEF TypeOK

\* A handler that is interrupted, and a cursor that is lost.
LEMMA SetBackKeeps ==
  ASSUME Inv, Abort \/ Rewind PROVE Inv'
<1> USE DEF Inv, PublicationInv
<1>1. /\ UNCHANGED <<row, chainVars, snapshots, request, told, blame>>
      /\ upTo' \in 0 .. upTo
  BY DEF Abort, Rewind, TypeOK
<1>2. /\ phase' = "idle"
      /\ tries' \in 0 .. Retries - 1
      /\ entity' \in Row
      /\ faults' \in 0 .. MaxFaults
  BY BlankRows, PublicationAssumption
     DEF Abort, Rewind, Rest, TypeOK, Absent
<1>3. HandInv'
  BY <1>2 DEF HandInv
<1> QED
  BY <1>1, <1>2, <1>3, JobStaysKeeps DEF Phases

\* A log that is recorded is still before the job.
LEMMA RecordKeeps ==
  ASSUME Inv, RecordLog PROVE Inv'
<1> USE DEF Inv, PublicationInv, RecordLog, StartFinding, chainVars
<1>1. /\ InHand \in Txs /\ about[InHand] \in Events /\ Awaits(InHand)
  BY InHandTyped
<1>2. \A tx \in Txs : Awaits(tx)' <=> Awaits(tx)
  BY DEF Awaits
<1>3. TypeOK'
  BY <1>1 DEF TypeOK, Phases
<1>4. SentInv' /\ HandInv'
  BY <1>1, PublicationAssumption DEF SentInv, HandInv, HasNext, InHand
<1>5. RequestInv'
  BY DEF RequestInv
<1>6. PublishedIsReal' /\ ToldStays'
  BY DEF PublishedIsReal, ToldStays
<1>7. RecordedInv' /\ PendingSettles'
  BY <1>1, <1>2 DEF RecordedInv, PendingSettles, TypeOK
<1>8. AddressKnown'
  BY <1>2 DEF AddressKnown, PublishedIsReal, TypeOK
<1> QED
  BY <1>3, <1>4, <1>5, <1>6, <1>7, <1>8

\* The job at rest has nothing in hand, which is typed.
LEMMA RestTyped ==
  ASSUME Rest
  PROVE  phase' \in Phases /\ tries' \in 0 .. Retries - 1 /\ entity' \in Row
           /\ HandInv'
  BY BlankRows, PublicationAssumption DEF Rest, Phases, HandInv, Absent

\* A handler that gives up leaves no pending row behind it: there was none.
LEMMA GiveUpKeeps ==
  ASSUME Inv, GiveUp PROVE Inv'
<1> USE DEF Inv, PublicationInv, chainVars
<1>1. /\ UNCHANGED <<row, chainVars, snapshots, request, told, faults>>
      /\ upTo' = upTo + 1 /\ Rest
      /\ phase # "idle" /\ \A e \in Events : ~Matches(e)
      /\ blame' = blame \cup {"gave up"}
  BY DEF GiveUp, Pass
<1>2. HasNext /\ InHand \in Txs /\ upTo + 1 \in 1 .. Len(chain)
  BY <1>1, InHandTyped DEF HandInv
<1>3. \A tx \in Txs : tx # InHand /\ Awaits(tx) => Awaits(tx)'
  BY <1>1, <1>2, AwaitsPassed
<1>4. TypeOK'
  <2>1. upTo + 1 \in 0 .. Len(chain)
    BY <1>2 DEF TypeOK
  <2>2. blame' \subseteq Causes
    BY <1>1 DEF TypeOK, Causes
  <2> QED
    BY <1>1, <2>1, <2>2, RestTyped DEF TypeOK
<1>5. SentInv' /\ RequestInv' /\ PublishedIsReal'
  BY <1>1 DEF SentInv, RequestInv, PublishedIsReal
<1>6. ToldStays'
  BY <1>1 DEF ToldStays
<1>7. PendingSettles'
  BY <1>1, <1>3 DEF PendingSettles, Matches, Present, Statuses, TypeOK
<1>8. RecordedInv' /\ AddressKnown'
  BY <1>1 DEF RecordedInv, AddressKnown
<1> QED
  BY <1>1, <1>4, <1>5, <1>6, <1>7, <1>8, RestTyped

\* A cold start passes over logs when nothing has been recorded.
LEMMA ColdStartKeeps ==
  ASSUME Inv, ColdStart PROVE Inv'
<1> USE DEF Inv, PublicationInv, ColdStart, chainVars
<1>1. TypeOK'
  <2>1. upTo' \in 0 .. Len(chain)
    BY DEF TypeOK
  <2>2. blame' \subseteq Causes
    BY DEF TypeOK, Causes
  <2>4. faults' \in 0 .. MaxFaults
    BY PublicationAssumption DEF TypeOK
  <2>3. phase' \in Phases /\ tries' \in 0 .. Retries - 1 /\ entity' \in Row
    BY RestTyped
  <2> QED
    BY <2>1, <2>2, <2>3, <2>4 DEF TypeOK
<1>2. SentInv' /\ RequestInv' /\ PublishedIsReal'
  BY DEF SentInv, RequestInv, PublishedIsReal
<1>3. ToldStays'
  BY DEF ToldStays
<1>4. RecordedInv' /\ PendingSettles'
  BY DEF RecordedInv, PendingSettles
<1>5. AddressKnown'
  BY DEF AddressKnown, PublishedIsReal
<1> QED
  BY <1>1, <1>2, <1>3, <1>4, <1>5, RestTyped

\* The row that the handler saves is published, with the address.
LEMMA SaveEventKeeps ==
  ASSUME Inv, SaveEvent PROVE Inv'
<1> USE DEF Inv, PublicationInv, SaveEvent, Pass, chainVars
<1> DEFINE e == about[InHand]
           new == [entity EXCEPT !.status = "published", !.onChainId = InHand,
                                 !.ticketAddress = InHand]
<1>1. /\ HasNext /\ InHand \in Txs /\ e \in Events
      /\ InHand \in snapshots /\ entity.transactionHash = InHand
  BY InHandTyped DEF HandInv
<1>2. /\ new \in Row /\ new.status = "published" /\ new.onChainId = InHand
      /\ new.ticketAddress = InHand /\ new.transactionHash = InHand
  BY <1>1 DEF TypeOK, Row, Statuses
<1>3. row' = [row EXCEPT ![e] = new]
  OBVIOUS
<1> HIDE DEF new, SaveEvent
<1>4. /\ row' \in [Events -> Row] /\ row'[e] = new
      /\ \A d \in Events : d # e => row'[d] = row[d]
  BY <1>1, <1>2, <1>3 DEF TypeOK
<1>5. /\ upTo' = upTo + 1 /\ Rest
      /\ UNCHANGED <<chainVars, snapshots, request, told, blame, faults>>
  BY DEF SaveEvent
<1>6. \A tx \in Txs : tx # InHand /\ Awaits(tx) => Awaits(tx)'
  BY <1>1, <1>5, AwaitsPassed
<1>7. TypeOK'
  BY <1>1, <1>4, <1>5, RestTyped DEF TypeOK, HasNext
<1>8. SentInv'
  BY <1>1, <1>2, <1>4, <1>5 DEF SentInv
<1>9. RequestInv'
  BY <1>5 DEF RequestInv
<1>10. PublishedIsReal'
  BY <1>1, <1>2, <1>4, <1>5 DEF PublishedIsReal
<1>11. ToldStays'
  BY <1>2, <1>4, <1>5 DEF ToldStays, TypeOK
<1>12. \A d \in Events : d # e => row[d].transactionHash # InHand
  BY <1>1 DEF SentInv
<1>13. PendingSettles'
  BY <1>2, <1>4, <1>5, <1>6, <1>12 DEF PendingSettles, TypeOK
<1>14. AddressKnown'
  BY <1>2, <1>4, <1>5, <1>6, <1>12 DEF AddressKnown, PublishedIsReal, TypeOK
<1>15. RecordedInv'
  <2>1. SUFFICES ASSUME NEW tx \in snapshots,
                        ~(blame \cap {"gave up", "stale poll", "stale edit"} # {}),
                        ~Awaits(tx)'
                 PROVE  /\ row'[about[tx]].status = "published"
                        /\ row'[about[tx]].ticketAddress
                             = row'[about[tx]].onChainId
    BY <1>5 DEF RecordedInv
  <2>2. tx \in Txs /\ about[tx] \in Events
    BY DEF SentInv, TypeOK
  <2>3. CASE about[tx] = e
    BY <1>2, <1>4, <2>3
  <2>4. CASE about[tx] # e
    BY <1>4, <1>6, <2>1, <2>2, <2>4 DEF RecordedInv
  <2> QED
    BY <2>3, <2>4
<1> QED
  BY <1>5, <1>7, <1>8, <1>9, <1>10, <1>11, <1>13, <1>14, <1>15, RestTyped

-------------------------------------------------------------------------------
(* The theorems. *)

\* The invariant holds at the beginning.
LEMMA InitInv == Init => Inv
<1> SUFFICES ASSUME Init PROVE Inv
  OBVIOUS
<1> USE DEF Init
<1>1. TypeOK
  BY BlankRows, PublicationAssumption
     DEF TypeOK, Absent, Idle, Request, Ops, Stops, Phases
<1>2. SentInv /\ RequestInv /\ HandInv
  BY PublicationAssumption DEF SentInv, RequestInv, HandInv, Blank, Idle
<1>3. RecordedInv /\ PublishedIsReal /\ PendingSettles /\ AddressKnown /\ ToldStays
  BY DEF RecordedInv, PublishedIsReal, PendingSettles, AddressKnown, ToldStays,
         Blank
<1> QED
  BY <1>1, <1>2, <1>3 DEF Inv, PublicationInv

\* Every step keeps the invariant.
LEMMA NextInv == Inv /\ [Next]_vars => Inv'
<1> SUFFICES ASSUME Inv, [Next]_vars PROVE Inv'
  OBVIOUS
<1>1. CASE Send
  BY <1>1, SendKeeps
<1>2. CASE Mine
  BY <1>2, MineKeeps
<1>3. CASE CreateDraft
  BY <1>3, CreateKeeps
<1>4. ASSUME NEW r \in Requests, Serve(r) PROVE Inv'
  BY <1>4, CreateKeeps, ReadsKeep, DeleteKeeps, RecreateKeeps, OfferKeeps,
     AnswerPendingKeeps, AnswerPublishedKeeps DEF Serve
<1>5. CASE Handle
  BY <1>5, RecordKeeps, HandlerReadsKeep, GiveUpKeeps, SaveEventKeeps DEF Handle
<1>6. CASE Abort \/ Rewind
  BY <1>6, SetBackKeeps
<1>7. CASE ColdStart
  BY <1>7, ColdStartKeeps
<1>8. CASE UNCHANGED vars
  <2>1. UNCHANGED <<row, chainVars, snapshots, request, told, blame, faults>>
          /\ UNCHANGED <<upTo, phase, tries, entity>>
    BY <1>8 DEF vars, chainVars
  <2>2. HandInv'
    BY <2>1 DEF Inv, PublicationInv, HandInv, HasNext, InHand, chainVars
  <2> QED
    BY <2>1, <2>2, JobStaysKeeps DEF Inv, TypeOK
<1> QED
  BY <1>1, <1>2, <1>3, <1>4, <1>5, <1>6, <1>7, <1>8 DEF Next

\* The inductive invariant holds of every behaviour.
THEOREM PublicationInvariant == Spec => []Inv
<1> QED
  BY InitInv, NextInv, PTL DEF Spec

\* Every variable keeps its type: the handler looks for the row at most as
\* often as it is meant to, and never passes beyond the chain.
THEOREM PublicationTypes == Spec => []TypeOK
<1>1. Inv => TypeOK
  BY DEF Inv
<1> QED
  BY <1>1, PublicationInvariant, PTL

\* A published row carries a recorded transaction about this event, and its id.
THEOREM PublishedIsRealAlways == Spec => []PublishedIsReal
<1>1. Inv => PublishedIsReal
  BY DEF Inv, PublicationInv
<1> QED
  BY <1>1, PublicationInvariant, PTL

\* A row stays pending after its transaction is recorded only when a poll wrote
\* 'pending' on an outdated read.
THEOREM PendingSettlesAlways == Spec => []PendingSettles
<1>1. Inv => PendingSettles
  BY DEF Inv, PublicationInv
<1> QED
  BY <1>1, PublicationInvariant, PTL

\* A published row has its ticket contract's address, the handler is going to
\* write it, or one of three causes struck.
THEOREM AddressKnownAlways == Spec => []AddressKnown
<1>1. Inv => AddressKnown
  BY DEF Inv, PublicationInv
<1> QED
  BY <1>1, PublicationInvariant, PTL

\* What a client has been told stays true unless a request wrote late.
THEOREM ToldStaysAlways == Spec => []ToldStays
<1>1. Inv => ToldStays
  BY DEF Inv, PublicationInv
<1> QED
  BY <1>1, PublicationInvariant, PTL

-------------------------------------------------------------------------------
(* What the searches show of such rows. *)

\* Published rows, and no others, are shown to users who search.
LEMMA ShownStatuses == "published" \in Shown /\ Statuses \ {"published"} \subseteq Hidden
<1>1. "published" \in Shown
  BY DEF Shown, Statuses, SearchEventsForUserWithValue,
         SearchEventsForUserWithoutValue, GetUpcompingEvent,
         GetEventsForMarketplaceWithoutValue, GetEventsForMarketplaceWithValue,
         SearchEventsForOrganizer
<1>2. ASSUME NEW status \in Statuses \ {"published"} PROVE status \in Hidden
  BY <1>2 DEF Hidden, SearchEventsForUserWithValue,
              SearchEventsForUserWithoutValue,
              GetEventsForMarketplaceWithoutValue,
              GetEventsForMarketplaceWithValue, SearchEventsForOrganizer
<1> QED
  BY <1>1, <1>2

\* An event whose creation is not recorded is hidden (searchEventsForUser,
\* getEventsForMarketplace): only published rows are shown, and those have a
\* recorded transaction.
THEOREM UnrecordedHiddenAlways == Spec => []UnrecordedHidden
<1>1. ASSUME Inv PROVE UnrecordedHidden
  <2>1. SUFFICES ASSUME NEW e \in Events, Present(e),
                        \A tx \in snapshots : about[tx] # e
                 PROVE  row[e].status \in Hidden
    BY DEF UnrecordedHidden
  <2>2. row[e].status \in Statuses
    BY <1>1, <2>1 DEF Inv, TypeOK, Present
  <2>3. row[e].status # "published"
    BY <1>1, <2>1 DEF Inv, PublicationInv, PublishedIsReal
  <2> QED
    BY <2>2, <2>3, ShownStatuses
<1> QED
  BY <1>1, PublicationInvariant, PTL

\* An event of which a client was told that it is published is found
\* (checkEventCreationStatus against the searches), with its own tickets.
THEOREM ToldIsFoundAlways == Spec => []ToldIsFound
<1>1. ASSUME Inv PROVE ToldIsFound
  <2>1. SUFFICES ASSUME NEW e \in told,
                        blame \cap {"stale poll", "stale edit", "no row"} = {}
                 PROVE  /\ row[e].status \in Shown
                        /\ GetEventDetails(e) # {}
                        /\ \A id \in GetEventDetails(e) : about[id] = e
    BY DEF ToldIsFound
  <2>2. e \in Events /\ row[e].status = "published"
    BY <1>1, <2>1 DEF Inv, TypeOK, PublicationInv, ToldStays
  <2>3. about[row[e].onChainId] = e
    BY <1>1, <2>2 DEF Inv, PublicationInv, PublishedIsReal
  <2> QED
    BY <2>2, <2>3, ShownStatuses DEF GetEventDetails
<1> QED
  BY <1>1, PublicationInvariant, PTL
===============================================================================
