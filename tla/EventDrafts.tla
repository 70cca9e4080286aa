------------------------------ MODULE EventDrafts ------------------------------
(***************************************************************************)
(* Drafts of events and the rows below them: ticket tiers, artist classes  *)
(* and artists (EventsService, TicketTiersService, ArtistClassesService,   *)
(* ArtistsService).  A request creates a draft, replaces it, deletes it or *)
(* prepares its publication, in many awaits and without a transaction.     *)
(*                                                                         *)
(* An update deletes everything and inserts it again under the same id.    *)
(* The deletes of the rows below a draft are started and not awaited: they *)
(* reach the database in any order, at any later time, and the foreign     *)
(* keys (NO ACTION) reject a delete that comes too early.  Nobody handles  *)
(* the rejection of such a delete, so the process ends.                    *)
(*                                                                         *)
(* A request has one payload, so rows are named by the request that wrote  *)
(* them.  A draft is named by the request that created it.  A class of     *)
(* artists has one artist.  One organizer: the drafts of another are       *)
(* neither found by name nor deleted.  That a poll makes a draft pending   *)
(* or published meanwhile is modelled in EventPublication.                 *)
(***************************************************************************)
EXTENDS Naturals, FiniteSets

CONSTANTS
  Requests,     \* requests, each of which is made at most once
  Names,        \* names of events
  Shapes,       \* how many tiers and artist classes a payload may have
  None,         \* no request
  MaxInFlight,  \* bound: requests in flight at a time
  MaxFaults     \* bound: awaits that reject, and restarts

ASSUME DraftsAssumption ==
  /\ Shapes \subseteq [tiers : Nat \ {0}, classes : Nat \ {0}]
  /\ MaxInFlight \in Nat /\ MaxFaults \in Nat
  /\ None \notin Requests

VARIABLES
  shape,        \* bound: the payloads of one behaviour have one shape
  pc,           \* where a request is
  req,          \* what it is about: kind, draft and name
  at,           \* the tier or class it has come to
  classIds,     \* the classes it has read, whose artists it deletes
  events,       \* draft -> the request that wrote its row, or None
  metadata,     \* draft -> the request whose metadata its row names, or None
  rows,         \* the rows of ticket_tiers, artist_classes and artists
  numbered,     \* the tiers whose tier_index is set
  returned,     \* the tiers a publication has read back for the metadata
  deleting,     \* rows whose delete has been started and not awaited
  faults,       \* faults so far
  alone,        \* requests that have met no other request about their draft
  disturbed,    \* drafts whose last request failed halfway or met another
  raced         \* saves that passed the name check while another was inserting

vars == <<shape, pc, req, at, classIds, events, metadata, rows, numbered, returned,
          deleting, faults, alone, disturbed, raced>>
NTiers == shape.tiers
NClasses == shape.classes

local == <<req, at, classIds, returned>>
tables == <<events, metadata, rows, numbered>>
ghosts == <<alone, disturbed, raced>>

-------------------------------------------------------------------------------
Kinds == {"save", "update", "delete", "publish", "publish new"}

\* Where a request stands: the await it is at, or its end.
Ends == {"refused", "failed", "answered"}
Awaits == {"name", "read", "draft", "tiers", "class ids", "artists", "classes",
           "find", "delete", "save event", "save tiers", "save class",
           "save artists", "number", "metadata"}

TierRows(r) == [table : {"tier"}, by : {r}, n : 1 .. NTiers]
ClassRows(r) == [table : {"class"}, by : {r}, n : 1 .. NClasses]
ArtistRows(r) == [table : {"artist"}, by : {r}, n : 1 .. NClasses]
Payload(r) == TierRows(r) \cup ClassRows(r) \cup ArtistRows(r)
Rows == UNION {Payload(r) : r \in Requests}

InFlight(r) == pc[r] \in Awaits

\* The request may have changed something.
Changing(r) == InFlight(r) /\ pc[r] \notin {"name", "read", "draft", "tiers"}

\* The draft that a request is about, and the rows below a draft.
Draft(r) == req[r].draft
Below(e) == {x \in rows : Draft(x.by) = e}
BelowIn(e, table) == {x \in Below(e) : x.table = table}
Name(e) == req[events[e]].name

\* The rows that refer to a class.
ArtistsOf(classes) ==
  {x \in rows : x.table = "artist" /\ [x EXCEPT !.table = "class"] \in classes}

TypeOK ==
  /\ shape \in Shapes
  /\ pc \in [Requests -> Awaits \cup Ends \cup {"idle"}]
  /\ req \in [Requests ->
       [kind : Kinds \cup {None}, draft : Requests \cup {None},
        name : Names \cup {None}]]
  /\ at \in [Requests -> Nat]
  /\ \A r \in Requests :
       /\ pc[r] \in {"save class", "save artists"} => at[r] \in 1 .. NClasses
       /\ pc[r] = "number" => at[r] \in 1 .. NTiers
  /\ classIds \in [Requests -> SUBSET UNION {ClassRows(r) : r \in Requests}]
  /\ events \in [Requests -> Requests \cup {None}]
  /\ metadata \in [Requests -> Requests \cup {None}]
  /\ rows \subseteq Rows
  /\ numbered \subseteq {x \in rows : x.table = "tier"}
  /\ returned \in [Requests -> SUBSET UNION {TierRows(r) : r \in Requests}]
  /\ deleting \subseteq Rows
  /\ faults \in 0 .. MaxFaults
  /\ alone \subseteq Requests
  /\ disturbed \subseteq Requests
  /\ raced \subseteq Requests

Init ==
  /\ shape \in Shapes
  /\ pc = [r \in Requests |-> "idle"]
  /\ req = [r \in Requests |-> [kind |-> None, draft |-> None, name |-> None]]
  /\ at = [r \in Requests |-> 1]
  /\ classIds = [r \in Requests |-> {}]
  /\ events = [e \in Requests |-> None]
  /\ metadata = [e \in Requests |-> None]
  /\ rows = {}
  /\ numbered = {}
  /\ returned = [r \in Requests |-> {}]
  /\ deleting = {}
  /\ faults = 0
  /\ alone = {}
  /\ disturbed = {}
  /\ raced = {}

-------------------------------------------------------------------------------
(* Ends of requests. *)

\* A request that breaks off after it has begun to change the draft.
Disturb(S) == disturbed' = disturbed \cup S

FailHalfway(r) ==
  /\ pc' = [pc EXCEPT ![r] = "failed"]
  /\ Disturb(IF Changing(r) THEN {Draft(r)} ELSE {})
  /\ UNCHANGED <<shape, alone, raced>>

\* A request that is answered: if it was alone, what it has written is whole.
Answer(r) ==
  /\ pc' = [pc EXCEPT ![r] = "answered"]
  /\ disturbed' = IF r \in alone THEN disturbed \ {Draft(r)} ELSE disturbed
  /\ UNCHANGED <<shape, alone, raced>>

Step(r, next) == pc' = [pc EXCEPT ![r] = next] /\ UNCHANGED <<shape, ghosts>>

-------------------------------------------------------------------------------
(* A request begins. *)

FirstAwait(kind) ==
  CASE kind = "save" -> "name"
    [] kind \in {"update", "publish"} -> "read"
    [] kind = "delete" -> "draft"
    [] kind = "publish new" -> "save event"

\* POST events/save/draft, PUT events/update/draft/:id, DELETE
\* events/draft/:id and POST events/publish, with or without an id: with one only
\* as JSON, without one only as a form, whose pipe drops it.  A draft that is
\* about to be created has no other request yet.
Begin(r, kind, e, n) ==
  LET others == {q \in Requests : InFlight(q) /\ Draft(q) = e}
  IN /\ pc[r] = "idle"
     /\ Cardinality({q \in Requests : InFlight(q)}) < MaxInFlight
     /\ IF kind \in {"save", "publish new"} THEN e = r
        ELSE \E q \in Requests \ {r} : events[q] # None /\ e = q
     /\ pc' = [pc EXCEPT ![r] = FirstAwait(kind)]
     /\ req' = [req EXCEPT ![r] = [kind |-> kind, draft |-> e, name |-> n]]
     /\ alone' = IF others = {} THEN alone \cup {r} ELSE alone \ others
     /\ Disturb(IF others = {} THEN {} ELSE {e})
     /\ UNCHANGED <<shape, tables, at, classIds, returned, deleting, faults,
                    raced>>

-------------------------------------------------------------------------------
(* Creating a draft: createEventDraft and createEventDraftRecord. *)

\* Slip to catch: the name is not looked for.
FindNameNever(r) ==
  /\ pc[r] = "name"
  /\ Step(r, "save event")
  /\ UNCHANGED <<local, tables, deleting, faults>>

\* saveEventsDraft: no draft of the organizer may have this name.
FindName(r) ==
  /\ pc[r] = "name"
  /\ IF \E e \in Requests : events[e] # None /\ Name(e) = req[r].name
     THEN Step(r, "refused")
     ELSE /\ pc' = [pc EXCEPT ![r] = "save event"]
          /\ raced' =
               IF \E q \in Requests : /\ pc[q] = "save event"
                                      /\ req[q].name = req[r].name
               THEN raced \cup {r} ELSE raced
          /\ UNCHANGED <<shape, alone, disturbed>>
  /\ UNCHANGED <<local, tables, deleting, faults>>

\* The row is inserted, or overwritten where another request has inserted it.
SaveEvent(r) ==
  /\ pc[r] = "save event"
  /\ events' = [events EXCEPT ![Draft(r)] = r]
  /\ Step(r, "save tiers")
  /\ UNCHANGED <<local, metadata, rows, numbered, deleting, faults>>

\* createTicketTiers: all tiers in one transaction, below a row that must exist.
CreateTicketTiers(r) ==
  /\ pc[r] = "save tiers"
  /\ IF events[Draft(r)] = None
     THEN FailHalfway(r) /\ UNCHANGED rows
     ELSE Step(r, "save class") /\ rows' = rows \cup TierRows(r)
  /\ at' = [at EXCEPT ![r] = 1]
  /\ UNCHANGED <<req, classIds, returned, events, metadata, numbered, deleting,
                 faults>>

\* createArtistClasses: one class, then the list of all artists so far.
SaveArtistClass(r) ==
  /\ pc[r] = "save class"
  /\ IF events[Draft(r)] = None
     THEN FailHalfway(r) /\ UNCHANGED rows
     ELSE /\ Step(r, "save artists")
          /\ rows' = rows \cup {x \in ClassRows(r) : x.n = at[r]}
  /\ UNCHANGED <<local, events, metadata, numbered, deleting, faults>>

\* Slip to catch: only the artists of the classes before are saved.
SaveArtistsBefore(r) ==
  /\ pc[r] = "save artists"
  /\ rows' = rows \cup {x \in ArtistRows(r) : x.n < at[r]}
  /\ IF at[r] < NClasses
     THEN Step(r, "save class") /\ at' = [at EXCEPT ![r] = @ + 1]
     ELSE Answer(r) /\ UNCHANGED at
  /\ UNCHANGED <<req, classIds, returned, events, metadata, numbered, deleting,
                 faults>>

\* Artists that have their row are left as they are.  After the last class
\* the draft is saved; a publication goes on with the numbers of its tiers.
SaveArtists(r) ==
  /\ pc[r] = "save artists"
  /\ IF \E x \in ClassRows(r) : x.n <= at[r] /\ x \notin rows
     THEN FailHalfway(r) /\ UNCHANGED <<rows, at>>
     ELSE /\ rows' = rows \cup {x \in ArtistRows(r) : x.n <= at[r]}
          /\ IF at[r] < NClasses
             THEN Step(r, "save class") /\ at' = [at EXCEPT ![r] = @ + 1]
             ELSE /\ at' = [at EXCEPT ![r] = 1]
                  /\ IF req[r].kind \in {"publish", "publish new"}
                     THEN Step(r, "number") ELSE Answer(r)
  /\ UNCHANGED <<req, classIds, returned, events, metadata, numbered, deleting,
                 faults>>

-------------------------------------------------------------------------------
(* Preparing the publication: the rest of verifyEventInformation. *)

\* verifyEventInformation numbers the tiers from 1 to the last: updateTierIndex
\* writes the number and reads the row back, if it is there.
NumberTo(r, last) ==
  LET tier == {x \in TierRows(r) \cap rows : x.n = at[r]}
  IN /\ pc[r] = "number"
     /\ numbered' = numbered \cup tier
     /\ returned' = [returned EXCEPT ![r] = @ \cup tier]
     /\ IF at[r] < last
        THEN Step(r, "number") /\ at' = [at EXCEPT ![r] = @ + 1]
        ELSE Step(r, "metadata") /\ UNCHANGED at
     /\ UNCHANGED <<req, classIds, events, metadata, rows, deleting, faults>>

\* Slip to catch: the numbering stops one early.
NumberOneFewer(r) == NumberTo(r, NTiers - 1)
UpdateTierIndex(r) == NumberTo(r, NTiers)

\* The metadata is uploaded, and its urls are written into the row, if any.
SaveMetadata(r) ==
  /\ pc[r] = "metadata"
  /\ metadata' = IF events[Draft(r)] = None THEN metadata
                 ELSE [metadata EXCEPT ![Draft(r)] = r]
  /\ Answer(r)
  /\ UNCHANGED <<local, events, rows, numbered, deleting, faults>>

-------------------------------------------------------------------------------
(* Replacing and deleting a draft: updateEventDraft, deleteDraftEvent. *)

\* updateEventDraft looks for the row, and then uploads the files.
ReadEvent(r) ==
  /\ pc[r] = "read"
  /\ Step(r, IF events[Draft(r)] = None THEN "refused" ELSE "draft")
  /\ UNCHANGED <<local, tables, deleting, faults>>

FindDraft(r) ==
  /\ pc[r] = "draft"
  /\ Step(r, IF events[Draft(r)] = None THEN "refused" ELSE "tiers")
  /\ UNCHANGED <<local, tables, deleting, faults>>

\* The deletes are started, and the request goes on.
DeleteTicketTiers(r) ==
  /\ pc[r] = "tiers"
  /\ deleting' = deleting \cup BelowIn(Draft(r), "tier")
  /\ Step(r, "class ids")
  /\ UNCHANGED <<local, tables, faults>>

GetArtistClasses(r) ==
  /\ pc[r] = "class ids"
  /\ classIds' = [classIds EXCEPT ![r] = BelowIn(Draft(r), "class")]
  /\ Step(r, "artists")
  /\ UNCHANGED <<tables, req, at, returned, deleting, faults>>

DeleteArtists(r) ==
  /\ pc[r] = "artists"
  /\ deleting' = deleting \cup ArtistsOf(classIds[r])
  /\ classIds' = [classIds EXCEPT ![r] = {}]
  /\ Step(r, "classes")
  /\ UNCHANGED <<tables, req, at, returned, faults>>

DeleteArtistClasses(r) ==
  /\ pc[r] = "classes"
  /\ deleting' = deleting \cup BelowIn(Draft(r), "class")
  /\ Step(r, "find")
  /\ UNCHANGED <<local, tables, faults>>

\* deleteEvent: not found, if another request has deleted the row.
FindEvent(r) ==
  /\ pc[r] = "find"
  /\ IF events[Draft(r)] = None THEN FailHalfway(r) ELSE Step(r, "delete")
  /\ UNCHANGED <<local, tables, deleting, faults>>

\* The row can go when the rows below it have gone.
DeleteEvent(r) ==
  /\ pc[r] = "delete"
  /\ IF Below(Draft(r)) # {}
     THEN FailHalfway(r) /\ UNCHANGED <<events, metadata>>
     ELSE /\ events' = [events EXCEPT ![Draft(r)] = None]
          /\ metadata' = [metadata EXCEPT ![Draft(r)] = None]
          /\ IF req[r].kind = "delete" THEN Answer(r) ELSE Step(r, "save event")
  /\ UNCHANGED <<local, rows, numbered, deleting, faults>>

-------------------------------------------------------------------------------
(* The database and the process. *)

\* A started delete reaches the database.
ExecuteDelete(x) ==
  /\ x \in deleting
  /\ ArtistsOf({x}) = {}
  /\ rows' = rows \ {x}
  /\ numbered' = numbered \ {x}
  /\ deleting' = deleting \ {x}
  /\ UNCHANGED <<shape, local, pc, events, metadata, faults, ghosts>>

\* The process ends: no request is answered, and the started deletes that were
\* sent come through before it is up again.
Stop ==
  /\ \E sent \in SUBSET deleting :
       /\ ArtistsOf(sent) \subseteq sent
       /\ rows' = rows \ sent
       /\ numbered' = numbered \ sent
  /\ deleting' = {}
  /\ pc' = [r \in Requests |-> IF InFlight(r) THEN "failed" ELSE pc[r]]
  /\ Disturb({Draft(r) : r \in {q \in Requests : Changing(q)}})
  /\ UNCHANGED <<shape, local, events, metadata, alone, raced>>

\* The delete of a class that still has its artist is rejected, unhandled.
RejectDelete ==
  /\ ArtistsOf(deleting) # {}
  /\ Stop
  /\ UNCHANGED faults

\* A restart for another reason.
Restart ==
  /\ faults < MaxFaults
  /\ faults' = faults + 1
  /\ Stop

\* An await of a request rejects: an upload or a statement fails.
Reject(r) ==
  /\ faults < MaxFaults
  /\ InFlight(r)
  /\ faults' = faults + 1
  /\ FailHalfway(r)
  /\ UNCHANGED <<local, tables, deleting>>

-------------------------------------------------------------------------------
RequestStep(r) ==
  \/ FindName(r) \/ SaveEvent(r) \/ CreateTicketTiers(r)
  \/ SaveArtistClass(r) \/ SaveArtists(r)
  \/ UpdateTierIndex(r) \/ SaveMetadata(r)
  \/ ReadEvent(r) \/ FindDraft(r) \/ DeleteTicketTiers(r)
  \/ GetArtistClasses(r) \/ DeleteArtists(r) \/ DeleteArtistClasses(r)
  \/ FindEvent(r) \/ DeleteEvent(r)

Next ==
  \/ \E r \in Requests :
       \/ \E kind \in Kinds, e \in Requests, n \in Names : Begin(r, kind, e, n)
       \/ RequestStep(r)
       \/ Reject(r)
  \/ \E x \in Rows : ExecuteDelete(x)
  \/ RejectDelete
  \/ Restart

Spec == Init /\ [][Next]_vars

-------------------------------------------------------------------------------
(* What holds of a draft between requests. *)

Quiet(e) == \A r \in Requests : InFlight(r) => Draft(r) # e
Settled == {e \in Requests \ disturbed : events[e] # None /\ Quiet(e)}

\* A draft has exactly the tiers, classes and artists of the request that wrote
\* it, and keeps them whatever deletes are still on their way.  A request that
\* was alone and is answered makes whole even a draft that others have left in
\* pieces (updateEventDraft, createEventDraftRecord).
DraftWhole == \A e \in Settled : Below(e) = Payload(events[e])

\* The metadata that a draft's urls point at names all its tiers, each with its
\* number: tier i of the contract is found again as tier_index i
\* (verifyEventInformation, updateTierIndex).
MetadataCurrent ==
  \A e \in Settled : metadata[e] # None =>
    /\ metadata[e] = events[e]
    /\ returned[metadata[e]] = TierRows(events[e])
    /\ TierRows(events[e]) \subseteq numbered

\* Two drafts have the same name only if one was written by an update or a
\* publication, which do not look for the name, or if one was saved while the
\* other was on its way (saveEventsDraft).
NamesDistinct ==
  \A e, f \in Requests :
    (e # f /\ events[e] # None /\ events[f] # None /\ Name(e) = Name(f)) =>
      \/ \E d \in {e, f} : req[events[d]].kind # "save"
      \/ {events[e], events[f]} \cap raced # {}

-------------------------------------------------------------------------------
(* The inductive invariant: TypeOK with the conjuncts of DraftsInv. *)

\* What has been begun stays: rows and drafts are by requests that were made, a
\* request's draft is one that was begun, and what is to be deleted is there.
Origin ==
  /\ deleting \subseteq rows
  /\ \A x \in rows : pc[x.by] # "idle"
  /\ \A r \in Requests : pc[r] # "idle" =>
       /\ Draft(r) \in Requests /\ pc[Draft(r)] # "idle"
       /\ req[r].kind \in {"save", "publish new"} => Draft(r) = r
       /\ pc[r] \in {"read", "draft", "delete"} \cup
            {"tiers", "class ids", "artists", "classes", "find"} =>
            req[r].kind \notin {"save", "publish new"}
       /\ \A x \in classIds[r] : pc[x.by] # "idle" /\ Draft(x.by) = Draft(r)
  /\ \A r \in Requests : pc[r] = "idle" => classIds[r] = {}
  /\ \A r \in Requests :
       returned[r] # {} => pc[r] \in {"number", "metadata"} \cup Ends
  /\ \A e \in Requests :
       IF events[e] = None THEN metadata[e] = None
       ELSE pc[events[e]] # "idle" /\ Draft(events[e]) = e

\* A request that has met another knows that its draft is disturbed.
AloneInv ==
  /\ \A r, q \in Requests :
       (InFlight(r) /\ InFlight(q) /\ Draft(r) = Draft(q) /\ r \in alone) => q = r
  /\ \A r \in Requests : InFlight(r) /\ r \notin alone => Draft(r) \in disturbed
  /\ \A r \in Requests : pc[r] = "idle" => r \notin alone

Writing == {"save tiers", "save class", "save artists", "number", "metadata"}

\* What a request that is alone has put below its draft so far.
Written(r) ==
  IF pc[r] \in {"name", "save event", "save tiers"} THEN {}
  ELSE {x \in Payload(r) :
          \/ x.table = "tier" \/ pc[r] \in {"number", "metadata"}
          \/ x.n < at[r]
          \/ x.table = "class" /\ pc[r] = "save artists" /\ x.n = at[r]}

\* From the moment at which its draft has no rows, a request that is alone
\* writes onto clean ground, and nothing it has written is to be deleted.
Hand(r) ==
  /\ pc[r] \in {"name", "save event"} \cup Writing =>
       /\ Below(Draft(r)) = Written(r)
       /\ Written(r) \cap deleting = {}
       /\ metadata[Draft(r)] = None
  /\ pc[r] \in {"name", "save event"} => events[Draft(r)] = None
  /\ pc[r] \in Writing => events[Draft(r)] = r
  /\ pc[r] = "number" => returned[r] = {x \in TierRows(r) : x.n < at[r]}
  /\ pc[r] = "metadata" => returned[r] = TierRows(r)
  /\ pc[r] \in {"number", "metadata"} => returned[r] \subseteq numbered

\* A draft that nobody is changing is whole, and stays so.
Whole(e) ==
  /\ Below(e) = Payload(events[e])
  /\ Below(e) \cap deleting = {}
  /\ metadata[e] # None => /\ metadata[e] = events[e]
                           /\ returned[events[e]] = TierRows(events[e])
                           /\ TierRows(events[e]) \subseteq numbered

Untouched(e) ==
  /\ events[e] # None /\ e \notin disturbed
  /\ \A r \in Requests : Draft(r) = e => ~Changing(r)

\* Of two saves of one name that have passed the check, one has raced.
Passed(r) ==
  req[r].kind = "save" /\ (pc[r] = "save event" \/ events[r] = r)
NamesInv ==
  \A q, r \in Requests :
    (q # r /\ Passed(q) /\ Passed(r) /\ req[q].name = req[r].name) =>
      q \in raced \/ r \in raced

DraftsInv ==
  /\ Origin /\ AloneInv /\ NamesInv
  /\ \A r \in alone : InFlight(r) => Hand(r)
  /\ \A e \in Requests : Untouched(e) => Whole(e)
===============================================================================
