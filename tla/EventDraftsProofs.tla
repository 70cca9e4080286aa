--------------------------- MODULE EventDraftsProofs ---------------------------
(***************************************************************************)
(* Proofs about drafts and the rows below them for every set of requests   *)
(* and names, every shape of a payload and any number of faults: a draft   *)
(* on which requests were made one at a time, and none of which broke off, *)
(* is whole, and its metadata is that of its tiers.  The inductive         *)
(* invariant is TypeOK with DraftsInv.  A request changes only the draft   *)
(* it is about (Local), so each step is looked at for that draft.          *)
(***************************************************************************)
EXTENDS EventDrafts, TLAPS

\* The inductive invariant.
Inv == TypeOK /\ DraftsInv

\* Rows that a request inserts carry its name.
LEMMA PayloadBy ==
  ASSUME NEW r, NEW x \in Payload(r) PROVE x.by = r /\ x.n \in Nat
<1>1. CASE x \in TierRows(r)
  BY <1>1 DEF TierRows
<1>2. CASE x \in ClassRows(r)
  BY <1>2 DEF ClassRows
<1>3. CASE x \in ArtistRows(r)
  BY <1>3 DEF ArtistRows
<1> QED
  BY <1>1, <1>2, <1>3 DEF Payload

\* A request that was made is about a draft that was begun.
LEMMA DraftOf ==
  ASSUME Inv, NEW r \in Requests, pc[r] # "idle"
  PROVE  Draft(r) \in Requests /\ pc[Draft(r)] # "idle"
<1>1. Origin
  BY DEF Inv, DraftsInv
<1> QED
  BY <1>1 DEF Origin

\* A row is in the payload of the request that wrote it.
LEMMA RowOfPayload ==
  ASSUME NEW x \in Rows
  PROVE  /\ x.by \in Requests /\ x \in Payload(x.by) /\ x.n \in Nat
         /\ x.table = "tier" => x \in TierRows(x.by)
         /\ x.table = "class" => x \in ClassRows(x.by)
<1>1. PICK r \in Requests : x \in Payload(r)
  BY DEF Rows
<1>2. x.by = r /\ x.n \in Nat
  BY <1>1, PayloadBy
<1>3. /\ x \in TierRows(r) => x.table = "tier"
      /\ x \in ClassRows(r) => x.table = "class"
      /\ x \in ArtistRows(r) => x.table = "artist"
  BY DEF TierRows, ClassRows, ArtistRows
<1> QED
  BY <1>1, <1>2, <1>3 DEF Payload

-------------------------------------------------------------------------------
(* Types. *)

\* How a request leaves an await.
Leaves(r, next) ==
  /\ \E p \in {next, "failed", "answered"} : pc' = [pc EXCEPT ![r] = p]
  /\ shape' = shape /\ alone' = alone /\ raced' = raced
  /\ disturbed' \subseteq disturbed \cup {Draft(r)}

\* However a request leaves an await, by its next step, by a failure or by its
\* answer, it is a case of Leaves.
LEMMA LeavesSo ==
  ASSUME TypeOK, NEW r, NEW next, Step(r, next) \/ FailHalfway(r) \/ Answer(r)
  PROVE  Leaves(r, next)
  BY DEF Leaves, Step, FailHalfway, Answer, Disturb, ghosts

\* Counting from 1 to n.
LEMMA Counts ==
  ASSUME NEW n \in Nat \ {0}
  PROVE  /\ 1 \in 1 .. n /\ 1 \in Nat
         /\ \A k \in 1 .. n :
              k \in Nat /\ k + 1 \in Nat /\ (k < n => k + 1 \in 1 .. n)
  OBVIOUS

\* The variables that say where requests stand.
ControlType ==
  /\ shape \in Shapes
  /\ pc \in [Requests -> Awaits \cup Ends \cup {"idle"}]
  /\ at \in [Requests -> Nat]
  /\ \A r \in Requests :
       /\ pc[r] \in {"save class", "save artists"} => at[r] \in 1 .. NClasses
       /\ pc[r] = "number" => at[r] \in 1 .. NTiers
  /\ faults \in 0 .. MaxFaults
  /\ alone \subseteq Requests
  /\ disturbed \subseteq Requests
  /\ raced \subseteq Requests

\* Those that say what they have read and written.
DataType ==
  /\ req \in [Requests ->
       [kind : Kinds \cup {None}, draft : Requests \cup {None},
        name : Names \cup {None}]]
  /\ classIds \in [Requests -> SUBSET UNION {ClassRows(r) : r \in Requests}]
  /\ events \in [Requests -> Requests \cup {None}]
  /\ metadata \in [Requests -> Requests \cup {None}]
  /\ rows \subseteq Rows
  /\ numbered \subseteq {x \in rows : x.table = "tier"}
  /\ returned \in [Requests -> SUBSET UNION {TierRows(r) : r \in Requests}]
  /\ deleting \subseteq Rows

\* The types fall apart into those of the requests and those of the tables.
LEMMA TypeParts == /\ TypeOK <=> ControlType /\ DataType
                   /\ TypeOK' <=> ControlType' /\ DataType'
  BY DEF TypeOK, ControlType, DataType

\* A fault that is allowed stays within the bound.
LEMMA OneMoreFault ==
  ASSUME TypeOK, faults < MaxFaults PROVE faults + 1 \in 0 .. MaxFaults
<1>1. faults \in 0 .. MaxFaults
  BY DEF TypeOK
<1> QED
  BY <1>1, DraftsAssumption

\* At the beginning every variable has its type.
LEMMA InitType == ASSUME Init PROVE TypeOK
<1>1. ControlType
  BY DraftsAssumption DEF Init, ControlType
<1>2. DataType
  BY DEF Init, DataType
<1> QED
  BY <1>1, <1>2, TypeParts

\* Leaving an await keeps the types of where requests stand, if the loop's
\* position is one that the next await asks for.
LEMMA LeavesType ==
  ASSUME TypeOK, NEW r \in Requests, Draft(r) \in Requests,
         NEW next \in Awaits \cup Ends, Leaves(r, next),
         at' \in [Requests -> Nat], faults' \in 0 .. MaxFaults,
         \A q \in Requests \ {r} : at'[q] = at[q],
         next \in {"save class", "save artists"} => at'[r] \in 1 .. NClasses,
         next = "number" => at'[r] \in 1 .. NTiers
  PROVE  ControlType'
<1>1. PICK p \in {next, "failed", "answered"} : pc' = [pc EXCEPT ![r] = p]
  BY DEF Leaves
<1>2. pc' \in [Requests -> Awaits \cup Ends \cup {"idle"}]
  BY <1>1 DEF TypeOK, Ends
<1>3. NClasses' = NClasses /\ NTiers' = NTiers
  BY DEF Leaves, NClasses, NTiers
<1>4. \A q \in Requests :
         /\ pc'[q] \in {"save class", "save artists"} => at'[q] \in 1 .. NClasses
         /\ pc'[q] = "number" => at'[q] \in 1 .. NTiers
  BY <1>1 DEF TypeOK
<1> QED
  BY <1>2, <1>3, <1>4 DEF ControlType, TypeOK, Leaves

\* Each step of a request keeps the types of where requests stand.
LEMMA StepControl ==
  ASSUME TypeOK, NEW r \in Requests, Draft(r) \in Requests, RequestStep(r)
  PROVE  ControlType'
<1> USE DEF local, tables
<1>1. at \in [Requests -> Nat] /\ faults \in 0 .. MaxFaults
  BY DEF TypeOK
<1>2. NTiers \in Nat \ {0} /\ NClasses \in Nat \ {0}
  BY DraftsAssumption DEF TypeOK, NTiers, NClasses
<1>3. ASSUME NEW next \in Awaits \cup Ends, Leaves(r, next),
             at' = at, faults' = faults,
             next \in {"save class", "save artists"} => at[r] \in 1 .. NClasses,
             next # "number"
      PROVE  ControlType'
  BY <1>1, <1>3, LeavesType
<1>4. ASSUME NEW next \in Awaits \cup Ends, Leaves(r, next), NEW k \in Nat,
             at' = [at EXCEPT ![r] = k], faults' = faults,
             next \in {"save class", "save artists"} => k \in 1 .. NClasses,
             next = "number" => k \in 1 .. NTiers
      PROVE  ControlType'
  <2>1. at' \in [Requests -> Nat] /\ at'[r] = k
    BY <1>1, <1>4
  <2>2. \A q \in Requests \ {r} : at'[q] = at[q]
    BY <1>1, <1>4
  <2> QED
    BY <1>1, <1>4, <2>1, <2>2, LeavesType
<1>5. CASE FindName(r)
  <2>1. CASE Step(r, "refused")
    BY <1>3, <1>5, <2>1, LeavesSo DEF FindName, Ends
  <2>2. CASE ~Step(r, "refused")
    <3>1. /\ pc' = [pc EXCEPT ![r] = "save event"]
          /\ raced' \subseteq raced \cup {r}
          /\ UNCHANGED <<shape, alone, disturbed, at, faults>>
      BY <1>5, <2>2 DEF FindName
    <3> QED
      BY <3>1, <1>1 DEF ControlType, TypeOK, NClasses, NTiers, Awaits
  <2> QED
    BY <2>1, <2>2
<1>6. CASE SaveEvent(r)
  BY <1>3, <1>6, LeavesSo DEF SaveEvent, Awaits
<1>7. CASE CreateTicketTiers(r)
  <2>1. FailHalfway(r) \/ Step(r, "save class")
    BY <1>7 DEF CreateTicketTiers
  <2>2. at' = [at EXCEPT ![r] = 1] /\ faults' = faults
    BY <1>7 DEF CreateTicketTiers
  <2>3. Leaves(r, "save class")
    BY <2>1, LeavesSo
  <2>4. 1 \in 1 .. NClasses /\ 1 \in Nat
    BY <1>2, Counts
  <2>5. "save class" \in Awaits /\ "save class" # "number"
    BY DEF Awaits
  <2> QED
    BY <1>4, <2>2, <2>3, <2>4, <2>5
<1>8. CASE SaveArtistClass(r)
  BY <1>3, <1>8, LeavesSo DEF SaveArtistClass, Awaits, TypeOK
<1>9. CASE SaveArtists(r)
  <2>1. faults' = faults /\ at[r] \in 1 .. NClasses
    BY <1>9 DEF SaveArtists, TypeOK
  <2>2. CASE FailHalfway(r) /\ at' = at
    BY <1>3, <2>1, <2>2, LeavesSo DEF Ends
  <2>3. CASE /\ at[r] < NClasses /\ Step(r, "save class")
             /\ at' = [at EXCEPT ![r] = @ + 1]
    <3>1. at[r] + 1 \in 1 .. NClasses /\ at[r] + 1 \in Nat
      BY <1>2, <2>1, <2>3, Counts
    <3>2. Leaves(r, "save class") /\ at' = [at EXCEPT ![r] = at[r] + 1]
      BY <2>3, LeavesSo
    <3>3. "save class" \in Awaits /\ "save class" # "number"
      BY DEF Awaits
    <3> QED
      BY <1>4, <2>1, <3>1, <3>2, <3>3
  <2>4. CASE /\ at' = [at EXCEPT ![r] = 1]
             /\ Step(r, "number") \/ Answer(r)
    <3>1. PICK next \in {"number", "answered"} : Leaves(r, next)
      BY <2>4, LeavesSo
    <3>2. 1 \in 1 .. NTiers /\ 1 \in Nat
      BY <1>2
    <3> QED
      BY <1>4, <2>1, <2>4, <3>1, <3>2 DEF Awaits, Ends
  <2> QED
    BY <1>9, <2>2, <2>3, <2>4 DEF SaveArtists
<1>10. CASE UpdateTierIndex(r)
  <2>1. faults' = faults /\ at[r] \in 1 .. NTiers
    BY <1>10 DEF UpdateTierIndex, NumberTo, TypeOK
  <2>2. CASE /\ at[r] < NTiers /\ Step(r, "number")
             /\ at' = [at EXCEPT ![r] = @ + 1]
    <3>1. at[r] + 1 \in 1 .. NTiers /\ at[r] + 1 \in Nat
      BY <1>2, <2>1, <2>2, Counts
    <3>2. Leaves(r, "number") /\ at' = [at EXCEPT ![r] = at[r] + 1]
      BY <2>2, LeavesSo
    <3>3. "number" \in Awaits /\ "number" \notin {"save class", "save artists"}
      BY DEF Awaits
    <3> QED
      BY <1>4, <2>1, <3>1, <3>2, <3>3
  <2>3. CASE Step(r, "metadata") /\ at' = at
    BY <1>3, <2>1, <2>3, LeavesSo DEF Awaits
  <2> QED
    BY <1>10, <2>2, <2>3 DEF UpdateTierIndex, NumberTo
<1>11. CASE SaveMetadata(r)
  BY <1>3, <1>11, LeavesSo DEF SaveMetadata, Ends
<1>12. CASE ReadEvent(r) \/ FindDraft(r)
  <2>1. PICK next \in {"refused", "draft", "tiers"} : Step(r, next)
    BY <1>12 DEF ReadEvent, FindDraft
  <2> QED
    BY <1>3, <1>12, <2>1, LeavesSo DEF ReadEvent, FindDraft, Awaits, Ends
<1>13. CASE \/ DeleteTicketTiers(r) \/ GetArtistClasses(r)
            \/ DeleteArtists(r) \/ DeleteArtistClasses(r)
  <2>1. PICK next \in {"class ids", "artists", "classes", "find"} : Step(r, next)
    BY <1>13 DEF DeleteTicketTiers, GetArtistClasses, DeleteArtists,
                 DeleteArtistClasses
  <2>2. at' = at /\ faults' = faults
    BY <1>13 DEF DeleteTicketTiers, GetArtistClasses, DeleteArtists,
                 DeleteArtistClasses
  <2> QED
    BY <1>3, <2>1, <2>2, LeavesSo DEF Awaits
<1>14. CASE FindEvent(r)
  BY <1>3, <1>14, LeavesSo DEF FindEvent, Awaits
<1>15. CASE DeleteEvent(r)
  BY <1>3, <1>15, LeavesSo DEF DeleteEvent, Awaits
<1> QED
  BY <1>5, <1>6, <1>7, <1>8, <1>9, <1>10, <1>11, <1>12, <1>13, <1>14, <1>15
  DEF RequestStep

\* What a request inserts depends on the shape of its payload only.
LEMMA SameShape ==
  ASSUME shape' = shape
  PROVE  /\ Rows' = Rows
         /\ \A r : /\ Payload(r)' = Payload(r) /\ TierRows(r)' = TierRows(r)
                   /\ ClassRows(r)' = ClassRows(r)
                   /\ ArtistRows(r)' = ArtistRows(r)
  BY DEF Rows, Payload, TierRows, ClassRows, ArtistRows, NTiers, NClasses

\* Each step of a request keeps the types of the tables.
LEMMA StepData ==
  ASSUME TypeOK, NEW r \in Requests, Draft(r) \in Requests, RequestStep(r)
  PROVE  DataType'
<1> USE DEF local, tables, Step
<1>1. DataType
  BY TypeParts
<1>2. shape' = shape /\ req' = req
  BY DEF RequestStep, FindName, SaveEvent, CreateTicketTiers, SaveArtistClass,
         SaveArtists, UpdateTierIndex, NumberTo, SaveMetadata, ReadEvent,
         FindDraft, DeleteTicketTiers, GetArtistClasses, DeleteArtists,
         DeleteArtistClasses, FindEvent, DeleteEvent, FailHalfway, Answer
<1>3. /\ Payload(r) \subseteq Rows /\ TierRows(r) \subseteq Rows
      /\ ClassRows(r) \subseteq Rows /\ ArtistRows(r) \subseteq Rows
  BY DEF Rows, Payload
<1>4. \A x \in TierRows(r) : x.table = "tier"
  BY DEF TierRows
<1>5. ASSUME UNCHANGED <<classIds, returned, numbered, deleting>>,
             events' \in [Requests -> Requests \cup {None}],
             metadata' \in [Requests -> Requests \cup {None}],
             rows \subseteq rows', rows' \subseteq rows \cup Payload(r)
      PROVE  DataType'
  BY <1>1, <1>2, <1>3, <1>5, SameShape DEF DataType
<1>6. ASSUME UNCHANGED <<returned, numbered, events, metadata, rows>>,
             deleting' \subseteq deleting \cup rows,
             classIds' \in [Requests -> SUBSET UNION
                              {ClassRows(q) : q \in Requests}]
      PROVE  DataType'
  BY <1>1, <1>2, <1>3, <1>6, SameShape DEF DataType
<1>7. CASE FindName(r) \/ ReadEvent(r) \/ FindDraft(r) \/ FindEvent(r)
  BY <1>1, <1>5, <1>7 DEF FindName, ReadEvent, FindDraft, FindEvent, DataType
<1>8. CASE SaveEvent(r)
  BY <1>1, <1>5, <1>8 DEF SaveEvent, DataType
<1>9. CASE CreateTicketTiers(r) \/ SaveArtistClass(r) \/ SaveArtists(r)
  <2>1. rows \subseteq rows' /\ rows' \subseteq rows \cup Payload(r)
    BY <1>9 DEF CreateTicketTiers, SaveArtistClass, SaveArtists, Payload
  <2>2. UNCHANGED <<classIds, returned, numbered, deleting, events, metadata>>
    BY <1>9 DEF CreateTicketTiers, SaveArtistClass, SaveArtists
  <2> QED
    BY <1>1, <1>5, <2>1, <2>2 DEF DataType
<1>10. CASE UpdateTierIndex(r)
  <2>1. PICK tier \in SUBSET (TierRows(r) \cap rows) :
          /\ numbered' = numbered \cup tier
          /\ returned' = [returned EXCEPT ![r] = @ \cup tier]
    BY <1>10 DEF UpdateTierIndex, NumberTo
  <2>2. UNCHANGED <<classIds, events, metadata, rows, deleting>>
    BY <1>10 DEF UpdateTierIndex, NumberTo
  <2>3. returned' \in [Requests -> SUBSET UNION {TierRows(q) : q \in Requests}]
    BY <1>1, <2>1 DEF DataType
  <2>4. numbered' \subseteq {x \in rows : x.table = "tier"}
    BY <1>1, <1>4, <2>1 DEF DataType
  <2> QED
    BY <1>1, <1>2, <2>2, <2>3, <2>4, SameShape DEF DataType
<1>11. CASE SaveMetadata(r)
  BY <1>1, <1>5, <1>11 DEF SaveMetadata, DataType
<1>12. CASE \/ DeleteTicketTiers(r) \/ GetArtistClasses(r)
            \/ DeleteArtists(r) \/ DeleteArtistClasses(r)
  <2>1. deleting' \subseteq deleting \cup rows
    BY <1>12 DEF DeleteTicketTiers, GetArtistClasses, DeleteArtists,
                 DeleteArtistClasses, BelowIn, Below, ArtistsOf
  <2>2. BelowIn(Draft(r), "class") \subseteq UNION {ClassRows(q) : q \in Requests}
    BY <1>1, RowOfPayload DEF DataType, BelowIn, Below
  <2>3. classIds' \in [Requests -> SUBSET UNION {ClassRows(q) : q \in Requests}]
    BY <1>1, <1>12, <2>2 DEF DeleteTicketTiers, GetArtistClasses, DeleteArtists,
                             DeleteArtistClasses, DataType
  <2>4. UNCHANGED <<returned, numbered, events, metadata, rows>>
    BY <1>12 DEF DeleteTicketTiers, GetArtistClasses, DeleteArtists,
                 DeleteArtistClasses
  <2> QED
    BY <1>6, <2>1, <2>3, <2>4
<1>13. CASE DeleteEvent(r)
  BY <1>1, <1>5, <1>13 DEF DeleteEvent, DataType
<1> QED
  BY <1>7, <1>8, <1>9, <1>10, <1>11, <1>12, <1>13 DEF RequestStep

\* Each step of a request keeps the types.
LEMMA StepType ==
  ASSUME TypeOK, NEW r \in Requests, Draft(r) \in Requests, RequestStep(r)
  PROVE  TypeOK'
  BY StepControl, StepData, TypeParts

\* A delete reaches the database, or the process ends.
LEMMA DeleteType ==
  ASSUME Inv, \/ \E x \in Rows : ExecuteDelete(x)
              \/ RejectDelete \/ Restart
  PROVE  TypeOK'
<1> USE DEF local, ghosts
<1>1. rows' \subseteq rows /\ deleting' \subseteq deleting
  BY DEF ExecuteDelete, RejectDelete, Restart, Stop
<1>2. numbered' \subseteq {x \in rows' : x.table = "tier"}
  BY DEF ExecuteDelete, RejectDelete, Restart, Stop, Inv, TypeOK
<1>3. /\ shape' = shape
      /\ UNCHANGED <<req, at, classIds, returned, events, metadata, alone, raced>>
  BY DEF ExecuteDelete, RejectDelete, Restart, Stop
<1>4. DataType'
  <2>1. DataType
    BY TypeParts DEF Inv
  <2> QED
    BY <1>1, <1>2, <1>3, <2>1, SameShape DEF DataType
<1>5. /\ pc' \in [Requests -> Awaits \cup Ends \cup {"idle"}]
      /\ \A r \in Requests : pc'[r] = pc[r] \/ pc'[r] = "failed"
  BY DEF ExecuteDelete, RejectDelete, Restart, Stop, Inv, TypeOK, Ends
<1>6. faults' \in 0 .. MaxFaults
  <2>1. faults' = faults \/ (faults < MaxFaults /\ faults' = faults + 1)
    BY DEF ExecuteDelete, RejectDelete, Restart
  <2>2. faults \in 0 .. MaxFaults
    BY DEF Inv, TypeOK
  <2> QED
    BY <2>1, <2>2, OneMoreFault DEF Inv
<1>7. disturbed' \subseteq Requests
  <2>1. disturbed' \subseteq disturbed \cup
          {Draft(q) : q \in {p \in Requests : Changing(p)}}
    BY DEF ExecuteDelete, RejectDelete, Restart, Stop, Disturb
  <2>2. ASSUME NEW q \in Requests, Changing(q) PROVE Draft(q) \in Requests
    <3>1. pc[q] # "idle"
      BY <2>2 DEF Changing, InFlight, Awaits
    <3> QED
      BY <3>1, DraftOf
  <2>3. disturbed \subseteq Requests
    BY DEF Inv, TypeOK
  <2> QED
    BY <2>1, <2>2, <2>3
<1>8. ControlType'
  BY <1>3, <1>5, <1>6, <1>7 DEF ControlType, Inv, TypeOK, NClasses, NTiers
<1> QED
  BY <1>4, <1>8, TypeParts

\* A query that rejects keeps the types.
LEMMA RejectType ==
  ASSUME Inv, NEW r \in Requests, Reject(r) PROVE TypeOK'
<1> USE DEF Inv, Reject, FailHalfway, local, tables
<1>1. Draft(r) \in Requests
  BY DEF InFlight, Awaits, DraftsInv, Origin
<1>2. faults' \in 0 .. MaxFaults
  BY OneMoreFault
<1>3. DataType'
  <2>1. DataType
    BY TypeParts
  <2> QED
    BY <2>1, SameShape DEF DataType
<1>4. ControlType'
  BY <1>1, <1>2 DEF ControlType, TypeOK, Disturb, Ends, NClasses, NTiers
<1> QED
  BY <1>3, <1>4, TypeParts

\* A new request keeps the types.
LEMMA BeginType ==
  ASSUME TypeOK, NEW r \in Requests, NEW kind \in Kinds, NEW e \in Requests,
         NEW n \in Names, Begin(r, kind, e, n)
  PROVE  TypeOK'
<1>1. FirstAwait(kind) \in {"name", "read", "draft", "save event"}
  BY DEF FirstAwait, Kinds
<1>2. /\ req' = [req EXCEPT ![r] = [kind |-> kind, draft |-> e, name |-> n]]
      /\ pc' = [pc EXCEPT ![r] = FirstAwait(kind)]
      /\ UNCHANGED <<shape, at, classIds, returned, events, metadata, rows,
                     numbered, deleting, faults, raced>>
  BY DEF Begin, tables
<1>3. DataType'
  <2>1. DataType
    BY TypeParts
  <2>2. req' \in [Requests ->
          [kind : Kinds \cup {None}, draft : Requests \cup {None},
           name : Names \cup {None}]]
    <3>1. [kind |-> kind, draft |-> e, name |-> n] \in
            [kind : Kinds \cup {None}, draft : Requests \cup {None},
             name : Names \cup {None}]
      OBVIOUS
    <3>2. req \in [Requests ->
            [kind : Kinds \cup {None}, draft : Requests \cup {None},
             name : Names \cup {None}]]
      BY <2>1 DEF DataType
    <3> QED
      BY <1>2, <3>1, <3>2
  <2> QED
    BY <1>2, <2>1, <2>2, SameShape DEF DataType
<1>4. alone' \subseteq Requests /\ disturbed' \subseteq Requests
  BY DEF TypeOK, Begin, Disturb
<1>5. ControlType'
  BY <1>1, <1>2, <1>4 DEF ControlType, TypeOK, Awaits, NClasses, NTiers
<1> QED
  BY <1>3, <1>5, TypeParts

-------------------------------------------------------------------------------
(* What a request may change: what belongs to the draft it is about. *)

\* What a step of r may change: its own local state, the rows below its draft
\* (inserted by r, or sent to be deleted), and the draft itself.
Local(r) ==
  /\ shape' = shape /\ req' = req /\ alone' = alone /\ raced \subseteq raced'
  /\ InFlight(r) /\ pc'[r] \in Awaits \cup Ends
  /\ \A q \in Requests \ {r} : /\ pc'[q] = pc[q] /\ at'[q] = at[q]
                               /\ classIds'[q] = classIds[q]
                               /\ returned'[q] = returned[q]
  /\ \A e \in Requests \ {Draft(r)} : /\ events'[e] = events[e]
                                      /\ metadata'[e] = metadata[e]
                                      /\ e \in disturbed' <=> e \in disturbed
  /\ rows \subseteq rows' /\ rows' \subseteq rows \cup Payload(r)
  /\ numbered \subseteq numbered' /\ numbered' \subseteq numbered \cup Payload(r)
  /\ deleting \subseteq deleting'
  /\ deleting' \subseteq deleting \cup Below(Draft(r))
  /\ classIds'[r] \subseteq classIds[r] \cup Below(Draft(r))
  /\ Draft(r) \in disturbed \ disturbed' => r \in alone

\* How a request that leaves an await, or fails there, stays local.
LEMMA LeavesLocal ==
  ASSUME TypeOK, NEW r \in Requests, NEW next \in Awaits \cup Ends,
         Step(r, next) \/ FailHalfway(r) \/ Answer(r)
  PROVE  /\ shape' = shape /\ alone' = alone /\ raced' = raced
         /\ pc'[r] \in Awaits \cup Ends
         /\ \A q \in Requests \ {r} : pc'[q] = pc[q]
         /\ \A e \in Requests \ {Draft(r)} : e \in disturbed' <=> e \in disturbed
         /\ Draft(r) \in disturbed \ disturbed' => r \in alone
<1>1. \E p \in {next, "failed", "answered"} : pc' = [pc EXCEPT ![r] = p]
  BY DEF Step, FailHalfway, Answer
<1>2. pc'[r] \in Awaits \cup Ends /\ \A q \in Requests \ {r} : pc'[q] = pc[q]
  BY <1>1 DEF TypeOK, Ends
<1>3. CASE Step(r, next)
  BY <1>2, <1>3 DEF Step, ghosts
<1>4. CASE FailHalfway(r)
  BY <1>2, <1>4 DEF FailHalfway, Disturb
<1>5. CASE Answer(r)
  BY <1>2, <1>5 DEF Answer
<1> QED
  BY <1>3, <1>4, <1>5

\* The artists of the classes that a request has looked up are below its draft.
LEMMA ArtistsBelow ==
  ASSUME Inv, NEW r \in Requests, pc[r] # "idle"
  PROVE  ArtistsOf(classIds[r]) \subseteq Below(Draft(r))
<1>1. SUFFICES ASSUME NEW x \in ArtistsOf(classIds[r]) PROVE Draft(x.by) = Draft(r)
  BY DEF ArtistsOf, Below
<1>2. x \in Rows
  BY DEF Inv, TypeOK, ArtistsOf
<1>3. PICK q \in Requests : x \in Payload(q)
  BY <1>2 DEF Rows
<1>4. x.table = "artist" /\ [x EXCEPT !.table = "class"] \in classIds[r]
  BY DEF ArtistsOf
<1>5. [x EXCEPT !.table = "class"].by = x.by
  BY <1>3, <1>4 DEF Payload, TierRows, ClassRows, ArtistRows
<1>6. Origin
  BY DEF Inv, DraftsInv
<1> QED
  BY <1>4, <1>5, <1>6 DEF Origin

\* Each step of a request, and each rejection, is local.
LEMMA StepLocal ==
  ASSUME Inv, NEW r \in Requests, RequestStep(r) \/ Reject(r)
  PROVE  Local(r)
<1> USE DEF local, tables
<1>1. TypeOK
  BY DEF Inv
<1>2. InFlight(r) /\ pc[r] # "idle"
  BY DEF RequestStep, Reject, InFlight, Awaits, FindName, SaveEvent,
     CreateTicketTiers, SaveArtistClass, SaveArtists, UpdateTierIndex, NumberTo,
     SaveMetadata, ReadEvent, FindDraft, DeleteTicketTiers, GetArtistClasses,
     DeleteArtists, DeleteArtistClasses, FindEvent, DeleteEvent
<1>3. ASSUME NEW next \in Awaits \cup Ends,
             Step(r, next) \/ FailHalfway(r) \/ Answer(r),
             req' = req,
             \A q \in Requests \ {r} : /\ at'[q] = at[q]
                                       /\ classIds'[q] = classIds[q]
                                       /\ returned'[q] = returned[q],
             \A e \in Requests \ {Draft(r)} : /\ events'[e] = events[e]
                                              /\ metadata'[e] = metadata[e],
             rows \subseteq rows', rows' \subseteq rows \cup Payload(r),
             numbered \subseteq numbered',
             numbered' \subseteq numbered \cup Payload(r),
             deleting \subseteq deleting',
             deleting' \subseteq deleting \cup Below(Draft(r)),
             classIds'[r] \subseteq classIds[r] \cup Below(Draft(r))
      PROVE  Local(r)
  <2>1. /\ shape' = shape /\ alone' = alone /\ raced' = raced
        /\ pc'[r] \in Awaits \cup Ends
        /\ \A q \in Requests \ {r} : pc'[q] = pc[q]
        /\ \A e \in Requests \ {Draft(r)} : e \in disturbed' <=> e \in disturbed
        /\ Draft(r) \in disturbed \ disturbed' => r \in alone
    BY <1>1, <1>3, LeavesLocal
  <2> QED
    BY <1>2, <1>3, <2>1 DEF Local
<1>4. CASE Reject(r)
  BY <1>3, <1>4 DEF Reject, Ends
<1>5. CASE FindName(r)
  <2>1. CASE Step(r, "refused")
    BY <1>3, <1>5, <2>1 DEF FindName, Ends
  <2>2. CASE ~Step(r, "refused")
    <3>1. /\ pc' = [pc EXCEPT ![r] = "save event"]
          /\ raced \subseteq raced'
          /\ UNCHANGED <<shape, alone, disturbed, local, tables, deleting>>
      BY <1>5, <2>2 DEF FindName
    <3>2. pc'[r] \in Awaits /\ \A q \in Requests \ {r} : pc'[q] = pc[q]
      BY <1>1, <3>1 DEF TypeOK, Awaits
    <3> QED
      BY <1>2, <3>1, <3>2 DEF Local
  <2> QED
    BY <2>1, <2>2
<1>6. CASE SaveEvent(r)
  <2>1. \A e \in Requests \ {Draft(r)} : events'[e] = events[e]
    BY <1>1, <1>6 DEF SaveEvent, TypeOK
  <2> QED
    BY <1>3, <1>6, <2>1 DEF SaveEvent, Awaits
<1>7. CASE CreateTicketTiers(r) \/ SaveArtistClass(r) \/ SaveArtists(r)
  <2>1. PICK next \in {"save class", "save artists", "number"} :
          Step(r, next) \/ FailHalfway(r) \/ Answer(r)
    BY <1>7 DEF CreateTicketTiers, SaveArtistClass, SaveArtists
  <2>2. rows \subseteq rows' /\ rows' \subseteq rows \cup Payload(r)
    BY <1>7 DEF CreateTicketTiers, SaveArtistClass, SaveArtists, Payload
  <2>3. \A q \in Requests \ {r} : at'[q] = at[q]
    BY <1>1, <1>7 DEF CreateTicketTiers, SaveArtistClass, SaveArtists, TypeOK
  <2>4. UNCHANGED <<req, classIds, returned, numbered, deleting, events, metadata>>
    BY <1>7 DEF CreateTicketTiers, SaveArtistClass, SaveArtists
  <2> QED
    BY <1>3, <2>1, <2>2, <2>3, <2>4 DEF Awaits
<1>8. CASE UpdateTierIndex(r)
  <2>1. PICK next \in {"number", "metadata"} : Step(r, next)
    BY <1>8 DEF UpdateTierIndex, NumberTo
  <2>2. numbered \subseteq numbered' /\ numbered' \subseteq numbered \cup Payload(r)
    BY <1>8 DEF UpdateTierIndex, NumberTo, Payload
  <2>3. \A q \in Requests \ {r} : at'[q] = at[q] /\ returned'[q] = returned[q]
    BY <1>1, <1>8 DEF UpdateTierIndex, NumberTo, TypeOK
  <2>4. UNCHANGED <<req, classIds, rows, deleting, events, metadata>>
    BY <1>8 DEF UpdateTierIndex, NumberTo
  <2> QED
    BY <1>3, <2>1, <2>2, <2>3, <2>4 DEF Awaits
<1>9. CASE SaveMetadata(r)
  <2>1. \A e \in Requests \ {Draft(r)} : metadata'[e] = metadata[e]
    BY <1>1, <1>9 DEF SaveMetadata, TypeOK
  <2> QED
    BY <1>3, <1>9, <2>1 DEF SaveMetadata, Ends
<1>10. CASE ReadEvent(r) \/ FindDraft(r)
  <2>1. PICK next \in {"refused", "draft", "tiers"} : Step(r, next)
    BY <1>10 DEF ReadEvent, FindDraft
  <2> QED
    BY <1>3, <1>10, <2>1 DEF ReadEvent, FindDraft, Awaits, Ends
<1>11. CASE \/ DeleteTicketTiers(r) \/ GetArtistClasses(r)
            \/ DeleteArtists(r) \/ DeleteArtistClasses(r)
  <2>1. PICK next \in {"class ids", "artists", "classes", "find"} : Step(r, next)
    BY <1>11 DEF DeleteTicketTiers, GetArtistClasses, DeleteArtists,
                 DeleteArtistClasses
  <2>2. /\ deleting \subseteq deleting'
        /\ deleting' \subseteq deleting \cup Below(Draft(r))
    BY <1>2, <1>11, ArtistsBelow DEF DeleteTicketTiers, GetArtistClasses,
       DeleteArtists, DeleteArtistClasses, BelowIn
  <2>3. /\ classIds'[r] \subseteq classIds[r] \cup Below(Draft(r))
        /\ \A q \in Requests \ {r} : classIds'[q] = classIds[q]
    BY <1>1, <1>11 DEF DeleteTicketTiers, GetArtistClasses, DeleteArtists,
       DeleteArtistClasses, BelowIn, TypeOK
  <2>4. UNCHANGED <<req, at, returned, numbered, events, metadata, rows>>
    BY <1>11 DEF DeleteTicketTiers, GetArtistClasses, DeleteArtists,
                 DeleteArtistClasses
  <2> QED
    BY <1>3, <2>1, <2>2, <2>3, <2>4 DEF Awaits
<1>12. CASE FindEvent(r)
  BY <1>3, <1>12 DEF FindEvent, Awaits
<1>13. CASE DeleteEvent(r)
  <2>1. \A e \in Requests \ {Draft(r)} : /\ events'[e] = events[e]
                                         /\ metadata'[e] = metadata[e]
    BY <1>1, <1>13 DEF DeleteEvent, TypeOK
  <2>2. Step(r, "save event") \/ FailHalfway(r) \/ Answer(r)
    BY <1>13 DEF DeleteEvent
  <2> QED
    BY <1>3, <1>13, <2>1, <2>2 DEF DeleteEvent, Awaits
<1> QED
  BY <1>4, <1>5, <1>6, <1>7, <1>8, <1>9, <1>10, <1>11, <1>12, <1>13
  DEF RequestStep

-------------------------------------------------------------------------------
(* What a local step leaves as it was. *)

\* A local step neither begins a request nor changes what one is about.
LEMMA LocalOrigin ==
  ASSUME Inv, TypeOK', NEW r \in Requests, Local(r)
  PROVE  /\ \A q \in Requests : pc[q] # "idle" => pc'[q] # "idle"
         /\ \A q \in Requests : pc'[q] # "idle" => pc[q] # "idle"
         /\ \A q : Draft(q)' = Draft(q)
         /\ Draft(r) \in Requests
<1>1. pc'[r] # "idle" /\ pc[r] # "idle"
  BY DEF Local, Awaits, Ends, InFlight
<1>2. \A q : Draft(q)' = Draft(q)
  BY DEF Local, Draft
<1> QED
  BY <1>1, <1>2, DraftOf DEF Local

\* Of other drafts, rows and deletes are what they were.
LEMMA LocalBelow ==
  ASSUME Inv, TypeOK', NEW r \in Requests, Local(r), NEW e, e # Draft(r)
  PROVE  Below(e)' = Below(e) /\ Below(e) \cap deleting' = Below(e) \cap deleting
<1>1. \A q : Draft(q)' = Draft(q)
  BY LocalOrigin
<1>2. \A x \in rows' : x \in rows \/ x.by = r
  BY PayloadBy DEF Local
<1>3. \A x \in deleting' : x \in deleting \/ Draft(x.by) = Draft(r)
  BY DEF Local, Below
<1>4. rows \subseteq rows' /\ deleting \subseteq deleting'
  BY DEF Local
<1> QED
  BY <1>1, <1>2, <1>3, <1>4 DEF Below

\* A local step leaves the drafts of other requests whole.
LEMMA LocalWhole ==
  ASSUME Inv, TypeOK', NEW r \in Requests, Local(r),
         NEW e \in Requests, e # Draft(r), Untouched(e)'
  PROVE  Whole(e)'
<1>1. /\ events'[e] = events[e] /\ metadata'[e] = metadata[e]
      /\ e \in disturbed' <=> e \in disturbed
  BY DEF Local
<1>2. \A q : Draft(q)' = Draft(q)
  BY LocalOrigin
<1>3. Untouched(e)
  BY <1>1, <1>2 DEF Untouched, Changing, InFlight, Local
<1>4. Whole(e) /\ Draft(events[e]) = e /\ events[e] \in Requests
  BY <1>3 DEF Inv, DraftsInv, Origin, Untouched, TypeOK
<1>5. returned'[events[e]] = returned[events[e]]
  BY <1>4 DEF Local
<1>6. shape' = shape /\ numbered \subseteq numbered'
  BY DEF Local
<1> QED
  BY <1>1, <1>4, <1>5, <1>6, LocalBelow, SameShape DEF Whole

\* What another request that is alone with its draft holds in its hands is not
\* disturbed by a local step.
LEMMA LocalHand ==
  ASSUME Inv, TypeOK', NEW r \in Requests, Local(r),
         NEW q \in Requests \ {r}, q \in alone', InFlight(q)'
  PROVE  Hand(q)'
<1>1. /\ pc'[q] = pc[q] /\ at'[q] = at[q] /\ returned'[q] = returned[q]
      /\ Draft(q)' = Draft(q) /\ shape' = shape /\ alone' = alone
  BY LocalOrigin DEF Local
<1>2. InFlight(q) /\ InFlight(r)
  BY <1>1 DEF InFlight, Local
<1>3. Draft(q) # Draft(r)
  BY <1>1, <1>2 DEF Inv, DraftsInv, AloneInv
<1>4. Draft(q) \in Requests
  BY <1>2, DraftOf DEF InFlight, Awaits
<1>5. Hand(q)
  BY <1>1, <1>2 DEF Inv, DraftsInv
<1>6. Written(q)' = Written(q)
  <2>1. Payload(q)' = Payload(q)
    BY <1>1, SameShape
  <2> QED
    BY <1>1, <2>1 DEF Written
<1>7. events'[Draft(q)] = events[Draft(q)] /\ metadata'[Draft(q)] = metadata[Draft(q)]
  BY <1>3, <1>4 DEF Local
<1>8. /\ Below(Draft(q))' = Below(Draft(q))
      /\ Below(Draft(q)) \cap deleting' = Below(Draft(q)) \cap deleting
  BY <1>1, <1>3, LocalBelow
<1>9. numbered \subseteq numbered'
  BY DEF Local
<1> QED
  BY <1>1, <1>5, <1>6, <1>7, <1>8, <1>9, SameShape DEF Hand

\* Who is alone stays alone: a local step begins no request.
LEMMA LocalAlone ==
  ASSUME Inv, TypeOK', NEW r \in Requests, Local(r) PROVE AloneInv'
<1>1. AloneInv
  BY DEF Inv, DraftsInv
<1>2. alone' = alone /\ \A q : Draft(q)' = Draft(q)
  BY LocalOrigin DEF Local
<1>3. \A q \in Requests : InFlight(q)' => InFlight(q)
  BY DEF InFlight, Local
<1>4. \A q \in Requests : pc'[q] = "idle" => pc[q] = "idle"
  BY LocalOrigin
<1>5. ASSUME NEW q \in Requests, InFlight(q)', q \notin alone
      PROVE  Draft(q) \in disturbed'
  <2>1. Draft(q) \in disturbed /\ InFlight(q) /\ InFlight(r)
    BY <1>1, <1>3, <1>5 DEF AloneInv, Local
  <2>2. CASE Draft(q) = Draft(r)
    BY <1>1, <1>5, <2>1, <2>2 DEF AloneInv, Local
  <2>3. CASE Draft(q) # Draft(r)
    <3>1. Draft(q) \in Requests
      BY <2>1, DraftOf DEF InFlight, Awaits
    <3> QED
      BY <2>1, <2>3, <3>1 DEF Local
  <2> QED
    BY <2>2, <2>3
<1> QED
  BY <1>1, <1>2, <1>3, <1>4, <1>5 DEF AloneInv

-------------------------------------------------------------------------------
(* Every step of a request keeps what has been begun, and names apart. *)

\* The awaits of an update or a delete before it writes anything of its own.
Replacing == {"read", "draft", "delete"} \cup
             {"tiers", "class ids", "artists", "classes", "find"}

\* A local step keeps where drafts and rows come from, if it puts nothing but
\* the request itself, or nothing at all, in the place of the draft.
LEMMA OriginKeeps ==
  ASSUME Inv, TypeOK', NEW r \in Requests, Local(r),
         pc'[r] \in Replacing => pc[r] \in Replacing,
         returned'[r] # {} => pc'[r] \in {"number", "metadata"} \cup Ends,
         events'[Draft(r)] \in {events[Draft(r)], r, None},
         events'[Draft(r)] = None => metadata'[Draft(r)] = None
  PROVE  Origin'
<1>1. Origin
  BY DEF Inv, DraftsInv
<1>2. /\ \A q \in Requests : pc[q] # "idle" <=> pc'[q] # "idle"
      /\ \A q : Draft(q)' = Draft(q)
      /\ Draft(r) \in Requests /\ pc[r] # "idle" /\ req' = req
  BY LocalOrigin DEF Local, InFlight, Awaits
<1>3. deleting' \subseteq rows' /\ \A x \in rows' : pc'[x.by] # "idle"
  <2>1. deleting' \subseteq rows'
    BY <1>1 DEF Origin, Local, Below
  <2>2. \A x \in rows : x.by \in Requests
    BY RowOfPayload DEF Inv, TypeOK
  <2>3. \A x \in rows' : x \in rows \/ x.by = r
    BY PayloadBy DEF Local
  <2> QED
    BY <1>1, <1>2, <2>1, <2>2, <2>3 DEF Origin
<1>4. ASSUME NEW q \in Requests, pc'[q] # "idle"
      PROVE  /\ Draft(q) \in Requests /\ pc'[Draft(q)] # "idle"
             /\ req[q].kind \in {"save", "publish new"} => Draft(q) = q
             /\ pc'[q] \in Replacing =>
                  req[q].kind \notin {"save", "publish new"}
             /\ \A x \in classIds'[q] :
                  pc'[x.by] # "idle" /\ Draft(x.by) = Draft(q)
  <2>1. /\ pc[q] # "idle" /\ Draft(q) \in Requests /\ pc'[Draft(q)] # "idle"
        /\ req[q].kind \in {"save", "publish new"} => Draft(q) = q
        /\ pc[q] \in Replacing => req[q].kind \notin {"save", "publish new"}
    BY <1>1, <1>2, <1>4 DEF Origin, Replacing
  <2>2. pc'[q] \in Replacing => pc[q] \in Replacing
    BY DEF Local
  <2>3. \A x \in classIds'[q] :
          x \in classIds[q] \/ (x \in rows /\ Draft(x.by) = Draft(q))
    BY DEF Local, Below
  <2>4. \A x \in classIds[q] : x.by \in Requests
    <3>1. classIds[q] \subseteq UNION {ClassRows(p) : p \in Requests}
      BY DEF Inv, TypeOK
    <3> QED
      BY <3>1, PayloadBy DEF Payload
  <2>5. \A x \in rows : x.by \in Requests
    BY RowOfPayload DEF Inv, TypeOK
  <2>6. \A x \in classIds'[q] : pc'[x.by] # "idle" /\ Draft(x.by) = Draft(q)
    BY <1>1, <1>2, <2>1, <2>3, <2>4, <2>5 DEF Origin
  <2> QED
    BY <2>1, <2>2, <2>6
<1>5. ASSUME NEW q \in Requests
      PROVE  /\ pc'[q] = "idle" => classIds'[q] = {}
             /\ returned'[q] # {} => pc'[q] \in {"number", "metadata"} \cup Ends
  <2>1. CASE q = r
    BY <1>2, <2>1
  <2>2. CASE q # r
    BY <1>1, <2>2 DEF Origin, Local
  <2> QED
    BY <2>1, <2>2
<1>6. ASSUME NEW e \in Requests
      PROVE  IF events'[e] = None THEN metadata'[e] = None
             ELSE pc'[events'[e]] # "idle" /\ Draft(events'[e]) = e
  <2>1. events[e] \in Requests \cup {None} /\ None \notin Requests
    BY DraftsAssumption DEF Inv, TypeOK
  <2>2. IF events[e] = None THEN metadata[e] = None
        ELSE pc'[events[e]] # "idle" /\ Draft(events[e]) = e
    BY <1>1, <1>2, <2>1 DEF Origin
  <2>3. CASE e = Draft(r)
    BY <1>2, <2>1, <2>2, <2>3
  <2>4. CASE e # Draft(r)
    BY <2>2, <2>4 DEF Local
  <2> QED
    BY <2>3, <2>4
<1> QED
  BY <1>2, <1>3, <1>4, <1>5, <1>6 DEF Origin, Replacing

\* Each step of a request keeps where drafts and rows come from.
LEMMA StepOrigin ==
  ASSUME Inv, TypeOK', NEW r \in Requests, RequestStep(r) \/ Reject(r)
  PROVE  Origin'
<1> USE DEF local, tables
<1>1. Local(r) /\ TypeOK /\ Origin
  BY StepLocal DEF Inv, DraftsInv
<1>2. Draft(r) \in Requests
  BY <1>1, LocalOrigin
<1>3. /\ returned[r] # {} => pc[r] \in {"number", "metadata"} \cup Ends
      /\ events[Draft(r)] = None => metadata[Draft(r)] = None
  BY <1>1, <1>2 DEF Origin
<1>4. ASSUME UNCHANGED <<returned, events, metadata>>,
             NEW next \in Awaits \cup Ends,
             Step(r, next) \/ FailHalfway(r) \/ Answer(r),
             next \in Replacing => pc[r] \in Replacing,
             pc[r] \notin {"number", "metadata"} \/ next \in Ends
      PROVE  Origin'
  <2>1. pc'[r] \in {next, "failed", "answered"}
    BY <1>1, <1>4 DEF TypeOK, Step, FailHalfway, Answer
  <2>2. pc'[r] \in Replacing => pc[r] \in Replacing
    BY <1>4, <2>1 DEF Replacing
  <2>3. returned'[r] # {} => pc'[r] \in {"number", "metadata"} \cup Ends
    BY <1>1, <1>3, <1>4, <2>1 DEF Ends, Local, InFlight, Awaits
  <2> QED
    BY <1>1, <1>3, <1>4, <2>2, <2>3, OriginKeeps
<1>5. CASE Reject(r)
  BY <1>4, <1>5 DEF Reject, Ends, Replacing
<1>6. CASE FindName(r)
  <2>1. pc'[r] \in {"refused", "save event"} /\ returned[r] = {}
    BY <1>1, <1>3, <1>6 DEF FindName, TypeOK, Step, Ends
  <2>2. UNCHANGED <<returned, events, metadata>>
    BY <1>6 DEF FindName
  <2> QED
    BY <1>1, <1>3, <2>1, <2>2, OriginKeeps DEF Replacing
<1>7. CASE SaveEvent(r)
  <2>1. /\ pc'[r] = "save tiers" /\ returned'[r] = {}
        /\ events'[Draft(r)] = r /\ r # None
    BY <1>1, <1>2, <1>3, <1>7, DraftsAssumption DEF SaveEvent, TypeOK, Step, Ends
  <2> QED
    BY <1>1, <2>1, OriginKeeps DEF Replacing
<1>8. CASE CreateTicketTiers(r) \/ SaveArtistClass(r) \/ SaveArtists(r)
  <2>1. PICK next \in {"save class", "save artists", "number"} :
          Step(r, next) \/ FailHalfway(r) \/ Answer(r)
    BY <1>8 DEF CreateTicketTiers, SaveArtistClass, SaveArtists
  <2>2. UNCHANGED <<returned, events, metadata>>
    BY <1>8 DEF CreateTicketTiers, SaveArtistClass, SaveArtists
  <2>3. pc[r] \in {"save tiers", "save class", "save artists"}
    BY <1>8 DEF CreateTicketTiers, SaveArtistClass, SaveArtists
  <2> QED
    BY <1>4, <2>1, <2>2, <2>3 DEF Awaits, Replacing
<1>9. CASE UpdateTierIndex(r)
  <2>1. pc'[r] \in {"number", "metadata"}
    BY <1>1, <1>9 DEF UpdateTierIndex, NumberTo, TypeOK, Step
  <2>2. UNCHANGED <<events, metadata>>
    BY <1>9 DEF UpdateTierIndex, NumberTo
  <2> QED
    BY <1>1, <1>3, <2>1, <2>2, OriginKeeps DEF Replacing
<1>10. CASE SaveMetadata(r)
  <2>1. pc'[r] = "answered" /\ UNCHANGED <<returned, events>>
    BY <1>1, <1>10 DEF SaveMetadata, Answer, TypeOK
  <2>2. events[Draft(r)] = None => metadata' = metadata
    BY <1>10 DEF SaveMetadata
  <2> QED
    BY <1>1, <1>3, <2>1, <2>2, OriginKeeps DEF Replacing, Ends
<1>11. CASE ReadEvent(r) \/ FindDraft(r)
  <2>1. PICK next \in {"refused", "draft", "tiers"} : Step(r, next)
    BY <1>11 DEF ReadEvent, FindDraft
  <2> QED
    BY <1>4, <1>11, <2>1 DEF ReadEvent, FindDraft, Awaits, Ends, Replacing
<1>12. CASE \/ DeleteTicketTiers(r) \/ GetArtistClasses(r)
            \/ DeleteArtists(r) \/ DeleteArtistClasses(r)
  <2>1. PICK next \in {"class ids", "artists", "classes", "find"} : Step(r, next)
    BY <1>12 DEF DeleteTicketTiers, GetArtistClasses, DeleteArtists,
                 DeleteArtistClasses
  <2>2. UNCHANGED <<returned, events, metadata>>
    BY <1>12 DEF DeleteTicketTiers, GetArtistClasses, DeleteArtists,
                 DeleteArtistClasses
  <2>3. pc[r] \in {"tiers", "class ids", "artists", "classes"}
    BY <1>12 DEF DeleteTicketTiers, GetArtistClasses, DeleteArtists,
                 DeleteArtistClasses
  <2> QED
    BY <1>4, <2>1, <2>2, <2>3 DEF Awaits, Replacing
<1>13. CASE FindEvent(r)
  BY <1>4, <1>13 DEF FindEvent, Awaits, Replacing
<1>14. CASE DeleteEvent(r)
  <2>1. CASE UNCHANGED <<events, metadata>> /\ FailHalfway(r)
    BY <1>4, <1>14, <2>1 DEF DeleteEvent, Ends, Replacing
  <2>2. CASE ~(UNCHANGED <<events, metadata>> /\ FailHalfway(r))
    <3>1. /\ events'[Draft(r)] = None /\ metadata'[Draft(r)] = None
          /\ pc'[r] \in {"answered", "save event"}
          /\ returned' = returned /\ pc[r] = "delete"
      BY <1>1, <1>2, <1>14, <2>2 DEF DeleteEvent, TypeOK, Answer, Step
    <3>2. returned'[r] = {}
      BY <1>3, <3>1 DEF Ends
    <3> QED
      BY <1>1, <3>1, <3>2, OriginKeeps DEF Replacing
  <2> QED
    BY <2>1, <2>2
<1> QED
  BY <1>5, <1>6, <1>7, <1>8, <1>9, <1>10, <1>11, <1>12, <1>13, <1>14
  DEF RequestStep

\* A save passes its check once; nothing else makes it one that has passed.
LEMMA StepNames ==
  ASSUME Inv, TypeOK', NEW r \in Requests, RequestStep(r) \/ Reject(r)
  PROVE  NamesInv'
<1> USE DEF local, tables
<1>1. Local(r) /\ TypeOK /\ Origin /\ NamesInv
  BY StepLocal DEF Inv, DraftsInv
<1>2. req' = req /\ raced \subseteq raced' /\ Draft(r) \in Requests
  BY <1>1, LocalOrigin DEF Local
<1>3. ASSUME \A q \in Requests : Passed(q)' => Passed(q) PROVE NamesInv'
  BY <1>1, <1>2, <1>3 DEF NamesInv
<1>4. ASSUME events'[Draft(r)] \in {events[Draft(r)], None} \cup
               (IF pc[r] = "save event" THEN {r} ELSE {}),
             req[r].kind = "save" /\ pc'[r] = "save event" => pc[r] = "save event"
      PROVE  NamesInv'
  <2>1. SUFFICES ASSUME NEW q \in Requests, Passed(q)' PROVE Passed(q)
    BY <1>3
  <2>2. req[q].kind = "save" /\ (pc'[q] = "save event" \/ events'[q] = q)
    BY <1>2, <2>1 DEF Passed
  <2>3. CASE pc'[q] = "save event"
    BY <1>1, <1>4, <2>2, <2>3 DEF Passed, Local
  <2>4. CASE events'[q] = q
    <3>1. q # None
      BY DraftsAssumption
    <3>2. events[q] = q \/ (q = r /\ pc[r] = "save event")
      BY <1>1, <1>4, <2>4, <3>1 DEF Local
    <3> QED
      BY <2>2, <3>2 DEF Passed
  <2> QED
    BY <2>2, <2>3, <2>4
<1>5. CASE FindName(r)
  <2>1. CASE Step(r, "refused")
    BY <1>1, <1>4, <1>5, <2>1 DEF FindName, Step, TypeOK
  <2>2. CASE ~Step(r, "refused")
    <3>1. /\ ~\E e \in Requests : events[e] # None /\ Name(e) = req[r].name
          /\ pc' = [pc EXCEPT ![r] = "save event"]
          /\ raced' =
               IF \E q \in Requests : /\ pc[q] = "save event"
                                      /\ req[q].name = req[r].name
               THEN raced \cup {r} ELSE raced
          /\ events' = events
      BY <1>5, <2>2 DEF FindName
    <3>2. ASSUME NEW q \in Requests, q # r, Passed(q)'
          PROVE  Passed(q) /\ (req[q].name = req[r].name => r \in raced')
      <4>1. Passed(q)
        BY <1>1, <1>2, <3>1, <3>2 DEF Passed, TypeOK
      <4>2. ASSUME req[q].name = req[r].name PROVE pc[q] = "save event"
        <5>1. events[q] = q => Name(q) = req[r].name
          BY <4>2 DEF Name
        <5> QED
          BY <3>1, <4>1, <5>1, DraftsAssumption DEF Passed
      <4> QED
        BY <3>1, <4>1, <4>2
    <3> QED
      BY <1>1, <1>2, <3>2 DEF NamesInv
  <2> QED
    BY <2>1, <2>2
<1>6. CASE Reject(r)
  BY <1>1, <1>4, <1>6 DEF Reject, FailHalfway, TypeOK
<1>7. CASE SaveEvent(r)
  BY <1>1, <1>2, <1>4, <1>7 DEF SaveEvent, Step, TypeOK
<1>8. CASE CreateTicketTiers(r) \/ SaveArtistClass(r) \/ SaveArtists(r)
  <2>1. PICK next \in {"save class", "save artists", "number"} :
          Step(r, next) \/ FailHalfway(r) \/ Answer(r)
    BY <1>8 DEF CreateTicketTiers, SaveArtistClass, SaveArtists
  <2>2. pc'[r] # "save event"
    BY <1>1, <2>1 DEF Step, FailHalfway, Answer, TypeOK
  <2>3. events' = events
    BY <1>8 DEF CreateTicketTiers, SaveArtistClass, SaveArtists
  <2> QED
    BY <1>4, <2>2, <2>3
<1>9. CASE UpdateTierIndex(r)
  <2>1. pc'[r] \in {"number", "metadata"} /\ events' = events
    BY <1>1, <1>9 DEF UpdateTierIndex, NumberTo, Step, TypeOK
  <2> QED
    BY <1>4, <2>1
<1>10. CASE SaveMetadata(r)
  BY <1>1, <1>4, <1>10 DEF SaveMetadata, Answer, TypeOK
<1>11. CASE \/ ReadEvent(r) \/ FindDraft(r) \/ DeleteTicketTiers(r)
            \/ GetArtistClasses(r) \/ DeleteArtists(r)
            \/ DeleteArtistClasses(r) \/ FindEvent(r)
  <2>1. PICK next \in {"refused", "draft", "tiers", "delete"} \cup
                      {"class ids", "artists", "classes", "find"} :
          Step(r, next) \/ FailHalfway(r)
    BY <1>11 DEF ReadEvent, FindDraft, DeleteTicketTiers, GetArtistClasses,
                 DeleteArtists, DeleteArtistClasses, FindEvent
  <2>2. pc'[r] # "save event"
    BY <1>1, <2>1 DEF Step, FailHalfway, TypeOK
  <2>3. events' = events
    BY <1>11 DEF ReadEvent, FindDraft, DeleteTicketTiers, GetArtistClasses,
                 DeleteArtists, DeleteArtistClasses, FindEvent
  <2> QED
    BY <1>4, <2>2, <2>3
<1>12. CASE DeleteEvent(r)
  <2>1. events'[Draft(r)] \in {events[Draft(r)], None}
    BY <1>1, <1>2, <1>12 DEF DeleteEvent, TypeOK
  <2>2. req[r].kind # "save"
    <3>1. pc[r] = "delete"
      BY <1>12 DEF DeleteEvent
    <3> QED
      BY <1>1, <3>1 DEF Origin
  <2> QED
    BY <1>4, <2>1, <2>2
<1> QED
  BY <1>5, <1>6, <1>7, <1>8, <1>9, <1>10, <1>11, <1>12 DEF RequestStep

-------------------------------------------------------------------------------
(* The draft that a step is about. *)

\* A local step keeps the invariant if it does so for its own request and for
\* its own draft.
LEMMA LocalKeeps ==
  ASSUME Inv, TypeOK', NEW r \in Requests, RequestStep(r) \/ Reject(r),
         r \in alone /\ InFlight(r)' => Hand(r)',
         \A e \in Requests : e = Draft(r) /\ Untouched(e)' => Whole(e)'
  PROVE  Inv'
<1>1. Local(r)
  BY StepLocal
<1>2. Origin' /\ NamesInv' /\ AloneInv'
  BY <1>1, StepOrigin, StepNames, LocalAlone
<1>3. \A q \in alone' : InFlight(q)' => Hand(q)'
  <2>1. SUFFICES ASSUME NEW q \in alone', InFlight(q)' PROVE Hand(q)'
    OBVIOUS
  <2>2. q \in Requests /\ alone' = alone
    BY <1>1 DEF TypeOK, Local
  <2>3. CASE q = r
    BY <2>1, <2>2, <2>3
  <2>4. CASE q # r
    BY <1>1, <2>1, <2>2, <2>4, LocalHand
  <2> QED
    BY <2>3, <2>4
<1>4. \A e \in Requests : Untouched(e)' => Whole(e)'
  <2>1. SUFFICES ASSUME NEW e \in Requests, Untouched(e)' PROVE Whole(e)'
    OBVIOUS
  <2>2. CASE e = Draft(r)
    BY <2>1, <2>2
  <2>3. CASE e # Draft(r)
    BY <1>1, <2>1, <2>3, LocalWhole
  <2> QED
    BY <2>2, <2>3
<1> QED
  BY <1>2, <1>3, <1>4 DEF Inv, DraftsInv

\* A draft that is being changed, is disturbed or is not there owes nothing.
LEMMA OwesNothing ==
  ASSUME Inv, TypeOK', NEW r \in Requests, Local(r), NEW e, e = Draft(r),
         \/ pc'[r] \in Awaits \ {"name", "read", "draft", "tiers"}
         \/ e \in disturbed'
         \/ events'[e] = None
  PROVE  ~Untouched(e)'
<1>1. (Draft(r))' = Draft(r)
  BY LocalOrigin
<1> QED
  BY <1>1 DEF Untouched, Changing, InFlight

\* Nor does a request that has ended, or has not begun to write.
LEMMA HoldsNothing ==
  ASSUME NEW r, pc'[r] \in Ends \cup Replacing
  PROVE  InFlight(r)' => Hand(r)'
  BY DEF InFlight, Awaits, Ends, Replacing, Hand, Writing

\* A request that breaks off while it changes its draft, or next to others.
LEMMA Breaks ==
  ASSUME Inv, NEW r \in Requests, InFlight(r), FailHalfway(r),
         Changing(r) \/ r \notin alone
  PROVE  Draft(r) \in disturbed'
<1>1. r \notin alone => Draft(r) \in disturbed
  BY DEF Inv, DraftsInv, AloneInv
<1> QED
  BY <1>1 DEF FailHalfway, Disturb

\* An answer to a request that met others.
LEMMA AnswerAmong ==
  ASSUME Inv, NEW r \in Requests, InFlight(r), Answer(r), r \notin alone
  PROVE  Draft(r) \in disturbed'
  BY DEF Inv, DraftsInv, AloneInv, Answer

\* A request that has only looked leaves its draft as it was.
LEMMA LookedOnly ==
  ASSUME Inv, TypeOK', NEW r \in Requests, Local(r), NEW e \in Requests,
         e = Draft(r), UNCHANGED <<tables, deleting, returned, disturbed>>,
         pc[r] \in {"name", "read", "draft", "tiers"}, Untouched(e)'
  PROVE  Whole(e)'
<1>1. \A q : Draft(q)' = Draft(q)
  BY LocalOrigin
<1>2. Untouched(e)
  <2>1. ~Changing(r)
    BY DEF Changing
  <2>2. \A q \in Requests \ {r} : Changing(q)' <=> Changing(q)
    BY DEF Changing, InFlight, Local
  <2> QED
    BY <1>1, <2>1, <2>2 DEF Untouched, tables
<1>3. Whole(e)
  BY <1>2 DEF Inv, DraftsInv
<1>4. Below(e)' = Below(e)
  BY <1>1 DEF Below, tables
<1> QED
  BY <1>3, <1>4, SameShape DEF Whole, Local, tables

\* Looking up the event or its draft keeps the invariant.
LEMMA LookKeeps ==
  ASSUME Inv, TypeOK', NEW r \in Requests, ReadEvent(r) \/ FindDraft(r)
  PROVE  Inv'
<1>1. Local(r)
  BY StepLocal DEF RequestStep
<1>2. /\ pc[r] \in {"read", "draft"}
      /\ pc'[r] \in {"refused", "draft", "tiers"}
      /\ UNCHANGED <<tables, deleting, returned, disturbed>>
  BY DEF Inv, TypeOK, ReadEvent, FindDraft, Step, ghosts, local
<1>3. InFlight(r)' => Hand(r)'
  BY <1>2, HoldsNothing DEF Ends, Replacing
<1>4. \A e \in Requests : e = Draft(r) /\ Untouched(e)' => Whole(e)'
  BY <1>1, <1>2, LookedOnly
<1> QED
  BY <1>3, <1>4, LocalKeeps DEF RequestStep

\* A query that rejects keeps the invariant: what it leaves half done is
\* disturbed.
LEMMA RejectKeeps ==
  ASSUME Inv, NEW r \in Requests, Reject(r) PROVE Inv'
<1>1. Local(r) /\ TypeOK'
  BY StepLocal, RejectType
<1>2. /\ InFlight(r) /\ pc'[r] = "failed" /\ FailHalfway(r)
      /\ UNCHANGED <<tables, deleting, returned>>
  BY DEF Inv, TypeOK, Reject, FailHalfway, local
<1>3. InFlight(r)' => Hand(r)'
  BY <1>2, HoldsNothing DEF Ends
<1>4. ASSUME NEW e \in Requests, e = Draft(r), Untouched(e)' PROVE Whole(e)'
  <2>1. CASE Changing(r) \/ r \notin alone
    BY <1>1, <1>2, <1>4, <2>1, Breaks, OwesNothing
  <2>2. CASE ~Changing(r)
    <3>1. pc[r] \in {"name", "read", "draft", "tiers"}
      BY <1>2, <2>2 DEF Changing
    <3>2. disturbed' = disturbed
      BY <1>2, <2>2 DEF FailHalfway, Disturb
    <3> QED
      BY <1>1, <1>2, <1>4, <3>1, <3>2, LookedOnly
  <2> QED
    BY <2>1, <2>2
<1> QED
  BY <1>1, <1>3, <1>4, LocalKeeps

\* Looking for another draft of the same name keeps the invariant.
LEMMA FindNameKeeps ==
  ASSUME Inv, TypeOK', NEW r \in Requests, FindName(r) PROVE Inv'
<1>1. Local(r)
  BY StepLocal DEF RequestStep
<1>2. /\ pc[r] = "name" /\ pc'[r] \in {"refused", "save event"}
      /\ UNCHANGED <<req, tables, deleting, returned, disturbed>>
  BY DEF Inv, TypeOK, FindName, Step, ghosts, local
<1>3. ASSUME r \in alone, InFlight(r)' PROVE Hand(r)'
  <2>1. pc'[r] = "save event"
    BY <1>2, <1>3 DEF InFlight, Awaits
  <2>2. Hand(r)
    BY <1>2, <1>3 DEF Inv, DraftsInv, InFlight, Awaits
  <2>3. Written(r) = {} /\ Written(r)' = {}
    BY <1>2, <2>1 DEF Written
  <2>4. Below(Draft(r))' = Below(Draft(r)) /\ (Draft(r))' = Draft(r)
    BY <1>2 DEF Below, Draft, tables
  <2> QED
    BY <1>2, <2>1, <2>2, <2>3, <2>4 DEF Hand, Writing, tables
<1>4. \A e \in Requests : e = Draft(r) /\ Untouched(e)' => Whole(e)'
  BY <1>1, <1>2, LookedOnly
<1> QED
  BY <1>3, <1>4, LocalKeeps DEF RequestStep

\* The steps that send deletes keep the invariant.
LEMMA DeletingKeeps ==
  ASSUME Inv, TypeOK', NEW r \in Requests,
         \/ DeleteTicketTiers(r) \/ GetArtistClasses(r) \/ DeleteArtists(r)
         \/ DeleteArtistClasses(r) \/ FindEvent(r) \/ DeleteEvent(r)
  PROVE  Inv'
<1>1. Local(r) /\ RequestStep(r) /\ TypeOK
  BY StepLocal DEF RequestStep, Inv
<1>2. Draft(r) \in Requests /\ InFlight(r) /\ (Draft(r))' = Draft(r)
  BY <1>1, LocalOrigin DEF Local
<1>3. CASE pc'[r] \in {"class ids", "artists", "classes", "find", "delete"}
  <2>1. InFlight(r)' => Hand(r)'
    BY <1>3, HoldsNothing DEF Replacing
  <2>2. \A e \in Requests : e = Draft(r) => ~Untouched(e)'
    BY <1>1, <1>3, OwesNothing DEF Awaits
  <2> QED
    BY <1>1, <2>1, <2>2, LocalKeeps
<1>4. CASE FailHalfway(r) /\ pc[r] \in {"find", "delete"}
  <2>1. Changing(r) /\ pc'[r] = "failed"
    BY <1>1, <1>2, <1>4 DEF Changing, FailHalfway, TypeOK
  <2>2. InFlight(r)' => Hand(r)'
    BY <2>1, HoldsNothing DEF Ends
  <2>3. \A e \in Requests : e = Draft(r) => ~Untouched(e)'
    BY <1>1, <1>2, <1>4, <2>1, Breaks, OwesNothing
  <2> QED
    BY <1>1, <2>2, <2>3, LocalKeeps
<1>5. CASE DeleteEvent(r) /\ ~FailHalfway(r)
  <2>1. /\ Below(Draft(r)) = {}
        /\ events' = [events EXCEPT ![Draft(r)] = None]
        /\ metadata' = [metadata EXCEPT ![Draft(r)] = None]
        /\ IF req[r].kind = "delete" THEN Answer(r) ELSE Step(r, "save event")
        /\ UNCHANGED <<req, rows, deleting>>
    BY <1>5 DEF DeleteEvent, local
  <2>2. events'[Draft(r)] = None /\ metadata'[Draft(r)] = None
    BY <1>1, <1>2, <2>1 DEF TypeOK
  <2>3. pc'[r] \in {"answered", "save event"}
    BY <1>1, <2>1 DEF TypeOK, Answer, Step
  <2>4. InFlight(r)' => Hand(r)'
    <3>1. CASE pc'[r] = "answered"
      BY <3>1, HoldsNothing DEF Ends
    <3>2. CASE pc'[r] = "save event"
      <4>1. Below(Draft(r))' = {}
        BY <2>1 DEF Below, Draft
      <4>2. Written(r)' = {}
        BY <3>2 DEF Written
      <4> QED
        BY <1>2, <2>2, <3>2, <4>1, <4>2 DEF Hand, Writing
    <3> QED
      BY <2>3, <3>1, <3>2
  <2>5. \A e \in Requests : e = Draft(r) => ~Untouched(e)'
    BY <1>1, <2>2, OwesNothing
  <2> QED
    BY <1>1, <2>4, <2>5, LocalKeeps
<1> QED
  BY <1>1, <1>3, <1>4, <1>5 DEF DeleteTicketTiers, GetArtistClasses,
     DeleteArtists, DeleteArtistClasses, FindEvent, DeleteEvent, Step, TypeOK

-------------------------------------------------------------------------------
(* Writing: what a request that is alone puts below its draft. *)

\* New rows of a request join what it has written, and none is to be deleted.
LEMMA HandGrows ==
  ASSUME Inv, TypeOK', NEW r \in Requests, Local(r), r \in alone,
         pc[r] \in {"save event"} \cup Writing, deleting' = deleting,
         NEW S \in SUBSET Payload(r), rows' = rows \cup S
  PROVE  /\ Hand(r)
         /\ Below(Draft(r))' = Written(r) \cup S
         /\ (Written(r) \cup S) \cap deleting' = {}
<1>1. Hand(r)
  BY DEF Inv, DraftsInv, Local
<1>2. Below(Draft(r)) = Written(r) /\ Written(r) \cap deleting = {}
  BY <1>1 DEF Hand, Writing
<1>3. \A x \in S : x.by = r
  BY PayloadBy
<1>4. \A q : Draft(q)' = Draft(q)
  BY LocalOrigin
<1>5. Below(Draft(r))' = Below(Draft(r)) \cup S
  BY <1>3, <1>4 DEF Below
<1>6. S \cap deleting = {}
  <2>1. SUFFICES ASSUME NEW x \in S, x \in deleting PROVE FALSE
    OBVIOUS
  <2>2. x \in rows
    BY <2>1 DEF Inv, DraftsInv, Origin
  <2> QED
    BY <1>2, <1>3, <2>1, <2>2 DEF Below
<1> QED
  BY <1>1, <1>2, <1>5, <1>6

\* The three tables of a payload do not overlap.
LEMMA Tables ==
  ASSUME NEW r, NEW x \in Payload(r)
  PROVE  /\ x.table \in {"tier", "class", "artist"}
         /\ x.table = "tier" <=> x \in TierRows(r)
         /\ x.table = "class" <=> x \in ClassRows(r)
         /\ x.table = "artist" <=> x \in ArtistRows(r)
         /\ x.table = "tier" => x.n \in 1 .. NTiers
         /\ x.table # "tier" => x.n \in 1 .. NClasses
<1>1. \A y \in TierRows(r) : y.table = "tier" /\ y.n \in 1 .. NTiers
  BY DEF TierRows
<1>2. \A y \in ClassRows(r) : y.table = "class" /\ y.n \in 1 .. NClasses
  BY DEF ClassRows
<1>3. \A y \in ArtistRows(r) : y.table = "artist" /\ y.n \in 1 .. NClasses
  BY DEF ArtistRows
<1> QED
  BY <1>1, <1>2, <1>3 DEF Payload

\* Saving the event keeps the invariant.
LEMMA SaveEventKeeps ==
  ASSUME Inv, TypeOK', NEW r \in Requests, SaveEvent(r) PROVE Inv'
<1>1. Local(r) /\ RequestStep(r) /\ TypeOK
  BY StepLocal DEF RequestStep, Inv
<1>2. Draft(r) \in Requests /\ (Draft(r))' = Draft(r)
  BY <1>1, LocalOrigin
<1>3. /\ pc[r] = "save event" /\ pc'[r] = "save tiers"
      /\ events'[Draft(r)] = r
      /\ UNCHANGED <<metadata, rows, deleting>>
  BY <1>1, <1>2 DEF SaveEvent, Step, TypeOK
<1>4. ASSUME r \in alone PROVE Hand(r)'
  <2>1. /\ Hand(r) /\ Below(Draft(r))' = Written(r)
        /\ Written(r) \cap deleting' = {}
    <3>1. rows' = rows \cup {} /\ {} \in SUBSET Payload(r)
      BY <1>3
    <3>2. /\ Hand(r) /\ Below(Draft(r))' = Written(r) \cup {}
          /\ (Written(r) \cup {}) \cap deleting' = {}
      BY <1>1, <1>3, <1>4, <3>1, HandGrows
    <3> QED
      BY <3>2
  <2>2. Written(r) = {} /\ Written(r)' = {}
    BY <1>3 DEF Written
  <2> QED
    BY <1>2, <1>3, <2>1, <2>2 DEF Hand, Writing
<1>5. \A e \in Requests : e = Draft(r) => ~Untouched(e)'
  BY <1>1, <1>3, OwesNothing DEF Awaits
<1> QED
  BY <1>1, <1>4, <1>5, LocalKeeps

\* Inserting the tiers keeps the invariant.
LEMMA CreateTiersKeeps ==
  ASSUME Inv, TypeOK', NEW r \in Requests, CreateTicketTiers(r) PROVE Inv'
<1>1. Local(r) /\ RequestStep(r) /\ TypeOK
  BY StepLocal DEF RequestStep, Inv
<1>2. Draft(r) \in Requests /\ (Draft(r))' = Draft(r) /\ InFlight(r)
  BY <1>1, LocalOrigin DEF Local
<1>3. CASE FailHalfway(r)
  <2>1. pc[r] = "save tiers" /\ pc'[r] = "failed"
    BY <1>1, <1>3 DEF CreateTicketTiers, FailHalfway, TypeOK
  <2>2. Changing(r)
    BY <1>2, <2>1 DEF Changing
  <2>3. \A e \in Requests : e = Draft(r) => ~Untouched(e)'
    BY <1>1, <1>2, <1>3, <2>2, Breaks, OwesNothing
  <2> QED
    BY <1>1, <2>1, <2>3, HoldsNothing, LocalKeeps DEF Ends
<1>4. CASE ~FailHalfway(r)
  <2>1. /\ pc[r] = "save tiers" /\ pc'[r] = "save class" /\ at'[r] = 1
        /\ rows' = rows \cup TierRows(r)
        /\ UNCHANGED <<shape, events, metadata, deleting>>
    BY <1>1, <1>4 DEF CreateTicketTiers, Step, TypeOK
  <2>2. ASSUME r \in alone PROVE Hand(r)'
    <3>1. TierRows(r) \in SUBSET Payload(r)
      BY DEF Payload
    <3>2. /\ Hand(r) /\ Below(Draft(r))' = Written(r) \cup TierRows(r)
          /\ (Written(r) \cup TierRows(r)) \cap deleting' = {}
      BY <1>1, <2>1, <2>2, <3>1, HandGrows DEF Writing
    <3>3. Written(r)' = Written(r) \cup TierRows(r)
      <4>1. Written(r) = {}
        BY <2>1 DEF Written
      <4>2. Payload(r)' = Payload(r)
        BY <2>1, SameShape
      <4>3. Written(r)' = {x \in Payload(r) : x.table = "tier" \/ x.n < 1}
        BY <2>1, <4>2 DEF Written
      <4>4. \A x \in Payload(r) : ~(x.n < 1)
        <5>1. SUFFICES ASSUME NEW x \in Payload(r) PROVE ~(x.n < 1)
          OBVIOUS
        <5>2. x.n \in 1 .. NTiers \/ x.n \in 1 .. NClasses
          BY Tables
        <5>3. NTiers \in Nat /\ NClasses \in Nat
          BY DraftsAssumption DEF Inv, TypeOK, NTiers, NClasses
        <5> QED
          BY <5>2, <5>3
      <4> QED
        BY <3>1, <4>1, <4>3, <4>4, Tables
    <3> QED
      BY <1>2, <2>1, <3>2, <3>3 DEF Hand, Writing
  <2>3. \A e \in Requests : e = Draft(r) => ~Untouched(e)'
    BY <1>1, <2>1, OwesNothing DEF Awaits
  <2> QED
    BY <1>1, <2>2, <2>3, LocalKeeps
<1> QED
  BY <1>3, <1>4

\* Inserting a class keeps the invariant.
LEMMA SaveClassKeeps ==
  ASSUME Inv, TypeOK', NEW r \in Requests, SaveArtistClass(r) PROVE Inv'
<1> DEFINE S == {x \in ClassRows(r) : x.n = at[r]}
<1>1. Local(r) /\ RequestStep(r) /\ TypeOK
  BY StepLocal DEF RequestStep, Inv
<1>2. Draft(r) \in Requests /\ (Draft(r))' = Draft(r) /\ InFlight(r)
  BY <1>1, LocalOrigin DEF Local
<1>3. CASE FailHalfway(r)
  <2>1. pc[r] = "save class" /\ pc'[r] = "failed"
    BY <1>1, <1>3 DEF SaveArtistClass, FailHalfway, TypeOK
  <2>2. Changing(r)
    BY <1>2, <2>1 DEF Changing
  <2>3. \A e \in Requests : e = Draft(r) => ~Untouched(e)'
    BY <1>1, <1>2, <1>3, <2>2, Breaks, OwesNothing
  <2> QED
    BY <1>1, <2>1, <2>3, HoldsNothing, LocalKeeps DEF Ends
<1>4. CASE ~FailHalfway(r)
  <2>1. /\ pc[r] = "save class" /\ pc'[r] = "save artists" /\ at' = at
        /\ rows' = rows \cup S
        /\ UNCHANGED <<shape, events, metadata, deleting>>
    BY <1>1, <1>4 DEF SaveArtistClass, Step, TypeOK, local
  <2>2. ASSUME r \in alone PROVE Hand(r)'
    <3>1. S \in SUBSET Payload(r)
      BY DEF Payload
    <3>2. /\ Hand(r) /\ Below(Draft(r))' = Written(r) \cup S
          /\ (Written(r) \cup S) \cap deleting' = {}
      BY <1>1, <2>1, <2>2, <3>1, HandGrows DEF Writing
    <3>3. Written(r)' = Written(r) \cup S
      <4>1. Payload(r)' = Payload(r)
        BY <2>1, SameShape
      <4>2. Written(r)' =
              {x \in Payload(r) : \/ x.table = "tier" \/ x.n < at[r]
                                  \/ x.table = "class" /\ x.n = at[r]}
        BY <2>1, <4>1 DEF Written
      <4>3. Written(r) = {x \in Payload(r) : x.table = "tier" \/ x.n < at[r]}
        BY <2>1 DEF Written
      <4>4. \A x \in Payload(r) :
              x \in S <=> x.table = "class" /\ x.n = at[r]
        BY Tables
      <4> HIDE DEF S
      <4> QED
        BY <3>1, <4>2, <4>3, <4>4
    <3> HIDE DEF S
    <3> QED
      BY <1>2, <2>1, <3>2, <3>3 DEF Hand, Writing
  <2>3. \A e \in Requests : e = Draft(r) => ~Untouched(e)'
    BY <1>1, <2>1, OwesNothing DEF Awaits
  <2> QED
    BY <1>1, <2>2, <2>3, LocalKeeps
<1> QED
  BY <1>3, <1>4

\* Before, at and after a position of a loop.
LEMMA Orders ==
  ASSUME NEW k \in Nat, NEW n \in Nat
  PROVE  /\ n < k + 1 <=> n < k \/ n = k
         /\ n <= k <=> n < k \/ n = k
         /\ \A m \in Nat : n \in 1 .. m /\ k \in 1 .. m /\ ~(k < m) => n <= k
  OBVIOUS

\* Inserting the artists of a class keeps the invariant.
LEMMA SaveArtistsKeeps ==
  ASSUME Inv, TypeOK', NEW r \in Requests, SaveArtists(r) PROVE Inv'
<1> DEFINE S == {x \in ArtistRows(r) : x.n <= at[r]}
<1>1. Local(r) /\ RequestStep(r) /\ TypeOK
  BY StepLocal DEF RequestStep, Inv
<1>2. Draft(r) \in Requests /\ (Draft(r))' = Draft(r) /\ InFlight(r)
  BY <1>1, LocalOrigin DEF Local
<1>3. /\ pc[r] = "save artists" /\ at[r] \in 1 .. NClasses /\ NClasses \in Nat
      /\ at[r] \in Nat
      /\ UNCHANGED <<returned, events, metadata, numbered, deleting>>
  BY DraftsAssumption DEF SaveArtists, Inv, TypeOK, NClasses
<1>4. CASE FailHalfway(r)
  <2>1. pc'[r] = "failed" /\ Changing(r)
    BY <1>1, <1>2, <1>3, <1>4 DEF FailHalfway, TypeOK, Changing
  <2>2. \A e \in Requests : e = Draft(r) => ~Untouched(e)'
    BY <1>1, <1>2, <1>4, <2>1, Breaks, OwesNothing
  <2> QED
    BY <1>1, <2>1, <2>2, HoldsNothing, LocalKeeps DEF Ends
<1>5. CASE ~FailHalfway(r)
  <2>1. /\ rows' = rows \cup S /\ shape' = shape
        /\ \/ /\ at[r] < NClasses /\ Step(r, "save class")
              /\ at' = [at EXCEPT ![r] = @ + 1]
           \/ /\ ~(at[r] < NClasses) /\ at' = [at EXCEPT ![r] = 1]
              /\ Step(r, "number") \/ Answer(r)
    BY <1>5 DEF SaveArtists, Step, Answer
  <2>2. S \in SUBSET Payload(r)
    BY DEF Payload
  <2>3. Written(r) = {x \in Payload(r) : \/ x.table = "tier" \/ x.n < at[r]
                                         \/ x.table = "class" /\ x.n = at[r]}
    BY <1>3 DEF Written
  <2>4. \A x \in Payload(r) : x \in S <=> x.table = "artist" /\ x.n <= at[r]
    BY Tables
  <2>5. ASSUME r \in alone
        PROVE  /\ Hand(r)
               /\ Below(Draft(r))' = Written(r) \cup S
               /\ (Written(r) \cup S) \cap deleting' = {}
    BY <1>1, <1>3, <2>1, <2>2, <2>5, HandGrows DEF Writing
  <2>6. Payload(r)' = Payload(r)
    BY <2>1, SameShape
  <2> HIDE DEF S
  <2>7. CASE at[r] < NClasses /\ Step(r, "save class")
    <3>1. pc'[r] = "save class" /\ at'[r] = at[r] + 1
      BY <1>1, <2>1, <2>7 DEF Step, TypeOK
    <3>2. Written(r)' = Written(r) \cup S
      <4>1. Written(r)' = {x \in Payload(r) : x.table = "tier" \/ x.n < at[r] + 1}
        BY <2>6, <3>1 DEF Written
      <4>2. ASSUME NEW x \in Payload(r)
            PROVE  /\ x.n < at[r] + 1 <=> x.n < at[r] \/ x.n = at[r]
                   /\ x.n <= at[r] <=> x.n < at[r] \/ x.n = at[r]
        <5>1. x.n \in Nat
          BY <4>2, PayloadBy
        <5> QED
          BY <1>3, <5>1, Orders
      <4>3. \A x \in Payload(r) : x.table \in {"tier", "class", "artist"}
        BY Tables
      <4> QED
        BY <2>2, <2>3, <2>4, <4>1, <4>2, <4>3
    <3>3. ASSUME r \in alone PROVE Hand(r)'
      BY <1>2, <1>3, <2>5, <3>1, <3>2, <3>3 DEF Hand, Writing
    <3>4. \A e \in Requests : e = Draft(r) => ~Untouched(e)'
      BY <1>1, <3>1, OwesNothing DEF Awaits
    <3> QED
      BY <1>1, <3>3, <3>4, LocalKeeps
  <2>8. CASE /\ ~(at[r] < NClasses) /\ at' = [at EXCEPT ![r] = 1]
             /\ Step(r, "number") \/ Answer(r)
    <3>1. Written(r) \cup S = Payload(r)
      <4>1. ASSUME NEW x \in Payload(r)
            PROVE  x \in Written(r) \cup S
        <5>1. CASE x.table = "tier"
          BY <2>3, <4>1, <5>1
        <5>2. CASE x.table # "tier"
          <6>1. x.n \in 1 .. NClasses /\ x.table \in {"tier", "class", "artist"}
            BY <5>2, Tables
          <6>2. x.n <= at[r] /\ (x.n < at[r] \/ x.n = at[r])
            <7>1. x.n \in Nat
              BY <4>1, PayloadBy
            <7> QED
              BY <1>3, <2>8, <6>1, <7>1, Orders
          <6> QED
            BY <2>3, <2>4, <5>2, <6>1, <6>2
        <5> QED
          BY <5>1, <5>2
      <4>2. Written(r) \subseteq Payload(r)
        BY <2>3
      <4> QED
        BY <2>2, <4>1, <4>2
    <3>2. CASE Step(r, "number")
      <4>1. pc'[r] = "number" /\ at'[r] = 1
        BY <1>1, <2>8, <3>2 DEF Step, TypeOK
      <4>2. ASSUME r \in alone PROVE Hand(r)'
        <5>1. Written(r)' = Payload(r)
          BY <2>6, <4>1 DEF Written
        <5>2. returned'[r] = {}
          BY <1>3 DEF Inv, DraftsInv, Origin, Ends
        <5>3. {x \in TierRows(r)' : x.n < at'[r]} = {}
          <6>1. TierRows(r)' = TierRows(r)
            BY <2>1, SameShape
          <6>2. ASSUME NEW x \in TierRows(r) PROVE ~(x.n < 1)
            BY <6>2, DraftsAssumption DEF TierRows
          <6> QED
            BY <4>1, <6>1, <6>2
        <5> QED
          BY <1>2, <1>3, <2>5, <3>1, <4>1, <4>2, <5>1, <5>2, <5>3
          DEF Hand, Writing
      <4>3. \A e \in Requests : e = Draft(r) => ~Untouched(e)'
        BY <1>1, <4>1, OwesNothing DEF Awaits
      <4> QED
        BY <1>1, <4>2, <4>3, LocalKeeps
    <3>3. CASE Answer(r)
      <4>1. pc'[r] = "answered"
        BY <1>1, <3>3 DEF Answer, TypeOK
      <4>2. ASSUME NEW e \in Requests, e = Draft(r), Untouched(e)' PROVE Whole(e)'
        <5>1. r \in alone
          BY <1>1, <1>2, <3>3, <4>2, AnswerAmong, OwesNothing
        <5>2. events'[e] = r /\ metadata'[e] = None
          BY <1>3, <2>5, <4>2, <5>1 DEF Hand, Writing
        <5>3. Below(e)' = Payload(r) /\ Payload(r) \cap deleting' = {}
          BY <1>2, <2>5, <3>1, <4>2, <5>1
        <5> QED
          BY <2>6, <5>2, <5>3 DEF Whole
      <4> QED
        BY <1>1, <4>1, <4>2, HoldsNothing, LocalKeeps DEF Ends
    <3> QED
      BY <2>8, <3>2, <3>3
  <2> QED
    BY <2>1, <2>7, <2>8
<1> QED
  BY <1>4, <1>5

\* Numbering a tier keeps the invariant.
LEMMA NumberKeeps ==
  ASSUME Inv, TypeOK', NEW r \in Requests, UpdateTierIndex(r) PROVE Inv'
<1> DEFINE T == {x \in TierRows(r) \cap rows : x.n = at[r]}
<1>1. Local(r) /\ RequestStep(r) /\ TypeOK
  BY StepLocal DEF RequestStep, Inv
<1>2. Draft(r) \in Requests /\ (Draft(r))' = Draft(r) /\ InFlight(r)
  BY <1>1, LocalOrigin DEF Local
<1>3. /\ pc[r] = "number" /\ at[r] \in 1 .. NTiers /\ NTiers \in Nat
      /\ UNCHANGED <<events, metadata, rows, deleting>>
  BY DraftsAssumption DEF UpdateTierIndex, NumberTo, Inv, TypeOK, NTiers
<1>4. /\ numbered' = numbered \cup T /\ returned'[r] = returned[r] \cup T
      /\ shape' = shape
      /\ \/ at[r] < NTiers /\ pc'[r] = "number" /\ at'[r] = at[r] + 1
         \/ ~(at[r] < NTiers) /\ pc'[r] = "metadata"
  BY <1>1 DEF UpdateTierIndex, NumberTo, Step, TypeOK
<1>5. ASSUME r \in alone PROVE Hand(r)'
  <2>1. Hand(r)
    BY <1>2, <1>5 DEF Inv, DraftsInv
  <2>2. Written(r) = Payload(r) /\ Written(r)' = Payload(r)
    BY <1>3, <1>4, SameShape DEF Written
  <2>3. Below(Draft(r))' = Below(Draft(r))
    <3>1. \A q : Draft(q)' = Draft(q)
      BY <1>1, LocalOrigin
    <3> QED
      BY <1>3, <3>1 DEF Below
  <2>4. TierRows(r) \subseteq rows
    <3>1. Below(Draft(r)) = Payload(r)
      BY <1>3, <2>1, <2>2 DEF Hand, Writing
    <3> QED
      BY <3>1 DEF Below, Payload
  <2>5. T = {x \in TierRows(r) : x.n = at[r]}
    BY <2>4
  <2>6. returned[r] = {x \in TierRows(r) : x.n < at[r]} /\ returned[r] \subseteq numbered
    BY <1>3, <2>1 DEF Hand
  <2>7. TierRows(r)' = TierRows(r)
    BY <1>4, SameShape
  <2>8. \A x \in TierRows(r) : x.n \in 1 .. NTiers
    BY DEF TierRows
  <2> HIDE DEF T
  <2>9. CASE at[r] < NTiers /\ pc'[r] = "number" /\ at'[r] = at[r] + 1
    <3>1. ASSUME NEW x \in TierRows(r)
          PROVE  x.n < at[r] + 1 <=> \/ x.n < at[r] \/ x.n = at[r]
      BY <1>3, <2>8
    <3>2. returned'[r] = {x \in TierRows(r) : x.n < at[r] + 1}
      BY <1>4, <2>5, <2>6, <3>1
    <3> QED
      BY <1>2, <1>3, <1>4, <2>1, <2>2, <2>3, <2>6, <2>7, <2>9, <3>2
      DEF Hand, Writing
  <2>10. CASE ~(at[r] < NTiers) /\ pc'[r] = "metadata"
    <3>1. ASSUME NEW x \in TierRows(r) PROVE x.n < at[r] \/ x.n = at[r]
      BY <1>3, <2>8, <2>10
    <3>2. returned'[r] = TierRows(r)
      BY <1>4, <2>5, <2>6, <3>1
    <3> QED
      BY <1>2, <1>3, <1>4, <2>1, <2>2, <2>3, <2>6, <2>7, <2>10, <3>2
      DEF Hand, Writing
  <2> QED
    BY <1>4, <2>9, <2>10
<1>6. \A e \in Requests : e = Draft(r) => ~Untouched(e)'
  BY <1>1, <1>4, OwesNothing DEF Awaits
<1> QED
  BY <1>1, <1>5, <1>6, LocalKeeps

\* Saving the metadata, and with it the answer, keeps the invariant.
LEMMA MetadataKeeps ==
  ASSUME Inv, TypeOK', NEW r \in Requests, SaveMetadata(r) PROVE Inv'
<1>1. Local(r) /\ RequestStep(r) /\ TypeOK
  BY StepLocal DEF RequestStep, Inv
<1>2. Draft(r) \in Requests /\ (\A q : Draft(q)' = Draft(q)) /\ InFlight(r)
  BY <1>1, LocalOrigin DEF Local
<1>3. /\ pc[r] = "metadata" /\ pc'[r] = "answered" /\ Answer(r)
      /\ metadata' = IF events[Draft(r)] = None THEN metadata
                     ELSE [metadata EXCEPT ![Draft(r)] = r]
      /\ UNCHANGED <<returned, events, rows, numbered, deleting>>
  BY <1>1 DEF SaveMetadata, Answer, TypeOK, local
<1>4. ASSUME NEW e \in Requests, e = Draft(r), Untouched(e)' PROVE Whole(e)'
  <2>1. r \in alone
    BY <1>1, <1>2, <1>3, <1>4, AnswerAmong, OwesNothing
  <2>2. Hand(r)
    BY <1>2, <2>1 DEF Inv, DraftsInv
  <2>3. events'[e] = r /\ metadata'[e] = r
    BY <1>1, <1>3, <1>4, <2>2, DraftsAssumption DEF Hand, Writing, TypeOK
  <2>4. Below(e)' = Below(e)
    BY <1>2, <1>3 DEF Below
  <2>5. Below(e) = Payload(r) /\ Payload(r) \cap deleting = {}
    BY <1>3, <1>4, <2>2 DEF Hand, Writing, Written
  <2>6. returned[r] = TierRows(r) /\ TierRows(r) \subseteq numbered
    BY <1>3, <2>2 DEF Hand
  <2>7. Payload(r)' = Payload(r) /\ TierRows(r)' = TierRows(r)
    BY <1>1, SameShape DEF Local
  <2> QED
    BY <1>3, <2>3, <2>4, <2>5, <2>6, <2>7 DEF Whole
<1> QED
  BY <1>1, <1>3, <1>4, HoldsNothing, LocalKeeps DEF Ends

-------------------------------------------------------------------------------
(* A request begins. *)

\* Below the draft that an idle request could create there is nothing.
LEMMA Unbegun ==
  ASSUME Inv, NEW r \in Requests, pc[r] = "idle"
  PROVE  /\ events[r] = None /\ metadata[r] = None /\ Below(r) = {}
         /\ r \notin alone /\ classIds[r] = {} /\ returned[r] = {}
         /\ \A x \in rows : x.by # r
         /\ \A q \in Requests : events[q] # r
<1>1. Origin /\ AloneInv /\ TypeOK
  BY DEF Inv, DraftsInv
<1>2. events[r] = None
  <2>1. SUFFICES ASSUME events[r] # None PROVE FALSE
    OBVIOUS
  <2>2. events[r] \in Requests
    BY <1>1, <2>1 DEF TypeOK
  <2> QED
    BY <1>1, <2>1, <2>2 DEF Origin
<1>3. Below(r) = {}
  <2>1. SUFFICES ASSUME NEW x \in Below(r) PROVE FALSE
    OBVIOUS
  <2>2. x.by \in Requests /\ x \in rows /\ Draft(x.by) = r
    BY <1>1, <2>1, RowOfPayload DEF TypeOK, Below
  <2> QED
    BY <1>1, <2>2 DEF Origin
<1>4. r # None
  BY DraftsAssumption
<1>5. metadata[r] = None /\ \A q \in Requests : events[q] # r
  BY <1>1, <1>2, <1>4 DEF Origin
<1>6. returned[r] = {}
  BY <1>1 DEF Origin, Ends
<1> QED
  BY <1>1, <1>2, <1>3, <1>5, <1>6 DEF Origin, AloneInv

\* A new request keeps the invariant: it ends that others are alone with the
\* draft, and is alone itself only if nobody is about it.
LEMMA BeginKeeps ==
  ASSUME Inv, NEW r \in Requests, NEW kind \in Kinds, NEW e \in Requests,
         NEW n \in Names, Begin(r, kind, e, n)
  PROVE  Inv'
<1> DEFINE others == {q \in Requests : InFlight(q) /\ Draft(q) = e}
<1>1. TypeOK /\ TypeOK' /\ Origin /\ AloneInv /\ NamesInv
  BY BeginType DEF Inv, DraftsInv
<1>2. /\ pc[r] = "idle"
      /\ UNCHANGED <<shape, at, classIds, returned, events, metadata, rows,
                     numbered, deleting, raced>>
      /\ alone' = IF others = {} THEN alone \cup {r} ELSE alone \ others
      /\ disturbed' = disturbed \cup (IF others = {} THEN {} ELSE {e})
      /\ IF kind \in {"save", "publish new"} THEN e = r ELSE events[e] # None
  BY DEF Begin, Disturb, tables
<1>3. /\ pc'[r] = FirstAwait(kind)
      /\ req'[r] = [kind |-> kind, draft |-> e, name |-> n]
      /\ \A q \in Requests \ {r} : pc'[q] = pc[q] /\ req'[q] = req[q]
  BY <1>1 DEF Begin, TypeOK
<1>4. /\ Draft(r)' = e /\ req'[r].kind = kind
      /\ \A q \in Requests \ {r} : Draft(q)' = Draft(q)
  BY <1>3 DEF Draft
<1>5. /\ kind = "save" => pc'[r] = "name"
      /\ kind = "publish new" => pc'[r] = "save event"
      /\ kind \notin {"save", "publish new"} => pc'[r] \in {"read", "draft"}
      /\ pc'[r] \in {"name", "save event", "read", "draft"}
  BY <1>3 DEF FirstAwait, Kinds
<1>6. /\ events[r] = None /\ metadata[r] = None /\ Below(r) = {}
      /\ r \notin alone /\ classIds[r] = {} /\ returned[r] = {}
      /\ \A x \in rows : x.by # r
      /\ \A q \in Requests : events[q] # r
  BY <1>2, Unbegun
<1>7. \A x \in rows : x.by \in Requests
  BY <1>1, RowOfPayload DEF TypeOK
<1>8. \A f : Below(f)' = Below(f)
  BY <1>2, <1>4, <1>6, <1>7 DEF Below
<1>9. pc'[e] # "idle"
  <2>1. CASE e = r
    BY <1>5, <2>1
  <2>2. CASE e # r
    <3>1. events[e] \in Requests /\ pc[events[e]] # "idle" /\ Draft(events[e]) = e
      BY <1>1, <1>2, <2>2 DEF TypeOK, Origin
    <3>2. pc[e] # "idle"
      BY <1>1, <3>1 DEF Origin
    <3> QED
      BY <1>3, <2>2, <3>2
  <2> QED
    BY <2>1, <2>2
<1>10. Origin'
  <2>1. \A q \in Requests : pc[q] # "idle" => q # r /\ pc'[q] # "idle"
    BY <1>2, <1>3
  <2>2. deleting' \subseteq rows' /\ \A x \in rows' : pc'[x.by] # "idle"
    BY <1>1, <1>2, <1>7, <2>1 DEF Origin
  <2>3. ASSUME NEW q \in Requests, pc'[q] # "idle"
        PROVE  /\ Draft(q)' \in Requests /\ pc'[Draft(q)'] # "idle"
               /\ req'[q].kind \in {"save", "publish new"} => Draft(q)' = q
               /\ pc'[q] \in Replacing =>
                    req'[q].kind \notin {"save", "publish new"}
               /\ \A x \in classIds'[q] :
                    pc'[x.by] # "idle" /\ Draft(x.by)' = Draft(q)'
    <3>1. CASE q = r
      BY <1>2, <1>4, <1>5, <1>6, <1>9, <3>1 DEF Replacing
    <3>2. CASE q # r
      <4>1. /\ pc[q] # "idle" /\ Draft(q) \in Requests /\ pc[Draft(q)] # "idle"
            /\ req[q].kind \in {"save", "publish new"} => Draft(q) = q
            /\ pc[q] \in Replacing => req[q].kind \notin {"save", "publish new"}
            /\ \A x \in classIds[q] :
                 pc[x.by] # "idle" /\ Draft(x.by) = Draft(q)
        BY <1>1, <1>3, <2>3, <3>2 DEF Origin, Replacing
      <4>2. \A x \in classIds[q] : x.by \in Requests
        <5>1. classIds[q] \subseteq UNION {ClassRows(p) : p \in Requests}
          BY <1>1 DEF TypeOK
        <5> QED
          BY <5>1, PayloadBy DEF Payload
      <4>3. \A x \in classIds[q] : x.by # r
        BY <1>2, <4>1
      <4>4. \A x \in classIds'[q] : pc'[x.by] # "idle" /\ Draft(x.by)' = Draft(q)'
        BY <1>2, <1>4, <2>1, <3>2, <4>1, <4>2, <4>3
      <4>5. pc'[Draft(q)] # "idle"
        BY <2>1, <4>1
      <4> QED
        BY <1>3, <1>4, <3>2, <4>1, <4>4, <4>5
    <3> QED
      BY <3>1, <3>2
  <2>4. ASSUME NEW q \in Requests
        PROVE  /\ pc'[q] = "idle" => classIds'[q] = {}
               /\ returned'[q] # {} => pc'[q] \in {"number", "metadata"} \cup Ends
    <3>1. CASE q = r
      BY <1>2, <1>5, <1>6, <3>1
    <3>2. CASE q # r
      BY <1>1, <1>2, <1>3, <3>2 DEF Origin
    <3> QED
      BY <3>1, <3>2
  <2>5. ASSUME NEW f \in Requests
        PROVE  IF events[f] = None THEN metadata[f] = None
               ELSE pc'[events[f]] # "idle" /\ req'[events[f]].draft = f
    <3>1. events[f] \in Requests \cup {None} /\ events[f] # r
      BY <1>1, <1>6 DEF TypeOK
    <3>2. IF events[f] = None THEN metadata[f] = None
          ELSE pc[events[f]] # "idle" /\ req[events[f]].draft = f
      BY <1>1 DEF Origin, Draft
    <3> QED
      BY <1>3, <2>1, <3>1, <3>2
  <2> QED
    BY <1>2, <2>2, <2>3, <2>4, <2>5 DEF Origin, Replacing, Draft
<1>11. AloneInv'
  <2>1. \A q \in Requests \ {r} : InFlight(q)' <=> InFlight(q)
    BY <1>3 DEF InFlight
  <2>2. ASSUME NEW p \in Requests, NEW q \in Requests, InFlight(p)', InFlight(q)',
               Draft(p)' = Draft(q)', p \in alone'
        PROVE  q = p
    <3>1. CASE p = r /\ q # r
      BY <1>2, <1>4, <1>6, <2>1, <2>2, <3>1
    <3>2. CASE p # r /\ q = r
      BY <1>2, <1>4, <2>1, <2>2, <3>2
    <3>3. CASE p # r /\ q # r
      <4>1. p \in alone
        BY <1>2, <2>2, <3>3
      <4> QED
        BY <1>1, <1>4, <2>1, <2>2, <3>3, <4>1 DEF AloneInv
    <3> QED
      BY <3>1, <3>2, <3>3
  <2>3. ASSUME NEW q \in Requests, InFlight(q)', q \notin alone'
        PROVE  Draft(q)' \in disturbed'
    <3>1. CASE q = r
      BY <1>2, <1>4, <2>3, <3>1
    <3>2. CASE q # r
      <4>1. CASE q \in alone
        BY <1>2, <1>4, <2>3, <3>2, <4>1
      <4>2. CASE q \notin alone
        BY <1>1, <1>2, <1>4, <2>1, <2>3, <3>2, <4>2 DEF AloneInv
      <4> QED
        BY <4>1, <4>2
    <3> QED
      BY <3>1, <3>2
  <2>4. \A q \in Requests : pc'[q] = "idle" => q \notin alone'
    BY <1>1, <1>2, <1>3, <1>5 DEF AloneInv
  <2> HIDE DEF others
  <2> QED
    BY <2>2, <2>3, <2>4 DEF AloneInv
<1>12. NamesInv'
  <2>1. ~Passed(r)'
    BY <1>2, <1>4, <1>5, <1>6, DraftsAssumption DEF Passed
  <2>2. \A q \in Requests \ {r} : Passed(q)' <=> Passed(q)
    BY <1>2, <1>3 DEF Passed
  <2> QED
    BY <1>1, <1>2, <1>3, <2>1, <2>2 DEF NamesInv
<1>13. ASSUME NEW q \in alone', InFlight(q)' PROVE Hand(q)'
  <2>1. q \in Requests
    BY <1>1, <1>13 DEF TypeOK
  <2>2. CASE q = r
    <3>1. CASE kind \in {"save", "publish new"}
      <4>1. e = r /\ pc'[r] \in {"name", "save event"}
        BY <1>2, <1>5, <3>1
      <4>2. Written(r)' = {}
        BY <4>1 DEF Written
      <4> QED
        BY <1>2, <1>4, <1>6, <1>8, <2>2, <4>1, <4>2 DEF Hand, Writing
    <3>2. CASE kind \notin {"save", "publish new"}
      BY <1>5, <1>13, <2>2, <3>2, HoldsNothing DEF Replacing
    <3> QED
      BY <3>1, <3>2
  <2>3. CASE q # r
    <3>1. q \in alone /\ pc'[q] = pc[q] /\ Draft(q)' = Draft(q)
      BY <1>2, <1>3, <1>4, <1>13, <2>1, <2>3
    <3>2. Hand(q)
      BY <1>13, <3>1 DEF Inv, DraftsInv, InFlight
    <3>3. Payload(q)' = Payload(q) /\ TierRows(q)' = TierRows(q)
      BY <1>2, SameShape
    <3>4. Written(q)' = Written(q)
      BY <1>2, <3>1, <3>3 DEF Written
    <3> QED
      BY <1>2, <1>8, <3>1, <3>2, <3>3, <3>4 DEF Hand
  <2> QED
    BY <2>2, <2>3
<1>14. ASSUME NEW f \in Requests, Untouched(f)' PROVE Whole(f)'
  <2>1. Untouched(f)
    <3>1. \A q \in Requests \ {r} : Changing(q)' <=> Changing(q)
      BY <1>3 DEF Changing, InFlight
    <3>2. ~Changing(r)
      BY <1>2 DEF Changing, InFlight, Awaits
    <3> QED
      BY <1>2, <1>4, <1>14, <3>1, <3>2 DEF Untouched
  <2>2. Whole(f)
    BY <2>1 DEF Inv, DraftsInv
  <2> QED
    BY <1>2, <1>8, <2>2, SameShape DEF Whole
<1> QED
  BY <1>1, <1>10, <1>11, <1>12, <1>13, <1>14 DEF Inv, DraftsInv

-------------------------------------------------------------------------------
(* A started delete is executed, or the process ends. *)

\* A delete that reaches the database keeps the invariant.
LEMMA ExecuteKeeps ==
  ASSUME Inv, NEW x \in Rows, ExecuteDelete(x) PROVE Inv'
<1>1. TypeOK /\ TypeOK' /\ Origin /\ AloneInv /\ NamesInv
  BY DeleteType DEF Inv, DraftsInv
<1>2. /\ x \in deleting /\ rows' = rows \ {x} /\ numbered' = numbered \ {x}
      /\ deleting' = deleting \ {x}
      /\ UNCHANGED <<shape, req, at, classIds, returned, pc, events, metadata,
                     alone, disturbed, raced>>
  BY DEF ExecuteDelete, local, ghosts
<1>3. Origin'
  BY <1>1, <1>2 DEF Origin, Draft
<1>4. AloneInv' /\ NamesInv'
  BY <1>1, <1>2 DEF AloneInv, NamesInv, InFlight, Draft, Passed
<1>5. ASSUME NEW f, x \notin Below(f) PROVE Below(f)' = Below(f)
  BY <1>2, <1>5 DEF Below, Draft
<1>6. ASSUME NEW q \in alone', InFlight(q)' PROVE Hand(q)'
  <2>1. Hand(q) /\ q \in Requests
    BY <1>1, <1>2, <1>6 DEF Inv, DraftsInv, InFlight, TypeOK
  <2>2. Payload(q)' = Payload(q) /\ TierRows(q)' = TierRows(q)
    BY <1>2, SameShape
  <2>3. Written(q)' = Written(q) /\ (Draft(q))' = Draft(q)
    BY <1>2, <2>2 DEF Written, Draft
  <2>4. CASE pc[q] \in {"name", "save event"} \cup Writing
    <3>1. Below(Draft(q)) = Written(q) /\ Written(q) \cap deleting = {}
      BY <2>1, <2>4 DEF Hand
    <3>2. Below(Draft(q))' = Below(Draft(q))
      BY <1>2, <1>5, <2>3, <3>1
    <3>3. pc[q] \in {"number", "metadata"} => x \notin returned[q]
      <4>1. SUFFICES ASSUME pc[q] \in {"number", "metadata"}
                     PROVE  returned[q] \subseteq Payload(q) /\ Written(q) = Payload(q)
        BY <1>2, <3>1
      <4> QED
        BY <2>1, <4>1 DEF Hand, Written, Payload
    <3> QED
      BY <1>2, <2>1, <2>2, <2>3, <3>1, <3>2, <3>3 DEF Hand
  <2>5. CASE pc[q] \notin {"name", "save event"} \cup Writing
    BY <1>2, <2>5 DEF Hand, Writing
  <2> QED
    BY <2>4, <2>5
<1>7. ASSUME NEW f \in Requests, Untouched(f)' PROVE Whole(f)'
  <2>1. Untouched(f)
    BY <1>2, <1>7 DEF Untouched, Changing, InFlight, Draft
  <2>2. Whole(f)
    BY <2>1 DEF Inv, DraftsInv
  <2>3. x \notin Below(f) /\ TierRows(events[f]) \subseteq Below(f)
    BY <1>2, <2>2 DEF Whole, Payload
  <2> QED
    BY <1>2, <1>5, <2>2, <2>3, SameShape DEF Whole
<1> QED
  BY <1>1, <1>3, <1>4, <1>6, <1>7 DEF Inv, DraftsInv

\* The end of the process keeps the invariant, whichever of the started deletes
\* were sent.
LEMMA StopKeeps ==
  ASSUME Inv, RejectDelete \/ Restart PROVE Inv'
<1>1. TypeOK /\ TypeOK' /\ Origin /\ AloneInv /\ NamesInv
  BY DeleteType DEF Inv, DraftsInv
<1>2. PICK sent \in SUBSET deleting :
        rows' = rows \ sent /\ numbered' = numbered \ sent
  BY DEF RejectDelete, Restart, Stop
<1>3. /\ deleting' = {}
      /\ pc' = [r \in Requests |-> IF InFlight(r) THEN "failed" ELSE pc[r]]
      /\ disturbed' = disturbed \cup
           {Draft(r) : r \in {q \in Requests : Changing(q)}}
      /\ UNCHANGED <<shape, req, at, classIds, returned, events, metadata, alone,
                     raced>>
  BY DEF RejectDelete, Restart, Stop, Disturb, local
<1>4. ASSUME NEW q \in Requests
      PROVE  /\ ~InFlight(q)' /\ (pc'[q] = "idle" <=> pc[q] = "idle")
             /\ pc'[q] \in {pc[q], "failed"} /\ (Draft(q))' = Draft(q)
  BY <1>1, <1>3 DEF InFlight, Awaits, Ends, TypeOK, Draft
<1>5. Origin'
  <2>1. deleting' \subseteq rows'
    BY <1>3
  <2>2. \A x \in rows : x.by \in Requests
    BY <1>1, RowOfPayload DEF TypeOK
  <2>3. \A q \in Requests : \A x \in classIds[q] : x.by \in Requests
    <3>1. \A q \in Requests :
            classIds[q] \subseteq UNION {ClassRows(p) : p \in Requests}
      BY <1>1 DEF TypeOK
    <3> QED
      BY <3>1, PayloadBy DEF Payload
  <2>4. \A x \in rows' : pc'[x.by] # "idle"
    BY <1>1, <1>2, <1>4, <2>2 DEF Origin
  <2>5. ASSUME NEW q \in Requests, pc'[q] # "idle"
        PROVE  /\ Draft(q) \in Requests /\ pc'[Draft(q)] # "idle"
               /\ req[q].kind \in {"save", "publish new"} => Draft(q) = q
               /\ pc'[q] \in Replacing =>
                    req[q].kind \notin {"save", "publish new"}
               /\ \A x \in classIds[q] :
                    pc'[x.by] # "idle" /\ Draft(x.by) = Draft(q)
    BY <1>1, <1>4, <2>3, <2>5 DEF Origin, Replacing
  <2>6. ASSUME NEW q \in Requests
        PROVE  /\ pc'[q] = "idle" => classIds[q] = {}
               /\ returned[q] # {} => pc'[q] \in {"number", "metadata"} \cup Ends
    BY <1>1, <1>4 DEF Origin, Ends
  <2>7. ASSUME NEW f \in Requests
        PROVE  IF events[f] = None THEN metadata[f] = None
               ELSE pc'[events[f]] # "idle" /\ Draft(events[f]) = f
    BY <1>1, <1>4 DEF Origin, TypeOK
  <2>8. \A q : Draft(q)' = Draft(q)
    BY <1>3 DEF Draft
  <2> QED
    BY <1>3, <2>1, <2>4, <2>5, <2>6, <2>7, <2>8 DEF Origin, Replacing
<1>6. AloneInv'
  BY <1>1, <1>3, <1>4 DEF AloneInv
<1>7. NamesInv'
  <2>1. \A q \in Requests : Passed(q)' => Passed(q)
    BY <1>3, <1>4 DEF Passed
  <2> QED
    BY <1>1, <1>3, <2>1 DEF NamesInv
<1>8. \A q \in alone' : ~InFlight(q)'
  BY <1>1, <1>4 DEF TypeOK
<1>9. ASSUME NEW f \in Requests, Untouched(f)' PROVE Whole(f)'
  <2>1. Untouched(f)
    BY <1>3, <1>9 DEF Untouched
  <2>2. Whole(f)
    BY <2>1 DEF Inv, DraftsInv
  <2>3. TierRows(events[f]) \subseteq Below(f) /\ Below(f) \cap sent = {}
    BY <1>2, <2>2 DEF Whole, Payload
  <2>4. Below(f)' = Below(f)
    BY <1>2, <1>3, <2>3 DEF Below, Draft
  <2> QED
    BY <1>2, <1>3, <2>2, <2>3, <2>4, SameShape DEF Whole
<1> QED
  BY <1>1, <1>5, <1>6, <1>7, <1>8, <1>9 DEF Inv, DraftsInv

-------------------------------------------------------------------------------
(* The invariant and what follows from it. *)

\* The invariant holds at the beginning.
LEMMA InitInv == ASSUME Init PROVE Inv
<1>1. TypeOK
  BY InitType
<1>2. \A r \in Requests : pc[r] = "idle" /\ ~InFlight(r) /\ events[r] = None
  BY DEF Init, InFlight, Awaits
<1>3. Origin
  BY DEF Init, Origin
<1>4. AloneInv
  BY <1>2 DEF Init, AloneInv
<1>5. NamesInv
  BY <1>2, DraftsAssumption DEF NamesInv, Passed
<1> QED
  BY <1>1, <1>2, <1>3, <1>4, <1>5 DEF Init, Inv, DraftsInv, Untouched

\* Each step of a request keeps the invariant.
LEMMA StepKeeps ==
  ASSUME Inv, NEW r \in Requests, RequestStep(r) PROVE Inv'
<1>1. InFlight(r) /\ pc[r] # "idle"
  BY StepLocal DEF Local, InFlight, Awaits
<1>2. TypeOK'
  BY <1>1, DraftOf, StepType DEF Inv
<1> QED
  BY <1>2, FindNameKeeps, SaveEventKeeps, CreateTiersKeeps, SaveClassKeeps,
     SaveArtistsKeeps, NumberKeeps, MetadataKeeps, LookKeeps, DeletingKeeps
  DEF RequestStep

\* The invariant depends on the variables only.
LEMMA StutterKeeps == ASSUME Inv, UNCHANGED vars PROVE Inv'
<1>1. TypeOK'
  <2>1. DataType' /\ ControlType'
    <3>1. DataType /\ ControlType
      BY TypeParts DEF Inv
    <3>2. DataType'
      BY <3>1, SameShape DEF DataType, vars
    <3>3. ControlType'
      BY <3>1 DEF ControlType, vars, NTiers, NClasses
    <3> QED
      BY <3>2, <3>3
  <2> QED
    BY <2>1, TypeParts
<1>2. Origin' /\ AloneInv' /\ NamesInv'
  BY DEF Inv, DraftsInv, Origin, AloneInv, NamesInv, vars, Draft, InFlight, Passed
<1>3. \A q : Hand(q)' <=> Hand(q)
  <2>1. ASSUME NEW q PROVE (Written(q))' = Written(q)
    <3>1. (Payload(q))' = Payload(q)
      BY SameShape DEF vars
    <3> QED
      BY <3>1 DEF vars, Written
  <2>2. \A q : (Draft(q))' = Draft(q) /\ (Below(Draft(q)))' = Below(Draft(q))
    BY DEF vars, Below, Draft
  <2> QED
    BY <2>1, <2>2, SameShape DEF vars, Hand
<1>4. \A e : (Whole(e)' <=> Whole(e)) /\ (Untouched(e)' <=> Untouched(e))
  BY SameShape DEF vars, Whole, Untouched, Below, Draft, Changing, InFlight
<1> QED
  BY <1>1, <1>2, <1>3, <1>4 DEF Inv, DraftsInv, vars, InFlight

\* Every step keeps the invariant.
LEMMA NextKeeps == ASSUME Inv, [Next]_vars PROVE Inv'
  BY BeginKeeps, StepKeeps, RejectKeeps, ExecuteKeeps, StopKeeps, StutterKeeps
  DEF Next

\* The inductive invariant: whose rows lie below a draft, and what of them is on
\* its way out, at each await of a request that is alone with the draft
\* (EventsService.createEventDraftRecord, updateEventDraft, deleteDraftEvent).
THEOREM DraftsInvariant == Spec => []Inv
<1> QED
  BY InitInv, NextKeeps, PTL DEF Spec

\* Tables, requests and started deletes are what the code takes them for (all
\* of events.service.ts that writes below a draft).
THEOREM DraftTypes == Spec => []TypeOK
<1>1. Inv => TypeOK
  BY DEF Inv
<1> QED
  BY <1>1, DraftsInvariant, PTL

\* A settled draft is whole, and a request that is alone heals it, however many
\* requests there were (updateEventDraft, createEventDraftRecord).
THEOREM DraftWholeAlways == Spec => []DraftWhole
<1>1. ASSUME Inv PROVE \A e \in Settled : Untouched(e) /\ Whole(e)
  BY <1>1 DEF Settled, Quiet, Untouched, Changing, Inv, DraftsInv
<1>2. Inv => DraftWhole
  BY <1>1 DEF DraftWhole, Whole
<1> QED
  BY <1>2, DraftsInvariant, PTL

\* The metadata of a settled draft names all its tiers with their numbers
\* (verifyEventInformation, updateTierIndex).
THEOREM MetadataCurrentAlways == Spec => []MetadataCurrent
<1>1. ASSUME Inv PROVE \A e \in Settled : Whole(e)
  BY <1>1 DEF Settled, Quiet, Untouched, Changing, Inv, DraftsInv
<1>2. Inv => MetadataCurrent
  BY <1>1 DEF MetadataCurrent, Whole
<1> QED
  BY <1>2, DraftsInvariant, PTL

\* Names of drafts are distinct, but for updates, publications and saves that
\* were checked while the other was on its way (saveEventsDraft).
THEOREM NamesDistinctAlways == Spec => []NamesDistinct
<1>1. ASSUME Inv PROVE NamesDistinct
  <2>1. SUFFICES ASSUME NEW e \in Requests, NEW f \in Requests, e # f,
                        events[e] # None, events[f] # None, Name(e) = Name(f),
                        req[events[e]].kind = "save", req[events[f]].kind = "save"
                 PROVE  {events[e], events[f]} \cap raced # {}
    BY DEF NamesDistinct
  <2>2. \A d \in {e, f} : events[d] \in Requests /\ events[d] = d
    BY <1>1, <2>1 DEF Inv, TypeOK, DraftsInv, Origin
  <2>3. Passed(e) /\ Passed(f) /\ req[e].name = req[f].name
    BY <2>1, <2>2 DEF Passed, Name
  <2> QED
    BY <1>1, <2>1, <2>2, <2>3 DEF Inv, DraftsInv, NamesInv
<1> QED
  BY <1>1, DraftsInvariant, PTL

===============================================================================
