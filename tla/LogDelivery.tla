------------------------------ MODULE LogDelivery ------------------------------
(***************************************************************************)
(* What a polling job promises of one kind of contract event, with no word *)
(* of ticks, cursors, ranges or restarts: once it has recorded a log it    *)
(* takes every later log of the chain, in the order of the chain and at    *)
(* least once, and it records none twice.  Logs older than everything it   *)
(* has recorded are not promised: that is where a cold start leaves off.   *)
(*                                                                         *)
(* IngestJob implements this specification.                                *)
(***************************************************************************)
EXTENDS Naturals

CONSTANT Log  \* names of logs: the number of the block, the index within it

VARIABLES
  logs,      \* logs of this event in the chain
  recorded,  \* logs that have a row in blockchain_snapshots
  handled    \* logs a handler has finished

deliveryVars == <<logs, recorded, handled>>

Precedes(l, m) == l[1] < m[1] \/ (l[1] = m[1] /\ l[2] < m[2])

\* The job follows the chain since the oldest log it has recorded.
Since(l) == \E s \in recorded : s[1] <= l[1]

\* l is the next one to take, or one that is taken again.
Due(l) ==
  l \in logs /\ \A m \in logs : Precedes(m, l) /\ Since(m) => m \in handled

Init == recorded = {} /\ handled = {} /\ logs \in SUBSET Log

\* A new block: its logs come after all others.
Extend ==
  /\ \E new \in SUBSET Log :
       /\ \A l \in new, m \in logs : m[1] < l[1]
       /\ logs' = logs \cup new
  /\ UNCHANGED <<recorded, handled>>

Record(l) ==
  /\ Due(l) /\ l \notin recorded
  /\ recorded' = recorded \cup {l}
  /\ UNCHANGED <<logs, handled>>

Finish(l) ==
  /\ Due(l)
  /\ handled' = handled \cup {l}
  /\ UNCHANGED <<logs, recorded>>

Next == Extend \/ \E l \in Log : Record(l) \/ Finish(l)

Spec == Init /\ [][Next]_deliveryVars
===============================================================================
