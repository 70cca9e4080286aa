----------------------------- MODULE SessionsProofs ----------------------------
(***************************************************************************)
(* Proofs about the refresh tokens of a user for every set of browsers,    *)
(* requests and rows, every life time of a token and every clock: a        *)
(* session that nothing has disturbed has one live row at most, and none   *)
(* once its sign-out was answered.  The inductive invariant is TypeOK with *)
(* SessionsInv, which says what is live at each await of the one request   *)
(* that works on the session; every step is looked at for one session that *)
(* is undisturbed after it, and so was before (Monotone).                  *)
(*                                                                         *)
(* And no browser is locked out: whatever requests of a user overlap, its  *)
(* cookie is the token of a live row, or an answer with another one is on  *)
(* its way, or something was lost or shared that the code cannot know of.  *)
(* For that BackedInv adds what holds of a session that overlapping        *)
(* requests work on (Owned, Single), and that an undisturbed one has a     *)
(* live row at all (Standing).                                             *)
(***************************************************************************)
EXTENDS Sessions, TLAPS

\* The inductive invariant of what undisturbed sessions have.
Inv == TypeOK /\ SessionsInv

\* No row has the token None.
LEMMA NoToken == ASSUME TypeOK PROVE SessionsOf(None) = {}
<1>1. \A i \in used : token[i] # None
  BY NoneAssumption DEF TypeOK
<1> QED
  BY <1>1 DEF SessionsOf

\* What a request works on: the sessions of its cookie and of its new row.
LEMMA WorksOn ==
  ASSUME TypeOK, NEW r \in Requests, NEW s
  PROVE  Works(r, s) <=> \/ s \in SessionsOf(request[r].cookie)
                         \/ /\ request[r].fresh # None
                            /\ session[request[r].fresh] = s
  BY DEF Works, About

\* A request that is idle works on nothing.
LEMMA IdleRests ==
  ASSUME TypeOK, NEW r \in Requests, request[r] = Idle, NEW s
  PROVE  ~Works(r, s)
  BY WorksOn, NoToken DEF Idle

\* Rows keep their tokens and sessions, and what has disturbed a session stays.
Onward ==
  /\ used \subseteq used' /\ cut \subseteq cut' /\ raced \subseteq raced'
  /\ \A i \in used : token'[i] = token[i] /\ session'[i] = session[i]

\* So a disturbed session stays one.
LEMMA Monotone ==
  ASSUME Onward, NEW s, ~Disturbed(s)' PROVE ~Disturbed(s)
  BY DEF Onward, Disturbed, Shares

\* Rows with one token are of one session, if one of them is undisturbed.
LEMMA Unshared ==
  ASSUME NEW s, ~Disturbed(s), NEW i \in used, NEW j \in used,
         token[i] = token[j], session[i] = s
  PROVE  session[j] = s
  BY DEF Disturbed, Shares

\* The undisturbed session that a request works on is the one of the row it has
\* found, and of the row it has inserted.
LEMMA OwnSession ==
  ASSUME Inv, NEW r \in Requests, NEW s, ~Disturbed(s), Works(r, s)
  PROVE  /\ request[r].phase \in {"found", "inserted"} =>
              session[request[r].row] = s
         /\ request[r].phase = "inserted" => session[request[r].fresh] = s
         /\ request[r].phase = "answered" /\ request[r].kind # "signOut" =>
              session[request[r].fresh] = s
<1> DEFINE q == request[r]
<1> USE DEF Inv, SessionsInv
<1>1. /\ s \in SessionsOf(q.cookie) => \E i \in used :
           token[i] = q.cookie /\ session[i] = s
      /\ s \in SessionsOf(q.cookie) \/ (q.fresh # None /\ session[q.fresh] = s)
  BY WorksOn DEF SessionsOf
<1>2. ASSUME q.phase \in {"found", "inserted"} PROVE session[q.row] = s
  <2>1. q.row \in used /\ token[q.row] = q.cookie
    BY <1>2 DEF HandInv, Hand
  <2>2. CASE s \in SessionsOf(q.cookie)
    BY <1>1, <2>1, <2>2, Unshared
  <2>3. CASE q.fresh # None /\ session[q.fresh] = s
    BY <1>2, <2>1, <2>3 DEF HandInv, Hand
  <2> QED
    BY <1>1, <2>2, <2>3
<1>3. q.phase = "inserted" => session[q.fresh] = s
  BY <1>2 DEF HandInv, Hand
<1>4. ASSUME q.phase = "answered", q.kind = "refresh" PROVE session[q.fresh] = s
  <2>1. PICK j \in used : token[j] = q.cookie /\ session[j] = session[q.fresh]
    BY <1>4 DEF HandInv, Hand
  <2> QED
    BY <1>1, <2>1, Unshared
<1>5. ASSUME q.phase = "answered", q.kind = "signIn" PROVE session[q.fresh] = s
  BY <1>1, <1>5, NoToken DEF HandInv, Hand
<1>6. q.kind \in Kinds
  BY DEF TypeOK, RequestStates
<1> QED
  BY <1>2, <1>3, <1>4, <1>5, <1>6 DEF Kinds

-------------------------------------------------------------------------------
(* Steps that end requests and drop cookies. *)

\* Without a change of the rows, sessions are what they were.
LEMMA SameRows ==
  ASSUME UNCHANGED rowVars
  PROVE  /\ \A k : SessionsOf(k)' = SessionsOf(k)
         /\ \A s : LiveRows(s)' = LiveRows(s)
  BY DEF rowVars, SessionsOf, LiveRows, Live

\* A step that only forgets: requests become idle, cookies are dropped, and what
\* is broken off between two writes, or before its answer, disturbs.
Forgets ==
  /\ UNCHANGED <<rowVars, signedOut>>
  /\ cut \subseteq cut' /\ raced \subseteq raced'
  /\ \A b \in Browsers : jar'[b] \in {jar[b], None}
  /\ \A r \in Requests :
       \/ request'[r] = request[r]
       \/ /\ request'[r] = Idle
          /\ request[r].phase \in {"inserted", "answered"} =>
               About(request[r]) \subseteq cut'

\* They leave what requests have in hand.
LEMMA ForgetKeepsHand ==
  ASSUME Inv, Forgets PROVE HandInv'
<1> USE DEF Inv, SessionsInv, Forgets, rowVars
<1>1. \A b \in Browsers : jar'[b] # None => \E i \in used' : token'[i] = jar'[b]
  BY DEF HandInv, Hand
<1>2. ASSUME NEW r \in Requests PROVE Hand(r)'
  <2>1. CASE request'[r] = request[r]
    BY <2>1 DEF HandInv, Hand
  <2>2. CASE request'[r] = Idle
    BY <2>2 DEF Hand, Idle
  <2> QED
    BY <2>1, <2>2
<1> QED
  BY <1>1, <1>2 DEF HandInv

\* And all that is said of undisturbed sessions.
LEMMA ForgetKeeps ==
  ASSUME Inv, TypeOK', Forgets PROVE Inv'
<1> USE DEF Inv, SessionsInv
<1>1. SUFFICES ASSUME NEW s \in used', ~Disturbed(s)' PROVE Tidy(s)'
  BY ForgetKeepsHand
<1>2. ~Disturbed(s) /\ Tidy(s)
  BY <1>1, Monotone DEF Onward, Forgets, rowVars
<1>3. ASSUME NEW r \in Requests, Works(r, s)'
      PROVE  request'[r] = request[r] /\ Works(r, s)
  <2>1. CASE request'[r] = request[r]
    BY <1>3, <2>1, SameRows DEF Forgets, Works, About, rowVars
  <2>2. CASE request'[r] = Idle
    <3>1. SessionsOf(None)' = {}
      BY NoToken, SameRows DEF Forgets
    <3> QED
      BY <1>3, <2>2, <3>1 DEF Works, About, Idle
  <2> QED
    BY <2>1, <2>2 DEF Forgets
<1>4. ASSUME NEW b \in Browsers, Holds(b, s)'
      PROVE  jar'[b] = jar[b] /\ Holds(b, s)
  BY <1>4, NoToken, SameRows DEF Forgets, Holds
<1>5. ASSUME NEW r \in Requests, Works(r, s),
             request[r].phase \in {"inserted", "answered"}
      PROVE  Works(r, s)' /\ request'[r] = request[r]
  <2>1. request'[r] = request[r]
    BY <1>1, <1>5 DEF Forgets, Works, Disturbed
  <2> QED
    BY <1>5, <2>1, SameRows DEF Forgets, Works, About, rowVars
<1>6. Alone(s)'
  BY <1>2, <1>3, <1>4 DEF Tidy, Alone
<1>7. \A r \in Requests : Works(r, s) => request[r].phase # "idle"
  BY IdleRests DEF HandInv, Hand
<1>8. Quiet(s)'
  <2>1. SUFFICES
          ASSUME \A r \in Requests :
                   Works(r, s)' => request'[r].phase \in {"sent", "found"}
          PROVE  /\ \A i, j \in LiveRows(s)' : i = j
                 /\ \A b \in Browsers : Holds(b, s)' =>
                      \A i \in LiveRows(s)' : token'[i] = jar'[b]
    BY DEF Quiet
  <2>2. \A r \in Requests :
          Works(r, s) => request[r].phase \in {"sent", "found"}
    BY <1>5, <1>7, <2>1 DEF TypeOK, RequestStates, Phases
  <2>3. /\ \A i, j \in LiveRows(s) : i = j
        /\ \A b \in Browsers : Holds(b, s) =>
             \A i \in LiveRows(s) : token[i] = jar[b]
    BY <1>2, <2>2 DEF Tidy, Quiet
  <2> QED
    BY <1>4, <2>3, SameRows DEF Forgets, rowVars
<1>9. \A r \in Requests : Works(r, s)' => Progress(r, s)'
  BY <1>2, <1>3, SameRows DEF Tidy, Progress, Forgets, rowVars
<1>10. s \in signedOut' => LiveRows(s)' = {}
  BY <1>2, SameRows DEF Tidy, Forgets
<1> QED
  BY <1>6, <1>8, <1>9, <1>10 DEF Tidy

-------------------------------------------------------------------------------
(* What a step must not do to a session. *)

\* Nobody begins or ends work on the session, and its rows stay.
Untouched(s) ==
  /\ LiveRows(s)' = LiveRows(s)
  /\ \A i \in LiveRows(s) : token'[i] = token[i]
  /\ \A r \in Requests :
       /\ Works(r, s)' => Works(r, s)
       /\ Works(r, s) => Works(r, s)' /\ request'[r] = request[r]
  /\ \A b \in Browsers : Holds(b, s)' => Holds(b, s) /\ jar'[b] = jar[b]
  /\ s \in signedOut' => s \in signedOut

\* A session that no request works on stays as tidy as it was.
LEMMA UntouchedTidy ==
  ASSUME TypeOK, NEW s, Tidy(s), Untouched(s) PROVE Tidy(s)'
<1> USE DEF Tidy, Untouched
<1>1. Alone(s)'
  BY DEF Alone
<1>2. Quiet(s)'
  BY DEF Quiet
<1>3. ASSUME NEW r \in Requests, Works(r, s)' PROVE Progress(r, s)'
  BY <1>3 DEF Progress
<1> QED
  BY <1>1, <1>2, <1>3

\* One request begins to write, or goes on to its answer: nobody else comes near
\* the session.
Busy(r, s) ==
  /\ Works(r, s)
  /\ request'[r].browser = request[r].browser
  /\ request'[r].phase \in {"inserted", "answered"}
  /\ \A o \in Requests \ {r} : ~Works(o, s) => ~Works(o, s)'
  /\ Works(r, s)'
  /\ \A b \in Browsers : Holds(b, s)' => Holds(b, s)
  /\ s \in signedOut' => s \in signedOut

\* One that a request works on is as tidy as the request leaves it.
LEMMA BusyTidy ==
  ASSUME NEW r \in Requests, NEW s, Tidy(s), Busy(r, s), Progress(r, s)',
         s \in signedOut => LiveRows(s)' = {}
  PROVE  Tidy(s)'
<1> USE DEF Tidy, Busy
<1>1. \A o \in Requests : Works(o, s)' => o = r
  BY DEF Alone
<1>2. Alone(s)'
  BY <1>1 DEF Alone
<1>3. Quiet(s)'
  BY DEF Quiet
<1> QED
  BY <1>1, <1>2, <1>3

\* What a request has inserted is a row.
LEMMA FreshIsRow ==
  ASSUME HandInv PROVE \A r \in Requests : request[r].fresh \in used \cup {None}
  BY DEF HandInv, Hand

\* The others keep what they hold when one request goes on and no row changes.
Others(r) == \A o \in Requests \ {r} : request'[o] = request[o]

\* A request leaves what the others have in hand.
LEMMA OthersHand ==
  ASSUME HandInv, NEW r \in Requests, Others(r), Hand(r)', Onward,
         \A b \in Browsers :
           \/ jar'[b] = jar[b]
           \/ \E i \in used' : token'[i] = jar'[b]
           \/ jar'[b] = None
  PROVE  HandInv'
<1>1. ASSUME NEW o \in Requests \ {r}, request[o].fresh \in used \cup {None}
      PROVE Hand(o)'
  BY <1>1 DEF HandInv, Hand, Others, Onward
<1>2. ASSUME NEW b \in Browsers, jar'[b] # None
      PROVE  \E i \in used' : token'[i] = jar'[b]
  BY <1>2 DEF HandInv, Onward
<1>3. \A o \in Requests : request[o].fresh \in used \cup {None}
  BY FreshIsRow
<1> QED
  BY <1>1, <1>2, <1>3 DEF HandInv

-------------------------------------------------------------------------------
(* Requests that come in and look for their row. *)

\* What Send makes of a request, and of the sessions of its cookie.
LEMMA SendKeeps ==
  ASSUME Inv, NEW r \in Requests, Send(r) PROVE Inv'
<1> USE DEF Inv, SessionsInv
<1>1. PICK b \in Browsers, d \in Kinds :
        LET k == IF d = "signIn" THEN None ELSE jar[b] IN
        /\ d # "signIn" => k # None
        /\ request' = [request EXCEPT ![r] =
             [Idle EXCEPT !.phase = "sent", !.kind = d, !.browser = b,
                          !.cookie = k]]
        /\ raced' = raced \cup
             {s \in SessionsOf(k) :
                \E o \in Requests \ {r} : s \in About(request[o])}
  BY DEF Send
<1> DEFINE k == IF d = "signIn" THEN None ELSE jar[b]
           q == [Idle EXCEPT !.phase = "sent", !.kind = d, !.browser = b,
                             !.cookie = k]
<1>2. /\ request[r] = Idle
      /\ UNCHANGED <<now, rotation, rowVars, jar, signedOut, cut>>
  BY DEF Send, HandInv, Hand
<1>3. /\ q \in RequestStates /\ q.phase = "sent" /\ q.kind = d /\ q.browser = b
      /\ q.cookie = k /\ q.row = None /\ q.fresh = None
  BY DEF Idle, RequestStates, Phases, TypeOK
<1>4. request'[r] = q /\ Others(r) /\ request' \in [Requests -> RequestStates]
  BY <1>1, <1>3 DEF TypeOK, Others
<1>5. SessionsOf(k) \subseteq used
  BY DEF SessionsOf, TypeOK
<1>6. TypeOK'
  <2>1. raced' \subseteq used
    BY <1>1, <1>5 DEF TypeOK
  <2>2. \A o \in Requests \ {r} :
          {request'[o].row, request'[o].fresh} \subseteq used \cup {None}
    BY <1>4 DEF TypeOK, Others
  <2>3. {request'[r].row, request'[r].fresh} \subseteq used \cup {None}
    BY <1>3, <1>4
  <2> QED
    BY <1>2, <1>4, <2>1, <2>2, <2>3 DEF TypeOK, rowVars
<1>7. Onward
  BY <1>1, <1>2 DEF Onward, rowVars
<1>8. HandInv'
  <2>1. Hand(r)'
    BY <1>1, <1>2, <1>3, <1>4 DEF HandInv, Hand, rowVars
  <2> QED
    BY <1>2, <1>4, <1>7, <2>1, OthersHand
<1>9. SUFFICES ASSUME NEW s \in used', ~Disturbed(s)' PROVE Tidy(s)'
  BY <1>6, <1>8
<1>10. ~Disturbed(s) /\ Tidy(s)
  BY <1>2, <1>7, <1>9, Monotone DEF rowVars
<1>11. ~Works(r, s)
  BY <1>2, IdleRests
<1>12. \A o \in Requests \ {r} : Works(o, s)' <=> Works(o, s)
  BY <1>2, <1>4, SameRows DEF Works, About, Others, rowVars
<1>13. \A c \in Browsers : Holds(c, s)' <=> Holds(c, s)
  BY <1>2, SameRows DEF Holds
<1>14. Works(r, s)' <=> s \in SessionsOf(k)
  BY <1>2, <1>3, <1>4, <1>6, SameRows DEF Works, About, rowVars
<1>15. CASE s \notin SessionsOf(k)
  <2>1. Untouched(s)
    BY <1>2, <1>4, <1>11, <1>12, <1>13, <1>14, <1>15, SameRows
       DEF Untouched, Others, rowVars
  <2> QED
    BY <1>10, <2>1, UntouchedTidy
<1>16. CASE s \in SessionsOf(k)
  <2>1. \A o \in Requests : ~Works(o, s)
    BY <1>1, <1>9, <1>11, <1>16 DEF Works, Disturbed
  <2>2. k = jar[b] /\ Holds(b, s)
    BY <1>16, NoToken DEF Holds
  <2>3. /\ \A i, j \in LiveRows(s) : i = j
        /\ \A c \in Browsers : Holds(c, s) =>
             \A i \in LiveRows(s) : token[i] = jar[c]
    BY <1>10, <2>1 DEF Tidy, Quiet
  <2>4. Alone(s)'
    BY <1>3, <1>4, <1>10, <1>12, <1>13, <2>1, <2>2 DEF Tidy, Alone
  <2>5. Quiet(s)'
    BY <1>2, <1>13, <2>3, SameRows DEF Quiet, rowVars
  <2>6. ASSUME NEW o \in Requests, Works(o, s)' PROVE Progress(o, s)'
    <3>1. o = r
      BY <1>12, <2>1, <2>6
    <3>2. \A i \in LiveRows(s)' : token'[i] = k
      BY <1>2, <2>2, <2>3, SameRows DEF rowVars
    <3> QED
      BY <1>3, <1>4, <3>1, <3>2 DEF Progress
  <2>7. s \in signedOut' => LiveRows(s)' = {}
    BY <1>2, <1>10, SameRows DEF Tidy
  <2> QED
    BY <2>4, <2>5, <2>6, <2>7 DEF Tidy
<1> QED
  BY <1>15, <1>16

\* The row of a cookie that is found is live, and the only one of its session.
LEMMA FindRowKeeps ==
  ASSUME Inv, NEW r \in Requests, FindRow(r) PROVE Inv'
<1> USE DEF Inv, SessionsInv
<1> DEFINE q == request[r]
<1>1. PICK i \in Live :
        /\ token[i] = q.cookie
        /\ request' = [request EXCEPT ![r].phase = "found", ![r].row = i]
  BY DEF FindRow
<1>2. /\ q.phase = "sent" /\ q.kind = "refresh"
      /\ UNCHANGED <<now, rotation, rowVars, jar, histories>>
  BY DEF FindRow
<1>3. q \in RequestStates /\ i \in used /\ i \in Rows
  BY DEF TypeOK, Live
<1> DEFINE n == [q EXCEPT !.phase = "found", !.row = i]
<1>4. /\ n \in RequestStates /\ n.phase = "found" /\ n.row = i
      /\ n.kind = q.kind /\ n.browser = q.browser /\ n.cookie = q.cookie
      /\ n.fresh = q.fresh
  BY <1>3 DEF RequestStates, Phases
<1>5. request'[r] = n /\ Others(r) /\ request' \in [Requests -> RequestStates]
  BY <1>1, <1>4 DEF TypeOK, Others
<1>6. TypeOK'
  <2>1. \A o \in Requests :
          {request'[o].row, request'[o].fresh} \subseteq used \cup {None}
    BY <1>3, <1>4, <1>5 DEF TypeOK, Others
  <2> QED
    BY <1>2, <1>5, <2>1 DEF TypeOK, rowVars, histories
<1>7. Onward
  BY <1>2 DEF Onward, rowVars, histories
<1>8. HandInv'
  <2>1. Hand(r)'
    BY <1>1, <1>2, <1>3, <1>4, <1>5 DEF HandInv, Hand, rowVars
  <2> QED
    BY <1>2, <1>5, <1>7, <2>1, OthersHand
<1>9. SUFFICES ASSUME NEW s \in used', ~Disturbed(s)' PROVE Tidy(s)'
  BY <1>6, <1>8
<1>10. ~Disturbed(s) /\ Tidy(s)
  BY <1>2, <1>7, <1>9, Monotone DEF rowVars
<1>11. \A o \in Requests : Works(o, s)' <=> Works(o, s)
  <2>1. \A o \in Requests \ {r} : Works(o, s)' <=> Works(o, s)
    BY <1>2, <1>5, SameRows DEF Works, About, Others, rowVars
  <2>2. Works(r, s)' <=> Works(r, s)
    BY <1>2, <1>4, <1>5, SameRows DEF Works, About, rowVars
  <2> QED
    BY <2>1, <2>2
<1>12. \A c \in Browsers : Holds(c, s)' <=> Holds(c, s)
  BY <1>2, SameRows DEF Holds
<1>13. Alone(s)'
  BY <1>4, <1>5, <1>10, <1>11, <1>12 DEF Tidy, Alone, Others
<1>14. Quiet(s)'
  <2>1. (\A o \in Requests :
           Works(o, s)' => request'[o].phase \in {"sent", "found"})
        => (\A o \in Requests :
              Works(o, s) => request[o].phase \in {"sent", "found"})
    BY <1>2, <1>5, <1>11 DEF Others
  <2> QED
    BY <1>2, <1>10, <1>12, <2>1, SameRows DEF Tidy, Quiet, rowVars
<1>15. ASSUME Works(r, s) PROVE LiveRows(s) = {i}
  <2>1. q.fresh = None
    BY <1>2 DEF HandInv, Hand
  <2>2. s \in SessionsOf(q.cookie)
    BY <1>15, <2>1, WorksOn
  <2>3. session[i] = s
    BY <1>1, <1>3, <1>10, <2>2, Unshared DEF SessionsOf
  <2>4. \A o \in Requests : Works(o, s) => request[o].phase = "sent"
    BY <1>2, <1>10, <1>15 DEF Tidy, Alone
  <2>5. \A a, c \in LiveRows(s) : a = c
    BY <1>10, <2>4 DEF Tidy, Quiet
  <2> QED
    BY <2>3, <2>5 DEF LiveRows
<1>16. ASSUME NEW o \in Requests, Works(o, s)' PROVE Progress(o, s)'
  <2>1. CASE o = r
    BY <1>4, <1>5, <1>11, <1>15, <1>16, <1>2, <2>1, SameRows DEF Progress
  <2>2. CASE o # r
    BY <1>2, <1>5, <1>10, <1>11, <1>16, <2>2, SameRows
       DEF Tidy, Progress, Others, rowVars
  <2> QED
    BY <2>1, <2>2
<1>17. s \in signedOut' => LiveRows(s)' = {}
  BY <1>2, <1>10, SameRows DEF Tidy, histories
<1> QED
  BY <1>13, <1>14, <1>16, <1>17 DEF Tidy

-------------------------------------------------------------------------------
(* Inserts. *)

\* What Insert adds: one row; those that were there keep their token and
\* session.
LEMMA InsertAdds ==
  ASSUME TypeOK, NEW i \in Rows, NEW s \in Rows, Insert(i, s)
  PROVE  /\ i \notin used /\ used' = used \cup {i} /\ isRevoked' = isRevoked
         /\ token'[i] = now /\ session'[i] = s
         /\ \A j \in used : token'[j] = token[j] /\ session'[j] = session[j]
         /\ token' \in [Rows -> Seconds]
         /\ session' \in [Rows -> Rows \cup {None}]
  BY DEF Insert, TypeOK

\* To another session than the one of the new row, nothing happens.
LEMMA InsertElsewhere ==
  ASSUME TypeOK, NEW i \in Rows, NEW s \in Rows, Insert(i, s),
         NEW u, u # s
  PROVE  /\ LiveRows(u)' = LiveRows(u)
         /\ \A j \in LiveRows(u) : token'[j] = token[j]
         /\ \A k : u \in SessionsOf(k)' <=> u \in SessionsOf(k)
<1>1. LiveRows(u)' = LiveRows(u)
  BY InsertAdds DEF LiveRows, Live
<1>2. \A j \in LiveRows(u) : token'[j] = token[j]
  BY InsertAdds DEF LiveRows, Live
<1>3. ASSUME NEW k PROVE u \in SessionsOf(k)' <=> u \in SessionsOf(k)
  BY InsertAdds DEF SessionsOf
<1> QED
  BY <1>1, <1>2, <1>3

\* To the session of the new row it adds that row.  If it is undisturbed, the
\* token of the new row is that of no other session.
LEMMA InsertHere ==
  ASSUME TypeOK, NEW i \in Rows, NEW s \in Rows, Insert(i, s), ~Disturbed(s)'
  PROVE  /\ LiveRows(s)' = LiveRows(s) \cup {i}
         /\ \A k : s \in SessionsOf(k)' /\ (\E j \in used : token[j] = k)
                     => s \in SessionsOf(k)
<1>1. LiveRows(s)' = LiveRows(s) \cup {i}
  BY InsertAdds DEF LiveRows, Live, TypeOK
<1>2. ASSUME NEW k, s \in SessionsOf(k)', NEW j \in used, token[j] = k
      PROVE  s \in SessionsOf(k)
  <2>1. PICK l \in used' : token'[l] = k /\ session'[l] = s
    BY <1>2 DEF SessionsOf
  <2>2. CASE l \in used
    BY <2>1, <2>2, InsertAdds DEF SessionsOf
  <2>3. CASE l = i
    <3>1. session'[j] = s
      BY <1>2, <2>1, <2>3, InsertAdds DEF Disturbed, Shares
    <3> QED
      BY <1>2, <3>1, InsertAdds DEF SessionsOf
  <2> QED
    BY <2>1, <2>2, <2>3, InsertAdds
<1> QED
  BY <1>1, <1>2

\* verifyUser begins a session: its first row is its only one.
LEMMA SignInKeeps ==
  ASSUME Inv, NEW r \in Requests, SignIn(r) PROVE Inv'
<1> USE DEF Inv, SessionsInv
<1> DEFINE q == request[r]
<1>1. PICK i \in Rows :
        /\ Insert(i, i)
        /\ request' = [request EXCEPT ![r].phase = "answered", ![r].fresh = i]
  BY DEF SignIn
<1>2. /\ q.phase = "sent" /\ q.kind = "signIn" /\ q \in RequestStates
      /\ q.cookie = None /\ q.fresh = None
      /\ UNCHANGED <<now, rotation, jar, histories>>
  BY DEF SignIn, TypeOK, HandInv, Hand
<1> DEFINE n == [q EXCEPT !.phase = "answered", !.fresh = i]
<1>3. /\ n \in RequestStates /\ n.phase = "answered" /\ n.fresh = i
      /\ n.kind = q.kind /\ n.browser = q.browser /\ n.cookie = q.cookie
      /\ n.row = q.row
  BY <1>2 DEF RequestStates, Phases
<1>4. request'[r] = n /\ Others(r) /\ request' \in [Requests -> RequestStates]
  BY <1>1, <1>3 DEF TypeOK, Others
<1>5. TypeOK'
  <2>1. \A o \in Requests \ {r} :
          {request'[o].row, request'[o].fresh} \subseteq used' \cup {None}
    BY <1>1, <1>4, InsertAdds DEF TypeOK, Others
  <2>2. {request'[r].row, request'[r].fresh} \subseteq used' \cup {None}
    BY <1>1, <1>3, <1>4, InsertAdds DEF TypeOK
  <2>3. \A j \in used' : session'[j] \in used'
    BY <1>1, InsertAdds DEF TypeOK
  <2> QED
    BY <1>1, <1>2, <1>4, <2>1, <2>2, <2>3, InsertAdds DEF TypeOK, histories
<1>6. Onward
  BY <1>1, <1>2, InsertAdds DEF Onward, histories
<1>7. HandInv'
  <2>1. Hand(r)'
    BY <1>1, <1>2, <1>3, <1>4, InsertAdds DEF HandInv, Hand
  <2> QED
    BY <1>2, <1>4, <1>6, <2>1, OthersHand
<1>8. SUFFICES ASSUME NEW s \in used', ~Disturbed(s)' PROVE Tidy(s)'
  BY <1>5, <1>7
<1>9. ~Disturbed(s)
  BY <1>6, <1>8, Monotone
<1>10. CASE s # i
  <2>1. Tidy(s)
    BY <1>1, <1>8, <1>9, <1>10, InsertAdds
  <2>2. ~Works(r, s) /\ ~Works(r, s)'
    <3>1. ~Works(r, s)
      BY <1>2, NoToken, WorksOn
    <3>2. s \notin SessionsOf(None)'
      BY <1>1, <1>10, NoToken, InsertElsewhere
    <3>3. session'[i] # s
      BY <1>1, <1>10, InsertAdds
    <3> QED
      BY <1>2, <1>3, <1>4, <3>1, <3>2, <3>3 DEF Works, About
  <2>3. \A o \in Requests \ {r} : Works(o, s)' <=> Works(o, s)
    <3>1. SUFFICES ASSUME NEW o \in Requests \ {r}
          PROVE  Works(o, s)' <=> Works(o, s)
      OBVIOUS
    <3>2. request'[o] = request[o]
      BY <1>4 DEF Others
    <3>3. s \in SessionsOf(request[o].cookie)'
            <=> s \in SessionsOf(request[o].cookie)
      BY <1>1, <1>10, <3>2, InsertElsewhere
    <3>4. request[o].fresh # None =>
            session'[request[o].fresh] = session[request[o].fresh]
      BY <1>1, FreshIsRow, InsertAdds
    <3> QED
      BY <3>2, <3>3, <3>4 DEF Works, About
  <2>4. \A b \in Browsers : Holds(b, s)' <=> Holds(b, s)
    BY <1>1, <1>2, <1>10, InsertElsewhere DEF Holds
  <2>5. Untouched(s)
    BY <1>1, <1>2, <1>4, <1>10, <2>2, <2>3, <2>4, InsertElsewhere
       DEF Untouched, Others, histories
  <2> QED
    BY <2>1, <2>5, UntouchedTidy
<1>11. CASE s = i
  <2>1. \A j \in used : session[j] # s
    BY <1>1, <1>11, InsertAdds DEF TypeOK
  <2>2. LiveRows(s)' = {i}
    BY <1>1, <1>8, <1>11, <2>1, InsertHere DEF LiveRows, Live
  <2>3. \A k : s \in SessionsOf(k)' => \A j \in used : token[j] # k
    BY <1>1, <1>8, <1>11, <2>1, InsertHere DEF SessionsOf
  <2>4. \A b \in Browsers : ~Holds(b, s)'
    <3>1. s \notin SessionsOf(None)'
      BY <1>5, NoneAssumption DEF TypeOK, SessionsOf
    <3> QED
      BY <1>2, <2>3, <3>1 DEF HandInv, Holds
  <2>5. \A o \in Requests \ {r} : ~Works(o, s)'
    <3>1. ASSUME NEW o \in Requests \ {r}
          PROVE  /\ s \notin SessionsOf(request[o].cookie)'
                 /\ \/ request[o].fresh = None
                    \/ session'[request[o].fresh] # s
      <4>1. s \notin SessionsOf(None)'
        BY <1>5, NoneAssumption DEF TypeOK, SessionsOf
      <4>2. \/ request[o].cookie = None
            \/ \E j \in used : token[j] = request[o].cookie
        BY DEF HandInv, Hand
      <4>3. request[o].fresh \in used \cup {None}
        BY FreshIsRow
      <4> QED
        BY <1>1, <1>4, <2>1, <2>3, <4>1, <4>2, <4>3, InsertAdds DEF Others
    <3> QED
      BY <1>4, <3>1 DEF Works, About, Others
  <2>6. Works(r, s)'
    BY <1>1, <1>3, <1>4, <1>11, InsertAdds, NoneAssumption DEF Works, About
  <2>7. Progress(r, s)'
    BY <1>2, <1>3, <1>4, <2>2 DEF Progress
  <2>8. Quiet(s)'
    BY <1>3, <1>4, <2>6 DEF Quiet
  <2>9. s \notin signedOut'
    BY <1>1, <1>2, <1>11, InsertAdds DEF TypeOK, histories
  <2> QED
    BY <2>4, <2>5, <2>7, <2>8, <2>9 DEF Tidy, Alone
<1> QED
  BY <1>10, <1>11

\* refreshToken inserts the next row: two rows of the session are live, the one
\* it has found and the one it has inserted.
LEMMA InsertNextKeeps ==
  ASSUME Inv, NEW r \in Requests, InsertNext(r) PROVE Inv'
<1> USE DEF Inv, SessionsInv
<1> DEFINE q == request[r]
           own == session[q.row]
<1>1. PICK i \in Rows :
        /\ Insert(i, own)
        /\ request' = [request EXCEPT ![r].phase = "inserted", ![r].fresh = i]
  BY DEF InsertNext
<1>2. /\ q.phase = "found" /\ q \in RequestStates
      /\ UNCHANGED <<now, rotation, jar, histories>>
  BY DEF InsertNext, TypeOK
<1>3. /\ q.kind = "refresh" /\ q.row \in used /\ token[q.row] = q.cookie
      /\ q.fresh = None
  BY <1>2 DEF HandInv, Hand
<1>4. own \in used /\ own \in Rows
  BY <1>3 DEF TypeOK
<1> DEFINE n == [q EXCEPT !.phase = "inserted", !.fresh = i]
<1>5. /\ n \in RequestStates /\ n.phase = "inserted" /\ n.fresh = i
      /\ n.kind = q.kind /\ n.browser = q.browser /\ n.cookie = q.cookie
      /\ n.row = q.row
  BY <1>2 DEF RequestStates, Phases
<1>6. request'[r] = n /\ Others(r) /\ request' \in [Requests -> RequestStates]
  BY <1>1, <1>5 DEF TypeOK, Others
<1> HIDE DEF n
<1>7. TypeOK'
  <2>1. \A o \in Requests \ {r} :
          {request'[o].row, request'[o].fresh} \subseteq used' \cup {None}
    BY <1>1, <1>4, <1>6, InsertAdds DEF TypeOK, Others
  <2>2. {request'[r].row, request'[r].fresh} \subseteq used' \cup {None}
    BY <1>1, <1>3, <1>4, <1>5, <1>6, InsertAdds DEF TypeOK
  <2>3. \A j \in used' : session'[j] \in used'
    BY <1>1, <1>4, InsertAdds DEF TypeOK
  <2> QED
    BY <1>1, <1>2, <1>4, <1>6, <2>1, <2>2, <2>3, InsertAdds
       DEF TypeOK, histories
<1>8. Onward
  BY <1>1, <1>2, <1>4, InsertAdds DEF Onward, histories
<1>9. HandInv'
  <2>1. Hand(r)'
    <3>1. q.browser \in Browsers
      BY <1>2 DEF HandInv, Hand
    <3> QED
      BY <1>1, <1>2, <1>3, <1>4, <1>5, <1>6, <3>1, InsertAdds DEF Hand
  <2> QED
    BY <1>2, <1>6, <1>8, <2>1, OthersHand
<1>10. SUFFICES ASSUME NEW s \in used', ~Disturbed(s)' PROVE Tidy(s)'
  BY <1>7, <1>9
<1>11. ~Disturbed(s)
  BY <1>8, <1>10, Monotone
<1>12. CASE s \notin used
  <2>1. \A j \in used' : session'[j] # s
    BY <1>1, <1>4, <1>12, InsertAdds DEF TypeOK
  <2>2. \A b \in Browsers : ~Holds(b, s)'
    BY <2>1 DEF Holds, SessionsOf
  <2>3. request'[r].fresh \in used'
    BY <1>1, <1>4, <1>5, <1>6, InsertAdds
  <2>4. \A o \in Requests : request'[o].fresh \in used' \cup {None}
    BY <1>7 DEF TypeOK
  <2>5. \A o \in Requests : ~Works(o, s)'
    BY <2>1, <2>4 DEF Works, About, SessionsOf
  <2>6. LiveRows(s)' = {}
    BY <2>1 DEF LiveRows, Live
  <2> QED
    BY <2>2, <2>5, <2>6 DEF Tidy, Alone, Quiet
<1>13. CASE s \in used /\ s # own
  <2>1. Tidy(s)
    BY <1>11, <1>13
  <2>2. ~Works(r, s)
    BY <1>2, <1>11, <1>13, OwnSession
  <2>3. ~Works(r, s)'
    <3>1. s \notin SessionsOf(q.cookie)'
      BY <1>1, <1>4, <1>5, <1>6, <1>13, <2>2, WorksOn, InsertElsewhere
    <3>2. session'[i] # s
      BY <1>1, <1>4, <1>13, InsertAdds
    <3> QED
      BY <1>5, <1>6, <3>1, <3>2 DEF Works, About
  <2>4. \A o \in Requests \ {r} : Works(o, s)' <=> Works(o, s)
    <3>1. SUFFICES ASSUME NEW o \in Requests \ {r}
          PROVE  Works(o, s)' <=> Works(o, s)
      OBVIOUS
    <3>2. request'[o] = request[o]
      BY <1>6 DEF Others
    <3>3. s \in SessionsOf(request[o].cookie)'
            <=> s \in SessionsOf(request[o].cookie)
      BY <1>1, <1>4, <1>13, <3>2, InsertElsewhere
    <3>4. request[o].fresh # None =>
            session'[request[o].fresh] = session[request[o].fresh]
      BY <1>1, <1>4, FreshIsRow, InsertAdds
    <3> QED
      BY <3>2, <3>3, <3>4 DEF Works, About
  <2>5. \A b \in Browsers : Holds(b, s)' <=> Holds(b, s)
    BY <1>1, <1>2, <1>4, <1>13, InsertElsewhere DEF Holds
  <2>6. Untouched(s)
    BY <1>1, <1>2, <1>4, <1>6, <1>13, <2>2, <2>3, <2>4, <2>5, InsertElsewhere
       DEF Untouched, Others, histories
  <2> QED
    BY <2>1, <2>6, UntouchedTidy
<1>14. CASE s = own
  <2>1. Tidy(s) /\ Works(r, s)
    BY <1>3, <1>4, <1>11, <1>14, WorksOn DEF SessionsOf
  <2>2. LiveRows(s) = {q.row}
    BY <1>2, <2>1 DEF Tidy, Progress
  <2>3. LiveRows(s)' = {q.row, i}
    BY <1>1, <1>4, <1>10, <1>14, <2>2, InsertHere
  <2>4. \A k : s \in SessionsOf(k)' /\ (\E j \in used : token[j] = k)
                 => s \in SessionsOf(k)
    BY <1>1, <1>4, <1>10, <1>14, InsertHere
  <2>5. s \notin SessionsOf(None)'
    BY <1>7, NoneAssumption DEF TypeOK, SessionsOf
  <2>6. ASSUME NEW o \in Requests \ {r}, ~Works(o, s) PROVE ~Works(o, s)'
    <3>1. \/ request[o].cookie = None
          \/ \E j \in used : token[j] = request[o].cookie
      BY DEF HandInv, Hand
    <3>2. s \notin SessionsOf(request[o].cookie)'
      BY <1>6, <2>4, <2>5, <2>6, <3>1, WorksOn DEF Others
    <3>3. \/ request[o].fresh = None
          \/ session'[request[o].fresh] # s
      BY <1>1, <1>4, <2>6, FreshIsRow, WorksOn, InsertAdds
    <3> QED
      BY <1>6, <3>2, <3>3 DEF Works, About, Others
  <2>7. \A b \in Browsers : Holds(b, s)' => Holds(b, s)
    BY <1>2, <2>4, <2>5 DEF HandInv, Holds
  <2>8. Works(r, s)'
    BY <1>1, <1>4, <1>5, <1>6, <1>14, InsertAdds, NoneAssumption
       DEF Works, About
  <2>9. Busy(r, s)
    BY <1>2, <1>5, <1>6, <2>1, <2>6, <2>7, <2>8 DEF Busy, histories
  <2>10. Progress(r, s)'
    BY <1>5, <1>6, <2>3 DEF Progress
  <2>11. s \notin signedOut
    BY <2>1, <2>2 DEF Tidy
  <2> QED
    BY <2>1, <2>9, <2>10, <2>11, BusyTidy
<1> QED
  BY <1>12, <1>13, <1>14

-------------------------------------------------------------------------------
(* Revocations, and the answers that follow them. *)

\* What may be live when the answer to request r is on its way.
Rest(r) == IF request[r].kind = "signOut" THEN {} ELSE {request[r].fresh}

\* A request revokes the rows R, which may be none, and is answered.
Revokes(r, R) ==
  /\ \/ request[r].phase = "inserted"
     \/ request[r].phase = "sent" /\ request[r].kind = "signOut"
  /\ isRevoked' = isRevoked \cup R
  /\ request' = [request EXCEPT ![r].phase = "answered"]
  /\ cut \subseteq cut'
  /\ UNCHANGED <<now, rotation, used, token, session, jar, signedOut, raced>>

\* Rows that are revoked are those of the request that works on the session.
LEMMA RevokeKeeps ==
  ASSUME Inv, NEW r \in Requests, NEW R \in SUBSET used, Revokes(r, R),
         cut' \subseteq used,
         \A s \in used : ~Disturbed(s)' =>
           IF Works(r, s) THEN LiveRows(s) \ R \subseteq Rest(r)
           ELSE LiveRows(s) \cap R = {}
  PROVE  Inv'
<1> USE DEF Inv, SessionsInv
<1> DEFINE q == request[r]
           n == [q EXCEPT !.phase = "answered"]
<1>1. /\ q \in RequestStates
      /\ UNCHANGED <<now, rotation, used, token, session, jar, signedOut,
                     raced>>
  BY DEF Revokes, TypeOK
<1>2. /\ n \in RequestStates /\ n.phase = "answered" /\ n.fresh = q.fresh
      /\ n.kind = q.kind /\ n.browser = q.browser /\ n.cookie = q.cookie
      /\ n.row = q.row
  BY <1>1 DEF RequestStates, Phases
<1>3. request'[r] = n /\ Others(r) /\ request' \in [Requests -> RequestStates]
  BY <1>2 DEF Revokes, TypeOK, Others
<1> HIDE DEF n
<1>4. TypeOK'
  <2>1. \A o \in Requests \ {r} :
          {request'[o].row, request'[o].fresh} \subseteq used \cup {None}
    BY <1>3 DEF TypeOK, Others
  <2>2. {request'[r].row, request'[r].fresh} \subseteq used \cup {None}
    BY <1>2, <1>3 DEF TypeOK
  <2> QED
    BY <1>1, <1>3, <2>1, <2>2 DEF TypeOK, Revokes
<1>5. Onward
  BY <1>1 DEF Onward, Revokes
<1>6. HandInv'
  <2>1. Hand(r)
    BY DEF HandInv
  <2>2. Hand(r)'
    BY <1>1, <1>2, <1>3, <2>1 DEF Hand, Revokes
  <2> QED
    BY <1>1, <1>3, <1>5, <2>2, OthersHand
<1>7. SUFFICES ASSUME NEW s \in used', ~Disturbed(s)' PROVE Tidy(s)'
  BY <1>4, <1>6
<1>8. ~Disturbed(s) /\ Tidy(s) /\ s \in used
  BY <1>1, <1>5, <1>7, Monotone
<1>9. LiveRows(s)' = LiveRows(s) \ R
  BY <1>1 DEF LiveRows, Live, Revokes
<1>10. \A k : SessionsOf(k)' = SessionsOf(k)
  BY <1>1 DEF SessionsOf
<1>11. \A o \in Requests : Works(o, s)' <=> Works(o, s)
  <2>1. \A o \in Requests \ {r} : Works(o, s)' <=> Works(o, s)
    BY <1>1, <1>3, <1>10 DEF Works, About, Others
  <2>2. Works(r, s)' <=> Works(r, s)
    BY <1>1, <1>2, <1>3, <1>10 DEF Works, About
  <2> QED
    BY <2>1, <2>2
<1>12. \A b \in Browsers : Holds(b, s)' <=> Holds(b, s)
  BY <1>1, <1>10 DEF Holds
<1>13. CASE ~Works(r, s)
  <2>1. LiveRows(s)' = LiveRows(s)
    BY <1>7, <1>8, <1>9, <1>13
  <2>2. Untouched(s)
    BY <1>1, <1>3, <1>11, <1>12, <1>13, <2>1 DEF Untouched, Others
  <2> QED
    BY <1>8, <2>2, UntouchedTidy
<1>14. CASE Works(r, s)
  <2>1. LiveRows(s)' \subseteq Rest(r)
    BY <1>7, <1>8, <1>9, <1>14
  <2>2. Progress(r, s)'
    BY <1>2, <1>3, <2>1 DEF Progress, Rest
  <2>3. Busy(r, s)
    BY <1>1, <1>2, <1>3, <1>11, <1>12, <1>14 DEF Busy
  <2>4. s \in signedOut => LiveRows(s)' = {}
    BY <1>8, <1>9 DEF Tidy
  <2> QED
    BY <1>8, <2>2, <2>3, <2>4, BusyTidy
<1> QED
  BY <1>13, <1>14

\* refreshToken revokes the row it has found: the next one is left.
LEMMA RevokeOldKeeps ==
  ASSUME Inv, NEW r \in Requests, RevokeOld(r) PROVE Inv'
<1> DEFINE q == request[r]
           R == {q.row}
<1>1. q.phase = "inserted" /\ q.kind = "refresh" /\ R \in SUBSET used
  BY DEF RevokeOld, Inv, SessionsInv, HandInv, Hand
<1>2. Revokes(r, R) /\ cut' \subseteq used /\ Onward
  BY <1>1 DEF RevokeOld, Revokes, Inv, TypeOK, histories, Onward
<1>3. ASSUME NEW s \in used, ~Disturbed(s)'
      PROVE  IF Works(r, s) THEN LiveRows(s) \ R \subseteq Rest(r)
             ELSE LiveRows(s) \cap R = {}
  <2>1. ~Disturbed(s) /\ Tidy(s)
    BY <1>2, <1>3, Monotone DEF Inv, SessionsInv
  <2>2. CASE Works(r, s)
    <3>1. LiveRows(s) \subseteq {q.row, q.fresh}
      BY <1>1, <2>1, <2>2 DEF Tidy, Progress
    <3> QED
      BY <1>1, <2>2, <3>1 DEF Rest
  <2>3. CASE ~Works(r, s)
    <3>1. session[q.row] # s
      BY <1>1, <2>3 DEF Inv, SessionsInv, HandInv, Hand, Works, About,
                        SessionsOf
    <3> QED
      BY <2>3, <3>1 DEF LiveRows
  <2> QED
    BY <2>2, <2>3
<1> QED
  BY <1>1, <1>2, <1>3, RevokeKeeps

\* signOut revokes every row with the token of the cookie: none of an
\* undisturbed session is left.
LEMMA RevokeTokenKeeps ==
  ASSUME Inv, NEW r \in Requests, RevokeToken(r) PROVE Inv'
<1> DEFINE q == request[r]
           R == {i \in used : token[i] = q.cookie}
<1>1. q.phase = "sent" /\ q.kind = "signOut" /\ R \in SUBSET used
  BY DEF RevokeToken
<1>2. Revokes(r, R) /\ cut' \subseteq used /\ Onward
  BY <1>1 DEF RevokeToken, Revokes, Inv, TypeOK, histories, Onward
<1>3. ASSUME NEW s \in used, ~Disturbed(s)'
      PROVE  IF Works(r, s) THEN LiveRows(s) \ R \subseteq Rest(r)
             ELSE LiveRows(s) \cap R = {}
  <2>1. ~Disturbed(s) /\ Tidy(s)
    BY <1>2, <1>3, Monotone DEF Inv, SessionsInv
  <2>2. CASE Works(r, s)
    <3>1. \A i \in LiveRows(s) : token[i] = q.cookie
      BY <1>1, <2>1, <2>2 DEF Tidy, Progress
    <3> QED
      BY <2>2, <3>1 DEF LiveRows, Live
  <2>3. CASE ~Works(r, s)
    BY <2>3 DEF Works, About, SessionsOf, LiveRows
  <2> QED
    BY <2>2, <2>3
<1> QED
  BY <1>1, <1>2, <1>3, RevokeKeeps

\* Where the update fails, the sessions of the cookie are disturbed.
LEMMA FailToRevokeKeeps ==
  ASSUME Inv, NEW r \in Requests, FailToRevoke(r) PROVE Inv'
<1> DEFINE q == request[r]
           R == {}
<1>1. q.phase = "sent" /\ q.kind = "signOut" /\ q.fresh = None
  BY DEF FailToRevoke, Inv, SessionsInv, HandInv, Hand
<1>2. SessionsOf(q.cookie) \subseteq used
  BY DEF SessionsOf, Inv, TypeOK
<1>3. Revokes(r, R) /\ cut' \subseteq used /\ Onward
  BY <1>1, <1>2 DEF FailToRevoke, Revokes, Inv, TypeOK, rowVars, Onward
<1>4. ASSUME NEW s \in used, ~Disturbed(s)' PROVE ~Works(r, s)
  <2>1. s \notin SessionsOf(q.cookie)
    BY <1>4 DEF FailToRevoke, Disturbed
  <2> QED
    BY <1>1, <2>1, WorksOn DEF Inv
<1> QED
  BY <1>3, <1>4, RevokeKeeps

-------------------------------------------------------------------------------
(* Answers that arrive. *)

\* The session's live row is the one whose token the browser stores, and no row
\* is left when the browser drops its cookie.
LEMMA DeliverKeeps ==
  ASSUME Inv, NEW r \in Requests, Deliver(r) PROVE Inv'
<1> USE DEF Inv, SessionsInv
<1> DEFINE q == request[r]
           k == IF q.kind = "signOut" THEN None ELSE token[q.fresh]
           ended == {s \in SessionsOf(q.cookie) : q.kind = "signOut"}
<1>1. /\ q.phase = "answered" /\ q \in RequestStates
      /\ jar' = [jar EXCEPT ![q.browser] = k]
      /\ signedOut' = signedOut \cup ended
      /\ request' = [request EXCEPT ![r] = Idle]
      /\ UNCHANGED <<now, rotation, rowVars, cut, raced>>
  BY DEF Deliver, TypeOK
<1>2. Hand(r) /\ q.browser \in Browsers
  BY <1>1 DEF HandInv, Hand
<1>3. q.kind # "signOut" => q.fresh \in used /\ q.fresh # None
  BY <1>1, <1>2, NoneAssumption DEF Hand, TypeOK
<1>4. k \in Seconds \cup {None}
  BY <1>3 DEF TypeOK
<1>5. Idle \in RequestStates
  BY DEF Idle, RequestStates, Phases, Kinds
<1>6. /\ request'[r] = Idle /\ Others(r)
      /\ request' \in [Requests -> RequestStates]
  BY <1>1, <1>5 DEF TypeOK, Others
<1>7. TypeOK'
  <2>1. \A o \in Requests \ {r} :
          {request'[o].row, request'[o].fresh} \subseteq used \cup {None}
    BY <1>6 DEF TypeOK, Others
  <2>2. {request'[r].row, request'[r].fresh} \subseteq used \cup {None}
    BY <1>6 DEF Idle
  <2>3. jar' \in [Browsers -> Seconds \cup {None}]
    BY <1>1, <1>4 DEF TypeOK
  <2>4. ended \subseteq used
    BY DEF SessionsOf, TypeOK
  <2> QED
    BY <1>1, <1>6, <2>1, <2>2, <2>3, <2>4 DEF TypeOK, rowVars
<1>8. Onward
  BY <1>1 DEF Onward, rowVars
<1>9. HandInv'
  <2>1. Hand(r)'
    BY <1>6 DEF Hand, Idle
  <2>2. \A b \in Browsers : jar'[b] \in {jar[b], k}
    BY <1>1 DEF TypeOK
  <2>3. k = None \/ \E i \in used' : token'[i] = k
    BY <1>1, <1>3 DEF rowVars
  <2>4. \A b \in Browsers :
          \/ jar'[b] = jar[b]
          \/ \E i \in used' : token'[i] = jar'[b]
          \/ jar'[b] = None
    BY <2>2, <2>3
  <2> QED
    BY <1>6, <1>8, <2>1, <2>4, OthersHand
<1>10. SUFFICES ASSUME NEW s \in used', ~Disturbed(s)' PROVE Tidy(s)'
  BY <1>7, <1>9
<1>11. ~Disturbed(s) /\ Tidy(s)
  BY <1>1, <1>8, <1>10, Monotone DEF rowVars
<1>12. \A o \in Requests \ {r} : Works(o, s)' <=> Works(o, s)
  BY <1>1, <1>6, SameRows DEF Works, About, Others, rowVars
<1>13. ~Works(r, s)'
  <2>1. s \notin SessionsOf(None)'
    BY <1>1, NoToken, SameRows
  <2> QED
    BY <1>6, <2>1 DEF Works, About, Idle
<1>14. \A b \in Browsers \ {q.browser} :
         jar'[b] = jar[b] /\ (Holds(b, s)' <=> Holds(b, s))
  BY <1>1, SameRows DEF Holds, TypeOK
<1>15. PICK w \in Browsers : w = q.browser
  BY <1>2
<1>16. jar'[w] = k /\ (Holds(w, s)' <=> s \in SessionsOf(k))
  <2>1. jar'[w] = k
    BY <1>1, <1>15 DEF TypeOK
  <2> QED
    BY <1>1, <2>1, SameRows DEF Holds
<1>17. LiveRows(s)' = LiveRows(s) /\ \A i \in LiveRows(s) : token'[i] = token[i]
  BY <1>1, SameRows DEF rowVars
<1>18. CASE ~Works(r, s)
  <2>1. s \notin SessionsOf(k)
    <3>1. CASE q.kind = "signOut"
      BY <3>1, NoToken
    <3>2. CASE q.kind # "signOut"
      <4>1. session[q.fresh] # s
        BY <1>3, <1>18, <3>2, WorksOn
      <4> QED
        BY <1>3, <1>11, <3>2, <4>1, Unshared DEF SessionsOf
    <3> QED
      BY <3>1, <3>2
  <2>2. s \in signedOut' => s \in signedOut
    BY <1>1, <1>18, WorksOn
  <2>3. Untouched(s)
    BY <1>6, <1>12, <1>13, <1>14, <1>15, <1>16, <1>17, <1>18, <2>1, <2>2
       DEF Untouched, Others
  <2> QED
    BY <1>11, <2>3, UntouchedTidy
<1>19. CASE Works(r, s)
  <2>1. \A o \in Requests : ~Works(o, s)'
    BY <1>11, <1>12, <1>13, <1>19 DEF Tidy, Alone
  <2>2. \A b \in Browsers : Holds(b, s)' => b = w
    BY <1>11, <1>14, <1>15, <1>19 DEF Tidy, Alone
  <2>3. LiveRows(s) \subseteq IF q.kind = "signOut" THEN {} ELSE {q.fresh}
    BY <1>1, <1>11, <1>19 DEF Tidy, Progress
  <2>4. Alone(s)'
    BY <2>1, <2>2 DEF Alone
  <2>5. Quiet(s)'
    <3>1. \A i, j \in LiveRows(s)' : i = j
      BY <1>17, <2>3
    <3>2. \A i \in LiveRows(s)' : token'[i] = jar'[w]
      BY <1>15, <1>16, <1>17, <2>3
    <3> QED
      BY <2>2, <3>1, <3>2 DEF Quiet
  <2>6. s \in signedOut' => LiveRows(s)' = {}
    BY <1>1, <1>11, <1>17, <2>3 DEF Tidy
  <2> QED
    BY <2>1, <2>4, <2>5, <2>6 DEF Tidy
<1> QED
  BY <1>18, <1>19

-------------------------------------------------------------------------------
(* Everything else forgets. *)

\* Refusals, losses, dropped cookies, restarts and time.
LEMMA ForgetStepKeeps ==
  ASSUME Inv,
         \/ \E r \in Requests : Deny(r) \/ KeepToken(r) \/ Lose(r)
         \/ \E b \in Browsers : DropCookie(b)
         \/ Restart
         \/ Tick
         \/ UNCHANGED vars
  PROVE  Inv'
<1> USE DEF Inv, SessionsInv
<1>1. \A r \in Requests : About(request[r]) \subseteq used
  BY NoneAssumption DEF About, SessionsOf, TypeOK
<1>2. /\ Idle \in RequestStates
      /\ {Idle.row, Idle.fresh} \subseteq used \cup {None}
  BY DEF Idle, RequestStates, Phases, Kinds
<1>3. ASSUME NEW r \in Requests, Deny(r) \/ KeepToken(r) \/ Lose(r)
      PROVE  TypeOK' /\ Forgets
  <2>1. /\ request' = [request EXCEPT ![r] = Idle]
        /\ UNCHANGED <<now, rotation, rowVars, jar, signedOut, raced>>
    BY <1>3 DEF Deny, KeepToken, Lose, histories
  <2>2. cut \subseteq cut' /\ cut' \subseteq used
    BY <1>1, <1>3 DEF Deny, KeepToken, Lose, histories, TypeOK
  <2>3. request[r].phase \in {"inserted", "answered"} =>
          About(request[r]) \subseteq cut'
    BY <1>3 DEF Deny, KeepToken, Lose
  <2>4. TypeOK'
    BY <1>2, <2>1, <2>2 DEF TypeOK, rowVars
  <2> QED
    BY <2>1, <2>2, <2>3, <2>4 DEF Forgets, TypeOK
<1>4. ASSUME NEW b \in Browsers, DropCookie(b) PROVE TypeOK' /\ Forgets
  BY <1>4 DEF DropCookie, TypeOK, Forgets, rowVars, histories
<1>5. ASSUME Restart PROVE TypeOK' /\ Forgets
  <2>1. cut \subseteq cut' /\ cut' \subseteq used
    BY <1>1, <1>5 DEF Restart, TypeOK
  <2>2. \A r \in Requests : request[r].phase \in {"inserted", "answered"} =>
          About(request[r]) \subseteq cut'
    BY <1>5 DEF Restart
  <2>3. TypeOK'
    BY <1>2, <1>5, <2>1 DEF Restart, TypeOK, rowVars
  <2> QED
    BY <1>5, <2>1, <2>2, <2>3 DEF Restart, Forgets
<1>6. ASSUME Tick PROVE TypeOK' /\ Forgets
  BY <1>6, ClockAssumption
     DEF Tick, TypeOK, Seconds, Forgets, rowVars, histories
<1>7. ASSUME UNCHANGED vars PROVE TypeOK' /\ Forgets
  BY <1>7 DEF vars, TypeOK, Forgets, rowVars, histories
<1> QED
  BY <1>3, <1>4, <1>5, <1>6, <1>7, ForgetKeeps

\* There are no rows and no requests at first.
LEMMA InitInv == ASSUME Init PROVE Inv
<1>1. TypeOK
  BY ClockAssumption DEF Init, TypeOK, Seconds, Idle, RequestStates, Phases,
                         Kinds
<1>2. HandInv
  BY DEF Init, HandInv, Hand, Idle
<1> QED
  BY <1>1, <1>2 DEF Inv, SessionsInv, Init

\* Every step keeps the invariant.
LEMMA NextKeeps == ASSUME Inv, [Next]_vars PROVE Inv'
<1>1. ASSUME NEW r \in Requests, RequestStep(r) PROVE Inv'
  BY <1>1, SendKeeps, SignInKeeps, FindRowKeeps, InsertNextKeeps,
     RevokeOldKeeps, RevokeTokenKeeps, FailToRevokeKeeps, DeliverKeeps,
     ForgetStepKeeps DEF RequestStep
<1> QED
  BY <1>1, ForgetStepKeeps DEF Next

\* The inductive invariant: what of a session is live at each await of the one
\* request that works on it (refreshToken, signOut).
THEOREM SessionsInvariant == Spec => []Inv
<1> QED
  BY InitInv, NextKeeps, PTL DEF Spec

\* Rows, cookies and requests are what the code takes them for (all of
\* auth.service.ts that touches a refresh token).
THEOREM SessionTypes == Spec => []TypeOK
<1>1. Inv => TypeOK
  BY DEF Inv
<1> QED
  BY <1>1, SessionsInvariant, PTL

\* A session does not fork, whatever other sessions, browsers and requests do
\* (refreshToken).
THEOREM OneLiveRowAlways == Spec => []OneLiveRow
<1>1. ASSUME Inv PROVE OneLiveRow
  <2>1. SUFFICES ASSUME NEW s \in used, ~Disturbed(s), ~Rotating(s)
        PROVE  \A i, j \in LiveRows(s) : i = j
    BY DEF OneLiveRow
  <2>2. Tidy(s)
    BY <1>1, <2>1 DEF Inv, SessionsInv
  <2>3. ASSUME NEW r \in Requests, Works(r, s), request[r].phase = "answered"
        PROVE  \A i, j \in LiveRows(s) : i = j
    BY <2>2, <2>3 DEF Tidy, Progress
  <2>4. ASSUME NEW r \in Requests, Works(r, s)
        PROVE  request[r].phase \in {"sent", "found", "answered"}
    <3>1. request[r].phase # "inserted"
      BY <1>1, <2>1, <2>4, OwnSession DEF Rotating
    <3>2. request[r].phase # "idle"
      BY <1>1, <2>4, IdleRests DEF Inv, SessionsInv, HandInv, Hand
    <3> QED
      BY <1>1, <3>1, <3>2 DEF Inv, TypeOK, RequestStates, Phases
  <2> QED
    BY <2>2, <2>3, <2>4 DEF Tidy, Quiet
<1> QED
  BY <1>1, SessionsInvariant, PTL

\* After sign-out no row of the session can be exchanged (signOut).
THEOREM SignOutEndsAlways == Spec => []SignOutEnds
<1>1. ASSUME Inv PROVE SignOutEnds
  BY <1>1 DEF Inv, SessionsInv, TypeOK, SignOutEnds, Tidy
<1> QED
  BY <1>1, SessionsInvariant, PTL

-------------------------------------------------------------------------------
(* No browser is locked out. *)

\* The sessions that have rows.
Sessions == {session[i] : i \in used}

\* What a session was spared, it was spared before.
LEMMA Clears == ASSUME Onward, NEW s, Clear(s)' PROVE Clear(s)
  BY DEF Onward, Clear, Shares

\* Rows with a token of a clear session are of that session.
LEMMA ClearRows ==
  ASSUME NEW s, Clear(s), NEW i \in used, NEW j \in used,
         token[i] = token[j], session[i] = s
  PROVE  session[j] = s
  BY DEF Clear, Shares

\* Cookies and the cookies of requests are tokens of rows.
LEMMA CookieIsToken ==
  ASSUME Inv, NEW k, k # None, Known(k) PROVE \E j \in used : token[j] = k
  BY DEF Inv, SessionsInv, HandInv, Hand, Known

-------------------------------------------------------------------------------
(* What a step keeps. *)

\* A step that brings nobody near the session leaves it in its browser.
LEMMA OwnedKept ==
  ASSUME NEW s, Owned(s),
         \A r \in Requests : Works(r, s)' =>
           Works(r, s) /\ request'[r].browser = request[r].browser,
         \A b \in Browsers : Holds(b, s)' => Holds(b, s)
  PROVE  Owned(s)'
  BY DEF Owned

\* A row with a token of its own backs it on, as long as nobody gets to know
\* the token otherwise.
LEMMA RowKept ==
  ASSUME TypeOK, Onward, NEW s, Single(s), NEW i \in used, session[i] = s,
         ~Twins(token[i])',
         \A k : k # None /\ Known(k)' => Known(k),
         \A r \in Requests :
           request'[r].fresh \in used => request'[r].fresh = request[r].fresh,
         \A b \in Browsers : jar'[b] # None => jar'[b] = jar[b],
         \A b \in Browsers :
           jar[b] = token[i] /\ (i \in Live \/ Answering(b, s)) =>
             i \in Live' \/ Answering(b, s)',
         i \in Live /\ ~Known(token[i]) => i \in Live'
  PROVE  Backs(i)'
<1>1. token'[i] = token[i] /\ session'[i] = s /\ token[i] # None
  BY NoneAssumption DEF Onward, TypeOK
<1>2. ~Twins(token[i])
  BY <1>1 DEF Onward, Twins
<1>3. Backs(i)
  BY <1>2 DEF Single
<1>4. ASSUME NEW b \in Browsers, jar'[b] = token[i]
      PROVE  i \in Live' \/ Answering(b, s)'
  BY <1>1, <1>3, <1>4 DEF Backs
<1>5. ASSUME NEW r \in Requests, request'[r].fresh = i
      PROVE  i \in Live' /\ ~Known(token[i])'
  BY <1>1, <1>3, <1>5 DEF Backs
<1> QED
  BY <1>1, <1>4, <1>5 DEF Backs, Known

\* A step that touches neither the session's rows nor those who know it.
LEMMA StandingKept ==
  ASSUME NEW s, Standing(s), LiveRows(s)' = LiveRows(s),
         \A r \in Requests : Works(r, s)' =>
           Works(r, s) /\ request'[r] = request[r],
         \A b \in Browsers : Holds(b, s)' => Holds(b, s) /\ jar'[b] = jar[b],
         \A b \in Browsers : Answering(b, s) => Answering(b, s)'
  PROVE  Standing(s)'
  BY DEF Standing

-------------------------------------------------------------------------------
(* Steps that forget. *)

\* What is lost between two writes, or before its answer, is cut; the rest of
\* what a step forgets backs nothing.
LEMMA ForgetBacked ==
  ASSUME Inv, BackedInv, Forgets PROVE BackedInv'
<1> USE DEF Inv, SessionsInv
<1>1. Onward /\ UNCHANGED rowVars
  BY DEF Onward, Forgets, rowVars
<1>2. FreshOnce'
  BY DEF BackedInv, FreshOnce, Forgets, Idle
<1>3. SUFFICES ASSUME NEW s \in Sessions', Clear(s)'
      PROVE  Owned(s)' /\ Single(s)' /\ (s \in raced' \/ Standing(s)')
  BY <1>2 DEF BackedInv, Sessions
<1>4. /\ Clear(s) /\ Owned(s) /\ Single(s)
      /\ s \notin raced' => Standing(s)
  BY <1>1, <1>3, Clears DEF BackedInv, Sessions, rowVars, Onward
<1>5. ASSUME NEW r \in Requests, Works(r, s)'
      PROVE  request'[r] = request[r] /\ Works(r, s)
  <2>1. CASE request'[r] = request[r]
    BY <1>5, <2>1, SameRows DEF Forgets, Works, About, rowVars
  <2>2. CASE request'[r] = Idle
    <3>1. SessionsOf(None)' = {}
      BY NoToken, SameRows DEF Forgets
    <3> QED
      BY <1>5, <2>2, <3>1 DEF Works, About, Idle
  <2> QED
    BY <2>1, <2>2 DEF Forgets
<1>6. ASSUME NEW b \in Browsers, Holds(b, s)'
      PROVE  jar'[b] = jar[b] /\ Holds(b, s)
  BY <1>6, NoToken, SameRows DEF Forgets, Holds
<1>7. ASSUME NEW r \in Requests, Works(r, s), request[r].phase = "answered"
      PROVE  Works(r, s)' /\ request'[r] = request[r]
  <2>1. request'[r] = request[r]
    BY <1>3, <1>7 DEF Forgets, Works, Clear
  <2> QED
    BY <1>7, <2>1, SameRows DEF Forgets, Works, About, rowVars
<1>8. \A b \in Browsers : Answering(b, s) => Answering(b, s)'
  BY <1>7 DEF Answering
<1>9. Owned(s)'
  BY <1>4, <1>5, <1>6, OwnedKept
<1>10. Single(s)'
  <2>1. SUFFICES ASSUME NEW i \in used, session[i] = s, ~Twins(token[i])'
        PROVE  Backs(i)'
    BY <1>1 DEF Single, rowVars, Twins
  <2>2. \A k : k # None /\ Known(k)' => Known(k)
    BY DEF Known, Forgets, Idle
  <2>3. \A r \in Requests :
          request'[r].fresh \in used => request'[r].fresh = request[r].fresh
    BY NoneAssumption DEF Forgets, Idle, TypeOK
  <2>4. Live' = Live
    BY <1>1 DEF Live, rowVars
  <2>5. \A b \in Browsers : jar'[b] # None => jar'[b] = jar[b]
    BY DEF Forgets
  <2> QED
    BY <1>1, <1>4, <1>8, <2>1, <2>2, <2>3, <2>4, <2>5, RowKept
<1>11. s \in raced' \/ Standing(s)'
  BY <1>1, <1>4, <1>5, <1>6, <1>8, SameRows, StandingKept
<1> QED
  BY <1>9, <1>10, <1>11

-------------------------------------------------------------------------------
(* Requests that come in and look for their row. *)

\* A request comes in with the cookie of its browser.
LEMMA SendBacked ==
  ASSUME Inv, BackedInv, NEW r \in Requests, Send(r) PROVE BackedInv'
<1> USE DEF Inv, SessionsInv
<1>1. PICK b \in Browsers, d \in Kinds :
        LET k == IF d = "signIn" THEN None ELSE jar[b] IN
        /\ d # "signIn" => k # None
        /\ request' = [request EXCEPT ![r] =
             [Idle EXCEPT !.phase = "sent", !.kind = d, !.browser = b,
                          !.cookie = k]]
        /\ raced' = raced \cup
             {s \in SessionsOf(k) :
                \E o \in Requests \ {r} : s \in About(request[o])}
  BY DEF Send
<1> DEFINE k == IF d = "signIn" THEN None ELSE jar[b]
           q == [Idle EXCEPT !.phase = "sent", !.kind = d, !.browser = b,
                             !.cookie = k]
<1>2. /\ request[r] = Idle
      /\ UNCHANGED <<now, rotation, rowVars, jar, signedOut, cut>>
  BY DEF Send, HandInv, Hand
<1>3. /\ q.phase = "sent" /\ q.kind = d /\ q.browser = b
      /\ q.cookie = k /\ q.row = None /\ q.fresh = None
  BY DEF Idle
<1>4. request'[r] = q /\ Others(r)
  BY <1>1 DEF TypeOK, Others
<1> HIDE DEF q
<1>5. Onward
  BY <1>1, <1>2 DEF Onward, rowVars
<1>6. FreshOnce'
  BY <1>3, <1>4 DEF BackedInv, FreshOnce, Others
<1>7. SUFFICES ASSUME NEW s \in Sessions', Clear(s)'
      PROVE  Owned(s)' /\ Single(s)' /\ (s \in raced' \/ Standing(s)')
  BY <1>6 DEF BackedInv, Sessions
<1>8. /\ Clear(s) /\ Owned(s) /\ Single(s)
      /\ s \notin raced' => Standing(s)
  BY <1>2, <1>5, <1>7, Clears DEF BackedInv, Sessions, rowVars, Onward
<1>9. ~Works(r, s)
  BY <1>2, IdleRests
<1>10. \A o \in Requests \ {r} : Works(o, s)' <=> Works(o, s)
  BY <1>2, <1>4, SameRows DEF Works, About, Others, rowVars
<1>11. \A c \in Browsers : Holds(c, s)' <=> Holds(c, s)
  BY <1>2, SameRows DEF Holds
<1>12. Works(r, s)' <=> s \in SessionsOf(k)
  BY <1>2, <1>3, <1>4, SameRows DEF Works, About, rowVars
<1>13. s \in SessionsOf(k) => k = jar[b] /\ Holds(b, s)
  BY NoToken DEF Holds
<1>14. Owned(s)'
  BY <1>3, <1>4, <1>8, <1>10, <1>11, <1>12, <1>13 DEF Owned, Others
<1>15. \A c \in Browsers : Answering(c, s) => Answering(c, s)'
  BY <1>4, <1>9, <1>10 DEF Answering, Others
<1>16. Single(s)'
  <2>1. SUFFICES ASSUME NEW i \in used, session[i] = s, ~Twins(token[i])'
        PROVE  Backs(i)'
    BY <1>2 DEF Single, rowVars, Twins
  <2>2. \A l : l # None /\ Known(l)' => Known(l)
    BY <1>2, <1>3, <1>4 DEF Known, Others
  <2>3. \A o \in Requests :
          request'[o].fresh \in used => request'[o].fresh = request[o].fresh
    BY <1>3, <1>4, NoneAssumption DEF Others, TypeOK
  <2>4. Live' = Live
    BY <1>2 DEF Live, rowVars
  <2> QED
    BY <1>2, <1>5, <1>8, <1>15, <2>1, <2>2, <2>3, <2>4, RowKept
<1>17. ASSUME s \notin raced' PROVE Standing(s)'
  <2>1. Standing(s)
    BY <1>8, <1>17
  <2>2. CASE s \notin SessionsOf(k)
    <3>1. \A o \in Requests : Works(o, s)' =>
            Works(o, s) /\ request'[o] = request[o]
      BY <1>4, <1>10, <1>12, <2>2 DEF Others
    <3> QED
      BY <1>2, <1>11, <1>15, <2>1, <3>1, SameRows, StandingKept
  <2>3. CASE s \in SessionsOf(k)
    <3>1. \A o \in Requests : Works(o, s)' => o = r
      BY <1>1, <1>10, <1>17, <2>3 DEF Works
    <3>2. \A c \in Browsers : Holds(c, s)' => jar'[c] = request'[r].cookie
      BY <1>2, <1>3, <1>4, <1>8, <1>11, <1>13, <2>3 DEF Owned
    <3> QED
      BY <1>2, <1>3, <1>4, <1>11, <1>15, <2>1, <3>1, <3>2, SameRows DEF Standing
  <2> QED
    BY <2>2, <2>3
<1> QED
  BY <1>14, <1>16, <1>17

\* refreshToken finds the row that it will exchange.
LEMMA FindRowBacked ==
  ASSUME Inv, BackedInv, NEW r \in Requests, FindRow(r) PROVE BackedInv'
<1> USE DEF Inv, SessionsInv
<1> DEFINE q == request[r]
<1>1. PICK i \in Live :
        request' = [request EXCEPT ![r].phase = "found", ![r].row = i]
  BY DEF FindRow
<1>2. /\ q.phase = "sent" /\ q.fresh = None /\ q \in RequestStates
      /\ UNCHANGED <<now, rotation, rowVars, jar, histories>>
  BY DEF FindRow, HandInv, Hand, TypeOK
<1> DEFINE n == [q EXCEPT !.phase = "found", !.row = i]
<1>3. /\ n.phase = "found" /\ n.fresh = None /\ n.kind = q.kind
      /\ n.browser = q.browser /\ n.cookie = q.cookie
  BY <1>2 DEF RequestStates
<1>4. request'[r] = n /\ Others(r)
  BY <1>1 DEF TypeOK, Others
<1> HIDE DEF n
<1>5. Onward
  BY <1>2 DEF Onward, rowVars, histories
<1>6. FreshOnce'
  BY <1>3, <1>4 DEF BackedInv, FreshOnce, Others
<1>7. SUFFICES ASSUME NEW s \in Sessions', Clear(s)'
      PROVE  Owned(s)' /\ Single(s)' /\ (s \in raced' \/ Standing(s)')
  BY <1>6 DEF BackedInv, Sessions
<1>8. /\ Clear(s) /\ Owned(s) /\ Single(s)
      /\ s \notin raced' => Standing(s)
  BY <1>2, <1>5, <1>7, Clears DEF BackedInv, Sessions, rowVars, Onward
<1>9. \A o \in Requests : Works(o, s)' <=> Works(o, s)
  <2>1. \A o \in Requests \ {r} : Works(o, s)' <=> Works(o, s)
    BY <1>2, <1>4, SameRows DEF Works, About, Others, rowVars
  <2>2. Works(r, s)' <=> Works(r, s)
    BY <1>2, <1>3, <1>4, SameRows DEF Works, About, rowVars
  <2> QED
    BY <2>1, <2>2
<1>10. \A c \in Browsers : Holds(c, s)' <=> Holds(c, s)
  BY <1>2, SameRows DEF Holds
<1>11. Owned(s)'
  BY <1>3, <1>4, <1>8, <1>9, <1>10, OwnedKept DEF Others
<1>12. \A c \in Browsers : Answering(c, s) => Answering(c, s)'
  BY <1>2, <1>4, <1>9 DEF Answering, Others
<1>13. Single(s)'
  <2>1. SUFFICES ASSUME NEW j \in used, session[j] = s, ~Twins(token[j])'
        PROVE  Backs(j)'
    BY <1>2 DEF Single, rowVars, Twins
  <2>2. \A l : l # None /\ Known(l)' => Known(l)
    BY <1>2, <1>3, <1>4 DEF Known, Others
  <2>3. \A o \in Requests :
          request'[o].fresh \in used => request'[o].fresh = request[o].fresh
    BY <1>2, <1>3, <1>4 DEF Others
  <2>4. Live' = Live
    BY <1>2 DEF Live, rowVars
  <2> QED
    BY <1>2, <1>5, <1>8, <1>12, <2>1, <2>2, <2>3, <2>4, RowKept
<1>14. ASSUME s \notin raced' PROVE Standing(s)'
  <2>1. Standing(s)
    BY <1>8, <1>14
  <2> QED
    BY <1>2, <1>3, <1>4, <1>9, <1>10, <1>12, <2>1, SameRows
       DEF Standing, Others
<1> QED
  BY <1>11, <1>13, <1>14

-------------------------------------------------------------------------------
(* Revocations. *)

\* A request revokes rows with the token of its cookie, and is answered: what it
\* has inserted is not among them, if its session takes turns.
LEMMA RevokeBacked ==
  ASSUME Inv, BackedInv, NEW r \in Requests, NEW R \in SUBSET used,
         Revokes(r, R), \A i \in R : token[i] = request[r].cookie,
         \A s : Standing(s) /\ Works(r, s) => request[r].fresh \notin R
  PROVE  BackedInv'
<1> USE DEF Inv, SessionsInv
<1> DEFINE q == request[r]
           n == [q EXCEPT !.phase = "answered"]
<1>1. /\ q \in RequestStates
      /\ UNCHANGED <<now, rotation, used, token, session, jar, signedOut,
                     raced>>
  BY DEF Revokes, TypeOK
<1>2. /\ n.phase = "answered" /\ n.fresh = q.fresh
      /\ n.kind = q.kind /\ n.browser = q.browser /\ n.cookie = q.cookie
      /\ n.row = q.row
  BY <1>1 DEF RequestStates
<1>3. request'[r] = n /\ Others(r)
  BY DEF Revokes, TypeOK, Others
<1> HIDE DEF n
<1>4. Onward
  BY <1>1 DEF Onward, Revokes
<1>5. FreshOnce'
  BY <1>2, <1>3 DEF BackedInv, FreshOnce, Others
<1>6. SUFFICES ASSUME NEW s \in Sessions', Clear(s)'
      PROVE  Owned(s)' /\ Single(s)' /\ (s \in raced' \/ Standing(s)')
  BY <1>5 DEF BackedInv, Sessions
<1>7. /\ Clear(s) /\ Owned(s) /\ Single(s)
      /\ s \notin raced' => Standing(s)
  BY <1>1, <1>4, <1>6, Clears DEF BackedInv, Sessions, Onward
<1>8. Live' = Live \ R /\ LiveRows(s)' = LiveRows(s) \ R
  BY <1>1 DEF LiveRows, Live, Revokes
<1>9. \A k : SessionsOf(k)' = SessionsOf(k)
  BY <1>1 DEF SessionsOf
<1>10. \A o \in Requests : Works(o, s)' <=> Works(o, s)
  <2>1. \A o \in Requests \ {r} : Works(o, s)' <=> Works(o, s)
    BY <1>1, <1>3, <1>9 DEF Works, About, Others
  <2>2. Works(r, s)' <=> Works(r, s)
    BY <1>1, <1>2, <1>3, <1>9 DEF Works, About
  <2> QED
    BY <2>1, <2>2
<1>11. \A b \in Browsers : Holds(b, s)' <=> Holds(b, s)
  BY <1>1, <1>9 DEF Holds
<1>12. Owned(s)'
  BY <1>2, <1>3, <1>7, <1>10, <1>11, OwnedKept DEF Others
<1>13. \A b \in Browsers : Answering(b, s) => Answering(b, s)'
  BY <1>2, <1>3, <1>10 DEF Answering, Others
<1>14. ASSUME Works(r, s)
       PROVE  \A b \in Browsers : Holds(b, s) => Answering(b, s)'
  BY <1>2, <1>3, <1>7, <1>10, <1>14 DEF Answering, Owned
<1>15. Single(s)'
  <2>1. SUFFICES ASSUME NEW i \in used, session[i] = s, ~Twins(token[i])'
        PROVE  Backs(i)'
    BY <1>1 DEF Single, Twins
  <2>2. \A k : k # None /\ Known(k)' => Known(k)
    BY <1>1, <1>2, <1>3 DEF Known, Others
  <2>3. \A o \in Requests :
          request'[o].fresh \in used => request'[o].fresh = request[o].fresh
    BY <1>2, <1>3 DEF Others
  <2>4. ASSUME NEW b \in Browsers, jar[b] = token[i],
               i \in Live \/ Answering(b, s)
        PROVE  i \in Live' \/ Answering(b, s)'
    <3>1. CASE i \in R
      <4>1. s \in SessionsOf(q.cookie) /\ s \in SessionsOf(jar[b])
        BY <2>1, <2>4, <3>1 DEF SessionsOf
      <4> QED
        BY <1>14, <4>1 DEF Works, About, Holds
    <3>2. CASE i \notin R
      BY <1>8, <1>13, <2>4, <3>2
    <3> QED
      BY <3>1, <3>2
  <2>5. i \in Live /\ ~Known(token[i]) => i \in Live'
    BY <1>8 DEF Known
  <2> QED
    BY <1>1, <1>4, <1>7, <2>1, <2>2, <2>3, <2>4, <2>5, RowKept
<1>16. ASSUME s \notin raced' PROVE Standing(s)'
  <2>1. Standing(s) /\ s \in used
    BY <1>1, <1>6, <1>7, <1>16 DEF Sessions, TypeOK
  <2>2. CASE ~Works(r, s)
    <3>1. LiveRows(s)' = LiveRows(s)
      BY <1>8, <2>2 DEF LiveRows, Live, Works, About, SessionsOf
    <3> QED
      BY <1>1, <1>3, <1>10, <1>11, <1>13, <2>1, <2>2, <3>1, StandingKept
         DEF Others
  <2>3. CASE Works(r, s)
    <3>1. Tidy(s)
      BY <1>1, <1>7, <1>16, <2>1 DEF Clear, Disturbed
    <3>2. \A o \in Requests : Works(o, s)' => o = r
      BY <1>10, <2>3, <3>1 DEF Tidy, Alone
    <3>3. q.fresh # None => q.fresh \in LiveRows(s) \ R
      BY <2>1, <2>3 DEF Standing
    <3> QED
      BY <1>1, <1>2, <1>3, <1>8, <1>10, <1>11, <1>14, <2>1, <2>3, <3>2, <3>3
         DEF Standing
  <2> QED
    BY <2>2, <2>3
<1> QED
  BY <1>12, <1>15, <1>16

\* refreshToken revokes the row it has found, signOut those of the token.
LEMMA RevocationsBacked ==
  ASSUME Inv, BackedInv, NEW r \in Requests,
         RevokeOld(r) \/ RevokeToken(r) \/ FailToRevoke(r)
  PROVE  BackedInv'
<1> USE DEF Inv, SessionsInv
<1> DEFINE q == request[r]
<1>1. Hand(r)
  BY DEF HandInv
<1>2. CASE RevokeOld(r)
  <2> DEFINE R == {q.row}
  <2>1. /\ q.phase = "inserted" /\ R \in SUBSET used
        /\ token[q.row] = q.cookie
    BY <1>1, <1>2 DEF RevokeOld, Hand
  <2>2. Revokes(r, R)
    BY <1>2 DEF RevokeOld, Revokes, histories
  <2>3. \A s : Standing(s) /\ Works(r, s) => q.fresh \notin R
    BY <2>1 DEF Standing
  <2> QED
    BY <2>1, <2>2, <2>3, RevokeBacked
<1>3. CASE RevokeToken(r)
  <2> DEFINE R == {i \in used : token[i] = q.cookie}
  <2>1. Revokes(r, R)
    BY <1>3 DEF RevokeToken, Revokes, histories
  <2>2. q.fresh \notin R
    BY <1>1, <1>3, NoneAssumption DEF RevokeToken, Hand, TypeOK
  <2> QED
    BY <2>1, <2>2, RevokeBacked
<1>4. CASE FailToRevoke(r)
  <2> DEFINE R == {}
  <2>1. Revokes(r, R)
    BY <1>4 DEF FailToRevoke, Revokes, rowVars
  <2> QED
    BY <2>1, RevokeBacked
<1> QED
  BY <1>2, <1>3, <1>4

-------------------------------------------------------------------------------
(* Inserts. *)

\* What SignIn and InsertNext have in common: request r inserts row i of session
\* own and is going to bring its token.
Grows(r, i, own) ==
  /\ Insert(i, own) /\ Others(r)
  /\ request[r].fresh = None /\ request'[r].fresh = i
  /\ request[r].phase # "answered"
  /\ request'[r].cookie = request[r].cookie
  /\ request'[r].browser = request[r].browser
  /\ request'[r].row = request[r].row
  /\ UNCHANGED <<now, rotation, jar, histories>>

\* The new row's token is known to nobody, or it is the token of an older row,
\* which makes them twins or the session a shared one.
LEMMA InsertMeets ==
  ASSUME Inv, NEW r \in Requests, NEW i \in Rows, NEW own \in Rows,
         Grows(r, i, own), NEW s, Clear(s)'
  PROVE  /\ \A b \in Browsers : Holds(b, s)' => Holds(b, s)
         /\ \A o \in Requests \ {r} : Works(o, s)' => Works(o, s)
         /\ Works(r, s)' => Works(r, s) \/ s = own
<1> USE DEF Inv, SessionsInv
<1>1. /\ Insert(i, own) /\ Others(r) /\ UNCHANGED jar
      /\ request'[r].fresh = i /\ request'[r].cookie = request[r].cookie
  BY DEF Grows
<1>2. ASSUME NEW k, k # None => Known(k), s \in SessionsOf(k)'
      PROVE  s \in SessionsOf(k)
  <2>1. PICK l \in used' : token'[l] = k /\ session'[l] = s
    BY <1>2 DEF SessionsOf
  <2>2. k # None
    BY <1>1, <2>1, InsertAdds, NoneAssumption DEF TypeOK
  <2>3. PICK j \in used : token[j] = k
    BY <1>2, <2>2, CookieIsToken
  <2>4. token'[j] = k /\ session'[j] = session[j] /\ j \in used'
    BY <1>1, <2>3, InsertAdds
  <2>5. session'[j] = s
    BY <2>1, <2>4 DEF Clear, Shares
  <2> QED
    BY <2>3, <2>4, <2>5 DEF SessionsOf
<1>3. \A b \in Browsers : Holds(b, s)' => Holds(b, s)
  BY <1>1, <1>2 DEF Holds, Known
<1>4. \A o \in Requests :
        s \in SessionsOf(request[o].cookie)' =>
          s \in SessionsOf(request[o].cookie)
  <2>1. \A o \in Requests : Known(request[o].cookie)
    BY DEF Known
  <2> QED
    BY <1>1, <1>2, <2>1 DEF Others
<1>5. \A o \in Requests : request[o].fresh # None =>
        session'[request[o].fresh] = session[request[o].fresh]
  BY <1>1, FreshIsRow, InsertAdds
<1>6. ASSUME NEW o \in Requests \ {r}, Works(o, s)' PROVE Works(o, s)
  BY <1>1, <1>4, <1>5, <1>6 DEF Works, About, Others
<1>7. Works(r, s)' => Works(r, s) \/ s = own
  BY <1>1, <1>4, InsertAdds DEF Works, About
<1> QED
  BY <1>3, <1>6, <1>7

\* The new row backs its token, and the old ones theirs.
LEMMA InsertBacked ==
  ASSUME Inv, BackedInv, NEW r \in Requests, NEW i \in Rows, NEW own \in Rows,
         Grows(r, i, own)
  PROVE  /\ FreshOnce' /\ Onward
         /\ \A s : Clear(s)' /\ (s \in Sessions \/ (s = own /\ own \notin used))
                => Single(s)'
         /\ \A s : \A b \in Browsers : Answering(b, s) => Answering(b, s)'
<1> USE DEF Inv, SessionsInv
<1>1. /\ Insert(i, own) /\ Others(r) /\ UNCHANGED <<jar, histories>>
      /\ request'[r].fresh = i /\ request'[r].cookie = request[r].cookie
      /\ request[r].phase # "answered" /\ request[r].fresh = None
  BY DEF Grows
<1>2. Onward
  BY <1>1, InsertAdds DEF Onward, histories
<1>3. FreshOnce'
  BY <1>1, FreshIsRow, InsertAdds, NoneAssumption
     DEF BackedInv, FreshOnce, Others
<1>4. ASSUME NEW b \in Browsers, NEW s, Answering(b, s) PROVE Answering(b, s)'
  <2>1. PICK o \in Requests :
          Works(o, s) /\ request[o].phase = "answered" /\ request[o].browser = b
    BY <1>4 DEF Answering
  <2>2. o # r /\ request'[o] = request[o]
    BY <1>1, <2>1 DEF Others
  <2>3. \A k : s \in SessionsOf(k) => s \in SessionsOf(k)'
    BY <1>1, InsertAdds DEF SessionsOf
  <2>4. request[o].fresh # None =>
          session'[request[o].fresh] = session[request[o].fresh]
    BY <1>1, FreshIsRow, InsertAdds
  <2>5. Works(o, s)'
    BY <2>1, <2>2, <2>3, <2>4 DEF Works, About
  <2> QED
    BY <2>1, <2>2, <2>5 DEF Answering
<1>5. ASSUME NEW j \in used, ~Twins(token[j])', NEW s, session[j] = s,
             Clear(s)', s \in Sessions
      PROVE  Backs(j)'
  <2>1. Single(s)
    BY <1>2, <1>5, Clears DEF BackedInv, Sessions
  <2>2. \A k : k # None /\ Known(k)' => Known(k)
    BY <1>1 DEF Known, Others
  <2>3. \A o \in Requests :
          request'[o].fresh \in used => request'[o].fresh = request[o].fresh
    BY <1>1, InsertAdds DEF Others
  <2>4. Live \subseteq Live'
    BY <1>1, InsertAdds DEF Live
  <2>5. \A b \in Browsers : jar'[b] # None => jar'[b] = jar[b]
    BY <1>1
  <2> QED
    BY <1>2, <1>4, <1>5, <2>1, <2>2, <2>3, <2>4, <2>5, RowKept
<1>6. ASSUME ~Twins(token[i])' PROVE Backs(i)'
  <2>1. token'[i] # None /\ i \in used'
    BY <1>1, InsertAdds, NoneAssumption DEF TypeOK
  <2>2. \A j \in used : token[j] # token'[i]
    BY <1>1, <1>6, <2>1, InsertAdds DEF Twins
  <2>3. ~Known(token'[i])
    BY <2>1, <2>2, CookieIsToken
  <2>4. ~Known(token[i])'
    BY <1>1, <2>3 DEF Known, Others
  <2>5. i \in Live'
    BY <1>1, <2>1, InsertAdds DEF Live, TypeOK
  <2> QED
    BY <2>5, <2>4 DEF Backs, Known
<1>7. ASSUME NEW s, Clear(s)', s \in Sessions \/ (s = own /\ own \notin used)
      PROVE  Single(s)'
  <2>1. SUFFICES ASSUME NEW j \in used', session'[j] = s, ~Twins(token[j])'
        PROVE  Backs(j)'
    BY DEF Single
  <2>2. CASE j = i
    BY <1>6, <2>1, <2>2
  <2>3. CASE j \in used
    <3>1. session[j] = s /\ s \in Sessions
      BY <1>1, <2>1, <2>3, InsertAdds DEF Sessions
    <3> QED
      BY <1>5, <1>7, <2>1, <2>3, <3>1
  <2> QED
    BY <1>1, <2>1, <2>2, <2>3, InsertAdds
<1> QED
  BY <1>2, <1>3, <1>4, <1>7

\* verifyUser: the new session is its request's alone, and nobody holds it.
LEMMA SignInBacked ==
  ASSUME Inv, BackedInv, NEW r \in Requests, SignIn(r) PROVE BackedInv'
<1> USE DEF Inv, SessionsInv
<1> DEFINE q == request[r]
<1>1. PICK i \in Rows :
        /\ Insert(i, i)
        /\ request' = [request EXCEPT ![r].phase = "answered", ![r].fresh = i]
  BY DEF SignIn
<1>2. /\ q.phase = "sent" /\ q.kind = "signIn" /\ q \in RequestStates
      /\ q.cookie = None /\ q.fresh = None
      /\ UNCHANGED <<now, rotation, jar, histories>>
  BY DEF SignIn, TypeOK, HandInv, Hand
<1> DEFINE n == [q EXCEPT !.phase = "answered", !.fresh = i]
<1>3. /\ n.phase = "answered" /\ n.fresh = i /\ n.kind = q.kind
      /\ n.browser = q.browser /\ n.cookie = q.cookie /\ n.row = q.row
  BY <1>2 DEF RequestStates
<1>4. request'[r] = n /\ Others(r)
  BY <1>1 DEF TypeOK, Others
<1> HIDE DEF n
<1>5. Grows(r, i, i)
  BY <1>1, <1>2, <1>3, <1>4 DEF Grows
<1>6. /\ FreshOnce' /\ Onward
      /\ \A s : Clear(s)' /\ (s \in Sessions \/ (s = i /\ i \notin used))
             => Single(s)'
      /\ \A s : \A b \in Browsers : Answering(b, s) => Answering(b, s)'
  BY <1>5, InsertBacked
<1>7. SUFFICES ASSUME NEW s \in Sessions', Clear(s)'
      PROVE  Owned(s)' /\ Single(s)' /\ (s \in raced' \/ Standing(s)')
  BY <1>6 DEF BackedInv, Sessions
<1>8. /\ \A b \in Browsers : Holds(b, s)' => Holds(b, s)
      /\ \A o \in Requests \ {r} : Works(o, s)' => Works(o, s)
      /\ Works(r, s)' => s = i
  <2>1. ~Works(r, s)
    BY <1>2, NoToken, WorksOn
  <2> QED
    BY <1>5, <1>7, <2>1, InsertMeets
<1>9. i \notin used /\ (s \in Sessions \/ s = i)
  BY <1>1, <1>7, InsertAdds DEF Sessions
<1>10. Single(s)'
  BY <1>6, <1>7, <1>9
<1>11. CASE s # i
  <2>1. /\ Clear(s) /\ Owned(s)
        /\ s \notin raced' => Standing(s)
    BY <1>2, <1>6, <1>7, <1>9, <1>11, Clears DEF BackedInv, Sessions, histories
  <2>2. \A o \in Requests : Works(o, s)' =>
          Works(o, s) /\ request'[o] = request[o]
    BY <1>4, <1>8, <1>11 DEF Others
  <2>3. Owned(s)'
    BY <1>8, <2>1, <2>2, OwnedKept
  <2>4. LiveRows(s)' = LiveRows(s)
    BY <1>1, <1>11, InsertElsewhere
  <2>5. s \in raced' \/ Standing(s)'
    BY <1>2, <1>6, <1>8, <2>1, <2>2, <2>4, StandingKept
  <2> QED
    BY <1>10, <2>3, <2>5
<1>12. CASE s = i
  <2>1. \A j \in used : session[j] # s
    BY <1>9, <1>12 DEF TypeOK
  <2>2. \A b \in Browsers : ~Holds(b, s)'
    BY <1>8, <2>1 DEF Holds, SessionsOf
  <2>3. \A o \in Requests : Works(o, s)' => o = r
    <3>1. ASSUME NEW o \in Requests PROVE ~Works(o, s)
      BY <2>1, FreshIsRow, WorksOn DEF SessionsOf
    <3> QED
      BY <1>8, <3>1
  <2>4. Owned(s)'
    BY <2>2, <2>3 DEF Owned
  <2>5. i \in LiveRows(s)'
    BY <1>1, <1>9, <1>12, InsertAdds DEF LiveRows, Live, TypeOK
  <2>6. Standing(s)'
    BY <1>3, <1>4, <2>2, <2>3, <2>5 DEF Standing
  <2> QED
    BY <1>10, <2>4, <2>6
<1> QED
  BY <1>11, <1>12

\* refreshToken: the row it has found stays live until the next is there.
LEMMA InsertNextBacked ==
  ASSUME Inv, BackedInv, NEW r \in Requests, InsertNext(r) PROVE BackedInv'
<1> USE DEF Inv, SessionsInv
<1> DEFINE q == request[r]
           own == session[q.row]
<1>1. PICK i \in Rows :
        /\ Insert(i, own)
        /\ request' = [request EXCEPT ![r].phase = "inserted", ![r].fresh = i]
  BY DEF InsertNext
<1>2. /\ q.phase = "found" /\ q \in RequestStates
      /\ UNCHANGED <<now, rotation, jar, histories>>
  BY DEF InsertNext, TypeOK
<1>3. /\ q.row \in used /\ token[q.row] = q.cookie /\ q.fresh = None
  BY <1>2 DEF HandInv, Hand
<1>4. own \in used /\ own \in Rows /\ own \in Sessions
  BY <1>3 DEF TypeOK, Sessions
<1> DEFINE n == [q EXCEPT !.phase = "inserted", !.fresh = i]
<1>5. /\ n.phase = "inserted" /\ n.fresh = i /\ n.kind = q.kind
      /\ n.browser = q.browser /\ n.cookie = q.cookie /\ n.row = q.row
  BY <1>2 DEF RequestStates
<1>6. request'[r] = n /\ Others(r)
  BY <1>1 DEF TypeOK, Others
<1> HIDE DEF n
<1> PICK u \in Rows : u = own
  BY <1>4
<1>7. Insert(i, u) /\ Grows(r, i, u)
  BY <1>1, <1>2, <1>3, <1>5, <1>6 DEF Grows
<1>8. /\ FreshOnce' /\ Onward
      /\ \A s : Clear(s)' /\ (s \in Sessions \/ (s = u /\ u \notin used))
             => Single(s)'
      /\ \A s : \A b \in Browsers : Answering(b, s) => Answering(b, s)'
  BY <1>7, InsertBacked
<1>9. SUFFICES ASSUME NEW s \in Sessions', Clear(s)'
      PROVE  Owned(s)' /\ Single(s)' /\ (s \in raced' \/ Standing(s)')
  BY <1>8 DEF BackedInv, Sessions
<1>10. s \in Sessions
  BY <1>4, <1>7, <1>9, InsertAdds DEF Sessions
<1>11. /\ Clear(s) /\ Owned(s) /\ Single(s)'
       /\ s \notin raced' => Standing(s)
  BY <1>2, <1>8, <1>9, <1>10, Clears DEF BackedInv, Sessions, histories
<1>12. Works(r, u)
  BY <1>3, WorksOn DEF SessionsOf
<1>13. /\ \A b \in Browsers : Holds(b, s)' => Holds(b, s)
       /\ \A o \in Requests : Works(o, s)' => Works(o, s)
  BY <1>7, <1>9, <1>12, InsertMeets
<1>14. \A o \in Requests : request'[o].browser = request[o].browser
  BY <1>5, <1>6 DEF Others
<1>15. Owned(s)'
  BY <1>11, <1>13, <1>14, OwnedKept
<1>16. ASSUME s \notin raced' PROVE Standing(s)'
  <2>1. Standing(s) /\ Tidy(s) /\ ~Disturbed(s)
    BY <1>2, <1>10, <1>11, <1>16
       DEF Clear, Disturbed, Sessions, TypeOK, histories
  <2>2. CASE s # u
    <3>1. ~Works(r, s)
      BY <1>2, <2>1, <2>2, OwnSession
    <3>2. \A o \in Requests : Works(o, s)' =>
            Works(o, s) /\ request'[o] = request[o]
      BY <1>6, <1>13, <3>1 DEF Others
    <3>3. LiveRows(s)' = LiveRows(s)
      BY <1>7, <2>2, InsertElsewhere
    <3> QED
      BY <1>2, <1>8, <1>13, <2>1, <3>2, <3>3, StandingKept
  <2>3. CASE s = u
    <3>1. \A o \in Requests : Works(o, s)' => o = r
      BY <1>12, <1>13, <2>1, <2>3 DEF Tidy, Alone
    <3>2. q.row \in LiveRows(s)
      BY <1>2, <1>12, <2>1, <2>3 DEF Tidy, Progress
    <3>3. {q.row, i} \subseteq LiveRows(s)' /\ q.row # i
      BY <1>7, <2>3, <3>2, InsertAdds DEF LiveRows, Live, TypeOK
    <3>4. \A b \in Browsers : Holds(b, s)' /\ q.kind # "signIn" =>
            jar'[b] = q.cookie
      BY <1>2, <1>12, <1>13, <2>1, <2>3 DEF Standing
    <3> QED
      BY <1>5, <1>6, <3>1, <3>3, <3>4 DEF Standing
  <2> QED
    BY <2>2, <2>3
<1> QED
  BY <1>11, <1>15, <1>16

-------------------------------------------------------------------------------
(* Answers that arrive. *)

\* The browser stores a token that nobody else knows, or drops its cookie.
LEMMA DeliverBacked ==
  ASSUME Inv, BackedInv, NEW r \in Requests, Deliver(r) PROVE BackedInv'
<1> USE DEF Inv, SessionsInv
<1> DEFINE q == request[r]
           k == IF q.kind = "signOut" THEN None ELSE token[q.fresh]
<1>1. /\ q.phase = "answered" /\ q \in RequestStates
      /\ jar' = [jar EXCEPT ![q.browser] = k]
      /\ request' = [request EXCEPT ![r] = Idle]
      /\ UNCHANGED <<now, rotation, rowVars, cut, raced>>
  BY DEF Deliver, TypeOK
<1>2. Hand(r)
  BY DEF HandInv
<1>3. q.kind # "signOut" => q.fresh \in used /\ q.fresh # None
  BY <1>1, <1>2, NoneAssumption DEF Hand, TypeOK
<1>4. PICK w \in Browsers : w = q.browser
  BY <1>1, <1>2 DEF Hand
<1>5. /\ request'[r] = Idle /\ Others(r)
      /\ Idle.fresh = None /\ Idle.cookie = None
  BY <1>1 DEF TypeOK, Others, Idle
<1>6. jar'[w] = k /\ \A b \in Browsers \ {w} : jar'[b] = jar[b]
  BY <1>1, <1>4 DEF TypeOK
<1>7. Onward
  BY <1>1 DEF Onward, rowVars
<1>8. FreshOnce'
  BY <1>5 DEF BackedInv, FreshOnce, Others
<1>9. SUFFICES ASSUME NEW s \in Sessions', Clear(s)'
      PROVE  Owned(s)' /\ Single(s)' /\ (s \in raced' \/ Standing(s)')
  BY <1>8 DEF BackedInv, Sessions
<1>10. /\ Clear(s) /\ Owned(s) /\ Single(s) /\ s \in used
       /\ s \notin raced' => Standing(s)
  BY <1>1, <1>7, <1>9, Clears DEF BackedInv, Sessions, rowVars, TypeOK
<1>11. \A o \in Requests \ {r} : Works(o, s)' <=> Works(o, s)
  BY <1>1, <1>5, SameRows DEF Works, About, Others, rowVars
<1>12. ~Works(r, s)'
  <2>1. s \notin SessionsOf(None)'
    BY <1>1, NoToken, SameRows
  <2> QED
    BY <1>5, <2>1 DEF Works, About
<1>13. \A b \in Browsers \ {w} : Holds(b, s)' <=> Holds(b, s)
  BY <1>1, <1>6, SameRows DEF Holds
<1>14. Holds(w, s)' => Works(r, s) /\ q.kind # "signOut"
  <2>1. Holds(w, s)' => s \in SessionsOf(k)
    BY <1>1, <1>6, SameRows DEF Holds
  <2>2. s \in SessionsOf(k) => q.kind # "signOut"
    BY NoToken
  <2>3. ASSUME s \in SessionsOf(k), q.kind # "signOut" PROVE Works(r, s)
    <3>1. PICK j \in used : token[j] = k /\ session[j] = s
      BY <2>3 DEF SessionsOf
    <3>2. session[q.fresh] = s
      BY <1>3, <1>10, <2>3, <3>1, ClearRows
    <3> QED
      BY <1>3, <2>3, <3>2, WorksOn
  <2> QED
    BY <2>1, <2>2, <2>3
<1>15. Owned(s)'
  <2>1. \A o \in Requests : Works(o, s)' =>
          Works(o, s) /\ request'[o] = request[o]
    BY <1>5, <1>11, <1>12 DEF Others
  <2>2. \A b \in Browsers :
          Holds(b, s)' => Holds(b, s) \/ (b = w /\ Works(r, s))
    <3>1. SUFFICES ASSUME NEW b \in Browsers, Holds(b, s)'
          PROVE  Holds(b, s) \/ (b = w /\ Works(r, s))
      OBVIOUS
    <3>2. CASE b = w
      BY <1>14, <3>1, <3>2 DEF Holds
    <3>3. CASE b # w
      BY <1>13, <3>1, <3>3
    <3> QED
      BY <3>2, <3>3
  <2> QED
    BY <1>4, <1>10, <2>1, <2>2 DEF Owned
<1>16. \A b \in Browsers \ {w} : Answering(b, s) => Answering(b, s)'
  BY <1>4, <1>5, <1>11 DEF Answering, Others
<1>17. Single(s)'
  <2>1. SUFFICES ASSUME NEW i \in used, session[i] = s, ~Twins(token[i])'
        PROVE  Backs(i)'
    BY <1>1 DEF Single, rowVars, Twins
  <2>2. /\ token' = token /\ session' = session /\ Live' = Live
        /\ token[i] # None
    BY <1>1, NoneAssumption DEF rowVars, Live, TypeOK
  <2>3. ~Twins(token[i])
    BY <1>1, <2>1 DEF Twins, rowVars
  <2>4. Backs(i)
    BY <1>10, <2>1, <2>3 DEF Single
  <2>5. k = token[i] => q.fresh = i
    BY <1>3, <2>1, <2>2, <2>3 DEF Twins
  <2>6. ASSUME NEW b \in Browsers, jar'[b] = token[i]
        PROVE  i \in Live \/ Answering(b, s)'
    <3>1. CASE b = w
      BY <1>6, <2>4, <2>5, <2>6, <3>1 DEF Backs
    <3>2. CASE b # w
      BY <1>6, <1>16, <2>1, <2>4, <2>6, <3>2 DEF Backs
    <3> QED
      BY <3>1, <3>2
  <2>7. ASSUME NEW o \in Requests, request'[o].fresh = i
        PROVE  i \in Live /\ ~Known(token[i])'
    <3>1. o # r /\ request[o].fresh = i
      BY <1>5, <2>1, <2>7, NoneAssumption DEF Others, TypeOK
    <3>2. i \in Live /\ ~Known(token[i])
      BY <2>4, <3>1 DEF Backs
    <3>3. i # None /\ k # token[i]
      BY <2>1, <2>5, <3>1, NoneAssumption DEF BackedInv, FreshOnce, TypeOK
    <3> QED
      BY <1>5, <1>6, <2>2, <3>2, <3>3 DEF Known, Others
  <2> QED
    BY <2>1, <2>2, <2>6, <2>7 DEF Backs
<1>18. ASSUME s \notin raced' PROVE Standing(s)'
  <2>1. Standing(s) /\ Tidy(s)
    BY <1>1, <1>10, <1>18 DEF Clear, Disturbed
  <2>2. LiveRows(s)' = LiveRows(s)
    BY <1>1, SameRows
  <2>3. CASE ~Works(r, s)
    <3>1. \A o \in Requests : Works(o, s)' =>
            Works(o, s) /\ request'[o] = request[o]
      BY <1>5, <1>11, <1>12 DEF Others
    <3>2. \A b \in Browsers : Holds(b, s)' =>
            Holds(b, s) /\ jar'[b] = jar[b] /\ b # w
      BY <1>6, <1>13, <1>14, <2>3
    <3> QED
      BY <1>16, <2>1, <2>2, <3>1, <3>2 DEF Standing
  <2>4. CASE Works(r, s)
    <3>1. \A o \in Requests : ~Works(o, s)'
      BY <1>11, <1>12, <2>1, <2>4 DEF Tidy, Alone
    <3>2. \A b \in Browsers : Holds(b, s)' => q.kind # "signOut"
      BY <1>4, <1>10, <1>13, <1>14, <2>4 DEF Owned
    <3>3. q.kind # "signOut" => LiveRows(s)' # {}
      BY <1>3, <2>1, <2>2, <2>4 DEF Standing
    <3> QED
      BY <3>1, <3>2, <3>3 DEF Standing
  <2> QED
    BY <2>3, <2>4
<1> QED
  BY <1>15, <1>17, <1>18

-------------------------------------------------------------------------------
\* Every step.
LEMMA BackedStep == ASSUME Inv, BackedInv, [Next]_vars PROVE BackedInv'
<1>1. ASSUME NEW r \in Requests, Deny(r) \/ KeepToken(r) \/ Lose(r)
      PROVE  Forgets
  <2>1. /\ request' = [request EXCEPT ![r] = Idle]
        /\ UNCHANGED <<rowVars, jar, signedOut, raced>> /\ cut \subseteq cut'
    BY <1>1 DEF Deny, KeepToken, Lose, histories
  <2>2. request[r].phase \in {"inserted", "answered"} =>
          About(request[r]) \subseteq cut'
    BY <1>1 DEF Deny, KeepToken, Lose
  <2> QED
    BY <2>1, <2>2 DEF Forgets, Inv, TypeOK
<1>2. ASSUME NEW b \in Browsers, DropCookie(b) PROVE Forgets
  BY <1>2 DEF DropCookie, Inv, TypeOK, Forgets, rowVars, histories
<1>3. ASSUME Restart PROVE Forgets
  <2>1. \A r \in Requests : request[r].phase \in {"inserted", "answered"} =>
          About(request[r]) \subseteq cut'
    BY <1>3 DEF Restart
  <2> QED
    BY <1>3, <2>1 DEF Restart, Forgets
<1>4. ASSUME Tick \/ UNCHANGED vars PROVE Forgets
  BY <1>4 DEF Tick, vars, Forgets, rowVars, histories
<1>5. ASSUME NEW r \in Requests, RequestStep(r) PROVE BackedInv'
  BY <1>1, <1>5, ForgetBacked, SendBacked, SignInBacked, FindRowBacked,
     InsertNextBacked, RevocationsBacked, DeliverBacked DEF RequestStep
<1> QED
  BY <1>2, <1>3, <1>4, <1>5, ForgetBacked DEF Next

\* Whatever backs the session backs the cookie.
LEMMA CookieBacked == ASSUME Inv, BackedInv PROVE JarBacked
<1> USE DEF Inv, SessionsInv
<1>1. SUFFICES ASSUME NEW b \in Browsers, jar[b] # None,
                      \A r \in Requests :
                        ~(/\ request[r].phase = "answered"
                          /\ request[r].browser = b),
                      \A s \in SessionsOf(jar[b]) :
                        /\ s \notin cut /\ ~Shares(s)
                        /\ s \in raced => ~Twins(jar[b])
               PROVE  \E i \in Live : token[i] = jar[b]
  BY DEF JarBacked
<1>2. PICK i \in used : token[i] = jar[b]
  BY <1>1 DEF HandInv
<1> DEFINE s == session[i]
<1>3. s \in SessionsOf(jar[b]) /\ s \in Sessions /\ s \in used
  BY <1>2 DEF SessionsOf, Sessions, TypeOK
<1>4. Clear(s) /\ Owned(s) /\ Single(s) /\ (s \in raced \/ Standing(s))
  BY <1>1, <1>3 DEF BackedInv, Sessions, Clear
<1>5. ~Answering(b, s) /\ Holds(b, s)
  BY <1>1, <1>3 DEF Answering, Holds
<1>6. CASE ~Twins(jar[b])
  <2>1. Backs(i)
    BY <1>2, <1>4, <1>6 DEF Single
  <2> QED
    BY <1>2, <1>5, <2>1 DEF Backs
<1>7. CASE Twins(jar[b])
  <2>1. Standing(s) /\ Tidy(s) /\ ~Disturbed(s)
    BY <1>1, <1>3, <1>4, <1>7 DEF Disturbed, Clear
  <2>2. PICK j \in LiveRows(s) : TRUE
    BY <1>5, <2>1 DEF Standing
  <2>3. CASE \E r \in Requests : Works(r, s) /\ request[r].phase = "inserted"
    <3>1. PICK r \in Requests : Works(r, s) /\ request[r].phase = "inserted"
      BY <2>3
    <3>2. request[r].row \in LiveRows(s)
      BY <2>1, <3>1 DEF Standing
    <3>3. /\ token[request[r].row] = request[r].cookie
          /\ request[r].kind = "refresh"
      BY <3>1 DEF HandInv, Hand
    <3>4. jar[b] = request[r].cookie
      BY <1>5, <2>1, <3>1, <3>3 DEF Standing
    <3> QED
      BY <3>2, <3>3, <3>4 DEF LiveRows
  <2>4. CASE \A r \in Requests : Works(r, s) => request[r].phase # "inserted"
    <3>1. ASSUME NEW r \in Requests, Works(r, s)
          PROVE  request[r].phase \in {"sent", "found"}
      <4>1. request[r].phase # "answered"
        BY <1>1, <1>4, <1>5, <3>1 DEF Owned
      <4>2. request[r].phase # "idle"
        BY <3>1, IdleRests DEF HandInv, Hand
      <4> QED
        BY <2>4, <3>1, <4>1, <4>2 DEF TypeOK, RequestStates, Phases
    <3>2. token[j] = jar[b]
      BY <1>5, <2>1, <2>2, <3>1 DEF Tidy, Quiet
    <3> QED
      BY <2>2, <3>2 DEF LiveRows
  <2> QED
    BY <2>3, <2>4
<1> QED
  BY <1>6, <1>7

\* The inductive invariant: what backs the cookies, next to what is live at each
\* await (refreshToken, signOut, verifyUser).
THEOREM CookiesInvariant == Spec => [](Inv /\ BackedInv)
<1>1. Init => BackedInv
  BY DEF Init, BackedInv, FreshOnce, Idle
<1>2. Inv /\ BackedInv /\ [Next]_vars => (Inv /\ BackedInv)'
  BY BackedStep, NextKeeps
<1> QED
  BY <1>1, <1>2, InitInv, PTL DEF Spec

\* For any number of browsers, overlapping requests and tokens, any life time of
\* a token and any clock, no browser is locked out by an exchange of its own
\* (insert, revoke and answer of refreshToken; signOut).
THEOREM JarBackedAlways == Spec => []JarBacked
  BY CookiesInvariant, CookieBacked, PTL
===============================================================================
