-------------------------------- MODULE Sessions -------------------------------
(***************************************************************************)
(* The refresh tokens of ONE user: AuthService.verifyUser and              *)
(* encodeRefreshToken, which issue one at sign-in, refreshToken, which     *)
(* exchanges it, and signOut, which revokes it; and the cookies of the     *)
(* user's browsers.  Rows of different users never meet: every query names *)
(* the user.                                                               *)
(*                                                                         *)
(* A token is signed over the user and the second of issue, so a token IS  *)
(* that second here: what two tokens of one second share is the string,    *)
(* not the row.  Requests of one browser may overlap, answers may arrive   *)
(* in any order or not at all, an awaited query may reject, and the        *)
(* process may restart.  A session is what one sign-in starts; it is named *)
(* by its first row.                                                       *)
(***************************************************************************)
EXTENDS Naturals

CONSTANTS
  Browsers,
  Requests,   \* requests that may be in flight together
  Rows,       \* bound: rows ever inserted into "refresh-tokens"
  Ttl,        \* env REFRESH_TOKEN_TTL
  MaxSecond,  \* bound: the clock
  None

ASSUME ClockAssumption == Ttl \in Nat /\ MaxSecond \in Nat

Seconds == 0 .. MaxSecond

ASSUME NoneAssumption == None \notin Rows \cup Seconds \cup Browsers

VARIABLES
  now,         \* the clock, in seconds
  rotation,    \* env ENABLE_TOKEN_ROTATION
  used,        \* rows that exist
  token,       \* per row: its token
  isRevoked,   \* rows with is_revoked
  session,     \* per row: the session it continues
  jar,         \* per browser: its refresh_token cookie, or None
  request,     \* per request: what it knows and is awaiting
  signedOut,   \* history: sessions whose sign-out was answered
  cut,         \* history: sessions of which a step or an answer was lost
  raced        \* history: sessions two requests worked on at a time

rowVars == <<used, token, isRevoked, session>>
histories == <<signedOut, cut, raced>>
vars == <<now, rotation, rowVars, jar, request, histories>>

Kinds == {"signIn", "refresh", "signOut"}
Phases == {"idle", "sent", "found", "inserted", "answered"}

\* cookie is what it came with, row is storedRefreshToken, fresh the row of
\* the token that its answer will carry.
RequestStates ==
  [phase : Phases, kind : Kinds, browser : Browsers \cup {None},
   cookie : Seconds \cup {None}, row : Rows \cup {None},
   fresh : Rows \cup {None}]

Idle == [phase |-> "idle", kind |-> "signIn", browser |-> None,
         cookie |-> None, row |-> None, fresh |-> None]

TypeOK ==
  /\ now \in Seconds
  /\ rotation \in BOOLEAN
  /\ used \subseteq Rows /\ isRevoked \subseteq used
  /\ token \in [Rows -> Seconds]
  /\ session \in [Rows -> Rows \cup {None}]
  /\ \A i \in used : session[i] \in used
  /\ jar \in [Browsers -> Seconds \cup {None}]
  /\ request \in [Requests -> RequestStates]
  /\ \A r \in Requests :
       {request[r].row, request[r].fresh} \subseteq used \cup {None}
  /\ signedOut \subseteq used /\ cut \subseteq used /\ raced \subseteq used

Init ==
  /\ now = 0
  /\ rotation \in BOOLEAN
  /\ used = {} /\ isRevoked = {}
  /\ token = [i \in Rows |-> 0]
  /\ session = [i \in Rows |-> None]
  /\ jar = [b \in Browsers |-> None]
  /\ request = [r \in Requests |-> Idle]
  /\ signedOut = {} /\ cut = {} /\ raced = {}

-------------------------------------------------------------------------------
Live == used \ isRevoked

\* storedRefreshToken.expiredAt < new Date()
Expired(k) == now > k + Ttl

SessionsOf(k) == {session[i] : i \in {j \in used : token[j] = k}}

\* The sessions a request in flight is about: of its cookie and its new row.
About(q) ==
  SessionsOf(q.cookie) \cup {session[i] : i \in {q.fresh} \ {None}}

\* A browser sends its cookie along; without one, refreshToken throws and
\* signOut finds nothing to revoke.
Send(r) ==
  /\ request[r].phase = "idle"
  /\ \E b \in Browsers, d \in Kinds :
       LET k == IF d = "signIn" THEN None ELSE jar[b] IN
       /\ d # "signIn" => k # None
       /\ request' = [request EXCEPT ![r] =
            [Idle EXCEPT !.phase = "sent", !.kind = d, !.browser = b,
                         !.cookie = k]]
       /\ raced' = raced \cup
            {s \in SessionsOf(k) :
               \E o \in Requests \ {r} : s \in About(request[o])}
  /\ UNCHANGED <<now, rotation, rowVars, jar, signedOut, cut>>

\* encodeRefreshToken signs a token and inserts its row.  Signing reads nothing
\* but the clock.
Insert(i, s) ==
  /\ i \notin used
  /\ used' = used \cup {i}
  /\ token' = [token EXCEPT ![i] = now]
  /\ session' = [session EXCEPT ![i] = s]
  /\ UNCHANGED isRevoked

\* verifyUser: its answer carries the cookies.
SignIn(r) ==
  /\ request[r].phase = "sent" /\ request[r].kind = "signIn"
  /\ \E i \in Rows :
       /\ Insert(i, i)
       /\ request' = [request EXCEPT ![r].phase = "answered", ![r].fresh = i]
  /\ UNCHANGED <<now, rotation, jar, histories>>

-------------------------------------------------------------------------------
(* refreshToken *)

\* Any of the live rows with this token, where there are several.
FindRow(r) ==
  /\ request[r].phase = "sent" /\ request[r].kind = "refresh"
  /\ \E i \in Live :
       /\ token[i] = request[r].cookie /\ ~Expired(token[i])
       /\ request' = [request EXCEPT ![r].phase = "found", ![r].row = i]
  /\ UNCHANGED <<now, rotation, rowVars, jar, histories>>

\* `Refresh token is invalid or expired': the cookies stay as they are.
Deny(r) ==
  /\ request[r].phase = "sent" /\ request[r].kind = "refresh"
  /\ \/ Expired(request[r].cookie)
     \/ \A i \in Live : token[i] # request[r].cookie
  /\ request' = [request EXCEPT ![r] = Idle]
  /\ UNCHANGED <<now, rotation, rowVars, jar, histories>>

\* Without rotation the answer carries an access token only.
KeepToken(r) ==
  /\ request[r].phase = "found" /\ ~rotation
  /\ request' = [request EXCEPT ![r] = Idle]
  /\ UNCHANGED <<now, rotation, rowVars, jar, histories>>

InsertNext(r) ==
  /\ request[r].phase = "found" /\ rotation
  /\ \E i \in Rows :
       /\ Insert(i, session[request[r].row])
       /\ request' = [request EXCEPT ![r].phase = "inserted", ![r].fresh = i]
  /\ UNCHANGED <<now, rotation, jar, histories>>

\* Slips to catch: the old row stays as it is; every row with its token goes.
RevokeNothing(r) ==
  /\ request[r].phase = "inserted"
  /\ request' = [request EXCEPT ![r].phase = "answered"]
  /\ UNCHANGED <<now, rotation, rowVars, jar, histories>>

RevokeAlike(r) ==
  /\ request[r].phase = "inserted"
  /\ isRevoked' = isRevoked \cup {i \in used : token[i] = request[r].cookie}
  /\ request' = [request EXCEPT ![r].phase = "answered"]
  /\ UNCHANGED <<now, rotation, used, token, session, jar, histories>>

\* update(storedRefreshToken.id, ...): this row, not its token.
RevokeOld(r) ==
  /\ request[r].phase = "inserted"
  /\ isRevoked' = isRevoked \cup {request[r].row}
  /\ request' = [request EXCEPT ![r].phase = "answered"]
  /\ UNCHANGED <<now, rotation, used, token, session, jar, histories>>

-------------------------------------------------------------------------------
(* signOut *)

\* Slip to catch: the cookies go, the row stays.
ClearOnly(r) ==
  /\ request[r].phase = "sent" /\ request[r].kind = "signOut"
  /\ request' = [request EXCEPT ![r].phase = "answered"]
  /\ UNCHANGED <<now, rotation, rowVars, jar, histories>>

\* All rows with the token of the cookie.
RevokeToken(r) ==
  /\ request[r].phase = "sent" /\ request[r].kind = "signOut"
  /\ isRevoked' = isRevoked \cup {i \in used : token[i] = request[r].cookie}
  /\ request' = [request EXCEPT ![r].phase = "answered"]
  /\ UNCHANGED <<now, rotation, used, token, session, jar, histories>>

\* The update rejects; the error is logged and the answer is the same.
FailToRevoke(r) ==
  /\ request[r].phase = "sent" /\ request[r].kind = "signOut"
  /\ request' = [request EXCEPT ![r].phase = "answered"]
  /\ cut' = cut \cup SessionsOf(request[r].cookie)
  /\ UNCHANGED <<now, rotation, rowVars, jar, signedOut, raced>>

-------------------------------------------------------------------------------
(* Answers, failures, time *)

\* The answer arrives: the browser stores or drops the cookie.
Deliver(r) ==
  LET q == request[r] IN
  /\ q.phase = "answered"
  /\ jar' = [jar EXCEPT ![q.browser] =
               IF q.kind = "signOut" THEN None ELSE token[q.fresh]]
  /\ signedOut' = signedOut \cup
       {s \in SessionsOf(q.cookie) : q.kind = "signOut"}
  /\ request' = [request EXCEPT ![r] = Idle]
  /\ UNCHANGED <<now, rotation, rowVars, cut, raced>>

\* The request ends without its answer: an await rejects, the connection
\* breaks.  What it has written stays.
Lose(r) ==
  /\ request[r].phase # "idle"
  /\ request' = [request EXCEPT ![r] = Idle]
  /\ cut' = cut \cup
       {s \in About(request[r]) : request[r].phase \in {"inserted", "answered"}}
  /\ UNCHANGED <<now, rotation, rowVars, jar, signedOut, raced>>

\* The process restarts and drops every request.
Restart ==
  /\ request' = [r \in Requests |-> Idle]
  /\ cut' = cut \cup UNION
       {About(request[r]) :
          r \in {o \in Requests : request[o].phase \in {"inserted", "answered"}}}
  /\ UNCHANGED <<now, rotation, rowVars, jar, signedOut, raced>>

\* maxAge has passed, or the user clears the cookies.
DropCookie(b) ==
  /\ jar[b] # None
  /\ jar' = [jar EXCEPT ![b] = None]
  /\ UNCHANGED <<now, rotation, rowVars, request, histories>>

Tick ==
  /\ now < MaxSecond
  /\ now' = now + 1
  /\ UNCHANGED <<rotation, rowVars, jar, request, histories>>

RequestStep(r) ==
  \/ Send(r) \/ SignIn(r)
  \/ FindRow(r) \/ Deny(r) \/ KeepToken(r) \/ InsertNext(r) \/ RevokeOld(r)
  \/ RevokeToken(r) \/ FailToRevoke(r)
  \/ Deliver(r) \/ Lose(r)

Next ==
  \/ \E r \in Requests : RequestStep(r)
  \/ \E b \in Browsers : DropCookie(b)
  \/ Restart \/ Tick

Spec == Init /\ [][Next]_vars

-------------------------------------------------------------------------------
\* Two sign-ins of one second, or their successors, share a token string.
Shares(s) ==
  \E i, j \in used : token[i] = token[j] /\ session[i] = s /\ session[j] # s

\* Two rows with one token: a session exchanged it twice within a second.
Twins(k) == \E i, j \in used : i # j /\ token[i] = k /\ token[j] = k

\* What the code leaves open: a session is worked on by overlapping requests,
\* broken off, or its token is the token of another session, too.
Disturbed(s) == s \in cut \cup raced \/ Shares(s)

LiveRows(s) == {i \in Live : session[i] = s}

Rotating(s) ==
  \E r \in Requests :
    request[r].phase = "inserted" /\ session[request[r].fresh] = s

\* A session does not fork: it has one live row at most, two while a refresh
\* is between its two writes (refreshToken inserts first and revokes later,
\* by id).
OneLiveRow ==
  \A s \in used :
    Disturbed(s) \/ Rotating(s) \/ \A i, j \in LiveRows(s) : i = j

\* Signing out ends the session: no row of it can be exchanged any more
\* (signOut revokes by token, refreshToken looks for rows not revoked).
SignOutEnds == \A s \in signedOut : Disturbed(s) \/ LiveRows(s) = {}

\* A browser is not locked out, even by overlapping refreshes: its cookie is
\* the token of a live row, or has expired, unless an answer with new cookies
\* is on its way to it (the order of insert, revoke and answer in
\* refreshToken; signOut).
JarBacked ==
  \A b \in Browsers :
    \/ jar[b] = None
    \/ Expired(jar[b])
    \/ \E i \in Live : token[i] = jar[b]
    \/ \E r \in Requests :
         request[r].phase = "answered" /\ request[r].browser = b
    \/ \E s \in SessionsOf(jar[b]) :
         s \in cut \/ Shares(s) \/ (s \in raced /\ Twins(jar[b]))

-------------------------------------------------------------------------------
(* The inductive invariant: TypeOK with the conjuncts of SessionsInv. *)

\* What a request has found and inserted belongs to its cookie, which is the
\* token of a row.
Hand(r) == LET q == request[r] IN
  /\ q.phase = "idle" => q = Idle
  /\ q.phase # "idle" => q.browser \in Browsers
  /\ IF q.kind = "signIn" THEN q.cookie = None
     ELSE \E i \in used : token[i] = q.cookie
  /\ q.phase \in {"found", "inserted"} =>
       q.kind = "refresh" /\ q.row \in used /\ token[q.row] = q.cookie
  /\ IF \/ q.phase = "inserted"
        \/ q.phase = "answered" /\ q.kind # "signOut"
     THEN q.fresh \in used ELSE q.fresh = None
  /\ q.phase = "inserted" => session[q.fresh] = session[q.row]
  /\ q.phase = "answered" /\ q.kind = "refresh" =>
       \E i \in used : token[i] = q.cookie /\ session[i] = session[q.fresh]

HandInv ==
  /\ \A b \in Browsers : jar[b] # None => \E i \in used : token[i] = jar[b]
  /\ \A r \in Requests : Hand(r)

Works(r, s) == s \in About(request[r])
Holds(b, s) == s \in SessionsOf(jar[b])

\* One request at a time, and one browser, have to do with the session.
Alone(s) ==
  /\ \A r, o \in Requests : Works(r, s) /\ Works(o, s) => r = o
  /\ \A b, c \in Browsers : Holds(b, s) /\ Holds(c, s) => b = c
  /\ \A r \in Requests, b \in Browsers :
       Works(r, s) /\ Holds(b, s) => request[r].browser = b

\* The rows that may be live at each await of the request that works on it.
Progress(r, s) == LET q == request[r] IN
  /\ q.phase = "sent" => \A i \in LiveRows(s) : token[i] = q.cookie
  /\ q.phase = "found" => LiveRows(s) = {q.row}
  /\ q.phase = "inserted" => LiveRows(s) \subseteq {q.row, q.fresh}
  /\ q.phase = "answered" =>
       LiveRows(s) \subseteq IF q.kind = "signOut" THEN {} ELSE {q.fresh}

\* Nobody is about to change the session: its live row is its browser's.
Quiet(s) ==
  (\A r \in Requests : Works(r, s) => request[r].phase \in {"sent", "found"})
  => /\ \A i, j \in LiveRows(s) : i = j
     /\ \A b \in Browsers : Holds(b, s) =>
          \A i \in LiveRows(s) : token[i] = jar[b]

Tidy(s) ==
  /\ Alone(s) /\ Quiet(s)
  /\ \A r \in Requests : Works(r, s) => Progress(r, s)
  /\ s \in signedOut => LiveRows(s) = {}

SessionsInv == HandInv /\ \A s \in used : Disturbed(s) \/ Tidy(s)

-------------------------------------------------------------------------------
(***************************************************************************)
(* What backs a cookie, also in a session that overlapping requests work   *)
(* on: a row whose token is its own is revoked only by a request that came *)
(* with it, from the browser that holds it, and the token that an answer   *)
(* will bring is known to nobody yet.                                      *)
(***************************************************************************)
Clear(s) == s \notin cut /\ ~Shares(s)

Answering(b, s) ==
  \E r \in Requests :
    Works(r, s) /\ request[r].phase = "answered" /\ request[r].browser = b

Known(k) ==
  \/ \E b \in Browsers : jar[b] = k
  \/ \E r \in Requests : request[r].cookie = k

FreshOnce ==
  \A r, o \in Requests :
    request[r].fresh # None /\ request[r].fresh = request[o].fresh => r = o

\* A session stays in the browser that signed in.
Owned(s) ==
  /\ \A r, o \in Requests :
       Works(r, s) /\ Works(o, s) => request[r].browser = request[o].browser
  /\ \A b, c \in Browsers : Holds(b, s) /\ Holds(c, s) => b = c
  /\ \A r \in Requests, b \in Browsers :
       Works(r, s) /\ Holds(b, s) => request[r].browser = b

Backs(i) ==
  /\ \A b \in Browsers :
       jar[b] = token[i] => i \in Live \/ Answering(b, session[i])
  /\ \A r \in Requests : request[r].fresh = i => i \in Live /\ ~Known(token[i])

Single(s) ==
  \A i \in used : session[i] = s /\ ~Twins(token[i]) => Backs(i)

\* Rows of one token do as well while requests take turns.
Standing(s) ==
  /\ \A b \in Browsers : Holds(b, s) => LiveRows(s) # {} \/ Answering(b, s)
  /\ \A r \in Requests : Works(r, s) =>
       LET q == request[r] IN
       /\ q.fresh # None => q.fresh \in LiveRows(s)
       /\ q.phase = "inserted" => q.row \in LiveRows(s) /\ q.row # q.fresh
       /\ \A b \in Browsers :
            Holds(b, s) /\ q.kind # "signIn" => jar[b] = q.cookie

BackedInv ==
  /\ FreshOnce
  /\ \A s \in {session[i] : i \in used} : Clear(s) =>
       Owned(s) /\ Single(s) /\ (s \in raced \/ Standing(s))
===============================================================================
