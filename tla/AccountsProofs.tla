----------------------------- MODULE AccountsProofs ----------------------------
(***************************************************************************)
(* Proofs about accounts for every set of requests, wallets and emails: an *)
(* organizer has its details, details have their organizer, an organizer's *)
(* tokens go with the whitelist, and a profile keeps what was written to   *)
(* it, but for the causes that each property names.  The inductive         *)
(* invariant is TypeOK with AccountsInv.  It is needed because a request   *)
(* acts on a row that it found awaits ago (FreshInv) and owes its wallet,  *)
(* until it ends, what it has begun (OrganizerInv, RoleInv).               *)
(***************************************************************************)
EXTENDS Accounts, TLAPS

\* The inductive invariant.
Inv == TypeOK /\ AccountsInv

\* No other variable of a request changes when one goes on.
Goes(r, next) == InFlight(r) /\ Goto(r, next) /\ req' = req

-------------------------------------------------------------------------------
(* What a step of one request leaves alone. *)

\* Where the requests are after one has gone on.
LEMMA Places ==
  ASSUME TypeOK, NEW r \in Requests, NEW next, Goes(r, next)
  PROVE  /\ pc'[r] = next
         /\ \A q \in Requests : q # r => pc'[q] = pc[q]
         /\ \A q \in Requests : Wallet(q)' = Wallet(q)
  BY DEF TypeOK, Goes, Goto, Wallet

\* Another request of this wallet keeps its place.
LEMMA AtKept ==
  ASSUME TypeOK, NEW r \in Requests, NEW next, Goes(r, next), NEW w, NEW S
  PROVE  /\ At(w, S) /\ (pc[r] \notin S \/ Wallet(r) # w) => At(w, S)'
         /\ next \in S /\ Wallet(r) = w => At(w, S)'
  BY Places DEF At

\* What is known of the places of the other requests stays true.
LEMMA PlaceKept ==
  ASSUME Inv, NEW r \in Requests, NEW next, Goes(r, next),
         \A q \in Requests : q # r => found'[q] = found[q],
         \A w \in Wallets : emails[w] # None => emails'[w] # None,
         whitelist \subseteq whitelist', Place(r)'
  PROVE  PlaceInv'
<1>1. SUFFICES ASSUME NEW q \in Requests, q # r PROVE Place(q)'
  BY DEF PlaceInv
<1>2. pc'[q] = pc[q] /\ req'[q] = req[q] /\ found'[q] = found[q]
  BY <1>1, Places DEF Inv, Goes
<1>3. Place(q)
  BY DEF Inv, AccountsInv, PlaceInv
<1> QED
  BY <1>2, <1>3 DEF Place, InFlight, Wallet, Onboards

\* Two requests that write one user were together before.
LEMMA ApartKept ==
  ASSUME Inv, NEW r \in Requests, NEW next, Goes(r, next),
         overlapped' = overlapped
  PROVE  ApartInv'
<1>1. \A q \in Requests : Writing(q)' => Writing(q)
  BY Places DEF Inv, Writing, InFlight, Goes
<1> QED
  BY <1>1, Places DEF Inv, AccountsInv, ApartInv

\* A request that keeps its row, or has just found it, is up to date.
LEMMA FreshKept ==
  ASSUME Inv, NEW r \in Requests, NEW next, Goes(r, next),
         UNCHANGED <<users, overlapped>>,
         \A q \in Requests : q # r => found'[q] = found[q],
         \/ found'[r] = users[Wallet(r)]
         \/ Holding(r) /\ found'[r] = found[r]
         \/ next \in Ends \cup {"find detail", "save detail", "new user"}
  PROVE  FreshInv'
<1>1. \A q \in Requests : q # r => (Holding(q)' <=> Holding(q))
  BY Places DEF Inv, Holding, Writing, InFlight, Goes
<1>2. Holding(r)' =>
        next \notin Ends \cup {"find detail", "save detail", "new user"}
  BY Places DEF Inv, Holding, Writing, InFlight, Awaits, Ends
<1> QED
  BY <1>1, <1>2, Places DEF Inv, AccountsInv, FreshInv

\* Nobody holds a row that is not there yet.
LEMMA InsertFresh ==
  ASSUME Inv, NEW r \in Requests, NEW next, Goes(r, next),
         overlapped' = overlapped,
         \A q \in Requests : q # r => found'[q] = found[q],
         \A w \in Wallets : users'[w] # users[w] =>
           w = Wallet(r) /\ users[w] = NoRow,
         Holding(r)' => found'[r] = users'[Wallet(r)]
  PROVE  FreshInv'
<1>1. SUFFICES ASSUME NEW q \in Requests, q # r, Holding(q)',
                      Wallet(q)' \notin overlapped'
               PROVE  found'[q] = users'[Wallet(q)]
  BY Places DEF FreshInv, Inv
<1>2. Holding(q) /\ Wallet(q)' = Wallet(q)
  BY <1>1, Places DEF Inv, Holding, Writing, InFlight, Goes
<1>3. found[q] = users[Wallet(q)] /\ Wallet(q) \in Wallets
  BY <1>1, <1>2
  DEF Inv, AccountsInv, FreshInv, PlaceInv, Place, Holding, Writing
<1>4. found[q].role # "none"
  BY <1>2 DEF Inv, AccountsInv, PlaceInv, Place, Holding, Writing, InFlight,
              Awaits, TypeOK, Writers, Onboards
<1>5. users[Wallet(q)] # NoRow
  BY <1>3, <1>4 DEF NoRow, NewRow
<1> QED
  BY <1>1, <1>2, <1>3, <1>5

\* Whoever else holds the row that a request writes has met that request.
LEMMA WriteFresh ==
  ASSUME Inv, NEW r \in Requests, NEW next, Goes(r, next), Writing(r),
         overlapped' = overlapped,
         \A q \in Requests : q # r => found'[q] = found[q],
         \A w \in Wallets : w # Wallet(r) => users'[w] = users[w],
         Holding(r)' => found'[r] = users'[Wallet(r)]
  PROVE  FreshInv'
<1>1. SUFFICES ASSUME NEW q \in Requests, q # r, Holding(q)',
                      Wallet(q)' \notin overlapped'
               PROVE  found'[q] = users'[Wallet(q)]
  BY Places DEF FreshInv, Inv
<1>2. Holding(q) /\ Wallet(q)' = Wallet(q)
  BY <1>1, Places DEF Inv, Holding, Writing, InFlight, Goes
<1>3. found[q] = users[Wallet(q)] /\ Wallet(q) \in Wallets
  BY <1>1, <1>2
  DEF Inv, AccountsInv, FreshInv, PlaceInv, Place, Holding, Writing
<1>4. Wallet(q) # Wallet(r)
  BY <1>1, <1>2 DEF Inv, AccountsInv, ApartInv, Holding
<1> QED
  BY <1>1, <1>2, <1>3, <1>4

\* What an organizer implies of its wallet is not lost.
LEMMA OwedKept ==
  ASSUME Inv, NEW r \in Requests, NEW next, Goes(r, next),
         \A w \in Wallets : emails[w] # None => emails'[w] # None,
         half \subseteq half', whitelist \subseteq whitelist',
         broken \subseteq broken' \cup whitelist',
         pc[r] = "new detail" =>
           emails'[Wallet(r)] # None \/ Wallet(r) \in half',
         pc[r] \in {"new detail", "whitelist"} =>
           next = "whitelist" \/ Wallet(r) \in broken' \cup whitelist',
         NEW w \in Wallets
  PROVE  /\ Detailed(w) => Detailed(w)'
         /\ Listed(w) => Listed(w)'
<1>1. At(w, {"new detail"}) /\ (pc[r] # "new detail" \/ Wallet(r) # w)
        => At(w, {"new detail"})'
  BY AtKept DEF Inv
<1>2. Detailed(w) => Detailed(w)'
  BY <1>1 DEF Detailed
<1>3. At(w, {"new detail", "whitelist"})
      /\ (pc[r] \notin {"new detail", "whitelist"} \/ Wallet(r) # w)
        => At(w, {"new detail", "whitelist"})'
  BY AtKept DEF Inv
<1>4. next = "whitelist" /\ Wallet(r) = w =>
        At(w, {"new detail", "whitelist"})'
  BY AtKept DEF Inv
<1>5. Listed(w) => Listed(w)'
  BY <1>3, <1>4 DEF Listed
<1> QED
  BY <1>2, <1>5

\* So users, requests and sessions that are not changed keep what they imply.
LEMMA OrganizerKept ==
  ASSUME Inv, NEW r \in Requests, NEW next, Goes(r, next),
         \A w \in Wallets : /\ Detailed(w) => Detailed(w)'
                            /\ Listed(w) => Listed(w)',
         \A w \in Wallets : users'[w].role = "organizer" =>
           users[w].role = "organizer" \/ (Detailed(w)' /\ Listed(w)'),
         \A q \in Requests : q # r => found'[q] = found[q],
         Place(r),
         InFlight(r)' /\ found'[r].role = "organizer" =>
           \A w \in Wallets : w = Wallet(r) => Detailed(w)' /\ Listed(w)',
         \A w \in Wallets : session'[w] = "organizer" =>
           session[w] = "organizer" \/ Listed(w)'
  PROVE  OrganizerInv'
<1>1. \A w \in Wallets :
        users'[w].role = "organizer" => Detailed(w)' /\ Listed(w)'
  BY DEF Inv, AccountsInv, OrganizerInv
<1>2. \A w \in Wallets : session'[w] = "organizer" => Listed(w)'
  BY DEF Inv, AccountsInv, OrganizerInv
<1>3. ASSUME NEW q \in Requests, InFlight(q)', found'[q].role = "organizer"
      PROVE  (Detailed(Wallet(q)) /\ Listed(Wallet(q)))'
  <2>1. CASE q = r
    <3>1. Wallet(r)' = Wallet(r) /\ Wallet(r) \in Wallets
      BY Places DEF Goes, Place, Inv
    <3>2. DEFINE w == Wallet(r)
    <3>3. Detailed(w)' /\ Listed(w)'
      BY <1>3, <2>1, <3>1
    <3> QED
      BY <2>1, <3>1, <3>3
  <2>2. CASE q # r
    <3>1. InFlight(q) /\ found[q].role = "organizer" /\ Wallet(q)' = Wallet(q)
      BY <1>3, <2>2, Places DEF Inv, InFlight
    <3>2. Wallet(q) \in Wallets
      BY <3>1 DEF Inv, AccountsInv, PlaceInv, Place
    <3>3. Detailed(Wallet(q)) /\ Listed(Wallet(q))
      BY <3>1 DEF Inv, AccountsInv, OrganizerInv
    <3>4. DEFINE w == Wallet(q)
    <3>5. Detailed(w)' /\ Listed(w)'
      BY <3>1, <3>2, <3>3
    <3> QED
      BY <3>1, <3>5
  <2> QED
    BY <2>1, <2>2
<1> QED
  BY <1>1, <1>2, <1>3 DEF OrganizerInv

\* A row of organizer_details is an organizer's, or is about to be.
LEMMA RoleKept ==
  ASSUME Inv, NEW r \in Requests, NEW next, Goes(r, next),
         overlapped' = overlapped,
         pc[r] = "role" =>
           Wallet(r) \in broken' \/ users'[Wallet(r)].role = "organizer",
         \A w \in Wallets : users[w].role = "organizer" =>
           users'[w].role = "organizer" \/ w \in overlapped,
         \A w \in broken :
           w \in broken' \cup overlapped \/ users'[w].role = "organizer",
         \A w \in Wallets : emails'[w] # None =>
           \/ emails[w] # None
           \/ users[w].role = "organizer" \/ w \in overlapped
           \/ w = Wallet(r) /\ next = "role"
  PROVE  RoleInv'
<1>1. SUFFICES ASSUME NEW w \in Wallets, emails'[w] # None
               PROVE  \/ users'[w].role = "organizer"
                      \/ w \in broken' \cup overlapped'
                      \/ At(w, {"role"})'
  BY DEF RoleInv
<1>2. At(w, {"role"}) /\ (pc[r] # "role" \/ Wallet(r) # w) => At(w, {"role"})'
  BY AtKept DEF Inv
<1>3. next = "role" /\ Wallet(r) = w => At(w, {"role"})'
  BY AtKept DEF Inv
<1>4. emails[w] # None =>
        \/ users[w].role = "organizer"
        \/ w \in broken \cup overlapped
        \/ At(w, {"role"})
  BY DEF Inv, AccountsInv, RoleInv
<1> QED
  BY <1>1, <1>2, <1>3, <1>4

-------------------------------------------------------------------------------
(* One lemma for each step of a request. *)

\* The row there is, found at the first await.
LEMMA FindUserKeeps ==
  ASSUME Inv, NEW r \in Requests, FindUser(r) PROVE Inv'
<1> DEFINE next == AfterFind(req[r].kind, users[Wallet(r)].role)
<1>1. /\ pc[r] = "find" /\ Goes(r, next) /\ Place(r)
      /\ UNCHANGED <<users, emails, info, whitelist, session, faults, wrote,
                     broken, half, overlapped>>
      /\ found' = [found EXCEPT ![r] = users[Wallet(r)]]
  BY DEF FindUser, Goes, InFlight, Awaits, details, ghosts, Inv, AccountsInv,
         PlaceInv
<1>2. Wallet(r) \in Wallets /\ req[r].kind \in Kinds
  BY <1>1 DEF Place, Goes
<1>3. users[Wallet(r)] \in UserRows /\ users[Wallet(r)].role \in Roles
  BY <1>2 DEF Inv, TypeOK, UserRows
<1>4. /\ found'[r] = users[Wallet(r)]
      /\ \A q \in Requests : q # r => found'[q] = found[q]
  BY <1>1 DEF Inv, TypeOK
<1>5. \/ next = "sign up" /\ req[r].kind = "sign in"
      \/ next = "answer" /\ req[r].kind = "sign in"
      \/ next = "new user" /\ Onboards(r) /\ users[Wallet(r)].role = "none"
      \/ next = "detail" /\ Onboards(r) /\ users[Wallet(r)].role = "user"
      \/ /\ next = "whitelist" /\ Onboards(r)
         /\ users[Wallet(r)].role = "organizer"
      \/ next = "refused"
      \/ /\ next = "save profile" /\ users[Wallet(r)].role # "none"
         /\ req[r].kind \in {"profile", "organizer profile"}
  BY <1>2, <1>3 DEF AfterFind, Kinds, Roles, Onboards
<1>6. /\ pc' = [pc EXCEPT ![r] = next] /\ pc'[r] = next
      /\ req' = req
  BY <1>1, Places DEF Inv, Goes, Goto
<1> HIDE DEF next
<1>7. next \in Awaits \cup Ends
  BY <1>5 DEF Awaits, Ends
<1>8. TypeOK'
  BY <1>1, <1>3, <1>4, <1>5, <1>6, <1>7 DEF Inv, TypeOK
<1>9. Place(r)'
  BY <1>1, <1>2, <1>4, <1>5, <1>6 DEF Place, Onboards, InFlight, Wallet, Goes
<1>10. PlaceInv' /\ ApartInv'
  BY <1>1, <1>4, <1>9, PlaceKept, ApartKept
<1>11. FreshInv'
  BY <1>1, <1>4, FreshKept
<1>12. \A w \in Wallets : /\ Detailed(w) => Detailed(w)'
                          /\ Listed(w) => Listed(w)'
  BY <1>1, OwedKept
<1>13. users[Wallet(r)].role = "organizer" =>
         Detailed(Wallet(r)) /\ Listed(Wallet(r))
  BY <1>2 DEF Inv, AccountsInv, OrganizerInv
<1>14. OrganizerInv'
  BY <1>1, <1>2, <1>4, <1>12, <1>13, OrganizerKept
<1>15. RoleInv'
  BY <1>1, RoleKept
<1>16. ProfileKept'
  BY <1>1 DEF Inv, AccountsInv, ProfileKept
<1> QED
  BY <1>8, <1>10, <1>11, <1>14, <1>15, <1>16 DEF Inv, AccountsInv

\* A wallet that signs in for the first time.
LEMMA SignUpKeeps ==
  ASSUME Inv, NEW r \in Requests, SignUp(r) PROVE Inv'
<1> DEFINE next == IF users[Wallet(r)] # NoRow THEN "failed" ELSE "answer"
<1>1. /\ pc[r] = "sign up" /\ Goes(r, next) /\ Place(r)
      /\ UNCHANGED <<emails, info, whitelist, session, faults, wrote, broken,
                     half, overlapped>>
  BY DEF SignUp, InsertUser, Goes, InFlight, Awaits, details, ghosts, Inv,
         AccountsInv, PlaceInv
<1>2. Wallet(r) \in Wallets /\ req[r].kind = "sign in"
  BY <1>1 DEF Place, Goes
<1>3. \/ next = "failed" /\ UNCHANGED <<users, found>>
      \/ /\ next = "answer" /\ users[Wallet(r)] = NoRow
         /\ users' = [users EXCEPT ![Wallet(r)] = NewRow("user")]
         /\ found' = [found EXCEPT ![r] = NewRow("user")]
  BY DEF SignUp, InsertUser
<1> HIDE DEF next
<1>4. /\ pc' = [pc EXCEPT ![r] = next] /\ pc'[r] = next
      /\ req' = req
      /\ \A q \in Requests : q # r => found'[q] = found[q]
      /\ \A w \in Wallets : w # Wallet(r) => users'[w] = users[w]
  BY <1>1, <1>3, Places DEF Inv, TypeOK, Goes, Goto
<1>5. /\ NewRow("user") \in UserRows /\ NewRow("user").role = "user"
      /\ NewRow("user").name = NoRow.name /\ NewRow("user").photo = NoRow.photo
      /\ NoRow.role = "none"
  BY DEF NewRow, NoRow, UserRows, Roles
<1>6. TypeOK'
  BY <1>1, <1>3, <1>4, <1>5 DEF Inv, TypeOK, Awaits, Ends
<1>7. Place(r)'
  BY <1>1, <1>2, <1>3, <1>4 DEF Place, Onboards, InFlight, Wallet, Goes
<1>8. PlaceInv' /\ ApartInv'
  BY <1>1, <1>4, <1>7, PlaceKept, ApartKept
<1>9. ~Holding(r)'
  BY <1>2, <1>4 DEF Holding, Writing, Writers
<1>10. FreshInv'
  BY <1>1, <1>3, <1>4, <1>9, InsertFresh
<1>11. \A w \in Wallets : /\ Detailed(w) => Detailed(w)'
                          /\ Listed(w) => Listed(w)'
  BY <1>1, OwedKept
<1>12. /\ users'[Wallet(r)].role = "organizer" <=>
            users[Wallet(r)].role = "organizer"
       /\ found'[r].role = "organizer" => found[r].role = "organizer"
  <2>1. CASE next = "failed"
    BY <1>3, <2>1
  <2>2. CASE next = "answer"
    <3>1. users'[Wallet(r)] = NewRow("user") /\ found'[r] = NewRow("user")
      BY <1>2, <1>3, <2>2 DEF Inv, TypeOK
    <3> QED
      BY <1>3, <1>5, <2>2, <3>1
  <2> QED
    BY <1>3, <2>1, <2>2
<1>13. found[r].role = "organizer" => Detailed(Wallet(r)) /\ Listed(Wallet(r))
  BY <1>1 DEF Inv, AccountsInv, OrganizerInv, Goes
<1>14. OrganizerInv'
  BY <1>1, <1>4, <1>11, <1>12, <1>13, OrganizerKept
<1>15. RoleInv'
  BY <1>1, <1>4, <1>12, RoleKept
<1>16. /\ users'[Wallet(r)].name = users[Wallet(r)].name
       /\ users'[Wallet(r)].photo = users[Wallet(r)].photo
  BY <1>2, <1>3, <1>5 DEF Inv, TypeOK
<1>17. ProfileKept'
  BY <1>1, <1>4, <1>16 DEF Inv, AccountsInv, ProfileKept
<1> QED
  BY <1>6, <1>8, <1>10, <1>14, <1>15, <1>17 DEF Inv, AccountsInv

\* The tokens are handed out.
LEMMA AnswerKeeps ==
  ASSUME Inv, NEW r \in Requests, Answer(r) PROVE Inv'
<1>1. /\ pc[r] = "answer" /\ Goes(r, "answered") /\ Place(r)
      /\ UNCHANGED <<found, users, emails, info, whitelist, faults, wrote, half,
                     overlapped>>
      /\ session' = Issued(r)
      /\ broken' = IF Onboards(r) THEN broken \ {Wallet(r)} ELSE broken
  BY DEF Answer, Goes, InFlight, Awaits, details, Inv, AccountsInv, PlaceInv,
         Onboards
<1>2. /\ Wallet(r) \in Wallets
      /\ Onboards(r) => found[r].role = "organizer" /\ Wallet(r) \in whitelist
  BY <1>1 DEF Place, Goes
<1>3. /\ pc' = [pc EXCEPT ![r] = "answered"] /\ pc'[r] = "answered"
      /\ req' = req
  BY <1>1, Places DEF Inv, Goes, Goto
<1>4. /\ \A w \in Wallets : w # Wallet(r) => session'[w] = session[w]
      /\ session'[Wallet(r)] = "organizer" => found[r].role = "organizer"
      /\ session' \in [Wallets -> Roles]
  BY <1>1, <1>2 DEF Inv, TypeOK, Issued, UserRows, Roles, Onboards
<1>5. TypeOK'
  BY <1>1, <1>3, <1>4 DEF Inv, TypeOK, Awaits, Ends
<1>6. ~InFlight(r)'
  BY <1>3 DEF InFlight, Awaits
<1>7. PlaceInv' /\ ApartInv' /\ FreshInv'
  BY <1>1, <1>6, PlaceKept, ApartKept, FreshKept DEF Place, Ends
<1>8. broken \subseteq broken' \cup whitelist
  BY <1>1, <1>2
<1>9. \A w \in Wallets : /\ Detailed(w) => Detailed(w)'
                         /\ Listed(w) => Listed(w)'
  BY <1>1, <1>8, OwedKept
<1>10. found[r].role = "organizer" => Detailed(Wallet(r)) /\ Listed(Wallet(r))
  BY <1>1 DEF Inv, AccountsInv, OrganizerInv, Goes
<1>11. \A w \in Wallets : session'[w] = "organizer" =>
         session[w] = "organizer" \/ Listed(w)'
  BY <1>2, <1>4, <1>9, <1>10
<1>12. OrganizerInv'
  BY <1>1, <1>6, <1>9, <1>11, OrganizerKept
<1>13. Onboards(r) =>
         users[Wallet(r)].role = "organizer" \/ Wallet(r) \in overlapped
  BY <1>1, <1>2
  DEF Inv, AccountsInv, FreshInv, Holding, Writing, Writers, Kinds, Onboards,
      Goes
<1>14. RoleInv'
  BY <1>1, <1>13, RoleKept
<1>15. ProfileKept'
  BY <1>1 DEF Inv, AccountsInv, ProfileKept
<1> QED
  BY <1>5, <1>7, <1>12, <1>14, <1>15 DEF Inv, AccountsInv

\* A new wallet is inserted as an organizer; its details come next.
LEMMA SaveNewUserKeeps ==
  ASSUME Inv, NEW r \in Requests, SaveNewUser(r) PROVE Inv'
<1> DEFINE next == IF users[Wallet(r)] # NoRow THEN "failed" ELSE "new detail"
<1>1. /\ pc[r] = "new user" /\ Goes(r, next) /\ Place(r)
      /\ UNCHANGED <<emails, info, whitelist, session, faults, wrote, broken,
                     half, overlapped>>
  BY DEF SaveNewUser, InsertUser, Goes, InFlight, Awaits, details, ghosts, Inv,
         AccountsInv, PlaceInv
<1>2. Wallet(r) \in Wallets /\ Onboards(r)
  BY <1>1 DEF Place, Goes
<1>3. \/ next = "failed" /\ UNCHANGED <<users, found>>
      \/ /\ next = "new detail" /\ users[Wallet(r)] = NoRow
         /\ users' = [users EXCEPT ![Wallet(r)] = NewRow("organizer")]
         /\ found' = [found EXCEPT ![r] = NewRow("organizer")]
  BY DEF SaveNewUser, InsertUser
<1> HIDE DEF next
<1>4. /\ pc' = [pc EXCEPT ![r] = next] /\ pc'[r] = next
      /\ req' = req
      /\ Wallet(r)' = Wallet(r)
      /\ \A q \in Requests : q # r => found'[q] = found[q]
      /\ \A w \in Wallets : w # Wallet(r) => users'[w] = users[w]
  BY <1>1, <1>3, Places DEF Inv, TypeOK, Goes, Goto
<1>5. /\ NewRow("organizer") \in UserRows
      /\ NewRow("organizer").role = "organizer"
      /\ NewRow("organizer").name = NoRow.name
      /\ NewRow("organizer").photo = NoRow.photo
      /\ NoRow.role = "none"
  BY DEF NewRow, NoRow, UserRows, Roles
<1>6. next = "new detail" =>
        /\ users'[Wallet(r)] = NewRow("organizer")
        /\ found'[r] = NewRow("organizer")
  BY <1>2, <1>3 DEF Inv, TypeOK
<1>7. TypeOK'
  BY <1>1, <1>3, <1>4, <1>5 DEF Inv, TypeOK, Awaits, Ends
<1>8. Place(r)'
  BY <1>1, <1>2, <1>3, <1>4, <1>5, <1>6
  DEF Place, Onboards, InFlight, Wallet, Goes, Awaits
<1>9. PlaceInv' /\ ApartInv'
  BY <1>1, <1>4, <1>8, PlaceKept, ApartKept
<1>10. FreshInv'
  <2>1. Holding(r)' => found'[r] = users'[Wallet(r)]
    BY <1>3, <1>4, <1>6 DEF Holding, Writing, InFlight, Awaits
  <2> QED
    BY <1>1, <1>3, <1>4, <2>1, InsertFresh
<1>11. \A w \in Wallets : /\ Detailed(w) => Detailed(w)'
                          /\ Listed(w) => Listed(w)'
  BY <1>1, OwedKept
<1>12. next = "new detail" =>
         \A w \in Wallets : w = Wallet(r) => Detailed(w)' /\ Listed(w)'
  <2>1. ASSUME next = "new detail", NEW w \in Wallets, w = Wallet(r)
        PROVE  At(w, {"new detail"})' /\ At(w, {"new detail", "whitelist"})'
    BY <1>1, <2>1, AtKept DEF Inv
  <2> QED
    BY <2>1 DEF Detailed, Listed
<1>13. OrganizerInv'
  <2>1. CASE next = "failed"
    <3>1. ~InFlight(r)'
      BY <1>4, <2>1 DEF InFlight, Awaits
    <3> QED
      BY <1>1, <1>3, <1>4, <1>11, <2>1, <3>1, OrganizerKept
  <2>2. CASE next = "new detail"
    BY <1>1, <1>4, <1>11, <1>12, <2>2, OrganizerKept
  <2> QED
    BY <1>3, <2>1, <2>2
<1>14. RoleInv'
  BY <1>1, <1>3, <1>4, <1>5, <1>6, RoleKept
<1>15. /\ users'[Wallet(r)].name = users[Wallet(r)].name
       /\ users'[Wallet(r)].photo = users[Wallet(r)].photo
  BY <1>2, <1>3, <1>5 DEF Inv, TypeOK
<1>16. ProfileKept'
  BY <1>1, <1>4, <1>15 DEF Inv, AccountsInv, ProfileKept
<1> QED
  BY <1>7, <1>9, <1>10, <1>13, <1>14, <1>16 DEF Inv, AccountsInv

\* The details of a new wallet; a rejected insert leaves it half.
LEMMA SaveNewDetailKeeps ==
  ASSUME Inv, NEW r \in Requests, SaveNewDetail(r) PROVE Inv'
<1>1. /\ pc[r] = "new detail" /\ Place(r) /\ InFlight(r)
      /\ UNCHANGED <<req, found, users, info, whitelist, session, faults, wrote,
                     overlapped>>
  BY DEF SaveNewDetail, InsertDetail, BreakOff, InFlight, Awaits, ghosts, Inv,
         AccountsInv, PlaceInv
<1>2. /\ Wallet(r) \in Wallets /\ Onboards(r) /\ req[r].email \in Emails
      /\ found[r].role = "organizer"
  BY <1>1 DEF Place
<1>3. PICK next \in {"failed", "whitelist"} :
        /\ Goes(r, next)
        /\ next = "failed" =>
             /\ emails' = emails
             /\ broken' = broken \cup {Wallet(r)}
             /\ half' = half \cup {Wallet(r)}
        /\ next = "whitelist" =>
             /\ emails' = [emails EXCEPT ![Wallet(r)] = req[r].email]
             /\ UNCHANGED <<broken, half>>
  BY <1>1 DEF SaveNewDetail, InsertDetail, BreakOff, Goes, ghosts
<1>4. /\ pc' = [pc EXCEPT ![r] = next] /\ pc'[r] = next
      /\ Wallet(r)' = Wallet(r)
      /\ \A w \in Wallets : w # Wallet(r) => emails'[w] = emails[w]
      /\ next = "whitelist" => emails'[Wallet(r)] # None
  BY <1>2, <1>3, Places, AccountsAssumption DEF Inv, TypeOK, Goes, Goto
<1>5. TypeOK'
  BY <1>1, <1>2, <1>3, <1>4 DEF Inv, TypeOK, Awaits, Ends
<1>6. Place(r)'
  BY <1>1, <1>2, <1>3, <1>4 DEF Place, Onboards, InFlight, Wallet, Awaits
<1>7. \A w \in Wallets : emails[w] # None => emails'[w] # None
  BY <1>3, <1>4
<1>8. PlaceInv' /\ ApartInv'
  BY <1>1, <1>3, <1>6, <1>7, PlaceKept, ApartKept
<1>9. FreshInv'
  BY <1>1, <1>2, <1>3, FreshKept DEF Holding, Writing, Writers, Kinds, Onboards
<1>10. \A w \in Wallets : /\ Detailed(w) => Detailed(w)'
                          /\ Listed(w) => Listed(w)'
  BY <1>1, <1>3, <1>4, <1>7, OwedKept
<1>11. Detailed(Wallet(r)) /\ Listed(Wallet(r))
  BY <1>1, <1>2 DEF Inv, AccountsInv, OrganizerInv
<1>12. OrganizerInv'
  BY <1>1, <1>3, <1>10, <1>11, OrganizerKept
<1>13. users[Wallet(r)].role = "organizer" \/ Wallet(r) \in overlapped
  BY <1>1, <1>2
  DEF Inv, AccountsInv, FreshInv, Holding, Writing, Writers, Kinds, Onboards
<1>14. RoleInv'
  BY <1>1, <1>3, <1>4, <1>13, RoleKept
<1>15. ProfileKept'
  BY <1>1 DEF Inv, AccountsInv, ProfileKept
<1> QED
  BY <1>5, <1>8, <1>9, <1>12, <1>14, <1>15 DEF Inv, AccountsInv

\* The details of a user, before the role.
LEMMA SaveDetailKeeps ==
  ASSUME Inv, NEW r \in Requests, SaveDetail(r) PROVE Inv'
<1>1. /\ pc[r] = "detail" /\ Place(r) /\ InFlight(r)
      /\ UNCHANGED <<req, found, users, info, whitelist, session, faults, wrote,
                     broken, half, overlapped>>
  BY DEF SaveDetail, InsertDetail, BreakOff, InFlight, Awaits, ghosts, Inv,
         AccountsInv, PlaceInv
<1>2. /\ Wallet(r) \in Wallets /\ Onboards(r) /\ req[r].email \in Emails
      /\ found[r].role = "user"
  BY <1>1 DEF Place, Inv, TypeOK
<1>3. PICK next \in {"failed", "role"} :
        /\ Goes(r, next)
        /\ next = "failed" => emails' = emails
        /\ next = "role" =>
             emails' = [emails EXCEPT ![Wallet(r)] = req[r].email]
  BY <1>1 DEF SaveDetail, InsertDetail, Goes
<1>4. /\ pc' = [pc EXCEPT ![r] = next] /\ pc'[r] = next
      /\ Wallet(r)' = Wallet(r)
      /\ \A w \in Wallets : w # Wallet(r) => emails'[w] = emails[w]
      /\ next = "role" => emails'[Wallet(r)] # None
  BY <1>2, <1>3, Places, AccountsAssumption DEF Inv, TypeOK, Goes, Goto
<1>5. TypeOK'
  BY <1>1, <1>2, <1>3, <1>4 DEF Inv, TypeOK, Awaits, Ends
<1>6. Place(r)'
  BY <1>1, <1>2, <1>3, <1>4 DEF Place, Onboards, InFlight, Wallet, Awaits
<1>7. \A w \in Wallets : emails[w] # None => emails'[w] # None
  BY <1>3, <1>4
<1>8. PlaceInv' /\ ApartInv'
  BY <1>1, <1>3, <1>6, <1>7, PlaceKept, ApartKept
<1>9. FreshInv'
  BY <1>1, <1>2, <1>3, FreshKept DEF Holding, Writing, Writers, Kinds, Onboards
<1>10. \A w \in Wallets : /\ Detailed(w) => Detailed(w)'
                          /\ Listed(w) => Listed(w)'
  BY <1>1, <1>3, <1>7, OwedKept
<1>11. OrganizerInv'
  BY <1>1, <1>2, <1>3, <1>10, OrganizerKept
<1>12. RoleInv'
  BY <1>1, <1>3, <1>4, RoleKept
<1>13. ProfileKept'
  BY <1>1 DEF Inv, AccountsInv, ProfileKept
<1> QED
  BY <1>5, <1>8, <1>9, <1>11, <1>12, <1>13 DEF Inv, AccountsInv

\* The role of a user whose details are there; the whitelist comes next.
LEMMA SaveRoleKeeps ==
  ASSUME Inv, NEW r \in Requests, SaveRole(r) PROVE Inv'
<1> DEFINE row == [role |-> "organizer", name |-> found[r].name,
                   photo |-> found[r].photo]
<1>1. /\ pc[r] = "role" /\ Goes(r, "whitelist") /\ Place(r)
      /\ UNCHANGED <<emails, info, whitelist, session, faults, wrote, broken,
                     half, overlapped>>
      /\ users' = [users EXCEPT ![Wallet(r)] = row]
      /\ found' = [found EXCEPT ![r] = row]
  BY DEF SaveRole, Goes, InFlight, Awaits, details, ghosts, Inv, AccountsInv,
         PlaceInv
<1>2. /\ Wallet(r) \in Wallets /\ Onboards(r) /\ emails[Wallet(r)] # None
      /\ Writing(r)
  BY <1>1 DEF Place, Goes, Writing, Writers, Kinds, Onboards
<1>3. /\ row \in UserRows /\ row.role = "organizer"
      /\ row.name = found[r].name /\ row.photo = found[r].photo
  BY DEF UserRows, Roles, Inv, TypeOK
<1> HIDE DEF row
<1>4. /\ pc' = [pc EXCEPT ![r] = "whitelist"] /\ pc'[r] = "whitelist"
      /\ req' = req
      /\ Wallet(r)' = Wallet(r)
      /\ users'[Wallet(r)] = row /\ found'[r] = row
      /\ \A q \in Requests : q # r => found'[q] = found[q]
      /\ \A w \in Wallets : w # Wallet(r) => users'[w] = users[w]
  BY <1>1, <1>2, Places DEF Inv, TypeOK, Goes, Goto
<1>5. TypeOK'
  BY <1>1, <1>3, <1>4 DEF Inv, TypeOK, Awaits, Ends
<1>6. Place(r)'
  BY <1>1, <1>2, <1>3, <1>4 DEF Place, Onboards, InFlight, Wallet, Goes, Awaits
<1>7. PlaceInv' /\ ApartInv' /\ FreshInv'
  BY <1>1, <1>2, <1>4, <1>6, PlaceKept, ApartKept, WriteFresh
<1>8. \A w \in Wallets : /\ Detailed(w) => Detailed(w)'
                         /\ Listed(w) => Listed(w)'
  BY <1>1, OwedKept
<1>9. \A w \in Wallets : w = Wallet(r) => Detailed(w)' /\ Listed(w)'
  <2>1. ASSUME NEW w \in Wallets, w = Wallet(r)
        PROVE  At(w, {"new detail", "whitelist"})'
    BY <1>1, <2>1, AtKept DEF Inv
  <2> QED
    BY <1>1, <1>2, <2>1 DEF Detailed, Listed
<1>10. OrganizerInv'
  BY <1>1, <1>4, <1>8, <1>9, OrganizerKept
<1>11. RoleInv'
  BY <1>1, <1>3, <1>4, RoleKept
<1>12. Wallet(r) \notin overlapped => found[r] = users[Wallet(r)]
  BY <1>1, <1>2 DEF Inv, AccountsInv, FreshInv, Holding
<1>13. ProfileKept'
  BY <1>1, <1>3, <1>4, <1>12 DEF Inv, AccountsInv, ProfileKept
<1> QED
  BY <1>5, <1>7, <1>10, <1>11, <1>13 DEF Inv, AccountsInv

\* The contract knows the organizer.
LEMMA WhitelistKeeps ==
  ASSUME Inv, NEW r \in Requests, Whitelist(r) PROVE Inv'
<1>1. /\ pc[r] = "whitelist" /\ Goes(r, "answer") /\ Place(r)
      /\ UNCHANGED <<found, users, emails, info, session, faults, wrote, broken,
                     half, overlapped>>
      /\ whitelist' = whitelist \cup {Wallet(r)}
  BY DEF Whitelist, Goes, InFlight, Awaits, details, ghosts, Inv, AccountsInv,
         PlaceInv
<1>2. /\ Wallet(r) \in Wallets /\ Onboards(r) /\ found[r].role = "organizer"
      /\ Writing(r)
  BY <1>1 DEF Place, Goes, Writing, Writers, Kinds, Onboards
<1>3. /\ pc' = [pc EXCEPT ![r] = "answer"] /\ pc'[r] = "answer"
      /\ req' = req
      /\ Wallet(r)' = Wallet(r)
  BY <1>1, Places DEF Inv, Goes, Goto
<1>4. TypeOK'
  BY <1>1, <1>2, <1>3 DEF Inv, TypeOK, Awaits, Ends
<1>5. Place(r)'
  BY <1>1, <1>2, <1>3 DEF Place, Onboards, InFlight, Wallet, Goes, Awaits
<1>6. PlaceInv' /\ ApartInv' /\ FreshInv'
  BY <1>1, <1>2, <1>5, PlaceKept, ApartKept, FreshKept DEF Holding
<1>7. \A w \in Wallets : /\ Detailed(w) => Detailed(w)'
                         /\ Listed(w) => Listed(w)'
  BY <1>1, OwedKept
<1>8. Detailed(Wallet(r)) /\ Listed(Wallet(r))
  BY <1>1, <1>2 DEF Inv, AccountsInv, OrganizerInv, Goes
<1>9. OrganizerInv'
  BY <1>1, <1>7, <1>8, OrganizerKept
<1>10. RoleInv'
  BY <1>1, RoleKept
<1>11. ProfileKept'
  BY <1>1 DEF Inv, AccountsInv, ProfileKept
<1> QED
  BY <1>4, <1>6, <1>9, <1>10, <1>11 DEF Inv, AccountsInv

\* A profile is written over the row that was found.
LEMMA SaveProfileKeeps ==
  ASSUME Inv, NEW r \in Requests, SaveProfile(r) PROVE Inv'
<1> DEFINE next == IF req[r].kind = "profile" THEN "answered" ELSE "find detail"
           row == Edited(r, found[r])
<1>1. /\ pc[r] = "save profile" /\ Goes(r, next) /\ Place(r)
      /\ UNCHANGED <<found, emails, info, whitelist, session, faults, broken,
                     half, overlapped>>
      /\ users' = [users EXCEPT ![Wallet(r)] = row]
      /\ wrote' = [wrote EXCEPT ![Wallet(r)] =
           [f \in Fields |-> IF f \in req[r].fields THEN r ELSE @[f]]]
  BY DEF SaveProfile, Goes, InFlight, Awaits, details, Inv, AccountsInv,
         PlaceInv
<1>2. /\ Wallet(r) \in Wallets /\ Writing(r)
      /\ req[r].kind \in {"profile", "organizer profile"}
      /\ next \in {"answered", "find detail"}
  BY <1>1 DEF Place, Goes, Writing, Writers, Kinds
<1>3. /\ row \in UserRows /\ row.role = found[r].role
      /\ row.name = IF "name" \in req[r].fields THEN r ELSE found[r].name
      /\ row.photo = IF "photo" \in req[r].fields THEN r ELSE found[r].photo
      /\ found[r].role # "none"
  BY <1>1 DEF Edited, UserRows, Inv, TypeOK
<1> HIDE DEF row, next
<1>4. /\ pc' = [pc EXCEPT ![r] = next] /\ pc'[r] = next
      /\ req' = req
      /\ Wallet(r)' = Wallet(r)
      /\ users'[Wallet(r)] = row
      /\ \A w \in Wallets : w # Wallet(r) => users'[w] = users[w]
  BY <1>1, <1>2, Places DEF Inv, TypeOK, Goes, Goto
<1>5. /\ wrote' \in [Wallets -> [Fields -> Requests \cup {None}]]
      /\ \A w \in Wallets : w # Wallet(r) => wrote'[w] = wrote[w]
      /\ \A f \in Fields : wrote'[Wallet(r)][f] =
           IF f \in req[r].fields THEN r ELSE wrote[Wallet(r)][f]
  BY <1>1, <1>2 DEF Inv, TypeOK
<1>6. TypeOK'
  BY <1>1, <1>2, <1>3, <1>4, <1>5 DEF Inv, TypeOK, Awaits, Ends
<1>7. Place(r)'
  BY <1>1, <1>2, <1>4 DEF Place, Onboards, InFlight, Wallet, Goes
<1>8. ~Holding(r)'
  BY <1>2, <1>4 DEF Holding, Writing, InFlight, Awaits
<1>9. PlaceInv' /\ ApartInv' /\ FreshInv'
  BY <1>1, <1>2, <1>4, <1>7, <1>8, PlaceKept, ApartKept, WriteFresh
<1>10. \A w \in Wallets : /\ Detailed(w) => Detailed(w)'
                          /\ Listed(w) => Listed(w)'
  BY <1>1, OwedKept
<1>11. found[r].role = "organizer" =>
         Detailed(Wallet(r)) /\ Listed(Wallet(r))
  BY <1>1 DEF Inv, AccountsInv, OrganizerInv, Goes
<1>12. OrganizerInv'
  BY <1>1, <1>2, <1>3, <1>4, <1>10, <1>11, OrganizerKept
<1>13. Wallet(r) \notin overlapped => found[r] = users[Wallet(r)]
  BY <1>1, <1>2 DEF Inv, AccountsInv, FreshInv, Holding
<1>14. RoleInv'
  BY <1>1, <1>3, <1>4, <1>13, RoleKept
<1>15. ProfileKept'
  <2>1. \A w \in Wallets \ overlapped :
          users[w].name = wrote[w]["name"] /\ users[w].photo = wrote[w]["photo"]
    BY DEF Inv, AccountsInv, ProfileKept
  <2>2. ASSUME NEW w \in Wallets \ overlapped, w = Wallet(r)
        PROVE  /\ users'[w].name = wrote'[w]["name"]
               /\ users'[w].photo = wrote'[w]["photo"]
    BY <1>3, <1>4, <1>5, <1>13, <2>1, <2>2 DEF Fields
  <2> QED
    BY <1>1, <1>4, <1>5, <2>1, <2>2 DEF ProfileKept
<1> QED
  BY <1>6, <1>9, <1>12, <1>14, <1>15 DEF Inv, AccountsInv

\* An organizer's details are looked up.
LEMMA FindDetailKeeps ==
  ASSUME Inv, NEW r \in Requests, FindDetail(r) PROVE Inv'
<1> DEFINE next == IF emails[Wallet(r)] = None THEN "refused" ELSE "save detail"
<1>1. /\ pc[r] = "find detail" /\ Goes(r, next) /\ Place(r)
      /\ UNCHANGED <<found, users, emails, info, whitelist, session, faults,
                     wrote, broken, half, overlapped>>
      /\ next \in {"refused", "save detail"}
  BY DEF FindDetail, Goes, InFlight, Awaits, details, ghosts, Inv, AccountsInv,
         PlaceInv
<1> HIDE DEF next
<1>2. Wallet(r) \in Wallets
  BY <1>1 DEF Place, Goes
<1>3. /\ pc' = [pc EXCEPT ![r] = next] /\ pc'[r] = next
      /\ req' = req
  BY <1>1, Places DEF Inv, Goes, Goto
<1>4. TypeOK'
  BY <1>1, <1>3 DEF Inv, TypeOK, Awaits, Ends
<1>5. Place(r)'
  BY <1>1, <1>3 DEF Place, Onboards, InFlight, Wallet, Goes
<1>6. PlaceInv' /\ ApartInv' /\ FreshInv'
  BY <1>1, <1>5, PlaceKept, ApartKept, FreshKept DEF Ends
<1>7. \A w \in Wallets : /\ Detailed(w) => Detailed(w)'
                         /\ Listed(w) => Listed(w)'
  BY <1>1, OwedKept
<1>8. found[r].role = "organizer" =>
        Detailed(Wallet(r)) /\ Listed(Wallet(r))
  BY <1>1 DEF Inv, AccountsInv, OrganizerInv, Goes
<1>9. OrganizerInv'
  BY <1>1, <1>7, <1>8, OrganizerKept
<1>10. RoleInv'
  BY <1>1, RoleKept
<1>11. ProfileKept'
  BY <1>1 DEF Inv, AccountsInv, ProfileKept
<1> QED
  BY <1>4, <1>6, <1>9, <1>10, <1>11 DEF Inv, AccountsInv

\* Nothing but the information is written.
LEMMA SaveInformationKeeps ==
  ASSUME Inv, NEW r \in Requests, SaveInformation(r) PROVE Inv'
<1>1. /\ pc[r] = "save detail" /\ Goes(r, "answered") /\ Place(r)
      /\ UNCHANGED <<found, users, emails, whitelist, session, faults, wrote,
                     broken, half, overlapped>>
      /\ info' = [info EXCEPT ![Wallet(r)] = r]
  BY DEF SaveInformation, Goes, InFlight, Awaits, ghosts, Inv, AccountsInv,
         PlaceInv
<1>2. /\ pc' = [pc EXCEPT ![r] = "answered"] /\ pc'[r] = "answered"
      /\ req' = req
  BY <1>1, Places DEF Inv, Goes, Goto
<1>3. TypeOK'
  BY <1>1, <1>2 DEF Inv, TypeOK, Awaits, Ends
<1>4. ~InFlight(r)'
  BY <1>2 DEF InFlight, Awaits
<1>5. PlaceInv' /\ ApartInv' /\ FreshInv'
  BY <1>1, <1>4, PlaceKept, ApartKept, FreshKept DEF Place, Ends
<1>6. \A w \in Wallets : /\ Detailed(w) => Detailed(w)'
                         /\ Listed(w) => Listed(w)'
  BY <1>1, OwedKept
<1>7. OrganizerInv'
  BY <1>1, <1>4, <1>6, OrganizerKept
<1>8. RoleInv'
  BY <1>1, RoleKept
<1>9. ProfileKept'
  BY <1>1 DEF Inv, AccountsInv, ProfileKept
<1> QED
  BY <1>3, <1>5, <1>7, <1>8, <1>9 DEF Inv, AccountsInv

\* An onboarding that breaks off is remembered where it owes something.
LEMMA RejectKeeps ==
  ASSUME Inv, NEW r \in Requests, Reject(r) PROVE Inv'
<1>1. /\ Goes(r, "failed") /\ Place(r)
      /\ UNCHANGED <<found, users, emails, info, wrote, overlapped>>
      /\ faults < MaxFaults /\ faults' = faults + 1
      /\ whitelist' = whitelist \/ whitelist' = whitelist \cup {Wallet(r)}
      /\ session' = session \/ (pc[r] = "answer" /\ session' = Issued(r))
  BY DEF Reject, BreakOff, Goes, details, Inv, AccountsInv, PlaceInv
<1>2. Wallet(r) \in Wallets /\ InFlight(r)
  BY <1>1 DEF Place, Goes
<1>3. /\ broken' = IF pc[r] \in {"new detail", "role", "whitelist"}
                   THEN broken \cup {Wallet(r)} ELSE broken
      /\ half' = IF pc[r] = "new detail" THEN half \cup {Wallet(r)} ELSE half
  BY DEF Reject, BreakOff
<1>4. /\ pc' = [pc EXCEPT ![r] = "failed"] /\ pc'[r] = "failed"
      /\ req' = req
  BY <1>1, Places DEF Inv, Goes, Goto
<1>5. /\ \A w \in Wallets : w # Wallet(r) => session'[w] = session[w]
      /\ session'[Wallet(r)] = "organizer" =>
           session[Wallet(r)] = "organizer" \/ found[r].role = "organizer"
      /\ session' \in [Wallets -> Roles]
  BY <1>1, <1>2 DEF Inv, TypeOK, Issued, UserRows, Roles, Place, Onboards
<1>6. faults' \in 0 .. MaxFaults
  <2>1. faults \in 0 .. MaxFaults
    BY DEF Inv, TypeOK
  <2> QED
    BY <1>1, <2>1, AccountsAssumption
<1>7. whitelist' \subseteq Wallets /\ broken' \subseteq Wallets
      /\ half' \subseteq Wallets
  BY <1>1, <1>2, <1>3 DEF Inv, TypeOK
<1>8. TypeOK'
  BY <1>1, <1>4, <1>5, <1>6, <1>7 DEF Inv, TypeOK, Awaits, Ends
<1>9. ~InFlight(r)'
  BY <1>4 DEF InFlight, Awaits
<1>10. PlaceInv' /\ ApartInv' /\ FreshInv'
  BY <1>1, <1>9, PlaceKept, ApartKept, FreshKept DEF Place, Ends
<1>11. \A w \in Wallets : /\ Detailed(w) => Detailed(w)'
                          /\ Listed(w) => Listed(w)'
  BY <1>1, <1>3, OwedKept
<1>12. found[r].role = "organizer" =>
         Detailed(Wallet(r)) /\ Listed(Wallet(r))
  BY <1>2 DEF Inv, AccountsInv, OrganizerInv
<1>13. \A w \in Wallets : session'[w] = "organizer" =>
         session[w] = "organizer" \/ Listed(w)'
  BY <1>2, <1>5, <1>11, <1>12
<1>14. OrganizerInv'
  BY <1>1, <1>9, <1>11, <1>13, OrganizerKept
<1>15. RoleInv'
  BY <1>1, <1>3, RoleKept
<1>16. ProfileKept'
  BY <1>1 DEF Inv, AccountsInv, ProfileKept
<1> QED
  BY <1>8, <1>10, <1>14, <1>15, <1>16 DEF Inv, AccountsInv

\* A request that begins owes nothing yet, and overlaps with those in flight.
LEMMA BeginKeeps ==
  ASSUME Inv, NEW r \in Requests, NEW kind \in Kinds, NEW w \in Wallets,
         NEW email \in Emails \cup {None}, NEW fields \in SUBSET Fields,
         Begin(r, kind, w, email, fields)
  PROVE  Inv'
<1>0. /\ \A q \in Requests : Place(q)
      /\ pc[r] = "idle" => found[r] = NoRow
  BY DEF Inv, TypeOK, AccountsInv, PlaceInv
<1> DEFINE others == {q \in Requests :
                        InFlight(q) /\ Wallet(q) = w /\ req[q].kind \in Writers}
           about == [kind |-> kind, wallet |-> w, email |-> email,
                     fields |-> fields]
<1>1. /\ pc[r] = "idle" /\ pc' = [pc EXCEPT ![r] = "find"]
      /\ req' = [req EXCEPT ![r] = about]
      /\ email # None <=> kind = "onboard"
      /\ UNCHANGED <<found, users, emails, info, whitelist, session, faults,
                     wrote, broken, half>>
      /\ overlapped' = IF kind \in Writers /\ others # {}
                       THEN overlapped \cup {w} ELSE overlapped
  BY DEF Begin, Goto, details
<1>2. /\ pc'[r] = "find" /\ req'[r] = about
      /\ \A q \in Requests : q # r => pc'[q] = pc[q] /\ req'[q] = req[q]
  BY <1>1 DEF Inv, TypeOK
<1>3. /\ Wallet(r)' = w /\ req'[r].kind = kind /\ req'[r].email = email
      /\ \A q \in Requests : q # r => Wallet(q)' = Wallet(q)
      /\ InFlight(r)' /\ ~InFlight(r)
  <2>1. \A q \in Requests : q # r => Wallet(q)' = Wallet(q)
    BY <1>2 DEF Wallet
  <2>2. InFlight(r)' /\ ~InFlight(r)
    BY <1>1, <1>2 DEF InFlight, Awaits
  <2>3. Wallet(r)' = w /\ req'[r].kind = kind /\ req'[r].email = email
    BY <1>2 DEF Wallet
  <2> QED
    BY <2>1, <2>2, <2>3
<1>4. TypeOK'
  <2>1. about \in [kind : Kinds \cup {None}, wallet : Wallets \cup {None},
                   email : Emails \cup {None}, fields : SUBSET Fields]
    OBVIOUS
  <2> HIDE DEF about, others
  <2> QED
    BY <1>1, <2>1 DEF Inv, TypeOK, Awaits
<1>5. PlaceInv'
  <2>1. Place(r)'
    BY <1>1, <1>2, <1>3 DEF Place, Onboards
  <2>2. ASSUME NEW q \in Requests, q # r PROVE Place(q)'
    <3>1. Place(q) /\ pc'[q] = pc[q] /\ req'[q] = req[q]
      BY <1>0, <1>2, <2>2
    <3>2. found' = found /\ emails' = emails /\ whitelist' = whitelist
      BY <1>1
    <3> HIDE DEF about, others
    <3> QED
      BY <3>1, <3>2 DEF Place, Onboards, InFlight, Wallet
  <2> QED
    BY <2>1, <2>2 DEF PlaceInv
<1>6. \A q \in Requests : q # r => (Writing(q)' <=> Writing(q))
  BY <1>2 DEF Writing, InFlight
<1>7. overlapped \subseteq overlapped'
  BY <1>1
<1>8. ApartInv'
  <2>1. ASSUME NEW q \in Requests, q # r, Writing(r)', Writing(q)',
               Wallet(q)' = w
        PROVE  w \in overlapped'
    <3>1. kind \in Writers
      BY <1>3, <2>1 DEF Writing
    <3>2. InFlight(q) /\ Wallet(q) = w /\ req[q].kind \in Writers
      BY <1>3, <1>6, <2>1 DEF Writing
    <3> QED
      BY <1>1, <3>1, <3>2
  <2> QED
    BY <1>3, <1>6, <1>7, <2>1 DEF Inv, AccountsInv, ApartInv
<1>9. FreshInv'
  <2>1. ~Holding(r)'
    BY <1>2 DEF Holding
  <2>2. \A q \in Requests : q # r => (Holding(q)' <=> Holding(q))
    BY <1>2, <1>6 DEF Holding
  <2> QED
    BY <1>1, <1>3, <1>7, <2>1, <2>2 DEF Inv, AccountsInv, FreshInv
<1>10. \A S \in {{"role"}, {"new detail"}, {"new detail", "whitelist"}} :
         \A u \in Wallets : At(u, S) => At(u, S)'
  BY <1>1, <1>2, <1>3 DEF At
<1>11. \A u \in Wallets : /\ Detailed(u) => Detailed(u)'
                          /\ Listed(u) => Listed(u)'
  BY <1>1, <1>10 DEF Detailed, Listed
<1>12. OrganizerInv'
  <2>1. found[r].role = "none"
    BY <1>0, <1>1 DEF NoRow, NewRow
  <2>2. ASSUME NEW q \in Requests, InFlight(q)', found'[q].role = "organizer"
        PROVE  (Detailed(Wallet(q)) /\ Listed(Wallet(q)))'
    <3>1. q # r
      BY <1>1, <2>1, <2>2
    <3>2. InFlight(q) /\ found[q].role = "organizer" /\ Wallet(q)' = Wallet(q)
      BY <1>1, <1>2, <1>3, <2>2, <3>1 DEF InFlight
    <3>3. Wallet(q) \in Wallets
      BY <3>2 DEF Inv, AccountsInv, PlaceInv, Place
    <3>4. Detailed(Wallet(q)) /\ Listed(Wallet(q))
      BY <3>2 DEF Inv, AccountsInv, OrganizerInv
    <3>5. DEFINE u == Wallet(q)
    <3>6. Detailed(u)' /\ Listed(u)'
      BY <1>11, <3>2, <3>3, <3>4
    <3> QED
      BY <3>2, <3>6
  <2> QED
    BY <1>1, <1>11, <2>2 DEF Inv, AccountsInv, OrganizerInv
<1>13. RoleInv'
  BY <1>1, <1>7, <1>10 DEF Inv, AccountsInv, RoleInv
<1>14. ProfileKept'
  BY <1>1, <1>7 DEF Inv, AccountsInv, ProfileKept
<1> QED
  BY <1>4, <1>5, <1>8, <1>9, <1>12, <1>13, <1>14 DEF Inv, AccountsInv

-------------------------------------------------------------------------------
\* Initially nobody is in flight and no wallet has anything.
LEMMA InitInv == Init => Inv
<1> SUFFICES ASSUME Init PROVE Inv
  OBVIOUS
<1>1. NoRow \in UserRows /\ NoRow.role = "none" /\ NoRow.name = None
      /\ NoRow.photo = None
  BY DEF NoRow, NewRow, UserRows, Roles
<1>2. TypeOK
  BY <1>1, AccountsAssumption DEF Init, TypeOK, Roles
<1>3. \A r \in Requests : ~InFlight(r)
  BY DEF Init, InFlight, Awaits
<1>4. PlaceInv /\ ApartInv /\ FreshInv
  BY <1>3 DEF PlaceInv, Place, ApartInv, FreshInv, Holding, Writing
<1>5. OrganizerInv /\ RoleInv
  BY <1>1, <1>3 DEF Init, OrganizerInv, RoleInv
<1>6. ProfileKept
  BY <1>1 DEF Init, ProfileKept, Fields
<1> QED
  BY <1>2, <1>4, <1>5, <1>6 DEF Inv, AccountsInv

\* Every step keeps the invariant.
LEMMA NextInv == Inv /\ [Next]_vars => Inv'
<1> SUFFICES ASSUME Inv, [Next]_vars PROVE Inv'
  OBVIOUS
<1>1. ASSUME NEW r \in Requests, NEW kind \in Kinds, NEW w \in Wallets,
             NEW email \in Emails \cup {None}, NEW fields \in SUBSET Fields,
             Begin(r, kind, w, email, fields)
      PROVE  Inv'
  BY <1>1, BeginKeeps
<1>2. ASSUME NEW r \in Requests, RequestStep(r) PROVE Inv'
  BY <1>2, FindUserKeeps, SignUpKeeps, AnswerKeeps, SaveNewUserKeeps,
     SaveNewDetailKeeps, SaveDetailKeeps, SaveRoleKeeps, WhitelistKeeps,
     SaveProfileKeeps, FindDetailKeeps, SaveInformationKeeps DEF RequestStep
<1>3. ASSUME NEW r \in Requests, Reject(r) PROVE Inv'
  BY <1>3, RejectKeeps
<1>4. CASE UNCHANGED vars
  <2>1. UNCHANGED <<pc, req, found, users, emails, info, whitelist, session,
                    faults, wrote, broken, half, overlapped>>
    BY <1>4 DEF vars
  <2>2. TypeOK'
    BY <2>1 DEF Inv, TypeOK
  <2>3. PlaceInv' /\ ApartInv' /\ FreshInv'
    BY <2>1 DEF Inv, AccountsInv, PlaceInv, Place, ApartInv, FreshInv, Holding,
                Writing, InFlight, Onboards, Wallet
  <2>4. RoleInv' /\ ProfileKept'
    BY <2>1 DEF Inv, AccountsInv, RoleInv, ProfileKept, Wallet, At
  <2>5. /\ \A w : (Detailed(w)' <=> Detailed(w)) /\ (Listed(w)' <=> Listed(w))
        /\ \A r \in Requests : /\ Wallet(r)' = Wallet(r)
                               /\ InFlight(r)' <=> InFlight(r)
    BY <2>1 DEF InFlight, Wallet, At, Detailed, Listed
  <2>6. \A r \in Requests : InFlight(r)' /\ found'[r].role = "organizer" =>
          (Detailed(Wallet(r)) /\ Listed(Wallet(r)))'
    BY <2>1 DEF Inv, AccountsInv, OrganizerInv, InFlight, Wallet, At, Detailed,
                Listed
  <2>7. OrganizerInv'
    BY <2>1, <2>5, <2>6 DEF Inv, AccountsInv, OrganizerInv
  <2> QED
    BY <2>2, <2>3, <2>4, <2>7 DEF Inv, AccountsInv
<1> QED
  BY <1>1, <1>2, <1>3, <1>4 DEF Next

\* What the requests know and owe holds at every moment (AuthService,
\* UsersService, OrganizerDetailsService).
THEOREM AccountsInvariant == Spec => []Inv
<1>1. Init => Inv
  BY InitInv
<1>2. Inv /\ [Next]_vars => Inv'
  BY NextInv
<1> QED
  BY <1>1, <1>2, PTL DEF Spec

\* Tables, requests and sessions keep their shapes (AuthService, UsersService).
THEOREM AccountTypes == Spec => []TypeOK
<1>1. Inv => TypeOK
  BY DEF Inv
<1> QED
  BY <1>1, AccountsInvariant, PTL

\* A request that owes something to a wallet is onboarding it.
LEMMA QuietOwesNothing ==
  ASSUME Inv, NEW w \in Quiet
  PROVE  ~At(w, {"new detail"}) /\ ~At(w, {"new detail", "whitelist"})
         /\ ~At(w, {"role"})
  BY DEF Inv, AccountsInv, PlaceInv, Place, Quiet, Onboarding, Onboards, At,
         InFlight, Awaits

\* When nobody is onboarding a wallet that is an organizer, it has its details,
\* or their insert was rejected (verifyWalletOrganizer).
THEOREM RoleHasDetailAlways == Spec => []RoleHasDetail
<1>1. Inv => RoleHasDetail
  BY QuietOwesNothing
  DEF Inv, AccountsInv, OrganizerInv, RoleHasDetail, Detailed, Quiet
<1> QED
  BY <1>1, AccountsInvariant, PTL

\* When nobody is onboarding a wallet that has details, it is an organizer, but
\* for an onboarding that broke off or a profile saved at the same time
\* (verifyWalletOrganizer, updateUser).
THEOREM DetailHasRoleAlways == Spec => []DetailHasRole
<1>1. Inv => DetailHasRole
  BY QuietOwesNothing DEF Inv, AccountsInv, RoleInv, DetailHasRole, Quiet
<1> QED
  BY <1>1, AccountsInvariant, PTL

\* When nobody is onboarding a wallet with an organizer's tokens, the contract
\* has it on its whitelist, unless the onboarding broke off (AuthService,
\* SCService).
THEOREM SessionWhitelistedAlways == Spec => []SessionWhitelisted
<1>1. Inv => SessionWhitelisted
  BY QuietOwesNothing
  DEF Inv, AccountsInv, OrganizerInv, SessionWhitelisted, Listed, Quiet
<1> QED
  BY <1>1, AccountsInvariant, PTL

\* A profile keeps what was last written to each field, unless requests that
\* write the same user were in flight together (updateUser).
THEOREM ProfileKeptAlways == Spec => []ProfileKept
<1>1. Inv => ProfileKept
  BY DEF Inv, AccountsInv
<1> QED
  BY <1>1, AccountsInvariant, PTL
===============================================================================
