-------------------------------- MODULE Accounts -------------------------------
(***************************************************************************)
(* Accounts and the onboarding of organizers (AuthService, UsersService,   *)
(* OrganizerDetailsService, SCService).  A wallet signs in, becomes an     *)
(* organizer, and edits its profile; every request is a row of awaits      *)
(* without a transaction, over the tables users and organizer_details and  *)
(* the whitelist of the event contract.                                    *)
(*                                                                         *)
(* `save' of an entity that was found reads the row again and writes every *)
(* column that differs, so it writes back all that the entity was found    *)
(* with, whoever has changed the row meanwhile.                            *)
(*                                                                         *)
(* A value that a request stores is named by the request.  The cookies of  *)
(* a wallet are abstracted to the role that its tokens carry.  Refreshing  *)
(* and revoking tokens, and the one-time codes, which verifyWalletOrganizer *)
(* does not look at, are left out.                                         *)
(***************************************************************************)
EXTENDS Naturals

CONSTANTS
  Requests,     \* requests, each of which is made at most once
  Wallets,      \* wallet addresses
  Emails,       \* email addresses of organizers
  None,         \* no request, no email
  MaxFaults     \* bound: awaits that reject

ASSUME AccountsAssumption ==
  /\ MaxFaults \in Nat
  /\ None \notin Requests /\ None \notin Emails

VARIABLES
  pc,          \* where a request is
  req,         \* what it is about: kind, wallet, email and fields
  found,       \* the row of users it has found, as it will save it
  users,       \* wallet -> its row in users
  emails,      \* wallet -> the email of its row in organizer_details, or None
  info,        \* wallet -> the request whose information is in that row
  whitelist,   \* wallets that the contract lets create events
  session,     \* wallet -> the role in its newest tokens
  faults,      \* faults so far
  wrote,       \* wallet -> field -> the request that last changed it
  broken,      \* wallets whose onboarding broke off and was not answered since
  half,        \* wallets whose row was inserted and whose email then was not
  overlapped   \* wallets two of whose writing requests were in flight together

vars == <<pc, req, found, users, emails, info, whitelist, session, faults,
          wrote, broken, half, overlapped>>
details == <<emails, info>>
ghosts == <<wrote, broken, half, overlapped>>

-------------------------------------------------------------------------------
Roles == {"none", "user", "organizer"}
Fields == {"name", "photo"}

\* A wallet without a row, and the columns of a row: role and profile.
NewRow(role) == [role |-> role, name |-> None, photo |-> None]
NoRow == NewRow("none")
UserRows ==
  [role : Roles, name : Requests \cup {None}, photo : Requests \cup {None}]

Kinds == {"sign in", "onboard", "profile", "organizer profile"}
Writers == Kinds \ {"sign in"}

Ends == {"refused", "failed", "answered"}
Awaits == {"find", "sign up", "new user", "new detail", "detail", "role",
           "whitelist", "answer", "save profile", "find detail", "save detail"}

InFlight(r) == pc[r] \in Awaits
Wallet(r) == req[r].wallet
Onboarding(w) ==
  \E r \in Requests : InFlight(r) /\ Wallet(r) = w /\ req[r].kind = "onboard"

TypeOK ==
  /\ pc \in [Requests -> Awaits \cup Ends \cup {"idle"}]
  /\ req \in [Requests ->
       [kind : Kinds \cup {None}, wallet : Wallets \cup {None},
        email : Emails \cup {None}, fields : SUBSET Fields]]
  /\ found \in [Requests -> UserRows]
  /\ \A r \in Requests :
       /\ pc[r] \in {"idle", "find"} => found[r] = NoRow
       /\ pc[r] \in {"detail", "role"} => found[r].role = "user"
       /\ pc[r] \in {"save profile", "find detail", "save detail"} =>
            found[r].role # "none"
  /\ users \in [Wallets -> UserRows]
  /\ emails \in [Wallets -> Emails \cup {None}]
  /\ info \in [Wallets -> Requests \cup {None}]
  /\ whitelist \subseteq Wallets
  /\ session \in [Wallets -> Roles]
  /\ faults \in 0 .. MaxFaults
  /\ wrote \in [Wallets -> [Fields -> Requests \cup {None}]]
  /\ broken \subseteq Wallets /\ half \subseteq Wallets
  /\ overlapped \subseteq Wallets

Init ==
  /\ pc = [r \in Requests |-> "idle"]
  /\ req = [r \in Requests |->
       [kind |-> None, wallet |-> None, email |-> None, fields |-> {}]]
  /\ found = [r \in Requests |-> NoRow]
  /\ users = [w \in Wallets |-> NoRow]
  /\ emails = [w \in Wallets |-> None]
  /\ info = [w \in Wallets |-> None]
  /\ whitelist = {}
  /\ session = [w \in Wallets |-> "none"]
  /\ faults = 0
  /\ wrote = [w \in Wallets |-> [f \in Fields |-> None]]
  /\ broken = {}
  /\ half = {}
  /\ overlapped = {}

-------------------------------------------------------------------------------
(* Requests begin, go on and end. *)

Goto(r, place) == pc' = [pc EXCEPT ![r] = place]

\* An onboarding that has changed something breaks off: the row of a new user
\* may stay without email, any user without place on the whitelist.
BreakOff(r) ==
  /\ broken' = IF pc[r] \in {"new detail", "role", "whitelist"}
               THEN broken \cup {Wallet(r)} ELSE broken
  /\ half' = IF pc[r] = "new detail" THEN half \cup {Wallet(r)} ELSE half
  /\ UNCHANGED <<wrote, overlapped>>

\* POST auth/wallet/user/verification and auth/wallet/organizer/verification,
\* PUT users/profile and organizers/profile.  A profile is edited with an access
\* token, an organizer's with one that says organizer.
Begin(r, kind, w, email, fields) ==
  LET others == {q \in Requests :
                   InFlight(q) /\ Wallet(q) = w /\ req[q].kind \in Writers}
  IN /\ pc[r] = "idle"
     /\ kind = "profile" => session[w] # "none"
     /\ kind = "organizer profile" => session[w] = "organizer"
     /\ email # None <=> kind = "onboard"
     /\ fields # {} => kind \in {"profile", "organizer profile"}
     /\ Goto(r, "find")
     /\ req' = [req EXCEPT ![r] =
          [kind |-> kind, wallet |-> w, email |-> email, fields |-> fields]]
     /\ overlapped' = IF kind \in Writers /\ others # {}
                      THEN overlapped \cup {w} ELSE overlapped
     /\ UNCHANGED <<found, users, details, whitelist, session, faults, wrote,
                    broken, half>>

\* Where a request goes with the row it has found.
AfterFind(kind, role) ==
  CASE kind = "sign in" /\ role = "none" -> "sign up"
    [] kind = "sign in" /\ role # "none" -> "answer"
    [] kind = "onboard" /\ role = "none" -> "new user"
    [] kind = "onboard" /\ role = "user" -> "detail"
    [] kind = "onboard" /\ role = "organizer" -> "whitelist"
    [] kind \in {"profile", "organizer profile"} ->
         IF role = "none" THEN "refused" ELSE "save profile"

\* userRepository.findOne by wallet, or by the id in the token.
FindUser(r) ==
  /\ pc[r] = "find"
  /\ Goto(r, AfterFind(req[r].kind, users[Wallet(r)].role))
  /\ found' = [found EXCEPT ![r] = users[Wallet(r)]]
  /\ UNCHANGED <<req, users, details, whitelist, session, faults>>
  /\ UNCHANGED ghosts

\* The tokens of an onboarding say organizer, those of a sign-in what the row
\* that was found says.
Issued(r) == [session EXCEPT ![Wallet(r)] =
  IF req[r].kind = "onboard" THEN "organizer" ELSE found[r].role]

\* The tokens are signed, and the cookies set.
Answer(r) ==
  /\ pc[r] = "answer"
  /\ Goto(r, "answered")
  /\ session' = Issued(r)
  /\ broken' = IF req[r].kind = "onboard" THEN broken \ {Wallet(r)} ELSE broken
  /\ UNCHANGED <<req, found, users, details, whitelist, faults, wrote, half,
                 overlapped>>

-------------------------------------------------------------------------------
(* New rows of users.  wallet_address is unique, so one of two inserts is     *)
(* rejected; nothing has been changed by then.                                *)

InsertUser(r, role, next) ==
  IF users[Wallet(r)] # NoRow
  THEN Goto(r, "failed") /\ UNCHANGED <<found, users>>
  ELSE /\ Goto(r, next)
       /\ users' = [users EXCEPT ![Wallet(r)] = NewRow(role)]
       /\ found' = [found EXCEPT ![r] = NewRow(role)]

\* verifyUser: a wallet that signs in for the first time.
SignUp(r) ==
  /\ pc[r] = "sign up"
  /\ InsertUser(r, "user", "answer")
  /\ UNCHANGED <<req, details, whitelist, session, faults>>
  /\ UNCHANGED ghosts

\* verifyWalletOrganizer: a new wallet is an organizer from its first row on.
SaveNewUser(r) ==
  /\ pc[r] = "new user"
  /\ InsertUser(r, "organizer", "new detail")
  /\ UNCHANGED <<req, details, whitelist, session, faults>>
  /\ UNCHANGED ghosts

-------------------------------------------------------------------------------
(* The row of organizer_details: email and organizer_id are unique. *)

InsertDetail(r, next) ==
  IF emails[Wallet(r)] # None \/ \E w \in Wallets : emails[w] = req[r].email
  THEN /\ Goto(r, "failed")
       /\ BreakOff(r)
       /\ UNCHANGED emails
  ELSE /\ Goto(r, next)
       /\ emails' = [emails EXCEPT ![Wallet(r)] = req[r].email]
       /\ UNCHANGED ghosts

\* verifyWalletOrganizer, a wallet that was not in users: it is by now.
SaveNewDetail(r) ==
  /\ pc[r] = "new detail"
  /\ InsertDetail(r, "whitelist")
  /\ UNCHANGED <<req, found, users, info, whitelist, session, faults>>

\* Slip to catch: the role comes first.
SaveDetailLate(r) ==
  /\ pc[r] = "detail"
  /\ Goto(r, "role")
  /\ UNCHANGED <<req, found, users, details, whitelist, session, faults>>
  /\ UNCHANGED ghosts

\* verifyWalletOrganizer, a user: the role comes after the row.
SaveDetail(r) ==
  /\ pc[r] = "detail"
  /\ InsertDetail(r, "role")
  /\ UNCHANGED <<req, found, users, info, whitelist, session, faults>>

\* Slip to catch: the entity is changed and not saved.
SaveRoleNever(r) ==
  /\ pc[r] = "role"
  /\ Goto(r, "whitelist")
  /\ UNCHANGED <<req, found, users, details, whitelist, session, faults>>
  /\ UNCHANGED ghosts

\* The user that was found is saved as an organizer.
SaveRole(r) ==
  LET row == [role |-> "organizer", name |-> found[r].name,
              photo |-> found[r].photo]
  IN /\ pc[r] = "role"
     /\ Goto(r, "whitelist")
     /\ users' = [users EXCEPT ![Wallet(r)] = row]
     /\ found' = [found EXCEPT ![r] = row]
     /\ UNCHANGED <<req, details, whitelist, session, faults>>
     /\ UNCHANGED ghosts

\* Slip to catch: the failure of the contract call is logged only.
WhitelistOrNot(r) ==
  /\ pc[r] = "whitelist"
  /\ Goto(r, "answer")
  /\ whitelist' \in {whitelist, whitelist \cup {Wallet(r)}}
  /\ UNCHANGED <<req, found, users, details, session, faults>>
  /\ UNCHANGED ghosts

\* addOrganizerWalletAddressToWhitelist waits until the transaction is mined.
Whitelist(r) ==
  /\ pc[r] = "whitelist"
  /\ Goto(r, "answer")
  /\ whitelist' = whitelist \cup {Wallet(r)}
  /\ UNCHANGED <<req, found, users, details, session, faults>>
  /\ UNCHANGED ghosts

-------------------------------------------------------------------------------
(* Profiles. *)

\* Slip to catch: a field that the request does not have is cleared.
EditedAll(r, row) ==
  [role  |-> row.role,
   name  |-> IF "name" \in req[r].fields THEN r ELSE None,
   photo |-> IF "photo" \in req[r].fields THEN r ELSE None]

\* A field that the request does not have keeps the value it was found with.
Edited(r, row) ==
  [role  |-> row.role,
   name  |-> IF "name" \in req[r].fields THEN r ELSE row.name,
   photo |-> IF "photo" \in req[r].fields THEN r ELSE row.photo]

\* updateUser: the images are uploaded, and the user that was found is saved.
SaveProfile(r) ==
  /\ pc[r] = "save profile"
  /\ Goto(r, IF req[r].kind = "profile" THEN "answered" ELSE "find detail")
  /\ users' = [users EXCEPT ![Wallet(r)] = Edited(r, found[r])]
  /\ wrote' = [wrote EXCEPT ![Wallet(r)] =
       [f \in Fields |-> IF f \in req[r].fields THEN r ELSE @[f]]]
  /\ UNCHANGED <<req, found, details, whitelist, session, faults, broken, half,
                 overlapped>>

\* updateOrganizerInformation, by which time the user has been saved.
FindDetail(r) ==
  /\ pc[r] = "find detail"
  /\ Goto(r, IF emails[Wallet(r)] = None THEN "refused" ELSE "save detail")
  /\ UNCHANGED <<req, found, users, details, whitelist, session, faults>>
  /\ UNCHANGED ghosts

SaveInformation(r) ==
  /\ pc[r] = "save detail"
  /\ Goto(r, "answered")
  /\ info' = [info EXCEPT ![Wallet(r)] = r]
  /\ UNCHANGED <<req, found, users, emails, whitelist, session, faults>>
  /\ UNCHANGED ghosts

-------------------------------------------------------------------------------
\* An await rejects or the process ends.  The transaction for the whitelist may
\* have been sent by then and be mined all the same; cookies that were set
\* before the last reads go out with the error.
Reject(r) ==
  /\ faults < MaxFaults
  /\ InFlight(r)
  /\ faults' = faults + 1
  /\ Goto(r, "failed")
  /\ \/ UNCHANGED whitelist
     \/ pc[r] = "whitelist" /\ whitelist' = whitelist \cup {Wallet(r)}
  /\ \/ UNCHANGED session
     \/ pc[r] = "answer" /\ session' = Issued(r)
  /\ BreakOff(r)
  /\ UNCHANGED <<req, found, users, details>>

RequestStep(r) ==
  \/ FindUser(r) \/ SignUp(r) \/ Answer(r)
  \/ SaveNewUser(r) \/ SaveNewDetail(r) \/ SaveDetail(r) \/ SaveRole(r)
  \/ Whitelist(r)
  \/ SaveProfile(r) \/ FindDetail(r) \/ SaveInformation(r)

Next ==
  \E r \in Requests :
    \/ \E kind \in Kinds, w \in Wallets, email \in Emails \cup {None},
          fields \in SUBSET Fields :
         Begin(r, kind, w, email, fields)
    \/ RequestStep(r)
    \/ Reject(r)

Spec == Init /\ [][Next]_vars

-------------------------------------------------------------------------------
(* What holds of a wallet that nobody is onboarding. *)

Quiet == {w \in Wallets : ~Onboarding(w)}

\* An organizer has a row in organizer_details, without which its profile can
\* neither be read nor be edited, unless the insert of that row was rejected
\* after the user's: the email was in use, or the request broke off in between.
\* No later onboarding inserts it then (verifyWalletOrganizer).
RoleHasDetail ==
  \A w \in Quiet :
    users[w].role = "organizer" => emails[w] # None \/ w \in half

\* A wallet with a row in organizer_details is an organizer, unless its
\* onboarding broke off before the role was saved, or a profile was saved at the
\* same time, with the role it had been found with.  Such a wallet cannot be
\* onboarded again: its row is in the way (verifyWalletOrganizer, updateUser).
DetailHasRole ==
  \A w \in Quiet :
    emails[w] # None =>
      users[w].role = "organizer" \/ w \in broken \cup overlapped

\* Whoever holds an organizer's tokens may create events on the contract, unless
\* the onboarding broke off, after which a sign-in hands out the same tokens.
\* Onboarding again heals that (verifyWalletOrganizer, verifyUser).
SessionWhitelisted ==
  \A w \in Quiet : session[w] = "organizer" => w \in whitelist \cup broken

\* A profile shows what was last written to each field, unless requests that
\* write the same user were in flight together (updateUser).
ProfileKept ==
  \A w \in Wallets \ overlapped :
    users[w].name = wrote[w]["name"] /\ users[w].photo = wrote[w]["photo"]

-------------------------------------------------------------------------------
(***************************************************************************)
(* The inductive invariant: what a request knows at each await, what it    *)
(* still owes its wallet, and that a row it has found is the row there is  *)
(* as long as nobody else writes the same user.                            *)
(***************************************************************************)
Onboards(r) == req[r].kind = "onboard"
Writing(r) == InFlight(r) /\ req[r].kind \in Writers

Place(r) ==
  InFlight(r) =>
    /\ Wallet(r) \in Wallets /\ req[r].kind \in Kinds
    /\ Onboards(r) => req[r].email \in Emails
    /\ pc[r] = "sign up" => req[r].kind = "sign in"
    /\ pc[r] \in {"new user", "new detail", "detail", "role", "whitelist"} =>
         Onboards(r)
    /\ pc[r] = "answer" => req[r].kind \in {"sign in", "onboard"}
    /\ pc[r] = "save profile" =>
         req[r].kind \in {"profile", "organizer profile"}
    /\ Onboards(r) /\ pc[r] \in {"new detail", "whitelist", "answer"} =>
         found[r].role = "organizer"
    /\ pc[r] = "role" => emails[Wallet(r)] # None
    /\ Onboards(r) /\ pc[r] = "answer" => Wallet(r) \in whitelist

PlaceInv == \A r \in Requests : Place(r)

ApartInv ==
  \A r, q \in Requests :
    r # q /\ Writing(r) /\ Writing(q) /\ Wallet(r) = Wallet(q) =>
      Wallet(r) \in overlapped

Holding(r) ==
  Writing(r) /\ pc[r] \notin {"find", "new user", "find detail", "save detail"}

FreshInv ==
  \A r \in Requests :
    Holding(r) /\ Wallet(r) \notin overlapped => found[r] = users[Wallet(r)]

\* A request about this wallet is at one of these awaits.
At(w, places) == \E q \in Requests : pc[q] \in places /\ Wallet(q) = w

\* What an organizer, a request that has found one, or an organizer's tokens
\* imply of the wallet.
Detailed(w) == emails[w] # None \/ w \in half \/ At(w, {"new detail"})
Listed(w) == w \in whitelist \cup broken \/ At(w, {"new detail", "whitelist"})

OrganizerInv ==
  /\ \A w \in Wallets :
       users[w].role = "organizer" => Detailed(w) /\ Listed(w)
  /\ \A r \in Requests : InFlight(r) /\ found[r].role = "organizer" =>
       Detailed(Wallet(r)) /\ Listed(Wallet(r))
  /\ \A w \in Wallets : session[w] = "organizer" => Listed(w)

RoleInv ==
  \A w \in Wallets : emails[w] # None =>
    \/ users[w].role = "organizer"
    \/ w \in broken \cup overlapped
    \/ At(w, {"role"})

AccountsInv ==
  PlaceInv /\ ApartInv /\ FreshInv /\ OrganizerInv /\ RoleInv /\ ProfileKept
===============================================================================
