------------------------------ MODULE TicketLedger ------------------------------
(***************************************************************************)
(* The database's mirror of who holds the tickets of one tier and which    *)
(* resales are open, kept by four polling jobs that run concurrently:      *)
(* handleTicketSoldEvent, handleResoldTicketEvent,                         *)
(* handleCancelledResellTicketEvent and handleBoughtTicketEvent.           *)
(*                                                                         *)
(* Each job takes the logs of its kind in chain order, at least once, and  *)
(* may be set back (IngestJob); a log may also be passed over: by a cold   *)
(* start, because the event is not published yet, or because a marketplace *)
(* handler swallows the error of its transaction.  The handlers are broken *)
(* at their awaits.  The transactions are READ COMMITTED: a find sees      *)
(* other jobs' commits and a save writes the whole row that was read.      *)
(*                                                                         *)
(* Each log has its own transaction hash, so a log is named by its place   *)
(* in the chain, and a sale by the place of the ResoldTicket log that      *)
(* opened it.                                                              *)
(***************************************************************************)
EXTENDS Integers, Sequences, FiniteSetsExt

CONSTANTS
  Wallets,        \* wallet addresses that trade
  NoOwner,        \* the owner of a ticket row inserted without a user
  Registered,     \* wallets that have a row in users from the beginning
  Amounts,        \* bound: ticket quantities of one log
  MaxLogs         \* bound: length of the chain's history

ASSUME LedgerAssumption ==
  /\ NoOwner \notin Wallets
  /\ Registered \subseteq Wallets
  /\ Amounts \subseteq Nat \ {0}
  /\ MaxLogs \in Nat

Kinds ==
  {"TicketSold", "ResoldTicket", "CancelledResellTicket", "BoughtTicket"}
Places == 1 .. MaxLogs

Event ==
  [kind : Kinds, sale : 0 .. MaxLogs, wallet : Wallets, amount : Amounts \cup {0}]

Statuses == {"selling", "sold", "closed"}
NoListing == [remaining |-> 0, status |-> "none"]
Listing == [remaining : Int, status : Statuses] \cup {NoListing}
Owner == Wallets \cup {NoOwner}
Ticket == [owner : Owner, quantity : Int]

\* What a handler has read and not yet used: a ticket row (0 when none was
\* found), its owner and quantity, and a row of ticket_sale_transactions.
Nothing ==
  [row |-> 0, owner |-> NoOwner, quantity |-> 0, listing |-> NoListing]
Local ==
  [row : Nat, owner : Owner, quantity : Int, listing : Listing]

Phases == {"idle", "saleRow", "find", "write", "ticket", "commit"}
Causes == {"stale write", "wrong owner", "early refund", "reopened"}

VARIABLES
  chain,      \* the logs of this tier, in chain order
  users,      \* wallets with a row in users
  snapshots,  \* blockchain_snapshots: places of recorded logs
  firstSales, \* ticket_sale_transactions rows of first sales, by log
  purchases,  \* ticket_sale_transactions rows of purchases, by log
  listing,    \* ticket_sale_transactions rows of resales, by sale
  tickets,    \* nft_tickets rows; (owner, tier) is not unique
  upTo,       \* per job: it has passed its logs up to this place
  phase,      \* per job: where in the handler of the next log it is
  local,      \* per job: what the handler has read
  credited,   \* history: first sales whose ticket row was written
  blame       \* history: which known causes of drift have struck

db == <<snapshots, firstSales, purchases, listing, tickets>>
vars == <<chain, users, snapshots, firstSales, purchases, listing, tickets,
          upTo, phase, local, credited, blame>>

TypeOK ==
  /\ chain \in Seq(Event) /\ Len(chain) <= MaxLogs
  /\ users \subseteq Wallets
  /\ snapshots \subseteq DOMAIN chain
  /\ firstSales \subseteq snapshots
  /\ purchases \subseteq snapshots
  /\ listing \in [Places -> Listing]
  /\ tickets \in Seq(Ticket)
  /\ upTo \in [Kinds -> 0 .. MaxLogs]
  /\ phase \in [Kinds -> Phases]
  /\ local \in [Kinds -> Local]
  /\ credited \subseteq firstSales
  /\ blame \subseteq Causes

Init ==
  /\ chain = <<>>
  /\ users = Registered
  /\ snapshots = {}
  /\ firstSales = {}
  /\ purchases = {}
  /\ listing = [s \in Places |-> NoListing]
  /\ tickets = <<>>
  /\ upTo = [k \in Kinds |-> 0]
  /\ phase = [k \in Kinds |-> "idle"]
  /\ local = [k \in Kinds |-> Nothing]
  /\ credited = {}
  /\ blame = {}

-------------------------------------------------------------------------------
(***************************************************************************)
(* The contracts, as the handlers take them to be: a listing holds the     *)
(* tickets in escrow, a purchase takes some of what is left of an open     *)
(* sale, and cancelling returns the rest to the seller.                    *)
(***************************************************************************)
LogsOf(k) == {p \in DOMAIN chain : chain[p].kind = k}
Amount(p) == chain[p].amount
Total(places) == MapThenSumSet(Amount, places)

BoughtFrom(s) == {p \in LogsOf("BoughtTicket") : chain[p].sale = s}
Cancelled(s) == \E p \in LogsOf("CancelledResellTicket") : chain[p].sale = s
OnSale(s) == Amount(s) - Total(BoughtFrom(s))

\* What a wallet holds when exactly the logs at the given places count.
Received(w, places) ==
  {p \in places : /\ chain[p].wallet = w
                  /\ chain[p].kind \in {"TicketSold", "BoughtTicket"}}
Listed(w, places) ==
  {p \in places : chain[p].wallet = w /\ chain[p].kind = "ResoldTicket"}
Returned(w, places) ==
  {p \in places : /\ chain[p].wallet = w
                  /\ chain[p].kind = "CancelledResellTicket"}
Refund(p) == OnSale(chain[p].sale)
Holding(w, places) ==
  Total(Received(w, places)) + MapThenSumSet(Refund, Returned(w, places))
    - Total(Listed(w, places))

Emit(e) ==
  /\ Len(chain) < MaxLogs
  /\ chain' = Append(chain, e)
  /\ UNCHANGED <<users, db, upTo, phase, local, credited, blame>>

FirstSell == \E w \in Wallets, n \in Amounts :
  Emit([kind |-> "TicketSold", sale |-> 0, wallet |-> w, amount |-> n])

ResellTicket == \E w \in Wallets, n \in Amounts :
  /\ n <= Holding(w, DOMAIN chain)
  /\ Emit([kind |-> "ResoldTicket", sale |-> Len(chain) + 1, wallet |-> w,
           amount |-> n])

BuyTicket == \E s \in LogsOf("ResoldTicket"), w \in Wallets, n \in Amounts :
  /\ ~Cancelled(s) /\ n <= OnSale(s)
  /\ Emit([kind |-> "BoughtTicket", sale |-> s, wallet |-> w, amount |-> n])

CancelResellTicket == \E s \in LogsOf("ResoldTicket") :
  /\ ~Cancelled(s) /\ OnSale(s) > 0
  /\ Emit([kind |-> "CancelledResellTicket", sale |-> s,
           wallet |-> chain[s].wallet, amount |-> 0])

\* verifyUser creates the user at the first login with a wallet.
Register == \E w \in Wallets \ users :
  /\ users' = users \cup {w}
  /\ UNCHANGED <<chain, db, upTo, phase, local, credited, blame>>

-------------------------------------------------------------------------------
(* Delivery of the logs of one kind to its handler. *)

\* p is the place of the log that job k has in hand, or takes next.
At(k, p) ==
  /\ p \in LogsOf(k)
  /\ upTo[k] < p
  /\ \A q \in LogsOf(k) : upTo[k] < q => p <= q

\* The handler is done with the log at p: the loop moves on.
Pass(k, p) ==
  /\ upTo' = [upTo EXCEPT ![k] = p]
  /\ phase' = [phase EXCEPT ![k] = "idle"]
  /\ local' = [local EXCEPT ![k] = Nothing]

\* The handler goes on to another await with what it has read.
Proceed(k, ph, read) ==
  /\ phase' = [phase EXCEPT ![k] = ph]
  /\ local' = [local EXCEPT ![k] = read]
  /\ UNCHANGED upTo

\* `if (!blockchainSnapshot)': a log that has been recorded is not handled again.
SkipRecorded(k) == \E p \in snapshots :
  /\ phase[k] = "idle"
  /\ At(k, p)
  /\ Pass(k, p)
  /\ UNCHANGED <<chain, users, db, credited, blame>>

\* A log without snapshot is passed over: the job starts behind it, TicketSold
\* finds no published event, or the transaction of a marketplace handler fails
\* (a row it needs is missing, the database rejects) and is rolled back.
Lose(k) == \E p \in DOMAIN chain \ snapshots :
  /\ At(k, p)
  /\ Pass(k, p)
  /\ UNCHANGED <<chain, users, db, credited, blame>>

\* The process stops, or an await outside a transaction rejects: what was not
\* committed is gone, and the log will be delivered again.
Abort(k) ==
  /\ phase[k] # "idle"
  /\ Proceed(k, "idle", Nothing)
  /\ UNCHANGED <<chain, users, db, credited, blame>>

\* The cursor is lost or was not stored: the job starts again further back.
Rewind(k) ==
  /\ phase[k] = "idle"
  /\ \E p \in 0 .. MaxLogs :
       /\ p < upTo[k]
       /\ upTo' = [upTo EXCEPT ![k] = p]
  /\ UNCHANGED <<chain, users, db, phase, local, credited, blame>>

-------------------------------------------------------------------------------
(* Rows of nft_tickets. *)

RowsOf(w) == {r \in DOMAIN tickets : tickets[r].owner = w}

\* findOne: any row that matches, or 0.
FoundOne(rows, r) == r \in rows \/ (rows = {} /\ r = 0)

QuantityAt(r) == IF r = 0 THEN 0 ELSE tickets[r].quantity

\* save: the quantity read before, changed, replaces whatever is there now.
PutQuantity(r, n) == tickets' = [tickets EXCEPT ![r].quantity = n]
InsertTicket(w, n) ==
  tickets' = Append(tickets, [owner |-> w, quantity |-> n])

\* The row has changed since job k read it, and the save undoes the change.
Stale(k) ==
  IF local[k].row # 0 /\ tickets[local[k].row].quantity # local[k].quantity
  THEN {"stale write"} ELSE {}

-------------------------------------------------------------------------------
(* handleTicketSoldEvent: four writes, each committed by itself. *)

\* Slip to catch: a recorded log is handled again when it is redelivered.
SaveSnapshotAgain == \E p \in DOMAIN chain :
  /\ phase["TicketSold"] = "idle"
  /\ At("TicketSold", p)
  /\ snapshots' = snapshots \cup {p}
  /\ Proceed("TicketSold", "saleRow", Nothing)
  /\ UNCHANGED <<chain, users, firstSales, purchases, listing, tickets,
                 credited, blame>>

SaveSnapshot == \E p \in DOMAIN chain \ snapshots :
  /\ phase["TicketSold"] = "idle"
  /\ At("TicketSold", p)
  /\ snapshots' = snapshots \cup {p}
  /\ Proceed("TicketSold", "saleRow", Nothing)
  /\ UNCHANGED <<chain, users, firstSales, purchases, listing, tickets,
                 credited, blame>>

SaveFirstSale == \E p \in DOMAIN chain :
  /\ phase["TicketSold"] = "saleRow"
  /\ At("TicketSold", p)
  /\ firstSales' = firstSales \cup {p}
  /\ Proceed("TicketSold", "find", Nothing)
  /\ UNCHANGED <<chain, users, snapshots, purchases, listing, tickets,
                 credited, blame>>

\* Without a user, `owner: { id: undefined }' is no condition at all: any row
\* of the tier matches.
FindBuyerTicket == \E p \in DOMAIN chain, r \in 0 .. Len(tickets) :
  /\ phase["TicketSold"] = "find"
  /\ At("TicketSold", p)
  /\ LET known == chain[p].wallet \in users
     IN /\ FoundOne(IF known THEN RowsOf(chain[p].wallet) ELSE DOMAIN tickets, r)
        /\ Proceed("TicketSold", "write",
                   [row |-> r,
                    owner |-> IF known THEN chain[p].wallet ELSE NoOwner,
                    quantity |-> QuantityAt(r), listing |-> NoListing])
  /\ UNCHANGED <<chain, users, db, credited, blame>>

CreditBuyer == \E p \in DOMAIN chain :
  LET read == local["TicketSold"] IN
  /\ phase["TicketSold"] = "write"
  /\ At("TicketSold", p)
  /\ \/ read.row # 0 /\ PutQuantity(read.row, read.quantity + Amount(p))
     \/ read.row = 0 /\ InsertTicket(read.owner, Amount(p))
  /\ credited' = credited \cup {p}
  /\ blame' = blame \cup Stale("TicketSold")
                \cup (IF read.owner = NoOwner THEN {"wrong owner"} ELSE {})
  /\ Pass("TicketSold", p)
  /\ UNCHANGED <<chain, users, snapshots, firstSales, purchases, listing>>

-------------------------------------------------------------------------------
(* handleResoldTicketEvent: one transaction; the sale row is new. *)

\* Slip to catch: the seller's row is looked up without its owner.
FindAnyTicket == \E p \in DOMAIN chain \ snapshots :
  /\ phase["ResoldTicket"] = "idle"
  /\ At("ResoldTicket", p)
  /\ \E r \in DOMAIN tickets :
       Proceed("ResoldTicket", "commit",
               [Nothing EXCEPT !.row = r, !.quantity = tickets[r].quantity])
  /\ UNCHANGED <<chain, users, db, credited, blame>>

FindSellerTicket == \E p \in DOMAIN chain \ snapshots :
  /\ phase["ResoldTicket"] = "idle"
  /\ At("ResoldTicket", p)
  /\ \E r \in RowsOf(chain[p].wallet) :
       Proceed("ResoldTicket", "commit",
               [Nothing EXCEPT !.row = r, !.quantity = tickets[r].quantity])
  /\ UNCHANGED <<chain, users, db, credited, blame>>

\* Slip to catch: the quantity is not compared with what the seller has.
CommitResoldUnchecked == \E p \in DOMAIN chain :
  LET read == local["ResoldTicket"] IN
  /\ phase["ResoldTicket"] = "commit"
  /\ At("ResoldTicket", p)
  /\ snapshots' = snapshots \cup {p}
  /\ listing' = [listing EXCEPT
                   ![p] = [remaining |-> Amount(p), status |-> "selling"]]
  /\ PutQuantity(read.row, read.quantity - Amount(p))
  /\ blame' = blame \cup Stale("ResoldTicket")
  /\ Pass("ResoldTicket", p)
  /\ UNCHANGED <<chain, users, firstSales, purchases, credited>>

CommitResold == \E p \in DOMAIN chain :
  LET read == local["ResoldTicket"] IN
  /\ phase["ResoldTicket"] = "commit"
  /\ At("ResoldTicket", p)
  /\ Amount(p) <= read.quantity
  /\ snapshots' = snapshots \cup {p}
  /\ listing' = [listing EXCEPT
                   ![p] = [remaining |-> Amount(p), status |-> "selling"]]
  /\ PutQuantity(read.row, read.quantity - Amount(p))
  /\ blame' = blame \cup Stale("ResoldTicket")
  /\ Pass("ResoldTicket", p)
  /\ UNCHANGED <<chain, users, firstSales, purchases, credited>>

-------------------------------------------------------------------------------
(* handleBoughtTicketEvent: one transaction. *)

\* Slips to catch: a recorded purchase is handled again; the snapshot is saved
\* outside the transaction.
FindSaleAgain == \E p \in DOMAIN chain :
  /\ phase["BoughtTicket"] = "idle"
  /\ At("BoughtTicket", p)
  /\ listing[chain[p].sale] # NoListing
  /\ Proceed("BoughtTicket", "ticket",
             [Nothing EXCEPT !.listing = listing[chain[p].sale]])
  /\ UNCHANGED <<chain, users, db, credited, blame>>
FindSaleAfterSnapshot == \E p \in DOMAIN chain \ snapshots :
  /\ phase["BoughtTicket"] = "idle"
  /\ At("BoughtTicket", p)
  /\ listing[chain[p].sale] # NoListing
  /\ snapshots' = snapshots \cup {p}
  /\ Proceed("BoughtTicket", "ticket",
             [Nothing EXCEPT !.listing = listing[chain[p].sale]])
  /\ UNCHANGED <<chain, users, firstSales, purchases, listing, tickets,
                 credited, blame>>

FindSale == \E p \in DOMAIN chain \ snapshots :
  /\ phase["BoughtTicket"] = "idle"
  /\ At("BoughtTicket", p)
  /\ listing[chain[p].sale] # NoListing
  /\ Proceed("BoughtTicket", "ticket",
             [Nothing EXCEPT !.listing = listing[chain[p].sale]])
  /\ UNCHANGED <<chain, users, db, credited, blame>>

\* remainingQuantity -= amount, and SOLD when nothing is left; any other status
\* is saved as it was read.
AfterPurchase(l, n) ==
  [remaining |-> l.remaining - n,
   status |-> IF l.remaining = n THEN "sold" ELSE l.status]

\* The sale row has been saved and is locked until the commit; then the buyer's
\* ticket row is read, or the buyer, who must be a user.
FindPurchaserTicket == \E p \in DOMAIN chain, r \in 0 .. Len(tickets) :
  /\ phase["BoughtTicket"] = "ticket"
  /\ At("BoughtTicket", p)
  /\ FoundOne(RowsOf(chain[p].wallet), r)
  /\ r # 0 \/ chain[p].wallet \in users
  /\ Proceed("BoughtTicket", "commit",
             [local["BoughtTicket"] EXCEPT !.row = r,
                                           !.quantity = QuantityAt(r)])
  /\ UNCHANGED <<chain, users, db, credited, blame>>

CommitBought == \E p \in DOMAIN chain :
  LET read == local["BoughtTicket"]
      sale == chain[p].sale
  IN
  /\ phase["BoughtTicket"] = "commit"
  /\ At("BoughtTicket", p)
  /\ snapshots' = snapshots \cup {p}
  /\ purchases' = purchases \cup {p}
  /\ listing' = [listing EXCEPT ![sale] = AfterPurchase(read.listing, Amount(p))]
  /\ \/ read.row # 0 /\ PutQuantity(read.row, read.quantity + Amount(p))
     \/ read.row = 0 /\ InsertTicket(chain[p].wallet, Amount(p))
  /\ blame' = blame \cup Stale("BoughtTicket")
                \cup (IF listing[sale].status # read.listing.status
                      THEN {"reopened"} ELSE {})
  /\ Pass("BoughtTicket", p)
  /\ UNCHANGED <<chain, users, firstSales, credited>>

-------------------------------------------------------------------------------
(* handleCancelledResellTicketEvent: one transaction. *)

FindCancelledSale == \E p \in DOMAIN chain \ snapshots :
  /\ phase["CancelledResellTicket"] = "idle"
  /\ At("CancelledResellTicket", p)
  /\ listing[chain[p].sale] # NoListing
  /\ Proceed("CancelledResellTicket", "commit",
             [Nothing EXCEPT !.listing = listing[chain[p].sale]])
  /\ UNCHANGED <<chain, users, db, credited, blame>>

\* A purchase that has saved the sale row keeps it locked until it commits.
Locked(s) ==
  /\ phase["BoughtTicket"] = "commit"
  /\ \E q \in DOMAIN chain : At("BoughtTicket", q) /\ chain[q].sale = s

\* The status is set and the quantity is incremented in SQL, so neither is
\* stale; the increment is what remained when the sale was read.
CommitCancelled == \E p \in DOMAIN chain :
  LET sale == chain[p].sale
      refund == local["CancelledResellTicket"].listing.remaining
  IN
  /\ phase["CancelledResellTicket"] = "commit"
  /\ At("CancelledResellTicket", p)
  /\ ~Locked(sale)
  /\ snapshots' = snapshots \cup {p}
  /\ listing' = [listing EXCEPT ![sale].status = "closed"]
  /\ \E r \in RowsOf(chain[sale].wallet) :
       PutQuantity(r, tickets[r].quantity + refund)
  /\ blame' = blame \cup (IF refund # OnSale(sale) THEN {"early refund"} ELSE {})
  /\ Pass("CancelledResellTicket", p)
  /\ UNCHANGED <<chain, users, firstSales, purchases, credited>>

-------------------------------------------------------------------------------
Contracts == FirstSell \/ ResellTicket \/ BuyTicket \/ CancelResellTicket

Handlers ==
  \/ SaveSnapshot \/ SaveFirstSale \/ FindBuyerTicket \/ CreditBuyer
  \/ FindSellerTicket \/ CommitResold
  \/ FindSale \/ FindPurchaserTicket \/ CommitBought
  \/ FindCancelledSale \/ CommitCancelled

Next ==
  \/ Contracts
  \/ Register
  \/ Handlers
  \/ \E k \in Kinds : SkipRecorded(k) \/ Lose(k) \/ Abort(k) \/ Rewind(k)

Spec == Init /\ [][Next]_vars

-------------------------------------------------------------------------------
\* What verifyBuyResaleTicketStatus and verifyResaleCreationStatus rely on when
\* they answer 'success' from the snapshot alone: a marketplace snapshot is
\* there exactly when everything its handler writes is, at any interruption.
MarketAtomic ==
  \A p \in DOMAIN chain :
    /\ chain[p].kind = "ResoldTicket" =>
         (p \in snapshots <=> listing[p] # NoListing)
    /\ chain[p].kind = "BoughtTicket" =>
         /\ p \in snapshots <=> p \in purchases
         /\ p \in snapshots => chain[p].sale \in snapshots

\* What is left of a listing is what was listed less every purchase recorded
\* against it, once each, although purchases are redelivered and the
\* cancellation job works on the same row; so it is sold out exactly when it
\* says so, and never oversold (handleBoughtTicketEvent).
RemainingExact ==
  \A s \in snapshots \cap LogsOf("ResoldTicket") :
    /\ listing[s].remaining = Amount(s) - Total(BoughtFrom(s) \cap snapshots)
    /\ listing[s].remaining >= 0
    /\ listing[s].status = "sold" <=> listing[s].remaining = 0

\* The cancellation finds the seller's ticket row to give the tickets back to
\* (handleCancelledResellTicketEvent updates `{ id: nftTicket?.id }').
RefundHasRow ==
  \A s \in Places : listing[s] # NoListing => RowsOf(chain[s].wallet) # {}

\* No interleaving makes a ticket row negative: the quantity compared with the
\* log is the one that is written (handleResoldTicketEvent), and what is given
\* back was on sale (handleCancelledResellTicketEvent).
NeverNegative == \A r \in DOMAIN tickets : tickets[r].quantity >= 0

Quantities(w) ==
  LET quantity(r) == tickets[r].quantity IN MapThenSumSet(quantity, RowsOf(w))

\* First sales count once their ticket row is written, the rest with their
\* snapshot.
Applied == (snapshots \ LogsOf("TicketSold")) \cup credited

\* The ticket rows of every wallet add up to exactly the logs that have been
\* applied, unless one of the causes named in `blame' has struck.  So those
\* causes are all there are: redelivery, interruption between two awaits,
\* duplicate rows and logs passed over never by themselves make a wallet's
\* tickets wrong (all four handlers).
TicketsExact ==
  blame \cap {"stale write", "wrong owner", "early refund"} = {} =>
    \A w \in Wallets : Quantities(w) = Holding(w, Applied)

-------------------------------------------------------------------------------
(***************************************************************************)
(* Why a commit finds what it needs: a purchase or a cancellation refers   *)
(* to a listing that was opened before it, a listing is there only when    *)
(* its log is recorded, and a job between two awaits still has the log in  *)
(* hand that it read its rows for.                                         *)
(***************************************************************************)
SaleInv ==
  \A p \in DOMAIN chain :
    /\ chain[p].kind = "ResoldTicket" => chain[p].sale = p
    /\ chain[p].kind \in {"CancelledResellTicket", "BoughtTicket"} =>
         chain[p].sale \in LogsOf("ResoldTicket")

ListingInv ==
  \A s \in Places : listing[s] # NoListing => s \in LogsOf("ResoldTicket")

PhasesOf(k) ==
  CASE k = "TicketSold" -> {"saleRow", "find", "write"}
    [] k = "BoughtTicket" -> {"ticket", "commit"}
    [] OTHER -> {"commit"}

\* What job k relies on, once it has begun with the log at p.
InHand(k, p) ==
  /\ phase[k] \in PhasesOf(k)
  /\ k = "TicketSold" => p \in snapshots
  /\ phase[k] \in {"find", "write"} => p \in firstSales
  /\ k = "ResoldTicket" => local[k].row \in RowsOf(chain[p].wallet)
  /\ k \in {"CancelledResellTicket", "BoughtTicket"} =>
       local[k].listing # NoListing /\ listing[chain[p].sale] # NoListing

HandInv ==
  /\ \A k \in Kinds : phase[k] # "idle" => \E p \in DOMAIN chain : At(k, p) /\ InHand(k, p)
  /\ \A k \in Kinds : local[k].row <= Len(tickets)

LedgerInv == SaleInv /\ ListingInv /\ HandInv /\ MarketAtomic /\ RefundHasRow
===============================================================================
