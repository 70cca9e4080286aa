----------------------------- MODULE TicketQueries -----------------------------
(***************************************************************************)
(* What users are shown of the tables that the handlers of TicketLedger    *)
(* keep: the marketplace's page of an event, the details of a tier's       *)
(* resales, the search by price, a seller's own page and a user's          *)
(* inventory (NftTicketsService, TicketSaleTransactionsService).           *)
(*                                                                         *)
(* Four queries decide in four ways which resales are on offer, by status, *)
(* remainder, or a join.  One tier; words, limits of price and pages are   *)
(* left out, so a query is the set of rows that it selects.                *)
(*                                                                         *)
(* ticket_sale_transactions also holds the rows that polls draft for       *)
(* resales (StatusPolling).  They have a seller and a remainder, and only  *)
(* the seller's page asks for no more.  Pending rows and rows of purchases *)
(* have no remainder, and no query here selects them.                      *)
(***************************************************************************)
EXTENDS TicketLedger

CONSTANTS
  Organizer,      \* wallet address of the event's organizer
  MaxDrafts       \* bound: number of drafts

\* Wallets are finitely many, so that what they hold can be added up.
ASSUME WalletsAssumption == IsFiniteSet(Wallets)
ASSUME DraftsAssumption == MaxDrafts \in Nat

VARIABLE drafts   \* sellers of the drafted rows, in the order of the inserts

queryVars == <<vars, drafts>>

\* A poll asks about a resale that is not recorded, of a transaction that may
\* yet be mined or fail.  The handler looks for a row with the hash and the
\* sale_id, finds none and adds its own, so a draft stays as it is.
DraftResale == \E w \in users :
  /\ Len(drafts) < MaxDrafts
  /\ drafts' = Append(drafts, w)
  /\ UNCHANGED vars

QueryInit == Init /\ drafts = <<>>

\* The steps of TicketLedger leave the drafts alone.
QueryNext ==
  \/ DraftResale
  \/ FirstSell /\ UNCHANGED drafts
  \/ ResellTicket /\ UNCHANGED drafts
  \/ BuyTicket /\ UNCHANGED drafts
  \/ CancelResellTicket /\ UNCHANGED drafts
  \/ Register /\ UNCHANGED drafts
  \/ SaveSnapshot /\ UNCHANGED drafts
  \/ SaveFirstSale /\ UNCHANGED drafts
  \/ FindBuyerTicket /\ UNCHANGED drafts
  \/ CreditBuyer /\ UNCHANGED drafts
  \/ FindSellerTicket /\ UNCHANGED drafts
  \/ CommitResold /\ UNCHANGED drafts
  \/ FindSale /\ UNCHANGED drafts
  \/ FindPurchaserTicket /\ UNCHANGED drafts
  \/ CommitBought /\ UNCHANGED drafts
  \/ FindCancelledSale /\ UNCHANGED drafts
  \/ CommitCancelled /\ UNCHANGED drafts
  \/ \E k \in Kinds :
       \/ SkipRecorded(k) /\ UNCHANGED drafts
       \/ Lose(k) /\ UNCHANGED drafts
       \/ Abort(k) /\ UNCHANGED drafts
       \/ Rewind(k) /\ UNCHANGED drafts

QuerySpec == QueryInit /\ [][QueryNext]_queryVars

-------------------------------------------------------------------------------
(* The queries. *)

\* Slip to catch: whatever is not closed is shown.
NotClosed == {s \in Places : listing[s].status \in {"selling", "sold"}}

\* status = 'selling' AND sale_id IS NOT NULL; first sales have no sale_id.
GetResaleTicket == {s \in Places : listing[s].status = "selling"}

\* The same, AND remainingQuantity > 0.
GetResaleTicketDetails ==
  {s \in Places : listing[s].status = "selling" /\ listing[s].remaining > 0}

\* First sales are rows of the organizer's that keep what was sold as their
\* remainder.
FirstSalesOf(w) == IF w = Organizer THEN firstSales ELSE {}

\* Slip to catch: closed resales, which keep their remainder, are not left out.
SellingUnlessSoldOut(w) ==
  [recorded |-> FirstSalesOf(w) \cup
                  {s \in Places : /\ listing[s] # NoListing /\ chain[s].wallet = w
                                  /\ listing[s].remaining > 0},
   drafted |-> {d \in DOMAIN drafts : drafts[d] = w}]

\* seller = w AND remainingQuantity > 0 AND status != 'closed': rows that the
\* handlers have recorded, and drafts.
GetSellingTicketByUserId(w) ==
  [recorded |-> FirstSalesOf(w) \cup
                  {s \in Places : /\ listing[s] # NoListing /\ chain[s].wallet = w
                                  /\ listing[s].remaining > 0
                                  /\ listing[s].status # "closed"},
   drafted |-> {d \in DOMAIN drafts : drafts[d] = w}]

\* status = 'selling' alone, which the organizer's first sales keep for ever;
\* one line for each row of nft_tickets with the same tier.
GetResaleTicketByPrice ==
  (firstSales \cup {s \in Places : listing[s].status = "selling"})
    \X DOMAIN tickets

\* Slip to catch: the rows of all owners.
InventoryOfAnyone(w) == {r \in DOMAIN tickets : tickets[r].quantity > 0}

\* One line for each of the user's rows.
GetNftTicketsByUser(w) == {r \in RowsOf(w) : tickets[r].quantity > 0}

-------------------------------------------------------------------------------
\* The lists name the same resales, although one asks for the status, one for
\* the remainder, one for both, and one joins the rows of the tickets, which
\* could hide a resale.  Of what the handlers have recorded, a seller is shown
\* on sale what others can find of the seller's, nothing that is cancelled or
\* sold out, and an organizer all first sales besides.  (The page also has the
\* seller's drafts, so a resale that was polled for early stands on it twice,
\* and a draft of a transaction that failed stays for ever.)  The queries are
\* getResaleTicket, getResaleTicketDetails, getSellingTicketByUserId and
\* getResaleTicketByPrice.
ListsAgree ==
  /\ GetResaleTicket = GetResaleTicketDetails
  /\ GetResaleTicket = {line[1] : line \in GetResaleTicketByPrice} \ firstSales
  /\ \A w \in Wallets \cup {Organizer} :
       GetSellingTicketByUserId(w).recorded \ FirstSalesOf(w)
         = {s \in GetResaleTicket : chain[s].wallet = w}

\* The resales that the recorded logs leave open, neither cancelled nor sold out.
RecordedCancel(s) ==
  \E p \in snapshots : chain[p].kind = "CancelledResellTicket" /\ chain[p].sale = s
Open ==
  {s \in snapshots \cap LogsOf("ResoldTicket") :
     /\ ~RecordedCancel(s)
     /\ Total(BoughtFrom(s) \cap snapshots) < Amount(s)}

\* Whatever the jobs are doing, every resale that the recorded logs leave open
\* is on offer.  A resale that is on offer but not open is a cancelled one that
\* was also bought from: of the reorderings of four jobs only a purchase can
\* bring back what a cancellation has closed, and only one that had read the
\* sale before (getResaleTicket against handleBoughtTicketEvent, which saves
\* the status with the row, and handleCancelledResellTicketEvent).
OffersOpen ==
  /\ Open \subseteq GetResaleTicket
  /\ \A s \in GetResaleTicket \ Open :
       RecordedCancel(s) /\ BoughtFrom(s) \cap snapshots # {}
  /\ "reopened" \notin blame => GetResaleTicket = Open

ShownOf(w) ==
  LET quantity(r) == tickets[r].quantity
  IN  MapThenSumSet(quantity, GetNftTicketsByUser(w))

ShownOnSale ==
  LET remaining(s) == listing[s].remaining
  IN  MapThenSumSet(remaining, GetResaleTicketDetails)

\* Between inventories and marketplace no ticket is lost or shown twice: what
\* the users' inventories and the resales on offer show together is what first
\* sales have credited, unless a cause of drift has struck; a resale moves
\* tickets from a row of nft_tickets to a listing, a purchase or a cancellation
\* moves them back, whatever is interrupted, redelivered or passed over
\* (getNftTicketsByUser, getResaleTicketDetails).
TicketsConserved ==
  blame = {} =>
    MapThenSumSet(ShownOf, Wallets) + ShownOnSale = Total(credited)
===============================================================================
