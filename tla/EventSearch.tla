------------------------------ MODULE EventSearch ------------------------------
(***************************************************************************)
(* Which events the searches show, of the rows that EventPublication       *)
(* keeps: to users (searchEventsForUser, getUpcompingEvent), to organizers *)
(* (searchEventsForOrganizer) and on the marketplace                       *)
(* (getEventsForMarketplace), and what the details of an event ask the     *)
(* chain for (getEventDetails).                                            *)
(*                                                                         *)
(* A query is its condition.  What an event is to one search, apart from   *)
(* its status, is a record of facts.  TypeORM joins the conditions of      *)
(* where and andWhere with AND and puts no parentheses around them, so an  *)
(* OR inside one of them splits the whole list.  Ranks, order and pages    *)
(* are left out.                                                           *)
(***************************************************************************)
EXTENDS EventPublication

\* The rows of ticket_sale_transactions of an event's tiers that a marketplace
\* query joins: none, none that sells within the bounds of the price, first
\* sales only, or resales as well.
Offers == {"none", "unfit", "first sales", "resales"}

Facts ==
  [nameLike : BOOLEAN,   \* its name contains the value
   organizerLike : BOOLEAN,
   words : BOOLEAN,      \* its search_vector matches the words of the value
   organizerWords : BOOLEAN,
   sellOpen : BOOLEAN,   \* sell_end_date >= now
   eventOpen : BOOLEAN,  \* event_end_date >= now
   upcoming : BOOLEAN,   \* event_start_date > now
   price : BOOLEAN,      \* the bounds that are given hold of one of its tiers
   dates : BOOLEAN,      \* the dates that are given hold
   offers : Offers,
   own : BOOLEAN]        \* whoever searches is its organizer

\* The bounds of the price that a search gives.
Bounds == SUBSET {"min", "max"}

-------------------------------------------------------------------------------
\* Slip to catch: :draftStatus is bound to what it says.
SearchOfDrafts(status, f) ==
  \/ f.sellOpen /\ status = "draft" /\ f.nameLike
  \/ f.organizerLike /\ f.words
  \/ f.organizerWords /\ f.price /\ f.dates

\* sell open AND published AND name OR organizer AND words OR words of the
\* organizer AND price AND dates.
SearchEventsForUserWithValue(status, f) ==
  \/ f.sellOpen /\ status = "published" /\ f.nameLike
  \/ f.organizerLike /\ f.words
  \/ f.organizerWords /\ f.price /\ f.dates

\* Slip to catch: the status is not asked for, as in getUpcompingEvent.
SearchOfAnyStatus(status, f) ==
  status \in Statuses /\ f.eventOpen /\ f.price /\ f.dates

SearchEventsForUserWithoutValue(status, f) ==
  status = "published" /\ f.eventOpen /\ f.price /\ f.dates

GetUpcompingEvent(status, f) == status \in Statuses /\ f.upcoming

SearchEventsForOrganizer(status, f, value) ==
  status \in Statuses /\ f.own /\ (value => f.words)

GetEventsForMarketplaceWithoutValue(f) ==
  f.sellOpen /\ f.offers = "resales" /\ f.dates

\* The dates, the query and its answer are all inside the branch for a search
\* with nothing but an upper bound; any other is answered with nothing.
GetEventsForMarketplaceWithValue(bounds, f) ==
  /\ bounds = {"max"}
  /\ \/ f.words /\ f.offers # "none"
     \/ /\ f.organizerWords /\ f.sellOpen /\ f.dates
        /\ f.offers \in {"first sales", "resales"}

\* The ids that getRemainingTickets is asked about, on chain.
GetEventDetails(e) ==
  IF row[e].status = "published" THEN {row[e].onChainId} ELSE {}

\* The statuses with which users who search find an event at most through the
\* name of its organizer, and not on the marketplace before it is sold, ...
Hidden == {status \in Statuses : \A f \in Facts :
  /\ ~SearchEventsForUserWithoutValue(status, f)
  /\ SearchEventsForUserWithValue(status, f) =>
       f.organizerLike \/ f.organizerWords
  /\ f.offers = "none" =>
       /\ ~GetEventsForMarketplaceWithoutValue(f)
       /\ \A b \in Bounds : ~GetEventsForMarketplaceWithValue(b, f)
  /\ f.own => SearchEventsForOrganizer(status, f, FALSE)}

\* ... and those with which they find it wherever they should.
Shown == {status \in Statuses : \A f \in Facts :
  /\ f.sellOpen /\ f.nameLike => SearchEventsForUserWithValue(status, f)
  /\ f.eventOpen /\ f.price /\ f.dates =>
       SearchEventsForUserWithoutValue(status, f)
  /\ f.upcoming => GetUpcompingEvent(status, f)
  /\ f.sellOpen /\ f.dates /\ f.offers = "resales" =>
       /\ GetEventsForMarketplaceWithoutValue(f)
       /\ f.words => GetEventsForMarketplaceWithValue({"max"}, f)
  /\ f.own => SearchEventsForOrganizer(status, f, f.words)}

-------------------------------------------------------------------------------
\* Before the log that creates an event is recorded, users do not find it
\* without a value, find it by one only through the name of its organizer, and
\* not on the marketplace, where nothing of it is sold yet; whatever polls,
\* edits and handlers write on what they read earlier (searchEventsForUser,
\* getEventsForMarketplace over the rows that checkEventCreationStatus and
\* handleCreateEvent publish; the list of upcoming events shows drafts).
UnrecordedHidden == \A e \in Events :
  Present(e) /\ (\A tx \in snapshots : about[tx] # e) =>
    row[e].status \in Hidden

\* An event of which a client was told that it is published is found by its
\* name while it is sold, without a value until it ends, and on the marketplace
\* once it is resold, and its details ask the chain for its own tickets, unless
\* a request wrote on an outdated read (checkEventCreationStatus against
\* searchEventsForUser, getEventsForMarketplace and getEventDetails).
ToldIsFound == \A e \in told :
  \/ /\ row[e].status \in Shown
     /\ GetEventDetails(e) # {}
     /\ \A id \in GetEventDetails(e) : about[id] = e
  \/ blame \cap {"stale poll", "stale edit", "no row"} # {}
===============================================================================
