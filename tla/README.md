# A verification project for the NFT ticketing backend

The repository is a NestJS backend for an NFT ticketing platform. Organizers
prepare events as drafts, publish them through a transaction on a blockchain,
and fans buy tickets and resell them through contracts. The backend keeps a
PostgreSQL mirror of what happens on chain: cron jobs poll the logs of five
kinds of contract event and write them into tables that the web client, the
search and the revenue charts read. It holds no lock, has few transactions, and
runs everything on one event loop, so whatever can go wrong goes wrong between
two `await`s: of two jobs, of a job and a request, of two requests, or of a run
and the restart of the process.

These modules model that behaviour, TLC checks them on small instances, and
TLAPS proves the main results for every value of the constants. Paths below are
relative to `src/src/`.

## 1. The system

| Component | Code | State | Operations |
|---|---|---|---|
| Polling scheduler and ingestion loop | `services/cron-job.service.ts`, `blockchain-event-processor.service.ts` (`runJob`, `handleGetLatestBlock`, `queryEvents`), `caches.service.ts` | a flag and a cached cursor per job, rows of `blockchain_snapshots` | tick, read the cursor, query a range, hand over each log, store the cursor |
| Ticket ledger handlers | `handleTicketSoldEvent`, `handleResoldTicketEvent`, `handleCancelledResellTicketEvent`, `handleBoughtTicketEvent` | `nft_tickets`, `ticket_sale_transactions`, `blockchain_snapshots` | one handler for each kind of log |
| Status polling | `services/blockchain-snapshots.service.ts` | draft and pending rows of `ticket_sale_transactions` | verify a resale's creation, its cancellation, a purchase |
| Event publication | `handleCreateEvent`, `events.service.ts` (`checkEventCreationStatus`, drafts) | the row of `events` | save, update, publish, delete a draft; poll; handle CreateEvent |
| Rows below a draft | `ticket-tiers`, `artist-classes`, `artists` services | `ticket_tiers`, `artist_classes`, `artists` and the join tables | create, replace, number, delete |
| Accounts and onboarding | `auth.service.ts`, `users.service.ts`, `organizer-details.service.ts`, `sc.service.ts` | `users`, `organizer_details`, the contract's whitelist | sign in, become an organizer, edit a profile |
| Sessions | `auth.service.ts` (`verifyUser`, `encodeRefreshToken`, `refreshToken`, `signOut`) | `refresh-tokens`, cookies | issue, exchange, revoke |
| Ticket and resale queries | `nft-tickets.service.ts`, `ticket-sale-transactions.service.ts`, `controllers/marketplace.controller.ts` | none of their own | inventories, resales on offer |
| Event search and details | `events.service.ts` (`search…`, `getEventsForMarketplace…`, `getEventDetails`) | none of their own | SQL builders, ranks, pages |
| Revenue and ticket statistics | `revenue-chart.service.ts`, `controllers/tickets.controller.ts` (`getTicketsSoldStats`) | none of their own | periods, sums by period, questions to the contract |
| Draft payload checks | `events.service.ts` (`verifyEventDraft`, `parseArray…`), `dto/` | none | conversions |
| Files, metadata | `files.service.ts`, `ipfs.service.ts` | none | Cloudinary, Pinata |
| HTTP layer, bootstrap, configuration | `controllers/`, `common/`, `main.ts`, `config/` | none | routing, guards, pipes |

How they interact:

* The scheduler starts one job per kind of event. A job fetches logs and calls
  the handler of its kind for each; only the order of logs *within* a kind is
  kept, and a log may be delivered again (after an exception, after an expired
  cursor, after a restart) or never (a start without cursor and snapshots).
* The four handlers of tickets share rows: a sale opens with ResoldTicket,
  shrinks with BoughtTicket, closes with CancelledResellTicket, and three of
  them and TicketSold change the same rows of `nft_tickets`.
* A client sends a transaction by itself and then polls the backend with its
  hash. The poll answers from `blockchain_snapshots`, and *writes* when it finds
  nothing: a pending row that the handler should find later, or the hash in the
  draft's row without which `handleCreateEvent` cannot find the event at all.
* Requests about drafts write the same row of `events` as polls and handler.
* TicketSold looks up its event by the id on chain, which `handleCreateEvent`, or
  the poll that finds the creation recorded, saves in the row of `events`.
* `verifyUser` inserts the wallets that the handlers look for as owners, and
  issues the first refresh token of a session, which `refreshToken` exchanges and
  `signOut` revokes, while the browsers' cookies lag behind.
* Queries, searches and statistics read the tables of all of these while they
  are being written; an answer may be made of several queries, and of questions
  to the contract that are asked one after the other.

What is hard: overlapping ticks; redelivery and loss; five jobs in any relative
order; rows that are read, awaited over and written back (TypeORM's `save`
reads the row again and writes every column that differs from the entity, so a
stale entity undoes other writers, and inserts a row that was deleted; `update`
does nothing without a row); transactions at READ COMMITTED; inserts guarded by
a `find`; deletes that are started and not awaited; a process that ends on an
unhandled rejection; operations of many writes that stop half way; answers that
are lost after the write; tokens that are equal strings; conditions whose `OR`
binds otherwise than it looks; months and weeks of unequal length.
`PROJECT.json` lists each such hazard at the line where it bites, with the
properties that would catch it.

## 2. The modules

| Module | Models | Proofs | Instances for TLC |
|---|---|---|---|
| `IngestJob` | scheduler and ingestion loop of one job | `IngestJobProofs` | `MCIngestJob` + 2 cfgs |
| `LogDelivery` | what a job promises to the handler of its logs | `IngestJobProofs` (`Implementation`) | through `IngestJob` |
| `TicketLedger` | the four ticket handlers, interleaved | `TicketLedgerProofs` | `MCTicketLedger` + 2 cfgs |
| `TicketQueries` | what inventories and lists of resales show of the ledger | `TicketLedgerProofs` | `MCTicketLedger` |
| `StatusPolling` | polls of resales and purchases next to the handlers | `StatusPollingProofs` | `MCStatusPolling` + 2 cfgs |
| `EventPublication` | the row of an event: drafts, polls, CreateEvent | `EventPublicationProofs` | `MCEventPublication` + 2 cfgs |
| `EventSearch` | what searches show of those rows | `EventPublicationProofs` | `MCEventPublication` |
| `EventDrafts` | the rows below a draft | `EventDraftsProofs` | `MCEventDrafts` + 1 cfg |
| `Accounts` | sign-in, onboarding, profiles | `AccountsProofs` | `MCAccounts` + 1 cfg |
| `Sessions` | refresh tokens and cookies of a user | `SessionsProofs` | `MCSessions` + 1 cfg |
| `Periods` | the calendar of the statistics: periods, comparison, weeks | `StatisticsProofs` | through `Statistics` |
| `Statistics` | answers of statistics, read while sales are recorded | `StatisticsProofs` | `MCStatistics` + 1 cfg |

`IngestJob` implements `LogDelivery`: through ticks, ranges, cursors, failures
and restarts, what a handler sees is logs in order, each at least once, none
recorded twice. `TicketQueries` EXTENDS `TicketLedger` and `EventSearch` EXTENDS
`EventPublication`: the queries are operators over the handlers' tables, and
their properties are about what a reader sees at any moment of the writers'
interleaving. `Statistics` uses `Periods`.

The other modules compose by assumption. `TicketLedger` and `EventPublication`
take the delivery of logs as the environment of their handlers (`upTo`,
`Abort`, `Rewind`, `Lose`, `ColdStart`), and allow more than `LogDelivery` does:
a set-back cursor may go to any earlier place, and a log may be passed over at
any time, since their own `catch` swallows errors. `StatusPolling` does the same
per transaction (`Interrupt`, and job = "passed"), and relies on the commits of
`TicketLedger` being atomic, which is `MarketAtomic` there.

Each handler or request is one action per stretch of code between two awaits
that touch shared state; awaits that only read what nobody else writes are
joined with the next. A `pc`, `phase` or `at` says which await is pending. Data
is reduced to what the properties tell apart: a log is its block and index, or
its place in the chain, a payload is the request that brought it.
Variables whose comment says *history*, and the last four of `Accounts` and
three of `EventDrafts`, record causes for the properties and guard nothing.

### IngestJob

`Tick` is `handleCron` up to the flag; `GetCurrentBlock`, `ReadCache`,
`ReadLatestFromDb` are the head of `runJob` with `handleGetLatestBlock`;
`Query`, `SaveSnapshot`, `FinishLog`, `FinishRange` the loop over ranges and
over logs; `StoreCursor` the `cache.set`; `FinishRun` and `Throw` the `finally`
that releases the flag. `RangeError` is the branch of `runJob` for a provider
that refuses the range. `MineBlock`, `ExpireCache`, `Restart` are the
environment. The provider's `getBlockNumber` may lag by `MaxLag` blocks.

Properties: `DeliversInOrder` (the job implements `LogDelivery`: nothing is
recorded or finished before what precedes it), `NoGap` (no log between followed
ones is skipped behind the cached cursor), `CursorMonotone` (a stored cursor is
never rewound, only lost), and `EventuallyHandled` (when faults stop, every
followed log is handled). Proved besides: `NoGapBehindSnapshot` (no gap between
two snapshots, where a restart resumes) and `OneRun` (one run at a time, exactly
under its flag).

### TicketLedger

One tier of one event. `Contracts` emits the logs that contracts can emit:
nobody resells more than he holds, buys more than is listed, or cancels a closed
sale. Each job has a `phase` and a `local` record of what it has read. TicketSold
runs without transaction (`SaveSnapshot`, `SaveFirstSale`, `FindBuyerTicket`,
`CreditBuyer`, four commits); the marketplace handlers read in one action
(`Find…`) and commit in another (`Commit…`), since at READ COMMITTED other jobs'
commits fall in between. Their `catch` swallows errors, which is `Lose`.
`Register` is the sign-in of a wallet.

`MarketAtomic`: a marketplace snapshot is there exactly when everything its
handler writes is. `RemainingExact`: a listing's remainder is what was listed
less every purchase recorded, once each. `RefundHasRow`: a cancellation finds a
row to give back to. `NeverNegative`. `TicketsExact`: every wallet's rows add up
to the logs applied, unless one of three causes recorded in `blame` has struck:
a row written on a stale read, a row of the wrong owner (the query without owner
for a buyer who has not signed in), a refund before an earlier purchase of the
sale was handled. The property says these three are *all*.

### TicketQueries

`GetResaleTicket`, `GetResaleTicketDetails`, `GetSellingTicketByUserId`,
`GetResaleTicketByPrice` and `GetNftTicketsByUser` are the rows those queries
select. Beside the ledger's tables stand the rows that polls draft for resales
(`DraftResale`, one variable, `drafts`, by seller): the handlers never complete
or delete them, and the seller's page is the one list that does not leave them
out, as it asks for no `sale_id` and only that the status is not *closed*. It
shows an organizer's first sales for the same reason. `GetSellingTicketByUserId`
therefore has two parts, the rows that handlers have recorded and the drafts.

`ListsAgree`: the lists by status, by status and remainder, and by a join name
the same resales at every moment, and the recorded resales on a seller's page
are the seller's among them. What the page has besides is said in the property:
first sales, and drafts. `OffersOpen`: every resale that the recorded logs leave
open is on offer; one that is on offer and not open has been cancelled and also
bought from, since only a purchase that had read the sale before can put it
back, and without such a stale write the two sets are equal.
`TicketsConserved`: inventories and resales on offer together show what first
sales have credited, unless a cause of drift has struck.

### StatusPolling

One resale with its purchases and cancellations, and new resales. `BeginPoll`,
`ReadSnapshot`, `FindRow`, `InsertRow`, `AnswerClosed` are the awaits of the
three `verify…Status` methods; `FindPendingRow`, `CommitBought`, `CommitResold`,
`CommitCancelled`, `ListSale` the handlers as far as their rows go; `Interrupt`
an interruption after which the log comes again.

`SoldOnce`: a purchase is one sold row exactly, whatever rows polls add.
`SuccessIsTrue`: what a client was told is in the tables. `NoRetreat`: a poll
that begins after *success* was told for its transaction is answered *success*
and adds no row. There is one exception: the code answers the poll of a
cancellation from the sale's status when the cancellation itself is not recorded
(a second attempt, whose transaction changes nothing). While a purchase that had
read the sale before another cancellation closed it has put it back on offer
(`Reopened`), such a poll is told *pending* again. `RowsBounded`: polls do not pile up rows.
`EventuallyTold`: a client that keeps asking is told.

### EventPublication

`CreateDraft`, `BeginEdit`, `BeginDelete`, `CheckDraft`, `RefindEvent`,
`DeleteRow`, `Recreate`, `Offer`, `PublishNew` are the drafts' endpoints as far
as the row of `events` goes; `Send` and `Mine` the client and the chain;
`BeginPoll`, `LookUp`, `AnswerPending`, `AnswerPublished` are
`checkEventCreationStatus`; `RecordLog`, `RetakeRecorded`, `FindEvent`,
`WaitForEvent`, `GiveUp`, `SaveEvent` are `handleCreateEvent` with its retries.

`PublishedIsReal`: a published row's hash, id and event belong together.
`PendingSettles`, `AddressKnown`: a row is stuck in pending, or without ticket
address, only through a cause in `blame` (a poll or an edit that wrote on an outdated read, a poll that
found no row, a handler that gave up after its retries).
`EventuallyPublished`: otherwise a waiting row is published in the end.

`ToldStays`, which only says that the row stays published, is proved;
`ToldIsFound` says more.

### EventSearch

A search is its condition over the status of a row and a record of facts about
the event, precedence of AND and OR included. `UnrecordedHidden`: an event whose
creation is not recorded is found at most through the name of its organizer.
`ToldIsFound`: an event of which a client was told that it is published is found
by every search that should find it, and its details ask the chain for its own
tickets, unless a request wrote on an outdated read.

### EventDrafts

The rows below a draft, named by the request that wrote them. An update deletes
everything and inserts it again; the deletes of tiers, classes and artists are
in `deleting` until `ExecuteDelete` takes them in any order that the foreign
keys let through, and `RejectDelete` ends the process. One organizer, one artist
to a class; `save`'s select-then-insert is one step.

`DraftWhole`: a settled draft has exactly the rows of the request that wrote it;
a request that is alone heals what others left in pieces. `MetadataCurrent`: the
metadata names all tiers with their numbers. `NamesDistinct`: two drafts of one
name were saved across each other, or come from an endpoint that does not look.

### Accounts

`FindUser`, `SignUp`, `Answer` are `verifyUser`; `SaveNewUser`, `SaveNewDetail`,
`SaveDetail`, `SaveRole`, `Whitelist` the branches of `verifyWalletOrganizer`;
`SaveProfile`, `FindDetail`, `SaveInformation` are `updateUser` and
`updateOrganizerInformation`. `Reject` is an await that rejects or the end of the
process, and may leave a whitelist transaction that is mined all the same.

`RoleHasDetail` and `DetailHasRole`: role and details of a wallet that nobody is
onboarding agree, unless its onboarding broke off between the two writes, its
email was in use, or a profile wrote back an old role. `SessionWhitelisted`: an
organizer's tokens go with the whitelist. `ProfileKept`: a field of a profile
has the value last written to it, unless two requests wrote the user at once.

### Sessions

`Send` is a browser's request with its cookie; `SignIn` the tokens of
`verifyUser`; `FindRow`, `Deny`, `KeepToken`, `InsertNext`, `RevokeOld` the awaits
of `refreshToken` with and without rotation; `RevokeToken`, `FailToRevoke` those
of `signOut`; `Deliver` an answer that arrives; `Lose`, `Restart`, `DropCookie`,
`Tick` the environment. A token is the second in which it was signed, as equal
seconds make equal strings.

`OneLiveRow`: a session has one live row, two during an exchange. `SignOutEnds`:
after sign-out none. Both except sessions on which two requests worked at once,
of which an answer or a write was lost, or whose token another session shares
(`Disturbed`); so these three are all that the code leaves open. `JarBacked`: a
browser is not locked out: its cookie is the token of a live row, or expired, or
new ones are on their way, unless the session was broken off or its token is
that of two rows.

### Periods and Statistics

`Periods` is a calendar by days, with the months' true lengths, and the code's
arithmetic on it: `Period`, `Previous`, `Week` and the rank of weeks.
In `Statistics` a request (`Ask`) makes its queries in the order of the awaits
(`Read`) while handlers record sales (`Sell`); another one (`AskSold`) asks the
contract for one tier after the other (`CountTier`) while tickets are bought (`Buy`).

`PeriodsCompared`: each period is compared with as many days before it, for
every day of the calendar, except for the days that the property names.
`PartsAgree`: the parts of one answer differ at most by sales recorded while it
was made. `LabelsInOrder`: *Week n* of a chart is the n-th week with sales,
unless the month has days of another year's week.
`SoldBetween`: what an answer says was sold lies between what was sold at its
beginning and at its end.

## 3. What TLC checks

Each property has a mutant: a plausible slip (comment "Slip to catch" in the
modules) that makes TLC find it violated under the same configuration.

| Run | Bounds | Why they are enough |
|---|---|---|
| `ingest_safety` | 2 ticks, 4 blocks of 2 logs, ranges of 2, provider limit 1, lag 1 | two ticks overlap, two ranges and a half-done range fit, a snapshot can lie between two logs of a block |
| `ingest_retry` | as `ingest_safety` | expected violation, see below |
| `ledger_races` | 4 logs, 2 wallets, amounts 1 and 2, both registered | four logs are a sale, a resale and two of purchase and cancellation: every pair of handlers meets over one row; a sale of two is cancelled after a purchase of one, so that it can be put back on offer; the queries are checked in every state |
| `ledger_signup` | 4 logs, 2 wallets, amount 1, nobody registered, 1 draft | buyers sign up while their logs are handled; a draft stands next to the resales of its seller and of the other wallet |
| `polling_safety` | 1 purchase, 2 cancellations, 1 resale, 2 requests | two polls of one transaction and its handler interleave; one cancellation is recorded and the other is not, and the purchase can come between |
| `polling_live` | 1 of each, 1 request | |
| `publication_safety` | 1 draft, 2 transactions, 2 requests, 2 retries, 1 fault | a draft published twice; poll against poll, edit, delete and handler; searches over every state, for every record of facts |
| `publication_live` | 1 draft, 2 transactions, 1 request, 2 faults | |
| `drafts_races` | 3 requests, 2 at a time, 2 tiers and 1 class or 1 tier and 2 classes, 1 name, 1 fault | save, replace, heal; the third request shows healing; the list of artists grows by class |
| `accounts_onboarding` | 4 requests, 2 wallets, 2 emails, 2 faults | two requests for one wallet meet, an email is taken by the other, and a retry follows a failure |
| `sessions_rotation` | 2 browsers, 2 requests at a time, 3 rows, 3 seconds, life time 1 | a session is exchanged twice, or next to another one; tokens expire; equal seconds occur |
| `statistics_periods` | five days around the ends of months and years, in a calendar of 38 months from 2022, 2 instants a day, 2 tiers, 2 sales | a leap year, 31st days before shorter months, and years that begin and end within a week; a sale before, between and after any two reads |

What is proved of every instance and is no more than a type, or is implied by
another property of the same run, is not run again (section 4 lists it), but for
`TypeOK` of `Statistics`, which also bounds the sum over the tiers.
`Retries` is 2 where the code has 5: the retries differ only in number.
`MaxHead`, `MaxLogs`, `Indexes`, `Amounts`, `MaxFaults`, `MaxInFlight`, `Rows`,
`MaxSecond`, `Months`, `Days`, `Dates`, `Supply`, `MaxSales` are bounds of the
model, named so where they are declared; `BatchSize`,
`MaxBlocksPerQuery`, `Retries`, `Ttl` are the code's. `Parts` instants stand for
the milliseconds of a day: the first, the last and what lies between.
`CHECK_DEADLOCK FALSE` stands in the configurations of `EventDrafts` and
`Accounts` alone, whose requests are used up; the others never stop.

**Fairness.** `IngestJob`: the chain grows, the cron expression fires every ten
seconds (weak fairness of some tick), and an await that does not reject returns.
Faults are not fair, and `EventuallyHandled` is about behaviours in which they
stop. `StatusPolling`: logs are delivered and handlers continue, which is
`EventuallyHandled` of `IngestJob`; a client repeats its poll (strong fairness,
since the moments at which a request is free come and go). `EventPublication`:
only the handler is fair; no client has to do anything.

**The expected violation** is `RetryShrinks`. The comments of `runJob` say that a
refused range is retried smaller ("reduce the range and try again", "Cut the
batch size in half and try again", "so we retry with a smaller range",
`services/blockchain-event-processor.service.ts:170-176`). The code continues
without changing anything, so the same range is asked for again.

**What the properties leave open.** Where the code does go wrong, a property says
in which cases: `blame` in the ledger and in `EventPublication`, the history
variables of `Accounts` and `EventDrafts`, `Disturbed` in `Sessions`, `Wraps` in
`Periods`. Such a property does not exclude the race; it says that the named
causes are all there are. `TicketsExact` in particular adds up the logs that were
applied: a first sale that was passed over, because its event had no id yet or
its handler was interrupted after the snapshot, is not held against it.

## 4. What is proved

The provers check these for every value of the constants (any number of
requests, wallets, logs, retries and faults).

| Module | Obligations | Theorems |
|---|---|---|
| `IngestJobProofs` | 600 | `TypeCorrect`, `NoGapAlways`, `NoGapBehindSnapshotAlways`, `RunsExclude`, `CursorNeverRewinds`, `Implementation` |
| `TicketLedgerProofs` | 5294 | `LedgerTypes`, `MarketAtomicAlways`, `RefundHasRowAlways`, `RemainingExactAlways`, `NeverNegativeAlways`, `TicketsExactAlways`, `ListsAgreeAlways`, `OffersOpenAlways`, `TicketsConservedAlways` |
| `StatusPollingProofs` | 767 | `PollingTypes`, `SoldOnceAlways`, `SuccessTrueAlways`, `NoRetreatAlways`, `RowsBoundedAlways` |
| `EventPublicationProofs` | 807 | `PublicationTypes`, `PublishedIsRealAlways`, `PendingSettlesAlways`, `AddressKnownAlways`, `ToldStaysAlways`, `UnrecordedHiddenAlways`, `ToldIsFoundAlways` |
| `AccountsProofs` | 1071 | `AccountTypes`, `RoleHasDetailAlways`, `DetailHasRoleAlways`, `SessionWhitelistedAlways`, `ProfileKeptAlways` |
| `SessionsProofs` | 2405 | `SessionTypes`, `OneLiveRowAlways`, `SignOutEndsAlways`, `JarBackedAlways` |
| `EventDraftsProofs` | 2274 | `DraftTypes`, `DraftWholeAlways`, `MetadataCurrentAlways`, `NamesDistinctAlways` |
| `StatisticsProofs` | 1512 | `StatisticsTypes`, `PeriodsComparedAlways`, `PartsAgreeAlways`, `LabelsInOrderAlways`, `SoldBetweenAlways` |

Every safety property that a run checks is among them.

Each rests on an inductive invariant, which is a theorem too
(`IngestInvariant`, `LedgerInvariant` and twelve more of the ledger,
`PollingInvariant`, `PublicationInvariant`, `AccountsInvariant`,
`SessionsInvariant`, `CookiesInvariant`, `DraftsInvariant`,
`StatisticsInvariant`, `MonthInvariant`); its conjuncts are at the end of the
component's module, or before the theorem. Why the properties need it:

* **`IngestInv`.** `NoGap` says nothing of a run in progress. `RangeInv` adds
  that the logs of the range in hand are handled or still to do, and that
  between the start of the range and the newest snapshot everything has been
  handled. That ranges overlap by one block and that logs are taken in order is
  what keeps it; `OneRun` keeps a second run from storing an older cursor.
  `Implementation` shows that the initial states of `IngestJob` are initial
  states of `LogDelivery` and every step a step of it or a stutter: the lemma
  `NextIsDue` derives from `IngestInv` that the log in hand is the one due.
* **`LedgerInv` and its layers.** A commit writes what its read has found awaits
  ago. `HandInv` says that job and log still belong together and that rows once
  found stay; `SaleInv` that purchases and cancellations refer to an earlier
  resale. The quantities need more, in layers that are each inductive with those
  before:
  * `ChainInv` is what contracts check: no more is bought of a listing than was
    listed, and a listing is cancelled once, for what is left of it.
  * `FreshInv`: the log in hand has not been applied yet, though it may be
    delivered again. Without it a commit might count a log twice.
  * `ExactInv` is `RemainingExact` with `BoughtReadInv`: what a purchase has read
    of its listing is still what is there when it commits. Only one job takes
    from a listing, and it takes one log at a time.
  * `CancelledReadInv` and `SoldReadInv` say the same of what the other two jobs
    have read: a cancellation may have read too much, never too little, and a
    first sale has found a row of its buyer. `RecordInv` is about the order of
    records.
  * `SignInv` is `NeverNegative` together with the quantities in hand, which
    become quantities of rows.
  * `ClosedInv` and `RefundInv` are what a cancellation leaves of its listing as
    long as no purchase has written back the old status, and no purchase before it
    was still to come. `StatusInv` is what holds even then: a closed listing has
    been cancelled, as has one that a purchase holds as closed, and a cancelled one
    that is not closed has been bought from. `OffersOpen` follows from the two and
    `RemainingExact`, `ListsAgree` from `RemainingExact`, `RecordInv` and the
    conditions of the queries.
  * `TallyInv` is `TicketsExact`, inductive beside the others: each commit moves
    the sum of a wallet's rows as the log it applies moves its holding, or a cause
    of drift strikes in this very step. `ConservedInv` adds up all wallets and all offers:
    a resale and a cancellation move tickets between the two sums, a purchase
    from an offer to a row.
  * What the queries show is proved of `QuerySpec`, where drafts stand beside the
    ledger; `LedgerBesideDrafts` says that it implies `Spec`, so that all that is
    proved of the ledger holds of it too.
* **`PollingInv` and `RetreatInv`.** A success is true because only recorded
  transactions, and closed sales, are answered so (`AnswerInv`), and until then
  the rows of a transaction are those that polls added (`RowsInv`). `NoRetreat`
  needs that a poll which began after a success finds its transaction recorded,
  or asks about a cancellation of a sale that is on offer again (`LaterInv`), and
  that such a sale stays on offer: the chain lets it be cancelled once, and no
  purchase is left that has read it closed (`ReopenedInv`). `BoundInv` counts the
  polls that are about to insert next to the rows: a poll comes to its insert
  only when there is no row, so that the two are never more than the requests.
* **`PublicationInv`.** `RecordedInv` follows a recorded log: it comes again, or
  it has published its row with its address, or a cause has struck.
  `RequestInv` says what a request has in hand between awaits. What searches
  show follows from what a published row says (`PublishedIsReal`, `ToldStays`) by
  their conditions alone (`ShownStatuses`).
* **`AccountsInv`.** `FreshInv`: a row in a request's hand is the row in the
  table unless somebody else writes the same user. `OrganizerInv` and `RoleInv`
  say what an onboarding in flight still owes its wallet.
* **`SessionsInv`.** That a session has one live row is kept only because one
  request works on it and one browser holds it (`Alone`); `Progress` says which
  rows may be live at each of that request's awaits, `Quiet` that otherwise the
  live row is the browser's, so that a sign-out, which revokes by token, meets
  it. Every step is looked at for one undisturbed session (`Untouched`, `Busy`).
* **`BackedInv`.** `JarBacked` is also about sessions on which requests overlap,
  of which `SessionsInv` says nothing. What holds of them is that they stay in
  one browser (`Owned`), and that a row whose token is its own is revoked only by
  a request that came with that token and whose answer is still to come
  (`Backs`); this needs that the token an answer will bring is known to nobody
  before (`Known`). Where rows share a token, `Standing` adds to `SessionsInv`
  that an undisturbed session has a live row at all.
* **`DraftsInv`.** `DraftWhole` says nothing of a request on its way, nor of the
  deletes that outlive the request that started them. `Hand` follows a request
  that is alone from the moment at which its draft has no rows: what it has
  written so far is all there is, and none of it is to be deleted, since a delete
  is started only of rows that are there (`Origin`). `Whole` says the same of a
  draft that nobody is changing. `NamesInv` follows two saves of one name through
  the check. A request changes only what belongs to its draft (`Local`), so a
  step is looked at for one draft.

* **`Inv` of the statistics.** `ReadInv`: of the rows that were there when the
  request came, each query has counted exactly those of its period, whatever was
  recorded since; hence `PartsAgree`. `TallyInv`: the sum over the tiers asked so
  far is at most what they have sold now, and at least what all had sold at the
  start less what the tiers not yet asked have sold now; at the last tier this
  is `SoldBetween`. `MonthInv`: a month's report has a month before and one
  after it.

Two kinds of lemma carry these proofs.

* **Sums.** What wallets hold and what is offered are `MapThenSumSet`s, recursive
  functions over subsets. Their laws (one element more or less, a union of two
  disjoint sets, equal and smaller terms) are the first section of
  `TicketLedgerProofs`. The library's induction theorems take an operator as a
  parameter and cannot be used here; a least counterexample takes their place: a
  minimal subset for which the law fails (`MinimalSubset`), from the library's
  theorem that a well-founded relation has minimal elements. `FirstDay` and
  `SoldUpTo` are running totals and are treated in the same way (`Least`,
  `TotalsExist`, `TotalsAre`).
* **The calendar.** Instants are pairs of day and time of day, and compare like
  pairs (`InstantOrder`), which makes `PeriodsCompared` arithmetic on days once
  it is known that a month has 28 to 31 days (`LengthBounds`) and that a day is
  in one month (`InMonth`). `LabelsInOrder` needs that the Thursdays of a
  month's weeks lie in one year unless its weeks wrap (`SameYear`), so that the
  numbers of weeks are in the order of their Mondays (`WeekOrder`).

Assumptions are only those on constants. Sets of model values are apart and
bounds are natural numbers (`EventAssumption` and the like). `WalletsAssumption`:
the wallets are finitely many, as there is no sum otherwise.
`CalendarAssumption` and `BoundsAssumption`: a day has two instants at least, and
the days asked for have a month before and after them in the calendar, as every
day has in the code's. Some proofs name the causes of drift by operators
(`EarlyRefund` and others) because the solver takes no strings with blanks.

**Model-checked only.** Liveness (`EventuallyHandled`, `EventuallyTold`,
`EventuallyPublished`): fairness and ENABLED are out of the prover's reach. The
violation of `RetryShrinks` is a run by nature.

## 5. What is not modelled, and what was met on the way

* *File stores, HTTP layer*: pure input and output. That uploads and calls may
  reject is part of the modules (`Reject`, `Throw`, `Abort`).
* *Draft payload checks*: `parseArrayTicketTierAndArtistClass` checks the types
  of one payload and keeps nothing; `verifyEventDraft` and `DateOrderConstraint`
  are called by nobody, as the routes take `body: any`.
* *Of the queries and searches*: filters by words, how words match, ranks, pages
  and the format of answers. Queries of one row by its id.
* *Of the statistics*: sums of amounts, percentages, counts of events by status,
  custom periods that begin or end at a time of day.
* *One-time codes*: `sendOtp` and `verifyEmail` keep them in the cache;
  `verifyWalletOrganizer` reads the key and does not use it, so nothing the
  system does depends on them.
* *Access tokens*: they keep no state; which role they carry is in `Accounts`.
  The unit of the refresh token's own life time is left out (`expiresIn` is given
  the number of milliseconds); `expired_at` of the row decides.
* *A second instance of the service*: flags and cursor are in one process's
  memory, and the repository deploys one.
* *Two logs of one kind in one transaction*: a log is named by its transaction's
  hash in the code; the contract methods the code uses emit one such log a call.
* *Contracts*: only the logs and the whitelist are modelled, from how the code
  uses them. Whether `addToWhitelist` reverts for a wallet that is already
  there is not known here; the model takes it not to.
* Nothing in the code writes the status `cancelled`; `getTransactionInfo` never
  returns null, so the `continue` at `blockchain-event-processor.service.ts:286`
  is dead.

Where modelling met code that a comment, a message or an API description says
otherwise of, without a run of its own:

* Two polls at once add two pending rows of one purchase; the handler turns one
  of them into the sold row and the other stays (`RowsBounded` says how many).
* A resale polled before its log ends with a selling row and a draft row (the
  comments at `blockchain-event-processor.service.ts:545` and `:585` speak of
  finding the draft). The seller's page (`getSellingTicketByUserId`) shows both,
  the draft of a transaction that failed for ever, and an organizer's first sales
  with what was sold of them as if it were still for sale.
* A poll for a second cancellation of a sale is told *success* by the sale's
  status, and *pending* once a late purchase has put the sale back on offer
  (`NoRetreat` names it).
* The pending row of a purchase whose transaction failed stays (comment at
  `:783`); nobody counts it.
* A purchase may be polled about a sale that has been closed since.
* `checkEventCreationStatus` may write `pending` after the log was recorded
  (comment at `events.service.ts:907`), and may answer *published* for a draft
  that was deleted meanwhile: the cause "stale poll", or "no row".
* `eventId != event?.id` (`events.service.ts:436`) can never hold of the event
  just looked up by that id, so an update may take the name of another draft,
  although the message is "Event name existed in other draft".
* `parseArrayTicketTierAndArtistClass` drops the payload's id.
* An update never deletes the images it replaces.
* A wallet whose onboarding broke off between details and role cannot be
  onboarded again; a new wallet whose email was taken stays an organizer without
  details. The properties of `Accounts` name both.
* In the search for users an `OR` inside `andWhere` has no parentheses: whoever
  searches for an organizer's name finds his drafts, and events whose sale is
  over. `getUpcompingEvent` asks for no status. `UnrecordedHidden` says so.
* A search on the marketplace with a value is answered with nothing unless it
  gives an upper bound of the price and no lower one.
* `getResaleTicketByPrice` lists first sales too, and each sale once for each
  ticket row of its tier. `ListsAgree` takes that into account.
* The pages of an inventory are counted by tiers, and its lines are rows.
* The month before 31 March is 3 March, so a comparison may count days twice or
  leave them out (`PeriodsCompared` names them); the first day of a custom period
  is in both periods.
* Weeks of a month's chart are labelled by rank of their ISO number: the first
  days of January may come last (`LabelsInOrder`).
* `numberOfEventsEnded` has no bound by the period; revenue sums rows of every
  status, drafts and pending rows of purchases that failed included.
* The `@Query() eventId: string` of the statistics receives the whole query
  object, so the filter by event never applies.
* `checkTicketMintStatus` of the controller neither awaits nor returns.
* Two sign-ins, or exchanges, within one second give the same token for two
  rows; sign-out revokes both (`Disturbed` leaves such sessions out).
* `signOut` answers *success* when its update failed.

## 6. Plan

Done, in the order of weight: `IngestJob` with `LogDelivery`, `TicketLedger`
with `TicketQueries`, `StatusPolling`, `EventPublication` with `EventSearch`,
`EventDrafts`, `Accounts`, `Sessions`, `Periods` and `Statistics`; the proofs of
all their safety properties, and that `IngestJob` implements `LogDelivery`.

Next: the environment of `TicketLedger` and `EventPublication` as instances of
`LogDelivery`, which needs the logs passed over as a variable of their own, and
with it the proof that the composition has no other behaviours than theirs.
