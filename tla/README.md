# Verification of the Startup Studio platform

TLA+ models, TLC runs and TLAPS proofs for the bot, API, worker and Mini App in
this repository. This file has the inventory of the system, the plan, what each
module models and each run shows, what is proved, and what is left out.

## 1. Inventory

Four kinds of processes take part. The API, the worker and the bot share one
PostgreSQL database, an S3 object store and Redis (BullMQ queues, sessions and
short locks); the Mini App runs in the browsers of people and knows the API only.
Handlers of the API are transactions over PostgreSQL; what must happen later is
a row of `outbox_events`, which the worker relays to queues; the bot consumes
one of them. Any process may die at any time, clients repeat requests, and a
request the client gave up may still arrive.

| Component | State | Operations | Hard behaviour | What makes it correct |
|---|---|---|---|---|
| Wallet ledger (`wallet-service.ts`, `admin-wallet.ts`, trigger of migration 0017) | `point_programs`, `point_seasons`, `wallet_accounts`, `ledger_transactions`, `ledger_entries`, `wallet_reset_jobs` | registration trigger, bootstrap, posting, adjustment, reset preview/confirm, settings, event funds | season and settings are read before the locks; resets between two steps; retried requests | no overdraft, cache = sum of entries, closed seasons frozen, one welcome grant, one reset per preview, true answers |
| QR and intents (`routes/wallet.ts`) | `qr_sessions`, `wallet_intents`, `point_fund_access` | create and withdraw a QR, propose, confirm, reject, expire | two people and staff act on the same rows; expiry; access revoked; reset | an intent is paid once, by its confirmer, on its terms; QR and intent agree |
| Sheets of the wallet, shop (`wallet-views.tsx`) | what a sheet, a banner and the shop show and are waiting for; their keys | show, scan, preview, confirm, decide, close, order | lost and late answers, polling, closing while something is under way | paid on terms somebody saw; said to be done only if done |
| Locking | advisory locks, row locks, foreign-key locks | every wallet transaction | lock order, shared and exclusive modes | no circular wait; a reset is alone |
| Store (`wallet.ts`, `admin-content.ts`) | `store_products`, inventory, `inventory_movements`, `store_orders`, pickup QRs | checkout, pickup request, transitions, stock movements, product updates | stock and per-user limits under concurrency; mode switches; repeated requests | reserved <= on hand; an order takes what it reserved; paid once, handed out once |
| Pictures of products, covers of posts (`admin-content.ts`, `product-media.ts`, `feed-cover.ts`, `maintenance.ts`) | `store_product_media`, `feed_posts`, objects in S3, links that expire | init, put, complete, delete, set a cover, sweep | row and object cannot change together; the browser writes to S3 by itself | what is shown can be loaded |
| Artifact rewards (`grantArtifactReward`) | `event_reward_policies`, `event_reward_claims` | evaluate, reconcile | outbox, worker and administrator all call it; reset fence | one grant per user and event, none for a closed season |
| Upload and verification (`uploads.ts`, `verifier.ts`, `artifact-promotion.ts`, `maintenance.ts`) | `artifacts`, `submissions`, objects in S3 | reserve, complete, abort, delete, verify, promote, clean up | S3, queue and database disagree; stalled jobs run twice; crash between copy and commit | a ready artifact has its object; names are not shared; a submission is ready iff its files are; what was removed stays removed |
| Forms and submissions (`admin-content.ts`, `events.ts`, `submission-sheet.tsx`, the form builder in `admin-wallet-sections.tsx`) | versions of forms, `submissions`, drafts in the browser | write and publish a version, fill in, submit, upload, cancel | a draft outlives its page and its form; many requests for one submission | answers fit their form; accepted means stored |
| Desk of an event (`coworking.ts`, `quick-answers.ts`, `event-requests.ts` and their cards) | `coworking_bookings`, `event_quick_answers`, `event_requests`, `event_participants` | book, cancel, review, answer, ask for help, remove | two devices; old lists; removal in several transactions | what a card shows is stored; one booking per wish |
| Outbox and relay (`outbox.ts`, `worker/index.ts`) | `outbox_events`, queues, Redis locks | insert, dispatch, mark | lock expires while held; at-least-once; unique (type, aggregate) | every row is handled at least once |
| Broadcasts (`content-broadcasts.ts`, `bot/src/index.ts`) | `notification_deliveries`, rows of the outbox | schedule, announce, send, record | crash between sending and recording | everyone is told, once for each interruption |
| CRM synchronisation (`crm-sync.ts`) | `submissions`, rows of the outbox, the CRM | edit, join, send, reconcile, backfill | a CRM that fails or answers late; unique rows | every ready submission is settled |
| Exports (`exporter.ts`, `admin-exports.ts`, `export-storage.ts`) | `export_jobs`, objects in S3 | request, build, invalidate, expire, clean up | the event changes while an export is built | what can be downloaded is current |
| Leader-ID (`leader-id-*.ts`) | authorisation sessions, bindings, registrations, grants | authorise, bind, register, award | a service without idempotency keys; leases that end | one application per participation; bindings are one-to-one; rewards are earned |
| Profiles and sessions (`auth.ts`, `routes/auth.ts`, `me.ts`, the bot, `api.ts`, `session-provider.tsx`) | `users`, `user_messenger_identities`, sessions in Redis, cookies and tokens of tabs | sign in, write to the bot, share a phone number, block, start the Mini App | two first sign-ins; a link that races one; tabs that share a cookie | no wallet without a way in; sessions follow their account; writes are of their tab |
| Signatures, roles, audit, CRM reading API, serialisers, configuration, layout, deployment | | | | not modelled: pure functions, reads, I/O, user interface |

`PROJECT.json` lists every component with its sources, and under `hazards`
what is hard to test, at its line, with the properties that cover it.

## 2. Plan

Done, in order of importance to users (points, then goods, then files, then
messages): the wallet with its proofs, the store, artifact rewards, uploads,
outbox and deliveries, CRM, exports, Leader-ID, profiles; then the Mini App
above them: sheets, submissions, desk, pictures, start-up.

The safety properties the runs check are all theorems now (section 5).
Next, in this order:

1. **Abstract specifications**: a stock in which every unit is on hand, reserved
   for one order, or handed out, for `Store`; an object store whose names each
   have one owner, for `Artifacts`.
2. **Left components**: roles and their audit, projects, the reading API of the
   CRM, the multipart protocol of an upload.

## 3. Modules

| Module | Models |
|---|---|
| `Ledger` | The tables all wallet operations share, the posting primitive and the season switch; no `Init`/`Next`, extended by `WalletLedger`, `WalletQr`, `Store` and `ArtifactReward` |
| `WalletLedger` | Registration, bootstrap, adjustment, event funds, settings, reset, as concurrent requests |
| `SeasonLedger` | Abstract: an append-only journal with fresh keys in the active season; `WalletLedger` implements it |
| `WalletQr` | QR sessions and intents: transfers, credits, debits |
| `Payment` | Abstract: proposals on fixed terms, paid once or dropped; `WalletQr` implements it |
| `WalletSheets` | The phones of the people who pay one another or order |
| `Store` | Checkout, stock movements, product updates, orders, pickup QRs |
| `WalletLocks` | The locks of fourteen transactions, taken one at a time |
| `ArtifactReward` | Policies, submissions that come and go, evaluations, reset |
| `Artifacts` | Files from their reservation to their verdict or removal |
| `Outbox` | Rows, overlapping relays, the queue; extended by the next two |
| `Broadcasts` | Announcements, from the content to the messages of the bot |
| `CrmSync` | What the CRM has to learn, over jobs and a reconciliation |
| `EventExports` | Exports of an event that changes meanwhile |
| `LeaderId` | Authorisations, bindings, tokens, leases, applications, the award |
| `Profiles` | Messenger accounts, profiles, sessions |
| `Startup` | Tabs of one browser that sign in and write |
| `Submissions` | Form versions, their editor, the sheet of a participant |
| `Desk` | Bookings, quick answers and requests for help, with their cards |
| `Pictures` | Pictures and covers, between rows, links and objects |
| `WalletLedgerProofs`, `StoreProofs`, `ArtifactsProofs` | Theorems, each about the module it is named after |
| `TransactionsProofs` | Theorems about `WalletQr`, and about `WalletLocks` and `Profiles` as `MCTransactions` has them |
| `ServicesProofs` | Theorems about `LeaderId`, and about `Broadcasts` as `MCMessages` has it |
| `BackgroundProofs` | Theorems about `EventExports`, `ArtifactReward` and `Startup`, as `MCBackground` has them |
| `EverydayProofs` | Theorems about `Submissions`, `Pictures`, `Desk` and `WalletSheets`, as `MCEveryday` has them |
| `Sums` | Lemmas about sums over finite sets, for the ledger and the stock |
| `MCWalletLedger`, `MCWalletQr`, `MCStore`, `MCArtifacts`, `MCLeaderId` | Values, scenarios and symmetry for TLC |
| `MCTransactions` | `WalletLocks` and `Profiles`, one or the other in a behaviour |
| `MCBackground` | `EventExports`, `ArtifactReward`, `Artifacts`, `Startup`: what has to end |
| `MCMessages` | `CrmSync` and `Broadcasts` |
| `MCEveryday` | `Desk`, `Pictures`, `Submissions`, `WalletSheets` |

The last four compose modules whose state is disjoint: a variable `focus`, chosen
at the beginning, says which one moves. A run of such a module is a run of each
of its parts, not a product of them. The real compositions are in the modules:
`Ledger` under four of them, `Outbox` under two, the queue and the relay inside
`Artifacts` and `EventExports`, and the server inside each module of the Mini App.

### From code to state and actions

**Ledger.** An account is a pair (season, owner); the three unique indexes of
`wallet_accounts` make that a key. `account` gives its status, `balance` the
cached column. A ledger transaction is one record with `from`, `to` and
`amount`: every caller of `postLedgerTransaction` posts two opposite entries,
and `assertBalancedLedger` rejects anything else. `CanPost` has the checks of
the primitive in their order, `Post` its writes. `SwitchSeason` is what the
confirmation of a reset does to seasons and accounts. The request hash is the
`body` of a transaction; the trigger writes none, hence `NoBody`.

**WalletLedger.** A request is a record in `request[h]` with its stage, its
task, and what it read without a lock (`seen`: season and welcome amount).
Reading and the locked write are separate steps, so that resets, registrations,
settings changes and other requests fall in between. The locked part of a
database transaction is one step: it holds the programme lock (shared, or
exclusive in a reset) together with the lock of the key or of the rows, so
others cannot see half of it. `WalletLocks` looks at how those locks are
reached. An adjustment has two transactions in the code (bootstrap, then the
adjustment) and two locked steps here; `Crash` drops a request between any two
steps, and a client may send any request again, with any body under the same
key. An error that rolls back is a step that only ends the request.

**WalletQr.** Starts after registration. Each handler runs under the programme
lock and the lock of the QR and is one step; `POST /wallet/qr` is the exception,
with an unlocked read first (`creating`) and without the lock of the QRs it
cancels. Time is two sets, the QRs and the intents whose time is over, which are
independent of each other as in the code. Replays of a used key change nothing
and are not steps.

**Store.** `inventory` holds the two columns of an inventory row, `movement` the
rows of `inventory_movements`, whose keys are kind, product and order or request
key. `Checkout` is the locked part of `POST /store/checkout`: stock and limits,
payment, order, items and reservations in one transaction; the season was read
before it. `ReplayCheckout` answers a repeated request with its order, in any
season. A stock movement looks up its key and the mode of the product without a
lock (`BeginStock`) and changes the row under one (`MoveStock`), where the
unique key has the last word. `HandOut` is the transition to `fulfilled`, which
takes what the movements say was reserved, whatever the mode is by now; both the
status endpoint and `resolve-pickup` use it. A pickup QR is inserted without
any lock (`BeginQr`, `CreateQr`). An order that was handed out already can be
resolved again by another live QR: the QR is consumed, the stock does not move.
`Fail` is any error, lost connection or death before the commit.

**WalletLocks.** `Script` gives each transaction the sequence of locks it takes:
advisory locks, `FOR UPDATE`, `FOR SHARE`, and the `FOR KEY SHARE` locks that
foreign keys of inserted rows take. A lock is granted when no other connection
holds a conflicting one; all are released at the end. Owners stand for the
account rows of the active season, and `IdOrder` is the order of their random
ids.

**ArtifactReward.** A submission is its status, the moment it became ready and
whether it has a ready file. `Evaluate` is `grantArtifactReward` under its lock:
policy, window, reset fence, claim and points in one step; it is called from
three places, the worker that verified the last file (`direct`), the row
`reward.artifact.evaluate` (`row`), and a reconciliation, whose `plan` is read
first and worked off later. An evaluation that meets a reset throws.

**Artifacts.** A row, its submission, its job, its objects under their incoming
and readable names and an open multipart upload are separate variables. A
request is a list of steps still to do (`todo`), a verification the stage of
`verifyArtifact` it has reached with what it read: each call of storage, queue
and database is a step, and any of them may throw; then the steps left are the
ones of the `catch`. A worker may die or stall at any step. The object of a name
knows which artifact's bytes it holds, so that a promotion over another's name
shows.

**Outbox, Broadcasts, CrmSync.** A row is (type, aggregate), which is unique; its
job is named by the row, so a job that is still remembered swallows a second
one. Dispatches overlap because the lock of the relay lasts four seconds and is
not renewed. A bot job is a list of recipients worked off one by one: look up
the delivery, send, record; a death falls between any two. A call of the CRM is
three steps: read, the CRM receives and answers, record.

**EventExports.** An export holds the files and people of its event as they were
when it was read. Changes of an event are a commit and, later, the invalidation
of its exports (files) or the other way round (people); the order is the one of
each handler.

**LeaderId.** A subscription is a handler that holds the lease of its user, which
may end at any time. `Claim` is the fenced write before a call, the call of the
service and its answer are separate, and the answer may be lost. Bindings are
ordered by their authorisations (`tab`).

**Profiles.** A sign-in, a message to the bot and the sharing of a contact are
requests of a few statements each; reading and writing are separate steps
wherever the code has no lock. `pristine` is the check that a profile made for a
MAX account has been given nothing yet.

**Startup.** Each tab was opened by one messenger account. The cookie is the
browser's, the token the tab's; `Identified` is the order in which `requireAuth`
looks at them, `RequireCsrf` what a write needs besides.

**Submissions.** `sheet` is the state of the component with the step of `submit`
it waits in, `draft` what the storage of the browser keeps, `call` the request
under way and `late` the requests nobody waits for, which may still arrive. A
submission is made in two steps, as on the server: the answers are compared with
the form read before the transaction, and inserted under the lock of the event.
The editor has what it listed, which may be old, and saves and publishes in two
requests.

**Desk.** `card` is what a device shows, `listed` what the page of the
administrators shows. Requests, answers and late requests are as in
`Submissions`. `removed` records that a person was removed from the event once,
in whichever of the removal's transactions.

**Pictures.** A handler is at one of a few points of `complete`, `delete` or
`set`; the storage takes what the browser puts there as long as the link is
valid. The sweep of the worker lists first and removes later. `unwanted` is what
somebody has begun to remove.

**WalletSheets.** `sheet`, `banner` and `shop` are what a person sees; `approved`
records what they pressed confirm on. The server keeps only what a phone can
tell apart; its handlers in full are in `WalletQr` and `Store`.

### Abstractions and what they leave out

- One programme, the default one. Titles, units, audit rows and read-only
  endpoints are left out.
- The `leader_id` system account, created on demand, is not in `SystemKeys`;
  Leader-ID awards post through the same primitive and are a flag in `LeaderId`.
- An event fund inserted in the middle of a reset, after the accounts were
  closed and before the funds are copied, is taken as before or after it.
- `eventId` of an intent is not in `WalletQr`: there it only adds a foreign key,
  which `WalletLocks` has. The freezing of a retired profile's wallet is in
  `Profiles`, not in `Ledger`.
- In `Store` a missing inventory row is an empty one, as every reader of it has
  it. `published` stands for all that decides whether a product is on sale (status,
  dates, team funding). A closed store and an expired pickup QR only make
  requests fail, and any request may fail, so neither is state. The
  unlocked reads of an order's status before a transition that is then made
  under a lock only add failures, and are left out.
- In `WalletLocks` the `UPDATE`s of a reset count as exclusive locks of every
  account, in the order of ids, and the order in which PostgreSQL queues
  waiters is not modelled. The run fixes one `IdOrder`.
- `Artifacts` has one event, one user and one field. The parts of a multipart
  upload are one. In `Submissions` an upload and its abort are single steps.
- The messenger, the CRM, Leader-ID, the scanner and S3 are external: they do
  what the code that calls them has to reckon with, failing included.
- Texts, amounts, links and files are members of small sets; validation of
  their form (`zod` schemas, sanitising, signatures) is left out.
- In `Pictures` the `HEAD` and the reading of the first bytes are one step, and
  one product and one post stand for all; the page asks for the completion of
  an upload once.
- In `Submissions` a form asks for a text or a file; fields have no identity. A
  sheet that was closed while it was sending goes on in the background in the
  code and ends in the model; its requests may still arrive.
- In `Profiles` consent and names are `pristine`; `/auth/dev` is not in
  production and left out.

## 4. Runs

All bounds are in the `.cfg` files; counts are distinct states.

| Run | Bounds | Checks | States |
|---|---|---|---|
| `WalletLedger_seasons` | 2 users, 2 requests; 2 keys, +1 and -2 points, 2 seasons; or 1 event, 2 settings, 3 seasons | `NoOverdraft`, `CachedBalanceIsEntrySum`, `AckedIsPosted`, `WelcomedOnce`, `ClosedSeasonIsFrozen`, implements `SeasonLedger` | 358 thousand |
| `WalletQr_intents` | 2 users, one of them staff, 2 QRs, 2 intents of the whole balance, 2 sets of rules, 2 seasons | `QrFollowsItsIntent`, implements `Payment` | 380 thousand |
| `Transactions_meet` | 3 connections, 14 transactions; or 2 Telegram accounts, 1 MAX account, 3 profiles, 2 requests, 2 sessions | `NoWaitCycle`, `ResetIsAlone`; `ActiveWalletsHaveAWayIn`, `SessionsFollowTheirAccount` | 1 966 thousand |
| `Store_orders` | 1 user, 2 products, baskets of one and two products, 2 checkout keys, 2 orders, 2 stock keys, +2 and -1 units, mode switches, 1 pickup QR, 2 requests, 2 seasons | `StockIsJournalled`, `EveryOrderCanBeHandedOut`, `EveryOrderIsPaidOnce`, `AnsweredCheckoutIsPlaced` | 545 thousand |
| `Artifacts_verify` | 2 files of one name or two, 2 verifications, 2 tries, 1 stall | `ReadyHasItsObject`, `SubmissionIsReadyIffWhole` | 2 142 thousand |
| `Artifacts_removal` | 2 files for one place, 2 requests, six ways of removal, 1 verification | `DeletedStaysDeleted` | 1 888 thousand |
| `LeaderId_subscribe` | 1 user, 2 profiles, 2 authorisations, 1 event mapped twice, 2 requests, 2 attempts | `OneApplication`, `ClaimsAreOfTheBinding`, `TokensAreOfTheProfile`, `RewardIsEarned` | 1 420 thousand |
| `Background_settle` | 1 export, 2 requests, 2 tries; 2 submissions, 2 policies, 2 moments, 2 seasons; 1 upload, 2 tries; 2 tabs, 2 sessions | `ReadyExportIsCurrent`, `RewardedOnce`, `PointsAreOfThisSeason`, `WritesAreOfTheTab`; liveness: `EveryExportIsSettled`, `AnnouncedRewardArrives`, `EveryUploadIsSettled`, `StartupEnds` | 297 thousand |
| `Messages_arrive` | a profile, a participation, a submission, 2 events of edit, outage or crash; or a post, a campaign, 2 recipients, 2 runs of a job, 2 tries, 1 break | `CompletedMeansTold`, `ToldOnce`; liveness: `EveryReadySubmissionIsSettled` | 796 thousand |
| `Everyday_use` | 2 devices, 2 wishes for one thing, 2 keys, 2 texts, 2 pictures, 2 covers, 2 versions, 2 files, 2 QRs, 1 intent, 3 choices in the shop | `ShownIsStored`, `OneBookingPerWish`, `ShownPicturesHaveObjects`, `SubmissionsFitTheirForm`, `AcceptedIsStored`, `PaidAsShown` | 862 thousand |
| `Store_pickup`, `Artifacts_abort` | as above | one statement each that the code does not keep | see below |

**Why the bounds are enough.** A race needs two requests and a third party: two
requests in flight with registrations, resets, relays and sweeps as steps of
their own give every pair of handlers and a third between any two of their
steps. Two seasons are a season closed under a running request; the scenario of
resets has three, so that a second reset meets accounts of the first. The
amounts are chosen so that the second of two debits overdraws. Two users are the
payer and the payee. In the store, the two units one movement brings are enough
for two buyers of the last one, and one `-1` for a correction that would take a
reserved unit; the two requests in flight may be two checkouts of one user, of
which several devices make as many as they like. Three connections allow a
cycle of length three. Two files are the last two of a submission and two that
want one name; two tries and a stall are a job that runs beside its successor.
Two profiles at Leader-ID are a binding and its replacement. In the Mini App two
keys are a kept one and a fresh one, two texts an old and a new wish, and one
late request is one that overtakes; two late requests at a time are covered one
after the other, except where the second depends on the first still being late.

**Scenarios.** Where a product would be too large, a variable fixes at the
beginning which of several parts of a module may move, and the run is the union.
`MCWalletLedger`: adjustments with one reset, or funds and settings with two.
`MCArtifacts`: the life of one file, or two files for one place; equal or
different names. `MCLeaderId`: leases that end under their holders, or profiles
and mappings that change. With both at once (`AnySpec`) `OneApplication` fails: see
*Leader-ID* below. `MCEveryday`: see its comments; a QR is shown by participants and
scanned by staff, `transfer` has late creations, withdrawals and confirmations,
`debit` late withdrawals and proposals.

Symmetry sets are users, requests, keys, ids and texts in the safety runs, where
no property or configuration tells their members apart (`WalletQr` permutes staff
and others separately; in `MCTransactions` the backends lend their names to
profiles, so that one permutation serves both). Runs with a liveness property
have none.

**Deadlock** is checked where something can always happen: wallet, QR, store and
Leader-ID. The other runs say `CHECK_DEADLOCK FALSE`: tries,
stalls, crashes, outages, wishes and identifiers are bounded there, or each connection
runs one transaction (`Transactions_meet`), and they stop when those are used
up. Waiting in a circle is what `NoWaitCycle` is about.

**Fairness.** Stated only for what the code runs by itself: the relay, which the
worker calls on a timer (`EventExports`, `Artifacts`, `ArtifactReward`); a job that
a running worker holds and the detection of a stalled one, which BullMQ does
(`Artifacts`, `EventExports`); the reconciliation with the CRM every five
minutes, which goes on row by row, and a call that is answered or fails by its
time limit (`CrmSync`); the timer of fifteen seconds of a page (`Startup`).
Fairness is weak everywhere. Nothing is asked of people, of failures, or of a
success of an external service: the relay may throw and be asked again, which is
why `AnnouncedRewardArrives` fairly runs `Relay`, which evaluates, as often as it
is due. The wallet, store and sheets have no liveness property: nothing in the
code repeats a request, the client does, if at all.

### What the code does not keep

Two statements of the repository have a `violation` run and an entry under
`findings` that quotes them.

- A pickup QR whose request read the season before a reset is inserted after it,
  active in the closed season, and is accepted (`ClosedSeasonQrsAreDead`).
- An abort that read its artifact before the verification committed marks a
  ready file as deleted (`ReadyIsNotAborted`).

Other behaviour that the properties are written around, or that was seen while
modelling; a reader who changes the code should know it.

*Wallet and store.* A QR its owner replaced is cancelled while its pending intent
can still be confirmed, which turns it into a consumed one (wallet.ts:733). Two
settings updates can together leave a welcome amount above the limit
(admin-wallet.ts:198). A reconciliation of rewards takes at most the people it
listed first (wallet-service.ts:562-564). Two pairs of transactions can wait for
each other: two proposals between the same two people, when the payee's account
has the smaller id, and an artifact reward and a reset; PostgreSQL aborts one and
the API answers 409 `TRANSACTION_RETRY_REQUIRED` (app.ts:251-264), so nothing is
lost but the attempt.

*Sheets and shop.* Closing a sheet may withdraw a QR that was just scanned for a
debit. A QR made while its sheet closes, or whose answer was lost, stays live
until its time is over. `GET /wallet/intents/pending` lists debits to both sides,
so staff see their own request in the banner: confirming it is refused,
rejecting withdraws it. A late confirmation turns a rejected or cancelled intent
into an expired one. The key of a checkout changes with the options and when the
sheet is closed, so an order after a lost answer may be a second one. Pages of
administrators take a new key for each click: an adjustment or a stock movement
repeated after a lost answer is made twice, and a product whose first stock
movement failed is created again by the next save.

*Files and forms.* When a file is removed while its verification stalls, two
verifications may copy it to one name, and each deletes the copy after its
transaction found the row deleted (verifier.ts:380-386). Between the two deletions
another file may be promoted to that name, and loses its object; TLC finds it with
two workers and `Commands = {"delete"}`, and no run lists it since nothing in the
repository says otherwise. A duplicate build may delete the object of a ready export; two
exports of one kind may be live; a removed person may still be in an export
built in between; the export of all users is never replaced. An administrator's
patch based on an old read may restore a file deleted meanwhile (admin.ts:907-932). Uploads
may begin in a submission or event just deleted. Deleting a file that is not
ready does not recompute its submission; a stale rejection after a second
verification marks it failed; a deletion that races a promotion leaves an object
nobody refers to; a job that stalls twice leaves its file `verifying`. A draft
whose answer was lost and whose text, or form, then changed is refused for ever,
and so is a file cancelled and chosen again, though the message advises a new
attempt. A cancel does not stop the submission itself, so that the materials may
be called accepted with their files aborted. The editor of a form saves and
publishes in two requests: what another editor saved in between is published;
an archived version can be published again.

*Pictures.* Completing an old cover again while a new one is completed can remove
the object of the cover that is shown; a death between object and row leaves a
ready row without its object, and a picture the sweep has listed may be called
ready and then go: both are what `unwanted` excuses. The number of pictures is
counted without a lock; uploads for covers that were never completed stay.

*Messages.* The CRM never learns of files of a submission that was synchronised,
reopened and made ready again (crm-sync.ts:505), nor that a participant was
removed, and may miss the last profile edit when the row of the one before is in
flight (me.ts:21-25); joining again after a removal does not arm the row again
when it goes through a request for help (event-requests.ts:147). A late 202 or
4xx may be recorded on a submission another call had synchronised.
`crm.event.sync` has a consumer and no producer. A post moved to a later time
after its announcement was scheduled is not announced. The row
`reward.leader_id_subscription.granted` (leader-id-production.ts:1017-1034) has a
type the relay does not know (outbox.ts:8-23). A subscription that dies between
its claim and its call stays of unknown outcome until an administrator decides.

*Leader-ID.* `claimAttempt` compares the profile of the binding and the mapping of
the event with what the subscription read, but not their generation
(leader-id-production.ts:640-705). A user who is bound to A, then to B, then to A
again (or an event mapped to x, to y and to x again) while a subscription whose
lease was lost still goes on may find it claim an attempt it had prepared before:
the row it saw was overwritten meanwhile by one of B, so nothing tells it that A
had applied, and the participation is asked for a second time.
`AppliesOnceIfCurrent` (section 5) proves that it takes this: a subscription that
goes on with a profile or a mapping replaced since it was read.

*Profiles and start-up.* The check that a profile is pristine is read before the
link without a lock; an administrator can unblock a retired profile; its wallet
stays frozen. The server looks at the cookie first, so a tab may show the person
of another tab; its writes are then refused.

*Desk.* An answer that overlaps the last transaction of a removal leaves an
answer without a participant. A list of bookings that comes late hides one just
made until the next reading. A request for help whose answer was lost and which
was closed meanwhile is made twice; assigning one from an old list reopens it.

## 5. Proofs

Every theorem holds for every value of the constants that satisfies the
assumptions named in the module that declares them.

**WalletLedgerProofs**: any sets of users, events, requests, keys and jobs, any
amounts, any settings, any number of seasons. Assumed: `MaxSeason` is a positive
natural number (`SeasonAssumption`), owners of different kinds are different
(`OwnersAreDisjoint`), adjustments are non-zero integers (`AmountsAssumption`),
and settings are natural numbers (`SettingsAssumption`; the checks and schemas of
the code guarantee them). The argument:

1. `TypeCorrect`, action by action.
2. `JournalStep`: every step leaves season, balances and journal alone, or posts
   one sound transaction, or switches the season. All that follows about the
   journal is proved from these three cases, not from fifteen actions.
3. `JournalInv` is inductive: the type, `NoOverdraft`, that a key is used once,
   and that a welcome grant carries the key of its payee. `WelcomedOnce` alone
   is not inductive, because a step looks a key up and not a payee. From it:
   `NeverOverdrawn`, `WelcomedOnceInALifetime`; from the three cases alone
   `ClosedSeasonsAreFrozen` and `ImplementsSeasonLedger`.
4. `AccountStep` and `AccountInv` do the same for accounts. `EveryUserHasAWallet`
   needs that nothing in the active season or after it is closed: a
   registration or a bootstrap keeps the account it finds, and a reset keeps
   those it meets ahead. From it `WalletsFollowTheSeason`.
5. `JobsInv` pairs every closed season with one completed job
   (`ResetsAreNotStale`); `AnswersArePosted` goes with the journal
   (`AnswersAreTrue`); `UpdatesAreMerged` follows from the type.

`OneResetPerSeason`, `UpdatesKeepOtherFields` and the wallets of
`WalletsFollowTheSeason` are proved and have no run.

**EverydayProofs, submissions**: any drafts, devices, texts, files and versions. Assumed:
`SubmissionsAssumption`, that a mark for the absence of a thing is not a thing.
`SubmissionsFitTheirForm` compares a submission with the *present* fields of its
version, so it needs that those never change again. `FormInv` says so: a version
that is, or was once, the form of the event is not a draft, and only drafts are
written to; a request the server has begun, one that is late included, carries
the fields it was compared with, of such a version; and so does every submission.
The editors, who work on an old list, can therefore neither rewrite the version
nor make a draft of it. Result: `AnswersFitTheirForm`.

**EverydayProofs, pictures**: any pictures (`Ids`), covers (`Texts`) and handlers (`Keys`). Assumed:
`PicturesAssumption`, that the two kinds of names are different and neither is a
mark. `MediaInv` is about requests on their way: one that has seen the object
of its picture still has it, unless somebody has begun to remove it, and what the
sweep has listed counts as begun. `CoverInv` gives each completed upload one
owner: one request completes it, it is the cover, or one request removes it, and
never two of these. Together with the type they are inductive (`PicturesInv`) and
imply `ShownPicturesHaveObjects`. Result: `WhatIsShownIsStored`,
which `Everyday_use` checks on an instance of the module.

**EverydayProofs, acceptance**: any drafts, files, devices. Assumed as above.
`AcceptedIsStored` speaks of what sheets have shown, so it breaks one step after a
sheet believes something false. `SheetInv` follows a sheet: what it is sending is of
its draft; of what it has sent, the submission is stored as soon as it uploads, and
each file it has left behind is stored or was cancelled (`SendingIsTrue`); the
request under way is the one its step is about, and an answer not used yet is still
true, since rows and files only go on (`StoreGrows`). For the converse, every key in
a request or a row is one some device still holds, or one that was accepted.
Result: `AcceptedSubmissionsAreStored`.

**EverydayProofs, desk**: any devices, bookings, texts and keys. Assumed:
`DeskAssumption`. `DeskInv` says of each card, of the list it has read and not used
yet, and of each reply not heard, that an answer is the stored one unless the person
was removed, and that a status is one the stored status can have come from; since a
booking only goes on (`RowsGo`), what is late stays true in this sense. For
`OneBookingPerWish` it says that all keys in use, those of requests on their way
included, are among as many as there were wishes, and that a key is of one booking.
Results: `WhatIsShownAtTheDeskIsStored`, `NoPlaceIsBookedTwice`.

**EverydayProofs, wallet and shop**: any people, QRs, intents, terms, products and keys,
without any assumption. `PayInv` is about what is not paid yet: whoever proposed a
transfer had approved it on its terms; a confirmation under way of somebody who
may confirm was approved on the terms of the intent, which never change; and what
a phone will be told was done is done, and stays so. `ShopInv` is about checkouts on
their way: those of one choice carry one key, which is the key the shop still has
while that choice is shown; a key is of one order. Result: `PaymentsAreAsShown`.

**Sums** is about `SumFunctionOnSet`, which the models use for balances and stock:
what it is over nothing, over a set with one more element, and over two sets that
agree. Its definition recurses over subsets, and induction over data cannot be
instantiated here; so each lemma supposes a smallest set for which it fails,
which the well-foundedness of the strict subset ordering on a finite set gives,
and refutes it. With it:

- `BalancesAreEntrySums` (in `WalletLedgerProofs`): the journal is finite and each
  balance is the sum of the entries of its account. A post adds one transaction
  that was not there, whose one or two entries are those of its two accounts; a
  reset posts nothing.
- `StockFollowsItsJournal` (in `StoreProofs`), in the same way for movements.

**TransactionsProofs, QRs**: any users, QRs, intents, amounts, rules, seasons. Assumed:
`QrAssumption` (amounts, limits and the welcome are positive, as the schemas have
it). `QrFollowsItsIntent` is not inductive: a confirmation consumes the QR of its
intent, so a second intent for that QR would break it. `QrInv` adds that no two
intents share a QR, that a live QR is of the active season (which is why a reset
ends them all), and that whose intent is paid is consumed. The handlers fall into
three kinds, each proved once: those that give one intent and its QR a new status
(`Relabels`: confirm, expire, reject), those that withdraw sets of both
(`Withdraws`: cancel, reset), and the two that insert. Result:
`QrsFollowTheirIntents`. `IntentsArePayments` is the refinement: with the mapping of
`WalletQr`, `CreateIntent` is `Propose`, `Confirm` is `Pay`, what cancels, expires,
rejects or resets is `Drop` of the intents it ends, and everything else stutters.

**TransactionsProofs, locks**: any connections, users, QRs, products and programmes,
whatever mix of the modelled transactions they run, in any order of ids. Assumed:
`LocksAssumption`. What a lock is worth is `Exclusion`, which is inductive: no two
connections hold locks that conflict. The rest is about the scripts: `ScriptGood`
goes through all fourteen and shows that none names the account of a wallet before
it has the programme lock, shared or exclusive, or its row. A reset has
both exclusively when it has the row (`AloneFollows`). Result: `ResetHasTheWallets`.

**TransactionsProofs, waiting**: any connections, users, QRs and events, but not any
mix: `Orderly(TasksRun, order)` says which transactions may run together. It excludes
what really can wait in a circle: a reset with an artifact reward (section 4), a
proposal or confirmation that names an event with such a reward, and transfers that
disagree about who comes first, be it by the users (a proposal locks the wallet of its
initiator before the owner's) or by the ids of the accounts (its row refers to the
payer before the payee, confirmations lock by id). There must be *some* order of the
users with which the transfers of the mix agree. PostgreSQL ends a wait in a circle by
aborting one side. `MCTransactions` assumes, and TLC evaluates, that the mixes of the run
are orderly. The argument: `Rank` gives every lock a place, `Fine` says of a lock
wanted by a script that it is above everything the script has (`Climbs`), or that its
holder waits for nobody who waits (`Settled`: the programme row under the shared
programme lock, the row of a QR under the QR's own lock, what a reset takes once it has
the programme). `ScriptFine` goes through the fourteen scripts, `NotSettled` shows
from `Exclusion` that along the waits of connections that all wait nothing is settled,
so ranks climb (`WaitsClimb`) and, being bounded, have a highest (`Highest`). The
programme lock has two ranks, one for who waits for it shared and one for who waits
exclusively, because a reset asks for it first and everybody else in the middle of things.
Result: `NobodyWaitsInACircle`.

**TransactionsProofs, profiles**: any accounts, profiles, phone numbers, requests,
sessions. Assumed: `ProfilesAssumption`. The two properties are not inductive: a
request may have read, before it acts, whom an account leads to. `SignInInv` says
what is left of that: the profile it holds is the account's (`Follows`), or was
retired in between, and then its wallet is frozen; and a Telegram account is of at
most one profile, the one it leads to. The steps only extend profiles, freeze
wallets, and move an account away from a profile whose wallet they freeze
(`ProfilesGrow`); what a request holds survives each of these. Results:
`ActiveWalletsAreReachable`, `SessionsAreOfTheirAccount`.

**StoreProofs**: any products, baskets, orders, keys, stock modes, seasons. Assumed:
`StoreAssumption`: prices and quantities are positive, a basket and the set of
users are finite. `Sound` is the type together with what rows say of the rows they
refer to. On it stand three invariants:

- `PaidInv`: a key is of one order and of one transaction, an order has a purchase
  that agrees with it, a purchase has its order. A checkout that finds its key
  inserts nothing, and one that does not inserts both at once. Results:
  `OrdersArePaidOnce` and, since orders keep their user, key and basket for good,
  `AnswersAreOrders`.
- `StockInv`: what is reserved of a product is the sum over the open orders of the
  quantity each waits for, and no more than is on hand. Only then may a hand-out
  take its quantity from both. Results: `StockFollowsItsJournal` and
  `OrdersCanBeHandedOut`.
- `StoreTypeCorrect` comes with `Sound`: that stock is never negative needs it.

**ServicesProofs, Leader-ID**: any users, profiles, events, identifiers, authorisations,
subscriptions and attempts. Assumed: `LeaderIdAssumption`, by which no two events
begin with one identifier (`events_leader_id_event_uq`, schema.ts:372-374).

- `Sound` is what a subscription has in hand at each stage: the binding it read is
  of its profile, a participation it found is there (nothing at Leader-ID goes
  away), the claim it holds carries its name, its profile and its event. With a
  registration that counts being of a participation that exists, it is inductive,
  with no hypothesis. Results: `LeaderIdTypeCorrect`, `TokensFollowTheProfile`,
  `ClaimsFollowTheBinding` and the action property `RewardsAreEarned`, since only
  `Award` grants.
- `Applied` is about one application. Rows of one profile and event only go on: the
  attempts grow, or stay while a doubt is settled (`Older`), so whoever saw a row
  sees an older one than there is (`SawOlderRows`). An event that was applied for
  and that a subscription found absent is barred for it, by a doubt it saw or by an
  attempt it did not see (`AppliedAreBarred`); whoever holds a claim and has not
  asked yet finds it in the row, and nobody has asked (`ClaimStands`). A
  participation belongs to one user and one event, since no profile is bound
  twice, and no identifier mapped twice. Each step preserves these parts provided
  `SnapshotsAreCurrent`: nobody goes on with a profile or a mapping replaced since
  it was read. Result: `AppliesOnceIfCurrent`. The hypothesis holds as long as
  nobody binds another profile, and no event is mapped anew, while a subscription
  of theirs is running; leases may end and processes die at any time. The first
  scenario of `LeaderId_subscribe` has such behaviours; the second leaves the
  hypothesis and is checked on its instance only.

**ServicesProofs, broadcasts**: any posts, campaigns, people, workers, tries and breaks.
Assumed: `BotAssumptions`. A job belongs to the worker whose lock it is under, but
workers that stalled go on with the same list. `BotInv` says of the owner that it
has passed nobody over: whoever it has not told, been refused by or failed with is
still on its list (`OwnersMissNobody`), which is what the completion of a job
relies on. For `ToldOnce` it counts (`SendsAreCounted`): as long as a delivery is not
recorded, the messages sent and the runs which may send one without looking, other
than the owner's, are no more than the breaks so far; each of them was left behind
by one. The counting needs that the set of such runs is finite, hence finitely many
workers. Results: `BroadcastsReachTheirAudience`, `BroadcastsAreNotRepeated`.

**BackgroundProofs**: each theorem is about the specification of one part, not about
the composition, which only lets one part move at a time.

- *Rewards.* Assumed: no user is called `"reward"`. `RewardInv` pairs each claim with
  one posted reward of its user and amount; an evaluation adds both or neither.
  Result: `RewardsAreUnique`. For `PointsAreNotCarriedOver`, which takes
  `RewardAssumption`, a finite set of users and a positive `MaxSeason`, the property
  needs only types and that the season was opened no later than now: points come
  from evaluations, which compare the moment a submission was finished with the
  opening; that moment is never set back; and a reset leaves all balances empty.
- *Start-up.* Assumed: `StartupAssumption`. That a write is of the person whose session
  the page has follows from the two comparisons of `requireAuth` and `RequireCsrf`;
  that it is of *somebody* needs the sessions that are live to be ones which were
  opened (`WebInv`). Result: `WritesAreOfOnePerson`.
- *Exports.* Assumed: `EventExportsAssumption`, and that the mark for no object is
  not a set of files and people. A build that read the event before a change may end
  after it. The invariant follows it on its way: what a build holds is what the event
  has, or an invalidation of the whole event is under way, which will still find its
  export, or the export has expired, and then the last write of the build is refused
  (`BuildGoesOn`). An export has one build at a time (`OneBuild`), because the module
  gives a job to a second worker only when the first is dead; a live one renews its
  lock. (The duplicate build of section 4 takes a worker that lives and does not.)
  Result: `ExportsAreCurrent`.

**ArtifactsProofs**: any files, submissions, requests and workers. Assumed throughout:
`ArtifactsAssumption`.

- `FileInv` has types, that a row whose status is deleted has its mark, and that a
  promotion that holds its row holds one that is not deleted. Any number of removals
  may be under way. Result: `RemovedForGood`, if `PatchStatuses` holds nothing but
  `"deleted"`: a patch to any other status restores a removed file, as section 4
  says.
- The next two assume `NoRemovals`: no removal is requested. With removals they are
  false; section 4 says how for the object, and that the removal of an unready file
  does not recompute its submission. `PromotionInv`: a row is at the name it came in
  under until it is ready, and then at a readable name whose object is its own; a
  verification that has copied has its object at its target; and no step touches the
  object of a readable name that has one (`NamesStay`), since the relay's cleanup
  only takes incoming names and a copy goes where there is nothing. Result:
  `ReadyIsStored`.
- `WholeInv` adds the submission. What a promotion counted under the lock of the
  submission is still so when it commits, because no other promotion of that
  submission is between its count and its commit (`LocksHold`), and the steps that
  other files take meanwhile do not change which of them are ready (`Alike`).
  Result: `SubmissionsAreReadyWhenWhole`.

**Only model-checked**: everything that is live (`EveryExportIsSettled`,
`AnnouncedRewardArrives`, `EveryUploadIsSettled`, `StartupEnds`,
`EveryReadySubmissionIsSettled`), since the prover has neither fairness nor `ENABLED`.

## 6. Checking it

    tlc -workers 2 -config WalletLedger_seasons.cfg MCWalletLedger.tla
    tlapm WalletLedgerProofs.tla      (and the other theorem modules)

Definitions introduced by the comment "Bug(s) a run must catch" are not part of
the specifications: each is a plausible mistake in the definition it names, and
`PROJECT.json` says which property fails when it is put in its place.
