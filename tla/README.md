# Tracking backend: TLA+ models and proofs

These modules model the server in `src/`: a NestJS backend (GraphQL and a few
REST endpoints) over Postgres through Prisma, for an affiliate network. A
visitor follows `GET /r/:slug`, a click is stored and the visitor redirected;
later the network posts a conversion to `POST /postback/:campaignId`, which is
attributed to the click, deduplicated and counted. Around this core are
campaigns with caps, sessions, billing, notifications and administration.

## Inventory

The server is one Node process: synchronous code is atomic, and every `await`
of a database call lets other requests run. All lasting state is in Postgres;
single statements are atomic and so are the statements of one
`prisma.$transaction`. A restart loses every request in flight.

| Component | State | Operations | Interacts with |
|---|---|---|---|
| tracking | `Click`, `Conversion`, `AdvertiserPostbackLog` | redirect (3 calls), postback ingest (2 reads, 1 transaction) | reads `Campaign`, `CampaignCap`; increments `currentCount` |
| campaigns | `Campaign`, `CampaignCap` and other nested rows | create, update, toggle (2 calls), soft delete | read by tracking; written by admins and advertisers |
| sessions (auth) | `RefreshToken`, `User`, `LoginLog` | sign-in, register, rotate, logout, nightly cleanup | administrators create advertisers' accounts and deactivate users; access tokens expire by themselves |
| billing | `WebhookEvent`, `Subscription`, `Invoice`, `Plan` | Stripe webhook, checkout, portal | Stripe delivers events at least once, in any order |
| access control | `User.role`, `User.isActive`, `RolePermission` | three global guards, a guard on most handlers, the validation pipe; grants | before every operation of every other component |
| users | `User` | `setActive`, `changeRole`, listings | read by the guards, by ticket assignment and by sessions |
| notifications | `Notification`, `NotificationRead` | create, list, count unread (2 calls at once), mark one (3 calls), mark all (2 calls, 1 transaction) | |
| support tickets | `SupportTicket` | create, update (2 calls with an assignee), listings | reads `User.role` of the assignee |
| affiliate payments | `AffiliatePayment`, `PaymentTerm` | create, update, listings (2 calls) | reads the affiliate profile of the caller |
| advertisers | `AdvertiserProfile` | create, update (2 calls), soft delete, paged listing | managers are users |
| affiliates, groups, experiments, referrals, settings, faqs, signup questions | one table each | one-call creates, updates, deletes | |
| offers | `Offer` | mutations that the pipe always refuses, queries | |
| reports | none | aggregations by joins | read tracking's tables |
| files | the disk | upload, serve | |
| common, config, seeding, startup | none | error mapping, query limits, environment, global guards and pipe | |

What is hard, and what makes each component correct:

- **tracking**: requests interleave at every `await`. The click's campaign is
  read two awaits before the click is stored, the conversion's click two
  awaits before the conversion is. Networks send a postback again when no
  answer comes, perhaps while the first is still being served, perhaps after a
  restart. Correct means: one conversion per transaction id, each on a stored
  unblocked click of its campaign; counters that equal the stored conversions;
  an acknowledged id that is really stored; an answer to everybody.
- **campaigns**: a toggle reads and writes in two calls; mutations run while
  redirects hold what they read.
- **sessions**: rotation is read, revoke, issue in three calls; logout, reuse
  detection, cleanup and deactivation run in between. Correct means: a token is
  spent before it is exchanged, a session that has ended stays ended and has
  one owner, every token goes back to a login, no token in use is deleted and
  no expired one kept.
- **billing**: check, apply and record of an event are separate calls; events
  are duplicated, reordered and share timestamps of one second. Correct means:
  an answered event is on record and none blocks for ever; a row shows a state its subscription has
  had, under its owner's name, at best the newest; an invoice is its owner's; a
  user has one live subscription.
- **access control**: a role is read and judged in the guard, read again and
  not judged by the guard of the handler, and acted on after further calls,
  while other requests change roles and accounts. Correct means: what a request
  does, its caller was found entitled to when it was judged; what it shows of
  others takes a role of staff.
- **notifications**: read rows are looked for and created in separate calls on a
  unique key; an answered marking must have left its rows.
- **support tickets, affiliate payments**: any status follows any other, two
  people at once; what is settled must keep its date, and an assignee must be
  staff when looked up.
- **advertisers**: the manager is judged one call before the row is written;
  pages are cut by offset out of a list that changes between them.
- **reports**: clicks and conversions are joined with each other, over a range of
  dates that may hold a click without its conversion or the reverse; the total a
  client pages by is counted apart from the lines. Correct means: what pays
  people shows each conversion once, no count is below the rows it is about, and
  the pages lead to every line.

`PROJECT.json` lists the hazards with their lines.

## Modules

| Module | What it models |
|---|---|
| `Campaigns` | `CampaignsService`: tables `campaign` and `caps` (functions from stored ids), `toggling` (toggles between their two calls). `CreateCampaign`, `UpdateCampaign`, `ReadStatus`, `WriteStatus`, `SoftDelete`. |
| `Clicks` | `TrackingController.redirect` and `ClickService.record`. `clickReq[r]` is where request `r` is: `ReadCampaign` (lines 43-69 of `click.service.ts`), `CheckUnique` (71-81), `CreateClick` (83-108), or `ClickFails`. `clicks` is the table, `now` the clock. |
| `Postbacks` | `PostbackController.ingest` and `PostbackService.ingest`. `RejectMessage` (lines 54-69 of `postback.service.ts`), `ReadClick` (73-98), `FindExisting` (104-110), then the transaction (112-143): `CommitConversion`, `ConflictOnTransactionId` or `PostbackFails`; `SendReply`. |
| `ConversionLedger` | Abstract specification of the postback endpoint: a transaction is booked at most once, bookings never change, a postback is told the booking of its transaction once. |
| `Tracking` | Composes the three: mutations, redirects and postbacks over one database, and `Crash`. States the properties and the refinement mapping to `ConversionLedger`. |
| `SessionLifecycle` | Abstract specification of sessions: each is started once, for one user, and never opens again once it has ended. |
| `Sessions` | `AuthService`, `RefreshTokenService` and what they use of `UsersService` and `LoginLogsService`. Tables `users`, `tokens`, `loginLog`; `req[r]` is where request `r` is. Registration: `CheckEmail`, `CreateUser`. Sign-in: `CheckCredentials`, `LogSuccess`, `LogFailure`. Both go on to `Issue`. Refresh: `FindToken` (lines 67-91 of `refresh-token.service.ts`), `RevokeOld` (93), `Issue` (100), `CheckUser` (`auth.service.ts` 108-111), `SendReply`. Logout: `Logout`, `RevokeFamily`. Beside them `Cleanup`, `SetActive`, `CreateAdvertiser`, `CallFails`, `Tick`, `Crash`. States the properties and the refinement mapping to `SessionLifecycle`. |
| `Tables` | `Insert` and `Empty`, for tables as functions from stored keys, and the lemma on their type. |
| `Stripe` | The external service as the code uses it: open checkout `sessions`, `stripe` (its subscriptions), `events` (the log of what it sends), `second` (its clock). Any subscription may change in any way; each change is an event. |
| `Checkout` | `BillingService`. Tables `plans` and `subscriptions`; `checkout[s]` is where the request that is to open session `s` is: `FindCheckoutPlan` (lines 145-155 of `billing.service.ts`), `CheckCurrent` (157-162), `CreateSession` (164), `CheckoutFails`. Beside them `CreatePlan`, `UpdatePlan`. |
| `StripeWebhooks` | `StripeWebhookController`. Tables `invoices` and `processed` (`WebhookEvent`); `delivery[d]` is where delivery `d` is: `CheckProcessed` (line 98 of `stripe-webhook.controller.ts`, the first call after the refusals of lines 63-94), `CheckStale` (105), `Dispatch` (113-131), then by type of event `Retrieve` (215), `FindPlan` (331) and `UpsertSubscription` (344), or `CancelSubscription` (240), or `FindLocal` (280) and `UpsertInvoice` (296), and `RecordEvent` (184). `acked` are the events answered with 2xx. |
| `Billing` | Composes the three and `Crash`, and states the properties. |
| `Reports` | `AdminReportsService`, `OverviewService`, `TopCampaignsService`: each report as an operator on the tables of `Tracking` and a range of dates, join by join, with `Reached` for the cursor of `paginatedReport`, and what must hold between the reports and the tables at any moment. A range (`Ranges`) is any choice of clicks and conversions. |
| `Access` | The decorators of every resolver and of the files controller as one gate per operation (`Handlers`); the redirect, the postback, the webhook and the health check are public controllers of their own and have none, and `RolesGuard.canActivate` (`CanActivate`, `MeetsRank`). |
| `Accounts` | The way of a request to its handler and the operations on accounts. `req[r]` is where request `r` is and for whom: `Throttle`, `AdmitPublic`, `Admit` (`JwtStrategy.validate` and `RolesGuard`), `Reauthenticate` (the guard of the handler), `Enter` (the validation pipe), `SendReply`, `CallFails`, `Crash`; `kept[r]` is what it carries from one awaited call to the next. Tables `users`, `rolePermissions`: `SetActive`, `ChangeRole`, `GrantPermission`, `RemovePermission`. `Answer` stands for what changes nothing here. |
| `Notifications` | `NotificationsService`. Tables `notices`, `reads`: `CreateNotice`, `FindNotices`; `CountFirst`, `CountSecond` (lines 82-97 of `notifications.service.ts`); `FindNotice` or `FindVisible`, then `FindReads` and `CreateReads` (125-180). |
| `Tickets` | `SupportTicketsService`. Table `tickets`: `CreateTicket`, `UpdateTicket`, or `AssertAssignable` and, a call later, `AssignTicket`; `FindTickets`. |
| `Payouts` | `AffiliatePaymentsService` and its resolver. Table `payments`: `CreatePayment`, `UpdateStatus`; a query is `ResolveAffiliateId` and, a call later, `FindPayments`. |
| `Advertisers` | `AdvertisersService`, its resolver, and the ownership checks of `CampaignsResolver`. Tables `advertisers` and `directory` (the order of creation): `CreateAdvertiser`, `FindAdvertiser` and `UpdateAdvertiser`, `SoftDelete`; `ListPage` is one request of a client that walks through the listing; `FindCampaign` and `CheckOwner`, `ListCampaigns`. |
| `Registry` | The nine tables kept with one-call creates, updates and deletes, each with its operations (`RegistryTables`): `CreateRow`, `UpdateRow`, `DeleteRow`. Of signup questions, experiments and settings only deletions get past the pipe. |
| `Authority` | Abstract specification of the back office: a request acts on what it has learnt, which was true when it learnt it; who may change what follows from that alone. |
| `BackOffice` | Composes the six services over one set of requests (`Arrive`, `Serve`, failures, `Crash`), states the properties and the refinement mapping to `Authority`. |
| `MCTracking`, `MCSessions`, `MCBilling`, `MCBackOffice` | Values of the constants and symmetry for TLC. |
| `TrackingProofs`, `ReportsProofs`, `SessionsProofs`, `BillingProofs` | The theorems about `Tracking`, `Reports`, `Sessions` and `Billing`. |
| `AccessProofs`, `BackOfficeProofs`, `AuthorityProofs` | The theorems about the gates, about `BackOffice`, and that it implements `Authority`. |

Each `await` of a database call is one action together with the synchronous
code around it. The transaction of a postback is one action: its statements
become visible together, increments are relative and lock the row, and an
insert that meets an uncommitted one with the same unique key waits for its
outcome. Where the outcome of a call is not the code's to choose (connection
lost, pool exhausted, foreign key missing) a failing action stands beside the
succeeding one; a commit whose acknowledgement is lost is stored and answered
with an error.

Definitions named as faulty variants model plausible bugs; no specification
uses them. They show that each property depends on the code it is about.

Abstractions: ids drawn at random are represented by the request that draws
them; the slug stands for the campaign; the HMAC is a Boolean; amounts, user
agents, countries, names and logging are left out; a slug or campaign id of the
wrong form (answered 400 before anything is read) is left out; both clocks (Node
and Postgres) are one. Campaigns, clicks and conversions are never removed by
any code under `src/src`, so no action removes one. `Int` overflow of
`currentCount` (2^31 conversions) is left out. In `Sessions` a user is named by
the email (unique, never changed); passwords are a Boolean; roles, profiles,
device data, cookies and the access token, which no table holds, are left out.
A client may present any token it was ever sent, as often as it likes. A
rotation of a token of session `f` belongs to the session `f`: the family id
stands for the session, and the refinement mapping calls it open while it has a
live token or a request about to issue one. No code under `src/src` deletes a
user, and `revokeAllForUser` has no caller.

In billing a session is named by the subscription it becomes, and a plan by its
Stripe price; a subscription keeps its price, so a change of plan in the portal
is a change of state like any other. Amounts, periods, customers, payment
methods and redirect URLs are left out; `status` at Stripe is any of a set of
strings, unknown ones included, and `MapStatus` is what the code makes of it.
`createdAt` is the order in which rows were inserted. A delivery begins after
lines 63-94, which refuse a request without reading or writing anything, so a
refused request is a stutter. As the source stands every request is refused
there: the handler's `req` parameter (line 63) has no decorator, Nest passes
`undefined` and line 78 throws. Nothing therefore assumes that a delivery ever
begins. The properties say what the handler does with one that has, and hold of
the program as it is, where none has. `createPlan` and `updatePlan` are refused
by the pipe (see `undecorated`); the plans that `Checkout` works with are made
and changed by a seed or by hand.

A range of dates in `Reports` is known by the clicks and conversions in it. The
offer report is about the campaigns created in its range (line 85 of
`admin-reports.service.ts`), top campaigns about those its `LIMIT` leaves; which
these are is left open, and an older campaign has no line, whatever happened to
it in the range. A report is one query, so one snapshot; that the total is
counted by another one, at the same time, is left out, as are lines with equal
dates, whose order may change from page to page.

In the back office a request is served once and is named `r`; a row it creates
has its name. An access token is a user: it is verified before anything is read
and outlives every change of that user's role. `Admit` is one step since no
handler asks for permissions, which would be a second read. `Enter` says which
inputs the pipe refuses: with `forbidNonWhitelisted` every field without a
validator is an error, and a field that is not sent is there all the same, as
the classes are compiled for ES2023: the ten mutations of `Undecorated` are
refused whatever is sent. Texts,
amounts, profiles, filters, limits and dates are left out; of a resolution or
payment date it is kept whether there is one. A walk's later pages are separate
requests of the client, served in the state of the first. `createdAt` of
advertisers is their order: two rows created in the same millisecond, whose
order Postgres may then change from page to page, are left out, and so is a
filter on deleted rows. `notices` and `reads` only grow, as no code deletes a
notice. Updates of one row by its id are atomic; none of the services takes a
lock or a transaction around what it read, except for `markAllRead`'s inserts.

## Runs

| Run | Question | Bounds |
|---|---|---|
| `tracking` | Do attribution, deduplication, counters, caps and the ledger refinement hold in every interleaving, with failures and restarts? For every range of dates, do the reports that pay people agree with the table at every moment, do the counts of the others cover its rows, and when do the pages end too soon? | 2 campaigns, 2 redirects, 3 postbacks, 2 transaction ids, frozen clock; caps of every kind the code distinguishes (counted, TOTAL, zero limit); symmetry over all ids |
| `serving` | Is a visitor ever lost from the unique count, does every request end, as the clock passes the window, the end date and the age limit? | 1 campaign, 2 redirects, 2 addresses, 2 postbacks of one transaction, 1 toggling admin, clock 0..1 with windows of 0, no caps; no symmetry, as liveness is checked |
| `sessions` | Are tokens spent before they are exchanged, traceable to a login, never revived, re-owned or deleted in use, do families implement the session lifecycle, does every request end, and is every expired row removed? | 3 requests of any kind, 1 account, lifetime 1, retention 0, clock 0..2; no symmetry, as liveness is checked |
| `reuse` | Is a whole family revoked when reuse is detected, as the comment on `RefreshTokenService` says? No. | 3 requests, 1 account |
| `billing` | Is what Stripe is told true, do rows and invoices show what was so at Stripe, and does a delivery that has begun succeed unless a call fails? | 1 subscription, 1 user, 1 invoice, 1 plan that may change its price, 3 statuses, 2 events of any kind, two copies of the first overlapping, 1 failure or restart, seconds 0..1; no symmetry, as liveness is checked |
| `newest` | Does the newest event win, as the comment on `WebhookEvent` says? No. | as `billing`, no failures |
| `two_subscriptions` | Is a second checkout refused to a user with a live subscription, as the comment on `createCheckoutSession` says? No. | 2 subscriptions, 1 user, clock frozen, no failures |
| `backoffice` | Is every write made by a caller who held the role it needs when judged, do answers keep others' rows private, are answered markings stored, settled rows dated, and walks complete; can anyone but a super admin bring power about; does every request end? | up to 3 requests of 3 users (super admin, manager, affiliate), 29 workloads; 1 broadcast, 3 advertisers and 2 campaigns at first, pages of 2, 1 permission, 1 code, tickets set to 2 of 4 statuses |
| `undecorated` | Does the pipe accept a field without a validator, as `CURRENT-SCOPE.md` says? No. | 1 request for any query or mutation of tables elsewhere |
| `replay` | Is a replay always answered with the stored id, as the comments on `ingest` say? No. | 2 postbacks of 1 transaction |
| `unique` | Is a unique click the first of its window, as the comment on `record` says? No. | 2 redirects of 1 address |
| `cap_count` | Does the block flag compare counters with limits, as the comment on `isCapBlocked` says? No. | 1 campaign, 2 redirects, 2 postbacks |

Why the bounds are enough: two requests give every race between a check and
the insert it guards, and a third postback lets one race be followed by a
replay or by a conversion of another transaction. Two campaigns are needed for
a postback to name the wrong one. With windows of zero one tick is a full
window: the clicks before and after it are apart, and a click made before it is
too old to convert. Three requests are a sign-in and two operations on its
token: two rotations, or a rotation and a logout, overlapping in every way; the
second rotation may also present the token the first one issued. With a
lifetime of 1 and a clock to 2 a token is issued, is used at its last moment
and expires; with a retention of 0 one tick makes a revoked row stale. Two
events are the least that can overtake each other, and any pair of types of one
subscription occurs: a change and a deletion, a checkout and an invoice before
or after it, a failed and a later successful payment of one invoice; a second
copy of the first gives every duplicate; two seconds give equal and different
timestamps. In
`backoffice` a workload (`MCTraffic`) says what each request may ask for and as
whom, and TLC explores all of them. Each pairs a handler of several calls with
whatever can change what it has read: every handler that depends
on a role with a change of roles, accounts with each other, two markings of one user or of two with the creation of a notice,
two ticket updates of any kind with a creation, a walk of two pages with two
creations or deletions, one update of an advertiser with another; one workload
per table of the registry, and one with every query and every user. A role
change is to any role, of any user, the caller included. `OPEN` and `CLOSED`
stand for statuses that are undated and dated; the guard `StatusInputs` is the
only place where they are chosen. `MaxEvents`, `MaxSecond`, `MaxPlans` and `MaxFaults` bound what Stripe,
administrators and chance do, never what the server does. What the
runs show on these instances the theorems show for all sizes, liveness and the
seven violated statements apart.

In every run a system at rest is a legal end (each request is served once), so
deadlock is not checked; that no request is left unserved is what `ClicksEnd`,
`PostbacksEnd` and `RequestsEnd` say.

**Fairness** (`FairSpec`): weak fairness of the continuation of each request
that is being served (`Serve(r)` in `BackOffice`), and of nothing else. The justification is Node's event
loop and Prisma's timeouts: an awaited call settles, with a result or with a
rejection, and the handler resumes. In `Billing` that is
a delivery that has begun (`ServeDelivery`); that one gets past line 94, or that
Stripe delivers again, is not assumed, so `BegunDeliveriesSucceed` is about the
deliveries that have begun, with no call failing from then on. In `Sessions` the cleanup is weakly fair
too: it is a daily cron job of the process. Arrivals, mutations, ticks, failures
and restarts may or may not happen.

What the violated runs show, and what they do not:

- `replay`: the delivery that loses the race is answered 500 by the exception
  filter, because P2002 is not caught. `OneConversionPerTxn` still holds, so the
  harm is an error answer to a network that will retry.
- `unique`: two overlapping redirects of one address are both unique.
  `FirstClickIsUnique` still holds: the error is always in one direction, a
  visitor may be counted twice but never zero times.
- `cap_count`: the counter is kept exactly (`CapCountsMatchConversions`) but
  never read, so caps with a positive limit are never enforced.
- `reuse`: a rotation that has revoked its token but not yet issued the next one
  survives the revocation of its family. `ImplementsLifecycle` still holds: the
  session was open all along; once no live token and no such rotation is left it
  never opens again.
- `newest`: a delivery that has passed the check for newer events writes after a
  newer event was applied, recorded and answered; no event is left to repair the
  row. `RowsShowStripeStates` still holds: the row is old, not wrong.
- `undecorated`: the pipe refuses every input with a field that has no
  validator. Offers, settings, plans, signup questions and experiments can never
  be created or updated over the API, so the plans that `Checkout` starts from
  come from elsewhere; nothing else is affected.
- `two_subscriptions`: two sessions opened one after the other, or at once, are
  both paid; the check looks at rows that only a paid session creates.

## Proofs

`TrackingProofs` proves, for every value of the constants that satisfies
`CampaignAssumption`, `ClickAssumption` and `PostbackAssumption`, every property
of the passing runs but liveness. The argument is in layers:

1. `TypeOK` is inductive by itself (`TypeCorrect`); `CapsOnlyCountConversions`
   (`CapsFixed`) follows step by step from it.
2. `Carried`: the caps of a campaign keep their types and limits, so a block
   flag computed from them stays right while a request carries it
   (`InFlightFactsHold`) and after it is stored (`BlockFlagMatchesCaps`); a
   click is never changed, so a postback's judgement of it stays right, and
   with it `ConversionMatchesClick`. `ClosedCampaignNeverConverts` follows from
   the conjuncts together. None of them is inductive alone: the stored fact
   needs the carried one.
3. `Booked`: a postback that inserted a row is past its insert, so its id is
   fresh when it inserts; with the unique index this gives
   `OneConversionPerTxn`, `AckedConversionIsStored` and the finiteness of the
   table, on which the counting argument of `CountsMatch` rests (one more
   conversion, one more in every counter that is not TOTAL).
4. `LedgerImplemented`: initial states map to initial states, and each step to
   `Book`, `Tell` or a stutter, using layers 1 and 3.
5. `Visited`: a request that found a prior click and so carries `isUnique`
   false knows a unique click at least as early as now; this makes
   `FirstClickIsUnique` inductive.
6. `ReplaysAgree` puts uniqueness and acknowledgement together: all
   acknowledged postbacks of a transaction name one conversion. `WordIsKept`
   says what the ledger is worth to a network, and is proved from
   `ConversionLedger` alone: what it was told stays booked as told.
   `RequestsOnlyAdvance` is the safety half of `ClicksEnd` and `PostbacksEnd`:
   no step takes a request back, so only fairness is left to TLC.

`ReportsProofs` proves the three properties of the reports, under
`ReportsAssumption` beside (an absent side of a join is no row). They need one
invariant more, `Keyed`: clicks have distinct ids, the table is finite, and the
postback log has a line for each conversion. The cardinality of a join is then a
bijection (`ConversionsAreShownOnce`: the reports that pay people), a product
(`OfferReportFansOut`: exactly how far the offer report counts too high), or
bounded by a surjection of its lines onto the rows (`RangesAreCovered`: every
count of every report that joins is at least the rows of its campaigns in the
range, and zero where there are none). `PagesEnd` compares lines with totals: an
offset stays below the total for every line exactly when there are no more lines
than it says (`TotalReachesAll`, `TotalEndsTooSoon`); the conversion report has
as many, and the click log has more as soon as a click of the range converted
twice, as one line per click is then a proper part of it (`ClickLogTotal`).

`SessionsProofs` proves every property of `sessions` for every value of the
constants that satisfies `SessionAssumption`:

1. `SessionsTyped`: `TypeOK` is inductive by itself.
2. `SessionsLineage`, the invariant the rest needs. `TokensTraceToALogin` is not
   inductive: a token's origin is known only because the request about to issue
   it (`IssuerLineage`) belongs to a session whose first request passed its
   checks, and that request got there from a stored token (`TokenLineage`) or
   through a logged sign-in (`RequestLineage`). `Monotone`, `TokensCome` and
   `RequestsCome` say once, by cases on the step, what a step may do to the
   tables and how a request can come to hold a token; the other proofs use
   these three and not the actions.
3. `SessionTokensOnlyDie`, `SessionTokensTraced` and
   `TokensSpentBeforeExchanged` follow.
4. `SessionsImplementLifecycle`: a step that starts a session is `Start`
   (`StartStep`: the id is fresh since its request has only now passed its
   checks), every other step is `End` (`EndStep`), which includes a stutter.
   `EndedStaysEnded` follows from the lifecycle alone.
5. `SessionRequestsOnlyAdvance`: a rank of at most five falls with every step of
   a request, the safety half of `RequestsEnd`.

`BillingProofs` proves every property of `billing` but liveness, for every value
of the constants that satisfies `StripeAssumption`, `CheckoutAssumption` and
`WebhookAssumption`, from one inductive invariant, `IInv`:

1. `EventFacts` and `ChangesAreEvents` tie Stripe's log to its subscriptions: a
   payload names a subscription there is, under its owner, and each state has
   been an event. They are what the code relies on and cannot check.
2. `DeliveriesCarry`: the type, the subscription and the user that a delivery
   carries from one await to the next are true of its event, whatever other
   deliveries write in between; the status it is about to write is one the
   subscription has had. Without it neither `RowsShowStripeStates` nor
   `InvoicesFollowStripe` is inductive.
3. `OneDelivery` says once that moving one delivery disturbs no other as long as
   rows keep their users; each step of the webhook is then one lemma
   (`SubscriptionUpserted`, `SubscriptionCanceled`, `InvoiceUpserted`,
   `EventRecorded`, and `ReadingSteps` for the rest). `StripeFacts` and
   `OthersKeep` do the same for Stripe and for checkout: the log only grows and
   owners stay (`Grows`).
4. `NewestWinsInTurn` says what the run `newest` leaves open: when does the
   newest event win? If no two deliveries of a subscription are served at once
   (`OneAtATime`) and no plan gives up its price (`PricesStay`), whatever fails,
   restarts, is repeated or comes out of order. Neither condition can be left
   out: with overlap an older write comes last, and a change that meets no plan
   is recorded as done without being written. A lock per subscription would
   ensure the first; the second holds over the API only because the pipe refuses
   `updatePlan`, and is up to whoever changes plans by hand. The invariant is
   `Orderly`, on top of `IInv`: a delivery at work has no record yet, one about
   to record the newest change has written it, and one that finds the newest
   change on record writes nothing (`InTurn`). Events of the same second are
   outside the statement, as `NewestEventWins` is about strictly newest ones.

`AccessProofs` proves about the table of gates what `RolesGuard` makes of it for
every role and every set of granted permissions: `GatesHold` (who passes the
gate of an operation has the role it was written for) and `NoneIsPublic`. The
gates fall into five shapes (`AllWellGated`), and each shape is judged once.
`GrantsDecideNothing`: no handler asks for a permission, so the table of grants
makes no difference to any verdict; it is why `Admit` may be one step.

`BackOfficeProofs` proves every safety property of `backoffice`, and
`AuthorityProofs` its refinement, for every value of the constants that
satisfies `AccountAssumption`, `NoticeAssumption`, `TicketAssumption`,
`PayoutAssumption`, `AdvertiserAssumption` and `RegistryAssumption`:

1. `Sound` is the inductive invariant. Beside the types it says of every request
   whom the guards let in (`Judged`, from `GatesHold`), what it carries
   (`Carries`) and that its name is fresh until it is answered (`Named`). The
   properties speak of answered requests; none is inductive without what the
   request carried before, e.g. that a marking past its lookup has rows for
   all it saw but the missing ones (`Marking`), that a walk has seen every due
   row that is not beyond its offset (`Walking`), that the payments shown are
   those of the affiliate resolved (`PaymentsShown`).
2. `Outcome(r)` says once what a step of a service may do to a request and to
   the tables: it stops or goes on with what it carries still true, and tables
   only grow where others rely on it (`Grow`). `OutcomeIsSound` shows that such
   a step keeps `Sound`; each service then has one lemma, `Serve...Outcome`.
3. `MarksAreStored`, `AnswersStayPrivate` and `NothingMissed` follow from
   `Sound`. `SettledDated` is an induction of its own over the writes of tickets
   and payments. `RecordsAreKept` is an action property: rows are not removed
   or given away, dates and deletions not taken back. Ids of payments need the
   freshness that `Named` gives the other tables (`PaymentsNamed`), as an insert
   under a stored id would replace the row.
4. `BackOfficeImplementsAuthority`: `Held` maps a request to the facts it acts
   on. Steps that look up (`Admit`, `Reauthenticate`, `AssertAssignable`,
   `FindAdvertiser`) add a fact that is true then (`LearnStep`); steps that write
   add none (`OutcomeLearnsNothing`) and are an action of `Authority` for what
   was held (`ActingAs`); what ends forgets (`EndStep`, `CrashStep`).
5. `NoPowerFromNothing`: `PowerComesFromSuperAdmins` is a theorem of `Authority`
   (`LeaderlessStep`), carried to the code by the refinement: once no user is a
   super admin and no request judged before is left, roles, permissions and
   published rows are out of reach for good.

The theorems about what a request may still do (`RequestsOnlyAdvance`,
`SessionRequestsOnlyAdvance`) and about the abstract specifications (`WordIsKept`,
`EndedStaysEnded`) state no property of a run; nor do `ReplaysAgree`,
`OfferReportFansOut`, `GrantsDecideNothing`, `RecordsAreKept` and the conditional
`NewestWinsInTurn`, whose hypotheses are the environment's and not the code's.

Only model-checked: `ClicksEnd`, `PostbacksEnd`, `RequestsEnd` (of `Sessions` and
of `BackOffice`), `BegunDeliveriesSucceed` and `ExpiredRowsAreRemoved` (liveness under
fairness is beyond the proof system), and the seven violated statements.

## Other disagreements met

Read in the source beside the violated runs; no run states them, as nothing the
modules abstract from would decide them or no document promises more than the
code does.

- The overview is described as an advertiser's own; the resolver passes no
  advertiser id, so an advertiser sees the whole network.
- Offer and advertiser reports, top campaigns and the overview join clicks with
  conversions, so each count is multiplied by the other (`Joined`); it is never
  below the rows (`ReportsCoverTheirRange`).
- A campaign created before the range, by default older than 30 days, has no
  line in the offer report, with whatever clicks and conversions it has in it.
- The click log has a line per conversion and so, once a click has converted
  twice, more lines than its total: its cursor ends before its last lines
  (`PagesEndWithTheReport`). The eight resolvers of these reports return only the
  rows, neither the total nor the next cursor that the service computes.
- The last super admin can be demoted or deactivated, after which no one can
  change a role.
- A toggle or an update revives a soft-deleted campaign.
- `RolesGuard` returns on the roles before it looks at permissions, which its
  documentation calls additive; no handler asks for permissions, so no operation
  is decided differently.
- A role that is taken away still counts for requests the guard has judged, and
  the manager of an advertiser may be replaced between the check and the write.
  `Authority` allows both: it is what reading before writing gives without a
  lock, and no document promises more.

## Not modelled, and the plan

Not modelled for good, with the reason:

- **reports**: sums, ordering and the daily series: read-only, and every property
  of them is one of SQL. Fraud and affiliate
  postback logs read tables that no code writes.
- **offers**: the mutations never get past the pipe, so no row exists.
- **files**: a write to disk under a fresh name; who may upload is in `Access`.
- **stripe client, configuration, error mapping, seeding**: run once at startup
  or are functions of their input; the outcomes of the exception filter are the
  refusals and failures of the modules.
- Throttling limits, the HMAC and the signature of access tokens are taken as
  given.

What further work would add, in this order: the pure functions (query limits,
durations, report periods) as operators checked against a reference definition;
ranks for the requests of `Billing` and `BackOffice`, where a walk through pages
repeats a step; the conditions under which a user has one live subscription, as
`NewestWinsInTurn` has them for the newest event; soft-deleted campaigns in the
composition of `BackOffice` and `Tracking`.
