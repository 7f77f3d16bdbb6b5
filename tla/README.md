# Rabhanaa backend: TLA+ specifications

Rabhanaa is an auction platform for wholesale goods: sellers put posts up for
bids, buyers put requests up for offers, the owner picks one, an order is
created and the other party has half an hour to confirm it.  The backend is one
Go process (HTTP handlers and a cron goroutine) over PostgreSQL.

What makes it hard to get right is one fact: **apart from issuing an invoice,
saving a news story and replacing a member's interests, nothing runs in a
transaction.**  Every SQL statement
commits by itself (`SELECT ... FOR UPDATE` releases its lock at the end of its
own statement), handlers run concurrently, the cron works through rows it read
earlier, many errors are dropped, and a restart can fall between any two
statements.  The specifications therefore model handlers *statement by
statement*: a request keeps in a record what it has read, and one action is one
statement together with the Go code around it.

## The system

| Component | State | Operations | What makes it correct |
|---|---|---|---|
| Sell posts (`auction/service/sell_*`, `moderation_service.go`) | `sell_auctions`, `sell_bids` | create, bid, cancel, select a winner, approve / reject / suspend | a deal rests on a bid on that post; unpublished posts are untouched; only moderation puts a post on the market; winners are undone only with their order |
| Orders (`order/service`) | `orders` | created by a selection, confirm, expire | completed before the deadline or cancelled after it, never both; notices say what happened |
| Buy requests (`buy_*`, `supply_offering_service.go`) | `buy_requests`, `supply_offers` | create, offer, accept (repeatedly, by quantity), cancel | what is accepted fits the request; counters agree with the offers |
| Cron (`cron_service.go`) | the rows each pass has read | end posts, close selections, cancel orders, announce new posts, warn, motivate, invoice | everything overdue is timed out in the end; nothing is timed out early; nobody is told too often |
| Lists and notices (`sell_auction_service.go`, `cron_service.go`, `seed_service.go`, `notification/service`) | `notified_at` and the like, `seed_notification_quota`, the demo poster's schedule | feeds, searches, queues; broadcasts, warnings, calls to posts about to end | pages agree with their totals; whoever is told of a post can see it; everybody concerned hears of it, and no more often than promised |
| Shipping (`shipping/service`) | `shipping_quotes`, the carrier columns of orders | quote, withdraw, accept, reject, carry to the order | an order's carrier is one whose quote was accepted; answers stay true |
| Commission (`commission/service`) | charges, invoices | accrue, invoice weekly, pay, waive, remind | every completed sale charged once, every charge on at most one invoice, totals match |
| Subscriptions and quota (`subscription/service`, bidding services) | `user_subscriptions` and monthly counters | grant, edit, count, reset | limits are overrun by no more than the requests in flight |
| Accounts (`auth/service`, `middleware/account_status.go`) | `users`, interests, documents, carrier coverage | register, submit, approve, reject, suspend, ban, log in | no application without its documents; sanctions hold and end |
| News (`news/service`) | `news`, deliveries, views, read marks | draft, publish, hide, push, read | one push per member and story; the analytics are what happened |
| Password reset, settings, rate limiter | reset codes, `app_settings`, token buckets | | see "Not modelled" |

They interact through the database (the cron reads and writes the tables of the
first rows; commission reads completed orders; a closing deal carries the
shipping quote to the order; bidding reads the subscription) and through direct
calls (every service calls the notification sender; selection calls the shipping
service; every request passes the account-status middleware).

The hazards the properties are aimed at are listed in `PROJECT.json`, each at
its line.  The recurring ones: a decision taken on a row read several statements
ago; a status written by id alone; a counter kept beside the rows it counts; an
UPDATE whose row count nobody looks at; a multi-table change cut short; a page
and its total counted by two queries.

## Modules

| Module | Models |
|---|---|
| `Orders` | the abstract promise of an order: placed, then completed before its deadline or cancelled after it; only a cancelled order is announced as expired |
| `SellAuctions` | sell posts, bids, selections, moderation, sell orders and the cron's three passes over them |
| `BuyRequests` | buy requests, supply offers, acceptance by quantity, moderation, buy orders and the cron's three passes over them |
| `ShippingQuotes` | quotes on posts and orders, their acceptance, and the carrier carried to the order |
| `CommissionLedger` | the abstract promise about one sale: charged once, billed once, what is settled stays settled |
| `Commission` | charges, the invoice transaction, reminders, settlement and the pages; implements `CommissionLedger` |
| `Quota` | bidding slots, bidders per post, monthly allowances, subscriptions |
| `Accounts` | registration, onboarding, decisions, sanctions, interests and coverage |
| `AccountsVetting` | `Accounts` with a history of the administrators' decisions |
| `News` | stories, the publish handler and its fan-out goroutine, visits, analytics |
| `Listings` | who sees which posts, page by page, and who is told of a new one (state functions, no actions of its own) |
| `Notices` | `Listings` with the posts' life, the broadcasting goroutines, the cron's notice passes, the demo poster |
| `SellAuctionsProofs`, `BuyRequestsProofs` | proofs: inductive invariants, state invariants, action properties, the refinement of `Orders` |
| `ShippingQuotesProofs`, `QuotaProofs`, `AccountsProofs`, `NewsProofs` | proofs: the inductive invariant of each and every safety property its runs check |
| `CommissionProofs` | proofs: what a sum over a finite set does, then the inductive invariant, the invoices, the pages, the refinement of `CommissionLedger` |
| `NoticesProofs` | proofs: the inductive invariant behind the bounds on notices; feeds, totals and audiences |
| `MC...` | the instances for TLC |

How they are composed: `Notices` extends `Listings`, so that what a member is
told is compared with what the member can see.  `SellAuctions` and `BuyRequests`
share no tables but `orders`, and no statement touches an order of the other
kind, so each carries its own half of `orders` and both are shown to implement
`Orders`; `ShippingQuotes` and `Commission` take an order only by the status they
look at.  Where a module needs a part that another one models in full, it lets
that part do whatever its own module allows (`PlatformNext`, `OrderCompletes`,
`SubscriptionChanges`, `Close` and `Restore`), at any moment.

### SellAuctions

`auction`, `bids`, `chosen`, `notChosen`, `order` are the tables: rows as
records, `sell_bids` as the set of its unique keys `(auction_id, bidder_id)`
with the two flags as subsets.  `req[r]` is a request being served: the handler
and statement it is at and what it remembers; `cron` is the cron goroutine with
the rows of its pass; `told` the order notifications sent so far.  Amounts,
titles, regions, interests and images are left out: no property tells them
apart.

| Handler | Actions |
|---|---|
| `CreateSellAuction` | `CreateBegin` (end_time is computed first), `CreateInsert` |
| `PlaceBid` | `PlaceBidRead`, `PlaceBidDuplicateCheck`, `PlaceBidInsert`, `PlaceBidCount` |
| `CancelSellAuction` | `CancelRead`, `CancelCount`, `CancelWrite` |
| `SelectWinner` | `SelectRead`, `SelectReadBid`, `SelectFlagBid`, `SelectWriteAuction`, `SelectCreateOrder` |
| `ConfirmOrder` | `ConfirmRead`, `ConfirmWrite` |
| moderation | `Approve`, `Reject`, `Suspend` (each is one guarded UPDATE) |
| `processExpiredAuctions` | `ReadEnded`, `EndAuction` |
| `processExpiredSelections` | `ReadLapsed`, `CloseSelection`, `MarkNotChosen` |
| `CancelExpiredOrders` | `ReadOverdue`, `CancelOrder`, `RevertAuction` |
| environment | `Tick`, `Abort` (a statement fails, a check outside the module refuses, the client leaves), `ReadFails`, `WriteFails`, `RevertFails` (a cron statement fails and the pass goes on), `Crash` (restart: only the tables survive) |

Checks of things the module does not hold (subscription quota, slots, minimum
amount, roles) appear as `Abort`: they can only make a handler return early.

### BuyRequests

`request`, `offered`, `accepted`, `notChosen`, `order` are the tables; an offer
is its unique key `(buy_request_id, supplier_id)`, `offered` its quantity, zero
where there is no row.  `call`, `cron`, `told` are as `req`, `cron`, `told` above.

| Handler | Actions |
|---|---|
| `CreateBuyRequest` | `CreateBegin`, `CreateInsert` |
| `PlaceOffer` | `PlaceOfferRead`, `PlaceOfferDuplicateCheck`, `PlaceOfferInsert`, `PlaceOfferCount` |
| `CancelBuyRequest` | `CancelRead`, `CancelCount`, `CancelWrite` |
| `AcceptOffer` | `AcceptRead`, `AcceptReadOffer`, `AcceptFlag`, `AcceptCount`, `AcceptFulfilled`, `AcceptStatus`, `AcceptCreateOrder` |
| `ConfirmOrder` | `ConfirmRead`, `ConfirmWrite` |
| moderation | `Approve`, `Reject`, `Suspend` |
| `processExpiredAuctions` | `ReadEnded`, `EndRequest` |
| `processExpiredSelections` | `ReadLapsed`, `CloseSelection`, `MarkNotChosen` |
| `CancelExpiredOrders` | `ReadOverdue`, `CancelOrder`, `RevertRequest` |
| environment | as above |

Quantities are whole units of the DECIMAL(10,2) columns.  What the code does to
them is kept: a `pgtype.Numeric` read from such a column has exponent -2, the
handler uses its coefficient alone (`Coefficient`, a hundred times the
quantity), and the sum of what was accepted, delivered as `interface{}`, matches
no case of the type switch and counts as nothing (`AcceptedSoFar`).  Left out are
the rounding of floats, which is exact for these values, and the DECIMAL
overflow of an enormous `fulfilled_quantity`, which is one more of the ignored
write errors.  Statements whose errors the handlers drop may fail in the runs
that allow faults (`QueryMayFail`).

### ShippingQuotes

`quote[c][j]` is the row of a carrier and a job (a post or an order) under the
two partial unique indexes; `order` has the carrier columns; `call` the calls in
flight; `told` every answer a carrier has been sent; `pickedAt` the orders that
were inserted when their post already had an accepted quote.

| Operation | Actions |
|---|---|
| `CreateQuote` | `QuoteBegin` (`ResolveTarget`, stage, coverage), `CreateShippingQuote` |
| `WithdrawQuote` | `WithdrawQuote`, one guarded UPDATE |
| `AcceptQuote` | `AcceptShippingQuote`, `AcceptAttach`, `RejectSiblingShippingQuotes`, `AcceptNotify` |
| `RejectQuote` | `RejectShippingQuote`, `RejectNotify` |
| a closing deal | `DealCloses`, then `CarryFind` and `CarryAttach` (`CarryQuoteToOrder`) |
| feed, lists, phones | the state functions `ListJobs`, `ListMyQuotes`, `ListQuoteRows`, `PhonesShown` |
| the rest (`PlatformNext`) | `PostMoves`, `OrderEnds`, `SetStage` |

### Commission

Tables are functions keyed by their unique keys: `charge` by order, `invoice` by
seller and first day of the week.  `cron[i]` is the cron of process `i`: a
deployment runs two for a moment, and comments in the source rely on a double run being
harmless.  An invoice is issued in a transaction: it is written on `Commit`, and a
key inserted by another open transaction is waited for (`KeyIsFree`).

| Operation | Actions |
|---|---|
| `AccrueCharges` | `AccrueList`, `AccrueOne` |
| `IssueWeeklyInvoices`, `issueOne` | `IssueList`, `CreateCommissionInvoice`, `AttachChargesToInvoice`, `Commit` |
| `SendPaymentReminders` | `RemindList`, `RemindOne` |
| `RemindNow` | `RemindNow`, `RemindNowSend` |
| `MarkPaid`, `Waive`, settings | `MarkPaid`, `Waive`, `SetSetting` |
| pages | `GetSellerCommissionSummary`, `GetSellerDetail`, `ListBalances`, `ListInvoiceHistory` |
| environment | `OrderCompletes`, `NextDay`, `Crash`, failing statements |

Money is counted in its smallest unit and rounded as `ComputeCharge` does.

### Quota

`sub[m][t]` is the row of a member and a tier with its four monthly counters.
Each check of a request compares what its own statement read; `call` keeps the
step, the slots counted so far and the tier that was read.  Nothing is locked in
between, and by how much a limit may be overrun is what the properties say.

| Operation | Actions |
|---|---|
| `PlaceBid`, `PlaceOffer` | `ReadPost`, `CheckOwn`, `CountFirst`, `CountSecond`, `CheckTier`, `ResetMonthlyCounts`, `IncrementCount`, `Insert`, `IncrementPostCount` |
| `CreateSellAuction`, `CreateBuyRequest` | `Create`, then `CheckTier` and the counter as above |
| `GrantSubscription` | `DeactivateAllUserSubscriptions`, `LookUpRow`, `ReactivateUserSubscription` or `CreateUserSubscription` |
| `UpdateUserSubscription` | the action of that name |
| environment | `Close`, `Restore` (the post ends, or is suspended and approved again), `Tick` |

A day is a number; `FirstOfMonth` gives the first day of its month and
`FirstBefore` that of the month before, for any calendar (`CalendarAssumption`).  The
two notions of a new month are kept apart: the handler asks whether the row was
emptied before `AddDate(0, -1, 0)` (`MonthAgo`, which runs on into the current month
where the one before is shorter: a month before the 31st of October is the 1st of
October), the UPDATE whether that was before `DATE_TRUNC('month', NOW())` (`Due`).
The time of day is not modelled, so that on the very day the test may go either way
(`MonthPassed`, `MonthRuns`).  On the last days of a long month the test may hold
while the UPDATE leaves the row alone; the handler then counts from zero at each
request, and the limit does not limit.  These rows are the exception `Forgotten` of
`AllowanceHolds`; see "Where the code and its comments disagree".

The database comes with tiers whose monthly limits are all NULL, so
`AllowanceHolds` is about what an administrator may configure, not about what
the seed data does.

### Accounts

`user` is the row (status, `suspended_until`, cached role, `interest_count`);
`req[u]` a user's request, which passes the `AccountStatus` middleware first;
`admin[a]` a decision whose row has been read and not yet written; `save[s]` a
replacement of interests.

| Operation | Actions |
|---|---|
| `RegisterUser` | `CreateUser`, `UpdateUserCachedNames`, `AddCarrierRegion`, `UpsertFirstProfile`, `CreateFreeSubscription` |
| middleware, `Login` | `AccountStatus`, `CheckLogin`, `Restore`, `Login` |
| `GetCurrentUser`, `GetUserStatus` | `GetCurrentUser` (documents only) and `GetUserStatus` (documents and interests), then `ActivateOnRead` |
| `SubmitDocuments` | `SubmitDocuments`, `SubmitForReview` |
| `UpdateInterests` | `BeginReplace`, `CommitReplace` (one transaction) |
| carrier coverage, profile | `ReplaceCarrierRegions`, `AddCoverage`, `UpsertCarrierProfile`, `UpdateProfile` |
| administrators | `Open` (the row is read), `ApproveUser`, `RejectUser`, `SuspendUser`, `UnsuspendUser`, `BanUser`, `UnbanUser` |
| environment | `Tick`, `Restart` (requests are lost, `REQUIRE_DOCUMENTS` is read again), failing statements |

### News

`call[c]` is a publish handler and `fan[c]` the goroutine it leaves behind;
`phone` counts what a member's phone accepted, `tried` whom a fan-out has dealt
with; `visit[u]` is a member's `Get`.  Instants are numbered in the order they
are stamped, because the code only compares them.

| Operation | Actions |
|---|---|
| `Create`, `Update`, `Delete`, `Unpublish` | the actions of those names |
| `Publish` | `PublishRead`, `PublishStory`, `ListRecipients`, `Claim`, `SetNewsNotifiedCount`, `RecordRecipients` |
| `fanOut` | `SendPushOnly`, `MarkNewsDelivered`, at most `PushConcurrency` in flight |
| `Get` | `GetPublishedNews`, `IsProUser`, `RecordNewsView` |
| reading marks | `MarkNewsReadToEnd`, `MarkNewsUpgradeClicked`, `MarkNewsSeen` |
| pages | the state functions `List`, `Status`, `AdminList`, `Analytics`, `ViewerPage` |
| environment | `SubscriptionChanges`, `StatusChanges`, `SetMode`, `Crash`, failing statements |

### Listings and Notices

`Listings` has the feeds, searches, owners' lists and moderation queues as state
functions: a page is what the `LIMIT`/`OFFSET` query returns in its order
(`Ordered`: the k-th row is the one with k - 1 rows before it), the total what the
counting query returns.  `born` stands for `created_at`; no two posts share one
(a timestamp of microseconds).  In `Notices`, `post` is the row as far as
notices look at it, `work[w]` the broadcast under way in a request's goroutine or
in the cron, `cron` the pass and the rows read for it; `told` (how often a member
was told what about a post), `demo` (when a member was told of a demo post, however
the notice was sent), `mistaken` (the demo posts a failed lookup had taken for a
member's, the only ones left out of `demo`) and `missed` (who missed an announcement)
are history.  `user` has the status and the interests of a member; role and
governorate are fixed.  "Suspended" stands for every status that ends, an application
that is approved included.

| Operation | Actions |
|---|---|
| creation and its goroutine | `CreatePost`, `ReadAudience`, `Send`, `Mark` |
| moderation, the market | `Moderate`, `Decide` |
| members | `SuspendUser`, `UnsuspendUser` (by an administrator, a lazy restore or a first activation), `ReplaceUserInterests` |
| `SeedAuctions` | `SeedAuctions` (the next demo post is scheduled before this one is written) |
| a cron pass | `ReadBatch`, then per row `AnnounceNew`, `WarnOwner` or `CallAgain`, `Send`, `Mark`, and `EndPass` |
| the allowance of demo notices | `ClaimSeedNotification`, one guarded upsert |
| environment | `Tick`, `Crash`, failing calls |

## Runs

Bounds: the clock stops at `Horizon` (or `MaxTime`), faults are capped by
`MaxFaults`, changes from outside by `MaxChanges`, `MaxGrants` and their like;
the rest are the sizes of the constant sets.  Each bound is named where it is
declared.  A fault is a failed statement, a failed call or a restart.

| Run | Bounds | Shows |
|---|---|---|
| `SellRaces` | one moderated post, one bidder, two requests, two orders, one fault, clock to 3 | all pairs of requests, statement by statement, with the cron and moderation: the inductive invariant `IInv` (types, deals rest on bids, losers told only after the window, expiry notices true are among its conjuncts), `BidCountNeverAhead`, `SuspensionHolds` (once the pass and the selections that read the post before are through, a suspended post stays down until an admin approves it), `WinnerClearedByCancellation`, orders refine `Orders` |
| `SellTimeouts` | one request, two bidders, one fault | under fairness ended posts, lapsed selections and overdue orders are all timed out, although a crash or a failing query loses one pass |
| `BuyRaces` | one request for 2 units (`Asked`), whole or in parts of 1 or 2, one supplier, two calls, two orders | all pairs of calls with the cron and moderation: `IInv` (`FulfilledIsCovered` among its conjuncts), `CountersClearedByCancellation`, orders refine `Orders` |
| `BuyTimeouts` | one request in parts, one call, one fault, ignored errors | the liveness of `SellTimeouts` for requests, and `IInv` when a statement whose error is dropped fails |
| `Shipping` | two carriers, one post and its order, two calls, one fault | `CarrierBacked`, `AnswersTruthful`, `FeedAgreesWithEndpoint`, `AcceptedIsAttached`, `RejectedAreTold` |
| `Commission` | two sales of one seller, two processes, weeks of two days, one fault, one change of rate | `InvoiceMatchesCharges`, `PagesAddUp`, refinement of `CommissionLedger`; every completed sale is charged and every due invoice reminded of in the end |
| `NewsPush` | one story, two publish calls, two members of different interests, one fault, one change | `OnePushPerMember`, `DeliveriesAreExact`, `RecipientsAreServed` |
| `NewsReaders` | one story, one member who comes back, two changes, one fault | `ViewersAddUp`, `NeverNewAgain` |
| `Accounts` | one account, one administrator, one replacement of interests, two document types, two days, one fault | `ReviewQueueIsComplete`, `CarriersAreSetUp`, `SanctionsHold`, `LapsedSuspensionsEnd`, `OnboardingEnds` |
| `AccountsVetting` | the same without faults | expected to fail: see below |
| `Quota` | three members, two sell posts and a buy request, two tiers, two requests at a time, limits of one, a month of one day and a longer one, one fault | `SlotsHold`, `BiddersHold`, `AllowanceHolds`: a limit is exceeded by requests whose checks overlap and by nothing else, rows that the two notions of a month disagree about left out |
| `Notices` | four members of different roles, one of whom comes and goes, six posts, time to 5, days of 4 hours, one fault | `FeedsAgree`, `NoticesAreBounded`, `PostsAreAnnounced` |

Why the bounds are enough.  Posts do not interact, so one post or request is
enough for the market: statements find rows by id, the cron's passes treat rows
one by one, and only the monthly cancellation count looks at several rows of an
owner, of which the row being cancelled is one.  The place where a request could
name a row of another post (the bid or offer to select) is covered by the proofs,
for any number.  Two requests at a time are the pairs every race listed under the
hazards needs; with two orders a post can be sold, reverted and sold again.
Durations are one or two ticks, so `Horizon = 3` spans a full life: end of the
post, end of the selection window, order deadline, and one tick beyond.  Two
sales make an invoice of one or of two charges, and two processes are what a
deployment has.  In `Quota` a limit of one is the smallest at which two checks may
overlap; the three members are a bidder and the two rivals of a post.  `MaxUses`
bounds the counters, which without it would grow for ever on forgotten rows: it is the
most `AllowanceHolds` ever allows.  The instance's calendar is the smallest in which
the two notions of a month both agree and disagree: what was emptied on day 0 is a
month old on days 1 and 2 and is reset, what was emptied on day 1 is found a month old
on day 2, "the 31st", and is not.

`Quota` and `Notices` start from a few situations (`Start`) instead of an empty
database, which spares TLC the way there: members without subscription trouble
before open posts, a limited member whose subscription is edited, and so on; for
`Notices` a new post of each kind, demo posts due, an owner about to lose the
choice, posts about to end, and a full market for the lists.  Every situation is a
state the program reaches.  `Visit` says which members may meet which posts,
`Still` which posts nobody moderates, `Moving` which members come and go and `Picks`
what they may choose; who is banned at the start stays so.  These only leave out
repetitions.

`CHECK_DEADLOCK FALSE` stands in `NewsPush`, `NewsReaders` and `AccountsVetting`
only: a deleted story is not created again and the bounded changes run out, after
which nothing needs to happen.

### Fairness

- `SellAuctions`, `BuyRequests`: `WF(CronNext)`, because the ticker fires every
  minute and its goroutine has no exit but `Stop`, which nothing but shutdown
  calls; `WF(Tick)`, because time passes.
- `Commission`: `WF` of each process's cron and of `NextDay`, for the same reason.
- `Notices`: `WF(CronStep)` alone.  A goroutine may never finish; the cron is what
  makes up for it.
- `News`: `WF` of a handler's and of a goroutine's next step: unless the process dies,
  they run to their end.
- `Accounts`: `WF` of a request's next statement, and `SF` of `GET /auth/me`, "the
  endpoint the app actually loads on every start" (`get_user_service.go`): a member
  who never comes back stays suspended in the table.  Nothing calls the status
  endpoint any more, so no fairness is asked of it.

No bidder, supplier, moderator, administrator, merchant or carrier is assumed to
act, and nobody has to pay.

### Where the code and its comments disagree

`AccountsVetting` is expected to fail.  A comment in `register_service.go` says of
carriers that "they wait for an admin however the documents flag is set".  A
suspension overwrites `pending_review`; when it lapses the account becomes active
whatever it was before, so a carrier suspended for a day while its application
waits is let in by its own next request.

The modules state more that the source says and the code does not keep.  No
configuration names these definitions; adding one to the configuration given shows
the trace.

| Definition | Where | Trace |
|---|---|---|
| `SellAuctions!SuspendedStaysDown` | PROPERTY in `SellRaces.cfg` | a suspension undone by a late write of the cron or the owner |
| `SellAuctions!CancelledHasNoBids` | PROPERTY in `SellRaces.cfg` | a post cancelled after a bid slipped in between check and write |
| `SellAuctions!CompletedNoticeTruthful` | INVARIANT in `SellRaces.cfg` | a confirmation that changed nothing announced as completed |
| `BuyRequests!FulfilledWithinQuantity` | INVARIANT in `BuyRaces.cfg` | `fulfilled_quantity` stored a hundred times too large |
| `BuyRequests!OneOrderPerOffer` | INVARIANT in `BuyRaces.cfg` | two acceptances of one offer at once make two orders |
| `BuyRequests!AcceptedFitTogether` | INVARIANT in `BuyRaces.cfg` with `Supplier = {s1, s2}` | parts accepted that exceed the request |
| `BuyRequests!ConfirmedAcceptancesStay` | PROPERTY in `BuyRaces.cfg` | two orders of one request, one completed and one expired: the revert of the second clears the counters of both |
| `Quota!AllowanceHoldsAllMonth` | INVARIANT in `Quota.cfg` | a row emptied on the first of a month and used on its last day, when the handler finds a month passed, the reset changes nothing and each request counts from zero |
| `Notices!DemoPostsKeepQuiet` | INVARIANT in `Notices.cfg` | a lookup of the demo account that fails before any has succeeded: the demo post is announced as a member's, outside the allowance (and called for, in a longer trace) |
| `ShippingQuotes!OrderRecordsCarrier` | INVARIANT in `Shipping.cfg` | migration 042 says that an accepted quote of a post is on its order; one accepted after the deal closed is not |

`FeedsAgree` names one exception of the same sort: `users.sql` says that nobody
should be told about a post their feed hides, and a retailer is told of the posts of
a wholesaler who does not sell to retail.  `PostsAreAnnounced` leaves out who came
into an audience after it was read: without that exception TLC finds the member who
is suspended while a goroutine reads the audience and unsuspended before the post is
marked, and whom nobody tells any more.

## Proofs

`SellAuctionsProofs` proves `Spec => []IInv` for all constants satisfying
`SetsAssumption` and `LimitsAssumption`.  The safety invariants are not inductive,
because a handler acts on what it read earlier; `IInv` adds what may still be
relied on when it does (`RequestOK`, `CronConsistent`).  The argument is that
three things never go back: a post that was published stays published
(`Published`), a post whose market is closed never reopens (`MarketClosed`), and
an order the cron found overdue can only become cancelled, since the confirming
UPDATE tests the deadline again.  `NothingUndone` states these for every step;
what a request or the cron remembers is then preserved by all the steps of
others, and each action's own lemma covers the rest.  From `IInv` follow
`TypeOK`, `UnpublishedIsUntouched`, `DealsBackedByBids`, `ExpiredNoticeTruthful`
and `TurnedDownOnlyAfterWindow`; the action properties
`WinnerClearedByCancellation` and `SuspensionHolds` and the refinement
`Spec => OrdersKeepPromise` are proved step by step from it.
`BidCountNeverAhead` needs an invariant of its own (`CountsCovered`): the counter
of a post plus the requests that inserted a bid and have yet to count it
(`Counting`) is at most the number of its bids.  `SuspensionHolds` says how long a
suspension is in danger: only while the ending pass or a selection holds the post as
it read it before (`HeldLive`), since these write by id; the UPDATEs of a cancellation,
of the closing pass and of a revert look at the status again, and a suspended post is
no longer picked up by anybody.

`BuyRequestsProofs` follows the same line with its own `IInv`.  What is relied on
there besides: an offer, once made, stands at its quantity; its supplier is not
the owner; what is accepted was offered; and the quantity `AcceptOffer` carries
from statement to statement is the quantity of the offer.  This is what makes
`FulfilledIsCovered` hold although counters, flag and status are separate writes
whose errors are ignored, and `AllFromOneNeverPartial` hold although the type
switch forgets earlier acceptances.  From it follow `TypeOK`,
`UnpublishedIsUntouched`, `OrdersBackedByOffers`, `AllFromOneNeverPartial`,
`FulfilledIsCovered`, `ExpiredNoticeTruthful` and `TurnedDownOnlyAfterWindow`;
`CountersClearedByCancellation` and
`Spec => OrdersKeepPromise` are proved as for `SellAuctions`.
`OfferCountNeverAhead` has its own `CountsCovered` as well; it says besides that a
call on its way to the INSERT offers more than nothing, since a row of quantity
nothing is, in the model, no row.  TLC agrees when it is added to `BuyRaces.cfg`.

`ShippingQuotesProofs`.  What a call read may be out of date when it writes, with
two exceptions: a quote that was answered keeps its answer and its price
(`QuotesKept`), and an order keeps its post and its carrier (`OrdersKept`).  `IInv`
says what follows for each step of a call (`CallOK`), and for each thing that is
owed who owes it: a rejected carrier that has not heard, and an accepted quote that
is not on its order, each have a call under way that will see to it
(`RejectedAreHeard`, `AttachedOrUnderWay`).  From it follow all five invariants of
the run, under the proviso they state (no fault, no call under way) where they
have one.

`CommissionProofs`.  Between listing the open charges and the transaction that bills
them nothing is locked.  `IInv` says what a process remembers: the charges it
listed are all still open, or some were taken by an invoice of the same seller for
the same or an overlapping week (`Listed`); in the first case the total it
computed is theirs, and the number of rows the UPDATE reports says which case it
is.  Two open transactions insert different keys and attach different charges
(`Apart`).  Hence `InvoiceMatchesCharges`, and with the lemmas on sums
the pages add up: in every behaviour while no two weeks of a seller overlap
(`PagesAddUpWithoutOverlap`), and always when the closing weekday never changes
(`PagesAlwaysAddUp`, whose assumption `OneClosingDay` is that the set `Weekdays` an
administrator may choose from has one element; it is not assumed anywhere else).
`SalesAreSettledOnce` is the refinement of `CommissionLedger`.

These are about `SumFunctionOnSet` of the community modules, with which
the totals are written.  The library's induction theorems take an operator and
cannot be cited, so the lemmas argue by the smallest counterexample: a set of
natural numbers without a smallest element is empty (`NatLessThanWellFounded`,
which takes none), applied to the sizes of the sets a statement fails for.

`QuotaProofs`.  The three limits are overrun by requests whose checks overlap, and
the proofs say why by no more.  For the bidders of a post, the requests that have
read it and not yet written their bid are counted with the bids: together they
exceed the limit by the other requests at most, because the counter a request
reads falls short of the bids only by those still to be counted and by lost writes
(`BiddersOK`).  For a monthly counter, the requests about to take one are counted
with it; those that found a month over and are about to reset it take part only
once the reset would leave the row alone (`AllowanceOK`).  The handler's test of the
month does not imply the one of the UPDATE; `DueRows` shows that it does but for the
`Forgotten` rows, for every calendar, and a row that is forgotten stays so until it
is emptied.  The slots are the
hard one, because a check adds two counts taken at different times, so neither
holds when the other is taken.  `Ranked` orders the first counts by time and looks,
among the checks that passed, at the one whose first count is the latest: when it
made its second count, everything active then was in one of its two counts, and
what was cleared since then is a check that was halfway at that moment.
Members whose bids come back with a post that moderation approves again are the
`restored` of the property.

`AccountsProofs`.  A request works on one account, so what its earlier statements
wrote is there when the later ones run: the documents of a merchant before the
review (`DocumentsOK`), region and profile of a carrier (`SetUpOK`).
`StatusKept` goes through every action that others may take on that account
meanwhile.  `SanctionsHold` is an action property, proved from `IInv`: a status
leaves `suspended` or `banned` by an administrator's decision, by the date, or by a
request the middleware let in before the sanction.

`NewsProofs`.  The claim spends the notification of a story for good (`Spent`), so at
most one publish call or goroutine ever holds it (`OneHolder`), and what that one
has pushed, has yet to push and has yet to mark accounts for every push on a phone
(`PushOK`): hence `OnePushPerMember`, restarts included.  The delivery counts are
exact while nothing failed (`CountOK`, `RowsOK`), the parts of `ViewersAddUp` are
equations between the cardinalities of the sets of visits, and `NeverNewAgain` is
an action property.

`NoticesProofs`, on `NoticesAreBounded`.  How often a member was told says nothing
about how often it will be: what is bounded is the notices that came together with
those still to come.  `Counted` counts, for each post and member, one for the cron if
it has yet to pass over the member or will read the post again (`Ahead`), and one
for a goroutine that has not reached the member, or not started
(`FromGoroutine`).  A send moves one from the notices to come to those that came; a
read of a batch is of posts without their mark, which were counted already; a mark
that fails, or a restart that forgets which members were told, brings one back and
is a fault.  Hence two per post, one for a demo post, and one more per fault
(`NewBounded`, `ChooseBounded`).  Calls to a post about to end repeat, so they are
counted by the room that is left (`EndingBounded`): `Later` is the number of calls a
gap apart that fit between the next possible one and the end, a mark moves the next
one by a gap and so takes one off, and moderation that gives the post a new end
adds one run of `MaxCalls`.  What a quota row remembers covers the demo notices so
far (`DemoRemembered`): none later than its time, and on its day no more than it
counts.  That every notice of a demo post asked for its slot is the other half of
`IInv`, `DemoKnown`: the cron knows a demo post for one, and never calls for it,
unless a lookup failed, which costs a fault and one `mistaken` post.  That two of them are `MinGap` apart across midnight, when the claim starts
a new day without looking at the gap, is not the doing of the claim: it holds because the night
is longer than the gap.  `NightAssumption` says so (from 22 to 9 is eleven hours,
the gap two), and the theorem does not hold without it.

On `FeedsAgree`.  Of the state only `BornInOrder` is needed.  A feed orders its rows
strictly, so the number of rows before a row is an injection of the rows into the
numbers below their count, every place is taken by one row, and the rows as a
sequence have the length that the counting query returns (`OrderedRows`).  Joining
the pages of any total that is at least this length gives the rows back (`PagesShow`;
`FlattenSeq` is a recursive function, whose value after k pages is the rows up to
`k * PageSize`).  The rest is that each total repeats the conditions of its feed, and
that the conditions of `Audience` imply those of the feed (`AudienceSees`).

Each inductive invariant was checked with TLC on the instance of its run before it
was proved (the ranks of `Ranked`, which range over the natural numbers, below a
small bound).

The assumptions are those the modules declare: sizes and durations are natural
numbers, sets of rows that are counted are finite, the SQL NULL is none of the
values of a column.  `Quota` assumes the last of each kind of row, `Notices` of
what its variables hold, and the night that is mentioned above.

Only model-checked:

- liveness (`EndedAuctionsLeaveMarket`, `EndedRequestsLeaveMarket`,
  `LapsedSelectionsClose`, `OrdersEventuallySettle`, `CompletedAreCharged`,
  `UnpaidAreReminded`, `RecipientsAreServed`, `LapsedSuspensionsEnd`, `OnboardingEnds`,
  `PostsAreAnnounced`), which is out of the prover's reach: it rests on fairness,
  and so on ENABLED.

Every other property of a passing run is a theorem, `PagesAddUp` under the provisos
named above.

### What the proofs found

A comment in `commission/service/service.go` (line 235) says of the rows the UPDATE
reports: "The set moved between the two statements. Roll back rather than issue an
invoice whose total does not match the sales behind it."  The proof of
`InvoiceMatchesCharges` does not go through without the exception for overlapping
weeks, and TLC shows why.  The closing weekday is a setting.  When it is changed
while two processes run, they bill weeks that overlap; one takes a charge of
the other's list, and a sale charged in between takes its place, so that the
numbers of rows agree and the total does not.  With `Weekdays = {0, 1}`,
`WeekLength = 2`, `MaxChanges = 1`, `MaxFaults = 0`, `Rates = {1}` and `Horizon = 4`
in `Commission.cfg` and the exception dropped, TLC finds it in twenty steps.  The
run itself keeps `Weekdays = {1}`: with one weekday no two weeks overlap.

## Not modelled

- Password reset: what it must guarantee is that a six-digit code cannot be
  guessed in time, a matter of probability and not of states.
- Settings: a whitelist of keys, a table and a cache.  The modules that read a
  setting let an administrator change it between any two statements.
- Rate limiter: a token bucket in floating point whose one promise is a rate.
- Sessions and tokens: session rows are written and never read; a token is a
  signature.  The cron's deletion of old sessions is left out for the same reason.
- The list of notifications a member reads, its cut to the newest ten, and push
  tokens; sending itself, with its gate and its failures, is part of `Notices`,
  `News` and `ShippingQuotes`.
- Analytics (read-only reports in SQL and floats), uploads and external clients (pure I/O;
  their failures are the callers' faults), the HTTP layer (one service call per
  handler), the referral endpoint (a stub), the text of demo posts.
- Inside the modelled parts: amounts, titles, images, fake names and wording.

## Plan

Password reset and settings, whose hazards are listed without a property.
