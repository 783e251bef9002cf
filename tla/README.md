# Formal models of the commerce platform

TLA+ models of the part of this repository that keeps state under concurrent access: stock, money, points,
recurring orders, carts, messages to customers and owners, cohorts, teams, support conversations, documents,
imports, prices and experiments, and the cart as a shopper's browser holds it. That is the services under
`src/packages/core/src/services`, the background worker `src/apps/worker` and the cart of `src/storefront`. The server's
part is request handlers and jobs that run concurrently over one PostgreSQL database. Most handlers make
several statements that commit one by one, so the interesting behaviour is in their interleavings, in
what a handler still believes after somebody else has written, and in what is left when it stops half
way.

File and line references below are relative to `src/packages/core/src/services/` unless they start
with `src/`. `PROJECT.json` maps every definition to the lines it models.

Contents: [inventory](#inventory), [plan](#plan), [modules](#modules-and-how-they-follow-the-code),
[runs](#runs), [bounds](#bounds), [fairness](#fairness), [proofs](#proofs),
[divergences](#divergences), [abstractions](#abstractions-and-what-is-not-modelled).

## Inventory

| part | state it keeps | operations | interacts with | hard behaviour | what makes it correct |
|---|---|---|---|---|---|
| stock (`stock.service.ts`) | on-hand and reserved counts of variants, reservation rows, movement ledger, policy | reserve, consume, release, sell, restore, adjust, recount, receive, expiry job | called by payments, orders, returns and the worker, mostly inside `.catch(() => undefined)` | several closers of one reservation; conditional updates; clamping at zero; holds nobody closes | ledger explains the counts; reserved is what active holds hold; nothing oversold; every hold ends |
| payments (`payment.service.ts`) | `Payment` and `Order` rows | checkout, webhooks, refund | stock, loyalty, invoices, provider | duplicated, late, reordered webhooks; provider calls between a read and a write | one sale per capture; refunds within the order's value |
| orders (`order.service.ts`) | `Order.status` | updateStatus | stock | state machine checked on a read, unconditional write | side effects match what was taken |
| shipping (`shipping.service.ts`) | `Shipment` | book, cancel, carrier webhooks | order status | unconditional writes of FULFILLED | at most one shipment per order |
| returns (`return.service.ts`) | `Return`, its items | request, approve, reject, receive, cancel, refund, buyer cancellation | payments.refund, stock, invoices | read, check, write by id; money sent before it is recorded | transitions kept; money and goods counted once |
| invoices (`invoice.service.ts`, `tax/`) | `Invoice`, `CreditNote` | issue at capture, credit a refund | payments, returns | idempotency keys; rounding | every refund credited once |
| subscriptions (`subscription.service.ts`) | `Subscription` | create, pause, resume, cancel, reschedule, bill what is due | payments.checkout, worker | overlapping runs, claim, revert after failure, crash between | one order per due date, none skipped |
| discounts (`discount.service.ts`), loyalty (`loyalty.service.ts`) | `Discount.redeemedCount`, point balances and their ledger | validate and claim a code; spend, earn, award | cart checkout, captures | last slot and last points wanted twice; failure after a claim | limits and balances hold; points spent are worth their discount |
| carts (`cart.service.ts`) | `Cart`, items, recovery steps | items, checkout, abandoned-cart recovery | discounts, loyalty, payments, worker | recovery job against the buyer's activity | a converted cart stays converted |
| worker (`src/apps/worker/src/index.ts`) | `running`, `lastAdvisoryAt`, in memory | one tick: recovery, alerts, expiry, cohorts, subscriptions, engagement, advisories | all of them | one try block: a job that throws hides those behind it; restarts; the merchant runs the same jobs by hand | whatever is due is done in the end, and no more than once where the code claims so |
| owner alerts (`stock.service.ts` 417-469, `stock/scorer.ts`, `advisor.service.ts`) | `lastStockStatus`, `AdvisoryDispatch` | rate, record, alert; evaluate, report, record | worker, notifications | record and alert are two steps, in either order; scans overlap | no degradation in silence, no alert without end |
| cohorts (`cohort.service.ts`) | `Cohort` rows | recompute | worker, engagement | delete all and re-create one by one, without a transaction | a cohort that customers yield all along is not lost |
| engagement (`engagement.service.ts`), consent (`customer.service.ts`) | message log, policy, consent | run, log, stamp; opt in, opt out | worker, cohorts, notifications | delivered before logged; consent read once per run | caps, consent, quiet hours |
| team (`member.service.ts`, `auth.service.ts` signup and acceptInvite, `platform-auth.service.ts` staff) | `Membership`, `Invite`, staff roles | invite, accept, change role, remove | authorization | count of owners and write are apart | somebody holds the top role |
| support desk (`customer-support.service.ts`) | conversation, rebuttals | chat, reply, setStatus, setConfig | assistant, notifications | saved from what was read before the assistant answered | who is not helped reaches a human |
| charges and documents (`checkout-settings.service.ts`, `tax/allocate.ts`, `invoice.service.ts`) | settings, `Invoice`, `CreditNote` | quote, generate, credit | payments, returns | numbers by maximum plus one; rounding; settings change between checkout and capture | documents say what was charged |
| order import (`import.service.ts`) | `ImportJob`, imported orders | execute, dry run | checkouts of the same store | number counted on from one read; dies half-way | everything once, the rest reported |
| repricing (`pricing.service.ts`, `product.service.ts` updateVariant) | rule, costs, competitors, prices | setRule, setCost, competitors, reprice, edits | each other | analysis first, writes later; two checks of one pair of prices | margin, settling, "was" price |
| experiments (`experiment.service.ts`, `page.service.ts`) | variants, weights, live page and theme | variants, setStatus, promoteWinner, pickSplit | storefront | promotion is three writes | split as set; the winner is live |
| shopper's storefront (`src/storefront/src/cart.jsx`, `pages/Cart.jsx`, `FrequentlyBoughtTogether.jsx`) | cart id in `localStorage`, per tab the cart and quote shown | add, quantities, remove, bundle, quote, checkout | carts | answers in any order, tabs that share one id, lost answers, a closure that knows an old id | what is shown is what is there and what is ordered, once |
| the rest | merchant data, content, reports, credentials, adapters, REST and MCP front ends, the other web applications | CRUD, rendering, provider calls | | validation and formatting | not modelled |

`PROJECT.json` lists every component with its source files and its status, and under `hazards` what is
hard to test in this code, at the line where it bites, with the properties that cover it.

## Plan

Done, in this order:

1. `StockLedger`: the stock tables, one action per transaction: the abstract specification of what the
   tables promise to any caller. Proofs in `StockLedgerProofs`.
2. `OrderLifecycle`: checkout, webhooks, merchant, buyer, carrier and expiry job, statement by
   statement; it implements `StockLedger`. Proofs in `OrderLifecycleProofs` (types, what handlers
   know, refinement, then sales, holds and counts).
3. `Subscriptions`: recurring billing under overlapping runs. Proofs in `WorkerProofs`.
4. `Redemptions`: coupon slots and loyalty points of concurrent checkouts. Proofs in `RedemptionProofs`.
5. `Refunds`: refunds, returns, credit notes and goods put back. Proofs in `RefundProofs`.
6. `BillingPromise`: what recurring billing promises; `Subscriptions` implements it.
7. `CartRecovery`, `OwnerAlerts`, `Cohorts`, `Engagement`: the worker's other jobs, each with the actors
   around it.
8. `WorkerTick`: the tick, composed of those and `Subscriptions`, with liveness. Proofs of 7 and 8 in `WorkerProofs` too.
9. `Team`, `SupportDesk`, `Invoices`, `HistoryImport`, `Repricing`, `Experiments`, composed in `BackOffice`.
   Proofs in `BackOfficeProofs`. `Sums` holds the lemmas about sums that several proofs need.
10. `Storefront`: the shopper's side of a cart. Proofs in `StorefrontProofs`.

Worth adding later: a promise of a checkout as a whole (`OrderLifecycle` with `Redemptions` under an abstract "an order is placed with everything it claimed, or nothing
is").

## Modules and how they follow the code

A process is a request handler or a worker. `proc[p]` holds where it stands and what it remembers; an
action is one database statement or transaction, or one call of a provider, with everything the code
does up to the next one. A guard is the code's condition or `where` clause. A statement that reads
and decides is an action of its own when the handler acts on the result later, so every stale read of
the code is a behaviour.

**`StockLedger`**: `inventory`, `reserved` are columns of `ProductVariant`; `hold` the status of
the reservation row of an order's line; `ledger` the sum of the movement deltas and the last balance;
`policy` the `StockPolicy` row. `Reserve` is `reserve` (all lines or none: it throws inside the
checkout's transaction), `CloseRow` one iteration of `closeReservations`, `Move` is `move`
(203-246) with its clamp at zero and its applied delta, `Adjust`, `SetInventory`, `Receive` and `SetPolicy`
are the merchant's. `CloseRow` does not ask whether the row is still active: neither does the code.

**`OrderLifecycle`** (extends `StockLedger`): `checkout` is `BeginCheckout`, `PlaceOrder` or
`RejectOrder`, `StoreRef`. `handleWebhook` with `applyPaymentStatus` is `HandleWebhook` (the
unconditional payment write), `FlipOrder` or `FlipRefused` (the conditional `updateMany` and its
`count`), then `ListHolds`, `CloseHold` for each row, `ReadSalePolicy`, `SellLine` for each line.
`updateStatus` is `BeginUpdate` and `WriteStatus` with `PutBack` or the closing of holds;
`cancelOrderByCustomer` adds the refund (`CallRefund`, `RecordRefund`); shipments are `BeginShipment`,
`CreateShipment`, `Delivered`; the expiry job `ScanStale`, `VisitStale`, closing, `WriteStatus`.
`Crash` ends a process anywhere; `StockCallFails` is a stock call whose error `.catch` hides.
`ProviderSends` is the environment: an event once sent may be delivered any number of times, late, in
any order. `booked` and `captures` are history: the `SALE` and `CANCEL` movements of an order and the
times a webhook moved it to PAID. `Ops` says which operations an instance lets happen.

**`Subscriptions`**: `runDueSubscriptions` is `ListDue` (the listing of due rows), `Claim` (the
conditional `updateMany` on `nextBillingAt`), `PlaceOrder` or `CheckoutFails`, `RecordCycle` or
`RecordFails` (the write inside the same `try`), `Revert` (the `catch` block). `setStatus`, `update` and
`manageByEmail` are `BeginChange` (load and refuse) and `WriteChange` (by id). `billed` is history.
Days are natural numbers. In `ListDue` only a listing with rows is an action; an empty one does nothing.

**`Redemptions`**: `checkoutCart` is `BeginCheckout`, `ValidateCode`, `ClaimSlot`, `CheckPoints`,
`SpendPoints`, then `PlaceOrder` or `CheckoutFails`; `earnForOrder` is `BeginEarn`, `CheckDuplicate`,
`PostEarned`; the merchant's are `CreateCoupon`, `SetActive`, `RemoveCoupon`, `Award`. `WindowPasses` lets
the validity window open and close.

**`Refunds`**: `payments.refund` is `CheckRefund` (the read and its three refusals), `AskProvider` or
`ProviderFails`, `RecordRefund` (from the value that was read), `FlipOrder`. `ReturnService` surrounds it:
`BeginRequest` and `CreateReturn`, `BeginMove` and `WriteMove` (approve, reject, receive, cancel),
`RestockReturn`, `BeginRefund`, `CloseReturn`, `WriteNote`; `cancelOrderByCustomer` is `BeginCancel`, the
refund, `WriteNote`, `CancelOrder`, `RestoreOrder`. `Fulfil` is a shipment that is booked or delivered: it writes
FULFILLED whatever the status of the order is (`shipping.service.ts:88, 170`). `OrderWritten` and `PaymentWritten` stand
for any other status write of the other components, on stale reads too; they over-approximate `OrderLifecycle`.
`sentBack`, `restocked` and `reopened` are history: what the provider was asked to pay, what was put back, and which
closed orders a shipment has reopened.

**`BillingPromise`**: a subscription's dates are taken in order, each at most once, and a taken date gets
its one order or is given up. `Subscriptions` maps `nextBillingAt` to the first date nobody has taken, and
the claims of its runs to the dates taken (`Promise == INSTANCE BillingPromise WITH ...`).

**`CartRecovery`**: `addItem` is `AddItem`, `ClampLine`, then `touch` as `ReadCart` and `TouchCart`; the other
line edits start at `touch`. `applyPaymentStatus` settles the cart with `Capture` (the read) and `SettleCart`.
`runRecoveryJobs` is `StartRecovery` (policy and listing), `MarkAbandoned` per cart, `ListAbandoned`,
`SendReminder` and `CountStep` per cart; `RequestFails` and `RecoveryStops` end a handler between two
statements. `slipped` is history: carts with a write on a read that somebody else had overtaken.

**`OwnerAlerts`**: `recomputeAndAlert` is `TakeStock`, then per variant `SaveRating` and `AlertOwner`; `Score` is
the scorer, its quotients cross-multiplied. `runDueAdvisories` is `Evaluate`, then per code `SkipCode`, or
`ReportCode` and `RecordCode`. Ages are counted up to the hours that matter. `alerted`, `heard`, `toldAge`
and `early` are history.

**`Cohorts`**: `recompute` is `ReadFeatures`, `ResetCohorts` (`deleteMany`), `CreateCohort` per key, in any order and
another one in every run (the code iterates over Maps filled from queries without an order), `StampCohorts`. A create
that meets the unique key throws and ends the run (`GivesUp`). `latest` and `spoilt` are history: the run that deleted
last, while it runs, and whether it failed.

**`Engagement`**: `run` is `BeginEngagement` (customers and consent loaded), per customer `Serve` (consent of
the row that was loaded, quiet hours, caps counted in the log), `Deliver` or `NotDelivered`, `LogMessage`;
`runDueEngagement` adds `EngagementDue` and `StampRun`. `today` and `late` are history.

**`WorkerTick`** (extends the four and `Subscriptions`): `tick` as a loop over `JobOrder` inside one try block. A
behaviour watches one job (`watched`, chosen at the start and never changed): `TickReaches` is the tick arriving at
it, `TickIsCutShort` an earlier job that throws or a restart, `...InTick` the job's steps taken by `Worker` only
while its tick is there, `...Around` everything else that happens in that component, `...BreaksOff` the job throwing
or dying. The jobs share no state that a property here relates, so the projection of a run of the whole worker to
one job is a behaviour that watches it: its own steps, and ticks that pass or are cut short.

**`Team`**: `platform` says whether it is a workspace or the platform's staff. `createInvite` is `Invite`,
`acceptInvite` `ReadInvite` and `Join`, `changeRole` and `removeMember` `Ask`, then `CountTop` if the top role
is taken away, then `WriteRank`. `slips` is history: how a top role was taken without a valid count.

**`SupportDesk`**: `chat` is `CustomerWrites` (reads), `Answer` (the assistant, or the cap), `SaveTalk` (from what
was read), `AlertOfTalk`; agents are `AgentReplies`, `SetTalkStatus`; the owner `SetMaxRebuttals`. An assistant
that is switched off is `maxRebuttals = 0`.

**`Invoices`**: `Buy` with `Quote` is the arithmetic of a checkout; `DraftInvoice` that of `generateForOrder`
(`Allocate` is the largest-remainder split of `tax/allocate.ts`); `NumberInvoice` and `IssueInvoice` its
transaction's read and insert; `CreditSale` a credit note. A single refund is within the order's total; several
together need not be, because `payment.refund` reads what is left before the provider is asked and `generateCreditNote`
does not look at all. Amounts are exact integers of the minor unit.

**`HistoryImport`**: `createOrders` is `StartImport` (references), `ReadNumber`, `ImportRow` per row, and
`ImportCompletes`; `RowFails` and `ImportDies` are the faults; `CheckoutReads` and `CheckoutInserts` the storefront.

**`Repricing`**: `reprice` is `StartReprice` (the rule), `Analyze` (variants, costs, competitors), `WritePrice`
per changed variant; `Recommend` is `recommend` with `MarginFloor` and `Charm`. `updateVariant` is `Edit` (read and
compare) and `SaveEdit`. `basis` and `crossed` are history.

**`Experiments`**: `promoteWinner` is `Promote`, `WritePage`, `WriteTheme`, `EndExperiment`; `setStatus` is
`AskStatus` (the count) and `WriteStatus`; `ShareOf` says how many of a hundred buckets `pickSplit` gives a variant.

**`BackOffice`** (extends the last six): a behaviour shows one part, its `scene`, chosen at the start; the
others stand still in one of their initial states. They have no state in common, so each part's behaviours
are all there, and one run checks them.

**`Storefront`**: `carts` and `orders` are the server's, `stored` the id in `localStorage`, `tab` what a tab shows, `calls`
the requests with their answers, which arrive in any order. The actions of a tab start a request (`AddToCart`, `SetQty`,
`RemoveItem`, `AddBundle`, `OpenCartPage`, `Reload`, `PressCheckout`), `Server...` answers it, and `CartCreated`,
`CartChanged`, `CartLoaded`, `Quoted`, `CheckedOut`, `CallFails` are what follows the `await`, React's effects on the new cart id
and number of lines (`Requotes`) included. `LoseCall` loses a request or its answer. What a request does inside the server
is the subject of `CartRecovery` and `Redemptions`; here it is one step. `charged`, `acted`, `rushed` and `walkouts` are history.

The `MC...` modules only give these their constants, as small sets. Properties and theorems are stated in the modules
themselves, sums over rows with the fold operators of the community modules. A few definitions stand just before a definition of the same
parameters (`FlipAlways` before `FlipAllowed`, `StepDueAgain` before `StepDue`): the same code with a plausible bug.
They are used only to see that a property notices the bug.

## Runs

`pass` runs (all complete, with the number of distinct states):

| run | states | question and answer |
|---|---|---|
| `lifecycle_all` | 368 000 | Every operation, crash and swallowed failure on one order with two handlers and a worker. At most one sale per capture (`SoldAtMostOncePerCapture`); `reserved` never exceeds the active holds (`ReservedNeverOverstated`); the ledger explains the on-hand count (`LedgerExplainsStock`); every step is a `StockLedger` transaction or leaves the tables alone (`StockSpec`, the refinement). |
| `lifecycle_races` | 193 000 | A two-line order with captures, failures, buyer cancellation and expiry racing, no crash: when the handlers have finished, every capture has sold every line exactly once (`EveryCaptureSells`), no order that left PENDING keeps a hold (`NoHoldLeak`), and every hold is closed in the end (`HoldsAreFreed`). |
| `lifecycle_stock` | 399 000 | Two orders want one unit while captures, recounts, policy changes and failing stock calls interleave (`UnitsAreCounted`). As long as captures are the only closers `reserved` is exactly the units held (`ReservedExact`); nothing is negative in a store that never allowed backorders (`NeverNegativeWithoutBackorder`). |
| `redemptions_all` | 151 000 | Two checkouts that may fail, one coupon slot, one balance, awards and captures: orders within the limit (`OrdersWithinLimit`), no overdraft (`NeverOverspent`), no order with points nobody paid, points rounded to what their discount needs and the whole discount in the order (`PointsCarryTheirValue`). |
| `refunds_sequential` | 84 000 | One request at a time, shipments and a provider that may decline: two returns and a cancellation of one order pay back at most its value (`SentWithinTotal`); a full refund closes the order, which only a later shipment reopens; every refund is credited; no more is restocked than the returns received and the cancellation put back, each once (`MoneyAndGoodsSettle`: `RefundsAreFinished` and `RestockedIsBack`). |
| `refunds_all` | 3 480 000 | Two handlers with crashes, failures and foreign status writes: the recorded refund stays within the order (`RefundedWithinTotal`) and within what was sent (`RecordedWasSent`), and so do the refunds of the returns and the credit notes (`ClaimsWereSent`). |
| `worker_carts` | 323 000 | Recovery and billing with their faults. The recovery job in the tick and on request, among shoppers who edit, check out, pay and unsubscribe, with one fault. A paid cart stays settled unless a write slipped between another's read and write (`PaidCartsStaySettled`); reminders go only to carts that had been idle long enough, and no more of them than steps, overlaps and faults explain (`RemindersAreDue`); idle carts are marked and reminded in the end (`WaitingWorkIsDone`). Billing with rescheduling, failed checkouts, lost writes and crashes: a subscription that is not active and not claimed gets no order, although a run may have listed it while it was active (`InactiveIsNotBilled`), and what is due is billed, paused or cancelled in the end. |
| `worker_stores` | 299 000 | The five jobs over stores, each with the merchant's own runs, stops, a tick that is cut short and restarts. Degradations are told, bounded times, once per code and day (`OwnerIsTold`); the recompute that deleted the cohorts last keeps the steady ones unless it fails itself, and overlapping alone never leaves a store without any (`SteadyCohortsKept`); dates are billed once (`BilledAtMostOnce`) and claimed as `BillingPromise` promises (`BillingPromised`, a refinement); engagement stays within weekly, daily and gap caps, consent and quiet hours, up to one message per overlapping or stopped run (`MessagesWithinLimits`); and what is due is done in the end (`WaitingWorkIsDone`). |
| `back_office` | 794 000 | Six parts among their own concurrent requests: the top role is held unless a write landed on an overtaken count (`TopRoleIsHeld`); `EscalationsReachPeople`; `DocumentsAreExact`; `ImportsAreComplete`; `PricesKeepTheirRules`; `ExperimentsAreFair`, each a conjunction of the invariants its module states and explains one by one. |
| `shopper_cart` | 1 304 000 | A shopper with two tabs, and one thing done while a request is in flight or one call lost (`ShownIsSold`). Who does one thing at a time in one tab sees the cart that is stored and as the server has it, loses nothing put into a cart, and orders what is shown, with a total quoted for those lines; a bundle grows in a cart that is there; whatever is in flight, a tab orders a cart once, plus once for every lost answer. |

`violation` runs check one sentence of the sources each and TLC finds a behaviour of the code that
contradicts it: `redelivered_capture` and `refund_race` (see [divergences](#divergences)).

`CHECK_DEADLOCK FALSE` is set where an instance really ends: all subscriptions cancelled, all orders
placed, all returns closed and the days, hours or requests of the instance used up.

Properties that excuse something ("unless a write slipped", `overlapped`, `mixed`, `edited`, `slips`,
`crossed`) excuse exactly the interleavings in which the code really breaks the rule; the excuses were found by
letting TLC refute the plain rule first. Such a property says nothing about the excused interleaving itself, and
`PROJECT.json` says under the hazard what is left out. The bounds with a number of overlapping executions in them
(`FatigueGuard`, `AlertsPerChange`, `RemindersAreDue`) are tight: one less is refuted.

`StockLedger` has no run of its own: `lifecycle_all` checks that it is implemented, and its invariants
are checked on the implementation and proved for every caller. `SubscriptionTypeOK` is part of `TickTypeOK` in `worker_stores`.

## Bounds

| bound | value | why it is enough |
|---|---|---|
| handlers | 2 (1 in `refunds_sequential`, by intent) | a race in this code needs one process between its read and its write and another one that writes; the worker is a third process |
| orders, variants | 1 or 2 | two orders compete for a unit (`lifecycle_stock`), two lines let a handler be interrupted between them (`lifecycle_races`); properties speak of one order or one variant |
| `MaxStock` 4 | on-hand and reserved counts stay in -4..4 | reaches backorders, clamps and recounts below the reserved count; orders ask for one unit |
| `MaxHooks` 2 or 3 | webhook calls per order | a duplicate, and a duplicate around a failure |
| `MaxRequests` 1 or 2 | merchant, buyer and stock requests | each operation meets all webhook and worker interleavings; in `lifecycle_stock` two make policy switches and recounts follow each other |
| subscriptions: `MaxTime` 1 or 3, `MaxRequests` 1 | | one day is enough for a stale list in `worker_carts`; three days in `worker_stores` give a claim, the following date and one more with intervals of one and two days |
| redemptions: amounts of 1 to 4, `PointValue` 2 | | odd carts with points worth two units make the cap and its rounding matter; an offer of 4 exceeds the cart of 3 |
| `MaxPoints`, `MaxClaims`, `MaxCoupons`, `MaxCaptures` | | stop awards, claims, re-created coupons and captures from growing without end |
| refunds: 3 paid plus 1 shipping, quantity 2, fee 50 % | | a half share does not divide, the fee rounds, a full return adds shipping |
| `MaxSent`, `MaxRestocked` | no refund begins after so much was paid back | lets racing refunds exceed the total and then stops |
| carts: minutes 0..2, two requests, one fault | | idle after one minute, steps at once and after one more: a cart can be marked, reminded, woken and marked again; a shopper meets the job at each of its statements |
| alerts: two scans, one variant, 3 moves, 1 mishap | | a rating can go down, back and down between the steps of two scans |
| cohorts: three keys, two recomputes | | one key to be met, one that stays and one that goes; two runs can create them in opposite orders |
| engagement: hours 0..2, days of 2, weeks of 4, caps of 1 and 2 | | the clock crosses a day and a gap, and the weekly cap of a cold customer is met where the daily one is not; two runs overlap, one may die |
| `MaxThrows` 1 | ticks cut short | more only repeat it; liveness needs that ticks get through in the end |
| back office: two handlers, a few calls each | | every pair of operations interleaves with a third between them; three users make "the last but one" exist |
| invoices: baskets `<<7, 8, 10>>` and `<<101>>`, 5 % and 18 %, refunds of 8 and 11 | | odd amounts that do not divide, a discount that leaves remainders, inclusive and exclusive tax; two halves of an order of 16 credit its tax of 1 twice, and refunds of 11 add up to more than the order |
| import: rows a, b, a, c | | a repeated reference, two jobs and two checkouts collide on every row |
| repricing: four rules, costs 0 and 700, rival 649 | | below the floor, charmed, unknown cost, a target below zero |
| experiments: three arms, weights 0, 50, 30 | | shares that do not divide, a variant without weight |

| shopper: two tabs, two products, two carts, six acts, `MaxTrouble` 1 | | six acts let two tabs order one cart, or a quantity change between cart page and checkout; a second cart and one more lost call only repeat. Leaving the page that is checking out and ordering again takes three hasty acts: the allowance for it in `OrderedOnce` is not reached |

`watched` and `scene` are no bounds: a behaviour shows one part, and TLC checks all of them in one run. What
a run adds by having them together is only that one instance serves all.

The bounds are guards of the environment's actions, or end the counting of history; no step
of a handler that has begun is cut off, except that stock counts and claims of a coupon stop at their
bound.

## Fairness

`lifecycle_races`, `worker_carts` and `worker_stores` check liveness. `FairSpec` of `OrderLifecycle` assumes
that a handler that has begun continues (the server is alive), that the worker goes on ticking (`setInterval`,
`src/apps/worker/src/index.ts:86-87`), and that the expiry time passes. Buyers, merchants, carriers and the
provider owe nothing: no webhook need ever arrive. Instances of it with liveness have no crash and no failing stock
call; with either, holds can stay for ever.

`WorkerFairSpec` has three weak fairness conditions. `WorkerWorks`: the timer fires, and a tick that can go on
does so (the process is restarted when it dies; a tick that throws is followed by another). `ApiWorks`: a request
that has begun, the merchant's run of a job say, is carried through, because Node goes on with what awaits. `TimePasses`:
the clock of the advisor and of the cohorts moves. Nothing is assumed about shoppers, merchants who need not start
anything, or faults, which are bounded by `MaxThrows`, `MaxFaults` and their like: a job that throws for ever does
starve those behind it, and that is what the code does. In `WaitingWorkIsDone` "what is due" is stated per job
(`WorkWaits`): it may stop being due because the work was done or because it went away, a policy switched off for one.

## Proofs

All theorems hold for every value of the constants that satisfies the named assumptions (finite sets of
orders and processes, natural amounts), not only for the instances above.

- **`Sums`**: what `SumFunctionOnSet` gives for a finite set, whatever order its fold takes: one more element, one changed
  term, a part of a sum, two sums added. An induction theorem that takes an operator cannot be used with these
  provers, so the induction is done over sets: the subsets for which a claim fails are a set, a non-empty one has a smallest
  element by the theorem `WFMin` of the library, and that smallest exception is refuted.
- **`StockLedgerProofs`**: types, `LedgerCorrect` (`LedgerExplainsStock`), `NeverNegative`,
  `ReservedConserved`, `ReservedWithinHeld` (`ReservedNeverOverstated`). The invariants are inductive with the types, except
  that `NeverNegative` needs that `backorder` implies `everBackorder`. For `ReservedWithinHeld` the sum over the rows
  of a variant changes by one row's quantity when it is reserved or closed; a row closed twice takes its quantity off `reserved` again,
  and off the sum only once, which is why it is `<=`.
- **`OrderLifecycleProofs`**: `TypeCorrect`; `KnownCorrect`, the invariant the rest uses: a handler's
  step, operation, order and remaining lines agree, and an order that is not yet committed is known only
  to the handler that is placing it. Without it a step could reserve for an order whose rows exist, so
  the refinement is not provable from the types. `ImplementsStock`: `Spec => StockSpec`, one lemma per
  kind of step; `LifecycleLedger` and `NeverOverstated` transfer the stock invariants through it.
  `SoldOnce` (`SoldAtMostOncePerCapture`) and `CapturesSell`
  (`EveryCaptureSells`, assuming that crashes, failing stock calls and policy changes are not among
  the operations): the inductive invariant counts, per order and line, the sales booked plus the handlers that still
  will sell it, against the captures: a step moves one from the second to the first. Overlapping captures of one
  order (`CAPTURED`, `REFUNDED`, `CAPTURED`) are why it counts a set of processes instead of naming one.
  `NoHoldLeaks` (`NoHoldLeak`) assumes no crash, no failing stock call, no merchant update, shipment or
  refund event: the operations after which the code does leave holds, or writes the status by another way. Its invariant: every
  active hold of an order that left PENDING is attended by a handler that stands before, or in, the closing of that row.
  `ReservedIsHeld` (`ReservedExact`) has a condition on behaviours in place of one on operations: wherever no two processes
  are closing rows of one order at a time, `reserved` is exactly what is held; the invariant is that a closing process's
  remaining rows are active. `UnitsCounted` (`UnitsAreCounted`) then shows that behaviours in which only
  captures settle orders are of that kind, with crashes, failing calls, recounts and policy changes: the first capture's flip of the order excludes a second.
- **`WorkerProofs`, recurring billing**: `SubscriptionTypeCorrect`; `NeverDoubleBilled` (`BilledAtMostOnce`,
  assuming no rescheduling, no failed checkout and no lost write, but any crash and any number of runs).
  The invariant says why the claim is enough: no date from `nextBillingAt` on has been billed, a claimed
  date lies before it, is unbilled and has one claimant. Two more theorems rest on it: `ScheduleIsExact`
  (`ScheduleMatchesCycles`) adds that a claim is listed as the row was and that a cycle is forgone only with the run
  that held its claim; `ClaimsImplementPromise` (`BillingPromised`) that every step is one of `BillingPromise`
  or changes nothing it sees. Both assume that nobody reschedules and no checkout or write fails, with crashes.
  `InactiveNotBilled` (`InactiveIsNotBilled`, an action property) needs none of these assumptions.
- **`RedemptionProofs`**: types, `PointsNeverOverspent`, `CouponWithinLimit`, `PointsPaidFor` and `PointsKeepTheirValue` (the
  parts of `PointsCarryTheirValue`, and all of it). `CouponWithinLimit` needs that the
  orders and checkouts that carry the current coupon are at most its count, and that nobody carries a
  coupon that does not exist yet. For points the invariant (`PointsInv`) says what a checkout holds at each step: the points
  it will ask for are the discount divided by their value, rounded up, and two checkouts never place one order; that what a
  balance lost is what orders and checkouts under way took is a sum over both. `PointsKeepTheirValue` assumes that a
  cart's price at order time is the price of its discount (`PricesStand`): the payment clamps the discount otherwise.
- **`RefundProofs`**: types; `RecordedWithinTotal` and `RecordedIsSent`, for any number of concurrent
  refunds that overwrite one another's record: the invariant bounds what each handler has read and will
  add, and what it has sent on top of it. `SentBackCapped` (`SentWithinTotal`) assumes one handler
  without crashes and adds that a handler's read is still current when it asks. `ClaimsAreSent` (`ClaimsWereSent`) holds
  with any number of handlers and faults: what the credit notes, and the returns, of an order say was refunded, plus what handlers
  with money sent still owe them, is at most what was sent (`Claims`). `RequestsSettle`
  (`MoneyAndGoodsSettle`) is for one request at a time, as the run is (`Alone`), among shipments that write FULFILLED at any
  moment; its invariant (`Settling`) says for each step of the one handler what its return, its order and the payment are,
  up to a shipment that has reopened the order, and counts the units that are back by the rows, less those a handler is
  still to put back.
- **`WorkerProofs`, the worker's other jobs and the tick.**
  `SteadyKept` (`SteadyCohortsKept`) for any number of keys and recomputes, each with an order of its own, and any number
  of failing statements. What makes it inductive is that a run that is about to delete will create every steady key
  (`ReadsSteady`): so the latest run to delete starts with all of them ahead of it, a key leaves its list only by being
  there, and nobody but a later run takes one away. It says nothing about the cohorts after that run has met a key of
  another and thrown: they may then lack a steady one until the next recompute.
  `PaidStaysSettled` and `RemindersDue` (`RecoveryInv`): reminders sent are steps counted, plus the jobs that have sent and not yet
  counted, plus faults; the jobs that will still remind a cart, added to its steps, exceed the policy by at most the other jobs.
  `WithinLimits` (`EngagementInv`): what a run has room for is what the log said, and only the messages of other runs, or of stopped
  ones, can have come since; who opted out is reached at most by the runs that had loaded him.
  `OwnerTold` (`AlertInv`): a variant's alerts are paid from a budget, twice of which is `n (n + 3)` for `n` scans; each move of a
  scan takes from it at least what it alerts (`AlertsLeft`, with scans that carry an old rating counted quadratically, because each
  can make all the others correct what it recorded). A bound linear in `n`, which is as good for two scans, is wrong for three:
  the proof failed at it, and TLC gave the behaviour.
  `TickType` and `TickKeepsPromises`: each step of the worker is, for each job, a step of that job's own specification or
  leaves it alone (`OneJobAtATime`), so that `WorkerSpec` implements all five (`JobsAreThemselves`) and inherits their theorems.
- **`BackOfficeProofs`**, the six parts and their composition.
  `TopRoleHeld` (`TopRoleIsHeld`): the types, `CountsHold` (a request whose count is still valid has
  another holder of the top role to vouch for it) and the property itself are inductive together.
  `CustomersReachPeople` (`EscalationsReachPeople`): a talk that escalated has been told of, or exactly one chat is about to;
  the pushback is the rebuttals recorded plus the chats that have not saved theirs, until two of them mix (`SupportInv`).
  `DocumentsExact` (`DocumentsAreExact`) rests on two arithmetic facts: the largest-remainder split adds up to the amount that is
  split (`AllocationAdds`: the floors miss it by fewer units than there are lines, and ranking by remainder gives exactly that
  many lines one more), and the tax and shipping of a credit note are their share of the refund to within half a unit each,
  so together they never exceed it unless the sale was nothing but tax and shipping (`SharesFit`). Over several notes the halves add up in both directions
  (`InProportion`); nothing is assumed about how much is refunded altogether. Its invariant (`InvoiceInv`) carries
  the amounts of a checkout to the invoice and bounds each number asked for by one past the invoices issued.
  `HistoryComesInOnce` (`ImportsAreComplete`): per job, every row counted as failed was an order of somebody else or is one still ahead of its
  numbers, and what it went past is there or among the failures (`Counted`); per reference, the orders that carry it plus the jobs that
  still want it are at most the importers, and one if none overlapped (`Once`).
  `PricesKept` (`PricesKeepTheirRules`): a price that repricing wrote was recommended on the rule, cost and competitors
  it read (`RestsOn`); what an edit compared is what it leaves behind unless another came between (`Fits`).
  `ExperimentsFair` (`ExperimentsAreFair`): while nothing is edited one promotion is under way and has written what it went past, or the
  winner is live (`AloneOrLive`); the split adds up because a bucket falls to exactly one variant (`BelowMark`).
  `BackOfficeType` and `BackOfficeKeepsPromises` compose them as the tick's are composed (`PartsAreThemselves`).
- **`StorefrontProofs`**: `StorefrontType` and `ShownSold` (`ShownIsSold`), for any number of tabs, carts and products. That a tab
  orders a cart once is a count (`OrdersCounted`): the orders of a cart and the checkouts still in flight for it are at most the
  lost answers, the walk-outs and the tabs that wait for a checkout of it or will never hold it again. A tab that holds the cart,
  or would find it stored, has not paid for anything yet; the button's own guard keeps it at one. It needs that a cart
  is nobody's before the answer to its creation arrives (`HiddenUnused`) and that checkouts are told apart
  (`CheckoutsDiffer`). The rest is about a shopper who does one thing at a time (`Calm`): what is in flight is one edit,
  one checkout, or readings of the stored cart that will show what the server has; the invariant says for each what the answer
  is going to find and to show.

Assumptions that proving brought out: `HistoryImport` has finitely many importers and no reference of an export equals the
mark of storefront orders. Both hold in the code: a checkout's orders have no external reference, and requests are finitely many.

Only model-checked: liveness (`HoldsAreFreed`, `WaitingWorkIsDone`), because the prover does neither fairness
nor ENABLED. What the `violation` runs check is false, hence not proved. Every other property of a passing run is the property of a theorem.
`ReservedConserved` and `ScheduleIsExact` are
proved of properties that no run lists by name. Nothing computed by a recursive definition over all inputs is proved; the
models use none.

## Divergences

Kept as runs: the sources say one thing and the code does another.

- `redelivered_capture`: `payment.service.ts:298-300` says duplicate captures cannot consume stock twice;
  the guard of the PAID transition lets a late duplicate through after a cancellation or refund (302).
- `refund_race`: `payment.service.ts:214` caps total refunds; the cap is computed before the provider is
  asked and written after (214-232), so two concurrent refunds are both paid.

Seen while modelling, behaviours of the same modules, not kept as runs of their own:

- Booking a shipment and its DELIVERED event write FULFILLED by id (`shipping.service.ts:88, 170`), over CANCELLED and
  REFUNDED too, which `order.service.ts:8` calls terminal.
- The expiry job cancels "pending orders that never paid" (`stock.service.ts:395-396`), but reads the status, releases the
  holds and then cancels by id (407-410): an order captured in between is sold and cancelled.
- A run whose record fails after the order was placed gives the date back, and the period is billed again
  (`subscription.service.ts:306-324`, against 274-275: a retry cannot bill a period twice).
- Two overlapping demotions both count two owners and leave a workspace without one, which `member.service.ts:12-13`
  says it keeps (107-120).
- An order the merchant marks PAID keeps its holds for ever (`order.service.ts:48-60`, `stock.service.ts:408`), and cancelling
  it puts back units that were never taken (`order.service.ts:53-58`).
- Between `consumeReservations` and `applyOrderSale` (`payment.service.ts:316-317`) another checkout can
  take the units; the first sale is then clamped at zero.
- Two closers of one reservation both decrement `reserved` (`stock.service.ts:375-380`): a capture and a
  cancellation or expiry, say. That is why `ReservedExact` is checked with captures as the only closers.
- A merchant's update decided on a stale read can revive a cancelled order (`order.service.ts:42-52`).
- A failing run gives back the date it listed even if another run has billed the next one, and pauses a
  subscription that was cancelled meanwhile (`subscription.service.ts:322-324`); a crash after the claim
  skips the period (302).
- A checkout that fails after its claims gives back neither the coupon slot nor the points
  (`cart.service.ts:208-230`); after a price drop points may be taken that the payment clamps away
  (`cart.service.ts:192-216`, `payment.service.ts:95-97`).
- Concurrent requests on one return write over a final status (`return.service.ts:426-455`).
- Units of a received return are put back again by a cancellation of the order, and two returns of
  one line are both restocked (`return.service.ts:166, 304, 447`).
- Points of one order can be earned twice: the check and the post are separate statements
  (`loyalty.service.ts:207-215`, against 196).
- Overlapping recovery runs send a step twice, and mark again a cart whose shopper has come back
  (`cart.service.ts:286-319`).
- An improvement from RED to AMBER alerts too, although the comment says "newly degrades"
  (`stock.service.ts:418-420, 443`).
- `lastAdvisoryAt` is set before the advisor runs: one that throws waits for six hours
  (`src/apps/worker/src/index.ts:66-75`). Findings with the same code are one finding, so a second item hides behind the
  first for a day (`advisor.service.ts:466-469`).
- An old invitation that an owner accepts can leave a workspace without an owner too (`auth.service.ts:128-138`), and
  `removeMember` compares no ranks.
- Two recomputes that overlap and create in different orders can each meet the other's cohort and throw: a cohort that
  the features yield all along is then missing until the next one (`cohort.service.ts:355-399`).
- The loser of two concurrent invoices has none: the unique key throws and the caller swallows it
  (`invoice.service.ts:123-125`, `payment.service.ts:319`).
- When the merchant switches between tax-inclusive and exclusive prices between checkout and capture, the
  invoice's lines no longer add up, and the difference becomes a round-off (`invoice.service.ts:78`).
- Rounded tax of several partial credit notes can exceed the invoice's by half a unit each (`invoice.service.ts:211-216`),
  and refunds that overlap are credited one by one beyond the order's total (193-253 compare with nothing).
- Two imports of one export at once import its orders twice; a job that died stays RUNNING (`import.service.ts:118-148`).
- Charm pricing rounds below the margin floor, which "is always honored" (`pricing.service.ts:155-159, 245`), and repricing
  does not look at the "was" price.
- A variant of weight zero still gets traffic, as much as an average one (`experiment.service.ts:214`); variants may
  be removed from a running experiment down to one (144-150).
- The saving of a bundle "auto-applies at checkout when a cart holds all the items" (`src/README.md:75-76`,
  `src/storefront/src/FrequentlyBoughtTogether.jsx:7-8`), but for a shopper without a cart the button puts every item into a
  cart of its own (`FrequentlyBoughtTogether.jsx:26`, `src/storefront/src/cart.jsx:26-31`) and the browser keeps the last:
  `addToCart` is the one the click saw, and its `cartId` stays empty.
- The cart page shows a new quantity with the total of the old one (`src/storefront/src/pages/Cart.jsx:36-38`); a failure
  to load the cart, of whatever kind, forgets it (`src/storefront/src/cart.jsx:13-18`); an order does not close its cart, so a second
  tab, or a retry after a lost answer, orders it again (`cart.service.ts:236-239`).

Known and covered by no property: the window between consumption and sale (`payment.service.ts:316`), terminal
orders that a stale update writes over (`order.service.ts:42`), holds of a process that died after its order
left PENDING (`stock.service.ts:408`), a capture that an expiry overwrites (410), stock restored that was never
sold (`order.service.ts:58`), a period billed again after a failed record (`subscription.service.ts:323`), late
events that overwrite the status of a captured payment (`payment.service.ts:293`), coupon slots and points of
failed checkouts (`cart.service.ts:208`), a provider's answer that is forgotten in a crash
(`payment.service.ts:225`), and a buyer's cancellation on a stale read (`return.service.ts:291`): in each the
code does what a property would forbid, or leaves no trace to state one about. The models contain these
behaviours.

## Abstractions and what is not modelled

- Prisma's transactions are atomic; statements outside one commit alone (read committed). Numbers (order,
  invoice, return) are left out: a unique key makes a colliding request fail, which is a failing checkout.
- One reservation row per order and variant: lines of one variant are one line. In `Refunds` an order has
  one line; shares are rounded half up on exact integers, where the code rounds a double.
- The buyer's cancellation window, the return window and policy switches only refuse requests; the models
  let the request happen, after a shipment too, which a policy may allow (`return.service.ts:260`).
- The cancellation of a pending order is in `OrderLifecycle`, that of a paid one in both, with stock lines
  there and with money here. Partial refunds exist in `Refunds` only.
- The provider adapters are stubs in this repository (`src/packages/core/src/adapters`): "sent" is what
  the code asks for. Events are external inputs.
- An order whose provider call fails at checkout stays PENDING with its holds until expiry: it is the
  order whose `ref` is never stored.
- Percentage coupons are data the modelled properties do not tell apart. Tiers, review requests and notifications change nothing modelled.
- The branch at `subscription.service.ts:291-296` for rows without a variant cannot be reached with the
  required relation of the schema.
- Numbers are exact: the scorer's, the tax's and the repricing's quotients are compared or rounded as integers, where
  the code uses doubles; on amounts of this size they agree, but for exact halves of a credit note, which a double may
  round either way (`CreditedTaxIsProportional` allows for both).
- `pickTargeted`, result reports, hero images and the choice of a campaign's
  audience are left out: `Serve` takes whoever matches, once each.
- Behaviours of `WorkerTick` and `BackOffice` show one part at a time (see the modules). What two parts do to each
  other through a table both use, the orders of an import and of a checkout for one, is inside one part.
- In `SupportDesk` the words of a message are one bit, whether `looksLikeRebuttal` matches; in `Team` the e-mail of an
  invitation is the user it is for.
- In `Storefront` a tab that waits for an answer is not reloaded or closed, a tab adds one bundle at a time, a cart that has not
  been loaded counts as empty, and the ceiling of 99 units a line is out of reach. Prices do not change: a quote is the cart it
  was computed from.

### Not modelled

- Identity (`auth` but for joining a team, `customer-auth`, `platform-auth` but for its staff, `partner-auth`,
  `api-key`, `crypto`) and the authorization tables: what matters about them is who may do what to whom, a question
  for a review of another kind than these models of concurrent state.
- Catalogue, pages, templates, listings, SEO, legal texts, reviews, offers and bundles, images: CRUD of one row at a time.
  Offers reach the models as the discount that a checkout clamps (`Redemptions`, `Invoices`). `updateBundle` does not
  re-validate a change of type (`offer.service.ts:287-290`).
- Reports, analytics, trends, shopability, the merchant's assistant and leads: reads and texts.
- Administration of the platform, partners and apps: CRUD and aggregation.
- The imports of products, customers and stock: as that of orders, without the number; the connectors are adapters.
- The REST and MCP layers (they validate and call one service) and the web applications but for the shopper's cart: forms over what
  the API serves. They are most of the repository's lines, and the reason why the map covers a small share of them: what is left in
  the services is what this list names.
