# Calibra: TLA+ models, model checking and proofs

Calibra is a multi-tenant shop. Its logic is the API (`src/apps/api`: AdonisJS,
Lucid, Postgres with row-level security, Redis); the admin, web and platform
applications and the SDK are clients. The part where a mistake costs money is the
life of an order: cart and coupons, checkout, stock, payment and refund, served by
concurrent requests that share rows of one database; beside it the importer, which
writes the catalog from a queue. That part is modelled here, with what a cart costs.

## How the program runs, and what the models keep of it

* `tenant_context_middleware.ts` opens one READ COMMITTED transaction per request,
  commits it when the response status is below 400, and rolls it back otherwise.
  `withTenantTransaction()` joins it, so the "transactions" of the services are
  never smaller than the request. A callback that catches an error and answers 302
  therefore **commits**, unless the error was Postgres' own.
* Requests meet in the database only: `SELECT ... FOR UPDATE` (stock rows, the order
  in callback and refund, the payment attempt), the lock an `UPDATE` takes, unique
  indexes and `ON CONFLICT DO NOTHING`. Refunds also take a Redis lease of 30 s.
* The committed rows are the variables of a module. A running request is a record
  in `req`: where it is (`pc`), what it has read (`view`, `seen`), what it will write.
  Another request sees its writes only after `Commit`. `owner[w]` is the request that
  holds the lock of row `w`.
* An import is one transaction of a queue worker (`with_job_tenant_context.ts`); the
  queue and the snapshot file are outside it.
* Atomicity: one action per step between two points where another request could
  intervene and matter: each row lock, each unlocked read that is used later, each
  call to the PSP, the end of the transaction.
* Failure: `RequestFails`/`Rollback`/`Crash` may end a request at any step (exception,
  validation, lost connection, restarted server).

## Inventory

| component | state | operations | talks to | hard behaviour | correct when |
|---|---|---|---|---|---|
| Order state machine (`enums/order_status.ts`, `order_state_machine.ts`) | `orders.status`, `order_status_history` | `transition` | inventory; called by checkout, admin, pay-link, payments, refunds | the status is read by the caller, often without a lock | status, audit row and stock change together and along the table |
| Inventory ledger (`inventory_service.ts`) | `inventory_items`, `inventory_movements` | `reserve`, `release`, `increment` | - | absolute writes, lock order, last piece | stock = initial stock + movements; never below 0 without backorders |
| Checkout submit (`submit_controller.ts`, `order_finalizer.ts`) | draft, cart | `submit` | state machine, coupons, payments | double submit, failure half way | a draft becomes an order once |
| Payments (`payment_service.ts`, controllers, pay-link) | `payment_attempts`, `orders.transaction_id` | `init`, `verifyCallback`, `refund` | PSP adapter, webhook ledger, state machine | callbacks duplicated, reordered, concurrent; verify times out inside the transaction | ledger, attempt and PSP agree; one verification per attempt |
| Webhook ledger (`webhook_idempotency_service.ts`) | `processed_webhook_events` | `record`, `finalize` | payments | replay against an uncommitted row | an event takes effect at most once |
| Refunds (`refund_service.ts`) | `order_refunds`, `order_refund_line_items`, lease | `create` | inventory, PSP, state machine | lease expires; PSP call inside the transaction | never more money or pieces than ordered; refunded iff nothing is left |
| Order administration (`admin/orders_controller.ts`) | order | `transitionStatus`, `markShipped`, `batch` | state machine | read without a lock | status follows the table |
| Coupons (`discounter_service.ts`, `writeRedemptionLedger`) | `coupons`, `coupon_redemptions` | apply, remove, redeem at submit, edit | cart, submit | last use of a coupon, of all or of one customer with two carts | limits hold; redemptions come with their order |
| Cart and cart middleware | `carts` | resolve, take over, save, items, coupons | drafts, submit | two requests of one cart, a cart changed after its draft | requests of a cart follow one another |
| Drafts and order edits (`order_factory.ts`, `draft_controller.ts`, `order_edit_controller.ts`) | order lines, totals | show, create, edit | inventory (through the lines) | lookup and insert without a lock; edits after the reservation | one draft per cart; what was reserved is what is returned |
| Idempotency middleware | `orders.idempotency_key` | replay a submit | submit | lookup before the first commits | one order per key |
| Pricing (`discounter_service.ts`, `cart_totals_service.ts`, `tax_calculator.ts`, `shipping_rate_service.ts`, `shipping_zone_match.ts`) | cached lists of carriers | discounts, rates and zone of an address, taxes, totals | cart, drafts | rounding, caps across lines, base and tax rounded apart, a list of carriers another cart put into the cache | no unit of money appears or disappears; the carrier costs what it costs for this cart |
| Numbering | `tenant_number_counters` | next number | drafts, refunds | rollback returns the number | numbers are unique |
| Cache and events | Redis cache | invalidate on events | everything | events fire before the commit | readers see the new rows eventually |
| Product import (`product_import/*`, `product_imports_controller.ts`) | `product_imports`, products, snapshot, queue | start, run, cancel, roll back | catalog, inventory | one transaction per job, opposite lock orders, a job started twice, workers that die, cancel and rollback meanwhile | what shows is what the outcome says; nothing between a run and its rows |
| Product export | a file | run in a queue | catalog | only reads | - |
| OTP | `otp_codes` | verify | auth | attempt counter race | attempts are limited |
| Catalog, media, reports, settings; tenancy; commands; user interfaces | - | - | - | little or no protocol between requests | - |

`PROJECT.json` lists each with its status, and every hazard at its line.

## Modules

| module | models | correspondence |
|---|---|---|
| `OrderStatus` | the transition table and its stock effects | `ORDER_TRANSITIONS`, `findTransition` = `CanTransition`, `applySideEffect` = `StockSign` |
| `OrderRequests` | every handler that can move an order, row lock by row lock | `Submit`, `AdminTransition`, `MarkShipped`, `PayLink`, `PaymentInit`, `Callback`, `Refund` start a request with its reading of the order and its plan; `LockCart`, `LockOrder` wait for rows; `BeginStep`, `MoveStock`, `StockRefused`, `WriteStatus`, `IllegalTransition` are `transition()` and `mutate()`; `BeginStep`, `MoveStock`, `EndRestock` the restock of a refund, entry by entry, which may name a line more than once; `Commit` the middleware; `DeadlockVictim` Postgres |
| `AtomicOrders` | what the state machine and the inventory promise: one request is one step | the abstract specification that `OrderRequests` implements |
| `Payments` | attempts, callbacks, the webhook ledger, the PSP | `InitPayment` .. `LinkLatest` is `init()`; `LockAttempt` .. `VerifyThrows` is `verifyCallback()` with its controller; `LedgerKeyed` says whether the ledger has the unique key `record()` names, `Silent` which adapters report no amount; `Declined`, `Pays` are the customer at the PSP |
| `Refunds` | refunds of one order, and what the PSP has paid back | `Create` (lease), `AnswerRetry`/`Refuse`/`Book` (everything under the row lock), `CallGateway`, `Transition`, `Leave` (lease back, event), `Commit`; `Loses` keeps account of money the PSP gave back for a transaction that ended without a commit |
| `Checkout` | cart, coupons, draft and submit | `SaveCart` is the middleware's save of the cart, which orders its requests; `AddItem`, `Clear`, `ApplyCoupon`, `RemoveCoupon` the cart; `ShowDraft`, `MakeDraft` the draft controller with `fromCart()`; `Replay` the idempotency middleware; `FindDraft`, `SaveKey`, `RedeemCoupon`, `PlaceOrder` the submit with `writeRedemptionLedger()`; `EditCoupon`, `ChangePrice` administrators |
| `ProductImports` | the importer | `Start`, `StartCommits`, `Cancel`, `Rollback` .. `RollbackCommits` are the wizard's requests; `PickUp` .. `Finish` is `runImport()` in the worker, `PassRow`, `UpdateProduct`, `CreateProduct`, `RowRefused` one row of it, with the filters of the review step (`Filtered`) and the row that fails after it was written (`Written`); `WorkerDies` a worker whose transaction is lost and whose job is not retried (`maxRetries: 0`); `EditProduct` an edit by hand |
| `Pricing` | discounts, taxes, shipping and totals of a cart and of its draft | `SkipCoupon`, `OpenCoupon`, `PassLine`, `DiscountLine`, `Apportion`, `HandOutResidual`, `CloseCoupon` are the loops of `computeDiscounts()`; `CalculateTax`, `CartTotals` the pure functions; `FetchRates` the query for tax rates, `MatchedZones` the one for the zone, `Options` with `CachedOptions` the carriers; `Total` ends the run with the result of `buildCartView()` or of the draft's `computeTotals()` |
| `MCOrderRequests`, `MCPayments`, `MCRefunds`, `MCCheckout`, `MCProductImports`, `MCPricing` | instances for TLC | values of constants, symmetry |
| `OrderRequests_proofs`, `AtomicOrders_proofs`, `Storefront_proofs`, `Payments_proofs`, `Refunds_proofs`, `Checkout_proofs`, `ProductImports_proofs`, `Pricing_proofs` | theorems | see below |

`OrderRequests` holds the refinement: `Atomic == INSTANCE AtomicOrders` with the committed
rows, and `ImplementsAtomicOrders == Atomic!Spec`.

The modules meet in the rows they share, and each takes what the others do as steps of
its environment. `OrderRequests` takes what a callback or a refund asks of the order as
a choice (paid or not, partial or full, restock or not); `Payments` and `Refunds` say
how the choice is made and take other requests that move the order as one step
(`AdminTransition`, `OtherRequest`). In `Refunds` that step may put down any status,
because `OrderRequests` shows that a stale write can. `Checkout` has everything of a
submit up to the order's row and `OrderRequests` what follows, its stock and its status;
out of stock is one of the failures (`RequestFails`) there. `Pricing` says what the price
is that `Checkout` compares. What an adapter may answer is read off
`base_redirect_gateway.ts`; no live PSP adapter is in the repository.

## Runs

| run | asks | bounds | result |
|---|---|---|---|
| `contention` | can concurrent requests lose stock updates, oversell, leave half a transition behind, act on a stale order where they locked it? does the database look as if requests were atomic? is a draft submitted once? does every request end? | 3 drafts of a cart: two want the last piece of one item and another on backorder, the third an item without a row and one without managed stock; bodies that name a line twice; 2 requests at a time, 3 in all, all seven handlers | holds, 221,345 states |
| `payments` | do ledger, attempts and PSP agree? | 1 order, 2 attempts, one of an adapter that reports no amount, 1 key; 2 requests at a time, 3 in all; any number of admin steps; the ledger keyed as `record()` wants it | holds, 2,588,888 states |
| `refunds` | are refunds bounded, is the order refunded exactly at the end, and does the PSP pay back no more than the order and what lost transactions forgot? | total 3, two lines of 2 and 1; 2 requests at a time, 4 in all; amounts 0 to 3, bodies with lines, a key; crashes at every step | holds, 3,810,052 states |
| `checkout` | do the limits of coupons hold, do a cart and a key make one order, do redemptions come and go with the order, does every request end? | 2 order rows, 2 carts of one guest, a coupon with one use (of all or per customer) that takes the lower price only and a free one, prices 1 and 2, 1 key; 2 requests at a time, 4 in all, 1 edit | holds, 219,454 states |
| `imports` | does an import show with its outcome or not at all, is every row counted, does anybody get between its rows, does everything end? | two files that write products a and b in opposite order, with rows that are empty, nameless, without a SKU, invalid, flagged, or fail after they were written, run with all filters or none, chunks of 2; 2 workers that may die, 1 request of the wizard; 2 starts or edits | holds, 203,754 states |
| `pricing` | does rounding lose or invent money, do caps hold across lines, is the cached carrier the right one, do the loops end? | 8 carts of three lines, every set of up to 3 of 8 coupons, 3 addresses or none, 5 tax rates of 2 classes, 3 zones, 3 selected carriers, prices with and without tax, cart and draft, the cache filled by the other end of the bucket | holds, 49,612 states |
| `stale_status` | does every commit follow the table? | 1 order, submit and admin | violated |
| `ledger_key` | does a callback get into the ledger when nothing breaks down? | 1 order, 2 attempts, 2 requests; the ledger keyed as the migrations leave it; fair | violated |
| `paylink_paid` | does the pay-link stay away from paid orders? | as `payments` | violated |
| `coupon_limit` | is a coupon never redeemed beyond its limit? | 2 carts, a coupon with one use that lists products; no edits | violated |
| `chunks` | is a chunk committed when it is done, and may a cancel get in before the next? | 1 import of two rows in two chunks, 1 worker that does not die | violated |
| `refund_lines` | are line quantities bounded when a body names a line twice? | as `refunds` | violated |

Why the bounds are enough: every race of the inventory is between two
reservations, two callbacks of one attempt or two refunds of one order, so two
requests in flight show it; three in a behaviour let a third one meet what two have
committed. Two orders compete for stock, the third has the lines that move none, and all
are drafts of one cart. Four refunds are two finished ones under a third that is retried.
A race for a coupon needs two carts, since one cart's requests follow one another; a
deadlock of imports needs two products in opposite order, and files of
four rows have two chunks of 2, so a run ends a chunk in the middle and at the end. Coupons of every type,
with and without a limit, meet two others of any type before or after them.
`MaxRequests`, `MaxEdits`, `MaxAsked` and `MaxEntries` are the only caps. `CHECK_DEADLOCK FALSE`: with
the cap reached and no request in flight the system rightly stops.

`contention` also checks `WritesUnderLock`, the part of the inductive invariant that says
something about the code: what a request is about to write to a row it has locked is the
committed value plus its own movements.

### What the violated runs show

* `stale_status`: submit reads the draft, an administrator cancels it and commits,
  submit writes `pending` over `cancelled`. The order row is locked by then, but
  `transition()` uses the status read before. The same holds for two administrators.
* `ledger_key`: `record()` says `ON CONFLICT (provider, event_id)`, but the migration that
  added tenants replaced the unique key on these columns by one on `(tenant_id, provider,
  event_id)`. Postgres refuses the statement (42P10), which aborts the transaction; the
  controller answers 302, the commit of an aborted transaction is a rollback, and the
  next callback meets the same. The run is one of the code as it is; `payments` and its
  theorems show the protocol of `verifyCallback()` where the key is there.
* `paylink_paid`: only `completed` and `refunded` are refused, so a paid order in
  `processing` can be paid again. (Orders paid on delivery are on hold, which the
  comment allows.) In the trace a callback has moved the order; as long as callbacks fail,
  an administrator has to, and the check is the same.
* `coupon_limit`: `checkEligibility()` returns its first reason and comes to the limits
  last, the finalizer refuses for the limits alone. A coupon that lists products never
  passes the items check (the finalizer asks about product 0), so its limits are never
  looked at; the same holds outside minimum and maximum and for e-mail patterns.
  `LimitHolds` and `CustomerLimitHolds` are about the coupons where they are
  (`LimitsLooked`).
* `chunks`: one transaction holds the whole import, so at the end of a chunk nothing of it is
  committed, a bad row poisons all of it, and a cancel waits for the row of the import.
  The doc of `runImport()` says otherwise of all three.
* `refund_lines`: entries of one body are each compared with what earlier refunds
  left; two entries for one line exceed it together.

### Fairness

A fair specification asks that what the program has started goes on, never that a request
arrives, fails, or that an administrator acts.

* `contention` (`FairSpec` of `OrderRequests`): a request that can take its next step
  eventually does (Node serves what it accepted), and a deadlock in Postgres finds a
  victim (its detector runs after `deadlock_timeout`). Without the detector `RequestsEnd`
  is violated: the lines of an order come in no order, so two orders can take the rows of
  two items in opposite order; and of two requests on one order, one may take its row
  before the stock and the other after it.
* `ledger_key` (`CalmSpec`): every request is served and none breaks down.
* `checkout`: strong fairness of `Serve`, because the lock of a coupon that
  administrators and other carts take again and again is granted in the end: Postgres
  queues the waiters of a row. Weak fairness of refusals and of the detector.
* `imports`: strong fairness of `Run` and `Answer` for the same reason, weak fairness of
  the detector. Nothing obliges a worker to die.
* `pricing`: the function is run to its end.

## Proofs

Checked by TLAPS for every value of the constants: any number of orders, items,
carts, requests, lines and keys, any stock, quantities and bodies, any coupons, tax
rates and zones. The assumptions are the named `ASSUME`s of the modules (types of the
constants; stock starts non-negative without backorders; rows of the three tables differ;
tax rates come in the order of their priority; thresholds of free shipping are multiples
of the bucket); TLC evaluates them in every run.

* `OrderRequests_proofs`: `TypeCorrect`, `LedgerBalanced`, `NeverOversold`, `WritesHeld`,
  `ViewsHeld`, `LockedReadersSafe`. The invariant is
  `IInv == TypeOK /\ RequestShape /\ StockInv /\ ViewUnderLock`. `LedgerBalance` is not
  inductive: `Commit` writes an absolute quantity, so one must know that the quantity
  is the committed one plus the request's movements (`WritesUnderLock`), which
  holds because nobody else changes the row while its lock is held. `NoOversell` needs the
  same of the quantity to be written. `LockedReadersFollowTable` is read off
  `ViewUnderLock` at the commit. `MoveKinds` splits the steps into commits, rollbacks
  and private steps; `OthersUntouched` says that a step leaves the other requests alone.
* `AtomicOrders_proofs`: the refinement, `RequestsAreAtomic`, and `TrailAgrees`
  (`HeldFollowsHistory`) for trails of any length. What a request has moved so far is
  what the transitions it has written took, plus the items of the one under way that
  are done, plus its restock (`AccountsKept`); its commit is then one `Transact` of the
  abstract specification and every other step a stutter.
* `Storefront_proofs`: `DraftSubmittedOnce`, administrators included. A submit holds its
  cart's row from before it looks for the draft until it ends, and writes the order's key
  with its commit: an order with a key has left `draft`, and no edge of the table leads
  back.
* `Payments_proofs`: all six properties of the run `payments`, for any set of adapters that
  report no amount and whether or not the ledger has its key. A callback past
  `LockAttempt` owns the row of its attempt, so attempt and ledger row stay as it read
  them; an attempt that `init()` is creating (`pc = "link"`) is known to its own request.
* `Refunds_proofs`: `TypeCorrect`, `NeverOverRefunded`, `NeverOverAsked`,
  `RefundedWhenFull`, `NeverPaidBackTwice`, and `NeverMoreThanOrdered` under the
  assumption that a body names each line once (without it the run `refund_lines` is the
  counterexample). The invariant adds `CheckedUnderLock`, what a request checked under
  the row lock still holds until it commits, and `PaidBackBooked`: money given back is
  booked, or held by the request that owns the row, or lost. The lease does not appear in
  the argument: the row lock alone is enough, and the lease may expire or be lost.
* `Checkout_proofs`: all safety properties of the run `checkout`, those of the limits for the
  coupons where the submit looks at them. A request acts while
  it holds its cart, so the draft it found stays the only one; what it found of a coupon
  stays true while it holds the coupon; of the requests with one key one is past the
  unique index.
* `ProductImports_proofs`: all safety properties of the run `imports`, and
  `CancelledFirst`: an import is cancelled before its first row or not at all. The
  invariant is `TypeOK /\ RunsAlone /\ RunsFit /\ RunOnce /\ OutcomesAddUp`: a run holds
  the row of its import from its first save and each product it has written
  (`RunsAlone`), what it has written agrees with the rows it has passed (`RunsFit`), and
  an import that was started once has one job or one run (`RunOnce`), without which the
  counters would not be those of one run.

* `Pricing_proofs`: the four safety properties of the run `pricing` and
  `TaxAlwaysRoundTrips`, for carts of any number of lines, any coupons in any order, any
  table of tax rates and any zones.
  - *Induction over data.* Totals are sums over lines and taxes folds over rates. The
    library's induction theorems take a predicate as a parameter, which the provers
    cannot instantiate, so here the predicate is a set: a non-empty set of
    numbers has a least element (`SmallerWellFounded`), hence a set with 0 that is
    closed under + 1 holds every number (`Numbers`), and a set with {} that is closed
    under adding an element holds every finite set (`Subsets`). `FoldExists` gives the
    recursive function inside a fold; from there come the sums (type, order,
    sums and multiples of terms) and the folds in the order of the indices.
  - *Coupons.* The invariant is `IInv == TypeOK /\ Standing /\ UnitsCounted /\ CartShared`.
    `UnitsCapped` is not inductive: one must know that what was taken is covered by the
    units used *so far* and that the lines ahead are untouched (`UnitsCounted`).
    `FixedCartExact` speaks of the end of a coupon; on the way, what was taken and what is
    still to be handed out come to the amount together (`CartShared`).
  - `ResidualAlwaysFits` is the safety core of `Terminates`: while something is left to
    hand out, a line has room for it, so that loop never gets stuck.
  - *Taxes.* A tax grows with what is taxed (`TaxGrows`), so no coupon makes a cart
    dearer; that is all `TotalsAlwaysAgree` says of the total where prices include tax, which
    is the default. Where they exclude it, the total is the sum of its parts.
    `TaxAlwaysRoundTrips` follows base, tax and factor rate
    by rate (`OnTrack`). The attempt to prove it refuted the property as it was
    stated first: where the taxes double the price, what the rounding of the base loses
    is multiplied (300 % on 2 units is a base of 0 and a tax of 0), so it asks for
    `Moderate`, less than 100 % in all, beside `CompoundLast`.
  - *Carriers.* `SameOptions`: two carts of one bucket are offered the same carriers, which
    is what `SHIPPING_TOTAL_BUCKET_MINOR` is for; it rests on `ThresholdInvariant`.

Only model-checked is liveness (`RequestsEnd` of both modules, `RunsEnd`, `Terminates`,
and `CallbackRecorded`, which is violated), which is out of the prover's reach. Of the violated
properties only `LinesBounded` has a theorem, under the assumption named above.

## Abstractions

* One tenant; soft deletes of orders and carts are ignored. Isolation between tenants is
  Postgres row-level security.
* `OrderRequests`: order lines do not change after the draft was made, one line per item
  and order. It leaves out the row lock of `linkLatest()` at the end of a request: nothing
  is locked after it. `Payments` has it. Its callbacks are those the ledger lets through;
  what the key of this commit does to them is a rollback there. `MaxEntries` bounds how
  often the body of a refund names one line.
* `Refunds` keeps of the refund rows their sum, the quantities per line and the keys.
  `paidBack` and `lost` are history: no code reads them.
* `Checkout`: a cart holds one product or none; quantities, addresses and shipping
  rates are reasons to fail. An order row is used once. Expiry and the status of a coupon
  are one flag; minimum and maximum are the prices they let through (`Spend`), the e-mail
  patterns the customers they match (`Invited`). Neither is edited.
* `ProductImports`: a row is a SKU and a price, or one of three that name no product;
  which rows are invalid, flagged, or fail on a category path without a segment is a
  constant. Mapping of columns, categories themselves, tags, images, the rows of
  `product_import_errors` and the parser are left out; SKUs in the instance are spelled
  in one way.
* `Pricing`: amounts are whole minor units and intermediate results exact fractions,
  where the code computes in floating point before it rounds. Percentages are multiples
  of a unit, `Hundred` of which are 100 %: the columns keep two and four decimals, the
  run one, the proofs any number. The table of tax rates is a sequence in the order of
  `fetchRates`, and the rates of a line are the set of their indices in it; `Factor` is
  the divisor of `extractBase` as a fraction. That thresholds of free shipping are
  multiples of the bucket is assumed (`ThresholdInvariant`), as the code's comment does.
  A cached list is one of the current zones: nothing but the provisioning of a tenant
  writes them. Continents are left out, `resolveZone` never passes one.
* A listener of an event that throws, and the cache, are left out.

## What the modelling brought to light

Beside the violated runs, these follow from the code and contradict either a comment or what one
would expect; each is at its line in the hazards of `PROJECT.json` or in the comment of
the action that has it.

* A draft that exists is shown as it is (`draft_controller.ts:81-84`): items added later are
  not ordered but removed with the cart, and after a change of price the draft can
  never be submitted.
* `pending -> failed` releases no stock, `failed -> pending` reserves it again
  (`order_status.ts:55-56, 82`): each failed payment that is retried takes the stock once
  more, against `pay_link_controller.ts:17-19`. As long as callbacks fail (`ledger_key`),
  an administrator has to set the order to failed.
* A verify that times out after the PSP settled is answered with 302, which commits the
  ledger row `pending` alone; every later callback is a replay (`VerifyThrows`). A payment
  whose adapter reports no amount is taken for the amount asked for (`AmountGuard`).
* Each entry of a refund's body is restocked by itself, so a body that names a line twice
  returns more to the shelf than was ordered (`Pieces`).
* The anonymous cart of a customer who logs in is taken over in a `db.transaction` without
  the tenant (`models/cart.ts:62`).
* An import row whose category path has no segment fails after the product was written
  (`taxonomy_resolver.ts:44`): it is counted as failed, and what it wrote is committed.
  The job of an import is dispatched before the request that starts it commits; the
  lease of a rollback is given back before its commit.
* A full refund of an order that is pending or on hold is asked of the PSP, then refused
  by the table and rolled back: the money is gone and no row says so. The same happens
  when the process dies after the PSP was asked.
* `order:refunded` is emitted before the request commits; the comment says after
  (`refund_service.ts:81`).
* Where prices include tax, the grand total subtracts the gross discount from net items
  (`cart_totals_service.ts:166-168`); base and tax may differ from the price by a unit
  for each rate, although `tax_calculator.ts:31` calls the base "`input - tax`" (10 % in
  a price of 6 is a base of 5 and a tax of 0), and by far more when a plain rate has a
  later priority than a compound one: `extractBase` divides as if plain rates came
  first. The same holds for taxes that double the price. So `TaxRoundTrip`, which is
  proved and in no run, asks only for stacks with `CompoundLast` and `Moderate`. A
  `fixed_cart` coupon ignores its exclusions of sale items and its item limit.
* A draft taxes products whose `tax_status` is none (`order_factory.ts:250`), the cart
  does not (`cart_view_builder.ts:55`): the order costs more than the customer was
  shown. A draft also writes the selected carrier at cost 0 when it is no longer offered
  (`writeShippingLine`), where the cart drops it.

## Not modelled

* Numbering: order and refund numbers are Postgres sequences; `nextNumber()` has no caller.
* Cache invalidation: entries expire, and the repository bounds staleness nowhere.
* One-time passwords, sessions, tenancy, provisioning: framework and row-level security.
* Catalog, media, settings, reports, exports: single-row reads and writes or reads only,
  without a protocol between requests.
* Commands: `cart:purge` deletes carts nothing else reads, `payments:reconcile` reports.
* The admin, web and platform applications and the SDK: user interfaces; most of the
  repository's lines, none of its state.

## Plan

1. Edits of orders by administrators: quantities as a variable of `OrderRequests`, which
   breaks `HeldFollowsHistory` as it stands; the stock an import overwrites.
2. The restock of a refund per line in `Refunds`.
3. The take-over of an anonymous cart at log-in, with the tenant of its connection.
4. A cache with readers that fill it before the commit, if the code comes to promise
   anything about it.
