# Express Shopping: a TLA+ verification project

`express-shopping` is the backend of a shop platform: Express 5 on Node.js, MySQL 8
through Prisma, Redis for rate limits. Several server processes answer requests and each
runs a background scan every minute. All shared state is in the database; what can go
wrong lies in the order of transactions, in what a transaction reads without a lock, and
in what the payment provider sends late, twice or never.

## The system

| Component | Source under `src/src` | State | Operations |
|---|---|---|---|
| Orders | `services/orderService.js` | Order, PlatformOrder, OrderItem, Inventory, UserCoupon | order a cart (one order for each shop), buy now, cancel |
| Order lifecycle | `services/orderLifecycleService.js` | Order, Shipment | close expired, accept, ship, confirm, auto-receive |
| Payments | `services/paymentService.js`, `paymentChannelService.js` | Payment, PaymentCallbackLog | open a payment, mock payment, callback, reconcile with the channel |
| Inventory | `services/adminCatalogService.js` | Inventory (available, locked) | correct the stock; locked, released and deducted by orders and payments |
| After-sale | `services/afterSaleService.js` | AfterSale, AfterSaleItem, Refund, RefundCallbackLog, AfterSaleArbitration | apply, review, return, confirm, arbitrate, refund, retry, callback, remind |
| Merchant finance | `services/merchantFinanceService.js` | MerchantAccount, MerchantLedgerEntry, MerchantSettlement, MerchantWithdrawal | revenue, reversal, settle, withdraw, review |
| Notifications | `services/notificationService.js` | NotificationOutbox, UserNotification | enqueue, scan, claim, deliver, fail, retry |
| Pricing, refund amounts | `services/pricingService.js`, `refundCalculationService.js` | none | price an order, spread a discount, split a refund |
| Coupons | `services/promotionService.js` | Coupon, UserCoupon | issue a campaign, claim; spent and given back by orders and refunds |
| Sessions | `services/authService.js`, `middlewares/auth.js` | UserSession, PasswordResetToken | log in, refresh, log out, reset a password |
| Merchants | `services/merchantService.js` | MerchantApplication, Merchant, MerchantMember | apply, review, manage members |
| Cart | `services/cartService.js`, `engagementService.js` | CartItem | add, buy an order again, change, select, delete; emptied by a checkout |
| Catalogue | `services/adminCatalogService.js` | Product, ProductSku, Category | put on sale, take off sale, edit |
| Background job | `jobs/orderTimeoutJob.js`, `dataRetentionJob.js` | a `running` flag | calls the periodic part of the services |
| Home page, search, reviews, favourites, profile, analytics, uploads, HTTP layer | the rest | single rows | reads and single-row writes |

How they interact: a cart and a coupon of a campaign become orders; an order locks stock and takes a coupon; a payment (by mock call,
callback or query) marks the order paid, deducts the lock, records the merchant's revenue
and enqueues notifications, in one transaction; cancelling and expiry release the lock and
the coupon; a claim takes a paid order out of the fulfilment line (`AFTER_SALE`,
`REFUNDING`) and puts it back or ends it (`REFUNDED`); a refund marks payment, order,
coupon, stock and ledger; a settlement looks at completed orders only. The job calls
`reconcilePendingPayments` and then, side by side, `closeExpiredOrders`,
`autoReceiveOrders`, `remindOverdueAfterSales`, the data purge and the outbox scan.

What makes it hard, and what must hold:

- stock, coupons and money are shared by actors that know nothing of one another
  (customer, provider, job, merchant, administrator): each unit and each coupon is in one
  place, each order is paid by one payment;
- the provider's answers arrive late, twice, out of order, and after the log that would
  recognise them was purged: what has succeeded stays, and is done once;
- most transactions run at MySQL's default REPEATABLE READ. Those that write under a
  condition (`updateMany ... where status`) or run at Serializable are safe; those that
  read, decide and write by id are not, and the models let exactly those overlap;
- expired orders, overdue claims and waiting notifications must be dealt with in the end;
- a long row of legal calls (reject, claim again, arbitrate, refund) can reach states
  nobody planned.

## Modules

| Module | What it is |
|---|---|
| `Trade` | orders, stock, coupons, payments, their callbacks and queries, fulfilment, and what the claims of an order do to it |
| `OrderBook` | a promise of `Trade`: an order is placed for goods on the shelf and follows the status diagram; cancelling gives the goods back |
| `CouponBook` | a promise of `Trade`: one order ever carries a coupon, which comes back when that order is cancelled unpaid or repaid in full, only then |
| `Storefront` | before the order: campaigns and their coupons, carts, goods on and off sale; orders are those of `CouponBook` |
| `OrderClaims` | what the after-sales of an order do to it: the interface between `AfterSale`, which implements it, and `Trade`, whose orders move by its steps |
| `AfterSale` | the claims, refunds and arbitration of one paid order, every transaction one step |
| `AfterSaleRaces` | `AfterSale` with the four transactions that check before they lock cut in a read and a write, run by several workers, with rollbacks |
| `NotificationOutbox` | the outbox and the scans of several processes |
| `MerchantFinance` | balances, ledger, settlements and withdrawals of one merchant |
| `Amounts` | the price of an order, the spread of a discount, the amounts of its claims |
| `Sessions` | sessions, refresh tokens and password resets |
| `Merchants` | applications to become a merchant, their review, and the members of merchants |
| `...MC` | model values and small definitions for TLC, one module for each machine above |
| `...Proofs` | theorems: one module each for `Trade`, `Storefront`, `AfterSale` (with `AfterSaleRaces`), `NotificationOutbox`, `MerchantFinance` and `Amounts`; `AccountsProofs` for `Sessions` and `Merchants` |
| `Sums` | lemmas about sums over finite sets, which the proofs of `MerchantFinance` and `Amounts` cite |

How they are put together. `Trade` is the middle: its orders take the steps of `OrderBook`
(goods) and of `CouponBook` (coupons), both checked and proved. `Storefront` is built on
`CouponBook` and adds where coupons and baskets come from, so what it shows of campaigns
holds for the coupons `Trade` spends. `AfterSale` starts from a paid order, and
`OrderClaims` is what the two have in common: `Trade` lets a claim do to a paid order what
`OrderClaims` allows, and `AfterSale` is shown to do no more.

Each action bears the name of the function it models, and `PROJECT.json` gives the lines
of every definition. A call that is refused or throws leaves the database as it was; it is
a stuttering step and no action.

**Trade.** `status`, `basket`, `couponOf` are the Order rows, one for each pair of a
request (the idempotency key) and a shop; `available` and `locked` are Inventory;
`payment` is the Payment row. A buyer may fail to pay it and try again, so the provider may
report failures and a success of one payment in any order, late and repeatedly: `Events`
is what it may report. `been` is what an order has been through (the diagram, and
whether its Shipment row exists), `repaid` the orders refunded in full, `expired` the unpaid
ones whose time is over. `createPayment` checks outside a lock and is two steps, its check
remembered in `opening`; a reconciliation is a claim of the row (`queries`), an answer
under way (`answers`) and its application. `logged` is the callback log, and
`PurgeCallback` the retention job, after which the provider may deliver again.
`ClaimStep` and `RefundInFull` are what claims do to a paid order, as `OrderClaims` has them.

**Storefront.** `quantity` and `selected` are the CartItem rows; `addItem` and `buyAgain` read
a row and write it in a later statement, with no transaction, so each is a read (remembered
in `writing`) and a write. Claiming and checkout are Serializable and one step.
`claimedQuantity` is the counter of the campaign, `claimed` the UserCoupon rows it should
count; `onSale` folds the status of a product and `isActive` of a sku. `couponOf` is never
cleared: cancelling and repaying leave the order's reference to its coupon.

**AfterSale.** One order, because claims of different orders share nothing but the stock.
Variables are the columns of AfterSale, Refund and AfterSaleArbitration by claim; `restocked` is
a history variable (units put back on the shelf) and `outcome` what the provider did with
each refund attempt, one retried since included. It may report an outcome at any later
time, any number of times, each under a new `eventId`; a notice names the refund and not the
attempt. A notice that finds its refund not PENDING, its claim not REFUNDING or its
`eventId` logged changes nothing but the log, and is a stuttering step.
The operations that read before they lock take the row they read as a parameter:
`AfterSale` passes the current row, `AfterSaleRaces` the row as it was at the read. So
both modules share one translation of each transaction.

**NotificationOutbox.** `jobs[p]` is what a scan has read and not finished; `due` orders
the rows by `nextAttemptAt`, which is the order in which that time came; `stale` are the
rows locked five minutes ago.

**MerchantFinance.** `account` and `ledger` are changed separately, as the code does, so
that their agreement says something. Orders, claims and refunds appear only as far as the
ledger sees them.

**Amounts.** One order, in whole cents. Its initial states are the baskets, with every
price and every scope of a coupon; placing it computes shipping and shares as
`calculatePricing` and `distributeDiscount` do, and `CreateAfterSale` what a claim asks for.
A claim is then refunded or rejected in one step, because how that happens is `AfterSale`;
but a rejected one may come back by `RequestArbitration`, after its units were claimed again.
`Claims` are the claims that are not over: one that was refunded or turned down by the
platform leaves its place, and its units and money stay in the sums `claimed` and `refunded`.
`back` and `pieces` are history: what the refunded claims of a line asked for, and how many
there were.

**Sessions.** `call` is what a request has looked up before it awaits (a password
comparison, a query) and has not written yet. Tokens of a session are counted;
`current` is the one whose hash the row holds, `heirs` and `changes` count what tokens and
resets were used for. `ResetSignsOut` speaks of the sessions that exist when the reset commits.

**Merchants.** A merchant has the name of the application that founded it. `request` is what
a review or a change of members has checked, without a lock, and not yet written.

## Runs

| Run | Bounds | What it shows |
|---|---|---|
| `TradeCheckout` | a cart and a buy-now purchase want the last unit and one coupon; two payments, one query each, failures and a success of the first and a success of the second reported in any order; one unit fewer counted on the shelf | `PaidOnce`, `LockedIsReserved`, `StockConserved`, `CouponSpentOnce`, `SuccessIsFinal` under every interleaving of customer, provider (callbacks repeated, reordered, purged, a failure after the success, answers late), job, merchant, claims and administrator; `ExpiredIsResolved`; `ImplementsOrderBook`, `ImplementsCouponBook` |
| `StorefrontCarts` | one user, two shops, a campaign of two coupons and one for each user, a cart and a buy-now request, limits of 2 and 1 units, one product going on and off sale | `DiscountsWithinCampaign` (its limit for a user; the total is out of reach of one user), also after coupons came back; `CartLeavesAsOrdered` |
| `AfterSaleClaims` | two claims on an order of two units and two units of money, one retry | money (`RefundsAddUp`, `PaymentReflectsRefund`), claims (`CompletedIffRefunded`), arbitration (`ArbitrationIsOpen`) and stock (`ReturnedOnce`) agree after every transaction, one at a time; `OpenRefundIsExpected`, and `RefundIsFinal` through notices of any attempt at any time; `ImplementsOrderClaims` |
| `AfterSaleOverlaps` | one claim, two workers, one retry, every time limit | `GoodsBeforeMoney`, `HeldForAClaim` also when the unlocked transactions overlap, and `StageIsReminded` |
| `AfterSaleOverReturned` | two claims | **violated**: `ReturnedWithinBought` |
| `AfterSaleLostRefund` | two claims, two workers | **violated**: `RefundsAddUp` |
| `OutboxDelivery` | two messages, two servers, a batch of one, three attempts, one row put back for ever, deaths at the first and the last attempt | `OneHolder`, `ExhaustedIsSpent`, `SentIsFinal`, `EveryNotificationSettles` |
| `FinanceBooks` | two orders of 2 units, rates 0 and 1/2, two settlements, one withdrawal | the balances follow from orders and withdrawals; rounding is bounded |
| `AmountsClaims` | three lines of 1, 1 and 2 units, prices 0 to 2, two coupons of every scope, a fee that may be waived, two claims not over at a time and any number in a row | `DiscountIsSpread`; `RefundsFollowUnits`, `MoneyCoversUnits` |
| `AmountsShipping` | the same | **violated**: `LastClaimRefundsShipping` |
| `SessionsRenewed` | two sessions and two resets of a user, a session of another, three tokens a session, two requests at a time | `ExchangedOnce`, `RevokedIsFinal`, `ResetOnce`, `ResetSignsOut` |
| `MerchantsFounded` | three users, three applications, two of one user and two for one code, two requests at a time | `OwnedByApplicant` |

Why the bounds are enough: each property relates at most two orders, payments, claims,
rows or workers, and each instance has two of whatever competes, with one unit fewer than
both want. A discount needs three lines before two roundings meet in the last one, and a claim
needs a line of several units to be rounded. `MaxTokens`, `MaxQuantity`, `MaxSupply`,
`MaxQueries`, `MaxRetries`, `MaxAmount` and `MaxRefunds` cap counters; `Overdue`,
`Fatal` and `Retried` cut down the events that may happen, and each module says which
constants are such bounds.

`TradeCheckout` is one instance and no longer several, so that payments, claims, stock and
coupons meet in one state space; with one unit on the shelf that two requests want, which a
correction may take away and a return may bring back, every refusal, release and refund happens in it. `StorefrontCarts` has a single worker
because what an addition overlaps with is the checkout, the other cart operations and the
catalogue; two overlapping additions only write over each other (below).

Symmetry is used where properties are invariants, or a refinement without fairness that no
permutation of the claims tells apart (`AfterSaleClaims`, `AmountsClaims`,
`FinanceBooks`, `MerchantsFounded`). The type invariants of `Trade` and `AfterSale` are run; those of the
other modules are part of the inductive invariants the proofs use. Deadlock is checked for
`Storefront` and the outbox; the others may stop: an order may be refunded in full, every
session may have ended, a merchant may have nothing left to do.

### Fairness

The job's timer calls each periodic service every minute, so `Trade` has weak fairness for
`CloseExpiredOrder(o)` and `AutoReceiveOrder(o)`, `AfterSale` for
`RemindOverdueAfterSale(c)`, and the outbox for the scan, for each of its jobs and for the clock.
Customers, merchants, administrators and the provider owe nothing and get none. Fairness
by order is more than "the scan runs": the scan takes the 100 oldest. It is justified
because closing an order never fails for good (what it releases is locked, by
`LockedIsReserved`), so a page always empties. The outbox is the counterexample: there the
page is modelled (`BatchSize`), rows that can never run do stay in it, and
`EveryNotificationSettles` says so with `Stuck`.

## What the checks found

- **Shipping is not refunded with the last claim** (`AmountsShipping`). `createAfterSale` looks
  up earlier units only for the lines of the request, so an order whose lines are claimed one
  after the other is never seen to be complete, although `docs/api.md` promises the shipping
  and the unit test of `calculateAfterSaleAmount` has it. The order never becomes REFUNDED.
- **More goods returned than bought** (`AfterSaleOverReturned`). A rejected claim no
  longer counts in `createAfterSale`, but `requestArbitration` reopens it whatever was
  claimed since. The same missing check lets a REFUND_ONLY claim be granted after the goods
  were shipped and takes a REFUNDED order back to AFTER_SALE, where a further
  `createRefund` always throws.
- **A refund is lost** (`AfterSaleLostRefund`). `completeRefund` adds to a `refundedAmount`
  it read without a lock. With the same overlaps `CompletedIffRefunded` fails (a late
  review overwrites COMPLETED), so does `RefundIsFinal`, `ArbitrationIsOpen` fails (it overwrites ARBITRATING, and
  the open case can never be resolved) and `ReturnedOnce` fails (two `confirmReturn` calls restock
  twice); put any of the invariants in place of `RefundsAddUp` in that configuration to see the run.
- A second payment is swallowed: `createPayment` can open two payments for one order; the
  first to succeed pays it, and `applySuccessfulPayment` returns early for the second, whose
  callback is logged PROCESSED while its row stays PENDING and nobody returns the money.
  `AcceptedIsSettled` in `Trade` states it; put it in `TradeCheckout.cfg` to see the run.
- A refund that went through may be swallowed too. The attempts of a refund share its
  `refundNo`, and a callback is recognised by its `eventId` only. When the FAILED notice of
  an attempt comes again under a new `eventId` after a retry, it fails the new attempt; the
  SUCCESS of that attempt then finds the refund not PENDING, is logged PROCESSED and has no
  effect, so the money is back with the buyer while the shop shows a failed refund. Every
  step of that run is in `AfterSale`; what holds is that a refund the shop has booked is final
  (`RefundIsFinal`).
- A stage entered again is not reminded anew: after a retry, say, the refund stage is overdue
  a second time, `remindedAt` is set and the reminder logged, but the notification's key
  (`AFTER_SALE_OVERDUE`, the claim and the stage) is there already and the upsert changes nothing.
- Rounding can block a settlement: at 5 %, an order of 200 pays a
  commission of 10; refunds of 99 and 101 give back 4 and 5. The order's net is -1, pending
  is one short, and the merchant's next settlement is refused with the request to
  check accounts that agree in every query of the reconciliation script
  (`PendingCoversCompleted` in `MerchantFinance`).
- The last covered line takes what rounding left of a discount, which may be more than it costs
  (three lines of 100, a discount of 299: the last share is 101). The columns are unsigned, so
  such an order cannot be placed with its coupon; `Writable` in `Amounts` is that refusal. So is
  `Divides` for a coupon on several lines that cost nothing.
- A coupon that was given back cannot be used again. `restoreCoupon` and cancelling make it
  AVAILABLE, as `docs/api.md` line 193 says, but the order keeps its `userCouponId`, a unique
  column, so the next order with that coupon cannot be written and the buyer sees an error. In
  `Trade` and `Storefront` this is the guard `Usable` of `CouponBook`. `GivenBackIsUsable` in
  `Storefront` states the promise; put it in `StorefrontCarts.cfg` to see the run.
- An order goes back to PAID after it was shipped: `completeRefund` and the rejections write
  `previousOrderStatus`, which a claim reopened by arbitration read long ago. It can then be
  accepted again and never shipped, because it has its one Shipment row. `Claim` of
  `OrderClaims` allows any status the order has had, which is all that holds.
- Two additions to a cart that overlap count once, and one that overlaps a checkout puts the
  units just bought back in the cart: `addItem` writes a quantity it computed before.
- `changeProductStatus` reads and then writes without a condition, so a product deleted in
  between is on sale again; `updateCategory` checks that a category is not its own parent,
  and two moves can still make a cycle; two addresses can both become the default one.
- An account can be an active member of two merchants, although `addMember` and
  `createApplication` refuse that: a waiting application is approved, and a disabled member is
  made active again, without a look at other memberships.
- In the outbox, a row whose last holder died stays PROCESSING with no attempt left: it is
  read by every scan, never run, never EXHAUSTED, and an administrator cannot put it back.
  And `retryNotificationOutbox` sets `attempts` to 0, so a scan's older reading can
  match the row again; the properties are stated for rows that were not put back.
  A server slower than the five-minute lock (`Slow`) breaks `OneHolder` and
  `SentIsFinal`; the inbox row is still written once, under its unique key.
- The status diagram in `docs/architecture.md` has no arrow from COMPLETED to AFTER_SALE,
  which the code takes.

## Proofs

Every safety property the runs check is also a theorem, for every value of the constants
that satisfies the assumption of its module: any number of users, orders, lines, claims,
servers, workers and amounts. `PROJECT.json` names the theorem of each.

`TradeProofs`. `TypeOK` is inductive. `PaidOnce` is inductive with it: a payment becomes
SUCCESS only in the step that takes its order out of PENDING_PAYMENT, and nothing takes an
order back. `SuccessIsFinal` follows step by step: every writer of a failure tests that the
payment is PENDING, in the transaction that writes it. `CouponSpentOnce` needs the fact that an order which holds a coupon
is not cancelled while the coupon is USED, which the conjuncts of the invariant say. Stock
is a count of units: `LockedIsReserved` and `StockConserved` compare a number with the
cardinality of a set of pairs (order, unit number); one lemma says what adding or removing
a block of units does to it, and each action is one such block for each good. The
refinements (`TradeImplementsOrderBook`, `TradeImplementsCouponBook`) map each action to
one step of the abstract machine or to a stutter.

`StorefrontProofs` proves `DiscountsWithinCampaign`: the orders that carry a coupon of a
campaign map one to one into its claimed coupons, whose number the counter is, and the
counter is tested where it is raised, in one Serializable step. `CartLeavesAsOrdered` is an
action property: a checkout takes the selected rows and its basket from the same read, and
no other step lets go of a row but the buyer's own.

`AfterSaleProofs` has two parts. In the first, transactions do not overlap. The core is one
statement about each claim by itself: which statuses of claim, refund and arbitration case
go together. It is inductive because an action changes one claim and
leaves the rows of the others alone; from it follow `CompletedIffRefunded`,
`OpenRefundIsExpected`, `ArbitrationIsOpen` and `RefundIsFinal`: a claim whose refund
succeeded is COMPLETED, which no review, retry or notice takes up. Money and goods are
counted as in `TradeProofs`: a refund adds a block of pairs (claim, cent), a return a block
of (claim, line, unit). `PaymentReflectsRefund` and `CouponBackIffRefunded` compare that
count with what was paid, and `AfterSaleImplementsOrderClaims` is proved step by step.

The second part is about `AfterSaleRaces`: transactions that overlap, in any number on any
number of claims. The invariant of the first part is of no use there, as the rows a
transaction believes may be long gone. What holds speaks of facts no transaction takes back:

- `GoodsBeforeMoney`: goods that were booked back, a refund row that exists, a provider that
  was asked;
- `HeldForAClaim`: each transaction that ends a claim lets the order go and each that takes
  it keeps its claim running, whatever it read; all it needs is that a claim remembers one
  of the statuses it can be made in;
- `ArbitratedHasCase`, the half of `ArbitrationIsOpen` that survives: a claim enters
  arbitration in the transaction that opens its case, and the verdict closes both;
- `TypeOK`, by which no overlap makes the order count more as refunded than was paid: the
  sum a transaction writes is the sum it has compared, from the row it read;
- `PaymentReflectsRefund`: status and sum are written together from that row, and a refund
  is of a positive amount. It holds while `RefundsAddUp` fails: when a refund is lost,
  payment and order are wrong in the same way, so comparing the two does not show it.

`MerchantFinanceProofs` proves that the account is what its ledger says. The invariant has
two parts: `Books` (finitely many entries of known shape, a sale entered once for each paid
order, refunds numbered, settlements and withdrawals entered when they are made) and
`Balanced` (the four properties that are sums). Without `Books` an entry could be one the
ledger has already, and the account would move with no new entry. With it every operation
adds one and changes the account by it, so one lemma about sums (one element more) keeps
`AccountMatchesLedger`. `PendingIsUnsettled` and `AvailableIsSettled` split what the orders
earned in two, and a settlement moves orders from one part to the other. `FrozenIsOpen` counts pairs
(withdrawal, unit of money). `CommissionWithinRounding` is about one order at a time: each
refund gives its part of the commission back, less what rounding cuts off, so the number of
refunds bounds what is kept too much. The assumption says the orders are finitely many, as the rows of
a table are.

`AmountsProofs` is about the arithmetic, for any prices, quantities, coupons and
claims. An order that is not placed is bare; placing it spreads the discount, where each
covered line but the last gets its part rounded down, so that the last one's share is
above its part by less than a cent for each of the others (`DiscountIsSpread`). From then on the invariant
says that a claim, a rejected one too, asks for what its units are worth, rounded, and for
the shipping only when it takes all that is left, and that the money refunded is at most
what the refunded claims brought back. `RefundsFollowUnits` bounds the rounding of the claims
of a line. `MoneyCoversUnits` follows: as long as no more units of any line were refunded
than bought, what is left of the money covers any claim on units that are left, so the second
check of `createAfterSale` refuses nothing that passed the first. The condition is needed:
arbitration reopens a rejected claim whose units were refunded since (the cause of
`AfterSaleOverReturned`), and then the check at line 105 does refuse claims on other units
that are left. It still keeps the refunds within the payment.

`Sums` has what these two need of `SumFunction`: the empty sum, one element more, one value
changed, a bound term by term, a sum that is split. The library defines the sum by a fold,
which is a recursion over subsets; its induction theorems take an operator as a parameter
and cannot be used here, so each lemma argues by a smallest counterexample: the proper
subsets of a finite set are well-founded, and the smallest part on which the claim failed
would have a smaller one on which it holds.

`AccountsProofs` is about requests that overlap in any number. What a request read may be
stale when it writes; the invariants say which part of it cannot be: a session that was
revoked stays so and its token hash is compared in the write; an approved application is
never decided again, and an owner's row is refused by every change of members. From that
follow `ExchangedOnce`, `RevokedIsFinal`, `ResetOnce`, `ResetSignsOut`, `OwnedByApplicant`
and `CodesDistinct`.

`NotificationOutboxProofs` has `OneHolder`, `ExhaustedIsSpent` and `SentIsFinal` for any number
of servers, messages and attempts under the assumption `Slow = {}`, which its theorems name:
no server is slower than its lock (with one that is they fail, see above). The invariant
relates each scan's reading of `attempts` to the row's: equal and waiting, or behind, in
which case the compared claim matches nothing.

Checked by TLC only: liveness (`ExpiredIsResolved`, `StageIsReminded`,
`EveryNotificationSettles`), because it needs fairness and ENABLED, which the prover cannot
treat.

## Not modelled, and why

- Who the user is: ownership checks refuse a request, and a refused request is no step.
- Amounts of orders in `Trade`: the payable amount never changes after the order is
  written, so a payment's amount always equals it. In `AfterSale` the amount asked for is
  any that the remaining money allows; computing it is `Amounts`.
- In `Trade`, carts, the catalogue's status and campaigns, which are `Storefront`; in
  `Storefront`, stock and money, which are `Trade`, and the terms of a coupon beyond its shop,
  its end and its numbers, which are `Amounts`.
- The status of a shop, `startsAt` of a campaign, prices that change while an item lies in a
  cart, the status DELETED of a product, addresses and images: each can only refuse a
  purchase before it starts. The default address only orders a list.
- Time: a limit "may have passed" from some step on (`expired`, `Overdue`, `due`, `stale`).
- The purge of refund callback logs (365 days by default) and the back-off of channel queries.
- In `MerchantFinance`, a refund of an order that another claim let go (both run after one was
  reopened by arbitration) that overlaps a settlement: `completeRefund` does not test the
  order's status, and `recordRefundReversal` may have read that the order is not settled.
- In `Merchants`, the two look-ups of the caller in `addMember` and `updateMember` are one read.
- In `Trade`, the plain read with which a correction tests the shelf before it writes; the
  unsigned column refuses what a stale reading would let through.
- The fallback of `recordRefundReversal` for payments made before the ledger existed.
- The components `PROJECT.json` lists as not modelled, with the reason for each.

## Plan

1. Done: `Trade`, `OrderBook`, `CouponBook`, `Storefront`, `OrderClaims`, `AfterSale`,
   `AfterSaleRaces`, `NotificationOutbox`, `MerchantFinance`, `Amounts`, `Sessions`, `Merchants`, and
   the theorems above.
2. `MerchantFinance` against `Trade` and `AfterSale`: its paid orders and their refunds as
   steps of an abstract ledger that the other two implement (`revenue` and `reversed` are there
   for it).
3. The job: one scan may begin while parts of the one before still run, when another part of
   that one failed. Every part is safe beside itself in the models; the job's own flag is
   not modelled.
4. Proofs: the abstract ledger of 2 and its refinements, once it is there.
