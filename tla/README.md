# SQLM store: a verification development

SQLM is a shop for digital goods that lives inside Telegram. Its server
(`src/apps/api`, NestJS over PostgreSQL, Redis and BullMQ) runs as several API
replicas and worker processes on one database, and most of what can go wrong in
it goes wrong *between* two of them: two requests that read the same row, a job
that runs twice, a process that dies between two writes. The modules in this
directory model that server, one component at a time, check it with TLC on small
instances, and prove the most important results for every instance with TLAPS.

Paths below are relative to `src/apps/api/src/modules` unless they start with
`src/`.

## 1. The system

### Components, their state and their operations

| Component | State | Operations that change it | Module |
|---|---|---|---|
| Order lifecycle (`orders/orders.service.ts`, `order-state-machine.ts`) | `Order.status`, events, `walletPaid`, totals | checkout, cancel, settle, staff transition, refund | `Orders` |
| Inventory (`inventory`) | `InventoryItem.status/orderId`, `Product.stock` | import, reserve, release, sell, disable, adjust | `Orders`, `Delivery` |
| Payment proofs (`payments`) | `PaymentProof.status`, receipt hashes | upload, approve, reject | `Orders` |
| Coupons (`coupons`) | `Coupon.timesRedeemed`, `CouponRedemption` | redeem, release | `Orders` |
| Loyalty (`loyalty`) | `Customer.verifiedAt`, `welcomeGiftOrderId` | claim and release the gift, verify | `Orders` |
| Cart pricing (`orders/cart-pricing.service.ts`, `payment-currency.ts`) | none | quote, convert | `CartPricing`; the stale quote in `Orders` |
| Cleanup (`cleanup`, `orders/order-cleanup.service.ts`) | none of its own | expire unpaid orders, delete orders | `Orders`, `Wallet` |
| Moderation (`orders/customer-moderation.service.ts`) | `Customer.status` | ban, unban | `Orders` |
| Delivery (`delivery`, `queue`) | `Delivery` rows, queue jobs | dispatch, fulfil by a worker or an agent, retry | `Delivery` |
| Wallet (`wallet`) | `Customer.walletBalance`, `WalletEntry`, `WalletTopUp` | top-up, review, purchase, correction | `Wallet` |
| Watches and deposits (`crypto-payments`) | `CryptoPaymentWatch`, `CryptoDeposit` | open, extend, expire, sweep, match by hand | `CryptoDeposits` |
| Gifts and social rewards (`gifts/gifts.service.ts`) | `SocialRewardClaim`, `Product.giftClaimsCount` | claim, submit, approve, reject | `Gifts` |
| Telegram updates (`telegram`: webhook, processor, `bot-guard.service.ts`) | `TelegramUpdateLog`, Redis claims, rates and mutes, queue jobs | receive, admit, process, retry, prune | `BotUpdates` |
| Strikes and appeals (`orders/customer-security.service.ts`) | `CustomerStrike`, `suspendedUntil`, `CustomerAppeal`, Redis arms | strike, suspend, ban, lift, appeal, decide | `Sanctions` |
| Support (`support`) | `SupportTicket`, unread counters | create, message, assign, close | not modelled |
| Legacy customers, wholesale, reviews | claims, applications, one review per order | claim, release; apply, review, revoke | not modelled |
| Notifications, realtime, storage, settings, catalog, auth, reports, user interfaces | see `PROJECT.json` | | not modelled |

### How they interact

* **Shared tables.** `Order.status` is written by the customer, the cleanup job,
  reviewers, the wallet, the deposit sweep, the delivery worker and staff. Every
  write goes through `transition`, an `UPDATE ... WHERE id = ? AND status = ?`
  that throws when it changes no row and so rolls its transaction back.
* **Calls inside a transaction.** `transition` to PAID sells the reserved items
  and verifies the customer; to CANCELLED it releases goods, gift and coupon. The
  wallet's debit runs in the transaction that settles the order.
* **Calls after a commit.** Paying an order dispatches a delivery job and may give
  up its deposit watch; both are best effort, outside the transaction.
* **Queues.** BullMQ runs one job per paid order (five attempts, a stalled job is
  taken back once), one per Telegram update, the deposit sweep every 40 seconds, and
  the cleanup.
* **Redis.** The webhook claims an update's id, counts a user's updates and mutes
  whoever floods; the bot arms a chat for an appeal. Keys lapse and may be lost.

### What is hard

1. *Read, decide, write later.* Many handlers read a row, check it in JavaScript
   and write in a later statement. Where the write repeats the condition the race
   is harmless; where it does not, it is a finding.
2. *A transaction that returns early* commits what it has done so far; one that
   throws does not. `credit()` does both.
3. *Stale lists.* The cleanup, a ban and both sweeps work through lists read once.
4. *Jobs that run twice.* A worker that lost its lock goes on working.
5. *One thing, several payers.* Proof, wallet, deposit and staff may settle the
   same order in the same second.
6. *Counters beside rows.* `timesRedeemed`, `stock` and `walletBalance` have to
   agree with redemptions, reservations and ledger lines.

### What makes each component correct

* **Orders**: an order is paid once, by one payment, never becomes unpaid again;
  goods and discounts follow it exactly; what nobody pays or submits a proof for lapses.
* **Delivery**: every secret reaches one line; a job that ends well leaves no line
  waiting for nobody; what was handed over stays; every job ends.
* **Wallet**: the ledger explains the balance; an order is charged once and exactly
  when the wallet paid it; a top-up is credited once.
* **Gifts**: no more are given than the limit, each keeps its item, and no unit is
  made or lost beside the sales of the same product.
* **Updates**: the handler runs at most once for an update, no mute has two notices
  queued, and what was queued ends.
* **Sanctions**: strikes that land together are not counted as one, so the one that
  completes the limit is a ban; an appeal restores a customer only when it is accepted.
* **Prices**: discounts never exceed the cart, and a transfer never falls short.
* **Deposits**: a transaction pays one order, and without a person only the order
  its exact amount names; none is passed over for ever. That money which came in is used
  or reported, as the code says, is more than it does: the early return of `credit()`
  spends a deposit on nothing, and a sweep that dies right after it marked a deposit as
  alerted tells nobody.

## 2. The modules

| Module | Models | Extends |
|---|---|---|
| `OrderStates` | statuses, `ORDER_TRANSITIONS`, `Allowed`, `CanWalk` | |
| `OrderContract` | the abstract specification: opened once, paid at most once, closed, erased | |
| `Orders` | orders, stock, discounts, proofs, cleanup, moderation | `OrderStates` |
| `Delivery` | queue jobs, workers, agents, rows, items | `OrderStates` |
| `CryptoDeposits` | watches, the deposit ledger, sweeps, reviewers | `OrderStates` |
| `Wallet` | balances, ledger lines, top-ups, purchases | `OrderStates` |
| `Gifts` | instant gifts, rewards, and the checkouts beside them, by statement and lock | |
| `BotUpdates` | webhook calls, Redis keys, the update queue, workers, the update log | |
| `Sanctions` | strikes, suspensions, bans, appeals, by statement | |
| `CartPricing` | the price of a cart and its conversion, as operators | |
| `MC*` | small instances, constants and symmetry | each its component |
| `MCCartPricing` | `CartPricing` against reference definitions, as assumptions over bounded inputs | `CartPricing`; extended by `MCOrders`, so the runs of `Orders` evaluate it |
| `*Proofs` | the theorems, one module for each component | each its component, TLAPS |

`Orders` refines `OrderContract`: `ImplementsContract` is `Contract!Spec` under the
mapping of an order's status to its phase and of `paidBy` to the payer. In the
other components an order is only what that component sees of it: its status
and the moves the others may make with it.

### Steps

An action is what the database makes atomic. A transaction whose effect hangs on
guarded updates is one action, with the guards of all of them, since a count of
zero throws and rolls it back. A handler that reads first and writes in a later
transaction is two actions: in `Orders` and `Wallet` the read leaves a record in
`requests` with what it saw, and the write works from that record against whatever
the database has become; in `Delivery` and `CryptoDeposits`, where one call is a
long sequence of statements, each worker, agent, sweep and reviewer is a process
with a program counter (`act`) and its local variables. `BotUpdates` (`call`,
`worker`) and `Sanctions` (`thread`) do the same for their handlers. `Gifts` goes one
level further, since there two transactions write the same rows without repeating
what they checked: a transaction is its statements, with the row locks PostgreSQL
takes at READ COMMITTED (`productLock`, `itemLock`).

### `Orders`

`status`, `itemStatus`, `itemOrder`, `stock`, `giftOrder`, `verified`,
`redemptions`, `timesRedeemed`, `proofStatus`, `proofOrder` and `banned` are
columns. `overdue` says which orders are older than the cutoff, and `stale` is the list
the cleanup job is working through: at most `ListSize` of the `Backlog`, whichever the
query returns, since it has no ORDER BY (`cleanup/cleanup.service.ts:35-39`). `paidBy`,
`supplied` and `returned` are history: what settled an order, what staff put into
stock, what orders put back (`StockAccounted` compares them with what orders took, unit by
unit). SOLD stands for the item statuses SOLD and DELIVERED,
which nothing here tells apart. `Cancel`, `Settle` and `Step` are `transition` with
its effects for CANCELLED, for PAID and for the rest; every handler goes through
them. Products are two: one with INDIVIDUAL items and one counted. Discounts are
whether a price has them, since the amount decides nothing.

### `Delivery`

One job per order, `job`, `holder`, `failures` and `stalls` being BullMQ's record
of it. `Work` is `fulfillOrder` from `Begin` over `EnsureRow`,
`claimInventoryForItem`, `DeliverLine` and `FallBackToManual` to `Advance` and
`Notify`; `Help` is `fulfillManually`, which ends in the same `Advance`. An item
under `FOR UPDATE SKIP LOCKED` is `Locked` while its claimant is between `claim`
and `deliver`. Lines are worked in the order of `Rank`, the order the query happens
to return. `Forget` is the removal of a finished job, and with it of its id, after
the retention; it never overlaps a run of the same order. A job that came when the order
was not waiting for goods ends `skipped`, which BullMQ records as completed: it looked at
no line, and `NoLineLeftWaiting` speaks of the others. A row that is FAILED waits no more,
and that is all the property says of it: an automatic one is not on the list agents work
from, which is a finding (`delivery.service.ts:212`, `418`) and not excluded by any property.

### `CryptoDeposits`

`watch`, `expected`, `claimKey`, `extensions` and `due` are the watch rows (`due`
is a comparison of `expiresAt` with the clock); `ledger`, `amount`, `creditedTo`,
`byStaff`, `old` and `alerted` are the deposit rows, `ledger` in the order of
`seenAt`. Orders here share one base price, so they draw their amounts from one
pool, and there is one exchange, asset and network: rows of others never meet. A
sweep is `ingest`, `ListPending`, then `settleOne` and `CreditFound` for each
deposit of its page, `ListStale`, `expireStale` for each watch, `ListStranded`,
`alertStranded` for each deposit, `EndSweep`. `credit` is the transaction all
payments by deposit go through. `openWatch` and `cancelForOrder` do not look at
the order: the page that opens a watch on demand does not, and callers of the other
looked before, in a statement of their own.

### `Wallet`

One action per transaction. `RequestTopUp` and `createTopUp` are the two halves of
`createTopUp`, whose checks are plain reads. A customer is an approved merchant and
prices are in the wallet's currency: the two checks that say so only refuse. What
others do to an order is `transition`; deleting one leaves its ledger lines, which
no longer name it. The receipt hashes of order proofs are not looked at here.

### `Gifts`

One product and everybody who wants it. A request stands for the order it makes: a
claim reads the product, checks for an earlier claim, opens its transaction with the
conditional increment of `giftClaimsCount`, picks an item by a plain read, updates it
and commits; a checkout picks with `FOR UPDATE SKIP LOCKED`. `request` is how far each
got and what it read, and `Abort` is an exception or a death anywhere before the
commit. What a transaction writes to `giftClaimsCount`, `stock` and the items is made
at its commit; its locks keep the rows as they were until then, and every statement
that needs one waits. `product` is chosen among all combinations of
gift type and inventory mode at the start. A reward is CHECKED between the limit's
read and its insert, and a review reads it PENDING before it opens its transaction.
Checkouts are followed for products that are also instant gifts; one of a product that is
a social reward is not. What the module says of social rewards (`CheckReward`,
`submitSocialReward`, and both reviews) is there for the findings about them: an approval
takes no item and counts no gift, and no property but the type sees it.

### `BotUpdates`

A webhook call goes `Claim`, `Admit`, `Incr`, `Expire`, `Mute`, `AddWarning`, `AddJob`,
`Answer`, one Redis or queue command each. Telegram sends an update again until it has an answer,
so two calls of one update overlap; `Answer` may not reach it; a claim may be lost with
Redis (`LoseClaim`); every Redis error lets the update through, as `admit` says. A job
is BullMQ's, as in `Delivery`. The worker inserts the log row, enters the handler, and
writes the row's end; `Die` may strike in between, `Stall` gives its job to another
while it may still be running. `OtherUpdate` is an update of the same user that counts
against the rate and is of no further interest; those that pass the limit are followed.
`runs`, `mutes` and `told` are history: how often the handler ran, how often each user was
muted, and which mutes had their notice queued. The job that then sends the notice writes
no log row (`telegram-update.processor.ts:31-34`), so one taken back from a stalled worker
may send it twice, and a call that fails between the mute and the queue leaves none: it is
left out, and what is checked is the queueing.

### `Sanctions`

`strike` is the lock of the customer, the read of the window, the write and, at the end
of the ladder, the ban, in that order and each by itself; `reviewAppeal` is the guarded
claim of the appeal and then the unban and the lift. What one statement does is one
action (`suspend`, `StaffBan`, `StaffUnban`, `StaffLift`). An appeal starts with the
press of a button, which arms the chat in Redis; the next text takes the arm (GETDEL),
looks for a pending appeal and creates one. The bot's check that the customer is restricted
and the SET of the arm are one action. Each strike row keeps, as history, the
window it was counted in (`since`) and its number (`n`).

### `CartPricing`

Money is in cents, percentages and rates in hundredths, so that all of it is integers:
`amountOff` and `computeDiscount` round down as `toDecimalPlaces(2, ROUND_DOWN)` does,
the conversion rounds up to a whole pound or a cent. `Purchasable` and `Usable` are the
conditions under which `priceCart` and `CouponsService.quote` throw nothing. No property of
a run depends on this module: it is compared with reference definitions and proved about.

## 3. The runs

Every run ends with a full exploration of its instance. `expect: violation` marks a
run whose single property states what the source says of itself and the code does
not do; TLC finds the counterexample.

| Run | Instance | Shows |
|---|---|---|
| `orders_stock` | 1 customer, 2 orders, 2 items, 3 counted units, 1 proof, 2 requests in flight | goods, counters and payments stay in step |
| `orders_discounts` | 2 customers, 3 orders, coupon and gift | nobody gets a discount twice; each is handed back exactly |
| `orders_lapse` | 2 orders, the cleanup job with pages of 1, a ban | types, refinement of `OrderContract`, unpaid orders lapse |
| `delivery_handover` | 1 order, 2 automatic lines of one product; 2 items for them, 1 of another product of the order, 1 sold to another order; 2 workers, 1 agent, a stall, a crash, an item withdrawn, a refund | every secret to one line and the right one, no line waits for nobody, jobs end |
| `delivery_premature` (violation) | 2 manual lines, 1 worker, 1 agent | an order is DELIVERED before its second row exists |
| `crypto_sweeps` | 2 orders, 2 amounts, 1 deposit, 2 sweeps, 1 reviewer who may die | a transaction pays one order, the one its amount names |
| `crypto_backlog` | 1 order, 2 deposits, pages of 2 and 1, 2 sweeps of which one may die, 1 extension | every deposit is credited or marked for staff; one of the exact amount is used |
| `wallet_ledger` | 2 customers, 2 orders of one, 2 top-ups of one receipt, 2 requests in flight | the ledger explains the balance |
| `bot_updates` | 1 update sent twice, 1 user, 2 calls, 2 workers who may die, 2 attempts, a stall | handled at most once, no mute has two notices queued, the queue drains |
| `gifts_claims` | each kind of product; 3 claims, 2 checkouts, 2 reviews, 2 rewards, 2 items or units, a limit of 2 | the limit, the gifts' items and the units hold |
| `gifts_taken` (violation) | as `gifts_claims`, INDIVIDUAL products | a gift takes an item a checkout had reserved |
| `sanctions_ladder` | 1 customer, 2 threads, 1 appeal, a ladder of 3 | strikes are counted, appeals restore, an arm takes one text |

The runs of `Orders` also evaluate the eight assumptions of `MCCartPricing`: the
discounts are the largest the rules allow and the transfers the least, unknown pairs are
not converted, a cart goes through when every line may be bought, a subtotal is what the
loop adds up, the best discount wins, and a usable coupon takes something. `gifts_claims`
and `gifts_taken` take the same values, so what separates them is the property. The
largest explorations are `sanctions_ladder` (1.9 million states, a minute) and
`bot_updates` (0.6 million, two minutes, for its liveness).

### Bounds, and why they are enough

The races of this code are pairs: two actors that read the same row before either
writes. Two orders compete for goods and amounts, two workers for a job, two
sweeps for a deposit, and a third actor (staff, the customer) moves the order under
both. A third of a kind adds no new pair, and the theorems below cover every number
where it mattered most.

* `MaxRequests` (Orders, Wallet) bounds the handlers between read and write: two
  overlap. In `orders_lapse` one is enough, since the job itself is the second actor.
* `StaffTargets`, `Targets`: the statuses staff or others ask for. The sets hold one
  of each kind the guards tell apart. In `delivery_handover` it is REFUNDED, which takes
  the order away from its worker. `HandServed` names the lines agents take up there: one of
  the two, so that one line is the workers' alone and the other is raced for.
* `MaxStock`, `MaxLines`: staff stop restocking and adjusting there.
* `MaxAttempts` 2 stands for 5: one attempt that fails and is retried, one that is the
  last. `MaxStalls` 1 is BullMQ's own limit.
* `MAX_EXTENSIONS` 1 for 2, `Batch` 2 for 200 and `AlertBatch` 1 for 50: a page as
  large as the backlog and one smaller than it. `ListSize` 1 for 200 in `orders_lapse`, with
  two orders overdue: a page smaller than the backlog. The other runs of `Orders` have no
  cleanup job (`ListSize` 0).
* `MAX_PENDING_TOPUPS` 1 for 3.
* `FLOOD_MAX_UPDATES` 1 for 25: one update let through, both calls too many when another
  came first. `MaxMutes` 2: a mute, its end, and one more. `MaxDeliveries` 2: an update is
  sent once more than it need be.
* `maxGiftClaims` 2 with three claims, `InitialStock` 2 with five who want a unit: both
  run out.
* The ladder of `sanctions_ladder` is one, then two units of time, then the ban at the
  third strike, in a window that has just passed (`strikeWindow` 0) or holds the
  strikes of the same moment; `MaxTime` 2, `MaxStrikes` 3 and `MaxArms` 1 are bounds. With
  one arm the run shows texts that race for it and its lapse, not an arm that is renewed:
  that is in the theorem `ArmsAreUsedOnce` alone.
* `Mortal` names who may die; `Suspects` and `HandVerified` whom staff act on;
  `Withdrawn` the items staff may disable.
* Proofs are one or two per instance, so the code's limit of proofs per order never
  binds and is left out.

Symmetry is used where the instance treats values alike: items in `orders_stock`,
orders and amounts in `crypto_sweeps`, top-ups in `wallet_ledger`, items in the gift
runs, threads in `sanctions_ladder`; never in a run that checks liveness. Deadlock is
not checked: every instance is finite in orders, deposits, updates or requests, and
comes to rest when all is done.

### Fairness, and why the code justifies it

* `Orders`: orders grow old (weak fairness on `GrowOld`); the job comes back every quarter
  of an hour (weak fairness on listing something, whichever orders that is) and goes
  through its list (weak fairness on `Expire`). `Expire` may be refused or fail; that the
  database does not fail the same order every time it is listed is strong fairness on its
  successful case. Nothing says that a given order is listed: the query takes 200 rows
  without an ORDER BY. That each leaves PENDING_PAYMENT all the same follows in the model
  because an order that is cancelled leaves the backlog for good and the orders are
  finitely many. With new unpaid orders coming for ever, faster than 200 each quarter of
  an hour, the code promises no such thing. Customers, staff and requests have no
  fairness: nobody has to act.
* `Delivery`: a job that waits while a worker is free is taken (weak fairness on `PickUp`
  of each order by some worker); a worker's handler goes on (weak fairness on `Work`); the
  lock of a worker that no longer works on its job lapses (weak fairness on that case of
  `Stall`). Nothing is asked of agents. A crash is never forced and never prevented.
* `CryptoDeposits`: the job repeats every 40 seconds (weak fairness on
  `pollOnce(Job)`), and time passes (weak fairness on `Age`). The button, reviewers
  and customers have none. The job itself does not die in the liveness run; a second
  sweep may, anywhere.

* `BotUpdates`: as for deliveries, strong fairness on `PickUp` of each update, weak
  fairness on the `Work` of each worker, and weak fairness on the `Stall` of a job that
  nobody works on any more. The second takes it that every handler ends: a call to
  Telegram has no timeout of its own (`telegram-bot.service.ts:197-199`), and one that hung
  for ever would keep its job. Telegram, users and Redis have none: nobody must send
  again, and no key must lapse.

`Gifts` and `Sanctions` promise safety only: a claim that dies is not repeated by
anybody.

### Properties

The comment above each property in the modules states it in words. Each has a
mutant, a plausible slip in the code (a dropped guard, a missing release, a
comparison turned round) that makes TLC report exactly that property; the mutant
operators stand beside the definitions they would replace and nothing uses them.

## 4. The theorems

TLAPS checks every proof to the last leaf. The only assumptions are the named ones
of the modules, which say what a constant is (an order has one owner; prices are
natural numbers; a null is not a value), and which TLC evaluates on every run.

| Theorem | Says |
|---|---|
| `OrdersProofs!TypeCorrect` | `Spec => []TypeOK` |
| `OrdersProofs!ApprovedProofPays` | `Spec => []ApprovedProofIsThePayment` |
| `OrdersProofs!CouponIsCounted` | `Spec => []CouponCounterExact` |
| `OrdersProofs!OneGiftPerNewcomer` | `Spec => []GiftHeldByItsOrder` |
| `OrdersProofs!GoodsStayWithOrders` | `Spec => []GoodsFollowOrder` |
| `OrdersProofs!DisabledItemsStayOut` | `Spec => DisabledStaysOut` |
| `OrdersProofs!EveryUnitAccounted` | `Spec => []StockAccounted` |
| `OrdersProofs!OrdersImplementContract` | every execution of `Orders` is one of `OrderContract` |
| `DeliveryProofs!TypeCorrect` | `Spec => []TypeOK` |
| `DeliveryProofs!NoticesAreTrue` | `Spec => []NoticeFollowsDelivery` |
| `DeliveryProofs!DeliveriesStay` | `Spec => HandedOverStays` |
| `DeliveryProofs!GoodsReachOneLine` | `Spec => []GoodsHandedOverOnce` |
| `DeliveryProofs!NoLineIsLeftWaiting` | `Spec => []NoLineLeftWaiting` |
| `DeliveryProofs!WorkersAreNotEarly` | only agents and staff ever call an order DELIVERED before every line is |
| `DeliveryProofs!DeliveredWithoutAgents` | with neither, `Spec => []DeliveredMeansEveryLine` |
| `CryptoDepositsProofs!TypeCorrect` | `Spec => []TypeOK`: no transaction twice in the ledger |
| `CryptoDepositsProofs!OneDepositPaysOne` | `Spec => []OneDepositOneOrder` |
| `CryptoDepositsProofs!AmountsAreKeys` | `Spec => []AmountsIdentify` |
| `CryptoDepositsProofs!MatcherIsExact` | `Spec => []AutoPaidExactly` |
| `CryptoDepositsProofs!MatchedOrdersPaid` | `Spec => []MatchedMeansPaid` |
| `CryptoDepositsProofs!SettlementIsFinal` | `Spec => SettledStays` |
| `CryptoDepositsProofs!CreditsAreSpent` | a credited deposit paid its order, or that order's watch is closed |
| `CryptoDepositsProofs!SweepsKeepContract` | every step is one of `OrderContract` or leaves its variables unchanged |
| `WalletProofs!TypeCorrect` | `Spec => []TypeOK`: no balance below zero |
| `WalletProofs!LedgerCorrect` | `Spec => []LedgerAgrees` |
| `WalletProofs!LedgerKept` | `Spec => LedgerOnlyGrows` |
| `WalletProofs!TopUpsCreditedOnce` | `Spec => []CreditedWhenApproved` |
| `WalletProofs!OrdersChargedOnce` | `Spec => []ChargedWhenPaid` |
| `WalletProofs!OverlapsBoundPending` | requests that overlap exceed the limit of pending top-ups by less than their number |
| `WalletProofs!CopiesNeedOverlap` | with one request at a time, a receipt is never two live top-ups |
| `BotUpdatesProofs!TypeCorrect` | `Spec => []TypeOK` |
| `BotUpdatesProofs!AtMostOnce` | `Spec => []HandledAtMostOnce` |
| `BotUpdatesProofs!OneNoticeEach` | `Spec => []OneNoticePerMute` |
| `BotUpdatesProofs!RetriesDoNotRepair` | an update logged and not handled is never handled |
| `GiftsProofs!TypeCorrect` | `Spec => []TypeOK` |
| `GiftsProofs!GiftLimitKept` | `Spec => []GiftsCounted` |
| `GiftsProofs!GiftsStayGiven` | `Spec => []GiftKeepsItsItem` |
| `GiftsProofs!UnitsConserved` | `Spec => []UnitsAddUp` |
| `GiftsProofs!LossesBounded` | never more checkouts without their item than gifts given, nor than the limit |
| `GiftsProofs!RobbedByGifts` | a checkout loses its item to a gift that commits, or not at all |
| `SanctionsProofs!TypeCorrect` | `Spec => []TypeOK` |
| `SanctionsProofs!StrikesClimb` | `Spec => []LadderClimbs` |
| `SanctionsProofs!AcceptedAppealsRestore` | `Spec => []RestoredOnAcceptance` |
| `SanctionsProofs!ArmsAreUsedOnce` | `Spec => []OneTextPerArm` |
| `SanctionsProofs!NoAppealWithoutPress` | a customer never has more appeals than presses of the button |
| `CartPricingProofs!NobodyIsOwed` | both discounts together stay within the subtotal |
| `CartPricingProofs!MoreNeverCostsLess` | a larger subtotal never has the smaller total |
| `CartPricingProofs!TransferCoversTotal` | a transfer is worth the total, and the next smaller one is not |
| `CartPricingProofs!UnitPriceIsNearest` | units at the price shown miss the line by half a cent each at most |

**Orders.** `PaymentInv` is `TypeOK` with three facts: a proof in use has an order
(`ProofHasOrder`), an order that is open has no payer (`UnpaidHasNoPayer`), and
`ApprovedProofIsThePayment`. None but the type is inductive alone: approving needs
that no earlier payment is recorded, and that holds because a status past PAID is
never left for an open one. `NextStatus` and `NextProofs` reduce the whole next-state
relation to what it may do to the status and payer of an order (`StatusStep`) and to
its proofs (`ProofStep`); the preservation of the invariant and the step simulation
of the refinement are both short arguments from those two. `NextOrderStep` is the same
reduction for goods and discounts: an order enters, leaves, sells, returns, is erased or
only advances (`OrderStep`). Two facts make the remaining invariants inductive. A
deletion that works from a stale status past payment still meets one
(`DeletesSound`), so it never leaves an item reserved for nobody; and an order that
does not exist yet has no items (`ItemsAreOrdered`), so what it reserves is what it has.
`StockInv` counts the pieces as sets of numbered units, since a sum over the orders would
be a fold: a checkout adds one block of units to `Taken`, a return one to `GivenBack`, and
the cardinalities follow. What an order has put back depends on its status alone, since no
closed order opens again; only a deletion, which decides on a stale one, may put all of it
back a second time (a finding), and then the order is gone.

**Delivery.** `TypeInv` adds to the types that a job that may still run has an attempt
left (`QueueSound`) and that every worker and agent has at hand what its step needs
(`Equipped`). Under it, the steps are reduced to what they may do to rows (`RowMoves`),
to who is where (`ActMoves`) and to the items (`ItemsStay`); that a worker on a line has
its row (`RowsThere`) gives `NoticesAreTrue` and `DeliveriesStay`. For
`GoodsReachOneLine` the invariant is `GoodsInv`: what a worker claimed and has not yet
handed over is sold, of the right product and order, on no line, and claimed by nobody
else (`ClaimsSound`), which survives a stall because the second worker finds the items
locked. `WatchInv`, for `NoLineIsLeftWaiting`, says of a worker on its way through an order
which lines are behind it, and that those are not left waiting (`NotLeftWaiting`); once that
holds of a line, it stays so.
`CallInv`, for the last two theorems, adds that a worker that found no row outstanding and
goes to say DELIVERED is right: it has created every row before it counts, so to it the
count means what the comment of `advanceOrderAfterFulfillment` says. An agent has created
none: that is the whole of the finding of `delivery_premature`.

**Deposits.** What makes `credit()` right is that what a sweep remembers between two
statements stays true: `ActsSound` says that the deposits it works on are rows of the
ledger, and that the watch it found for one exists and asks for that amount. No step
can break it, since rows are never removed or changed and a watch, once there, keeps
its amount. The invariant `Inv` is that, the type, the four state properties, and three
facts they need: only rows of the ledger are credited (`CreditsInLedger`), and an order
paid by the matcher has a watch (`AutoIsWatched`), so no later watch replaces the amount
it was paid with; the third is `OpenUnpaid`. `NextShape` reduces every step of every process to what it may do to
an order (leave it, `Moved`, `Paid`) and to the claims (`Claims`); each property, and
`SettledStays`, follows from that shape. `OpenUnpaid` (an order that is open has no payer) makes
the steps steps of `OrderContract`, and tells the credits that paid from those that the
early return of `credit()` wasted: of those, the order's watch is closed.

**Wallet.** `TypeInv` is `TypeOK` with `SlotsFree`: the ids held by the requests in
flight are unused and distinct, and a top-up that exists has a customer. A debit is
guarded by the balance, hence the type, hence the ledger. Each remaining theorem
takes the theorems before it as known and goes through the writers of the ledger:
one lemma says what appending a line does to the lines of an order and of a top-up,
and the deletion of an order is the one step that touches older lines. The checks of
`createTopUp` are reads, so the code promises less than its comments: `LimitInv` counts what
is pending together with what is about to be inserted, and grows by one only when
the pending ones are below the limit; `ReceiptInv` says that with one request at a time
the receipt that was checked has no copy when it is inserted.

**Updates.** `TypeInv` says that a call and a worker under way have an update.
`HandledAtMostOnce` needs that whoever may run the handler wrote the log row, alone, and
nobody has run it yet (`Reserved`), and, since the log is pruned, that an update that was
handled and has no row any more is idle everywhere: answered, in no call, with no job, no
worker (`Forgotten`), which is for good (`IdleStays`). `OneNoticePerMute` needs that
no notice, queued or about to be, is of a mute still to come (`Numbered`): the call that
finds no mute key and sets it then has a number nobody else has, and a call that finds one
queues nothing. `RetriesDoNotRepair` is the other side of `HandledAtMostOnce`, from the
same lemma: a row that is there keeps every later try from the handler, and when it is
pruned everybody has done with the update.

**Gifts.** `CountInv`: a claim between its count and its end holds the product's row with
room for it (`RowHeld`), and an order is there once its request is done (`Fresh`,
`Kinds`). `ItemInv`: an item for sale is nobody's (`Free`), one that is being taken is
locked (`Held`), and what a claim is about to take belongs to no other gift (`Taking`),
though it may belong to a checkout, which is the finding of `gifts_taken`. How far that goes
is proved as well: a gift that commits is the only step that leaves a checkout without its
item, it does so to one checkout, and it raises `giftClaimsCount`, which is within the limit.

**Sanctions.** A thread between its count and its commit has the lock of its customer,
and its number exceeds how many strikes its window holds (`LockHeld`): suspensions and pardons
of others, which take no lock, add no row the ladder counts. The rest follows from the
guarded claim of an appeal and from the arm being taken and removed at once. An appeal may
be created beside a pending one (a finding), so what is proved is what bounds them: the
appeals of a customer and the texts that are becoming one are no more than the texts taken
(`AppealInv`), and those no more than the presses.

**Prices.** Facts about `\div` by a positive number, then the theorems by cases of the
coupon. They hold for every amount, percentage and rate, while `MCCartPricing` compares
with the reference definitions on bounded ones.

**Findings, localised.** Where the code does less than it says, the runs show it on an
instance and the theorems without a property of a run say how far it can go, for every
instance: `WorkersAreNotEarly`, `DeliveredWithoutAgents`, `LossesBounded`, `RobbedByGifts`,
`CreditsAreSpent`, `OverlapsBoundPending`, `CopiesNeedOverlap`, `RetriesDoNotRepair`,
`NoAppealWithoutPress`. Two of them have a hypothesis, which is what they are about: that
nobody fulfils by hand or calls orders delivered, and that requests do not overlap.

**Only model-checked.** Liveness (`UnpaidOrdersLapse`, `JobsEnd`, `NoDepositPassedOver`,
`ExactDepositSettles`, `QueueDrains`) rests on fairness and is out of the prover's
reach. That the operators of `CartPricing` agree with their reference definitions is
evaluated on bounded inputs. Every safety property of the passing runs is a theorem.

## 5. Findings

Disagreements between what the source says and what it does, met while modelling.
`PROJECT.json` quotes each with its lines.

With a run:
* `advanceOrderAfterFulfillment` counts the rows there are: an order is DELIVERED before
  its second row exists (`delivery_premature`).
* `claimInstantGift` picks an item by a plain read and takes it unconditionally: a
  customer's reservation goes to a gift (`gifts_taken`).

Without a run of their own:
* Orders: `cancelByCustomer` decides on a stale status, and an order under review is
  cancelled; `deleteOrder` gives counted stock back from a stale status, twice; a
  cancelled or otherwise paid order leaves its proof in the review queue; a checkout in
  flight outlives a ban; the price guard of `checkout` compares the total and not the
  amount to transfer, and the error of a lost gift quotes a total that is no longer one.
* Delivery: two workers that advance at once both see the other unfinished, and the order
  is never DELIVERED; a FAILED delivery is announced as delivered on retry; a retried
  dispatch is a no-op while the old job is kept; a notice is lost with an exception.
* Deposits: `credit()` returns false inside its transaction, and a deposit is marked
  credited to an order nobody paid; an extension is undone by the sweep that listed the
  watch before; old unmatched deposits hide newer ones.
* Wallet: the duplicate check of top-up receipts, which two requests at once both pass,
  and which order proofs do not share.
* Updates: a retry meets the log row of the first try and never handles the update; a
  claim made before queueing loses the update whose queueing fails; a rate key whose
  EXPIRE was lost counts for ever; an update the bot could not handle is logged COMPLETED;
  the notice of a mute may be sent twice, or not at all.
* Gifts: two claims of one customer, or two approvals of one reward, pass a check made
  before the transaction; a claim works from the stock it read first; two reviews of one
  order.
* Sanctions: two texts, two appeals; a strike that commits a ban and dies before it; an
  accepted appeal that dies before it restores; a suspension shortened by a read that was
  stale.
* Support: reading a thread clears the badge of a message that came in between; a message
  reopens a ticket closed meanwhile.

## 6. Not modelled

* Notifications and messages, except that one is due (`NoticeFollowsDelivery`).
* Resending and replacing delivered goods; deletion of an order together with its
  delivery rows or its deposits.
* Permissions and sessions: every handler is open to whoever may call it.
* Support tickets: their counters and statuses are written unguarded, so what could be
  stated of them is what the findings say does not hold. Legacy customers, wholesale
  applications, reviews and payment methods are single statements under a unique key or
  a guard.
* Decimal quotients of more than twenty digits, which `CartPricing` takes as exact.
* Files, encryption, HTTP clients, user interfaces: input and output.
* The composition of the components. Each leaves open what the others do to an
  order (`transition`, `StaffTransition`, `DIRECT`), and so allows at least what they
  do.

## 7. Plan

Done: the core (`Orders`, `Delivery`, `CryptoDeposits`, `Wallet`), then gifts, updates,
sanctions and prices, and the theorems of all of them. What is left, in order:

1. **Composition** of `Orders` with `Delivery` (deletion under a running delivery, the
   lost dispatch) and of `CryptoDeposits` with `Orders` through `OrderContract`.
2. **SupportTickets**, should the service come to guard its writes: a badge equals the
   messages behind it, and a closed ticket stays closed.
3. **Legacy customers and wholesale members** as the inputs of `CartPricing` that change
   between the quote and the checkout.
4. **Theorems**: the steps of `Delivery` and `Wallet` as steps of `OrderContract`; the latter
   needs the payer as history, since a cancelled order no longer says who had paid it.
