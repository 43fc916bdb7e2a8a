-------------------------------- MODULE Trade --------------------------------
(***************************************************************************)
(* Checkout and payment of express-shopping: orders split by shop, the     *)
(* stock they lock, the coupon they use, the payments opened for them, the *)
(* provider's callbacks and the reconciliation job's queries, and what the *)
(* after-sales of a paid order do to it.                                   *)
(*                                                                         *)
(* A database transaction that runs at Serializable, or whose only guard   *)
(* is a conditional update, is one step.  createPayment runs at MySQL's    *)
(* default REPEATABLE READ and checks by plain reads before it inserts, so *)
(* it is two steps.  A reconciliation is a claim, an answer in flight and  *)
(* a transaction that applies it.  A request that is refused, a            *)
(* transaction that throws and one that finds nothing to do leave the      *)
(* database as it was: they are stuttering steps.  So is a notice of an    *)
(* unknown payment, another amount or another channel: all it leaves is a  *)
(* REJECTED row in the callback log.                                       *)
(***************************************************************************)
EXTENDS Integers, FiniteSets

CONSTANTS
  CartRequests,    \* (user, clientRequestId) keys of table PlatformOrder
  DirectRequests,  \* (user, clientRequestId) keys of table Order, buy-now
  Shops,
  Skus,
  ShopOf,          \* ShopOf[s]: the shop that sells sku s
  Coupons,         \* user coupons that were claimed
  CouponShop,      \* CouponShop[c]: the shop that issued c
  NoCoupon,
  Payments,        \* (orderId, clientRequestId) keys of table Payment
  OrderOf,         \* OrderOf[p]: the order p is for
  Events,          \* bound: what callbacks report, payments with an outcome
  InitialStock,    \* InitialStock[s]: goods on the shelf at the start
  Corrections,     \* differences an administrator enters, integers
  MaxQuantity,     \* bound: quantity of one line
  MaxSupply,       \* bound: goods ever on one shelf, for AdjustInventory
  MaxQueries       \* PAYMENT_QUERY_MAX_ATTEMPTS

Requests == CartRequests \cup DirectRequests

(* The child order of request r at shop s: childClientRequestId hashes the *)
(* two, a buy-now request has its one order at the shop of its sku.        *)
Orders == Requests \X Shops

Quantities == 0 .. MaxQuantity
Baskets    == [Skus -> Quantities]

Applicable == {"PAID", "PROCESSING", "SHIPPED", "COMPLETED"}
Paid  == Applicable \cup {"AFTER_SALE", "REFUNDING", "REFUNDED"}
Live  == Paid \cup {"PENDING_PAYMENT"}
OrderStatus == Live \cup {"NONE", "CANCELLED"}

CouponStatus  == {"AVAILABLE", "USED", "EXPIRED"}
PaymentStatus == {"NONE", "PENDING", "SUCCESS", "FAILED"}
Answers       == {"FAILED", "SUCCESS"}   \* of the channel; "FAILED" also for NOT_FOUND

ASSUME TradeAssumption ==
  /\ IsFiniteSet(CartRequests) /\ IsFiniteSet(DirectRequests)
  /\ IsFiniteSet(Shops)
  /\ CartRequests \cap DirectRequests = {}
  /\ ShopOf \in [Skus -> Shops]
  /\ NoCoupon \notin Coupons
  /\ CouponShop \in [Coupons -> Shops]
  /\ OrderOf \in [Payments -> Orders]
  /\ Events \subseteq Payments \X Answers
  /\ InitialStock \in [Skus -> Nat]
  /\ Corrections \subseteq Int
  /\ MaxQuantity \in Nat /\ MaxSupply \in Nat /\ MaxQueries \in Nat

VARIABLES
  status,       \* Order.status, "NONE" before the order exists
  basket,       \* OrderItem.quantity of each order, by sku
  couponOf,     \* Order.userCouponId
  expired,      \* unpaid orders whose expiresAt has passed
  been,         \* the statuses of the lifecycle each order has had so far,
                \* "SHIPPED" among them if it has its row in Shipment
  repaid,       \* orders whose refundedAmount has reached paidAmount
  available,    \* Inventory.available
  locked,       \* Inventory.locked
  coupon,       \* UserCoupon.status
  payment,      \* Payment.status, "SUCCESS" also when it was refunded
  opening,      \* payments whose createPayment has read and not yet written
  queries,      \* Payment.queryCount
  answers,      \* query results on their way back from the channel
  logged,       \* events with a PROCESSED row in PaymentCallbackLog
  revenue,      \* payments with a PAYMENT entry in the merchant ledger
  outbox,       \* orders and news queued for a notification
  supply        \* goods ever put on the shelf (history)

claimVars   == <<been, repaid>>
orderVars   == <<status, basket, couponOf, expired, claimVars>>
stockVars   == <<available, locked, supply>>
paymentVars == <<payment, opening, queries, answers, logged, revenue>>
vars == <<orderVars, stockVars, coupon, paymentVars, outbox>>

News == {"ORDER_PAID", "MERCHANT_ORDER_PAID", "ORDER_SHIPPED"}

TypeOK ==
  /\ status \in [Orders -> OrderStatus]
  /\ basket \in [Orders -> Baskets]
  /\ couponOf \in [Orders -> Coupons \cup {NoCoupon}]
  /\ expired \subseteq {o \in Orders : status[o] = "PENDING_PAYMENT"}
  /\ been \in [Orders -> SUBSET Applicable]
  /\ repaid \subseteq {o \in Orders : status[o] \in Paid}
  /\ available \in [Skus -> Nat]
  /\ locked \in [Skus -> Nat]
  /\ supply \in [Skus -> Int]
  /\ coupon \in [Coupons -> CouponStatus]
  /\ payment \in [Payments -> PaymentStatus]
  /\ opening \subseteq Payments
  /\ queries \in [Payments -> 0 .. MaxQueries]
  /\ answers \in [Payments -> SUBSET Answers]
  /\ logged \subseteq Events
  /\ revenue \subseteq Payments
  /\ outbox \subseteq Orders \X News

Init ==
  /\ status = [o \in Orders |-> "NONE"]
  /\ basket = [o \in Orders |-> [s \in Skus |-> 0]]
  /\ couponOf = [o \in Orders |-> NoCoupon]
  /\ expired = {}
  /\ been = [o \in Orders |-> {}] /\ repaid = {}
  /\ available = InitialStock
  /\ locked = [s \in Skus |-> 0]
  /\ supply = InitialStock
  /\ coupon = [c \in Coupons |-> "AVAILABLE"]
  /\ payment = [p \in Payments |-> "NONE"]
  /\ opening = {}
  /\ queries = [p \in Payments |-> 0]
  /\ answers = [p \in Payments |-> {}]
  /\ logged = {}
  /\ revenue = {}
  /\ outbox = {}

-----------------------------------------------------------------------------
(* Placing orders *)

(* A request is answered from the database once it has produced orders.    *)
Placed(r) == \E s \in Shops : status[<<r, s>>] # "NONE"

(* The shops a basket buys at, and the part of it each order takes.        *)
ShopsIn(b)    == {ShopOf[s] : s \in {t \in Skus : b[t] > 0}}

PartAt(b, sh) == [s \in Skus |-> IF ShopOf[s] = sh THEN b[s] ELSE 0]

(* Variant, to see TypeOK fail: one unit too many may be locked.           *)
CanLockOneMore(s, n) == available[s] >= n - 1

(* lockInventory's conditional update, one line: enough goods on the shelf. *)
CanLock(s, n) == available[s] >= n

(* calculatePricing accepts c at shop sh, and the insert of an order with  *)
(* c passes the unique index on Order.userCouponId.                        *)
CanUse(c, sh) ==
  /\ coupon[c] = "AVAILABLE"
  /\ CouponShop[c] = sh
  /\ \A o \in Orders : couponOf[o] # c

(* The transaction both kinds of request run: one order per shop of the    *)
(* basket, use[sh] the coupon spent at shop sh.  All of it or nothing.     *)
PlaceOrders(r, b, use) ==
  LET new == {r} \X ShopsIn(b)
      spent == {use[sh] : sh \in ShopsIn(b)} \ {NoCoupon}
  IN
  /\ ~Placed(r)
  /\ ShopsIn(b) # {}
  /\ \A s \in Skus : CanLock(s, b[s])
  /\ \A sh \in ShopsIn(b) : use[sh] # NoCoupon => CanUse(use[sh], sh)
  /\ status' = [o \in Orders |-> IF o \in new THEN "PENDING_PAYMENT" ELSE status[o]]
  /\ basket' = [o \in Orders |-> IF o \in new THEN PartAt(b, o[2]) ELSE basket[o]]
  /\ couponOf' = [o \in Orders |-> IF o \in new THEN use[o[2]] ELSE couponOf[o]]
  /\ coupon' = [c \in Coupons |-> IF c \in spent THEN "USED" ELSE coupon[c]]
  /\ available' = [s \in Skus |-> available[s] - b[s]]
  /\ locked' = [s \in Skus |-> locked[s] + b[s]]
  /\ UNCHANGED <<expired, claimVars, supply, paymentVars, outbox>>

Uses == [Shops -> Coupons \cup {NoCoupon}]

CreateCartOrders(r, b, use) == r \in CartRequests /\ PlaceOrders(r, b, use)

(* Buy-now is for one sku, so for one shop. *)
BuyNow(b) == Cardinality({s \in Skus : b[s] > 0}) = 1

CreateOrder(r, b, use) ==
  /\ r \in DirectRequests
  /\ BuyNow(b)
  /\ PlaceOrders(r, b, use)

-----------------------------------------------------------------------------
(* Closing unpaid orders *)

(* Time passes. *)
Expire(o) ==
  /\ status[o] = "PENDING_PAYMENT" /\ o \notin expired
  /\ expired' = expired \cup {o}
  /\ UNCHANGED <<status, basket, couponOf, claimVars, stockVars, coupon,
                 paymentVars, outbox>>

(* Only an unpaid order can be closed, and it is read again in the         *)
(* transaction that closes it.                                             *)

(* Variant, to see LockedIsReserved and StockConserved fail: closing twice *)
(* is not noticed.                                                         *)
ClosableTwice(o) == status[o] \in {"PENDING_PAYMENT", "CANCELLED"}
Closable(o) == status[o] = "PENDING_PAYMENT"

(* Variant, to see CouponSpentOnce fail: the coupon is forgotten.          *)
CouponForgotten(o, c) == coupon[c]

(* A coupon once order o is closed.                                        *)
CouponAfterClose(o, c) ==
  IF c = couponOf[o] /\ coupon[c] = "USED" THEN "AVAILABLE" ELSE coupon[c]

(* Both ways to close: the coupon is given back, the stock put back on the *)
(* shelf.  The order keeps its reference to the coupon.                    *)
Close(o) ==
  /\ Closable(o)
  /\ \A s \in Skus : locked[s] >= basket[o][s]
  /\ status' = [status EXCEPT ![o] = "CANCELLED"]
  /\ coupon' = [c \in Coupons |-> CouponAfterClose(o, c)]
  /\ available' = [s \in Skus |-> available[s] + basket[o][s]]
  /\ locked' = [s \in Skus |-> locked[s] - basket[o][s]]
  /\ expired' = expired \ {o}
  /\ UNCHANGED <<basket, couponOf, claimVars, supply, paymentVars, outbox>>

CancelOrder(o) == Close(o)

(* Variant, to see ExpiredIsResolved fail: an open payment keeps it open.  *)
CloseUnlessPaying(o) ==
  /\ o \in expired
  /\ \A p \in Payments : OrderOf[p] = o => payment[p] # "PENDING"
  /\ Close(o)

CloseExpiredOrder(o) == o \in expired /\ Close(o)

-----------------------------------------------------------------------------
(* Paying *)

(* createPayment's reads: the order can be paid and has no open payment.   *)
(* With one, the transaction returns that one.                             *)
CreatePaymentRead(p) ==
  /\ p \notin opening /\ payment[p] = "NONE"
  /\ status[OrderOf[p]] = "PENDING_PAYMENT" /\ OrderOf[p] \notin expired
  /\ \A q \in Payments : OrderOf[q] = OrderOf[p] => payment[q] # "PENDING"
  /\ opening' = opening \cup {p}
  /\ UNCHANGED <<orderVars, stockVars, coupon, payment, queries, answers,
                 logged, revenue, outbox>>

(* Its insert, on whatever has become of the order.  A row with the same   *)
(* key is returned instead.                                                *)
CreatePaymentWrite(p) ==
  /\ p \in opening
  /\ opening' = opening \ {p}
  /\ payment' = [payment EXCEPT ![p] = IF @ = "NONE" THEN "PENDING" ELSE @]
  /\ UNCHANGED <<orderVars, stockVars, coupon, queries, answers, logged,
                 revenue, outbox>>

Reach(o, to) ==
  /\ status' = [status EXCEPT ![o] = to]
  /\ been' = [been EXCEPT ![o] = @ \cup {to}]

(* The rows a successful payment of order o changes besides its own: the   *)
(* locked goods leave the shop, the sale is booked and the news queued.    *)
Sell(p, o) ==
  /\ status[o] = "PENDING_PAYMENT"
  /\ \A s \in Skus : locked[s] >= basket[o][s]
  /\ Reach(o, "PAID")
  /\ locked' = [s \in Skus |-> locked[s] - basket[o][s]]
  /\ payment' = [payment EXCEPT ![p] = "SUCCESS"]
  /\ revenue' = revenue \cup {p}
  /\ outbox' = outbox \cup {<<o, "ORDER_PAID">>, <<o, "MERCHANT_ORDER_PAID">>}
  /\ expired' = expired \ {o}
  /\ UNCHANGED <<basket, couponOf, repaid, available, supply, coupon>>

(* Pays on the spot, with no provider, and writes the payment as SUCCESS.  *)
MockPay(p) ==
  /\ payment[p] = "NONE"
  /\ OrderOf[p] \notin expired
  /\ Sell(p, OrderOf[p])
  /\ UNCHANGED <<opening, queries, answers, logged>>

(* Variant, to see PaidOnce fail: the second payment of an order is a      *)
(* success like the first.                                                 *)
ApplyEverySuccess(p) ==
  \/ Sell(p, OrderOf[p])
  \/ /\ status[OrderOf[p]] \in Paid
     /\ payment' = [payment EXCEPT ![p] = "SUCCESS"]
     /\ UNCHANGED <<orderVars, stockVars, coupon, revenue, outbox>>

(* applySuccessfulPayment: an order that is already paid for is left as it *)
(* is, and so is p; one that was cancelled, or has an after-sale, throws,  *)
(* which undoes the caller's transaction.                                  *)
ApplySuccessfulPayment(p) ==
  \/ Sell(p, OrderOf[p])
  \/ /\ status[OrderOf[p]] \in Applicable
     /\ UNCHANGED <<orderVars, stockVars, coupon, payment, revenue, outbox>>

MarkFailed(p) == payment' = [payment EXCEPT ![p] = "FAILED"]

(* Variant, to see SuccessIsFinal fail: whatever the payment is by now.    *)
FailUnread(p) == MarkFailed(p)

(* A callback that reports a failure acts on an open payment only.         *)
FailIfPending(p) ==
  IF payment[p] = "PENDING" THEN MarkFailed(p) ELSE UNCHANGED payment

(* processCallback.  The buyer may be declined and try again, and the      *)
(* provider reports each try when it likes: failures and a success of one  *)
(* payment arrive in any order, late and repeated.  A logged event changes *)
(* nothing.                                                                *)
ProcessCallback(e) ==
  LET p == e[1] IN
  /\ payment[p] # "NONE" /\ e \notin logged
  /\ \/ e[2] = "SUCCESS" /\ ApplySuccessfulPayment(p)
     \/ /\ e[2] = "FAILED"
        /\ FailIfPending(p)
        /\ UNCHANGED <<orderVars, stockVars, coupon, revenue, outbox>>
  /\ logged' = logged \cup {e}
  /\ UNCHANGED <<opening, queries, answers>>

(* purgeExpiredData deletes old callback logs, and with them the memory    *)
(* that an event was handled.                                              *)
PurgeCallback(e) ==
  /\ e \in logged
  /\ logged' = logged \ {e}
  /\ UNCHANGED <<orderVars, stockVars, coupon, payment, opening, queries,
                 answers, revenue, outbox>>

(* What the channel's adapter may answer: an outcome, or that the payment  *)
(* is still open, which nobody acts on.                                    *)
ChannelAnswers == {{}, {"FAILED"}, {"SUCCESS"}}

(* reconcilePendingPayments claims a due payment by its queryCount and     *)
(* asks the channel.                                                       *)
QueryPayment(p, heard) ==
  /\ payment[p] = "PENDING" /\ queries[p] < MaxQueries
  /\ heard \in ChannelAnswers
  /\ queries' = [queries EXCEPT ![p] = @ + 1]
  /\ answers' = [answers EXCEPT ![p] = @ \cup heard]
  /\ UNCHANGED <<orderVars, stockVars, coupon, payment, opening, logged,
                 revenue, outbox>>

(* applyPaymentQueryResult acts on a payment that is still PENDING.  A     *)
(* success that throws is undone, and the job goes on.                     *)
ApplyAnswer(p, a) ==
  \/ /\ payment[p] = "PENDING" /\ a = "SUCCESS"
     /\ ApplySuccessfulPayment(p)
  \/ /\ payment[p] = "PENDING" /\ a = "FAILED"
     /\ MarkFailed(p)
     /\ UNCHANGED <<orderVars, stockVars, coupon, revenue, outbox>>
  \/ /\ \/ payment[p] # "PENDING"
        \/ a = "SUCCESS" /\ status[OrderOf[p]] \notin Applicable \cup {"PENDING_PAYMENT"}
     /\ UNCHANGED <<orderVars, stockVars, coupon, payment, revenue, outbox>>

ApplyPaymentQueryResult(p, a) ==
  /\ a \in answers[p]
  /\ answers' = [answers EXCEPT ![p] = @ \ {a}]
  /\ ApplyAnswer(p, a)
  /\ UNCHANGED <<opening, queries, logged>>

-----------------------------------------------------------------------------
(* Fulfilment *)

Move(o, from, to) ==
  /\ status[o] = from
  /\ Reach(o, to)
  /\ UNCHANGED <<basket, couponOf, expired, repaid, stockVars, coupon, paymentVars>>

AcceptOrder(o) == Move(o, "PAID", "PROCESSING") /\ UNCHANGED outbox

(* An order has one shipment (the unique index on Shipment.orderId).       *)
ShipFrom(o, from) ==
  /\ Move(o, from, "SHIPPED")
  /\ "SHIPPED" \notin been[o]
  /\ outbox' = outbox \cup {<<o, "ORDER_SHIPPED">>}

(* Variant, to see ImplementsOrderBook fail: nobody accepted the order.    *)
ShipPaidOrder(o) == ShipFrom(o, "PAID")
ShipOrder(o)     == ShipFrom(o, "PROCESSING")

ConfirmReceipt(o) == Move(o, "SHIPPED", "COMPLETED") /\ UNCHANGED outbox

(* autoReceiveOrders, once ORDER_AUTO_RECEIVE_DAYS have passed. *)
AutoReceiveOrder(o) == Move(o, "SHIPPED", "COMPLETED") /\ UNCHANGED outbox

-----------------------------------------------------------------------------
(* After-sales of a paid order.  AfterSale models their transactions and   *)
(* implements OrderClaims, which has the two steps below for one order.    *)

(* Of the goods of order o, those a claim puts back on the shelf.          *)
GoBack(o, back) ==
  /\ \A s \in Skus : back[s] <= basket[o][s] /\ supply[s] + back[s] <= MaxSupply
  /\ available' = [s \in Skus |-> available[s] + back[s]]
  /\ supply' = [s \in Skus |-> supply[s] + back[s]]

(* A claim holds the order in AFTER_SALE or REFUNDING, or lets it go on    *)
(* where it was when the claim was made, which may be long ago.            *)
ClaimStep(o, to, back) ==
  /\ status[o] \in Paid
  /\ to \in been[o] \cup {"AFTER_SALE", "REFUNDING"}
  /\ status' = [status EXCEPT ![o] = to]
  /\ GoBack(o, back)
  /\ UNCHANGED <<basket, couponOf, expired, claimVars, locked, coupon, paymentVars,
                 outbox>>

(* Variant, to see ImplementsCouponBook fail: the coupon stays spent.      *)
CouponKept(o, verdict) == coupon

(* restoreCoupon: the coupon of o is the buyer's again, if only to expire. *)
CouponAfterRefund(o, verdict) ==
  [c \in Coupons |-> IF c = couponOf[o] THEN verdict ELSE coupon[c]]

(* completeRefund with the last of the money.                              *)
RefundInFull(o, verdict, back) ==
  /\ status[o] \in Paid /\ o \notin repaid
  /\ verdict \in {"AVAILABLE", "EXPIRED"}
  /\ status' = [status EXCEPT ![o] = "REFUNDED"]
  /\ repaid' = repaid \cup {o}
  /\ coupon' = CouponAfterRefund(o, verdict)
  /\ GoBack(o, back)
  /\ UNCHANGED <<basket, couponOf, expired, been, locked, paymentVars, outbox>>

-----------------------------------------------------------------------------

(* An administrator corrects a shelf.  The check is a plain read, but the  *)
(* column is unsigned: the increment itself cannot take it below zero.     *)
AdjustInventory(s, d) ==
  /\ available[s] + d >= 0
  /\ supply[s] + d <= MaxSupply
  /\ available' = [available EXCEPT ![s] = @ + d]
  /\ supply' = [supply EXCEPT ![s] = @ + d]
  /\ UNCHANGED <<orderVars, locked, coupon, paymentVars, outbox>>

OrderStep(o) ==
  \/ Expire(o) \/ CancelOrder(o) \/ CloseExpiredOrder(o)
  \/ AcceptOrder(o) \/ ShipOrder(o) \/ ConfirmReceipt(o) \/ AutoReceiveOrder(o)

AfterSaleStep(o, back) ==
  \/ \E to \in Paid : ClaimStep(o, to, back)
  \/ \E verdict \in CouponStatus : RefundInFull(o, verdict, back)

PaymentStep(p) ==
  \/ CreatePaymentRead(p) \/ CreatePaymentWrite(p) \/ MockPay(p)
  \/ \E heard \in SUBSET Answers : QueryPayment(p, heard)
  \/ \E a \in Answers : ApplyPaymentQueryResult(p, a)

Next ==
  \/ \E r \in Requests, b \in Baskets, use \in Uses :
       CreateCartOrders(r, b, use) \/ CreateOrder(r, b, use)
  \/ \E o \in Orders : OrderStep(o) \/ \E back \in Baskets : AfterSaleStep(o, back)
  \/ \E p \in Payments : PaymentStep(p)
  \/ \E e \in Events : ProcessCallback(e) \/ PurgeCallback(e)
  \/ \E s \in Skus, d \in Corrections : AdjustInventory(s, d)

(* The job in orderTimeoutJob.js comes round every minute for ever, and    *)
(* each of its tasks takes the oldest due rows first: an order that stays  *)
(* due is reached.  Nothing else is promised to happen.                    *)
Fairness ==
  \A o \in Orders : WF_vars(CloseExpiredOrder(o)) /\ WF_vars(AutoReceiveOrder(o))

Spec == Init /\ [][Next]_vars /\ Fairness

-----------------------------------------------------------------------------
(* Properties *)

(* The goods of sku s that orders in one of the given statuses took.       *)
Units(s, in) == {u \in Orders \X (1 .. MaxQuantity) :
                   status[u[1]] \in in /\ u[2] <= basket[u[1]][s]}

(* The locked count of a shelf is what unpaid orders took from it: the     *)
(* errors "locked stock is inconsistent" of cancelling, closing and paying *)
(* are never raised, whichever of them meets which.                        *)
LockedIsReserved ==
  \A s \in Skus : locked[s] = Cardinality(Units(s, {"PENDING_PAYMENT"}))

(* Goods are on the shelf or in an order that was not cancelled, never in  *)
(* two places and never nowhere: closing gives back exactly what placing   *)
(* took, a sale is never given back, and nothing else moves goods than a   *)
(* correction or a return, which count as new supply.                      *)
StockConserved ==
  \A s \in Skus : available[s] + Cardinality(Units(s, Live)) = supply[s]

SettledFor(o) == {p \in Payments : OrderOf[p] = o /\ payment[p] = "SUCCESS"}

(* An order is paid by exactly one of its payments, and by none while it   *)
(* is unpaid or after it was cancelled, whatever callbacks, queries and    *)
(* mock payments race for it (three of the checks of                       *)
(* reconcile-database.js).                                                 *)
PaidOnce ==
  \A o \in Orders :
    /\ status[o] \in Paid <=> SettledFor(o) # {}
    /\ \A p, q \in SettledFor(o) : p = q

(* A coupon is USED exactly while an order spends it that was neither      *)
(* cancelled nor refunded in full, and no second order ever spends it,     *)
(* whatever cancellations, timeouts and refunds give it back.              *)
CouponSpentOnce ==
  \A c \in Coupons :
    /\ coupon[c] = "USED" <=>
         \E o \in Orders : status[o] \in Live /\ o \notin repaid /\ couponOf[o] = c
    /\ \A o, n \in Orders : couponOf[o] = c /\ couponOf[n] = c => o = n

(* A payment that succeeded is never taken back by a late failure, be it   *)
(* the callback of an earlier try of the buyer or the answer of a query    *)
(* sent before it was paid.                                                *)
SuccessIsFinal ==
  [][\A p \in Payments : payment[p] = "SUCCESS" => payment'[p] = "SUCCESS"]_vars

(* An order whose time to pay is over is paid or closed in the end, and    *)
(* its stock with it, even while payments for it stay open.                *)
ExpiredIsResolved ==
  \A o \in Orders : o \in expired ~> status[o] # "PENDING_PAYMENT"

(* What checkout promises its caller, free of payments and locks.          *)
Book == INSTANCE OrderBook WITH free <- available
ImplementsOrderBook == Book!Spec

(* What becomes of the coupons: one order ever carries each, and it comes  *)
(* back when that order is cancelled unpaid or repaid in full, only then.  *)
Stage(o) ==
  CASE o \in repaid                                -> "REPAID"
    [] o \notin repaid /\ status[o] \in Paid       -> "PAID"
    [] status[o] = "PENDING_PAYMENT"               -> "UNPAID"
    [] status[o] \in {"NONE", "CANCELLED"}         -> status[o]

Spending == INSTANCE CouponBook WITH stage <- [o \in Orders |-> Stage(o)]
ImplementsCouponBook == Spending!Spec

(* README: what the provider's callbacks say is what counts.  A payment    *)
(* reported as paid, in a callback the shop accepted, is one the shop      *)
(* knows to be paid.  The code does not keep it for an order's second      *)
(* payment.                                                                *)
AcceptedIsSettled ==
  \A p \in Payments :
    <<p, "SUCCESS">> \in logged => payment[p] = "SUCCESS"
=============================================================================
