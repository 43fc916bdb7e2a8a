------------------------------ MODULE AfterSale ------------------------------
(***************************************************************************)
(* After-sales of one paid order of express-shopping: the buyer's claims,  *)
(* the merchant's review, returned goods, the platform's arbitration, the  *)
(* refunds, the provider's refund callbacks and the reminder job.          *)
(*                                                                         *)
(* Here every transaction is one step: what afterSaleService.js does when  *)
(* no two of its transactions overlap.  AfterSaleRaces lets those overlap  *)
(* that run at MySQL's default isolation, with the operators of this       *)
(* module.  A request that is refused, a transaction that throws and a     *)
(* callback that names no refund, or another amount or channel, change     *)
(* none of this state: they are stuttering steps.                          *)
(***************************************************************************)
EXTENDS Integers, FiniteSets

CONSTANTS
  Claims,      \* (userId, clientRequestId) keys of table AfterSale
  Lines,       \* the order's items
  Bought,      \* Bought[l]: OrderItem.quantity
  MaxQuantity, \* the largest quantity of an item
  Payable,     \* Order.paidAmount
  MaxRetries,  \* bound: retries of one refund
  Overdue      \* bound: the stages whose time limit may pass

Applicable == {"PAID", "PROCESSING", "SHIPPED", "COMPLETED"}
Shipped    == {"SHIPPED", "COMPLETED"}
OrderStatus == Applicable \cup {"AFTER_SALE", "REFUNDING", "REFUNDED"}

(* AfterSaleStatus; "NONE" before the claim is made.  The code never       *)
(* writes APPROVED and CANCELLED.                                          *)
Active     == {"PENDING", "ARBITRATING", "WAITING_RETURN", "RETURNED", "REFUNDING"}
SaleStatus == Active \cup {"NONE", "COMPLETED", "REJECTED"}

(* The stages buildAfterSaleOverdueWhere sets a time limit for. *)
TimedStages == {"PENDING", "WAITING_RETURN", "RETURNED", "REFUNDING"}

RefundStatus == {"NONE", "PENDING", "SUCCESS", "FAILED"}
Amounts   == 0 .. Payable
Attempts  == Claims \X (0 .. MaxRetries)
Outcomes  == {"NONE", "SUCCESS", "FAILED"}

Parts == {u \in [Lines -> 0 .. MaxQuantity] : \A l \in Lines : u[l] <= Bought[l]}

ASSUME AfterSaleAssumption ==
  /\ IsFiniteSet(Claims)
  /\ MaxQuantity \in Nat
  /\ Bought \in [Lines -> 0 .. MaxQuantity]
  /\ Payable \in Nat \ {0}
  /\ MaxRetries \in Nat
  /\ Overdue \subseteq TimedStages

VARIABLES
  order,      \* Order.status
  refunded,   \* Order.refundedAmount
  pay,        \* Payment.status of the order's one settled payment
  coupon,     \* UserCoupon.status of the coupon the order was bought with
  been,       \* the statuses of the lifecycle the order has had so far,
              \* "SHIPPED" among them if it has its row in Shipment
  sale,       \* AfterSale.status
  previous,   \* AfterSale.previousOrderStatus
  units,      \* AfterSaleItem.quantity, by line
  requested,  \* AfterSale.requestedAmount
  approved,   \* AfterSale.approvedAmount, 0 for null
  reminded,   \* claims whose remindedAt is set
  stockBack,  \* claims whose stockReturnedAt is set
  arb,        \* AfterSaleArbitration.status
  refund,     \* Refund.status
  amount,     \* Refund.amount
  attempt,    \* Refund.retryCount
  reversed,   \* claims with a REFUND entry in the merchant ledger
  outbox,     \* news queued for a notification
  restocked,  \* goods put back on the shelf, by line (InventoryLog)
  outcome     \* what the provider did with each attempt (external)

orderVars  == <<order, refunded, pay, coupon>>
saleVars   == <<sale, previous, units, requested, approved, reminded>>
stockVars  == <<stockBack, restocked>>
refundVars == <<refund, amount, attempt, reversed>>
vars == <<orderVars, been, saleVars, stockVars, arb, refundVars, outbox,
          outcome>>

News == {"CREATED", "REVIEWED", "RESOLVED", "SENT_BACK", "RECEIVED", "REFUNDED"}
          \cup TimedStages

TypeOK ==
  /\ order \in OrderStatus
  /\ refunded \in Amounts
  /\ pay \in {"SUCCESS", "PARTIALLY_REFUNDED", "REFUNDED"}
  /\ coupon \in {"USED", "AVAILABLE", "EXPIRED"}
  /\ been \subseteq Applicable
  /\ sale \in [Claims -> SaleStatus]
  /\ previous \in [Claims -> Applicable]
  /\ units \in [Claims -> Parts]
  /\ requested \in [Claims -> Amounts]
  /\ approved \in [Claims -> Amounts]
  /\ reminded \subseteq Claims
  /\ stockBack \subseteq Claims
  /\ arb \in [Claims -> {"NONE", "PENDING", "RESOLVED"}]
  /\ refund \in [Claims -> RefundStatus]
  /\ amount \in [Claims -> Amounts]
  /\ attempt \in [Claims -> 0 .. MaxRetries]
  /\ reversed \subseteq Claims
  /\ outbox \subseteq Claims \X News
  /\ restocked \in [Lines -> Nat]
  /\ outcome \in [Attempts -> Outcomes]

Init ==
  /\ order = "PAID" /\ refunded = 0 /\ pay = "SUCCESS" /\ coupon = "USED"
  /\ been = {"PAID"}
  /\ sale = [c \in Claims |-> "NONE"]
  /\ previous = [c \in Claims |-> "PAID"]
  /\ units = [c \in Claims |-> [l \in Lines |-> 0]]
  /\ requested = [c \in Claims |-> 0] /\ approved = [c \in Claims |-> 0]
  /\ reminded = {} /\ stockBack = {}
  /\ arb = [c \in Claims |-> "NONE"]
  /\ refund = [c \in Claims |-> "NONE"]
  /\ amount = [c \in Claims |-> 0] /\ attempt = [c \in Claims |-> 0]
  /\ reversed = {} /\ outbox = {}
  /\ restocked = [l \in Lines |-> 0]
  /\ outcome = [e \in Attempts |-> "NONE"]

Type(c) == IF previous[c] \in Shipped THEN "RETURN_REFUND" ELSE "REFUND_ONLY"

(* The columns a transaction on claim c reads before it writes.            *)
Row(c) == [sale |-> sale[c], refund |-> refund[c], refunded |-> refunded,
           stockBack |-> c \in stockBack]

(* Rows of the outbox, for the customer or for every member of the shop.   *)
Tell(c, news) == outbox' = outbox \cup {<<c, news>>}
SetSale(c, to) == sale' = [sale EXCEPT ![c] = to]
Remind(c)      == reminded' = reminded \cup {c}
ClearReminder(c) == reminded' = reminded \ {c}

(* Where a claim and its order go when it is granted.                      *)
(* Variant, to see GoodsBeforeMoney fail: the goods are not waited for.    *)
GrantedAtOnce(c) == "REFUNDING"
Granted(c)      == IF Type(c) = "RETURN_REFUND" THEN "WAITING_RETURN" ELSE "REFUNDING"
OrderGranted(c) == IF Type(c) = "RETURN_REFUND" THEN "AFTER_SALE" ELSE "REFUNDING"

(* Where the order goes when the claim is over and money is left.          *)
(* Variant, to see HeldForAClaim fail: nobody lets the order go.           *)
ReleasedAsHeld(c) == order
Released(c) == previous[c]

-----------------------------------------------------------------------------
(* Claims *)

(* Goods of line l in the claims of set C. *)
Goods(l, C) == {g \in C \X (1 .. MaxQuantity) : g[2] <= units[g[1]][l]}
Counted(l)  == Cardinality(Goods(l, {c \in Claims : sale[c] \notin {"NONE", "REJECTED"}}))

(* A claim for part u of the order, worth n by calculateAfterSaleAmount:   *)
(* any positive amount not above what is left of the payment.              *)
CreateAfterSale(c, u, n) ==
  /\ sale[c] = "NONE"
  /\ order \in Applicable
  /\ \A d \in Claims : sale[d] \notin Active
  /\ \E l \in Lines : u[l] > 0
  /\ \A l \in Lines : u[l] > 0 => Counted(l) + u[l] <= Bought[l]
  /\ n \in 1 .. Payable - refunded
  /\ SetSale(c, "PENDING")
  /\ previous' = [previous EXCEPT ![c] = order]
  /\ units' = [units EXCEPT ![c] = u]
  /\ requested' = [requested EXCEPT ![c] = n]
  /\ order' = "AFTER_SALE"
  /\ Tell(c, "CREATED")
  /\ UNCHANGED <<refunded, pay, coupon, been, approved, reminded, stockVars,
                 arb, refundVars, outcome>>

(* Variant, to see CompletedIffRefunded fail: a finished claim is reviewed *)
(* again.                                                                  *)
ReviewableAgain(row) == row.sale \in {"PENDING", "COMPLETED"}
Reviewable(row) == row.sale = "PENDING"

(* The merchant grants n of the requested amount, or with n = 0 rejects.   *)
ReviewAfterSale(c, n, row) ==
  /\ Reviewable(row)
  /\ n \in 0 .. requested[c]
  /\ IF n = 0
     THEN /\ SetSale(c, "REJECTED")
          /\ order' = Released(c)
          /\ UNCHANGED <<approved, reminded>>
     ELSE /\ SetSale(c, Granted(c))
          /\ order' = OrderGranted(c)
          /\ approved' = [approved EXCEPT ![c] = n]
          /\ ClearReminder(c)
  /\ Tell(c, "REVIEWED")
  /\ UNCHANGED <<refunded, pay, coupon, been, previous, units, requested,
                 stockVars, arb, refundVars, outcome>>

(* Variant, to see StageIsReminded fail: the reminder of the stage before  *)
(* is not cleared.                                                         *)
SubmitReturnShipmentReminded(c) ==
  /\ sale[c] = "WAITING_RETURN" /\ Type(c) = "RETURN_REFUND"
  /\ SetSale(c, "RETURNED")
  /\ Tell(c, "SENT_BACK")
  /\ UNCHANGED <<orderVars, been, previous, units, requested, approved,
                 reminded, stockVars, arb, refundVars, outcome>>

SubmitReturnShipment(c) ==
  /\ sale[c] = "WAITING_RETURN" /\ Type(c) = "RETURN_REFUND"
  /\ SetSale(c, "RETURNED")
  /\ ClearReminder(c)
  /\ Tell(c, "SENT_BACK")
  /\ UNCHANGED <<orderVars, been, previous, units, requested, approved,
                 stockVars, arb, refundVars, outcome>>

(* Variant, to see ReturnedOnce fail: the claim is not marked.             *)
ReturnStockUnmarked(c, row) ==
  /\ UNCHANGED stockBack
  /\ restocked' = IF row.stockBack THEN restocked
                  ELSE [l \in Lines |-> restocked[l] + units[c][l]]

(* Puts the goods of claim c back on the shelf unless row says they are.   *)
ReturnStock(c, row) ==
  /\ stockBack' = stockBack \cup {c}
  /\ restocked' = IF row.stockBack THEN restocked
                  ELSE [l \in Lines |-> restocked[l] + units[c][l]]

(* The merchant has the goods back. *)
ConfirmReturn(c, row) ==
  /\ row.sale = "RETURNED"
  /\ ReturnStock(c, row)
  /\ SetSale(c, "REFUNDING")
  /\ ClearReminder(c)
  /\ order' = "REFUNDING"
  /\ Tell(c, "RECEIVED")
  /\ UNCHANGED <<refunded, pay, coupon, been, previous, units, requested,
                 approved, arb, refundVars, outcome>>

-----------------------------------------------------------------------------
(* Arbitration *)

(* The buyer turns to the platform: after a rejection at any later time,   *)
(* or when the merchant was reminded and still has not answered.           *)
RequestArbitration(c) ==
  /\ arb[c] = "NONE"
  /\ sale[c] = "REJECTED" \/ (sale[c] = "PENDING" /\ c \in reminded)
  /\ SetSale(c, "ARBITRATING")
  /\ ClearReminder(c)
  /\ arb' = [arb EXCEPT ![c] = "PENDING"]
  /\ order' = "AFTER_SALE"
  /\ UNCHANGED <<refunded, pay, coupon, been, previous, units, requested,
                 approved, stockVars, refundVars, outbox, outcome>>

(* Variant, to see ArbitrationIsOpen fail: the case is not closed.         *)
VerdictOpen(c) == arb' = arb
Verdict(c)     == arb' = [arb EXCEPT ![c] = "RESOLVED"]

(* The platform grants n, or with n = 0 rejects.                           *)
ResolveArbitration(c, n) ==
  /\ arb[c] = "PENDING" /\ sale[c] = "ARBITRATING"
  /\ n \in 0 .. requested[c]
  /\ Verdict(c)
  /\ SetSale(c, IF n = 0 THEN "REJECTED" ELSE Granted(c))
  /\ order' = IF n = 0 THEN Released(c) ELSE OrderGranted(c)
  /\ approved' = [approved EXCEPT ![c] = n]
  /\ Tell(c, "RESOLVED")
  /\ UNCHANGED <<refunded, pay, coupon, been, previous, units, requested,
                 reminded, stockVars, refundVars, outcome>>

-----------------------------------------------------------------------------
(* Refunds *)

(* One refund per claim (the unique index on Refund.afterSaleId), within   *)
(* what is left of a payment that can still be refunded.                   *)
Refundable(c) ==
  /\ sale[c] = "REFUNDING" /\ approved[c] > 0
  /\ refund[c] = "NONE"
  /\ pay \in {"SUCCESS", "PARTIALLY_REFUNDED"}
  /\ refunded + approved[c] <= Payable

(* Variant, to see OpenRefundIsExpected fail: what was asked for is paid.  *)
AmountRequested(c) == requested[c]
AmountToRefund(c) == approved[c]

CreateRefund(c) ==
  /\ Refundable(c)
  /\ refund' = [refund EXCEPT ![c] = "PENDING"]
  /\ amount' = [amount EXCEPT ![c] = AmountToRefund(c)]
  /\ ClearReminder(c)
  /\ UNCHANGED <<orderVars, been, sale, previous, units, requested, approved,
                 stockVars, arb, attempt, reversed, outbox, outcome>>

Retriable(row) == row.refund = "FAILED" /\ row.sale = "REFUNDING"

(* A failed refund is sent to the provider again. *)
RetryRefund(c, row) ==
  /\ Retriable(row)
  /\ attempt[c] < MaxRetries
  /\ refund' = [refund EXCEPT ![c] = "PENDING"]
  /\ attempt' = [attempt EXCEPT ![c] = @ + 1]
  /\ ClearReminder(c)
  /\ UNCHANGED <<orderVars, been, sale, previous, units, requested, approved,
                 stockVars, arb, amount, reversed, outbox, outcome>>

(* Variant, to see PaymentReflectsRefund and ImplementsOrderClaims fail:   *)
(* the claim is looked at, not the order.                                  *)
FullByClaim(n, row) == n = Payable
Full(n, row)        == row.refunded + n = Payable

(* Variant, to see TypeOK fail: the sum is not compared with the payment.  *)
CapForgotten(n, row) == TRUE
WithinPayment(n, row) == row.refunded + n <= Payable

(* Variant, to see RefundsAddUp fail: earlier refunds are forgotten.       *)
RefundedNow(n, row)   == n
RefundedAfter(n, row) == row.refunded + n

(* completeRefund: the refund of n of claim c has gone through.            *)
CompleteRefund(c, n, row) ==
  /\ WithinPayment(n, row)
  /\ IF Type(c) = "REFUND_ONLY" THEN ReturnStock(c, row) ELSE UNCHANGED stockVars
  /\ refund' = [refund EXCEPT ![c] = "SUCCESS"]
  /\ amount' = [amount EXCEPT ![c] = n]
  /\ refunded' = RefundedAfter(n, row)
  /\ SetSale(c, "COMPLETED")
  /\ reversed' = reversed \cup {c}
  /\ Tell(c, "REFUNDED")
  /\ IF Full(n, row)
     THEN /\ pay' = "REFUNDED" /\ order' = "REFUNDED"
          /\ coupon' \in {"AVAILABLE", "EXPIRED"}
     ELSE /\ pay' = "PARTIALLY_REFUNDED" /\ order' = Released(c)
          /\ UNCHANGED coupon
  /\ UNCHANGED <<been, previous, units, requested, approved, reminded, arb,
                 attempt, outcome>>

(* Refunds on the spot, with no provider. *)
MockRefund(c) ==
  /\ Refundable(c)
  /\ CompleteRefund(c, approved[c], Row(c))

(* The provider carries out an attempt it was sent, or fails to, be it     *)
(* that the refund was tried again since.                                  *)
SettleRefund(e, result) ==
  LET c == e[1] IN
  /\ e[2] <= attempt[c]
  /\ refund[c] \in {"PENDING", "FAILED"} \/ attempt[c] > 0
  /\ outcome[e] = "NONE"
  /\ result \in {"SUCCESS", "FAILED"}
  /\ outcome' = [outcome EXCEPT ![e] = result]
  /\ UNCHANGED <<orderVars, been, saleVars, stockVars, arb, refundVars,
                 outbox>>

(* Variant, to see RefundIsFinal fail: every notice is acted on.           *)
ExpectedAlways(row) == TRUE
Expected(row) == row.refund = "PENDING" /\ row.sale = "REFUNDING"

(* processRefundCallback for a notice of what became of attempt e.  The    *)
(* provider may send any number of them, at any time and in any order,     *)
(* each under an eventId of its own; a notice names the refund, not the    *)
(* attempt.  One whose eventId is logged already, whose refund is not      *)
(* PENDING or whose claim is not REFUNDING changes no more than its row of *)
(* RefundCallbackLog: it is a stuttering step.                             *)
ProcessRefundCallback(e, row) ==
  LET c == e[1] IN
  /\ Expected(row)
  /\ \/ /\ outcome[e] = "SUCCESS"
        /\ CompleteRefund(c, amount[c], row)
     \/ /\ outcome[e] = "FAILED"
        /\ refund' = [refund EXCEPT ![c] = "FAILED"]
        /\ UNCHANGED <<orderVars, been, saleVars, stockVars, arb, amount,
                       attempt, reversed, outbox, outcome>>

-----------------------------------------------------------------------------
(* The reminder job and fulfilment *)

(* A claim that stays in a timed stage becomes overdue. *)
RemindOverdueAfterSale(c) ==
  /\ sale[c] \in Overdue /\ c \notin reminded
  /\ Remind(c)
  /\ Tell(c, sale[c])
  /\ UNCHANGED <<orderVars, been, sale, previous, units, requested, approved,
                 stockVars, arb, refundVars, outcome>>

Fulfil(from, to) ==
  /\ order = from
  /\ order' = to /\ been' = been \cup {to}
  /\ UNCHANGED <<refunded, pay, coupon, saleVars, stockVars, arb, refundVars,
                 outbox, outcome>>

AcceptOrder == Fulfil("PAID", "PROCESSING")

(* An order has one shipment (the unique index on Shipment.orderId). *)
ShipOrder == Fulfil("PROCESSING", "SHIPPED") /\ "SHIPPED" \notin been

(* By the buyer, or by autoReceiveOrders in time. *)
ReceiveOrder == Fulfil("SHIPPED", "COMPLETED")

-----------------------------------------------------------------------------

(* What runs at Serializable, or guards its write by a condition.          *)
SerialStep(c) ==
  \/ \E u \in Parts, n \in Amounts : CreateAfterSale(c, u, n)
  \/ SubmitReturnShipment(c)
  \/ RequestArbitration(c)
  \/ \E n \in Amounts : ResolveArbitration(c, n)
  \/ CreateRefund(c) \/ MockRefund(c)
  \/ \E e \in Attempts, result \in Outcomes : e[1] = c /\ SettleRefund(e, result)
  \/ RemindOverdueAfterSale(c)

OtherStep == AcceptOrder \/ ShipOrder \/ ReceiveOrder

(* What runs at the default isolation, on rows nobody else is writing.     *)
DefaultStep(c) ==
  \/ \E n \in Amounts : ReviewAfterSale(c, n, Row(c))
  \/ ConfirmReturn(c, Row(c))
  \/ RetryRefund(c, Row(c))
  \/ \E e \in Attempts : e[1] = c /\ ProcessRefundCallback(e, Row(c))

Next == OtherStep \/ \E c \in Claims : SerialStep(c) \/ DefaultStep(c)

(* The reminder is one of the tasks orderTimeoutJob.js runs every minute;  *)
(* a claim that stays in a timed stage is overdue in the end.              *)
Fairness == \A c \in Claims : WF_vars(RemindOverdueAfterSale(c))

Spec == Init /\ [][Next]_vars /\ Fairness

-----------------------------------------------------------------------------
(* Properties.  Under Spec no two transactions overlap; AfterSaleRaces says *)
(* which of them survive when they do.                                     *)

(* The cents of the refunds that went through. *)
Cents == {x \in Claims \X (1 .. Payable) : refund[x[1]] = "SUCCESS" /\ x[2] <= amount[x[1]]}

(* What the order says was refunded is the sum of the refunds that went    *)
(* through, and never more than was paid (two of the checks of             *)
(* reconcile-database.js).                                                 *)
RefundsAddUp == refunded = Cardinality(Cents) /\ refunded <= Payable

(* A claim is COMPLETED exactly when its refund went through, and exactly  *)
(* then the merchant's ledger has the reversal (three more checks of       *)
(* reconcile-database.js).                                                 *)
CompletedIffRefunded ==
  \A c \in Claims :
    /\ sale[c] = "COMPLETED" <=> refund[c] = "SUCCESS"
    /\ refund[c] = "SUCCESS" <=> c \in reversed

(* A refund under way keeps its claim in REFUNDING and pays what was       *)
(* granted: a callback that finds its refund open finds the claim ready.   *)
OpenRefundIsExpected ==
  \A c \in Claims :
    refund[c] \in {"PENDING", "FAILED"} =>
      sale[c] = "REFUNDING" /\ amount[c] = approved[c]

(* The payment's status says how much of it was refunded. *)
PaymentReflectsRefund ==
  /\ pay = "SUCCESS" <=> refunded = 0
  /\ pay = "REFUNDED" <=> refunded = Payable

(* The coupon comes back exactly when all the money did. *)
CouponBackIffRefunded == coupon # "USED" <=> refunded = Payable

(* While transactions do not overlap, the platform has a case to decide    *)
(* exactly while the claim waits for it, also when the buyer asks again    *)
(* after a verdict or after the merchant answered at last.  (A review that *)
(* read the claim before the request leaves the case behind: see           *)
(* AfterSaleRaces.)                                                        *)
ArbitrationIsOpen ==
  \A c \in Claims : arb[c] = "PENDING" <=> sale[c] = "ARBITRATING"

(* Goods come back to the shelf once for each claim whose stockReturnedAt  *)
(* is set, by whichever of its two ways.                                   *)
ReturnedOnce == \A l \in Lines : restocked[l] = Cardinality(Goods(l, stockBack))

(* No money goes back before the goods are booked back, even when reviews, *)
(* confirmations, retries and callbacks overlap.                           *)
GoodsBeforeMoney == \A c \in Claims : sale[c] = "COMPLETED" => c \in stockBack

(* An order is held in AFTER_SALE or REFUNDING only for a claim that still *)
(* runs: none is left there with nobody to let it go.                      *)
HeldForAClaim ==
  order \in {"AFTER_SALE", "REFUNDING"} => \E c \in Claims : sale[c] \in Active

(* A refund that went through stays so, and its claim COMPLETED, whatever  *)
(* notices still come: repeated ones, and late ones of attempts that       *)
(* failed or were retried since; and no second review, verdict or retry    *)
(* takes it up again (while transactions do not overlap).                  *)
RefundIsFinal ==
  [][\A c \in Claims :
       refund[c] = "SUCCESS" => refund'[c] = "SUCCESS" /\ sale'[c] = "COMPLETED"]_vars

(* docs/api.md: each stage with a time limit has its own reminder.  Whoever *)
(* must act is told, or acts before, and a reminder of the stage before    *)
(* does not count.  One of an earlier visit to the stage does: the key of  *)
(* the notification is the claim and the stage, so the code enqueues none  *)
(* for a stage that is entered again.                                      *)
StageIsReminded ==
  \A c \in Claims : \A stage \in Overdue :
    sale[c] = stage ~> (sale[c] # stage \/ <<c, stage>> \in outbox)

(* What the rest of the shop sees of all this: claims hold the order or    *)
(* send it back to where it was, never take it on, and give all its money  *)
(* back at most once, and its coupon exactly then.                         *)
Seen == INSTANCE OrderClaims WITH repaid <- refunded = Payable
ImplementsOrderClaims == Seen!Spec

(* afterSaleService.js: no more goods are claimed back than were bought.   *)
ReturnedWithinBought == \A l \in Lines : restocked[l] <= Bought[l]
=============================================================================
