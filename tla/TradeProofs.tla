----------------------------- MODULE TradeProofs -----------------------------
(* Theorems about Trade, for every value of its constants. *)
EXTENDS Trade, FiniteSetTheorems, TLAPS

(* The empty shop is well typed.                                           *)
LEMMA InitTypeOK == Init => TypeOK
  BY TradeAssumption
     DEF Init, TypeOK, Baskets, Quantities, OrderStatus, PaymentStatus, CouponStatus

(* A shop's part of a basket is a basket.                                  *)
LEMMA PartIsBasket ==
  ASSUME NEW b \in Baskets, NEW sh \in Shops
  PROVE  PartAt(b, sh) \in Baskets
  BY TradeAssumption DEF PartAt, Baskets, Quantities

(* The orders a request would place do not exist before it is served.      *)
LEMMA NewOrders ==
  ASSUME NEW r \in Requests, NEW b \in Baskets, ~Placed(r)
  PROVE  /\ ShopsIn(b) \subseteq Shops
         /\ {r} \X ShopsIn(b) \subseteq Orders
         /\ \A o \in {r} \X ShopsIn(b) :
              status[o] = "NONE" /\ o[2] \in ShopsIn(b) /\ o = <<r, o[2]>>
<1>1. ShopsIn(b) \subseteq Shops
  BY TradeAssumption DEF ShopsIn
<1>2. ASSUME NEW o \in {r} \X ShopsIn(b)
      PROVE  o[2] \in ShopsIn(b) /\ o = <<r, o[2]>>
  OBVIOUS
<1>3. ASSUME NEW sh \in ShopsIn(b)
      PROVE  status[<<r, sh>>] = "NONE" /\ <<r, sh>> \in Orders
  BY <1>1 DEF Placed, Orders
<1>4. QED
  BY <1>1, <1>2, <1>3

(* Placing orders keeps the types: what is locked was on the shelf.        *)
LEMMA PlaceTyped ==
  ASSUME TypeOK, NEW r \in Requests, NEW b \in Baskets, NEW use \in Uses,
         PlaceOrders(r, b, use)
  PROVE  TypeOK'
<1>1. /\ status' \in [Orders -> OrderStatus]
      /\ couponOf' \in [Orders -> Coupons \cup {NoCoupon}]
      /\ coupon' \in [Coupons -> CouponStatus]
  BY DEF TypeOK, PlaceOrders, OrderStatus, Live, CouponStatus, Uses, Orders
<1>2. basket' \in [Orders -> Baskets]
  BY PartIsBasket DEF TypeOK, PlaceOrders, Orders
<1>3. available' \in [Skus -> Nat] /\ locked' \in [Skus -> Nat]
  BY TradeAssumption DEF TypeOK, PlaceOrders, CanLock, Baskets, Quantities
<1>4. /\ expired' \subseteq {o \in Orders : status'[o] = "PENDING_PAYMENT"}
      /\ repaid' \subseteq {o \in Orders : status'[o] \in Paid}
  BY NewOrders DEF TypeOK, PlaceOrders, claimVars, Paid, Applicable
<1>5. QED
  BY <1>1, <1>2, <1>3, <1>4 DEF TypeOK, PlaceOrders, claimVars, paymentVars

(* Closing an order keeps the types: what is given back was locked.        *)
LEMMA CloseTyped ==
  ASSUME TypeOK, NEW o \in Orders, Close(o)
  PROVE  TypeOK'
<1>1. available' \in [Skus -> Nat] /\ locked' \in [Skus -> Nat]
  BY DEF TypeOK, Close, Baskets, Quantities
<1>2. status' \in [Orders -> OrderStatus]
  BY DEF TypeOK, Close, OrderStatus, Live
<1>3. coupon' \in [Coupons -> CouponStatus]
  BY DEF TypeOK, Close, CouponAfterClose, CouponStatus
<1>4. /\ expired' \subseteq {n \in Orders : status'[n] = "PENDING_PAYMENT"}
      /\ repaid' \subseteq {n \in Orders : status'[n] \in Paid}
  BY DEF TypeOK, Close, Closable, claimVars, Paid, Applicable
<1>5. QED
  BY <1>1, <1>2, <1>3, <1>4 DEF TypeOK, Close, claimVars, paymentVars

(* A settled payment keeps the types of the rows it writes.                *)
LEMMA SellTyped ==
  ASSUME TypeOK, NEW p \in Payments, NEW o \in Orders, Sell(p, o)
  PROVE  /\ status' \in [Orders -> OrderStatus]
         /\ basket' \in [Orders -> Baskets]
         /\ couponOf' \in [Orders -> Coupons \cup {NoCoupon}]
         /\ expired' \subseteq {n \in Orders : status'[n] = "PENDING_PAYMENT"}
         /\ been' \in [Orders -> SUBSET Applicable]
         /\ repaid' \subseteq {n \in Orders : status'[n] \in Paid}
         /\ available' \in [Skus -> Nat]
         /\ locked' \in [Skus -> Nat]
         /\ supply' \in [Skus -> Int]
         /\ coupon' \in [Coupons -> CouponStatus]
         /\ payment' \in [Payments -> PaymentStatus]
         /\ revenue' \subseteq Payments
         /\ outbox' \subseteq Orders \X News
<1>1. locked' \in [Skus -> Nat]
  BY DEF TypeOK, Sell, Baskets, Quantities
<1>2. /\ status' \in [Orders -> OrderStatus]
      /\ been' \in [Orders -> SUBSET Applicable]
  BY DEF TypeOK, Sell, Reach, OrderStatus, Live, Paid, Applicable
<1>3. payment' \in [Payments -> PaymentStatus]
  BY DEF TypeOK, Sell, PaymentStatus
<1>4. outbox' \subseteq Orders \X News
  BY DEF TypeOK, Sell, News
<1>5. /\ expired' \subseteq {n \in Orders : status'[n] = "PENDING_PAYMENT"}
      /\ repaid' \subseteq {n \in Orders : status'[n] \in Paid}
  BY DEF TypeOK, Sell, Reach, Paid, Applicable
<1>6. QED
  BY <1>1, <1>2, <1>3, <1>4, <1>5 DEF TypeOK, Sell

(* A step along the fulfilment keeps the types.                            *)
LEMMA MoveTyped ==
  ASSUME TypeOK, NEW o \in Orders, NEW from \in Applicable, NEW to \in Applicable,
         Move(o, from, to), outbox' \subseteq Orders \X News
  PROVE  TypeOK'
<1>1. /\ status' \in [Orders -> OrderStatus]
      /\ been' \in [Orders -> SUBSET Applicable]
  BY DEF TypeOK, Move, Reach, OrderStatus, Live, Paid
<1>2. /\ expired' \subseteq {n \in Orders : status'[n] = "PENDING_PAYMENT"}
      /\ repaid' \subseteq {n \in Orders : status'[n] \in Paid}
  BY DEF TypeOK, Move, Reach, Paid, Applicable
<1>3. QED
  BY <1>1, <1>2 DEF TypeOK, Move, stockVars, paymentVars

(* An after-sale leaves its order one that was paid for, takes back goods  *)
(* of it, and touches no other order.                                      *)
LEMMA AfterSaleEffect ==
  ASSUME TypeOK, NEW o \in Orders, NEW back \in Baskets, AfterSaleStep(o, back)
  PROVE  /\ status[o] \in Paid /\ status'[o] \in Paid
         /\ \A n \in Orders \ {o} : status'[n] = status[n]
         /\ status' \in [Orders -> OrderStatus]
         /\ GoBack(o, back)
         /\ UNCHANGED <<basket, couponOf, expired, been, locked, paymentVars, outbox>>
<1>1. ASSUME NEW to \in Paid, ClaimStep(o, to, back)
      PROVE  /\ status[o] \in Paid /\ status' = [status EXCEPT ![o] = to]
             /\ GoBack(o, back)
             /\ UNCHANGED <<basket, couponOf, expired, been, locked, paymentVars,
                            outbox>>
  BY <1>1 DEF ClaimStep, claimVars
<1>2. ASSUME NEW verdict, RefundInFull(o, verdict, back)
      PROVE  /\ status[o] \in Paid /\ status' = [status EXCEPT ![o] = "REFUNDED"]
             /\ GoBack(o, back)
             /\ UNCHANGED <<basket, couponOf, expired, been, locked, paymentVars,
                            outbox>>
  BY <1>2 DEF RefundInFull
<1>3. "REFUNDED" \in Paid /\ Paid \subseteq OrderStatus
  BY DEF Paid, OrderStatus, Live
<1>4. PICK to \in Paid : /\ status[o] \in Paid /\ status' = [status EXCEPT ![o] = to]
                         /\ GoBack(o, back)
                         /\ UNCHANGED <<basket, couponOf, expired, been, locked,
                                        paymentVars, outbox>>
  BY <1>1, <1>2, <1>3 DEF AfterSaleStep
<1>5. QED
  BY <1>3, <1>4 DEF TypeOK

(* An after-sale keeps the types.                                          *)
LEMMA AfterSaleTyped ==
  ASSUME TypeOK, NEW o \in Orders, NEW back \in Baskets, AfterSaleStep(o, back)
  PROVE  TypeOK'
<1>1. /\ status[o] \in Paid /\ status'[o] \in Paid
      /\ \A n \in Orders \ {o} : status'[n] = status[n]
      /\ status' \in [Orders -> OrderStatus]
      /\ GoBack(o, back)
      /\ UNCHANGED <<basket, couponOf, expired, been, locked, paymentVars, outbox>>
  BY AfterSaleEffect
<1>2. available' \in [Skus -> Nat] /\ supply' \in [Skus -> Int]
  BY <1>1, TradeAssumption DEF GoBack, TypeOK, Baskets, Quantities
<1>3. /\ repaid' \subseteq repaid \cup {o}
      /\ coupon' \in [Coupons -> CouponStatus]
  BY DEF AfterSaleStep, ClaimStep, RefundInFull, CouponAfterRefund, claimVars, TypeOK
<1>4. /\ expired' \subseteq {n \in Orders : status'[n] = "PENDING_PAYMENT"}
      /\ repaid' \subseteq {n \in Orders : status'[n] \in Paid}
  BY <1>1, <1>3 DEF TypeOK, Paid, Applicable
<1>5. QED
  BY <1>1, <1>2, <1>3, <1>4 DEF TypeOK, paymentVars

(* The types of the variables hold in every reachable state; in particular *)
(* no shelf and no locked count ever goes below zero.                      *)
LEMMA StepTypeOK == TypeOK /\ [Next]_vars => TypeOK'
<1> SUFFICES ASSUME TypeOK, [Next]_vars PROVE TypeOK'
  OBVIOUS
<1> USE TradeAssumption
<1>1. ASSUME NEW r \in Requests, NEW b \in Baskets, NEW use \in Uses,
             CreateCartOrders(r, b, use) \/ CreateOrder(r, b, use)
      PROVE  TypeOK'
  BY <1>1, PlaceTyped DEF CreateCartOrders, CreateOrder
<1>2. ASSUME NEW o \in Orders, OrderStep(o) PROVE TypeOK'
  <2>1. CASE Expire(o)
    BY <2>1 DEF Expire, TypeOK, claimVars, stockVars, paymentVars
  <2>2. CASE CancelOrder(o) \/ CloseExpiredOrder(o)
    BY <2>2, CloseTyped DEF CancelOrder, CloseExpiredOrder
  <2>3. CASE AcceptOrder(o) \/ ConfirmReceipt(o) \/ AutoReceiveOrder(o)
    <3>1. outbox' \subseteq Orders \X News
      BY <2>3 DEF AcceptOrder, ConfirmReceipt, AutoReceiveOrder, TypeOK
    <3>2. QED
      BY <2>3, <3>1, MoveTyped
         DEF AcceptOrder, ConfirmReceipt, AutoReceiveOrder, Applicable
  <2>4. CASE ShipOrder(o)
    <3>1. outbox' \subseteq Orders \X News
      BY <2>4 DEF ShipOrder, ShipFrom, TypeOK, News
    <3>2. QED
      BY <2>4, <3>1, MoveTyped DEF ShipOrder, ShipFrom, Applicable
  <2>5. QED
    BY <1>2, <2>1, <2>2, <2>3, <2>4 DEF OrderStep
<1>3. ASSUME NEW p \in Payments, PaymentStep(p) PROVE TypeOK'
  <2> OrderOf[p] \in Orders
    OBVIOUS
  <2>1. CASE CreatePaymentRead(p)
    BY <2>1 DEF CreatePaymentRead, TypeOK, orderVars, claimVars, stockVars
  <2>2. CASE CreatePaymentWrite(p)
    BY <2>2 DEF CreatePaymentWrite, TypeOK, orderVars, claimVars, stockVars, PaymentStatus
  <2>3. CASE MockPay(p)
    BY <2>3, SellTyped DEF MockPay, TypeOK
  <2>5. ASSUME NEW heard \in SUBSET Answers, QueryPayment(p, heard) PROVE TypeOK'
    BY <2>5 DEF QueryPayment, TypeOK, orderVars, claimVars, stockVars
  <2>6. ASSUME NEW a \in Answers, ApplyPaymentQueryResult(p, a) PROVE TypeOK'
    <3>1. answers' \in [Payments -> SUBSET Answers]
      BY <2>6 DEF ApplyPaymentQueryResult, TypeOK
    <3>2. CASE Sell(p, OrderOf[p])
      BY <2>6, <3>1, <3>2, SellTyped DEF ApplyPaymentQueryResult, TypeOK
    <3>3. CASE ~Sell(p, OrderOf[p])
      BY <2>6, <3>1, <3>3
         DEF ApplyPaymentQueryResult, ApplyAnswer, ApplySuccessfulPayment, FailIfPending, MarkFailed,
             TypeOK, orderVars, claimVars, stockVars, PaymentStatus
    <3>4. QED
      BY <3>2, <3>3
  <2>7. QED
    BY <1>3, <2>1, <2>2, <2>3, <2>5, <2>6 DEF PaymentStep
<1>4. ASSUME NEW e \in Events, ProcessCallback(e) PROVE TypeOK'
  <2> e[1] \in Payments /\ OrderOf[e[1]] \in Orders
    BY TradeAssumption
  <2>1. logged' \subseteq Events
    BY <1>4 DEF ProcessCallback, TypeOK
  <2>2. CASE Sell(e[1], OrderOf[e[1]])
    BY <1>4, <2>1, <2>2, SellTyped DEF ProcessCallback, TypeOK
  <2>3. CASE ~Sell(e[1], OrderOf[e[1]])
    BY <1>4, <2>1, <2>3
       DEF ProcessCallback, ApplySuccessfulPayment, FailIfPending, MarkFailed, TypeOK, orderVars,
           claimVars, stockVars, PaymentStatus
  <2>4. QED
    BY <2>2, <2>3
<1>5. ASSUME NEW e \in Events, PurgeCallback(e) PROVE TypeOK'
  BY <1>5 DEF PurgeCallback, TypeOK, orderVars, claimVars, stockVars
<1>6. ASSUME NEW s \in Skus, NEW d \in Corrections, AdjustInventory(s, d) PROVE TypeOK'
  <2>1. available' \in [Skus -> Nat] /\ supply' \in [Skus -> Int]
    BY <1>6 DEF AdjustInventory, TypeOK
  <2>2. QED
    BY <1>6, <2>1 DEF AdjustInventory, TypeOK, orderVars, claimVars, paymentVars
<1>7. CASE UNCHANGED vars
  BY <1>7 DEF vars, orderVars, claimVars, stockVars, paymentVars, TypeOK
<1>8. ASSUME NEW o \in Orders, NEW back \in Baskets, AfterSaleStep(o, back)
      PROVE  TypeOK'
  BY <1>8, AfterSaleTyped
<1>9. QED
  BY <1>1, <1>2, <1>3, <1>4, <1>5, <1>6, <1>7, <1>8 DEF Next

(* In every reachable state the columns hold what the schema lets them;    *)
(* no shelf and no locked count is ever negative.                          *)
THEOREM TypeCorrect == Spec => []TypeOK
  BY InitTypeOK, StepTypeOK, PTL DEF Spec

-----------------------------------------------------------------------------
(* Payments *)

(* Steps that settle no payment, and pay for or un-pay no order.           *)
LEMMA PaidOnceKept ==
  ASSUME PaidOnce,
         \A o \in Orders : status'[o] \in Paid <=> status[o] \in Paid,
         \A p \in Payments : payment'[p] = "SUCCESS" <=> payment[p] = "SUCCESS"
  PROVE  PaidOnce'
  BY DEF PaidOnce, SettledFor

(* The payment that settles an order is the only one that does.            *)
LEMMA SellPaysOnce ==
  ASSUME TypeOK, PaidOnce, NEW p \in Payments, Sell(p, OrderOf[p])
  PROVE  PaidOnce'
<1> DEFINE o == OrderOf[p]
<1>1. o \in Orders
  BY TradeAssumption
<1>2. SettledFor(o) = {}
  BY <1>1 DEF PaidOnce, Sell, Paid, Applicable
<1>3. /\ status'[o] = "PAID"
      /\ \A n \in Orders \ {o} : status'[n] = status[n]
      /\ payment'[p] = "SUCCESS"
      /\ \A q \in Payments \ {p} : payment'[q] = payment[q]
  BY <1>1 DEF Sell, Reach, TypeOK
<1>4. SettledFor(o)' = {p}
  BY <1>2, <1>3 DEF SettledFor
<1>5. \A n \in Orders \ {o} : SettledFor(n)' = SettledFor(n)
  BY <1>3 DEF SettledFor
<1>6. ASSUME NEW n \in Orders
      PROVE  /\ status'[n] \in Paid <=> SettledFor(n)' # {}
             /\ \A q, t \in SettledFor(n)' : q = t
  <2>1. CASE n = o
    BY <2>1, <1>3, <1>4 DEF Paid, Applicable
  <2>2. CASE n # o
    BY <2>2, <1>3, <1>5 DEF PaidOnce
  <2>3. QED
    BY <2>1, <2>2
<1>7. QED
  BY <1>6 DEF PaidOnce, SettledFor

(* Every step keeps PaidOnce; only Sell settles a payment, and only        *)
(* Sell moves an order from unpaid to paid.                                *)
LEMMA StepPaidOnce == TypeOK /\ PaidOnce /\ [Next]_vars => PaidOnce'
<1> SUFFICES ASSUME TypeOK, PaidOnce, [Next]_vars PROVE PaidOnce'
  OBVIOUS
<1>1. ASSUME NEW r \in Requests, NEW b \in Baskets, NEW use \in Uses,
             CreateCartOrders(r, b, use) \/ CreateOrder(r, b, use)
      PROVE  PaidOnce'
  <2>1. PlaceOrders(r, b, use)
    BY <1>1 DEF CreateCartOrders, CreateOrder
  <2>2. \A o \in Orders : status'[o] \in Paid <=> status[o] \in Paid
    BY <2>1 DEF PlaceOrders, Placed, Orders, Paid, Applicable, ShopsIn
  <2>3. QED
    BY <2>1, <2>2, PaidOnceKept DEF PlaceOrders, paymentVars
<1>2. ASSUME NEW o \in Orders, OrderStep(o) PROVE PaidOnce'
  <2>1. payment' = payment
    BY <1>2 DEF OrderStep, Expire, CancelOrder, CloseExpiredOrder, Close, AcceptOrder,
                ShipOrder, ShipFrom, ConfirmReceipt, AutoReceiveOrder, Move, paymentVars
  <2>2. \A n \in Orders : status'[n] \in Paid <=> status[n] \in Paid
    BY <1>2 DEF OrderStep, Expire, CancelOrder, CloseExpiredOrder, Close, Closable,
                AcceptOrder, ShipOrder, ShipFrom, ConfirmReceipt, AutoReceiveOrder,
                Move, Reach, Paid, Applicable, TypeOK
  <2>3. QED
    BY <2>1, <2>2, PaidOnceKept
<1>3. ASSUME NEW p \in Payments, PaymentStep(p) PROVE PaidOnce'
  <2>1. CASE Sell(p, OrderOf[p])
    BY <2>1, SellPaysOnce
  <2>2. CASE ~Sell(p, OrderOf[p])
    <3>1. status' = status
      BY <1>3, <2>2
         DEF PaymentStep, CreatePaymentRead, CreatePaymentWrite, MockPay,
             QueryPayment, ApplyPaymentQueryResult, ApplyAnswer,
             ApplySuccessfulPayment, orderVars
    <3>2. \A q \in Payments : payment'[q] = "SUCCESS" <=> payment[q] = "SUCCESS"
      BY <1>3, <2>2
         DEF PaymentStep, CreatePaymentRead, CreatePaymentWrite, MockPay,
             QueryPayment, ApplyPaymentQueryResult, ApplyAnswer,
             ApplySuccessfulPayment, FailIfPending, MarkFailed, paymentVars, TypeOK
    <3>3. QED
      BY <3>1, <3>2, PaidOnceKept
  <2>3. QED
    BY <2>1, <2>2
<1>4. ASSUME NEW e \in Events, ProcessCallback(e) PROVE PaidOnce'
  <2> e[1] \in Payments
    BY TradeAssumption
  <2>1. CASE Sell(e[1], OrderOf[e[1]])
    BY <2>1, SellPaysOnce
  <2>2. CASE ~Sell(e[1], OrderOf[e[1]])
    <3>1. status' = status
      BY <1>4, <2>2 DEF ProcessCallback, ApplySuccessfulPayment, orderVars
    <3>2. \A q \in Payments : payment'[q] = "SUCCESS" <=> payment[q] = "SUCCESS"
      BY <1>4, <2>2 DEF ProcessCallback, ApplySuccessfulPayment, FailIfPending, MarkFailed, TypeOK
    <3>3. QED
      BY <3>1, <3>2, PaidOnceKept
  <2>3. QED
    BY <2>1, <2>2
<1>5. ASSUME NEW e \in Events, PurgeCallback(e) PROVE PaidOnce'
  BY <1>5, PaidOnceKept DEF PurgeCallback, orderVars
<1>6. ASSUME NEW s \in Skus, NEW d \in Corrections, AdjustInventory(s, d) PROVE PaidOnce'
  BY <1>6, PaidOnceKept DEF AdjustInventory, orderVars, paymentVars
<1>7. CASE UNCHANGED vars
  BY <1>7, PaidOnceKept DEF vars, orderVars, paymentVars
<1>8. ASSUME NEW o \in Orders, NEW back \in Baskets, AfterSaleStep(o, back)
      PROVE  PaidOnce'
  <2>1. /\ status[o] \in Paid /\ status'[o] \in Paid /\ payment' = payment
        /\ \A n \in Orders \ {o} : status'[n] = status[n]
    BY <1>8, AfterSaleEffect DEF paymentVars
  <2>2. QED
    BY <2>1, PaidOnceKept
<1>9. QED
  BY <1>1, <1>2, <1>3, <1>4, <1>5, <1>6, <1>7, <1>8 DEF Next

(* An order is paid by exactly one payment, and a payment that succeeded   *)
(* is the payment of a paid order: no race of callbacks, queries, mock     *)
(* payments, cancellations and timeouts makes an order paid twice, paid    *)
(* and cancelled, or paid without a payment.                               *)
THEOREM PaidOnceAlways == Spec => []PaidOnce
<1>1. Init => PaidOnce
  BY DEF Init, PaidOnce, SettledFor, Paid, Applicable
<1>2. QED
  BY <1>1, InitTypeOK, StepTypeOK, StepPaidOnce, PTL DEF Spec

(* SuccessIsFinal: the one step that turns a payment to FAILED finds it    *)
(* PENDING in the transaction that does so.                                *)
LEMMA StepSuccessIsFinal ==
  ASSUME TypeOK, [Next]_vars, NEW p \in Payments, payment[p] = "SUCCESS"
  PROVE  payment'[p] = "SUCCESS"
<1>1. ASSUME NEW r \in Requests, NEW b \in Baskets, NEW use \in Uses,
             CreateCartOrders(r, b, use) \/ CreateOrder(r, b, use)
      PROVE  payment' = payment
  BY <1>1 DEF CreateCartOrders, CreateOrder, PlaceOrders, paymentVars
<1>2. ASSUME NEW o \in Orders, OrderStep(o) PROVE payment' = payment
  BY <1>2 DEF OrderStep, Expire, CancelOrder, CloseExpiredOrder, Close, AcceptOrder,
              ShipOrder, ShipFrom, ConfirmReceipt, AutoReceiveOrder, Move, paymentVars
<1>3. ASSUME NEW q \in Payments, PaymentStep(q) PROVE payment'[p] = "SUCCESS"
  BY <1>3 DEF PaymentStep, CreatePaymentRead, CreatePaymentWrite, MockPay,
              QueryPayment, ApplyPaymentQueryResult, ApplyAnswer,
              ApplySuccessfulPayment, Sell, MarkFailed, paymentVars, TypeOK
<1>4. ASSUME NEW e \in Events, ProcessCallback(e) PROVE payment'[p] = "SUCCESS"
  BY <1>4 DEF ProcessCallback, ApplySuccessfulPayment, Sell, FailIfPending, MarkFailed, TypeOK
<1>5. ASSUME NEW e \in Events, PurgeCallback(e) PROVE payment' = payment
  BY <1>5 DEF PurgeCallback
<1>6. ASSUME NEW s \in Skus, NEW d \in Corrections, AdjustInventory(s, d)
      PROVE  payment' = payment
  BY <1>6 DEF AdjustInventory, paymentVars
<1>7. CASE UNCHANGED vars
  BY <1>7 DEF vars, paymentVars
<1>8. ASSUME NEW o \in Orders, NEW back \in Baskets, AfterSaleStep(o, back)
      PROVE  payment' = payment
  BY <1>8, AfterSaleEffect DEF paymentVars
<1>9. QED
  BY <1>1, <1>2, <1>3, <1>4, <1>5, <1>6, <1>7, <1>8 DEF Next

(* However late a failure arrives, a payment that succeeded stays so.      *)
THEOREM SuccessStays == Spec => SuccessIsFinal
<1>1. TypeOK /\ [Next]_vars =>
        [\A p \in Payments : payment[p] = "SUCCESS" => payment'[p] = "SUCCESS"]_vars
  BY StepSuccessIsFinal
<1>2. QED
  BY <1>1, TypeCorrect, PTL DEF Spec, SuccessIsFinal

-----------------------------------------------------------------------------
(* Coupons *)

(* Steps that place and close no order.                                    *)
LEMMA CouponsKept ==
  ASSUME CouponSpentOnce, couponOf' = couponOf, coupon' = coupon, repaid' = repaid,
         \A o \in Orders : status'[o] \in Live <=> status[o] \in Live
  PROVE  CouponSpentOnce'
  BY DEF CouponSpentOnce

(* A coupon spent on new orders was AVAILABLE, and on no other order.      *)
LEMMA PlaceSpendsOnce ==
  ASSUME TypeOK, CouponSpentOnce, NEW r \in Requests, NEW b \in Baskets,
         NEW use \in Uses, PlaceOrders(r, b, use)
  PROVE  CouponSpentOnce'
<1> DEFINE new == {r} \X ShopsIn(b)
           spent == {use[sh] : sh \in ShopsIn(b)} \ {NoCoupon}
<1>1. /\ ShopsIn(b) \subseteq Shops /\ new \subseteq Orders
      /\ \A o \in new : status[o] = "NONE" /\ o[2] \in ShopsIn(b) /\ o = <<r, o[2]>>
  BY NewOrders DEF PlaceOrders
<1>2. /\ \A o \in Orders : status'[o] = IF o \in new THEN "PENDING_PAYMENT" ELSE status[o]
      /\ \A o \in Orders : couponOf'[o] = IF o \in new THEN use[o[2]] ELSE couponOf[o]
      /\ \A c \in Coupons : coupon'[c] = IF c \in spent THEN "USED" ELSE coupon[c]
      /\ \A sh \in ShopsIn(b) : use[sh] # NoCoupon => CanUse(use[sh], sh)
  BY DEF PlaceOrders
<1>3. \A sh \in ShopsIn(b) : use[sh] \in Coupons \cup {NoCoupon}
  BY <1>1 DEF Uses
<1>4. \A c \in spent : /\ c \in Coupons
                       /\ \A o \in Orders : couponOf[o] # c
                       /\ \E o \in new : couponOf'[o] = c
  <2> TAKE c \in spent
  <2>1. PICK sh \in ShopsIn(b) : use[sh] = c /\ c # NoCoupon
    OBVIOUS
  <2>2. c \in Coupons /\ \A o \in Orders : couponOf[o] # c
    BY <2>1, <1>2, <1>3 DEF CanUse
  <2>3. <<r, sh>> \in new /\ couponOf'[<<r, sh>>] = c
    BY <2>1, <1>1, <1>2
  <2>4. QED
    BY <2>2, <2>3
<1>5. ASSUME NEW c \in Coupons
      PROVE  coupon'[c] = "USED" <=>
               \E o \in Orders : status'[o] \in Live /\ o \notin repaid' /\ couponOf'[o] = c
  <2> repaid' = repaid
    BY DEF PlaceOrders, claimVars
  <2>1. CASE c \in spent
    <3>1. \A o \in new : status'[o] \in Live /\ o \notin repaid
      BY <1>1, <1>2 DEF Live, Paid, Applicable, TypeOK
    <3>2. QED
      BY <2>1, <3>1, <1>1, <1>2, <1>4
  <2>2. CASE c \notin spent
    <3>1. \A o \in new : couponOf'[o] # c
      BY <2>2, <1>1, <1>2, TradeAssumption
    <3>2. \A o \in new : status[o] \notin Live
      BY <1>1 DEF Live, Paid, Applicable
    <3>3. QED
      BY <2>2, <3>1, <3>2, <1>2 DEF CouponSpentOnce
  <2>3. QED
    BY <2>1, <2>2
<1>6. ASSUME NEW c \in Coupons, NEW o \in Orders, NEW n \in Orders,
             couponOf'[o] = c, couponOf'[n] = c
      PROVE  o = n
  <2>1. CASE o \in new /\ n \in new
    BY <2>1, <1>1, <1>2, <1>6, TradeAssumption DEF CanUse
  <2>2. CASE o \notin new /\ n \notin new
    BY <2>2, <1>2, <1>6 DEF CouponSpentOnce
  <2>3. ASSUME NEW x \in new, NEW y \in Orders \ new, couponOf'[x] = c, couponOf'[y] = c
        PROVE  FALSE
    <3>1. c \in spent
      BY <2>3, <1>1, <1>2, TradeAssumption
    <3>2. couponOf[y] = c
      BY <2>3, <1>2
    <3>3. QED
      BY <3>1, <3>2, <1>4
  <2>4. QED
    BY <2>1, <2>2, <2>3, <1>6
<1>7. QED
  BY <1>5, <1>6 DEF CouponSpentOnce

(* Closing an order gives back its own coupon, which is USED until then,   *)
(* and no other.                                                           *)
LEMMA CloseReturns ==
  ASSUME TypeOK, CouponSpentOnce, NEW o \in Orders, Close(o)
  PROVE  \A c \in Coupons :
           coupon'[c] = IF c = couponOf[o] THEN "AVAILABLE" ELSE coupon[c]
<1>1. status[o] \in Live /\ o \notin repaid
  BY DEF Close, Closable, TypeOK, Live, Paid, Applicable
<1>2. \A c \in Coupons : c = couponOf[o] => coupon[c] = "USED"
  BY <1>1 DEF CouponSpentOnce
<1>3. QED
  BY <1>2 DEF Close, CouponAfterClose

(* CouponSpentOnce survives the closing of an order.                       *)
LEMMA CloseRestores ==
  ASSUME TypeOK, CouponSpentOnce, NEW o \in Orders, Close(o)
  PROVE  CouponSpentOnce'
<1>1. /\ status[o] \in Live /\ status'[o] \notin Live
      /\ \A n \in Orders \ {o} : status'[n] = status[n]
      /\ couponOf' = couponOf /\ repaid' = repaid /\ o \notin repaid
  BY DEF Close, Closable, TypeOK, Live, Paid, Applicable, claimVars
<1>2. \A c \in Coupons : coupon'[c] = IF c = couponOf[o] THEN "AVAILABLE" ELSE coupon[c]
  BY CloseReturns
<1>3. QED
  BY <1>1, <1>2 DEF CouponSpentOnce

(* An order repaid in full gives back its own coupon and no other.         *)
LEMMA RefundRestores ==
  ASSUME TypeOK, CouponSpentOnce, NEW o \in Orders, NEW back \in Baskets, NEW verdict,
         RefundInFull(o, verdict, back)
  PROVE  CouponSpentOnce'
<1>1. /\ status[o] \in Live /\ o \notin repaid /\ repaid' = repaid \cup {o}
      /\ \A n \in Orders : status'[n] \in Live <=> status[n] \in Live
      /\ couponOf' = couponOf
  BY DEF RefundInFull, TypeOK, Live, Paid
<1>2. /\ verdict # "USED"
      /\ \A c \in Coupons : coupon'[c] = IF c = couponOf[o] THEN verdict ELSE coupon[c]
  BY DEF RefundInFull, CouponAfterRefund
<1>3. QED
  BY <1>1, <1>2 DEF CouponSpentOnce

(* Every step keeps CouponSpentOnce.                                       *)
LEMMA StepCouponSpentOnce == TypeOK /\ CouponSpentOnce /\ [Next]_vars => CouponSpentOnce'
<1> SUFFICES ASSUME TypeOK, CouponSpentOnce, [Next]_vars PROVE CouponSpentOnce'
  OBVIOUS
<1>1. ASSUME NEW r \in Requests, NEW b \in Baskets, NEW use \in Uses,
             CreateCartOrders(r, b, use) \/ CreateOrder(r, b, use)
      PROVE  CouponSpentOnce'
  BY <1>1, PlaceSpendsOnce DEF CreateCartOrders, CreateOrder
<1>2. ASSUME NEW o \in Orders, OrderStep(o) PROVE CouponSpentOnce'
  <2>1. CASE CancelOrder(o) \/ CloseExpiredOrder(o)
    BY <2>1, CloseRestores DEF CancelOrder, CloseExpiredOrder
  <2>2. CASE ~CancelOrder(o) /\ ~CloseExpiredOrder(o)
    <3>1. /\ couponOf' = couponOf /\ coupon' = coupon /\ repaid' = repaid
          /\ \A n \in Orders : status'[n] \in Live <=> status[n] \in Live
      BY <1>2, <2>2 DEF OrderStep, Expire, AcceptOrder, ShipOrder, ShipFrom,
                        ConfirmReceipt, AutoReceiveOrder, Move, Reach, claimVars, Live,
                        Paid, Applicable, TypeOK
    <3>2. QED
      BY <3>1, CouponsKept
  <2>3. QED
    BY <2>1, <2>2
<1>3. ASSUME NEW p \in Payments, PaymentStep(p) PROVE CouponSpentOnce'
  <2> OrderOf[p] \in Orders
    BY TradeAssumption
  <2>1. /\ couponOf' = couponOf /\ coupon' = coupon /\ repaid' = repaid
        /\ \A n \in Orders : status'[n] \in Live <=> status[n] \in Live
    BY <1>3 DEF PaymentStep, CreatePaymentRead, CreatePaymentWrite, MockPay,
                QueryPayment, ApplyPaymentQueryResult, ApplyAnswer,
                ApplySuccessfulPayment, Sell, Reach, orderVars, claimVars, Live,
                Paid, Applicable, TypeOK
  <2>2. QED
    BY <2>1, CouponsKept
<1>4. ASSUME NEW e \in Events, ProcessCallback(e) PROVE CouponSpentOnce'
  <2> OrderOf[e[1]] \in Orders
    BY TradeAssumption
  <2>1. /\ couponOf' = couponOf /\ coupon' = coupon /\ repaid' = repaid
        /\ \A n \in Orders : status'[n] \in Live <=> status[n] \in Live
    BY <1>4 DEF ProcessCallback, ApplySuccessfulPayment, Sell, Reach, orderVars,
                claimVars, Live, Paid, Applicable, TypeOK
  <2>2. QED
    BY <2>1, CouponsKept
<1>5. ASSUME NEW e \in Events, PurgeCallback(e) PROVE CouponSpentOnce'
  BY <1>5, CouponsKept DEF PurgeCallback, orderVars, claimVars
<1>6. ASSUME NEW s \in Skus, NEW d \in Corrections, AdjustInventory(s, d)
      PROVE  CouponSpentOnce'
  BY <1>6, CouponsKept DEF AdjustInventory, orderVars, claimVars
<1>7. CASE UNCHANGED vars
  BY <1>7, CouponsKept DEF vars, orderVars, claimVars
<1>8. ASSUME NEW o \in Orders, NEW back \in Baskets, AfterSaleStep(o, back)
      PROVE  CouponSpentOnce'
  <2>1. ASSUME NEW to, ClaimStep(o, to, back) PROVE CouponSpentOnce'
    <3>1. \A n \in Orders : status'[n] \in Live <=> status[n] \in Live
      BY <1>8, AfterSaleEffect DEF Live
    <3>2. QED
      BY <2>1, <3>1, CouponsKept DEF ClaimStep, claimVars
  <2>2. ASSUME NEW verdict, RefundInFull(o, verdict, back) PROVE CouponSpentOnce'
    BY <1>8, <2>2, RefundRestores
  <2>3. QED
    BY <1>8, <2>1, <2>2 DEF AfterSaleStep
<1>9. QED
  BY <1>1, <1>2, <1>3, <1>4, <1>5, <1>6, <1>7, <1>8 DEF Next

(* A user coupon is spent by one live order at a time, and is USED exactly *)
(* while that order lives.                                                 *)
THEOREM CouponSpentOnceAlways == Spec => []CouponSpentOnce
<1>1. Init => CouponSpentOnce
  BY TradeAssumption DEF Init, CouponSpentOnce, Live, Paid, Applicable
<1>2. QED
  BY <1>1, InitTypeOK, StepTypeOK, StepCouponSpentOnce, PTL DEF Spec

-----------------------------------------------------------------------------
(* Stock *)

(* The units an order can want, by number.                                 *)
Pool == Orders \X (1 .. MaxQuantity)

(* Units are counted in a finite pool, so counts are natural numbers.      *)
LEMMA PoolFinite == \A U \in SUBSET Pool : IsFiniteSet(U) /\ Cardinality(U) \in Nat
<1>1. IsFiniteSet(Requests)
  BY TradeAssumption, FS_Union DEF Requests
<1>2. IsFiniteSet(Orders)
  BY <1>1, TradeAssumption, FS_Product DEF Orders
<1>3. IsFiniteSet(1 .. MaxQuantity)
  BY TradeAssumption, FS_Interval
<1>4. IsFiniteSet(Pool)
  BY <1>2, <1>3, FS_Product DEF Pool
<1>5. QED
  BY <1>4, FS_Subset, FS_CardinalityType

(* The n units an order takes of one sku. *)
LEMMA BlockSize ==
  ASSUME NEW o, NEW n \in Nat
  PROVE  IsFiniteSet({o} \X (1 .. n)) /\ Cardinality({o} \X (1 .. n)) = n
<1>1. IsFiniteSet({o}) /\ Cardinality({o}) = 1
  BY FS_Singleton
<1>2. IsFiniteSet(1 .. n) /\ Cardinality(1 .. n) = n
  BY FS_Interval
<1>3. Cardinality({o} \X (1 .. n)) = Cardinality({o}) * Cardinality(1 .. n)
  BY <1>1, <1>2, FS_Product
<1>4. QED
  BY <1>1, <1>2, <1>3, FS_Product

(* Counting in the block of one more order.                                *)
LEMMA BlockAdded ==
  ASSUME NEW U \in SUBSET Pool, NEW o, NEW n \in Nat, \A k \in 1 .. n : <<o, k>> \notin U
  PROVE  Cardinality(U \cup ({o} \X (1 .. n))) = Cardinality(U) + n
<1>1. U \cap ({o} \X (1 .. n)) = {}
  OBVIOUS
<1>2. IsFiniteSet(U) /\ Cardinality(U) \in Nat
  BY PoolFinite
<1>3. Cardinality({}) = 0
  BY FS_EmptySet
<1>4. Cardinality(U \cup ({o} \X (1 .. n))) =
        Cardinality(U) + Cardinality({o} \X (1 .. n)) - Cardinality(U \cap ({o} \X (1 .. n)))
  BY <1>2, BlockSize, FS_Union
<1>5. Cardinality({o} \X (1 .. n)) = n
  BY BlockSize
<1>6. Cardinality(U \cap ({o} \X (1 .. n))) = 0
  BY <1>1, <1>3
<1>7. QED
  BY <1>2, <1>4, <1>5, <1>6

(* Counting without the block of an order that left.                       *)
LEMMA BlockRemoved ==
  ASSUME NEW U \in SUBSET Pool, NEW o, NEW n \in Nat, \A k \in 1 .. n : <<o, k>> \in U
  PROVE  Cardinality(U \ ({o} \X (1 .. n))) = Cardinality(U) - n
<1>1. U \cap ({o} \X (1 .. n)) = {o} \X (1 .. n)
  OBVIOUS
<1>2. Cardinality(U \ ({o} \X (1 .. n))) =
        Cardinality(U) - Cardinality(U \cap ({o} \X (1 .. n)))
  BY PoolFinite, FS_Difference
<1>3. Cardinality({o} \X (1 .. n)) = n
  BY BlockSize
<1>4. Cardinality(U \cap ({o} \X (1 .. n))) = n
  BY <1>1, <1>3
<1>5. QED
  BY <1>2, <1>4

(* All that is ever counted is in the pool, before a step and after.       *)
LEMMA UnitsInPool == \A s, in : Units(s, in) \in SUBSET Pool /\ Units(s, in)' \in SUBSET Pool
  BY DEF Units, Pool

(* Placing an order adds its block to what the orders of its new status    *)
(* hold of a sku.                                                          *)
LEMMA PlaceAddsUnits ==
  ASSUME TypeOK, NEW r \in Requests, NEW b \in Baskets, NEW use \in Uses,
         PlaceOrders(r, b, use), NEW s \in Skus, NEW in,
         "PENDING_PAYMENT" \in in, "NONE" \notin in
  PROVE  Cardinality(Units(s, in)') = Cardinality(Units(s, in)) + b[s]
<1> DEFINE o  == <<r, ShopOf[s]>>
           new == {r} \X ShopsIn(b)
<1>1. b[s] \in Nat /\ b[s] <= MaxQuantity
  BY TradeAssumption DEF Baskets, Quantities
<1>2. /\ new \subseteq Orders
      /\ \A n \in new : status[n] = "NONE" /\ n[2] \in ShopsIn(b) /\ n = <<r, n[2]>>
  BY NewOrders DEF PlaceOrders
<1>3. /\ \A n \in Orders : status'[n] = IF n \in new THEN "PENDING_PAYMENT" ELSE status[n]
      /\ \A n \in Orders : basket'[n] = IF n \in new THEN PartAt(b, n[2]) ELSE basket[n]
  BY DEF PlaceOrders
<1>4. b[s] > 0 => o \in new
  BY DEF ShopsIn
<1>5. ASSUME NEW n \in new, n # o PROVE basket'[n][s] = 0
  <2>1. ShopOf[s] # n[2]
    BY <1>2, <1>5
  <2>2. basket'[n] = PartAt(b, n[2])
    BY <1>2, <1>3
  <2>3. QED
    BY <2>1, <2>2 DEF PartAt
<1>6. o \in new => basket'[o][s] = b[s]
  BY <1>2, <1>3 DEF PartAt
<1>7. \A k \in 1 .. b[s] : <<o, k>> \notin Units(s, in)
  BY <1>1, <1>2, <1>4 DEF Units
<1>8. Units(s, in)' = Units(s, in) \cup ({o} \X (1 .. b[s]))
  <2>1. ASSUME NEW n \in Orders, NEW k \in 1 .. MaxQuantity
        PROVE  <<n, k>> \in Units(s, in)' <=>
                 <<n, k>> \in Units(s, in) \/ (n = o /\ k <= b[s])
    <3>1. CASE n = o /\ o \in new
      BY <3>1, <1>2, <1>3, <1>6 DEF Units
    <3>2. CASE n # o /\ n \in new
      BY <3>2, <1>2, <1>3, <1>5, TradeAssumption DEF Units
    <3>3. CASE n \notin new
      BY <3>3, <1>1, <1>3, <1>4 DEF Units
    <3>4. QED
      BY <3>1, <3>2, <3>3
  <2>2. {o} \X (1 .. b[s]) \subseteq Pool
    BY <1>1, <1>2, <1>4, TradeAssumption DEF Pool
  <2>3. QED
    BY <2>1, <2>2, <1>1, UnitsInPool DEF Pool
<1>9. Cardinality(Units(s, in) \cup ({o} \X (1 .. b[s]))) = Cardinality(Units(s, in)) + b[s]
  BY <1>1, <1>7, BlockAdded, UnitsInPool
<1>10. QED
  BY <1>8, <1>9

(* An order that leaves the statuses counted takes its block along.        *)
LEMMA LeavingRemovesUnits ==
  ASSUME TypeOK, NEW o \in Orders, NEW s \in Skus, NEW in,
         status[o] \in in, status'[o] \notin in, basket' = basket,
         \A n \in Orders \ {o} : status'[n] = status[n]
  PROVE  Cardinality(Units(s, in)') = Cardinality(Units(s, in)) - basket[o][s]
<1>1. basket[o][s] \in Nat /\ basket[o][s] <= MaxQuantity
  BY TradeAssumption DEF TypeOK, Baskets, Quantities
<1>2. \A k \in 1 .. basket[o][s] : <<o, k>> \in Units(s, in)
  BY <1>1, TradeAssumption DEF Units
<1>3. Units(s, in)' = Units(s, in) \ ({o} \X (1 .. basket[o][s]))
  <2>1. ASSUME NEW n \in Orders, NEW k \in 1 .. MaxQuantity
        PROVE  <<n, k>> \in Units(s, in)' <=>
                 <<n, k>> \in Units(s, in) /\ ~(n = o /\ k <= basket[o][s])
    BY <1>1 DEF Units
  <2>2. QED
    BY <2>1, <1>1, UnitsInPool DEF Pool
<1>4. Cardinality(Units(s, in) \ ({o} \X (1 .. basket[o][s]))) =
        Cardinality(Units(s, in)) - basket[o][s]
  BY <1>1, <1>2, BlockRemoved, UnitsInPool
<1>5. QED
  BY <1>3, <1>4

(* Orders whose place in the count does not change keep the count.         *)
LEMMA SameUnits ==
  ASSUME NEW s, NEW in, basket' = basket,
         \A n \in Orders : status'[n] \in in <=> status[n] \in in
  PROVE  Units(s, in)' = Units(s, in)
  BY DEF Units

(* The two counts are inductive together.                                  *)
StockInv == LockedIsReserved /\ StockConserved

(* A count of units is a natural number.                                   *)
LEMMA UnitsNat ==
  \A s, in : Cardinality(Units(s, in)) \in Nat /\ Cardinality(Units(s, in)') \in Nat
  BY UnitsInPool, PoolFinite

(* Placing orders locks what it takes from the shelf.                      *)
LEMMA PlaceStock ==
  ASSUME TypeOK, StockInv, NEW r \in Requests, NEW b \in Baskets, NEW use \in Uses,
         PlaceOrders(r, b, use)
  PROVE  StockInv'
<1> SUFFICES ASSUME NEW s \in Skus
             PROVE  /\ locked'[s] = Cardinality(Units(s, {"PENDING_PAYMENT"})')
                    /\ available'[s] + Cardinality(Units(s, Live)') = supply'[s]
  BY DEF StockInv, LockedIsReserved, StockConserved
<1>1. /\ locked'[s] = locked[s] + b[s] /\ available'[s] = available[s] - b[s]
      /\ supply'[s] = supply[s]
  BY DEF PlaceOrders
<1>2. /\ locked[s] \in Nat /\ available[s] \in Nat /\ b[s] \in Nat
  BY TradeAssumption DEF TypeOK, Baskets, Quantities
<1>3. Cardinality(Units(s, {"PENDING_PAYMENT"})') =
        Cardinality(Units(s, {"PENDING_PAYMENT"})) + b[s]
  BY PlaceAddsUnits
<1>4. Cardinality(Units(s, Live)') = Cardinality(Units(s, Live)) + b[s]
  BY PlaceAddsUnits DEF Live, Paid, Applicable
<1>5. /\ locked[s] = Cardinality(Units(s, {"PENDING_PAYMENT"}))
      /\ available[s] + Cardinality(Units(s, Live)) = supply[s]
  BY DEF StockInv, LockedIsReserved, StockConserved
<1>6. QED
  BY <1>1, <1>2, <1>3, <1>4, <1>5, UnitsNat

(* Closing an order puts back what it had locked.                          *)
LEMMA CloseStock ==
  ASSUME TypeOK, StockInv, NEW o \in Orders, Close(o)
  PROVE  StockInv'
<1> SUFFICES ASSUME NEW s \in Skus
             PROVE  /\ locked'[s] = Cardinality(Units(s, {"PENDING_PAYMENT"})')
                    /\ available'[s] + Cardinality(Units(s, Live)') = supply'[s]
  BY DEF StockInv, LockedIsReserved, StockConserved
<1>1. /\ status[o] = "PENDING_PAYMENT" /\ status'[o] = "CANCELLED" /\ basket' = basket
      /\ \A n \in Orders \ {o} : status'[n] = status[n]
  BY DEF Close, Closable, TypeOK
<1>2. /\ locked'[s] = locked[s] - basket[o][s]
      /\ available'[s] = available[s] + basket[o][s]
      /\ supply'[s] = supply[s]
  BY DEF Close
<1>3. locked[s] \in Nat /\ available[s] \in Nat /\ basket[o][s] \in Nat
  BY TradeAssumption DEF TypeOK, Baskets, Quantities
<1>4. Cardinality(Units(s, {"PENDING_PAYMENT"})') =
        Cardinality(Units(s, {"PENDING_PAYMENT"})) - basket[o][s]
  BY <1>1, LeavingRemovesUnits
<1>5. Cardinality(Units(s, Live)') = Cardinality(Units(s, Live)) - basket[o][s]
  BY <1>1, LeavingRemovesUnits DEF Live, Paid, Applicable
<1>6. /\ locked[s] = Cardinality(Units(s, {"PENDING_PAYMENT"}))
      /\ available[s] + Cardinality(Units(s, Live)) = supply[s]
  BY DEF StockInv, LockedIsReserved, StockConserved
<1>7. QED
  BY <1>2, <1>3, <1>4, <1>5, <1>6, UnitsNat

(* A settled payment takes what its order had locked.                      *)
LEMMA SellStock ==
  ASSUME TypeOK, StockInv, NEW p \in Payments, NEW o \in Orders, Sell(p, o)
  PROVE  StockInv'
<1> SUFFICES ASSUME NEW s \in Skus
             PROVE  /\ locked'[s] = Cardinality(Units(s, {"PENDING_PAYMENT"})')
                    /\ available'[s] + Cardinality(Units(s, Live)') = supply'[s]
  BY DEF StockInv, LockedIsReserved, StockConserved
<1>1. /\ status[o] = "PENDING_PAYMENT" /\ status'[o] = "PAID" /\ basket' = basket
      /\ \A n \in Orders \ {o} : status'[n] = status[n]
  BY DEF Sell, Reach, TypeOK
<1>2. /\ locked'[s] = locked[s] - basket[o][s]
      /\ available'[s] = available[s] /\ supply'[s] = supply[s]
  BY DEF Sell
<1>3. Cardinality(Units(s, {"PENDING_PAYMENT"})') =
        Cardinality(Units(s, {"PENDING_PAYMENT"})) - basket[o][s]
  BY <1>1, LeavingRemovesUnits
<1>4. Units(s, Live)' = Units(s, Live)
  BY <1>1, SameUnits DEF Live, Paid, Applicable
<1>5. /\ locked[s] = Cardinality(Units(s, {"PENDING_PAYMENT"}))
      /\ available[s] + Cardinality(Units(s, Live)) = supply[s]
  BY DEF StockInv, LockedIsReserved, StockConserved
<1>6. QED
  BY <1>2, <1>3, <1>4, <1>5

(* Steps that move no goods. *)
LEMMA StockKept ==
  ASSUME StockInv, stockVars' = stockVars, basket' = basket,
         \A o \in Orders :
           /\ status'[o] \in Live <=> status[o] \in Live
           /\ status'[o] = "PENDING_PAYMENT" <=> status[o] = "PENDING_PAYMENT"
  PROVE  StockInv'
<1>1. ASSUME NEW s \in Skus
      PROVE  Units(s, {"PENDING_PAYMENT"})' = Units(s, {"PENDING_PAYMENT"})
  BY SameUnits
<1>2. ASSUME NEW s \in Skus PROVE Units(s, Live)' = Units(s, Live)
  BY SameUnits
<1>3. QED
  BY <1>1, <1>2 DEF StockInv, LockedIsReserved, StockConserved, stockVars

(* What an after-sale puts back on the shelf is new supply.                *)
LEMMA AfterSaleStock ==
  ASSUME TypeOK, StockInv, NEW o \in Orders, NEW back \in Baskets, AfterSaleStep(o, back)
  PROVE  StockInv'
<1> SUFFICES ASSUME NEW s \in Skus
             PROVE  /\ locked'[s] = Cardinality(Units(s, {"PENDING_PAYMENT"})')
                    /\ available'[s] + Cardinality(Units(s, Live)') = supply'[s]
  BY DEF StockInv, LockedIsReserved, StockConserved
<1>1. /\ status[o] \in Paid /\ status'[o] \in Paid /\ basket' = basket
      /\ \A n \in Orders \ {o} : status'[n] = status[n]
      /\ locked' = locked
      /\ available'[s] = available[s] + back[s]
      /\ supply'[s] = supply[s] + back[s]
  BY AfterSaleEffect DEF GoBack
<1>2. /\ Units(s, {"PENDING_PAYMENT"})' = Units(s, {"PENDING_PAYMENT"})
      /\ Units(s, Live)' = Units(s, Live)
  BY <1>1, SameUnits DEF Live, Paid, Applicable
<1>3. /\ locked[s] = Cardinality(Units(s, {"PENDING_PAYMENT"}))
      /\ available[s] + Cardinality(Units(s, Live)) = supply[s]
  BY DEF StockInv, LockedIsReserved, StockConserved
<1>4. available[s] \in Nat /\ supply[s] \in Int /\ back[s] \in Nat
  BY TradeAssumption DEF TypeOK, Baskets, Quantities
<1>5. QED
  BY <1>1, <1>2, <1>3, <1>4, UnitsNat

(* Every step keeps both stock invariants.                                 *)
LEMMA StepStockInv == TypeOK /\ StockInv /\ [Next]_vars => StockInv'
<1> SUFFICES ASSUME TypeOK, StockInv, [Next]_vars PROVE StockInv'
  OBVIOUS
<1>1. ASSUME NEW r \in Requests, NEW b \in Baskets, NEW use \in Uses,
             CreateCartOrders(r, b, use) \/ CreateOrder(r, b, use)
      PROVE  StockInv'
  BY <1>1, PlaceStock DEF CreateCartOrders, CreateOrder
<1>2. ASSUME NEW o \in Orders, OrderStep(o) PROVE StockInv'
  <2>1. CASE CancelOrder(o) \/ CloseExpiredOrder(o)
    BY <2>1, CloseStock DEF CancelOrder, CloseExpiredOrder
  <2>2. CASE ~CancelOrder(o) /\ ~CloseExpiredOrder(o)
    BY <1>2, <2>2, StockKept
       DEF OrderStep, Expire, AcceptOrder, ShipOrder, ShipFrom, ConfirmReceipt,
           AutoReceiveOrder, Move, Reach, Live, Paid, Applicable, TypeOK
  <2>3. QED
    BY <2>1, <2>2
<1>3. ASSUME NEW p \in Payments, PaymentStep(p) PROVE StockInv'
  <2> OrderOf[p] \in Orders
    BY TradeAssumption
  <2>1. CASE Sell(p, OrderOf[p])
    BY <2>1, SellStock
  <2>2. CASE ~Sell(p, OrderOf[p])
    BY <1>3, <2>2, StockKept
       DEF PaymentStep, CreatePaymentRead, CreatePaymentWrite, MockPay,
           QueryPayment, ApplyPaymentQueryResult, ApplyAnswer, ApplySuccessfulPayment,
           orderVars
  <2>3. QED
    BY <2>1, <2>2
<1>4. ASSUME NEW e \in Events, ProcessCallback(e) PROVE StockInv'
  <2> e[1] \in Payments /\ OrderOf[e[1]] \in Orders
    BY TradeAssumption
  <2>1. CASE Sell(e[1], OrderOf[e[1]])
    BY <2>1, SellStock
  <2>2. CASE ~Sell(e[1], OrderOf[e[1]])
    BY <1>4, <2>2, StockKept DEF ProcessCallback, ApplySuccessfulPayment, orderVars
  <2>3. QED
    BY <2>1, <2>2
<1>5. ASSUME NEW e \in Events, PurgeCallback(e) PROVE StockInv'
  BY <1>5, StockKept DEF PurgeCallback, orderVars
<1>6. ASSUME NEW s \in Skus, NEW d \in Corrections, AdjustInventory(s, d) PROVE StockInv'
  <2>1. ASSUME NEW t \in Skus
        PROVE  /\ Units(t, {"PENDING_PAYMENT"})' = Units(t, {"PENDING_PAYMENT"})
               /\ Units(t, Live)' = Units(t, Live)
    BY <1>6, SameUnits DEF AdjustInventory, orderVars
  <2>2. ASSUME NEW t \in Skus
        PROVE  /\ locked'[t] = Cardinality(Units(t, {"PENDING_PAYMENT"})')
               /\ available'[t] + Cardinality(Units(t, Live)') = supply'[t]
    <3>1. /\ locked[t] = Cardinality(Units(t, {"PENDING_PAYMENT"}))
          /\ available[t] + Cardinality(Units(t, Live)) = supply[t]
          /\ available[t] \in Nat /\ supply[t] \in Int /\ d \in Int
      BY TradeAssumption DEF StockInv, LockedIsReserved, StockConserved, TypeOK
    <3>2. /\ locked' = locked
          /\ available'[t] = available[t] + (IF t = s THEN d ELSE 0)
          /\ supply'[t] = supply[t] + (IF t = s THEN d ELSE 0)
      BY <1>6, <3>1 DEF AdjustInventory, TypeOK
    <3>3. QED
      BY <2>1, <3>1, <3>2, UnitsNat
  <2>3. QED
    BY <2>2 DEF StockInv, LockedIsReserved, StockConserved
<1>7. CASE UNCHANGED vars
  BY <1>7, StockKept DEF vars, orderVars
<1>8. ASSUME NEW o \in Orders, NEW back \in Baskets, AfterSaleStep(o, back)
      PROVE  StockInv'
  BY <1>8, AfterSaleStock
<1>9. QED
  BY <1>1, <1>2, <1>3, <1>4, <1>5, <1>6, <1>7, <1>8 DEF Next

(* Before the first order nothing is locked.                               *)
LEMMA InitStockInv == Init => StockInv
<1> SUFFICES ASSUME Init, NEW s \in Skus
             PROVE  /\ locked[s] = Cardinality(Units(s, {"PENDING_PAYMENT"}))
                    /\ available[s] + Cardinality(Units(s, Live)) = supply[s]
  BY DEF StockInv, LockedIsReserved, StockConserved
<1>1. Units(s, {"PENDING_PAYMENT"}) = {} /\ Units(s, Live) = {}
  BY DEF Init, Units, Live, Paid, Applicable
<1>2. locked[s] = 0 /\ available[s] = supply[s] /\ supply[s] \in Nat
  BY TradeAssumption DEF Init
<1>3. /\ Cardinality(Units(s, {"PENDING_PAYMENT"})) = 0
      /\ Cardinality(Units(s, Live)) = 0
  BY <1>1, FS_EmptySet
<1>4. QED
  BY <1>2, <1>3

(* The locked count of a shelf is what its unpaid orders hold, so the      *)
(* errors about inconsistent locked stock are dead code.                   *)
THEOREM LockedIsReservedAlways == Spec => []LockedIsReserved
<1>1. StockInv => LockedIsReserved
  BY DEF StockInv
<1>2. QED
  BY <1>1, InitTypeOK, StepTypeOK, InitStockInv, StepStockInv, PTL DEF Spec

(* No goods are lost and none are sold twice.                              *)
THEOREM StockConservedAlways == Spec => []StockConserved
<1>1. StockInv => StockConserved
  BY DEF StockInv
<1>2. QED
  BY <1>1, InitTypeOK, StepTypeOK, InitStockInv, StepStockInv, PTL DEF Spec

-----------------------------------------------------------------------------
(* Refinement *)

(* Placing the orders of a request is one Place of the order book: each    *)
(* sku goes to the one order at the shop that sells it.                    *)
LEMMA PlaceRefines ==
  ASSUME TypeOK, NEW r \in Requests, NEW b \in Baskets, NEW use \in Uses,
         PlaceOrders(r, b, use)
  PROVE  Book!Next
<1> DEFINE new == {r} \X ShopsIn(b)
<1>1. /\ ShopsIn(b) \subseteq Shops /\ new \subseteq Orders
      /\ \A o \in new : status[o] = "NONE" /\ o[2] \in ShopsIn(b) /\ o = <<r, o[2]>>
  BY NewOrders DEF PlaceOrders
<1>2. PICK x \in ShopsIn(b) : TRUE
  BY DEF PlaceOrders
<1>3. <<r, x>> \in new
  OBVIOUS
<1> DEFINE taker == [s \in Skus |->
                       IF ShopOf[s] \in ShopsIn(b) THEN <<r, ShopOf[s]>> ELSE <<r, x>>]
<1>4. taker \in [Skus -> new]
  BY <1>3
<1>5. ASSUME NEW o \in new
      PROVE  PartAt(b, o[2]) = [s \in Skus |-> IF taker[s] = o THEN b[s] ELSE 0]
  <2>1. o[2] \in ShopsIn(b) /\ o = <<r, o[2]>>
    BY <1>1
  <2>2. ASSUME NEW s \in Skus
        PROVE  (IF ShopOf[s] = o[2] THEN b[s] ELSE 0) = (IF taker[s] = o THEN b[s] ELSE 0)
    <3>1. CASE ShopOf[s] \in ShopsIn(b)
      <4>1. taker[s] = o <=> ShopOf[s] = o[2]
        BY <2>1, <3>1
      <4>2. QED
        BY <4>1
    <3>2. CASE ShopOf[s] \notin ShopsIn(b)
      <4>1. ShopOf[s] # o[2]
        BY <2>1, <3>2
      <4>2. b[s] = 0
        BY <3>2, TradeAssumption DEF ShopsIn, Baskets, Quantities
      <4>3. QED
        BY <4>1, <4>2
    <3>3. QED
      BY <3>1, <3>2
  <2>3. QED
    BY <2>2 DEF PartAt
<1>6. /\ status' = [o \in Orders |-> IF o \in new THEN "PENDING_PAYMENT" ELSE status[o]]
      /\ basket' = [o \in Orders |-> IF o \in new THEN PartAt(b, o[2]) ELSE basket[o]]
      /\ available' = [s \in Skus |-> available[s] - b[s]]
      /\ \A s \in Skus : available[s] >= b[s]
  BY DEF PlaceOrders, CanLock
<1>7. basket' = [o \in Orders |->
                   IF o \in new
                   THEN [s \in Skus |-> IF taker[s] = o THEN b[s] ELSE 0]
                   ELSE basket[o]]
  BY <1>5, <1>6
<1>8. \A s \in Skus : b[s] <= available[s]
  BY <1>6, TradeAssumption DEF TypeOK, Baskets, Quantities
<1> HIDE DEF taker
<1>9. \E t \in [Skus -> new] :
        basket' = [o \in Orders |->
                     IF o \in new
                     THEN [s \in Skus |-> IF t[s] = o THEN b[s] ELSE 0]
                     ELSE basket[o]]
  BY <1>4, <1>7
<1> HIDE DEF new
<1>10. Book!Place(new)
  <2>1. new \subseteq Book!Fresh
    BY <1>1 DEF Book!Fresh
  <2>2. been' = been
    BY DEF PlaceOrders, claimVars
  <2>3. QED
    BY <2>1, <2>2, <1>6, <1>8, <1>9 DEF Book!Place
<1>11. new \in (SUBSET Book!Fresh) \ {{}}
  BY <1>1, <1>3 DEF Book!Fresh
<1>12. QED
  BY <1>10, <1>11 DEF Book!Next

(* Closing is Cancel of the order book.                                    *)
LEMMA CloseRefines ==
  ASSUME TypeOK, NEW o \in Orders, Close(o)
  PROVE  Book!Next
<1>1. Book!Cancel(o)
  BY DEF Close, Closable, claimVars, Book!Cancel
<1>2. QED
  BY <1>1 DEF Book!Next

(* Fulfilment advances the order book.                                     *)
LEMMA MoveRefines ==
  ASSUME NEW o \in Orders, NEW m \in Book!Moves, Move(o, m[1], m[2])
  PROVE  Book!Next
<1>1. Book!Advance(o, m)
  BY DEF Move, Reach, Book!Advance, stockVars
<1>2. QED
  BY <1>1 DEF Book!Next

(* A settled payment is an advance of the order book.                      *)
LEMMA SellRefines ==
  ASSUME NEW p \in Payments, NEW o \in Orders, Sell(p, o)
  PROVE  Book!Next
<1> DEFINE m == <<"PENDING_PAYMENT", "PAID">>
<1>1. m \in Book!Moves
  BY DEF Book!Moves
<1>2. m[1] = "PENDING_PAYMENT" /\ m[2] = "PAID"
  OBVIOUS
<1>3. Book!Advance(o, m)
  BY <1>1, <1>2 DEF Sell, Reach, Book!Advance
<1>4. QED
  BY <1>1, <1>3 DEF Book!Next

(* What an after-sale does to its order and the shelf is a Claim.          *)
LEMMA AfterSaleRefines ==
  ASSUME TypeOK, NEW o \in Orders, NEW back \in Baskets, AfterSaleStep(o, back)
  PROVE  Book!Next
<1>1. /\ status[o] \in Paid /\ GoBack(o, back)
      /\ UNCHANGED <<basket, been>>
  BY AfterSaleEffect
<1>2. \E to \in been[o] \cup Book!Held : status' = [status EXCEPT ![o] = to]
  BY DEF AfterSaleStep, ClaimStep, RefundInFull, Book!Held
<1>3. \E returned \in Baskets :
        /\ \A s \in Skus : returned[s] <= basket[o][s]
        /\ available' = [s \in Skus |-> available[s] + returned[s]]
  BY <1>1 DEF GoBack
<1>4. Book!Claim(o)
  BY <1>1, <1>2, <1>3 DEF Book!Claim, Paid, Applicable
<1>5. QED
  BY <1>4 DEF Book!Next

(* Every step of checkout is a step of the order book or none.             *)
LEMMA StepRefines == TypeOK /\ [Next]_vars => [Book!Next]_(Book!vars)
<1> SUFFICES ASSUME TypeOK, [Next]_vars
             PROVE  Book!Next \/ UNCHANGED <<status, basket, been, available>>
  BY DEF Book!vars
<1>1. ASSUME NEW r \in Requests, NEW b \in Baskets, NEW use \in Uses,
             CreateCartOrders(r, b, use) \/ CreateOrder(r, b, use)
      PROVE  Book!Next
  BY <1>1, PlaceRefines DEF CreateCartOrders, CreateOrder
<1>2. ASSUME NEW o \in Orders, OrderStep(o)
      PROVE  Book!Next \/ UNCHANGED <<status, basket, been, available>>
  <2>1. CASE Expire(o)
    BY <2>1 DEF Expire, claimVars, stockVars
  <2>2. CASE CancelOrder(o) \/ CloseExpiredOrder(o)
    BY <2>2, CloseRefines DEF CancelOrder, CloseExpiredOrder
  <2>3. CASE AcceptOrder(o)
    <3>1. <<"PAID", "PROCESSING">> \in Book!Moves
      BY DEF Book!Moves
    <3>2. QED
      BY <2>3, <3>1, MoveRefines DEF AcceptOrder
  <2>4. CASE ShipOrder(o)
    <3>1. <<"PROCESSING", "SHIPPED">> \in Book!Moves
      BY DEF Book!Moves
    <3>2. QED
      BY <2>4, <3>1, MoveRefines DEF ShipOrder, ShipFrom
  <2>5. CASE ConfirmReceipt(o) \/ AutoReceiveOrder(o)
    <3>1. <<"SHIPPED", "COMPLETED">> \in Book!Moves
      BY DEF Book!Moves
    <3>2. QED
      BY <2>5, <3>1, MoveRefines DEF ConfirmReceipt, AutoReceiveOrder
  <2>6. QED
    BY <1>2, <2>1, <2>2, <2>3, <2>4, <2>5 DEF OrderStep
<1>3. ASSUME NEW p \in Payments, PaymentStep(p)
      PROVE  Book!Next \/ UNCHANGED <<status, basket, been, available>>
  <2> OrderOf[p] \in Orders
    BY TradeAssumption
  <2>1. CASE Sell(p, OrderOf[p])
    BY <2>1, SellRefines
  <2>2. CASE ~Sell(p, OrderOf[p])
    BY <1>3, <2>2
       DEF PaymentStep, CreatePaymentRead, CreatePaymentWrite, MockPay,
           QueryPayment, ApplyPaymentQueryResult, ApplyAnswer, ApplySuccessfulPayment,
           orderVars, claimVars, stockVars
  <2>3. QED
    BY <2>1, <2>2
<1>4. ASSUME NEW e \in Events, ProcessCallback(e)
      PROVE  Book!Next \/ UNCHANGED <<status, basket, been, available>>
  <2> e[1] \in Payments /\ OrderOf[e[1]] \in Orders
    BY TradeAssumption
  <2>1. CASE Sell(e[1], OrderOf[e[1]])
    BY <2>1, SellRefines
  <2>2. CASE ~Sell(e[1], OrderOf[e[1]])
    BY <1>4, <2>2
       DEF ProcessCallback, ApplySuccessfulPayment, orderVars, claimVars, stockVars
  <2>3. QED
    BY <2>1, <2>2
<1>5. ASSUME NEW e \in Events, PurgeCallback(e)
      PROVE  UNCHANGED <<status, basket, been, available>>
  BY <1>5 DEF PurgeCallback, orderVars, claimVars, stockVars
<1>6. ASSUME NEW s \in Skus, NEW d \in Corrections, AdjustInventory(s, d)
      PROVE  Book!Next
  <2>1. Book!Correct(s)
    BY <1>6, TradeAssumption
       DEF AdjustInventory, Book!Correct, TypeOK, orderVars, claimVars
  <2>2. QED
    BY <2>1 DEF Book!Next
<1>7. CASE UNCHANGED vars
  BY <1>7 DEF vars, orderVars, claimVars, stockVars
<1>8. ASSUME NEW o \in Orders, NEW back \in Baskets, AfterSaleStep(o, back)
      PROVE  Book!Next
  BY <1>8, AfterSaleRefines
<1>9. QED
  BY <1>1, <1>2, <1>3, <1>4, <1>5, <1>6, <1>7, <1>8 DEF Next

(* Seen from its caller, checkout with its locks, payments, callbacks and  *)
(* queries is an order book: goods leave the shelf when an order is placed *)
(* and come back only when it is cancelled unpaid, and orders move only    *)
(* along the documented state machine.                                     *)
THEOREM TradeImplementsOrderBook == Spec => ImplementsOrderBook
<1>1. Init => Book!Init
  BY TradeAssumption DEF Init, Book!Init
<1>2. QED
  BY <1>1, InitTypeOK, StepTypeOK, StepRefines, PTL DEF Spec, ImplementsOrderBook, Book!Spec

-----------------------------------------------------------------------------
(* Coupons, seen alone *)

(* Where a coupon's order is follows from its status and its refunds.      *)
StageFollows ==
  \A o \in Orders :
    /\ status[o] = "NONE" => Stage(o) = "NONE"
    /\ status[o] = "PENDING_PAYMENT" => Stage(o) = "UNPAID"
    /\ status[o] = "CANCELLED" => Stage(o) = "CANCELLED"
    /\ status[o] \in Paid /\ o \notin repaid => Stage(o) = "PAID"
    /\ o \in repaid => Stage(o) = "REPAID"
    /\ Stage(o) = "NONE" => status[o] = "NONE"

(* It does in every typed state.                                           *)
LEMMA StageCases == TypeOK => StageFollows
  BY DEF StageFollows, Stage, TypeOK, OrderStatus, Live, Paid, Applicable

(* And in the next one.                                                    *)
LEMMA StageCasesNext == TypeOK' => StageFollows'
  BY DEF StageFollows, Stage, TypeOK, OrderStatus, Live, Paid, Applicable

(* A step that takes one order from one stage to the next and no other.    *)
LEMMA StageOfOne ==
  ASSUME TypeOK, TypeOK', NEW o \in Orders,
         \A n \in Orders \ {o} : status'[n] = status[n] /\ (n \in repaid' <=> n \in repaid)
  PROVE  [n \in Orders |-> Stage(n)]' = [[n \in Orders |-> Stage(n)] EXCEPT ![o] = Stage(o)']
<1>1. ASSUME NEW n \in Orders \ {o} PROVE Stage(n)' = Stage(n)
  BY StageCases, StageCasesNext DEF StageFollows, TypeOK, OrderStatus, Live
<1>2. QED
  BY <1>1

(* Steps that leave every order in its stage.                              *)
StaysPut(n) == status'[n] = status[n] \/ (status[n] \in Paid /\ status'[n] \in Paid)

(* They leave the orders of CouponBook as they are.                        *)
LEMMA StageKept ==
  ASSUME TypeOK, TypeOK', repaid' = repaid,
         \A n \in Orders : StaysPut(n)
  PROVE  [n \in Orders |-> Stage(n)]' = [n \in Orders |-> Stage(n)]
<1>1. ASSUME NEW n \in Orders PROVE Stage(n)' = Stage(n)
  BY StageCases, StageCasesNext DEF StaysPut, StageFollows, TypeOK, OrderStatus, Live
<1>2. QED
  BY <1>1

(* Placing orders spends their coupons, each on one of them.               *)
LEMMA PlaceSpends ==
  ASSUME TypeOK, TypeOK', NEW r \in Requests, NEW b \in Baskets, NEW use \in Uses,
         PlaceOrders(r, b, use)
  PROVE  Spending!Next
<1> DEFINE new == {r} \X ShopsIn(b)
<1>1. /\ ShopsIn(b) \subseteq Shops /\ new \subseteq Orders /\ new # {}
      /\ \A o \in new : status[o] = "NONE" /\ o[2] \in ShopsIn(b) /\ o = <<r, o[2]>>
  <2>1. PICK x \in ShopsIn(b) : TRUE
    BY DEF PlaceOrders
  <2>2. <<r, x>> \in new
    OBVIOUS
  <2>3. QED
    BY <2>2, NewOrders DEF PlaceOrders
<1>2. \A sh \in ShopsIn(b) : <<r, sh>> \in new
  OBVIOUS
<1> HIDE DEF new
<1> DEFINE with == [o \in new |-> use[o[2]]]
           stg  == [o \in Orders |-> Stage(o)]
<1>3. new \subseteq Spending!Fresh
  BY <1>1, StageCases DEF StageFollows, Spending!Fresh
<1>4. \A sh \in ShopsIn(b) : /\ use[sh] \in Coupons \cup {NoCoupon}
                             /\ use[sh] # NoCoupon => CanUse(use[sh], sh)
  BY <1>1 DEF PlaceOrders, Uses
<1>5. ASSUME NEW o \in new PROVE with[o] \in Coupons \cup {NoCoupon}
  <2>1. with[o] = use[o[2]] /\ o[2] \in ShopsIn(b)
    BY <1>1
  <2>2. QED
    BY <2>1, <1>4
<1>6. ASSUME NEW o \in new, with[o] # NoCoupon PROVE Spending!Usable(with[o])
  <2>1. with[o] = use[o[2]] /\ o[2] \in ShopsIn(b)
    BY <1>1
  <2>2. QED
    BY <2>1, <1>4, <1>6 DEF CanUse, Spending!Usable
<1>7. ASSUME NEW o \in new, NEW n \in new, with[o] = with[n], with[o] # NoCoupon
      PROVE  o = n
  <2>1. /\ with[o] = use[o[2]] /\ o[2] \in ShopsIn(b) /\ o = <<r, o[2]>>
        /\ with[n] = use[n[2]] /\ n[2] \in ShopsIn(b) /\ n = <<r, n[2]>>
    BY <1>1
  <2>2. CouponShop[use[o[2]]] = o[2] /\ CouponShop[use[n[2]]] = n[2]
    BY <2>1, <1>4, <1>7 DEF CanUse
  <2>3. QED
    BY <2>1, <2>2, <1>7
<1>8. stg' = [o \in Orders |-> IF o \in new THEN "UNPAID" ELSE stg[o]]
  <2>1. ASSUME NEW o \in Orders, o \in new PROVE Stage(o)' = "UNPAID"
    <3>1. status'[o] = "PENDING_PAYMENT"
      BY <2>1 DEF PlaceOrders, new
    <3>2. QED
      BY <3>1, StageCasesNext DEF StageFollows
  <2>2. ASSUME NEW o \in Orders, o \notin new PROVE Stage(o)' = Stage(o)
    BY <2>2 DEF PlaceOrders, claimVars, Stage, new
  <2>3. QED
    BY <2>1, <2>2
<1>9. couponOf' = [o \in Orders |-> IF o \in new THEN with[o] ELSE couponOf[o]]
  BY DEF PlaceOrders, new
<1>10. coupon' = [c \in Coupons |->
                   IF \E o \in new : with[o] = c THEN "USED" ELSE coupon[c]]
  <2>1. \A c \in Coupons : c \in {use[sh] : sh \in ShopsIn(b)} \ {NoCoupon} <=>
                           \E o \in new : with[o] = c
    <3>1. ASSUME NEW c \in Coupons, NEW sh \in ShopsIn(b), use[sh] = c
          PROVE  \E o \in new : with[o] = c
      <4>1. <<r, sh>> \in new /\ with[<<r, sh>>] = c
        BY <3>1, <1>2
      <4>2. QED
        BY <4>1
    <3>2. QED
      BY <3>1, <1>1, TradeAssumption
  <2>2. QED
    BY <2>1 DEF PlaceOrders, new
<1>11. with \in [new -> Coupons \cup {NoCoupon}]
  BY <1>5
<1> HIDE DEF with
<1>12. Spending!Place(new, with)
  BY <1>3, <1>6, <1>7, <1>8, <1>9, <1>10 DEF Spending!Place
<1>13. QED
  BY <1>1, <1>3, <1>11, <1>12 DEF Spending!Next

(* Closing an order cancels it.                                            *)
LEMMA CloseSpends ==
  ASSUME TypeOK, TypeOK', CouponSpentOnce, NEW o \in Orders, Close(o)
  PROVE  Spending!Next
<1>1. /\ Stage(o) = "UNPAID" /\ Stage(o)' = "CANCELLED"
      /\ \A n \in Orders \ {o} : status'[n] = status[n] /\ (n \in repaid' <=> n \in repaid)
  BY StageCases, StageCasesNext DEF StageFollows, Close, Closable, claimVars, TypeOK
<1>2. Spending!Cancel(o)
  BY <1>1, StageOfOne, CloseReturns DEF Close, Spending!Cancel, Spending!Return
<1>3. QED
  BY <1>2 DEF Spending!Next

(* A settled payment pays its order.                                       *)
LEMMA SellSpends ==
  ASSUME TypeOK, TypeOK', NEW p \in Payments, NEW o \in Orders, Sell(p, o)
  PROVE  Spending!Next
<1>1. status[o] = "PENDING_PAYMENT" /\ status'[o] \in Paid /\ o \notin repaid'
  BY DEF Sell, Reach, TypeOK, Paid, Applicable
<1>2. /\ Stage(o) = "UNPAID" /\ Stage(o)' = "PAID"
      /\ \A n \in Orders \ {o} : status'[n] = status[n] /\ (n \in repaid' <=> n \in repaid)
  BY <1>1, StageCases, StageCasesNext DEF StageFollows, Sell, Reach, TypeOK
<1>3. Spending!Pay(o)
  BY <1>2, StageOfOne DEF Sell, Spending!Pay
<1>4. QED
  BY <1>3 DEF Spending!Next

(* A claim that repays an order in full gives its coupon back, any other   *)
(* step of a claim is none of the book.                                    *)
LEMMA AfterSaleSpends ==
  ASSUME TypeOK, TypeOK', NEW o \in Orders, NEW back \in Baskets, AfterSaleStep(o, back)
  PROVE  Spending!Next \/ UNCHANGED Spending!vars
<1>1. ASSUME NEW to, ClaimStep(o, to, back) PROVE UNCHANGED Spending!vars
  <2>1. /\ \A n \in Orders : StaysPut(n)
        /\ UNCHANGED <<couponOf, coupon, repaid>>
    BY <1>1, AfterSaleEffect DEF ClaimStep, claimVars, StaysPut
  <2>2. QED
    BY <2>1, StageKept DEF Spending!vars
<1>2. ASSUME NEW verdict, RefundInFull(o, verdict, back) PROVE Spending!Next
  <2>1. /\ Stage(o) = "PAID" /\ Stage(o)' = "REPAID"
        /\ \A n \in Orders \ {o} : status'[n] = status[n] /\ (n \in repaid' <=> n \in repaid)
    BY <1>2, StageCases, StageCasesNext DEF StageFollows, RefundInFull, TypeOK
  <2>2. Spending!Repay(o, verdict)
    BY <1>2, <2>1, StageOfOne
       DEF RefundInFull, CouponAfterRefund, Spending!Repay, Spending!Return
  <2>3. QED
    BY <1>2, <2>2 DEF RefundInFull, Spending!Next
<1>3. QED
  BY <1>1, <1>2 DEF AfterSaleStep

(* Every step is one of the coupon book's or leaves it alone.              *)
LEMMA StepSpends ==
  TypeOK /\ TypeOK' /\ CouponSpentOnce /\ [Next]_vars => [Spending!Next]_(Spending!vars)
<1> SUFFICES ASSUME TypeOK, TypeOK', CouponSpentOnce, [Next]_vars
             PROVE  Spending!Next \/ UNCHANGED Spending!vars
  OBVIOUS
<1> DEFINE Same == /\ \A n \in Orders : StaysPut(n)
                   /\ UNCHANGED <<couponOf, coupon, repaid>>
<1>1. ASSUME Same PROVE UNCHANGED Spending!vars
  BY <1>1, StageKept DEF Spending!vars
<1> HIDE DEF Same
<1>2. ASSUME NEW r \in Requests, NEW b \in Baskets, NEW use \in Uses,
             CreateCartOrders(r, b, use) \/ CreateOrder(r, b, use)
      PROVE  Spending!Next
  BY <1>2, PlaceSpends DEF CreateCartOrders, CreateOrder
<1>3. ASSUME NEW o \in Orders, OrderStep(o)
      PROVE  Spending!Next \/ UNCHANGED Spending!vars
  <2>1. CASE CancelOrder(o) \/ CloseExpiredOrder(o)
    BY <2>1, CloseSpends DEF CancelOrder, CloseExpiredOrder
  <2>2. CASE ~CancelOrder(o) /\ ~CloseExpiredOrder(o)
    <3>1. Same
      BY <1>3, <2>2
         DEF Same, StaysPut, OrderStep, Expire, AcceptOrder, ShipOrder, ShipFrom, ConfirmReceipt,
             AutoReceiveOrder, Move, Reach, claimVars, Paid, Applicable, TypeOK
    <3>2. QED
      BY <3>1, <1>1
  <2>3. QED
    BY <2>1, <2>2
<1>4. ASSUME NEW p \in Payments, PaymentStep(p)
      PROVE  Spending!Next \/ UNCHANGED Spending!vars
  <2> OrderOf[p] \in Orders
    BY TradeAssumption
  <2>1. CASE Sell(p, OrderOf[p])
    BY <2>1, SellSpends
  <2>2. CASE ~Sell(p, OrderOf[p])
    <3>1. Same
      BY <1>4, <2>2
         DEF Same, StaysPut, PaymentStep, CreatePaymentRead, CreatePaymentWrite, MockPay,
             QueryPayment, ApplyPaymentQueryResult, ApplyAnswer, ApplySuccessfulPayment,
             orderVars, claimVars
    <3>2. QED
      BY <3>1, <1>1
  <2>3. QED
    BY <2>1, <2>2
<1>5. ASSUME NEW e \in Events, ProcessCallback(e)
      PROVE  Spending!Next \/ UNCHANGED Spending!vars
  <2> e[1] \in Payments /\ OrderOf[e[1]] \in Orders
    BY TradeAssumption
  <2>1. CASE Sell(e[1], OrderOf[e[1]])
    BY <2>1, SellSpends
  <2>2. CASE ~Sell(e[1], OrderOf[e[1]])
    <3>1. Same
      BY <1>5, <2>2 DEF Same, StaysPut, ProcessCallback, ApplySuccessfulPayment, orderVars, claimVars
    <3>2. QED
      BY <3>1, <1>1
  <2>3. QED
    BY <2>1, <2>2
<1>6. ASSUME NEW e \in Events, PurgeCallback(e) PROVE UNCHANGED Spending!vars
  BY <1>6, <1>1 DEF Same, StaysPut, PurgeCallback, orderVars, claimVars
<1>7. ASSUME NEW s \in Skus, NEW d \in Corrections, AdjustInventory(s, d)
      PROVE  UNCHANGED Spending!vars
  BY <1>7, <1>1 DEF Same, StaysPut, AdjustInventory, orderVars, claimVars
<1>8. CASE UNCHANGED vars
  BY <1>8, <1>1 DEF Same, StaysPut, vars, orderVars, claimVars
<1>9. ASSUME NEW o \in Orders, NEW back \in Baskets, AfterSaleStep(o, back)
      PROVE  Spending!Next \/ UNCHANGED Spending!vars
  BY <1>9, AfterSaleSpends
<1>10. QED
  BY <1>2, <1>3, <1>4, <1>5, <1>6, <1>7, <1>8, <1>9 DEF Next

(* A coupon, once spent, stays with the one order that names it, and comes *)
(* back exactly when that order is cancelled unpaid or repaid in full,     *)
(* whichever of cancelling, expiry, payments and claims get there.         *)
THEOREM TradeImplementsCouponBook == Spec => ImplementsCouponBook
<1>1. Init => Spending!Init
  <2>1. Init => StageFollows
    BY InitTypeOK, StageCases
  <2>2. QED
    BY <2>1 DEF Init, StageFollows, Spending!Init
<1>2. QED
  BY <1>1, InitTypeOK, StepTypeOK, CouponSpentOnceAlways, StepSpends, PTL
     DEF Spec, ImplementsCouponBook, Spending!Spec
=============================================================================
