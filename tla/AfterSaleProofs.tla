--------------------------- MODULE AfterSaleProofs ---------------------------
(* Theorems about AfterSale and, at the end, about AfterSaleRaces, for     *)
(* every value of their constants.                                         *)
EXTENDS AfterSaleRaces, FiniteSetTheorems, TLAPS

(* The order just paid is well typed.                                      *)
LEMMA InitTypeOK == Init => TypeOK
<1> SUFFICES ASSUME Init PROVE TypeOK
  OBVIOUS
<1>1. units \in [Claims -> Parts]
  BY AfterSaleAssumption DEF Init, Parts
<1>2. /\ refunded \in Amounts
      /\ requested \in [Claims -> Amounts] /\ approved \in [Claims -> Amounts]
      /\ amount \in [Claims -> Amounts] /\ attempt \in [Claims -> 0 .. MaxRetries]
      /\ restocked \in [Lines -> Nat]
  BY AfterSaleAssumption DEF Init, Amounts
<1>3. QED
  BY <1>1, <1>2
     DEF Init, TypeOK, OrderStatus, Applicable, SaleStatus, RefundStatus, Outcomes

(* A claim's order goes back to a status a claim can be made in.           *)
LEMMA StatusTyped ==
  ASSUME TypeOK, NEW c \in Claims
  PROVE  /\ Released(c) \in OrderStatus
         /\ OrderGranted(c) \in OrderStatus
         /\ Granted(c) \in SaleStatus
         /\ sale[c] \in TimedStages => sale[c] \in News
  BY DEF TypeOK, Released, OrderGranted, Granted, OrderStatus, SaleStatus, Active, News

(* Restocking a claim's goods keeps the types.                             *)
LEMMA ReturnStockTyped ==
  ASSUME TypeOK, NEW c \in Claims, NEW row, ReturnStock(c, row)
  PROVE  stockBack' \subseteq Claims /\ restocked' \in [Lines -> Nat]
<1>1. \A l \in Lines : units[c][l] \in Nat
  BY AfterSaleAssumption DEF TypeOK, Parts
<1>2. QED
  BY <1>1 DEF TypeOK, ReturnStock

(* A refund that goes through keeps the types: the sum of the refunds      *)
(* stays within what was paid.                                             *)
LEMMA CompleteRefundTyped ==
  ASSUME TypeOK, NEW c \in Claims, NEW n \in Amounts,
         NEW row, row.refunded \in Amounts, CompleteRefund(c, n, row)
  PROVE  TypeOK'
<1>1. refunded' \in Amounts
  BY AfterSaleAssumption
     DEF TypeOK, CompleteRefund, WithinPayment, RefundedAfter, Amounts
<1>2. stockBack' \subseteq Claims /\ restocked' \in [Lines -> Nat]
  BY ReturnStockTyped DEF CompleteRefund, TypeOK, stockVars
<1>3. order' \in OrderStatus
  BY StatusTyped DEF CompleteRefund, OrderStatus
<1>4. /\ refund' \in [Claims -> RefundStatus]
      /\ amount' \in [Claims -> Amounts]
      /\ sale' \in [Claims -> SaleStatus]
      /\ reversed' \subseteq Claims
      /\ outbox' \subseteq Claims \X News
      /\ pay' \in {"SUCCESS", "PARTIALLY_REFUNDED", "REFUNDED"}
      /\ coupon' \in {"USED", "AVAILABLE", "EXPIRED"}
  BY DEF TypeOK, CompleteRefund, SetSale, Tell, RefundStatus, SaleStatus, News
<1>5. QED
  BY <1>1, <1>2, <1>3, <1>4 DEF TypeOK, CompleteRefund

(* The row a transaction reads is typed.                                   *)
LEMMA RowTyped == ASSUME TypeOK, NEW c \in Claims PROVE Row(c).refunded \in Amounts
  BY DEF TypeOK, Row

(* What runs alone keeps the types.                                        *)
LEMMA SerialTypeOK ==
  ASSUME TypeOK, NEW c \in Claims, SerialStep(c)
  PROVE  TypeOK'
<1>1. ASSUME NEW u \in Parts, NEW n \in Amounts, CreateAfterSale(c, u, n)
      PROVE  TypeOK'
  BY <1>1 DEF CreateAfterSale, SetSale, Tell, TypeOK, stockVars, refundVars,
              OrderStatus, SaleStatus, Active, News
<1>2. CASE SubmitReturnShipment(c)
  BY <1>2 DEF SubmitReturnShipment, SetSale, ClearReminder, Tell, TypeOK, orderVars,
              stockVars, refundVars, SaleStatus, Active, News
<1>3. CASE RequestArbitration(c)
  BY <1>3 DEF RequestArbitration, SetSale, ClearReminder, TypeOK, stockVars,
              refundVars, OrderStatus, SaleStatus, Active
<1>4. ASSUME NEW n \in Amounts, ResolveArbitration(c, n) PROVE TypeOK'
  <2>1. order' \in OrderStatus
    BY <1>4, StatusTyped DEF ResolveArbitration
  <2>2. sale' \in [Claims -> SaleStatus]
    BY <1>4, StatusTyped DEF ResolveArbitration, SetSale, TypeOK, SaleStatus
  <2>3. /\ arb' \in [Claims -> {"NONE", "PENDING", "RESOLVED"}]
        /\ approved' \in [Claims -> Amounts]
        /\ outbox' \subseteq Claims \X News
    BY <1>4 DEF ResolveArbitration, Verdict, Tell, TypeOK, News
  <2>4. QED
    BY <1>4, <2>1, <2>2, <2>3
       DEF ResolveArbitration, TypeOK, stockVars, refundVars
<1>5. CASE CreateRefund(c)
  BY <1>5 DEF CreateRefund, AmountToRefund, ClearReminder, TypeOK, orderVars,
              stockVars, RefundStatus
<1>6. CASE MockRefund(c)
  BY <1>6, RowTyped, CompleteRefundTyped DEF MockRefund, TypeOK
<1>7. ASSUME NEW e \in Attempts, NEW result \in Outcomes, e[1] = c, SettleRefund(e, result)
      PROVE  TypeOK'
  BY <1>7 DEF SettleRefund, TypeOK, orderVars, saleVars, stockVars, refundVars
<1>8. CASE RemindOverdueAfterSale(c)
  BY <1>8, StatusTyped, AfterSaleAssumption
     DEF RemindOverdueAfterSale, Remind, Tell, TypeOK, orderVars, stockVars,
         refundVars
<1>9. QED
  BY <1>1, <1>2, <1>3, <1>4, <1>5, <1>6, <1>7, <1>8 DEF SerialStep

(* So does what writes on the strength of a row, which need not be the     *)
(* current one.                                                            *)
LEMMA RowTypeOK ==
  ASSUME TypeOK, NEW c \in Claims, NEW row, row.refunded \in Amounts,
         \/ \E n \in Amounts : ReviewAfterSale(c, n, row)
         \/ ConfirmReturn(c, row)
         \/ RetryRefund(c, row)
         \/ \E e \in Attempts : e[1] = c /\ ProcessRefundCallback(e, row)
  PROVE  TypeOK'
<1>1. ASSUME NEW n \in Amounts, ReviewAfterSale(c, n, row) PROVE TypeOK'
  <2>1. order' \in OrderStatus
    BY <1>1, StatusTyped DEF ReviewAfterSale
  <2>2. sale' \in [Claims -> SaleStatus]
    BY <1>1, StatusTyped DEF ReviewAfterSale, SetSale, TypeOK, SaleStatus
  <2>3. QED
    BY <1>1, <2>1, <2>2
       DEF ReviewAfterSale, ClearReminder, Tell, TypeOK, stockVars, refundVars, News
<1>2. CASE ConfirmReturn(c, row)
  <2>1. stockBack' \subseteq Claims /\ restocked' \in [Lines -> Nat]
    BY <1>2, ReturnStockTyped DEF ConfirmReturn
  <2>2. QED
    BY <1>2, <2>1
       DEF ConfirmReturn, SetSale, ClearReminder, Tell, TypeOK, refundVars,
           OrderStatus, SaleStatus, Active, News
<1>3. CASE RetryRefund(c, row)
  <2>1. attempt' \in [Claims -> 0 .. MaxRetries]
    BY <1>3, AfterSaleAssumption DEF RetryRefund, TypeOK
  <2>2. QED
    BY <1>3, <2>1
       DEF RetryRefund, ClearReminder, TypeOK, orderVars, stockVars, RefundStatus
<1>4. ASSUME NEW e \in Attempts, e[1] = c, ProcessRefundCallback(e, row)
      PROVE  TypeOK'
  <2>1. CASE CompleteRefund(c, amount[c], row)
    BY <2>1, CompleteRefundTyped DEF TypeOK
  <2>2. CASE ~CompleteRefund(c, amount[c], row)
    BY <1>4, <2>2
       DEF ProcessRefundCallback, TypeOK, orderVars, saleVars, stockVars, RefundStatus
  <2>3. QED
    BY <2>1, <2>2
<1>5. QED
  BY <1>1, <1>2, <1>3, <1>4

(* Fulfilment keeps the types, and so does a step of somebody else.        *)
LEMMA OtherTypeOK == TypeOK /\ (OtherStep \/ UNCHANGED vars) => TypeOK'
<1> SUFFICES ASSUME TypeOK, OtherStep \/ UNCHANGED vars PROVE TypeOK'
  OBVIOUS
<1>1. CASE OtherStep
  BY <1>1 DEF OtherStep, AcceptOrder, ShipOrder, ReceiveOrder, Fulfil,
              TypeOK, orderVars, saleVars, stockVars, refundVars, OrderStatus,
              Applicable
<1>2. CASE UNCHANGED vars
  BY <1>2 DEF vars, orderVars, saleVars, stockVars, refundVars, TypeOK
<1>3. QED
  BY <1>1, <1>2

(* Every step keeps the types.                                             *)
LEMMA StepTypeOK == TypeOK /\ [Next]_vars => TypeOK'
<1> SUFFICES ASSUME TypeOK, [Next]_vars PROVE TypeOK'
  OBVIOUS
<1>1. CASE OtherStep \/ UNCHANGED vars
  BY <1>1, OtherTypeOK
<1>2. ASSUME NEW c \in Claims, SerialStep(c) PROVE TypeOK'
  BY <1>2, SerialTypeOK
<1>3. ASSUME NEW c \in Claims, DefaultStep(c) PROVE TypeOK'
  BY <1>3, RowTyped, RowTypeOK DEF DefaultStep
<1>4. QED
  BY <1>1, <1>2, <1>3 DEF Next

(* In every reachable state the columns hold what the schema lets them; in *)
(* particular an order never counts more as refunded than was paid.        *)
THEOREM TypeCorrect == Spec => []TypeOK
  BY InitTypeOK, StepTypeOK, PTL DEF Spec

-----------------------------------------------------------------------------
(* A claim, its refund and its case *)

(* What the rows of one claim say of each other: the bodies of             *)
(* CompletedIffRefunded, OpenRefundIsExpected, ArbitrationIsOpen and       *)
(* GoodsBeforeMoney, and what makes them inductive: an open refund is of a *)
(* positive amount, a return waits for its goods before it refunds, and    *)
(* goods come back only for a claim that was made.                         *)
Agrees(c) ==
  /\ sale[c] = "COMPLETED" <=> refund[c] = "SUCCESS"
  /\ refund[c] = "SUCCESS" <=> c \in reversed
  /\ refund[c] \in {"PENDING", "FAILED"} =>
       sale[c] = "REFUNDING" /\ amount[c] = approved[c] /\ approved[c] > 0
  /\ arb[c] = "PENDING" <=> sale[c] = "ARBITRATING"
  /\ sale[c] = "REFUNDING" /\ Type(c) = "RETURN_REFUND" => c \in stockBack
  /\ sale[c] = "COMPLETED" => c \in stockBack
  /\ c \in stockBack => sale[c] # "NONE"

(* The inductive invariant while transactions do not overlap.              *)
Consistent == TypeOK /\ \A c \in Claims : Agrees(c)

(* A step leaves the rows of claim d alone.                                *)
SameRows(d) ==
  /\ sale'[d] = sale[d] /\ previous'[d] = previous[d] /\ approved'[d] = approved[d]
  /\ refund'[d] = refund[d] /\ amount'[d] = amount[d] /\ attempt'[d] = attempt[d]
  /\ arb'[d] = arb[d]
  /\ d \in stockBack' <=> d \in stockBack
  /\ d \in reversed' <=> d \in reversed

(* Rows left alone stay in agreement.                                      *)
LEMMA SameRowsAgree ==
  ASSUME NEW d \in Claims, Agrees(d), SameRows(d)
  PROVE  Agrees(d)'
  BY DEF Agrees, SameRows, Type

(* A transaction on one claim touches the rows of no other.                *)
LEMMA OthersUntouched ==
  ASSUME TypeOK, NEW c \in Claims, NEW d \in Claims \ {c},
         SerialStep(c) \/ DefaultStep(c)
  PROVE  SameRows(d)
<1> USE DEF TypeOK, SameRows, orderVars, saleVars, stockVars, refundVars
<1>1. ASSUME NEW n, CompleteRefund(c, n, Row(c)) PROVE SameRows(d)
  BY <1>1 DEF CompleteRefund, ReturnStock, SetSale
<1>2. ASSUME NEW u \in Parts, NEW n \in Amounts, CreateAfterSale(c, u, n)
      PROVE  SameRows(d)
  BY <1>2 DEF CreateAfterSale, SetSale
<1>3. CASE SubmitReturnShipment(c) \/ RequestArbitration(c) \/ RemindOverdueAfterSale(c)
  BY <1>3 DEF SubmitReturnShipment, RequestArbitration, RemindOverdueAfterSale, SetSale
<1>4. ASSUME NEW n \in Amounts, ResolveArbitration(c, n)
      PROVE  SameRows(d)
  BY <1>4 DEF ResolveArbitration, Verdict, SetSale
<1>5. CASE CreateRefund(c) \/ RetryRefund(c, Row(c))
  BY <1>5 DEF CreateRefund, RetryRefund
<1>6. CASE MockRefund(c)
  BY <1>6, <1>1 DEF MockRefund
<1>7. ASSUME NEW e \in Attempts, NEW result \in Outcomes, e[1] = c, SettleRefund(e, result)
      PROVE  SameRows(d)
  BY <1>7 DEF SettleRefund, Attempts
<1>8. ASSUME NEW n \in Amounts, ReviewAfterSale(c, n, Row(c)) PROVE SameRows(d)
  BY <1>8 DEF ReviewAfterSale, SetSale
<1>9. CASE ConfirmReturn(c, Row(c))
  BY <1>9 DEF ConfirmReturn, ReturnStock, SetSale
<1>10. ASSUME NEW e \in Attempts, e[1] = c, ProcessRefundCallback(e, Row(c))
       PROVE  SameRows(d)
  BY <1>10, <1>1 DEF ProcessRefundCallback
<1>11. QED
  BY <1>2, <1>3, <1>4, <1>5, <1>6, <1>7, <1>8, <1>9, <1>10 DEF SerialStep, DefaultStep

(* A refund that goes through completes its claim, reverses the revenue    *)
(* and finds the goods back, or takes them back.                           *)
LEMMA CompleteRefundAgrees ==
  ASSUME TypeOK, NEW c \in Claims, Agrees(c), NEW n, CompleteRefund(c, n, Row(c)),
         sale[c] = "REFUNDING"
  PROVE  Agrees(c)'
<1>1. sale'[c] = "COMPLETED" /\ refund'[c] = "SUCCESS" /\ c \in reversed'
  BY DEF CompleteRefund, SetSale, TypeOK
<1>2. arb' = arb /\ previous' = previous
  BY DEF CompleteRefund
<1>3. Type(c) \in {"RETURN_REFUND", "REFUND_ONLY"}
  BY DEF Type
<1>4. c \in stockBack'
  BY <1>3 DEF CompleteRefund, ReturnStock, stockVars, Agrees
<1>5. QED
  BY <1>1, <1>2, <1>4 DEF Agrees, Type

(* A transaction on a claim keeps its rows in agreement.                   *)
LEMMA StepAgrees ==
  ASSUME TypeOK, NEW c \in Claims, Agrees(c), SerialStep(c) \/ DefaultStep(c)
  PROVE  Agrees(c)'
<1> USE DEF TypeOK, orderVars, saleVars, stockVars, refundVars
<1>1. ASSUME NEW u \in Parts, NEW n \in Amounts, CreateAfterSale(c, u, n)
      PROVE  Agrees(c)'
  <2>1. refund[c] = "NONE"
    BY <1>1 DEF CreateAfterSale, Agrees, RefundStatus
  <2>2. QED
    BY <1>1, <2>1 DEF CreateAfterSale, SetSale, Agrees, Type
<1>2. CASE SubmitReturnShipment(c)
  BY <1>2 DEF SubmitReturnShipment, SetSale, Agrees, Type
<1>3. CASE RequestArbitration(c)
  BY <1>3 DEF RequestArbitration, SetSale, Agrees, Type
<1>4. CASE RemindOverdueAfterSale(c)
  BY <1>4 DEF RemindOverdueAfterSale, Agrees, Type
<1>5. ASSUME NEW n \in Amounts, ResolveArbitration(c, n) PROVE Agrees(c)'
  BY <1>5 DEF ResolveArbitration, Verdict, SetSale, Granted, Agrees, Type
<1>6. CASE CreateRefund(c)
  BY <1>6 DEF CreateRefund, Refundable, AmountToRefund, Agrees, Type
<1>7. CASE MockRefund(c)
  BY <1>7, CompleteRefundAgrees DEF MockRefund, Refundable
<1>8. ASSUME NEW e \in Attempts, NEW result \in Outcomes, e[1] = c, SettleRefund(e, result)
      PROVE  Agrees(c)'
  BY <1>8 DEF SettleRefund, Agrees, Type
<1>9. ASSUME NEW n \in Amounts, ReviewAfterSale(c, n, Row(c)) PROVE Agrees(c)'
  BY <1>9 DEF ReviewAfterSale, Reviewable, Row, SetSale, Granted, Agrees, Type
<1>10. CASE ConfirmReturn(c, Row(c))
  BY <1>10 DEF ConfirmReturn, ReturnStock, Row, SetSale, Agrees, Type
<1>11. CASE RetryRefund(c, Row(c))
  BY <1>11 DEF RetryRefund, Retriable, Row, Agrees, Type
<1>12. ASSUME NEW e \in Attempts, e[1] = c, ProcessRefundCallback(e, Row(c))
       PROVE  Agrees(c)'
  <2>1. CASE sale[c] = "REFUNDING" /\ CompleteRefund(c, amount[c], Row(c))
    BY <2>1, CompleteRefundAgrees
  <2>2. CASE ~(sale[c] = "REFUNDING" /\ CompleteRefund(c, amount[c], Row(c)))
    BY <1>12, <2>2
       DEF ProcessRefundCallback, Expected, Row, Agrees, Type
  <2>3. QED
    BY <2>1, <2>2
<1>13. QED
  BY <1>1, <1>2, <1>3, <1>4, <1>5, <1>6, <1>7, <1>8, <1>9, <1>10, <1>11, <1>12
     DEF SerialStep, DefaultStep

(* The fulfilment of the order touches no claim.                           *)
LEMMA OtherStepUntouched ==
  ASSUME OtherStep, NEW d \in Claims
  PROVE  SameRows(d)
  BY DEF OtherStep, AcceptOrder, ShipOrder, ReceiveOrder, Fulfil,
         SameRows, orderVars, saleVars, stockVars, refundVars

(* Consistent is inductive.                                                *)
LEMMA InitConsistent == Init => Consistent
<1> SUFFICES ASSUME Init PROVE Consistent
  OBVIOUS
<1>1. ASSUME NEW c \in Claims PROVE Agrees(c)
  BY DEF Init, Agrees
<1>2. QED
  BY <1>1, InitTypeOK DEF Consistent

(* A step works on one claim, or on none.                                  *)
LEMMA StepConsistent == Consistent /\ [Next]_vars => Consistent'
<1> SUFFICES ASSUME Consistent, [Next]_vars PROVE Consistent'
  OBVIOUS
<1>1. TypeOK'
  BY StepTypeOK DEF Consistent
<1>2. ASSUME NEW d \in Claims PROVE Agrees(d)'
  <2>1. ASSUME NEW c \in Claims, SerialStep(c) \/ DefaultStep(c)
        PROVE  Agrees(d)'
    <3>1. CASE c = d
      BY <2>1, <3>1, StepAgrees DEF Consistent
    <3>2. CASE c # d
      BY <2>1, <3>2, OthersUntouched, SameRowsAgree DEF Consistent
    <3>3. QED
      BY <3>1, <3>2
  <2>2. CASE OtherStep
    BY <2>2, OtherStepUntouched, SameRowsAgree DEF Consistent
  <2>3. CASE UNCHANGED vars
    <3>1. SameRows(d)
      BY <2>3 DEF vars, SameRows, saleVars, stockVars, refundVars
    <3>2. QED
      BY <3>1, SameRowsAgree DEF Consistent
  <2>4. QED
    BY <2>1, <2>2, <2>3 DEF Next
<1>3. QED
  BY <1>1, <1>2 DEF Consistent

(* The rows of every claim agree in every reachable state.                 *)
THEOREM ConsistentAlways == Spec => []Consistent
  BY InitConsistent, StepConsistent, PTL DEF Spec

(* A claim is completed, its refund has gone through and its revenue is    *)
(* reversed all together, in whatever order reviews, verdicts, callbacks   *)
(* and retries come.                                                       *)
THEOREM CompletedIffRefundedAlways == Spec => []CompletedIffRefunded
<1>1. Consistent => CompletedIffRefunded
  BY DEF Consistent, Agrees, CompletedIffRefunded
<1>2. QED
  BY <1>1, ConsistentAlways, PTL

(* An open refund has a claim that waits for it, and pays what was granted. *)
THEOREM OpenRefundIsExpectedAlways == Spec => []OpenRefundIsExpected
<1>1. Consistent => OpenRefundIsExpected
  BY DEF Consistent, Agrees, OpenRefundIsExpected
<1>2. QED
  BY <1>1, ConsistentAlways, PTL

(* While no two transactions overlap, a case is pending exactly while its  *)
(* claim is in arbitration.                                                *)
THEOREM ArbitrationIsOpenAlways == Spec => []ArbitrationIsOpen
<1>1. Consistent => ArbitrationIsOpen
  BY DEF Consistent, Agrees, ArbitrationIsOpen
<1>2. QED
  BY <1>1, ConsistentAlways, PTL

(* A refund that went through is touched by no step: neither is its claim. *)
LEMMA StepIsFinal ==
  ASSUME Consistent, Consistent', [Next]_vars, NEW c \in Claims, refund[c] = "SUCCESS"
  PROVE  refund'[c] = "SUCCESS" /\ sale'[c] = "COMPLETED"
<1>1. /\ TypeOK /\ Agrees(c) /\ sale[c] = "COMPLETED"
      /\ refund'[c] = "SUCCESS" => sale'[c] = "COMPLETED"
  BY DEF Consistent, Agrees
<1>2. ASSUME NEW d \in Claims, SerialStep(d) \/ DefaultStep(d)
      PROVE  refund'[c] = "SUCCESS"
  <2>1. CASE d # c
    BY <1>1, <1>2, <2>1, OthersUntouched DEF SameRows
  <2>2. CASE d = c
    <3> USE DEF saleVars, stockVars, refundVars
    <3>1. CASE SerialStep(c)
      BY <1>1, <3>1
         DEF SerialStep, CreateAfterSale, SubmitReturnShipment, RequestArbitration,
             ResolveArbitration, CreateRefund, MockRefund, Refundable, SettleRefund,
             RemindOverdueAfterSale
    <3>2. CASE DefaultStep(c)
      BY <1>1, <3>2
         DEF DefaultStep, ReviewAfterSale, Reviewable, ConfirmReturn, RetryRefund,
             Retriable, ProcessRefundCallback, Expected, Row
    <3>3. QED
      BY <1>2, <2>2, <3>1, <3>2
  <2>3. QED
    BY <2>1, <2>2
<1>3. CASE OtherStep
  BY <1>1, <1>3, OtherStepUntouched DEF SameRows
<1>4. CASE UNCHANGED vars
  BY <1>1, <1>4 DEF vars, refundVars
<1>5. QED
  BY <1>1, <1>2, <1>3, <1>4 DEF Next

(* While no two transactions overlap, no notice, repeated or late, of any  *)
(* attempt, and no review, verdict or retry takes up a claim whose refund  *)
(* went through.                                                           *)
THEOREM RefundIsFinalAlways == Spec => RefundIsFinal
<1>1. Consistent /\ Consistent' /\ [Next]_vars =>
        [\A c \in Claims :
           refund[c] = "SUCCESS" => refund'[c] = "SUCCESS" /\ sale'[c] = "COMPLETED"]_vars
  BY StepIsFinal
<1>2. QED
  BY <1>1, ConsistentAlways, PTL DEF Spec, RefundIsFinal

(* While no two transactions overlap, money goes back after the goods do.  *)
THEOREM GoodsBeforeMoneyAlways == Spec => []GoodsBeforeMoney
<1>1. Consistent => GoodsBeforeMoney
  BY DEF Consistent, Agrees, GoodsBeforeMoney
<1>2. QED
  BY <1>1, ConsistentAlways, PTL

-----------------------------------------------------------------------------
(* The order is held for a claim *)

(* Steps that keep HeldForAClaim: the order is let go, or an active claim  *)
(* is left, or nothing it speaks of changes.                               *)
LEMMA HeldKept ==
  ASSUME HeldForAClaim,
         \/ order' \notin {"AFTER_SALE", "REFUNDING"}
         \/ \E c \in Claims : sale'[c] \in Active
         \/ order' = order /\ sale' = sale
  PROVE  HeldForAClaim'
  BY DEF HeldForAClaim

(* What it takes: the claims remember where the order was.                 *)
Remembered == DOMAIN sale = Claims /\ previous \in [Claims -> Applicable]

(* A completed refund lets the order go.                                   *)
LEMMA CompleteRefundReleases ==
  ASSUME Remembered, NEW c \in Claims, NEW n, NEW row, CompleteRefund(c, n, row)
  PROVE  order' \notin {"AFTER_SALE", "REFUNDING"}
  BY DEF Remembered, CompleteRefund, Released, Applicable

(* What runs alone keeps HeldForAClaim.                                    *)
LEMMA SerialHeld ==
  ASSUME Remembered, HeldForAClaim, OtherStep \/ \E c \in Claims : SerialStep(c)
  PROVE  HeldForAClaim'
<1>1. CASE OtherStep
  BY <1>1, HeldKept
     DEF OtherStep, AcceptOrder, ShipOrder, ReceiveOrder, Fulfil,
         orderVars, saleVars
<1>2. ASSUME NEW c \in Claims, SerialStep(c) PROVE HeldForAClaim'
  <2>1. ASSUME NEW u \in Parts, NEW n \in Amounts, CreateAfterSale(c, u, n)
        PROVE  HeldForAClaim'
    <3>1. sale'[c] \in Active
      BY <2>1 DEF CreateAfterSale, SetSale, Remembered, Active
    <3>2. QED
      BY <3>1, HeldKept
  <2>2. CASE SubmitReturnShipment(c) \/ RequestArbitration(c)
    <3>1. sale'[c] \in Active
      BY <2>2 DEF SubmitReturnShipment, RequestArbitration, SetSale, Remembered, Active
    <3>2. QED
      BY <3>1, HeldKept
  <2>3. ASSUME NEW n \in Amounts, ResolveArbitration(c, n) PROVE HeldForAClaim'
    <3>1. CASE n = 0
      BY <2>3, <3>1, HeldKept DEF ResolveArbitration, Released, Remembered, Applicable
    <3>2. CASE n # 0
      <4>1. sale'[c] \in Active
        BY <2>3, <3>2 DEF ResolveArbitration, Granted, SetSale, Remembered, Active
      <4>2. QED
        BY <4>1, HeldKept
    <3>3. QED
      BY <3>1, <3>2
  <2>4. CASE MockRefund(c)
    BY <2>4, CompleteRefundReleases, HeldKept DEF MockRefund
  <2>5. ASSUME NEW e \in Attempts, NEW result \in Outcomes, e[1] = c, SettleRefund(e, result)
      PROVE  HeldForAClaim'
    BY <2>5, HeldKept DEF SettleRefund, orderVars, saleVars
  <2>6. CASE CreateRefund(c) \/ RemindOverdueAfterSale(c)
    BY <2>6, HeldKept DEF CreateRefund, RemindOverdueAfterSale, orderVars
  <2>7. QED
    BY <1>2, <2>1, <2>2, <2>3, <2>4, <2>5, <2>6 DEF SerialStep
<1>3. QED
  BY <1>1, <1>2

(* So does what writes on the strength of a row it has read, old or new.   *)
LEMMA RowHeld ==
  ASSUME Remembered, HeldForAClaim, NEW c \in Claims, NEW row,
         \/ \E n \in Amounts : ReviewAfterSale(c, n, row)
         \/ ConfirmReturn(c, row)
         \/ RetryRefund(c, row)
         \/ \E e \in Attempts : e[1] = c /\ ProcessRefundCallback(e, row)
  PROVE  HeldForAClaim'
<1>1. ASSUME NEW n \in Amounts, ReviewAfterSale(c, n, row) PROVE HeldForAClaim'
  <2>1. CASE n = 0
    BY <1>1, <2>1, HeldKept DEF ReviewAfterSale, Released, Remembered, Applicable
  <2>2. CASE n # 0
    <3>1. sale'[c] \in Active
      BY <1>1, <2>2 DEF ReviewAfterSale, Granted, SetSale, Remembered, Active
    <3>2. QED
      BY <3>1, HeldKept
  <2>3. QED
    BY <2>1, <2>2
<1>2. CASE ConfirmReturn(c, row)
  <2>1. sale'[c] \in Active
    BY <1>2 DEF ConfirmReturn, SetSale, Remembered, Active
  <2>2. QED
    BY <2>1, HeldKept
<1>3. CASE RetryRefund(c, row)
  BY <1>3, HeldKept DEF RetryRefund, orderVars
<1>4. ASSUME NEW e \in Attempts, e[1] = c, ProcessRefundCallback(e, row)
      PROVE  HeldForAClaim'
  <2>1. CASE CompleteRefund(c, amount[c], row)
    BY <2>1, CompleteRefundReleases, HeldKept
  <2>2. CASE ~CompleteRefund(c, amount[c], row)
    BY <1>4, <2>2, HeldKept DEF ProcessRefundCallback, orderVars, saleVars
  <2>3. QED
    BY <2>1, <2>2
<1>5. QED
  BY <1>1, <1>2, <1>3, <1>4

(* Every step keeps HeldForAClaim.                                         *)
LEMMA StepHeldForAClaim == TypeOK /\ HeldForAClaim /\ [Next]_vars => HeldForAClaim'
<1> SUFFICES ASSUME TypeOK, HeldForAClaim, [Next]_vars PROVE HeldForAClaim'
  OBVIOUS
<1>1. Remembered
  BY DEF TypeOK, Remembered
<1>2. CASE OtherStep \/ \E c \in Claims : SerialStep(c)
  BY <1>1, <1>2, SerialHeld
<1>3. ASSUME NEW c \in Claims, DefaultStep(c) PROVE HeldForAClaim'
  BY <1>1, <1>3, RowHeld DEF DefaultStep
<1>4. CASE UNCHANGED vars
  BY <1>4, HeldKept DEF vars, orderVars, saleVars
<1>5. QED
  BY <1>2, <1>3, <1>4 DEF Next

(* Rejections, refunds and verdicts of several claims give the order back  *)
(* in any order, and leave it held only while a claim of it runs.          *)
THEOREM HeldForAClaimAlways == Spec => []HeldForAClaim
<1>1. Init => HeldForAClaim
  BY DEF Init, HeldForAClaim
<1>2. QED
  BY <1>1, InitTypeOK, StepTypeOK, StepHeldForAClaim, PTL DEF Spec

-----------------------------------------------------------------------------
(* The money *)

(* A step leaves the money and the refunds that went through alone ...     *)
MoneyAlone ==
  /\ refunded' = refunded /\ pay' = pay /\ coupon' = coupon
  /\ \A c \in Claims : /\ refund'[c] = "SUCCESS" <=> refund[c] = "SUCCESS"
                       /\ refund[c] = "SUCCESS" => amount'[c] = amount[c]

(* ... or completes a refund of claim c, of a positive amount.             *)
Completes(c, n) ==
  /\ CompleteRefund(c, n, Row(c))
  /\ refund[c] # "SUCCESS" /\ n > 0

(* There is no third kind of step.                                         *)
LEMMA StepMoney ==
  ASSUME Consistent, [Next]_vars
  PROVE  MoneyAlone \/ \E c \in Claims : \E n \in Amounts : Completes(c, n)
<1> USE DEF TypeOK, orderVars, saleVars, stockVars, refundVars, MoneyAlone
<1> TypeOK /\ \A c \in Claims : Agrees(c)
  BY DEF Consistent
<1>1. CASE OtherStep
  BY <1>1 DEF OtherStep, AcceptOrder, ShipOrder, ReceiveOrder, Fulfil
<1>2. ASSUME NEW c \in Claims, SerialStep(c)
      PROVE  MoneyAlone \/ \E n \in Amounts : Completes(c, n)
  <2>1. CASE MockRefund(c)
    <3>1. Completes(c, approved[c])
      BY <2>1, AfterSaleAssumption DEF MockRefund, Refundable, Completes, Amounts
    <3>2. QED
      BY <3>1
  <2>2. CASE CreateRefund(c)
    BY <2>2 DEF CreateRefund, Refundable
  <2>3. CASE ~MockRefund(c) /\ ~CreateRefund(c)
    BY <1>2, <2>3
       DEF SerialStep, CreateAfterSale, SubmitReturnShipment, RequestArbitration,
           ResolveArbitration, SettleRefund, RemindOverdueAfterSale
  <2>4. QED
    BY <2>1, <2>2, <2>3
<1>3. ASSUME NEW c \in Claims, DefaultStep(c)
      PROVE  MoneyAlone \/ \E n \in Amounts : Completes(c, n)
  <2>1. ASSUME NEW n \in Amounts, ReviewAfterSale(c, n, Row(c)) PROVE MoneyAlone
    BY <2>1 DEF ReviewAfterSale
  <2>2. CASE ConfirmReturn(c, Row(c))
    BY <2>2 DEF ConfirmReturn
  <2>3. CASE RetryRefund(c, Row(c))
    BY <2>3 DEF RetryRefund, Retriable, Row
  <2>4. ASSUME NEW e \in Attempts, e[1] = c, ProcessRefundCallback(e, Row(c))
        PROVE  MoneyAlone \/ Completes(c, amount[c])
    <3>1. refund[c] = "PENDING" /\ amount[c] > 0
      BY <2>4, AfterSaleAssumption DEF ProcessRefundCallback, Expected, Row, Agrees, Amounts
    <3>2. QED
      BY <2>4, <3>1 DEF ProcessRefundCallback, Expected, Row, Completes
  <2>5. QED
    BY <1>3, <2>1, <2>2, <2>3, <2>4 DEF DefaultStep
<1>4. CASE UNCHANGED vars
  BY <1>4 DEF vars
<1>5. QED
  BY <1>1, <1>2, <1>3, <1>4 DEF Next

(* The payment's status and the coupon follow the refunded amount.         *)
LEMMA StepReflects ==
  ASSUME Consistent, PaymentReflectsRefund, CouponBackIffRefunded, [Next]_vars
  PROVE  PaymentReflectsRefund' /\ CouponBackIffRefunded'
<1>1. CASE MoneyAlone
  BY <1>1 DEF MoneyAlone, PaymentReflectsRefund, CouponBackIffRefunded
<1>2. ASSUME NEW c \in Claims, NEW n \in Amounts, Completes(c, n)
      PROVE  PaymentReflectsRefund' /\ CouponBackIffRefunded'
  <2>1. /\ refunded' = refunded + n /\ refunded + n <= Payable /\ n > 0
        /\ refunded \in Nat /\ n \in Nat /\ Payable \in Nat
    BY <1>2, AfterSaleAssumption
       DEF Consistent, TypeOK, Amounts, Completes, CompleteRefund, WithinPayment,
           RefundedAfter, Row
  <2>2. CASE refunded' = Payable
    BY <1>2, <2>1, <2>2
       DEF Completes, CompleteRefund, Full, Row, PaymentReflectsRefund,
           CouponBackIffRefunded
  <2>3. CASE refunded' # Payable
    <3>1. pay' = "PARTIALLY_REFUNDED" /\ coupon' = coupon
      BY <1>2, <2>1, <2>3 DEF Completes, CompleteRefund, Full, Row
    <3>2. refunded # Payable /\ refunded' # 0
      BY <2>1
    <3>3. QED
      BY <2>3, <3>1, <3>2 DEF PaymentReflectsRefund, CouponBackIffRefunded
  <2>4. QED
    BY <2>2, <2>3
<1>3. QED
  BY <1>1, <1>2, StepMoney

(* The payment counts as untouched, partly refunded or refunded as the     *)
(* refunds of its order add up.                                            *)
THEOREM PaymentReflectsRefundAlways == Spec => []PaymentReflectsRefund
<1> DEFINE I == Consistent /\ PaymentReflectsRefund /\ CouponBackIffRefunded
<1>1. Init => I
  BY InitConsistent, AfterSaleAssumption
     DEF Init, PaymentReflectsRefund, CouponBackIffRefunded
<1>2. I /\ [Next]_vars => I'
  BY StepConsistent, StepReflects
<1>3. QED
  BY <1>1, <1>2, PTL DEF Spec

(* The coupon comes back with the last of the money, and not before.       *)
THEOREM CouponBackAlways == Spec => []CouponBackIffRefunded
<1> DEFINE I == Consistent /\ PaymentReflectsRefund /\ CouponBackIffRefunded
<1>1. Init => I
  BY InitConsistent, AfterSaleAssumption
     DEF Init, PaymentReflectsRefund, CouponBackIffRefunded
<1>2. I /\ [Next]_vars => I'
  BY StepConsistent, StepReflects
<1>3. QED
  BY <1>1, <1>2, PTL DEF Spec

-----------------------------------------------------------------------------
(* The order, seen from the rest of the shop *)

(* An order that is on its way, and the place a claim would send it back   *)
(* to, have been reached by its own fulfilment.                            *)
Visited ==
  /\ order \in Applicable => order \in been
  /\ \A c \in Claims : previous[c] \in been

(* Without a refund, a claim holds the order, sends it back or leaves it.  *)
LEMMA StepOrder ==
  ASSUME Consistent, Visited, [Next]_vars, ~OtherStep,
         \A c \in Claims, n \in Amounts : ~Completes(c, n)
  PROVE  /\ been' = been /\ UNCHANGED <<refunded, coupon>>
         /\ order' = order \/ order' \in been \cup {"AFTER_SALE", "REFUNDING"}
         /\ \A c \in Claims : previous'[c] = previous[c] \/ previous'[c] = order
         /\ \A c \in Claims : previous'[c] # previous[c] => order \in Applicable
<1> USE DEF TypeOK, orderVars, saleVars, stockVars, refundVars
<1> TypeOK /\ MoneyAlone
  BY StepMoney DEF Consistent
<1>1. UNCHANGED <<refunded, coupon>>
  BY DEF MoneyAlone
<1> DEFINE Moved == /\ been' = been
                    /\ order' = order \/ order' \in been \cup {"AFTER_SALE", "REFUNDING"}
           Kept  == previous' = previous
<1>2. ASSUME NEW c \in Claims, SerialStep(c) PROVE Moved
  <2>1. CASE MockRefund(c)
    BY <2>1, AfterSaleAssumption DEF MockRefund, Refundable, Completes, Amounts
  <2>2. CASE ~MockRefund(c)
    BY <1>2, <2>2
       DEF SerialStep, CreateAfterSale, SubmitReturnShipment, RequestArbitration,
           ResolveArbitration, OrderGranted, Released, Visited, CreateRefund,
           SettleRefund, RemindOverdueAfterSale
  <2>3. QED
    BY <2>1, <2>2
<1>3. ASSUME NEW c \in Claims, DefaultStep(c) PROVE Moved
  <2>1. ASSUME NEW e \in Attempts, e[1] = c, ProcessRefundCallback(e, Row(c)) PROVE Moved
    <3>1. CASE Expected(Row(c)) /\ outcome[e] = "SUCCESS"
      <4>1. refund[c] = "PENDING" /\ amount[c] > 0
        BY <3>1, AfterSaleAssumption DEF Expected, Row, Consistent, Agrees, Amounts
      <4>2. Completes(c, amount[c])
        BY <2>1, <3>1, <4>1
           DEF ProcessRefundCallback, Expected, Row, Completes
      <4>3. QED
        BY <4>2
    <3>2. CASE ~Expected(Row(c)) \/ outcome[e] # "SUCCESS"
      BY <2>1, <3>2 DEF ProcessRefundCallback, Expected
    <3>3. QED
      BY <3>1, <3>2
  <2>2. CASE ~\E e \in Attempts : e[1] = c /\ ProcessRefundCallback(e, Row(c))
    BY <1>3, <2>2
       DEF DefaultStep, ReviewAfterSale, OrderGranted, Released, Visited, ConfirmReturn,
           RetryRefund
  <2>3. QED
    BY <2>1, <2>2
<1>4. ASSUME NEW c \in Claims, SerialStep(c) \/ DefaultStep(c), NEW d \in Claims
      PROVE  \/ previous'[d] = previous[d]
             \/ previous'[d] = order /\ order \in Applicable
  <2>1. ASSUME NEW u \in Parts, NEW n \in Amounts, CreateAfterSale(c, u, n)
        PROVE  \/ previous'[d] = previous[d]
               \/ previous'[d] = order /\ order \in Applicable
    BY <2>1 DEF CreateAfterSale
  <2>2. CASE ~\E u \in Parts, n \in Amounts : CreateAfterSale(c, u, n)
    BY <1>4, <2>2
       DEF SerialStep, SubmitReturnShipment, RequestArbitration, ResolveArbitration,
           MockRefund, CompleteRefund, CreateRefund, SettleRefund,
           RemindOverdueAfterSale, DefaultStep, ReviewAfterSale, ConfirmReturn,
           RetryRefund, ProcessRefundCallback
  <2>3. QED
    BY <2>1, <2>2
<1>5. CASE UNCHANGED vars
  BY <1>1, <1>5 DEF vars
<1>6. QED
  BY <1>1, <1>2, <1>3, <1>4, <1>5 DEF Next

(* A completed refund sends the order back or, with the last of the money, *)
(* ends it and returns its coupon.                                         *)
LEMMA CompletesSeen ==
  ASSUME Consistent, Visited, NEW c \in Claims, NEW n \in Amounts, Completes(c, n)
  PROVE  Seen!Next
<1>1. /\ refunded' = refunded + n /\ refunded + n <= Payable /\ n > 0
      /\ refunded \in Nat /\ n \in Nat /\ Payable \in Nat
  BY AfterSaleAssumption
     DEF Consistent, TypeOK, Amounts, Completes, CompleteRefund, WithinPayment,
         RefundedAfter, Row
<1>2. been' = been
  BY DEF Completes, CompleteRefund
<1>3. CASE refunded' = Payable
  <2>1. /\ order' = "REFUNDED" /\ coupon' \in {"AVAILABLE", "EXPIRED"}
    BY <1>1, <1>3 DEF Completes, CompleteRefund, Full, Row
  <2>2. refunded # Payable
    BY <1>1, <1>3
  <2>3. Seen!RefundInFull(coupon')
    BY <1>2, <1>3, <2>1, <2>2 DEF Seen!RefundInFull
  <2>4. QED
    BY <2>1, <2>3 DEF Seen!Next
<1>4. CASE refunded' # Payable
  <2>1. order' = previous[c] /\ coupon' = coupon
    BY <1>1, <1>4 DEF Completes, CompleteRefund, Full, Row, Released
  <2>2. previous[c] \in been /\ refunded # Payable
    BY <1>1 DEF Visited
  <2>3. Seen!Claim(previous[c])
    BY <1>2, <1>4, <2>1, <2>2 DEF Seen!Claim
  <2>4. QED
    BY <2>2, <2>3 DEF Seen!Next
<1>5. QED
  BY <1>3, <1>4

(* Every step is one the rest of the shop knows, or none.                  *)
LEMMA StepSeen ==
  ASSUME Consistent, Visited, [Next]_vars
  PROVE  Visited' /\ (Seen!Next \/ UNCHANGED Seen!vars)
<1>1. CASE OtherStep
  <2>1. \E m \in Seen!Moves :
          /\ order = m[1] /\ order' = m[2] /\ been' = been \cup {m[2]}
          /\ m[2] = "SHIPPED" => "SHIPPED" \notin been
    <3>1. CASE AcceptOrder
      BY <3>1 DEF AcceptOrder, Fulfil, Seen!Moves
    <3>2. CASE ShipOrder
      BY <3>2 DEF ShipOrder, Fulfil, Seen!Moves
    <3>3. CASE ReceiveOrder
      BY <3>3 DEF ReceiveOrder, Fulfil, Seen!Moves
    <3>4. QED
      BY <1>1, <3>1, <3>2, <3>3 DEF OtherStep
  <2>2. UNCHANGED <<refunded, coupon, previous>>
    BY <1>1 DEF OtherStep, AcceptOrder, ShipOrder, ReceiveOrder, Fulfil, saleVars
  <2>3. Seen!Next
    BY <2>1, <2>2 DEF Seen!Next, Seen!Advance
  <2>4. QED
    BY <2>1, <2>2, <2>3 DEF Visited
<1>2. ASSUME NEW c \in Claims, NEW n \in Amounts, Completes(c, n)
      PROVE  Visited' /\ Seen!Next
  <2>1. /\ been' = been /\ previous' = previous
        /\ order' \in {"REFUNDED", previous[c]}
    BY <1>2 DEF Completes, CompleteRefund, Released
  <2>2. QED
    BY <1>2, <2>1, CompletesSeen DEF Visited, Applicable
<1>3. CASE ~OtherStep /\ \A c \in Claims, n \in Amounts : ~Completes(c, n)
  <2>1. /\ been' = been /\ UNCHANGED <<refunded, coupon>>
        /\ order' = order \/ order' \in been \cup {"AFTER_SALE", "REFUNDING"}
        /\ \A c \in Claims : previous'[c] = previous[c] \/ previous'[c] = order
        /\ \A c \in Claims : previous'[c] # previous[c] => order \in Applicable
    BY <1>3, StepOrder
  <2>2. Visited'
    BY <2>1 DEF Visited, Applicable
  <2>3. CASE order' = order
    BY <2>1, <2>2, <2>3 DEF Seen!vars
  <2>4. CASE order' \in been \cup {"AFTER_SALE", "REFUNDING"}
    <3>1. Seen!Claim(order')
      BY <2>1, <2>4 DEF Seen!Claim
    <3>2. QED
      BY <2>2, <2>4, <3>1 DEF Seen!Next
  <2>5. QED
    BY <2>1, <2>3, <2>4
<1>4. QED
  BY <1>1, <1>2, <1>3

(* Whatever claims, reviews, arbitration, refunds and callbacks do, the    *)
(* shop sees its order held, sent back to where it has been, or repaid in  *)
(* full once and its coupon with it.  Trade moves its orders by just that. *)
THEOREM AfterSaleImplementsOrderClaims == Spec => ImplementsOrderClaims
<1> DEFINE I == Consistent /\ Visited
<1>1. Init => I
  BY InitConsistent DEF Init, Visited
<1>2. Init => Seen!Init
  BY AfterSaleAssumption DEF Init, Seen!Init
<1>3. I /\ [Next]_vars => I' /\ [Seen!Next]_(Seen!vars)
  BY StepConsistent, StepSeen
<1>4. QED
  BY <1>1, <1>2, <1>3, PTL DEF Spec, ImplementsOrderClaims, Seen!Spec

-----------------------------------------------------------------------------
(* Counting cents and goods *)

(* What is counted is finite.                                              *)
LEMMA CountedIsFinite ==
  ASSUME NEW m \in Nat
  PROVE  \A U \in SUBSET (Claims \X (1 .. m)) : IsFiniteSet(U)
<1>1. IsFiniteSet(Claims)
  BY AfterSaleAssumption
<1>2. IsFiniteSet(1 .. m)
  BY FS_Interval
<1>3. IsFiniteSet(Claims \X (1 .. m))
  BY <1>1, <1>2, FS_Product
<1>4. QED
  BY <1>3, FS_Subset

(* A finite set, counted with n units of a claim that had none in it.      *)
LEMMA BlockAdded ==
  ASSUME NEW U, IsFiniteSet(U), NEW c, NEW n \in Nat,
         \A k \in 1 .. n : <<c, k>> \notin U
  PROVE  Cardinality(U \cup ({c} \X (1 .. n))) = Cardinality(U) + n
<1>1. Cardinality(U) \in Nat
  BY FS_CardinalityType
<1>2. IsFiniteSet({c}) /\ Cardinality({c}) = 1
  BY FS_Singleton
<1>3. IsFiniteSet(1 .. n) /\ Cardinality(1 .. n) = n
  BY FS_Interval
<1>4. IsFiniteSet({c} \X (1 .. n)) /\ Cardinality({c} \X (1 .. n)) = n
  <2>1. Cardinality({c} \X (1 .. n)) = Cardinality({c}) * Cardinality(1 .. n)
    BY <1>2, <1>3, FS_Product
  <2>2. QED
    BY <1>2, <1>3, <2>1, FS_Product
<1>5. U \cap ({c} \X (1 .. n)) = {}
  OBVIOUS
<1>6. Cardinality(U \cap ({c} \X (1 .. n))) = 0
  BY <1>5, FS_EmptySet
<1>7. Cardinality(U \cup ({c} \X (1 .. n))) =
        Cardinality(U) + Cardinality({c} \X (1 .. n)) - Cardinality(U \cap ({c} \X (1 .. n)))
  BY <1>4, FS_Union
<1>8. QED
  BY <1>1, <1>4, <1>6, <1>7

(* A completed refund adds its cents; no other step adds or loses one.     *)
LEMMA StepRefundsAddUp ==
  ASSUME Consistent, RefundsAddUp, [Next]_vars
  PROVE  RefundsAddUp'
<1>1. CASE MoneyAlone
  <2>1. Cents' = Cents
    BY <1>1 DEF MoneyAlone, Cents
  <2>2. QED
    BY <1>1, <2>1 DEF MoneyAlone, RefundsAddUp
<1>2. ASSUME NEW c \in Claims, NEW n \in Amounts, Completes(c, n)
      PROVE  RefundsAddUp'
  <2>1. /\ refunded' = refunded + n /\ refunded + n <= Payable
        /\ refunded \in Nat /\ n \in Nat /\ Payable \in Nat
    BY <1>2, AfterSaleAssumption
       DEF Consistent, TypeOK, Amounts, Completes, CompleteRefund, WithinPayment,
           RefundedAfter, Row
  <2>2. /\ refund[c] # "SUCCESS" /\ refund'[c] = "SUCCESS" /\ amount'[c] = n
        /\ \A d \in Claims \ {c} : refund'[d] = refund[d] /\ amount'[d] = amount[d]
    BY <1>2 DEF Completes, CompleteRefund, Consistent, TypeOK
  <2>3. n <= Payable
    BY <2>1
  <2>4. Cents' = Cents \cup ({c} \X (1 .. n))
    <3>1. ASSUME NEW d \in Claims, NEW k \in 1 .. Payable
          PROVE  <<d, k>> \in Cents' <=> <<d, k>> \in Cents \cup ({c} \X (1 .. n))
      <4>1. CASE d = c
        BY <2>1, <2>2, <4>1 DEF Cents
      <4>2. CASE d # c
        BY <2>2, <4>2 DEF Cents
      <4>3. QED
        BY <4>1, <4>2
    <3>2. Cents' \subseteq Claims \X (1 .. Payable)
      BY DEF Cents
    <3>3. Cents \cup ({c} \X (1 .. n)) \subseteq Claims \X (1 .. Payable)
      BY <2>1, <2>3 DEF Cents
    <3>4. QED
      BY <3>1, <3>2, <3>3
  <2>5. Cardinality(Cents \cup ({c} \X (1 .. n))) = Cardinality(Cents) + n
    <3>1. IsFiniteSet(Cents)
      BY <2>1, CountedIsFinite DEF Cents
    <3>2. \A k \in 1 .. n : <<c, k>> \notin Cents
      BY <2>2 DEF Cents
    <3>3. QED
      BY <2>1, <3>1, <3>2, BlockAdded
  <2>6. QED
    BY <2>1, <2>4, <2>5 DEF RefundsAddUp
<1>3. QED
  BY <1>1, <1>2, StepMoney

(* What an order says was refunded is what its refunds paid back.          *)
THEOREM RefundsAddUpAlways == Spec => []RefundsAddUp
<1> DEFINE I == Consistent /\ RefundsAddUp
<1>1. Init => I
  <2> SUFFICES ASSUME Init PROVE RefundsAddUp
    BY InitConsistent
  <2>1. Cents = {}
    BY DEF Init, Cents
  <2>2. QED
    BY <2>1, FS_EmptySet, AfterSaleAssumption DEF Init, RefundsAddUp
<1>2. I /\ [Next]_vars => I'
  BY StepConsistent, StepRefundsAddUp
<1>3. QED
  BY <1>1, <1>2, PTL DEF Spec

(* A step leaves the shelf and what is on it alone ...                     *)
ShelfAlone ==
  /\ stockBack' = stockBack /\ restocked' = restocked
  /\ \A c \in stockBack : units'[c] = units[c]

(* ... or returns the goods of a claim, in one of the two ways.            *)
Returns(c) == ReturnStock(c, Row(c)) /\ units' = units

(* A step returns the goods of one claim, or leaves the shelf alone.       *)
LEMMA StepShelf ==
  ASSUME Consistent, [Next]_vars
  PROVE  ShelfAlone \/ \E c \in Claims : Returns(c)
<1> USE DEF TypeOK, orderVars, saleVars, stockVars, refundVars, ShelfAlone
<1> TypeOK /\ \A c \in Claims : Agrees(c)
  BY DEF Consistent
<1>1. ASSUME NEW c \in Claims, NEW n, CompleteRefund(c, n, Row(c))
      PROVE  ShelfAlone \/ Returns(c)
  BY <1>1 DEF CompleteRefund, Returns
<1>2. CASE OtherStep
  BY <1>2 DEF OtherStep, AcceptOrder, ShipOrder, ReceiveOrder, Fulfil
<1>3. ASSUME NEW c \in Claims, SerialStep(c)
      PROVE  ShelfAlone \/ Returns(c)
  <2>1. CASE MockRefund(c)
    BY <2>1, <1>1 DEF MockRefund
  <2>2. ASSUME NEW u \in Parts, NEW n \in Amounts, CreateAfterSale(c, u, n)
        PROVE  ShelfAlone
    BY <2>2 DEF CreateAfterSale, Agrees
  <2>3. CASE ~MockRefund(c) /\ ~\E u \in Parts, n \in Amounts : CreateAfterSale(c, u, n)
    BY <1>3, <2>3
       DEF SerialStep, SubmitReturnShipment, RequestArbitration, ResolveArbitration,
           CreateRefund, SettleRefund, RemindOverdueAfterSale
  <2>4. QED
    BY <2>1, <2>2, <2>3
<1>4. ASSUME NEW c \in Claims, DefaultStep(c)
      PROVE  ShelfAlone \/ Returns(c)
  <2>1. ASSUME NEW n \in Amounts, ReviewAfterSale(c, n, Row(c)) PROVE ShelfAlone
    BY <2>1 DEF ReviewAfterSale
  <2>2. CASE ConfirmReturn(c, Row(c))
    BY <2>2 DEF ConfirmReturn, Returns
  <2>3. CASE RetryRefund(c, Row(c))
    BY <2>3 DEF RetryRefund
  <2>4. ASSUME NEW e \in Attempts, e[1] = c, ProcessRefundCallback(e, Row(c))
        PROVE  ShelfAlone \/ Returns(c)
    <3>1. CASE CompleteRefund(c, amount[c], Row(c))
      BY <3>1, <1>1
    <3>2. CASE ~CompleteRefund(c, amount[c], Row(c))
      BY <2>4, <3>2 DEF ProcessRefundCallback
    <3>3. QED
      BY <3>1, <3>2
  <2>5. QED
    BY <1>4, <2>1, <2>2, <2>3, <2>4 DEF DefaultStep
<1>5. CASE UNCHANGED vars
  BY <1>5 DEF vars
<1>6. QED
  BY <1>2, <1>3, <1>4, <1>5 DEF Next

(* The goods of a claim are put on the shelf at most once.                 *)
LEMMA StepReturnedOnce ==
  ASSUME Consistent, ReturnedOnce, [Next]_vars
  PROVE  ReturnedOnce'
<1> SUFFICES ASSUME NEW l \in Lines
             PROVE  restocked'[l] = Cardinality(Goods(l, stockBack)')
  BY DEF ReturnedOnce
<1>1. restocked[l] = Cardinality(Goods(l, stockBack))
  BY DEF ReturnedOnce
<1>2. CASE ShelfAlone
  <2>1. Goods(l, stockBack)' = Goods(l, stockBack)
    BY <1>2 DEF ShelfAlone, Goods
  <2>2. QED
    BY <1>1, <1>2, <2>1 DEF ShelfAlone
<1>3. ASSUME NEW c \in Claims, Returns(c)
      PROVE  restocked'[l] = Cardinality(Goods(l, stockBack)')
  <2>1. /\ stockBack' = stockBack \cup {c} /\ units' = units
        /\ restocked' = IF c \in stockBack THEN restocked
                        ELSE [k \in Lines |-> restocked[k] + units[c][k]]
    BY <1>3 DEF Returns, ReturnStock, Row
  <2>2. CASE c \in stockBack
    <3>1. stockBack' = stockBack
      BY <2>1, <2>2
    <3>2. Goods(l, stockBack)' = Goods(l, stockBack)
      BY <2>1, <3>1 DEF Goods
    <3>3. QED
      BY <1>1, <2>1, <2>2, <3>2
  <2>3. CASE c \notin stockBack
    <3>1. /\ MaxQuantity \in Nat /\ units[c][l] \in Nat /\ units[c][l] <= MaxQuantity
          /\ stockBack \subseteq Claims
      BY AfterSaleAssumption DEF Consistent, TypeOK, Parts
    <3>2. Goods(l, stockBack)' = Goods(l, stockBack) \cup ({c} \X (1 .. units[c][l]))
      BY <2>1, <2>3, <3>1 DEF Goods
    <3>3. IsFiniteSet(Goods(l, stockBack))
      <4>1. Goods(l, stockBack) \in SUBSET (Claims \X (1 .. MaxQuantity))
        BY <3>1 DEF Goods
      <4>2. QED
        BY <3>1, <4>1, CountedIsFinite
    <3>4. \A k \in 1 .. units[c][l] : <<c, k>> \notin Goods(l, stockBack)
      BY <2>3 DEF Goods
    <3>5. Cardinality(Goods(l, stockBack) \cup ({c} \X (1 .. units[c][l]))) =
            Cardinality(Goods(l, stockBack)) + units[c][l]
      BY <3>1, <3>3, <3>4, BlockAdded
    <3>6. QED
      BY <1>1, <2>1, <2>3, <3>2, <3>5
  <2>4. QED
    BY <2>2, <2>3
<1>4. QED
  BY <1>2, <1>3, StepShelf

(* Goods come back to the shelf once for each claim that returned them.    *)
THEOREM ReturnedOnceAlways == Spec => []ReturnedOnce
<1> DEFINE I == Consistent /\ ReturnedOnce
<1>1. Init => I
  <2> SUFFICES ASSUME Init PROVE ReturnedOnce
    BY InitConsistent
  <2>1. \A l \in Lines : Goods(l, stockBack) = {} /\ restocked[l] = 0
    BY DEF Init, Goods
  <2>2. QED
    BY <2>1, FS_EmptySet DEF ReturnedOnce
<1>2. I /\ [Next]_vars => I'
  BY StepConsistent, StepReturnedOnce
<1>3. QED
  BY <1>1, <1>2, PTL DEF Spec

-----------------------------------------------------------------------------
(* The types, also when transactions overlap *)

(* A row that was read was typed when it was read.                         *)
ReadTyped ==
  /\ DOMAIN reading = Workers
  /\ \A w \in Workers : \A j \in reading[w] :
       j.on \in Attempts /\ j.row.refunded \in Amounts

(* A step reads or forgets rows; the others leave them alone.              *)
LEMMA StepReadTyped == TypeOK /\ ReadTyped /\ [RaceNext]_raceVars => ReadTyped'
<1> SUFFICES ASSUME TypeOK, ReadTyped, [RaceNext]_raceVars PROVE ReadTyped'
  OBVIOUS
<1>1. ASSUME NEW w \in Workers, NEW op \in {"REVIEW", "CONFIRM", "RETRY", "CALLBACK"},
             NEW e \in Attempts, Read(w, op, e)
      PROVE  ReadTyped'
  <2>1. Row(e[1]).refunded \in Amounts
    BY DEF TypeOK, Row
  <2>2. reading' = [reading EXCEPT ![w] = {[op |-> op, on |-> e, row |-> Row(e[1])]}]
    BY <1>1 DEF Read
  <2>3. QED
    BY <2>1, <2>2 DEF ReadTyped
<1>2. ASSUME NEW w \in Workers, reading' = [reading EXCEPT ![w] = {}] PROVE ReadTyped'
  BY <1>2 DEF ReadTyped
<1>3. CASE UNCHANGED reading
  BY <1>3 DEF ReadTyped
<1>4. QED
  BY <1>1, <1>2, <1>3 DEF RaceNext, Write, Rollback, raceVars

(* A stale row can hide a refund, and never makes the order count more as  *)
(* refunded than was paid: the sum it writes is the sum it has compared.   *)
LEMMA StepTypeOKInRaces == TypeOK /\ ReadTyped /\ [RaceNext]_raceVars => TypeOK'
<1> SUFFICES ASSUME TypeOK, ReadTyped, [RaceNext]_raceVars PROVE TypeOK'
  OBVIOUS
<1>1. ASSUME NEW w \in Workers, Write(w) PROVE TypeOK'
  <2>1. PICK j \in reading[w] : WriteOf(j)
    BY <1>1 DEF Write
  <2>2. j.on \in Attempts /\ j.on[1] \in Claims /\ j.row.refunded \in Amounts
    BY DEF ReadTyped, Attempts
  <2> DEFINE c == j.on[1]
             row == j.row
  <2>3. \/ \E n \in Amounts : ReviewAfterSale(c, n, row)
        \/ ConfirmReturn(c, row)
        \/ RetryRefund(c, row)
        \/ \E e \in Attempts : e[1] = c /\ ProcessRefundCallback(e, row)
    BY <2>1, <2>2 DEF WriteOf
  <2>4. c \in Claims /\ row.refunded \in Amounts
    BY <2>2
  <2> HIDE DEF c, row
  <2>5. QED
    BY <2>3, <2>4, RowTypeOK
<1>2. CASE OtherStep \/ UNCHANGED vars
  BY <1>2, OtherTypeOK
<1>3. QED
  BY <1>1, <1>2, SerialTypeOK DEF RaceNext, Read, Rollback, raceVars

(* However many transactions overlap, the columns hold what the schema     *)
(* lets them; in particular the order never counts more as refunded than   *)
(* was paid.                                                               *)
THEOREM TypeCorrectInRaces == RaceSpec => []TypeOK
<1>1. RaceInit => TypeOK /\ ReadTyped
  BY InitTypeOK DEF RaceInit, ReadTyped
<1>2. TypeOK /\ ReadTyped /\ [RaceNext]_raceVars => (TypeOK /\ ReadTyped)'
  BY StepReadTyped, StepTypeOKInRaces
<1>3. QED
  BY <1>1, <1>2, PTL DEF RaceSpec

-----------------------------------------------------------------------------
(* What GoodsBeforeMoney rests on when transactions overlap.  None of it   *)
(* speaks of what a stale row says: it is about facts that no transaction  *)
(* takes back.                                                             *)

(* The tables have a row for each claim and attempt.                       *)
RowsShaped ==
  /\ DOMAIN sale = Claims /\ DOMAIN refund = Claims /\ DOMAIN previous = Claims
  /\ DOMAIN reading = Workers

(* A refund of goods that were shipped is begun when they are back.        *)
GoodsSafe(c) ==
  /\ sale[c] = "COMPLETED" => c \in stockBack
  /\ /\ Type(c) = "RETURN_REFUND"
     /\ sale[c] = "REFUNDING" \/ refund[c] # "NONE"
     => c \in stockBack
  /\ sale[c] = "NONE" => refund[c] = "NONE"

(* A transaction that has read is about a claim that was made, and has its *)
(* refund if it asked for one.                                             *)
ReadMade ==
  \A w \in Workers : \A j \in reading[w] :
    /\ j.on \in Attempts
    /\ sale[j.on[1]] # "NONE"
    /\ j.op \in {"RETRY", "CALLBACK"} => refund[j.on[1]] # "NONE"

(* The inductive invariant when transactions overlap.                      *)
RaceInv ==
  /\ RowsShaped
  /\ \A c \in Claims : GoodsSafe(c)
  /\ ReadMade

(* What any transaction on claim c does, as far as RaceInv can tell.           *)
Advances(c) ==
  /\ DOMAIN sale' = Claims /\ DOMAIN refund' = Claims /\ DOMAIN previous' = Claims
  /\ \A d \in Claims \ {c} :
       sale'[d] = sale[d] /\ refund'[d] = refund[d] /\ previous'[d] = previous[d]
  /\ stockBack \subseteq stockBack'
  /\ sale[c] # "NONE" => sale'[c] # "NONE"
  /\ refund[c] # "NONE" => refund'[c] # "NONE"
  /\ GoodsSafe(c)'

-----------------------------------------------------------------------------

(* No claim was made, and nothing read.                                    *)
LEMMA InitRaceInv == RaceInit => RaceInv
  BY DEF RaceInit, Init, RaceInv, RowsShaped, GoodsSafe, ReadMade, Attempts

(* A transaction that keeps its own claim safe keeps the invariant.        *)
LEMMA AdvanceKeeps ==
  ASSUME RaceInv, NEW c \in Claims, Advances(c),
         DOMAIN reading' = Workers,
         \A w \in Workers : reading'[w] \subseteq reading[w]
  PROVE  RaceInv'
<1> USE DEF RaceInv
<1>1. RowsShaped'
  BY DEF RowsShaped, Advances
<1>2. ASSUME NEW d \in Claims PROVE GoodsSafe(d)'
  <2>1. CASE d = c
    BY <2>1 DEF Advances
  <2>2. CASE d # c
    BY <2>2 DEF Advances, GoodsSafe, Type
  <2>3. QED
    BY <2>1, <2>2
<1>3. \A d \in Claims : /\ sale[d] # "NONE" => sale'[d] # "NONE"
                        /\ refund[d] # "NONE" => refund'[d] # "NONE"
  BY DEF Advances
<1>4. \A e \in Attempts : e[1] \in Claims
  BY DEF Attempts
<1>5. ReadMade'
  BY <1>3, <1>4 DEF ReadMade
<1>6. QED
  BY <1>1, <1>2, <1>5

(* A refund that goes through, for goods that are back or come back now.   *)
LEMMA CompleteRefundAdvances ==
  ASSUME RaceInv, NEW c \in Claims, NEW n, NEW row, CompleteRefund(c, n, row),
         Type(c) = "RETURN_REFUND" => c \in stockBack
  PROVE  Advances(c)
<1>1. /\ refund' = [refund EXCEPT ![c] = "SUCCESS"]
      /\ sale' = [sale EXCEPT ![c] = "COMPLETED"]
      /\ UNCHANGED previous
  BY DEF CompleteRefund, SetSale
<1>2. stockBack \subseteq stockBack' /\ c \in stockBack'
  <2>1. CASE Type(c) = "REFUND_ONLY"
    BY <2>1 DEF CompleteRefund, ReturnStock
  <2>2. CASE Type(c) # "REFUND_ONLY"
    BY <2>2 DEF CompleteRefund, stockVars, Type
  <2>3. QED
    BY <2>1, <2>2
<1>3. QED
  BY <1>1, <1>2 DEF RaceInv, RowsShaped, Advances, GoodsSafe

(* What runs alone.                                                        *)
LEMMA SerialAdvances ==
  ASSUME RaceInv, NEW c \in Claims, SerialStep(c)
  PROVE  Advances(c)
<1> USE DEF RaceInv, RowsShaped, Advances
<1>1. GoodsSafe(c)
  OBVIOUS
<1>2. ASSUME NEW u \in Parts, NEW n \in Amounts, CreateAfterSale(c, u, n) PROVE Advances(c)
  BY <1>1, <1>2 DEF CreateAfterSale, SetSale, GoodsSafe, stockVars, refundVars
<1>3. CASE SubmitReturnShipment(c)
  BY <1>1, <1>3 DEF SubmitReturnShipment, SetSale, GoodsSafe, Type, stockVars, refundVars
<1>4. CASE RequestArbitration(c)
  BY <1>1, <1>4 DEF RequestArbitration, SetSale, GoodsSafe, Type, stockVars, refundVars
<1>5. ASSUME NEW n \in Amounts, ResolveArbitration(c, n) PROVE Advances(c)
  BY <1>1, <1>5 DEF ResolveArbitration, SetSale, Granted, GoodsSafe, Type, stockVars,
                      refundVars
<1>6. CASE CreateRefund(c)
  BY <1>1, <1>6 DEF CreateRefund, Refundable, GoodsSafe, Type, stockVars
<1>7. CASE MockRefund(c)
  BY <1>1, <1>7, CompleteRefundAdvances DEF MockRefund, Refundable, GoodsSafe
<1>8. ASSUME NEW e \in Attempts, NEW result \in Outcomes, e[1] = c, SettleRefund(e, result)
      PROVE  Advances(c)
  <2>1. UNCHANGED <<sale, refund, previous, stockBack>>
    BY <1>8 DEF SettleRefund, saleVars, stockVars, refundVars
  <2>2. QED
    BY <1>1, <2>1 DEF GoodsSafe, Type
<1>9. CASE RemindOverdueAfterSale(c)
  <2>1. sale[c] # "NONE"
    BY <1>9, AfterSaleAssumption DEF RemindOverdueAfterSale, TimedStages
  <2>2. UNCHANGED <<sale, refund, previous, stockBack>>
    BY <1>9 DEF RemindOverdueAfterSale, stockVars, refundVars
  <2>3. QED
    BY <1>1, <2>1, <2>2 DEF GoodsSafe, Type
<1>10. QED
  BY <1>2, <1>3, <1>4, <1>5, <1>6, <1>7, <1>8, <1>9 DEF SerialStep

(* Only the refund row of the claim is written, and it was there before.   *)
LEMMA RefundRowAdvances ==
  ASSUME RaceInv, NEW c \in Claims, sale[c] # "NONE",
         DOMAIN refund' = Claims,
         \A d \in Claims \ {c} : refund'[d] = refund[d],
         refund'[c] = refund[c] \/ (refund[c] # "NONE" /\ refund'[c] # "NONE"),
         UNCHANGED <<sale, previous, stockBack>>
  PROVE  Advances(c)
<1>1. GoodsSafe(c)'
  BY DEF RaceInv, GoodsSafe, Type
<1>2. QED
  BY <1>1 DEF RaceInv, RowsShaped, Advances

(* What writes on the strength of a row that may have changed since.       *)
LEMMA WriteAdvances ==
  ASSUME RaceInv, NEW w \in Workers, NEW j \in reading[w], WriteOf(j)
  PROVE  Advances(j.on[1])
<1> DEFINE c == j.on[1]
<1>1. /\ c \in Claims /\ GoodsSafe(c) /\ sale[c] # "NONE"
      /\ j.op \in {"RETRY", "CALLBACK"} => refund[c] # "NONE"
  BY DEF RaceInv, ReadMade, Attempts
<1>2. (\E n \in Amounts : ReviewAfterSale(c, n, j.row)) => Advances(c)
  <2> HIDE DEF c
  <2>1. ASSUME NEW n \in Amounts, ReviewAfterSale(c, n, j.row) PROVE Advances(c)
    BY <1>1, <2>1 DEF ReviewAfterSale, SetSale, Granted, GoodsSafe, Type, stockVars,
                      refundVars, RaceInv, RowsShaped, Advances
  <2>2. QED
    BY <2>1
<1>3. ConfirmReturn(c, j.row) => Advances(c)
  <2> HIDE DEF c
  <2>1. QED
    BY <1>1 DEF ConfirmReturn, ReturnStock, SetSale, GoodsSafe, Type, refundVars,
                RaceInv, RowsShaped, Advances
<1>4. ASSUME refund[c] # "NONE", RetryRefund(c, j.row) PROVE Advances(c)
  <2> HIDE DEF c
  <2>1. /\ refund' = [refund EXCEPT ![c] = "PENDING"]
        /\ UNCHANGED <<sale, previous, stockBack>>
    BY <1>4 DEF RetryRefund, stockVars
  <2>2. QED
    BY <1>1, <1>4, <2>1, RefundRowAdvances DEF RaceInv, RowsShaped
<1>5. ASSUME refund[c] # "NONE", ProcessRefundCallback(j.on, j.row) PROVE Advances(c)
  <2>1. \/ CompleteRefund(c, amount[c], j.row)
        \/ /\ refund' = [refund EXCEPT ![c] = "FAILED"]
           /\ UNCHANGED <<saleVars, stockVars>>
    BY <1>5 DEF ProcessRefundCallback
  <2> HIDE DEF c
  <2>2. CASE CompleteRefund(c, amount[c], j.row)
    BY <1>1, <1>5, <2>2, CompleteRefundAdvances DEF GoodsSafe
  <2>3. CASE /\ refund' = [refund EXCEPT ![c] = "FAILED"]
             /\ UNCHANGED <<saleVars, stockVars>>
    <3>1. UNCHANGED <<sale, previous, stockBack>>
      BY <2>3 DEF saleVars, stockVars
    <3>2. QED
      BY <1>1, <1>5, <2>3, <3>1, RefundRowAdvances DEF RaceInv, RowsShaped
  <2>4. QED
    BY <2>1, <2>2, <2>3
<1>6. QED
  BY <1>1, <1>2, <1>3, <1>4, <1>5 DEF WriteOf

(* A transaction that reads finds a claim that was made.                   *)
LEMMA ReadKeeps ==
  ASSUME RaceInv, NEW w \in Workers, NEW op \in {"REVIEW", "CONFIRM", "RETRY", "CALLBACK"},
         NEW e \in Attempts, Read(w, op, e)
  PROVE  RaceInv'
<1> DEFINE job == [op |-> op, on |-> e, row |-> Row(e[1])]
<1>1. /\ reading' = [reading EXCEPT ![w] = {job}]
      /\ UNCHANGED <<sale, refund, previous, stockBack>>
  BY DEF Read, vars, saleVars, stockVars, refundVars
<1>2. e[1] \in Claims /\ GoodsSafe(e[1])
  BY DEF RaceInv, Attempts
<1>3. /\ sale[e[1]] # "NONE"
      /\ op \in {"RETRY", "CALLBACK"} => refund[e[1]] # "NONE"
  <2>1. CASE op = "REVIEW"
    BY <2>1 DEF Read, Wanted, Reviewable, Row
  <2>2. CASE op = "CONFIRM"
    BY <2>2 DEF Read, Wanted
  <2>3. CASE op = "RETRY"
    BY <2>3 DEF Read, Wanted, Retriable, Row
  <2>4. CASE op = "CALLBACK"
    BY <2>4 DEF Read, Wanted, Expected, Row
  <2>5. QED
    BY <2>1, <2>2, <2>3, <2>4
<1>4. RowsShaped' /\ \A c \in Claims : GoodsSafe(c)'
  BY <1>1 DEF RaceInv, RowsShaped, GoodsSafe, Type
<1>5. ReadMade'
  BY <1>1, <1>3 DEF RaceInv, RowsShaped, ReadMade
<1>6. QED
  BY <1>4, <1>5 DEF RaceInv

(* Every step keeps the invariant.                                         *)
LEMMA StepRaceInv == RaceInv /\ [RaceNext]_raceVars => RaceInv'
<1> SUFFICES ASSUME RaceInv, [RaceNext]_raceVars PROVE RaceInv'
  OBVIOUS
<1>1. ASSUME UNCHANGED <<sale, refund, previous, stockBack>>,
             DOMAIN reading' = Workers, \A w \in Workers : reading'[w] \subseteq reading[w]
      PROVE  RaceInv'
  BY <1>1 DEF RaceInv, RowsShaped, GoodsSafe, Type, ReadMade
<1>2. ASSUME NEW w \in Workers, reading' = [reading EXCEPT ![w] = {}]
      PROVE  DOMAIN reading' = Workers /\ \A v \in Workers : reading'[v] \subseteq reading[v]
  BY <1>2 DEF RaceInv, RowsShaped
<1>3. CASE OtherStep /\ UNCHANGED reading
  BY <1>1, <1>3
     DEF OtherStep, AcceptOrder, ShipOrder, ReceiveOrder, Fulfil, saleVars, stockVars,
         refundVars, RaceInv, RowsShaped
<1>4. ASSUME NEW c \in Claims, SerialStep(c), UNCHANGED reading PROVE RaceInv'
  <2>1. DOMAIN reading' = Workers /\ \A w \in Workers : reading'[w] \subseteq reading[w]
    BY <1>4 DEF RaceInv, RowsShaped
  <2>2. QED
    BY <1>4, <2>1, SerialAdvances, AdvanceKeeps
<1>5. ASSUME NEW w \in Workers, NEW op \in {"REVIEW", "CONFIRM", "RETRY", "CALLBACK"},
             NEW e \in Attempts, Read(w, op, e)
      PROVE  RaceInv'
  BY <1>5, ReadKeeps
<1>6. ASSUME NEW w \in Workers, Write(w) PROVE RaceInv'
  <2>1. PICK j \in reading[w] : WriteOf(j)
    BY <1>6 DEF Write
  <2>2. j.on[1] \in Claims
    BY DEF RaceInv, ReadMade, Attempts
  <2>3. Advances(j.on[1])
    BY <2>1, WriteAdvances
  <2>4. QED
    BY <1>2, <1>6, <2>2, <2>3, AdvanceKeeps DEF Write
<1>7. ASSUME NEW w \in Workers, Rollback(w) PROVE RaceInv'
  BY <1>1, <1>2, <1>7 DEF Rollback, vars, saleVars, stockVars, refundVars
<1>8. CASE UNCHANGED raceVars
  BY <1>1, <1>8 DEF raceVars, vars, saleVars, stockVars, refundVars, RaceInv, RowsShaped
<1>9. QED
  BY <1>3, <1>4, <1>5, <1>6, <1>7, <1>8 DEF RaceNext

-----------------------------------------------------------------------------

(* However reviews, confirmations, retries and callbacks overlap, no claim *)
(* is completed, and no money sent back, before its goods are booked back. *)
THEOREM GoodsBeforeMoneyInRaces == RaceSpec => []GoodsBeforeMoney
<1>1. RaceInv => GoodsBeforeMoney
  BY DEF RaceInv, GoodsSafe, GoodsBeforeMoney
<1>2. QED
  BY <1>1, InitRaceInv, StepRaceInv, PTL DEF RaceSpec

-----------------------------------------------------------------------------
(* A claim in arbitration has its case, also when transactions overlap *)

(* Whoever writes a claim without its case takes it out of arbitration, or *)
(* leaves it as it is.                                                     *)
LEMMA CaseStays ==
  ASSUME RaceInv, ArbitratedHasCase, arb' = arb, NEW c \in Claims, NEW to,
         to # "ARBITRATING", SetSale(c, to)
  PROVE  ArbitratedHasCase'
  BY DEF RaceInv, RowsShaped, ArbitratedHasCase, SetSale

(* What runs alone; the request opens the case, the verdict closes it.     *)
LEMMA SerialKeepsCase ==
  ASSUME TypeOK, RaceInv, ArbitratedHasCase, NEW c \in Claims, SerialStep(c)
  PROVE  ArbitratedHasCase'
<1>1. ASSUME NEW u \in Parts, NEW n \in Amounts, CreateAfterSale(c, u, n)
      PROVE  ArbitratedHasCase'
  BY <1>1, CaseStays DEF CreateAfterSale
<1>2. CASE SubmitReturnShipment(c)
  BY <1>2, CaseStays DEF SubmitReturnShipment
<1>3. CASE RequestArbitration(c)
  BY <1>3 DEF RequestArbitration, SetSale, TypeOK, ArbitratedHasCase
<1>4. ASSUME NEW n \in Amounts, ResolveArbitration(c, n) PROVE ArbitratedHasCase'
  BY <1>4 DEF ResolveArbitration, Verdict, SetSale, Granted, TypeOK, ArbitratedHasCase
<1>5. CASE MockRefund(c)
  BY <1>5, CaseStays DEF MockRefund, CompleteRefund
<1>6. ASSUME sale' = sale, arb' = arb PROVE ArbitratedHasCase'
  BY <1>6 DEF ArbitratedHasCase
<1>7. ASSUME NEW e \in Attempts, NEW result \in Outcomes, SettleRefund(e, result)
      PROVE  ArbitratedHasCase'
  BY <1>6, <1>7 DEF SettleRefund, saleVars
<1>8. CASE CreateRefund(c) \/ RemindOverdueAfterSale(c)
  BY <1>6, <1>8 DEF CreateRefund, RemindOverdueAfterSale
<1>9. QED
  BY <1>1, <1>2, <1>3, <1>4, <1>5, <1>7, <1>8 DEF SerialStep

(* What writes on the strength of a row that may have changed since.       *)
LEMMA WriteKeepsCase ==
  ASSUME RaceInv, ArbitratedHasCase, NEW w \in Workers, NEW j \in reading[w], WriteOf(j)
  PROVE  ArbitratedHasCase'
<1> DEFINE c == j.on[1]
<1>1. c \in Claims
  BY DEF RaceInv, ReadMade, Attempts
<1> HIDE DEF c
<1>2. ASSUME NEW n \in Amounts, ReviewAfterSale(c, n, j.row) PROVE ArbitratedHasCase'
  BY <1>1, <1>2, CaseStays DEF ReviewAfterSale, Granted
<1>3. ASSUME ConfirmReturn(c, j.row) PROVE ArbitratedHasCase'
  BY <1>1, <1>3, CaseStays DEF ConfirmReturn
<1>4. ASSUME RetryRefund(c, j.row) PROVE ArbitratedHasCase'
  BY <1>4 DEF RetryRefund, ArbitratedHasCase
<1>5. ASSUME ProcessRefundCallback(j.on, j.row) PROVE ArbitratedHasCase'
  <2>1. CASE CompleteRefund(c, amount[c], j.row)
    BY <1>1, <2>1, CaseStays DEF CompleteRefund
  <2>2. CASE ~CompleteRefund(c, amount[c], j.row)
    BY <1>5, <2>2 DEF ProcessRefundCallback, saleVars, ArbitratedHasCase, c
  <2>3. QED
    BY <2>1, <2>2
<1>6. QED
  BY <1>2, <1>3, <1>4, <1>5 DEF WriteOf, c

(* Whatever a review that meets the request has read, a claim that waits   *)
(* for the platform has a case the platform can decide.                    *)
THEOREM ArbitratedHasCaseInRaces == RaceSpec => []ArbitratedHasCase
<1>1. RaceInit => ArbitratedHasCase
  BY DEF RaceInit, Init, ArbitratedHasCase
<1>2. TypeOK /\ RaceInv /\ ArbitratedHasCase /\ [RaceNext]_raceVars => ArbitratedHasCase'
  <2> SUFFICES ASSUME TypeOK, RaceInv, ArbitratedHasCase, [RaceNext]_raceVars
               PROVE  ArbitratedHasCase'
    OBVIOUS
  <2>1. ASSUME NEW c \in Claims, SerialStep(c) PROVE ArbitratedHasCase'
    BY <2>1, SerialKeepsCase
  <2>2. ASSUME NEW w \in Workers, Write(w) PROVE ArbitratedHasCase'
    BY <2>2, WriteKeepsCase DEF Write
  <2>3. ASSUME UNCHANGED <<sale, arb>> PROVE ArbitratedHasCase'
    BY <2>3 DEF ArbitratedHasCase
  <2>4. CASE OtherStep
    BY <2>3, <2>4
       DEF OtherStep, AcceptOrder, ShipOrder, ReceiveOrder, Fulfil, saleVars
  <2>5. ASSUME NEW w \in Workers, NEW op, NEW e \in Attempts, Read(w, op, e)
        PROVE  ArbitratedHasCase'
    BY <2>3, <2>5 DEF Read, vars, saleVars
  <2>6. ASSUME NEW w \in Workers, Rollback(w) PROVE ArbitratedHasCase'
    BY <2>3, <2>6 DEF Rollback, vars, saleVars
  <2>7. CASE UNCHANGED raceVars
    BY <2>3, <2>7 DEF raceVars, vars, saleVars
  <2>8. QED
    BY <2>1, <2>2, <2>4, <2>5, <2>6, <2>7 DEF RaceNext
<1>3. QED
  BY <1>1, <1>2, InitRaceInv, StepRaceInv, TypeCorrectInRaces, PTL DEF RaceSpec

-----------------------------------------------------------------------------
(* The order is held for a claim, also when transactions overlap *)

(* Nothing a transaction writes makes a claim forget where the order was.  *)
LEMMA StaysRemembered ==
  ASSUME RaceInv, Remembered, [RaceNext]_raceVars
  PROVE  Remembered'
<1>1. DOMAIN sale' = Claims /\ DOMAIN previous' = Claims
  BY StepRaceInv DEF RaceInv, RowsShaped
<1>2. ASSUME previous' = previous PROVE Remembered'
  BY <1>1, <1>2 DEF Remembered
<1>3. CASE OtherStep
  BY <1>2, <1>3 DEF OtherStep, AcceptOrder, ShipOrder, ReceiveOrder, Fulfil, saleVars
<1>4. ASSUME NEW c \in Claims, SerialStep(c) PROVE Remembered'
  <2>1. ASSUME NEW u \in Parts, NEW n \in Amounts, CreateAfterSale(c, u, n)
        PROVE  Remembered'
    <3>1. order \in Applicable /\ previous' = [previous EXCEPT ![c] = order]
      BY <2>1 DEF CreateAfterSale
    <3>2. QED
      BY <1>1, <3>1 DEF Remembered
  <2>2. CASE SubmitReturnShipment(c) \/ RequestArbitration(c)
    BY <1>2, <2>2 DEF SubmitReturnShipment, RequestArbitration
  <2>3. ASSUME NEW n \in Amounts, ResolveArbitration(c, n) PROVE Remembered'
    BY <1>2, <2>3 DEF ResolveArbitration
  <2>4. CASE CreateRefund(c) \/ MockRefund(c) \/ RemindOverdueAfterSale(c)
    BY <1>2, <2>4 DEF CreateRefund, MockRefund, CompleteRefund, RemindOverdueAfterSale
  <2>5. ASSUME NEW e \in Attempts, NEW result \in Outcomes, e[1] = c, SettleRefund(e, result)
      PROVE  Remembered'
    BY <1>2, <2>5 DEF SettleRefund, saleVars
  <2>6. QED
    BY <1>4, <2>1, <2>2, <2>3, <2>4, <2>5 DEF SerialStep
<1>5. ASSUME NEW w \in Workers, Write(w) PROVE Remembered'
  <2>1. PICK j \in reading[w] : WriteOf(j)
    BY <1>5 DEF Write
  <2>2. ASSUME NEW n \in Amounts, ReviewAfterSale(j.on[1], n, j.row) PROVE Remembered'
    BY <1>2, <2>2 DEF ReviewAfterSale
  <2>3. CASE ConfirmReturn(j.on[1], j.row) \/ RetryRefund(j.on[1], j.row)
    BY <1>2, <2>3 DEF ConfirmReturn, RetryRefund
  <2>4. CASE ProcessRefundCallback(j.on, j.row)
    BY <1>2, <2>4 DEF ProcessRefundCallback, CompleteRefund, saleVars
  <2>5. QED
    BY <2>1, <2>2, <2>3, <2>4 DEF WriteOf
<1>6. CASE UNCHANGED vars
  BY <1>2, <1>6 DEF vars, saleVars
<1>7. QED
  BY <1>3, <1>4, <1>5, <1>6 DEF RaceNext, Read, Rollback, raceVars

(* Each transaction that ends a claim lets the order go, and each that     *)
(* takes it keeps its claim running, whatever became of what it has read.  *)
LEMMA StepHeldInRaces ==
  ASSUME RaceInv, Remembered, HeldForAClaim, [RaceNext]_raceVars
  PROVE  HeldForAClaim'
<1>1. CASE OtherStep \/ \E c \in Claims : SerialStep(c)
  BY <1>1, SerialHeld
<1>2. ASSUME NEW w \in Workers, Write(w) PROVE HeldForAClaim'
  <2>1. PICK j \in reading[w] : WriteOf(j)
    BY <1>2 DEF Write
  <2>2. j.on \in Attempts /\ j.on[1] \in Claims
    BY DEF RaceInv, ReadMade, Attempts
  <2> DEFINE c == j.on[1]
             row == j.row
  <2>3. \/ \E n \in Amounts : ReviewAfterSale(c, n, row)
        \/ ConfirmReturn(c, row)
        \/ RetryRefund(c, row)
        \/ \E e \in Attempts : e[1] = c /\ ProcessRefundCallback(e, row)
    BY <2>1, <2>2 DEF WriteOf
  <2>4. c \in Claims
    BY <2>2
  <2> HIDE DEF c, row
  <2>5. QED
    BY <2>3, <2>4, RowHeld
<1>3. CASE UNCHANGED vars
  BY <1>3, HeldKept DEF vars, orderVars, saleVars
<1>4. QED
  BY <1>1, <1>2, <1>3 DEF RaceNext, Read, Rollback, raceVars

(* However transactions overlap, no order is left held with nobody to let  *)
(* it go.                                                                  *)
THEOREM HeldForAClaimInRaces == RaceSpec => []HeldForAClaim
<1> DEFINE I == RaceInv /\ Remembered /\ HeldForAClaim
<1>1. RaceInit => I
  <2> SUFFICES ASSUME RaceInit PROVE Remembered /\ HeldForAClaim
    BY InitRaceInv
  <2>1. QED
    BY DEF RaceInit, Init, Remembered, HeldForAClaim, Applicable
<1>2. I /\ [RaceNext]_raceVars => I'
  BY StepRaceInv, StaysRemembered, StepHeldInRaces
<1>3. QED
  BY <1>1, <1>2, PTL DEF RaceSpec

-----------------------------------------------------------------------------
(* The payment's status, also when transactions overlap *)

(* A refund is of a positive amount, from when it is asked for.            *)
Promised == \A c \in Claims : refund[c] # "NONE" => amount[c] > 0

(* The status of the payment is written with the sum, from the same row.   *)
LEMMA CompletePromised ==
  ASSUME TypeOK, Promised, NEW c \in Claims, NEW n \in Amounts, n > 0,
         NEW row, row.refunded \in Amounts, CompleteRefund(c, n, row)
  PROVE  Promised' /\ PaymentReflectsRefund'
<1>1. /\ refund' = [refund EXCEPT ![c] = "SUCCESS"]
      /\ amount' = [amount EXCEPT ![c] = n]
  BY DEF CompleteRefund
<1>2. /\ refunded' = row.refunded + n /\ refunded' \in Nat \ {0}
      /\ refunded' <= Payable /\ Payable \in Nat \ {0}
  BY AfterSaleAssumption DEF CompleteRefund, WithinPayment, RefundedAfter, Amounts
<1>3. pay' = IF refunded' = Payable THEN "REFUNDED" ELSE "PARTIALLY_REFUNDED"
  BY <1>2 DEF CompleteRefund, Full
<1>4. Promised'
  BY <1>1 DEF Promised, TypeOK
<1>5. PaymentReflectsRefund'
  BY <1>2, <1>3 DEF PaymentReflectsRefund
<1>6. QED
  BY <1>4, <1>5

(* What neither asks for a refund nor completes one.                       *)
LEMMA PromisedKept ==
  ASSUME Promised, PaymentReflectsRefund, UNCHANGED <<refunded, pay, amount>>,
         \A c \in Claims : refund'[c] # "NONE" => refund[c] # "NONE"
  PROVE  Promised' /\ PaymentReflectsRefund'
  BY DEF Promised, PaymentReflectsRefund

(* What runs alone.                                                        *)
LEMMA SerialPromised ==
  ASSUME TypeOK, Promised, PaymentReflectsRefund, NEW c \in Claims, SerialStep(c)
  PROVE  Promised' /\ PaymentReflectsRefund'
<1>1. CASE CreateRefund(c)
  <2>1. /\ refund' = [refund EXCEPT ![c] = "PENDING"]
        /\ amount' = [amount EXCEPT ![c] = approved[c]] /\ approved[c] > 0
        /\ UNCHANGED <<refunded, pay>>
    BY <1>1 DEF CreateRefund, Refundable, AmountToRefund, orderVars
  <2>2. QED
    BY <2>1 DEF TypeOK, Promised, PaymentReflectsRefund
<1>2. CASE MockRefund(c)
  <2>1. approved[c] \in Amounts /\ approved[c] > 0 /\ Row(c).refunded \in Amounts
    BY <1>2, RowTyped DEF MockRefund, Refundable, TypeOK
  <2>2. QED
    BY <1>2, <2>1, CompletePromised DEF MockRefund
<1>3. CASE ~CreateRefund(c) /\ ~MockRefund(c)
  <2>1. UNCHANGED <<refunded, pay, amount, refund>>
    BY <1>3
       DEF SerialStep, CreateAfterSale, SubmitReturnShipment, RequestArbitration,
           ResolveArbitration, SettleRefund, RemindOverdueAfterSale, orderVars, refundVars
  <2>2. QED
    BY <2>1, PromisedKept
<1>4. QED
  BY <1>1, <1>2, <1>3

(* What writes on the strength of a row, once there is a refund to be      *)
(* retried or answered for.                                                *)
LEMMA RowPromised ==
  ASSUME TypeOK, Promised, PaymentReflectsRefund,
         NEW c \in Claims, NEW row, row.refunded \in Amounts,
         \/ \E n \in Amounts : ReviewAfterSale(c, n, row)
         \/ ConfirmReturn(c, row)
         \/ /\ refund[c] # "NONE"
            /\ \/ RetryRefund(c, row)
               \/ \E e \in Attempts : e[1] = c /\ ProcessRefundCallback(e, row)
  PROVE  Promised' /\ PaymentReflectsRefund'
<1>1. CASE (\E n \in Amounts : ReviewAfterSale(c, n, row)) \/ ConfirmReturn(c, row)
  <2>1. UNCHANGED <<refunded, pay, amount, refund>>
    BY <1>1 DEF ReviewAfterSale, ConfirmReturn, refundVars
  <2>2. QED
    BY <2>1, PromisedKept
<1>2. CASE refund[c] # "NONE" /\ RetryRefund(c, row)
  <2>1. /\ refund' = [refund EXCEPT ![c] = "PENDING"]
        /\ UNCHANGED <<refunded, pay, amount>>
    BY <1>2 DEF RetryRefund, orderVars
  <2>2. QED
    BY <1>2, <2>1, PromisedKept DEF TypeOK
<1>3. ASSUME refund[c] # "NONE",
             NEW e \in Attempts, e[1] = c, ProcessRefundCallback(e, row)
      PROVE  Promised' /\ PaymentReflectsRefund'
  <2>1. CASE CompleteRefund(c, amount[c], row)
    <3>1. amount[c] \in Amounts /\ amount[c] > 0
      BY <1>3 DEF TypeOK, Promised
    <3>2. QED
      BY <2>1, <3>1, CompletePromised
  <2>2. CASE ~CompleteRefund(c, amount[c], row)
    <3>1. /\ refund' = refund \/ refund' = [refund EXCEPT ![c] = "FAILED"]
          /\ UNCHANGED <<refunded, pay, amount>>
      BY <1>3, <2>2 DEF ProcessRefundCallback, orderVars, refundVars
    <3>2. QED
      BY <1>3, <3>1, PromisedKept DEF TypeOK
  <2>3. QED
    BY <2>1, <2>2
<1>4. QED
  BY <1>1, <1>2, <1>3

(* Every step, whatever it has read.                                       *)
LEMMA StepPromised ==
  ASSUME TypeOK, ReadTyped, RaceInv, Promised, PaymentReflectsRefund,
         [RaceNext]_raceVars
  PROVE  Promised' /\ PaymentReflectsRefund'
<1>1. ASSUME NEW w \in Workers, Write(w) PROVE Promised' /\ PaymentReflectsRefund'
  <2>1. PICK j \in reading[w] : WriteOf(j)
    BY <1>1 DEF Write
  <2>2. /\ j.on \in Attempts /\ j.on[1] \in Claims /\ j.row.refunded \in Amounts
        /\ j.op \in {"RETRY", "CALLBACK"} => refund[j.on[1]] # "NONE"
    BY DEF ReadTyped, RaceInv, ReadMade, Attempts
  <2> DEFINE c == j.on[1]
             row == j.row
  <2>3. \/ \E n \in Amounts : ReviewAfterSale(c, n, row)
        \/ ConfirmReturn(c, row)
        \/ /\ refund[c] # "NONE"
           /\ \/ RetryRefund(c, row)
              \/ \E e \in Attempts : e[1] = c /\ ProcessRefundCallback(e, row)
    BY <2>1, <2>2 DEF WriteOf
  <2>4. c \in Claims /\ row.refunded \in Amounts
    BY <2>2
  <2> HIDE DEF c, row
  <2>5. QED
    BY <2>3, <2>4, RowPromised
<1>2. CASE OtherStep \/ UNCHANGED vars
  <2>1. UNCHANGED <<refunded, pay, amount, refund>>
    BY <1>2 DEF OtherStep, AcceptOrder, ShipOrder, ReceiveOrder, Fulfil, vars, orderVars,
                refundVars
  <2>2. QED
    BY <2>1, PromisedKept
<1>3. QED
  BY <1>1, <1>2, SerialPromised DEF RaceNext, Read, Rollback, raceVars

(* Even where overlapping refunds lose one in the sum, the payment says    *)
(* what the sum says: untouched, partly refunded or refunded.              *)
THEOREM PaymentReflectsRefundInRaces == RaceSpec => []PaymentReflectsRefund
<1> DEFINE I == TypeOK /\ ReadTyped /\ RaceInv /\ Promised /\ PaymentReflectsRefund
<1>1. RaceInit => I
  <2>1. RaceInit => Promised /\ PaymentReflectsRefund
    BY AfterSaleAssumption DEF RaceInit, Init, Promised, PaymentReflectsRefund
  <2>2. RaceInit => ReadTyped
    BY DEF RaceInit, ReadTyped
  <2>3. QED
    BY <2>1, <2>2, InitTypeOK, InitRaceInv DEF RaceInit
<1>2. I /\ [RaceNext]_raceVars => I'
  BY StepTypeOKInRaces, StepReadTyped, StepRaceInv, StepPromised
<1>3. QED
  BY <1>1, <1>2, PTL DEF RaceSpec
=============================================================================
