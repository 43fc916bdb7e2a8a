SPECIFICATION Spec
CONSTANTS
  c1 = c1  c2 = c2  x = x
  Claims = {c1, c2}
  Lines = {x}
  Bought <- MCBought
  MaxQuantity = 2
  Payable = 2
  MaxRetries = 1
  Overdue = {"PENDING"}
SYMMETRY Symmetric
CHECK_DEADLOCK FALSE
INVARIANTS
  TypeOK RefundsAddUp CompletedIffRefunded OpenRefundIsExpected
  PaymentReflectsRefund ArbitrationIsOpen ReturnedOnce
PROPERTIES RefundIsFinal ImplementsOrderClaims
