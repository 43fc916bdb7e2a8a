SPECIFICATION Spec
CONSTANTS
  o1 = o1  o2 = o2  q1 = q1  q2 = q2  w1 = w1
  Orders = {o1, o2}
  Paid <- MCPaid
  Scale = 2
  Rates = {0, 1}
  Requests = {q1, q2}
  Withdrawals = {w1}
  MaxAmount = 1
  MaxRefunds = 2
SYMMETRY Symmetric
CHECK_DEADLOCK FALSE
INVARIANTS
  AccountMatchesLedger PendingIsUnsettled AvailableIsSettled FrozenIsOpen
  CommissionWithinRounding
