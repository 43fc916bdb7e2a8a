SPECIFICATION RaceSpec
CONSTANTS
  c1 = c1  c2 = c2  x = x  v = v  w = w
  Claims = {c1, c2}
  Workers = {v, w}
  Lines = {x}
  Bought <- MCBought
  MaxQuantity = 2
  Payable = 2
  MaxRetries = 0
  Overdue = {}
CHECK_DEADLOCK FALSE
INVARIANT RefundsAddUp
