SPECIFICATION RaceSpec
CONSTANTS
  c1 = c1  c2 = c2  x = x  v = v  w = w
  Claims = {c1}
  Workers = {v, w}
  Lines = {x}
  Bought <- MCOne
  MaxQuantity = 2
  Payable = 2
  MaxRetries = 1
  Overdue = {"PENDING", "WAITING_RETURN", "RETURNED", "REFUNDING"}
CHECK_DEADLOCK FALSE
INVARIANTS GoodsBeforeMoney HeldForAClaim
PROPERTY StageIsReminded
