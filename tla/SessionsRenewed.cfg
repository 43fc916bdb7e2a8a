SPECIFICATION Spec
CONSTANTS
  u = u  v = v  s1 = s1  s2 = s2  s3 = s3  r1 = r1  r2 = r2  i = i  j = j
  Logins = {s1, s2, s3}
  LoginOf <- MCLoginOf
  Resets = {r1, r2}
  ResetOf <- MCResetOf
  Calls = {i, j}
  MaxTokens = 3
CHECK_DEADLOCK FALSE
INVARIANTS ExchangedOnce ResetOnce
PROPERTIES RevokedIsFinal ResetSignsOut
