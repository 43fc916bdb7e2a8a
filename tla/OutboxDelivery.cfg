SPECIFICATION Spec
CONSTANTS
  m1 = m1  m2 = m2  p1 = p1  p2 = p2
  Messages = {m1, m2}
  Processes = {p1, p2}
  MaxAttempts = 3
  BatchSize = 1
  Fatal = {1, 3}
  Retried = {m2}
  Slow = {}
INVARIANTS
  OneHolder ExhaustedIsSpent
PROPERTIES
  SentIsFinal EveryNotificationSettles
