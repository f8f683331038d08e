SPECIFICATION Spec
CONSTANTS
  s1 = s1
  s2 = s2
  q1 = q1
  q2 = q2
  w1 = w1
  w2 = w2
  None = None
  Sessions = {s1, s2}
  Requests = {q1, q2}
  Calls <- MCCalls
  Distillers = {w1, w2}
  Policies = {1, 2}
  MaxAttempts = 2
  Cost <- MCCost
  SessionCap = 2
  MonthlyCap = 3
  LastMonth = 2
  MaxUpsets = 1
CHECK_DEADLOCK FALSE
INVARIANTS TypeOK SessionIdentityHolds MonthlyCapKept
PROPERTIES PublishedFromStoredTranscript EveryRunEnds
