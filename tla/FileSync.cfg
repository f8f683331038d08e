SPECIFICATION LiveSpec
CONSTANTS
  None = None
  Missing = Missing
  Excluded = Excluded
  p1 = p1
  h1 = h1
  h2 = h2
  t1 = t1
  t2 = t2
  Paths = {p1}
  Headings = {h1, h2}
  Texts = {t1, t2}
  Contents <- TwoContents
  MaxChanges = 2
  MaxFailures = 1
  MaxStops = 1
INVARIANTS
  TypeOK
  FingerprintMatchesRows
  LagIsNoticed
PROPERTIES
  ForgottenStaysForgotten
  ChangesReachTheIndex
CHECK_DEADLOCK FALSE
