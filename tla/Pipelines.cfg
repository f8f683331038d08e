SPECIFICATION MCSpec
CONSTANTS
  i1 = i1
  i2 = i2
  i3 = i3
  fa = fa
  fb = fb
  None = None
  Processes = {p1, p2}
  Texts = {t1, t2}
  Mems = {i1}
  MaxAttempts = 2
  EntityCalls = 1
  MaxRevision = 1
  MaxHides = 1
  EntityFaults = 2
  LastVisit = 3
  Private = {2}
  VisitPage = 1
  MaxPages = 2
  MaxTries = 2
  MaxLate = 1
  MaxTroubles = 1
  Feeds = {fa, fb}
  Recent = FALSE
  Foreign <- MCForeign
  LastPlay <- MCLastPlay
  PlayPage = 1
  Window = 1
  MaxOutages = 1
  LastEvent = 2
  Batch = 1
  MinimumEvents = 1
  ProfileCalls = 2
  MaxFailures = 1
  LastRow = 2
  Repairs = {p1}
  BatchSize = 1
  MaxWrites = 2
  RepassFaults = 1
  Stores = {i1, i2, i3}
  MaxInFlight = 1
  MaxQueued = 1
  Estimate <- MCEstimate
  Limit = 3
CHECK_DEADLOCK FALSE
INVARIANTS TypeOK DerivedIsCurrent NothingSkipped RolledUpOnce DrainedStaysDrained
PROPERTY WorkIsFinished
