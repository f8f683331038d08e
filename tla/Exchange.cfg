SPECIFICATION MCSpec
CONSTANTS
  account = account
  alpha = alpha
  beta = beta
  bad = bad
  None = None
  Processes = {p1, p2}
  Evidence = {e1, e2}
  Insights = {insight}
  MaxGenerations = 2
  MaxRunCalls = 2
  MonthlyCalls = 2
  LastSeason = 2
  MaxRevision = 1
  MaxDisruptions = 1
  LastRecord = 3
  LastSnapshot = 3
  Says <- MCSays
  Poison = {bad}
  GuardedSize = 3
  MaxResets = 1
  MaxChanges = 1
  MaxBreaks = 1
  LastRow = 4
  Created <- MCCreated
  TicksPerMs = 2
  Keyless = {1, 3}
  Denied = {4}
  FeedPage = 2
  FeedBatch = 2
  MaxPages = 4
  MaxWrites = 1
  MaxCuts = 2
  Keys = {k1, k2}
  PerMinute = 1
  PerDay = 2
  MinutesPerDay = 2
  RetentionDays = 1
  Graces = {1}
  LastMinute = 4
  Accounts = {account}
  LastPlay <- MCLastPlay
  PlayPage = 1
  Window = 2
  MaxOutages = 2
  Contents <- MCContents
  MaxChunk = 2
  MaxChunks = 2
  MaxDocuments = 2
  MaxFailures = 1
  Checkouts <- MCCheckouts
  LastMigration = 4
  Compatible = {1}
  Granting = {2}
  Reviewed = {1, 2, 3}
  OldLedger = {1, 3}
  MaxMishaps = 1
SYMMETRY Interchangeable
CHECK_DEADLOCK FALSE
INVARIANTS TypeOK StoredOnce BudgetsKept CopyIsFaithful ProgressIsTrue NameUnambiguous
PROPERTIES EvidenceIsWhatWasRead DestinationKept
