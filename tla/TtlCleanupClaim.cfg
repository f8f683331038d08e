SPECIFICATION Spec
CONSTANTS
  Ids = {i1, i2}
  Bodies = {b1}
  Keys = {}
  Months = {}
  Ttls = {2}
  None = None
  Editors = {}
  Classifiers = {c1}
  Mergers = {}
  Operators = {}
  Purgers = {}
  Retention = 1
  MaxForgetRows = 2
  MaxPurgeRows = 2
  MaxClusterSize = 2
  MaxTime = 3
  MaxRevision = 1

CHECK_DEADLOCK FALSE
INVARIANT TtlCleanupNeverBlocked
