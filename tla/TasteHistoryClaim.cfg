SPECIFICATION Spec
CONSTANTS
  Ids = {i1, i2}
  Bodies = {b1, b2}
  Keys = {}
  Months = {1, 2}
  Ttls = {}
  None = None
  Editors = {}
  Classifiers = {}
  Mergers = {}
  Operators = {}
  Purgers = {}
  Retention = 1
  MaxForgetRows = 2
  MaxPurgeRows = 2
  MaxClusterSize = 2
  MaxTime = 2
  MaxRevision = 2

CHECK_DEADLOCK FALSE
PROPERTY SupersededRowsNotRewritten
