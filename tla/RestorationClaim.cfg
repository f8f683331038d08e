SPECIFICATION Spec
CONSTANTS
  Ids = {i1, i2, i3}
  Bodies = {b1}
  Keys = {}
  Months = {}
  Ttls = {1}
  None = None
  Editors = {}
  Classifiers = {}
  Mergers = {m1}
  Operators = {o1}
  Purgers = {}
  Retention = 1
  MaxForgetRows = 2
  MaxPurgeRows = 2
  MaxClusterSize = 2
  MaxTime = 2
  MaxRevision = 1

CHECK_DEADLOCK FALSE
INVARIANT HiddenMembersRestorable
