SPECIFICATION Spec
CONSTANTS
  Ids = {i1, i2, i3}
  Bodies = {b1}
  Keys = {}
  Months = {}
  Ttls = {}
  None = None
  Editors = {}
  Classifiers = {}
  Mergers = {m1}
  Operators = {o1}
  Purgers = {p1}
  Retention = 1
  MaxForgetRows = 2
  MaxPurgeRows = 2
  MaxClusterSize = 2
  MaxTime = 2
  MaxRevision = 1

CHECK_DEADLOCK FALSE
PROPERTY ProvenanceBlocksPurge
