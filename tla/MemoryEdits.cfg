SPECIFICATION Spec
CONSTANTS
  i1 = i1
  i2 = i2
  b1 = b1
  b2 = b2
  k1 = k1
  e1 = e1
  e2 = e2
  Ids = {i1, i2}
  Bodies = {b1, b2}
  Keys = {k1}
  Months = {}
  Ttls = {}
  None = None
  Editors = {e1, e2}
  Classifiers = {}
  Mergers = {}
  Operators = {}
  Purgers = {}
  Retention = 1
  MaxForgetRows = 2
  MaxPurgeRows = 2
  MaxClusterSize = 2
  MaxTime = 2
  MaxRevision = 2
SYMMETRY IdAndBodySymmetry
CHECK_DEADLOCK FALSE
INVARIANTS VectorMatchesBody
