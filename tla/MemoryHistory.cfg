SPECIFICATION Spec
CONSTANTS
  Ids = {i1, i2, i3}
  Bodies = {b1, b2}
  Keys = {k1}
  Months = {1, 2}
  Ttls = {}
  None = None
  Editors = {e1}
  Classifiers = {c1}
  Mergers = {}
  Operators = {}
  Purgers = {}
  Retention = 1
  MaxForgetRows = 1
  MaxPurgeRows = 2
  MaxClusterSize = 2
  MaxTime = 2
  MaxRevision = 2
SYMMETRY IdAndBodySymmetry
CHECK_DEADLOCK FALSE
INVARIANTS TypeOK ContiguousHistory OneVersionAtAnyInstant VectorMatchesBody
PROPERTY SettledRowsNeverRewritten
CONSTRAINTS TextsOrRows KeyedEarly MonthsEarly TwoRevisions
