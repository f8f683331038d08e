SPECIFICATION Spec
CONSTANTS
  Ids = {i1, i2, i3}
  Bodies = {b1, b2}
  Keys = {}
  Months = {}
  Ttls = {1}
  None = None
  Editors = {e1}
  Classifiers = {}
  Mergers = {m1}
  Operators = {o1}
  Purgers = {p1}
  Retention = 1
  MaxForgetRows = 2
  MaxPurgeRows = 2
  MaxClusterSize = 2
  MaxTime = 1
  MaxRevision = 1
SYMMETRY IdAndBodySymmetry
CHECK_DEADLOCK FALSE
INVARIANTS LinkMirrorsMembership ForgottenClaimHidden CanonicalReflectsMembers
PROPERTIES OnlyExpiredOrApprovedErased ImplementsLedger
CONSTRAINTS TwoAtWork LimitedApart
