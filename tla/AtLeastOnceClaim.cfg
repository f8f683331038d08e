SPECIFICATION Spec
CONSTANTS
  Subs = {s1}
  Mems = {m1}
  Requests = {q1}
  Clients = {c1}
  Workers = {w1, w2}
  None = None
  MaxAttempts = 3
  Stalls = TRUE
  MaxFaults = 2
SYMMETRY WorkerSymmetry
INVARIANT NeverCancelledUnrevoked
