SPECIFICATION LiveSpec
CONSTANTS
  s1 = s1
  m1 = m1
  q1 = q1
  q2 = q2
  c1 = c1
  c2 = c2
  w1 = w1
  w2 = w2
  Subs = {s1}
  Mems = {m1}
  Requests = {q1, q2}
  Clients = {c1, c2}
  Workers = {w1, w2}
  None = None
  MaxAttempts = 2
  Stalls = TRUE
  MaxFaults = 2
INVARIANTS
  TypeOK
  SecretToldSigns
  RevocationBeforeConnectWins
PROPERTIES
  ImplementsPromise
  EveryDeliveryEnds
