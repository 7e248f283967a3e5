SPECIFICATION Spec
CONSTANTS
  c1 = c1
  c2 = c2
  w1 = w1
  w2 = w2
  b1 = b1
  r1 = r1
  q1 = q1
  q2 = q2
  q3 = q3
  Clients = {c1}
  Attached = {}
  Workers = {w1, w2}
  Aborters = {}
  Runs = {r1}
  Requests = {q1}
  RunOf <- OneRun
  Submits <- SubmitsAll
  Impatient = {}
  Mortal = {c1, w1, w2}
  MaxStream = 0
  MaxCrashes = 1
  MaxBoots = 1
  MaxAborts = 0
  None = None
INVARIANTS
  ExclusiveExecution
  RunningIsTended
PROPERTIES
  ExecutedLikeLifecycle
SYMMETRY Interchangeable
CHECK_DEADLOCK FALSE
