SPECIFICATION FairSpec
CONSTANTS
  c1 = c1
  c2 = c2
  w1 = w1
  w2 = w2
  b1 = b1
  r1 = r1
  q1 = q1
  q2 = q2
  q3 = q3
  Clients = {c1}
  Attached = {c1}
  Workers = {}
  Aborters = {b1}
  Runs = {r1}
  Requests = {q1, q2}
  RunOf <- OneRun
  Submits <- SubmitsAll
  Impatient = {c1}
  Mortal = {}
  MaxStream = 2
  MaxCrashes = 0
  MaxBoots = 0
  MaxAborts = 1
  None = None
INVARIANTS
  TypeOK
  TranscriptKept
  LastEventCurrent
  BusyMeansActive
PROPERTIES
  StartedSettles
CHECK_DEADLOCK FALSE
