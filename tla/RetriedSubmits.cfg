SPECIFICATION FairSpec
CONSTANTS
  c1 = c1
  c2 = c2
  w1 = w1
  w2 = w2
  b1 = b1
  r1 = r1
  q1 = q1
  q2 = q2
  q3 = q3
  Clients = {c1, c2}
  Attached = {}
  Workers = {w1}
  Aborters = {b1}
  Runs = {r1}
  Requests = {q1}
  RunOf <- OneRun
  Submits <- SubmitsAll
  Impatient = {}
  Mortal = {}
  MaxStream = 0
  MaxCrashes = 0
  MaxBoots = 0
  MaxAborts = 1
  None = None
INVARIANTS
  AcceptedOnce
  StartedOnce
PROPERTIES
  
  AbortIsFinal
CHECK_DEADLOCK FALSE
ACTION_CONSTRAINT OneDisturbance
