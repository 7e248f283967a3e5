SPECIFICATION Spec
CONSTANTS
  t1 = t1
  t2 = t2
  h1 = h1
  h2 = h2
  m1 = m1
  m2 = m2
  m3 = m3
  Calls = {t1, t2}
  Children = {h1}
  Messages = {m1, m2}
  Interrupts = {m2}
  MaxSteps = 1
  None = None
INVARIANTS
  NotificationsArrive
CHECK_DEADLOCK FALSE
