SPECIFICATION FairSpec
CONSTANTS
  x1 = x1
  o1 = o1
  c1 = c1
  Executor = x1
  Others = {o1}
  Remote = {}
  Clients = {c1}
  MaxConnections = 2
  Capacity = 1
  Batch = 2
INVARIANTS
  TypeOK
  NoSendOnClosed
  InOrder
  BacklogLeavesNoGap
PROPERTIES
  EventsArrive
  StreamsEnd
  CliReturns
CHECK_DEADLOCK FALSE
