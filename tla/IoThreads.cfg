\* two connections, three messages, two commands
SPECIFICATION BoundedSpec
CONSTANTS
  k1 = k1
  k2 = k2
  Conns = {k1, k2}
  Commands <- MCCommands
  Capacity = 4
  MaxWrites = 2
  QueueSize = 1
  MaxReads = 2
  MaxInAll = 3
  MSG_QUIT = MSG_QUIT
INVARIANT SendsAllInOrder
PROPERTIES
  NothingAfterStop
  StopEnds
  Delivered
  StreamSpec
\* the server stops, or waits for ever
CHECK_DEADLOCK FALSE
