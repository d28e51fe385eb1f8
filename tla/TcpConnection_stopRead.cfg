\* Callbacks stop reading and force the connection closed.
CONSTANTS
  Messages = {m1}
  MessageSize = 2
  HighWaterMark = 3
  OtherThreads = {o1}
  OtherCalls = {}
  LoopCalls = {"stopRead", "forceClose"}
  ServerStops = FALSE
  MaxInbox = 1
  MaxQueue = 2
  MaxCloses = 2
SPECIFICATION Spec
INVARIANTS
  HandleCloseAssert
CHECK_DEADLOCK FALSE
