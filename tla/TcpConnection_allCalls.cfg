\* Two messages; every call from every thread, and a server that may go.
CONSTANTS
  Messages = {m1, m2}
  MessageSize = 2
  HighWaterMark = 3
  OtherThreads = {o1}
  OtherCalls = {"send", "shutdown", "forceClose", "forceCloseWithDelay", "startRead", "stopRead"}
  LoopCalls = {"send", "shutdown", "forceClose", "forceCloseWithDelay", "startRead", "stopRead"}
  ServerStops = TRUE
  MaxInbox = 1
  MaxQueue = 1
  MaxCloses = 1
SPECIFICATION Spec
INVARIANTS
  TypeOK
  StreamIntact
  AssertsFailOnlyAfter
CHECK_DEADLOCK FALSE
