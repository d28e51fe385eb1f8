\* Two messages; other threads send, callbacks send and close.
CONSTANTS
  Messages = {m1, m2}
  MessageSize = 2
  HighWaterMark = 3
  OtherThreads = {o1}
  OtherCalls = {"send"}
  LoopCalls = {"send", "shutdown", "forceClose", "forceCloseWithDelay"}
  ServerStops = FALSE
  MaxInbox = 1
  MaxQueue = 3
  MaxCloses = 2
SPECIFICATION FairSpec
INVARIANTS
  FinAfterDrain
  BufferedIsWatched
  NoAssertFails
PROPERTIES
  PeerGoneReleases
  DisconnectingEnds
CHECK_DEADLOCK FALSE
