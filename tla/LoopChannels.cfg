\* Four channels on three descriptors: c4 reuses the descriptor of c1.  The
\* list of epoll_wait() starts with room for one event.
CONSTANTS
  c1 = c1
  c2 = c2
  c3 = c3
  c4 = c4
  Channels = {c1, c2, c3, c4}
  fd <- MCfd
  kInitEventListSize = 1
SPECIFICATION Spec
INVARIANTS
  TypeOK
  PollerNeverAborts
  NoDanglingPointer
  IndexFindsOwnPlace
PROPERTIES
  ImplementsPoller
  NoChannelStarves
CHECK_DEADLOCK FALSE
