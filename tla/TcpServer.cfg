\* Three clients and descriptors for two connections; no pool or one of two threads;
\* nextConnId_ wraps after two connections.
CONSTANTS
  MaxClients = 3
  MaxFds = 3
  MaxOtherFds = 2
  ThreadNums = {0, 2}
  IdRange = 2
  MaxSends = 1
SPECIFICATION Spec
INVARIANTS
  FailsOnlyAfter
  RoundRobin
PROPERTIES
  ClosedIsReleased
  BacklogServed
CHECK_DEADLOCK FALSE
