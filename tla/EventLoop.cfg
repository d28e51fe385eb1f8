\* Three functors, two calling threads and one other channel.
CONSTANTS
  Functors = {f1, f2, f3}
  Callers = {c1, c2}
  LoopThread = LoopThread
  Sources = {s1}
  WakeupChannel = WakeupChannel
  EventfdMax = 2
SPECIFICATION FairSpec
INVARIANTS
  TypeOK
  NoLostWakeup
  NoSleepThroughQuit
PROPERTIES
  ImplementsTaskExecutor
  TimeoutKeepsRunning
  QueuedRuns
  QuitEndsLoop
