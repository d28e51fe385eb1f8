\* Two functors; the loop is stopped by the destructor or from inside.
CONSTANTS
  Functors = {f1, f2}
  Callers = {Owner}
  Owner = Owner
  LoopThread = LoopThread
  Sources = {s1}
  WakeupChannel = WakeupChannel
  EventfdMax = 2
SPECIFICATION FairThreadSpec
INVARIANTS
  TypeOKThread
  NoLostNotify
  OwnerFindsLoop
PROPERTIES
  StartLoopReturns
  DestructorJoinsRunningLoop
CHECK_DEADLOCK FALSE
