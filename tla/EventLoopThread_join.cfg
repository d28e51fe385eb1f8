\* The destructor against a thread that has not entered loop() yet.
CONSTANTS
  Functors = {f1, f2}
  Callers = {Owner}
  Owner = Owner
  LoopThread = LoopThread
  Sources = {s1}
  WakeupChannel = WakeupChannel
  EventfdMax = 2
SPECIFICATION FairThreadSpec
PROPERTIES
  DestructorJoins
CHECK_DEADLOCK FALSE
