\* cancel() in the loop thread against addTimer() in another.
CONSTANTS
  Timers = {t1, t2}
  Intervals = {0, 1}
  MinDelay = 1
  MaxWhen = 2
  MaxTime = 5
SYMMETRY Symmetry
SPECIFICATION Spec
INVARIANTS
  CancelCancels
CHECK_DEADLOCK FALSE
