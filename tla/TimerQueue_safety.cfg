\* Two timers on a clock of five units.
CONSTANTS
  Timers = {t1, t2}
  Intervals = {0, 1}
  MinDelay = 1
  MaxWhen = 2
  MaxTime = 5
SYMMETRY Symmetry
SPECIFICATION Spec
INVARIANTS
  TypeOK
  SetsAgree
  NoLostTimer
  CancelledStaysCancelled
  NeverAheadOfSchedule
CHECK_DEADLOCK FALSE
