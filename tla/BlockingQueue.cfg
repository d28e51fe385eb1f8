\* Four threads on a BlockingQueue, or on a BoundedBlockingQueue of capacity 1 or 2.
CONSTANTS
  Threads = {t1, t2, t3, t4}
  NoThread = NoThread
  Conditions = {"notEmpty_", "notFull_"}
  MaxSizes = {1, 2}
  MaxLength = 2
SPECIFICATION Spec
INVARIANTS
  HolderIsOwner
  NoLostSignal
