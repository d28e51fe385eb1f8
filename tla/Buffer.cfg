\* Two byte values; integers of one and two bytes; a vector of up to 7 bytes.
CONSTANTS
  kCheapPrepend = 2
  kInitialSize = 2
  ExtraSize = 2
  ByteBase = 2
  CR = 1
  LF = 0
  Widths = {1, 2}
  MaxData = 3
  MaxSize = 7
SPECIFICATION Spec
INVARIANTS
  TypeOK
  MakeSpaceAsserts
PROPERTIES
  ImplementsByteQueue
