CONSTANTS
  Chars = {a, b}
  Nul = nul
  SizeLast = 4
  OffsetLast = 2
  IntegerLast = 1
  MaxWrites = 1
SPECIFICATION FairSpec
INVARIANTS TypeOK NoOverrun LengthBracketed
PROPERTIES AtomicCalls CallsEnd
CHECK_DEADLOCK FALSE
