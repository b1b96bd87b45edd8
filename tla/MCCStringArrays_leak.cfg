CONSTANTS
  a = a
  b = b
  Chars = {a, b}
  Nul = nul
  AdaStrings <- MCStrings
  Given <- MCGiven
  MaxLen = 2
  MaxHeap = 3
  MaxWrites = 0
  WordSize = 2
  IntegerLast = 3
SPECIFICATION Spec
INVARIANTS DeallocateReleases
