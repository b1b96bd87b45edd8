CONSTANTS
  a = a
  b = b
  Chars = {a, b}
  Nul = nul
  AdaStrings <- MCStrings
  Given <- MCGiven
  MaxLen = 3
  MaxHeap = 3
  MaxWrites = 1
  WordSize = 2
  IntegerLast = 2
SPECIFICATION Spec
INVARIANTS NoOverrun SizeBracketed ReadsExact TerminatedTable RoundTrip
