CONSTANTS
  kCheapPrepend = 2
  kInitialSize = 2
  kExtra = 2
  Base = 2
  kCR = 1
  kLF = 0
  IntSizes = {1, 2, 3}
  kInt16 = 2
  MaxSize = 6
  MaxLen = 2
SPECIFICATION Spec
INVARIANT BufferInv
PROPERTIES ImplementsByteQueue MethodContracts
