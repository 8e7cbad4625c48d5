\* A size_t of four bits.
CONSTANTS
  SizeMod = 16
  MaxPush = 3
SPECIFICATION Spec
INVARIANT InsideBuffer
