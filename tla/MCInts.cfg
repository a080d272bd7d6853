SPECIFICATION FairSpec
CONSTANTS
  MaxBits = 4
  Modulus = 13
  Radix = {1, 2, 3}
  BitAnd <- BigAnd
  BitOr <- BigOr
  BitXor <- BigXor
INVARIANT Canonical
PROPERTIES ImplementsWords IndexIsCounter ForEnds
CHECK_DEADLOCK FALSE
