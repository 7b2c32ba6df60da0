\* A buffer that starts unaligned and is filled by up to nine blocks; the
\* largest size does not fit at all.
CONSTANTS
  Word = 64
  BufAddr = 5
  BufLen = 14
  Sizes = {1, 3, 5, 31}
  Aligns = {1, 2, 8}
SPECIFICATION Spec
INVARIANTS
  TypeOK
  BlocksInBuffer
  BlocksDisjoint
