\* Counters of 2 bits, so that one overflows and the pair does; a frequency
\* that is no multiple of a megahertz; a cache of 4 sets and 4 ways.
CONSTANTS
  None = None
  N = 2
  Bits = 2
  Filled <- MCFilled
  Garbage <- MCGarbage
  Draws = {1, 2}
  Freq = 9
  Mega = 4
  CntWord = 4
  Loads <- MCLoads
  MaxRuns = 2
  Cores = {1, 2, 3}
  SizeBits = 6
  LineBits = 2
  WaysBits = 2
  Step = 1000003
  Base = 128
  SetMasks <- MCSetMasks
SPECIFICATION SystemSpec
INVARIANTS
  SystemTypeOK
  CountsExact
  DurationBracketed
  KernelDecays
  AttackConfined
PROPERTY
  AttackReachesEachLine
