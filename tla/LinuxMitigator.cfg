\* A run takes three or more quanta with a fuel amount, which is more than the
\* ring holds, and one without. FuelWord is the least that holds a run's fuel.
CONSTANTS
  None = None
  Fuels <- MCFuels
  Wctpfs <- MCWctpfs
  Count = 2
  RingCap = 2
  RunFuel = 7
  Residues = {0, 1, 3}
  MaxCycles = 4
  MinTpf = 1
  MaxTpf = 3
  PsPerNs = 2
  FuelWord = 8
SPECIFICATION Spec
INVARIANTS
  TypeOK
  FuelAccounted
  FreezesOverBudgetOnly
  ModesHold
PROPERTY
  RecordsInOrder
