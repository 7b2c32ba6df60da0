\* Run 0 needs more than TotalFuel, as in the recorded traces. A run that
\* makes progress takes up to eight quanta, and without mitigation up to 48
\* microseconds against a target of 17.
CONSTANTS
  FuelAmount = 4
  Residues = {0, 1, 4}
  TotalFuel = 20
  RunFuel = 20
  FirstRunFuel = 23
  Deadline = 20
  Hyst = 3
  Grain = 2
  QuietTpf = 1
  BusyTpf = 4
  StopLoss = 2
  Overhead = 1
  MaxRefuels = 8
  NsPerUs = 2
  Word = 8192
SPECIFICATION FairSpec
INVARIANTS
  TypeOK
  FuelAccounted
  BreakOnlyWhenBehind
  ContOnlyWhenOnSchedule
  OvershootBounded
PROPERTY
  BreakEnds
