\* Two cores, so that one may be stopped while the other still runs. A run
\* that makes progress takes up to six quanta, and room is left for one that
\* does not; an order leaves the cores one unit to stop.
CONSTANTS
  FuelAmount = 2
  Residues = {0, 1, 2}
  TotalFuel = 5
  RunFuel = 5
  FirstRunFuel = 6
  Deadline = 5
  Hyst = 1
  Grain = 2
  QuietTpf = 1
  BusyTpf = 3
  StopLoss = 2
  Overhead = 1
  MaxRefuels = 6
  NsPerUs = 2
  Word = 512
  Workers = {c1, c2}
SPECIFICATION SysSpec
INVARIANTS
  SysTypeOK
  OrderReachesAll
PROPERTY
  ImplementsLoop
