\* The constants of MitigationLoop.cfg: run 0 needs more than TotalFuel.
CONSTANTS
  FuelAmount = 4
  Residues = {0, 1, 4}
  TotalFuel = 20
  RunFuel = 20
  FirstRunFuel = 23
  Deadline = 20
  Hyst = 3
  Grain = 2
  QuietTpf = 1
  BusyTpf = 4
  StopLoss = 2
  Overhead = 1
  MaxRefuels = 8
  NsPerUs = 2
  Word = 8192
SPECIFICATION Spec
INVARIANT NoUnderflow
