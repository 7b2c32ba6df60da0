\* The primary is not configured.
CONSTANTS
  Procs = {"wasm", "stress"}
  Wasm = "wasm"
  Groups = {0, 1}
  GroupOf <- MCGroupOf
  IrqGroup = 1
  CpuOf <- MCCpuOf
  Primaries = {"other"}
  RingCap = 1
  ChanCap = 1
  MaxSent = 1
SPECIFICATION Spec
PROPERTY
  ErrorReported
