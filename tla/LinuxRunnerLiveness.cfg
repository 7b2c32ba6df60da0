\* Small buffers, so that each of them fills up and blocks its sender.
CONSTANTS
  Procs = {"wasm", "stress"}
  Wasm = "wasm"
  Groups = {0, 1}
  GroupOf <- MCGroupOf
  IrqGroup = 1
  CpuOf <- MCCpuOf
  Primaries = {"wasm", "stress", "other"}
  RingCap = 1
  ChanCap = 1
  MaxSent = 2
SPECIFICATION Spec
PROPERTIES
  ShutsDown
  DecisionsApplied
  KeepsPipeFairly
