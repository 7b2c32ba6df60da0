\* Two processes for two CPUs.
CONSTANTS
  Procs = {"wasm", "stress"}
  Wasm = "wasm"
  Groups = {0, 1}
  GroupOf <- MCGroupOf
  IrqGroup = 1
  CpuOf <- MCCpuOf
  Primaries = {"wasm"}
  RingCap = 1
  ChanCap = 1
  MaxSent = 1
SPECIFICATION SafeSpec
INVARIANT
  BoundAsConfigured
