\* Any of the processes, or none of them, is the primary.
CONSTANTS
  Procs = {"wasm", "stress"}
  Wasm = "wasm"
  Groups = {0, 1}
  GroupOf <- MCGroupOf
  IrqGroup = 1
  CpuOf <- MCCpuOf
  Primaries = {"wasm", "stress", "other"}
  RingCap = 2
  ChanCap = 1
  MaxSent = 3
SPECIFICATION SafeSpec
INVARIANTS
  TypeOK
  Contained
  NothingLeftBehind
  NothingLost
  CompleteOnSuccess
PROPERTIES
  KeepsPipe
  KeepsOrders
