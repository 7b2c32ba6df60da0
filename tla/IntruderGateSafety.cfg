\* The code's three intruder cores.
CONSTANT N = 3
SPECIFICATION SafeSpec
INVARIANTS
  TypeOK
  InterruptibleOnlyInAttackLoop
  NoLostBreak
PROPERTY KeepsPromiseSafely
