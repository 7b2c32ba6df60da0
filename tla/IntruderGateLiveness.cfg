\* Two intruder cores: enough for one to be released while the other is
\* still being started, stopped or waiting for the lock.
CONSTANT N = 2
SPECIFICATION Spec
PROPERTIES
  BreakTakesEffect
  ContTakesEffect
  KeepsPromise
