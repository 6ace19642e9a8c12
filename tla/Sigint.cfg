SPECIFICATION Spec
CONSTANTS
  MaxCycles = 4
  ResetCycles = 2
  CounterModulus = 8
INVARIANTS
  InterruptIs130
