SPECIFICATION MachineSpec
CONSTANTS
  MaxCycles = 9
  ResetCycles = 2
  CounterModulus = 16
  Divider = 3
  Half = 4
  Alarms <- MCAlarms
  Pokes <- MCPokes
INVARIANTS
  NoExitIsLost
  TimeoutMeansFullBudget
  FinalOnce
  AlarmIsExact
  TimeReadIsConsistent
  MtimeKeepsTime
  DevicesKeepTime
PROPERTIES
  SimulationEnds
