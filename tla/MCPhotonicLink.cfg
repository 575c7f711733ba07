CONSTANTS
  Sides <- MCSides
  Single = "right"
  Start = 1
  Period = 3
  Stop = 6
  MaxDelay = 2
  Delay = 1
  MaxJitter = 1
  Window = 3
  Latency = 1
  DeadTime = 2
  MaxOffset <- MCOffset
  MaxClickJitter = 1
  NoClick = NoClick
  DetectorsOf <- MCDetectors
  GateOf <- MCGate
  Resolving <- MCResolving
SPECIFICATION Spec
INVARIANTS
  QubitsFollowSignals
  EmissionsOnSchedule
  DeadTimeKept
PROPERTIES
  EverySignalEnds
CHECK_DEADLOCK FALSE
