CONSTANTS
  Preparations <- MCPreparations
  Mixtures <- MCMixtures
  PauliPairs <- MCPauliPairs
  MaxOperations = 3
  Samplers <- MCSamplers
  Unitaries <- MCUnitaries
  Channels <- MCChannels
  POVMs <- MCPOVMs
  AxesTried <- MCAxesTried
  Ancillas <- MCFresh
  MaxSize = 4
  Names = {a, b, c}
  MaxRef = 5
  MaxTargets = 3
SPECIFICATION QuantumStatesSpec
INVARIANT RequestedOrderKept
CHECK_DEADLOCK FALSE
