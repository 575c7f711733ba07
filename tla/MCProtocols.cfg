CONSTANTS
  Passes = 2
  Pairs <- MCPairs
  Frames <- MCFrames
  MinPerCategory = 1
  MarginPercent = 5
  MinSample = 1
  MinRemaining = 2
  SamplePercent = 20
  AbortPercent = 50
  MinBlock = 2
  MaxFirstBlock = 2
  QberFloorPercent = 2
  TagLen = 1
  SecurityMargin <- MCSecurityMargin
  MinFinalKey = 2
  EveBits <- MCEveBits
  ErrorBits <- MCErrorBits
  SampleChoices <- MCSampleChoices
  Shuffles <- MCShuffles
  MaxLost = 1
  Nodes <- MCNodes
  Links <- MCLinks
  LinkEnds <- MCLinkEnds
  CostTables <- MCCosts
  Questions <- MCQuestions
  Rounds = 3
  Distances = {1, 2, 3, 8}
  Sessions <- MCSessions
  DeviceOrder <- MCDeviceOrder
  AgentOrder <- MCAgentOrder
  Streams <- MCStreams
  Standing <- MCStanding
SPECIFICATION ProtocolsSpec
INVARIANTS
  KeptNeverRevealed
  KeysAgree
  RoundsAreSound
  RoutesFound
  AgentsStartBound
PROPERTIES
  ProtocolsEnd
CHECK_DEADLOCK FALSE
