CONSTANTS
  Slots <- MCSlots
  Nodes <- MCNodes
  NodeOf <- MCNodeOf
  DeviceOf <- MCDeviceOf
  Owners = {o1}
  MaxReservations = 2
  PairIds = {p1, p2, p3}
  Refs = {s1, s2, s3}
  MaxTime = 1
  Never = Never
SPECIFICATION LedgersSpec
INVARIANTS
  LedgerConsistent
  OnePairPerSlot
PROPERTIES
  PhysicalStateKept
  BothImplementLeases
