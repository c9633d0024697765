SPECIFICATION Spec
CONSTANTS
  NumRacks = 2
  MaxNodes = 2
  InitialNodes = 2
  Images = {"1.0", "2.0", "2.1", "3.0"}
  MinorVersion <- MCMinorVersion
  InitialImage = "1.0"
  Keyspaces = {"k1", "k2"}
  OrderedReady = TRUE
  MaxChanges = 2
  MaxScales = 0
  MaxFaults = 1
  MaxRestarts = 1
INVARIANT OneNodeDown
INVARIANT TwoMinorVersions
INVARIANT NoSnapshotLeft
PROPERTY BackedUpBeforeUpgrade
CHECK_DEADLOCK FALSE
