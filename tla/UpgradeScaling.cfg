\* One rack that is scaled during two upgrades, and Pods managed in parallel;
\* undisturbed upgrades run to their end.
SPECIFICATION FairSpec
CONSTANTS
  NumRacks = 1
  MaxNodes = 3
  InitialNodes = 2
  Images = {"1.0", "2.0", "2.1", "3.0"}
  MinorVersion <- MCMinorVersion
  InitialImage = "1.0"
  Keyspaces = {"k1", "k2"}
  OrderedReady = FALSE
  MaxChanges = 2
  MaxScales = 2
  MaxFaults = 1
  MaxRestarts = 0
PROPERTY EventuallyRolledOut
CHECK_DEADLOCK FALSE
