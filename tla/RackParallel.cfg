\* Parallel node operations with crashes, refused calls, lost answers and node
\* disruptions: what never goes wrong, and what always ends.
CONSTANTS
  MaxNodes = 2
  Parallel = TRUE
  MaxChanges = 2
  MaxFaults = 1
  MaxLost = 1
  MaxDisruptions = 1
SPECIFICATION FairSpec
INVARIANTS
  IInv
  MembersBelowReplicas
PROPERTIES
  MembershipSpec
  OnlyLeftVolumesDeleted
  NoPodOnLeftVolume
  EventuallyConverged
