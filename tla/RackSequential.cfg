\* One node operation at a time: order of requests and deferral of a raised count.
CONSTANTS
  MaxNodes = 3
  Parallel = FALSE
  MaxChanges = 3
  MaxFaults = 1
  MaxLost = 0
  MaxDisruptions = 0
SPECIFICATION Spec
INVARIANTS
  OneDecommissionAtATime
PROPERTIES
  RaiseIsDeferred
