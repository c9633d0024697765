\* Three nodes in two racks come up one by one, with a restart or the loss of a Pod at any point.
SPECIFICATION FairBootstrapSpec
CONSTANTS
  N = 3
  Racks = 2
  Parallel = FALSE
  BootstrapSynchronisation = TRUE
  External = FALSE
  MaxDisruptions = 1
INVARIANTS
  OneClusterWhilePodsStay
  PreconditionIsExact
PROPERTIES
  EventuallyFormed
CHECK_DEADLOCK FALSE
