\* A host is lost and a user asks for a replacement, in any order, with a crash or a refused call.
SPECIFICATION FairSpec
CONSTANTS
  Hosts = {h1, h2, h3}
  Barrier = TRUE
  MaxLosses = 2
  MaxRequests = 1
  MaxStale = 1
  MaxFaults = 2
INVARIANTS
  NoStrayMember
PROPERTIES
  FinishedMeansReplaced
  OnlyLostVolumesDeletedUnlessMislabelled
  EventuallyReplaced
CHECK_DEADLOCK FALSE
