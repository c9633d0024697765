SPECIFICATION FairSpec
CONSTANTS
  Tasks = {"backup"}
  Upgrading = "none"
  SpecEdits = 1
  LimitEdits = 2
  RackEdits = 2
  OwnEdits = 3
  RackStart = {1}
  MaxFaults = 1
  MaxLag = 2
INVARIANTS LastingClaimIsTrue
PROPERTIES RackRemovedWhenEmptyUnlessMisreported EventuallySettled
CHECK_DEADLOCK FALSE
