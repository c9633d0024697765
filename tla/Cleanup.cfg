\* Another node joins and may leave around the cleanups of a node, with two faults.
SPECIFICATION FairCleanupSpec
CONSTANTS
  Residents = 1
  Keyspaces = 2
  MaxGuests = 1
  MaxFailures = 2
INVARIANTS
  MarkedIsClean
PROPERTIES
  EventuallyCleanedUp
CHECK_DEADLOCK FALSE
