SPECIFICATION FairSpec
CONSTANTS
    MaxEdits = 1
    MaxFaults = 1
INVARIANTS
    NoStrayCluster
    NoStrayTaskUnlessRemoved
PROPERTIES
    AdoptedOnRequest
    EventuallySettled
CHECK_DEADLOCK FALSE
