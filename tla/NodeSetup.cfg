\* An array or a loop device; two containers.
SPECIFICATION FairSpec
CONSTANTS
    Kinds = {"array", "loop"}
    SetupEdits = 2
    SetupFaults = 2
    SetupOthers = 1
    TuneEdits = 1
    TuneFaults = 1
    TuneOthers = 0
    MaxContainers = 2
PROPERTIES
    DataKept
    StartsTuned
    EventuallyServing
