\* The list workaround, POSIX threads, threads that may fail to start.
CONSTANTS
    Discipline = "push"
    Platform = "posix"
    MaxNodes = 3
    Requests <- MCRequests
    NumCallbacks = 1
    ResourcesFail = TRUE
SPECIFICATION FairSpec
INVARIANTS
    TypeOK
    SlotOwned
    CommandOutlivesCalls
    ConcurrencyBound
    CompleteOnReturn
    NullNodeOnlyMidPass
    SerialWalkIsComplete
PROPERTIES
    LeakedSlotsHang
    Terminates
    Implements
