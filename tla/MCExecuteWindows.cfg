\* Windows mutexes: the caller is always granted a slot.
CONSTANTS
    Discipline = "push"
    Platform = "windows"
    MaxNodes = 3
    Requests <- MCRequests
    NumCallbacks = 1
    ResourcesFail = FALSE
SPECIFICATION FairSpec
INVARIANT ConcurrencyBound
