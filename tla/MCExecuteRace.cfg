\* Two threads share the loop cursor.
CONSTANTS
    Discipline = "push"
    Platform = "posix"
    MaxNodes = 2
    Requests <- MCRequests
    NumCallbacks = 2
    ResourcesFail = FALSE
SPECIFICATION FairSpec
INVARIANT DoneMeansExecuted
