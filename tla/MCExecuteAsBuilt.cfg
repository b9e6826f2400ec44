\* The list as it is compiled: the first cell holds no node.
CONSTANTS
    Discipline = "append"
    Platform = "posix"
    MaxNodes = 3
    Requests <- MCRequests
    NumCallbacks = 1
    ResourcesFail = FALSE
SPECIFICATION FairSpec
INVARIANT NodeNotNull
