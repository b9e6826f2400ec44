\* The lists as they are compiled.
CONSTANTS
    Discipline = "append"
    Names = {"foreman", "ssh"}
    Paths <- MCPaths
    DefaultPath = 1
    Unreadable = 3
    MaxNames = 2
    MaxPaths = 2
SPECIFICATION Spec
INVARIANTS
    TypeOK
    CalledAreMapped
    RegisteredForOwnPlugin
    OnlyUnsetSearched
    ConfiguresOwnPlugin
    UnloadsAllButYoungest
