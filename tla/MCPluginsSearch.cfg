\* With and without --plugin-path.
CONSTANTS
    Discipline = "append"
    Names = {"foreman", "ssh"}
    Paths <- MCPaths
    DefaultPath = 1
    Unreadable = 3
    MaxNames = 1
    MaxPaths = 1
SPECIFICATION Spec
INVARIANT DirectoriesSearched
