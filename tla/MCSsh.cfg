\* Two nodes, two handlers.
CONSTANTS
    Nodes <- MCNodes
    Handlers = 2
    MaxBytes = 2
    BufferSize = 3
SPECIFICATION Spec
INVARIANTS
    TypeOK
    InOrder
    CompleteAtEnd
    HandlersAgree
    ReleasedOnSuccess
    OneIdentityOffered
