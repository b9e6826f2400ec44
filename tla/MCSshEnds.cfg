\* One node with more output.
CONSTANTS
    Nodes = {1}
    Handlers = 2
    MaxBytes = 3
    BufferSize = 2
SPECIFICATION FairSpec
PROPERTY EndsAfterEof
