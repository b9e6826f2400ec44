\* One node whose lines fill the buffer.
CONSTANTS
    Nodes = {1}
    Handlers = 1
    MaxBytes = 3
    BufferSize = 2
SPECIFICATION FairSpec
INVARIANT InBuffer
