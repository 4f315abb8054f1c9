SPECIFICATION FairSpec
CONSTANTS
    BufferLines = 2
    MaxBuffers = 3
    MaxLines = 15
INVARIANTS
    TypeOK
    LinesAccounted
    BuffersReady
PROPERTIES
    StopReturns
CHECK_DEADLOCK FALSE
