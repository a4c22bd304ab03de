SPECIFICATION FairSpec
CONSTANTS
    Base = 3
    MaxMessage = 3
    BufferSizes = {1, 2, 3, 5}
    MaxBytes = 8
    Parse <- MCParse
CHECK_DEADLOCK FALSE
INVARIANTS DecoderInv CutsDoNotMatter CountsExact
PROPERTY RunEnds
