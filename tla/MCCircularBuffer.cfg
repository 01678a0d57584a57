CONSTANTS
    b0 = b0
    b1 = b1
    Byte <- MCByte
    ZeroByte = b0
    Size = 3
    MaxChunk = 4
    MaxSize = 6
SPECIFICATION Spec
INVARIANT TypeOK
PROPERTY ImplementsFifo
