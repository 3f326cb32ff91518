SPECIFICATION FairSpec
CONSTANTS
    MaxBytes = 3
    MaxWritten = 2
    MaxRecords = 2
    MaxRead = 2
    HighWater = 2
    None = None
INVARIANTS
    TypeOK
    InOrder
PROPERTIES
    ImplementsByteStream
    EveryByteIsRead
