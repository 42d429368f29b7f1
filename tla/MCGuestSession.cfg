CONSTANTS
    Chunk = 2
    Needle <- SecondByte
    Batches <- OneBatch
    MaxCalls = 4
    MaxBytes = 3
    MaxMade = 3
SPECIFICATION Spec
INVARIANTS
    StreamIsWhole
    EofIsHonest
    
    HandleIsOwn
    
CHECK_DEADLOCK FALSE
