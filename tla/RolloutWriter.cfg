SPECIFICATION LiveSpec
CONSTANTS
    i1 = i1
    i2 = i2
    Clients = {c1, c2}
    Items = {i1, i2}
    Batches <- MCBatches
    Meta = Meta
    ChannelCap = 2
    MaxItems = 3
    MaxResumes = 1
INVARIANT TypeOK
INVARIANT WrittenInOrder
INVARIANT AckedIsWritten
PROPERTY BarrierAnswered
PROPERTY ImplementsLog
CHECK_DEADLOCK FALSE
