\* Files of three and four units, chunks of one and two units.
SPECIFICATION FairSpec
CONSTANTS
    small = small
    large = large
    Image <- MCImage
    Length <- MCLength
    ChunkSizes = {1, 2}
    MaxChunks = 5
    MissedToSend = 2
    MinimumIncrease = 1
    None = None
INVARIANTS
    TypeOK
    AppliesComplete
    ReceivedMeansSaved
PROPERTIES
    TransferEnds
    ImplementsUpdate
