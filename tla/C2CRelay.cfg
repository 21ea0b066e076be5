SPECIFICATION FairSpec
CONSTANTS
    DEFAULT_BUF_SIZE = 2
    MaxBytes = 4
    INT_MAX = 3
    EAGAIN = 1
    Garbage <- Ints
INVARIANTS
    TypeOK
    RoomToRead
    NeverStalls
    IntactUntilCrossed
PROPERTY
    DeliveredUnlessCrossed
