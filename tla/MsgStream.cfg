SPECIFICATION Spec
CONSTANTS
    Base = 4
    Readers <- ControlAndNewconn
    UINT_MAX = 1000
    MaxBytes = 9
INVARIANTS
    Framed
    NothingWaits
    RoomToRead
