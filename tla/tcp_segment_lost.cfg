SPECIFICATION Spec
CONSTANTS
    SeqSpace = 16
    PeerIss = 14
    RecvQLimit = 8
    StoreDelay = FALSE
    Asserts = TRUE
    SendFirst = FALSE
    MaxUp = 0
    MaxDown = 2
    MaxSegment = 1
    Refuses = FALSE
    Window = 2
    Patient = TRUE
    MaxRetransmits = 1
    LossesUp = 0
    LossesDown = 1
    Duplicates = 0
    Reorders = FALSE
INVARIANTS
    AckMeansQueued
\* A connection on which everything has been sent is at rest.
CHECK_DEADLOCK FALSE
