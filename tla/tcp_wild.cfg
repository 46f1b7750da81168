SPECIFICATION Spec
CONSTANTS
    SeqSpace = 16
    PeerIss = 14
    RecvQLimit = 0
    StoreDelay = TRUE
    Asserts = TRUE
    SendFirst = TRUE
    MaxUp = 2
    MaxDown = 1
    MaxSegment = 1
    Refuses = TRUE
    Window = 2
    Patient = FALSE
    MaxRetransmits = 1
    LossesUp = 1
    LossesDown = 1
    Duplicates = 1
    Reorders = TRUE
INVARIANTS
    TypeOK
    HandshakeAgrees
    SequenceAgrees
    AcksTruthful
    CrashExplained
PROPERTIES
    UploadKept
\* A connection on which everything has been sent is at rest.
CHECK_DEADLOCK FALSE
