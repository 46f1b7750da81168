SPECIFICATION FairSpec
CONSTANTS
    SeqSpace = 5
    PeerIss = 2
    RecvQLimit = 8
    StoreDelay = FALSE
    Asserts = FALSE
    SendFirst = FALSE
    MaxUp = 3
    MaxDown = 3
    MaxSegment = 2
    Refuses = FALSE
    Window = 2
    Patient = TRUE
    MaxRetransmits = 1
    LossesUp = 0
    LossesDown = 0
    Duplicates = 0
    Reorders = FALSE
INVARIANTS
    AckMeansQueued
PROPERTIES
    DownloadKept
    ConnectCompletes
    UploadCompletes
    DownloadCompletes
\* A connection on which everything has been sent is at rest.
CHECK_DEADLOCK FALSE
