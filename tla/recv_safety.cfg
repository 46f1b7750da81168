SPECIFICATION Spec
CONSTANTS
    c1 = c1
    c2 = c2
    s1 = s1
    s2 = s2
    Clients = {c1, c2}
    Sockets = {s1, s2}
    SockOf <- OneSocketEach
    Nonblocking = {s2}
    Tcp = {}
    WantAddr = {c1, c2}
    RecvQLimit = 1
    PipeCapacity = 2
    MaxPackets = 4
    NoSocket = NoSocket
INVARIANTS
    TypeOK
    QueueBounded
    NoLostWakeup
    OneAnswerPerCall
    HandoverInOrder
    AbortsExplained
PROPERTIES
    ServiceKept
\* The network may stop sending, and an application may stop calling.
CHECK_DEADLOCK FALSE
