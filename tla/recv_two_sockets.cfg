SPECIFICATION FairSpec
CONSTANTS
    c1 = c1
    c2 = c2
    s1 = s1
    s2 = s2
    Clients = {c1, c2}
    Sockets = {s1, s2}
    SockOf <- OneSocketEach
    Nonblocking = {}
    Tcp = {}
    WantAddr = {}
    RecvQLimit = 1
    PipeCapacity = 2
    MaxPackets = 2
    NoSocket = NoSocket
PROPERTIES
    RequestServed
\* The network may stop sending, and an application may stop calling.
CHECK_DEADLOCK FALSE
