SPECIFICATION FairSpec
CONSTANTS
    c1 = c1
    c2 = c2
    s1 = s1
    s2 = s2
    Clients = {c1}
    Sockets = {s1}
    SockOf <- OneClient
    Nonblocking = {}
    Tcp = {}
    WantAddr = {}
    RecvQLimit = 1
    PipeCapacity = 2
    MaxPackets = 6
    NoSocket = NoSocket
PROPERTIES
    RequestServed
    ReceiverServed
\* The network may stop sending, and an application may stop calling.
CHECK_DEADLOCK FALSE
