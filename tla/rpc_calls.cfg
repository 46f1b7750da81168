SPECIFICATION Spec
CONSTANTS
  Threads = {t1, t2}
  Builds = {"Debug", "Release"}
  SocketTypes <- MCSocketTypes
  Peers <- MCPeers
  MaxData = 2
  BufferLengths = {1, 3}
  PacketLengths = {0, 2, 3}
  MaxSockets = 2
  MaxCalls = 2
  MaxPackets = 1
SYMMETRY MCSymmetry
INVARIANTS FdDenotesSocket  AnswersTruthful AnswerOnItsWay
CHECK_DEADLOCK FALSE
