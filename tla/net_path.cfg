SPECIFICATION Spec
CONSTANTS
  PortMod = 2
  FirstPort = 0
  MaxId = 2
  Remotes <- MCRemotes
  Packets <- MCPackets
  MaxPcbs = 2
  MaxOps = 5
  MaxPackets = 2
INVARIANTS DemuxCorrect EstablishedByPeer IdsDistinct PortsDistinct
CHECK_DEADLOCK FALSE
