CONSTANTS
  Apps = {"server", "client"}
  Ndg = 2
  UPPLEN = 1
  MAXMSGS = 1
  NETBUFS = 2
  Asks <- MCAsks
  AnyPorts = 2
  Dests = {2050, 2051}
SPECIFICATION FairSpec
INVARIANTS BuffersConserved QueuedAtOwner TimedReaderTold
PROPERTIES UdpInReturns
CHECK_DEADLOCK FALSE
