CONSTANTS
  Datagrams = {"a", "b", "c", "d"}
  Size <- MCSize
  Cut <- MCCut
  IP_FQSIZE = 3
  IP_FTTL = 2
  MAXLRGBUF = 3
  NETBUFS = 4
  LRGBUFS = 1
  NETSTART_SLOWTIMER = TRUE
  MaxGran = 2
  MaxArrive = 5
SPECIFICATION FairSpec
INVARIANTS BuffersConserved WholeDatagram JoinedWhenComplete
PROPERTIES TableDrains
