\* One host and one client under fairness.
CONSTANTS
  n0 = n0  n1 = n1  n2 = n2
  d1 = d1  d2 = d2  d3 = d3  d4 = d4  d5 = d5
  long = long  short = short
  Nodes = {n0, n1}
  Zero = n0
  NumSlots = 1
  QLen = 1
  ClientTTL = 2
  PeerTTL = 2
  Announce = 1
  DevIds = {d1, d2, d3, d4}
  NoId = none
  Data = {short}
  LongData = {}
  Empty = empty
  Cmds <- PairCmds
  MaxCmds = 4
  MaxNet = 1
SPECIFICATION FairSpec
PROPERTIES GhostSlotFreed DeadSessionForgotten RequestAnswered
