\* One host, two clients, two slots; one of the clients may host as well.
CONSTANTS
  n0 = n0  n1 = n1  n2 = n2
  d1 = d1  d2 = d2  d3 = d3  d4 = d4  d5 = d5
  long = long  short = short
  Nodes = {n0, n1, n2}
  Zero = n0
  NumSlots = 2
  QLen = 1
  ClientTTL = 2
  PeerTTL = 1
  Announce = 0
  DevIds = {d1, d2, d3, d4}
  NoId = none
  Data = {short}
  LongData = {}
  Empty = empty
  Cmds <- OneHostCmds
  MaxCmds = 5
  MaxNet = 1
SYMMETRY Symmetric
SPECIFICATION Spec
INVARIANTS SlotDataFromItsClient OnePlaceEach
PROPERTY SlotTouchedByItsClient
