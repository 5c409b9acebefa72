\* A game of four pages in three buffers; all kinds of backup memory, a request or two and
\* a reset; one program of DMA channel 3; a ring of the sound of eight samples;
\* a cable of two consoles, and one of Advance Wars whose queue holds one packet;
\* documents with two fields that are not as they should be.
CONSTANTS
  Window = 4
  NumEntries = 3
  Sizes = {2, 4}
  CodePlaces <- TwoCodePages
  OtherBits = {1}
  GpioOn = TRUE
  MaxPins = 1
  MaxLoads = 1
  CodePerFrame = 2
  Kinds = {"sram", "flash64", "flash128", "eeprom512", "eeprom8k"}
  Addrs = {0, 8192, 10922, 21845}
  Bytes = {170, 48}
  Blocks = {0, 1, 37}
  Patterns <- TwoPatterns
  MaxAsks = 3
  MaxBreaks = 1
  Clocks <- NewYearsEve
  Statuses = {64, 7}
  RtcAsks = 2
  RtcBreaks = 1
  RegionSize = 32
  Chan = 3
  FullLength = 4
  Sources = {60, 93, 252}
  Destinations = {64, 92, 253, 508}
  Lengths = {0, 3}
  MaxPrograms = 1
  Ring = 8
  Burst = 4
  Word = 2
  MaxTicks = 24
  MaxWrites = 4
  Consoles = {0, 1}
  Roles = {0, 1}
  Words = 2
  QueueMax = 1
  Tokens = 1
  Silence = 1
  MaxPackets = 2
  MaxFrames = 1
  MaxStarts = 1
  QueueWords = 10
  PackTail = 1
  MaxItems = 2
  MaxFlight = 1
  Damages = {"missing", "size"}
  MaxBad = 2
SPECIFICATION DevicesSpec
INVARIANTS DeviceTypes PagesRight MovesRight SamplesKept OthersShown SavedIsRestored
PROPERTIES AccessEnds IsMemory ClockIsMemory SentWhole
CHECK_DEADLOCK FALSE
