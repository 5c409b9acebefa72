\* A cache that holds some, not all, of the code; three locations next to each other.
CONSTANTS
  First = 1
  Last = 3
  Target <- TargetOf
  Insns <- AllInsns
  Exits <- AllExits
  Ends <- AllEnds
  MaxBlock = 3
  MaxExits = 3
  Size = 25
  Threshold = 4
  TagCost = 1
  Prologue = 1
  InsnCost = 3
  GateCost = 1
  Align = 4
  Slack = 2
  MaxTries = 4
  MaxWrites = 1
  RomKeys = {"swi", "a", "b", "d"}
  RamKeys = {"w"}
  WildKeys = {"vram"}
  Swi = "swi"
  Irq = "d"
  ExitOf <- RomExits
  Cost <- BlockCost
  Buckets = {0, 1}
  Bucket <- HashOf
  Slots = {0}
  Slot <- SlotOf
  Generations = 3
  Watermark = 1
  RomLimit = 7
  RamLimit = 2
  Tries = 4
  LateWrites = FALSE
  Program <- Book
  Longest = 4
  ExitSlots = 2
  Gates = {0, 3}
  Leftovers <- Marks
SPECIFICATION CachesSpec
INVARIANTS CacheTypes NoOverrun LookupsRight CodeFresh RunsRight KeepsWhatIsRead BlockInStep
