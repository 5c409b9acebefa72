\* Code at the first location of the RAM; the cache has room for all of it.
CONSTANTS
  First = 0
  Last = 1
  Target <- TargetOf
  Insns <- PlainInsns
  Exits <- PlainExits
  Ends <- PlainExits
  MaxBlock = 2
  MaxExits = 2
  Size = 30
  Threshold = 4
  TagCost = 1
  Prologue = 1
  InsnCost = 3
  GateCost = 1
  Align = 4
  Slack = 2
  MaxTries = 4
  MaxWrites = 2
SPECIFICATION Spec
INVARIANT CodeFresh
