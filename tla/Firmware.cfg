\* Power is lost twice and the card is changed once, two contents share a hash; three frames
\* of the scaler and of the panel; two pads.
CONSTANTS
  Contents <- Letters
  Hash <- Collide
  Files <- SomeGames
  PsramSlots = 1
  FlashSlots = 2
  Spill = TRUE
  MaxChanges = 1
  MaxLosses = 2
  Strips = 5
  Rounds = 2
  MaxScales = 4
  Height = 4
  StripRows = 2
  MaxFrames = 3
  MaxPlugs = 2
  MaxReports = 2
  MaxRefusals = 1
SPECIFICATION FirmwareSpec
INVARIANTS FirmwareTypes LoadedRight ShownWhole StripsWhole OverlayWhole ClosedIsClean HidSettles
PROPERTIES FlashChangedForReason NeverBackward LoadEnds LetGo
CHECK_DEADLOCK FALSE
