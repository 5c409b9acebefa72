\* The LCD, interrupts, DMA sleep, a transfer: lines and frames keep their shape.
CONSTANTS
  HDraw = 4
  HBlank = 2
  Visible = 2
  Lines = 3
  Overrun = 1
  MaxSteal = 1
  NumTimers = 1
  VCountSetting = 1
  LcdIrqs = {"vblank", "hblank", "vcount"}
  Periods = {3}
  Costs = {1, 5}
  Transfers = {3}
  Copies = {7}
  Steals = {0, 2}
  Masks <- VBlankMasks
  Acts <- LcdActs
  MaxStarts = 1
SPECIFICATION Spec
INVARIANTS VideoPending FrameWhole SleptInFull
