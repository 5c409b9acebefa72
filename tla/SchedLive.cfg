\* Two timers, one cascaded, periods shorter and longer than a slice, a halting processor.
CONSTANTS
  HDraw = 3
  HBlank = 2
  Visible = 1
  Lines = 2
  Overrun = 1
  MaxSteal = 1
  NumTimers = 2
  VCountSetting = 0
  LcdIrqs = {"vblank"}
  Periods = {2, 4}
  Costs = {2}
  Transfers = {}
  Copies = {}
  Steals = {0}
  Masks <- LiveMasks
  Acts <- LiveActs
  MaxStarts = 2
SPECIFICATION FairSpec
PROPERTIES FramesGoOn TimersFire HaltedWakesUp
