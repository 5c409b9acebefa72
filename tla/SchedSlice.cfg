\* A timer started in the middle of a slice.
CONSTANTS
  HDraw = 6
  HBlank = 4
  Visible = 1
  Lines = 2
  Overrun = 2
  MaxSteal = 2
  NumTimers = 1
  VCountSetting = 0
  LcdIrqs = {}
  Periods = {3}
  Costs = {1}
  Transfers = {}
  Copies = {}
  Steals = {0}
  Masks = {{}}
  Acts <- SliceActs
  MaxStarts = 2
SPECIFICATION Spec
INVARIANT CyclesAccounted
