\* A second game is loaded after the first: the queue keeps the first game's order.
CONSTANTS
  Window = 4
  NumEntries = 3
  Sizes = {4}
  CodePlaces <- FirstPage
  OtherBits = {}
  GpioOn = FALSE
  MaxPins = 0
  MaxLoads = 2
  CodePerFrame = 1
SPECIFICATION Spec
INVARIANT EntriesTrue
