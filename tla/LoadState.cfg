\* A document that passes the checks lacks a field that is read.
CONSTANTS
  Damages = {"missing"}
  MaxBad = 1
SPECIFICATION SavestateSpec
INVARIANT ValidatedIsRead
CHECK_DEADLOCK FALSE
