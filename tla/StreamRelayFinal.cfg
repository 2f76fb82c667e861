SPECIFICATION RelaySpec
CONSTANTS
  MaxFrames = 2
  Window = 3
INVARIANT
  StoredIsFinal
CHECK_DEADLOCK FALSE
