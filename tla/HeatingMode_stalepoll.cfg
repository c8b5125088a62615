CONSTANTS
  Low <- MCLow
  High = 2
  PumpLow <- MCPumpLow
  PumpHigh = 2
  Steps <- MCSteps
  HandOffsets <- MCHands
  Asked <- MCTwoModes
  Choosers = {c1}
  Buffered = TRUE
  CallsAbandoned = FALSE
  CrashMidCall = FALSE
  NoOffset = NoOffset
  NoState = NoState

SPECIFICATION Spec

INVARIANT NormalIsMeant
