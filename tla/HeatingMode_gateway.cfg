CONSTANTS
  Low <- MCLow
  High = 2
  PumpLow <- MCPumpLow
  PumpHigh = 2
  Steps <- MCSteps
  HandOffsets <- MCHands
  Asked <- MCAllModes
  Choosers = {c1}
  Buffered = FALSE
  CallsAbandoned = FALSE
  CrashMidCall = FALSE
  NoOffset = NoOffset
  NoState = NoState

SPECIFICATION Spec

INVARIANT TypeOK
INVARIANT NormalIsMeant
PROPERTY KeepsPromise
