CONSTANTS
  Low <- MCLow
  High = 2
  PumpLow <- MCPumpLow
  PumpHigh = 2
  Steps <- MCSteps
  HandOffsets <- MCHands
  Asked <- MCTwoModes
  Choosers = {c1}
  Buffered = TRUE
  CallsAbandoned = TRUE
  CrashMidCall = TRUE
  NoOffset = NoOffset
  NoState = NoState

SPECIFICATION FairSpec

INVARIANT DiskCurrent
PROPERTY NormalStays
PROPERTY Settles
