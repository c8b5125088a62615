CONSTANTS
  Registers <- MCRegisters
  Kind <- MCKind
  Base = 2
  SettingFactor = 2
  SettingMinimum = 4
  CounterFactor = 1
  CounterMinimum = 3
  MaxBackoff = 4
  Oldest = 6
  Internal = {3}
  Toggled = {2}
  Pushed = {1}
  Defaults = {1, 3}
  Accessories = {2}
  Announce = 1
  Outcomes <- MCOutcomes
  Values = {0, 1}
  None = None
  Cycles = {c1, c2}
  ReadCost = 1
  TimeoutCost = 1
  Keepalive = 2
  UnreachableAfter = 2
  Relay = 5
  MaxDisturbances = 2

SPECIFICATION FairSpec

INVARIANT TypeOK
INVARIANT AskedOften
PROPERTY NobodyStarves
PROPERTY ShowsPump
PROPERTY StaysAvailable
