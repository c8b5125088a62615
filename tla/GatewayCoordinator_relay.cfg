CONSTANTS
  Registers <- MCRegisters
  Kind <- MCKind
  Base = 12
  SettingFactor = 2
  SettingMinimum = 24
  CounterFactor = 1
  CounterMinimum = 20
  MaxBackoff = 40
  Oldest = 40
  Internal = {3}
  Toggled = {2}
  Pushed = {1}
  Defaults = {1, 3}
  Accessories = {2}
  Announce = 1
  Outcomes <- MCOutcomes
  Values = {0, 1}
  None = None
  Cycles = {c1}
  ReadCost = 1
  TimeoutCost = 1
  Keepalive = 4
  UnreachableAfter = 3
  Relay = 8
  MaxDisturbances = 0

SPECIFICATION Spec

INVARIANT RelayKept
