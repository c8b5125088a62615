CONSTANTS
  Meters = {m1}
  MaxTrapezoid = 1
  LongestGap = 2
  MaxTime = 5
  MaxEvents = 0

SPECIFICATION EnergySpec

INVARIANT SameSpan
