CONSTANTS
  Registers <- MCRegisters
  WordsOf <- MCWordsOf
  Units <- MCUnits
  MaxBlock = 4
  MaxGap = 2
  Tries = 3
  Meters = {m1, m2}
  MaxTrapezoid = 1
  LongestGap = 2
  MaxTime = 2
  MaxEvents = 1
  DayLength = 2
  HistoryDays = 4
  WindowDays = 2
  YearMaxDays = 3
  DayMin = 2
  DayMax = 3
  RecentSpan = 4
  MinConsumption = 2
  Tolerance = 2
  Installed = 3
  LastMoment = 8
  Entries = {e1, e2}
  Gateways = {e2}
  Sharers = {e2}
  MaxWishes = 1
  Pumps = {1, 2}
  Hosts = {1, 2}
  GatewayPumps = {2}
  Named = {1}
  Flows = {f1, f2}
  MaxLeases = 2
  Fits <- MCFits
  Degrees = {20, 21}
  Others = {"room", "boost"}
  MaxTouches = 1
  MaxOutdated = 1
  Byte = 2
  Variants <- MCVariants
  NibeTables <- MCNibeTables
  Titled <- MCTitled
  Reporting = {r1, r2}
  MaxLines = 2
  MaxFailures = 1
  Numbers <- MCNumbers
  Meanings <- MCMeanings
  Tapped = 4

SPECIFICATION Spec

INVARIANT TypeOK
INVARIANT FindsTheUnit
INVARIANT TwoReadsPerAddress
INVARIANT PlansAreSafe
INVARIANT FewestReads
INVARIANT FairSpan
INVARIANT FigureIsItsSpan
INVARIANT OneReporter
INVARIANT PanelShown
INVARIANT NoGatewayLeft
INVARIANT OnePumpOneEntry
INVARIANT ShownIsMeant
INVARIANT ReadBackIsWritten
INVARIANT NamesDistinct
INVARIANT ChoicesKept
INVARIANT NothingTwice
PROPERTY ScanIsOver
PROPERTY DisabledFallsSilent
PROPERTY CoolsOnlyWhenAsked

CHECK_DEADLOCK FALSE
