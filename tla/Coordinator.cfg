CONSTANTS
  Registers <- MCRegisters
  WordsOf <- MCWordsOf
  Internal = {"energy"}
  Entities <- MCEntities
  RegisterOf <- MCRegisterOf
  Units <- MCUnits
  Rescans = {s1, s2}
  Cycles = {c1, c2}
  MaxTasks = 3
  MaxBlock = 4
  MaxGap = 1

SPECIFICATION FairSpec

INVARIANT TypeOK
INVARIANT SubscriptionsCounted
INVARIANT PlanCurrent
PROPERTY RefusedOnlyAfterRefit
PROPERTY ShowsWhatIsPolled
PROPERTY RescanHeals
