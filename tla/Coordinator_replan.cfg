CONSTANTS
  Registers <- MCRegisters
  WordsOf <- MCWordsOf
  Internal = {"energy"}
  Entities <- MCEntities
  RegisterOf <- MCRegisterOf
  Units <- MCUnits
  Rescans = {s1}
  Cycles = {c1}
  MaxTasks = 2
  MaxBlock = 4
  MaxGap = 1

SPECIFICATION FairSpec

PROPERTY SkipsBadRange
