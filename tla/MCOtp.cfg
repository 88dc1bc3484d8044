SPECIFICATION OtpSpec
CONSTANTS
  c1 = c1
  c2 = c2
  Calls = {c1, c2}
  Limit <- SmallLimits
  Fragile <- AnywhereElse
  MaxCodes = 2
  MaxDays = 2
SYMMETRY CallSymmetry
INVARIANTS
  LiveCodeIsFresh
  GuessesAreBounded
  DailyCapHolds
  OneRolePerNumber
  CountersExpire
