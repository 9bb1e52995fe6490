CONSTANTS
  Initial = 100
  DailyLimit = 5
  WeeklyLimit = 20
  DrawdownLimit = 15
  MaxConsecutiveLosses = 1
  Day = 1
  Week = 3
  Amounts <- MCAmounts
  Threshold = 1
  MaxTime = 3
  MaxMoves = 1
  MaxAppends = 1
  MaxFailures = 2
SPECIFICATION FairSpec
PROPERTIES Unblocks
INVARIANTS TradesWithinDrawdown CutCostsOneRecord UnfundedIsJournaled
