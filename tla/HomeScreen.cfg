SPECIFICATION FairSpec
CONSTANTS
  Texts = {t1}
  Short = short
  Periods = {p30, pAll}
  DefaultPeriod = p30
  Receipts = {r1}
  NoReceipt = NoReceipt
  NoAnswer = NoAnswer
  MaxSearches = 2
  MaxLoads = 2
INVARIANT TypeOK
INVARIANT QuietResultsMatch
CHECK_DEADLOCK FALSE
PROPERTY ScreenSettles
PROPERTY DeletedLeavesList
