SPECIFICATION Spec
CONSTANTS
  Runs = {r1, r2}
  N = 2
  Allowlist = {1, 2}
  Price <- MCPrice
  Size <- MCSize
  EntryRules = {"macd_bullish_cross"}
  ExitRules = {"macd_bearish_cross"}
  MaxDailyTrades = 1
  MaxPosition = 2
  MaxExposure = 4
  Forming = {1}
  Opened = {1}
  MaxHoldingDays = 1
  MaxDay = 2
  MaxSignals = 3
SYMMETRY Symmetry
INVARIANTS
  TypeOK
  OneProposalPerBar
  DailyCapHolds
  ExposureWithinCap
  PositionWithinCap
  DueExitsProposed
CHECK_DEADLOCK FALSE
