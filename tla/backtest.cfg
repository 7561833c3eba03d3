SPECIFICATION Spec
CONSTANTS
  N = 2
  Allowlist = {1, 2}
  Price <- MCPrice
  Bars <- MCBars
  Absent = Absent
  Interpolated = Interpolated
  EntryRules = {"macd_bullish_cross"}
  ExitRules = {"macd_bearish_cross"}
  Warmup = 1
  MaxHoldingDays = 1
  MaxDailyTrades = 1
  MaxPosition = 4
  MaxExposure = 4
  MaxDays = 4
INVARIANTS
  ExitNeverSplits
  SignalsAccounted
  TimeStopWaits
  StreaksMatchDays
CHECK_DEADLOCK FALSE
