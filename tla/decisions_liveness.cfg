SPECIFICATION FairSpec
CONSTANTS
  Requests = {r1}
  Clis = {c1}
  Sweeps = {}
  Buys = {b1}
  Sells = {s1, s2}
  Ticker = Ticker
  NoSignal = NoSignal
  Signals <- MCSignals
  Symbol <- MCSymbol
  Side <- MCSide
  LiveTradingEnabled = FALSE
  AutonomyEnabled = FALSE
  MaxShares = 1
PROPERTIES
  PendingIsDecided
  FilledIsPublished
