SPECIFICATION Spec
CONSTANTS
  Requests = {r1}
  Clis = {}
  Sweeps = {w1}
  Buys = {b1}
  Sells = {s1}
  Ticker = Ticker
  NoSignal = NoSignal
  Signals <- MCSignals
  Symbol <- MCSymbol
  Side <- MCSide
  LiveTradingEnabled = TRUE
  AutonomyEnabled = TRUE
  MaxShares = 1
INVARIANTS
  LiveOrderIsGated
