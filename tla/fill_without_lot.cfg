SPECIFICATION Spec
CONSTANTS
  Polls = {p1}
  Buys = {b1}
  Sells = {}
  Ticker = Ticker
  NoSignal = NoSignal
  Large = {}
  MaxFaults = 1
  Signals <- MCSignals
  Symbol <- MCSymbol
  Side <- MCSide
  Quantity <- MCQuantity
INVARIANTS
  ClosedBuyHasLot
CHECK_DEADLOCK FALSE
