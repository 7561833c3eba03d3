SPECIFICATION MCSpec
CONSTANTS
  Polls = {p1, p2}
  Buys = {b1, b2}
  Sells = {s1, s2}
  Ticker = Ticker
  NoSignal = NoSignal
  Large = {b1, s1}
  MaxFaults = 2
  Signals <- MCSignals
  Symbol <- MCSymbol
  Side <- MCSide
  Quantity <- MCQuantity
INVARIANTS
  Inductive
  FillRecordedOnce
  LedgerMatchesFills
  ExitCoversFill
  PublishedIsFilled
PROPERTIES
  RowNeverGoesBack
  EndedOrderIsSettled
CHECK_DEADLOCK FALSE
