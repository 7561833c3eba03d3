SPECIFICATION Spec
CONSTANTS
  Requests = {r1}
  Clis = {c1}
  Sweeps = {}
  Buys = {b1, b2}
  Sells = {s1}
  Ticker = Ticker
  NoSignal = NoSignal
  Signals <- MCSignals
  Symbol <- MCSymbol
  Side <- MCSide
  LiveTradingEnabled = FALSE
  AutonomyEnabled = FALSE
  MaxShares = 2
SYMMETRY MCSymmetry
INVARIANTS
  TypeOK
  OneFillPerDecision
  PublishedIsFilled
  PositionsAreBacked
  ExitCoversWhatItCloses
  HaltHolds
PROPERTIES
  ImplementsRecord
