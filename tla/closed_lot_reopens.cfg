SPECIFICATION TableSpec
CONSTANTS
  Buys = {b1, b2}
  Sells = {s1}
  Markers = {m1}
  Extra = {}
  Ticker = Ticker
  Large = {b1}
  TicksPerDay = 2
  MaxHoldingDays = 1
  MaxClock = 4
  Entries = {e1, e2}
  Results <- MCResults
  PerDay = 2
  MaxAt = 3
  MaxRows = 4
  Symbol <- MCSymbol
  Quantity <- MCQuantity
  Traded <- MCTraded
PROPERTIES
  ClosedLotStaysClosed
CHECK_DEADLOCK FALSE
