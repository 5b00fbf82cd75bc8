SPECIFICATION Spec
CONSTANTS
  NaN = NaN
  Scale = 139968
  Requests <- AllRequests
  Closes = {1, 2, 3}
  Candles <- CandleValues
  Symbols = {"INFY", "TCS"}
  Primary = "INFY"
  MaxBars <- Lengths
INVARIANTS
  TypeOK
  WarmUpFlat
  ReversionHeld
  RangeFromCompletedBars
  FreshEntries
PROPERTIES
  NoLookAhead
CHECK_DEADLOCK FALSE
