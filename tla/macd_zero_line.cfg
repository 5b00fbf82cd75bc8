SPECIFICATION Spec
CONSTANTS
  NaN = NaN
  Scale = 139968
  Requests <- ZeroLineRequests
  Closes = {1, 2, 3}
  Candles <- CandleValues
  Symbols = {"INFY", "TCS"}
  Primary = "INFY"
  MaxBars <- Lengths
INVARIANTS
  HeldOnOwnSideOfZero
CHECK_DEADLOCK FALSE
