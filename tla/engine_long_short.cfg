SPECIFICATION ParitySpec
CONSTANTS
  BPS = 10
  CommissionBps = 1
  CommissionMin = 25
  SlippageBps = 1
  HalfSpreadBps = 1
  InitialCash = 600
  NumBars = 5
  Prices = {1, 3}
  Strengths = {1, 2}
  FullStrength = 2
  AllocNum = 19
  AllocDen = 20
  FillAtOpen = FALSE
  AllowShort = TRUE
  LiquidateAtEnd = TRUE
  Rebalances = TRUE
  Targets <- TargetValues
INVARIANTS
  CashReconciles
  CostsAttributed
  ClosedOut
  Parity
PROPERTIES
  FillsLoseTheirCosts
  StopHolds
