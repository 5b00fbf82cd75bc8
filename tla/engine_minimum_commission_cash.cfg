SPECIFICATION Spec
CONSTANTS
  BPS = 10
  CommissionBps = 1
  CommissionMin = 150
  SlippageBps = 1
  HalfSpreadBps = 0
  InitialCash = 300
  NumBars = 4
  Prices = {1, 2, 3}
  Strengths = {1}
  FullStrength = 1
  AllocNum = 19
  AllocDen = 20
  FillAtOpen = TRUE
  AllowShort = FALSE
  LiquidateAtEnd = TRUE
  Rebalances = FALSE
INVARIANTS
  CashNeverNegative
