SPECIFICATION Spec
CONSTANTS
  BPS = 10
  CommissionBps = 1
  CommissionMin = 0
  SlippageBps = 1
  HalfSpreadBps = 0
  InitialCash = 300
  NumBars = 5
  Prices = {1, 2, 3}
  Strengths = {1}
  FullStrength = 1
  AllocNum = 19
  AllocDen = 20
  FillAtOpen = TRUE
  AllowShort = FALSE
  LiquidateAtEnd = FALSE
  Rebalances = FALSE
INVARIANTS
  TypeOK
  OrdersSettled
  FillsOnNextBar
  CashNeverNegative
  LongOnly
PROPERTIES
  NoChurn
  ReductionsReduce
