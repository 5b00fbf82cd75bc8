SPECIFICATION Spec
CONSTANTS
  NaN = NaN
  Unclassified = Unclassified
  Instruments <- Sectors_
  One = 12
  Defined = Defined
  None = None
  BPS = 10
  CommissionBps = 1
  CommissionMin = 0
  SlippageBps = 1
  HalfSpreadBps = 0
  InitialCash = 1200
  MinObservations = 2
  CoverageTenths = 8
  Requests <- Imitating
  Downloads <- AllDownloads
  Simulate <- Outcomes
  NoRequest = NoRequest
  Pending = Pending
  Complete = Complete
INVARIANTS
  LabelsDistinct
