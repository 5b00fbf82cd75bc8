SPECIFICATION Spec
CONSTANTS
  Requests = {r1, r2, r3}
  Benchmarks = {b1, b2}
  DefaultBenchmark = b1
  Unset = Unset
  HoldingSets = {h1, h2}
  Refused = {h2}
  Nothing = Nothing
  MaxRestarts = 1
INVARIANTS
  TypeOK
  PortfolioWhole
  NoOrphans
  LocksAreReleased
SYMMETRY Symmetry
CHECK_DEADLOCK FALSE
