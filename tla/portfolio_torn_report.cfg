SPECIFICATION Spec
CONSTANTS
  Requests = {r1, r2, r3}
  Benchmarks = {b1, b2}
  DefaultBenchmark = b1
  Unset = Unset
  HoldingSets = {h1, h2}
  Refused = {}
  Nothing = Nothing
  MaxRestarts = 0
INVARIANTS
  ReportsDescribeASave
SYMMETRY Symmetry
CHECK_DEADLOCK FALSE
