SPECIFICATION Spec
CONSTANTS
  Requests = {r1, r2}
  Capacity = 1
  MaxRestarts = 0
  NoResult = NoResult
  Strategies = {"pair"}
  Allowed <- Values
  Unset = Unset
  Zero = Zero
  Asked <- Runs
  Default <- DefaultOf
  Code <- CodeOf
  Metrics <- MetricsOf
  NoConfig = NoConfig
  MaxRevision = 1
  MaxBuild = 0
INVARIANTS
  RegressionMeansNewBuild
CHECK_DEADLOCK FALSE
