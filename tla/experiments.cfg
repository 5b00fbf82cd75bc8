SPECIFICATION Spec
CONSTANTS
  Requests = {r1, r2, r3}
  Capacity = 1
  MaxRestarts = 1
  NoResult = NoResult
  Strategies = {"single", "pair"}
  Allowed <- Values
  Unset = Unset
  Zero = Zero
  Asked <- Runs
  Default <- DefaultOf
  Code <- CodeOf
  Metrics <- MetricsOf
  NoConfig = NoConfig
  MaxRevision = 1
  MaxBuild = 2
INVARIANTS
  TypeOK
  VerdictExplained
  StoredConfigReplayed
  AcknowledgedSavesLast
SYMMETRY Symmetry
CHECK_DEADLOCK FALSE
