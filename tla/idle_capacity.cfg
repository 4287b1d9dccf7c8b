SPECIFICATION Spec
CONSTANTS
  e1 = e1
  e2 = e2
  p1 = p1
  v1 = v1
  None = None
  NoCeiling = NoCeiling
  Executors <- OneExecutor
  Previewers <- OnePreviewer
  Plans <- OnePlan
  Thresholds = {3}
  Capacities <- TwoCapacities
  RecoveryFlags <- AnyCaller
  LeaseTicks = 1
  PlanTicks = 1
  MaxIdle = 3
  MaxVersion = 1
  MaxFaults = 1
  MaxDrops = 0
INVARIANT UnsentMeansCollected
