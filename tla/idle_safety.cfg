SPECIFICATION FairSpec
CONSTANTS
  e1 = e1
  e2 = e2
  p1 = p1
  v1 = v1
  None = None
  NoCeiling = NoCeiling
  Executors <- ExecutorPair
  Previewers <- OnePreviewer
  Plans <- OnePlan
  Thresholds = {1, 3}
  Capacities <- NoCapacity
  RecoveryFlags <- AnyCaller
  LeaseTicks = 1
  PlanTicks = 1
  MaxIdle = 3
  MaxVersion = 2
  MaxFaults = 1
  MaxDrops = 1
INVARIANTS TypeOK AtMostOneSend ExecutedMeansCollected
PROPERTIES KeepsContract SendWhileCurrent ClaimResolves
