SPECIFICATION FairSpec
CONSTANTS
  a1 = a1
  w1 = w1
  w2 = w2
  Gone = Gone
  None = None
  Accounts <- OneAccount
  Workers <- WorkerPair
  Lease = 1
  Interval = 2
  MaxConcurrency = 1
  MaxLag = 1
  MaxFaults = 1
  MaxAdmin = 2
INVARIANTS TypeOK SlotsApart OneJobPerAccount
PROPERTIES ScheduleAdvances TakenOverLate UndisturbedPreviewOnce
  EveryAccountServed RemovedStaysQuiet
