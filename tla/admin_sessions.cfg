SPECIFICATION FairSpec
CONSTANTS
  c1 = c1
  c2 = c2
  t1 = t1
  t2 = t2
  None = None
  Gone = Gone
  Callers <- TwoCallers
  Tokens <- TwoTokens
  IdleTicks = 3
  AbsoluteTicks = 4
  MaxLag = 1
  MaxPasswords = 3
  MaxFaults = 1
INVARIANTS TypeOK ChangeEndsSessions IdleWithinLag
PROPERTIES OutdatedEnds
