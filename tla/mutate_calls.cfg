SPECIFICATION FairSpec
CONSTANTS
  c1 = c1
  c2 = c2
  p1 = p1
  None = None
  Callers <- TwoCallers
  Plans <- OnePlan
  MaxVersion = 2
  MaxMoves = 1
  MaxFaults = 2
INVARIANTS TypeOK OnceUnlessLost VerdictHonest
PROPERTIES ReplayFenced SendWhileCurrent CallEnds
