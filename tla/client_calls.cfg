SPECIFICATION FairSpec
CONSTANTS
  c1 = c1
  c2 = c2
  None = None
  Callers <- CallerPair
  Seeds = {1, 2}
  MaxVersion = 3
  MaxLosses = 3
INVARIANTS TypeOK MutationOnce OutcomeHonest
PROPERTIES RetriedUnlessOvertaken VersionSettles
