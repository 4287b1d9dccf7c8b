SPECIFICATION Spec
CONSTANTS
  a1 = a1
  a2 = a2
  i1 = i1
  i2 = i2
  u1 = u1
  r1 = r1
  r2 = r2
  None = None
  Accounts <- Pair
  Identities <- TwoIdentities
  Usernames <- OneUsername
  Requests <- TwoRequests
  PauseReasons <- Typed
  AuthLimit = 2
  MaxRenames = 1
  MaxRemovals = 1
SYMMETRY Symmetric
INVARIANTS TypeOK OneRowPerIdentity OneActor ExclusionDrains CheckedStaysFree
PROPERTIES RemovalIrrevocable SecretsVerified NoSecondHolder
