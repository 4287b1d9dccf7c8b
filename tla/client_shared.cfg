SPECIFICATION Spec
CONSTANTS
  c1 = c1
  c2 = c2
  None = None
  Callers <- CallerPair
  Seeds = {1}
  MaxVersion = 2
  MaxLosses = 0
PROPERTY RetriedOnce
