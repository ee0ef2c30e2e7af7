CONSTANTS
  Nodes = {n1, n2, n3, n4}
  Null = Null
  Counts = {2, 3, 4}
SPECIFICATION Spec
INVARIANTS RingMatchesQueue 
 
