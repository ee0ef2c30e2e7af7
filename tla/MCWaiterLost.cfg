CONSTANTS
  Nodes = {n1, n2, n3}
  Null = Null
  Counts = {2}
SPECIFICATION Spec
INVARIANT NoWaiterIsLost
