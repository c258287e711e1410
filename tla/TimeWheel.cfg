SPECIFICATION FairSpec
CONSTANTS
  Nodes = {n1, n2}
  TW_SIZE = 8
  EXPIRE = 5
  Delays = {2}
  MaxAdds = 2
INVARIANTS
  WheelInv
PROPERTIES
  NodesDie
  ImplementsIdleTimer
