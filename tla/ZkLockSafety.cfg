SPECIFICATION Spec
CONSTANTS
  Clients = {c1, c2, c3}
  None = none
  FirstSeq = 0
  Faults = {"crash", "expire"}
  MaxFaults = 1
SYMMETRY ClientSymmetry
INVARIANTS
  WatchInv
PROPERTIES
  FirstExecutionOwnsLock
\* A run ends when every process has ended.
CHECK_DEADLOCK FALSE
