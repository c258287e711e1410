SPECIFICATION FairSpec
CONSTANTS
  Clients = {c1, c2}
  None = none
  FirstSeq = 1
  Faults = {"crash", "loss", "expire"}
  MaxFaults = 1
PROPERTIES
  LockServed
  LockReleased
  FirstExecutionOwnsLock
\* A run ends when every process has ended.
CHECK_DEADLOCK FALSE
