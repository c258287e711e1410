SPECIFICATION FairSpec
CONSTANTS
  Clients = {c1, c2}
  None = none
  FirstSeq = 1
  Faults = {}
  MaxFaults = 0
INVARIANTS
  FoundCanBeWatched
\* A run ends when every process has ended.
CHECK_DEADLOCK FALSE
