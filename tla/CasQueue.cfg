SPECIFICATION FairSpec
CONSTANTS
  Addr = {a1, a2, a3, a4, a5}
  Null = null
  NumPush = 4
INVARIANTS
  ListInv
PROPERTIES
  AllFreed
  ImplementsFifo
