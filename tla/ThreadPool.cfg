SPECIFICATION FairSpec
CONSTANTS
  Workers = {w1, w2, w3}
  NumJobs = 3
  MaxSpurious = 1
  Main = main
  Nobody = nobody
INVARIANTS
  JobOwnedOnce
  WorkConserving
  IInv
PROPERTIES
  WorkersExit
  JobsTaken
  ImplementsJobPool
