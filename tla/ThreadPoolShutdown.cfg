SPECIFICATION FairSpec
CONSTANTS
  Workers = {w1, w2}
  NumJobs = 1
  MaxSpurious = 0
  Main = main
  Nobody = nobody
PROPERTY ShutdownSurvives
