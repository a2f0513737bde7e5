SPECIFICATION FairSpec
CONSTANTS
  w1 = w1
  w2 = w2
  d1 = d1
  d2 = d2
  Worker <- MCWorker
  Dispatcher <- MCDispatcher
  Attempts = 2
  MaxRuns = 2
  MaxSends = 2
  MaxFaults = 1
  Faults = {"CRASH", "JOB_LOST"}
CHECK_DEADLOCK FALSE
INVARIANTS
  EvidenceOnce
  AnnouncedOnce

  
  
