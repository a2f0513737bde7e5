SPECIFICATION FairSpec
CONSTANTS
  c1 = c1
  c2 = c2
  Caller <- MCCaller
  Tokens = 3
  Concurrency = 1
  Retries = 1
  Timeout = 1
  MaxBackoff = 1
  Slack = 2
  SlotWait = 1
  ProbeFor = 2
  Threshold = 2
  Window = 2
  OpenFor = 1
  MaxFaults = 1
  Faults = {"CRASH", "REDIS"}
CHECK_DEADLOCK FALSE
INVARIANTS
  ConcurrencyKept
PROPERTIES
  CircuitRecovers
