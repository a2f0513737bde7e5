SPECIFICATION FairSpec
CONSTANTS
  i1 = i1
  i2 = i2
  ada = ada
  h1 = h1
  h2 = h2
  Interview <- OneInterview
  Candidate <- TheCandidate
  Owner <- OneOwner
  Payer <- OwnCredit
  Credit <- OneCredit
  Units = 1
  Task <- TwoTasks
  Rounds = 1
  Budget = 1
  MinTime = 1
  MinAnswers = 2
  MaxAnswers = 0
  MaxQuestions = 0
  Retries = 3
  Operations <- RoomOperations
  Faults <- SomeCrash
CHECK_DEADLOCK FALSE
INVARIANTS
  HeldOnlyInProgress
PROPERTIES
  NeverTooEarly
  CompletingFinishes
  AbandonedIsSettled
