SPECIFICATION ServedSpec
CONSTANTS
  i1 = i1
  i2 = i2
  ada = ada
  h1 = h1
  h2 = h2
  Interview <- OneInterview
  Candidate <- TheCandidate
  Owner <- OneOwner
  Payer <- OwnCredit
  Credit <- OneCredit
  Units = 1
  Task <- TwoTasks
  Rounds = 1
  Budget = 1
  MinTime = 1
  MinAnswers = 2
  MaxAnswers = 2
  MaxQuestions = 1
  Retries = 3
  Operations <- LiveOperations
  Faults <- SomeCrash
CHECK_DEADLOCK FALSE
INVARIANTS
  CountedOnce
PROPERTIES
  AnswerIsAssessed
  HeldUntilAsked
