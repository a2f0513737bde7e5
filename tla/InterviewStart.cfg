SPECIFICATION Spec
CONSTANTS
  i1 = i1
  i2 = i2
  ada = ada
  h1 = h1
  h2 = h2
  Interview <- TwoInterviews
  Candidate <- TheCandidate
  Owner <- OneOwner
  Payer <- CampaignPays
  Credit <- OneCredit
  Units = 1
  Task <- TwoTasks
  Rounds = 1
  Budget = 1
  MinTime = 1
  MinAnswers = 2
  MaxAnswers = 0
  MaxQuestions = 0
  Retries = 3
  Operations <- StartOperations
  Faults <- NoFaults
CHECK_DEADLOCK FALSE
SYMMETRY Symmetry

  
PROPERTIES
  ModeFixedAtStart
  PromiseKept
