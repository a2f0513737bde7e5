SPECIFICATION Spec
CONSTANTS
  c1 = c1
  c2 = c2
  ada = ada
  bob = bob
  e1 = e1
  e2 = e2
  Campaign <- MCCampaign
  Candidate <- MCCandidate
  Editor <- MCEditor
  Granted = 1
  MaxGranted = 2
  Limit <- OneOrTwo
  Faults = {}
SYMMETRY Symmetry
INVARIANTS
  WalletConserved
  
  JoinsWithinLimits
