\* One pipeline whose attempts time out and whose worker may restart.
SPECIFICATION FairSpec
CONSTANTS
  w1 = w1
  w2 = w2
  i1 = i1
  i2 = i2
  Workflows <- OneWorkflow
  Investors <- TwoInvestors
  InvestorOf <- OwnInvestor
  NumInvestments = 1
  MaxActivityAttempts = 2
  MaxCandidateAttempts = 2
  FailFirst = {}
  AlwaysSlow = {}
  Faults = {"timeout", "slow"}
  MaxConcurrent = 2
  MaxCrashes = 1
INVARIANTS
  Inductive
PROPERTIES
  
  EventuallyClosed
CHECK_DEADLOCK FALSE
