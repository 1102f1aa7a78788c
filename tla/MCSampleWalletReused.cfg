\* A restarted worker hands out candidate ids again.
SPECIFICATION Spec
CONSTANTS
  w1 = w1
  w2 = w2
  i1 = i1
  i2 = i2
  Workflows <- OneWorkflow
  Investors <- TwoInvestors
  InvestorOf <- OwnInvestor
  NumInvestments = 1
  MaxActivityAttempts = 2
  MaxCandidateAttempts = 2
  FailFirst = {}
  AlwaysSlow = {}
  Faults = {}
  MaxConcurrent = 1
  MaxCrashes = 1
INVARIANTS
  ConcludesWhenAllProcessed
CHECK_DEADLOCK FALSE
