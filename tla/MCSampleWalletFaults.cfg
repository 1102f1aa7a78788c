\* One pipeline, every fault, attempts that outlive their timeout.
SPECIFICATION Spec
CONSTANTS
  w1 = w1
  w2 = w2
  i1 = i1
  i2 = i2
  Workflows <- OneWorkflow
  Investors <- TwoInvestors
  InvestorOf <- OwnInvestor
  NumInvestments = 1
  MaxActivityAttempts = 2
  MaxCandidateAttempts = 2
  FailFirst = {1}
  AlwaysSlow = {2}
  Faults = {"throw", "timeout", "slow", "expire", "jobDeath"}
  MaxConcurrent = 2
  MaxCrashes = 0
INVARIANTS
  Sound
  FanIn
  SignalsAreTrue
  ResultMatchesWallet
  ReadyWalletIsComplete
PROPERTIES
  DecisionIsFinal
CHECK_DEADLOCK FALSE
