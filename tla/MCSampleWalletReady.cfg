\* Two pipelines on one worker, without faults.
\* A candidate that fails first, one that is always slow.
SPECIFICATION FairSpec
CONSTANTS
  w1 = w1
  w2 = w2
  i1 = i1
  i2 = i2
  Workflows <- TwoWorkflows
  Investors <- TwoInvestors
  InvestorOf <- OwnInvestor
  NumInvestments = 1
  MaxActivityAttempts = 1
  MaxCandidateAttempts = 2
  FailFirst = {1}
  AlwaysSlow = {2}
  Faults = {}
  MaxConcurrent = 2
  MaxCrashes = 0
INVARIANTS
  PipelinesAreApart
  RetriesAreCounted
  InvestedOnce
  ReadyWalletAsTested
PROPERTIES
  EventuallyReady
CHECK_DEADLOCK FALSE
