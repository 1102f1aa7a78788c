\* Tabs that join, leave, lose their connection or are slow.
SPECIFICATION FairSpec
CONSTANTS
  Clients = {1, 2, 3}
  Starts <- JoiningOrPresent
  MaxClock <- OneRenewal
  MaxFaults = 1
  Faults = {"connectionLost", "tabClosed", "slow"}
INVARIANTS
  TypeOK
  NobodyAheadOfOwner
  FollowsSmallestSeen
PROPERTIES
  ComesBackNewer
  StaysInSight
  EventuallySettled
CHECK_DEADLOCK FALSE
