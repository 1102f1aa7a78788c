\* Every fault, and rows that stop the relay.
SPECIFICATION FairSpec
CONSTANTS
  Bodies <- AnyRow
  MaxWal = 4
  MaxTopic = 8
  MaxRequests = 6
  Faults = {"kill", "ackLost", "deliveryFails", "slow", "queueFull"}
  MaxFaults = 2
INVARIANTS
  Inductive
  RepeatsCounted
  ConfirmedIsSettled
  ConfirmsWholeTransactions
  FirstCopiesInOrder
  RepeatsHaveACause
PROPERTIES
  KeepsPromise
  EventuallyConfirmed
CHECK_DEADLOCK FALSE
