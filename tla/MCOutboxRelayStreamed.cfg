\* A streamed transaction.
SPECIFICATION FairSpec
CONSTANTS
  Bodies <- Streamed
  MaxWal = 2
  MaxTopic = 3
  MaxRequests = 4
  Faults = {}
  MaxFaults = 0
PROPERTIES
  StreamedIsRelayed
CHECK_DEADLOCK FALSE
