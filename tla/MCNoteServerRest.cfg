SPECIFICATION Spec
CONSTANTS
  a = a
  b = b
  a1 = a1
  b1 = b1
  b2 = b2
  NoSession = NoSession
  Clients <- TwoClients
  Sessions <- ThreeSessions
  Owner <- OwnerOfThree
  MaxEdits <- EditOfA
  MaxStoredUpdates = 4
  MaxFaults = 1
  Faults = {"connectionLost", "messagesLost", "tabClosed", "serverLost"}
INVARIANTS
  TypeOK
  ReachesEveryone
  
  
CHECK_DEADLOCK FALSE
