SPECIFICATION Spec
CONSTANTS
  a = a
  b = b
  a1 = a1
  b1 = b1
  b2 = b2
  NoSession = NoSession
  Clients <- TwoClients
  Sessions <- ThreeSessions
  Owner <- OwnerOfThree
  MaxEdits <- EditOfB
  MaxStoredUpdates = 9
  MaxFaults = 2
  Faults = {"connectionLost"}
INVARIANTS
  ConnectedAgree
CHECK_DEADLOCK FALSE
