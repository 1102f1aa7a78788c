SPECIFICATION Spec
CONSTANTS
  Clients <- Browsers
  MaxItems <- ItemsOfEach
  MaxWord = 2
  MaxUpdates = 3
INVARIANTS
  Inductive
  SameOrder
  TextIsFunctionOfHeld
  WordsStayTogether
  WaitsForSomething
CHECK_DEADLOCK FALSE
