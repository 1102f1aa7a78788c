SPECIFICATION FairSpec
CONSTANTS
  r1 = r1
  r2 = r2
  w1 = w1
  w2 = w2
  p1 = p1
  Readers = {r1, r2}
  Writers = {w1, w2}
  Params = {p1}
  Asks <- OneAsks
  Names <- OneWrites
  Stored = FALSE
  MaxFaults = 1
INVARIANTS
  TypeOK
  StaleHasACause
PROPERTIES
  EventuallyFresh
CHECK_DEADLOCK FALSE
