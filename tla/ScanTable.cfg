SPECIFICATION Spec
CONSTANTS
  b1 = b1
  b2 = b2
  b3 = b3
  home = home
  cafe = cafe
  BSSIDs = {b1, b2, b3}
  SSIDs = {home, cafe}
  Freq <- MCFreq
  NamesOf <- MCNames
  NSCANS = 2
  Free = Free
INVARIANTS TypeOK NoTwins Tight
PROPERTIES HeardStays Implements
CHECK_DEADLOCK FALSE
