SPECIFICATION ReassSpec
CONSTANTS
  ReassMaxAge = 1
  ReassMaxPbufs = 5
  NumReassData = 2
  NumDatagrams = 3
  FirstSize = 4
  OtherSize = 2
  Mtus = {1, 2}
  MaxRepeats = 1
INVARIANT NoHoles
CHECK_DEADLOCK FALSE
