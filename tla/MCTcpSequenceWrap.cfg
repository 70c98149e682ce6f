SPECIFICATION Spec
CONSTANTS
  SeqSpace = 16
  U16 = 31
  Wnd = 4
  SndBuf = 4
  Mss = 1
  DupAckLimit = 2
  MaxRtx = 2
  SynMaxRtx = 1
  MaxFaults = 1
  Iss <- WrapIss
  Plans <- WrapPlans
INVARIANTS
  DeliveredInOrder
CHECK_DEADLOCK FALSE
