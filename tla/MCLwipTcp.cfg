SPECIFICATION Spec
CONSTANTS
  SeqSpace = 16
  U16 = 31
  Wnd = 4
  SndBuf = 4
  Mss = 2
  DupAckLimit = 2
  MaxRtx = 2
  SynMaxRtx = 1
  MaxFaults = 1
  Iss <- MCIss
  Plans <- MCPlans
INVARIANTS
  TypeOK
  DeliveredInOrder
  EofAfterAll
  QueuesContiguous
  NoOverrun
  WindowAccounted
  AssertsHold
  NothingStuck
PROPERTIES
  WindowNeverRetracted
  ToldOfTheEnd
CHECK_DEADLOCK FALSE
