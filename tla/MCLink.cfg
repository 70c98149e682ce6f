SPECIFICATION Spec
CONSTANTS
  Scenarios <- MCScenarios
  MaxConfReqs = 2
  MaxTermReqs = 2
  MaxNakLoops = 2
  LoopbackFail = 2
  MaxEchoFails = 2
  MaxChallenges = 2
  MaxAuthReqs = 2
  Magics = 8
  MaxLosses = 1
  MaxCalls = 3
  ArpTableSize = 2
  ArpMaxAge = 3
  ArpRerequestAge = 2
  ArpMaxPending = 2
  ArpPools = {0, 1, 2}
  MaxPackets = 2
  MaxArpFaults = 1
  ReassMaxAge = 1
  ReassMaxPbufs = 5
  NumReassData = 2
  NumDatagrams = 3
  FirstSize = 4
  OtherSize = 2
  Mtus = {1, 2}
  MaxRepeats = 1
  IgmpPool = 3
  V1Tmr = 3
  JoinTmr = 2
  MaxHolds = 2
  MaxIgmpTrouble = 2
INVARIANTS
  OptionsAgreed
  
  LinkWhole
  ArpSound
  ReassHolds
  IgmpSound
CHECK_DEADLOCK FALSE
