SPECIFICATION Spec
CONSTANTS
  NumSockets = 2
  RecvMboxSize = 2
  AcceptMboxSize = 1
  SndBuf = 2
  SndLowat = 1
  Wnd = 3
  MaxSize = 2
  MaxGiven = 3
  MaxFaults = 1
  Watchers = {t1}
  Programs <- SmallPrograms
  NumLeases = 2
  CoopTries = 2
  SelectTries = 1
  RebindTries = 1
  RebootTries = 2
  ProbeNum = 1
  AnnounceNum = 2
  MaxTries = 3
  MaxXid = 5
  MaxWire = 2
  MaxTrouble = 2
  DnsTableSize = 2
  DnsMaxRetries = 2
  DnsMaxTtl = 1
  SeqnoSpace = 4
  TtlSpace = 3
  MaxRequests = 3
  MaxQuestions = 2
  PoolBufs = 2
  OtherBufs = 1
  BufSize = 2
  HeaderLen = 1
  Holders = {1, 2}
  MaxPacket = 3
  MaxEdits = 2
INVARIANTS
  SocketsSound
  StreamCredited
  AddressSound
  KeepsAsking
  
  PbufHolds
CHECK_DEADLOCK FALSE
