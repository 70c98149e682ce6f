CONSTANTS
  MaxUp = 3
  MaxDown = 2
SPECIFICATION FairSpec
INVARIANTS
  TypeOK
  OneChunkInFlight
  StreamsInOrder
  NothingLostWhileOpen
  ConnectAnsweredFirst
  NoNilUnwrapped
  ClosedReleasesBoth
PROPERTIES
  NoIOAfterCancel
  CloseFlushes
  ImplementsRelay
  ClientGoneCloses
  RemoteGoneCloses
  PumpsKeepReading
