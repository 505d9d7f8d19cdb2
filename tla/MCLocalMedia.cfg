SPECIFICATION Spec
CONSTANTS
  AudioMid = {"0"}
  VideoMid = {"2"}
  RemoteMid = {"1"}
  Offers <- MCOffers
  MaxStream = 2
  MaxQueue = 2
  MaxSessions = 2
INVARIANTS
  TypeOK
  MuteReachesServer
  LocalStreamsAgree
  NamesOwnStreams
CHECK_DEADLOCK FALSE
