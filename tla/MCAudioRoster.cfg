SPECIFICATION Spec
SYMMETRY Symmetry
CONSTANTS
  Attendee = {Alice, Bob}
  NoAttendee = NoAttendee
  RawVolume = {10, 28}
  MaxStream = 3
  MaxIncoming = 2
  MaxRejoins = 1
INVARIANTS TypeOK OpenStreamsKnown PresenceAgrees MuteAgrees VolumeAgrees
PROPERTIES HeardOfPresent
CHECK_DEADLOCK FALSE
