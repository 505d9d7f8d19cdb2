SPECIFICATION Spec
SYMMETRY Symmetry
CONSTANTS
  Attendee = {Alice, Bob}
  Mid = {video1, video2}
  MaxStream = 3
  MaxIndexes = 2
  MaxSessions = 2
INVARIANTS TypeOK AvailableAgrees SubscriptionsWanted LeftIsForgotten
CHECK_DEADLOCK FALSE
