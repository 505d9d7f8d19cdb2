SPECIFICATION FairSpec
CONSTANTS
  Attendee = {alice, bob}
  MaxTransceivers = 3
  MaxTurn = 2
  MaxOffers = 2
INVARIANTS
  TypeOK
  OneUpdateAtATime
  FlightEnds
  QuietMeansSubscribed
PROPERTIES
  NegotiationSettles
CHECK_DEADLOCK FALSE
