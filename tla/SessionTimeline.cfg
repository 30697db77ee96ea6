\* Half seconds; a check every second, up to half a second late.  One timeout is
\* off or on, and the session is looked at until the longer one, a check and
\* its delay are over.  With both off no check closes anything.
CONSTANTS
  TicksPerSec = 2
  kTimeoutCheckIntervalSec = 1
  MaxDelay = 1
  ConnectionTimeouts = {0, 1}
  SessionTimeouts = {2}
  MaxDrops = 2
  IntSize = 262144
  Requests = {"OPTIONS", "PLAY", "PAUSE", "TEARDOWN", "PARAMETER"}
  Transports <- MCTransports
  MaxNow = 8
  MaxPlays = 2
SPECIFICATION Spec
INVARIANTS
  TypeOK
  IdleIsClosed
  MarkedIsClosedInTime
  DroppedOncePerPlay
  AgreedTransportIsUsed
PROPERTIES
  SetupTakesAnOffer
  NotClosedEarly
\* A closed session stays closed, and time ends with the bound.
CHECK_DEADLOCK FALSE
