\* One session, of a client that is slow, asks for UDP and then for TCP, and sends
\* PLAY again and OPTIONS.
CONSTANTS
  TicksPerSec = 2
  kTimeoutCheckIntervalSec = 1
  MaxDelay = 1
  ConnectionTimeouts = {1}
  SessionTimeouts = {2}
  MaxDrops = 2
  IntSize = 262144
  Requests = {"OPTIONS", "PLAY", "PAUSE", "TEARDOWN", "PARAMETER"}
  Transports <- MCFewTransports
  MaxNow = 8
  MaxPlays = 2
SPECIFICATION Spec
INVARIANT
  SessionKeepsSomePromise
\* A closed session stays closed, and time ends with the bound.
CHECK_DEADLOCK FALSE
