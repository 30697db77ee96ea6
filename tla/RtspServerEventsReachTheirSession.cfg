\* Two clients on three fds: with one of them on UDP every fd is in use, and a
\* closed fd is used again at once.  Three requests: SETUP, PLAY, TEARDOWN.
CONSTANTS
  Client = {c1, c2}
  Fds = 3
  Requests = {"SETUP_UDP", "PLAY", "TEARDOWN"}
  max_sessions_ = 2
  connection_timeout_sec_ = 1
  session_timeout_sec_ = 1
  MaxDrops = 1
  MaxRequests = 3
SPECIFICATION Spec
SYMMETRY ClientSymmetry
INVARIANT
  EventsReachTheirSession
