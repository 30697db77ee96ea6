\* Two clients at once, and only the timeout of unfinished handshakes on.  No
\* symmetry, which would be unsound for liveness.
CONSTANTS
  Client = {c1, c2}
  Fds = 3
  Requests = {"SETUP_UDP", "PLAY", "TEARDOWN"}
  max_sessions_ = 2
  connection_timeout_sec_ = 1
  session_timeout_sec_ = 0
  MaxDrops = 1
  MaxRequests = 2
SPECIFICATION Spec
INVARIANTS
  TypeOK
  SessionsOwnTheirFds
  HeldSessionsKeepTheirFd
  NoFdLeak
  RtpWhilePlaying
PROPERTIES
  MarkedIsReaped
  RequestIsReceived
