---------------------------- MODULE RtspSession ----------------------------
(***************************************************************************)
(* class RtspSession (src/core/rtsp_session.cc): what a request does to a  *)
(* session, and which timeout applies to it.  A session is a record; the   *)
(* handlers are operators on it, used by RtspServer.                       *)
(***************************************************************************)
EXTENDS Integers

NoFd == -1

State == {"kInit", "kOptionsSent", "kDescribeSent", "kSetupSent", "kPlaying",
          "kPaused", "kTeardown"}

\* The requests the handlers tell apart.  A SETUP is named after its Transport:
\* UDP with and without a client port, interleaved TCP, or neither.
\* "Unparsable" is what RtspParser refuses; it gets no answer.
Request == {"OPTIONS", "DESCRIBE", "SETUP_UDP", "SETUP_NOPORT", "SETUP_TCP",
            "SETUP_OTHER", "PLAY", "PAUSE", "TEARDOWN", "PARAMETER",
            "UNKNOWN", "Unparsable"}

\* A session as its constructor leaves it.  udp_fd is the pair udp_rtp_fd_ and
\* udp_rtcp_fd_, which are opened and closed together.  The last two fields
\* record whether PLAY was answered and how many packets were forwarded to the
\* session after it left kPlaying.
NewSession ==
  [state |-> "kInit", is_udp |-> FALSE, udp_fd |-> NoFd, drops |-> 0,
   wasPlayed |-> FALSE, late |-> 0]

\* The status line of the answer (0: none).  udpOk: both UDP sockets could be
\* created; sdpSet: the server has an SDP.
ReplyCode(request, sdpSet, udpOk) ==
  CASE request = "Unparsable"                      -> 0
    [] request = "DESCRIBE" /\ ~sdpSet             -> 500
    [] request \in {"SETUP_NOPORT", "SETUP_OTHER"} -> 461
    [] request = "SETUP_UDP" /\ ~udpOk             -> 500
    [] request = "UNKNOWN"                         -> 405
    [] OTHER                                       -> 200

\* The state a handler sets once its answer is sent; only a 200 changes it, and
\* none looks at the state the session is in.
NextState(state, request, code) ==
  IF code # 200 THEN state
  ELSE CASE request = "OPTIONS"    -> "kOptionsSent"
         [] request = "DESCRIBE"   -> "kDescribeSent"
         [] request = "SETUP_UDP"  -> "kSetupSent"
         [] request = "SETUP_TCP"  -> "kSetupSent"
         [] request = "PLAY"       -> "kPlaying"
         [] request = "PAUSE"      -> "kPaused"
         [] request = "TEARDOWN"   -> "kTeardown"
         [] OTHER                  -> state

\* Mutant: is_udp_ is set before the sockets are known to be there.
BeforeReplyEager(s, request, code, fd) ==
  [s EXCEPT !.is_udp = @ \/ request = "SETUP_UDP",
            !.udp_fd = IF request = "SETUP_UDP" /\ code = 200 THEN fd ELSE @,
            !.wasPlayed = @ \/ request = "PLAY"]

\* What a handler has done when its answer goes out: a UDP SETUP has replaced
\* the socket.
BeforeReply(s, request, code, fd) ==
  [s EXCEPT !.is_udp = @ \/ (request = "SETUP_UDP" /\ code = 200),
            !.udp_fd = IF request = "SETUP_UDP" /\ code = 200 THEN fd ELSE @,
            !.wasPlayed = @ \/ request = "PLAY"]

\* What it does after that; TEARDOWN closes the UDP socket (Close).
AfterReply(s, request, code) ==
  [s EXCEPT !.state = NextState(@, request, code),
            !.udp_fd = IF request = "TEARDOWN" THEN NoFd ELSE @,
            !.late = IF request = "PLAY" THEN 0 ELSE @]

\* The timeout that IsTimedOut applies depends on the state alone; 0 is none.
TimeoutOf(s, connection_timeout_sec, session_timeout_sec) ==
  IF s.state \in {"kInit", "kOptionsSent", "kDescribeSent"}
  THEN connection_timeout_sec ELSE session_timeout_sec

=============================================================================
