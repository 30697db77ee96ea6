-------------------------- MODULE SessionTimeline ---------------------------
(***************************************************************************)
(* One session of a running server, from its constructor to its close, in  *)
(* time (src/core/rtsp_session.cc, CheckTimeouts and BroadcastRtp of       *)
(* src/core/rtsp_server.cc): the requests of its client, the packets       *)
(* forwarded to it, the timer that closes it, and the statistics.  The     *)
(* clock counts in ticks; the code sees whole seconds of it only.          *)
(*                                                                         *)
(* The epoll thread comes to an expired timer within MaxDelay ticks (the   *)
(* module Connection shows what may keep it).  The client keeps its        *)
(* connection: module RtspServer has the clients that leave.               *)
(***************************************************************************)
EXTENDS RtspSession, RtspParser

CONSTANTS
  TicksPerSec,
  kTimeoutCheckIntervalSec,
  MaxDelay,
  ConnectionTimeouts, SessionTimeouts,   \* the configured timeouts, in seconds
  MaxDrops,           \* kMaxConsecutiveDrops
  IntSize,            \* how many values an int has: 2^32
  Requests,           \* the requests the client sends besides SETUP
  Transports,         \* the Transport headers it sends with SETUP
  MaxNow,             \* bound: how long the session is looked at
  MaxPlays            \* bound: number of PLAY requests

ASSUME TimelineAssumption ==
  /\ {TicksPerSec, kTimeoutCheckIntervalSec, MaxDrops} \subseteq Nat \ {0}
  /\ MaxDelay \in 0..kTimeoutCheckIntervalSec * TicksPerSec - 1
  /\ ConnectionTimeouts \cup SessionTimeouts \subseteq Nat
  /\ IntSize \in Nat \ {0}
  /\ MaxNow \in Nat /\ MaxPlays \in Nat
  /\ Requests \subseteq {"OPTIONS", "DESCRIBE", "PLAY", "PAUSE", "TEARDOWN",
                          "PARAMETER", "UNKNOWN", "Unparsable"}

\* The numbers are what strtol makes of the text, negative ones too.
ASSUME TransportsAssumption ==
  \A header \in Transports :
    /\ header \in Seq([names : SUBSET STRING, client_port : Seq(Int),
                       interleaved : Seq(Int)])
    /\ \A k \in DOMAIN header : /\ Len(header[k].client_port) <= 2
                                /\ Len(header[k].interleaved) <= 2

VARIABLES
  now,                      \* steady_clock, in ticks
  due,                      \* when the timerfd expires next
  timeouts,                 \* connection_timeout_sec_ and session_timeout_sec_
  open,                     \* the session is in sessions_
  session,
  last_activity_sec_,
  port,                     \* sin_port of client_rtp_addr_ and client_rtcp_addr_
  stream,                   \* "idle", or "forward" with the session in the snapshot
  timed_out_sessions_,
  total_dropped_sessions_,
  active,                   \* history: when a request came or a packet went last
  marked,                   \* history: when the state became kTeardown, else 0
  phase,                    \* history: "handshake", "established", "probed"
  agreed,                   \* history: what the last 200 to SETUP agreed on,
                            \* until TEARDOWN ends it
  plays                     \* history: number of PLAYs

clockVars == <<now, due, timeouts>>
statVars == <<timed_out_sessions_, total_dropped_sessions_>>
setupVars == <<port, agreed>>
histVars == <<active, marked, phase, plays>>
vars == <<clockVars, open, session, last_activity_sec_, setupVars, stream,
          statVars, histVars>>

Interval == kTimeoutCheckIntervalSec * TicksPerSec
InSeconds(ticks) == ticks \div TicksPerSec

Word == 2^16          \* a uint16_t is less than this
Ports == 0..Word-1

NotAgreed == [mode |-> "none", ports |-> <<0, 0>>, udpBefore |-> FALSE]

\* The clock starts with the session; the timer runs since Start, out of step
\* with the seconds of the clock.
Init ==
  /\ now = 0
  /\ due \in 1..Interval
  /\ timeouts \in [connection : ConnectionTimeouts, session : SessionTimeouts]
  /\ open = TRUE
  /\ session = NewSession
  /\ last_activity_sec_ = InSeconds(now)
  /\ port = <<0, 0>> /\ agreed = NotAgreed
  /\ stream = "idle"
  /\ timed_out_sessions_ = 0 /\ total_dropped_sessions_ = 0
  /\ active = now /\ marked = 0
  /\ phase = "handshake" /\ plays = 0

-----------------------------------------------------------------------------
\* The client's requests.

\* What ProcessData does for any request, also for one that does not parse.
Process(request, code) ==
  /\ open
  /\ session' = AfterReply(BeforeReply(session, request, code, 1), request, code)
  /\ last_activity_sec_' = InSeconds(now)
  /\ active' = now
  /\ marked' = IF session'.state # "kTeardown" THEN 0
               ELSE IF session.state # "kTeardown" THEN now ELSE marked
  /\ phase' = IF code # 200 THEN phase
              ELSE IF request \in {"SETUP_UDP", "SETUP_TCP", "PLAY", "PAUSE"}
                   THEN "established"
              ELSE IF request \in {"OPTIONS", "DESCRIBE"} /\ phase # "handshake"
                   THEN "probed"
              ELSE phase
  /\ UNCHANGED <<clockVars, open, stream, statVars>>

Ask(request) ==
  /\ request = "PLAY" => plays < MaxPlays
  /\ \E sdpSet \in BOOLEAN : Process(request, ReplyCode(request, sdpSet, TRUE))
  /\ plays' = IF request = "PLAY" THEN plays + 1 ELSE plays
  /\ agreed' = IF request = "TEARDOWN"
               THEN [agreed EXCEPT !.mode = "none"] ELSE agreed
  /\ UNCHANGED port

\* Mutant: a number that is no port is kept.
ShortUncut(n) == n

\* static_cast<uint16_t>
Short(n) == n % Word

\* A SETUP with the given TransportInfo; udpOk: the UDP sockets can be had.
Setup(info, udpOk) ==
  LET request == SetupKind(info)
      code == ReplyCode(request, TRUE, udpOk)
      udp == request = "SETUP_UDP" /\ code = 200
  IN /\ Process(request, code)
     /\ port' = IF udp THEN <<Short(info.client_port[1]), Short(info.client_port[2])>>
                ELSE port
     /\ agreed' = IF code # 200 THEN agreed
                  ELSE [mode |-> IF udp THEN "UDP" ELSE "TCP",
                        ports |-> IF udp THEN info.client_port ELSE <<0, 0>>,
                        udpBefore |-> udp \/ agreed.udpBefore]
     /\ UNCHANGED plays

SetupRequest(header, udpOk) == Setup(ParseTransport(header, IntSize), udpOk)

-----------------------------------------------------------------------------
\* Mutant: a session of any state is forwarded to.
SnapshotAny ==
  /\ stream = "idle" /\ open
  /\ stream' = "forward"
  /\ UNCHANGED <<clockVars, open, session, last_activity_sec_, setupVars,
                 statVars, histVars>>

\* BroadcastRtp's snapshot has the session in it ...
Snapshot ==
  /\ stream = "idle" /\ open /\ session.state = "kPlaying"
  /\ stream' = "forward"
  /\ UNCHANGED <<clockVars, open, session, last_activity_sec_, setupVars,
                 statVars, histVars>>

\* RecordDrop; from the limit on every failure counts the session and marks it.
\* Only a packet that gets through starts the count of drops again.
Drop ==
  LET limit == session.drops + 1 >= MaxDrops
  IN /\ session' = [session EXCEPT !.drops = @ + 1,
                                   !.state = IF limit THEN "kTeardown" ELSE @]
     /\ total_dropped_sessions_' = total_dropped_sessions_ + (IF limit THEN 1 ELSE 0)
     /\ marked' = IF limit /\ session.state # "kTeardown" THEN now ELSE marked

\* Mutant: only requests count as activity.
ForwardUnnoticed ==
  /\ stream = "forward"
  /\ UNCHANGED last_activity_sec_
  /\ active' = now
  /\ session' = [session EXCEPT !.drops = 0]
  /\ stream' = "idle"
  /\ UNCHANGED <<clockVars, open, setupVars, statVars, marked, phase, plays>>

\* ... and ForwardRtp, whether or not it is still open: UpdateActivity, then
\* the packet goes out or is refused.  Without a UDP socket it is refused.
Forward ==
  /\ stream = "forward"
  /\ last_activity_sec_' = InSeconds(now)
  /\ active' = now
  /\ \/ /\ session.is_udp => session.udp_fd # NoFd
        /\ session' = [session EXCEPT !.drops = 0]
        /\ UNCHANGED <<total_dropped_sessions_, marked>>
     \/ Drop
  /\ stream' = "idle"
  /\ UNCHANGED <<clockVars, open, setupVars, timed_out_sessions_, phase, plays>>

-----------------------------------------------------------------------------
\* Mutant: the timeout must be exceeded.
IsTimedOutStrict ==
  LET timeout_sec == TimeoutOf(session, timeouts.connection, timeouts.session)
  IN timeout_sec > 0 /\ InSeconds(now) - last_activity_sec_ > timeout_sec

IsTimedOut ==
  LET timeout_sec == TimeoutOf(session, timeouts.connection, timeouts.session)
  IN timeout_sec > 0 /\ InSeconds(now) - last_activity_sec_ >= timeout_sec

\* Mutant: one timeout that is off turns the whole check off.
ChecksOnIfBoth == timeouts.connection > 0 /\ timeouts.session > 0

ChecksOn == timeouts.connection > 0 \/ timeouts.session > 0

\* The timer callback.
CheckTimeouts ==
  /\ now >= due
  /\ due' = due + Interval
  /\ IF open /\ ChecksOn /\ (session.state = "kTeardown" \/ IsTimedOut)
     THEN open' = FALSE /\ timed_out_sessions_' = timed_out_sessions_ + 1
     ELSE UNCHANGED <<open, timed_out_sessions_>>
  /\ UNCHANGED <<now, timeouts, session, last_activity_sec_, setupVars, stream,
                 total_dropped_sessions_, histVars>>

\* Time passes (external).
Tick ==
  /\ now < MaxNow /\ now < due + MaxDelay
  /\ open \/ stream # "idle"
  /\ now' = now + 1
  /\ UNCHANGED <<due, timeouts, open, session, last_activity_sec_, setupVars,
                 stream, statVars, histVars>>

Next ==
  \/ \E request \in Requests : Ask(request)
  \/ \E header \in Transports, udpOk \in BOOLEAN : SetupRequest(header, udpOk)
  \/ Setup(NoTransport, TRUE)
  \/ Snapshot \/ Forward \/ CheckTimeouts \/ Tick

Spec == Init /\ [][Next]_vars

-----------------------------------------------------------------------------
TypeOK ==
  /\ now \in 0..MaxNow /\ due \in 1..MaxNow+Interval /\ now <= due + MaxDelay
  /\ session.state \in State /\ session.drops \in Nat
  /\ last_activity_sec_ \in 0..InSeconds(now)
  /\ port \in Ports \X Ports
  /\ stream \in {"idle", "forward"} /\ open \in BOOLEAN
  /\ timed_out_sessions_ \in 0..1
  /\ total_dropped_sessions_ \in Nat

\* A session that neither sends requests nor is sent packets is closed: it is
\* never idle for longer than its timeout, one check interval and the time the
\* epoll thread takes to get there, although activity is recorded in whole
\* seconds.  Packets sent to it count, so a UDP client that is gone stays as
\* long as the stream goes on (rtsp_session.cc:46, 60, 88-111,
\* rtsp_server.cc:471-504).
IdleIsClosed ==
  LET timeout == TimeoutOf(session, timeouts.connection, timeouts.session)
  IN open /\ timeout > 0 =>
       now - active <= timeout * TicksPerSec + Interval + MaxDelay

\* A session is closed as idle only if no request has come and no packet has
\* gone to it for more than one second less than the timeout that applies to
\* it (activity and check both cut the clock to seconds): the connection timeout
\* during the handshake, the session timeout once SETUP, PLAY or PAUSE has
\* succeeded.  OPTIONS or DESCRIBE puts an established session back under the
\* connection timeout, against what EstablishedHasSessionTimeout says
\* (rtsp_session.cc:88-111, 165, 184).
NotClosedEarly ==
  [][ (timed_out_sessions_' # timed_out_sessions_ /\ session.state # "kTeardown")
      => LET timeout == IF phase = "established" THEN timeouts.session
                                                 ELSE timeouts.connection
         IN timeout > 0 /\ now - active > (timeout - 1) * TicksPerSec ]_vars

\* As long as a session marked kTeardown, by TEARDOWN or as a slow client, keeps
\* its mark, it is open for one interval and the delay of the epoll thread at
\* most; one timeout that is switched off does not prevent that.  Both together
\* do, and a request may take the mark away, although the comment at
\* rtsp_server.cc:214-215 has neither exception: see SlowIsCleaned
\* (rtsp_server.cc:217, 474-489, rtsp_session.cc:321).
MarkedIsClosedInTime ==
  open /\ session.state = "kTeardown"
       /\ (timeouts.connection > 0 \/ timeouts.session > 0)
    => now - marked <= Interval + MaxDelay

\* A slow client is counted once for the time it plays: for it to be counted
\* again it must have been made to play again.  That it then is counted again is
\* what DroppedIsCountedOnce is about (rtsp_server.cc:192, 210-217).
DroppedOncePerPlay == total_dropped_sessions_ <= plays

\* Whether an alternative of a Transport header can be used as it stands.
Offers(alternative, mode) ==
  IF mode = "TCP" THEN "TCP" \in alternative.names
  ELSE /\ "TCP" \notin alternative.names
       /\ Pair(alternative.client_port, IntSize)[1] # 0

\* SETUP takes an alternative the client has offered - its mode, and over UDP its
\* ports, not those of another - whatever order they stand in.  It refuses only
\* if TCP is not among them and none can be used over UDP: no socket can be had,
\* no client_port is given, or one that stands before is port 0
\* (rtsp_parser.cc:157-227, rtsp_session.cc:201-280).
SetupTakesAnOffer ==
  [][ \A header \in Transports, udpOk \in BOOLEAN : SetupRequest(header, udpOk) =>
        \/ /\ session'.state = "kSetupSent"
           /\ \E k \in DOMAIN header :
                /\ Offers(header[k], agreed'.mode)
                /\ agreed'.mode = "UDP" =>
                     agreed'.ports = Pair(header[k].client_port, IntSize)
        \/ /\ UNCHANGED <<session, agreed>>
           /\ \A k \in DOMAIN header :
                /\ ~Offers(header[k], "TCP")
                /\ udpOk /\ Offers(header[k], "UDP") =>
                     \E j \in 1..k-1 : /\ header[j].client_port # <<>>
                                       /\ ~Offers(header[j], "UDP") ]_vars

\* From a SETUP answered with 200 to TEARDOWN, RTP goes the way that was agreed
\* on: over UDP through open sockets to the ports the answer names, or over TCP.
\* A number that is no port is cut to 16 bits; a TCP SETUP that follows a UDP one
\* is left to TcpSetupUsesTcp (rtsp_session.cc:224-256, 268-276, 62-78,
\* rtsp_parser.cc:175-190).
AgreedTransportIsUsed ==
  /\ agreed.mode = "UDP" =>
       /\ session.is_udp /\ session.udp_fd # NoFd
       /\ \A k \in 1..2 : agreed.ports[k] \in Ports => port[k] = agreed.ports[k]
  /\ agreed.mode = "TCP" /\ ~agreed.udpBefore => ~session.is_udp

-----------------------------------------------------------------------------
\* What the repository says of a session, where the code does something else.

\* The comment at rtsp_server.cc:214-215: a slow client is marked kTeardown, and
\* cleaned up at the next read event or timeout check.  So once it is counted it
\* keeps its mark until it is closed.
SlowIsCleaned ==
  open /\ total_dropped_sessions_ > 0 => session.state = "kTeardown"

\* dropped_sessions (rtsp_forward.h:79) is the number of sessions closed as slow
\* clients: one session adds one at most.
DroppedIsCountedOnce == total_dropped_sessions_ <= 1

\* RTP/AVP/TCP (doc/RTSP转发需求文档.md:92) is the TCP mode, with interleaved
\* frames, whatever was set up before.
TcpSetupUsesTcp == agreed.mode = "TCP" => ~session.is_udp

\* The connection timeout is for sessions whose handshake is not complete, the
\* session timeout for established ones (rtsp_forward.h:61-62): a session that
\* has been set up counts as idle after the session timeout only.
EstablishedHasSessionTimeout ==
  open /\ phase # "handshake" /\ session.state # "kTeardown" /\ IsTimedOut =>
    timeouts.session > 0 /\ now - active > (timeouts.session - 1) * TicksPerSec

\* The least that follows from these four lines of the repository: every session
\* is, at every time, as at least one of them says.  One state in which it is
\* not refutes each of them (rtsp_session.cc:165, 268, 321, rtsp_server.cc:210-217).
SessionKeepsSomePromise ==
  \/ SlowIsCleaned \/ DroppedIsCountedOnce \/ TcpSetupUsesTcp
  \/ EstablishedHasSessionTimeout

=============================================================================
