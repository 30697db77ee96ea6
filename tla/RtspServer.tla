----------------------------- MODULE RtspServer -----------------------------
(***************************************************************************)
(* class RtspServer with its EpollLoop (src/core/rtsp_server.cc,           *)
(* src/net/epoll_loop.cc) while it runs: the epoll thread accepts clients, *)
(* answers them, flushes, and closes the idle; the stream thread takes a   *)
(* snapshot of the playing sessions under sessions_mutex_ and forwards a   *)
(* packet to each after releasing it.  Sessions are shared_ptrs: an erased *)
(* session keeps its fds open until the snapshot lets go of it.  Fds are   *)
(* numbers that the kernel uses again, lowest first, once they are closed. *)
(*                                                                         *)
(* What a Connection does with bytes is reduced to its outcomes (sent,     *)
(* buffered, refused); the module Connection has the detail.               *)
(***************************************************************************)
EXTENDS RtspSession, FiniteSets, FiniteSetsExt, Functions

CONSTANTS
  Client,             \* each connects at most once
  Fds,                \* number of fds the process may have open for clients
  Requests,           \* the requests clients send
  max_sessions_,
  connection_timeout_sec_,
  session_timeout_sec_,
  MaxDrops,           \* kMaxConsecutiveDrops
  MaxRequests         \* bound: requests of all clients together

ASSUME ServerAssumption ==
  /\ Requests \subseteq Request
  /\ {Fds, max_sessions_, MaxDrops} \subseteq Nat \ {0}
  /\ {connection_timeout_sec_, session_timeout_sec_, MaxRequests} \subseteq Nat

VARIABLES
  sessions_,          \* fd -> client, the map of sessions
  session,            \* client -> its RtspSession object
  interest,           \* fd -> events, for the fds in the epoll set
  owner,              \* fd -> whose socket it is (kernel)
  link,               \* client -> its end of the TCP connection
  inbox,              \* clients with a request waiting to be received
  asked,              \* number of requests sent so far
  batch,              \* events of one epoll_wait still to be dispatched
  main,               \* the epoll thread
  stream              \* the stream thread

sessionVars == <<sessions_, session, interest, owner>>
clientVars == <<link, inbox, asked>>
vars == <<sessionVars, clientVars, batch, main, stream>>

Fd == 1..Fds
Listener == Fds + 1
Timer == Fds + 2
NoOwner == [who |-> "none", kind |-> "none"]
Tcp(c) == [who |-> c, kind |-> "tcp"]
Udp(c) == [who |-> c, kind |-> "udp"]

Idle == [at |-> "wait", fd |-> NoFd, of |-> "none", events |-> {},
         request |-> "none", code |-> 0, todo |-> {}]
Still == [at |-> "idle", held |-> {}, todo |-> {}, who |-> "none", fd |-> NoFd]

Init ==
  /\ sessions_ = <<>>
  /\ session = [c \in Client |-> NewSession]
  /\ interest = <<>>
  /\ owner = [f \in Fd |-> NoOwner]
  /\ link = [c \in Client |-> "pending"]
  /\ inbox = {}
  /\ asked = 0
  /\ batch = {}
  /\ main = Idle
  /\ stream = Still

-----------------------------------------------------------------------------
FreeFds == {f \in Fd : owner[f] = NoOwner}
Without(f, key) == [k \in DOMAIN f \ {key} |-> f[k]]
With(f, key, val) == [k \in DOMAIN f \cup {key} |-> IF k = key THEN val ELSE f[k]]

\* Mutant: the snapshot holds no reference.
DestroyErased(map, held) ==
  LET live == Range(map)
  IN /\ session' = [c \in Client |-> IF c \in live THEN session[c] ELSE NewSession]
     /\ owner' = [f \in Fd |-> IF owner[f].who \in live THEN owner[f] ELSE NoOwner]

\* A session nobody refers to any more is destroyed, and ~RtspSession closes
\* its sockets.
Destroy(map, held) ==
  LET live == Range(map) \cup held
  IN /\ session' = [c \in Client |-> IF c \in live THEN session[c] ELSE NewSession]
     /\ owner' = [f \in Fd |-> IF owner[f].who \in live THEN owner[f] ELSE NoOwner]

\* Mutant: RemoveFd is forgotten.
CloseConnectionNoRemove(fd) ==
  LET c == sessions_[fd]
      rest == Without(sessions_, fd)
  IN /\ sessions_' = rest
     /\ Destroy(rest, stream.held)
     /\ link' = [link EXCEPT ![c] = "gone"]
     /\ inbox' = inbox \ {c}
     /\ UNCHANGED interest

\* Under sessions_mutex_: RemoveFd and erase.  If the stream thread holds the
\* session it lives on.
CloseConnection(fd) ==
  LET c == sessions_[fd]
      rest == Without(sessions_, fd)
  IN /\ sessions_' = rest
     /\ interest' = Without(interest, fd)
     /\ Destroy(rest, stream.held)
     /\ link' = [link EXCEPT ![c] = "gone"]
     /\ inbox' = inbox \ {c}

\* Whether ModifyFd finds the fd in the epoll set.
Modified(fd, events) ==
  IF fd \in DOMAIN interest THEN [interest EXCEPT ![fd] = events] ELSE interest

-----------------------------------------------------------------------------
\* The epoll thread.

Pending == {c \in Client : link[c] = "pending"}

Event(fd, of, events) == [fd |-> fd, of |-> of, events |-> events]

\* What epoll reports of an fd (external): level triggered, and only what the
\* fd is registered for, except for errors.  The end of a connection is
\* readable; a reset is an error as well.
EventsOf(fd, writable) ==
  LET c == sessions_[fd]
  IN ({e \in interest[fd] :
         IF e = "W" THEN writable \/ link[c] = "reset"
                    ELSE c \in inbox \/ link[c] \in {"closed", "reset"}}
      \cup (IF link[c] = "reset" THEN {"E"} ELSE {}))

\* The events of all clients, given the sockets with room in their send buffer.
ClientEvents(roomy) ==
  {e \in {Event(fd, sessions_[fd], EventsOf(fd, fd \in roomy)) :
             fd \in DOMAIN interest} : e.events # {}}

\* The two other sources: a client may have connected by now, and the timer may
\* have expired.
ServerEvents ==
  (IF Pending # {} THEN {Event(Listener, "none", {"R"})} ELSE {})
  \cup {Event(Timer, "none", {"R"})}

\* EpollLoop::Wait returns what is ready.
Wait ==
  /\ main.at = "wait" /\ batch = {}
  /\ \E roomy \in SUBSET DOMAIN interest, other \in SUBSET ServerEvents :
       batch' = ClientEvents(roomy) \cup other
  /\ batch' # {}
  /\ UNCHANGED <<sessionVars, clientVars, main, stream>>

TimerExpires == Wait /\ \E e \in batch' : e.fd = Timer

\* OnNewConnection: accept fails when fds run out; a client over the limit, or
\* whose fd epoll does not take, is turned away.  AddFd and the insertion are one
\* step: nobody but this thread looks at the one, and the stream thread passes
\* over a session that does not play in the other.
OnNewConnection(e) ==
  /\ main.at = "wait" /\ e.fd = Listener
  /\ batch' = batch \ {e}
  /\ \/ FreeFds = {} /\ UNCHANGED <<sessions_, interest, owner, link>>
     \/ /\ FreeFds # {}
        /\ \E c \in Pending : link' = [link EXCEPT ![c] = "refused"]
        /\ UNCHANGED <<sessions_, interest, owner>>
     \/ /\ FreeFds # {}
        /\ Cardinality(DOMAIN sessions_) < max_sessions_
        /\ LET client_fd == Min(FreeFds)
           IN \E c \in Pending :
                /\ link' = [link EXCEPT ![c] = "open"]
                /\ interest' = With(interest, client_fd, {"R"})
                /\ sessions_' = With(sessions_, client_fd, c)
                /\ owner' = [owner EXCEPT ![client_fd] = Tcp(c)]
  /\ UNCHANGED <<session, inbox, asked, main, stream>>

\* Mutant: the mark is not looked at.
CheckTimeoutsIdleOnly(e) ==
  /\ main.at = "wait" /\ e.fd = Timer
  /\ batch' = batch \ {e}
  /\ \E idle \in SUBSET DOMAIN sessions_ :
       main' = [main EXCEPT !.at = "reap", !.todo = idle]
  /\ UNCHANGED <<sessionVars, clientVars, stream>>

\* The timer callback: CheckTimeouts collects under the lock the sessions marked
\* kTeardown and those idle for their timeout.  There is no clock here: any
\* session with a timeout may have been idle long enough.
CheckTimeouts(e) ==
  /\ main.at = "wait" /\ e.fd = Timer
  /\ batch' = batch \ {e}
  /\ LET marked == {f \in DOMAIN sessions_ :
                      session[sessions_[f]].state = "kTeardown"}
         mayBeIdle == {f \in DOMAIN sessions_ \ marked :
                         TimeoutOf(session[sessions_[f]],
                           connection_timeout_sec_, session_timeout_sec_) > 0}
     IN \E idle \in SUBSET mayBeIdle :
          main' = IF connection_timeout_sec_ = 0 /\ session_timeout_sec_ = 0
                  THEN main
                  ELSE [main EXCEPT !.at = "reap", !.todo = marked \cup idle]
  /\ UNCHANGED <<sessionVars, clientVars, stream>>

\* ... and closes the collected fds one by one, not under it.
Reap ==
  /\ main.at = "reap"
  /\ IF main.todo = {}
     THEN main' = Idle /\ UNCHANGED <<sessionVars, clientVars>>
     ELSE \E fd \in main.todo :
            /\ main' = [main EXCEPT !.todo = @ \ {fd}]
            /\ CloseConnection(fd)
            /\ UNCHANGED asked
  /\ UNCHANGED <<batch, stream>>

\* EpollLoop::Run: an event whose fd has no callback any more is skipped,
\* otherwise the client callback runs its handlers in the order R, W, E.  Its
\* session is in the map: the two change together, on this thread.
Dispatch(e) ==
  /\ main.at = "wait" /\ e.fd \in Fd
  /\ batch' = batch \ {e}
  /\ main' = IF e.fd \in DOMAIN interest
             THEN [main EXCEPT !.at = "client", !.fd = e.fd, !.of = e.of,
                               !.events = e.events]
             ELSE main
  /\ UNCHANGED <<sessionVars, clientVars, stream>>

\* The handler of event ev is next.
Handling(ev) ==
  /\ main.at = "client" /\ ev \in main.events
  /\ ev = "R" \/ "R" \notin main.events
  /\ ev # "E" \/ "W" \notin main.events

\* It is done.  The handlers after one that closed the connection do not find
\* the session.
Done(ev, closed) ==
  main' = IF closed \/ main.events = {ev} THEN Idle
          ELSE [main EXCEPT !.at = "client", !.events = @ \ {ev},
                            !.request = "none", !.code = 0]

\* OnRead that closes: Recv gives 0 or -1, or what has arrived is too large for
\* a request.
OnReadGone ==
  /\ Handling("R")
  /\ LET c == sessions_[main.fd]
     IN link[c] \in {"closed", "reset"} \/ c \in inbox
  /\ CloseConnection(main.fd)
  /\ Done("R", TRUE)
  /\ UNCHANGED <<asked, batch, stream>>

\* OnRead with a request: the handler up to and including the Send of the
\* answer.  Recv on the blocking fd waits if there is nothing to receive.  A UDP
\* SETUP opens the new socket before it closes the one it replaces.  The SDP may
\* be set or cleared by another thread at any time.
OnReadRequest ==
  /\ Handling("R")
  /\ LET c == sessions_[main.fd]
         s == session[c]
     IN /\ c \in inbox
        /\ inbox' = inbox \ {c}
        /\ \E r \in Requests, sdpSet \in BOOLEAN :
             LET code == ReplyCode(r, sdpSet, FreeFds # {})
                 newUdp == r = "SETUP_UDP" /\ code = 200
                 fd == IF newUdp THEN Min(FreeFds) ELSE NoFd
             IN /\ session' = [session EXCEPT ![c] = BeforeReply(s, r, code, fd)]
                /\ owner' = IF newUdp
                            THEN [f \in Fd |-> IF f = fd THEN Udp(c)
                                               ELSE IF f = s.udp_fd THEN NoOwner
                                               ELSE owner[f]]
                            ELSE owner
                /\ main' = [main EXCEPT !.at = "reply", !.request = r,
                                        !.code = code]
  /\ UNCHANGED <<sessions_, interest, link, asked, batch, stream>>

\* Mutants: TEARDOWN releases the UDP socket and does not close it; EPOLLOUT is
\* asked for in place of EPOLLIN.
AfterRequestReleases ==
  /\ main.at = "reply"
  /\ LET c == sessions_[main.fd]
     IN session' = [session EXCEPT ![c] = AfterReply(@, main.request, main.code)]
  /\ interest' \in {interest, Modified(main.fd, {"R", "W"})}
  /\ Done("R", FALSE)
  /\ UNCHANGED <<sessions_, owner, clientVars, batch, stream>>

AfterRequestWriteOnly ==
  /\ main.at = "reply"
  /\ LET c == sessions_[main.fd]
     IN session' = [session EXCEPT ![c] = AfterReply(@, main.request, main.code)]
  /\ interest' \in {interest, Modified(main.fd, {"W"})}
  /\ Done("R", FALSE)
  /\ UNCHANGED <<sessions_, owner, clientVars, batch, stream>>

\* The rest of the handler, then NeedFlush: if bytes of the answer were
\* buffered, EPOLLOUT is asked for.
AfterRequest ==
  /\ main.at = "reply"
  /\ LET c == sessions_[main.fd]
         s == AfterReply(session[c], main.request, main.code)
     IN /\ session' = [session EXCEPT ![c] = s]
        /\ owner' = [f \in Fd |-> IF owner[f] = Udp(c) /\ s.udp_fd = NoFd
                                  THEN NoOwner ELSE owner[f]]
  /\ interest' \in {interest, Modified(main.fd, {"R", "W"})}
  /\ Done("R", FALSE)
  /\ UNCHANGED <<sessions_, clientVars, batch, stream>>

\* OnWrite: Flush empties the buffer, or leaves some, or fails.
OnWrite ==
  /\ Handling("W")
  /\ \/ /\ interest' \in {interest, Modified(main.fd, {"R"})}
        /\ Done("W", FALSE)
        /\ UNCHANGED <<sessions_, session, owner, link, inbox>>
     \/ /\ link[sessions_[main.fd]] \in {"closed", "reset"}
        /\ CloseConnection(main.fd)
        /\ Done("W", TRUE)
  /\ UNCHANGED <<asked, batch, stream>>

OnError ==
  /\ Handling("E")
  /\ CloseConnection(main.fd)
  /\ Done("E", TRUE)
  /\ UNCHANGED <<asked, batch, stream>>

\* The steps of the loop, but for the ends of the Send of an answer and of Flush,
\* which a client that does not read can keep from coming.
LoopStep ==
  \/ Wait
  \/ \E e \in batch : OnNewConnection(e) \/ CheckTimeouts(e) \/ Dispatch(e)
  \/ Reap
  \/ OnReadGone \/ OnReadRequest \/ OnError

MainStep == LoopStep \/ AfterRequest \/ OnWrite

-----------------------------------------------------------------------------
\* The stream thread.

\* Mutant: every session is forwarded to.
BroadcastToAll ==
  /\ stream.at = "idle" /\ sessions_ # <<>>
  /\ stream' = [stream EXCEPT !.at = "next", !.held = Range(sessions_),
                              !.todo = Range(sessions_)]
  /\ UNCHANGED <<sessionVars, clientVars, batch, main>>

\* BroadcastRtp: the playing sessions, under sessions_mutex_.
Broadcast ==
  /\ stream.at = "idle"
  /\ LET playing == {c \in Range(sessions_) : session[c].state = "kPlaying"}
     IN /\ playing # {}
        /\ stream' = [stream EXCEPT !.at = "next", !.held = playing,
                                    !.todo = playing]
  /\ UNCHANGED <<sessionVars, clientVars, batch, main>>

\* RecordDrop, and the mark with its counter when the limit is reached.
Dropped(s) ==
  [s EXCEPT !.drops = @ + 1,
            !.state = IF s.drops + 1 >= MaxDrops THEN "kTeardown" ELSE @]

\* RecordSuccess; the packet is late if the session has left kPlaying since the
\* snapshot.
Forwarded(s) ==
  [s EXCEPT !.drops = 0, !.late = IF s.state = "kPlaying" THEN @ ELSE @ + 1]

\* ForwardRtp over TCP: the frame is taken, and EPOLLOUT asked for in a step of
\* its own if some of it was buffered, or it is refused.
ForwardTcp ==
  /\ stream.at = "next"
  /\ \E c \in stream.todo :
       LET s == session[c]
       IN /\ ~s.is_udp
          /\ \/ /\ session' = [session EXCEPT ![c] = Forwarded(s)]
                /\ \E next \in {"next", "arm"} :
                     stream' = [stream EXCEPT !.todo = @ \ {c}, !.at = next,
                               !.who = IF next = "arm" THEN c ELSE "none"]
             \/ session' = [session EXCEPT ![c] = Dropped(s)]
                /\ stream' = [stream EXCEPT !.todo = @ \ {c}]
  /\ UNCHANGED <<sessions_, interest, owner, clientVars, batch, main>>

FdOf(c) == CHOOSE f \in Fd : owner[f] = Tcp(c)

\* ModifyFd(session->fd(), kRead | kWrite).
ArmWrite ==
  /\ stream.at = "arm"
  /\ interest' = Modified(FdOf(stream.who), {"R", "W"})
  /\ stream' = [stream EXCEPT !.at = "next", !.who = "none"]
  /\ UNCHANGED <<sessions_, session, owner, clientVars, batch, main>>

\* ForwardRtp over UDP: the fd number is read ...
ForwardUdp ==
  /\ stream.at = "next"
  /\ \E c \in stream.todo :
       /\ session[c].is_udp
       /\ stream' = [stream EXCEPT !.todo = @ \ {c}, !.at = "sendto",
                                   !.who = c, !.fd = session[c].udp_fd]
  /\ UNCHANGED <<sessions_, session, interest, owner, clientVars, batch, main>>

\* ... and used, whatever it is by then.  A datagram may also be refused.
SendTo ==
  /\ stream.at = "sendto"
  /\ LET c == stream.who
         s == session[c]
     IN \/ /\ stream.fd \in Fd /\ owner[stream.fd] # NoOwner
           /\ session' = [session EXCEPT ![c] = Forwarded(s)]
        \/ session' = [session EXCEPT ![c] = Dropped(s)]
  /\ stream' = [stream EXCEPT !.at = "next", !.who = "none", !.fd = NoFd]
  /\ UNCHANGED <<sessions_, interest, owner, clientVars, batch, main>>

\* The snapshot goes out of scope.
BroadcastReturns ==
  /\ stream.at = "next" /\ stream.todo = {}
  /\ stream' = Still
  /\ Destroy(sessions_, {})
  /\ UNCHANGED <<sessions_, interest, clientVars, batch,
                 main>>

StreamStep ==
  \/ ForwardTcp \/ ArmWrite \/ ForwardUdp \/ SendTo \/ BroadcastReturns

-----------------------------------------------------------------------------
\* Clients (external).

Ask(c) ==
  /\ link[c] = "open" /\ c \notin inbox /\ asked < MaxRequests
  /\ inbox' = inbox \cup {c}
  /\ asked' = asked + 1
  /\ UNCHANGED <<sessionVars, link, batch, main, stream>>

Leave(c) ==
  /\ link[c] = "open"
  /\ \E end \in {"closed", "reset"} : link' = [link EXCEPT ![c] = end]
  /\ UNCHANGED <<sessionVars, inbox, asked, batch, main, stream>>

Next ==
  \/ MainStep \/ StreamStep \/ Broadcast
  \/ \E c \in Client : Ask(c) \/ Leave(c)

\* The loop goes on where it does not wait for a client, and the timer, which
\* expires periodically, is reported again and again.
Fairness == WF_vars(LoopStep) /\ SF_vars(TimerExpires)

Spec == Init /\ [][Next]_vars /\ Fairness

-----------------------------------------------------------------------------
TypeOK ==
  /\ DOMAIN sessions_ \subseteq Fd /\ Range(sessions_) \subseteq Client
  /\ DOMAIN interest \subseteq Fd
  /\ Range(interest) \subseteq {{"R"}, {"R", "W"}}
  /\ \A c \in Client : /\ session[c].state \in State
                       /\ session[c].udp_fd \in Fd \cup {NoFd}
                       /\ session[c].drops \in Nat
  /\ \A f \in Fd : owner[f] \in {NoOwner} \cup {Tcp(c) : c \in Client}
                                          \cup {Udp(c) : c \in Client}
  /\ main.at \in {"wait", "client", "reply", "reap"}
  /\ stream.at \in {"idle", "next", "arm", "sendto"}
  /\ stream.todo \subseteq stream.held /\ stream.held \subseteq Client

\* The map, the epoll set and the kernel agree: a session is found under the
\* number of its own open socket and there are no others in the epoll set, for
\* at most max_sessions_ of them, although fds are closed by whichever thread
\* drops the last reference (rtsp_server.cc:262, 304-310, 363-376).
SessionsOwnTheirFds ==
  /\ DOMAIN interest = DOMAIN sessions_
  /\ \A f \in DOMAIN sessions_ : owner[f] = Tcp(sessions_[f])
  /\ Cardinality(DOMAIN sessions_) <= max_sessions_

\* While the stream thread holds a session its TCP socket stays open, so that
\* the ModifyFd of BroadcastRtp can only meet the session's own registration or
\* none (rtsp_server.cc:183-198, 231-235; the promise of the comment at 184).
HeldSessionsKeepTheirFd ==
  \A c \in stream.held :
    \E f \in Fd : /\ owner[f] = Tcp(c)
                  /\ f \in DOMAIN sessions_ => sessions_[f] = c

\* No socket is lost: each open one belongs to a session that can still close
\* it, also when SETUP comes twice or a session goes while it is being forwarded
\* to (rtsp_session.cc:224-225, fd_guard.h:39-52).
NoFdLeak ==
  \A f \in Fd : owner[f] # NoOwner =>
    /\ owner[f].who \in Range(sessions_) \cup stream.held
    /\ owner[f].kind = "udp" => session[owner[f].who].udp_fd = f

\* RTP stays between the answer to PLAY and the end of playing: a session is
\* forwarded to only after that answer has been sent, and once its state is no
\* longer kPlaying it gets at most the one packet whose snapshot it was already
\* in (rtsp_session.cc:320-321, rtsp_server.cc:192).
RtpWhilePlaying ==
  /\ \A c \in stream.held : session[c].wasPlayed
  /\ \A c \in Client : session[c].late <= 1

\* The epoll thread is in a call on a blocking fd that waits for a client: in a
\* Recv for one that has nothing to say, in the Send of an answer, or in Flush.
Stuck ==
  \/ /\ Handling("R")
     /\ sessions_[main.fd] \notin inbox
     /\ link[sessions_[main.fd]] = "open"
  \/ main.at = "reply"
  \/ Handling("W")

\* A session marked kTeardown, by its client or by BroadcastRtp, is closed by the
\* timer unless a later request overwrites the mark, provided that the epoll
\* thread does not stay in a blocking call and that one of the timeouts is on
\* (rtsp_server.cc:214-217, 474, 485-489).  The comment at 214-215 makes neither
\* the exception nor the second proviso: SlowIsCleaned of SessionTimeline.
MarkedIsReaped ==
  (connection_timeout_sec_ > 0 \/ session_timeout_sec_ > 0) /\ []<>~Stuck =>
    \A c \in Client :
      (c \in Range(sessions_) /\ session[c].state = "kTeardown")
        ~> (c \notin Range(sessions_) \/ session[c].state # "kTeardown")

\* A request that has arrived is received, whatever else is going on, unless
\* the connection is closed first, provided that the epoll thread does not stay
\* in a blocking call (epoll_loop.cc:184-206).
RequestIsReceived ==
  []<>~Stuck =>
    \A c \in Client : c \in inbox ~> (c \notin inbox \/ c \notin Range(sessions_))

-----------------------------------------------------------------------------
\* An event runs the handlers of the session it was reported for: the comment
\* at epoll_loop.cc:196 takes the look-up in callbacks_ as the check for that.
EventsReachTheirSession ==
  (main.at = "client" /\ main.fd \in DOMAIN sessions_)
    => sessions_[main.fd] = main.of

\* A UDP packet leaves through a socket of the session it is for: the comment
\* at rtsp_server.cc:185 says ForwardRtp needs no further lock.
UdpGoesToOwnSocket ==
  (stream.at = "sendto" /\ stream.fd \in Fd)
    => owner[stream.fd] \in {NoOwner, Udp(stream.who)}

=============================================================================
