-------------------------- MODULE RtspServerProofs --------------------------
(***************************************************************************)
(* Theorems about RtspServer, for every set of clients, every number of    *)
(* fds, sessions and requests, and every choice of timeouts.               *)
(***************************************************************************)
EXTENDS RtspServer, FiniteSetTheorems, NatLemmas

Sessions == [state : State, is_udp : BOOLEAN, udp_fd : Fd \cup {NoFd},
             drops : Nat, wasPlayed : BOOLEAN, late : Nat]

Owners == {NoOwner} \cup {Tcp(c) : c \in Client} \cup {Udp(c) : c \in Client}

Mains == [at : {"wait", "client", "reply", "reap"}, fd : Int,
          of : Client \cup {"none"}, events : SUBSET {"R", "W", "E"},
          request : Request \cup {"none"}, code : Int, todo : SUBSET Fd]

Streams == [at : {"idle", "next", "arm", "sendto"}, held : SUBSET Client,
            todo : SUBSET Client, who : Client \cup {"none"},
            fd : Fd \cup {NoFd}]

Events == [fd : Int, of : Client \cup {"none"}, events : SUBSET {"R", "W", "E"}]

\* The types in full.  main.of and batch occur in no property; they are typed
\* because main is updated field by field.
MapType ==
  /\ sessions_ \in [DOMAIN sessions_ -> Client] /\ DOMAIN sessions_ \subseteq Fd
  /\ interest \in [DOMAIN interest -> {{"R"}, {"R", "W"}}]
  /\ DOMAIN interest = DOMAIN sessions_

ThreadType ==
  batch \subseteq Events /\ main \in Mains /\ stream \in Streams

SocketType ==
  /\ session \in [Client -> Sessions] /\ owner \in [Fd -> Owners]
  /\ link \in [Client -> {"pending", "refused", "open", "closed", "reset", "gone"}]

Live == Range(sessions_) \cup stream.held

\* The kernel's view and the program's: an fd in the map is the socket of its
\* session, a session has no other, and nobody but a live session owns any; its
\* udp_fd is open and its own.
FdInv ==
  /\ \A f \in DOMAIN sessions_ : owner[f] = Tcp(sessions_[f])
  /\ \A f, g \in Fd, c \in Client : owner[f] = Tcp(c) /\ owner[g] = Tcp(c) => f = g
  /\ \A f \in Fd, c \in Client : owner[f] \in {Tcp(c), Udp(c)} => c \in Live
  /\ \A f \in Fd, c \in Client : owner[f] = Udp(c) <=> session[c].udp_fd = f
  /\ \A c \in stream.held : \E f \in Fd : owner[f] = Tcp(c)

\* A client that has not connected has no session, and an object that nobody
\* refers to is not there.
LiveInv ==
  /\ \A c \in Client : link[c] = "pending" => c \notin Live
  /\ \A c \in Client : c \notin Live => session[c] = NewSession

\* What a thread works on is there.
ThreadInv ==
  /\ main.at \in {"client", "reply"} => main.fd \in DOMAIN sessions_
  /\ main.at = "reap" => main.todo \subseteq DOMAIN sessions_
  /\ stream.todo \subseteq stream.held
  /\ stream.at \in {"arm", "sendto"} => stream.who \in stream.held \ stream.todo
  /\ stream.at = "idle" => stream.held = {}

\* By the time the answer to PLAY is out, it is on record.
AnswerInv ==
  (main.at = "reply" /\ main.request = "PLAY")
    => session[sessions_[main.fd]].wasPlayed

\* A session that plays has answered PLAY and none of its packets is late, nor is
\* one of a session the stream thread has yet to come to.
PlayInv ==
  /\ \A c \in Client : session[c].state = "kPlaying"
                         => session[c].wasPlayed /\ session[c].late = 0
  /\ \A c \in stream.todo : session[c].late = 0
  /\ stream.at = "sendto" => session[stream.who].late = 0
  /\ RtpWhilePlaying

LimitInv == Cardinality(DOMAIN sessions_) <= max_sessions_

SessionInv == MapType /\ SocketType /\ FdInv /\ LiveInv /\ PlayInv /\ LimitInv

IInv == SessionInv /\ ThreadType /\ ThreadInv /\ AnswerInv


-----------------------------------------------------------------------------
\* The owner of a socket tells its session and its kind.
LEMMA OwnerFacts ==
  ASSUME NEW c, NEW d
  PROVE  /\ Tcp(c).who = c /\ Udp(c).who = c
         /\ Tcp(c).kind = "tcp" /\ Udp(c).kind = "udp"
         /\ Tcp(c) = Tcp(d) => c = d
         /\ Udp(c) = Udp(d) => c = d
         /\ Tcp(c) # Udp(d) /\ Tcp(c) # NoOwner /\ Udp(c) # NoOwner
<1>1. Tcp(c).who = c /\ Udp(c).who = c /\ Tcp(d).who = d /\ Udp(d).who = d
  BY DEF Tcp, Udp
<1>2. Tcp(c).kind = "tcp" /\ Udp(c).kind = "udp" /\ Udp(d).kind = "udp"
      /\ NoOwner.kind = "none"
  BY DEF Tcp, Udp, NoOwner
<1> QED
  BY <1>1, <1>2, Zenon

\* accept and socket find a number if there is one, and it was free.
LEMMA MinIsFree ==
  ASSUME FreeFds # {}
  PROVE  Min(FreeFds) \in Fd /\ owner[Min(FreeFds)] = NoOwner
<1>1. FreeFds \subseteq Nat
  BY ServerAssumption DEF FreeFds, Fd
<1>2. Min(FreeFds) \in FreeFds
  BY <1>1, MinIsLeast
<1> QED
  BY <1>2 DEF FreeFds

\* The statuses are numbers.
LEMMA ReplyCodeType ==
  ASSUME NEW r \in Request, NEW sdpSet \in BOOLEAN, NEW udpOk \in BOOLEAN
  PROVE  ReplyCode(r, sdpSet, udpOk) \in Int
  BY DEF ReplyCode

\* What a handler does to its session before its answer, ...
LEMMA BeforeReplyFacts ==
  ASSUME NEW s \in Sessions, NEW r \in Request, NEW code \in Int,
         NEW fd \in Fd \cup {NoFd}
  PROVE  LET t == BeforeReply(s, r, code, fd)
         IN /\ t \in Sessions
            /\ t.state = s.state /\ t.late = s.late
            /\ s.wasPlayed \/ r = "PLAY" => t.wasPlayed
            /\ t.udp_fd = IF r = "SETUP_UDP" /\ code = 200 THEN fd ELSE s.udp_fd
  BY DEF BeforeReply, Sessions

\* ... after it, ...
LEMMA AfterReplyFacts ==
  ASSUME NEW s \in Sessions, NEW r, NEW code
  PROVE  LET t == AfterReply(s, r, code)
         IN /\ t \in Sessions
            /\ t.wasPlayed = s.wasPlayed
            /\ t.late \in {0, s.late}
            /\ t.state = "kPlaying" => s.state = "kPlaying" \/ (r = "PLAY" /\ t.late = 0)
            /\ t.udp_fd = IF r = "TEARDOWN" THEN NoFd ELSE s.udp_fd
<1>1. NextState(s.state, r, code) \in State
  BY DEF NextState, State, Sessions
<1>2. NextState(s.state, r, code) = "kPlaying" => s.state = "kPlaying" \/ r = "PLAY"
  BY DEF NextState
<1> QED
  BY <1>1, <1>2 DEF AfterReply, Sessions

\* ... and what a packet does to it that is sent ...
LEMMA ForwardedFacts ==
  ASSUME NEW s \in Sessions
  PROVE  LET t == Forwarded(s)
         IN /\ t \in Sessions
            /\ t.state = s.state /\ t.wasPlayed = s.wasPlayed /\ t.udp_fd = s.udp_fd
            /\ t.late = IF s.state = "kPlaying" THEN s.late ELSE s.late + 1
<1>1. (IF s.state = "kPlaying" THEN s.late ELSE s.late + 1) \in Nat
  BY DEF Sessions
<1>2. 0 \in Nat
  OBVIOUS
<1> QED
  BY <1>1, <1>2, Zenon DEF Forwarded, Sessions

\* ... or refused.
LEMMA DroppedFacts ==
  ASSUME NEW s \in Sessions
  PROVE  LET t == Dropped(s)
         IN /\ t \in Sessions
            /\ t.state \in {s.state, "kTeardown"} /\ t.wasPlayed = s.wasPlayed
            /\ t.udp_fd = s.udp_fd /\ t.late = s.late
<1>1. s.drops + 1 \in Nat
  BY DEF Sessions
<1>2. (IF s.drops + 1 >= MaxDrops THEN "kTeardown" ELSE s.state)
        \in State \cap {s.state, "kTeardown"}
  BY DEF State, Sessions
<1> QED
  BY <1>1, <1>2, Zenon DEF Dropped, Sessions


\* There are finitely many fds.
LEMMA FdsFinite == IsFiniteSet(Fd)
  BY FS_Interval, ServerAssumption DEF Fd

\* Destroy keeps the sessions that are still referred to, with their sockets,
\* and takes the sockets of all others from them.
LEMMA DestroyFacts ==
  ASSUME SocketType, NEW map, NEW held, Destroy(map, held)
  PROVE  LET live == Range(map) \cup held
         IN /\ session' \in [Client -> Sessions] /\ owner' \in [Fd -> Owners]
            /\ \A c \in Client : c \in live => session'[c] = session[c]
            /\ \A c \in Client : c \notin live => session'[c] = NewSession
            /\ \A f \in Fd, c \in Client :
                 /\ owner'[f] = Tcp(c) <=> owner[f] = Tcp(c) /\ c \in live
                 /\ owner'[f] = Udp(c) <=> owner[f] = Udp(c) /\ c \in live
<1> DEFINE live == Range(map) \cup held
<1>1. /\ session' = [c \in Client |-> IF c \in live THEN session[c] ELSE NewSession]
      /\ owner' = [f \in Fd |-> IF owner[f].who \in live THEN owner[f] ELSE NoOwner]
  BY DEF Destroy
<1> HIDE DEF live
<1>2. NewSession \in Sessions
  BY ServerAssumption DEF NewSession, Sessions, State
<1>3. session' \in [Client -> Sessions]
  BY <1>1, <1>2 DEF SocketType
<1>4. owner' \in [Fd -> Owners]
  BY <1>1 DEF SocketType, Owners
<1>5. ASSUME NEW f \in Fd, NEW c \in Client
      PROVE  /\ owner'[f] = Tcp(c) <=> owner[f] = Tcp(c) /\ c \in live
             /\ owner'[f] = Udp(c) <=> owner[f] = Udp(c) /\ c \in live
  BY <1>1, OwnerFacts
<1> QED
  BY <1>1, <1>3, <1>4, <1>5 DEF live

\* An entry less in the map, or an entry more: which sessions are in it.
LEMMA RangeWithout ==
  ASSUME NEW fd
  PROVE  LET rest == Without(sessions_, fd)
         IN /\ DOMAIN rest = DOMAIN sessions_ \ {fd}
            /\ \A f \in DOMAIN rest : rest[f] = sessions_[f] /\ rest[f] \in Range(rest)
            /\ Range(rest) \subseteq Range(sessions_)
  BY DEF Without, Range

\* CloseConnection keeps the invariant, but for what it says of the threads.
LEMMA CloseStep ==
  ASSUME IInv, NEW fd \in DOMAIN sessions_, CloseConnection(fd), UNCHANGED stream
  PROVE  /\ SessionInv'
         /\ DOMAIN sessions_' = DOMAIN sessions_ \ {fd}
<1> DEFINE rest == Without(sessions_, fd)
           live == Range(rest) \cup stream.held
<1>1. /\ sessions_' = rest /\ interest' = Without(interest, fd)
      /\ Destroy(rest, stream.held)
      /\ link' = [link EXCEPT ![sessions_[fd]] = "gone"]
  BY DEF CloseConnection
<1>2. /\ DOMAIN rest = DOMAIN sessions_ \ {fd}
      /\ \A f \in DOMAIN rest : rest[f] = sessions_[f] /\ rest[f] \in live
      /\ live \subseteq Live
  BY RangeWithout DEF Live
<1>3. /\ session' \in [Client -> Sessions] /\ owner' \in [Fd -> Owners]
      /\ \A c \in Client : c \in live => session'[c] = session[c]
      /\ \A c \in Client : c \notin live => session'[c] = NewSession
      /\ \A f \in Fd, c \in Client :
           /\ owner'[f] = Tcp(c) <=> owner[f] = Tcp(c) /\ c \in live
           /\ owner'[f] = Udp(c) <=> owner[f] = Udp(c) /\ c \in live
  BY <1>1, DestroyFacts DEF IInv, SessionInv
<1>4. stream.held \subseteq live /\ Live' = live /\ stream' = stream
  BY <1>1 DEF Live
<1>5. MapType /\ SocketType /\ FdInv /\ LiveInv /\ PlayInv /\ LimitInv /\ ThreadType
      /\ ThreadInv
  BY DEF IInv, SessionInv
<1> HIDE DEF rest, live
<1>6. MapType'
  <2>1. sessions_' \in [DOMAIN sessions_ \ {fd} -> Client]
    BY <1>1, <1>5 DEF MapType, Without, rest
  <2>2. interest' \in [DOMAIN sessions_ \ {fd} -> {{"R"}, {"R", "W"}}]
    BY <1>1, <1>5 DEF MapType, Without
  <2> QED
    BY <1>5, <2>1, <2>2 DEF MapType
<1>7. SocketType'
  BY <1>1, <1>3, <1>5 DEF SocketType
<1>8. FdInv'
  <2>1. \A f \in DOMAIN sessions_' : owner'[f] = Tcp(sessions_'[f])
    BY <1>1, <1>2, <1>3, <1>5 DEF FdInv, MapType
  <2>2. \A f \in Fd, c \in Client : owner'[f] = Udp(c) <=> session'[c].udp_fd = f
    BY <1>3, <1>5 DEF FdInv, NewSession, NoFd, Fd
  <2>3. \A c \in stream'.held : \E f \in Fd : owner'[f] = Tcp(c)
    BY <1>3, <1>4, <1>5 DEF FdInv, ThreadType, Streams
  <2>4. \A f \in Fd, c \in Client : owner'[f] \in {Tcp(c), Udp(c)} => c \in Live'
    BY <1>3, <1>4
  <2> QED
    BY <1>3, <1>5, <2>1, <2>2, <2>3, <2>4 DEF FdInv
<1>9. LiveInv'
  BY <1>1, <1>2, <1>3, <1>4, <1>5 DEF LiveInv, SocketType
<1>10. PlayInv'
  <2>1. \A c \in Client : session'[c] \in {session[c], NewSession}
    BY <1>3
  <2>2. NewSession.state = "kInit" /\ NewSession.late = 0
    BY DEF NewSession
  <2>3. \A c \in stream.held : session'[c] = session[c]
    BY <1>3, <1>4, <1>5 DEF ThreadType, Streams
  <2> QED
    BY <1>4, <1>5, <2>1, <2>2, <2>3 DEF PlayInv, RtpWhilePlaying, ThreadInv
<1>11. LimitInv'
  <2>1. IsFiniteSet(DOMAIN sessions_)
    BY <1>5, FdsFinite, FS_Subset DEF MapType
  <2>2. Cardinality(DOMAIN sessions_') <= Cardinality(DOMAIN sessions_)
    BY <1>1, <1>2, <2>1, FS_Subset
  <2>3. Cardinality(DOMAIN sessions_) \in Nat /\ Cardinality(DOMAIN sessions_') \in Nat
    BY <1>1, <1>2, <2>1, FS_CardinalityType, FS_Subset
  <2> QED
    BY <1>5, <2>2, <2>3, ServerAssumption DEF LimitInv
<1> QED
  BY <1>1, <1>2, <1>6, <1>7, <1>8, <1>9, <1>10, <1>11 DEF SessionInv


-----------------------------------------------------------------------------
\* What is said of the sessions is kept by a step that leaves them alone.
LEMMA SessionsAlone ==
  ASSUME SessionInv, UNCHANGED <<sessions_, session, interest, owner, link, stream>>
  PROVE  SessionInv'
  BY DEF SessionInv, MapType, SocketType, FdInv, LiveInv, PlayInv, LimitInv, Live,
         RtpWhilePlaying

\* EpollLoop::Wait: only the batch changes.
LEMMA WaitStep == IInv /\ Wait => IInv'
<1> SUFFICES ASSUME IInv, Wait PROVE IInv'
  OBVIOUS
<1>1. UNCHANGED <<sessions_, session, interest, owner, link, main, stream>>
  BY DEF Wait, sessionVars, clientVars
<1>2. SessionInv'
  BY <1>1, SessionsAlone DEF IInv
<1>3. batch' \subseteq Events
  <2>1. PICK roomy \in SUBSET DOMAIN interest, other \in SUBSET ServerEvents :
          batch' = ClientEvents(roomy) \cup other
    BY DEF Wait
  <2>2. ServerEvents \subseteq Events
    BY ServerAssumption DEF ServerEvents, Events, Event, Listener, Timer
  <2>3. ASSUME NEW fd \in DOMAIN interest
        PROVE  Event(fd, sessions_[fd], EventsOf(fd, fd \in roomy)) \in Events
    <3>1. EventsOf(fd, fd \in roomy) \subseteq {"R", "W", "E"}
      BY DEF EventsOf, IInv, SessionInv, MapType
    <3>2. sessions_[fd] \in Client /\ fd \in Int
      BY ServerAssumption DEF IInv, SessionInv, MapType, Fd
    <3> QED
      BY <3>1, <3>2 DEF Events, Event
  <2>4. ClientEvents(roomy) \subseteq Events
    BY <2>3 DEF ClientEvents
  <2> QED
    BY <2>1, <2>2, <2>4
<1> QED
  BY <1>1, <1>2, <1>3 DEF IInv, ThreadType, ThreadInv, AnswerInv

\* accept finds a number that is free and a client without a session; over the
\* limit, or without a number, no session is made.
LEMMA OnNewConnectionStep ==
  ASSUME IInv, NEW e \in batch, OnNewConnection(e)
  PROVE  IInv'
<1>1. /\ batch' \subseteq batch /\ UNCHANGED <<session, main, stream>>
      /\ main.at = "wait"
  BY DEF OnNewConnection
<1>2. MapType /\ SocketType /\ FdInv /\ LiveInv /\ PlayInv /\ LimitInv /\ ThreadType
      /\ ThreadInv
  BY DEF IInv, SessionInv
<1>3. ThreadType' /\ ThreadInv' /\ AnswerInv'
  BY <1>1, <1>2 DEF ThreadType, ThreadInv, AnswerInv
<1>4. PlayInv'
  BY <1>1, <1>2 DEF PlayInv, RtpWhilePlaying
<1>5. CASE UNCHANGED <<sessions_, interest, owner, link>>
  BY <1>1, <1>3, <1>5, SessionsAlone DEF IInv
<1>6. CASE /\ UNCHANGED <<sessions_, interest, owner>>
           /\ \E c \in Pending : link' = [link EXCEPT ![c] = "refused"]
  <2>1. PICK c \in Pending : link' = [link EXCEPT ![c] = "refused"]
    BY <1>6
  <2>2. Live' = Live
    BY <1>1, <1>6 DEF Live
  <2>3. SocketType' /\ LiveInv'
    BY <1>1, <1>2, <1>6, <2>1, <2>2 DEF SocketType, LiveInv, Pending
  <2>4. MapType' /\ FdInv' /\ LimitInv'
    BY <1>1, <1>2, <1>6, <2>2 DEF MapType, FdInv, LimitInv
  <2> QED
    BY <1>3, <1>4, <2>3, <2>4 DEF IInv, SessionInv
<1>7. ASSUME FreeFds # {}, Cardinality(DOMAIN sessions_) < max_sessions_,
             NEW c \in Pending,
             link' = [link EXCEPT ![c] = "open"],
             interest' = With(interest, Min(FreeFds), {"R"}),
             sessions_' = With(sessions_, Min(FreeFds), c),
             owner' = [owner EXCEPT ![Min(FreeFds)] = Tcp(c)]
      PROVE  IInv'
  <2>1. PICK fd \in Fd : fd = Min(FreeFds) /\ owner[fd] = NoOwner
    BY <1>7, MinIsFree
  <2>2. fd \notin DOMAIN sessions_
    BY <1>2, <2>1, OwnerFacts DEF FdInv
  <2>3. c \in Client /\ c \notin Live
    BY <1>2 DEF LiveInv, Pending
  <2>4. /\ DOMAIN sessions_' = DOMAIN sessions_ \cup {fd}
        /\ \A f \in DOMAIN sessions_ : sessions_'[f] = sessions_[f]
        /\ sessions_'[fd] = c
    BY <1>7, <2>1, <2>2 DEF With
  <2>5. Live' = Live \cup {c}
    BY <1>1, <2>2, <2>4 DEF Live, Range
  <2>6. /\ owner'[fd] = Tcp(c)
        /\ \A f \in Fd : f # fd => owner'[f] = owner[f]
    BY <1>2, <1>7, <2>1 DEF SocketType
  <2>7. MapType'
    <3>1. sessions_' \in [DOMAIN sessions_ \cup {fd} -> Client]
      BY <1>2, <1>7, <2>1, <2>3 DEF With, MapType
    <3>2. interest' \in [DOMAIN sessions_ \cup {fd} -> {{"R"}, {"R", "W"}}]
      BY <1>2, <1>7, <2>1 DEF With, MapType
    <3> QED
      BY <1>2, <3>1, <3>2 DEF MapType
  <2>8. SocketType'
    BY <1>1, <1>2, <1>7, <2>1, <2>3 DEF SocketType, Owners
  <2>9. FdInv'
    <3>1. \A f \in Fd, d \in Client : owner'[f] = Udp(d) <=> owner[f] = Udp(d)
      BY <2>1, <2>6, OwnerFacts
    <3>2. \A f \in Fd, d \in Client :
            owner'[f] = Tcp(d) <=> (owner[f] = Tcp(d) \/ (f = fd /\ d = c))
      BY <2>1, <2>6, OwnerFacts
    <3>3. \A f \in Fd : owner[f] # Tcp(c)
      BY <1>2, <2>3 DEF FdInv
    <3>4. \A f \in DOMAIN sessions_' : owner'[f] = Tcp(sessions_'[f])
      BY <1>2, <2>2, <2>4, <2>6 DEF FdInv, MapType
    <3>5. \A d \in stream'.held : d \in Client
      BY <1>1, <1>2 DEF ThreadType, Streams
    <3> QED
      BY <1>1, <1>2, <2>3, <2>5, <3>1, <3>2, <3>3, <3>4, <3>5 DEF FdInv
  <2>10. LiveInv'
    BY <1>1, <1>2, <1>7, <2>3, <2>5 DEF LiveInv, SocketType
  <2>11. LimitInv'
    <3>1. IsFiniteSet(DOMAIN sessions_)
      BY <1>2, FdsFinite, FS_Subset DEF MapType
    <3>2. Cardinality(DOMAIN sessions_') = Cardinality(DOMAIN sessions_) + 1
      BY <2>2, <2>4, <3>1, FS_AddElement
    <3>3. Cardinality(DOMAIN sessions_) \in Nat
      BY <3>1, FS_CardinalityType
    <3> QED
      BY <1>7, <3>2, <3>3, ServerAssumption DEF LimitInv
  <2> QED
    BY <1>3, <1>4, <2>7, <2>8, <2>9, <2>10, <2>11 DEF IInv, SessionInv
<1> QED
  BY <1>5, <1>6, <1>7 DEF OnNewConnection

\* The timer callback collects fds that are in the map.
LEMMA CheckTimeoutsStep ==
  ASSUME IInv, NEW e \in batch, CheckTimeouts(e)
  PROVE  IInv'
<1>1. /\ UNCHANGED <<sessions_, session, interest, owner, link, stream>>
      /\ batch' \subseteq batch
  BY DEF CheckTimeouts, sessionVars, clientVars
<1>2. SessionInv'
  BY <1>1, SessionsAlone DEF IInv
<1>3. main' = main \/ \E todo \in SUBSET DOMAIN sessions_ :
                        main' = [main EXCEPT !.at = "reap", !.todo = todo]
  <2> DEFINE marked == {f \in DOMAIN sessions_ :
                          session[sessions_[f]].state = "kTeardown"}
             mayBeIdle == {f \in DOMAIN sessions_ \ marked :
                             TimeoutOf(session[sessions_[f]],
                               connection_timeout_sec_, session_timeout_sec_) > 0}
  <2>1. PICK idle \in SUBSET mayBeIdle :
          main' = IF connection_timeout_sec_ = 0 /\ session_timeout_sec_ = 0
                  THEN main
                  ELSE [main EXCEPT !.at = "reap", !.todo = marked \cup idle]
    BY Zenon DEF CheckTimeouts
  <2>2. marked \cup idle \in SUBSET DOMAIN sessions_
    OBVIOUS
  <2> QED
    BY <2>1, <2>2, Zenon
<1>4. ThreadType' /\ ThreadInv' /\ AnswerInv'
  <2>1. DOMAIN sessions_ \subseteq Fd
    BY DEF IInv, SessionInv, MapType
  <2> QED
    BY <1>1, <1>3, <2>1 DEF IInv, ThreadType, ThreadInv, AnswerInv, Mains
<1> QED
  BY <1>2, <1>4 DEF IInv

\* The look-up in callbacks_ finds an fd that is in the map too.
LEMMA DispatchStep ==
  ASSUME IInv, NEW e \in batch, Dispatch(e)
  PROVE  IInv'
<1>1. /\ UNCHANGED <<sessions_, session, interest, owner, link, stream>>
      /\ batch' \subseteq batch
  BY DEF Dispatch, sessionVars, clientVars
<1>2. SessionInv'
  BY <1>1, SessionsAlone DEF IInv
<1>3. e \in Events /\ DOMAIN interest = DOMAIN sessions_ /\ main \in Mains
      /\ main.at = "wait"
  BY DEF IInv, ThreadType, SessionInv, MapType, Dispatch
<1>4. CASE main' = main
  BY <1>1, <1>2, <1>4 DEF IInv, ThreadType, ThreadInv, AnswerInv
<1>5. CASE /\ e.fd \in DOMAIN sessions_
           /\ main' = [main EXCEPT !.at = "client", !.fd = e.fd, !.of = e.of,
                                   !.events = e.events]
  <2>1. main'.at = "client" /\ main'.fd = e.fd
    BY <1>3, <1>5, Zenon DEF Mains
  <2>2. main' \in Mains
    BY <1>3, <1>5, Zenon DEF Mains, Events
  <2> QED
    BY <1>1, <1>2, <1>5, <2>1, <2>2 DEF IInv, ThreadType, ThreadInv, AnswerInv
<1> QED
  BY <1>3, <1>4, <1>5 DEF Dispatch

\* After a handler the epoll thread goes on with the same fd, or is through.
LEMMA DoneFacts ==
  ASSUME main \in Mains, NEW ev, NEW closed \in BOOLEAN, Done(ev, closed)
  PROVE  /\ main' \in Mains
         /\ \/ main'.at = "wait"
            \/ ~closed /\ main'.at = "client" /\ main'.fd = main.fd
<1>1. Idle \in Mains /\ Idle.at = "wait"
  BY DEF Idle, Mains, NoFd
<1>2. CASE main' = Idle
  BY <1>1, <1>2
<1>3. CASE /\ ~closed
           /\ main' = [main EXCEPT !.at = "client", !.events = @ \ {ev},
                                   !.request = "none", !.code = 0]
  <2>1. main.events \ {ev} \in SUBSET {"R", "W", "E"} /\ 0 \in Int
        /\ "client" \in {"wait", "client", "reply", "reap"}
        /\ "none" \in Request \cup {"none"}
    BY DEF Mains
  <2> QED
    BY <1>3, <2>1, Zenon DEF Mains
<1> QED
  BY <1>2, <1>3 DEF Done

\* A handler that closes its connection.
LEMMA CloseDoneStep ==
  ASSUME IInv, NEW ev, Handling(ev), CloseConnection(main.fd), Done(ev, TRUE),
         UNCHANGED <<batch, stream>>
  PROVE  IInv'
<1>1. main.fd \in DOMAIN sessions_ /\ main \in Mains
  BY DEF IInv, ThreadInv, ThreadType, Handling
<1>2. SessionInv'
  BY <1>1, CloseStep
<1>3. main' \in Mains /\ main'.at = "wait"
  BY <1>1, DoneFacts
<1> QED
  BY <1>2, <1>3 DEF IInv, ThreadType, ThreadInv, AnswerInv

\* The collected fds are in the map until their turn comes.
LEMMA ReapStep == IInv /\ Reap => IInv'
<1> SUFFICES ASSUME IInv, Reap PROVE IInv'
  OBVIOUS
<1>1. main.at = "reap" /\ UNCHANGED <<batch, stream>> /\ main \in Mains
  BY DEF Reap, IInv, ThreadType
<1>2. CASE main' = Idle /\ UNCHANGED <<sessionVars, clientVars>>
  <2>1. Idle \in Mains /\ Idle.at = "wait"
    BY DEF Idle, Mains, NoFd
  <2>2. SessionInv'
    BY <1>1, <1>2, SessionsAlone DEF IInv, sessionVars, clientVars
  <2> QED
    BY <1>1, <1>2, <2>1, <2>2 DEF IInv, ThreadType, ThreadInv, AnswerInv
<1>3. ASSUME NEW fd \in main.todo, main' = [main EXCEPT !.todo = @ \ {fd}],
             CloseConnection(fd)
      PROVE  IInv'
  <2>1. main.todo \subseteq DOMAIN sessions_
    BY <1>1 DEF IInv, ThreadInv
  <2>2. SessionInv' /\ DOMAIN sessions_' = DOMAIN sessions_ \ {fd}
    BY <1>1, <1>3, <2>1, CloseStep
  <2>3. main' \in Mains /\ main'.at = "reap" /\ main'.todo = main.todo \ {fd}
    BY <1>1, <1>3 DEF Mains
  <2> QED
    BY <1>1, <2>1, <2>2, <2>3 DEF IInv, ThreadType, ThreadInv, AnswerInv
<1> QED
  BY <1>2, <1>3 DEF Reap

\* The client is gone.
LEMMA OnReadGoneStep == IInv /\ OnReadGone => IInv'
  BY CloseDoneStep DEF OnReadGone

\* The connection is reset.
LEMMA OnErrorStep == IInv /\ OnError => IInv'
  BY CloseDoneStep DEF OnError

\* ModifyFd changes what is asked for and no more.
LEMMA ModifiedStep ==
  ASSUME SessionInv, NEW fd, NEW events \in {{"R"}, {"R", "W"}},
         interest' \in {interest, Modified(fd, events)}, UNCHANGED sessions_
  PROVE  MapType'
  BY DEF SessionInv, MapType, Modified

\* Flush, or a close if it fails.
LEMMA OnWriteStep == IInv /\ OnWrite => IInv'
<1> SUFFICES ASSUME IInv, OnWrite PROVE IInv'
  OBVIOUS
<1>1. Handling("W") /\ UNCHANGED <<batch, stream>>
  BY DEF OnWrite
<1>2. CASE CloseConnection(main.fd) /\ Done("W", TRUE)
  BY <1>1, <1>2, CloseDoneStep
<1>3. CASE /\ interest' \in {interest, Modified(main.fd, {"R"})}
           /\ Done("W", FALSE)
           /\ UNCHANGED <<sessions_, session, owner, link, inbox>>
  <2>1. main' \in Mains /\ main'.at \in {"wait", "client"}
        /\ (main'.at = "client" => main'.fd = main.fd)
    BY <1>3, DoneFacts DEF IInv, ThreadType
  <2>2. MapType'
    BY <1>3, ModifiedStep DEF IInv
  <2>3. SocketType' /\ FdInv' /\ LiveInv' /\ PlayInv' /\ LimitInv'
    BY <1>1, <1>3 DEF IInv, SessionInv, SocketType, FdInv, LiveInv, PlayInv, LimitInv,
                      Live, RtpWhilePlaying
  <2>4. main.fd \in DOMAIN sessions_
    BY <1>1 DEF IInv, ThreadInv, Handling
  <2> QED
    BY <1>1, <1>3, <2>1, <2>2, <2>3, <2>4
       DEF IInv, SessionInv, ThreadType, ThreadInv, AnswerInv
<1> QED
  BY <1>2, <1>3 DEF OnWrite

\* A request up to its answer: a UDP SETUP trades one socket for another.
LEMMA OnReadRequestStep == IInv /\ OnReadRequest => IInv'
<1> SUFFICES ASSUME IInv, OnReadRequest PROVE IInv'
  OBVIOUS
<1> DEFINE c == sessions_[main.fd]
           s == session[c]
<1>1. /\ main.at = "client" /\ main.fd \in DOMAIN sessions_
      /\ UNCHANGED <<sessions_, interest, link, batch, stream>>
  BY DEF OnReadRequest, Handling, IInv, ThreadInv
<1>2. MapType /\ SocketType /\ FdInv /\ LiveInv /\ PlayInv /\ LimitInv /\ ThreadType
      /\ ThreadInv
  BY DEF IInv, SessionInv
<1>3. c \in Client /\ c \in Live /\ s \in Sessions
  BY <1>1, <1>2 DEF MapType, SocketType, Live, Range
<1>4. PICK r \in Requests, sdpSet \in BOOLEAN :
        LET code == ReplyCode(r, sdpSet, FreeFds # {})
            newUdp == r = "SETUP_UDP" /\ code = 200
            fd == IF newUdp THEN Min(FreeFds) ELSE NoFd
        IN /\ session' = [session EXCEPT ![c] = BeforeReply(s, r, code, fd)]
           /\ owner' = IF newUdp
                       THEN [f \in Fd |-> IF f = fd THEN Udp(c)
                                          ELSE IF f = s.udp_fd THEN NoOwner
                                          ELSE owner[f]]
                       ELSE owner
           /\ main' = [main EXCEPT !.at = "reply", !.request = r, !.code = code]
  BY Zenon DEF OnReadRequest
<1> DEFINE code == ReplyCode(r, sdpSet, FreeFds # {})
           newUdp == r = "SETUP_UDP" /\ code = 200
           fd == IF newUdp THEN Min(FreeFds) ELSE NoFd
           t == BeforeReply(s, r, code, fd)
<1>5. r \in Request /\ code \in Int
  BY ServerAssumption, ReplyCodeType
<1>6. newUdp => fd \in Fd /\ owner[fd] = NoOwner
  BY MinIsFree DEF ReplyCode
<1>7. fd \in Fd \cup {NoFd}
  BY <1>6
<1>8. /\ t \in Sessions /\ t.state = s.state /\ t.late = s.late
      /\ s.wasPlayed \/ r = "PLAY" => t.wasPlayed
      /\ t.udp_fd = IF newUdp THEN fd ELSE s.udp_fd
  BY <1>3, <1>5, <1>7, BeforeReplyFacts
<1>9. /\ session' = [session EXCEPT ![c] = t]
      /\ main' = [main EXCEPT !.at = "reply", !.request = r, !.code = code]
      /\ newUdp => owner' = [f \in Fd |-> IF f = fd THEN Udp(c)
                                          ELSE IF f = s.udp_fd THEN NoOwner
                                          ELSE owner[f]]
      /\ ~newUdp => owner' = owner
  BY <1>4
<1> HIDE DEF c, s, code, newUdp, fd, t
<1>10. session'[c] = t /\ \A d \in Client : d # c => session'[d] = session[d]
  BY <1>2, <1>3, <1>9 DEF SocketType
<1>11. main' \in Mains /\ main'.at = "reply" /\ main'.fd = main.fd
       /\ main'.request = r
  BY <1>2, <1>5, <1>9, Zenon DEF ThreadType, Mains
<1>12. Live' = Live
  BY <1>1 DEF Live
<1>13. MapType' /\ LimitInv'
  BY <1>1, <1>2 DEF MapType, LimitInv
<1>14. SocketType'
  BY <1>1, <1>2, <1>3, <1>8, <1>9 DEF SocketType, Owners
<1>15. FdInv'
  <2>1. CASE ~newUdp
    <3>1. owner' = owner /\ \A d \in Client : session'[d].udp_fd = session[d].udp_fd
      BY <1>8, <1>9, <1>10, <2>1 DEF s
    <3> QED
      BY <1>1, <1>2, <1>12, <3>1 DEF FdInv
  <2>2. CASE newUdp
    <3>1. fd \in Fd /\ owner[fd] = NoOwner /\ t.udp_fd = fd
      BY <1>6, <1>8, <2>2
    <3>2. s.udp_fd \in Fd => owner[s.udp_fd] = Udp(c)
      BY <1>2, <1>3 DEF FdInv, s
    <3>3. \A f \in Fd, d \in Client : owner'[f] = Tcp(d) <=> owner[f] = Tcp(d)
      BY <1>9, <2>2, <3>1, <3>2, OwnerFacts
    <3>4. \A f \in Fd, d \in Client : owner'[f] = Udp(d) <=>
            \/ f = fd /\ d = c
            \/ d # c /\ owner[f] = Udp(d)
      <4>1. \A f \in Fd : owner[f] = Udp(c) => f = s.udp_fd
        BY <1>2, <1>3 DEF FdInv, s
      <4> QED
        BY <1>3, <1>9, <2>2, <3>1, <3>2, <4>1, OwnerFacts
    <3>5. \A f \in Fd, d \in Client : owner'[f] = Udp(d) <=> session'[d].udp_fd = f
      BY <1>2, <1>3, <1>10, <3>1, <3>4 DEF FdInv
    <3>6. \A f \in DOMAIN sessions_' : owner'[f] = Tcp(sessions_'[f])
      BY <1>1, <1>2, <3>3 DEF FdInv, MapType
    <3>7. \A d \in stream'.held : \E f \in Fd : owner'[f] = Tcp(d)
      BY <1>1, <1>2, <3>3 DEF FdInv, ThreadType, Streams
    <3>8. \A f \in Fd, d \in Client : owner'[f] \in {Tcp(d), Udp(d)} => d \in Live'
      BY <1>2, <1>3, <1>12, <3>3, <3>4 DEF FdInv
    <3> QED
      BY <1>2, <3>3, <3>5, <3>6, <3>7, <3>8 DEF FdInv
  <2> QED
    BY <2>1, <2>2
<1>16. LiveInv'
  BY <1>1, <1>2, <1>3, <1>10, <1>12 DEF LiveInv
<1>17. PlayInv'
  <2>1. \A d \in Client : /\ session'[d].state = session[d].state
                          /\ session'[d].late = session[d].late
                          /\ session[d].wasPlayed => session'[d].wasPlayed
    BY <1>8, <1>10 DEF s
  <2>2. stream' = stream /\ stream.todo \subseteq Client /\ stream.held \subseteq Client
        /\ (stream.at = "sendto" => stream.who \in Client)
    BY <1>1, <1>2 DEF ThreadType, ThreadInv, Streams
  <2> QED
    BY <1>2, <2>1, <2>2 DEF PlayInv, RtpWhilePlaying
<1>18. ThreadType' /\ ThreadInv'
  BY <1>1, <1>2, <1>11 DEF ThreadType, ThreadInv
<1>19. AnswerInv'
  BY <1>1, <1>8, <1>10, <1>11 DEF AnswerInv, c
<1> QED
  BY <1>13, <1>14, <1>15, <1>16, <1>17, <1>18, <1>19 DEF IInv, SessionInv

\* The rest of the request: TEARDOWN gives the socket back, PLAY makes it play.
LEMMA AfterRequestStep == IInv /\ AfterRequest => IInv'
<1> SUFFICES ASSUME IInv, AfterRequest PROVE IInv'
  OBVIOUS
<1> DEFINE c == sessions_[main.fd]
           s == session[c]
           t == AfterReply(s, main.request, main.code)
<1>1. /\ main.at = "reply" /\ main.fd \in DOMAIN sessions_
      /\ UNCHANGED <<sessions_, link, batch, stream>>
      /\ Done("R", FALSE)
      /\ interest' \in {interest, Modified(main.fd, {"R", "W"})}
  BY DEF AfterRequest, clientVars, IInv, ThreadInv
<1>2. MapType /\ SocketType /\ FdInv /\ LiveInv /\ PlayInv /\ LimitInv /\ ThreadType
      /\ ThreadInv /\ AnswerInv
  BY DEF IInv, SessionInv
<1>3. c \in Client /\ c \in Live /\ s \in Sessions
  BY <1>1, <1>2 DEF MapType, SocketType, Live, Range
<1>4. /\ session' = [session EXCEPT ![c] = t]
      /\ owner' = [f \in Fd |-> IF owner[f] = Udp(c) /\ t.udp_fd = NoFd
                                THEN NoOwner ELSE owner[f]]
  BY DEF AfterRequest
<1>5. /\ t \in Sessions /\ t.wasPlayed = s.wasPlayed /\ t.late \in {0, s.late}
      /\ t.state = "kPlaying" =>
           s.state = "kPlaying" \/ (main.request = "PLAY" /\ t.late = 0)
      /\ t.udp_fd = s.udp_fd \/ t.udp_fd = NoFd
  BY <1>3, AfterReplyFacts
<1> HIDE DEF c, s, t
<1>6. session'[c] = t /\ \A d \in Client : d # c => session'[d] = session[d]
  BY <1>2, <1>3, <1>4 DEF SocketType
<1>7. /\ main' \in Mains /\ main'.at \in {"wait", "client"}
      /\ main'.at = "client" => main'.fd = main.fd
  BY <1>1, <1>2, DoneFacts DEF ThreadType
<1>8. Live' = Live
  BY <1>1 DEF Live
<1>9. MapType' /\ LimitInv'
  <2>1. MapType'
    BY <1>1, ModifiedStep DEF IInv
  <2> QED
    BY <1>1, <1>2, <2>1 DEF LimitInv
<1>10. SocketType'
  BY <1>1, <1>2, <1>3, <1>4, <1>5 DEF SocketType, Owners
<1>11. FdInv'
  <2>1. \A f \in Fd, d \in Client : owner'[f] = Tcp(d) <=> owner[f] = Tcp(d)
    BY <1>4, OwnerFacts
  <2>2. \A f \in Fd, d \in Client :
          owner'[f] = Udp(d) <=> owner[f] = Udp(d) /\ ~(d = c /\ t.udp_fd = NoFd)
    BY <1>4, OwnerFacts
  <2>3. \A f \in Fd, d \in Client : owner'[f] = Udp(d) <=> session'[d].udp_fd = f
    <3>1. NoFd \notin Fd
      BY ServerAssumption DEF NoFd, Fd
    <3> QED
      BY <1>2, <1>3, <1>5, <1>6, <2>2, <3>1 DEF FdInv, s
  <2>4. \A f \in DOMAIN sessions_' : owner'[f] = Tcp(sessions_'[f])
    BY <1>1, <1>2, <2>1 DEF FdInv, MapType
  <2>5. \A d \in stream'.held : \E f \in Fd : owner'[f] = Tcp(d)
    BY <1>1, <1>2, <2>1 DEF FdInv, ThreadType, Streams
  <2> QED
    BY <1>2, <1>8, <2>1, <2>2, <2>3, <2>4, <2>5 DEF FdInv
<1>12. LiveInv'
  BY <1>1, <1>2, <1>3, <1>6, <1>8 DEF LiveInv
<1>13. PlayInv'
  <2>1. t.state = "kPlaying" => t.wasPlayed /\ t.late = 0
    BY <1>1, <1>2, <1>3, <1>5 DEF PlayInv, AnswerInv, c, s
  <2>2. \A d \in Client : /\ session'[d].late \in {0, session[d].late}
                          /\ session'[d].wasPlayed = session[d].wasPlayed
    BY <1>5, <1>6 DEF s
  <2>3. stream' = stream /\ stream.todo \subseteq Client /\ stream.held \subseteq Client
        /\ (stream.at = "sendto" => stream.who \in Client)
    BY <1>1, <1>2 DEF ThreadType, ThreadInv, Streams
  <2>4. \A d \in Client : session'[d].state = "kPlaying"
                             => session'[d].wasPlayed /\ session'[d].late = 0
    BY <1>2, <1>6, <2>1 DEF PlayInv
  <2> QED
    BY <1>2, <2>2, <2>3, <2>4 DEF PlayInv, RtpWhilePlaying
<1>14. ThreadType' /\ ThreadInv' /\ AnswerInv'
  BY <1>1, <1>2, <1>7 DEF ThreadType, ThreadInv, AnswerInv
<1> QED
  BY <1>9, <1>10, <1>11, <1>12, <1>13, <1>14 DEF IInv, SessionInv

-----------------------------------------------------------------------------
\* The snapshot takes sessions that are in the map and play.
LEMMA BroadcastStep == IInv /\ Broadcast => IInv'
<1> SUFFICES ASSUME IInv, Broadcast PROVE IInv'
  OBVIOUS
<1> DEFINE playing == {c \in Range(sessions_) : session[c].state = "kPlaying"}
<1>1. /\ stream' = [stream EXCEPT !.at = "next", !.held = playing, !.todo = playing]
      /\ UNCHANGED <<sessions_, session, interest, owner, link, batch, main>>
  BY DEF Broadcast, sessionVars, clientVars
<1>2. MapType /\ SocketType /\ FdInv /\ LiveInv /\ PlayInv /\ LimitInv /\ ThreadType
      /\ ThreadInv /\ AnswerInv /\ stream.at = "idle"
  BY DEF IInv, SessionInv, Broadcast
<1>3. playing \subseteq Client /\ playing \subseteq Range(sessions_)
  BY <1>2 DEF MapType, Range
<1>4. \A c \in playing : session[c].wasPlayed /\ session[c].late = 0
  BY <1>2, <1>3 DEF PlayInv
<1>5. \A c \in playing : \E f \in Fd : owner[f] = Tcp(c)
  BY <1>2 DEF FdInv, MapType, Range
<1> HIDE DEF playing
<1>6. stream' \in Streams /\ stream'.at = "next" /\ stream'.held = playing
      /\ stream'.todo = playing
  BY <1>1, <1>2, <1>3, Zenon DEF ThreadType, Streams
<1>7. Live' = Live
  BY <1>1, <1>2, <1>3, <1>6 DEF Live, ThreadInv
<1>8. MapType' /\ SocketType' /\ LiveInv' /\ LimitInv'
  BY <1>1, <1>2, <1>7 DEF MapType, SocketType, LiveInv, LimitInv
<1>9. FdInv'
  BY <1>1, <1>2, <1>5, <1>6, <1>7 DEF FdInv
<1>10. PlayInv'
  BY <1>1, <1>2, <1>4, <1>6 DEF PlayInv, RtpWhilePlaying
<1>11. ThreadType' /\ ThreadInv' /\ AnswerInv'
  BY <1>1, <1>2, <1>6 DEF ThreadType, ThreadInv, AnswerInv
<1> QED
  BY <1>8, <1>9, <1>10, <1>11 DEF IInv, SessionInv

\* One packet to one session: neither its sockets nor what its client did
\* change, and it is late only if the session has stopped playing.
LEMMA PacketStep ==
  ASSUME IInv, NEW c \in stream.held, session[c].late = 0,
         session' = [session EXCEPT ![c] = Forwarded(session[c])]
           \/ session' = [session EXCEPT ![c] = Dropped(session[c])],
         UNCHANGED <<sessions_, interest, owner, link, batch, main>>,
         stream' \in Streams, stream'.held = stream.held,
         stream'.todo \subseteq stream.todo, c \notin stream'.todo,
         stream'.at \in {"next", "arm"},
         stream'.at = "arm" => stream'.who = c
  PROVE  IInv'
<1>1. MapType /\ SocketType /\ FdInv /\ LiveInv /\ PlayInv /\ LimitInv /\ ThreadType
      /\ ThreadInv /\ AnswerInv
  BY DEF IInv, SessionInv
<1>2. c \in Client /\ session[c] \in Sessions /\ c \in Live
  BY <1>1 DEF ThreadType, Streams, SocketType, Live
<1>3. PICK t : session' = [session EXCEPT ![c] = t]
               /\ (t = Forwarded(session[c]) \/ t = Dropped(session[c]))
  OBVIOUS
<1>4. /\ t \in Sessions
      /\ t.udp_fd = session[c].udp_fd /\ t.wasPlayed = session[c].wasPlayed
      /\ t.state = "kPlaying" => session[c].state = "kPlaying" /\ t.late = 0
      /\ t.late <= 1
  BY <1>2, <1>3, ForwardedFacts, DroppedFacts
<1>5. session'[c] = t /\ \A d \in Client : d # c => session'[d] = session[d]
  BY <1>1, <1>2, <1>3 DEF SocketType
<1>6. Live' = Live
  BY DEF Live
<1>7. MapType' /\ LimitInv'
  BY <1>1 DEF MapType, LimitInv
<1>8. SocketType'
  BY <1>1, <1>2, <1>3, <1>4 DEF SocketType
<1>9. FdInv'
  <2>1. \A d \in Client : session'[d].udp_fd = session[d].udp_fd
    BY <1>4, <1>5
  <2> QED
    BY <1>1, <1>6, <2>1 DEF FdInv
<1>10. LiveInv'
  BY <1>1, <1>2, <1>5, <1>6 DEF LiveInv
<1>11. PlayInv'
  <2>1. stream.todo \subseteq Client /\ stream.held \subseteq Client
    BY <1>1 DEF ThreadType, Streams
  <2>2. \A d \in Client : session'[d].wasPlayed = session[d].wasPlayed
                          /\ session'[d].late <= 1
    BY <1>1, <1>4, <1>5 DEF PlayInv, RtpWhilePlaying
  <2>3. \A d \in stream'.todo : session'[d].late = 0
    BY <1>1, <1>5, <2>1 DEF PlayInv
  <2>4. \A d \in Client : session'[d].state = "kPlaying"
                             => session'[d].wasPlayed /\ session'[d].late = 0
    BY <1>1, <1>4, <1>5 DEF PlayInv
  <2> QED
    BY <1>1, <2>1, <2>2, <2>3, <2>4 DEF PlayInv, RtpWhilePlaying
<1>12. ThreadType' /\ ThreadInv'
  BY <1>1 DEF ThreadType, ThreadInv
<1>13. AnswerInv'
  <2>1. main.at = "reply" => sessions_[main.fd] \in Client
    BY <1>1 DEF ThreadInv, MapType
  <2> QED
    BY <1>1, <1>4, <1>5, <2>1 DEF AnswerInv
<1> QED
  BY <1>7, <1>8, <1>9, <1>10, <1>11, <1>12, <1>13 DEF IInv, SessionInv

\* A packet over TCP.
LEMMA ForwardTcpStep == IInv /\ ForwardTcp => IInv'
<1> SUFFICES ASSUME IInv, ForwardTcp PROVE IInv'
  OBVIOUS
<1>1. /\ stream.at = "next" /\ stream \in Streams
      /\ UNCHANGED <<sessions_, interest, owner, link, batch, main>>
  BY DEF ForwardTcp, clientVars, IInv, ThreadType
<1>2. PICK c \in stream.todo :
        \/ /\ session' = [session EXCEPT ![c] = Forwarded(session[c])]
           /\ \E next \in {"next", "arm"} :
                stream' = [stream EXCEPT !.todo = @ \ {c}, !.at = next,
                               !.who = IF next = "arm" THEN c ELSE "none"]
        \/ /\ session' = [session EXCEPT ![c] = Dropped(session[c])]
           /\ stream' = [stream EXCEPT !.todo = @ \ {c}]
  BY Zenon DEF ForwardTcp
<1>3. c \in stream.held /\ session[c].late = 0 /\ c \in Client
  BY <1>1 DEF IInv, ThreadInv, SessionInv, PlayInv, Streams
<1>4. stream.todo \ {c} \in SUBSET Client
  BY <1>1 DEF Streams
<1>5. /\ stream' \in Streams /\ stream'.held = stream.held
      /\ stream'.todo = stream.todo \ {c}
      /\ stream'.at \in {"next", "arm"}
      /\ stream'.at = "arm" => stream'.who = c
  <2>1. CASE stream' = [stream EXCEPT !.todo = @ \ {c}]
    BY <1>1, <1>4, <2>1, Zenon DEF Streams
  <2>2. ASSUME NEW next \in {"next", "arm"},
               stream' = [stream EXCEPT !.todo = @ \ {c}, !.at = next,
                               !.who = IF next = "arm" THEN c ELSE "none"]
        PROVE  /\ stream' \in Streams /\ stream'.held = stream.held
               /\ stream'.todo = stream.todo \ {c}
               /\ stream'.at \in {"next", "arm"}
               /\ stream'.at = "arm" => stream'.who = c
    <3>1. (IF next = "arm" THEN c ELSE "none") \in Client \cup {"none"}
      BY <1>3
    <3>2. next \in {"idle", "next", "arm", "sendto"}
      BY <2>2
    <3> QED
      BY <1>1, <1>4, <2>2, <3>1, <3>2, Zenon DEF Streams
  <2> QED
    BY <1>2, <2>1, <2>2
<1> QED
  BY <1>1, <1>2, <1>3, <1>5, PacketStep

\* EPOLLOUT is asked for, for a session in the snapshot.
LEMMA ArmWriteStep == IInv /\ ArmWrite => IInv'
<1> SUFFICES ASSUME IInv, ArmWrite PROVE IInv'
  OBVIOUS
<1>1. /\ UNCHANGED <<sessions_, session, owner, link, batch, main>>
      /\ interest' = Modified(FdOf(stream.who), {"R", "W"})
      /\ stream' = [stream EXCEPT !.at = "next", !.who = "none"]
      /\ stream \in Streams
  BY DEF ArmWrite, clientVars, IInv, ThreadType
<1>2. stream' \in Streams /\ stream'.at = "next" /\ stream'.held = stream.held
      /\ stream'.todo = stream.todo
  BY <1>1, Zenon DEF Streams
<1>3. MapType'
  BY <1>1, ModifiedStep DEF IInv
<1>4. SocketType' /\ FdInv' /\ LiveInv' /\ PlayInv' /\ LimitInv'
  BY <1>1, <1>2 DEF IInv, SessionInv, SocketType, FdInv, LiveInv, PlayInv, LimitInv,
                    Live, RtpWhilePlaying
<1> QED
  BY <1>1, <1>2, <1>3, <1>4
     DEF IInv, SessionInv, ThreadType, ThreadInv, AnswerInv

\* A packet over UDP: the number of the socket is read ...
LEMMA ForwardUdpStep == IInv /\ ForwardUdp => IInv'
<1> SUFFICES ASSUME IInv, ForwardUdp PROVE IInv'
  OBVIOUS
<1>1. /\ stream \in Streams
      /\ UNCHANGED <<sessions_, session, interest, owner, link, batch, main>>
  BY DEF ForwardUdp, clientVars, IInv, ThreadType
<1>2. PICK c \in stream.todo :
        stream' = [stream EXCEPT !.todo = @ \ {c}, !.at = "sendto",
                                 !.who = c, !.fd = session[c].udp_fd]
  BY DEF ForwardUdp
<1>3. c \in Client /\ c \in stream.held /\ session[c].late = 0
      /\ session[c].udp_fd \in Fd \cup {NoFd}
  BY <1>1 DEF IInv, ThreadInv, SessionInv, PlayInv, Streams, SocketType, Sessions
<1>4. stream.todo \ {c} \in SUBSET Client
  BY <1>1 DEF Streams
<1>5. /\ stream' \in Streams /\ stream'.at = "sendto" /\ stream'.held = stream.held
      /\ stream'.todo = stream.todo \ {c} /\ stream'.who = c
  BY <1>1, <1>2, <1>3, <1>4, Zenon DEF Streams
<1>6. MapType' /\ SocketType' /\ FdInv' /\ LiveInv' /\ LimitInv'
  BY <1>1, <1>5 DEF IInv, SessionInv, MapType, SocketType, FdInv, LiveInv, LimitInv, Live
<1>7. PlayInv'
  BY <1>1, <1>3, <1>5 DEF IInv, SessionInv, PlayInv, RtpWhilePlaying
<1>8. ThreadType' /\ ThreadInv' /\ AnswerInv'
  BY <1>1, <1>3, <1>5 DEF IInv, ThreadType, ThreadInv, AnswerInv
<1> QED
  BY <1>6, <1>7, <1>8 DEF IInv, SessionInv

\* ... and used.
LEMMA SendToStep == IInv /\ SendTo => IInv'
<1> SUFFICES ASSUME IInv, SendTo PROVE IInv'
  OBVIOUS
<1>1. /\ stream.at = "sendto" /\ stream \in Streams
      /\ UNCHANGED <<sessions_, interest, owner, link, batch, main>>
      /\ stream' = [stream EXCEPT !.at = "next", !.who = "none", !.fd = NoFd]
  BY DEF SendTo, clientVars, IInv, ThreadType
<1>2. \/ session' = [session EXCEPT ![stream.who] = Forwarded(session[stream.who])]
      \/ session' = [session EXCEPT ![stream.who] = Dropped(session[stream.who])]
  BY DEF SendTo
<1>3. /\ stream' \in Streams /\ stream'.at = "next" /\ stream'.held = stream.held
      /\ stream'.todo = stream.todo
  BY <1>1, Zenon DEF Streams
<1>4. stream.who \in stream.held \ stream.todo /\ session[stream.who].late = 0
  BY <1>1 DEF IInv, ThreadInv, SessionInv, PlayInv
<1> QED
  BY <1>1, <1>2, <1>3, <1>4, PacketStep

\* The snapshot goes: what it alone referred to goes with it.
LEMMA BroadcastReturnsStep == IInv /\ BroadcastReturns => IInv'
<1> SUFFICES ASSUME IInv, BroadcastReturns PROVE IInv'
  OBVIOUS
<1> DEFINE live == Range(sessions_)
<1>1. /\ stream' = Still /\ Destroy(sessions_, {})
      /\ UNCHANGED <<sessions_, interest, link, batch, main>>
  BY DEF BroadcastReturns, clientVars
<1>2. MapType /\ SocketType /\ FdInv /\ LiveInv /\ PlayInv /\ LimitInv /\ ThreadType
      /\ ThreadInv /\ AnswerInv
  BY DEF IInv, SessionInv
<1>3. /\ session' \in [Client -> Sessions] /\ owner' \in [Fd -> Owners]
      /\ \A c \in Client : c \in live => session'[c] = session[c]
      /\ \A c \in Client : c \notin live => session'[c] = NewSession
      /\ \A f \in Fd, c \in Client :
           /\ owner'[f] = Tcp(c) <=> owner[f] = Tcp(c) /\ c \in live
           /\ owner'[f] = Udp(c) <=> owner[f] = Udp(c) /\ c \in live
  <2>1. Range(sessions_) \cup {} = live
    OBVIOUS
  <2> QED
    BY <1>1, <1>2, <2>1, DestroyFacts
<1>4. /\ Still \in Streams /\ Still.at = "idle" /\ Still.held = {} /\ Still.todo = {}
  BY DEF Still, Streams
<1>5. Live' = live /\ live \subseteq Live
  BY <1>1, <1>4 DEF Live
<1>6. \A f \in DOMAIN sessions_ : sessions_[f] \in live /\ sessions_[f] \in Client
  BY <1>2 DEF MapType, Range
<1> HIDE DEF live
<1>7. MapType' /\ LimitInv'
  BY <1>1, <1>2 DEF MapType, LimitInv
<1>8. SocketType'
  BY <1>1, <1>2, <1>3 DEF SocketType
<1>9. FdInv'
  <2>1. \A f \in DOMAIN sessions_' : owner'[f] = Tcp(sessions_'[f])
    BY <1>1, <1>2, <1>3, <1>6 DEF FdInv, MapType
  <2>2. \A f \in Fd, c \in Client : owner'[f] = Udp(c) <=> session'[c].udp_fd = f
    BY <1>2, <1>3 DEF FdInv, NewSession, NoFd, Fd
  <2> QED
    BY <1>1, <1>2, <1>3, <1>4, <1>5, <2>1, <2>2 DEF FdInv
<1>10. LiveInv'
  BY <1>1, <1>2, <1>3, <1>5 DEF LiveInv
<1>11. PlayInv'
  <2>1. NewSession.state = "kInit" /\ NewSession.late = 0
    BY DEF NewSession
  <2> QED
    BY <1>1, <1>2, <1>3, <1>4, <2>1 DEF PlayInv, RtpWhilePlaying
<1>12. ThreadType' /\ ThreadInv'
  BY <1>1, <1>2, <1>4 DEF ThreadType, ThreadInv
<1>13. AnswerInv'
  BY <1>1, <1>2, <1>3, <1>6 DEF AnswerInv, ThreadInv
<1> QED
  BY <1>7, <1>8, <1>9, <1>10, <1>11, <1>12, <1>13 DEF IInv, SessionInv

-----------------------------------------------------------------------------
\* A client sends a request, or ends its connection.
LEMMA ClientStep ==
  ASSUME IInv, NEW c \in Client, Ask(c) \/ Leave(c)
  PROVE  IInv'
<1>1. /\ UNCHANGED <<sessions_, session, interest, owner, batch, main, stream>>
      /\ link' = link
         \/ /\ link[c] = "open"
            /\ \E end \in {"closed", "reset"} : link' = [link EXCEPT ![c] = end]
  BY DEF Ask, Leave, sessionVars
<1>2. SocketType' /\ LiveInv'
  BY <1>1 DEF IInv, SessionInv, SocketType, LiveInv, Live
<1>3. MapType' /\ FdInv' /\ PlayInv' /\ LimitInv'
  BY <1>1 DEF IInv, SessionInv, MapType, FdInv, PlayInv, LimitInv, Live,
              RtpWhilePlaying
<1> QED
  BY <1>1, <1>2, <1>3 DEF IInv, SessionInv, ThreadType, ThreadInv, AnswerInv

\* A server that has just started.
LEMMA InitIInv == Init => IInv
<1> SUFFICES ASSUME Init PROVE IInv
  OBVIOUS
<1>1. /\ sessions_ = <<>> /\ interest = <<>> /\ batch = {}
      /\ session = [c \in Client |-> NewSession]
      /\ owner = [f \in Fd |-> NoOwner]
      /\ link = [c \in Client |-> "pending"] /\ main = Idle /\ stream = Still
  BY DEF Init
<1>2. DOMAIN sessions_ = {} /\ DOMAIN interest = {} /\ Range(sessions_) = {}
  BY <1>1 DEF Range
<1>3. Still \in Streams /\ Still.at = "idle" /\ Still.held = {} /\ Still.todo = {}
  BY DEF Still, Streams
<1>4. Idle \in Mains /\ Idle.at = "wait"
  BY DEF Idle, Mains, NoFd
<1>5. NewSession \in Sessions /\ NewSession.state = "kInit" /\ NewSession.late = 0
      /\ NewSession.udp_fd \notin Fd
  BY ServerAssumption DEF NewSession, Sessions, State, NoFd, Fd
<1>6. MapType
  BY <1>1, <1>2 DEF MapType
<1>7. SocketType
  BY <1>1, <1>5 DEF SocketType, Owners
<1>8. FdInv
  BY <1>1, <1>2, <1>3, <1>5, OwnerFacts DEF FdInv
<1>9. LiveInv
  BY <1>1, <1>2, <1>3 DEF LiveInv, Live
<1>10. PlayInv
  BY <1>1, <1>3, <1>5 DEF PlayInv, RtpWhilePlaying
<1>11. LimitInv
  BY <1>2, FS_EmptySet, ServerAssumption DEF LimitInv
<1>12. ThreadType /\ ThreadInv /\ AnswerInv
  BY <1>1, <1>3, <1>4 DEF ThreadType, ThreadInv, AnswerInv
<1> QED
  BY <1>6, <1>7, <1>8, <1>9, <1>10, <1>11, <1>12 DEF IInv, SessionInv

\* Every step keeps the invariant.
LEMMA NextIInv == IInv /\ [Next]_vars => IInv'
<1> SUFFICES ASSUME IInv, [Next]_vars PROVE IInv'
  OBVIOUS
<1>1. CASE MainStep
  BY <1>1, WaitStep, OnNewConnectionStep, CheckTimeoutsStep, DispatchStep, ReapStep,
     OnReadGoneStep, OnReadRequestStep, AfterRequestStep, OnWriteStep, OnErrorStep
     DEF MainStep, LoopStep
<1>2. CASE StreamStep
  BY <1>2, ForwardTcpStep, ArmWriteStep, ForwardUdpStep, SendToStep,
     BroadcastReturnsStep DEF StreamStep
<1>3. CASE UNCHANGED vars
  <2>1. UNCHANGED <<sessions_, session, interest, owner, link, batch, main, stream>>
    BY <1>3 DEF vars, sessionVars, clientVars
  <2> QED
    BY <2>1, SessionsAlone DEF IInv, ThreadType, ThreadInv, AnswerInv
<1> QED
  BY <1>1, <1>2, <1>3, BroadcastStep, ClientStep DEF Next

-----------------------------------------------------------------------------
\* The inductive invariant holds throughout, whatever the two threads and the
\* clients do and in whichever order.
THEOREM ServerInvariant == Spec => []IInv
  BY InitIInv, NextIInv, PTL DEF Spec

\* The types: map, epoll set, sockets, sessions and threads stay in range.
THEOREM ServerTypeCorrect == Spec => []TypeOK
<1>1. IInv => TypeOK
  <2> SUFFICES ASSUME IInv PROVE TypeOK
    OBVIOUS
  <2>1. DOMAIN sessions_ \subseteq Fd /\ Range(sessions_) \subseteq Client
    BY DEF IInv, SessionInv, MapType, Range
  <2>2. DOMAIN interest \subseteq Fd /\ Range(interest) \subseteq {{"R"}, {"R", "W"}}
    BY DEF IInv, SessionInv, MapType, Range
  <2>3. \A c \in Client : /\ session[c].state \in State
                          /\ session[c].udp_fd \in Fd \cup {NoFd}
                          /\ session[c].drops \in Nat
    BY DEF IInv, SessionInv, SocketType, Sessions
  <2>4. \A f \in Fd : owner[f] \in Owners
    BY DEF IInv, SessionInv, SocketType
  <2>5. /\ main.at \in {"wait", "client", "reply", "reap"}
        /\ stream.at \in {"idle", "next", "arm", "sendto"}
        /\ stream.todo \subseteq stream.held /\ stream.held \subseteq Client
    BY DEF IInv, ThreadType, ThreadInv, Mains, Streams
  <2> QED
    BY <2>1, <2>2, <2>3, <2>4, <2>5 DEF TypeOK, Owners
<1> QED
  BY <1>1, ServerInvariant, PTL

\* The map, the epoll set and the kernel agree, for any number of clients: a
\* session is found under the number of its own open socket, nothing else is in
\* the epoll set, and max_sessions_ is kept (rtsp_server.cc:262, 304-310,
\* 363-376).
THEOREM ServerSessionsOwnTheirFds == Spec => []SessionsOwnTheirFds
<1>1. IInv => SessionsOwnTheirFds
  BY DEF IInv, SessionInv, MapType, FdInv, LimitInv, SessionsOwnTheirFds
<1> QED
  BY <1>1, ServerInvariant, PTL

\* A session in the stream thread's snapshot keeps its TCP socket open, closed
\* by the timer or not, so that no other session can have got its number
\* (rtsp_server.cc:183-198, 231-235).
THEOREM ServerHeldSessionsKeepTheirFd == Spec => []HeldSessionsKeepTheirFd
<1>1. IInv => HeldSessionsKeepTheirFd
  <2> SUFFICES ASSUME IInv, NEW c \in stream.held
               PROVE  \E f \in Fd : /\ owner[f] = Tcp(c)
                                    /\ f \in DOMAIN sessions_ => sessions_[f] = c
    BY DEF HeldSessionsKeepTheirFd
  <2>1. PICK f \in Fd : owner[f] = Tcp(c)
    BY DEF IInv, SessionInv, FdInv
  <2>2. f \in DOMAIN sessions_ => Tcp(sessions_[f]) = Tcp(c)
    BY <2>1 DEF IInv, SessionInv, FdInv
  <2> QED
    BY <2>1, <2>2, OwnerFacts
<1> QED
  BY <1>1, ServerInvariant, PTL

\* No socket is lost, and none that a session still counts on is closed
\* (rtsp_session.cc:224-225, fd_guard.h:39-52).
THEOREM ServerNoFdLeak == Spec => []NoFdLeak
<1>1. IInv => NoFdLeak
  <2> SUFFICES ASSUME IInv, NEW f \in Fd, owner[f] # NoOwner
               PROVE  /\ owner[f].who \in Live
                      /\ owner[f].kind = "udp" => session[owner[f].who].udp_fd = f
    BY DEF NoFdLeak, Live
  <2>1. PICK c \in Client : owner[f] \in {Tcp(c), Udp(c)}
    BY DEF IInv, SessionInv, SocketType, Owners
  <2>2. owner[f].who = c /\ (owner[f].kind = "udp" => owner[f] = Udp(c))
    BY <2>1, OwnerFacts
  <2> QED
    BY <2>1, <2>2 DEF IInv, SessionInv, FdInv
<1> QED
  BY <1>1, ServerInvariant, PTL

\* RTP goes out only after PLAY has been answered, and at most one packet after
\* the session has stopped playing (rtsp_session.cc:320-321, rtsp_server.cc:192).
THEOREM ServerRtpWhilePlaying == Spec => []RtpWhilePlaying
<1>1. IInv => RtpWhilePlaying
  BY DEF IInv, SessionInv, PlayInv
<1> QED
  BY <1>1, ServerInvariant, PTL

=============================================================================
