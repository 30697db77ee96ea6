------------------------ MODULE SessionTimelineProofs -----------------------
(***************************************************************************)
(* Theorems about SessionTimeline, for every length of a second, every     *)
(* check interval, delay, timeout and limit, and every Transport header.   *)
(***************************************************************************)
EXTENDS SessionTimeline, SequenceTheorems, NatLemmas

Sessions == [state : State, is_udp : BOOLEAN, udp_fd : {NoFd, 1},
             drops : Nat, wasPlayed : BOOLEAN, late : Nat]

Agreements == [mode : {"none", "UDP", "TCP"}, ports : Int \X Int,
               udpBefore : BOOLEAN]

\* The clock and the timer stay close to each other, and the timer never lies
\* more than an interval ahead.
ClockInv ==
  /\ now \in 0..MaxNow /\ due \in Nat \ {0}
  /\ now <= due + MaxDelay /\ due <= now + Interval
  /\ active \in 0..now /\ marked \in 0..now
  /\ timeouts \in [connection : Nat, session : Nat]
  /\ last_activity_sec_ = InSeconds(active)

DataInv ==
  /\ session \in Sessions /\ agreed \in Agreements
  /\ port \in Ports \X Ports
  /\ stream \in {"idle", "forward"} /\ open \in BOOLEAN
  /\ phase \in {"handshake", "established", "probed"}
  /\ total_dropped_sessions_ \in Nat /\ plays \in Nat
  /\ timed_out_sessions_ = IF open THEN 0 ELSE 1

Timeout == TimeoutOf(session, timeouts.connection, timeouts.session)

\* The last check, an interval before the next, found the session young enough,
\* or it has been active since.
IdleInv ==
  open /\ Timeout > 0 => due - Interval <= active + Timeout * TicksPerSec

\* The last check did not find the mark.
MarkInv ==
  open /\ session.state = "kTeardown" /\ ChecksOn => due - Interval <= marked

\* The state tells in which phase the session is.
PhaseInv ==
  /\ session.state \in {"kInit", "kOptionsSent", "kDescribeSent"}
       => phase # "established"
  /\ session.state \in {"kSetupSent", "kPlaying", "kPaused"}
       => phase = "established"

\* While the session plays, or the packet of a snapshot is on its way to it, it
\* may still be dropped for the last PLAY.
Droppable == IF stream = "forward" \/ session.state = "kPlaying" THEN 1 ELSE 0
DropInv == total_dropped_sessions_ + Droppable <= plays

\* What was agreed on is what the session does, and the way RTP goes is kept
\* from one SETUP to the next.
TransportInv == session.is_udp = agreed.udpBefore /\ AgreedTransportIsUsed

IInv == ClockInv /\ DataInv /\ IdleInv /\ MarkInv /\ PhaseInv /\ DropInv
        /\ TransportInv

-----------------------------------------------------------------------------
\* The constants are numbers.
LEMMA Constants ==
  /\ TicksPerSec \in Nat \ {0} /\ MaxDrops \in Nat \ {0} /\ IntSize \in Nat \ {0}
  /\ Interval \in Nat /\ MaxDelay \in Nat /\ MaxNow \in Nat /\ MaxPlays \in Nat
<1>1. /\ TicksPerSec \in Nat \ {0} /\ MaxDrops \in Nat \ {0} /\ IntSize \in Nat \ {0}
      /\ kTimeoutCheckIntervalSec \in Nat \ {0} /\ MaxNow \in Nat /\ MaxPlays \in Nat
  BY TimelineAssumption
<1>2. Interval \in Nat
  BY <1>1 DEF Interval
<1>3. MaxDelay \in Nat
  BY <1>2, TimelineAssumption DEF Interval
<1> QED
  BY <1>1, <1>2, <1>3

\* Short gives a port, and keeps a number that is one.
LEMMA ShortFacts ==
  ASSUME NEW n \in Int
  PROVE  Short(n) \in Ports /\ (n \in Ports => Short(n) = n)
<1>1. Word \in Nat \ {0}
  BY DEF Word
<1> QED
  BY <1>1 DEF Short, Ports

\* The timeout that applies is a number, and so is its length in ticks.
LEMMA TimeoutType ==
  ASSUME NEW s, NEW configured \in [connection : Nat, session : Nat]
  PROVE  LET t == TimeoutOf(s, configured.connection, configured.session)
         IN t \in Nat /\ t * TicksPerSec \in Nat
<1> DEFINE t == TimeoutOf(s, configured.connection, configured.session)
<1>1. t \in Nat
  BY DEF TimeoutOf
<1> HIDE DEF t
<1>2. t * TicksPerSec \in Nat
  BY <1>1, Constants
<1> QED
  BY <1>1, <1>2 DEF t

\* The record a handler leaves.
LEMMA ReplyFacts ==
  ASSUME NEW s \in Sessions, NEW request \in Request, NEW code \in Int
  PROVE  LET t == AfterReply(BeforeReply(s, request, code, 1), request, code)
         IN /\ t \in Sessions
            /\ t.state = NextState(s.state, request, code)
            /\ t.is_udp = (s.is_udp \/ (request = "SETUP_UDP" /\ code = 200))
            /\ t.udp_fd = IF request = "TEARDOWN" THEN NoFd
                          ELSE IF request = "SETUP_UDP" /\ code = 200 THEN 1
                          ELSE s.udp_fd
<1> DEFINE b == BeforeReply(s, request, code, 1)
           t == AfterReply(b, request, code)
<1>1. NextState(s.state, request, code) \in State
  BY DEF NextState, State, Sessions
<1>2. /\ b \in Sessions /\ b.state = s.state
      /\ b.is_udp = (s.is_udp \/ (request = "SETUP_UDP" /\ code = 200))
      /\ b.udp_fd = IF request = "SETUP_UDP" /\ code = 200 THEN 1 ELSE s.udp_fd
  BY DEF BeforeReply, Sessions
<1> HIDE DEF b
<1>3. /\ t.state = NextState(s.state, request, code) /\ t.is_udp = b.is_udp
      /\ t.udp_fd = IF request = "TEARDOWN" THEN NoFd ELSE b.udp_fd
  BY <1>2, Zenon DEF AfterReply, Sessions
<1>4. t \in Sessions
  <2>1. (IF request = "PLAY" THEN 0 ELSE b.late) \in Nat
        /\ (IF request = "TEARDOWN" THEN NoFd ELSE b.udp_fd) \in {NoFd, 1}
    BY <1>2 DEF Sessions
  <2> QED
    BY <1>1, <1>2, <2>1, Zenon DEF AfterReply, Sessions
<1> QED
  BY <1>2, <1>3, <1>4 DEF b

\* What any request does: it counts as activity, and the state it leads to agrees
\* with the phase.
LEMMA ProcessFacts ==
  ASSUME IInv, NEW request \in Request, NEW code \in Int, Process(request, code)
  PROVE  /\ ClockInv' /\ IdleInv' /\ MarkInv' /\ PhaseInv'
         /\ phase' \in {"handshake", "established", "probed"}
         /\ session' \in Sessions
         /\ session'.state = NextState(session.state, request, code)
         /\ session'.is_udp = (session.is_udp \/ (request = "SETUP_UDP" /\ code = 200))
         /\ session'.udp_fd = IF request = "TEARDOWN" THEN NoFd
                              ELSE IF request = "SETUP_UDP" /\ code = 200 THEN 1
                              ELSE session.udp_fd
         /\ UNCHANGED <<open, stream, timed_out_sessions_, total_dropped_sessions_>>
<1>1. ClockInv /\ DataInv /\ MarkInv /\ PhaseInv
  BY DEF IInv
<1>2. /\ session' \in Sessions
      /\ session'.state = NextState(session.state, request, code)
      /\ session'.is_udp = (session.is_udp \/ (request = "SETUP_UDP" /\ code = 200))
      /\ session'.udp_fd = IF request = "TEARDOWN" THEN NoFd
                           ELSE IF request = "SETUP_UDP" /\ code = 200 THEN 1
                           ELSE session.udp_fd
  BY <1>1, ReplyFacts DEF Process, DataInv
<1>3. /\ UNCHANGED <<now, due, timeouts, open, stream, timed_out_sessions_,
                     total_dropped_sessions_>>
      /\ last_activity_sec_' = InSeconds(now) /\ active' = now
      /\ marked' = IF session'.state # "kTeardown" THEN 0
                   ELSE IF session.state # "kTeardown" THEN now ELSE marked
  BY DEF Process, clockVars, statVars
<1>4. ClockInv'
  BY <1>1, <1>3, Constants DEF ClockInv, InSeconds
<1>5. IdleInv'
  <2>1. Timeout' \in Nat /\ Timeout' * TicksPerSec \in Nat
    BY <1>4, TimeoutType DEF ClockInv, Timeout
  <2>2. \A p \in Nat : due' - Interval <= active' + p
    BY <1>1, <1>3, Constants DEF ClockInv
  <2> QED
    BY <2>1, <2>2 DEF IdleInv
<1>6. MarkInv'
  BY <1>1, <1>3, Constants DEF MarkInv, ClockInv, ChecksOn
<1>7. /\ phase' \in {"handshake", "established", "probed"} /\ PhaseInv'
  <2>1. CASE code # 200
    <3>1. phase' = phase /\ session'.state = session.state
      BY <1>2, <2>1 DEF Process, NextState
    <3> QED
      BY <1>1, <3>1 DEF PhaseInv, DataInv
  <2>2. CASE code = 200 /\ request \in {"SETUP_UDP", "SETUP_TCP", "PLAY", "PAUSE"}
    <3>1. phase' = "established" /\ session'.state \in {"kSetupSent", "kPlaying", "kPaused"}
      BY <1>2, <2>2 DEF Process, NextState
    <3> QED
      BY <3>1 DEF PhaseInv
  <2>3. CASE code = 200 /\ request \in {"OPTIONS", "DESCRIBE"}
    <3>1. session'.state \in {"kOptionsSent", "kDescribeSent"}
      BY <1>2, <2>3 DEF NextState
    <3>2. phase' = IF phase # "handshake" THEN "probed" ELSE phase
      BY <2>3 DEF Process
    <3> QED
      BY <3>1, <3>2 DEF PhaseInv
  <2>4. CASE code = 200 /\ request = "TEARDOWN"
    <3>1. phase' = phase /\ session'.state = "kTeardown"
      BY <1>2, <2>4 DEF Process, NextState
    <3> QED
      BY <1>1, <3>1 DEF PhaseInv, DataInv
  <2>5. CASE code = 200 /\ request \in {"SETUP_NOPORT", "SETUP_OTHER", "PARAMETER",
                                        "UNKNOWN", "Unparsable"}
    <3>1. phase' = phase /\ session'.state = session.state
      BY <1>2, <2>5 DEF Process, NextState
    <3> QED
      BY <1>1, <3>1 DEF PhaseInv, DataInv
  <2> QED
    BY <2>1, <2>2, <2>3, <2>4, <2>5 DEF Request
<1> QED
  BY <1>2, <1>3, <1>4, <1>5, <1>6, <1>7

\* A request other than SETUP.
LEMMA AskStep ==
  ASSUME IInv, NEW request \in Requests, Ask(request)
  PROVE  IInv'
<1>1. PICK sdpSet \in BOOLEAN : Process(request, ReplyCode(request, sdpSet, TRUE))
  BY DEF Ask
<1> DEFINE code == ReplyCode(request, sdpSet, TRUE)
<1>2. /\ request \in Request /\ request # "SETUP_UDP" /\ request # "SETUP_TCP"
      /\ code \in Int
      /\ UNCHANGED port
  BY TimelineAssumption DEF Request, ReplyCode, Ask
<1> HIDE DEF code
<1>3. /\ ClockInv' /\ IdleInv' /\ MarkInv' /\ PhaseInv'
      /\ phase' \in {"handshake", "established", "probed"}
      /\ session' \in Sessions
      /\ session'.state = NextState(session.state, request, code)
      /\ session'.is_udp = session.is_udp
      /\ session'.udp_fd = IF request = "TEARDOWN" THEN NoFd ELSE session.udp_fd
      /\ UNCHANGED <<open, stream, timed_out_sessions_, total_dropped_sessions_>>
  <2>1. session.is_udp \in BOOLEAN
    BY DEF IInv, DataInv, Sessions
  <2> QED
    BY <1>1, <1>2, <2>1, ProcessFacts, ZenonT(30) DEF code
<1>4. DataInv /\ DropInv /\ TransportInv
  BY DEF IInv
<1>5. plays \in Nat /\ plays' = IF request = "PLAY" THEN plays + 1 ELSE plays
  BY <1>4 DEF DataInv, Ask
<1>6. agreed' \in Agreements /\ agreed'.udpBefore = agreed.udpBefore
      /\ agreed'.ports = agreed.ports
      /\ agreed'.mode = IF request = "TEARDOWN" THEN "none" ELSE agreed.mode
  BY <1>4 DEF DataInv, Agreements, Ask
<1>7. DataInv'
  BY <1>2, <1>3, <1>4, <1>5, <1>6 DEF DataInv
<1>8. DropInv'
  <2>1. session'.state = "kPlaying" => session.state = "kPlaying" \/ request = "PLAY"
    BY <1>3 DEF NextState
  <2> QED
    BY <1>3, <1>4, <1>5, <2>1 DEF DropInv, Droppable, DataInv
<1>9. TransportInv'
  BY <1>2, <1>3, <1>4, <1>6 DEF TransportInv, AgreedTransportIsUsed
<1> QED
  BY <1>3, <1>7, <1>8, <1>9 DEF IInv

-----------------------------------------------------------------------------
\* The numbers of a field are those of the first alternative that has it.
LEMMA FieldFacts ==
  ASSUME NEW header \in Transports, NEW f \in {"client_port", "interleaved"}
  PROVE  \/ Field(header, f) = <<>> /\ \A k \in DOMAIN header : header[k][f] = <<>>
         \/ \E m \in DOMAIN header :
              /\ Field(header, f) = header[m][f] /\ header[m][f] # <<>>
              /\ \A k \in DOMAIN header : header[k][f] # <<>> => m <= k
<1> DEFINE at == {k \in DOMAIN header : header[k][f] # <<>>}
<1>1. DOMAIN header \subseteq Nat
  BY TransportsAssumption, LenProperties
<1>2. CASE at = {}
  BY <1>2 DEF Field
<1>3. CASE at # {}
  <2>1. Min(at) \in at /\ \A k \in at : Min(at) <= k
    BY <1>1, <1>3, MinIsLeast
  <2> QED
    BY <1>3, <2>1 DEF Field
<1> QED
  BY <1>2, <1>3

\* The numbers of a header are sequences of at most two integers.
LEMMA ClientPortType ==
  ASSUME NEW header \in Transports, NEW k \in DOMAIN header
  PROVE  /\ header[k].client_port \in Seq(Int)
         /\ Len(header[k].client_port) \in Nat /\ Len(header[k].client_port) <= 2
<1>1. header[k] \in [names : SUBSET STRING, client_port : Seq(Int),
                     interleaved : Seq(Int)]
  BY TransportsAssumption, ElementOfSeq, LenProperties
<1>2. header[k].client_port \in Seq(Int) /\ Len(header[k].client_port) <= 2
  BY <1>1, TransportsAssumption
<1> QED
  BY <1>2, LenProperties

\* A cast gives an integer.
LEMMA ToIntType ==
  ASSUME NEW n \in Int
  PROVE  ToInt(n, IntSize) \in Int
<1> DEFINE half == IntSize \div 2
<1>1. half \in Int
  BY Constants
<1> HIDE DEF half
<1>2. (n + half) % IntSize \in Int
  BY <1>1, Constants
<1> QED
  BY <1>1, <1>2 DEF ToInt, half

\* Pair makes two integers of what a field holds, 0 of nothing.
LEMMA PairFacts ==
  ASSUME NEW numbers \in Seq(Int), Len(numbers) \in Nat, Len(numbers) <= 2
  PROVE  /\ Pair(numbers, IntSize) \in Int \X Int
         /\ numbers = <<>> => Pair(numbers, IntSize)[1] = 0
<1>1. CASE Len(numbers) = 0
  <2>1. Pair(numbers, IntSize) = <<0, 0>>
    BY <1>1 DEF Pair
  <2> QED
    BY <2>1
<1>2. CASE Len(numbers) = 1
  <2> DEFINE first == ToInt(numbers[1], IntSize)
  <2>1. Pair(numbers, IntSize) = <<first, ToInt(first + 1, IntSize)>>
    BY <1>2 DEF Pair
  <2>2. numbers[1] \in Int /\ numbers # <<>>
    BY <1>2, ElementOfSeq, EmptySeq
  <2>3. first \in Int
    BY <2>2, ToIntType
  <2> HIDE DEF first
  <2>4. ToInt(first + 1, IntSize) \in Int
    BY <2>3, ToIntType
  <2> QED
    BY <2>1, <2>2, <2>3, <2>4
<1>3. CASE Len(numbers) = 2
  <2>1. Pair(numbers, IntSize) = <<ToInt(numbers[1], IntSize), ToInt(numbers[2], IntSize)>>
    BY <1>3 DEF Pair
  <2>2. numbers[1] \in Int /\ numbers[2] \in Int /\ numbers # <<>>
    BY <1>3, ElementOfSeq, EmptySeq
  <2>3. ToInt(numbers[1], IntSize) \in Int /\ ToInt(numbers[2], IntSize) \in Int
    BY <2>2, ToIntType
  <2> QED
    BY <2>1, <2>2, <2>3
<1>4. Len(numbers) = 0 \/ Len(numbers) = 1 \/ Len(numbers) = 2
  <2>1. \A n \in Nat : n <= 2 => n = 0 \/ n = 1 \/ n = 2
    OBVIOUS
  <2> QED
    BY <2>1, Zenon
<1> QED
  BY <1>1, <1>2, <1>3, <1>4

\* ParseTransport yields the mode, and two integers for the ports.
LEMMA ParseTransportFacts ==
  ASSUME NEW header \in Transports
  PROVE  LET info == ParseTransport(header, IntSize)
         IN /\ info.is_udp = ~Contains(header, "TCP")
            /\ info.is_tcp = Contains(header, "TCP")
            /\ info.client_port = Pair(Field(header, "client_port"), IntSize)
            /\ info.client_port \in Int \X Int
<1> DEFINE info == ParseTransport(header, IntSize)
           numbers == Field(header, "client_port")
<1>1. numbers = <<>> \/ \E k \in DOMAIN header : numbers = header[k].client_port
  BY FieldFacts
<1>2. info.client_port = Pair(numbers, IntSize) /\ info.is_udp = ~Contains(header, "TCP")
      /\ info.is_tcp = Contains(header, "TCP")
  BY Zenon DEF ParseTransport
<1> HIDE DEF numbers, info
<1>3. numbers \in Seq(Int) /\ Len(numbers) \in Nat /\ Len(numbers) <= 2
  <2>1. CASE numbers = <<>>
    BY <2>1, EmptySeq
  <2> QED
    BY <1>1, <2>1, ClientPortType
<1>4. Pair(numbers, IntSize) \in Int \X Int
  BY <1>3, PairFacts
<1> QED
  BY <1>2, <1>4 DEF info, numbers

\* The kinds of SETUP.
LEMMA SetupKinds ==
  ASSUME NEW info
  PROVE  SetupKind(info) \in {"SETUP_NOPORT", "SETUP_UDP", "SETUP_TCP", "SETUP_OTHER"}
BY DEF SetupKind

\* A SETUP.
LEMMA SetupStep ==
  ASSUME IInv, NEW info, info.client_port \in Int \X Int, NEW udpOk \in BOOLEAN,
         Setup(info, udpOk)
  PROVE  IInv'
<1> DEFINE request == SetupKind(info)
<1>1. LET code == ReplyCode(request, TRUE, udpOk)
          udp == request = "SETUP_UDP" /\ code = 200
      IN /\ Process(request, code)
         /\ port' = IF udp THEN <<Short(info.client_port[1]), Short(info.client_port[2])>>
                    ELSE port
         /\ agreed' = IF code # 200 THEN agreed
                      ELSE [mode |-> IF udp THEN "UDP" ELSE "TCP",
                            ports |-> IF udp THEN info.client_port ELSE <<0, 0>>,
                            udpBefore |-> udp \/ agreed.udpBefore]
         /\ UNCHANGED plays
  BY Zenon DEF Setup
<1> DEFINE code == ReplyCode(request, TRUE, udpOk)
           udp == request = "SETUP_UDP" /\ code = 200
<1>a. request = SetupKind(info)
  OBVIOUS
<1>b. code = ReplyCode(request, TRUE, udpOk)
  OBVIOUS
<1> HIDE DEF request, code
<1>2. /\ request \in {"SETUP_NOPORT", "SETUP_UDP", "SETUP_TCP", "SETUP_OTHER"}
      /\ code \in Int
      /\ request = "SETUP_TCP" => code = 200
      /\ request \in {"SETUP_NOPORT", "SETUP_OTHER"} => code = 461
  <2>1. request \in {"SETUP_NOPORT", "SETUP_UDP", "SETUP_TCP", "SETUP_OTHER"}
    BY <1>a, SetupKinds
  <2>2. code \in Int
    BY <1>b, <2>1 DEF ReplyCode
  <2>3. /\ request = "SETUP_TCP" => code = 200
        /\ request \in {"SETUP_NOPORT", "SETUP_OTHER"} => code = 461
    BY <1>b DEF ReplyCode
  <2> QED
    BY <2>1, <2>2, <2>3
<1>3. /\ ClockInv' /\ IdleInv' /\ MarkInv' /\ PhaseInv'
      /\ phase' \in {"handshake", "established", "probed"}
      /\ session' \in Sessions
      /\ session'.state = NextState(session.state, request, code)
      /\ session'.is_udp = (session.is_udp \/ udp)
      /\ session'.udp_fd = IF udp THEN 1 ELSE session.udp_fd
      /\ UNCHANGED <<open, stream, timed_out_sessions_, total_dropped_sessions_>>
  <2>1. request \in Request /\ request # "TEARDOWN" /\ Process(request, code)
    BY <1>1, <1>2 DEF Request, code
  <2> QED
    BY <1>2, <2>1, ProcessFacts
<1>4. DataInv /\ DropInv /\ TransportInv
  BY DEF IInv
<1>5. UNCHANGED plays
  BY <1>1
<1>6. /\ udp => port' = <<Short(info.client_port[1]), Short(info.client_port[2])>>
      /\ ~udp => port' = port
  BY <1>1 DEF code
<1>7. port' \in Ports \X Ports
  BY <1>4, <1>6, ShortFacts DEF DataInv
<1>8. DropInv'
  <2>1. session'.state = "kPlaying" => session.state = "kPlaying"
    BY <1>2, <1>3 DEF NextState
  <2> QED
    BY <1>3, <1>4, <1>5, <2>1 DEF DropInv, Droppable, DataInv
<1>9. CASE code # 200
  <2>1. agreed' = agreed /\ ~udp
    BY <1>1, <1>9 DEF code
  <2>2. session'.is_udp = session.is_udp
    BY <1>3, <1>4, <2>1, Zenon DEF DataInv, Sessions
  <2>3. TransportInv'
    BY <1>3, <1>4, <1>6, <2>1, <2>2 DEF TransportInv, AgreedTransportIsUsed
  <2>4. DataInv'
    BY <1>3, <1>4, <1>5, <1>7, <2>1 DEF DataInv
  <2> QED
    BY <1>3, <1>8, <2>3, <2>4 DEF IInv
<1>10. CASE udp
  <2>1. agreed' = [mode |-> "UDP", ports |-> info.client_port, udpBefore |-> TRUE]
    BY <1>1, <1>10 DEF code
  <2>2. session'.is_udp = TRUE /\ session'.udp_fd = 1
    BY <1>3, <1>10
  <2>3. agreed' \in Agreements
    BY <2>1 DEF Agreements
  <2>4. TransportInv'
    <3>1. \A k \in 1..2 : agreed'.ports[k] \in Ports => port'[k] = agreed'.ports[k]
      BY <1>6, <1>10, <2>1, ShortFacts
    <3>2. agreed'.mode = "UDP" /\ agreed'.udpBefore = TRUE
      BY <2>1, Zenon
    <3>3. session'.udp_fd # NoFd
      BY <2>2 DEF NoFd
    <3> QED
      BY <2>2, <3>1, <3>2, <3>3, Zenon DEF TransportInv, AgreedTransportIsUsed
  <2>5. DataInv'
    BY <1>3, <1>4, <1>5, <1>7, <2>3 DEF DataInv
  <2> QED
    BY <1>3, <1>8, <2>4, <2>5 DEF IInv
<1>11. CASE code = 200 /\ ~udp
  <2>1. agreed' = [mode |-> "TCP", ports |-> <<0, 0>>, udpBefore |-> agreed.udpBefore]
    BY <1>1, <1>4, <1>11 DEF code, DataInv, Agreements
  <2>2. session'.is_udp = session.is_udp
    <3>1. session.is_udp \in BOOLEAN
      BY <1>4 DEF DataInv, Sessions
    <3>2. ~udp
      BY <1>11
    <3>3. session'.is_udp = (session.is_udp \/ udp)
      BY <1>3
    <3> HIDE DEF udp
    <3>4. CASE session.is_udp
      BY <3>1, <3>3, <3>4, Zenon
    <3>5. CASE ~session.is_udp
      <4>1. session.is_udp = FALSE
        BY <3>1, <3>5, Zenon
      <4> QED
        BY <3>2, <3>3, <4>1, Zenon
    <3> QED
      BY <3>4, <3>5
  <2>3. agreed' \in Agreements
    BY <1>4, <2>1 DEF Agreements, DataInv
  <2>4. TransportInv'
    BY <1>4, <2>1, <2>2 DEF TransportInv, AgreedTransportIsUsed
  <2>5. DataInv'
    BY <1>3, <1>4, <1>5, <1>7, <2>3 DEF DataInv
  <2> QED
    BY <1>3, <1>8, <2>4, <2>5 DEF IInv
<1> QED
  BY <1>9, <1>10, <1>11

\* The snapshot takes a session that plays.
LEMMA SnapshotStep == IInv /\ Snapshot => IInv'
<1> SUFFICES ASSUME IInv, Snapshot PROVE IInv'
  OBVIOUS
<1>1. /\ UNCHANGED <<now, due, timeouts, open, session, last_activity_sec_, port,
                     agreed, timed_out_sessions_, total_dropped_sessions_, active,
                     marked, phase, plays>>
      /\ stream' = "forward" /\ session.state = "kPlaying"
  BY DEF Snapshot, clockVars, setupVars, statVars, histVars
<1>2. ClockInv' /\ DataInv'
  BY <1>1 DEF IInv, ClockInv, DataInv
<1>3. IdleInv' /\ MarkInv' /\ PhaseInv'
  BY <1>1 DEF IInv, IdleInv, MarkInv, PhaseInv, Timeout, ChecksOn
<1>4. DropInv'
  BY <1>1 DEF IInv, DropInv, Droppable
<1>5. TransportInv'
  BY <1>1 DEF IInv, TransportInv, AgreedTransportIsUsed
<1> QED
  BY <1>2, <1>3, <1>4, <1>5 DEF IInv

\* A packet is sent or refused.
LEMMA ForwardStep == IInv /\ Forward => IInv'
<1> SUFFICES ASSUME IInv, Forward PROVE IInv'
  OBVIOUS
<1>1. /\ UNCHANGED <<now, due, timeouts, open, port, agreed, timed_out_sessions_,
                     phase, plays>>
      /\ stream = "forward" /\ stream' = "idle"
      /\ last_activity_sec_' = InSeconds(now) /\ active' = now
  BY DEF Forward, clockVars, setupVars
<1>2. ClockInv /\ DataInv /\ MarkInv /\ PhaseInv /\ DropInv /\ TransportInv
  BY DEF IInv
<1>3. /\ session' \in Sessions /\ session'.is_udp = session.is_udp
      /\ session'.udp_fd = session.udp_fd
      /\ \/ /\ session'.state = session.state
            /\ UNCHANGED <<total_dropped_sessions_, marked>>
         \/ /\ session'.state = "kTeardown"
            /\ total_dropped_sessions_' = total_dropped_sessions_ + 1
            /\ marked' = IF session.state # "kTeardown" THEN now ELSE marked
  <2>1. CASE session' = [session EXCEPT !.drops = 0]
             /\ UNCHANGED <<total_dropped_sessions_, marked>>
    <3>1. 0 \in Nat
      OBVIOUS
    <3> QED
      BY <1>2, <2>1, <3>1, Zenon DEF DataInv, Sessions
  <2>2. CASE Drop /\ session.drops + 1 >= MaxDrops
    <3>1. /\ session' = [session EXCEPT !.drops = session.drops + 1,
                                        !.state = "kTeardown"]
          /\ total_dropped_sessions_' = total_dropped_sessions_ + 1
          /\ marked' = IF session.state # "kTeardown" THEN now ELSE marked
      BY <2>2 DEF Drop
    <3>2. session.drops + 1 \in Nat /\ "kTeardown" \in State
      BY <1>2 DEF State, DataInv, Sessions
    <3> QED
      BY <1>2, <3>1, <3>2, Zenon DEF DataInv, Sessions
  <2>3. CASE Drop /\ ~(session.drops + 1 >= MaxDrops)
    <3>1. /\ session' = [session EXCEPT !.drops = session.drops + 1,
                                        !.state = session.state]
          /\ total_dropped_sessions_' = total_dropped_sessions_ + 0
          /\ marked' = marked
      BY <2>3 DEF Drop
    <3>2. session.drops + 1 \in Nat /\ total_dropped_sessions_' = total_dropped_sessions_
      BY <1>2, <2>3, <3>1, Constants DEF DataInv, Sessions
    <3> QED
      BY <1>2, <3>1, <3>2, Zenon DEF DataInv, Sessions
  <2> QED
    BY <2>1, <2>2, <2>3 DEF Forward
<1>4. ClockInv'
  BY <1>1, <1>2, <1>3, Constants DEF ClockInv, InSeconds
<1>5. DataInv'
  BY <1>1, <1>2, <1>3 DEF DataInv
<1>6. IdleInv'
  <2>1. Timeout' \in Nat /\ Timeout' * TicksPerSec \in Nat
    BY <1>4, TimeoutType DEF ClockInv, Timeout
  <2>2. \A p \in Nat : due' - Interval <= active' + p
    BY <1>1, <1>2, Constants DEF ClockInv
  <2> QED
    BY <2>1, <2>2 DEF IdleInv
<1>7. MarkInv'
  BY <1>1, <1>2, <1>3, Constants DEF MarkInv, ClockInv, ChecksOn
<1>8. PhaseInv'
  BY <1>1, <1>2, <1>3 DEF PhaseInv
<1>9. DropInv'
  BY <1>1, <1>2, <1>3 DEF DropInv, Droppable, DataInv
<1>10. TransportInv'
  BY <1>1, <1>2, <1>3 DEF TransportInv, AgreedTransportIsUsed
<1> QED
  BY <1>4, <1>5, <1>6, <1>7, <1>8, <1>9, <1>10 DEF IInv

\* A check closes what is marked or too old, and what it leaves is younger than
\* its timeout.
LEMMA CheckTimeoutsStep == IInv /\ CheckTimeouts => IInv'
<1> SUFFICES ASSUME IInv, CheckTimeouts PROVE IInv'
  OBVIOUS
<1>1. /\ UNCHANGED <<now, timeouts, session, last_activity_sec_, port, agreed, stream,
                     total_dropped_sessions_, active, marked, phase, plays>>
      /\ now >= due /\ due' = due + Interval
  BY DEF CheckTimeouts, setupVars, histVars
<1>2. ClockInv /\ DataInv /\ PhaseInv /\ DropInv /\ TransportInv
  BY DEF IInv
<1>3. ClockInv'
  BY <1>1, <1>2, Constants DEF ClockInv
<1>4. /\ open' \in BOOLEAN /\ timed_out_sessions_' = (IF open' THEN 0 ELSE 1)
      /\ open' => open /\ ~(ChecksOn /\ (session.state = "kTeardown" \/ IsTimedOut))
  <2>1. CASE open /\ ChecksOn /\ (session.state = "kTeardown" \/ IsTimedOut)
    <3>1. open' = FALSE /\ timed_out_sessions_' = timed_out_sessions_ + 1
      BY <2>1 DEF CheckTimeouts
    <3>2. timed_out_sessions_ = 0
      BY <1>2, <2>1 DEF DataInv
    <3>3. timed_out_sessions_' = 1
      BY <3>1, <3>2
    <3> QED
      BY <3>1, <3>3, Zenon
  <2>2. CASE ~(open /\ ChecksOn /\ (session.state = "kTeardown" \/ IsTimedOut))
    BY <1>2, <2>2 DEF CheckTimeouts, DataInv
  <2> QED
    BY <2>1, <2>2
<1>5. DataInv'
  BY <1>1, <1>2, <1>4 DEF DataInv
<1>6. IdleInv'
  <2>1. SUFFICES ASSUME open', Timeout' > 0
                 PROVE  due' - Interval <= active' + Timeout' * TicksPerSec
    BY DEF IdleInv
  <2>2. Timeout' = Timeout /\ Timeout \in Nat /\ Timeout * TicksPerSec \in Nat
    BY <1>1, <1>2, TimeoutType DEF Timeout, ClockInv
  <2>3. ChecksOn
    BY <1>2, <2>1, <2>2 DEF ChecksOn, Timeout, TimeoutOf, ClockInv
  <2>4. InSeconds(now) - InSeconds(active) < Timeout
    <3>1. now \in Nat /\ active \in Nat
      BY <1>2, Constants DEF ClockInv
    <3>2. InSeconds(now) \in Nat /\ InSeconds(active) \in Nat
      BY <3>1, Constants, DivisionBounds DEF InSeconds
    <3>3. ~ (InSeconds(now) - InSeconds(active) >= Timeout)
      BY <1>2, <1>4, <2>1, <2>2, <2>3 DEF IsTimedOut, ClockInv, Timeout
    <3> QED
      BY <2>2, <3>2, <3>3
  <2>5. now - active < Timeout * TicksPerSec
    <3>1. now \in Nat /\ active \in Nat
      BY <1>2, Constants DEF ClockInv
    <3> QED
      BY <2>2, <2>4, <3>1, Constants, DivisionGapBelow DEF InSeconds
  <2>6. \A p \in Nat : now - active < p => due' - Interval <= active' + p
    BY <1>1, <1>2, Constants DEF ClockInv
  <2> QED
    BY <2>2, <2>5, <2>6
<1>7. MarkInv'
  BY <1>1, <1>4 DEF MarkInv, ChecksOn
<1>8. PhaseInv' /\ DropInv' /\ TransportInv'
  BY <1>1, <1>2 DEF PhaseInv, DropInv, Droppable, TransportInv, AgreedTransportIsUsed
<1> QED
  BY <1>3, <1>5, <1>6, <1>7, <1>8 DEF IInv

\* Time passes, and the timer is not passed by for longer than MaxDelay.
LEMMA TickStep == IInv /\ Tick => IInv'
<1> SUFFICES ASSUME IInv, Tick PROVE IInv'
  OBVIOUS
<1>1. /\ UNCHANGED <<due, timeouts, open, session, last_activity_sec_, port, agreed,
                     stream, timed_out_sessions_, total_dropped_sessions_, active,
                     marked, phase, plays>>
      /\ now < MaxNow /\ now < due + MaxDelay /\ now' = now + 1
  BY DEF Tick, setupVars, statVars, histVars
<1>2. ClockInv'
  BY <1>1, Constants DEF IInv, ClockInv
<1>3. DataInv' /\ PhaseInv' /\ DropInv' /\ TransportInv'
  BY <1>1 DEF IInv, DataInv, PhaseInv, DropInv, Droppable, TransportInv,
              AgreedTransportIsUsed
<1>4. IdleInv' /\ MarkInv'
  BY <1>1 DEF IInv, IdleInv, MarkInv, Timeout, ChecksOn
<1> QED
  BY <1>2, <1>3, <1>4 DEF IInv

\* A session that has just been accepted.
LEMMA InitIInv == Init => IInv
<1> SUFFICES ASSUME Init PROVE IInv
  OBVIOUS
<1>1. /\ now = 0 /\ due \in 1..Interval /\ open = TRUE /\ session = NewSession
      /\ timeouts \in [connection : ConnectionTimeouts, session : SessionTimeouts]
      /\ last_activity_sec_ = InSeconds(now) /\ port = <<0, 0>> /\ agreed = NotAgreed
      /\ stream = "idle" /\ timed_out_sessions_ = 0 /\ total_dropped_sessions_ = 0
      /\ active = now /\ marked = 0 /\ phase = "handshake" /\ plays = 0
  BY DEF Init
<1>2. timeouts \in [connection : Nat, session : Nat]
  BY <1>1, TimelineAssumption
<1>3. ClockInv
  BY <1>1, <1>2, Constants DEF ClockInv
<1>4. /\ NewSession \in Sessions /\ NewSession.state = "kInit"
      /\ NewSession.is_udp = FALSE
  BY Constants DEF NewSession, Sessions, State, NoFd
<1>5. NotAgreed \in Agreements /\ NotAgreed.mode = "none" /\ NotAgreed.udpBefore = FALSE
  BY DEF NotAgreed, Agreements
<1>6. 0 \in Ports
  <2>1. Word \in Nat \ {0}
    BY DEF Word
  <2> QED
    BY <2>1 DEF Ports
<1>7. DataInv
  BY <1>1, <1>4, <1>5, <1>6 DEF DataInv
<1>8. IdleInv
  <2>1. Timeout \in Nat /\ Timeout * TicksPerSec \in Nat
    BY <1>2, TimeoutType DEF Timeout
  <2>2. \A p \in Nat : due - Interval <= active + p
    BY <1>1, Constants
  <2> QED
    BY <2>1, <2>2 DEF IdleInv
<1>9. MarkInv /\ PhaseInv
  BY <1>1, <1>4 DEF MarkInv, PhaseInv
<1>10. DropInv
  BY <1>1, <1>4 DEF DropInv, Droppable
<1>11. TransportInv
  BY <1>1, <1>4, <1>5 DEF TransportInv, AgreedTransportIsUsed
<1> QED
  BY <1>3, <1>7, <1>8, <1>9, <1>10, <1>11 DEF IInv

\* Every step keeps the invariant.
LEMMA NextIInv == IInv /\ [Next]_vars => IInv'
<1> SUFFICES ASSUME IInv, [Next]_vars PROVE IInv'
  OBVIOUS
<1>1. ASSUME NEW header \in Transports, NEW udpOk \in BOOLEAN,
             SetupRequest(header, udpOk)
      PROVE  IInv'
  BY <1>1, SetupStep, ParseTransportFacts DEF SetupRequest
<1>2. CASE Setup(NoTransport, TRUE)
  <2>1. NoTransport.client_port \in Int \X Int
    BY DEF NoTransport
  <2> QED
    BY <1>2, <2>1, SetupStep
<1>3. CASE UNCHANGED vars
  <2>1. UNCHANGED <<now, due, timeouts, open, session, last_activity_sec_, port, agreed,
                    stream, timed_out_sessions_, total_dropped_sessions_, active,
                    marked, phase, plays>>
    BY <1>3 DEF vars, clockVars, setupVars, statVars, histVars
  <2>2. ClockInv' /\ DataInv' /\ PhaseInv' /\ DropInv' /\ TransportInv'
    BY <2>1 DEF IInv, ClockInv, DataInv, PhaseInv, DropInv, Droppable, TransportInv,
                AgreedTransportIsUsed
  <2>3. IdleInv' /\ MarkInv'
    BY <2>1 DEF IInv, IdleInv, MarkInv, Timeout, ChecksOn
  <2> QED
    BY <2>2, <2>3 DEF IInv
<1> QED
  BY <1>1, <1>2, <1>3, AskStep, SnapshotStep, ForwardStep, CheckTimeoutsStep, TickStep
     DEF Next

-----------------------------------------------------------------------------
\* The inductive invariant holds throughout.
THEOREM TimelineInvariant == Spec => []IInv
  BY InitIInv, NextIInv, PTL DEF Spec

\* The types, for every choice of the constants: the timer stays within an
\* interval of the clock, ports fit a uint16_t, and the session is closed by the
\* timer at most once.
THEOREM TimelineTypeCorrect == Spec => []TypeOK
<1>1. IInv => TypeOK
  <2> SUFFICES ASSUME IInv PROVE TypeOK
    OBVIOUS
  <2>1. ClockInv /\ DataInv
    BY DEF IInv
  <2>2. now \in 0..MaxNow /\ due \in 1..MaxNow+Interval /\ now <= due + MaxDelay
    BY <2>1, Constants DEF ClockInv
  <2>3. last_activity_sec_ \in 0..InSeconds(now)
    <3>1. now \in Nat /\ active \in Nat /\ active <= now
      BY <2>1, Constants DEF ClockInv
    <3>2. InSeconds(now) \in Nat /\ InSeconds(active) \in Nat
          /\ InSeconds(active) <= InSeconds(now)
      BY <3>1, Constants, DivisionBounds, DivisionMonotone DEF InSeconds
    <3> QED
      BY <2>1, <3>2 DEF ClockInv
  <2>4. session.state \in State /\ session.drops \in Nat
    BY <2>1 DEF DataInv, Sessions
  <2>5. timed_out_sessions_ \in 0..1
    BY <2>1 DEF DataInv
  <2> QED
    BY <2>1, <2>2, <2>3, <2>4, <2>5 DEF TypeOK, DataInv
<1> QED
  BY <1>1, TimelineInvariant, PTL

\* No session is idle for longer than its timeout, one interval and the delay of
\* the epoll thread (rtsp_session.cc:46, 60, 88-111, rtsp_server.cc:471-504).
THEOREM TimelineIdleIsClosed == Spec => []IdleIsClosed
<1>1. IInv => IdleIsClosed
  <2> SUFFICES ASSUME IInv, open, Timeout > 0
               PROVE  now - active <= Timeout * TicksPerSec + Interval + MaxDelay
    BY DEF IdleIsClosed, Timeout
  <2>1. Timeout * TicksPerSec \in Nat /\ due - Interval <= active + Timeout * TicksPerSec
    BY TimeoutType DEF IInv, ClockInv, IdleInv, Timeout
  <2>2. \A p \in Nat : due - Interval <= active + p
                         => now - active <= p + Interval + MaxDelay
    BY Constants DEF IInv, ClockInv
  <2> QED
    BY <2>1, <2>2
<1> QED
  BY <1>1, TimelineInvariant, PTL

\* A mark that stays is acted on within an interval and the delay, whichever is
\* switched off of the timeouts, unless both are (rtsp_server.cc:217, 474-489).
THEOREM TimelineMarkedIsClosedInTime == Spec => []MarkedIsClosedInTime
<1>1. IInv => MarkedIsClosedInTime
  BY Constants DEF IInv, ClockInv, MarkInv, MarkedIsClosedInTime, ChecksOn
<1> QED
  BY <1>1, TimelineInvariant, PTL

\* A slow client is counted at most once for each PLAY (rtsp_server.cc:192,
\* 210-217).
THEOREM TimelineDroppedOncePerPlay == Spec => []DroppedOncePerPlay
<1>1. IInv => DroppedOncePerPlay
  BY DEF IInv, DataInv, DropInv, Droppable, DroppedOncePerPlay
<1> QED
  BY <1>1, TimelineInvariant, PTL

\* RTP goes the way that was agreed on, for every Transport header
\* (rtsp_session.cc:224-256, 268-276, 62-78, rtsp_parser.cc:175-190).
THEOREM TimelineAgreedTransportIsUsed == Spec => []AgreedTransportIsUsed
<1>1. IInv => AgreedTransportIsUsed
  BY DEF IInv, TransportInv
<1> QED
  BY <1>1, TimelineInvariant, PTL

\* No session is closed as idle before its timeout, less a second, is over, and
\* the timeout is the one of its phase (rtsp_session.cc:88-111, 165, 184).
THEOREM TimelineNotClosedEarly == Spec => NotClosedEarly
<1> DEFINE Early ==
      (timed_out_sessions_' # timed_out_sessions_ /\ session.state # "kTeardown")
      => LET timeout == IF phase = "established" THEN timeouts.session
                                                 ELSE timeouts.connection
         IN timeout > 0 /\ now - active > (timeout - 1) * TicksPerSec
<1>1. IInv /\ [Next]_vars => [Early]_vars
  <2> SUFFICES ASSUME IInv, [Next]_vars,
                      timed_out_sessions_' # timed_out_sessions_,
                      session.state # "kTeardown"
               PROVE  LET timeout == IF phase = "established" THEN timeouts.session
                                     ELSE timeouts.connection
                      IN timeout > 0 /\ now - active > (timeout - 1) * TicksPerSec
    OBVIOUS
  <2>1. CheckTimeouts /\ IsTimedOut
    <3>1. timed_out_sessions_' = timed_out_sessions_ \/ CheckTimeouts
      BY DEF Next, Ask, SetupRequest, Setup, Process, Snapshot, Forward, Tick, statVars,
             vars
    <3> QED
      BY <3>1 DEF CheckTimeouts
  <2>2. ClockInv /\ DataInv /\ PhaseInv
    BY DEF IInv
  <2>3. Timeout = IF phase = "established" THEN timeouts.session
                  ELSE timeouts.connection
    BY <2>2 DEF Timeout, TimeoutOf, PhaseInv, DataInv, Sessions, State
  <2>4. Timeout \in Nat /\ Timeout > 0 /\ InSeconds(now) - InSeconds(active) >= Timeout
    BY <2>1, <2>2, TimeoutType DEF IsTimedOut, Timeout, ClockInv
  <2>5. now \in Nat /\ active \in Nat
    BY <2>2, Constants DEF ClockInv
  <2>6. now - active > (Timeout - 1) * TicksPerSec
    BY <2>4, <2>5, Constants, DivisionGapAbove DEF InSeconds
  <2> QED
    BY <2>3, <2>4, <2>6, Zenon
<1> QED
  BY <1>1, TimelineInvariant, PTL DEF Spec, NotClosedEarly

\* SETUP takes the mode of an alternative that was offered and, over UDP, the
\* ports of that alternative; it refuses only if TCP is not offered and no socket
\* can be had, no port is given, or the one that counts is 0, for every header
\* (rtsp_parser.cc:157-227, rtsp_session.cc:201-280).
THEOREM TimelineSetupTakesAnOffer == Spec => SetupTakesAnOffer
<1> DEFINE Taken(header) ==
             /\ session'.state = "kSetupSent"
             /\ \E k \in DOMAIN header :
                  /\ Offers(header[k], agreed'.mode)
                  /\ agreed'.mode = "UDP" =>
                       agreed'.ports = Pair(header[k].client_port, IntSize)
           Refused(header, udpOk) ==
             /\ UNCHANGED <<session, agreed>>
             /\ \A k \in DOMAIN header :
                  /\ ~Offers(header[k], "TCP")
                  /\ udpOk /\ Offers(header[k], "UDP") =>
                       \E j \in 1..k-1 : /\ header[j].client_port # <<>>
                                         /\ ~Offers(header[j], "UDP")
<1>1. ASSUME IInv, NEW header \in Transports, NEW udpOk \in BOOLEAN,
             SetupRequest(header, udpOk)
      PROVE  Taken(header) \/ Refused(header, udpOk)
  <2> DEFINE info == ParseTransport(header, IntSize)
             request == SetupKind(info)
             code == ReplyCode(request, TRUE, udpOk)
             field == Field(header, "client_port")
  <2>1. /\ Process(request, code)
        /\ agreed' = IF code # 200 THEN agreed
                     ELSE [mode |-> IF request = "SETUP_UDP" /\ code = 200 THEN "UDP"
                                    ELSE "TCP",
                           ports |-> IF request = "SETUP_UDP" /\ code = 200
                                     THEN info.client_port ELSE <<0, 0>>,
                           udpBefore |-> (request = "SETUP_UDP" /\ code = 200)
                                         \/ agreed.udpBefore]
    BY <1>1, ZenonT(30) DEF SetupRequest, Setup
  <2>2. /\ info.is_udp = ~Contains(header, "TCP")
        /\ info.is_tcp = Contains(header, "TCP")
        /\ info.client_port = Pair(field, IntSize)
    BY ParseTransportFacts, Zenon
  <2>a. request = SetupKind(info)
    OBVIOUS
  <2>b. code = ReplyCode(request, TRUE, udpOk)
    OBVIOUS
  <2>c. \/ field = <<>> /\ \A k \in DOMAIN header : header[k].client_port = <<>>
        \/ \E m \in DOMAIN header :
             /\ field = header[m].client_port /\ header[m].client_port # <<>>
             /\ \A k \in DOMAIN header : header[k].client_port # <<>> => m <= k
    BY FieldFacts
  <2> HIDE DEF info, request, code, field
  <2>3. /\ request \in {"SETUP_NOPORT", "SETUP_UDP", "SETUP_TCP", "SETUP_OTHER"}
        /\ code \in Int
        /\ request = "SETUP_UDP" => code = IF udpOk THEN 200 ELSE 500
        /\ request = "SETUP_TCP" => code = 200
        /\ request \in {"SETUP_NOPORT", "SETUP_OTHER"} => code = 461
    <3>1. request \in {"SETUP_NOPORT", "SETUP_UDP", "SETUP_TCP", "SETUP_OTHER"}
      BY <2>a, SetupKinds
    <3>2. /\ request = "SETUP_UDP" => code = IF udpOk THEN 200 ELSE 500
          /\ request = "SETUP_TCP" => code = 200
          /\ request \in {"SETUP_NOPORT", "SETUP_OTHER"} => code = 461
      BY <2>b DEF ReplyCode
    <3> QED
      BY <3>1, <3>2
  <2>4. /\ request = "SETUP_TCP" => Contains(header, "TCP")
        /\ request # "SETUP_TCP" => ~Contains(header, "TCP")
        /\ request = "SETUP_UDP" => Pair(field, IntSize)[1] # 0
        /\ request \in {"SETUP_NOPORT", "SETUP_OTHER"} => Pair(field, IntSize)[1] = 0
    <3>1. CASE Contains(header, "TCP")
      <4>1. ~info.is_udp /\ info.is_tcp
        BY <2>2, <3>1, Zenon
      <4>2. request = "SETUP_TCP"
        BY <2>a, <4>1 DEF SetupKind
      <4> QED
        BY <3>1, <4>2
    <3>2. CASE ~Contains(header, "TCP")
      <4>1. info.is_udp
        BY <2>2, <3>2, Zenon
      <4>2. request = IF info.client_port[1] = 0 THEN "SETUP_NOPORT" ELSE "SETUP_UDP"
        BY <2>a, <4>1 DEF SetupKind
      <4> QED
        BY <2>2, <3>2, <4>2
    <3> QED
      BY <3>1, <3>2
  <2>5. \A k \in DOMAIN header :
          /\ Offers(header[k], "TCP") <=> "TCP" \in header[k].names
          /\ Offers(header[k], "UDP") <=>
               /\ "TCP" \notin header[k].names
               /\ Pair(header[k].client_port, IntSize)[1] # 0
    BY DEF Offers
  <2>6. Contains(header, "TCP") <=> \E k \in DOMAIN header : "TCP" \in header[k].names
    BY DEF Contains
  <2>7. \A k \in DOMAIN header : header[k].client_port = <<>> =>
          Pair(header[k].client_port, IntSize)[1] = 0
    BY ClientPortType, PairFacts
  <2>8. session'.state = NextState(session.state, request, code)
    <3>1. request \in Request
      BY <2>3 DEF Request
    <3> QED
      BY <1>1, <2>1, <2>3, <3>1, ProcessFacts
  <2>9. CASE code = 200 /\ request = "SETUP_TCP"
    <3>1. session'.state = "kSetupSent"
      BY <2>8, <2>9 DEF NextState
    <3>2. agreed'.mode = "TCP"
      BY <2>1, <2>9
    <3>3. PICK k \in DOMAIN header : "TCP" \in header[k].names
      BY <2>4, <2>6, <2>9
    <3>4. Offers(header[k], agreed'.mode) /\ agreed'.mode # "UDP"
      BY <2>5, <3>2, <3>3
    <3> QED
      BY <3>1, <3>3, <3>4
  <2>10. CASE code = 200 /\ request = "SETUP_UDP"
    <3>1. session'.state = "kSetupSent"
      BY <2>8, <2>10 DEF NextState
    <3>2. agreed'.mode = "UDP" /\ agreed'.ports = Pair(field, IntSize)
      BY <2>1, <2>2, <2>10
    <3>3. field # <<>>
      <4>1. Pair(<<>>, IntSize)[1] = 0
        <5>1. <<>> \in Seq(Int) /\ Len(<<>>) = 0
          BY EmptySeq
        <5>2. Len(<<>>) \in Nat /\ Len(<<>>) <= 2
          BY <5>1
        <5> QED
          BY <5>1, <5>2, PairFacts
      <4> QED
        BY <2>4, <2>10, <4>1
    <3>4. PICK m \in DOMAIN header : field = header[m].client_port
      BY <2>c, <3>3
    <3>5. Offers(header[m], "UDP")
      BY <2>4, <2>5, <2>6, <2>10, <3>4
    <3> QED
      BY <3>1, <3>2, <3>4, <3>5
  <2>11. CASE code # 200
    <3>1. agreed' = agreed
      BY <2>1, <2>11
    <3>2. session' = session
      <4>1. session \in Sessions
        BY <1>1 DEF IInv, DataInv
      <4>2. session' = AfterReply(BeforeReply(session, request, code, 1), request, code)
        BY <2>1 DEF Process
      <4>3. request # "PLAY" /\ request # "TEARDOWN"
        BY <2>3
      <4>4. BeforeReply(session, request, code, 1) = session
        BY <2>11, <4>1, <4>3, Zenon DEF BeforeReply, Sessions
      <4>5. NextState(session.state, request, code) = session.state
        BY <2>11 DEF NextState
      <4> QED
        BY <4>1, <4>2, <4>3, <4>4, <4>5, Zenon DEF AfterReply, Sessions
    <3>3. ~Contains(header, "TCP")
      BY <2>3, <2>4, <2>11
    <3>4. ASSUME NEW k \in DOMAIN header, udpOk, Offers(header[k], "UDP")
          PROVE  \E j \in 1..k-1 : /\ header[j].client_port # <<>>
                                   /\ ~Offers(header[j], "UDP")
      <4>1. Pair(field, IntSize)[1] = 0
        BY <2>3, <2>4, <2>11, <3>4
      <4>2. Pair(header[k].client_port, IntSize)[1] # 0 /\ header[k].client_port # <<>>
        BY <2>5, <2>7, <3>4
      <4>3. PICK m \in DOMAIN header :
              /\ field = header[m].client_port /\ header[m].client_port # <<>>
              /\ m <= k
        BY <2>c, <4>2
      <4>4. m # k /\ ~Offers(header[m], "UDP")
        BY <2>5, <4>1, <4>2, <4>3
      <4>5. m \in 1..k-1
        <5>1. DOMAIN header \subseteq Nat \ {0}
          BY TransportsAssumption, LenProperties
        <5> QED
          BY <4>3, <4>4, <5>1
      <4> QED
        BY <4>3, <4>4, <4>5
    <3>5. \A k \in DOMAIN header : ~Offers(header[k], "TCP")
      BY <2>5, <2>6, <3>3
    <3> QED
      BY <3>1, <3>2, <3>4, <3>5
  <2> QED
    BY <2>3, <2>9, <2>10, <2>11
<1>2. IInv => \A header \in Transports, udpOk \in BOOLEAN :
                SetupRequest(header, udpOk) =>
                  \/ /\ session'.state = "kSetupSent"
                     /\ \E k \in DOMAIN header :
                          /\ Offers(header[k], agreed'.mode)
                          /\ agreed'.mode = "UDP" =>
                               agreed'.ports = Pair(header[k].client_port, IntSize)
                  \/ /\ UNCHANGED <<session, agreed>>
                     /\ \A k \in DOMAIN header :
                          /\ ~Offers(header[k], "TCP")
                          /\ udpOk /\ Offers(header[k], "UDP") =>
                               \E j \in 1..k-1 : /\ header[j].client_port # <<>>
                                                 /\ ~Offers(header[j], "UDP")
  BY <1>1
<1> QED
  BY <1>2, TimelineInvariant, PTL DEF Spec, SetupTakesAnOffer

=============================================================================
