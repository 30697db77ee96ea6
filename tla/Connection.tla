----------------------------- MODULE Connection -----------------------------
(***************************************************************************)
(* One TCP client as two threads share it (src/net/connection.cc and the   *)
(* callers of it in src/core/rtsp_server.cc).  The epoll thread "main"     *)
(* answers requests with Send and drains the write buffer with Flush; the  *)
(* thread "stream" forwards RTP frames with SendV.  send_mutex_ serialises *)
(* the socket and write_buffer_; the epoll interest of the fd is shared    *)
(* without a lock.  A thread keeps send_mutex_ across a step only while it *)
(* is inside a send() or writev() that blocks.                             *)
(*                                                                         *)
(* write_buffer_ is the byte queue of ByteFifo (RingBuffer implements it). *)
(* IsClosed is false throughout: only ~Connection closes the fd, and both  *)
(* threads hold the session while they use it.                             *)
(***************************************************************************)
EXTENDS Integers, Sequences

CONSTANTS
  BufferSize,         \* capacity of write_buffer_
  SendRoom,           \* bytes the kernel takes before the client reads any
  HeaderLen,          \* bytes of the interleaved header (4 in the code)
  PayloadLen,         \* bytes of an RTP packet
  ResponseLen,        \* bytes of an RTSP response
  MaxDrops,           \* kMaxConsecutiveDrops
  NonBlocking,        \* the O_NONBLOCK settings the accepted fd may have
  MaxPackets,         \* bound: packets the stream thread forwards
  MaxResponses,       \* bound: requests the client sends
  MaxInterrupts       \* bound: signals that interrupt a blocked call

ASSUME SizesAssumption ==
  /\ {BufferSize, SendRoom, HeaderLen, PayloadLen, ResponseLen, MaxDrops}
       \subseteq Nat \ {0}
  /\ {MaxPackets, MaxResponses, MaxInterrupts} \subseteq Nat
  /\ NonBlocking \subseteq BOOLEAN

VARIABLES
  pc,                 \* where each thread is in its handler
  send_mutex_,        \* the thread inside a blocked call, or "free"
  write_buffer_,      \* bytes accepted but not yet given to the kernel
  consecutive_drops_,
  teardown,           \* the session is marked kTeardown
  interest,           \* the events the fd is registered for
  registered,         \* the fd is in the epoll set and in sessions_
  nonblocking,        \* O_NONBLOCK of the fd, set once at accept
  wire,               \* every byte the kernel took, in order
  clientRead,         \* how many of those the client has read
  peerReset,          \* the client reset the connection
  call,               \* the blocked call: bytes already taken, bytes left
  issued,             \* number of messages each thread has sent so far
  returned,           \* what Send or SendV returned for each of them
  interrupts

connVars == <<send_mutex_, write_buffer_, consecutive_drops_, teardown>>
epollVars == <<interest, registered>>
kernelVars == <<nonblocking, wire, clientRead, peerReset, call, interrupts>>
histVars == <<issued, returned>>
vars == <<pc, connVars, epollVars, kernelVars, histVars>>

Thread == {"main", "stream"}

\* The n-th message of thread t is the bytes Byte(t, n, 1), Byte(t, n, 2), ...
Byte(t, n, i) == [from |-> t, seq |-> n, off |-> i]
MessageLen == [main |-> ResponseLen, stream |-> HeaderLen + PayloadLen]

\* A message as the iovec it is sent from: a frame has a header and a body, a
\* response only a body.
Message(t, n) ==
  LET split == IF t = "stream" THEN HeaderLen ELSE 0
  IN [head |-> [i \in 1..split |-> Byte(t, n, i)],
      body |-> [i \in 1..MessageLen[t] - split |-> Byte(t, n, split + i)]]

Smaller(m, n) == IF m < n THEN m ELSE n
Take(s, n) == SubSeq(s, 1, Smaller(n, Len(s)))
Drop(s, n) == SubSeq(s, n + 1, Len(s))

\* What is left of an iovec once its first n bytes are gone.
Skip(msg, n) ==
  [head |-> Drop(msg.head, n),
   body |-> IF n > Len(msg.head) THEN Drop(msg.body, n - Len(msg.head))
                                 ELSE msg.body]

\* Mutant: the room in the buffer is not checked.
FitsAlways(buffer, msg) == TRUE

\* RingBuffer::Write for each part of an iovec in turn: a part goes in whole
\* or ends the loop.
Fits(buffer, msg) == Len(buffer) + Len(msg.head) + Len(msg.body) <= BufferSize
Buffered(buffer, msg) ==
  IF Fits(buffer, msg) THEN buffer \o msg.head \o msg.body
  ELSE IF Len(buffer) + Len(msg.head) <= BufferSize THEN buffer \o msg.head
  ELSE buffer

NoCall == [sent |-> 0, left |-> [head |-> <<>>, body |-> <<>>]]
Unsent == call.left.head \o call.left.body

Room == SendRoom - (Len(wire) - clientRead)

-----------------------------------------------------------------------------
Init ==
  /\ pc = [t \in Thread |-> "idle"]
  /\ send_mutex_ = "free"
  /\ write_buffer_ = <<>>
  /\ consecutive_drops_ = 0
  /\ teardown = FALSE
  /\ interest = {"R"}
  /\ registered = TRUE
  /\ nonblocking \in NonBlocking
  /\ wire = <<>>
  /\ clientRead = 0
  /\ peerReset = FALSE
  /\ call = NoCall
  /\ issued = [t \in Thread |-> 0]
  /\ returned = [t \in Thread |-> <<>>]
  /\ interrupts = 0

Goto(t, step) == pc' = [pc EXCEPT ![t] = step]

\* Send or SendV of thread t returns: "whole" is the full length, "cut" a
\* smaller positive count, "failed" is -1.  The count of a "cut" is what the
\* kernel took; part of the rest may be in the buffer too.  main ignores the result, the stream
\* thread takes any positive count as success.
Return(t, result) ==
  /\ returned' = [returned EXCEPT ![t] = Append(@, result)]
  /\ Goto(t, IF t = "main" THEN "sent"
             ELSE IF result = "failed" THEN "failed" ELSE "sent")
  /\ UNCHANGED issued

\* ModifyFd: an fd that is not registered is tolerated (ENOENT).
ModifyFd(events) == interest' = IF registered THEN events ELSE interest

-----------------------------------------------------------------------------
\* Send (main, a response) and SendV (stream, a frame), once they have the
\* mutex.  The alternatives are the branches of the two functions.

SendBuffered(t, msg) ==
  /\ write_buffer_ # <<>>
  /\ write_buffer_' = Buffered(write_buffer_, msg)
  /\ Return(t, IF Fits(write_buffer_, msg) THEN "whole" ELSE "failed")
  /\ UNCHANGED <<send_mutex_, wire, call>>

\* Mutant: a message overtakes what is buffered.
SendPastBuffer(t, msg) ==
  /\ ~peerReset
  /\ Room >= Len(msg.head) + Len(msg.body)
  /\ wire' = wire \o msg.head \o msg.body
  /\ Return(t, "whole")
  /\ UNCHANGED <<send_mutex_, write_buffer_, call>>

\* The kernel takes everything.
SendDirect(t, msg) ==
  /\ write_buffer_ = <<>> /\ ~peerReset
  /\ Room >= Len(msg.head) + Len(msg.body)
  /\ wire' = wire \o msg.head \o msg.body
  /\ Return(t, "whole")
  /\ UNCHANGED <<send_mutex_, write_buffer_, call>>

\* Mutant: the rest of a short count is forgotten.
LoseRest(t, taken, rest) == Return(t, "whole") /\ UNCHANGED write_buffer_

\* A short count: what the kernel did not take is buffered, if it fits.  Else
\* the count is returned, although SendV has buffered the parts that did fit, so
\* that it may be less than the message has left in the stream.
KeepRest(t, taken, rest) ==
  /\ write_buffer_' = Buffered(<<>>, rest)
  /\ Return(t, IF Fits(<<>>, rest) THEN "whole"
               ELSE IF taken > 0 THEN "cut" ELSE "failed")

\* Mutant: EAGAIN waits for room.
SendShortWaits(t, msg) ==
  /\ write_buffer_ = <<>> /\ ~peerReset /\ nonblocking
  /\ Room < Len(msg.head) + Len(msg.body) /\ Room > 0
  /\ wire' = wire \o Take(msg.head \o msg.body, Room)
  /\ KeepRest(t, Room, Skip(msg, Room))
  /\ UNCHANGED <<send_mutex_, call>>

\* O_NONBLOCK, not enough room: a short count, or EAGAIN when there is none.
SendShort(t, msg) ==
  /\ write_buffer_ = <<>> /\ ~peerReset /\ nonblocking
  /\ Room < Len(msg.head) + Len(msg.body)
  /\ wire' = wire \o Take(msg.head \o msg.body, Room)
  /\ KeepRest(t, Room, Skip(msg, Room))
  /\ UNCHANGED <<send_mutex_, call>>

\* Mutant: the call is made without the mutex.
SendBlocksUnlocked(t, msg) ==
  /\ write_buffer_ = <<>> /\ ~peerReset /\ ~nonblocking
  /\ Room < Len(msg.head) + Len(msg.body)
  /\ wire' = wire \o Take(msg.head \o msg.body, Room)
  /\ call' = [sent |-> Room, left |-> Skip(msg, Room)]
  /\ Goto(t, "blocked")
  /\ UNCHANGED <<send_mutex_, write_buffer_, issued, returned>>

\* A blocking fd: the call takes what fits and sleeps, with the mutex held.
SendBlocks(t, msg) ==
  /\ write_buffer_ = <<>> /\ ~peerReset /\ ~nonblocking
  /\ Room < Len(msg.head) + Len(msg.body)
  /\ wire' = wire \o Take(msg.head \o msg.body, Room)
  /\ call' = [sent |-> Room, left |-> Skip(msg, Room)]
  /\ send_mutex_' = t
  /\ Goto(t, "blocked")
  /\ UNCHANGED <<write_buffer_, issued, returned>>

\* ECONNRESET or EPIPE.
SendError(t, msg) ==
  /\ write_buffer_ = <<>> /\ peerReset
  /\ Return(t, "failed")
  /\ UNCHANGED <<send_mutex_, write_buffer_, wire, call>>

Send(t) ==
  /\ pc[t] = "send" /\ send_mutex_ = "free"
  /\ LET msg == Message(t, issued[t])
     IN \/ SendBuffered(t, msg)
        \/ SendDirect(t, msg)
        \/ SendShort(t, msg)
        \/ SendBlocks(t, msg)
        \/ SendError(t, msg)
  /\ UNCHANGED <<consecutive_drops_, teardown, epollVars, nonblocking,
                 clientRead, peerReset, interrupts>>

\* Mutant: the mutex is not released when the call returns.
SendResumesLocked(t) ==
  /\ pc[t] = "blocked" /\ Room >= Len(Unsent) /\ ~peerReset
  /\ wire' = wire \o Unsent
  /\ call' = NoCall
  /\ Return(t, "whole")
  /\ UNCHANGED <<send_mutex_, write_buffer_, consecutive_drops_, teardown,
                 epollVars, nonblocking, clientRead, peerReset, interrupts>>

\* The client made room: the blocked call goes on, and returns when all is taken.
SendResumes(t) ==
  /\ pc[t] = "blocked" /\ Room > 0 /\ ~peerReset
  /\ wire' = wire \o Take(Unsent, Room)
  /\ IF Room >= Len(Unsent)
     THEN /\ call' = NoCall
          /\ send_mutex_' = "free"
          /\ Return(t, "whole")
     ELSE /\ call' = [sent |-> call.sent + Room, left |-> Skip(call.left, Room)]
          /\ UNCHANGED <<pc, send_mutex_, histVars>>
  /\ UNCHANGED <<write_buffer_, consecutive_drops_, teardown, epollVars,
                 nonblocking, clientRead, peerReset, interrupts>>

\* What ends a blocked call early: a signal handler, or the client's reset.
Cut == \/ interrupts < MaxInterrupts /\ interrupts' = interrupts + 1
       \/ peerReset /\ UNCHANGED interrupts

\* It returns the count so far, or -1 if that is zero (EINTR, ECONNRESET).
SendCut(t) ==
  /\ pc[t] = "blocked" /\ Cut
  /\ IF call.sent > 0
     THEN KeepRest(t, call.sent, call.left)
     ELSE Return(t, "failed") /\ UNCHANGED write_buffer_
  /\ call' = NoCall
  /\ send_mutex_' = "free"
  /\ UNCHANGED <<consecutive_drops_, teardown, epollVars, nonblocking, wire,
                 clientRead, peerReset>>

-----------------------------------------------------------------------------
\* The stream thread: BroadcastRtp for this session.

\* The session is in the snapshot only if it is registered and playing.
Broadcast ==
  /\ pc["stream"] = "idle"
  /\ registered /\ ~teardown
  /\ issued["stream"] < MaxPackets
  /\ issued' = [issued EXCEPT !["stream"] = @ + 1]
  /\ Goto("stream", "send")
  /\ UNCHANGED <<connVars, epollVars, kernelVars, returned>>

\* ForwardRtp failed: RecordDrop, and the mark once the drops reach the limit.
ForwardFailed ==
  /\ pc["stream"] = "failed" /\ send_mutex_ = "free"
  /\ consecutive_drops_' = consecutive_drops_ + 1
  /\ teardown' = (teardown \/ consecutive_drops_ + 1 >= MaxDrops)
  /\ Goto("stream", "idle")
  /\ UNCHANGED <<send_mutex_, write_buffer_, epollVars, kernelVars, histVars>>

\* It succeeded: RecordSuccess, NeedFlush.
ForwardDone ==
  /\ pc["stream"] = "sent" /\ send_mutex_ = "free"
  /\ consecutive_drops_' = 0
  /\ Goto("stream", IF write_buffer_ = <<>> THEN "idle" ELSE "arm")
  /\ UNCHANGED <<send_mutex_, write_buffer_, teardown, epollVars, kernelVars,
                 histVars>>

\* ModifyFd(kRead | kWrite), by either thread.
Arm(t) ==
  /\ pc[t] = "arm"
  /\ ModifyFd({"R", "W"})
  /\ Goto(t, "idle")
  /\ UNCHANGED <<connVars, registered, kernelVars, histVars>>

-----------------------------------------------------------------------------
\* The epoll thread.  Events are level triggered.

\* OnRead with one complete request in the buffer.
OnRead ==
  /\ pc["main"] = "idle" /\ registered /\ ~peerReset
  /\ issued["main"] < MaxResponses
  /\ issued' = [issued EXCEPT !["main"] = @ + 1]
  /\ Goto("main", "send")
  /\ UNCHANGED <<connVars, epollVars, kernelVars, returned>>

\* The rest of ProcessData, where the request sets the state of the session
\* whatever it was (TEARDOWN marks it, PLAY takes a mark away), then NeedFlush.
Responded ==
  /\ pc["main"] = "sent" /\ send_mutex_ = "free"
  /\ teardown' \in BOOLEAN
  /\ Goto("main", IF write_buffer_ = <<>> THEN "idle" ELSE "arm")
  /\ UNCHANGED <<send_mutex_, write_buffer_, consecutive_drops_, epollVars,
                 kernelVars, histVars>>

OnWrite ==
  /\ pc["main"] = "idle" /\ registered
  /\ "W" \in interest
  /\ Room > 0 \/ peerReset
  /\ Goto("main", "flush")
  /\ UNCHANGED <<connVars, epollVars, kernelVars, histVars>>

CloseConnection ==
  /\ registered' = FALSE
  /\ interest' = {}

\* Mutant: the whole buffer is consumed, though the kernel took less.
FlushConsumesAll ==
  /\ pc["main"] = "flush" /\ send_mutex_ = "free"
  /\ ~peerReset \/ write_buffer_ = <<>>
  /\ nonblocking \/ Room >= Len(write_buffer_)
  /\ wire' = wire \o Take(write_buffer_, Room)
  /\ write_buffer_' = <<>>
  /\ Goto("main", "flushed")
  /\ UNCHANGED <<send_mutex_, consecutive_drops_, teardown, epollVars,
                 nonblocking, clientRead, peerReset, call, interrupts, histVars>>

\* Flush: one send or writev of everything buffered, then Consume of what it
\* returned; EAGAIN counts as nothing sent.
Flush ==
  /\ pc["main"] = "flush" /\ send_mutex_ = "free"
  /\ ~peerReset \/ write_buffer_ = <<>>
  /\ nonblocking \/ Room >= Len(write_buffer_)
  /\ wire' = wire \o Take(write_buffer_, Room)
  /\ write_buffer_' = Drop(write_buffer_, Smaller(Room, Len(write_buffer_)))
  /\ Goto("main", "flushed")
  /\ UNCHANGED <<send_mutex_, consecutive_drops_, teardown, epollVars,
                 nonblocking, clientRead, peerReset, call, interrupts, histVars>>

\* On a blocking fd the call sleeps until the whole buffer is taken.
FlushBlocks ==
  /\ pc["main"] = "flush" /\ send_mutex_ = "free"
  /\ ~peerReset /\ ~nonblocking /\ Room < Len(write_buffer_)
  /\ wire' = wire \o Take(write_buffer_, Room)
  /\ call' = [sent |-> Room,
              left |-> [head |-> <<>>, body |-> Drop(write_buffer_, Room)]]
  /\ send_mutex_' = "main"
  /\ Goto("main", "flushing")
  /\ UNCHANGED <<write_buffer_, consecutive_drops_, teardown, epollVars,
                 nonblocking, clientRead, peerReset, interrupts, histVars>>

FlushResumes ==
  /\ pc["main"] = "flushing" /\ Room > 0 /\ ~peerReset
  /\ wire' = wire \o Take(Unsent, Room)
  /\ IF Room >= Len(Unsent)
     THEN /\ write_buffer_' = <<>>
          /\ call' = NoCall
          /\ send_mutex_' = "free"
          /\ Goto("main", "flushed")
     ELSE /\ call' = [sent |-> call.sent + Room, left |-> Skip(call.left, Room)]
          /\ UNCHANGED <<write_buffer_, send_mutex_, pc>>
  /\ UNCHANGED <<consecutive_drops_, teardown, epollVars, nonblocking,
                 clientRead, peerReset, interrupts, histVars>>

\* A short count is consumed; -1 closes the connection.
FlushCut ==
  /\ pc["main"] = "flushing" /\ Cut
  /\ IF call.sent > 0
     THEN /\ write_buffer_' = Drop(write_buffer_, call.sent)
          /\ Goto("main", "flushed")
          /\ UNCHANGED epollVars
     ELSE /\ CloseConnection
          /\ Goto("main", "idle")
          /\ UNCHANGED write_buffer_
  /\ call' = NoCall
  /\ send_mutex_' = "free"
  /\ UNCHANGED <<consecutive_drops_, teardown, nonblocking, wire, clientRead,
                 peerReset, histVars>>

FlushError ==
  /\ pc["main"] = "flush" /\ send_mutex_ = "free"
  /\ peerReset /\ write_buffer_ # <<>>
  /\ CloseConnection
  /\ Goto("main", "idle")
  /\ UNCHANGED <<connVars, kernelVars, histVars>>

\* OnWrite goes on: NeedFlush, under the mutex ...
CheckDrained ==
  /\ pc["main"] = "flushed" /\ send_mutex_ = "free"
  /\ Goto("main", IF write_buffer_ = <<>> THEN "disarm" ELSE "idle")
  /\ UNCHANGED <<connVars, epollVars, kernelVars, histVars>>

\* ... and ModifyFd(kRead), not under it.
Disarm ==
  /\ pc["main"] = "disarm"
  /\ ModifyFd({"R"})
  /\ Goto("main", "idle")
  /\ UNCHANGED <<connVars, registered, kernelVars, histVars>>

\* Recv reports the reset, or the timer finds the mark: CloseConnection.
OnReset ==
  /\ pc["main"] = "idle" /\ registered /\ peerReset
  /\ CloseConnection
  /\ UNCHANGED <<pc, connVars, kernelVars, histVars>>

OnTimer ==
  /\ pc["main"] = "idle" /\ registered /\ teardown
  /\ CloseConnection
  /\ UNCHANGED <<pc, connVars, kernelVars, histVars>>

-----------------------------------------------------------------------------
\* The client (external): reads a byte, or resets the connection.
ClientReads ==
  /\ clientRead < Len(wire)
  /\ clientRead' = clientRead + 1
  /\ UNCHANGED <<pc, connVars, epollVars, nonblocking, wire, peerReset, call,
                 interrupts, histVars>>

ClientResets ==
  /\ ~peerReset
  /\ peerReset' = TRUE
  /\ UNCHANGED <<pc, connVars, epollVars, nonblocking, wire, clientRead, call,
                 interrupts, histVars>>

\* The steps a thread takes once its handler has started.
MainStep ==
  \/ Send("main") \/ SendResumes("main") \/ Responded \/ Arm("main")
  \/ Flush \/ FlushBlocks \/ FlushResumes \/ FlushError
  \/ CheckDrained \/ Disarm

StreamStep ==
  \/ Send("stream") \/ SendResumes("stream")
  \/ ForwardFailed \/ ForwardDone \/ Arm("stream")

Next ==
  \/ MainStep \/ StreamStep
  \/ Broadcast \/ OnRead \/ OnWrite \/ OnReset \/ OnTimer
  \/ \E t \in Thread : SendCut(t)
  \/ FlushCut
  \/ ClientReads \/ ClientResets

\* A started handler goes on as long as it can, and a reset wakes a blocked
\* call.  Nothing is assumed of the client, of signals, or of the arrival of
\* requests and packets.
Fairness ==
  /\ WF_vars(MainStep)
  /\ WF_vars(StreamStep)
  /\ WF_vars(peerReset /\ (FlushCut \/ \E t \in Thread : SendCut(t)))

Spec == Init /\ [][Next]_vars /\ Fairness

-----------------------------------------------------------------------------
TypeOK ==
  /\ pc["stream"] \in {"idle", "send", "blocked", "sent", "failed", "arm"}
  /\ pc["main"] \in {"idle", "send", "blocked", "sent", "arm", "flush",
                     "flushing", "flushed", "disarm"}
  /\ send_mutex_ \in Thread \cup {"free"}
  /\ Len(write_buffer_) <= BufferSize
  /\ consecutive_drops_ \in 0..MaxPackets
  /\ teardown \in BOOLEAN /\ registered \in BOOLEAN /\ peerReset \in BOOLEAN
  /\ interest \in {{}, {"R"}, {"R", "W"}}
  /\ nonblocking \in NonBlocking
  /\ clientRead \in 0..Len(wire) /\ Room \in 0..SendRoom
  /\ \A t \in Thread : returned[t] \in Seq({"whole", "cut", "failed"})
  /\ interrupts \in 0..MaxInterrupts

\* The byte stream the client gets if everything buffered is sent: what the
\* kernel took, then what is in write_buffer_ less what a Flush still inside
\* its call has already handed over.
Stream ==
  wire \o IF pc["main"] = "flushing" THEN Drop(write_buffer_, call.sent)
                                     ELSE write_buffer_

\* The messages of the two threads are never interleaved, repeated or
\* reordered in the byte stream: each byte either continues the message of the
\* byte before it or starts a later message of its thread (send_mutex_, and
\* Send and SendV queueing behind a non-empty write_buffer_,
\* connection.cc:77, 131, 233).
FramesContiguous ==
  \A i \in 1..Len(Stream) :
    LET b == Stream[i]
        earlier == {Stream[j].seq : j \in {k \in 1..i-1 : Stream[k].from = b.from}}
    IN \/ i > 1 /\ Stream[i-1] = Byte(b.from, b.seq, b.off - 1)
       \/ b.off = 1 /\ \A n \in earlier : n < b.seq

Present(t, n, i) == \E k \in 1..Len(Stream) : Stream[k] = Byte(t, n, i)

\* A message that Send or SendV reported in full is in the byte stream in full,
\* whatever was short, interrupted or buffered on the way.  One they refused
\* has left nothing there, except that a frame may have left its header: SendV
\* writes the parts one by one (connection.cc:91, 105-113, 168, 182-196, 233).
ReportedWhole ==
  \A t \in Thread : \A n \in 1..Len(returned[t]) :
    LET split == IF t = "stream" THEN HeaderLen ELSE 0
    IN /\ returned[t][n] = "whole" =>
            \A i \in 1..MessageLen[t] : Present(t, n, i)
       /\ returned[t][n] = "failed" =>
            \A i \in split+1..MessageLen[t] : ~Present(t, n, i)

\* A thread that is inside a blocked call is the holder of the mutex, so the
\* two are never both inside one, and no call is left behind when the mutex is
\* free (the lock_guard of Send, SendV and Flush, connection.cc:65, 119, 201).
BlockedHoldsMutex ==
  /\ \A t \in Thread : pc[t] \in {"blocked", "flushing"} <=> send_mutex_ = t
  /\ send_mutex_ = "free" => call = NoCall

\* The thread inside a message, and how far it is.
Writing == {t \in Thread : pc[t] = "blocked"}
Written == IF Writing = {} THEN 0 ELSE call.sent

Messages == INSTANCE MessageStream WITH
  Header <- [main |-> 0, stream |-> HeaderLen],
  stream <- Stream, writing <- Writing, written <- Written, read <- clientRead

\* Whoever drains the buffer, when and in how many calls, what the two threads
\* send is one stream of whole calls: no byte that was accepted is lost, moved
\* or sent twice, no call adds bytes while another is inside its message, and
\* the result of each tells whether it added all of its own, some, or none but a
\* header (connection.cc:63-243; how many "some" are it does not tell, since
\* connection.cc:160 leaves out what is buffered).
ImplementsMessageStream == Messages!StreamSpec

-----------------------------------------------------------------------------
\* With a non-blocking fd every handler of either thread comes to its end
\* however slowly the client reads: the EAGAIN branches of Send, SendV and
\* Flush never wait (connection.cc:99, 175, 227).
HandlersReturnIfNonBlocking ==
  \A t \in Thread : (nonblocking /\ pc[t] # "idle") ~> (pc[t] = "idle")

\* With the blocking fd that accept() gives, they do as long as the client goes
\* on reading: the thread asleep in a call with send_mutex_ held wakes up, and
\* then the one that waits for the mutex (connection.cc:65, 119, 201).
HandlersReturnIfClientReads ==
  WF_vars(ClientReads) =>
    \A t \in Thread : (pc[t] # "idle") ~> (pc[t] = "idle")

\* The epoll thread gets back to its loop whatever the client does: the aim
\* stated at rtsp_server.cc:200.
EventLoopReturns == (pc["main"] # "idle") ~> (pc["main"] = "idle")

\* Between handlers, bytes in write_buffer_ have EPOLLOUT registered to get
\* them out: the comment at rtsp_server.cc:229-230.
BufferedIsArmed ==
  (/\ \A t \in Thread : pc[t] = "idle"
   /\ registered /\ ~teardown /\ ~peerReset /\ write_buffer_ # <<>>)
  => "W" \in interest

=============================================================================
