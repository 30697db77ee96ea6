--------------------------- MODULE RequestReader ----------------------------
(***************************************************************************)
(* How the epoll thread cuts what one client sends into interleaved frames *)
(* and requests (ProcessConnectionData of src/core/rtsp_server.cc, Recv of *)
(* src/net/connection.cc), on top of the ring buffer and the parser.  TCP  *)
(* may deliver the client's bytes in pieces of any size; a Recv takes at   *)
(* most what fits before the end of the array.                             *)
(***************************************************************************)
EXTENDS RingBuffer, RtspParser

CONSTANTS
  kMaxRtspRequestDataLen,
  Methods,                  \* the words ParseMethod knows
  Message,                  \* what the client may send at a time, in bytes
  Junk,                     \* bytes that may lie in memory after the array
  MaxMessages               \* bound: messages the client sends

ASSUME ReaderAssumption ==
  /\ Byte \subseteq 0..255
  /\ {kMaxRtspRequestDataLen, MaxMessages} \subseteq Nat
  /\ Message \subseteq Seq(Byte)

\* The variables of RingBuffer are read_buffer_.
VARIABLES
  pc,           \* "epoll", "loop" (in the while loop), "closed", or "broken":
                \* closed because recv reported an error
  sent,         \* the messages the client has sent
  wire,         \* their bytes that have not been received yet
  ended,        \* the client has closed its end
  received,     \* how many of their bytes Recv has taken
  handled       \* the blocks given to ProcessData, with the parser's verdict

ringVars == vars
clientVars == <<sent, wire, ended>>
readerVars == <<ringVars, pc, clientVars, received, handled>>

\* The first n of a sequence of sequences, joined.
Upto(s) ==
  LET upto[n \in 0..Len(s)] == IF n = 0 THEN <<>> ELSE upto[n-1] \o s[n]
  IN upto

\* Every byte the client has sent, in order.
Stream == Upto(sent)[Len(sent)]

\* The array is not cleared, and nothing in it is read before it is written.
ReaderInit ==
  /\ buffer_ = [s \in Slot |-> CHOOSE b \in Byte : TRUE]
  /\ read_pos_ = 0 /\ write_pos_ = 0 /\ readable_size_ = 0 /\ status = "Ok"
  /\ pc = "epoll"
  /\ sent = <<>> /\ wire = <<>> /\ ended = FALSE
  /\ received = 0
  /\ handled = <<>>

-----------------------------------------------------------------------------
\* The client (external).

Closed == {"closed", "broken"}

ClientSends(m) ==
  /\ ~ended /\ pc \notin Closed /\ Len(sent) < MaxMessages
  /\ sent' = Append(sent, m)
  /\ wire' = wire \o m
  /\ UNCHANGED <<ringVars, pc, ended, received, handled>>

ClientEnds ==
  /\ ~ended /\ pc \notin Closed
  /\ ended' = TRUE
  /\ UNCHANGED <<ringVars, pc, sent, wire, received, handled>>

-----------------------------------------------------------------------------
\* The epoll thread.

\* A read event, and a Recv that gets some of the bytes that have arrived.
Recv ==
  /\ pc = "epoll"
  /\ \E n \in 1..Smaller(Len(wire), ContiguousWritableSize) :
       /\ Fill(SubSeq(wire, 1, n))
       /\ wire' = SubSeq(wire, n + 1, Len(wire))
       /\ received' = received + n
  /\ pc' = "loop"
  /\ UNCHANGED <<sent, ended, handled>>

\* Recv on a full buffer gives -1, at the end of the stream 0: CloseConnection.
RecvFails ==
  /\ pc = "epoll"
  /\ \/ wire # <<>> /\ WritableSize = 0
     \/ wire = <<>> /\ ended
  /\ pc' = "closed"
  /\ UNCHANGED <<ringVars, clientVars, received, handled>>

\* recv gives an error, whatever has arrived (a reset, or a signal while a stale
\* event has it wait): CloseConnection.
RecvError ==
  /\ pc = "epoll" /\ WritableSize > 0
  /\ pc' = "broken"
  /\ UNCHANGED <<ringVars, clientVars, received, handled>>

\* Peek of a frame's header, and whether it is one.
HeaderLen == 4

\* The limit on requests is 4096.  The buffer may be of any size.
ASSUME LimitAssumption == kMaxRtspRequestDataLen >= HeaderLen

Marker == 36
Header == Peek(HeaderLen)
AtFrame == readable_size_ >= HeaderLen /\ Header[1] = Marker

\* Mutant: the header is not counted.
FrameTotalNoHeader == 256 * Header[3] + Header[4]

FrameTotal == HeaderLen + 256 * Header[3] + Header[4]

Terminator == <<CR, LF, CR, LF>>
RequestEnd == FindSubstring(Terminator, 0)
RequestLen == RequestEnd + Len(Terminator)

\* The frame is skipped.
SkipFrame ==
  /\ pc = "loop" /\ AtFrame /\ readable_size_ >= FrameTotal
  /\ Consume(FrameTotal)
  /\ UNCHANGED <<pc, clientVars, received, handled>>

\* Mutant: off by one.
TooLong(size) == size >= kMaxRtspRequestDataLen - 1

\* Whether a request without its end is given up.
TooLarge(size) == size >= kMaxRtspRequestDataLen

\* Mutant: the block is taken to start with the array.
BlockAtStart(len, junk) ==
  LET inside == Smaller(len, capacity_)
  IN Segment(0, inside) \o [i \in 1..len - inside |-> junk]

\* GetReadBuffer is a plain pointer to the slot at read_pos_: a block that runs
\* over the end of the array goes on in whatever memory follows.
BlockAt(len, junk) ==
  LET inside == Smaller(len, capacity_ - read_pos_)
  IN Segment(read_pos_, inside) \o [i \in 1..len - inside |-> junk]

\* Mutants: the terminator is left behind; the loop ends after one request.
HandleRequestNoEnd ==
  /\ pc = "loop" /\ ~AtFrame /\ RequestEnd # npos
  /\ handled' = Append(handled,
                  [from |-> received - readable_size_, len |-> RequestEnd,
                   block |-> Peek(RequestEnd), verdict |-> "known"])
  /\ Consume(RequestEnd)
  /\ pc' = "epoll"
  /\ UNCHANGED <<clientVars, received>>

HandleRequestOnce ==
  /\ pc = "loop" /\ ~AtFrame /\ RequestEnd # npos
  /\ handled' = Append(handled,
                  [from |-> received - readable_size_, len |-> RequestLen,
                   block |-> Peek(RequestLen), verdict |-> "known"])
  /\ Consume(RequestLen)
  /\ pc' = "epoll"
  /\ UNCHANGED <<clientVars, received>>

\* A complete request: ProcessData, Consume, NeedFlush (see Connection).
HandleRequest ==
  /\ pc = "loop" /\ ~AtFrame /\ RequestEnd # npos
  /\ \E block \in {BlockAt(RequestLen, junk) : junk \in Junk} :
       handled' = Append(handled,
         [from |-> received - readable_size_, len |-> RequestLen,
          block |-> block,
          verdict |-> Parse(block, Methods, kMaxRtspRequestDataLen)])
  /\ Consume(RequestLen)
  /\ UNCHANGED <<pc, clientVars, received>>

\* No end in sight, and too much for a request: CloseConnection.
RequestTooLarge ==
  /\ pc = "loop" /\ ~AtFrame /\ RequestEnd = npos
  /\ readable_size_ > 0 /\ TooLarge(readable_size_)
  /\ pc' = "closed"
  /\ UNCHANGED <<ringVars, clientVars, received, handled>>

\* The loop ends: nothing is left, or only part of a frame or of a request.
LoopEnds ==
  /\ pc = "loop"
  /\ \/ readable_size_ = 0
     \/ AtFrame /\ readable_size_ < FrameTotal
     \/ /\ readable_size_ > 0 /\ ~AtFrame
        /\ RequestEnd = npos /\ ~TooLarge(readable_size_)
  /\ pc' = "epoll"
  /\ UNCHANGED <<ringVars, clientVars, received, handled>>

ReaderStep ==
  \/ Recv \/ RecvFails
  \/ SkipFrame \/ HandleRequest \/ RequestTooLarge \/ LoopEnds

ReaderNext ==
  ReaderStep \/ RecvError \/ ClientEnds \/ \E m \in Message : ClientSends(m)

\* The epoll thread goes on; see Connection and RtspServer for what may stop it.
\* Errors need not happen.
ReaderSpec == ReaderInit /\ [][ReaderNext]_readerVars /\ WF_readerVars(ReaderStep)

-----------------------------------------------------------------------------
ReaderTypeOK ==
  /\ TypeOK
  /\ pc \in {"epoll", "loop"} \cup Closed /\ ended \in BOOLEAN
  /\ received = Len(Stream) - Len(wire) /\ readable_size_ <= received
  /\ \A i \in DOMAIN handled :
       /\ handled[i].len \in Len(Terminator)..capacity_
       /\ handled[i].len = Len(handled[i].block)
       /\ handled[i].verdict \in {"known", "UNKNOWN", "Unparsable"}

\* The reference: where the requests of a byte stream are, if it is read from
\* the left as a whole.  A marker starts a frame, which is passed over; anything
\* else is a request up to the next empty line.
CutAt(bytes, cut, i) ==
  LET n == Len(bytes)
      frame == i + 4 + 256 * bytes[i+2] + bytes[i+3]
      ends == {j \in i..n - 3 : SubSeq(bytes, j, j + 3) = Terminator}
      next == Min(ends) + 4
  IN IF n - i < 3 THEN <<>>
     ELSE IF bytes[i] = Marker
     THEN IF frame <= n + 1 THEN cut[frame] ELSE <<>>
     ELSE IF ends = {} THEN <<>>
     ELSE <<[from |-> i - 1, len |-> next - i]>> \o cut[next]

CutsOf(bytes) ==
  LET cut[i \in 1..Len(bytes)+1] == CutAt(bytes, cut, i) IN cut

Cuts(bytes) == CutsOf(bytes)[1]

Places == [i \in DOMAIN handled |-> [from |-> handled[i].from,
                                      len |-> handled[i].len]]

\* What is taken for a request depends on the bytes received alone, not on how
\* they were divided between Recvs, how many messages came in one, or where they
\* lie in the ring; and whenever the epoll thread leaves the loop it has dealt
\* with every complete message, for which no further event would come
\* (rtsp_server.cc:416-468, connection.cc:25-61).
RequestsByBytesAlone ==
  pc = "epoll" => Places = Cuts(SubSeq(Stream, 1, received))

\* Byte k of the stream lies in slot k % capacity_.
Straddles(h) == h.from \div capacity_ # (h.from + h.len - 1) \div capacity_

\* The parser is given the client's bytes, unless the request straddles a
\* multiple of the buffer size in the stream: then it reads past the end of the
\* array (rtsp_server.cc:449-452, ring_buffer.cc:114-117).
IntactUnlessStraddling ==
  \A i \in DOMAIN handled :
    LET h == handled[i]
    IN ~Straddles(h) => h.block = SubSeq(Stream, h.from + 1, h.from + h.len)

\* What a client within the limits sends: requests of at most the permitted size,
\* of a method that is known and without a body, so that they end where their
\* first empty line does; and whole frames.  Both fit in the buffer.
ProperRequest(bytes) ==
  /\ Len(bytes) \in Len(Terminator)..kMaxRtspRequestDataLen
  /\ Len(bytes) <= capacity_
  /\ bytes[1] # Marker /\ FirstWord(FirstLine(bytes)) \in Methods \ {<<>>}
  /\ \A j \in 1..Len(bytes) - 3 :
       SubSeq(bytes, j, j + 3) = Terminator <=> j = Len(bytes) - 3

ProperFrame(bytes) ==
  /\ Len(bytes) \in HeaderLen..capacity_ /\ bytes[1] = Marker
  /\ Len(bytes) = HeaderLen + 256 * bytes[3] + bytes[4]

WellBehaved ==
  \A i \in DOMAIN sent : ProperRequest(sent[i]) \/ ProperFrame(sent[i])

\* The requests among the messages.
RequestsOf(s) == [i \in 1..Len(s) |-> IF ProperRequest(s[i]) THEN <<s[i]>> ELSE <<>>]
Requests == Upto(RequestsOf(sent))[Len(sent)]

\* Such a client is never cut off but by an error of recv, also at the exact
\* limits, and once its bytes are read each of its requests has been given to the
\* session once, in order, and understood unless it straddles
\* (rtsp_server.cc:436-447, connection.cc:32-36, rtsp_parser.cc:30).
WellBehavedIsServed ==
  WellBehaved =>
    /\ pc = "closed" => ended
    /\ pc = "epoll" /\ wire = <<>> =>
         /\ Len(handled) = Len(Requests)
         /\ \A i \in DOMAIN handled :
              /\ handled[i].len = Len(Requests[i])
              /\ ~Straddles(handled[i]) => handled[i].verdict = "known"

\* Bytes that have arrived are taken, and the loop over them comes to an end,
\* or the connection is closed: neither a frame without payload nor a message
\* that can never be complete holds the epoll thread (rtsp_server.cc:416-468).
InputIsTaken ==
  (wire # <<>> \/ pc = "loop") ~> (pc \in Closed \/ (wire = <<>> /\ pc = "epoll"))

=============================================================================
