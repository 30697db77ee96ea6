-------------------------- MODULE ConnectionProofs --------------------------
(***************************************************************************)
(* Theorems about Connection, for every size of the buffers and messages,  *)
(* every setting of O_NONBLOCK and any number of packets and requests.     *)
(***************************************************************************)
EXTENDS Connection, SequenceTheorems, TLAPS

Bytes == [from : Thread, seq : Nat \ {0}, off : Nat \ {0}]

\* Bytes a+1 to b of the n-th message of thread t.
Piece(t, n, a, b) == [i \in 1..b - a |-> Byte(t, n, a + i)]

Split(t) == IF t = "stream" THEN HeaderLen ELSE 0
Larger(m, n) == IF m < n THEN n ELSE m

\* The iovec that is left of a message once k of its bytes are gone.
Rest(t, n, k) ==
  [head |-> Piece(t, n, Smaller(k, Split(t)), Split(t)),
   body |-> Piece(t, n, Larger(k, Split(t)), MessageLen[t])]

In(s, b) == \E i \in 1..Len(s) : s[i] = b

\* r has the bytes of s, and else only bytes k+1 to m of a message.
AddsOnly(s, r, t, n, k, m) ==
  /\ \A b : In(s, b) => In(r, b)
  /\ \A i \in 1..Len(r) : In(s, r[i]) \/ \E o \in k+1..m : r[i] = Byte(t, n, o)

\* FramesContiguous, of any sequence of bytes.
Contiguous(s) ==
  \A i \in 1..Len(s) :
    \/ i > 1 /\ s[i-1] = Byte(s[i].from, s[i].seq, s[i].off - 1)
    \/ /\ s[i].off = 1
       /\ \A j \in 1..i-1 : s[j].from = s[i].from => s[j].seq < s[i].seq

\* Thread t has got k bytes into its n-th message: s ends with them if k is not
\* 0, has them all, and has nothing later of t.
At(s, t, n, k) ==
  /\ \A i \in 1..Len(s) : s[i].from = t =>
       s[i].seq < n \/ (s[i].seq = n /\ s[i].off <= k)
  /\ \A o \in 1..k : In(s, Byte(t, n, o))
  /\ k > 0 => Len(s) > 0 /\ s[Len(s)] = Byte(t, n, k)

\* ReportedWhole, of one message and its result.
Reported(s, t, n, result) ==
  /\ result = "whole" => \A i \in 1..MessageLen[t] : In(s, Byte(t, n, i))
  /\ result = "failed" => \A i \in Split(t) + 1..MessageLen[t] : ~In(s, Byte(t, n, i))

-----------------------------------------------------------------------------
\* The inductive invariant.

\* What no property is about but every step needs.
PcInv ==
  /\ pc \in [Thread -> {"idle", "send", "blocked", "sent", "failed", "arm", "flush",
                        "flushing", "flushed", "disarm"}]
  /\ pc["stream"] \notin {"flush", "flushing", "flushed", "disarm"}
  /\ pc["main"] # "failed"

DataInv ==
  /\ wire \in Seq(Bytes) /\ write_buffer_ \in Seq(Bytes)
  /\ Len(write_buffer_) <= BufferSize
  /\ clientRead \in 0..Len(wire) /\ Room \in 0..SendRoom

FlagInv ==
  /\ teardown \in BOOLEAN /\ registered \in BOOLEAN /\ peerReset \in BOOLEAN
  /\ interest \in {{}, {"R"}, {"R", "W"}}
  /\ nonblocking \in NonBlocking
  /\ interrupts \in 0..MaxInterrupts

\* Every failure counted is one of a frame that was forwarded.
DropInv ==
  /\ issued["stream"] <= MaxPackets
  /\ consecutive_drops_ \in Nat
  /\ consecutive_drops_ <= issued["stream"]
  /\ pc["stream"] \in {"send", "blocked", "sent", "failed"} =>
       consecutive_drops_ < issued["stream"]

\* A message has a result unless it is still being sent.
HistInv ==
  /\ issued \in [Thread -> Nat]
  /\ returned \in [Thread -> Seq({"whole", "cut", "failed"})]
  /\ \A t \in Thread :
       Len(returned[t]) = IF pc[t] \in {"send", "blocked"} THEN issued[t] - 1
                          ELSE issued[t]

MutexInv == send_mutex_ \in Thread \cup {"free"} /\ BlockedHoldsMutex

\* A blocked call is a position in the message of its thread, with nothing
\* buffered behind it, or in the buffer it drains.
CallInv ==
  /\ \A t \in Thread : pc[t] = "blocked" =>
       /\ write_buffer_ = <<>>
       /\ call.sent \in 0..MessageLen[t] - 1
       /\ call.left = Rest(t, issued[t], call.sent)
  /\ pc["main"] = "flushing" =>
       /\ call.sent \in 0..Len(write_buffer_)
       /\ call.left = [head |-> <<>>, body |-> Drop(write_buffer_, call.sent)]

\* The byte stream: well formed, and each thread where its pc says it is.
StreamInv ==
  /\ Contiguous(Stream)
  /\ \A i \in 1..Len(Stream) : Stream[i].seq <= issued[Stream[i].from]
  /\ \A t \in Thread :
       /\ pc[t] = "send" => At(Stream, t, issued[t], 0)
       /\ pc[t] = "blocked" => At(Stream, t, issued[t], call.sent)

ReportInv ==
  \A t \in Thread : \A n \in 1..Len(returned[t]) :
    Reported(Stream, t, n, returned[t][n])

IInv ==
  /\ PcInv /\ DataInv /\ FlagInv /\ DropInv /\ MutexInv /\ CallInv
  /\ HistInv /\ StreamInv /\ ReportInv

-----------------------------------------------------------------------------
\* Sequences and messages.

\* Take and Drop, ...
LEMMA TakeFacts ==
  ASSUME NEW S, NEW s \in Seq(S), NEW n \in Nat
  PROVE  /\ Take(s, n) \in Seq(S)
         /\ Len(Take(s, n)) = Smaller(n, Len(s))
         /\ \A i \in 1..Smaller(n, Len(s)) : Take(s, n)[i] = s[i]
<1>1. Len(s) \in Nat
  BY LenProperties
<1> DEFINE m == Smaller(n, Len(s))
<1>2. m \in Nat /\ m <= Len(s)
  BY <1>1 DEF Smaller
<1>3. Take(s, n) = SubSeq(s, 1, m)
  BY DEF Take
<1> HIDE DEF m
<1>4. \A i \in 1..m : s[i] \in S
  BY <1>1, <1>2, ElementOfSeq
<1>5. /\ SubSeq(s, 1, m) \in Seq(S)
      /\ Len(SubSeq(s, 1, m)) = IF 1 <= m THEN m - 1 + 1 ELSE 0
      /\ \A i \in 1..m - 1 + 1 : SubSeq(s, 1, m)[i] = s[1 + i - 1]
  BY <1>2, <1>4, SubSeqProperties
<1>6. Take(s, n) \in Seq(S) /\ Len(Take(s, n)) = m /\ \A i \in 1..m : Take(s, n)[i] = s[i]
  BY <1>2, <1>3, <1>5
<1> QED
  BY <1>6 DEF m

\* ... index by index, ...
LEMMA DropFacts ==
  ASSUME NEW S, NEW s \in Seq(S), NEW n \in Nat
  PROVE  /\ Drop(s, n) \in Seq(S)
         /\ Len(Drop(s, n)) = Len(s) - Smaller(n, Len(s))
         /\ \A i \in 1..Len(s) - n : Drop(s, n)[i] = s[n + i]
<1>1. Len(s) \in Nat
  BY LenProperties
<1>2. \A i \in n + 1..Len(s) : s[i] \in S
  BY <1>1, ElementOfSeq
<1>3. /\ SubSeq(s, n + 1, Len(s)) \in Seq(S)
      /\ Len(SubSeq(s, n + 1, Len(s))) =
           IF n + 1 <= Len(s) THEN Len(s) - (n + 1) + 1 ELSE 0
      /\ \A i \in 1..Len(s) - (n + 1) + 1 :
           SubSeq(s, n + 1, Len(s))[i] = s[n + 1 + i - 1]
  BY <1>1, <1>2, SubSeqProperties
<1>4. Drop(s, n) = SubSeq(s, n + 1, Len(s))
  BY DEF Drop
<1>5. Len(Drop(s, n)) = Len(s) - Smaller(n, Len(s))
  <2>1. CASE n + 1 <= Len(s)
    BY <1>1, <1>3, <1>4, <2>1 DEF Smaller
  <2>2. CASE ~(n + 1 <= Len(s))
    <3>1. Smaller(n, Len(s)) = Len(s)
      BY <1>1, <2>2 DEF Smaller
    <3> QED
      BY <1>1, <1>3, <1>4, <2>2, <3>1
  <2> QED
    BY <2>1, <2>2
<1>6. ASSUME NEW i \in 1..Len(s) - n PROVE Drop(s, n)[i] = s[n + i]
  <2>1. i \in 1..Len(s) - (n + 1) + 1 /\ n + 1 + i - 1 = n + i
    BY <1>1
  <2> QED
    BY <1>3, <1>4, <2>1
<1> QED
  BY <1>3, <1>4, <1>5, <1>6

\* ... also where there is as much as is dropped, ...
LEMMA DropWithin ==
  ASSUME NEW S, NEW s \in Seq(S), NEW n \in Nat, n <= Len(s)
  PROVE  /\ Drop(s, n) \in Seq(S)
         /\ Len(Drop(s, n)) = Len(s) - n
         /\ \A i \in 1..Len(s) - n : Drop(s, n)[i] = s[n + i]
<1>1. Smaller(n, Len(s)) = n
  BY LenProperties DEF Smaller
<1> QED
  BY <1>1, DropFacts

\* ... cut a sequence in two, ...
LEMMA TakeThenDrop ==
  ASSUME NEW S, NEW s \in Seq(S), NEW n \in Nat
  PROVE  Take(s, n) \o Drop(s, Smaller(n, Len(s))) = s
<1>a. Smaller(n, Len(s)) \in Nat /\ Smaller(n, Len(s)) <= Len(s)
  BY LenProperties DEF Smaller
<1>b. PICK m \in Nat : m = Smaller(n, Len(s))
  BY <1>a
<1> DEFINE u == Take(s, n)
           v == Drop(s, m)
<1>1. Len(s) \in Nat /\ m <= Len(s)
  BY <1>a, <1>b, LenProperties
<1>2. u \in Seq(S) /\ Len(u) = m /\ \A i \in 1..m : u[i] = s[i]
  BY <1>b, TakeFacts
<1>3. v \in Seq(S) /\ Len(v) = Len(s) - m /\ \A i \in 1..Len(s) - m : v[i] = s[m + i]
  BY <1>1, DropWithin
<1> HIDE DEF u, v
<1>4. /\ u \o v \in Seq(S) /\ Len(u \o v) = Len(u) + Len(v)
      /\ \A i \in 1..Len(u) + Len(v) :
           (u \o v)[i] = IF i <= Len(u) THEN u[i] ELSE v[i - Len(u)]
  BY <1>2, <1>3, ConcatProperties
<1>5. Len(u \o v) = Len(s)
  BY <1>1, <1>2, <1>3, <1>4
<1>6. \A i \in 1..Len(u \o v) : (u \o v)[i] = s[i]
  BY <1>1, <1>2, <1>3, <1>4
<1>7. u \o v = s
  BY <1>4, <1>5, <1>6, SeqEqual
<1> QED
  BY <1>b, <1>7 DEF u, v

\* ... and drop on.
LEMMA DropThenDrop ==
  ASSUME NEW S, NEW s \in Seq(S), NEW a \in 0..Len(s), NEW b \in 0..Len(s) - a
  PROVE  Drop(Drop(s, a), b) = Drop(s, a + b)
<1> DEFINE u == Drop(s, a)
           v == Drop(u, b)
           w == Drop(s, a + b)
<1>1. Len(s) \in Nat /\ a \in Nat /\ b \in Nat
  BY LenProperties
<1>2. u \in Seq(S) /\ Len(u) = Len(s) - a /\ \A i \in 1..Len(s) - a : u[i] = s[a + i]
  BY <1>1, DropWithin
<1> HIDE DEF u
<1>3. v \in Seq(S) /\ Len(v) = Len(u) - b /\ \A i \in 1..Len(u) - b : v[i] = u[b + i]
  <2>1. b <= Len(u)
    BY <1>1, <1>2
  <2> QED
    <3>1. u \in Seq(S)
      BY <1>2
    <3> QED
      BY <1>1, <2>1, <3>1, DropWithin
<1>4. /\ w \in Seq(S) /\ Len(w) = Len(s) - (a + b)
      /\ \A i \in 1..Len(s) - (a + b) : w[i] = s[a + b + i]
  <2>1. a + b \in Nat /\ a + b <= Len(s)
    BY <1>1
  <2> QED
    BY <2>1, DropWithin
<1> HIDE DEF v, w
<1>5. Len(v) = Len(w)
  BY <1>1, <1>2, <1>3, <1>4
<1>6. \A i \in 1..Len(v) : v[i] = w[i]
  <2> TAKE i \in 1..Len(v)
  <2>1. i \in 1..Len(u) - b /\ i \in 1..Len(s) - (a + b) /\ b + i \in 1..Len(s) - a
    BY <1>1, <1>2, <1>3
  <2>2. v[i] = u[b + i] /\ u[b + i] = s[a + (b + i)] /\ w[i] = s[a + b + i]
    BY <1>2, <1>3, <1>4, <2>1
  <2>3. a + (b + i) = a + b + i
    BY <1>1
  <2> QED
    BY <2>2, <2>3
<1>7. v = w
  BY <1>3, <1>4, <1>5, <1>6, SeqEqual
<1> QED
  BY <1>7 DEF u, v, w

\* A piece of a message, index by index.
LEMMA PieceFacts ==
  ASSUME NEW t \in Thread, NEW n \in Nat \ {0}, NEW a \in Nat, NEW b \in Nat, a <= b
  PROVE  /\ Piece(t, n, a, b) \in Seq(Bytes)
         /\ Len(Piece(t, n, a, b)) = b - a
         /\ \A i \in 1..b - a : Piece(t, n, a, b)[i] = Byte(t, n, a + i)
<1>1. \A i \in 1..b - a : Byte(t, n, a + i) \in Bytes
  BY DEF Byte, Bytes
<1>2. Piece(t, n, a, b) \in [1..b - a -> Bytes]
  BY <1>1 DEF Piece
<1>3. b - a \in Nat
  OBVIOUS
<1> QED
  BY <1>2, <1>3 DEF Piece

\* It is a sequence of bytes.
LEMMA PieceType ==
  ASSUME NEW t \in Thread, NEW n \in Nat \ {0}, NEW a \in Nat, NEW b \in Nat, a <= b
  PROVE  Piece(t, n, a, b) \in Seq(Bytes) /\ Len(Piece(t, n, a, b)) = b - a
BY PieceFacts

\* There is nothing between a place and itself.
LEMMA EmptyPiece ==
  ASSUME NEW t \in Thread, NEW n \in Nat \ {0}, NEW a \in Nat
  PROVE  Piece(t, n, a, a) = <<>>
<1>1. Piece(t, n, a, a) \in Seq(Bytes) /\ Len(Piece(t, n, a, a)) = 0
  BY PieceFacts
<1> QED
  BY <1>1, EmptySeq

\* Pieces that meet make a piece, ...
LEMMA PiecesMeet ==
  ASSUME NEW t \in Thread, NEW n \in Nat \ {0},
         NEW a \in Nat, NEW b \in Nat, NEW c \in Nat, a <= b, b <= c
  PROVE  Piece(t, n, a, b) \o Piece(t, n, b, c) = Piece(t, n, a, c)
<1> DEFINE u == Piece(t, n, a, b)
           v == Piece(t, n, b, c)
           w == Piece(t, n, a, c)
<1>1. u \in Seq(Bytes) /\ Len(u) = b - a /\ \A i \in 1..b - a : u[i] = Byte(t, n, a + i)
  BY PieceFacts
<1>2. v \in Seq(Bytes) /\ Len(v) = c - b /\ \A i \in 1..c - b : v[i] = Byte(t, n, b + i)
  BY PieceFacts
<1>3. w \in Seq(Bytes) /\ Len(w) = c - a /\ \A i \in 1..c - a : w[i] = Byte(t, n, a + i)
  BY PieceFacts
<1> HIDE DEF u, v, w
<1>4. /\ u \o v \in Seq(Bytes) /\ Len(u \o v) = Len(u) + Len(v)
      /\ \A i \in 1..Len(u) + Len(v) :
           (u \o v)[i] = IF i <= Len(u) THEN u[i] ELSE v[i - Len(u)]
  BY <1>1, <1>2, ConcatProperties
<1>5. Len(u \o v) = Len(w)
  BY <1>1, <1>2, <1>3, <1>4
<1>6. ASSUME NEW i \in 1..Len(u \o v) PROVE (u \o v)[i] = w[i]
  <2>1. i \in Int /\ 1 <= i /\ i <= c - a
    BY <1>3, <1>5
  <2>2. w[i] = Byte(t, n, a + i)
    BY <1>3, <2>1
  <2>3. CASE i <= b - a
    <3>1. (u \o v)[i] = u[i] /\ u[i] = Byte(t, n, a + i)
      BY <1>1, <1>2, <1>4, <2>1, <2>3
    <3> QED
      BY <2>2, <3>1
  <2>4. CASE ~(i <= b - a)
    <3>1. i - (b - a) \in 1..c - b /\ b + (i - (b - a)) = a + i
      BY <2>1, <2>4
    <3>2. (u \o v)[i] = v[i - (b - a)]
      BY <1>1, <1>2, <1>4, <2>1, <2>4
    <3>3. v[i - (b - a)] = Byte(t, n, b + (i - (b - a)))
      BY <1>2, <3>1
    <3> QED
      BY <2>2, <3>1, <3>2, <3>3
  <2> QED
    BY <2>3, <2>4
<1>7. u \o v = w
  BY <1>3, <1>4, <1>5, <1>6, SeqEqual
<1> QED
  BY <1>7 DEF u, v, w

\* ... and a piece is cut into pieces.
LEMMA TakePiece ==
  ASSUME NEW t \in Thread, NEW n \in Nat \ {0},
         NEW a \in Nat, NEW b \in Nat, a <= b, NEW r \in Nat
  PROVE  Take(Piece(t, n, a, b), r) = Piece(t, n, a, Smaller(a + r, b))
<1>a. Smaller(a + r, b) \in Nat
  BY DEF Smaller
<1>b. PICK c \in Nat : c = Smaller(a + r, b)
  BY <1>a
<1> DEFINE u == Piece(t, n, a, b)
           v == Take(u, r)
           w == Piece(t, n, a, c)
<1>1. u \in Seq(Bytes) /\ Len(u) = b - a /\ \A i \in 1..b - a : u[i] = Byte(t, n, a + i)
  BY PieceFacts
<1>2. a <= c /\ c <= b
  BY <1>b DEF Smaller
<1> HIDE DEF u
<1>3. v \in Seq(Bytes) /\ Len(v) = c - a /\ \A i \in 1..c - a : v[i] = u[i]
  <2>1. u \in Seq(Bytes)
    BY <1>1
  <2>2. /\ v \in Seq(Bytes) /\ Len(v) = Smaller(r, Len(u))
        /\ \A i \in 1..Smaller(r, Len(u)) : v[i] = u[i]
    BY <2>1, TakeFacts
  <2>3. Smaller(r, Len(u)) = c - a
    BY <1>1, <1>b DEF Smaller
  <2> QED
    BY <2>2, <2>3
<1>4. w \in Seq(Bytes) /\ Len(w) = c - a /\ \A i \in 1..c - a : w[i] = Byte(t, n, a + i)
  BY <1>2, PieceFacts
<1> HIDE DEF v, w
<1>5. ASSUME NEW i \in 1..Len(v) PROVE v[i] = w[i]
  <2>1. i \in 1..c - a /\ i \in 1..b - a
    BY <1>2, <1>3
  <2> QED
    BY <1>1, <1>3, <1>4, <2>1
<1>6. v = w
  BY <1>3, <1>4, <1>5, SeqEqual
<1> QED
  BY <1>b, <1>6 DEF u, v, w

\* The same for what is left.
LEMMA DropPiece ==
  ASSUME NEW t \in Thread, NEW n \in Nat \ {0},
         NEW a \in Nat, NEW b \in Nat, a <= b, NEW r \in Nat
  PROVE  Drop(Piece(t, n, a, b), r) = Piece(t, n, Smaller(a + r, b), b)
<1>a. Smaller(a + r, b) \in Nat
  BY DEF Smaller
<1>b. PICK c \in Nat : c = Smaller(a + r, b)
  BY <1>a
<1> DEFINE u == Piece(t, n, a, b)
           v == Drop(u, r)
           w == Piece(t, n, c, b)
<1>1. u \in Seq(Bytes) /\ Len(u) = b - a /\ \A i \in 1..b - a : u[i] = Byte(t, n, a + i)
  BY PieceFacts
<1>2. a <= c /\ c <= b
  BY <1>b DEF Smaller
<1> HIDE DEF u
<1>3. v \in Seq(Bytes) /\ Len(v) = b - c /\ \A i \in 1..(b - a) - r : v[i] = u[r + i]
  <2>1. u \in Seq(Bytes)
    BY <1>1
  <2>2. /\ v \in Seq(Bytes) /\ Len(v) = Len(u) - Smaller(r, Len(u))
        /\ \A i \in 1..Len(u) - r : v[i] = u[r + i]
    BY <2>1, DropFacts
  <2>3. Len(u) = b - a /\ Len(u) - Smaller(r, Len(u)) = b - c
    BY <1>1, <1>b DEF Smaller
  <2> QED
    BY <2>2, <2>3
<1>4. w \in Seq(Bytes) /\ Len(w) = b - c /\ \A i \in 1..b - c : w[i] = Byte(t, n, c + i)
  BY <1>2, PieceFacts
<1> HIDE DEF v, w
<1>5. ASSUME NEW i \in 1..Len(v) PROVE v[i] = w[i]
  <2>1. i \in 1..b - c /\ c < b
    BY <1>2, <1>3
  <2>a. c = a + r
    BY <1>b, <2>1 DEF Smaller
  <2>2. i \in 1..(b - a) - r /\ r + i \in 1..b - a /\ a + (r + i) = c + i
    BY <2>1, <2>a
  <2>3. v[i] = u[r + i] /\ u[r + i] = Byte(t, n, a + (r + i)) /\ w[i] = Byte(t, n, c + i)
    BY <1>1, <1>3, <1>4, <2>1, <2>2
  <2> QED
    BY <2>2, <2>3
<1>6. v = w
  BY <1>3, <1>4, <1>5, SeqEqual
<1> QED
  BY <1>b, <1>6 DEF u, v, w

\* The sizes of messages.
LEMMA Sizes ==
  ASSUME NEW t \in Thread
  PROVE  Split(t) \in Nat /\ MessageLen[t] \in Nat /\ Split(t) < MessageLen[t]
<1>1. HeaderLen \in Nat /\ PayloadLen \in Nat /\ ResponseLen \in Nat
      /\ PayloadLen > 0 /\ ResponseLen > 0
  BY SizesAssumption
<1>2. CASE t = "main"
  <2>1. Split(t) = 0 /\ MessageLen[t] = ResponseLen
    BY <1>2 DEF Split, MessageLen
  <2> QED
    BY <1>1, <2>1
<1>3. CASE t = "stream"
  <2>1. Split(t) = HeaderLen /\ MessageLen[t] = HeaderLen + PayloadLen
    BY <1>3 DEF Split, MessageLen
  <2> QED
    BY <1>1, <2>1
<1> QED
  BY <1>2, <1>3 DEF Thread

\* The parts of the iovec that is left are pieces, ...
LEMMA RestParts ==
  ASSUME NEW t \in Thread, NEW n \in Nat \ {0}, NEW k \in 0..MessageLen[t]
  PROVE  /\ Rest(t, n, k).head = Piece(t, n, Smaller(k, Split(t)), Split(t))
         /\ Rest(t, n, k).body = Piece(t, n, Larger(k, Split(t)), MessageLen[t])
         /\ Smaller(k, Split(t)) \in Nat /\ Smaller(k, Split(t)) <= Split(t)
         /\ Larger(k, Split(t)) \in Nat /\ Larger(k, Split(t)) <= MessageLen[t]
         /\ Rest(t, n, k).head \in Seq(Bytes) /\ Rest(t, n, k).body \in Seq(Bytes)
         /\ Len(Rest(t, n, k).head) = Split(t) - Smaller(k, Split(t))
         /\ Len(Rest(t, n, k).body) = MessageLen[t] - Larger(k, Split(t))
<1>1. Split(t) \in Nat /\ MessageLen[t] \in Nat /\ Split(t) < MessageLen[t]
  BY Sizes
<1>2. /\ Rest(t, n, k).head = Piece(t, n, Smaller(k, Split(t)), Split(t))
      /\ Rest(t, n, k).body = Piece(t, n, Larger(k, Split(t)), MessageLen[t])
  BY DEF Rest
<1>3. /\ Smaller(k, Split(t)) \in Nat /\ Smaller(k, Split(t)) <= Split(t)
      /\ Larger(k, Split(t)) \in Nat /\ Larger(k, Split(t)) <= MessageLen[t]
  BY <1>1 DEF Smaller, Larger
<1>a. PICK a \in Nat, h \in Nat : a = Smaller(k, Split(t)) /\ h = Split(t) /\ a <= h
  BY <1>1, <1>3
<1>b. PICK b \in Nat, l \in Nat : b = Larger(k, Split(t)) /\ l = MessageLen[t] /\ b <= l
  BY <1>1, <1>3
<1>4. Piece(t, n, a, h) \in Seq(Bytes) /\ Len(Piece(t, n, a, h)) = h - a
  <2>1. a <= h
    BY <1>a
  <2> QED
    BY <2>1, PieceType
<1>5. Piece(t, n, b, l) \in Seq(Bytes) /\ Len(Piece(t, n, b, l)) = l - b
  <2>1. b <= l
    BY <1>b
  <2> QED
    BY <2>1, PieceType
<1> QED
  BY <1>2, <1>3, <1>4, <1>5, <1>a, <1>b

\* ... which together are the rest of the message.
LEMMA RestBytes ==
  ASSUME NEW t \in Thread, NEW n \in Nat \ {0}, NEW k \in 0..MessageLen[t]
  PROVE  Rest(t, n, k).head \o Rest(t, n, k).body = Piece(t, n, k, MessageLen[t])
<1>1. Split(t) \in Nat /\ MessageLen[t] \in Nat /\ Split(t) < MessageLen[t]
  BY Sizes
<1>2. /\ Rest(t, n, k).head = Piece(t, n, Smaller(k, Split(t)), Split(t))
      /\ Rest(t, n, k).body = Piece(t, n, Larger(k, Split(t)), MessageLen[t])
  BY RestParts
<1>3. CASE k <= Split(t)
  <2>1. Smaller(k, Split(t)) = k /\ Larger(k, Split(t)) = Split(t)
    BY <1>1, <1>3 DEF Smaller, Larger
  <2>2. Piece(t, n, k, Split(t)) \o Piece(t, n, Split(t), MessageLen[t])
          = Piece(t, n, k, MessageLen[t])
    <3>1. PICK sp \in Nat : sp = Split(t)
      BY <1>1
    <3>2. PICK L \in Nat : L = MessageLen[t]
      BY <1>1
    <3>3. k \in Nat /\ k <= sp /\ sp <= L
      BY <1>1, <1>3, <3>1, <3>2
    <3>4. Piece(t, n, k, sp) \o Piece(t, n, sp, L) = Piece(t, n, k, L)
      BY <3>3, PiecesMeet
    <3> QED
      BY <3>1, <3>2, <3>4
  <2> QED
    BY <1>2, <2>1, <2>2
<1>4. CASE ~(k <= Split(t))
  <2>1. Smaller(k, Split(t)) = Split(t) /\ Larger(k, Split(t)) = k
    BY <1>1, <1>4 DEF Smaller, Larger
  <2>2. Piece(t, n, Split(t), Split(t)) = <<>>
    BY <1>1, EmptyPiece
  <2>3. Piece(t, n, k, MessageLen[t]) \in Seq(Bytes)
    <3>1. k \in Nat /\ k <= MessageLen[t]
      BY <1>1
    <3> QED
      BY <1>1, <3>1, PieceFacts
  <2> QED
    BY <1>2, <2>1, <2>2, <2>3, ConcatEmptySeq
<1> QED
  BY <1>3, <1>4

\* A message is all that is left of it at first, ...
LEMMA MessageIsRest ==
  ASSUME NEW t \in Thread, NEW n \in Nat \ {0}
  PROVE  Message(t, n) = Rest(t, n, 0)
<1>1. Split(t) \in Nat /\ MessageLen[t] \in Nat /\ Split(t) < MessageLen[t]
  BY Sizes
<1>2. Smaller(0, Split(t)) = 0 /\ Larger(0, Split(t)) = Split(t)
  BY <1>1 DEF Smaller, Larger
<1>3. Message(t, n) = [head |-> [i \in 1..Split(t) |-> Byte(t, n, i)],
                       body |-> [i \in 1..MessageLen[t] - Split(t) |->
                                   Byte(t, n, Split(t) + i)]]
  BY DEF Message, Split
<1>4. [i \in 1..Split(t) |-> Byte(t, n, i)] = Piece(t, n, 0, Split(t))
  <2>1. Split(t) - 0 = Split(t) /\ \A i \in 1..Split(t) : 0 + i = i
    BY <1>1
  <2> QED
    BY <2>1 DEF Piece
<1>5. [i \in 1..MessageLen[t] - Split(t) |-> Byte(t, n, Split(t) + i)]
        = Piece(t, n, Split(t), MessageLen[t])
  BY DEF Piece
<1> QED
  BY <1>2, <1>3, <1>4, <1>5 DEF Rest

\* ... and skipping bytes of it leaves the rest from there on.
LEMMA SkipRest ==
  ASSUME NEW t \in Thread, NEW n \in Nat \ {0}, NEW k \in Nat, NEW r \in Nat,
         k + r <= MessageLen[t]
  PROVE  Skip(Rest(t, n, k), r) = Rest(t, n, k + r)
<1>1. Split(t) \in Nat /\ MessageLen[t] \in Nat /\ Split(t) < MessageLen[t]
  BY Sizes
<1>2. PICK sp \in Nat : sp = Split(t)
  BY <1>1
<1>3. PICK L \in Nat : L = MessageLen[t]
  BY <1>1
<1>4. sp < L /\ k + r <= L /\ k \in 0..MessageLen[t]
  BY <1>1, <1>2, <1>3
<1> DEFINE msg == Rest(t, n, k)
<1>5. /\ msg.head = Piece(t, n, Smaller(k, sp), sp)
      /\ msg.body = Piece(t, n, Larger(k, sp), L)
      /\ Len(msg.head) = sp - Smaller(k, sp)
  BY <1>2, <1>3, <1>4, RestParts
<1> HIDE DEF msg
<1>6. Drop(msg.head, r) = Piece(t, n, Smaller(k + r, sp), sp)
  <2>1. Smaller(k, sp) \in Nat /\ Smaller(k, sp) <= sp
    BY DEF Smaller
  <2>2. Smaller(Smaller(k, sp) + r, sp) = Smaller(k + r, sp)
    BY DEF Smaller
  <2>3. Drop(Piece(t, n, Smaller(k, sp), sp), r)
          = Piece(t, n, Smaller(Smaller(k, sp) + r, sp), sp)
    BY <2>1, DropPiece
  <2> QED
    BY <1>5, <2>2, <2>3
<1>7. (IF r > Len(msg.head) THEN Drop(msg.body, r - Len(msg.head)) ELSE msg.body)
        = Piece(t, n, Larger(k + r, sp), L)
  <2>1. CASE k < sp
    <3>1. Len(msg.head) = sp - k /\ msg.body = Piece(t, n, sp, L)
      BY <1>5, <2>1 DEF Smaller, Larger
    <3>2. CASE r > sp - k
      <4>1. /\ r - (sp - k) \in Nat /\ Larger(k + r, sp) = k + r
            /\ Smaller(sp + (r - (sp - k)), L) = k + r
        BY <1>4, <2>1, <3>2 DEF Smaller, Larger
      <4>2. Drop(Piece(t, n, sp, L), r - (sp - k))
              = Piece(t, n, Smaller(sp + (r - (sp - k)), L), L)
        BY <1>4, <4>1, DropPiece
      <4> QED
        BY <3>1, <3>2, <4>1, <4>2
    <3>3. CASE ~(r > sp - k)
      <4>1. Larger(k + r, sp) = sp
        BY <2>1, <3>3 DEF Larger
      <4> QED
        BY <3>1, <3>3, <4>1
    <3> QED
      BY <3>2, <3>3
  <2>2. CASE ~(k < sp)
    <3>1. Len(msg.head) = 0 /\ msg.body = Piece(t, n, k, L)
      BY <1>5, <2>2 DEF Smaller, Larger
    <3>2. Larger(k + r, sp) = k + r /\ Smaller(k + r, L) = k + r /\ r - 0 = r
      BY <1>4, <2>2 DEF Smaller, Larger
    <3>3. CASE r > 0
      <4>1. Drop(Piece(t, n, k, L), r) = Piece(t, n, Smaller(k + r, L), L)
        <5>1. k <= L
          BY <1>4
        <5> QED
          BY <5>1, DropPiece
      <4> QED
        BY <3>1, <3>2, <3>3, <4>1
    <3>4. CASE r = 0
      BY <3>1, <3>2, <3>4
    <3> QED
      BY <3>3, <3>4
  <2> QED
    BY <2>1, <2>2
<1>8. Skip(msg, r) = [head |-> Piece(t, n, Smaller(k + r, sp), sp),
                      body |-> Piece(t, n, Larger(k + r, sp), L)]
  BY <1>6, <1>7 DEF Skip
<1> QED
  BY <1>2, <1>3, <1>8 DEF msg, Rest

\* Writing what is left of a message to a buffer appends a piece of it: all of
\* it, or nothing, or the rest of its header.
LEMMA BufferedIsPiece ==
  ASSUME NEW t \in Thread, NEW n \in Nat \ {0}, NEW k \in 0..MessageLen[t],
         NEW buffer \in Seq(Bytes), Len(buffer) <= BufferSize
  PROVE  \E m \in k..MessageLen[t] :
           /\ Buffered(buffer, Rest(t, n, k)) = buffer \o Piece(t, n, k, m)
           /\ Buffered(buffer, Rest(t, n, k)) \in Seq(Bytes)
           /\ Len(Buffered(buffer, Rest(t, n, k))) <= BufferSize
           /\ Fits(buffer, Rest(t, n, k)) => m = MessageLen[t]
           /\ ~Fits(buffer, Rest(t, n, k)) => m = k \/ m = Split(t)
<1> DEFINE msg == Rest(t, n, k)
<1>1. /\ Split(t) \in Nat /\ MessageLen[t] \in Nat /\ Split(t) < MessageLen[t]
      /\ k \in Nat /\ k <= MessageLen[t] /\ Len(buffer) \in Nat /\ BufferSize \in Nat
  BY Sizes, LenProperties, SizesAssumption
<1>2. /\ msg.head \in Seq(Bytes) /\ msg.body \in Seq(Bytes)
      /\ msg.head = Piece(t, n, Smaller(k, Split(t)), Split(t))
  BY RestParts
<1>3. msg.head \o msg.body = Piece(t, n, k, MessageLen[t])
  BY RestBytes
<1> HIDE DEF msg
<1>4. Len(msg.head) \in Nat /\ Len(msg.body) \in Nat
  BY <1>2, LenProperties
<1>5. /\ buffer \o msg.head \in Seq(Bytes)
      /\ Len(buffer \o msg.head) = Len(buffer) + Len(msg.head)
  BY <1>2, ConcatProperties
<1>6. CASE Fits(buffer, msg)
  <2>1. Buffered(buffer, msg) = buffer \o msg.head \o msg.body
    BY <1>6 DEF Buffered
  <2>2. /\ buffer \o msg.head \o msg.body \in Seq(Bytes)
        /\ Len(buffer \o msg.head \o msg.body)
             = Len(buffer) + Len(msg.head) + Len(msg.body)
    BY <1>2, <1>5, ConcatProperties
  <2>3. (buffer \o msg.head) \o msg.body = buffer \o (msg.head \o msg.body)
    <3>1. \A h, b \in Seq(Bytes) : (buffer \o h) \o b = buffer \o (h \o b)
      BY ConcatAssociative
    <3> QED
      BY <1>2, <3>1
  <2>4. Len(Buffered(buffer, msg)) <= BufferSize
    BY <1>6, <2>1, <2>2 DEF Fits
  <2>5. Buffered(buffer, msg) = buffer \o Piece(t, n, k, MessageLen[t])
    BY <1>3, <2>1, <2>3
  <2>6. MessageLen[t] \in k..MessageLen[t]
    BY <1>1
  <2> QED
    BY <1>6, <2>1, <2>2, <2>4, <2>5, <2>6 DEF msg
<1>7. CASE ~Fits(buffer, msg) /\ Len(buffer) + Len(msg.head) <= BufferSize
  <2>1. Buffered(buffer, msg) = buffer \o msg.head
    BY <1>7 DEF Buffered
  <2>2. CASE k <= Split(t)
    <3>1. Smaller(k, Split(t)) = k
      BY <1>1, <2>2 DEF Smaller
    <3>2. Buffered(buffer, msg) = buffer \o Piece(t, n, k, Split(t))
      BY <1>2, <2>1, <3>1
    <3>3. Split(t) \in k..MessageLen[t]
      BY <1>1, <2>2
    <3>4. Len(Buffered(buffer, msg)) <= BufferSize
      BY <1>5, <1>7, <2>1
    <3> QED
      BY <1>5, <1>7, <2>1, <3>2, <3>3, <3>4 DEF msg
  <2>3. CASE ~(k <= Split(t))
    <3>1. Smaller(k, Split(t)) = Split(t)
      BY <1>1, <2>3 DEF Smaller
    <3>2. Piece(t, n, Split(t), Split(t)) = <<>> /\ Piece(t, n, k, k) = <<>>
      BY <1>1, EmptyPiece
    <3>3. Buffered(buffer, msg) = buffer \o Piece(t, n, k, k)
      BY <1>2, <2>1, <3>1, <3>2
    <3>4. Len(Buffered(buffer, msg)) <= BufferSize
      BY <1>5, <1>7, <2>1
    <3>5. k \in k..MessageLen[t]
      BY <1>1
    <3> QED
      BY <1>5, <1>7, <2>1, <3>3, <3>4, <3>5 DEF msg
  <2> QED
    BY <2>2, <2>3
<1>8. CASE ~Fits(buffer, msg) /\ ~(Len(buffer) + Len(msg.head) <= BufferSize)
  <2>1. Buffered(buffer, msg) = buffer
    BY <1>8 DEF Buffered
  <2>2. Piece(t, n, k, k) = <<>>
    BY <1>1, EmptyPiece
  <2>3. buffer = buffer \o Piece(t, n, k, k)
    BY <2>2, ConcatEmptySeq
  <2>4. k \in k..MessageLen[t]
    BY <1>1
  <2> QED
    BY <1>8, <2>1, <2>3, <2>4 DEF msg
<1> QED
  BY <1>6, <1>7, <1>8

\* A thread that goes on with its message keeps the stream well formed, whatever
\* the other thread has put there.
LEMMA AppendPiece ==
  ASSUME NEW s \in Seq(Bytes), NEW t \in Thread, NEW n \in Nat \ {0},
         NEW k \in Nat, NEW m \in Nat, k <= m, Contiguous(s), At(s, t, n, k)
  PROVE  /\ s \o Piece(t, n, k, m) \in Seq(Bytes)
         /\ Contiguous(s \o Piece(t, n, k, m))
         /\ At(s \o Piece(t, n, k, m), t, n, m)
<1> DEFINE p == Piece(t, n, k, m)
           r == s \o p
<1>1. p \in Seq(Bytes) /\ Len(p) = m - k /\ \A i \in 1..m - k : p[i] = Byte(t, n, k + i)
  BY PieceFacts
<1>2. Len(s) \in Nat /\ \A i \in 1..Len(s) : s[i] \in Bytes
  BY LenProperties, ElementOfSeq
<1> HIDE DEF p
<1>3. /\ r \in Seq(Bytes) /\ Len(r) = Len(s) + Len(p)
      /\ \A i \in 1..Len(s) + Len(p) :
           r[i] = IF i <= Len(s) THEN s[i] ELSE p[i - Len(s)]
  BY <1>1, ConcatProperties
<1> HIDE DEF r
<1>4. Len(r) = Len(s) + (m - k) /\ Len(r) \in Nat
  BY <1>1, <1>2, <1>3
<1>5. ASSUME NEW i \in 1..Len(s) PROVE i \in 1..Len(r) /\ r[i] = s[i]
  <2>1. i \in 1..Len(s) + Len(p) /\ i <= Len(s)
    BY <1>1, <1>2
  <2> QED
    BY <1>3, <2>1
<1>6. ASSUME NEW i \in 1..Len(r), i > Len(s)
      PROVE  r[i] = Byte(t, n, k + (i - Len(s))) /\ i - Len(s) \in 1..m - k
  <2>1. i - Len(s) \in 1..m - k /\ i \in 1..Len(s) + Len(p) /\ ~(i <= Len(s))
    BY <1>1, <1>2, <1>4, <1>6
  <2>2. r[i] = p[i - Len(s)]
    BY <1>3, <2>1
  <2> QED
    BY <1>1, <2>1, <2>2
<1>7. Contiguous(r)
  <2> SUFFICES ASSUME NEW i \in 1..Len(r)
               PROVE \/ i > 1 /\ r[i-1] = Byte(r[i].from, r[i].seq, r[i].off - 1)
                     \/ /\ r[i].off = 1
                        /\ \A j \in 1..i-1 : r[j].from = r[i].from => r[j].seq < r[i].seq
    BY DEF Contiguous
  <2>1. CASE i <= Len(s)
    <3>1. i \in 1..Len(s) /\ i \in Int /\ r[i] = s[i] /\ \A j \in 1..i-1 : j \in 1..Len(s) /\ r[j] = s[j]
      BY <1>2, <1>4, <1>5, <2>1
    <3>2. i > 1 => i - 1 \in 1..i-1
      BY <3>1
    <3>3. \/ i > 1 /\ s[i-1] = Byte(s[i].from, s[i].seq, s[i].off - 1)
          \/ /\ s[i].off = 1
             /\ \A j \in 1..i-1 : s[j].from = s[i].from => s[j].seq < s[i].seq
      BY <3>1 DEF Contiguous
    <3> QED
      BY <3>1, <3>2, <3>3
  <2>2. CASE i > Len(s) /\ (k > 0 \/ i > Len(s) + 1)
    <3>1. r[i] = Byte(t, n, k + (i - Len(s))) /\ i - Len(s) \in 1..m - k
      BY <1>6, <2>2
    <3>2. r[i].from = t /\ r[i].seq = n /\ r[i].off = k + (i - Len(s))
      BY <3>1 DEF Byte
    <3>3. CASE i > Len(s) + 1
      <4>1. i - 1 \in 1..Len(r) /\ i - 1 > Len(s) /\ i > 1
        BY <1>2, <1>4, <3>3
      <4>2. r[i-1] = Byte(t, n, k + ((i - 1) - Len(s)))
        BY <1>6, <4>1
      <4>3. k + ((i - 1) - Len(s)) = (k + (i - Len(s))) - 1
        BY <1>2, <4>1
      <4> QED
        BY <3>2, <4>1, <4>2, <4>3
    <3>4. CASE i = Len(s) + 1 /\ k > 0
      <4>1. Len(s) > 0 /\ s[Len(s)] = Byte(t, n, k)
        BY <3>4 DEF At
      <4>2. i > 1 /\ i - 1 = Len(s) /\ i - 1 \in 1..Len(s) /\ (k + (i - Len(s))) - 1 = k
        BY <1>2, <3>4, <4>1
      <4> QED
        BY <1>5, <3>2, <4>1, <4>2
    <3> QED
      BY <1>2, <2>2, <3>3, <3>4
  <2>3. CASE i = Len(s) + 1 /\ k = 0
    <3>1. r[i] = Byte(t, n, k + (i - Len(s)))
      BY <1>2, <1>6, <2>3
    <3>2. r[i].from = t /\ r[i].seq = n /\ r[i].off = 1
      BY <1>2, <2>3, <3>1 DEF Byte
    <3>3. \A j \in 1..i-1 : j \in 1..Len(s) /\ r[j] = s[j]
      BY <1>2, <1>5, <2>3
    <3>4. \A j \in 1..Len(s) : s[j].from = t => s[j].seq < n
      BY <1>2, <2>3 DEF At, Bytes
    <3> QED
      BY <3>2, <3>3, <3>4
  <2>4. i \in Int /\ (i <= Len(s) \/ i > Len(s) + 1 \/ i = Len(s) + 1)
    BY <1>2, <1>4
  <2> QED
    BY <1>2, <2>1, <2>2, <2>3, <2>4
<1>8. At(r, t, n, m)
  <2>1. ASSUME NEW i \in 1..Len(r), r[i].from = t
        PROVE  r[i].seq < n \/ (r[i].seq = n /\ r[i].off <= m)
    <3>1. CASE i <= Len(s)
      <4>1. i \in 1..Len(s) /\ r[i] = s[i] /\ s[i] \in Bytes
        BY <1>2, <1>4, <1>5, <3>1
      <4>2. s[i].seq < n \/ (s[i].seq = n /\ s[i].off <= k)
        BY <2>1, <4>1 DEF At
      <4> QED
        BY <4>1, <4>2 DEF Bytes
    <3>2. CASE i > Len(s)
      <4>1. r[i] = Byte(t, n, k + (i - Len(s))) /\ i - Len(s) \in 1..m - k
        BY <1>6, <3>2
      <4> QED
        BY <4>1 DEF Byte
    <3> QED
      BY <1>2, <1>4, <3>1, <3>2
  <2>2. ASSUME NEW o \in 1..m PROVE In(r, Byte(t, n, o))
    <3>1. CASE o <= k
      <4>1. o \in 1..k
        BY <3>1
      <4>2. PICK i \in 1..Len(s) : s[i] = Byte(t, n, o)
        BY <4>1 DEF At, In
      <4> QED
        BY <1>5, <4>2 DEF In
    <3>2. CASE o > k
      <4>1. Len(s) + (o - k) \in 1..Len(r) /\ Len(s) + (o - k) > Len(s)
        BY <1>2, <1>4, <3>2
      <4>2. r[Len(s) + (o - k)] = Byte(t, n, k + ((Len(s) + (o - k)) - Len(s)))
        BY <1>6, <4>1
      <4>3. k + ((Len(s) + (o - k)) - Len(s)) = o
        BY <1>2
      <4> QED
        BY <4>1, <4>2, <4>3 DEF In
    <3> QED
      BY <3>1, <3>2
  <2>3. ASSUME m > 0 PROVE Len(r) > 0 /\ r[Len(r)] = Byte(t, n, m)
    <3>1. CASE k = m
      <4>1. Len(s) > 0 /\ s[Len(s)] = Byte(t, n, k) /\ Len(r) = Len(s)
        BY <1>2, <1>4, <2>3, <3>1 DEF At
      <4>2. Len(s) \in 1..Len(s)
        BY <1>2, <4>1
      <4> QED
        BY <1>5, <3>1, <4>1, <4>2
    <3>2. CASE k < m
      <4>1. Len(r) \in 1..Len(r) /\ Len(r) > Len(s) /\ Len(r) > 0
        BY <1>2, <1>4, <3>2
      <4>2. r[Len(r)] = Byte(t, n, k + (Len(r) - Len(s)))
        BY <1>6, <4>1
      <4>3. k + (Len(r) - Len(s)) = m
        BY <1>2, <1>4
      <4> QED
        BY <4>1, <4>2, <4>3
    <3> QED
      BY <3>1, <3>2
  <2> QED
    BY <2>1, <2>2, <2>3 DEF At
<1> QED
  BY <1>3, <1>7, <1>8 DEF r, p

\* It adds no byte of another message.
LEMMA AppendedBytes ==
  ASSUME NEW s \in Seq(Bytes), NEW t \in Thread, NEW n \in Nat \ {0},
         NEW k \in Nat, NEW m \in Nat, k <= m
  PROVE  AddsOnly(s, s \o Piece(t, n, k, m), t, n, k, m)
<1> DEFINE p == Piece(t, n, k, m)
           r == s \o p
<1>1. p \in Seq(Bytes) /\ Len(p) = m - k /\ \A i \in 1..m - k : p[i] = Byte(t, n, k + i)
  BY PieceFacts
<1>2. Len(s) \in Nat
  BY LenProperties
<1> HIDE DEF p
<1>3. /\ Len(r) = Len(s) + Len(p)
      /\ \A i \in 1..Len(s) + Len(p) :
           r[i] = IF i <= Len(s) THEN s[i] ELSE p[i - Len(s)]
  BY <1>1, ConcatProperties
<1> HIDE DEF r
<1>4. \A i \in 1..Len(s) : i \in 1..Len(r) /\ r[i] = s[i]
  BY <1>1, <1>2, <1>3
<1>5. ASSUME NEW i \in 1..Len(r)
      PROVE  In(s, r[i]) \/ \E o \in k+1..m : r[i] = Byte(t, n, o)
  <2>1. CASE i <= Len(s)
    <3>1. i \in 1..Len(s) /\ r[i] = s[i]
      BY <1>1, <1>2, <1>3, <1>4, <2>1
    <3> QED
      BY <3>1 DEF In
  <2>2. CASE ~(i <= Len(s))
    <3>1. i - Len(s) \in 1..m - k /\ i \in 1..Len(s) + Len(p)
      BY <1>1, <1>2, <1>3, <2>2
    <3>2. r[i] = p[i - Len(s)]
      BY <1>3, <2>2, <3>1
    <3>3. r[i] = Byte(t, n, k + (i - Len(s)))
      BY <1>1, <3>1, <3>2
    <3>4. k + (i - Len(s)) \in k+1..m
      BY <3>1
    <3> QED
      BY <3>3, <3>4
  <2> QED
    BY <2>1, <2>2
<1>6. \A b : In(s, b) => In(r, b)
  BY <1>4 DEF In
<1> QED
  BY <1>5, <1>6 DEF r, p, AddsOnly

-----------------------------------------------------------------------------
\* What the steps have in common.

\* The byte stream, with and without a Flush in its call.
LEMMA StreamIs ==
  /\ pc["main"] # "flushing" => Stream = wire \o write_buffer_
  /\ pc["main"] = "flushing" => Stream = wire \o Drop(write_buffer_, call.sent)
  /\ pc["main"]' # "flushing" => Stream' = wire' \o write_buffer_'
  /\ pc["main"]' = "flushing" => Stream' = wire' \o Drop(write_buffer_', call.sent')
BY Zenon DEF Stream

\* It is a sequence of bytes.
LEMMA StreamType == DataInv /\ CallInv => Stream \in Seq(Bytes)
<1> SUFFICES ASSUME DataInv, CallInv PROVE Stream \in Seq(Bytes)
  OBVIOUS
<1>1. wire \in Seq(Bytes) /\ write_buffer_ \in Seq(Bytes)
  BY DEF DataInv
<1>2. CASE pc["main"] = "flushing"
  <2>1. call.sent \in Nat
    BY <1>1, <1>2, LenProperties DEF CallInv
  <2>2. Drop(write_buffer_, call.sent) \in Seq(Bytes)
    BY <1>1, <2>1, DropFacts
  <2>3. wire \o Drop(write_buffer_, call.sent) \in Seq(Bytes)
    BY <1>1, <2>2, ConcatProperties
  <2> QED
    BY <1>2, <2>3, StreamIs
<1>3. CASE pc["main"] # "flushing"
  <2>1. wire \o write_buffer_ \in Seq(Bytes)
    BY <1>1, ConcatProperties
  <2> QED
    BY <1>3, <2>1, StreamIs
<1> QED
  BY <1>2, <1>3

\* What the kernel took is its first part.
LEMMA WireWithinStream ==
  ASSUME DataInv, CallInv
  PROVE  Len(wire) <= Len(Stream) /\ Len(wire) \in Nat /\ Len(Stream) \in Nat
<1>1. wire \in Seq(Bytes) /\ write_buffer_ \in Seq(Bytes)
  BY DEF DataInv
<1>2. PICK rest \in Seq(Bytes) : Stream = wire \o rest
  <2>1. CASE pc["main"] = "flushing"
    <3>1. call.sent \in Nat
      BY <1>1, <2>1, LenProperties DEF CallInv
    <3>2. Drop(write_buffer_, call.sent) \in Seq(Bytes)
      BY <1>1, <3>1, DropFacts
    <3> QED
      BY <2>1, <3>2, StreamIs
  <2>2. CASE pc["main"] # "flushing"
    BY <1>1, <2>2, StreamIs
  <2> QED
    BY <2>1, <2>2
<1>3. Len(Stream) = Len(wire) + Len(rest) /\ Len(rest) \in Nat /\ Len(wire) \in Nat
  BY <1>1, <1>2, ConcatProperties, LenProperties
<1> QED
  BY <1>3

\* The message a thread is sending has a number.
LEMMA Number ==
  ASSUME HistInv, NEW t \in Thread, pc[t] \in {"send", "blocked"}
  PROVE  issued[t] \in Nat \ {0} /\ Len(returned[t]) = issued[t] - 1
<1>1. issued[t] \in Nat /\ Len(returned[t]) \in Nat /\ Len(returned[t]) = issued[t] - 1
  BY LenProperties DEF HistInv
<1> QED
  BY <1>1

\* The kernel takes no more than it has room for.
LEMMA RoomLeft ==
  ASSUME DataInv, wire' \in Seq(Bytes), NEW d \in 0..Room, Len(wire') = Len(wire) + d,
         clientRead' = clientRead
  PROVE  clientRead' \in 0..Len(wire') /\ Room' \in 0..SendRoom
<1>1. Len(wire) \in Nat /\ Len(wire') \in Nat /\ SendRoom \in Nat
  BY LenProperties, SizesAssumption DEF DataInv
<1>2. Room' = SendRoom - (Len(wire') - clientRead')
  BY DEF Room
<1>3. Room = SendRoom - (Len(wire) - clientRead)
  BY DEF Room
<1> QED
  BY <1>1, <1>2, <1>3 DEF DataInv

\* A thread that gets from byte k of its message to byte m, and either stays in
\* its call or returns a result that fits.
LEMMA Emit ==
  ASSUME IInv, NEW t \in Thread, NEW k \in Nat, NEW m \in Nat, k <= m,
         pc[t] \in {"send", "blocked"}, \A u \in Thread : u # t => pc[u] # "blocked",
         At(Stream, t, issued[t], k), Stream' = Stream \o Piece(t, issued[t], k, m),
         issued' = issued, NEW step, pc' = [pc EXCEPT ![t] = step],
         \/ step = "blocked" /\ call'.sent = m /\ returned' = returned
         \/ /\ step \notin {"send", "blocked"}
            /\ \E result \in {"whole", "cut", "failed"} :
                 /\ returned' = [returned EXCEPT ![t] = Append(@, result)]
                 /\ result = "whole" => m = MessageLen[t]
                 /\ result = "failed" => m <= Split(t)
  PROVE  HistInv' /\ StreamInv' /\ ReportInv'
<1>1. PICK n \in Nat \ {0} : n = issued[t]
  BY Number DEF IInv
<1>2. PICK s \in Seq(Bytes) : s = Stream
  BY StreamType DEF IInv
<1> DEFINE r == s \o Piece(t, n, k, m)
<1>3. Contiguous(s) /\ At(s, t, n, k)
  BY <1>1, <1>2 DEF IInv, StreamInv
<1>4. Stream' = r /\ r \in Seq(Bytes) /\ Contiguous(r) /\ At(r, t, n, m)
  BY <1>1, <1>2, <1>3, AppendPiece
<1>5. /\ \A b : In(s, b) => In(r, b)
      /\ \A i \in 1..Len(r) : In(s, r[i]) \/ \E o \in k+1..m : r[i] = Byte(t, n, o)
  <2>1. AddsOnly(s, r, t, n, k, m)
    BY AppendedBytes
  <2> HIDE DEF r
  <2> QED
    BY <2>1 DEF AddsOnly
<1> HIDE DEF r
<1>6. /\ issued \in [Thread -> Nat]
      /\ returned \in [Thread -> Seq({"whole", "cut", "failed"})]
      /\ Len(returned[t]) = n - 1
      /\ \A u \in Thread : Len(returned[u]) =
           IF pc[u] \in {"send", "blocked"} THEN issued[u] - 1 ELSE issued[u]
  BY <1>1, Number DEF IInv, HistInv
<1>7. /\ pc'[t] = step
      /\ \A u \in Thread : u # t => pc'[u] = pc[u]
  BY DEF IInv, PcInv
<1>8. /\ \A u \in Thread : u # t => returned'[u] = returned[u]
      /\ \/ step = "blocked" /\ call'.sent = m /\ returned'[t] = returned[t]
         \/ /\ step \notin {"send", "blocked"}
            /\ \E result \in {"whole", "cut", "failed"} :
                 /\ returned'[t] = Append(returned[t], result)
                 /\ result = "whole" => m = MessageLen[t]
                 /\ result = "failed" => m <= Split(t)
  BY <1>6
<1>9. HistInv'
  <2>1. CASE step = "blocked" /\ returned' = returned
    BY <1>1, <1>6, <1>7, <2>1 DEF HistInv
  <2>2. ASSUME step \notin {"send", "blocked"}, NEW result \in {"whole", "cut", "failed"},
               returned' = [returned EXCEPT ![t] = Append(@, result)]
        PROVE  HistInv'
    <3>1. returned'[t] = Append(returned[t], result)
      BY <1>6, <2>2
    <3>2. /\ Append(returned[t], result) \in Seq({"whole", "cut", "failed"})
          /\ Len(Append(returned[t], result)) = n
      BY <1>6, AppendProperties
    <3>3. returned' \in [Thread -> Seq({"whole", "cut", "failed"})]
      BY <1>6, <2>2, <3>2
    <3>4. \A u \in Thread : Len(returned'[u]) =
            IF pc'[u] \in {"send", "blocked"} THEN issued'[u] - 1 ELSE issued'[u]
      BY <1>1, <1>6, <1>7, <1>8, <2>2, <3>1, <3>2
    <3> QED
      BY <1>6, <3>3, <3>4 DEF HistInv
  <2> QED
    BY <2>1, <2>2
<1>10. StreamInv'
  <2>1. \A i \in 1..Len(s) : s[i].seq <= issued[s[i].from] /\ s[i] \in Bytes
    BY <1>2, ElementOfSeq DEF IInv, StreamInv
  <2>2. ASSUME NEW i \in 1..Len(r) PROVE r[i].seq <= issued'[r[i].from]
    <3>1. CASE In(s, r[i])
      BY <2>1, <3>1 DEF In
    <3>2. CASE \E o \in k+1..m : r[i] = Byte(t, n, o)
      <4>1. r[i].from = t /\ r[i].seq = n
        BY <3>2 DEF Byte
      <4> QED
        BY <1>1, <1>6, <4>1
    <3> QED
      BY <1>5, <3>1, <3>2
  <2>3. ASSUME NEW u \in Thread, pc'[u] = "send" PROVE At(r, u, issued'[u], 0)
    <3>1. u # t /\ pc[u] = "send"
      BY <1>7, <1>8, <2>3
    <3>2. At(s, u, issued[u], 0)
      BY <1>2, <3>1 DEF IInv, StreamInv
    <3>3. ASSUME NEW i \in 1..Len(r), r[i].from = u
          PROVE  r[i].seq < issued[u] \/ (r[i].seq = issued[u] /\ r[i].off <= 0)
      <4>1. In(s, r[i])
        <5>1. \A o : Byte(t, n, o).from = t
          BY DEF Byte
        <5> QED
          BY <1>5, <3>1, <3>3, <5>1
      <4> QED
        BY <3>2, <3>3, <4>1 DEF At, In
    <3> QED
      BY <3>3 DEF At
  <2>4. ASSUME NEW u \in Thread, pc'[u] = "blocked" PROVE At(r, u, issued'[u], call'.sent)
    <3>1. u = t /\ step = "blocked"
      BY <1>7, <2>4
    <3>2. call'.sent = m
      BY <1>8, <3>1
    <3> QED
      BY <1>1, <1>4, <3>1, <3>2
  <2> QED
    BY <1>4, <2>2, <2>3, <2>4 DEF StreamInv
<1>11. ReportInv'
  <2> SUFFICES ASSUME NEW u \in Thread, NEW q \in 1..Len(returned'[u])
               PROVE  Reported(r, u, q, returned'[u][q])
    BY <1>4 DEF ReportInv
  <2>1. ASSUME q \in 1..Len(returned[u]), returned'[u][q] = returned[u][q]
        PROVE  Reported(r, u, q, returned'[u][q])
    <3>1. Reported(s, u, q, returned[u][q])
      BY <1>2, <2>1 DEF IInv, ReportInv
    <3>2. u # t \/ q # n
      BY <1>6, <2>1
    <3>3. \A i : In(r, Byte(u, q, i)) <=> In(s, Byte(u, q, i))
      <4>1. \A i, o : Byte(u, q, i) # Byte(t, n, o)
        BY <3>2 DEF Byte
      <4> QED
        <5>1. ASSUME NEW i, In(r, Byte(u, q, i)) PROVE In(s, Byte(u, q, i))
          <6>1. PICK j \in 1..Len(r) : r[j] = Byte(u, q, i)
            BY <5>1 DEF In
          <6> QED
            BY <1>5, <4>1, <6>1
        <5> QED
          BY <1>5, <5>1
    <3> QED
      BY <2>1, <3>1, <3>3 DEF Reported
  <2>2. ASSUME u = t, NEW result \in {"whole", "cut", "failed"}, q = n,
               returned'[u][q] = result, result = "whole" => m = MessageLen[t],
               result = "failed" => m <= Split(t)
        PROVE  Reported(r, u, q, returned'[u][q])
    <3>1. ASSUME result = "whole", NEW i \in 1..MessageLen[t] PROVE In(r, Byte(t, n, i))
      BY <1>4, <2>2, <3>1 DEF At
    <3>2. ASSUME result = "failed", NEW i \in Split(t) + 1..MessageLen[t]
          PROVE  ~In(r, Byte(t, n, i))
      <4>1. i \in Int /\ ~(i <= m)
        BY <2>2, <3>2, Sizes
      <4>2. Byte(t, n, i).from = t /\ Byte(t, n, i).seq = n /\ Byte(t, n, i).off = i
        BY DEF Byte
      <4> QED
        BY <1>4, <4>1, <4>2 DEF At, In
    <3> QED
      BY <2>2, <3>1, <3>2 DEF Reported
  <2>3. CASE u # t \/ returned'[t] = returned[t]
    BY <1>8, <2>1, <2>3
  <2>4. ASSUME u = t, NEW result \in {"whole", "cut", "failed"},
               returned'[t] = Append(returned[t], result),
               result = "whole" => m = MessageLen[t], result = "failed" => m <= Split(t)
        PROVE  Reported(r, u, q, returned'[u][q])
    <3>1. /\ Len(returned'[t]) = n
          /\ \A i \in 1..n - 1 : returned'[t][i] = returned[t][i]
          /\ returned'[t][n] = result
      BY <1>6, <2>4, AppendProperties
    <3>2. CASE q = n
      BY <2>2, <2>4, <3>1, <3>2
    <3>3. CASE q # n
      <4>1. q \in 1..n - 1
        BY <2>4, <3>1, <3>3
      <4> QED
        BY <1>6, <2>1, <2>4, <3>1, <4>1
    <3> QED
      BY <3>2, <3>3
  <2> QED
    BY <1>8, <2>3, <2>4
<1> QED
  BY <1>9, <1>10, <1>11

\* What a step does to the byte stream, the calls and the results is one that
\* MessageStream allows, or nothing.
AbstractStep == [Messages!StreamNext]_(Messages!streamVars)

\* A piece of a message is the same to both specifications.
LEMMA AbstractPiece ==
  ASSUME NEW t, NEW n, NEW a, NEW b
  PROVE  Messages!Piece(t, n, a, b) = Piece(t, n, a, b)
BY DEF Piece, Byte, Messages!Piece, Messages!Byte

\* The thread that is in its message, if there is one, ...
LEMMA WriterIs ==
  ASSUME NEW t \in Thread, \A u \in Thread : u # t => pc[u] # "blocked"
  PROVE  /\ pc[t] = "blocked" => Writing = {t} /\ Written = call.sent
         /\ pc[t] # "blocked" => Writing = {} /\ Written = 0
<1>1. CASE pc[t] = "blocked"
  BY <1>1 DEF Writing, Written
<1>2. CASE pc[t] # "blocked"
  BY <1>2 DEF Writing, Written
<1> QED
  BY <1>1, <1>2

\* ... and the same after a step.
LEMMA WriterWillBe ==
  ASSUME NEW t \in Thread, \A u \in Thread : u # t => pc'[u] # "blocked"
  PROVE  /\ pc'[t] = "blocked" => Writing' = {t} /\ Written' = call'.sent
         /\ pc'[t] # "blocked" => Writing' = {} /\ Written' = 0
<1>1. CASE pc'[t] = "blocked"
  BY <1>1 DEF Writing, Written
<1>2. CASE pc'[t] # "blocked"
  BY <1>2 DEF Writing, Written
<1> QED
  BY <1>1, <1>2

\* A step that adds no byte, no call and no result.
LEMMA Stutters ==
  ASSUME Stream' = Stream, UNCHANGED <<issued, returned, clientRead>>,
         \A u \in Thread : /\ pc'[u] = "blocked" <=> pc[u] = "blocked"
                           /\ pc[u] = "blocked" => call'.sent = call.sent
  PROVE  AbstractStep
<1>1. Writing' = Writing
  BY DEF Writing
<1>2. Written' = Written
  <2>1. CASE Writing = {}
    BY <1>1, <2>1 DEF Written
  <2>2. CASE Writing # {}
    <3>1. call'.sent = call.sent
      BY <2>2 DEF Writing
    <3> QED
      BY <1>1, <3>1 DEF Written
  <2> QED
    BY <2>1, <2>2
<1> QED
  BY <1>1, <1>2 DEF AbstractStep, Messages!streamVars

\* The bytes a call adds go behind those it added before.
LEMMA Puts ==
  ASSUME NEW t \in Thread, NEW k \in Nat, NEW m \in Nat, k <= m, m <= MessageLen[t],
         HistInv, pc[t] \in {"send", "blocked"}, \A u \in Thread : u # t => pc[u] # "blocked",
         k = IF pc[t] = "blocked" THEN call.sent ELSE 0,
         Stream' = Stream \o Piece(t, issued[t], k, m), UNCHANGED <<issued, clientRead>>
  PROVE  Messages!Put(t, m)
<1>1. issued[t] = Len(returned[t]) + 1
  BY Number
<1>2. Writing \subseteq {t} /\ Written = k
  BY WriterIs
<1>3. m \in Written..MessageLen[t]
  BY <1>2, Sizes
<1>4. Stream' = Stream \o Messages!Piece(t, issued[t], Written, m)
  BY <1>2, AbstractPiece
<1> QED
  BY <1>1, <1>2, <1>3, <1>4 DEF Messages!Put

\* The call returns, ...
LEMMA Finishes ==
  ASSUME NEW t \in Thread, NEW m \in Nat, NEW result \in {"whole", "cut", "failed"},
         Messages!Put(t, m), m <= MessageLen[t],
         result = "whole" => m = MessageLen[t],
         result = "cut" => m \in 1..MessageLen[t] - 1,
         result = "failed" => m \in {0, Split(t)},
         \A u \in Thread : pc'[u] # "blocked",
         returned' = [returned EXCEPT ![t] = Append(@, result)]
  PROVE  AbstractStep
<1>1. Writing' = {} /\ Written' = 0
  BY WriterWillBe
<1>2. [main |-> 0, stream |-> HeaderLen][t] = Split(t)
  BY DEF Thread, Split
<1>3. Messages!Finish(t, m, result)
  <2>1. CASE result = "whole"
    BY <1>1, <2>1 DEF Messages!Finish
  <2>2. CASE result = "cut"
    BY <1>1, <2>2 DEF Messages!Finish
  <2>3. CASE result = "failed"
    BY <1>1, <1>2, <2>3 DEF Messages!Finish
  <2> QED
    BY <2>1, <2>2, <2>3
<1>4. m \in 0..MessageLen[t]
  BY Sizes
<1> QED
  BY <1>3, <1>4 DEF AbstractStep, Messages!StreamNext

\* ... or stays.
LEMMA Waits ==
  ASSUME NEW t \in Thread, NEW m \in Nat, Messages!Put(t, m), m < MessageLen[t],
         pc'[t] = "blocked", \A u \in Thread : u # t => pc'[u] # "blocked",
         call'.sent = m, returned' = returned
  PROVE  AbstractStep
<1>1. Writing' = {t} /\ Written' = m
  BY WriterWillBe
<1>2. Messages!Wait(t, m)
  BY <1>1 DEF Messages!Wait
<1>3. m \in 0..MessageLen[t]
  BY Sizes
<1> QED
  BY <1>2, <1>3 DEF AbstractStep, Messages!StreamNext

\* A step that leaves the byte stream, the results and the senders alone.
LEMMA Same ==
  ASSUME IInv, Stream' = Stream, issued' = issued, returned' = returned,
         \A u \in Thread : /\ pc'[u] = "send" <=> pc[u] = "send"
                           /\ pc'[u] = "blocked" <=> pc[u] = "blocked"
                           /\ pc[u] = "blocked" => call'.sent = call.sent
  PROVE  HistInv' /\ StreamInv' /\ ReportInv'
<1>1. HistInv /\ StreamInv /\ ReportInv
  BY DEF IInv
<1>2. HistInv'
  BY <1>1 DEF HistInv
<1>3. StreamInv'
  <2>1. \A u \in Thread : /\ pc'[u] = "send" => At(Stream, u, issued[u], 0)
                          /\ pc'[u] = "blocked" => At(Stream, u, issued[u], call'.sent)
    BY <1>1 DEF StreamInv
  <2> QED
    BY <1>1, <2>1 DEF StreamInv
<1>4. ReportInv'
  BY <1>1 DEF ReportInv
<1> QED
  BY <1>2, <1>3, <1>4

\* Steps that touch neither socket nor buffer nor call.
Busy == {"send", "blocked", "flushing"}

\* They keep what is said of those.
LEMMA Quiet ==
  ASSUME IInv, UNCHANGED <<send_mutex_, write_buffer_, wire, call, issued, returned>>,
         PcInv', \A u \in Thread : pc'[u] = pc[u] \/ (pc[u] \notin Busy /\ pc'[u] \notin Busy)
  PROVE  MutexInv' /\ CallInv' /\ HistInv' /\ StreamInv' /\ ReportInv' /\ Stream' = Stream
<1>1. MutexInv /\ CallInv
  BY DEF IInv
<1>2. \A u \in Thread : /\ pc'[u] = "send" <=> pc[u] = "send"
                        /\ pc'[u] = "blocked" <=> pc[u] = "blocked"
                        /\ pc'[u] = "flushing" <=> pc[u] = "flushing"
  BY DEF Busy
<1>3. MutexInv'
  BY <1>1, <1>2 DEF MutexInv, BlockedHoldsMutex, NoCall
<1>4. CallInv'
  <2>1. \A t \in Thread : pc'[t] = "blocked" =>
          /\ write_buffer_ = <<>>
          /\ call.sent \in 0..MessageLen[t] - 1
          /\ call.left = Rest(t, issued[t], call.sent)
    BY <1>1, <1>2 DEF CallInv
  <2>2. pc'["main"] = "flushing" =>
          /\ call.sent \in 0..Len(write_buffer_)
          /\ call.left = [head |-> <<>>, body |-> Drop(write_buffer_, call.sent)]
    BY <1>1, <1>2 DEF CallInv, Thread
  <2> QED
    BY <2>1, <2>2 DEF CallInv
<1>5. Stream' = Stream
  <2>1. pc'["main"] = "flushing" <=> pc["main"] = "flushing"
    BY <1>2 DEF Thread
  <2> QED
    BY <2>1, StreamIs
<1>6. HistInv' /\ StreamInv' /\ ReportInv'
  BY <1>2, <1>5, Same
<1> QED
  BY <1>3, <1>4, <1>5, <1>6

\* A step of one such handler.
LEMMA QuietStep ==
  ASSUME IInv, NEW t \in Thread, NEW step, step \notin Busy, pc[t] \notin Busy,
         pc' = [pc EXCEPT ![t] = step],
         UNCHANGED <<send_mutex_, write_buffer_, wire, call, issued, returned, clientRead>>,
         t = "main" => step \in {"idle", "sent", "arm", "flush", "flushed", "disarm"},
         t = "stream" => step \in {"idle", "sent", "failed", "arm"}
  PROVE  /\ PcInv' /\ DataInv' /\ MutexInv' /\ CallInv' /\ HistInv' /\ StreamInv' /\ ReportInv'
         /\ AbstractStep
<1>1. PcInv /\ DataInv
  BY DEF IInv
<1>2. PcInv'
  BY <1>1 DEF PcInv, Thread
<1>3. \A u \in Thread : pc'[u] = pc[u] \/ (pc[u] \notin Busy /\ pc'[u] \notin Busy)
  BY <1>1 DEF PcInv
<1>4. DataInv'
  BY <1>1 DEF DataInv, Room
<1>5. MutexInv' /\ CallInv' /\ HistInv' /\ StreamInv' /\ ReportInv' /\ Stream' = Stream
  BY <1>2, <1>3, Quiet
<1>6. AbstractStep
  BY <1>3, <1>5, Stutters DEF Busy
<1> QED
  BY <1>2, <1>4, <1>5, <1>6

\* A handler that begins a message.
LEMMA Start ==
  ASSUME IInv, NEW t \in Thread, pc[t] = "idle", pc' = [pc EXCEPT ![t] = "send"],
         issued' = [issued EXCEPT ![t] = @ + 1],
         UNCHANGED <<send_mutex_, write_buffer_, wire, call, returned, clientRead>>
  PROVE  /\ PcInv' /\ DataInv' /\ MutexInv' /\ CallInv' /\ HistInv' /\ StreamInv' /\ ReportInv'
         /\ AbstractStep
<1>1. PcInv /\ DataInv /\ MutexInv /\ CallInv /\ HistInv /\ StreamInv /\ ReportInv
  BY DEF IInv
<1>2. PcInv'
  BY <1>1 DEF PcInv, Thread
<1>3. DataInv'
  BY <1>1 DEF DataInv, Room
<1>4. /\ pc'[t] = "send" /\ issued'[t] = issued[t] + 1 /\ issued[t] \in Nat
      /\ \A u \in Thread : u # t => pc'[u] = pc[u] /\ issued'[u] = issued[u]
      /\ \A u \in Thread : issued[u] \in Nat
  BY <1>1 DEF PcInv, HistInv
<1>5. MutexInv'
  BY <1>1, <1>4 DEF MutexInv, BlockedHoldsMutex, NoCall
<1>6. CallInv'
  <2>1. \A u \in Thread : pc'[u] = "blocked" =>
          /\ write_buffer_ = <<>>
          /\ call.sent \in 0..MessageLen[u] - 1
          /\ call.left = Rest(u, issued'[u], call.sent)
    BY <1>1, <1>4 DEF CallInv
  <2>2. pc'["main"] = "flushing" =>
          /\ call.sent \in 0..Len(write_buffer_)
          /\ call.left = [head |-> <<>>, body |-> Drop(write_buffer_, call.sent)]
    BY <1>1, <1>4 DEF CallInv, Thread
  <2> QED
    BY <2>1, <2>2 DEF CallInv
<1>7. Stream' = Stream
  <2>1. pc'["main"] = "flushing" <=> pc["main"] = "flushing"
    BY <1>4 DEF Thread
  <2> QED
    BY <2>1, StreamIs
<1>8. HistInv'
  <2>1. issued' \in [Thread -> Nat]
    BY <1>1 DEF HistInv
  <2>2. \A u \in Thread : Len(returned[u]) =
          IF pc'[u] \in {"send", "blocked"} THEN issued'[u] - 1 ELSE issued'[u]
    BY <1>1, <1>4 DEF HistInv
  <2> QED
    BY <1>1, <2>1, <2>2 DEF HistInv
<1>9. StreamInv'
  <2>1. \A i \in 1..Len(Stream) : Stream[i] \in Bytes /\ Stream[i].seq <= issued[Stream[i].from]
    BY <1>1, StreamType, ElementOfSeq DEF StreamInv
  <2>2. \A i \in 1..Len(Stream) : Stream[i].seq <= issued'[Stream[i].from]
    BY <1>4, <2>1 DEF Bytes
  <2>3. ASSUME NEW u \in Thread, pc'[u] = "send" PROVE At(Stream, u, issued'[u], 0)
    <3>1. CASE u # t
      BY <1>1, <1>4, <2>3, <3>1 DEF StreamInv
    <3>2. CASE u = t
      <4>1. \A i \in 1..Len(Stream) : Stream[i].from = t => Stream[i].seq < issued'[t]
        BY <1>4, <2>1 DEF Bytes
      <4> QED
        BY <3>2, <4>1 DEF At
    <3> QED
      BY <3>1, <3>2
  <2>4. ASSUME NEW u \in Thread, pc'[u] = "blocked"
        PROVE  At(Stream, u, issued'[u], call.sent)
    BY <1>1, <1>4, <2>4 DEF StreamInv
  <2> QED
    BY <1>1, <1>7, <2>2, <2>3, <2>4 DEF StreamInv
<1>10. ReportInv'
  BY <1>1, <1>7 DEF ReportInv
<1>11. AbstractStep
  <2>1. issued[t] = Len(returned[t])
    BY <1>1 DEF HistInv
  <2>2. Writing' = Writing
    BY <1>4 DEF Writing
  <2>3. Written' = Written
    BY <2>2 DEF Written
  <2>4. Messages!Begin(t)
    BY <1>7, <2>1, <2>2, <2>3 DEF Messages!Begin
  <2> QED
    BY <2>4 DEF AbstractStep, Messages!StreamNext
<1> QED
  BY <1>2, <1>3, <1>5, <1>6, <1>8, <1>9, <1>10, <1>11

\* The thread in a message returns from its call or stays in it.
LEMMA SenderStep ==
  ASSUME IInv, NEW t \in Thread, pc[t] \in {"send", "blocked"},
         send_mutex_ \in {"free", t}, NEW step \in {"sent", "failed", "blocked"},
         t = "main" => step # "failed", pc' = [pc EXCEPT ![t] = step],
         send_mutex_' = IF step = "blocked" THEN t ELSE "free",
         step # "blocked" => call' = NoCall,
         UNCHANGED <<issued, consecutive_drops_>>
  PROVE  /\ PcInv' /\ DropInv' /\ MutexInv'
         /\ \A u \in Thread : u # t => pc[u] # "blocked"
         /\ pc["main"] # "flushing" /\ pc'["main"] # "flushing"
         /\ step # "blocked" => CallInv'
<1>1. PcInv /\ MutexInv /\ DropInv
  BY DEF IInv
<1>2. PcInv'
  BY <1>1 DEF PcInv, Thread
<1>3. DropInv'
  BY <1>1 DEF DropInv, PcInv, Thread
<1>4. pc'[t] = step /\ \A u \in Thread : u # t => pc'[u] = pc[u]
  BY <1>1 DEF PcInv
<1>5. \A u \in Thread : u # t => pc[u] \notin {"blocked", "flushing"}
  BY <1>1 DEF MutexInv, BlockedHoldsMutex, Thread
<1>6. MutexInv'
  <2>1. \A u \in Thread : pc'[u] \in {"blocked", "flushing"} <=> send_mutex_' = u
    BY <1>4, <1>5 DEF Thread
  <2>2. send_mutex_' = "free" => call' = NoCall
    BY DEF Thread
  <2>3. send_mutex_' \in Thread \cup {"free"}
    OBVIOUS
  <2> QED
    BY <2>1, <2>2, <2>3 DEF MutexInv, BlockedHoldsMutex, NoCall
<1>7. pc["main"] # "flushing" /\ pc'["main"] # "flushing"
  BY <1>4, <1>5 DEF Thread
<1>8. ASSUME step # "blocked" PROVE CallInv'
  <2>1. \A u \in Thread : pc'[u] # "blocked"
    BY <1>4, <1>5, <1>8
  <2> QED
    BY <1>7, <2>1 DEF CallInv
<1> QED
  BY <1>2, <1>3, <1>5, <1>6, <1>7, <1>8

\* The pc and the result of a call that returns.
LEMMA ReturnFacts ==
  ASSUME NEW t \in Thread, NEW result \in {"whole", "cut", "failed"}, Return(t, result)
  PROVE  /\ \E step \in {"sent", "failed"} :
              (t = "main" => step # "failed") /\ pc' = [pc EXCEPT ![t] = step]
         /\ returned' = [returned EXCEPT ![t] = Append(@, result)]
         /\ issued' = issued
<1>1. CASE t = "main" \/ result # "failed"
  BY <1>1 DEF Return, Goto
<1>2. CASE ~(t = "main" \/ result # "failed")
  BY <1>2 DEF Return, Goto
<1> QED
  BY <1>1, <1>2

-----------------------------------------------------------------------------
\* Send and SendV.

\* The call returns: whatever it did to socket and buffer together appended the
\* bytes up to m.
LEMMA Returns ==
  ASSUME IInv, NEW t \in Thread, NEW k \in Nat, NEW m \in Nat, k <= m, m <= MessageLen[t],
         k = IF pc[t] = "blocked" THEN call.sent ELSE 0,
         pc[t] \in {"send", "blocked"}, send_mutex_ \in {"free", t},
         At(Stream, t, issued[t], k),
         NEW result \in {"whole", "cut", "failed"}, Return(t, result),
         result = "whole" => m = MessageLen[t],
         result = "cut" => m \in 1..MessageLen[t] - 1,
         result = "failed" => m \in {0, Split(t)},
         send_mutex_' = "free", call' = NoCall, UNCHANGED <<consecutive_drops_, clientRead>>,
         wire' \o write_buffer_' = (wire \o write_buffer_) \o Piece(t, issued[t], k, m)
  PROVE  /\ AbstractStep /\ PcInv' /\ DropInv' /\ MutexInv' /\ CallInv' /\ HistInv'
         /\ StreamInv' /\ ReportInv'
<1>1. /\ \E step \in {"sent", "failed"} :
           (t = "main" => step # "failed") /\ pc' = [pc EXCEPT ![t] = step]
      /\ returned' = [returned EXCEPT ![t] = Append(@, result)]
      /\ issued' = issued
  BY ReturnFacts
<1>2. PICK step \in {"sent", "failed"} :
        (t = "main" => step # "failed") /\ pc' = [pc EXCEPT ![t] = step]
  BY <1>1
<1>3. /\ PcInv' /\ DropInv' /\ MutexInv' /\ CallInv'
      /\ \A u \in Thread : u # t => pc[u] # "blocked"
      /\ pc["main"] # "flushing" /\ pc'["main"] # "flushing"
  <2>1. /\ step \in {"sent", "failed", "blocked"} /\ step # "blocked"
        /\ send_mutex_' = IF step = "blocked" THEN t ELSE "free"
    BY <1>2
  <2> QED
    BY <1>1, <1>2, <2>1, SenderStep
<1>4. Stream' = Stream \o Piece(t, issued[t], k, m)
  BY <1>3, StreamIs
<1>5. HistInv' /\ StreamInv' /\ ReportInv'
  <2>1. /\ step \notin {"send", "blocked"}
        /\ \E res \in {"whole", "cut", "failed"} :
             /\ returned' = [returned EXCEPT ![t] = Append(@, res)]
             /\ res = "whole" => m = MessageLen[t]
             /\ res = "failed" => m <= Split(t)
    <3>1. result = "failed" => m <= Split(t)
      BY Sizes
    <3> QED
      BY <1>1, <1>2, <3>1
  <2> QED
    BY <1>1, <1>2, <1>3, <1>4, <2>1, Emit
<1>6. AbstractStep
  <2>1. Messages!Put(t, m)
    BY <1>1, <1>3, <1>4, Puts DEF IInv
  <2>2. \A u \in Thread : pc'[u] # "blocked"
    BY <1>2, <1>3 DEF IInv, PcInv
  <2> QED
    BY <1>1, <2>1, <2>2, Finishes
<1> QED
  BY <1>3, <1>5, <1>6

\* The call stays, with nothing buffered.
LEMMA Stays ==
  ASSUME IInv, NEW t \in Thread, NEW k \in Nat, NEW m \in Nat, k <= m, m < MessageLen[t],
         k = IF pc[t] = "blocked" THEN call.sent ELSE 0,
         pc[t] \in {"send", "blocked"}, send_mutex_ \in {"free", t},
         At(Stream, t, issued[t], k), pc' = [pc EXCEPT ![t] = "blocked"],
         call' = [sent |-> m, left |-> Rest(t, issued[t], m)],
         send_mutex_' = t, UNCHANGED <<consecutive_drops_, issued, returned, clientRead>>,
         write_buffer_ = <<>>, write_buffer_' = <<>>,
         wire \in Seq(Bytes), wire' = wire \o Piece(t, issued[t], k, m)
  PROVE  /\ AbstractStep /\ PcInv' /\ DropInv' /\ MutexInv' /\ CallInv' /\ HistInv'
         /\ StreamInv' /\ ReportInv'
<1>1. /\ PcInv' /\ DropInv' /\ MutexInv'
      /\ \A u \in Thread : u # t => pc[u] # "blocked"
      /\ pc["main"] # "flushing" /\ pc'["main"] # "flushing"
  <2>1. PICK step \in {"sent", "failed", "blocked"} : step = "blocked"
    OBVIOUS
  <2>2. /\ (t = "main" => step # "failed") /\ pc' = [pc EXCEPT ![t] = step]
        /\ send_mutex_' = IF step = "blocked" THEN t ELSE "free"
        /\ step # "blocked" => call' = NoCall
    BY <2>1
  <2> QED
    BY <2>2, SenderStep
<1>2. call'.sent = m /\ call'.left = Rest(t, issued[t], m)
  OBVIOUS
<1>3. pc'[t] = "blocked" /\ \A u \in Thread : u # t => pc'[u] = pc[u]
  BY DEF IInv, PcInv
<1>4. CallInv'
  <2>1. \A u \in Thread : pc'[u] = "blocked" => u = t
    BY <1>1, <1>3
  <2>2. m \in 0..MessageLen[t] - 1
    BY Sizes
  <2> QED
    BY <1>1, <1>2, <2>1, <2>2 DEF CallInv
<1>5. Stream' = Stream \o Piece(t, issued[t], k, m)
  <2>1. issued[t] \in Nat \ {0}
    BY Number DEF IInv
  <2>2. wire' \in Seq(Bytes)
    BY <2>1, PieceFacts, ConcatProperties
  <2>3. wire \o <<>> = wire /\ wire' \o <<>> = wire'
    BY <2>2, ConcatEmptySeq
  <2> QED
    BY <1>1, <2>3, StreamIs
<1>6. HistInv' /\ StreamInv' /\ ReportInv'
  <2>1. PICK step : step = "blocked"
    OBVIOUS
  <2>2. /\ pc' = [pc EXCEPT ![t] = step]
        /\ step = "blocked" /\ call'.sent = m /\ returned' = returned
    BY <1>2, <2>1
  <2> QED
    BY <1>1, <1>5, <2>2, Emit
<1>7. AbstractStep
  <2>1. m <= MessageLen[t]
    BY Sizes
  <2>2. Messages!Put(t, m)
    BY <1>1, <1>5, <2>1, Puts DEF IInv
  <2> QED
    BY <1>1, <1>2, <1>3, <2>2, Waits
<1> QED
  BY <1>1, <1>4, <1>6, <1>7

\* What holds when a thread has got the mutex to send.
LEMMA SendFacts ==
  ASSUME IInv, NEW t \in Thread, pc[t] = "send", send_mutex_ = "free"
  PROVE  /\ issued[t] \in Nat \ {0} /\ Message(t, issued[t]) = Rest(t, issued[t], 0)
         /\ At(Stream, t, issued[t], 0) /\ call = NoCall
         /\ wire \in Seq(Bytes) /\ write_buffer_ \in Seq(Bytes)
         /\ Len(write_buffer_) <= BufferSize /\ Room \in Nat
         /\ MessageLen[t] \in Nat /\ Split(t) \in Nat /\ Split(t) < MessageLen[t]
         /\ 0 \in 0..MessageLen[t]
<1>1. issued[t] \in Nat \ {0}
  BY Number DEF IInv
<1>2. Message(t, issued[t]) = Rest(t, issued[t], 0)
  BY <1>1, MessageIsRest
<1>3. At(Stream, t, issued[t], 0) /\ call = NoCall
  BY DEF IInv, StreamInv, MutexInv, BlockedHoldsMutex
<1>4. /\ wire \in Seq(Bytes) /\ write_buffer_ \in Seq(Bytes)
      /\ Len(write_buffer_) <= BufferSize /\ Room \in Nat
  BY SizesAssumption DEF IInv, DataInv
<1>5. MessageLen[t] \in Nat /\ Split(t) \in Nat /\ Split(t) < MessageLen[t]
  BY Sizes
<1>6. 0 \in 0..MessageLen[t]
  BY <1>5
<1> QED
  BY <1>1, <1>2, <1>3, <1>4, <1>5, <1>6

\* The flags are none of Send's business.
LEMMA FlagsKept ==
  ASSUME FlagInv, UNCHANGED <<teardown, interest, registered, nonblocking, peerReset,
                              interrupts>>
  PROVE  FlagInv'
BY DEF FlagInv

\* Behind a buffer that is not empty.
LEMMA SendBufferedStep ==
  ASSUME IInv, NEW t \in Thread, pc[t] = "send", send_mutex_ = "free",
         SendBuffered(t, Message(t, issued[t])), UNCHANGED <<consecutive_drops_, clientRead>>
  PROVE  /\ AbstractStep /\ PcInv' /\ DropInv' /\ MutexInv' /\ CallInv' /\ HistInv'
         /\ StreamInv' /\ ReportInv' /\ DataInv'
<1>1. PICK n \in Nat \ {0} : n = issued[t]
  BY SendFacts
<1> DEFINE msg == Rest(t, n, 0)
<1>2. /\ Message(t, issued[t]) = msg /\ At(Stream, t, issued[t], 0) /\ call = NoCall
      /\ wire \in Seq(Bytes) /\ write_buffer_ \in Seq(Bytes)
      /\ Len(write_buffer_) <= BufferSize /\ 0 \in 0..MessageLen[t]
      /\ MessageLen[t] \in Nat /\ Split(t) \in Nat
  BY <1>1, SendFacts
<1>3. PICK m \in 0..MessageLen[t] :
        /\ Buffered(write_buffer_, msg) = write_buffer_ \o Piece(t, n, 0, m)
        /\ Buffered(write_buffer_, msg) \in Seq(Bytes)
        /\ Len(Buffered(write_buffer_, msg)) <= BufferSize
        /\ Fits(write_buffer_, msg) => m = MessageLen[t]
        /\ ~Fits(write_buffer_, msg) => m = 0 \/ m = Split(t)
  BY <1>2, BufferedIsPiece
<1> HIDE DEF msg
<1>4. /\ m \in Nat /\ 0 <= m /\ 0 \in Nat /\ m <= MessageLen[t]
      /\ 0 = IF pc[t] = "blocked" THEN call.sent ELSE 0
  BY <1>2
<1>5. /\ write_buffer_' = Buffered(write_buffer_, msg)
      /\ Return(t, IF Fits(write_buffer_, msg) THEN "whole" ELSE "failed")
      /\ UNCHANGED <<send_mutex_, wire, call>>
  BY <1>2 DEF SendBuffered
<1>6. wire' \o write_buffer_' = (wire \o write_buffer_) \o Piece(t, issued[t], 0, m)
  <2>1. Piece(t, n, 0, m) \in Seq(Bytes)
    BY <1>4, PieceFacts
  <2>2. \A p \in Seq(Bytes) : (wire \o write_buffer_) \o p = wire \o (write_buffer_ \o p)
    BY <1>2, ConcatAssociative, SMTT(30)
  <2> QED
    BY <1>1, <1>3, <1>5, <2>1, <2>2
<1>7. PICK result \in {"whole", "cut", "failed"} :
        /\ Return(t, result)
        /\ result = "whole" => m = MessageLen[t]
        /\ result = "cut" => m \in 1..MessageLen[t] - 1
        /\ result = "failed" => m \in {0, Split(t)}
  <2>1. CASE Fits(write_buffer_, msg)
    <3>1. Return(t, "whole") /\ m = MessageLen[t]
      BY <1>3, <1>5, <2>1
    <3> QED
      BY <3>1
  <2>2. CASE ~Fits(write_buffer_, msg)
    <3>1. Return(t, "failed") /\ m \in {0, Split(t)}
      BY <1>2, <1>3, <1>5, <2>2
    <3> QED
      BY <3>1
  <2> QED
    BY <2>1, <2>2
<1>8. /\ AbstractStep /\ PcInv' /\ DropInv' /\ MutexInv' /\ CallInv' /\ HistInv'
      /\ StreamInv' /\ ReportInv'
  BY <1>2, <1>4, <1>5, <1>6, <1>7, Returns
<1>9. DataInv'
  BY <1>3, <1>5 DEF IInv, DataInv, Room
<1> QED
  BY <1>8, <1>9

\* All of it to the kernel.
LEMMA SendDirectStep ==
  ASSUME IInv, NEW t \in Thread, pc[t] = "send", send_mutex_ = "free",
         SendDirect(t, Message(t, issued[t])), UNCHANGED <<consecutive_drops_, clientRead>>
  PROVE  /\ AbstractStep /\ PcInv' /\ DropInv' /\ MutexInv' /\ CallInv' /\ HistInv'
         /\ StreamInv' /\ ReportInv' /\ DataInv'
<1>1. PICK n \in Nat \ {0} : n = issued[t]
  BY SendFacts
<1>2. PICK L \in Nat : L = MessageLen[t]
  BY SendFacts
<1> DEFINE msg == Rest(t, n, 0)
           p == Piece(t, n, 0, L)
<1>3. /\ Message(t, issued[t]) = msg /\ At(Stream, t, issued[t], 0) /\ call = NoCall
      /\ wire \in Seq(Bytes) /\ 0 \in 0..MessageLen[t] /\ Room \in Nat
  BY <1>1, SendFacts
<1>4. /\ msg.head \in Seq(Bytes) /\ msg.body \in Seq(Bytes)
      /\ msg.head \o msg.body = p
  BY <1>2, <1>3, RestParts, RestBytes
<1>5. p \in Seq(Bytes) /\ Len(p) = L
  <2>1. 0 \in Nat /\ 0 <= L /\ L - 0 = L
    OBVIOUS
  <2> QED
    BY <2>1, PieceFacts
<1> HIDE DEF msg, p
<1>6. /\ write_buffer_ = <<>> /\ Room >= Len(msg.head) + Len(msg.body)
      /\ wire' = wire \o msg.head \o msg.body
      /\ Return(t, "whole")
      /\ UNCHANGED <<send_mutex_, write_buffer_, call>>
  BY <1>3 DEF SendDirect
<1>7. wire' = wire \o p
  <2>1. \A h, b \in Seq(Bytes) : (wire \o h) \o b = wire \o (h \o b)
    BY <1>3, ConcatAssociative
  <2> QED
    BY <1>4, <1>6, <2>1
<1>8. wire' \in Seq(Bytes) /\ Len(wire') = Len(wire) + L
  BY <1>3, <1>5, <1>7, ConcatProperties
<1>9. wire' \o write_buffer_' = (wire \o write_buffer_) \o Piece(t, issued[t], 0, L)
  <2>1. wire \o <<>> = wire /\ wire' \o <<>> = wire'
    BY <1>3, <1>8, ConcatEmptySeq
  <2> QED
    BY <1>1, <1>6, <1>7, <2>1 DEF p
<1>10. /\ AbstractStep /\ PcInv' /\ DropInv' /\ MutexInv' /\ CallInv' /\ HistInv'
       /\ StreamInv' /\ ReportInv'
  <2>1. PICK result \in {"whole", "cut", "failed"} : result = "whole"
    OBVIOUS
  <2>2. /\ Return(t, result)
        /\ result = "whole" => L = MessageLen[t]
        /\ result # "cut" /\ result # "failed" /\ L <= MessageLen[t]
    BY <1>2, <1>6, <2>1
  <2>3. 0 \in Nat /\ 0 <= L /\ 0 = IF pc[t] = "blocked" THEN call.sent ELSE 0
    OBVIOUS
  <2> QED
    BY <1>3, <1>6, <1>9, <2>2, <2>3, Returns
<1>11. DataInv'
  <2>1. L \in 0..Room
    <3>1. Len(msg.head \o msg.body) = Len(msg.head) + Len(msg.body)
      BY <1>4, ConcatProperties
    <3>2. Len(msg.head) + Len(msg.body) = L
      BY <1>4, <1>5, <3>1
    <3>3. Room >= L
      BY <1>6, <3>2
    <3> QED
      BY <1>3, <3>3
  <2>2. clientRead' \in 0..Len(wire') /\ Room' \in 0..SendRoom
    BY <1>8, <2>1, RoomLeft DEF IInv
  <2> QED
    BY <1>6, <1>8, <2>2 DEF IInv, DataInv
<1> QED
  BY <1>10, <1>11

\* What a short count leaves goes to the empty buffer: all of it, nothing, or
\* the rest of the header.
LEMMA KeepRestFacts ==
  ASSUME NEW t \in Thread, NEW n \in Nat \ {0}, NEW k \in Nat, k < MessageLen[t],
         KeepRest(t, k, Rest(t, n, k))
  PROVE  \E m \in Nat : \E result \in {"whole", "cut", "failed"} :
           /\ k <= m /\ m <= MessageLen[t] /\ Return(t, result)
           /\ write_buffer_' = Piece(t, n, k, m)
           /\ write_buffer_' \in Seq(Bytes) /\ Len(write_buffer_') <= BufferSize
           /\ result = "whole" => m = MessageLen[t]
           /\ result = "cut" => m \in 1..MessageLen[t] - 1
           /\ result = "failed" => m \in {0, Split(t)}
<1> DEFINE rest == Rest(t, n, k)
<1>1. /\ MessageLen[t] \in Nat /\ Split(t) \in Nat /\ k \in 0..MessageLen[t]
      /\ <<>> \in Seq(Bytes) /\ Len(<<>>) <= BufferSize
  BY Sizes, SizesAssumption, EmptySeq
<1>2. PICK m \in k..MessageLen[t] :
        /\ Buffered(<<>>, rest) = <<>> \o Piece(t, n, k, m)
        /\ Buffered(<<>>, rest) \in Seq(Bytes)
        /\ Len(Buffered(<<>>, rest)) <= BufferSize
        /\ Fits(<<>>, rest) => m = MessageLen[t]
        /\ ~Fits(<<>>, rest) => m = k \/ m = Split(t)
  BY <1>1, BufferedIsPiece
<1> HIDE DEF rest
<1>3. m \in Nat /\ k <= m /\ m <= MessageLen[t]
  BY <1>1
<1>4. <<>> \o Piece(t, n, k, m) = Piece(t, n, k, m)
  BY <1>3, PieceFacts, ConcatEmptySeq
<1>5. /\ write_buffer_' = Buffered(<<>>, rest)
      /\ Return(t, IF Fits(<<>>, rest) THEN "whole"
                   ELSE IF k > 0 THEN "cut" ELSE "failed")
  BY DEF KeepRest, rest
<1>6. PICK result \in {"whole", "cut", "failed"} :
        /\ Return(t, result)
        /\ result = "whole" => m = MessageLen[t]
        /\ result = "cut" => m \in 1..MessageLen[t] - 1
        /\ result = "failed" => m \in {0, Split(t)}
  <2>1. CASE Fits(<<>>, rest)
    <3>1. Return(t, "whole") /\ m = MessageLen[t]
      BY <1>2, <1>5, <2>1
    <3> QED
      BY <3>1
  <2>2. CASE ~Fits(<<>>, rest) /\ k > 0
    <3>1. Return(t, "cut") /\ m \in 1..MessageLen[t] - 1
      BY <1>1, <1>2, <1>5, <2>2, Sizes
    <3> QED
      BY <3>1
  <2>3. CASE ~Fits(<<>>, rest) /\ ~(k > 0)
    <3>1. Return(t, "failed") /\ m \in {0, Split(t)}
      BY <1>1, <1>2, <1>5, <2>3
    <3> QED
      BY <3>1
  <2> QED
    BY <2>1, <2>2, <2>3
<1> QED
  BY <1>2, <1>3, <1>4, <1>5, <1>6

\* The length of what is left of a message, ...
LEMMA RestLen ==
  ASSUME NEW t \in Thread, NEW n \in Nat \ {0}, NEW k \in 0..MessageLen[t]
  PROVE  /\ Len(Rest(t, n, k).head) + Len(Rest(t, n, k).body) = MessageLen[t] - k
         /\ Len(Rest(t, n, k).head \o Rest(t, n, k).body) = MessageLen[t] - k
<1>1. k \in Nat /\ MessageLen[t] \in Nat /\ k <= MessageLen[t]
  BY Sizes
<1>2. Rest(t, n, k).head \in Seq(Bytes) /\ Rest(t, n, k).body \in Seq(Bytes)
  BY RestParts
<1>3. Rest(t, n, k).head \o Rest(t, n, k).body = Piece(t, n, k, MessageLen[t])
  BY RestBytes
<1>4. Len(Piece(t, n, k, MessageLen[t])) = MessageLen[t] - k
  BY <1>1, PieceFacts
<1>5. Len(Rest(t, n, k).head \o Rest(t, n, k).body)
        = Len(Rest(t, n, k).head) + Len(Rest(t, n, k).body)
  BY <1>2, ConcatProperties
<1> QED
  BY <1>3, <1>4, <1>5

\* ... and the bytes the kernel takes of it, when it has room up to byte m.
LEMMA TakeRest ==
  ASSUME NEW t \in Thread, NEW n \in Nat \ {0}, NEW k \in Nat, NEW m \in Nat,
         NEW room \in Nat, m = k + room, m <= MessageLen[t], NEW w \in Seq(Bytes)
  PROVE  /\ Take(Rest(t, n, k).head \o Rest(t, n, k).body, room) = Piece(t, n, k, m)
         /\ w \o Piece(t, n, k, m) \in Seq(Bytes)
         /\ Len(w \o Piece(t, n, k, m)) = Len(w) + room
<1>1. PICK L \in Nat : L = MessageLen[t]
  BY Sizes
<1>2. k <= L /\ k \in 0..MessageLen[t] /\ Smaller(k + room, L) = m /\ k <= m
  BY <1>1 DEF Smaller
<1>3. Rest(t, n, k).head \o Rest(t, n, k).body = Piece(t, n, k, L)
  BY <1>1, <1>2, RestBytes
<1>4. Take(Piece(t, n, k, L), room) = Piece(t, n, k, Smaller(k + room, L))
  BY <1>2, TakePiece
<1>5. Piece(t, n, k, m) \in Seq(Bytes) /\ Len(Piece(t, n, k, m)) = room
  <2>1. m - k = room /\ k <= m
    BY <1>2
  <2>2. Piece(t, n, k, m) \in Seq(Bytes) /\ Len(Piece(t, n, k, m)) = m - k
    BY <2>1, PieceType
  <2> QED
    BY <2>1, <2>2
<1>6. /\ w \o Piece(t, n, k, m) \in Seq(Bytes)
      /\ Len(w \o Piece(t, n, k, m)) = Len(w) + room
  <2>1. /\ w \o Piece(t, n, k, m) \in Seq(Bytes)
        /\ Len(w \o Piece(t, n, k, m)) = Len(w) + Len(Piece(t, n, k, m))
    BY <1>5, ConcatProperties
  <2> QED
    BY <1>5, <2>1
<1> QED
  BY <1>2, <1>3, <1>4, <1>6

\* Bytes a message has on the socket and behind them in the buffer.
LEMMA PiecesBehind ==
  ASSUME NEW t \in Thread, NEW n \in Nat \ {0}, NEW a \in Nat, NEW b \in Nat, a <= b,
         NEW w \in Seq(Bytes)
  PROVE  (w \o Piece(t, n, 0, a)) \o Piece(t, n, a, b) = w \o Piece(t, n, 0, b)
<1>1. 0 \in Nat /\ 0 <= a
  OBVIOUS
<1>2. Piece(t, n, 0, a) \in Seq(Bytes)
  BY <1>1, PieceType
<1>3. Piece(t, n, a, b) \in Seq(Bytes)
  BY PieceType
<1>4. Piece(t, n, 0, a) \o Piece(t, n, a, b) = Piece(t, n, 0, b)
  BY <1>1, PiecesMeet
<1>5. (w \o Piece(t, n, 0, a)) \o Piece(t, n, a, b)
        = w \o (Piece(t, n, 0, a) \o Piece(t, n, a, b))
  BY <1>2, <1>3, ConcatAssociative, SMTT(30)
<1> QED
  BY <1>4, <1>5

\* As much as the kernel takes, the rest to the buffer.
LEMMA SendShortStep ==
  ASSUME IInv, NEW t \in Thread, pc[t] = "send", send_mutex_ = "free",
         SendShort(t, Message(t, issued[t])), UNCHANGED <<consecutive_drops_, clientRead>>
  PROVE  /\ AbstractStep /\ PcInv' /\ DropInv' /\ MutexInv' /\ CallInv' /\ HistInv'
         /\ StreamInv' /\ ReportInv' /\ DataInv'
<1>1. PICK n \in Nat \ {0} : n = issued[t]
  BY SendFacts
<1>2. PICK room \in Nat : room = Room
  BY SendFacts
<1>3. PICK msg : msg = Rest(t, n, 0)
  OBVIOUS
<1>4. /\ Message(t, issued[t]) = msg /\ At(Stream, t, issued[t], 0) /\ call = NoCall
      /\ wire \in Seq(Bytes) /\ MessageLen[t] \in Nat /\ 0 \in 0..MessageLen[t]
  BY <1>1, <1>3, SendFacts
<1>5. /\ write_buffer_ = <<>> /\ room < Len(msg.head) + Len(msg.body)
      /\ wire' = wire \o Take(msg.head \o msg.body, room)
      /\ KeepRest(t, room, Skip(msg, room))
      /\ UNCHANGED <<send_mutex_, call>>
  BY <1>2, <1>4 DEF SendShort
<1>6. room < MessageLen[t]
  <2>1. Len(msg.head) + Len(msg.body) = MessageLen[t]
    <3>1. MessageLen[t] - 0 = MessageLen[t]
      BY <1>4
    <3> QED
      BY <1>3, <1>4, <3>1, RestLen
  <2> QED
    BY <1>5, <2>1
<1>7. 0 \in Nat /\ 0 + room <= MessageLen[t] /\ 0 + room = room
  BY <1>4, <1>6
<1>8. /\ wire' = wire \o Piece(t, n, 0, room)
      /\ wire' \in Seq(Bytes) /\ Len(wire') = Len(wire) + room
  <2>a. PICK k \in Nat, m \in Nat : k = 0 /\ m = room
    OBVIOUS
  <2>1. m = k + room /\ m <= MessageLen[t] /\ wire \in Seq(Bytes)
    BY <1>4, <1>7, <2>a
  <2>2. /\ Take(Rest(t, n, k).head \o Rest(t, n, k).body, room) = Piece(t, n, k, m)
        /\ wire \o Piece(t, n, k, m) \in Seq(Bytes)
        /\ Len(wire \o Piece(t, n, k, m)) = Len(wire) + room
    BY <2>1, TakeRest
  <2> QED
    BY <1>3, <1>5, <2>a, <2>2
<1>9. Skip(msg, room) = Rest(t, n, room)
  BY <1>3, <1>7, SkipRest
<1>10. PICK m \in Nat : \E result \in {"whole", "cut", "failed"} :
         /\ room <= m /\ m <= MessageLen[t] /\ Return(t, result)
         /\ write_buffer_' = Piece(t, n, room, m)
         /\ write_buffer_' \in Seq(Bytes) /\ Len(write_buffer_') <= BufferSize
         /\ result = "whole" => m = MessageLen[t]
         /\ result = "cut" => m \in 1..MessageLen[t] - 1
         /\ result = "failed" => m \in {0, Split(t)}
  <2>1. KeepRest(t, room, Rest(t, n, room)) /\ room < MessageLen[t]
    BY <1>4, <1>5, <1>6, <1>9
  <2> QED
    BY <2>1, KeepRestFacts
<1>11. PICK result \in {"whole", "cut", "failed"} :
         /\ Return(t, result)
         /\ result = "whole" => m = MessageLen[t]
         /\ result = "cut" => m \in 1..MessageLen[t] - 1
         /\ result = "failed" => m \in {0, Split(t)}
  BY <1>10
<1>12. wire' \o write_buffer_' = (wire \o write_buffer_) \o Piece(t, issued[t], 0, m)
  <2>1. room <= m
    BY <1>10
  <2>2. wire \in Seq(Bytes)
    BY <1>4
  <2>3. (wire \o Piece(t, n, 0, room)) \o Piece(t, n, room, m) = wire \o Piece(t, n, 0, m)
    BY <2>1, <2>2, PiecesBehind, SMTT(30)
  <2>4. wire \o <<>> = wire
    BY <2>2, ConcatEmptySeq
  <2>5. wire' \o write_buffer_' = (wire \o Piece(t, n, 0, room)) \o Piece(t, n, room, m)
    BY <1>8, <1>10
  <2> QED
    BY <1>1, <1>5, <2>3, <2>4, <2>5
<1>13. /\ AbstractStep /\ PcInv' /\ DropInv' /\ MutexInv' /\ CallInv' /\ HistInv'
       /\ StreamInv' /\ ReportInv'
  <2>1. /\ 0 \in Nat /\ 0 <= m /\ m <= MessageLen[t]
        /\ 0 = IF pc[t] = "blocked" THEN call.sent ELSE 0
    BY <1>10
  <2> QED
    BY <1>4, <1>5, <1>11, <1>12, <2>1, Returns
<1>14. DataInv'
  <2>1. room \in 0..Room
    BY <1>2
  <2>2. clientRead' \in 0..Len(wire') /\ Room' \in 0..SendRoom
    BY <1>8, <2>1, RoomLeft DEF IInv
  <2> QED
    BY <1>8, <1>10, <2>2 DEF IInv, DataInv
<1> QED
  BY <1>13, <1>14

\* As much as the kernel takes, and the thread sleeps in the call.
LEMMA SendBlocksStep ==
  ASSUME IInv, NEW t \in Thread, pc[t] = "send", send_mutex_ = "free",
         SendBlocks(t, Message(t, issued[t])), UNCHANGED <<consecutive_drops_, clientRead>>
  PROVE  /\ AbstractStep /\ PcInv' /\ DropInv' /\ MutexInv' /\ CallInv' /\ HistInv'
         /\ StreamInv' /\ ReportInv' /\ DataInv'
<1>1. PICK n \in Nat \ {0} : n = issued[t]
  BY SendFacts
<1>2. PICK room \in Nat : room = Room
  BY SendFacts
<1>3. PICK msg : msg = Rest(t, n, 0)
  OBVIOUS
<1>4. /\ Message(t, issued[t]) = msg /\ At(Stream, t, issued[t], 0) /\ call = NoCall
      /\ wire \in Seq(Bytes) /\ MessageLen[t] \in Nat /\ 0 \in 0..MessageLen[t]
  BY <1>1, <1>3, SendFacts
<1>5. /\ write_buffer_ = <<>> /\ room < Len(msg.head) + Len(msg.body)
      /\ wire' = wire \o Take(msg.head \o msg.body, room)
      /\ call' = [sent |-> room, left |-> Skip(msg, room)]
      /\ send_mutex_' = t /\ pc' = [pc EXCEPT ![t] = "blocked"]
      /\ UNCHANGED <<write_buffer_, issued, returned>>
  BY <1>2, <1>4 DEF SendBlocks, Goto
<1>6. room < MessageLen[t]
  <2>1. Len(msg.head) + Len(msg.body) = MessageLen[t]
    <3>1. MessageLen[t] - 0 = MessageLen[t]
      BY <1>4
    <3> QED
      BY <1>3, <1>4, <3>1, RestLen
  <2> QED
    BY <1>5, <2>1
<1>7. 0 \in Nat /\ 0 + room <= MessageLen[t] /\ 0 + room = room
  BY <1>4, <1>6
<1>8. /\ wire' = wire \o Piece(t, n, 0, room)
      /\ wire' \in Seq(Bytes) /\ Len(wire') = Len(wire) + room
  <2>a. PICK k \in Nat, m \in Nat : k = 0 /\ m = room
    OBVIOUS
  <2>1. m = k + room /\ m <= MessageLen[t] /\ wire \in Seq(Bytes)
    BY <1>4, <1>7, <2>a
  <2>2. /\ Take(Rest(t, n, k).head \o Rest(t, n, k).body, room) = Piece(t, n, k, m)
        /\ wire \o Piece(t, n, k, m) \in Seq(Bytes)
        /\ Len(wire \o Piece(t, n, k, m)) = Len(wire) + room
    BY <2>1, TakeRest
  <2> QED
    BY <1>3, <1>5, <2>a, <2>2
<1>9. Skip(msg, room) = Rest(t, n, room)
  BY <1>3, <1>7, SkipRest
<1>10. /\ AbstractStep /\ PcInv' /\ DropInv' /\ MutexInv' /\ CallInv' /\ HistInv'
       /\ StreamInv' /\ ReportInv'
  <2>1. /\ 0 \in Nat /\ 0 <= room /\ 0 = IF pc[t] = "blocked" THEN call.sent ELSE 0
        /\ call' = [sent |-> room, left |-> Rest(t, issued[t], room)]
        /\ wire' = wire \o Piece(t, issued[t], 0, room)
        /\ write_buffer_' = <<>>
    BY <1>1, <1>5, <1>8, <1>9
  <2> QED
    BY <1>4, <1>5, <1>6, <2>1, Stays
<1>11. DataInv'
  <2>1. room \in 0..Room
    BY <1>2
  <2>2. clientRead' \in 0..Len(wire') /\ Room' \in 0..SendRoom
    BY <1>8, <2>1, RoomLeft DEF IInv
  <2> QED
    BY <1>5, <1>8, <2>2 DEF IInv, DataInv
<1> QED
  BY <1>10, <1>11

\* Nothing, to a connection that was reset.
LEMMA SendErrorStep ==
  ASSUME IInv, NEW t \in Thread, pc[t] = "send", send_mutex_ = "free",
         SendError(t, Message(t, issued[t])), UNCHANGED <<consecutive_drops_, clientRead>>
  PROVE  /\ AbstractStep /\ PcInv' /\ DropInv' /\ MutexInv' /\ CallInv' /\ HistInv'
         /\ StreamInv' /\ ReportInv' /\ DataInv'
<1>1. /\ issued[t] \in Nat \ {0} /\ At(Stream, t, issued[t], 0) /\ call = NoCall
      /\ wire \in Seq(Bytes) /\ write_buffer_ \in Seq(Bytes) /\ Split(t) \in Nat
  BY SendFacts
<1>2. Return(t, "failed") /\ UNCHANGED <<send_mutex_, write_buffer_, wire, call>>
  BY DEF SendError
<1>3. wire' \o write_buffer_' = (wire \o write_buffer_) \o Piece(t, issued[t], 0, 0)
  <2>1. Piece(t, issued[t], 0, 0) = <<>>
    BY <1>1, EmptyPiece
  <2>2. wire \o write_buffer_ \in Seq(Bytes)
    BY <1>1, ConcatProperties
  <2> QED
    BY <1>2, <2>1, <2>2, ConcatEmptySeq
<1>4. PICK k \in Nat : /\ k = 0 /\ k <= k /\ k <= MessageLen[t] /\ k \in {0, Split(t)}
                      /\ k = IF pc[t] = "blocked" THEN call.sent ELSE 0
  BY Sizes
<1>5. /\ AbstractStep /\ PcInv' /\ DropInv' /\ MutexInv' /\ CallInv' /\ HistInv'
      /\ StreamInv' /\ ReportInv'
  <2>1. PICK result \in {"whole", "cut", "failed"} : result = "failed"
    OBVIOUS
  <2>2. Return(t, result) /\ result # "whole" /\ result # "cut"
    BY <1>2, <2>1
  <2> QED
    BY <1>1, <1>2, <1>3, <1>4, <2>2, Returns
<1>6. DataInv'
  BY <1>2 DEF IInv, DataInv, Room
<1> QED
  BY <1>5, <1>6

\* Send and SendV, in all their branches.
LEMMA SendStep ==
  ASSUME IInv, NEW t \in Thread, Send(t)
  PROVE  IInv' /\ AbstractStep
<1>1. /\ pc[t] = "send" /\ send_mutex_ = "free"
      /\ UNCHANGED <<consecutive_drops_, teardown, interest, registered, nonblocking,
                     clientRead, peerReset, interrupts>>
  BY DEF Send, epollVars
<1>2. FlagInv'
  BY <1>1, FlagsKept DEF IInv
<1> DEFINE msg == Message(t, issued[t])
<1>3. CASE SendBuffered(t, msg)
  BY <1>1, <1>2, <1>3, SendBufferedStep DEF IInv
<1>4. CASE SendDirect(t, msg)
  BY <1>1, <1>2, <1>4, SendDirectStep DEF IInv
<1>5. CASE SendShort(t, msg)
  BY <1>1, <1>2, <1>5, SendShortStep DEF IInv
<1>6. CASE SendBlocks(t, msg)
  BY <1>1, <1>2, <1>6, SendBlocksStep DEF IInv
<1>7. CASE SendError(t, msg)
  BY <1>1, <1>2, <1>7, SendErrorStep DEF IInv
<1> QED
  BY <1>3, <1>4, <1>5, <1>6, <1>7 DEF Send

\* What holds while a thread is in a blocked call.
LEMMA BlockedFacts ==
  ASSUME IInv, NEW t \in Thread, pc[t] = "blocked"
  PROVE  /\ issued[t] \in Nat \ {0} /\ send_mutex_ = t /\ write_buffer_ = <<>>
         /\ call.sent \in Nat /\ call.sent < MessageLen[t] /\ MessageLen[t] \in Nat
         /\ call.sent \in 0..MessageLen[t]
         /\ call.left = Rest(t, issued[t], call.sent)
         /\ At(Stream, t, issued[t], call.sent)
         /\ wire \in Seq(Bytes) /\ Room \in Nat /\ Split(t) \in Nat
<1>1. issued[t] \in Nat \ {0}
  BY Number DEF IInv
<1>2. send_mutex_ = t
  BY DEF IInv, MutexInv, BlockedHoldsMutex
<1>3. /\ write_buffer_ = <<>> /\ call.sent \in 0..MessageLen[t] - 1
      /\ call.left = Rest(t, issued[t], call.sent)
  BY DEF IInv, CallInv
<1>4. At(Stream, t, issued[t], call.sent)
  BY DEF IInv, StreamInv
<1>5. wire \in Seq(Bytes) /\ Room \in Nat
  BY SizesAssumption DEF IInv, DataInv
<1>6. MessageLen[t] \in Nat /\ Split(t) \in Nat
  BY Sizes
<1>7. call.sent \in Nat /\ call.sent < MessageLen[t] /\ call.sent \in 0..MessageLen[t]
  BY <1>3, <1>6
<1> QED
  BY <1>1, <1>2, <1>3, <1>4, <1>5, <1>6, <1>7

\* The blocked call goes on.
LEMMA SendResumesStep ==
  ASSUME IInv, NEW t \in Thread, SendResumes(t)
  PROVE  IInv' /\ AbstractStep
<1>1. pc[t] = "blocked" /\ wire' = wire \o Take(Unsent, Room)
      /\ UNCHANGED <<write_buffer_, consecutive_drops_, teardown, interest, registered,
                     nonblocking, clientRead, peerReset, interrupts>>
  BY DEF SendResumes, epollVars
<1>2. PICK n \in Nat \ {0} : n = issued[t]
  BY <1>1, BlockedFacts
<1>3. PICK k \in Nat : k = call.sent
  BY <1>1, BlockedFacts
<1>4. PICK room \in Nat : room = Room
  BY <1>1, BlockedFacts
<1>5. PICK L \in Nat : L = MessageLen[t]
  BY Sizes
<1>6. /\ send_mutex_ = t /\ write_buffer_ = <<>> /\ k < L /\ k \in 0..MessageLen[t]
      /\ k = IF pc[t] = "blocked" THEN call.sent ELSE 0
      /\ call.left = Rest(t, n, k) /\ At(Stream, t, issued[t], k) /\ wire \in Seq(Bytes)
  BY <1>1, <1>2, <1>3, <1>5, BlockedFacts
<1>7. Unsent = Rest(t, n, k).head \o Rest(t, n, k).body /\ Len(Unsent) = L - k
  BY <1>5, <1>6, RestLen DEF Unsent
<1>8. FlagInv'
  BY <1>1, FlagsKept DEF IInv
<1>9. CASE room >= L - k
  <2>1. call' = NoCall /\ send_mutex_' = "free" /\ Return(t, "whole")
    BY <1>4, <1>7, <1>9 DEF SendResumes
  <2>2. Unsent = Piece(t, n, k, L)
    BY <1>5, <1>6, <1>7, RestBytes
  <2>3. Piece(t, n, k, L) \in Seq(Bytes) /\ Len(Piece(t, n, k, L)) = L - k
    <3>1. k <= L
      BY <1>6
    <3> QED
      BY <3>1, PieceFacts
  <2>4. wire' = wire \o Piece(t, n, k, L)
    <3>1. Take(Piece(t, n, k, L), room) = Piece(t, n, k, Smaller(k + room, L))
      <4>1. k <= L
        BY <1>6
      <4> QED
        BY <4>1, TakePiece
    <3>2. Smaller(k + room, L) = L
      BY <1>9 DEF Smaller
    <3> QED
      BY <1>1, <1>4, <2>2, <3>1, <3>2
  <2>5. wire' \in Seq(Bytes) /\ Len(wire') = Len(wire) + (L - k)
    <3>1. /\ wire \o Piece(t, n, k, L) \in Seq(Bytes)
          /\ Len(wire \o Piece(t, n, k, L)) = Len(wire) + Len(Piece(t, n, k, L))
      BY <1>6, <2>3, ConcatProperties
    <3> QED
      BY <2>3, <2>4, <3>1
  <2>6. wire' \o write_buffer_' = (wire \o write_buffer_) \o Piece(t, issued[t], k, L)
    <3>1. wire \o <<>> = wire /\ wire' \o <<>> = wire'
      BY <1>6, <2>5, ConcatEmptySeq
    <3> QED
      BY <1>1, <1>2, <1>6, <2>4, <3>1
  <2>7. /\ AbstractStep /\ PcInv' /\ DropInv' /\ MutexInv' /\ CallInv' /\ HistInv'
        /\ StreamInv' /\ ReportInv'
    <3>1. PICK result \in {"whole", "cut", "failed"} : result = "whole"
      OBVIOUS
    <3>2. /\ Return(t, result) /\ k <= L
          /\ result = "whole" => L = MessageLen[t]
          /\ result # "cut" /\ result # "failed" /\ L <= MessageLen[t]
      BY <1>5, <1>6, <2>1, <3>1
    <3> QED
      BY <1>1, <1>6, <2>1, <2>6, <3>2, Returns
  <2>8. DataInv'
    <3>1. L - k \in 0..Room
      BY <1>4, <1>6, <1>9
    <3>2. clientRead' \in 0..Len(wire') /\ Room' \in 0..SendRoom
      BY <1>1, <2>5, <3>1, RoomLeft DEF IInv
    <3> QED
      BY <1>1, <2>5, <3>2 DEF IInv, DataInv
  <2> QED
    BY <1>8, <2>7, <2>8 DEF IInv
<1>10. CASE ~(room >= L - k)
  <2>1. PICK m \in Nat : m = k + room
    OBVIOUS
  <2>2. k <= m /\ m < MessageLen[t] /\ m <= MessageLen[t] /\ k + room <= MessageLen[t]
    BY <1>5, <1>10, <2>1
  <2>3. /\ call' = [sent |-> call.sent + Room, left |-> Skip(call.left, Room)]
        /\ UNCHANGED <<pc, send_mutex_, issued, returned>>
    BY <1>4, <1>7, <1>10 DEF SendResumes, histVars
  <2>4. call' = [sent |-> m, left |-> Rest(t, issued[t], m)]
    <3>1. Skip(Rest(t, n, k), room) = Rest(t, n, k + room)
      BY <2>2, SkipRest
    <3> QED
      BY <1>2, <1>3, <1>4, <1>6, <2>1, <2>3, <3>1
  <2>5. /\ wire' = wire \o Piece(t, n, k, m)
        /\ wire' \in Seq(Bytes) /\ Len(wire') = Len(wire) + room
    <3>1. /\ Take(Rest(t, n, k).head \o Rest(t, n, k).body, room) = Piece(t, n, k, m)
          /\ wire \o Piece(t, n, k, m) \in Seq(Bytes)
          /\ Len(wire \o Piece(t, n, k, m)) = Len(wire) + room
      <4>1. wire \in Seq(Bytes) /\ m <= MessageLen[t]
        BY <1>6, <2>2
      <4> QED
        BY <2>1, <4>1, TakeRest
    <3> QED
      BY <1>1, <1>4, <1>7, <3>1
  <2>6. pc' = [pc EXCEPT ![t] = "blocked"]
    BY <1>1, <2>3 DEF IInv, PcInv
  <2>7. /\ AbstractStep /\ PcInv' /\ DropInv' /\ MutexInv' /\ CallInv' /\ HistInv'
        /\ StreamInv' /\ ReportInv'
    <3>1. /\ wire' = wire \o Piece(t, issued[t], k, m) /\ send_mutex_' = t
          /\ write_buffer_' = <<>>
      BY <1>1, <1>2, <1>6, <2>3, <2>5
    <3> QED
      BY <1>1, <1>6, <2>2, <2>3, <2>4, <2>6, <3>1, Stays
  <2>8. DataInv'
    <3>1. room \in 0..Room
      BY <1>4
    <3>2. clientRead' \in 0..Len(wire') /\ Room' \in 0..SendRoom
      BY <1>1, <2>5, <3>1, RoomLeft DEF IInv
    <3> QED
      BY <1>1, <2>5, <3>2 DEF IInv, DataInv
  <2> QED
    BY <1>8, <2>7, <2>8 DEF IInv
<1> QED
  BY <1>9, <1>10

\* A signal or a reset leaves the flags in their types.
LEMMA CutFlags ==
  ASSUME FlagInv, Cut, UNCHANGED <<teardown, nonblocking, peerReset>>,
         registered' \in BOOLEAN, interest' \in {{}, {"R"}, {"R", "W"}}
  PROVE  FlagInv'
<1>1. interrupts' \in 0..MaxInterrupts
  <2>1. interrupts \in 0..MaxInterrupts /\ MaxInterrupts \in Nat
    BY SizesAssumption DEF FlagInv
  <2> QED
    BY <2>1 DEF Cut
<1> QED
  BY <1>1 DEF FlagInv

\* The blocked call is cut.
LEMMA SendCutStep ==
  ASSUME IInv, NEW t \in Thread, SendCut(t)
  PROVE  IInv' /\ AbstractStep
<1>1. /\ pc[t] = "blocked" /\ Cut /\ call' = NoCall /\ send_mutex_' = "free"
      /\ UNCHANGED <<consecutive_drops_, teardown, interest, registered, nonblocking,
                     wire, clientRead, peerReset>>
  BY DEF SendCut, epollVars
<1>2. PICK n \in Nat \ {0} : n = issued[t]
  BY <1>1, BlockedFacts
<1>3. PICK k \in Nat : k = call.sent
  BY <1>1, BlockedFacts
<1>4. /\ send_mutex_ = t /\ write_buffer_ = <<>> /\ k < MessageLen[t]
      /\ k = IF pc[t] = "blocked" THEN call.sent ELSE 0
      /\ MessageLen[t] \in Nat
      /\ call.left = Rest(t, n, k) /\ At(Stream, t, issued[t], k) /\ wire \in Seq(Bytes)
      /\ Split(t) \in Nat
  BY <1>1, <1>2, <1>3, BlockedFacts
<1>5. wire \o <<>> = wire
  BY <1>4, ConcatEmptySeq
<1>6. PICK m \in Nat : \E result \in {"whole", "cut", "failed"} :
        /\ k <= m /\ m <= MessageLen[t] /\ Return(t, result)
        /\ write_buffer_' = Piece(t, n, k, m)
        /\ write_buffer_' \in Seq(Bytes) /\ Len(write_buffer_') <= BufferSize
        /\ result = "whole" => m = MessageLen[t]
        /\ result = "cut" => m \in 1..MessageLen[t] - 1
        /\ result = "failed" => m \in {0, Split(t)}
  <2>1. CASE k > 0
    <3>1. KeepRest(t, k, Rest(t, n, k))
      BY <1>3, <1>4, <2>1 DEF SendCut
    <3> QED
      BY <1>4, <3>1, KeepRestFacts
  <2>2. CASE ~(k > 0)
    <3>1. k = 0 /\ Return(t, "failed") /\ write_buffer_' = <<>>
      BY <1>3, <1>4, <2>2 DEF SendCut
    <3>2. Piece(t, n, k, k) = <<>>
      BY EmptyPiece
    <3>3. <<>> \in Seq(Bytes) /\ Len(<<>>) <= BufferSize
      BY SizesAssumption, EmptySeq
    <3>4. k <= k /\ k <= MessageLen[t] /\ k \in {0, Split(t)}
      BY <1>4, <3>1
    <3>5. /\ k <= k /\ Return(t, "failed")
          /\ write_buffer_' = Piece(t, n, k, k)
          /\ write_buffer_' \in Seq(Bytes) /\ Len(write_buffer_') <= BufferSize
          /\ k <= MessageLen[t] /\ k \in {0, Split(t)}
      BY <3>1, <3>2, <3>3, <3>4
    <3> QED
      BY <3>5
  <2> QED
    BY <2>1, <2>2
<1>7. PICK result \in {"whole", "cut", "failed"} :
        /\ Return(t, result)
        /\ result = "whole" => m = MessageLen[t]
        /\ result = "cut" => m \in 1..MessageLen[t] - 1
        /\ result = "failed" => m \in {0, Split(t)}
  BY <1>6
<1>8. wire' \o write_buffer_' = (wire \o write_buffer_) \o Piece(t, issued[t], k, m)
  BY <1>1, <1>2, <1>4, <1>5, <1>6
<1>9. /\ AbstractStep /\ PcInv' /\ DropInv' /\ MutexInv' /\ CallInv' /\ HistInv'
      /\ StreamInv' /\ ReportInv'
  BY <1>1, <1>4, <1>6, <1>7, <1>8, Returns
<1>10. DataInv'
  BY <1>1, <1>6 DEF IInv, DataInv, Room
<1>11. FlagInv'
  <2>1. registered' \in BOOLEAN /\ interest' \in {{}, {"R"}, {"R", "W"}} /\ FlagInv
    BY <1>1 DEF IInv, FlagInv
  <2> QED
    BY <1>1, <2>1, CutFlags
<1> QED
  BY <1>9, <1>10, <1>11 DEF IInv

-----------------------------------------------------------------------------
\* Flush.

\* Taking more than there is takes all, ...
LEMMA TakeAll ==
  ASSUME NEW S, NEW s \in Seq(S), NEW n \in Nat, n >= Len(s)
  PROVE  Take(s, n) = s
<1>1. Smaller(n, Len(s)) = Len(s)
  BY LenProperties DEF Smaller
<1>2. Take(s, n) = SubSeq(s, 1, Len(s))
  BY <1>1 DEF Take
<1> QED
  BY <1>2, SubSeqFull

\* ... and what is cut off the front can be put back behind what came before.
LEMMA MoveFront ==
  ASSUME NEW w \in Seq(Bytes), NEW s \in Seq(Bytes), NEW n \in Nat
  PROVE  /\ w \o Take(s, n) \in Seq(Bytes)
         /\ Len(w \o Take(s, n)) = Len(w) + Smaller(n, Len(s))
         /\ Drop(s, Smaller(n, Len(s))) \in Seq(Bytes)
         /\ Len(Drop(s, Smaller(n, Len(s)))) <= Len(s)
         /\ (w \o Take(s, n)) \o Drop(s, Smaller(n, Len(s))) = w \o s
         /\ Smaller(n, Len(s)) \in Nat /\ Smaller(n, Len(s)) <= n
<1>1. PICK m \in Nat : m = Smaller(n, Len(s)) /\ m <= Len(s) /\ m <= n /\ Len(s) \in Nat
  <2>1. Smaller(n, Len(s)) \in Nat /\ Smaller(n, Len(s)) <= Len(s)
        /\ Smaller(n, Len(s)) <= n /\ Len(s) \in Nat
    BY LenProperties DEF Smaller
  <2> QED
    BY <2>1
<1>2. Take(s, n) \in Seq(Bytes) /\ Len(Take(s, n)) = m
  BY <1>1, TakeFacts
<1>3. Drop(s, m) \in Seq(Bytes) /\ Len(Drop(s, m)) = Len(s) - m
  BY <1>1, DropWithin
<1>4. Take(s, n) \o Drop(s, m) = s
  BY <1>1, TakeThenDrop
<1>5. (w \o Take(s, n)) \o Drop(s, m) = w \o (Take(s, n) \o Drop(s, m))
  <2>1. \A p, q \in Seq(Bytes) : (w \o p) \o q = w \o (p \o q)
    BY ConcatAssociative
  <2> QED
    BY <1>2, <1>3, <2>1
<1>6. w \o Take(s, n) \in Seq(Bytes) /\ Len(w \o Take(s, n)) = Len(w) + Len(Take(s, n))
  BY <1>2, ConcatProperties
<1>7. Len(Drop(s, m)) <= Len(s)
  BY <1>1, <1>3
<1> QED
  BY <1>1, <1>2, <1>3, <1>4, <1>5, <1>6, <1>7

\* A step of Flush only moves bytes from the buffer to the socket.
LEMMA FlusherStep ==
  ASSUME IInv, pc["main"] \in {"flush", "flushing"}, send_mutex_ \in {"free", "main"},
         NEW step \in {"flushed", "flushing", "idle"}, pc' = [pc EXCEPT !["main"] = step],
         send_mutex_' = IF step = "flushing" THEN "main" ELSE "free",
         step # "flushing" => call' = NoCall,
         UNCHANGED <<issued, returned, consecutive_drops_, clientRead>>, Stream' = Stream
  PROVE  /\ AbstractStep /\ PcInv' /\ DropInv' /\ MutexInv' /\ HistInv' /\ StreamInv'
         /\ ReportInv'
         /\ step # "flushing" => CallInv'
         /\ \A u \in Thread : pc'[u] # "blocked"
<1>1. PcInv /\ MutexInv /\ DropInv
  BY DEF IInv
<1>2. PcInv'
  BY <1>1 DEF PcInv, Thread
<1>3. DropInv'
  BY <1>1 DEF DropInv, PcInv, Thread
<1>4. pc'["main"] = step /\ pc'["stream"] = pc["stream"]
  BY <1>1 DEF PcInv, Thread
<1>5. pc["stream"] \notin {"blocked", "flushing"}
  BY <1>1 DEF MutexInv, BlockedHoldsMutex, Thread
<1>6. MutexInv'
  <2>1. \A u \in Thread : pc'[u] \in {"blocked", "flushing"} <=> send_mutex_' = u
    BY <1>4, <1>5 DEF Thread
  <2>2. send_mutex_' = "free" => call' = NoCall
    OBVIOUS
  <2>3. send_mutex_' \in Thread \cup {"free"}
    BY DEF Thread
  <2> QED
    BY <2>1, <2>2, <2>3 DEF MutexInv, BlockedHoldsMutex, NoCall
<1>7. \A u \in Thread : pc'[u] # "blocked" /\ pc[u] # "blocked"
                        /\ (pc'[u] = "send" <=> pc[u] = "send")
  BY <1>4, <1>5 DEF Thread
<1>8. HistInv' /\ StreamInv' /\ ReportInv'
  BY <1>7, Same
<1>9. ASSUME step # "flushing" PROVE CallInv'
  BY <1>4, <1>7, <1>9 DEF CallInv
<1>10. AbstractStep
  BY <1>7, Stutters
<1> QED
  BY <1>2, <1>3, <1>6, <1>7, <1>8, <1>9, <1>10

\* What holds in the handler of EPOLLOUT.
LEMMA FlushData ==
  ASSUME IInv
  PROVE  /\ wire \in Seq(Bytes) /\ write_buffer_ \in Seq(Bytes) /\ Room \in Nat
         /\ Len(write_buffer_) \in Nat /\ Len(write_buffer_) <= BufferSize
         /\ pc \in [Thread -> {"idle", "send", "blocked", "sent", "failed", "arm", "flush",
                               "flushing", "flushed", "disarm"}]
         /\ DataInv /\ FlagInv
<1>1. DataInv /\ PcInv /\ FlagInv
  BY DEF IInv
<1>2. wire \in Seq(Bytes) /\ write_buffer_ \in Seq(Bytes) /\ Len(write_buffer_) <= BufferSize
  BY <1>1 DEF DataInv
<1>3. Room \in Nat
  BY <1>1, SizesAssumption DEF DataInv
<1>4. Len(write_buffer_) \in Nat
  BY <1>2, LenProperties
<1> QED
  BY <1>1, <1>2, <1>3, <1>4 DEF PcInv

\* Flush that does not wait.
LEMMA FlushStep == IInv /\ Flush => IInv' /\ AbstractStep
<1> SUFFICES ASSUME IInv, Flush PROVE IInv' /\ AbstractStep
  OBVIOUS
<1>1. /\ pc["main"] = "flush" /\ send_mutex_ = "free"
      /\ wire' = wire \o Take(write_buffer_, Room)
      /\ write_buffer_' = Drop(write_buffer_, Smaller(Room, Len(write_buffer_)))
      /\ pc' = [pc EXCEPT !["main"] = "flushed"]
      /\ UNCHANGED <<send_mutex_, consecutive_drops_, teardown, interest, registered,
                     nonblocking, clientRead, peerReset, call, interrupts, issued, returned>>
  BY DEF Flush, Goto, epollVars, histVars
<1>2. PICK w \in Seq(Bytes), s \in Seq(Bytes), room \in Nat :
        w = wire /\ s = write_buffer_ /\ room = Room /\ Len(s) <= BufferSize /\ Len(s) \in Nat
  BY FlushData
<1>3. /\ w \o Take(s, room) \in Seq(Bytes)
      /\ Len(w \o Take(s, room)) = Len(w) + Smaller(room, Len(s))
      /\ Drop(s, Smaller(room, Len(s))) \in Seq(Bytes)
      /\ Len(Drop(s, Smaller(room, Len(s)))) <= Len(s)
      /\ (w \o Take(s, room)) \o Drop(s, Smaller(room, Len(s))) = w \o s
      /\ Smaller(room, Len(s)) \in Nat /\ Smaller(room, Len(s)) <= room
  BY MoveFront
<1>4. /\ wire' \in Seq(Bytes) /\ write_buffer_' \in Seq(Bytes)
      /\ Len(wire') = Len(wire) + Smaller(room, Len(s))
      /\ Smaller(room, Len(s)) \in 0..Room
      /\ wire' \o write_buffer_' = wire \o write_buffer_
  BY <1>1, <1>2, <1>3
<1>5. Len(write_buffer_') <= BufferSize
  <2>1. BufferSize \in Nat /\ Len(write_buffer_') \in Nat
    BY <1>4, LenProperties, SizesAssumption
  <2> QED
    BY <1>1, <1>2, <1>3, <2>1
<1>6. DataInv'
  <2>1. clientRead' \in 0..Len(wire') /\ Room' \in 0..SendRoom
    BY <1>1, <1>4, RoomLeft DEF IInv
  <2> QED
    BY <1>4, <1>5, <2>1 DEF DataInv
<1>7. FlagInv'
  BY <1>1, FlagsKept DEF IInv
<1>8. pc'["main"] = "flushed"
  BY <1>1, FlushData DEF Thread
<1>9. Stream' = Stream
  BY <1>1, <1>4, <1>8, StreamIs
<1>10. PICK step \in {"flushed", "flushing", "idle"} : step = "flushed"
  OBVIOUS
<1>11. call' = NoCall
  BY <1>1 DEF IInv, MutexInv, BlockedHoldsMutex
<1>12. /\ AbstractStep /\ PcInv' /\ DropInv' /\ MutexInv' /\ HistInv' /\ StreamInv'
       /\ ReportInv' /\ CallInv'
  <2>1. /\ pc' = [pc EXCEPT !["main"] = step] /\ step # "flushing"
        /\ send_mutex_' = IF step = "flushing" THEN "main" ELSE "free"
    BY <1>1, <1>10
  <2> QED
    BY <1>1, <1>9, <1>11, <2>1, FlusherStep
<1> QED
  BY <1>6, <1>7, <1>12 DEF IInv

\* Flush that waits.
LEMMA FlushBlocksStep == IInv /\ FlushBlocks => IInv' /\ AbstractStep
<1> SUFFICES ASSUME IInv, FlushBlocks PROVE IInv' /\ AbstractStep
  OBVIOUS
<1>1. /\ pc["main"] = "flush" /\ send_mutex_ = "free" /\ Room < Len(write_buffer_)
      /\ wire' = wire \o Take(write_buffer_, Room)
      /\ call' = [sent |-> Room, left |-> [head |-> <<>>, body |-> Drop(write_buffer_, Room)]]
      /\ send_mutex_' = "main" /\ pc' = [pc EXCEPT !["main"] = "flushing"]
      /\ UNCHANGED <<write_buffer_, consecutive_drops_, teardown, interest, registered,
                     nonblocking, clientRead, peerReset, interrupts, issued, returned>>
  BY DEF FlushBlocks, Goto, epollVars, histVars
<1>2. PICK w \in Seq(Bytes), s \in Seq(Bytes), room \in Nat :
        w = wire /\ s = write_buffer_ /\ room = Room /\ Len(s) <= BufferSize /\ Len(s) \in Nat
  BY FlushData
<1>3. Smaller(room, Len(s)) = room
  BY <1>1, <1>2 DEF Smaller
<1>4. /\ w \o Take(s, room) \in Seq(Bytes)
      /\ Len(w \o Take(s, room)) = Len(w) + room
      /\ (w \o Take(s, room)) \o Drop(s, room) = w \o s
  <2>1. /\ w \o Take(s, room) \in Seq(Bytes)
        /\ Len(w \o Take(s, room)) = Len(w) + Smaller(room, Len(s))
        /\ (w \o Take(s, room)) \o Drop(s, Smaller(room, Len(s))) = w \o s
    BY MoveFront
  <2> QED
    BY <1>3, <2>1
<1>5. /\ wire' \in Seq(Bytes) /\ Len(wire') = Len(wire) + room /\ room \in 0..Room
      /\ wire' \o Drop(write_buffer_', room) = wire \o write_buffer_
  BY <1>1, <1>2, <1>4
<1>6. DataInv'
  <2>1. clientRead' \in 0..Len(wire') /\ Room' \in 0..SendRoom
    BY <1>1, <1>5, RoomLeft DEF IInv
  <2> QED
    BY <1>1, <1>5, <2>1 DEF IInv, DataInv
<1>7. FlagInv'
  BY <1>1, FlagsKept DEF IInv
<1>8. pc'["main"] = "flushing"
  BY <1>1, FlushData DEF Thread
<1>9. /\ call'.sent = room
      /\ call'.left = [head |-> <<>>, body |-> Drop(write_buffer_', call'.sent)]
      /\ call'.sent \in 0..Len(write_buffer_')
  BY <1>1, <1>2
<1>10. Stream' = Stream
  BY <1>1, <1>5, <1>8, <1>9, StreamIs
<1>11. PICK step \in {"flushed", "flushing", "idle"} : step = "flushing"
  OBVIOUS
<1>12. /\ AbstractStep /\ PcInv' /\ DropInv' /\ MutexInv' /\ HistInv' /\ StreamInv'
       /\ ReportInv' /\ \A u \in Thread : pc'[u] # "blocked"
  <2>1. /\ pc' = [pc EXCEPT !["main"] = step] /\ (step # "flushing" => call' = NoCall)
        /\ send_mutex_' = IF step = "flushing" THEN "main" ELSE "free"
    BY <1>1, <1>11
  <2> QED
    BY <1>1, <1>10, <2>1, FlusherStep
<1>13. CallInv'
  BY <1>9, <1>12 DEF CallInv
<1> QED
  BY <1>6, <1>7, <1>12, <1>13 DEF IInv

\* What holds while Flush is in its call.
LEMMA FlushingFacts ==
  ASSUME IInv, pc["main"] = "flushing"
  PROVE  /\ send_mutex_ = "main" /\ call.sent \in Nat /\ call.sent <= Len(write_buffer_)
         /\ call.left = [head |-> <<>>, body |-> Drop(write_buffer_, call.sent)]
         /\ Stream = wire \o Drop(write_buffer_, call.sent)
<1>1. send_mutex_ = "main"
  BY DEF IInv, MutexInv, BlockedHoldsMutex, Thread
<1>2. /\ call.sent \in 0..Len(write_buffer_)
      /\ call.left = [head |-> <<>>, body |-> Drop(write_buffer_, call.sent)]
  BY DEF IInv, CallInv
<1>3. call.sent \in Nat /\ call.sent <= Len(write_buffer_)
  BY <1>2, FlushData
<1> QED
  BY <1>1, <1>2, <1>3, StreamIs

\* The call goes on.
LEMMA FlushResumesStep == IInv /\ FlushResumes => IInv' /\ AbstractStep
<1> SUFFICES ASSUME IInv, FlushResumes PROVE IInv' /\ AbstractStep
  OBVIOUS
<1>1. /\ pc["main"] = "flushing" /\ Room > 0 /\ wire' = wire \o Take(Unsent, Room)
      /\ UNCHANGED <<consecutive_drops_, teardown, interest, registered, nonblocking,
                     clientRead, peerReset, interrupts, issued, returned>>
  BY DEF FlushResumes, epollVars, histVars
<1>2. PICK w \in Seq(Bytes), s \in Seq(Bytes), room \in Nat :
        w = wire /\ s = write_buffer_ /\ room = Room /\ Len(s) <= BufferSize /\ Len(s) \in Nat
  BY FlushData
<1>3. PICK k \in Nat : k = call.sent
  BY <1>1, FlushingFacts
<1>4. /\ send_mutex_ = "main" /\ k <= Len(s)
      /\ call.left = [head |-> <<>>, body |-> Drop(s, k)] /\ Stream = w \o Drop(s, k)
  BY <1>1, <1>2, <1>3, FlushingFacts
<1>5. PICK d \in Seq(Bytes) : d = Drop(s, k) /\ Len(d) = Len(s) - k
  <2>1. Drop(s, k) \in Seq(Bytes) /\ Len(Drop(s, k)) = Len(s) - k
    BY <1>4, DropWithin
  <2> QED
    BY <2>1
<1>6. Unsent = d
  <2>1. Unsent = <<>> \o d
    BY <1>4, <1>5 DEF Unsent
  <2> QED
    BY <2>1, ConcatEmptySeq
<1>7. /\ w \o Take(d, room) \in Seq(Bytes)
      /\ Len(w \o Take(d, room)) = Len(w) + Smaller(room, Len(d))
      /\ (w \o Take(d, room)) \o Drop(d, Smaller(room, Len(d))) = w \o d
      /\ Smaller(room, Len(d)) \in Nat /\ Smaller(room, Len(d)) <= room
  BY MoveFront
<1>8. /\ wire' = w \o Take(d, room)
      /\ wire' \in Seq(Bytes) /\ Len(wire') = Len(wire) + Smaller(room, Len(d))
      /\ Smaller(room, Len(d)) \in 0..Room
  BY <1>1, <1>2, <1>6, <1>7
<1>9. clientRead' \in 0..Len(wire') /\ Room' \in 0..SendRoom
  BY <1>1, <1>8, RoomLeft DEF IInv
<1>10. FlagInv'
  BY <1>1, FlagsKept DEF IInv
<1>11. CASE room >= Len(d)
  <2>1. /\ write_buffer_' = <<>> /\ call' = NoCall /\ send_mutex_' = "free"
        /\ pc' = [pc EXCEPT !["main"] = "flushed"]
    BY <1>2, <1>6, <1>11 DEF FlushResumes, Goto
  <2>2. wire' = w \o d
    BY <1>8, <1>11, TakeAll
  <2>3. pc'["main"] = "flushed"
    BY <2>1, FlushData DEF Thread
  <2>4. Stream' = Stream
    <3>1. Stream' = wire' \o <<>>
      BY <2>1, <2>3, StreamIs
    <3>2. wire' \o <<>> = wire'
      BY <1>8, ConcatEmptySeq
    <3> QED
      BY <1>4, <1>5, <2>2, <3>1, <3>2
  <2>5. PICK step \in {"flushed", "flushing", "idle"} : step = "flushed"
    OBVIOUS
  <2>6. /\ AbstractStep /\ PcInv' /\ DropInv' /\ MutexInv' /\ HistInv' /\ StreamInv'
        /\ ReportInv' /\ CallInv'
    <3>1. /\ pc' = [pc EXCEPT !["main"] = step] /\ step # "flushing"
          /\ send_mutex_' = IF step = "flushing" THEN "main" ELSE "free"
      BY <2>1, <2>5
    <3> QED
      BY <1>1, <1>4, <2>1, <2>4, <3>1, FlusherStep
  <2>7. DataInv'
    <3>1. <<>> \in Seq(Bytes) /\ Len(<<>>) <= BufferSize
      BY SizesAssumption, EmptySeq
    <3> QED
      BY <1>8, <1>9, <2>1, <3>1 DEF DataInv
  <2> QED
    BY <1>10, <2>6, <2>7 DEF IInv
<1>12. CASE ~(room >= Len(d))
  <2>1. /\ call' = [sent |-> call.sent + Room, left |-> Skip(call.left, Room)]
        /\ UNCHANGED <<write_buffer_, send_mutex_, pc>>
    BY <1>2, <1>6, <1>12 DEF FlushResumes
  <2>2. Smaller(room, Len(d)) = room /\ k + room \in Nat /\ k + room <= Len(s)
        /\ k \in 0..Len(s) /\ room \in 0..Len(s) - k
    BY <1>2, <1>4, <1>5, <1>12 DEF Smaller
  <2>3. Drop(d, room) = Drop(s, k + room)
    BY <1>5, <2>2, DropThenDrop
  <2>4. Skip(call.left, Room) = [head |-> <<>>, body |-> Drop(d, room)]
    <3>1. Drop(<<>>, room) = <<>>
      <4>1. Len(<<>>) = 0 /\ <<>> \in Seq(Bytes)
        BY EmptySeq
      <4>2. Drop(<<>>, room) = SubSeq(<<>>, room + 1, 0)
        BY <4>1 DEF Drop
      <4> QED
        BY <4>2, SubSeqEmpty
    <3>2. call.left.head = <<>> /\ call.left.body = d
      BY <1>4, <1>5
    <3>3. room > Len(call.left.head) /\ room - Len(call.left.head) = room
      BY <1>1, <1>2, <3>2, EmptySeq
    <3> QED
      BY <1>2, <3>1, <3>2, <3>3 DEF Skip
  <2>5. /\ call'.sent = k + room /\ write_buffer_' = s
        /\ call'.left = [head |-> <<>>, body |-> Drop(write_buffer_', call'.sent)]
        /\ call'.sent \in 0..Len(write_buffer_')
    BY <1>2, <1>3, <2>1, <2>2, <2>3, <2>4
  <2>6. pc'["main"] = "flushing" /\ pc' = [pc EXCEPT !["main"] = "flushing"]
    BY <1>1, <2>1, FlushData
  <2>7. Stream' = Stream
    <3>1. Stream' = wire' \o Drop(s, k + room)
      BY <2>5, <2>6, StreamIs
    <3> QED
      BY <1>4, <1>5, <1>7, <1>8, <2>2, <2>3, <3>1
  <2>8. PICK step \in {"flushed", "flushing", "idle"} : step = "flushing"
    OBVIOUS
  <2>9. /\ AbstractStep /\ PcInv' /\ DropInv' /\ MutexInv' /\ HistInv' /\ StreamInv'
        /\ ReportInv' /\ \A u \in Thread : pc'[u] # "blocked"
    <3>1. /\ pc' = [pc EXCEPT !["main"] = step] /\ (step # "flushing" => call' = NoCall)
          /\ send_mutex_' = IF step = "flushing" THEN "main" ELSE "free"
      BY <1>4, <2>1, <2>6, <2>8
    <3> QED
      BY <1>1, <1>4, <2>7, <3>1, FlusherStep
  <2>10. CallInv'
    BY <2>5, <2>9 DEF CallInv
  <2>11. DataInv'
    BY <1>8, <1>9, <2>1 DEF IInv, DataInv
  <2> QED
    BY <1>10, <2>9, <2>10, <2>11 DEF IInv
<1> QED
  BY <1>11, <1>12

\* The call is cut.
LEMMA FlushCutStep == IInv /\ FlushCut => IInv' /\ AbstractStep
<1> SUFFICES ASSUME IInv, FlushCut PROVE IInv' /\ AbstractStep
  OBVIOUS
<1>1. /\ pc["main"] = "flushing" /\ Cut /\ call' = NoCall /\ send_mutex_' = "free"
      /\ UNCHANGED <<consecutive_drops_, teardown, nonblocking, wire, clientRead,
                     peerReset, issued, returned>>
  BY DEF FlushCut, histVars
<1>2. PICK s \in Seq(Bytes) : s = write_buffer_ /\ Len(s) <= BufferSize /\ Len(s) \in Nat
  BY FlushData
<1>3. PICK k \in Nat : k = call.sent
  BY <1>1, FlushingFacts
<1>4. send_mutex_ = "main" /\ k <= Len(s) /\ Stream = wire \o Drop(s, k)
  BY <1>1, <1>2, <1>3, FlushingFacts
<1>5. Drop(s, k) \in Seq(Bytes) /\ Len(Drop(s, k)) = Len(s) - k
  BY <1>4, DropWithin
<1>6. /\ write_buffer_' = Drop(s, k)
      /\ registered' \in BOOLEAN /\ interest' \in {{}, {"R"}, {"R", "W"}}
      /\ \E step \in {"flushed", "idle"} : pc' = [pc EXCEPT !["main"] = step]
  <2>1. CASE k > 0
    BY <1>2, <1>3, <2>1, FlushData DEF FlushCut, Goto, epollVars, FlagInv
  <2>2. CASE ~(k > 0)
    <3>1. k = 0 /\ 0 + 1 = 1
      BY <2>2
    <3>2. Drop(s, k) = SubSeq(s, 1, Len(s))
      BY <3>1 DEF Drop
    <3>3. Drop(s, k) = s
      BY <3>2, SubSeqFull
    <3>4. /\ write_buffer_' = write_buffer_ /\ registered' = FALSE /\ interest' = {}
          /\ pc' = [pc EXCEPT !["main"] = "idle"]
      BY <1>3, <2>2 DEF FlushCut, Goto, CloseConnection
    <3> QED
      BY <1>2, <3>3, <3>4
  <2> QED
    BY <2>1, <2>2
<1>7. PICK step \in {"flushed", "idle"} : pc' = [pc EXCEPT !["main"] = step]
  BY <1>6
<1>8. pc'["main"] = step /\ step # "flushing" /\ step \in {"flushed", "flushing", "idle"}
      /\ send_mutex_' = IF step = "flushing" THEN "main" ELSE "free"
  BY <1>1, <1>7, FlushData DEF Thread
<1>9. Stream' = Stream
  BY <1>1, <1>4, <1>6, <1>8, StreamIs
<1>10. /\ AbstractStep /\ PcInv' /\ DropInv' /\ MutexInv' /\ HistInv' /\ StreamInv'
       /\ ReportInv' /\ CallInv'
  BY <1>1, <1>4, <1>7, <1>8, <1>9, FlusherStep
<1>11. DataInv'
  <2>1. Len(write_buffer_') <= BufferSize
    <3>1. BufferSize \in Nat
      BY SizesAssumption
    <3> QED
      BY <1>2, <1>5, <1>6, <3>1
  <2> QED
    BY <1>1, <1>5, <1>6, <2>1 DEF IInv, DataInv, Room
<1>12. FlagInv'
  BY <1>1, <1>6, CutFlags DEF IInv
<1> QED
  BY <1>10, <1>11, <1>12 DEF IInv

-----------------------------------------------------------------------------
\* The other steps of the two threads, and the client.

\* The packet that is taken up.
LEMMA BroadcastStep == IInv /\ Broadcast => IInv' /\ AbstractStep
<1> SUFFICES ASSUME IInv, Broadcast PROVE IInv' /\ AbstractStep
  OBVIOUS
<1>1. /\ pc["stream"] = "idle" /\ issued["stream"] < MaxPackets
      /\ issued' = [issued EXCEPT !["stream"] = @ + 1]
      /\ pc' = [pc EXCEPT !["stream"] = "send"]
      /\ UNCHANGED <<send_mutex_, write_buffer_, consecutive_drops_, teardown, interest,
                     registered, nonblocking, wire, clientRead, peerReset, call,
                     interrupts, returned>>
  BY DEF Broadcast, Goto, connVars, epollVars, kernelVars
<1>2. /\ PcInv' /\ DataInv' /\ MutexInv' /\ CallInv' /\ HistInv' /\ StreamInv' /\ ReportInv'
      /\ AbstractStep
  <2>1. PICK t \in Thread : t = "stream"
    BY DEF Thread
  <2>2. /\ pc[t] = "idle" /\ pc' = [pc EXCEPT ![t] = "send"]
        /\ issued' = [issued EXCEPT ![t] = @ + 1]
    BY <1>1, <2>1
  <2> QED
    BY <1>1, <2>2, Start
<1>3. FlagInv'
  BY <1>1, FlagsKept DEF IInv
<1>4. DropInv'
  <2>1. issued'["stream"] = issued["stream"] + 1 /\ issued["stream"] \in Nat
        /\ MaxPackets \in Nat
    BY <1>1, SizesAssumption DEF IInv, HistInv, Thread
  <2> QED
    BY <1>1, <2>1 DEF IInv, DropInv
<1> QED
  BY <1>2, <1>3, <1>4 DEF IInv

\* The request that is taken up.
LEMMA OnReadStep == IInv /\ OnRead => IInv' /\ AbstractStep
<1> SUFFICES ASSUME IInv, OnRead PROVE IInv' /\ AbstractStep
  OBVIOUS
<1>1. /\ pc["main"] = "idle" /\ issued' = [issued EXCEPT !["main"] = @ + 1]
      /\ pc' = [pc EXCEPT !["main"] = "send"]
      /\ UNCHANGED <<send_mutex_, write_buffer_, consecutive_drops_, teardown, interest,
                     registered, nonblocking, wire, clientRead, peerReset, call,
                     interrupts, returned>>
  BY DEF OnRead, Goto, connVars, epollVars, kernelVars
<1>2. /\ PcInv' /\ DataInv' /\ MutexInv' /\ CallInv' /\ HistInv' /\ StreamInv' /\ ReportInv'
      /\ AbstractStep
  <2>1. PICK t \in Thread : t = "main"
    BY DEF Thread
  <2>2. /\ pc[t] = "idle" /\ pc' = [pc EXCEPT ![t] = "send"]
        /\ issued' = [issued EXCEPT ![t] = @ + 1]
    BY <1>1, <2>1
  <2> QED
    BY <1>1, <2>2, Start
<1>3. FlagInv'
  BY <1>1, FlagsKept DEF IInv
<1>4. DropInv'
  <2>1. issued'["stream"] = issued["stream"] /\ pc'["stream"] = pc["stream"]
    BY <1>1 DEF IInv, HistInv, PcInv, Thread
  <2> QED
    BY <1>1, <2>1 DEF IInv, DropInv
<1> QED
  BY <1>2, <1>3, <1>4 DEF IInv

\* A handler that goes on without touching socket, buffer or call.
LEMMA HandlerStep ==
  ASSUME IInv, NEW t \in Thread, NEW step, step \notin Busy, pc[t] \notin Busy,
         pc' = [pc EXCEPT ![t] = step],
         UNCHANGED <<send_mutex_, write_buffer_, wire, call, issued, returned, clientRead>>,
         t = "main" => step \in {"idle", "sent", "arm", "flush", "flushed", "disarm"},
         t = "stream" => step \in {"idle", "arm"},
         teardown' \in BOOLEAN, registered' \in BOOLEAN,
         interest' \in {{}, {"R"}, {"R", "W"}},
         UNCHANGED <<nonblocking, peerReset, interrupts>>,
         \/ consecutive_drops_' \in {0, consecutive_drops_}
         \/ pc["stream"] = "failed" /\ consecutive_drops_' = consecutive_drops_ + 1 /\ t = "stream"
  PROVE  IInv' /\ AbstractStep
<1>1. /\ PcInv' /\ DataInv' /\ MutexInv' /\ CallInv' /\ HistInv' /\ StreamInv' /\ ReportInv'
      /\ AbstractStep
  <2>1. t = "stream" => step \in {"idle", "sent", "failed", "arm"}
    OBVIOUS
  <2> QED
    BY <2>1, QuietStep
<1>2. FlagInv'
  BY DEF IInv, FlagInv
<1>3. DropInv'
  <2>1. /\ issued["stream"] \in Nat /\ consecutive_drops_ \in Nat
        /\ issued["stream"] <= MaxPackets /\ consecutive_drops_ <= issued["stream"]
        /\ pc["stream"] \in {"send", "blocked", "sent", "failed"} =>
             consecutive_drops_ < issued["stream"]
    BY DEF IInv, DropInv, HistInv, Thread
  <2>2. CASE t = "main"
    <3>1. pc'["stream"] = pc["stream"]
      BY <2>2 DEF IInv, PcInv, Thread
    <3>2. consecutive_drops_' = 0 \/ consecutive_drops_' = consecutive_drops_
      BY <2>2
    <3>3. pc["stream"] \in {"send", "blocked", "sent", "failed"} =>
            consecutive_drops_' < issued["stream"]
      BY <2>1, <3>2
    <3> QED
      BY <2>1, <3>1, <3>2, <3>3 DEF DropInv
  <2>3. CASE t = "stream"
    <3>1. pc'["stream"] \in {"idle", "arm"}
      BY <2>3 DEF IInv, PcInv, Thread
    <3> QED
      BY <2>1, <3>1 DEF DropInv
  <2> QED
    BY <2>2, <2>3 DEF Thread
<1> QED
  BY <1>1, <1>2, <1>3 DEF IInv

\* The results of ForwardRtp, ...
LEMMA ForwardFailedStep == IInv /\ ForwardFailed => IInv' /\ AbstractStep
<1> SUFFICES ASSUME IInv, ForwardFailed PROVE IInv' /\ AbstractStep
  OBVIOUS
<1>1. /\ pc["stream"] = "failed" /\ consecutive_drops_' = consecutive_drops_ + 1
      /\ teardown' = (teardown \/ consecutive_drops_ + 1 >= MaxDrops)
      /\ pc' = [pc EXCEPT !["stream"] = "idle"]
      /\ UNCHANGED <<send_mutex_, write_buffer_, interest, registered, nonblocking, wire,
                     clientRead, peerReset, call, interrupts, issued, returned>>
  BY DEF ForwardFailed, Goto, epollVars, kernelVars, histVars
<1>2. registered' \in BOOLEAN /\ interest' \in {{}, {"R"}, {"R", "W"}}
  BY <1>1 DEF IInv, FlagInv
<1>3. teardown' \in BOOLEAN
  BY <1>1, Zenon
<1>4. PICK t \in Thread, step \in {"idle"} : t = "stream"
  BY DEF Thread
<1>5. /\ pc' = [pc EXCEPT ![t] = step] /\ step \notin Busy /\ pc[t] \notin Busy
      /\ t # "main" /\ step \in {"idle", "arm"}
  BY <1>1, <1>4 DEF Busy
<1> QED
  BY <1>1, <1>2, <1>3, <1>4, <1>5, HandlerStep

\* ... that it was sent.
LEMMA ForwardDoneStep == IInv /\ ForwardDone => IInv' /\ AbstractStep
<1> SUFFICES ASSUME IInv, ForwardDone PROVE IInv' /\ AbstractStep
  OBVIOUS
<1>1. /\ pc["stream"] = "sent" /\ consecutive_drops_' = 0
      /\ pc' = [pc EXCEPT !["stream"] = IF write_buffer_ = <<>> THEN "idle" ELSE "arm"]
      /\ UNCHANGED <<send_mutex_, write_buffer_, teardown, interest, registered, nonblocking,
                     wire, clientRead, peerReset, call, interrupts, issued, returned>>
  BY DEF ForwardDone, Goto, epollVars, kernelVars, histVars
<1>2. /\ registered' \in BOOLEAN /\ interest' \in {{}, {"R"}, {"R", "W"}}
      /\ teardown' \in BOOLEAN
  BY <1>1 DEF IInv, FlagInv
<1>3. PICK t \in Thread, step \in {"idle", "arm"} :
        t = "stream" /\ step = IF write_buffer_ = <<>> THEN "idle" ELSE "arm"
  BY DEF Thread
<1>4. /\ pc' = [pc EXCEPT ![t] = step] /\ step \notin Busy /\ pc[t] \notin Busy
      /\ t # "main" /\ consecutive_drops_' \in {0, consecutive_drops_}
  BY <1>1, <1>3 DEF Busy
<1> QED
  BY <1>1, <1>2, <1>4, HandlerStep

\* The registration for EPOLLOUT.
LEMMA ArmStep ==
  ASSUME IInv, NEW t \in Thread, Arm(t)
  PROVE  IInv' /\ AbstractStep
<1>1. /\ pc[t] = "arm" /\ interest' = IF registered THEN {"R", "W"} ELSE interest
      /\ pc' = [pc EXCEPT ![t] = "idle"]
      /\ UNCHANGED <<send_mutex_, write_buffer_, consecutive_drops_, teardown, registered,
                     nonblocking, wire, clientRead, peerReset, call, interrupts, issued,
                     returned>>
  BY DEF Arm, ModifyFd, Goto, connVars, kernelVars, histVars
<1>2. registered' \in BOOLEAN /\ teardown' \in BOOLEAN
  BY <1>1 DEF IInv, FlagInv
<1>3. interest' \in {{}, {"R"}, {"R", "W"}}
  BY <1>1 DEF IInv, FlagInv
<1>4. PICK step \in {"idle"} : TRUE
  OBVIOUS
<1>5. /\ pc' = [pc EXCEPT ![t] = step] /\ step \notin Busy /\ pc[t] \notin Busy
      /\ consecutive_drops_' \in {0, consecutive_drops_}
      /\ step \in {"idle", "sent", "arm", "flush", "flushed", "disarm"}
      /\ step \in {"idle", "arm"}
  BY <1>1 DEF Busy
<1> QED
  BY <1>1, <1>2, <1>3, <1>5, HandlerStep

\* The handlers of main that only change its place, the mark or the registration.
LEMMA MainHandlerStep ==
  ASSUME IInv, pc["main"] \in {"idle", "sent", "flush", "flushed", "disarm"},
         NEW step \in {"idle", "arm", "flush", "disarm"}, pc' = [pc EXCEPT !["main"] = step],
         UNCHANGED <<send_mutex_, write_buffer_, consecutive_drops_, nonblocking,
                     wire, clientRead, peerReset, call, interrupts, issued, returned>>,
         teardown' = teardown \/ teardown' \in BOOLEAN,
         registered' \in {FALSE, registered}, interest' \in {{}, {"R"}, interest}
  PROVE  IInv' /\ AbstractStep
<1>1. teardown' \in BOOLEAN /\ registered' \in BOOLEAN
  BY Zenon DEF IInv, FlagInv
<1>2. interest' \in {{}, {"R"}, {"R", "W"}}
  BY DEF IInv, FlagInv
<1>3. PICK t \in Thread : t = "main"
  BY DEF Thread
<1>4. /\ pc' = [pc EXCEPT ![t] = step] /\ step \notin Busy /\ pc[t] \notin Busy
      /\ consecutive_drops_' \in {0, consecutive_drops_}
      /\ step \in {"idle", "sent", "arm", "flush", "flushed", "disarm"} /\ t # "stream"
  BY <1>3 DEF Busy
<1> QED
  BY <1>1, <1>2, <1>4, HandlerStep

\* The client, and the steps of main that end where they began.
LEMMA OutsideStep ==
  ASSUME IInv, UNCHANGED <<pc, send_mutex_, write_buffer_, consecutive_drops_, teardown,
                           nonblocking, wire, call, interrupts, issued, returned>>,
         clientRead' \in {clientRead, clientRead + 1}, clientRead' <= Len(wire),
         peerReset' \in BOOLEAN, registered' \in BOOLEAN,
         interest' \in {{}, {"R"}, {"R", "W"}}
  PROVE  IInv' /\ AbstractStep
<1>1. PcInv'
  BY DEF IInv, PcInv
<1>2. MutexInv' /\ CallInv' /\ HistInv' /\ StreamInv' /\ ReportInv' /\ Stream' = Stream
  BY <1>1, Quiet
<1>3. FlagInv'
  BY DEF IInv, FlagInv
<1>4. DropInv'
  BY DEF IInv, DropInv
<1>5. DataInv'
  <2>1. /\ clientRead \in 0..Len(wire) /\ Len(wire) \in Nat /\ SendRoom \in Nat
        /\ SendRoom - (Len(wire) - clientRead) \in 0..SendRoom
    BY LenProperties, SizesAssumption DEF IInv, DataInv, Room
  <2>2. /\ clientRead' \in 0..Len(wire)
        /\ SendRoom - (Len(wire) - clientRead') \in 0..SendRoom
    BY <2>1
  <2> QED
    BY <2>2 DEF IInv, DataInv, Room
<1>6. AbstractStep
  <2>1. CASE clientRead' = clientRead
    BY <1>2, <2>1, Stutters
  <2>2. CASE clientRead' = clientRead + 1
    <3>1. Len(wire) <= Len(Stream) /\ Len(wire) \in Nat /\ Len(Stream) \in Nat
      BY WireWithinStream DEF IInv
    <3>2. clientRead < Len(Stream)
      BY <2>2, <3>1 DEF IInv, DataInv
    <3>3. Writing' = Writing
      BY DEF Writing
    <3>4. Written' = Written
      BY <3>3 DEF Written
    <3>5. Messages!Read
      BY <1>2, <2>2, <3>2, <3>3, <3>4 DEF Messages!Read
    <3> QED
      BY <3>5 DEF AbstractStep, Messages!StreamNext
  <2> QED
    BY <2>1, <2>2
<1> QED
  BY <1>1, <1>2, <1>3, <1>4, <1>5, <1>6 DEF IInv

-----------------------------------------------------------------------------
\* At first nothing was sent.
LEMMA InitStream == Init => Stream = <<>>
<1> SUFFICES ASSUME Init PROVE Stream = <<>>
  OBVIOUS
<1>1. pc["main"] # "flushing" /\ wire = <<>> /\ write_buffer_ = <<>>
  BY DEF Init, Thread
<1>2. Stream = <<>> \o <<>>
  BY <1>1, StreamIs
<1> QED
  BY <1>2, EmptySeq, ConcatEmptySeq

\* The invariant holds at first ...
LEMMA InitIInv == Init => IInv
<1> SUFFICES ASSUME Init PROVE IInv
  OBVIOUS
<1>1. <<>> \in Seq(Bytes) /\ Len(<<>>) = 0
  BY EmptySeq
<1>2. /\ pc = [t \in Thread |-> "idle"] /\ wire = <<>> /\ write_buffer_ = <<>>
      /\ issued = [t \in Thread |-> 0] /\ returned = [t \in Thread |-> <<>>]
      /\ call = NoCall /\ send_mutex_ = "free" /\ clientRead = 0
      /\ consecutive_drops_ = 0
  BY DEF Init
<1>3. Stream = <<>>
  BY InitStream
<1>4. PcInv
  BY <1>2 DEF PcInv, Thread
<1>5. DataInv
  BY <1>1, <1>2, SizesAssumption DEF DataInv, Room
<1>6. FlagInv
  <2>1. interrupts \in 0..MaxInterrupts
    BY SizesAssumption DEF Init
  <2>2. teardown \in BOOLEAN /\ registered \in BOOLEAN /\ peerReset \in BOOLEAN
    BY Zenon DEF Init
  <2>3. interest \in {{}, {"R"}, {"R", "W"}} /\ nonblocking \in NonBlocking
    BY Zenon DEF Init
  <2> QED
    BY <2>1, <2>2, <2>3 DEF FlagInv
<1>7. DropInv
  BY <1>2, SizesAssumption DEF DropInv, Thread
<1>8. MutexInv
  BY <1>2 DEF MutexInv, BlockedHoldsMutex, Thread
<1>9. CallInv
  BY <1>2 DEF CallInv, Thread
<1>10. HistInv
  <2>1. <<>> \in Seq({"whole", "cut", "failed"})
    BY EmptySeq
  <2>2. \A t \in Thread : Len(returned[t]) = 0 /\ issued[t] = 0 /\ pc[t] = "idle"
    BY <1>1, <1>2
  <2> QED
    BY <1>2, <2>1, <2>2 DEF HistInv
<1>11. StreamInv
  BY <1>1, <1>2, <1>3 DEF StreamInv, Contiguous
<1>12. ReportInv
  <2>1. \A t \in Thread : Len(returned[t]) = 0
    BY <1>1, <1>2
  <2> QED
    BY <2>1 DEF ReportInv
<1> QED
  BY <1>4, <1>5, <1>6, <1>7, <1>8, <1>9, <1>10, <1>11, <1>12 DEF IInv

\* ... and after every step, which is one of MessageStream or none.
LEMMA NextIInv == IInv /\ [Next]_vars => IInv' /\ AbstractStep
<1> SUFFICES ASSUME IInv, [Next]_vars PROVE IInv' /\ AbstractStep
  OBVIOUS
<1>1. "main" \in Thread /\ "stream" \in Thread
  BY DEF Thread
<1>2. CASE MainStep
  <2>1. CASE Send("main")
    BY <1>1, <2>1, SendStep
  <2>2. CASE SendResumes("main")
    BY <1>1, <2>2, SendResumesStep
  <2>3. CASE Responded
    <3>1. PICK step \in {"idle", "arm", "flush", "disarm"} :
            step = IF write_buffer_ = <<>> THEN "idle" ELSE "arm"
      OBVIOUS
    <3>2. pc' = [pc EXCEPT !["main"] = step] /\ pc["main"] = "sent"
      BY <2>3, <3>1 DEF Responded, Goto
    <3> QED
      BY <2>3, <3>2, MainHandlerStep
         DEF Responded, connVars, epollVars, kernelVars, histVars
  <2>4. CASE Arm("main")
    BY <1>1, <2>4, ArmStep
  <2>5. CASE Flush
    BY <2>5, FlushStep
  <2>6. CASE FlushBlocks
    BY <2>6, FlushBlocksStep
  <2>7. CASE FlushResumes
    BY <2>7, FlushResumesStep
  <2>8. CASE FlushError
    <3>1. pc' = [pc EXCEPT !["main"] = "idle"] /\ pc["main"] = "flush"
      BY <2>8 DEF FlushError, Goto
    <3> QED
      BY <2>8, <3>1, MainHandlerStep
         DEF FlushError, CloseConnection, connVars, kernelVars, histVars
  <2>9. CASE CheckDrained
    <3>1. PICK step \in {"idle", "arm", "flush", "disarm"} :
            step = IF write_buffer_ = <<>> THEN "disarm" ELSE "idle"
      OBVIOUS
    <3>2. pc' = [pc EXCEPT !["main"] = step] /\ pc["main"] = "flushed"
      BY <2>9, <3>1 DEF CheckDrained, Goto
    <3> QED
      BY <2>9, <3>2, MainHandlerStep
         DEF CheckDrained, connVars, epollVars, kernelVars, histVars
  <2>10. CASE Disarm
    <3>1. /\ pc' = [pc EXCEPT !["main"] = "idle"] /\ pc["main"] = "disarm"
          /\ interest' \in {{}, {"R"}, interest}
      BY <2>10 DEF Disarm, Goto, ModifyFd
    <3> QED
      BY <2>10, <3>1, MainHandlerStep DEF Disarm, connVars, kernelVars, histVars
  <2> QED
    BY <1>2, <2>1, <2>2, <2>3, <2>4, <2>5, <2>6, <2>7, <2>8, <2>9, <2>10 DEF MainStep
<1>3. CASE StreamStep
  BY <1>1, <1>3, SendStep, SendResumesStep, ForwardFailedStep, ForwardDoneStep, ArmStep
     DEF StreamStep
<1>4. CASE Broadcast \/ OnRead \/ FlushCut \/ \E t \in Thread : SendCut(t)
  BY <1>4, BroadcastStep, OnReadStep, FlushCutStep, SendCutStep
<1>5. CASE OnWrite
  <2>1. pc' = [pc EXCEPT !["main"] = "flush"] /\ pc["main"] = "idle"
    BY <1>5 DEF OnWrite, Goto
  <2> QED
    BY <1>5, <2>1, MainHandlerStep DEF OnWrite, connVars, epollVars, kernelVars, histVars
<1>6. /\ clientRead <= Len(wire) /\ peerReset \in BOOLEAN /\ registered \in BOOLEAN
      /\ interest \in {{}, {"R"}, {"R", "W"}} /\ clientRead \in Nat /\ Len(wire) \in Nat
  <2>1. DataInv /\ FlagInv /\ Len(wire) \in Nat
    BY LenProperties DEF IInv, DataInv
  <2> QED
    BY <2>1 DEF DataInv, FlagInv
<1>7. CASE OnReset
  BY <1>6, <1>7, OutsideStep DEF OnReset, CloseConnection, connVars, kernelVars, histVars
<1>8. CASE OnTimer
  BY <1>6, <1>8, OutsideStep DEF OnTimer, CloseConnection, connVars, kernelVars, histVars
<1>9. CASE ClientReads
  BY <1>6, <1>9, OutsideStep DEF ClientReads, connVars, epollVars, histVars
<1>10. CASE ClientResets
  BY <1>6, <1>10, OutsideStep DEF ClientResets, connVars, epollVars, histVars
<1>11. CASE UNCHANGED vars
  BY <1>6, <1>11, OutsideStep DEF vars, connVars, epollVars, kernelVars, histVars
<1> QED
  BY <1>2, <1>3, <1>4, <1>5, <1>7, <1>8, <1>9, <1>10, <1>11 DEF Next

\* The inductive invariant of the two threads and the write buffer between them
\* (connection.cc:63-243).
THEOREM ConnectionInvariant == Spec => []IInv
<1>1. IInv /\ [Next]_vars => IInv'
  BY NextIInv
<1> QED
  BY <1>1, InitIInv, PTL DEF Spec

\* The write buffer never holds more than it can, the kernel is never given more
\* than it has room for, and the drop counter is bounded by the frames sent.
THEOREM ConnectionTypeCorrect == Spec => []TypeOK
<1>1. IInv => TypeOK
  <2> SUFFICES ASSUME IInv PROVE TypeOK
    OBVIOUS
  <2>1. pc["stream"] \in {"idle", "send", "blocked", "sent", "failed", "arm"}
        /\ pc["main"] \in {"idle", "send", "blocked", "sent", "arm", "flush",
                           "flushing", "flushed", "disarm"}
    BY DEF IInv, PcInv, Thread
  <2>2. consecutive_drops_ \in 0..MaxPackets
    BY SizesAssumption DEF IInv, DropInv, HistInv, Thread
  <2>3. \A t \in Thread : returned[t] \in Seq({"whole", "cut", "failed"})
    BY DEF IInv, HistInv
  <2> QED
    BY <2>1, <2>2, <2>3 DEF IInv, TypeOK, DataInv, FlagInv, MutexInv
<1> QED
  BY <1>1, ConnectionInvariant, PTL

\* A thread in a blocked call holds send_mutex_ and no call outlives it
\* (connection.cc:65, 119, 201).
THEOREM ConnectionBlockedHoldsMutex == Spec => []BlockedHoldsMutex
<1>1. IInv => BlockedHoldsMutex
  BY DEF IInv, MutexInv
<1> QED
  BY <1>1, ConnectionInvariant, PTL

\* The messages of the two threads are never mixed, repeated or reordered in the
\* byte stream (connection.cc:77, 131, 233).
THEOREM ConnectionFramesContiguous == Spec => []FramesContiguous
<1>1. IInv => FramesContiguous
  <2> SUFFICES ASSUME IInv PROVE FramesContiguous
    OBVIOUS
  <2>1. Contiguous(Stream)
    BY DEF IInv, StreamInv
  <2> QED
    BY <2>1, Zenon DEF Contiguous, FramesContiguous
<1> QED
  BY <1>1, ConnectionInvariant, PTL

\* What Send and SendV report is what the byte stream holds
\* (connection.cc:91, 105-113, 168, 182-196, 233).
THEOREM ConnectionReportedWhole == Spec => []ReportedWhole
<1>1. IInv => ReportedWhole
  <2>1. IInv => ReportInv
    BY DEF IInv
  <2>2. ReportInv => ReportedWhole
    BY DEF ReportInv, Reported, ReportedWhole, Present, In, Split
  <2> QED
    BY <2>1, <2>2
<1> QED
  BY <1>1, ConnectionInvariant, PTL

\* What the two threads send is one stream of messages, to which each call adds
\* as much of its own as its result says, with nothing of the other in between,
\* however Flush, the kernel and the client move the bytes
\* (connection.cc:63-243).
THEOREM ConnectionImplementsMessageStream == Spec => ImplementsMessageStream
<1>1. Init => Messages!StreamInit
  <2> SUFFICES ASSUME Init PROVE Messages!StreamInit
    OBVIOUS
  <2>1. /\ pc = [t \in Thread |-> "idle"] /\ clientRead = 0
        /\ issued = [t \in Thread |-> 0] /\ returned = [t \in Thread |-> <<>>]
    BY DEF Init
  <2>2. Stream = <<>>
    BY InitStream
  <2>3. Writing = {} /\ Written = 0
    BY <2>1 DEF Writing, Written
  <2> QED
    BY <2>1, <2>2, <2>3 DEF Messages!StreamInit
<1>2. IInv /\ [Next]_vars => [Messages!StreamNext]_(Messages!streamVars)
  BY NextIInv DEF AbstractStep
<1> QED
  BY <1>1, <1>2, ConnectionInvariant, PTL
     DEF Spec, ImplementsMessageStream, Messages!StreamSpec

=============================================================================
