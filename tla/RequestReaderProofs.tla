------------------------ MODULE RequestReaderProofs -------------------------
(***************************************************************************)
(* Which bytes the epoll thread takes for requests, for every size of the  *)
(* buffer, every set of messages and every way the bytes are divided       *)
(* between Recvs.  The argument: the ring holds the received bytes of the  *)
(* stream that are not consumed yet (ContentsInv), so what the loop sees is *)
(* what the reference sees at the same place of the stream; and what it has *)
(* handled so far is what the reference finds up to there, in every byte   *)
(* sequence that starts with the consumed bytes (CutInv).                  *)
(***************************************************************************)
EXTENDS RequestReader, RingBufferProofs

-----------------------------------------------------------------------------
\* The recursive functions.  That a function satisfies its recursive definition
\* is shown by solving the equation for more and more arguments: the smallest
\* number of arguments for which that failed would be one more than a number for
\* which it works.

\* Upto, whose value for n is made from the one before.
UptoAt(s, f, n) == IF n = 0 THEN <<>> ELSE f[n-1] \o s[n]

\* What is joined.
LEMMA PartsAreSequences ==
  ASSUME NEW S, NEW s \in Seq(Seq(S)), NEW n \in 1..Len(s)
  PROVE  s[n] \in Seq(S)
BY ElementOfSeq

\* The equation for Upto has a solution.
LEMMA UptoExists ==
  ASSUME NEW S, NEW s \in Seq(Seq(S))
  PROVE  \E f : f = [n \in 0..Len(s) |-> UptoAt(s, f, n)]
<1> DEFINE N == Len(s)
           Solves(f, k) == \A n \in 0..N : n <= k => f[n] = UptoAt(s, f, n)
           Bad == {k \in 0..N : ~ \E f \in [0..N -> Seq(S)] : Solves(f, k)}
<1>1. N \in Nat
  OBVIOUS
<1> HIDE DEF N
<1>2. Bad = {}
  <2> SUFFICES ASSUME Bad # {} PROVE FALSE
    OBVIOUS
  <2>1. PICK k \in Bad : \A y \in Bad : k <= y
    <3>1. Bad \in SUBSET Nat
      BY <1>1
    <3> QED BY <3>1, MinIsLeast
  <2>2. k \in 0..N /\ ~ \E f \in [0..N -> Seq(S)] : Solves(f, k)
    BY <2>1
  <2>3. CASE k = 0
    <3> DEFINE f == [n \in 0..N |-> <<>>]
    <3>1. f \in [0..N -> Seq(S)]
      OBVIOUS
    <3>2. ASSUME NEW n \in 0..N, n <= k PROVE f[n] = UptoAt(s, f, n)
      <4>1. n = 0
        BY <1>1, <2>3, <3>2
      <4> QED BY <4>1 DEF UptoAt
    <3> QED BY <2>2, <3>1, <3>2
  <2>4. CASE k # 0
    <3>1. k - 1 \in 0..N /\ k \in 1..N /\ k - 1 < k
      BY <1>1, <2>2, <2>4
    <3>2. k - 1 \notin Bad
      BY <2>1, <2>2, <3>1
    <3>3. PICK g \in [0..N -> Seq(S)] : Solves(g, k - 1)
      BY <3>1, <3>2
    <3> DEFINE f == [n \in 0..N |-> IF n = k THEN UptoAt(s, g, k) ELSE g[n]]
    <3>4. UptoAt(s, g, k) \in Seq(S)
      <4>1. s[k] \in Seq(S) /\ g[k-1] \in Seq(S)
        BY <3>1, <3>3, PartsAreSequences DEF N
      <4> QED BY <3>1, <4>1 DEF UptoAt
    <3>5. f \in [0..N -> Seq(S)]
      BY <3>3, <3>4
    <3>6. ASSUME NEW n \in 0..N, n <= k PROVE f[n] = UptoAt(s, f, n)
      <4>1. UptoAt(s, f, n) = UptoAt(s, g, n)
        <5>1. n = 0 \/ (n - 1 \in 0..N /\ n - 1 # k)
          BY <1>1, <2>2, <3>6
        <5> QED BY <5>1 DEF UptoAt
      <4>2. CASE n = k
        BY <4>1, <4>2
      <4>3. CASE n # k
        <5>1. n <= k - 1 /\ f[n] = g[n]
          BY <2>2, <3>6, <4>3
        <5> QED BY <3>3, <4>1, <5>1
      <4> QED BY <4>2, <4>3
    <3> QED BY <2>2, <3>5, <3>6
  <2> QED BY <2>3, <2>4
<1>3. PICK f \in [0..N -> Seq(S)] : Solves(f, N)
  <2>1. N \in 0..N
    BY <1>1
  <2>2. \A k \in 0..N : \E f \in [0..N -> Seq(S)] : Solves(f, k)
    <3> HIDE DEF Solves
    <3> QED BY <1>2
  <2> QED BY <2>1, <2>2
<1>4. f = [n \in 0..N |-> UptoAt(s, f, n)]
  BY <1>1, <1>3
<1> QED BY <1>4 DEF N

LEMMA UptoEquation ==
  ASSUME NEW S, NEW s \in Seq(Seq(S))
  PROVE  Upto(s) = [n \in 0..Len(s) |-> UptoAt(s, Upto(s), n)]
<1> DEFINE P(f) == f = [n \in 0..Len(s) |-> UptoAt(s, f, n)]
<1>1. Upto(s) = CHOOSE f : P(f)
  BY DEF Upto, UptoAt
<1>2. \E f : P(f)
  BY UptoExists
<1> HIDE DEF P
<1>3. P(Upto(s))
  BY <1>1, <1>2
<1> QED BY <1>3 DEF P

\* What Upto holds, argument by argument.
LEMMA UptoType ==
  ASSUME NEW S, NEW s \in Seq(Seq(S))
  PROVE  /\ Upto(s)[0] = <<>>
         /\ \A n \in 1..Len(s) : Upto(s)[n] = Upto(s)[n-1] \o s[n]
         /\ \A n \in 0..Len(s) : Upto(s)[n] \in Seq(S)
<1> DEFINE N == Len(s)
           U == Upto(s)
           Bad == {n \in 0..N : U[n] \notin Seq(S)}
<1>1. N \in Nat /\ U = [n \in 0..N |-> UptoAt(s, U, n)]
  BY UptoEquation
<1> HIDE DEF U, N
<1>2. U[0] = <<>>
  <2>1. 0 \in 0..N
    BY <1>1
  <2>2. U[0] = UptoAt(s, U, 0)
    BY <1>1, <2>1
  <2> QED BY <2>2 DEF UptoAt
<1>3. ASSUME NEW n \in 1..N PROVE U[n] = U[n-1] \o s[n]
  <2>1. n \in 0..N /\ n # 0
    BY <1>1
  <2>2. U[n] = UptoAt(s, U, n)
    BY <1>1, <2>1
  <2> QED BY <2>1, <2>2 DEF UptoAt
<1>4. Bad = {}
  <2> SUFFICES ASSUME Bad # {} PROVE FALSE
    OBVIOUS
  <2>1. PICK k \in Bad : \A y \in Bad : k <= y
    <3>1. Bad \in SUBSET Nat
      BY <1>1
    <3> QED BY <3>1, MinIsLeast
  <2>2. k # 0 /\ k \in 0..N /\ U[k] \notin Seq(S)
    <3>1. <<>> \in Seq(S)
      OBVIOUS
    <3>2. k \in 0..N /\ U[k] \notin Seq(S)
      BY <2>1
    <3> QED BY <1>2, <3>1, <3>2
  <2>3. k - 1 \in 0..N /\ k \in 1..N /\ k - 1 < k
    BY <1>1, <2>2
  <2>4. U[k-1] \in Seq(S)
    BY <2>1, <2>2, <2>3
  <2>5. s[k] \in Seq(S)
    BY <2>3, PartsAreSequences DEF N
  <2>6. U[k] \in Seq(S)
    <3>1. U[k] = U[k-1] \o s[k]
      BY <1>3, <2>3
    <3> QED BY <2>4, <2>5, <3>1
  <2> QED BY <2>2, <2>6
<1> QED BY <1>2, <1>3, <1>4 DEF U, N

\* One more message does not change what came before it.
LEMMA UptoAppend ==
  ASSUME NEW S, NEW s \in Seq(Seq(S)), NEW m \in Seq(S)
  PROVE  /\ Append(s, m) \in Seq(Seq(S)) /\ Len(Append(s, m)) = Len(s) + 1
         /\ Upto(Append(s, m))[Len(s) + 1] = Upto(s)[Len(s)] \o m
         /\ \A n \in 0..Len(s) : Upto(Append(s, m))[n] = Upto(s)[n]
<1> DEFINE N == Len(s)
           t == Append(s, m)
           U == Upto(s)
           V == Upto(t)
           Bad == {n \in 0..N : V[n] # U[n]}
<1>1. /\ N \in Nat /\ t \in Seq(Seq(S)) /\ Len(t) = N + 1 /\ t[N+1] = m
      /\ \A n \in 1..N : t[n] = s[n]
  OBVIOUS
<1>2. /\ U[0] = <<>> /\ \A n \in 1..N : U[n] = U[n-1] \o s[n]
  BY UptoType
<1>3. /\ V[0] = <<>> /\ \A n \in 1..N+1 : V[n] = V[n-1] \o t[n]
  BY <1>1, UptoType
<1> HIDE DEF U, V, N, t
<1>4. Bad = {}
  <2> SUFFICES ASSUME Bad # {} PROVE FALSE
    OBVIOUS
  <2>1. PICK k \in Bad : \A y \in Bad : k <= y
    <3>1. Bad \in SUBSET Nat
      BY <1>1
    <3> QED BY <3>1, MinIsLeast
  <2>2. k # 0 /\ k \in 0..N /\ V[k] # U[k]
    BY <1>2, <1>3, <2>1
  <2>3. k - 1 \in 0..N /\ k \in 1..N /\ k - 1 < k /\ k \in 1..N+1
    BY <1>1, <2>2
  <2>4. U[k-1] = V[k-1]
    BY <2>1, <2>2, <2>3
  <2>5. U[k] = V[k]
    BY <1>1, <1>2, <1>3, <2>3, <2>4
  <2> QED BY <2>2, <2>5
<1>5. V[N+1] = V[N] \o m
  <2>1. N + 1 \in 1..N+1 /\ (N + 1) - 1 = N
    BY <1>1
  <2> QED BY <1>1, <1>3, <2>1
<1>6. V[N] = U[N]
  <2>1. N \in 0..N
    BY <1>1
  <2> QED BY <1>4, <2>1
<1> QED BY <1>1, <1>4, <1>5, <1>6 DEF U, V, N, t

\* What was joined earlier starts what is joined later, and is followed by the
\* next part.
LEMMA UptoPrefix ==
  ASSUME NEW S, NEW s \in Seq(Seq(S)), NEW n \in 0..Len(s)
  PROVE  /\ Len(Upto(s)[n]) <= Len(Upto(s)[Len(s)])
         /\ \A k \in 1..Len(Upto(s)[n]) : Upto(s)[Len(s)][k] = Upto(s)[n][k]
<1> DEFINE N == Len(s)
           U == Upto(s)
           Starts(d) == /\ Len(U[n]) <= Len(U[n + d])
                        /\ \A k \in 1..Len(U[n]) : U[n + d][k] = U[n][k]
           Bad == {d \in 0..N - n : ~Starts(d)}
<1>1. /\ N \in Nat /\ n \in 0..N
      /\ \A m \in 1..N : s[m] \in Seq(S)
      /\ \A m \in 1..N : U[m] = U[m-1] \o s[m]
      /\ \A m \in 0..N : U[m] \in Seq(S)
  <2>1. \A m \in 1..N : s[m] \in Seq(S)
    BY PartsAreSequences
  <2>2. (\A m \in 1..N : U[m] = U[m-1] \o s[m]) /\ (\A m \in 0..N : U[m] \in Seq(S))
    BY UptoType
  <2>3. N \in Nat /\ n \in 0..N
    OBVIOUS
  <2> HIDE DEF N, U
  <2> QED BY <2>1, <2>2, <2>3
<1> HIDE DEF N, U
<1>2. Bad = {}
  <2> SUFFICES ASSUME Bad # {} PROVE FALSE
    OBVIOUS
  <2>1. PICK d \in Bad : \A y \in Bad : d <= y
    <3>1. Bad \in SUBSET Nat
      BY <1>1
    <3> QED BY <3>1, MinIsLeast
  <2>2. d \in 0..N - n /\ ~Starts(d)
    BY <2>1
  <2>3. d # 0
    <3>1. Len(U[n]) \in Nat /\ n + 0 = n
      BY <1>1, LenProperties
    <3>2. Starts(0)
      BY <3>1
    <3> QED BY <2>2, <3>2
  <2>4. d - 1 \in 0..N - n /\ d - 1 < d /\ n + d \in 1..N /\ n + (d - 1) = (n + d) - 1
        /\ n + (d - 1) \in 0..N
    BY <1>1, <2>2, <2>3
  <2>5. Starts(d - 1)
    <3> HIDE DEF Starts
    <3> QED BY <2>1, <2>2, <2>4
  <2>6. PICK u \in Seq(S), v \in Seq(S) : u = U[n + (d - 1)] /\ v = s[n + d]
                                        /\ U[n + d] = u \o v
    BY <1>1, <2>4
  <2>7. /\ Len(u \o v) = Len(u) + Len(v) /\ Len(u) \in Nat /\ Len(v) \in Nat
        /\ \A k \in 1..Len(u) : (u \o v)[k] = u[k]
    BY LenProperties, ConcatProperties
  <2>8. Len(U[n]) \in Nat
    BY <1>1, LenProperties
  <2>9. Len(U[n]) <= Len(u) /\ \A k \in 1..Len(U[n]) : u[k] = U[n][k]
    BY <2>5, <2>6
  <2>10. Starts(d)
    <3>1. Len(U[n]) <= Len(u \o v)
      BY <2>7, <2>8, <2>9
    <3>2. ASSUME NEW k \in 1..Len(U[n]) PROVE (u \o v)[k] = U[n][k]
      <4>1. k \in 1..Len(u)
        BY <2>7, <2>8, <2>9
      <4> QED BY <2>7, <2>9, <4>1
    <3> QED BY <2>6, <3>1, <3>2
  <2> QED BY <2>2, <2>10
<1>3. N - n \in 0..N - n /\ n + (N - n) = N
  BY <1>1
<1>4. Starts(N - n)
  <2> HIDE DEF Starts
  <2> QED BY <1>2, <1>3
<1> QED BY <1>3, <1>4 DEF N, U

\* So the stream is a sequence of bytes,
LEMMA SentType ==
  ASSUME NEW s \in Seq(Message)
  PROVE  s \in Seq(Seq(Byte))
<1>1. Message \subseteq Seq(Byte)
  BY ReaderAssumption
<1> QED BY <1>1, SeqDef

LEMMA StreamType == sent \in Seq(Message) => Stream \in Seq(Byte)
<1> SUFFICES ASSUME sent \in Seq(Message) PROVE Stream \in Seq(Byte)
  OBVIOUS
<1>1. sent \in Seq(Seq(Byte)) /\ Len(sent) \in 0..Len(sent)
  BY SentType
<1> QED BY <1>1, UptoType DEF Stream

\* and sending a message appends its bytes.
LEMMA StreamAppends ==
  ASSUME sent \in Seq(Message), NEW m \in Message, sent' = Append(sent, m)
  PROVE  Stream' = Stream \o m
<1>1. sent \in Seq(Seq(Byte)) /\ m \in Seq(Byte)
  BY SentType, ReaderAssumption
<1> QED BY <1>1, UptoAppend DEF Stream

-----------------------------------------------------------------------------
\* The reference.  At place i it stops, goes on at a later place, or finds a
\* request and goes on after it; which of these, the bytes alone decide.
Place == [from : Nat, len : Nat]

Stops(bytes, i) == \A cut : CutAt(bytes, cut, i) = <<>>
Skips(bytes, i, p) == \A cut : CutAt(bytes, cut, i) = cut[p]
Finds(bytes, i, p) ==
  \A cut : CutAt(bytes, cut, i) = <<[from |-> i - 1, len |-> p - i]>> \o cut[p]

\* The places of an empty line from i on.
Ends(bytes, i) == {j \in i..Len(bytes) - 3 : SubSeq(bytes, j, j + 3) = Terminator}

LEMMA CutAtCases ==
  ASSUME NEW bytes \in Seq(Byte), NEW i \in 1..Len(bytes)+1
  PROVE  \/ Stops(bytes, i)
         \/ \E p \in (i+1)..(Len(bytes)+1) : Skips(bytes, i, p) \/ Finds(bytes, i, p)
<1> DEFINE n == Len(bytes)
           frame == i + 4 + 256 * bytes[i+2] + bytes[i+3]
           next == Min(Ends(bytes, i)) + 4
<1>1. n \in Nat
  OBVIOUS
<1>2. CASE n - i < 3
  BY <1>2 DEF CutAt, Stops
<1>3. CASE ~(n - i < 3) /\ bytes[i] = Marker
  <2>1. i+2 \in 1..n /\ i+3 \in 1..n
    BY <1>1, <1>3
  <2>2. bytes[i+2] \in 0..255 /\ bytes[i+3] \in 0..255
    <3>1. bytes[i+2] \in Byte /\ bytes[i+3] \in Byte
      BY <2>1, ElementOfSeq
    <3> QED BY <3>1, ReaderAssumption
  <2>3. CASE frame <= n + 1
    <3>1. Skips(bytes, i, frame)
      BY <1>3, <2>3 DEF CutAt, Skips
    <3>2. frame \in (i+1)..(n+1)
      <4>1. PICK a \in 0..255, b \in 0..255 : a = bytes[i+2] /\ b = bytes[i+3]
        BY <2>2, ZenonT(30)
      <4>2. frame = i + 4 + 256 * a + b
        BY <4>1
      <4> HIDE DEF frame, n
      <4> QED BY <1>1, <2>3, <4>2, SMTT(30)
    <3> QED BY <3>1, <3>2
  <2>4. CASE ~(frame <= n + 1)
    BY <1>3, <2>4 DEF CutAt, Stops
  <2> QED BY <2>3, <2>4
<1>4. CASE ~(n - i < 3) /\ bytes[i] # Marker /\ Ends(bytes, i) = {}
  BY <1>4 DEF CutAt, Stops, Ends
<1>5. CASE ~(n - i < 3) /\ bytes[i] # Marker /\ Ends(bytes, i) # {}
  <2>1. Finds(bytes, i, next)
    BY <1>5 DEF CutAt, Finds, Ends
  <2>2. Min(Ends(bytes, i)) \in Ends(bytes, i)
    <3>1. Ends(bytes, i) \in SUBSET Nat
      BY <1>1 DEF Ends
    <3> QED BY <1>5, <3>1, MinIsLeast
  <2>3. Min(Ends(bytes, i)) \in i..n-3
    BY <2>2 DEF Ends
  <2>4. next \in (i+1)..(n+1)
    <3> HIDE DEF n
    <3> QED BY <1>1, <2>3
  <2> QED BY <2>1, <2>4
<1> QED BY <1>2, <1>3, <1>4, <1>5

\* The equation for CutsOf has a solution.
LEMMA CutsExist ==
  ASSUME NEW bytes \in Seq(Byte)
  PROVE  \E f : f = [i \in 1..Len(bytes)+1 |-> CutAt(bytes, f, i)]
<1> DEFINE M == Len(bytes) + 1
           Solves(f, k) == \A i \in 1..M : i > M - k => f[i] = CutAt(bytes, f, i)
           Bad == {k \in 0..M : ~ \E f \in [1..M -> Seq(Place)] : Solves(f, k)}
<1>1. M \in Nat \ {0}
  OBVIOUS
<1>2. \A i \in 1..M : \/ Stops(bytes, i)
                      \/ \E p \in (i+1)..M : Skips(bytes, i, p) \/ Finds(bytes, i, p)
  BY CutAtCases
<1> HIDE DEF M
<1>3. Bad = {}
  <2> SUFFICES ASSUME Bad # {} PROVE FALSE
    OBVIOUS
  <2>1. PICK k \in Bad : \A y \in Bad : k <= y
    <3>1. Bad \in SUBSET Nat
      BY <1>1
    <3> HIDE DEF Bad
    <3> QED BY <3>1, MinIsLeast
  <2>2. k \in 0..M /\ ~ \E f \in [1..M -> Seq(Place)] : Solves(f, k)
    BY <2>1
  <2>3. CASE k = 0
    <3> DEFINE f == [i \in 1..M |-> <<>>]
    <3>1. f \in [1..M -> Seq(Place)]
      OBVIOUS
    <3>2. ASSUME NEW i \in 1..M, i > M - k PROVE f[i] = CutAt(bytes, f, i)
      BY <1>1, <2>3, <3>2
    <3> QED BY <2>2, <3>1, <3>2
  <2>4. CASE k # 0
    <3>1. k - 1 \in 0..M /\ k \in 1..M /\ k - 1 < k
      BY <1>1, <2>2, <2>4
    <3>2. k - 1 \notin Bad
      BY <2>1, <2>2, <3>1
    <3>3. PICK g \in [1..M -> Seq(Place)] : Solves(g, k - 1)
      BY <3>1, <3>2
    <3>4. PICK b \in 1..M : b = M - k + 1
      BY <1>1, <3>1
    <3> DEFINE f == [i \in 1..M |-> IF i = b THEN CutAt(bytes, g, b) ELSE g[i]]
    <3>5. CutAt(bytes, g, b) \in Seq(Place)
      <4>1. CASE Stops(bytes, b)
        <5>1. CutAt(bytes, g, b) = <<>>
          BY <4>1 DEF Stops
        <5> QED BY <5>1
      <4>2. CASE \E p \in (b+1)..M : Skips(bytes, b, p) \/ Finds(bytes, b, p)
        <5>1. PICK p \in (b+1)..M : Skips(bytes, b, p) \/ Finds(bytes, b, p)
          BY <4>2
        <5>2. p \in 1..M /\ b - 1 \in Nat /\ p - b \in Nat
          BY <1>1, <5>1
        <5>3. g[p] \in Seq(Place)
          BY <3>3, <5>2
        <5>4. CASE Skips(bytes, b, p)
          BY <5>3, <5>4 DEF Skips
        <5>5. CASE Finds(bytes, b, p)
          <6>1. [from |-> b - 1, len |-> p - b] \in Place
            BY <5>2 DEF Place
          <6>2. <<[from |-> b - 1, len |-> p - b]>> \o g[p] \in Seq(Place)
            BY <5>3, <6>1
          <6> QED BY <5>5, <6>2 DEF Finds
        <5> QED BY <5>1, <5>4, <5>5
      <4> QED BY <1>2, <4>1, <4>2
    <3>6. f \in [1..M -> Seq(Place)]
      BY <3>3, <3>5
    <3>7. ASSUME NEW i \in 1..M, i > M - k PROVE f[i] = CutAt(bytes, f, i)
      <4>1. CutAt(bytes, f, i) = CutAt(bytes, g, i)
        <5>1. CASE Stops(bytes, i)
          BY <5>1 DEF Stops
        <5>2. CASE \E p \in (i+1)..M : Skips(bytes, i, p) \/ Finds(bytes, i, p)
          <6>1. PICK p \in (i+1)..M : Skips(bytes, i, p) \/ Finds(bytes, i, p)
            BY <5>2
          <6>2. p \in 1..M /\ p # b
            BY <1>1, <3>1, <3>4, <3>7, <6>1
          <6>3. f[p] = g[p]
            BY <6>2
          <6> HIDE DEF f
          <6> QED BY <6>1, <6>3 DEF Skips, Finds
        <5> QED BY <1>2, <5>1, <5>2
      <4>2. CASE i = b
        BY <4>1, <4>2
      <4>3. CASE i # b
        <5>1. i > M - (k - 1) /\ f[i] = g[i]
          BY <1>1, <3>1, <3>4, <3>7, <4>3
        <5> QED BY <3>3, <4>1, <5>1
      <4> QED BY <4>2, <4>3
    <3> QED BY <2>2, <3>6, <3>7
  <2> QED BY <2>3, <2>4
<1>4. PICK f \in [1..M -> Seq(Place)] : Solves(f, M)
  <2>1. M \in 0..M
    BY <1>1
  <2>2. \A k \in 0..M : \E f \in [1..M -> Seq(Place)] : Solves(f, k)
    <3> HIDE DEF Solves
    <3> QED BY <1>3
  <2> QED BY <2>1, <2>2
<1>5. f = [i \in 1..M |-> CutAt(bytes, f, i)]
  BY <1>1, <1>4
<1> QED BY <1>5 DEF M

LEMMA CutsEquation ==
  ASSUME NEW bytes \in Seq(Byte)
  PROVE  \A i \in 1..Len(bytes)+1 :
           CutsOf(bytes)[i] = CutAt(bytes, CutsOf(bytes), i)
<1> DEFINE P(f) == f = [i \in 1..Len(bytes)+1 |-> CutAt(bytes, f, i)]
<1>1. CutsOf(bytes) = CHOOSE f : P(f)
  BY DEF CutsOf
<1>2. \E f : P(f)
  BY CutsExist
<1> HIDE DEF P
<1>3. P(CutsOf(bytes))
  BY <1>1, <1>2
<1>4. PICK f : f = CutsOf(bytes)
  OBVIOUS
<1>5. f = [i \in 1..Len(bytes)+1 |-> CutAt(bytes, f, i)]
  BY <1>3, <1>4 DEF P
<1>6. \A i \in 1..Len(bytes)+1 : f[i] = CutAt(bytes, f, i)
  BY <1>5
<1> QED BY <1>4, <1>6

\* From every place on, the reference gives a sequence of places.
LEMMA CutsType ==
  ASSUME NEW bytes \in Seq(Byte)
  PROVE  \A i \in 1..Len(bytes)+1 : CutsOf(bytes)[i] \in Seq(Place)
<1> DEFINE M == Len(bytes) + 1
           Bad == {k \in 0..M-1 : CutsOf(bytes)[M - k] \notin Seq(Place)}
<1>1. M \in Nat \ {0}
  OBVIOUS
<1>2. \A i \in 1..M : \/ Stops(bytes, i)
                      \/ \E p \in (i+1)..M : Skips(bytes, i, p) \/ Finds(bytes, i, p)
  BY CutAtCases
<1>3. PICK f : /\ f = CutsOf(bytes)
               /\ \A i \in 1..M : f[i] = CutAt(bytes, f, i)
  BY CutsEquation
<1> HIDE DEF M
<1>4. Bad = {}
  <2> SUFFICES ASSUME Bad # {} PROVE FALSE
    OBVIOUS
  <2>1. PICK k \in Bad : \A y \in Bad : k <= y
    <3>1. Bad \in SUBSET Nat
      BY <1>1
    <3> HIDE DEF Bad
    <3> QED BY <3>1, MinIsLeast
  <2>2. k \in 0..M-1 /\ f[M - k] \notin Seq(Place)
    BY <1>3, <2>1
  <2>3. PICK i \in 1..M : i = M - k
    BY <1>1, <2>2
  <2>4. ASSUME NEW p \in (i+1)..M PROVE p \in 1..M /\ f[p] \in Seq(Place)
    <3>1. PICK y \in 0..M-1 : y < k /\ p = M - y
      <4>1. M - p \in 0..M-1 /\ M - p < k /\ p = M - (M - p)
        BY <1>1, <2>2, <2>3
      <4> QED BY <4>1
    <3>2. y \notin Bad
      BY <2>1, <2>2, <3>1
    <3> QED BY <1>1, <1>3, <2>3, <3>1, <3>2
  <2>5. CASE Stops(bytes, i)
    <3>1. f[i] = <<>> /\ <<>> \in Seq(Place)
      BY <1>3, <2>5 DEF Stops
    <3> QED BY <2>2, <2>3, <3>1
  <2>6. CASE \E p \in (i+1)..M : Skips(bytes, i, p) \/ Finds(bytes, i, p)
    <3>1. PICK p \in (i+1)..M : Skips(bytes, i, p) \/ Finds(bytes, i, p)
      BY <2>6
    <3>2. CASE Skips(bytes, i, p)
      <4>1. f[i] = f[p]
        BY <1>3, <3>2 DEF Skips
      <4> QED BY <2>2, <2>3, <2>4, <4>1
    <3>3. CASE Finds(bytes, i, p)
      <4>1. f[i] = <<[from |-> i - 1, len |-> p - i]>> \o f[p]
        BY <1>3, <3>3 DEF Finds
      <4>2. [from |-> i - 1, len |-> p - i] \in Place
        BY <1>1 DEF Place
      <4>3. f[i] \in Seq(Place)
        BY <2>4, <4>1, <4>2
      <4> QED BY <2>2, <2>3, <4>3
    <3> QED BY <3>1, <3>2, <3>3
  <2> QED BY <1>2, <2>5, <2>6
<1>5. ASSUME NEW i \in 1..M PROVE f[i] \in Seq(Place)
  <2>1. PICK k \in 0..M-1 : i = M - k
    <3>1. M - i \in 0..M-1 /\ i = M - (M - i)
      BY <1>1
    <3> QED BY <3>1
  <2> QED BY <1>3, <1>4, <2>1
<1> QED BY <1>3, <1>5 DEF M

-----------------------------------------------------------------------------
\* What the loop sees and what the reference sees, both byte by byte.

\* An empty line at place j.
EmptyLineAt(s, j) == s[j] = CR /\ s[j+1] = LF /\ s[j+2] = CR /\ s[j+3] = LF

\* A frame at place i, with its header.
FrameLen(s, i) == 4 + 256 * s[i+2] + s[i+3]

LEMMA EndsAreEmptyLines ==
  ASSUME NEW bytes \in Seq(Byte), NEW j \in 1..Len(bytes) - 3
  PROVE  SubSeq(bytes, j, j + 3) = Terminator <=> EmptyLineAt(bytes, j)
<1> DEFINE part == SubSeq(bytes, j, j + 3)
           n == Len(bytes)
<1>1. n \in Nat /\ j \in Nat
  OBVIOUS
<1>2. j \in 1..n /\ j + 3 \in j..n /\ (j + 3) - j + 1 = 4
  BY <1>1
<1>3. \A k \in j..j+3 : bytes[k] \in Byte
  <2>1. \A k \in j..j+3 : k \in 1..n
    BY <1>1
  <2> QED BY <2>1, ElementOfSeq
<1>4. /\ part \in Seq(Byte) /\ Len(part) = 4
      /\ \A k \in 1..4 : part[k] = bytes[j + k - 1]
  <2>1. j \in Int /\ j + 3 \in Int /\ j <= j + 3
    BY <1>1
  <2>2. /\ part \in Seq(Byte)
        /\ Len(part) = IF j <= j + 3 THEN (j + 3) - j + 1 ELSE 0
        /\ \A k \in 1..(j + 3) - j + 1 : part[k] = bytes[j + k - 1]
    BY <1>3, <2>1, SubSeqProperties
  <2>3. (j + 3) - j + 1 = 4
    BY <1>2
  <2> HIDE DEF part
  <2> QED BY <2>1, <2>2, <2>3
<1>5. /\ part[1] = bytes[j] /\ part[2] = bytes[j+1]
      /\ part[3] = bytes[j+2] /\ part[4] = bytes[j+3]
  <2>1. /\ j + 1 - 1 = j /\ j + 2 - 1 = j + 1 /\ j + 3 - 1 = j + 2
        /\ j + 4 - 1 = j + 3
    BY <1>1
  <2>2. 1 \in 1..4 /\ 2 \in 1..4 /\ 3 \in 1..4 /\ 4 \in 1..4
    OBVIOUS
  <2> HIDE DEF part
  <2> QED BY <1>4, <2>1, <2>2
<1>6. /\ Len(Terminator) = 4 /\ Terminator[1] = CR /\ Terminator[2] = LF
      /\ Terminator[3] = CR /\ Terminator[4] = LF
  BY DEF Terminator
<1> HIDE DEF part
<1>7. part = Terminator <=> /\ part[1] = Terminator[1] /\ part[2] = Terminator[2]
                            /\ part[3] = Terminator[3] /\ part[4] = Terminator[4]
  <2>1. ASSUME part[1] = Terminator[1], part[2] = Terminator[2],
               part[3] = Terminator[3], part[4] = Terminator[4]
        PROVE  part = Terminator
    <3>1. \A k \in 1..4 : k = 1 \/ k = 2 \/ k = 3 \/ k = 4
      OBVIOUS
    <3>2. \A k \in 1..4 : part[k] = Terminator[k]
      BY <2>1, <3>1
    <3>3. part \in Seq(Byte \cup {CR, LF}) /\ Terminator \in Seq(Byte \cup {CR, LF})
      <4>1. \A k \in 1..4 : part[k] \in Byte \cup {CR, LF}
        BY <1>4, ElementOfSeq
      <4>2. part = [k \in 1..4 |-> part[k]]
        BY <1>4
      <4>3. part \in Seq(Byte \cup {CR, LF})
        BY <4>1, <4>2
      <4>4. Terminator \in Seq(Byte \cup {CR, LF})
        BY DEF Terminator
      <4> QED BY <4>3, <4>4
    <3>4. Len(part) = Len(Terminator) /\ \A k \in 1..Len(part) : part[k] = Terminator[k]
      BY <1>4, <1>6, <3>2
    <3> QED BY <3>3, <3>4, SeqEqual
  <2> QED BY <2>1
<1> QED BY <1>5, <1>6, <1>7 DEF EmptyLineAt, part

\* The reference passes over a complete frame,
LEMMA ReferenceSkips ==
  ASSUME NEW bytes \in Seq(Byte), NEW i \in Nat \ {0}, i + 3 <= Len(bytes),
         bytes[i] = Marker, NEW n \in Nat, n = FrameLen(bytes, i),
         i + n <= Len(bytes) + 1
  PROVE  CutsOf(bytes)[i] = CutsOf(bytes)[i + n]
<1>1. Len(bytes) \in Nat
  OBVIOUS
<1>2. i \in 1..Len(bytes)+1 /\ ~(Len(bytes) - i < 3)
  BY <1>1
<1>3. i + 4 + 256 * bytes[i+2] + bytes[i+3] = i + n
  <2>1. i+2 \in 1..Len(bytes) /\ i+3 \in 1..Len(bytes)
    BY <1>1
  <2>2. bytes[i+2] \in Byte /\ bytes[i+3] \in Byte
    BY <2>1, ElementOfSeq, SMTT(30)
  <2>3. PICK a \in 0..255, b \in 0..255 : a = bytes[i+2] /\ b = bytes[i+3]
    BY <2>2, ReaderAssumption, ZenonT(30)
  <2>4. n = 4 + 256 * a + b
    BY <2>3 DEF FrameLen
  <2>5. i + 4 + 256 * a + b = i + n
    BY <2>4
  <2> QED BY <2>3, <2>5
<1>4. \A cut : CutAt(bytes, cut, i) = cut[i + n]
  BY <1>2, <1>3 DEF CutAt
<1> QED BY <1>2, <1>4, CutsEquation

\* takes what ends in the first empty line for a request,
LEMMA ReferenceFinds ==
  ASSUME NEW bytes \in Seq(Byte), NEW i \in Nat \ {0}, NEW e \in Nat,
         i + e + 3 <= Len(bytes), bytes[i] # Marker, EmptyLineAt(bytes, i + e),
         \A d \in 0..e-1 : ~EmptyLineAt(bytes, i + d)
  PROVE  CutsOf(bytes)[i] = <<[from |-> i - 1, len |-> e + 4]>>
                              \o CutsOf(bytes)[i + e + 4]
<1> DEFINE n == Len(bytes)
<1>1. n \in Nat
  OBVIOUS
<1>2. i \in 1..n+1 /\ ~(n - i < 3) /\ i + e \in i..n-3
  BY <1>1
<1>3. Ends(bytes, i) = {j \in i..n-3 : EmptyLineAt(bytes, j)}
  <2>1. \A j \in i..n-3 : j \in 1..Len(bytes) - 3
    BY <1>1
  <2> QED BY <2>1, EndsAreEmptyLines DEF Ends
<1>4. Min(Ends(bytes, i)) = i + e /\ Ends(bytes, i) # {}
  <2>1. i + e \in Ends(bytes, i)
    BY <1>2, <1>3
  <2>2. Ends(bytes, i) \in SUBSET Nat
    BY <1>1, <1>3
  <2>3. ASSUME NEW y \in Ends(bytes, i) PROVE i + e <= y
    <3>1. y \in i..n-3 /\ EmptyLineAt(bytes, y)
      BY <1>3
    <3>2. SUFFICES ASSUME ~(i + e <= y) PROVE FALSE
      OBVIOUS
    <3>3. y - i \in 0..e-1 /\ i + (y - i) = y
      BY <1>1, <3>1, <3>2
    <3> QED BY <3>1, <3>3
  <2> HIDE DEF n
  <2> QED BY <2>1, <2>2, <2>3, MinUnique
<1>5. Min(Ends(bytes, i)) + 4 = i + e + 4 /\ (i + e + 4) - i = e + 4
  BY <1>4
<1>6. \A cut : CutAt(bytes, cut, i) = <<[from |-> i - 1, len |-> e + 4]>>
                                        \o cut[i + e + 4]
  BY <1>2, <1>4, <1>5 DEF CutAt, Ends
<1> QED BY <1>2, <1>6, CutsEquation

\* and stops at what is not complete.
LEMMA ReferenceStops ==
  ASSUME NEW bytes \in Seq(Byte), NEW i \in 1..Len(bytes)+1,
         \/ Len(bytes) - i < 3
         \/ bytes[i] = Marker /\ i + FrameLen(bytes, i) > Len(bytes) + 1
         \/ bytes[i] # Marker /\ \A j \in i..Len(bytes)-3 : ~EmptyLineAt(bytes, j)
  PROVE  CutsOf(bytes)[i] = <<>>
<1> DEFINE n == Len(bytes)
<1>1. n \in Nat
  OBVIOUS
<1>2. CASE n - i < 3
  <2>1. CutAt(bytes, CutsOf(bytes), i) = <<>>
    BY <1>2 DEF CutAt
  <2> QED BY <2>1, CutsEquation
<1>3. CASE ~(n - i < 3) /\ bytes[i] = Marker /\ i + FrameLen(bytes, i) > n + 1
  <2>1. i+2 \in 1..n /\ i+3 \in 1..n
    BY <1>1, <1>3
  <2>2. bytes[i+2] \in Byte /\ bytes[i+3] \in Byte
    BY <2>1, ElementOfSeq, SMTT(30)
  <2>3. PICK a \in 0..255, b \in 0..255 : a = bytes[i+2] /\ b = bytes[i+3]
    BY <2>2, ReaderAssumption, ZenonT(30)
  <2>4. i + (4 + 256 * a + b) > n + 1
    BY <1>3, <2>3 DEF FrameLen
  <2>5. ~(i + 4 + 256 * a + b <= n + 1)
    BY <1>1, <2>4
  <2>6. CutAt(bytes, CutsOf(bytes), i) = <<>>
    BY <1>3, <2>3, <2>5 DEF CutAt
  <2> QED BY <2>6, CutsEquation
<1>4. CASE /\ ~(n - i < 3) /\ bytes[i] # Marker
           /\ \A j \in i..n-3 : ~EmptyLineAt(bytes, j)
  <2>1. Ends(bytes, i) = {}
    <3>1. \A j \in i..n-3 : j \in 1..Len(bytes) - 3
      BY <1>1
    <3> QED BY <1>4, <3>1, EndsAreEmptyLines DEF Ends
  <2>2. CutAt(bytes, CutsOf(bytes), i) = <<>>
    BY <1>4, <2>1 DEF CutAt, Ends
  <2> QED BY <2>2, CutsEquation
<1> QED BY <1>2, <1>3, <1>4

\* Peek of a header gives the first four readable bytes.
LEMMA HeaderBytes ==
  ASSUME IInv, readable_size_ >= HeaderLen
  PROVE  /\ Header[1] = contents[1] /\ Header[3] = contents[3]
         /\ Header[4] = contents[4]
         /\ FrameTotal = FrameLen(contents, 1)
<1>1. readable_size_ \in Nat /\ HeaderLen = 4
  BY CapacityPositive DEF IInv, TypeOK, HeaderLen
<1>2. HeaderLen \in 1..readable_size_
  BY <1>1
<1>3. \A k \in 1..HeaderLen : Peek(HeaderLen)[k] = contents[k]
  BY <1>2, PeekBytes
<1>4. Header[1] = contents[1] /\ Header[3] = contents[3] /\ Header[4] = contents[4]
  BY <1>1, <1>3 DEF Header
<1>5. 1 + 2 = 3 /\ 1 + 3 = 4
  OBVIOUS
<1> QED BY <1>1, <1>4, <1>5 DEF FrameTotal, FrameLen

\* FindSubstring for the empty line gives its first place in the readable bytes.
LEMMA RequestEndIsFirst ==
  ASSUME IInv
  PROVE  \/ /\ RequestEnd = npos
            /\ \A j \in 0..readable_size_ - 4 : ~EmptyLineAt(contents, j + 1)
         \/ /\ RequestEnd \in 0..readable_size_ - 4
            /\ EmptyLineAt(contents, RequestEnd + 1)
            /\ \A j \in 0..RequestEnd - 1 : ~EmptyLineAt(contents, j + 1)
<1> DEFINE H == Hits(Terminator, readable_size_)
<1>1. /\ Len(Terminator) = 4 /\ Terminator[1] = CR /\ Terminator[2] = LF
      /\ Terminator[3] = CR /\ Terminator[4] = LF /\ Terminator # <<>>
  BY DEF Terminator
<1>2. readable_size_ \in Nat /\ 0 \in 0..capacity_+1
  BY CapacityPositive DEF IInv, TypeOK
<1>3. RequestEnd = FirstOf(H)
  <2>1. SearchLen(0) = readable_size_
    BY DEF SearchLen
  <2>2. Len(Terminator) \in Nat \ {0}
    BY <1>1
  <2>3. FindSubstring(Terminator, 0) = FirstOf(Hits(Terminator, SearchLen(0)))
    BY <1>1, <1>2, <2>2, FindSubstringIsHits
  <2> QED BY <2>1, <2>3 DEF RequestEnd
<1>4. H = {j \in 0..readable_size_ - 4 : EmptyLineAt(contents, j + 1)}
  <2>1. ASSUME NEW i \in 0..readable_size_ - 4
        PROVE  (\A j \in 0..3 : contents[i + j + 1] = Terminator[j + 1])
                 <=> EmptyLineAt(contents, i + 1)
    <3>1. \A j \in 0..3 : j = 0 \/ j = 1 \/ j = 2 \/ j = 3
      OBVIOUS
    <3>2. /\ i + 0 + 1 = i + 1 /\ i + 1 + 1 = (i + 1) + 1
          /\ i + 2 + 1 = (i + 1) + 2 /\ i + 3 + 1 = (i + 1) + 3
          /\ 0 + 1 = 1 /\ 1 + 1 = 2 /\ 2 + 1 = 3 /\ 3 + 1 = 4
      BY <1>2
    <3>3. 0 \in 0..3 /\ 1 \in 0..3 /\ 2 \in 0..3 /\ 3 \in 0..3
      OBVIOUS
    <3>4. (\A j \in 0..3 : contents[i + j + 1] = Terminator[j + 1])
            <=> /\ contents[i + 0 + 1] = Terminator[0 + 1]
                /\ contents[i + 1 + 1] = Terminator[1 + 1]
                /\ contents[i + 2 + 1] = Terminator[2 + 1]
                /\ contents[i + 3 + 1] = Terminator[3 + 1]
      BY <3>1, <3>3
    <3> QED BY <1>1, <3>2, <3>4 DEF EmptyLineAt
  <2>2. Len(Terminator) - 1 = 3
    BY <1>1
  <2> QED BY <1>1, <2>1, <2>2 DEF Hits
<1>5. H \in SUBSET Nat
  BY <1>2, <1>4
<1> HIDE DEF H
<1>6. CASE H = {}
  BY <1>3, <1>4, <1>6 DEF FirstOf
<1>7. CASE H # {}
  <2>1. RequestEnd \in H /\ \A y \in H : RequestEnd <= y
    BY <1>3, <1>5, <1>7, MinIsLeast DEF FirstOf
  <2>2. RequestEnd \in 0..readable_size_ - 4 /\ EmptyLineAt(contents, RequestEnd + 1)
    BY <1>4, <2>1
  <2>3. ASSUME NEW j \in 0..RequestEnd - 1 PROVE ~EmptyLineAt(contents, j + 1)
    <3>1. j \in 0..readable_size_ - 4 /\ ~(RequestEnd <= j)
      BY <1>2, <2>2
    <3> QED BY <1>4, <2>1, <3>1
  <2> QED BY <2>2, <2>3
<1> QED BY <1>6, <1>7

-----------------------------------------------------------------------------
\* The inductive invariant.

\* How many bytes of the stream have left the ring.
Consumed == received - readable_size_

\* The wire holds the bytes of the stream that have not been received.
WireInv ==
  /\ sent \in Seq(Message) /\ wire \in Seq(Byte)
  /\ ended \in BOOLEAN /\ pc \in {"epoll", "loop", "closed", "broken"}
  /\ received \in Nat
  /\ received + Len(wire) = Len(Stream)
  /\ \A k \in 1..Len(wire) : wire[k] = Stream[received + k]

\* The ring holds those that have been received and not consumed, and byte k of
\* the stream lies in slot k % capacity_.
ContentsInv ==
  /\ IInv
  /\ readable_size_ <= received
  /\ read_pos_ = Consumed % capacity_
  /\ \A k \in 1..readable_size_ : contents[k] = Stream[Consumed + k]

\* What was given to the parser are consumed bytes, intact unless they straddle.
Handled ==
  [from : Nat, len : Nat, block : Seq(Byte \cup Junk),
   verdict : {"known", "UNKNOWN", "Unparsable"}]

Sound(h) ==
  /\ h.len \in Len(Terminator)..capacity_ /\ h.from + h.len <= Consumed
  /\ Len(h.block) = h.len
  /\ ~Straddles(h) => \A k \in 1..h.len : h.block[k] = Stream[h.from + k]

HandledInv ==
  /\ handled \in Seq(Handled)
  /\ \A i \in DOMAIN handled : Sound(handled[i])

\* In every byte sequence that starts with the consumed bytes, the reference finds
\* what was handled and goes on where the ring starts.
StartsConsumed(bytes) ==
  Len(bytes) >= Consumed /\ \A k \in 1..Consumed : bytes[k] = Stream[k]

CutInv ==
  \A bytes \in Seq(Byte) :
    StartsConsumed(bytes) =>
      CutsOf(bytes)[1] = Places \o CutsOf(bytes)[Consumed + 1]

\* Outside the loop the ring does not start with anything complete.
LoopInv ==
  pc = "epoll" =>
    \/ readable_size_ < 4
    \/ contents[1] = Marker /\ readable_size_ < FrameLen(contents, 1)
    \/ /\ contents[1] # Marker
       /\ \A j \in 0..readable_size_ - 4 : ~EmptyLineAt(contents, j + 1)

RInv == WireInv /\ ContentsInv /\ HandledInv /\ CutInv /\ LoopInv

\* The numbers of a state.
LEMMA Counts ==
  ASSUME WireInv, ContentsInv
  PROVE  /\ Stream \in Seq(Byte) /\ Len(Stream) \in Nat /\ received \in Nat
         /\ readable_size_ \in 0..capacity_ /\ readable_size_ \in 0..received
         /\ Consumed \in Nat /\ received = Consumed + readable_size_
         /\ received <= Len(Stream) /\ capacity_ \in Nat \ {0}
         /\ Len(wire) \in Nat
<1> USE CapacityPositive
<1>1. Stream \in Seq(Byte)
  BY StreamType DEF WireInv
<1>2. Len(Stream) \in Nat
  BY <1>1
<1>3. Len(wire) \in Nat
  BY DEF WireInv
<1>4. /\ received \in Nat /\ received + Len(wire) = Len(Stream)
      /\ readable_size_ \in 0..capacity_ /\ readable_size_ <= received
  BY DEF WireInv, ContentsInv, IInv, TypeOK
<1>5. Consumed = received - readable_size_
  BY DEF Consumed
<1> QED BY <1>1, <1>2, <1>3, <1>4, <1>5

\* The places of what was handled.
LEMMA PlacesType ==
  ASSUME handled \in Seq(Handled)
  PROVE  /\ Places \in Seq(Place)
         /\ \A h \in Handled :
              handled' = Append(handled, h)
                => Places' = Places \o <<[from |-> h.from, len |-> h.len]>>
<1> DEFINE N == Len(handled)
<1>1. N \in Nat /\ DOMAIN handled = 1..N
  OBVIOUS
<1>2. ASSUME NEW i \in 1..N
      PROVE  [from |-> handled[i].from, len |-> handled[i].len] \in Place
  <2>1. handled[i] \in Handled
    BY ElementOfSeq
  <2> QED BY <2>1 DEF Handled, Place
<1>3. Places = [i \in 1..N |-> [from |-> handled[i].from, len |-> handled[i].len]]
  BY <1>1 DEF Places
<1>4. Places \in [1..N -> Place]
  BY <1>2, <1>3
<1>5. Places \in Seq(Place) /\ Len(Places) = N
  BY <1>1, <1>4
<1>6. ASSUME NEW h \in Handled, handled' = Append(handled, h)
      PROVE  Places' = Places \o <<[from |-> h.from, len |-> h.len]>>
  <2> DEFINE r == [from |-> h.from, len |-> h.len]
  <2>1. /\ handled' \in Seq(Handled) /\ Len(handled') = N + 1
        /\ DOMAIN handled' = 1..N+1 /\ handled'[N+1] = h
        /\ \A i \in 1..N : handled'[i] = handled[i]
    BY <1>6
  <2>2. Places' = [i \in 1..N+1 |->
                     [from |-> handled'[i].from, len |-> handled'[i].len]]
    BY <2>1 DEF Places
  <2>3. r \in Place
    BY DEF Handled, Place
  <2> HIDE DEF r, N
  <2>4. /\ Places \o <<r>> \in Seq(Place) /\ Len(Places \o <<r>>) = N + 1
        /\ (Places \o <<r>>)[N+1] = r
        /\ \A i \in 1..N : (Places \o <<r>>)[i] = Places[i]
    BY <1>1, <1>5, <2>3
  <2>5. ASSUME NEW i \in 1..N+1 PROVE Places'[i] = (Places \o <<r>>)[i]
    <3>1. CASE i \in 1..N
      <4>1. Places'[i] = [from |-> handled[i].from, len |-> handled[i].len]
        BY <2>1, <2>2, <3>1
      <4> QED BY <1>3, <2>4, <3>1, <4>1
    <3>2. CASE i = N + 1
      <4>1. Places'[i] = r
        BY <2>1, <2>2, <3>2 DEF r
      <4> QED BY <2>4, <3>2, <4>1
    <3>3. i \in 1..N \/ i = N + 1
      BY <1>1
    <3> QED BY <3>1, <3>2, <3>3
  <2>6. Places' \in Seq(Place) /\ Len(Places') = N + 1
    <3>1. \A i \in 1..N+1 : Places'[i] \in Place
      BY <1>1, <2>4, <2>5, ElementOfSeq
    <3>2. Places' = [i \in 1..N+1 |-> Places'[i]]
      BY <2>2
    <3>3. Places' \in [1..N+1 -> Place]
      BY <3>1, <3>2
    <3> QED BY <1>1, <3>3
  <2>7. Places' = Places \o <<r>>
    BY <2>4, <2>5, <2>6, SeqEqual
  <2> QED BY <2>7 DEF r
<1> QED BY <1>5, <1>6

\* Initially nothing has been sent.
LEMMA InitRInv == ReaderInit => RInv
<1> SUFFICES ASSUME ReaderInit PROVE RInv
  OBVIOUS
<1> USE CapacityPositive
<1>1. /\ sent = <<>> /\ wire = <<>> /\ ended = FALSE /\ received = 0
      /\ handled = <<>> /\ pc = "epoll" /\ readable_size_ = 0 /\ read_pos_ = 0
  BY DEF ReaderInit
<1>2. Stream = <<>>
  <2>1. Stream = Upto(sent)[Len(sent)]
    BY DEF Stream, Upto
  <2>2. sent \in Seq(Message) /\ Len(sent) = 0
    BY <1>1
  <2>3. Upto(sent)[0] = <<>>
    BY <2>2, SentType, UptoType
  <2> QED BY <2>1, <2>2, <2>3
<1>3. IInv
  <2>1. buffer_ \in [Slot -> Byte]
    <3>1. (CHOOSE b \in Byte : TRUE) \in Byte
      BY ByteAssumption
    <3> QED BY <3>1 DEF ReaderInit
  <2>2. Init
    BY <2>1 DEF ReaderInit, Init
  <2> QED BY <2>2, InitIInv
<1>4. WireInv
  <2>1. /\ <<>> \in Seq(Message) /\ <<>> \in Seq(Byte) /\ 0 + Len(<<>>) = Len(<<>>)
        /\ 1..Len(<<>>) = {}
    OBVIOUS
  <2> QED BY <1>1, <1>2, <2>1 DEF WireInv
<1>5. Consumed = 0 /\ 0 % capacity_ = 0
  BY <1>1, ModSmall DEF Consumed
<1>6. ContentsInv
  BY <1>1, <1>3, <1>5 DEF ContentsInv
<1>7. HandledInv
  BY <1>1 DEF HandledInv
<1>8. CutInv
  <2> SUFFICES ASSUME NEW bytes \in Seq(Byte)
               PROVE  CutsOf(bytes)[1] = Places \o CutsOf(bytes)[Consumed + 1]
    BY DEF CutInv
  <2>1. Places = <<>>
    <3>1. handled \in Seq(Handled) /\ DOMAIN handled = {}
      BY <1>1
    <3>2. Places \in Seq(Place) /\ DOMAIN Places = {}
      BY <3>1, PlacesType DEF Places
    <3> QED BY <3>2, EmptySeq
  <2>2. CutsOf(bytes)[1] \in Seq(Place)
    <3>1. 1 \in 1..Len(bytes)+1
      OBVIOUS
    <3> QED BY <3>1, CutsType
  <2>3. <<>> \o CutsOf(bytes)[1] = CutsOf(bytes)[1]
    BY <2>2
  <2> QED BY <1>5, <2>1, <2>3
<1>9. LoopInv
  BY <1>1 DEF LoopInv
<1> QED BY <1>4, <1>6, <1>7, <1>8, <1>9 DEF RInv

-----------------------------------------------------------------------------
\* When neither the ring nor what was handled changes, the stream may grow.
LEMMA StreamGrows ==
  ASSUME RInv, UNCHANGED <<ringVars, received, handled>>,
         Stream' \in Seq(Byte), Len(Stream) <= Len(Stream'),
         \A k \in 1..Len(Stream) : Stream'[k] = Stream[k]
  PROVE  ContentsInv' /\ HandledInv' /\ CutInv'
<1>1. WireInv /\ ContentsInv /\ HandledInv /\ CutInv
  BY DEF RInv
<1>2. /\ Stream \in Seq(Byte) /\ Len(Stream) \in Nat /\ received \in Nat
      /\ readable_size_ \in 0..capacity_ /\ readable_size_ \in 0..received
      /\ Consumed \in Nat /\ received = Consumed + readable_size_
      /\ received <= Len(Stream) /\ capacity_ \in Nat \ {0}
  BY <1>1, Counts
<1>3. /\ received' = received /\ handled' = handled /\ buffer_' = buffer_
      /\ read_pos_' = read_pos_ /\ write_pos_' = write_pos_
      /\ readable_size_' = readable_size_ /\ status' = status
  BY DEF ringVars, vars
<1>4. Consumed' = Consumed /\ contents' = contents /\ Places' = Places
  BY <1>3 DEF Consumed, contents, Places
<1>5. ContentsInv'
  <2>1. IInv'
    BY <1>1, <1>3 DEF ContentsInv, IInv, TypeOK, PositionsAgree
  <2>2. ASSUME NEW k \in 1..readable_size_ PROVE contents[k] = Stream'[Consumed + k]
    <3>1. Consumed + k \in 1..Len(Stream)
      BY <1>2
    <3> QED BY <1>1, <3>1 DEF ContentsInv
  <2> QED BY <1>1, <1>3, <1>4, <2>1, <2>2 DEF ContentsInv
<1>6. HandledInv'
  <2>1. ASSUME NEW i \in DOMAIN handled PROVE Sound(handled[i])'
    <3> DEFINE h == handled[i]
    <3>1. Sound(h) /\ h \in Handled
      <4>1. handled \in Seq(Handled) /\ Sound(h)
        BY <1>1 DEF HandledInv
      <4> QED BY <4>1, ElementOfSeq
    <3>2. h.from \in Nat /\ h.len \in Nat
      BY <3>1 DEF Handled
    <3> HIDE DEF h
    <3>3. \A k \in 1..h.len : h.from + k \in 1..Len(Stream)
      <4>1. h.from + h.len <= Consumed
        BY <3>1 DEF Sound
      <4> QED BY <1>2, <3>2, <4>1
    <3>4. ASSUME ~Straddles(h), NEW k \in 1..h.len
          PROVE  h.block[k] = Stream'[h.from + k]
      BY <3>1, <3>3, <3>4 DEF Sound
    <3>5. /\ h.len \in Len(Terminator)..capacity_ /\ h.from + h.len <= Consumed'
          /\ Len(h.block) = h.len
      BY <1>4, <3>1 DEF Sound
    <3>6. h' = h
      BY <1>3 DEF h
    <3>7. /\ h.len \in Len(Terminator)..capacity_ /\ h.from + h.len <= Consumed'
          /\ Len(h.block) = h.len
          /\ ~Straddles(h) => \A k \in 1..h.len : h.block[k] = Stream'[h.from + k]
      BY <3>4, <3>5
    <3>8. Sound(h)'
      BY <3>6, <3>7 DEF Sound, Straddles
    <3> QED BY <3>8 DEF h
  <2> QED BY <1>1, <1>3, <2>1 DEF HandledInv
<1>7. CutInv'
  <2> SUFFICES ASSUME NEW bytes \in Seq(Byte), StartsConsumed(bytes)'
               PROVE  CutsOf(bytes)[1] = Places \o CutsOf(bytes)[Consumed + 1]
    BY <1>4 DEF CutInv
  <2>1. Len(bytes) >= Consumed /\ \A k \in 1..Consumed : bytes[k] = Stream'[k]
    BY <1>4 DEF StartsConsumed
  <2>2. \A k \in 1..Consumed : k \in 1..Len(Stream)
    BY <1>2
  <2>3. StartsConsumed(bytes)
    BY <2>1, <2>2 DEF StartsConsumed
  <2> QED BY <1>1, <2>3 DEF CutInv
<1> QED BY <1>5, <1>6, <1>7

\* A message joins the stream and the wire.
LEMMA ClientSendsRInv ==
  ASSUME RInv, NEW m \in Message, ClientSends(m)
  PROVE  RInv'
<1>1. WireInv /\ ContentsInv /\ LoopInv
  BY DEF RInv
<1>2. /\ Stream \in Seq(Byte) /\ Len(Stream) \in Nat /\ received \in Nat
      /\ received <= Len(Stream) /\ Len(wire) \in Nat
  BY <1>1, Counts
<1>3. /\ sent \in Seq(Message) /\ wire \in Seq(Byte)
      /\ received + Len(wire) = Len(Stream)
      /\ \A k \in 1..Len(wire) : wire[k] = Stream[received + k]
  BY <1>1 DEF WireInv
<1>4. /\ sent' = Append(sent, m) /\ wire' = wire \o m /\ pc' = pc
      /\ UNCHANGED <<ringVars, received, handled>> /\ ended' = ended
      /\ received' = received
  BY DEF ClientSends
<1>5. PICK b \in Seq(Byte) : b = m
  BY ReaderAssumption
<1>6. Stream' = Stream \o b /\ wire' = wire \o b
  BY <1>3, <1>4, <1>5, StreamAppends
<1>7. /\ Stream' \in Seq(Byte) /\ Len(Stream') = Len(Stream) + Len(b)
      /\ Len(b) \in Nat
      /\ wire' \in Seq(Byte) /\ Len(wire') = Len(wire) + Len(b)
  BY <1>2, <1>3, <1>6
<1>8. \A k \in 1..Len(Stream) : Stream'[k] = Stream[k]
  BY <1>2, <1>5, <1>6
<1>9. ASSUME NEW k \in 1..Len(wire') PROVE wire'[k] = Stream'[received + k]
  <2>1. CASE k <= Len(wire)
    <3>1. k \in 1..Len(wire) /\ received + k \in 1..Len(Stream)
      BY <1>2, <1>3, <2>1
    <3>2. wire'[k] = wire[k]
      BY <1>3, <1>6, <3>1
    <3> QED BY <1>3, <1>8, <3>1, <3>2
  <2>2. CASE ~(k <= Len(wire))
    <3>1. /\ k - Len(wire) \in 1..Len(b)
          /\ (received + k) - Len(Stream) = k - Len(wire)
          /\ k > Len(wire) /\ k <= Len(wire) + Len(b)
          /\ received + k > Len(Stream) /\ received + k <= Len(Stream) + Len(b)
      <4>1. /\ Len(wire) \in Nat /\ Len(b) \in Nat /\ received \in Nat
            /\ Len(Stream) = received + Len(wire) /\ k \in 1..Len(wire) + Len(b)
        BY <1>2, <1>3, <1>7
      <4> QED BY <2>2, <4>1
    <3>2. wire'[k] = b[k - Len(wire)]
      BY <1>3, <1>6, <1>7, <3>1
    <3>3. Stream'[received + k] = b[(received + k) - Len(Stream)]
      <4>1. PICK j \in Nat : j = received + k
        BY <1>2
      <4>2. j > Len(Stream) /\ j <= Len(Stream) + Len(b)
        BY <3>1, <4>1
      <4>3. (Stream \o b)[j] = b[j - Len(Stream)]
        BY <1>2, <1>7, <4>2
      <4> QED BY <1>6, <4>1, <4>3
    <3> QED BY <3>1, <3>2, <3>3
  <2> QED BY <2>1, <2>2
<1>10. WireInv'
  <2>1. sent' \in Seq(Message)
    BY <1>3, <1>4
  <2>2. received' + Len(wire') = Len(Stream')
    <3>1. /\ Len(wire) \in Nat /\ Len(b) \in Nat /\ received \in Nat
          /\ Len(Stream) = received + Len(wire)
          /\ received' = received /\ Len(wire') = Len(wire) + Len(b)
          /\ Len(Stream') = Len(Stream) + Len(b)
      BY <1>2, <1>3, <1>4, <1>7
    <3> QED BY <3>1
  <2> QED BY <1>1, <1>4, <1>7, <1>9, <2>1, <2>2 DEF WireInv
<1>11. Len(Stream) <= Len(Stream')
  BY <1>2, <1>7
<1>12. ContentsInv' /\ HandledInv' /\ CutInv'
  BY <1>4, <1>7, <1>8, <1>11, StreamGrows
<1>13. LoopInv'
  BY <1>1, <1>4 DEF LoopInv, ringVars, vars, contents, FrameLen, EmptyLineAt
<1> QED BY <1>10, <1>12, <1>13 DEF RInv

\* The client's end does not concern the invariant.
LEMMA ClientEndsRInv ==
  ASSUME RInv, ClientEnds
  PROVE  RInv'
<1>1. WireInv /\ ContentsInv /\ LoopInv
  BY DEF RInv
<1>2. /\ sent' = sent /\ wire' = wire /\ pc' = pc /\ ended' = TRUE
      /\ UNCHANGED <<ringVars, received, handled>> /\ received' = received
  BY DEF ClientEnds
<1>3. Stream' = Stream
  BY <1>2 DEF Stream
<1>4. Stream \in Seq(Byte) /\ Len(Stream) \in Nat
  BY <1>1, Counts
<1>5. ContentsInv' /\ HandledInv' /\ CutInv'
  BY <1>2, <1>3, <1>4, StreamGrows
<1>6. WireInv'
  BY <1>1, <1>2, <1>3 DEF WireInv
<1>7. LoopInv'
  BY <1>1, <1>2 DEF LoopInv, ringVars, vars, contents, FrameLen, EmptyLineAt
<1> QED BY <1>5, <1>6, <1>7 DEF RInv

\* A step of the epoll thread that leaves all but pc alone, for the loop, for the
\* end, or for epoll with nothing complete in the ring.
LEMMA OnlyPc ==
  ASSUME RInv, UNCHANGED <<ringVars, clientVars, received, handled>>,
         pc' \in {"epoll", "loop", "closed", "broken"}, LoopInv'
  PROVE  RInv'
<1>1. WireInv /\ ContentsInv
  BY DEF RInv
<1>2. /\ sent' = sent /\ wire' = wire /\ ended' = ended
      /\ UNCHANGED <<ringVars, received, handled>> /\ received' = received
  BY DEF clientVars
<1>3. Stream' = Stream
  BY <1>2 DEF Stream
<1>4. Stream \in Seq(Byte) /\ Len(Stream) \in Nat
  BY <1>1, Counts
<1>5. ContentsInv' /\ HandledInv' /\ CutInv'
  BY <1>2, <1>3, <1>4, StreamGrows
<1>6. WireInv'
  BY <1>1, <1>2, <1>3 DEF WireInv
<1> QED BY <1>5, <1>6 DEF RInv

\* CloseConnection, at the end of the stream, on an error, on a full ring or on too
\* much data.
LEMMA ClosingRInv ==
  ASSUME RInv, RecvFails \/ RecvError \/ RequestTooLarge
  PROVE  RInv'
<1>1. pc' \in {"closed", "broken"} /\ UNCHANGED <<ringVars, clientVars, received, handled>>
  BY DEF RecvFails, RecvError, RequestTooLarge
<1>2. LoopInv'
  BY <1>1 DEF LoopInv
<1> QED BY <1>1, <1>2, OnlyPc

\* The loop ends only when nothing complete is left.
LEMMA LoopEndsRInv ==
  ASSUME RInv, LoopEnds
  PROVE  RInv'
<1>1. pc' = "epoll" /\ UNCHANGED <<ringVars, clientVars, received, handled>>
  BY DEF LoopEnds
<1>2. IInv /\ readable_size_ \in Nat
  BY CapacityPositive DEF RInv, ContentsInv, IInv, TypeOK
<1>3. contents' = contents /\ readable_size_' = readable_size_
  BY <1>1 DEF ringVars, vars, contents
<1>4. \/ readable_size_ < 4
      \/ contents[1] = Marker /\ readable_size_ < FrameLen(contents, 1)
      \/ /\ contents[1] # Marker
         /\ \A j \in 0..readable_size_ - 4 : ~EmptyLineAt(contents, j + 1)
  <2> SUFFICES ASSUME ~(readable_size_ < 4)
               PROVE  \/ /\ contents[1] = Marker
                         /\ readable_size_ < FrameLen(contents, 1)
                      \/ /\ contents[1] # Marker
                         /\ \A j \in 0..readable_size_ - 4 :
                              ~EmptyLineAt(contents, j + 1)
    OBVIOUS
  <2>1. readable_size_ >= HeaderLen /\ readable_size_ # 0
    BY <1>2 DEF HeaderLen
  <2>2. /\ Header[1] = contents[1] /\ FrameTotal = FrameLen(contents, 1)
        /\ AtFrame <=> contents[1] = Marker
    BY <1>2, <2>1, HeaderBytes DEF AtFrame
  <2>3. CASE AtFrame /\ readable_size_ < FrameTotal
    BY <2>2, <2>3
  <2>4. CASE ~AtFrame /\ RequestEnd = npos
    <3>1. npos \notin 0..readable_size_ - 4
      BY <1>2 DEF npos
    <3> QED BY <1>2, <2>2, <2>4, <3>1, RequestEndIsFirst
  <2> QED BY <2>1, <2>3, <2>4 DEF LoopEnds
<1>5. LoopInv'
  BY <1>3, <1>4 DEF LoopInv, FrameLen, EmptyLineAt
<1> QED BY <1>1, <1>5, OnlyPc

\* Recv moves bytes from the wire to the end of the ring; the stream and what has
\* left the ring are as before.
LEMMA RecvRInv ==
  ASSUME RInv, Recv
  PROVE  RInv' /\ Consumed' = Consumed
<1>1. WireInv /\ ContentsInv /\ HandledInv /\ CutInv
  BY DEF RInv
<1>2. /\ Stream \in Seq(Byte) /\ Len(Stream) \in Nat /\ received \in Nat
      /\ readable_size_ \in 0..capacity_ /\ readable_size_ \in 0..received
      /\ Consumed \in Nat /\ received = Consumed + readable_size_
      /\ received <= Len(Stream) /\ capacity_ \in Nat \ {0}
      /\ Len(wire) \in Nat
  BY <1>1, Counts
<1>3. /\ sent' = sent /\ ended' = ended /\ handled' = handled /\ pc' = "loop"
  BY DEF Recv
<1>4. PICK n \in 1..Smaller(Len(wire), ContiguousWritableSize) :
        /\ Fill(SubSeq(wire, 1, n))
        /\ wire' = SubSeq(wire, n + 1, Len(wire))
        /\ received' = received + n
  BY DEF Recv
<1>5. IInv /\ read_pos_ \in 0..capacity_-1 /\ write_pos_ \in 0..capacity_-1
  BY <1>1 DEF ContentsInv, IInv, TypeOK, Slot
<1>6. n \in 1..Len(wire) /\ n \in 1..capacity_ /\ n <= capacity_ - readable_size_
  BY <1>2, <1>5 DEF Smaller, ContiguousWritableSize, WritableSize
<1>7. PICK data : data = SubSeq(wire, 1, n)
  OBVIOUS
<1>8. wire \in Seq(Byte)
  BY <1>1 DEF WireInv
<1>9. /\ data \in Seq(Byte) /\ Len(data) = n
      /\ \A k \in 1..n : data[k] = wire[k]
  <2>1. \A k \in 1..n : wire[k] \in Byte
    BY <1>2, <1>6, <1>8, ElementOfSeq
  <2>2. \A k \in 1..n : 1 + k - 1 = k
    BY <1>6
  <2> QED BY <1>2, <1>6, <1>7, <1>8, <2>1, <2>2, SubSeqProperties
<1>10. data \in Data
  <2>1. data \in [1..n -> Byte]
    BY <1>9
  <2>2. n \in 0..capacity_+1
    BY <1>2, <1>6
  <2> QED BY <2>1, <2>2 DEF Data
<1>11. Fill(data)
  BY <1>4, <1>7
<1>12. IInv'
  BY <1>5, <1>10, <1>11, NextIInv DEF Next
<1>13. /\ contents' = contents \o data /\ read_pos_' = read_pos_
       /\ readable_size_' = readable_size_ + n
  <2>1. contents' = contents \o data
    BY <1>5, <1>10, <1>11, OperationMatches DEF Match, Fifo!Put
  <2>2. Smaller(n, WritableSize) = n
    BY <1>2, <1>6 DEF Smaller, WritableSize
  <2> QED BY <1>9, <1>11, <2>1, <2>2 DEF Fill, Produce
<1>14. Stream' = Stream
  BY <1>3 DEF Stream
<1>15. Consumed' = Consumed
  BY <1>2, <1>4, <1>6, <1>13 DEF Consumed
<1>16. /\ wire' \in Seq(Byte) /\ Len(wire') = Len(wire) - n
       /\ \A k \in 1..Len(wire) - n : wire'[k] = wire[n + k]
  <2>1. CASE n = Len(wire)
    <3>1. wire' = <<>>
      BY <1>2, <1>4, <1>6, <1>8, <2>1, SubSeqEmpty
    <3>2. Len(wire) - n = 0 /\ 1..0 = {}
      BY <1>2, <2>1
    <3> QED BY <3>1, <3>2
  <2>2. CASE n # Len(wire)
    <3>1. /\ n + 1 \in 1..Len(wire) /\ Len(wire) \in n + 1 .. Len(wire)
          /\ Len(wire) - (n + 1) + 1 = Len(wire) - n
      BY <1>2, <1>6, <2>2
    <3>2. \A k \in n + 1 .. Len(wire) : wire[k] \in Byte
      BY <1>2, <1>6, <1>8, ElementOfSeq
    <3>3. \A k \in 1..Len(wire) - n : (n + 1) + k - 1 = n + k
      BY <1>2, <1>6
    <3>4. /\ wire' \in Seq(Byte)
          /\ Len(wire') = Len(wire) - (n + 1) + 1
          /\ \A k \in 1..Len(wire) - (n + 1) + 1 : wire'[k] = wire[(n + 1) + k - 1]
      BY <1>4, <1>8, <3>1, <3>2, SubSeqProperties
    <3> QED BY <3>1, <3>3, <3>4
  <2> QED BY <2>1, <2>2
<1>17. WireInv'
  <2>1. /\ received + Len(wire) = Len(Stream) /\ sent \in Seq(Message)
        /\ \A k \in 1..Len(wire) : wire[k] = Stream[received + k]
        /\ ended \in BOOLEAN
    BY <1>1 DEF WireInv
  <2>2. received' \in Nat /\ received' + Len(wire') = Len(Stream)
    <3>1. /\ received + Len(wire) = Len(Stream) /\ received' = received + n
          /\ Len(wire') = Len(wire) - n
      BY <1>4, <1>16, <2>1
    <3> QED BY <1>2, <1>6, <3>1
  <2>3. ASSUME NEW k \in 1..Len(wire') PROVE wire'[k] = Stream[received' + k]
    <3>1. k \in 1..Len(wire) - n
      BY <1>16
    <3>2. n + k \in 1..Len(wire) /\ received + (n + k) = (received + n) + k
      BY <1>2, <1>6, <3>1
    <3>3. wire'[k] = wire[n + k]
      BY <1>16, <3>1
    <3>4. wire[n + k] = Stream[received + (n + k)]
      BY <2>1, <3>2
    <3> QED BY <1>4, <3>2, <3>3, <3>4
  <2> QED BY <1>3, <1>14, <1>16, <2>1, <2>2, <2>3 DEF WireInv
<1>18. ContentsInv'
  <2>1. /\ contents \in Seq(Byte) /\ Len(contents) = readable_size_
        /\ \A k \in 1..readable_size_ : contents[k] = Stream[Consumed + k]
        /\ read_pos_ = Consumed % capacity_
    BY <1>1, <1>5, ContentsType DEF ContentsInv, IInv
  <2>2. ASSUME NEW k \in 1..readable_size_ + n
        PROVE  (contents \o data)[k] = Stream[Consumed + k]
    <3>1. CASE k <= readable_size_
      <4>1. k \in 1..readable_size_
        BY <1>2, <3>1
      <4>2. (contents \o data)[k] = contents[k]
        BY <1>9, <2>1, <4>1
      <4> QED BY <2>1, <4>1, <4>2
    <3>2. CASE ~(k <= readable_size_)
      <4>1. PICK j \in 1..n : k = readable_size_ + j
        <5>1. k - readable_size_ \in 1..n /\ k = readable_size_ + (k - readable_size_)
          BY <1>2, <1>6, <3>2
        <5> QED BY <5>1
      <4>2. /\ k - readable_size_ = j /\ j \in 1..Len(wire)
            /\ Consumed + k = received + j
        BY <1>2, <1>6, <4>1
      <4>3. (contents \o data)[k] = data[j]
        BY <1>2, <1>9, <2>1, <3>2, <4>1, <4>2
      <4>4. data[j] = wire[j] /\ wire[j] = Stream[received + j]
        BY <1>1, <1>9, <4>2 DEF WireInv
      <4> QED BY <4>2, <4>3, <4>4
    <3> QED BY <3>1, <3>2
  <2>3. readable_size_' <= received'
    BY <1>2, <1>4, <1>6, <1>13
  <2> QED BY <1>12, <1>13, <1>14, <1>15, <2>1, <2>2, <2>3 DEF ContentsInv
<1>19. HandledInv'
  BY <1>1, <1>3, <1>14, <1>15 DEF HandledInv, Sound, Straddles
<1>20. CutInv'
  BY <1>1, <1>3, <1>14, <1>15 DEF CutInv, StartsConsumed, Places
<1>21. LoopInv'
  BY <1>3 DEF LoopInv
<1> QED BY <1>15, <1>17, <1>18, <1>19, <1>20, <1>21 DEF RInv

\* Consume takes bytes of the stream out of the ring.
LEMMA ConsumeKeeps ==
  ASSUME WireInv, ContentsInv, NEW n \in 1..readable_size_, Consume(n),
         UNCHANGED <<sent, wire, received>>
  PROVE  /\ ContentsInv' /\ Consumed' = Consumed + n
         /\ Stream' = Stream
<1>1. /\ Stream \in Seq(Byte) /\ Len(Stream) \in Nat /\ received \in Nat
      /\ readable_size_ \in 0..capacity_ /\ readable_size_ \in 0..received
      /\ Consumed \in Nat /\ received = Consumed + readable_size_
      /\ received <= Len(Stream) /\ capacity_ \in Nat \ {0}
  BY Counts
<1>2. n \in 0..capacity_+1 /\ n \in 0..capacity_ /\ n \in 0..readable_size_
  BY <1>1
<1>3. IInv /\ read_pos_ = Consumed % capacity_
      /\ \A k \in 1..readable_size_ : contents[k] = Stream[Consumed + k]
  BY DEF ContentsInv
<1>4. IInv'
  BY <1>2, <1>3, NextIInv DEF Next
<1>5. /\ read_pos_' = (read_pos_ + n) % capacity_
      /\ readable_size_' = readable_size_ - n
      /\ buffer_' = buffer_
  <2>1. Smaller(n, readable_size_) = n
    BY <1>1 DEF Smaller
  <2> QED BY <2>1 DEF Consume
<1>6. Stream' = Stream
  BY DEF Stream
<1>7. Consumed' = Consumed + n
  BY <1>1, <1>5 DEF Consumed
<1>8. read_pos_' = Consumed' % capacity_
  <2>1. (Consumed + n) % capacity_ = ((Consumed % capacity_) + n) % capacity_
    BY <1>1, <1>2, RemainderOfSum
  <2> QED BY <1>3, <1>5, <1>7, <2>1
<1>9. contents' = SubSeq(contents, n + 1, readable_size_)
  BY <1>2, <1>3, <1>5, Dropped
<1>10. ASSUME NEW k \in 1..readable_size_ - n
       PROVE  contents'[k] = Stream[(Consumed + n) + k]
  <2>1. contents \in Seq(Byte) /\ Len(contents) = readable_size_
    BY <1>3, ContentsType DEF IInv
  <2>2. /\ n + 1 \in 1..readable_size_ /\ readable_size_ \in n + 1 .. readable_size_
        /\ k \in 1..readable_size_ - (n + 1) + 1
    BY <1>1
  <2>3. /\ (n + 1) + k - 1 = n + k /\ n + k \in 1..readable_size_
        /\ Consumed + (n + k) = (Consumed + n) + k
    BY <1>1
  <2>4. \A j \in n + 1 .. readable_size_ : contents[j] \in Byte
    BY <1>1, <2>1, ElementOfSeq
  <2>5. contents'[k] = contents[(n + 1) + k - 1]
    BY <1>9, <2>1, <2>2, <2>4, SubSeqProperties
  <2> QED BY <1>3, <2>3, <2>5
<1>11. readable_size_' <= received'
  BY <1>1, <1>5
<1>12. ContentsInv'
  BY <1>4, <1>5, <1>6, <1>7, <1>8, <1>10, <1>11 DEF ContentsInv
<1> QED BY <1>6, <1>7, <1>12

\* Consuming also leaves the wire and what was handled before as they should be.
LEMMA ConsumeFrame ==
  ASSUME WireInv, ContentsInv, HandledInv, NEW n \in 1..readable_size_, Consume(n),
         UNCHANGED <<pc, clientVars, received>>
  PROVE  /\ WireInv'
         /\ \A i \in DOMAIN handled :
              /\ handled[i] \in Handled
              /\ handled[i].len \in Len(Terminator)..capacity_
              /\ handled[i].from + handled[i].len <= Consumed'
              /\ Len(handled[i].block) = handled[i].len
              /\ ~Straddles(handled[i]) =>
                   \A k \in 1..handled[i].len :
                     handled[i].block[k] = Stream'[handled[i].from + k]
<1>1. Consumed \in Nat
  BY Counts
<1>2. /\ UNCHANGED <<sent, wire, received>> /\ pc' = pc /\ ended' = ended
  BY DEF clientVars
<1>3. Consumed' = Consumed + n /\ Stream' = Stream
  BY <1>2, ConsumeKeeps
<1>4. WireInv'
  BY <1>2, <1>3 DEF WireInv
<1>5. ASSUME NEW h \in Handled, Sound(h)
      PROVE  h.from + h.len <= Consumed'
  <2>1. h.from \in Nat /\ h.len \in Nat /\ h.from + h.len <= Consumed
    BY <1>5 DEF Sound, Handled
  <2>2. n \in Nat
    BY Counts
  <2> QED BY <1>1, <1>3, <2>1, <2>2
<1>6. \A i \in DOMAIN handled : handled[i] \in Handled /\ Sound(handled[i])
  BY ElementOfSeq DEF HandledInv
<1>7. ASSUME NEW i \in DOMAIN handled
      PROVE  /\ handled[i] \in Handled
             /\ handled[i].len \in Len(Terminator)..capacity_
             /\ handled[i].from + handled[i].len <= Consumed'
             /\ Len(handled[i].block) = handled[i].len
             /\ ~Straddles(handled[i]) =>
                  \A k \in 1..handled[i].len :
                    handled[i].block[k] = Stream'[handled[i].from + k]
  BY <1>3, <1>5, <1>6 DEF Sound
<1> QED BY <1>4, <1>7

\* A byte sequence that starts with n more bytes than were consumed shows at the
\* place of the ring what the ring shows.
LEMMA SameBytes ==
  ASSUME WireInv, ContentsInv, NEW n \in 0..readable_size_,
         NEW bytes \in Seq(Byte), Len(bytes) >= Consumed + n,
         \A k \in 1..Consumed + n : bytes[k] = Stream[k]
  PROVE  /\ StartsConsumed(bytes)
         /\ \A k \in 1..n : bytes[Consumed + k] = contents[k]
<1>1. /\ Consumed \in Nat /\ readable_size_ \in Nat /\ n \in Nat
      /\ Len(bytes) \in Nat
  BY Counts
<1>2. StartsConsumed(bytes)
  <2>1. Len(bytes) >= Consumed /\ \A k \in 1..Consumed : k \in 1..Consumed + n
    BY <1>1
  <2> QED BY <2>1 DEF StartsConsumed
<1>3. ASSUME NEW k \in 1..n PROVE bytes[Consumed + k] = contents[k]
  <2>1. Consumed + k \in 1..Consumed + n /\ k \in 1..readable_size_
    BY <1>1
  <2> QED BY <2>1 DEF ContentsInv
<1> QED BY <1>2, <1>3

\* A frame is passed over, by the loop and by the reference.
LEMMA SkipFrameRInv ==
  ASSUME RInv, SkipFrame
  PROVE  RInv'
<1>1. WireInv /\ ContentsInv /\ HandledInv /\ CutInv /\ IInv
  BY DEF RInv, ContentsInv
<1>2. /\ pc = "loop" /\ pc' = pc /\ handled' = handled
      /\ UNCHANGED <<pc, clientVars, received>>
      /\ readable_size_ >= HeaderLen /\ Header[1] = Marker
      /\ readable_size_ >= FrameTotal /\ Consume(FrameTotal)
  BY DEF SkipFrame, AtFrame
<1>3. /\ contents[1] = Marker /\ FrameTotal = FrameLen(contents, 1)
  BY <1>1, <1>2, HeaderBytes
<1>4. Consumed \in Nat /\ readable_size_ \in Nat
  BY <1>1, Counts
<1>5. PICK n \in 4..readable_size_ : n = FrameTotal
  <2>1. contents \in Seq(Byte) /\ Len(contents) = readable_size_
    BY <1>1, ContentsType DEF IInv
  <2>2. 3 \in 1..readable_size_ /\ 4 \in 1..readable_size_
    BY <1>2, <1>4 DEF HeaderLen
  <2>3. contents[3] \in Byte /\ contents[4] \in Byte
    BY <2>1, <2>2, ElementOfSeq, SMTT(30)
  <2>4. PICK a \in 0..255, b \in 0..255 : a = contents[3] /\ b = contents[4]
    BY <2>3, ReaderAssumption, ZenonT(30)
  <2>5. 1 + 2 = 3 /\ 1 + 3 = 4
    OBVIOUS
  <2>6. FrameTotal = 4 + 256 * a + b
    BY <1>3, <2>4, <2>5 DEF FrameLen
  <2>7. 4 + 256 * a + b \in 4..readable_size_
    BY <1>2, <1>4, <2>6
  <2> QED BY <2>6, <2>7
<1>6. n \in 1..readable_size_ /\ Consume(n)
  BY <1>2, <1>4, <1>5
<1>7. UNCHANGED <<sent, wire, received>>
  BY <1>2 DEF clientVars
<1>8. ContentsInv' /\ Consumed' = Consumed + n /\ Stream' = Stream
  BY <1>1, <1>6, <1>7, ConsumeKeeps
<1>9. WireInv' /\ HandledInv'
  <2>1. /\ WireInv'
        /\ \A i \in DOMAIN handled :
              /\ handled[i] \in Handled
              /\ handled[i].len \in Len(Terminator)..capacity_
              /\ handled[i].from + handled[i].len <= Consumed'
              /\ Len(handled[i].block) = handled[i].len
              /\ ~Straddles(handled[i]) =>
                   \A k \in 1..handled[i].len :
                     handled[i].block[k] = Stream'[handled[i].from + k]
    BY <1>1, <1>2, <1>6, ConsumeFrame
  <2> QED BY <1>1, <1>2, <2>1 DEF HandledInv, Sound, Straddles
<1>10. CutInv'
  <2> SUFFICES ASSUME NEW bytes \in Seq(Byte), StartsConsumed(bytes)'
               PROVE  CutsOf(bytes)[1] = Places \o CutsOf(bytes)[(Consumed + n) + 1]
    BY <1>2, <1>8 DEF CutInv, Places
  <2>1. /\ Len(bytes) >= Consumed + n
        /\ \A k \in 1..Consumed + n : bytes[k] = Stream[k]
    BY <1>8 DEF StartsConsumed
  <2>2. n \in 0..readable_size_ /\ Len(bytes) \in Nat
    BY <1>4
  <2>3. /\ StartsConsumed(bytes)
        /\ \A k \in 1..n : bytes[Consumed + k] = contents[k]
    BY <1>1, <2>1, <2>2, SameBytes
  <2>4. CutsOf(bytes)[1] = Places \o CutsOf(bytes)[Consumed + 1]
    BY <1>1, <2>3 DEF CutInv
  <2>5. PICK i \in Nat \ {0} : i = Consumed + 1
    BY <1>4
  <2>6. /\ i + 3 <= Len(bytes) /\ i + n <= Len(bytes) + 1 /\ n \in Nat
    BY <1>4, <2>1, <2>2, <2>5
  <2>7. bytes[i] = Marker /\ n = FrameLen(bytes, i)
    <3>1. 1 \in 1..n /\ 3 \in 1..n /\ 4 \in 1..n
      BY <1>4
    <3>2. Consumed + 3 = i + 2 /\ Consumed + 4 = i + 3
      BY <1>4, <2>5
    <3>3. bytes[i] = contents[1] /\ bytes[i+2] = contents[3] /\ bytes[i+3] = contents[4]
      BY <2>3, <2>5, <3>1, <3>2
    <3>4. 1 + 2 = 3 /\ 1 + 3 = 4
      OBVIOUS
    <3> QED BY <1>3, <1>5, <3>3, <3>4 DEF FrameLen
  <2>8. CutsOf(bytes)[i] = CutsOf(bytes)[i + n]
    BY <2>6, <2>7, ReferenceSkips
  <2>9. i + n = (Consumed + n) + 1
    BY <1>4, <2>5
  <2> QED BY <2>4, <2>5, <2>8, <2>9
<1>11. LoopInv'
  BY <1>2 DEF LoopInv
<1> QED BY <1>8, <1>9, <1>10, <1>11 DEF RInv

\* The block the parser is given: as long as the request, and the bytes of the
\* stream if it lies in one piece.
LEMMA BlockIs ==
  ASSUME WireInv, ContentsInv, NEW n \in 1..readable_size_, NEW junk \in Junk
  PROVE  /\ BlockAt(n, junk) \in Seq(Byte \cup Junk)
         /\ Len(BlockAt(n, junk)) = n
         /\ read_pos_ + n <= capacity_ =>
              \A k \in 1..n : BlockAt(n, junk)[k] = Stream[Consumed + k]
<1> DEFINE inside == Smaller(n, capacity_ - read_pos_)
           head == Segment(read_pos_, inside)
           tail == [i \in 1..n - inside |-> junk]
<1>1. /\ readable_size_ \in 0..capacity_ /\ capacity_ \in Nat \ {0}
  BY Counts
<1>2. IInv /\ TypeOK /\ read_pos_ \in 0..capacity_-1
  BY DEF ContentsInv, IInv, TypeOK, Slot
<1>3. BlockAt(n, junk) = head \o tail
  BY DEF BlockAt
<1>4. /\ inside \in 0..n /\ inside <= capacity_ - read_pos_
      /\ (read_pos_ + n <= capacity_ => inside = n)
  BY <1>1, <1>2 DEF Smaller
<1> HIDE DEF inside
<1>5. /\ head \in Seq(Byte) /\ Len(head) = inside
      /\ \A i \in 1..inside : head[i] = buffer_[read_pos_ + i - 1]
  <2>1. read_pos_ \in Nat /\ inside \in Nat /\ read_pos_ + inside <= capacity_
    BY <1>1, <1>2, <1>4
  <2> QED BY <1>2, <2>1, SegmentType
<1>6. head \in Seq(Byte \cup Junk)
  <2>1. \A i \in 1..inside : head[i] \in Byte \cup Junk
    BY <1>5, ElementOfSeq
  <2>2. inside \in Nat /\ head = [i \in 1..inside |-> head[i]]
    BY <1>1, <1>4, <1>5
  <2> HIDE DEF head
  <2> QED BY <2>1, <2>2
<1>7. n - inside \in Nat
  BY <1>1, <1>4
<1>8. tail \in Seq(Byte \cup Junk) /\ Len(tail) = n - inside
  BY <1>7
<1> HIDE DEF head, tail
<1>9. /\ head \o tail \in Seq(Byte \cup Junk) /\ Len(head \o tail) = n
  <2>1. head \o tail \in Seq(Byte \cup Junk) /\ Len(head \o tail) = Len(head) + Len(tail)
    BY <1>6, <1>8, ConcatProperties
  <2>2. Len(head) + Len(tail) = n
    BY <1>1, <1>4, <1>5, <1>8
  <2> QED BY <2>1, <2>2
<1>10. ASSUME read_pos_ + n <= capacity_, NEW k \in 1..n
       PROVE  (head \o tail)[k] = Stream[Consumed + k]
  <2>1. k \in 1..inside /\ inside = n /\ k \in 1..readable_size_
    BY <1>1, <1>4, <1>10
  <2>2. (head \o tail)[k] = head[k]
    BY <1>5, <1>6, <1>8, <2>1
  <2>3. contents[k] = buffer_[ReadSlot(k)]
    BY <2>1 DEF contents, ReadSlot
  <2>4. ReadSlot(k) = IF read_pos_ + k - 1 < capacity_ THEN read_pos_ + k - 1
                      ELSE read_pos_ + k - 1 - capacity_
    BY <1>2, <2>1, SlotValues
  <2>5. read_pos_ + k - 1 < capacity_
    BY <1>1, <1>2, <1>10
  <2>6. contents[k] = Stream[Consumed + k]
    BY <2>1 DEF ContentsInv
  <2> QED BY <1>5, <2>1, <2>2, <2>3, <2>4, <2>5, <2>6
<1> QED BY <1>3, <1>9, <1>10

\* A request is handled, by the loop and by the reference.
LEMMA HandleRequestRInv ==
  ASSUME RInv, HandleRequest
  PROVE  RInv'
<1>1. WireInv /\ ContentsInv /\ HandledInv /\ CutInv /\ IInv
  BY DEF RInv, ContentsInv
<1>2. /\ pc = "loop" /\ pc' = pc /\ UNCHANGED <<pc, clientVars, received>>
      /\ ~AtFrame /\ RequestEnd # npos /\ Consume(RequestLen)
  BY DEF HandleRequest
<1>3. PICK junk \in Junk :
        handled' = Append(handled,
          [from |-> received - readable_size_, len |-> RequestLen,
           block |-> BlockAt(RequestLen, junk),
           verdict |-> Parse(BlockAt(RequestLen, junk), Methods,
                             kMaxRtspRequestDataLen)])
  BY DEF HandleRequest
<1>4. /\ Consumed \in Nat /\ readable_size_ \in 0..capacity_
      /\ capacity_ \in Nat \ {0} /\ readable_size_ \in Nat
  BY <1>1, Counts
<1>5. PICK e \in 0..readable_size_ - 4 :
        /\ e = RequestEnd /\ EmptyLineAt(contents, e + 1)
        /\ \A j \in 0..e-1 : ~EmptyLineAt(contents, j + 1)
  BY <1>1, <1>2, RequestEndIsFirst
<1>6. PICK n \in 4..readable_size_ : n = e + 4 /\ n = RequestLen
  <2>1. Len(Terminator) = 4
    BY DEF Terminator
  <2>2. e + 4 \in 4..readable_size_
    BY <1>4
  <2> QED BY <1>5, <2>1, <2>2 DEF RequestLen
<1>7. n \in 1..readable_size_ /\ Consume(n) /\ n \in 4..capacity_
  BY <1>2, <1>4, <1>6
<1>8. UNCHANGED <<sent, wire, received>>
  BY <1>2 DEF clientVars
<1>9. ContentsInv' /\ Consumed' = Consumed + n /\ Stream' = Stream
  BY <1>1, <1>7, <1>8, ConsumeKeeps
<1>10. PICK h : h = [from |-> Consumed, len |-> n, block |-> BlockAt(n, junk),
                     verdict |-> Parse(BlockAt(n, junk), Methods,
                                       kMaxRtspRequestDataLen)]
  OBVIOUS
<1>11. handled' = Append(handled, h)
  BY <1>3, <1>6, <1>10 DEF Consumed
<1>12. /\ h.block \in Seq(Byte \cup Junk) /\ Len(h.block) = n
       /\ read_pos_ + n <= capacity_ =>
            \A k \in 1..n : h.block[k] = Stream[Consumed + k]
       /\ h.from = Consumed /\ h.len = n
  <2>1. h.block = BlockAt(n, junk) /\ h.from = Consumed /\ h.len = n
    BY <1>10
  <2> QED BY <1>1, <1>7, <2>1, BlockIs
<1>13. h \in Handled
  <2>1. Parse(BlockAt(n, junk), Methods, kMaxRtspRequestDataLen)
          \in {"known", "UNKNOWN", "Unparsable"}
    BY DEF Parse
  <2>2. BlockAt(n, junk) \in Seq(Byte \cup Junk) /\ n \in Nat
    BY <1>4, <1>10, <1>12
  <2> QED BY <1>4, <1>10, <2>1, <2>2 DEF Handled
<1>14. WireInv' /\ HandledInv'
  <2>1. /\ WireInv'
        /\ \A i \in DOMAIN handled :
              /\ handled[i] \in Handled
              /\ handled[i].len \in Len(Terminator)..capacity_
              /\ handled[i].from + handled[i].len <= Consumed'
              /\ Len(handled[i].block) = handled[i].len
              /\ ~Straddles(handled[i]) =>
                   \A k \in 1..handled[i].len :
                     handled[i].block[k] = Stream'[handled[i].from + k]
    BY <1>1, <1>2, <1>7, ConsumeFrame
  <2>2. ASSUME ~Straddles(h) PROVE read_pos_ + n <= capacity_
    <3>1. PICK m \in Nat : m = n - 1
      BY <1>4, <1>7
    <3>2. Consumed + n - 1 = Consumed + m
      BY <1>4, <1>7, <3>1
    <3>3. Consumed \div capacity_ = (Consumed + m) \div capacity_
      BY <1>12, <2>2, <3>2 DEF Straddles
    <3>4. (Consumed % capacity_) + m < capacity_
      BY <1>4, <3>3, SameQuotient
    <3>5. read_pos_ = Consumed % capacity_ /\ read_pos_ \in Nat
      BY <1>1, <1>4 DEF ContentsInv, IInv, TypeOK, Slot
    <3>6. read_pos_ + m < capacity_
      BY <3>4, <3>5
    <3> QED BY <1>4, <1>7, <3>1, <3>5, <3>6
  <2>3. /\ h.len \in Len(Terminator)..capacity_ /\ h.from + h.len <= Consumed'
        /\ Len(h.block) = h.len
        /\ ~Straddles(h) => \A k \in 1..h.len : h.block[k] = Stream'[h.from + k]
    <3>1. Len(Terminator) = 4
      BY DEF Terminator
    <3>2. Consumed + n <= Consumed'
      BY <1>4, <1>7, <1>9
    <3> QED BY <1>7, <1>9, <1>12, <2>2, <3>1, <3>2
  <2>4. handled \in Seq(Handled)
    BY <1>1 DEF HandledInv
  <2>5. PICK N \in Nat : N = Len(handled)
    BY <2>4
  <2>6. /\ handled' \in Seq(Handled) /\ DOMAIN handled' = 1..N+1
        /\ handled'[N+1] = h /\ DOMAIN handled = 1..N
        /\ \A i \in 1..N : handled'[i] = handled[i]
    BY <1>11, <1>13, <2>4, <2>5
  <2>7. ASSUME NEW i \in DOMAIN handled'
        PROVE  /\ handled'[i].len \in Len(Terminator)..capacity_
               /\ handled'[i].from + handled'[i].len <= Consumed'
               /\ Len(handled'[i].block) = handled'[i].len
               /\ ~Straddles(handled'[i]) =>
                    \A k \in 1..handled'[i].len :
                      handled'[i].block[k] = Stream'[handled'[i].from + k]
    <3>1. i \in 1..N \/ i = N + 1
      BY <2>6
    <3>2. CASE i \in 1..N
      <4>1. handled'[i] = handled[i] /\ i \in DOMAIN handled
        BY <2>6, <3>2
      <4> QED BY <2>1, <4>1
    <3>3. CASE i = N + 1
      <4>1. handled'[i] = h
        BY <2>6, <3>3
      <4> QED BY <2>3, <4>1
    <3> QED BY <3>1, <3>2, <3>3
  <2> QED BY <2>1, <2>6, <2>7 DEF HandledInv, Sound, Straddles
<1>15. CutInv'
  <2> DEFINE r == [from |-> Consumed, len |-> n]
  <2>1. /\ Places \in Seq(Place) /\ Places' = Places \o <<r>> /\ r \in Place
    <3>1. handled \in Seq(Handled)
      BY <1>1 DEF HandledInv
    <3>2. /\ Places \in Seq(Place)
          /\ Places' = Places \o <<[from |-> h.from, len |-> h.len]>>
      BY <1>11, <1>13, <3>1, PlacesType
    <3>3. r \in Place
      BY <1>4, <1>7 DEF Place
    <3> QED BY <1>12, <3>2, <3>3
  <2> SUFFICES ASSUME NEW bytes \in Seq(Byte), StartsConsumed(bytes)'
               PROVE  CutsOf(bytes)[1] = (Places \o <<r>>)
                                           \o CutsOf(bytes)[(Consumed + n) + 1]
    BY <1>9, <2>1 DEF CutInv
  <2>2. /\ Len(bytes) >= Consumed + n
        /\ \A k \in 1..Consumed + n : bytes[k] = Stream[k]
    BY <1>9 DEF StartsConsumed
  <2>3. n \in 0..readable_size_ /\ Len(bytes) \in Nat
    BY <1>4, <1>7
  <2>4. /\ StartsConsumed(bytes)
        /\ \A k \in 1..n : bytes[Consumed + k] = contents[k]
    BY <1>1, <2>2, <2>3, SameBytes
  <2>5. CutsOf(bytes)[1] = Places \o CutsOf(bytes)[Consumed + 1]
    BY <1>1, <2>4 DEF CutInv
  <2>6. PICK i \in Nat \ {0} : i = Consumed + 1
    BY <1>4
  <2>7. /\ i + e + 3 <= Len(bytes) /\ e \in Nat
    BY <1>4, <1>6, <2>2, <2>3, <2>6
  <2>8. bytes[i] # Marker
    <3>1. readable_size_ >= HeaderLen /\ 1 \in 1..n
      BY <1>4, <1>7 DEF HeaderLen
    <3>2. contents[1] # Marker
      BY <1>1, <1>2, <3>1, HeaderBytes DEF AtFrame
    <3> QED BY <2>4, <2>6, <3>1, <3>2
  <2>9. ASSUME NEW d \in 0..e
        PROVE  EmptyLineAt(bytes, i + d) <=> EmptyLineAt(contents, d + 1)
    <3>1. /\ d + 1 \in 1..n /\ (d + 1) + 1 \in 1..n /\ (d + 1) + 2 \in 1..n
          /\ (d + 1) + 3 \in 1..n
      BY <1>4, <1>6
    <3>2. /\ Consumed + (d + 1) = i + d /\ Consumed + ((d + 1) + 1) = (i + d) + 1
          /\ Consumed + ((d + 1) + 2) = (i + d) + 2
          /\ Consumed + ((d + 1) + 3) = (i + d) + 3
      BY <1>4, <2>6
    <3>3. /\ bytes[Consumed + (d + 1)] = contents[d + 1]
          /\ bytes[Consumed + ((d + 1) + 1)] = contents[(d + 1) + 1]
          /\ bytes[Consumed + ((d + 1) + 2)] = contents[(d + 1) + 2]
          /\ bytes[Consumed + ((d + 1) + 3)] = contents[(d + 1) + 3]
      BY <2>4, <3>1
    <3> QED BY <3>2, <3>3 DEF EmptyLineAt
  <2>10. EmptyLineAt(bytes, i + e)
    <3>1. e \in 0..e
      BY <2>7
    <3> QED BY <1>5, <2>9, <3>1
  <2>11. \A d \in 0..e-1 : ~EmptyLineAt(bytes, i + d)
    <3>1. \A d \in 0..e-1 : d \in 0..e
      BY <2>7
    <3> QED BY <1>5, <2>9, <3>1
  <2>12. CutsOf(bytes)[i] = <<[from |-> i - 1, len |-> e + 4]>>
                              \o CutsOf(bytes)[i + e + 4]
    BY <2>7, <2>8, <2>10, <2>11, ReferenceFinds
  <2>13. i - 1 = Consumed /\ e + 4 = n /\ i + e + 4 = (Consumed + n) + 1
    BY <1>4, <1>6, <2>6, <2>7
  <2>14. CutsOf(bytes)[(Consumed + n) + 1] \in Seq(Place)
    <3>1. (Consumed + n) + 1 \in 1..Len(bytes)+1
      BY <1>4, <2>2, <2>3
    <3> QED BY <3>1, CutsType
  <2>15. CutsOf(bytes)[Consumed + 1] = <<r>> \o CutsOf(bytes)[(Consumed + n) + 1]
    BY <2>6, <2>12, <2>13
  <2>16. PICK rest \in Seq(Place) : rest = CutsOf(bytes)[(Consumed + n) + 1]
    BY <2>14
  <2> HIDE DEF r
  <2>17. (Places \o <<r>>) \o rest = Places \o (<<r>> \o rest)
    <3>1. <<r>> \in Seq(Place)
      BY <2>1
    <3> QED BY <2>1, <3>1, ConcatAssociative
  <2> QED BY <2>5, <2>15, <2>16, <2>17
<1>16. LoopInv'
  BY <1>2 DEF LoopInv
<1> QED BY <1>9, <1>14, <1>15, <1>16 DEF RInv

\* Every step keeps RInv.
LEMMA NextRInv == RInv /\ [ReaderNext]_readerVars => RInv'
<1> SUFFICES ASSUME RInv, [ReaderNext]_readerVars PROVE RInv'
  OBVIOUS
<1>1. CASE UNCHANGED readerVars
  <2>1. pc' = pc /\ UNCHANGED <<ringVars, clientVars, received, handled>>
    BY <1>1 DEF readerVars
  <2>2. LoopInv'
    BY <2>1 DEF RInv, LoopInv, ringVars, vars, contents, FrameLen, EmptyLineAt
  <2>3. pc' \in {"epoll", "loop", "closed", "broken"}
    BY <2>1 DEF RInv, WireInv
  <2> QED BY <2>1, <2>2, <2>3, OnlyPc
<1>2. CASE ReaderNext
  BY <1>2, RecvRInv, ClosingRInv, SkipFrameRInv, HandleRequestRInv, LoopEndsRInv,
     ClientEndsRInv, ClientSendsRInv DEF ReaderNext, ReaderStep
<1> QED BY <1>1, <1>2

-----------------------------------------------------------------------------
\* The inductive invariant holds in every state of every run of the reader.
THEOREM ReaderInvariant == ReaderSpec => []RInv
BY InitRInv, NextRInv, PTL DEF ReaderSpec

\* The reader's state keeps its type: every byte the client sent is on the wire,
\* in the ring or consumed, and every block given to the parser is between an
\* empty line and the capacity long (rtsp_server.cc:416-468).
THEOREM ReaderTypeCorrect == ReaderSpec => []ReaderTypeOK
<1>1. RInv => ReaderTypeOK
  <2> SUFFICES ASSUME RInv PROVE ReaderTypeOK
    OBVIOUS
  <2>1. WireInv /\ ContentsInv /\ HandledInv
    BY DEF RInv
  <2>2. received = Len(Stream) - Len(wire) /\ readable_size_ <= received
    <3>1. /\ received \in Nat /\ Len(wire) \in Nat /\ readable_size_ <= received
          /\ received + Len(wire) = Len(Stream)
      BY <2>1, Counts DEF WireInv, ContentsInv
    <3> QED BY <3>1
  <2>3. ASSUME NEW i \in DOMAIN handled
        PROVE  /\ handled[i].len \in Len(Terminator)..capacity_
               /\ handled[i].len = Len(handled[i].block)
               /\ handled[i].verdict \in {"known", "UNKNOWN", "Unparsable"}
    <3>1. handled[i] \in Handled /\ Sound(handled[i])
      BY <2>1, ElementOfSeq DEF HandledInv
    <3> QED BY <3>1 DEF Handled, Sound
  <2> QED BY <2>1, <2>2, <2>3 DEF Closed, ReaderTypeOK, WireInv, ContentsInv, IInv
<1> QED BY <1>1, ReaderInvariant, PTL

\* What is taken for a request depends on the bytes received alone, for every
\* capacity, every limit and every set of messages: not on how TCP divided the
\* bytes nor on where they lie in the ring.  And nothing complete is left behind
\* when the epoll thread waits (rtsp_server.cc:416-468, connection.cc:25-61).
THEOREM ReaderRequestsByBytesAlone == ReaderSpec => []RequestsByBytesAlone
<1>1. RInv => RequestsByBytesAlone
  <2> SUFFICES ASSUME RInv, pc = "epoll"
               PROVE  Places = Cuts(SubSeq(Stream, 1, received))
    BY DEF RequestsByBytesAlone
  <2>1. WireInv /\ ContentsInv /\ HandledInv /\ CutInv /\ LoopInv
    BY DEF RInv
  <2>2. /\ Stream \in Seq(Byte) /\ Len(Stream) \in Nat /\ received \in Nat
        /\ readable_size_ \in 0..received /\ Consumed \in Nat
        /\ received = Consumed + readable_size_ /\ received <= Len(Stream)
    BY <2>1, Counts
  <2>3. PICK bytes : bytes = SubSeq(Stream, 1, received)
    OBVIOUS
  <2>4. /\ bytes \in Seq(Byte) /\ Len(bytes) = received
        /\ \A k \in 1..received : bytes[k] = Stream[k]
    <3>1. CASE received = 0
      <4>1. bytes = <<>>
        BY <2>2, <2>3, <3>1, SubSeqEmpty
      <4> QED BY <3>1, <4>1
    <3>2. CASE received # 0
      <4>1. received \in 1..Len(Stream) /\ 1 \in 1..Len(Stream)
        BY <2>2, <3>2
      <4>2. \A k \in 1..received : Stream[k] \in Byte
        BY <2>2, <4>1, ElementOfSeq
      <4>3. (\A k \in 1..received : 1 + k - 1 = k) /\ received - 1 + 1 = received
        BY <2>2
      <4> QED BY <2>2, <2>3, <4>1, <4>2, <4>3, SubSeqProperties
    <3> QED BY <3>1, <3>2
  <2>5. /\ StartsConsumed(bytes)
        /\ \A k \in 1..readable_size_ : bytes[Consumed + k] = contents[k]
    <3>1. readable_size_ \in 0..readable_size_ /\ Len(bytes) >= Consumed + readable_size_
      BY <2>2, <2>4
    <3> QED BY <2>1, <2>2, <2>4, <3>1, SameBytes
  <2>6. CutsOf(bytes)[1] = Places \o CutsOf(bytes)[Consumed + 1]
    BY <2>1, <2>4, <2>5 DEF CutInv
  <2>7. PICK i \in 1..Len(bytes)+1 : i = Consumed + 1
    <3>1. Consumed + 1 \in 1..Len(bytes)+1
      BY <2>2, <2>4
    <3> QED BY <3>1
  <2>8. CutsOf(bytes)[i] = <<>>
    <3>1. CASE readable_size_ < 4
      <4>1. Len(bytes) - i < 3
        BY <2>2, <2>4, <2>7, <3>1
      <4> QED BY <2>4, <4>1, ReferenceStops
    <3>2. CASE ~(readable_size_ < 4)
      <4>1. /\ 1 \in 1..readable_size_ /\ 3 \in 1..readable_size_
            /\ 4 \in 1..readable_size_
            /\ Consumed + 3 = i + 2 /\ Consumed + 4 = i + 3
        BY <2>2, <2>7, <3>2
      <4>2. /\ bytes[i] = contents[1] /\ bytes[i+2] = contents[3]
            /\ bytes[i+3] = contents[4]
        BY <2>5, <2>7, <4>1
      <4>3. CASE contents[1] = Marker /\ readable_size_ < FrameLen(contents, 1)
        <5>1. FrameLen(contents, 1) = FrameLen(bytes, i)
          <6>1. 1 + 2 = 3 /\ 1 + 3 = 4
            OBVIOUS
          <6> QED BY <4>2, <6>1 DEF FrameLen
        <5>2. FrameLen(bytes, i) \in Nat
          <6>1. i + 2 \in 1..Len(bytes) /\ i + 3 \in 1..Len(bytes)
            BY <2>2, <2>4, <2>7, <3>2
          <6>2. bytes[i+2] \in Byte /\ bytes[i+3] \in Byte
            BY <2>4, <6>1, ElementOfSeq, SMTT(30)
          <6>3. PICK a \in 0..255, b \in 0..255 : a = bytes[i+2] /\ b = bytes[i+3]
            BY <6>2, ReaderAssumption, ZenonT(30)
          <6>4. FrameLen(bytes, i) = 4 + 256 * a + b
            BY <6>3 DEF FrameLen
          <6> QED BY <6>4
        <5>3. i + FrameLen(bytes, i) > Len(bytes) + 1
          BY <2>2, <2>4, <2>7, <4>3, <5>1, <5>2
        <5> QED BY <2>4, <4>2, <4>3, <5>3, ReferenceStops
      <4>4. CASE /\ contents[1] # Marker
                 /\ \A j \in 0..readable_size_ - 4 : ~EmptyLineAt(contents, j + 1)
        <5>1. ASSUME NEW j \in i..Len(bytes)-3 PROVE ~EmptyLineAt(bytes, j)
          <6>1. PICK d \in 0..readable_size_ - 4 : j = Consumed + (d + 1)
            <7>1. /\ j - i \in 0..readable_size_ - 4
                  /\ j = Consumed + ((j - i) + 1)
              BY <2>2, <2>4, <2>7
            <7> QED BY <7>1
          <6>2. /\ d + 1 \in 1..readable_size_ /\ (d + 1) + 1 \in 1..readable_size_
                /\ (d + 1) + 2 \in 1..readable_size_
                /\ (d + 1) + 3 \in 1..readable_size_
                /\ Consumed + ((d + 1) + 1) = j + 1
                /\ Consumed + ((d + 1) + 2) = j + 2
                /\ Consumed + ((d + 1) + 3) = j + 3
            BY <2>2, <6>1
          <6>3. /\ bytes[j] = contents[d + 1]
                /\ bytes[j + 1] = contents[(d + 1) + 1]
                /\ bytes[j + 2] = contents[(d + 1) + 2]
                /\ bytes[j + 3] = contents[(d + 1) + 3]
            BY <2>5, <6>1, <6>2
          <6> QED BY <4>4, <6>3 DEF EmptyLineAt
        <5> QED BY <2>4, <4>2, <4>4, <5>1, ReferenceStops
      <4> QED BY <2>1, <3>2, <4>3, <4>4 DEF LoopInv
    <3> QED BY <3>1, <3>2
  <2>9. Places \o <<>> = Places
    <3>1. Places \in Seq(Place)
      BY <2>1, PlacesType DEF HandledInv
    <3> QED BY <3>1
  <2> QED BY <2>3, <2>6, <2>7, <2>8, <2>9 DEF Cuts
<1> QED BY <1>1, ReaderInvariant, PTL

\* The parser is given the client's own bytes, for every capacity, unless the
\* request straddles a multiple of it (rtsp_server.cc:449-452,
\* ring_buffer.cc:114-117).
THEOREM ReaderIntactUnlessStraddling == ReaderSpec => []IntactUnlessStraddling
<1>1. RInv => IntactUnlessStraddling
  <2> SUFFICES ASSUME RInv, NEW i \in DOMAIN handled, ~Straddles(handled[i])
               PROVE  handled[i].block
                        = SubSeq(Stream, handled[i].from + 1,
                                 handled[i].from + handled[i].len)
    BY DEF IntactUnlessStraddling
  <2>1. WireInv /\ ContentsInv /\ HandledInv
    BY DEF RInv
  <2>2. PICK h : h = handled[i]
    OBVIOUS
  <2>3. h \in Handled /\ Sound(h) /\ ~Straddles(h)
    <3>1. handled[i] \in Handled /\ Sound(handled[i])
      BY <2>1, ElementOfSeq DEF HandledInv
    <3> QED BY <2>2, <3>1
  <2>4. PICK f \in Nat, n \in Nat : f = h.from /\ n = h.len
    BY <2>3 DEF Handled
  <2>5. PICK b \in Seq(Byte \cup Junk) : b = h.block
    BY <2>3 DEF Handled
  <2>6. /\ Stream \in Seq(Byte) /\ Len(Stream) \in Nat /\ Consumed <= Len(Stream)
        /\ Consumed \in Nat
    <3>1. /\ Stream \in Seq(Byte) /\ Len(Stream) \in Nat /\ received \in Nat
          /\ readable_size_ \in 0..received /\ Consumed \in Nat
          /\ received = Consumed + readable_size_ /\ received <= Len(Stream)
      BY <2>1, Counts
    <3> QED BY <3>1
  <2>7. /\ n \in Len(Terminator)..capacity_ /\ f + n <= Consumed /\ Len(b) = n
        /\ \A k \in 1..n : b[k] = Stream[f + k]
    BY <2>3, <2>4, <2>5 DEF Sound
  <2>8. n >= 4
    <3>1. Len(Terminator) = 4
      BY DEF Terminator
    <3> QED BY <2>7, <3>1, CapacityPositive
  <2>9. PICK part : part = SubSeq(Stream, f + 1, f + n)
    OBVIOUS
  <2>10. /\ part \in Seq(Byte) /\ Len(part) = n
         /\ \A k \in 1..n : part[k] = Stream[f + k]
    <3>1. /\ f + 1 \in 1..Len(Stream) /\ f + n \in f + 1 .. Len(Stream)
          /\ (f + n) - (f + 1) + 1 = n
      BY <2>6, <2>7, <2>8
    <3>2. \A k \in f + 1 .. f + n : Stream[k] \in Byte
      <4>1. \A k \in f + 1 .. f + n : k \in 1..Len(Stream)
        BY <2>6, <2>7
      <4> QED BY <2>6, <4>1, ElementOfSeq
    <3>3. \A k \in 1..n : (f + 1) + k - 1 = f + k
      OBVIOUS
    <3> QED BY <2>6, <2>9, <3>1, <3>2, <3>3, SubSeqProperties
  <2>11. part \in Seq(Byte \cup Junk)
    <3>1. \A k \in 1..n : part[k] \in Byte \cup Junk
      BY <2>10, ElementOfSeq
    <3>2. part = [k \in 1..n |-> part[k]]
      BY <2>10
    <3> QED BY <3>1, <3>2
  <2>12. b = part
    <3>1. Len(b) = Len(part) /\ \A k \in 1..Len(b) : b[k] = part[k]
      BY <2>7, <2>10
    <3> QED BY <2>11, <3>1, SeqEqual
  <2> QED BY <2>2, <2>4, <2>5, <2>9, <2>12
<1> QED BY <1>1, ReaderInvariant, PTL

-----------------------------------------------------------------------------
\* A client within the limits.  What is consumed is whole messages, and their
\* requests are what was handled.
Answered(n) ==
  LET requests == Upto(RequestsOf(sent))[n]
  IN /\ Len(handled) = Len(requests)
     /\ \A i \in 1..Len(requests) :
          /\ handled[i].len = Len(requests[i])
          /\ ~Straddles(handled[i]) => handled[i].verdict = "known"

ServedInv ==
  WellBehaved =>
    /\ pc = "closed" => ended
    /\ \E n \in 0..Len(sent) : Consumed = Len(Upto(sent)[n]) /\ Answered(n)

\* The message the ring starts with, as far as it has been received.
Ahead(m) ==
  /\ m \in Seq(Byte)
  /\ ProperRequest(m) \/ ProperFrame(m)
  /\ \A k \in 1..Len(m) : Stream[Consumed + k] = m[k]
  /\ \A k \in 1..Len(m) : k <= readable_size_ => contents[k] = m[k]

\* The requests among the messages are sequences of messages, of one or none.
LEMMA RequestsType ==
  ASSUME NEW s \in Seq(Message)
  PROVE  /\ RequestsOf(s) \in Seq(Seq(Message)) /\ Len(RequestsOf(s)) = Len(s)
         /\ \A i \in 1..Len(s) :
              RequestsOf(s)[i] = IF ProperRequest(s[i]) THEN <<s[i]>> ELSE <<>>
<1>1. ASSUME NEW i \in 1..Len(s)
      PROVE  (IF ProperRequest(s[i]) THEN <<s[i]>> ELSE <<>>) \in Seq(Message)
  <2>1. s[i] \in Message
    BY ElementOfSeq
  <2>2. <<s[i]>> \in Seq(Message) /\ <<>> \in Seq(Message)
    BY <2>1
  <2> QED BY <2>2
<1>2. Len(s) \in Nat
  OBVIOUS
<1>3. RequestsOf(s) \in [1..Len(s) -> Seq(Message)]
  BY <1>1, Zenon DEF RequestsOf
<1>4. RequestsOf(s) \in Seq(Seq(Message)) /\ Len(RequestsOf(s)) = Len(s)
  BY <1>2, <1>3, IsASeq, LenProperties
<1> QED BY <1>4 DEF RequestsOf

\* One more message is one more part.
LEMMA RequestsAppend ==
  ASSUME NEW s \in Seq(Message), NEW m \in Message
  PROVE  \E r \in Seq(Message) : RequestsOf(Append(s, m)) = Append(RequestsOf(s), r)
<1> DEFINE t == Append(s, m)
           r == IF ProperRequest(m) THEN <<m>> ELSE <<>>
           u == RequestsOf(s)
           v == RequestsOf(t)
           N == Len(s)
<1>1. /\ t \in Seq(Message) /\ Len(t) = N + 1 /\ t[N+1] = m /\ N \in Nat
      /\ \A i \in 1..N : t[i] = s[i]
  OBVIOUS
<1>2. /\ u \in Seq(Seq(Message)) /\ Len(u) = N
      /\ \A i \in 1..N : u[i] = IF ProperRequest(s[i]) THEN <<s[i]>> ELSE <<>>
  BY RequestsType
<1>3. /\ v \in Seq(Seq(Message)) /\ Len(v) = N + 1
      /\ \A i \in 1..N+1 : v[i] = IF ProperRequest(t[i]) THEN <<t[i]>> ELSE <<>>
  BY <1>1, RequestsType
<1>4. r \in Seq(Message)
  <2>1. <<m>> \in Seq(Message) /\ <<>> \in Seq(Message)
    OBVIOUS
  <2> QED BY <2>1
<1> HIDE DEF r, t, u, v, N
<1>5. v[N+1] = r
  BY <1>1, <1>3 DEF r
<1>6. \A i \in 1..N : v[i] = u[i]
  <2> SUFFICES ASSUME NEW i \in 1..N PROVE v[i] = u[i]
    OBVIOUS
  <2>1. i \in 1..N+1 /\ t[i] = s[i]
    BY <1>1
  <2> QED BY <1>2, <1>3, <2>1
<1>7. /\ Append(u, r) \in Seq(Seq(Message)) /\ Len(Append(u, r)) = N + 1
      /\ Append(u, r)[N+1] = r /\ \A i \in 1..N : Append(u, r)[i] = u[i]
  BY <1>2, <1>4, AppendProperties
<1>8. \A i \in 1..N+1 : v[i] = Append(u, r)[i]
  <2> SUFFICES ASSUME NEW i \in 1..N+1 PROVE v[i] = Append(u, r)[i]
    OBVIOUS
  <2>1. i \in 1..N \/ i = N + 1
    BY <1>1
  <2> QED BY <1>5, <1>6, <1>7, <2>1
<1>9. v = Append(u, r)
  BY <1>3, <1>7, <1>8, SeqEqual
<1> QED BY <1>4, <1>9 DEF u, v, t

\* Unless all messages are consumed, one is ahead.
LEMMA MessageAhead ==
  ASSUME RInv, WellBehaved, NEW n \in 0..Len(sent), n # Len(sent),
         Consumed = Len(Upto(sent)[n])
  PROVE  /\ n + 1 \in 1..Len(sent) /\ sent[n+1] \in Message /\ Ahead(sent[n+1])
         /\ Len(Upto(sent)[n+1]) = Consumed + Len(sent[n+1])
         /\ Consumed + Len(sent[n+1]) <= Len(Stream)
<1> DEFINE U == Upto(sent)
           m == sent[n+1]
           N == Len(sent)
<1>1. WireInv /\ ContentsInv
  BY DEF RInv
<1>2. /\ sent \in Seq(Message) /\ N \in Nat /\ n + 1 \in 1..N /\ n + 1 \in 0..N
      /\ (n + 1) - 1 = n
  BY <1>1 DEF WireInv
<1>3. m \in Message /\ m \in Seq(Byte) /\ sent \in Seq(Seq(Byte))
  <2>1. m \in Message
    BY <1>2, ElementOfSeq
  <2> QED BY <1>2, <2>1, SentType, ReaderAssumption
<1>4. U[n+1] = U[n] \o m /\ U[n] \in Seq(Byte)
  BY <1>2, <1>3, UptoType
<1>5. /\ Len(U[n+1]) <= Len(U[N])
      /\ \A k \in 1..Len(U[n+1]) : U[N][k] = U[n+1][k]
  BY <1>2, <1>3, UptoPrefix
<1>6. Stream = U[N]
  BY DEF Stream
<1>7. Consumed = Len(U[n]) /\ Consumed \in Nat /\ readable_size_ \in Nat
  BY <1>1, Counts
<1>8. ProperRequest(m) \/ ProperFrame(m)
  <2>1. DOMAIN sent = 1..N
    BY <1>2
  <2> QED BY <1>2, <2>1 DEF WellBehaved
<1>9. \A k \in 1..readable_size_ : contents[k] = Stream[Consumed + k]
  BY <1>1 DEF ContentsInv
<1> HIDE DEF U, m, N
<1>10. PICK a \in Seq(Byte) : a = U[n]
  BY <1>4
<1>11. /\ Len(a \o m) = Len(a) + Len(m) /\ Len(a) \in Nat /\ Len(m) \in Nat
       /\ \A k \in 1..Len(m) : (a \o m)[Len(a) + k] = m[k]
  BY <1>3, <1>10, ConcatProperties, LenProperties
<1>12. Len(U[n+1]) = Consumed + Len(m)
  BY <1>4, <1>7, <1>10, <1>11
<1>13. ASSUME NEW k \in 1..Len(m) PROVE Stream[Consumed + k] = m[k]
  <2>1. Consumed + k \in 1..Len(U[n+1])
    BY <1>7, <1>11, <1>12
  <2>2. U[N][Consumed + k] = U[n+1][Consumed + k]
    BY <1>5, <2>1
  <2>3. (a \o m)[Consumed + k] = m[k]
    BY <1>7, <1>10, <1>11
  <2> QED BY <1>4, <1>6, <1>10, <2>2, <2>3
<1>14. ASSUME NEW k \in 1..Len(m), k <= readable_size_ PROVE contents[k] = m[k]
  <2>1. k \in 1..readable_size_
    BY <1>7, <1>11, <1>14
  <2> QED BY <1>9, <1>13, <2>1
<1>15. Ahead(m)
  BY <1>3, <1>8, <1>13, <1>14 DEF Ahead
<1>16. Consumed + Len(m) <= Len(Stream)
  BY <1>5, <1>6, <1>12
<1> QED BY <1>2, <1>3, <1>12, <1>15, <1>16 DEF U, m, N

\* Then the ring is not empty only if one is ahead.
LEMMA NotAllConsumed ==
  ASSUME RInv, NEW n \in 0..Len(sent), Consumed = Len(Upto(sent)[n]),
         readable_size_ > 0
  PROVE  n # Len(sent)
<1>1. WireInv /\ ContentsInv
  BY DEF RInv
<1>2. /\ Len(Stream) \in Nat /\ received \in Nat /\ Consumed \in Nat
      /\ received = Consumed + readable_size_ /\ received <= Len(Stream)
      /\ readable_size_ \in 0..received
  BY <1>1, Counts
<1> QED BY <1>2 DEF Stream

\* What the loop sees of a frame, ...
LEMMA FrameAhead ==
  ASSUME NEW m, Ahead(m), ProperFrame(m), readable_size_ \in Nat
  PROVE  /\ Len(m) \in 4..capacity_ /\ ~ProperRequest(m)
         /\ readable_size_ > 0 => contents[1] = Marker
         /\ readable_size_ >= 4 => FrameLen(contents, 1) = Len(m)
<1>1. /\ Len(m) \in 4..capacity_ /\ m[1] = Marker
      /\ Len(m) = 4 + 256 * m[3] + m[4]
  BY DEF ProperFrame, HeaderLen
<1>2. capacity_ \in Nat /\ Len(m) \in Nat
  BY CapacityPositive, LenProperties DEF Ahead
<1>3. ~ProperRequest(m)
  BY <1>1 DEF ProperRequest
<1>4. 1 \in 1..Len(m) /\ 3 \in 1..Len(m) /\ 4 \in 1..Len(m)
  BY <1>1, <1>2
<1>5. readable_size_ > 0 => contents[1] = Marker
  <2> SUFFICES ASSUME readable_size_ > 0 PROVE contents[1] = Marker
    OBVIOUS
  <2>1. 1 <= readable_size_
    OBVIOUS
  <2> QED BY <1>1, <1>4, <2>1 DEF Ahead
<1>6. readable_size_ >= 4 => FrameLen(contents, 1) = Len(m)
  <2> SUFFICES ASSUME readable_size_ >= 4 PROVE FrameLen(contents, 1) = Len(m)
    OBVIOUS
  <2>1. 3 <= readable_size_ /\ 4 <= readable_size_ /\ 1 + 2 = 3 /\ 1 + 3 = 4
    OBVIOUS
  <2>2. contents[3] = m[3] /\ contents[4] = m[4]
    BY <1>4, <2>1 DEF Ahead
  <2> QED BY <1>1, <2>1, <2>2 DEF FrameLen
<1> QED BY <1>1, <1>3, <1>5, <1>6

\* ... and of a request.
LEMMA RequestAhead ==
  ASSUME NEW m, Ahead(m), ProperRequest(m), readable_size_ \in Nat
  PROVE  /\ Len(m) \in 4..kMaxRtspRequestDataLen /\ Len(m) <= capacity_
         /\ readable_size_ > 0 => contents[1] # Marker
         /\ \A j \in 1..Len(m) - 3 : j + 3 <= readable_size_ =>
              (EmptyLineAt(contents, j) <=> j = Len(m) - 3)
<1>1. Len(Terminator) = 4
  BY DEF Terminator
<1>2. /\ Len(m) \in 4..kMaxRtspRequestDataLen /\ m[1] # Marker /\ Len(m) \in Nat
      /\ Len(m) <= capacity_ /\ m \in Seq(Byte)
  BY <1>1, LenProperties DEF ProperRequest, Ahead
<1>3. ASSUME readable_size_ > 0 PROVE contents[1] # Marker
  <2>1. 1 <= readable_size_ /\ 1 \in 1..Len(m)
    BY <1>2, <1>3
  <2> QED BY <1>2, <2>1 DEF Ahead
<1>4. ASSUME NEW j \in 1..Len(m) - 3, j + 3 <= readable_size_
      PROVE  EmptyLineAt(contents, j) <=> j = Len(m) - 3
  <2>1. /\ j \in 1..Len(m) /\ j + 1 \in 1..Len(m) /\ j + 2 \in 1..Len(m)
        /\ j + 3 \in 1..Len(m)
        /\ j <= readable_size_ /\ j + 1 <= readable_size_ /\ j + 2 <= readable_size_
    BY <1>2, <1>4
  <2>2. /\ contents[j] = m[j] /\ contents[j+1] = m[j+1] /\ contents[j+2] = m[j+2]
        /\ contents[j+3] = m[j+3]
    BY <1>4, <2>1 DEF Ahead
  <2>3. EmptyLineAt(contents, j) <=> EmptyLineAt(m, j)
    BY <2>2 DEF EmptyLineAt
  <2>4. SubSeq(m, j, j + 3) = Terminator <=> j = Len(m) - 3
    BY DEF ProperRequest
  <2> QED BY <1>2, <2>3, <2>4, EndsAreEmptyLines
<1> QED BY <1>2, <1>3, <1>4

\* A message that is in the ring as a whole is seen to be there.
LEMMA WholeIsSeen ==
  ASSUME NEW m, Ahead(m), readable_size_ \in Nat, Len(m) <= readable_size_
  PROVE  /\ readable_size_ >= 4
         /\ contents[1] = Marker => readable_size_ >= FrameLen(contents, 1)
         /\ contents[1] # Marker =>
              \E j \in 0..readable_size_ - 4 : EmptyLineAt(contents, j + 1)
<1>1. CASE ProperFrame(m)
  <2>1. Len(m) \in 4..capacity_ /\ capacity_ \in Nat
    BY <1>1, FrameAhead, CapacityPositive
  <2>2. readable_size_ >= 4 /\ readable_size_ > 0
    BY <2>1
  <2>3. contents[1] = Marker /\ FrameLen(contents, 1) = Len(m)
    BY <1>1, <2>2, FrameAhead
  <2> QED BY <2>2, <2>3
<1>2. CASE ProperRequest(m)
  <2>1. Len(m) \in 4..kMaxRtspRequestDataLen /\ kMaxRtspRequestDataLen \in Nat
    BY <1>2, RequestAhead, ReaderAssumption
  <2>2. readable_size_ >= 4 /\ readable_size_ > 0
    BY <2>1
  <2>3. PICK j \in 0..readable_size_ - 4 : j + 1 = Len(m) - 3
    <3>1. Len(m) - 4 \in 0..readable_size_ - 4 /\ (Len(m) - 4) + 1 = Len(m) - 3
      BY <2>1
    <3> QED BY <3>1
  <2>4. j + 1 \in 1..Len(m) - 3 /\ (j + 1) + 3 <= readable_size_
    BY <2>1, <2>3
  <2>5. EmptyLineAt(contents, j + 1)
    BY <1>2, <2>3, <2>4, RequestAhead
  <2>6. contents[1] # Marker
    BY <1>2, <2>2, RequestAhead
  <2> QED BY <2>2, <2>5, <2>6
<1> QED BY <1>1, <1>2 DEF Ahead


\* A step that consumes nothing and handles nothing keeps what was served.
LEMMA SameServed ==
  ASSUME ServedInv, sent' = sent, handled' = handled, Consumed' = Consumed,
         WellBehaved /\ pc' = "closed" => ended' \/ (pc = "closed" /\ ended' = ended)
  PROVE  ServedInv'
<1> SUFFICES ASSUME WellBehaved'
             PROVE  /\ pc' = "closed" => ended'
                    /\ (\E n \in 0..Len(sent) :
                          Consumed = Len(Upto(sent)[n]) /\ Answered(n))'
  BY DEF ServedInv
<1>1. WellBehaved
  BY DEF WellBehaved
<1>2. PICK n \in 0..Len(sent) : Consumed = Len(Upto(sent)[n]) /\ Answered(n)
  BY <1>1 DEF ServedInv
<1>3. Answered(n)'
  BY <1>2 DEF Answered, Straddles
<1>4. pc' = "closed" => ended'
  BY <1>1 DEF ServedInv
<1> QED BY <1>2, <1>3, <1>4

\* Initially nothing is to be served.
LEMMA InitServed == ReaderInit => ServedInv
<1> SUFFICES ASSUME ReaderInit PROVE ServedInv
  OBVIOUS
<1>1. /\ sent = <<>> /\ received = 0 /\ handled = <<>> /\ pc = "epoll"
      /\ readable_size_ = 0
  BY DEF ReaderInit
<1>2. sent \in Seq(Message) /\ Len(sent) = 0 /\ 0 \in 0..Len(sent)
  BY <1>1
<1>3. Upto(sent)[0] = <<>>
  BY <1>2, SentType, UptoType
<1>4. Upto(RequestsOf(sent))[0] = <<>>
  BY <1>2, RequestsType, UptoType
<1>5. Consumed = 0
  BY <1>1 DEF Consumed
<1>6. Answered(0)
  BY <1>1, <1>4 DEF Answered
<1>7. Len(Upto(sent)[0]) = 0
  BY <1>3
<1> QED BY <1>1, <1>2, <1>5, <1>6, <1>7 DEF ServedInv

\* A message more leaves those that were served where they are.
LEMMA ClientSendsServed ==
  ASSUME RInv, ServedInv, NEW m \in Message, ClientSends(m)
  PROVE  ServedInv'
<1>1. /\ sent' = Append(sent, m) /\ pc' = pc /\ pc # "closed" /\ received' = received
      /\ handled' = handled /\ readable_size_' = readable_size_
  BY DEF Closed, ClientSends, ringVars, vars
<1>2. sent \in Seq(Message) /\ sent \in Seq(Seq(Byte)) /\ m \in Seq(Byte)
  BY SentType, ReaderAssumption DEF RInv, WireInv
<1>3. Consumed' = Consumed
  BY <1>1 DEF Consumed
<1> SUFFICES ASSUME WellBehaved'
             PROVE  (\E n \in 0..Len(sent) :
                       Consumed = Len(Upto(sent)[n]) /\ Answered(n))'
  BY <1>1 DEF ServedInv
<1>4. Len(sent) \in Nat /\ Len(sent') = Len(sent) + 1
  BY <1>1, <1>2
<1>5. WellBehaved
  <2> SUFFICES ASSUME NEW i \in DOMAIN sent
               PROVE  ProperRequest(sent[i]) \/ ProperFrame(sent[i])
    BY DEF WellBehaved
  <2>1. i \in DOMAIN sent' /\ sent'[i] = sent[i]
    BY <1>1, <1>2
  <2>2. ProperRequest(sent'[i]) \/ ProperFrame(sent'[i])
    BY <2>1 DEF WellBehaved
  <2> QED BY <2>1, <2>2
<1>6. PICK n \in 0..Len(sent) : Consumed = Len(Upto(sent)[n]) /\ Answered(n)
  BY <1>5 DEF ServedInv
<1>7. Upto(sent')[n] = Upto(sent)[n]
  BY <1>1, <1>2, UptoAppend
<1>8. Upto(RequestsOf(sent'))[n] = Upto(RequestsOf(sent))[n]
  <2>1. PICK r \in Seq(Message) : RequestsOf(sent') = Append(RequestsOf(sent), r)
    BY <1>1, <1>2, RequestsAppend
  <2>2. RequestsOf(sent) \in Seq(Seq(Message)) /\ n \in 0..Len(RequestsOf(sent))
    BY <1>2, <1>6, RequestsType
  <2> QED BY <2>1, <2>2, UptoAppend
<1>9. Answered(n)'
  BY <1>1, <1>6, <1>8 DEF Answered, Straddles
<1>10. n \in 0..Len(sent')
  BY <1>4
<1> QED BY <1>3, <1>6, <1>7, <1>9, <1>10

\* The ring is not full outside the loop, and a message that is longer than a
\* request may be is not taken for one: such a client is not cut off.
LEMMA ClosingServed ==
  ASSUME RInv, ServedInv, RecvFails \/ RequestTooLarge
  PROVE  ServedInv'
<1>1. /\ pc' = "closed" /\ sent' = sent /\ ended' = ended /\ handled' = handled
      /\ received' = received /\ readable_size_' = readable_size_
  BY DEF RecvFails, RequestTooLarge, ringVars, vars, clientVars
<1>2. Consumed' = Consumed
  BY <1>1 DEF Consumed
<1>3. WireInv /\ ContentsInv /\ LoopInv /\ IInv
  BY DEF RInv, ContentsInv
<1>4. /\ readable_size_ \in 0..capacity_ /\ capacity_ \in Nat \ {0}
      /\ readable_size_ \in Nat
  BY <1>3, Counts
<1>5. ASSUME WellBehaved, ~ended PROVE FALSE
  <2>1. /\ readable_size_ > 0
        /\ \/ pc = "epoll" /\ readable_size_ = capacity_
           \/ /\ ~AtFrame /\ RequestEnd = npos
              /\ readable_size_ >= kMaxRtspRequestDataLen
    BY <1>4, <1>5 DEF RecvFails, RequestTooLarge, TooLarge, WritableSize
  <2>2. PICK n \in 0..Len(sent) : Consumed = Len(Upto(sent)[n])
    BY <1>5 DEF ServedInv
  <2>3. PICK m : Ahead(m)
    <3>1. n # Len(sent)
      BY <2>1, <2>2, NotAllConsumed
    <3> QED BY <1>5, <2>2, <3>1, MessageAhead
  <2>a. Len(m) \in 4..capacity_
    <3>1. CASE ProperFrame(m)
      BY <1>4, <2>3, <3>1, FrameAhead
    <3>2. CASE ProperRequest(m)
      <4>1. Len(m) \in 4..kMaxRtspRequestDataLen /\ Len(m) <= capacity_
        BY <1>4, <2>3, <3>2, RequestAhead
      <4> QED BY <1>4, <4>1
    <3> QED BY <2>3, <3>1, <3>2 DEF Ahead
  <2>4. /\ kMaxRtspRequestDataLen \in Nat /\ kMaxRtspRequestDataLen >= 4
        /\ readable_size_ >= 4
    <3>1. kMaxRtspRequestDataLen \in Nat /\ kMaxRtspRequestDataLen >= 4
      BY ReaderAssumption, LimitAssumption DEF HeaderLen
    <3> QED BY <1>4, <2>1, <2>a, <3>1
  <2>5. CASE pc = "epoll" /\ readable_size_ = capacity_
    <3>1. Len(m) <= readable_size_
      BY <1>4, <2>5, <2>a
    <3>2. /\ readable_size_ >= 4
          /\ contents[1] = Marker => readable_size_ >= FrameLen(contents, 1)
          /\ contents[1] # Marker =>
               \E j \in 0..readable_size_ - 4 : EmptyLineAt(contents, j + 1)
      BY <1>4, <2>3, <3>1, WholeIsSeen
    <3>3. CASE contents[1] = Marker
      <4>1. CASE ProperFrame(m)
        <5>1. FrameLen(contents, 1) = Len(m) /\ Len(m) \in 4..capacity_
          BY <1>4, <2>3, <2>4, <4>1, FrameAhead
        <5> QED BY <1>3, <1>4, <2>5, <3>1, <3>3, <5>1, <3>2 DEF LoopInv
      <4>2. CASE ProperRequest(m)
        BY <1>4, <2>1, <2>3, <3>3, <4>2, RequestAhead
      <4> QED BY <2>3, <4>1, <4>2 DEF Ahead
    <3>4. CASE contents[1] # Marker
      BY <1>3, <1>4, <2>5, <3>2, <3>4 DEF LoopInv
    <3> QED BY <3>3, <3>4
  <2>6. CASE /\ ~AtFrame /\ RequestEnd = npos
             /\ readable_size_ >= kMaxRtspRequestDataLen
    <3>1. contents[1] # Marker
      <4>1. readable_size_ >= HeaderLen
        BY <2>4 DEF HeaderLen
      <4> QED BY <1>3, <2>6, <4>1, HeaderBytes DEF AtFrame
    <3>2. ProperRequest(m)
      <4>1. ~ProperFrame(m)
        BY <1>4, <2>1, <2>3, <3>1, FrameAhead
      <4> QED BY <2>3, <4>1 DEF Ahead
    <3>3. Len(m) <= readable_size_
      <4>1. Len(m) \in 4..kMaxRtspRequestDataLen
        BY <1>4, <2>3, <3>2, RequestAhead
      <4> QED BY <1>4, <2>4, <2>6, <4>1
    <3>4. \E j \in 0..readable_size_ - 4 : EmptyLineAt(contents, j + 1)
      BY <1>4, <2>3, <3>1, <3>3, WholeIsSeen
    <3>5. ~(RequestEnd \in 0..readable_size_ - 4)
      BY <1>4, <2>6 DEF npos
    <3> QED BY <1>3, <3>4, <3>5, RequestEndIsFirst
  <2> QED BY <2>1, <2>5, <2>6
<1>6. ended \in BOOLEAN
  BY <1>3 DEF WireInv
<1> QED BY <1>1, <1>2, <1>5, <1>6, SameServed

\* What is joined grows by one part.
LEMMA RequestsNext ==
  ASSUME NEW s \in Seq(Message), NEW n \in 0..Len(s), n + 1 \in 1..Len(s)
  PROVE  /\ Upto(RequestsOf(s))[n] \in Seq(Message)
         /\ Upto(RequestsOf(s))[n+1]
              = Upto(RequestsOf(s))[n]
                  \o IF ProperRequest(s[n+1]) THEN <<s[n+1]>> ELSE <<>>
<1>1. /\ RequestsOf(s) \in Seq(Seq(Message)) /\ Len(RequestsOf(s)) = Len(s)
      /\ RequestsOf(s)[n+1] = IF ProperRequest(s[n+1]) THEN <<s[n+1]>> ELSE <<>>
  BY RequestsType
<1>2. (n + 1) - 1 = n /\ n + 1 \in 1..Len(RequestsOf(s)) /\ n \in 0..Len(RequestsOf(s))
  BY <1>1
<1>3. /\ Upto(RequestsOf(s))[n] \in Seq(Message)
      /\ Upto(RequestsOf(s))[n+1] = Upto(RequestsOf(s))[(n+1)-1] \o RequestsOf(s)[n+1]
  BY <1>1, <1>2, UptoType
<1> QED BY <1>1, <1>2, <1>3

\* A frame that is passed over is a whole message, and no request.
LEMMA SkipFrameServed ==
  ASSUME RInv, ServedInv, SkipFrame
  PROVE  ServedInv'
<1>1. WireInv /\ ContentsInv /\ IInv
  BY DEF RInv, ContentsInv
<1>2. /\ pc = "loop" /\ pc' = pc /\ handled' = handled
      /\ sent' = sent /\ UNCHANGED <<sent, wire, received>>
      /\ readable_size_ >= HeaderLen /\ Header[1] = Marker
      /\ readable_size_ >= FrameTotal /\ Consume(FrameTotal)
  BY DEF SkipFrame, AtFrame, clientVars
<1> SUFFICES ASSUME WellBehaved'
             PROVE  (\E n \in 0..Len(sent) :
                       Consumed = Len(Upto(sent)[n]) /\ Answered(n))'
  BY <1>2 DEF ServedInv
<1>3. WellBehaved
  BY <1>2 DEF WellBehaved
<1>4. PICK n \in 0..Len(sent) : Consumed = Len(Upto(sent)[n]) /\ Answered(n)
  BY <1>3 DEF ServedInv
<1>5. readable_size_ \in Nat /\ readable_size_ >= 4 /\ readable_size_ > 0
  BY <1>1, <1>2, Counts DEF HeaderLen
<1>6. n # Len(sent)
  BY <1>4, <1>5, NotAllConsumed
<1>7. /\ n + 1 \in 1..Len(sent) /\ sent[n+1] \in Message /\ Ahead(sent[n+1])
      /\ Len(Upto(sent)[n+1]) = Consumed + Len(sent[n+1])
  BY <1>3, <1>4, <1>6, MessageAhead
<1>8. PICK m : m = sent[n+1] /\ Ahead(m)
  BY <1>7
<1>9. contents[1] = Marker /\ FrameTotal = FrameLen(contents, 1)
  BY <1>1, <1>2, HeaderBytes
<1>10. ProperFrame(m)
  <2>1. ~ProperRequest(m)
    BY <1>5, <1>8, <1>9, RequestAhead
  <2> QED BY <1>8, <2>1 DEF Ahead
<1>11. FrameTotal = Len(m) /\ Len(m) \in 4..capacity_ /\ ~ProperRequest(m)
  BY <1>5, <1>8, <1>9, <1>10, FrameAhead
<1>12. Len(m) \in 1..readable_size_ /\ Consume(Len(m))
  BY <1>2, <1>5, <1>11, CapacityPositive
<1>13. Consumed' = Consumed + Len(m)
  BY <1>1, <1>2, <1>12, ConsumeKeeps
<1>14. Upto(RequestsOf(sent))[n+1] = Upto(RequestsOf(sent))[n]
  <2>1. sent \in Seq(Message)
    BY <1>1 DEF WireInv
  <2>2. PICK r \in Seq(Message) : r = Upto(RequestsOf(sent))[n]
    BY <1>7, <2>1, RequestsNext
  <2>3. Upto(RequestsOf(sent))[n+1] = r \o <<>>
    BY <1>7, <1>8, <1>11, <2>1, <2>2, RequestsNext
  <2> QED BY <2>2, <2>3
<1>15. Answered(n+1)'
  BY <1>2, <1>4, <1>14 DEF Answered, Straddles
<1>16. n + 1 \in 0..Len(sent)
  BY <1>7
<1> QED BY <1>2, <1>7, <1>8, <1>13, <1>15, <1>16

\* What the session is given is a whole request, known to the parser unless it
\* straddles.
LEMMA HandleRequestServed ==
  ASSUME RInv, RInv', ServedInv, HandleRequest
  PROVE  ServedInv'
<1>1. WireInv /\ ContentsInv /\ IInv /\ HandledInv
  BY DEF RInv, ContentsInv
<1>2. /\ pc = "loop" /\ pc' = pc
      /\ sent' = sent /\ UNCHANGED <<sent, wire, received>>
      /\ ~AtFrame /\ RequestEnd # npos /\ Consume(RequestLen)
  BY DEF HandleRequest, clientVars
<1> SUFFICES ASSUME WellBehaved'
             PROVE  (\E n \in 0..Len(sent) :
                       Consumed = Len(Upto(sent)[n]) /\ Answered(n))'
  BY <1>2 DEF ServedInv
<1>3. WellBehaved
  BY <1>2 DEF WellBehaved
<1>4. PICK n \in 0..Len(sent) : Consumed = Len(Upto(sent)[n]) /\ Answered(n)
  BY <1>3 DEF ServedInv
<1>5. readable_size_ \in Nat
  BY <1>1, Counts
<1>6. PICK e \in 0..readable_size_ - 4 :
        /\ e = RequestEnd /\ EmptyLineAt(contents, e + 1)
        /\ \A j \in 0..e-1 : ~EmptyLineAt(contents, j + 1)
  BY <1>1, <1>2, RequestEndIsFirst
<1>7. readable_size_ >= 4 /\ readable_size_ > 0 /\ e \in Nat
  BY <1>5, <1>6
<1>8. n # Len(sent)
  BY <1>4, <1>7, NotAllConsumed
<1>9. /\ n + 1 \in 1..Len(sent) /\ sent[n+1] \in Message /\ Ahead(sent[n+1])
      /\ Len(Upto(sent)[n+1]) = Consumed + Len(sent[n+1])
  BY <1>3, <1>4, <1>8, MessageAhead
<1>10. PICK m \in Seq(Byte) : m = sent[n+1] /\ Ahead(m)
  BY <1>9 DEF Ahead
<1>11. contents[1] # Marker
  <2>1. readable_size_ >= HeaderLen
    BY <1>7 DEF HeaderLen
  <2> QED BY <1>1, <1>2, <2>1, HeaderBytes DEF AtFrame
<1>12. ProperRequest(m)
  <2>1. ~ProperFrame(m)
    BY <1>5, <1>7, <1>10, <1>11, FrameAhead
  <2> QED BY <1>10, <2>1 DEF Ahead
<1>13. PICK len \in 4..readable_size_ : len = RequestLen /\ len = e + 4
  <2>1. Len(Terminator) = 4
    BY DEF Terminator
  <2>2. e + 4 \in 4..readable_size_
    BY <1>5, <1>6
  <2> QED BY <1>6, <2>1, <2>2 DEF RequestLen
<1>14. len = Len(m)
  <2>1. /\ Len(m) \in 4..kMaxRtspRequestDataLen /\ kMaxRtspRequestDataLen \in Nat
        /\ \A j \in 1..Len(m) - 3 : j + 3 <= readable_size_ =>
             (EmptyLineAt(contents, j) <=> j = Len(m) - 3)
    BY <1>5, <1>10, <1>12, RequestAhead, ReaderAssumption
  <2>2. ~(e + 4 < Len(m))
    <3> SUFFICES ASSUME e + 4 < Len(m) PROVE FALSE
      OBVIOUS
    <3>1. e + 1 \in 1..Len(m) - 3 /\ (e + 1) + 3 <= readable_size_ /\ e + 1 # Len(m) - 3
      BY <1>5, <1>6, <1>7, <2>1
    <3> QED BY <1>6, <2>1, <3>1
  <2>3. ~(Len(m) < e + 4)
    <3> SUFFICES ASSUME Len(m) < e + 4 PROVE FALSE
      OBVIOUS
    <3>1. PICK j \in 0..e-1 : j + 1 = Len(m) - 3
      <4>1. Len(m) - 4 \in 0..e-1 /\ (Len(m) - 4) + 1 = Len(m) - 3
        BY <1>7, <2>1
      <4> QED BY <4>1
    <3>2. j + 1 \in 1..Len(m) - 3 /\ (j + 1) + 3 <= readable_size_
      BY <1>5, <1>6, <1>7, <2>1, <3>1
    <3>3. EmptyLineAt(contents, j + 1)
      BY <2>1, <3>1, <3>2
    <3> QED BY <1>6, <3>3
  <2> QED BY <1>7, <1>13, <2>1, <2>2, <2>3
<1>15. Len(m) \in 1..readable_size_ /\ Consume(Len(m)) /\ RequestLen = Len(m)
  BY <1>2, <1>5, <1>13, <1>14
<1>16. Consumed' = Consumed + Len(m) /\ Stream' = Stream
  BY <1>1, <1>2, <1>15, ConsumeKeeps
<1>17. PICK junk \in Junk :
        handled' = Append(handled,
          [from |-> received - readable_size_, len |-> RequestLen,
           block |-> BlockAt(RequestLen, junk),
           verdict |-> Parse(BlockAt(RequestLen, junk), Methods,
                             kMaxRtspRequestDataLen)])
  BY DEF HandleRequest
<1>18. PICK h : /\ handled' = Append(handled, h) /\ h.from = Consumed
                /\ h.len = Len(m)
                /\ h.verdict = Parse(h.block, Methods, kMaxRtspRequestDataLen)
  BY <1>15, <1>17 DEF Consumed
<1>19. PICK N \in Nat : N = Len(handled) /\ DOMAIN handled = 1..N
  BY <1>1 DEF HandledInv
<1>20. /\ Len(handled') = N + 1 /\ DOMAIN handled' = 1..N+1
       /\ handled'[N+1] = h /\ \A i \in 1..N : handled'[i] = handled[i]
  BY <1>1, <1>18, <1>19 DEF HandledInv
<1>21. ASSUME ~Straddles(h) PROVE h.verdict = "known"
  <2>1. h.block \in Seq(Byte \cup Junk) /\ Len(h.block) = Len(m)
        /\ \A k \in 1..Len(m) : h.block[k] = Stream[Consumed + k]
    <3>1. N + 1 \in DOMAIN handled'
      BY <1>19, <1>20
    <3>2. handled' \in Seq(Handled) /\ (\A i \in DOMAIN handled : Sound(handled[i]))'
      BY DEF RInv, HandledInv
    <3>3. h \in Handled
      BY <1>20, <3>1, <3>2, ElementOfSeq
    <3>4. /\ Len(handled'[N+1].block) = handled'[N+1].len
          /\ ~Straddles(handled'[N+1]) =>
               \A k \in 1..handled'[N+1].len :
                 handled'[N+1].block[k] = Stream'[handled'[N+1].from + k]
      BY <3>1, <3>2 DEF Sound, Straddles
    <3> QED BY <1>16, <1>18, <1>20, <1>21, <3>3, <3>4 DEF Handled
  <2>2. \A k \in 1..Len(m) : Stream[Consumed + k] = m[k]
    BY <1>10 DEF Ahead
  <2>3. PICK b \in Seq(Byte \cup Junk) : b = h.block
    BY <2>1
  <2>4. m \in Seq(Byte \cup Junk)
    <3>1. \A k \in 1..Len(m) : m[k] \in Byte \cup Junk
      BY ElementOfSeq
    <3>2. Len(m) \in Nat /\ m = [k \in 1..Len(m) |-> m[k]]
      OBVIOUS
    <3> QED BY <3>1, <3>2
  <2>5. b = m
    BY <2>1, <2>2, <2>3, <2>4, SeqEqual
  <2>6. /\ FirstWord(FirstLine(m)) \in Methods \ {<<>>}
        /\ Len(m) \in Len(Terminator)..kMaxRtspRequestDataLen
    BY <1>12 DEF ProperRequest
  <2>7. ~(Len(m) > kMaxRtspRequestDataLen)
    <3>1. Len(m) \in Nat /\ kMaxRtspRequestDataLen \in Nat /\ Len(Terminator) = 4
      BY ReaderAssumption DEF Terminator
    <3> QED BY <2>6, <3>1
  <2>8. Parse(m, Methods, kMaxRtspRequestDataLen) = "known"
    BY <2>6, <2>7 DEF Parse
  <2> QED BY <1>18, <2>3, <2>5, <2>8
<1>22. PICK r \in Seq(Message) :
         /\ r = Upto(RequestsOf(sent))[n]
         /\ Upto(RequestsOf(sent))[n+1] = r \o <<m>>
  <2>1. sent \in Seq(Message)
    BY <1>1 DEF WireInv
  <2>2. PICK r \in Seq(Message) : r = Upto(RequestsOf(sent))[n]
    BY <1>9, <2>1, RequestsNext
  <2>3. Upto(RequestsOf(sent))[n+1] = r \o <<m>>
    BY <1>9, <1>10, <1>12, <2>1, <2>2, RequestsNext
  <2> QED BY <2>2, <2>3
<1>23. PICK q : q = r \o <<m>>
  OBVIOUS
<1>24. /\ Len(r) \in Nat /\ Len(q) = Len(r) + 1 /\ q[Len(r)+1] = m
       /\ \A i \in 1..Len(r) : q[i] = r[i]
  <2>1. m \in Message
    BY <1>9, <1>10
  <2>2. q = Append(r, m)
    BY <1>23, <2>1
  <2> QED BY <2>1, <2>2, AppendProperties, LenProperties
<1>25. /\ N = Len(r)
       /\ \A i \in 1..N : /\ handled[i].len = Len(r[i])
                          /\ ~Straddles(handled[i]) => handled[i].verdict = "known"
  BY <1>4, <1>19, <1>22 DEF Answered
<1>26. ASSUME NEW i \in 1..N+1
       PROVE  /\ handled'[i].len = Len(q[i])
              /\ ~Straddles(handled'[i]) => handled'[i].verdict = "known"
  <2>1. i \in 1..N \/ i = N + 1
    BY <1>19
  <2>2. CASE i \in 1..N
    BY <1>20, <1>24, <1>25, <2>2
  <2>3. CASE i = N + 1
    BY <1>18, <1>20, <1>21, <1>24, <1>25, <2>3
  <2> QED BY <2>1, <2>2, <2>3
<1>27. Answered(n+1)'
  <2>1. Upto(RequestsOf(sent'))[n+1] = q /\ Len(q) = N + 1
    BY <1>2, <1>22, <1>23, <1>24, <1>25
  <2> QED BY <1>20, <1>26, <2>1 DEF Answered, Straddles
<1>28. n + 1 \in 0..Len(sent)
  BY <1>9
<1> QED BY <1>2, <1>9, <1>10, <1>16, <1>27, <1>28

\* Every step keeps what was served.
LEMMA NextServed == RInv /\ RInv' /\ ServedInv /\ [ReaderNext]_readerVars => ServedInv'
<1> SUFFICES ASSUME RInv, RInv', ServedInv, [ReaderNext]_readerVars PROVE ServedInv'
  OBVIOUS
<1>1. CASE UNCHANGED readerVars \/ ClientEnds \/ LoopEnds \/ RecvError
  <2>1. /\ sent' = sent /\ handled' = handled /\ received' = received
        /\ readable_size_' = readable_size_
    BY <1>1 DEF readerVars, ringVars, vars, clientVars, ClientEnds, LoopEnds, RecvError
  <2>2. pc' = "closed" => ended' \/ (pc = "closed" /\ ended' = ended)
    BY <1>1 DEF readerVars, clientVars, ClientEnds, LoopEnds, RecvError
  <2>3. Consumed' = Consumed
    BY <2>1 DEF Consumed
  <2> QED BY <2>1, <2>2, <2>3, SameServed
<1>2. CASE Recv
  <2>1. sent' = sent /\ handled' = handled /\ pc' # "closed"
    BY <1>2 DEF Recv
  <2>2. Consumed' = Consumed
    BY <1>2, RecvRInv
  <2> QED BY <2>1, <2>2, SameServed
<1>3. CASE \E m \in Message : ClientSends(m)
  BY <1>3, ClientSendsServed
<1>4. CASE RecvFails \/ RequestTooLarge
  BY <1>4, ClosingServed
<1>5. CASE SkipFrame
  BY <1>5, SkipFrameServed
<1>6. CASE HandleRequest
  BY <1>6, HandleRequestServed
<1> QED BY <1>1, <1>2, <1>3, <1>4, <1>5, <1>6 DEF ReaderNext, ReaderStep

\* A client that sends requests of a known method within the limit, and whole
\* frames that fit in the buffer, is never cut off but by an error, for every capacity, every
\* limit within it and every way TCP divides the bytes; and once its bytes are
\* read, each of its requests has been given to the session once, in order, and
\* understood unless it straddles (rtsp_server.cc:436-447, connection.cc:32-36,
\* rtsp_parser.cc:30).
THEOREM ReaderWellBehavedIsServed == ReaderSpec => []WellBehavedIsServed
<1>1. RInv /\ ServedInv => WellBehavedIsServed
  <2> SUFFICES ASSUME RInv, ServedInv, WellBehaved
               PROVE  /\ pc = "closed" => ended
                      /\ pc = "epoll" /\ wire = <<>> =>
                         /\ Len(handled) = Len(Requests)
                         /\ \A i \in DOMAIN handled :
                              /\ handled[i].len = Len(Requests[i])
                              /\ ~Straddles(handled[i]) => handled[i].verdict = "known"
    BY DEF WellBehavedIsServed
  <2>1. WireInv /\ ContentsInv /\ HandledInv /\ LoopInv
    BY DEF RInv
  <2>2. PICK n \in 0..Len(sent) : Consumed = Len(Upto(sent)[n]) /\ Answered(n)
    BY DEF ServedInv
  <2>3. ASSUME pc = "epoll", wire = <<>> PROVE n = Len(sent)
    <3> SUFFICES ASSUME n # Len(sent) PROVE FALSE
      OBVIOUS
    <3>1. PICK m : Ahead(m) /\ Consumed + Len(m) <= Len(Stream) /\ Len(m) \in Nat
      <4>1. Ahead(sent[n+1]) /\ Consumed + Len(sent[n+1]) <= Len(Stream)
        BY <2>2, MessageAhead
      <4>2. Len(sent[n+1]) \in Nat
        BY <4>1, LenProperties DEF Ahead
      <4> QED BY <4>1, <4>2
    <3>2. /\ readable_size_ \in Nat /\ Consumed \in Nat /\ received \in Nat
          /\ received = Consumed + readable_size_
      BY <2>1, Counts
    <3>3. received = Len(Stream)
      <4>1. received + Len(wire) = Len(Stream) /\ Len(wire) = 0
        BY <2>1, <2>3 DEF WireInv
      <4> QED BY <3>2, <4>1
    <3>4. Len(m) <= readable_size_
      BY <3>1, <3>2, <3>3
    <3>5. /\ readable_size_ >= 4
          /\ contents[1] = Marker => readable_size_ >= FrameLen(contents, 1)
          /\ contents[1] # Marker =>
               \E j \in 0..readable_size_ - 4 : EmptyLineAt(contents, j + 1)
      BY <3>1, <3>2, <3>4, WholeIsSeen
    <3>6. CASE contents[1] = Marker
      <4>1. ProperFrame(m)
        <5>1. ~ProperRequest(m)
          BY <3>1, <3>2, <3>5, <3>6, RequestAhead
        <5> QED BY <3>1, <5>1 DEF Ahead
      <4>2. FrameLen(contents, 1) = Len(m)
        BY <3>1, <3>2, <3>5, <4>1, FrameAhead
      <4> QED BY <2>1, <2>3, <3>1, <3>2, <3>4, <3>5, <3>6, <4>2 DEF LoopInv
    <3>7. CASE contents[1] # Marker
      BY <2>1, <2>3, <3>2, <3>5, <3>7 DEF LoopInv
    <3> QED BY <3>6, <3>7
  <2>4. ASSUME pc = "epoll", wire = <<>>
        PROVE  /\ Len(handled) = Len(Requests)
               /\ \A i \in DOMAIN handled :
                    /\ handled[i].len = Len(Requests[i])
                    /\ ~Straddles(handled[i]) => handled[i].verdict = "known"
    <3>1. Requests = Upto(RequestsOf(sent))[n]
      BY <2>3, <2>4 DEF Requests
    <3>2. DOMAIN handled = 1..Len(handled)
      BY <2>1 DEF HandledInv
    <3> QED BY <2>2, <3>1, <3>2 DEF Answered
  <2> QED BY <2>4 DEF ServedInv
<1> QED BY <1>1, InitServed, NextServed, ReaderInvariant, PTL DEF ReaderSpec

=============================================================================
