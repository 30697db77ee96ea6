--------------------------- MODULE MessageStream ----------------------------
(***************************************************************************)
(* What Send and SendV of a Connection promise the threads that call them: *)
(* one stream of bytes that only grows, to which one message at a time is  *)
(* appended, and a result that tells whether all, some or none of it went  *)
(* in - not how much: the count of a short write may be too small.         *)
(* Nothing here knows of the socket, the write buffer or who drains it.    *)
(***************************************************************************)
EXTENDS Integers, Sequences

CONSTANTS Thread,
          MessageLen,    \* the length of each thread's messages
          Header         \* how much of one may stay behind though it is refused

VARIABLES stream,        \* every byte accepted so far
          issued,        \* how many messages each thread has begun
          returned,      \* the results of those that are over
          writing,       \* the thread that is inside a message, if any
          written,       \* how much of that message is in the stream
          read           \* how much of the stream the client has read

streamVars == <<stream, issued, returned, writing, written, read>>

Byte(t, n, i) == [from |-> t, seq |-> n, off |-> i]

\* Bytes a+1 to b of the n-th message of thread t.
Piece(t, n, a, b) == [i \in 1..b - a |-> Byte(t, n, a + i)]

StreamInit ==
  /\ stream = <<>>
  /\ issued = [t \in Thread |-> 0]
  /\ returned = [t \in Thread |-> <<>>]
  /\ writing = {} /\ written = 0
  /\ read = 0

\* A thread has a message to send, and no other under way.
Begin(t) ==
  /\ issued[t] = Len(returned[t])
  /\ issued' = [issued EXCEPT ![t] = @ + 1]
  /\ UNCHANGED <<stream, returned, writing, written, read>>

\* Its bytes up to m are in the stream; nobody else's may come between them.
Put(t, m) ==
  /\ issued[t] = Len(returned[t]) + 1
  /\ writing \subseteq {t}
  /\ m \in written..MessageLen[t]
  /\ stream' = stream \o Piece(t, issued[t], written, m)
  /\ UNCHANGED <<issued, read>>

\* The call waits for room, ...
Wait(t, m) ==
  /\ Put(t, m) /\ m < MessageLen[t]
  /\ writing' = {t} /\ written' = m
  /\ UNCHANGED returned

\* ... or returns, with a result that says what became of the message.
Finish(t, m, result) ==
  /\ Put(t, m)
  /\ CASE result = "whole"  -> m = MessageLen[t]
       [] result = "cut"    -> m \in 1..MessageLen[t] - 1
       [] result = "failed" -> m \in {0, Header[t]}
  /\ writing' = {} /\ written' = 0
  /\ returned' = [returned EXCEPT ![t] = Append(@, result)]

\* The client reads.
Read ==
  /\ read < Len(stream)
  /\ read' = read + 1
  /\ UNCHANGED <<stream, issued, returned, writing, written>>

StreamNext ==
  \/ Read
  \/ \E t \in Thread :
       \/ Begin(t)
       \/ \E m \in 0..MessageLen[t] :
            Wait(t, m) \/ \E result \in {"whole", "cut", "failed"} : Finish(t, m, result)

StreamSpec == StreamInit /\ [][StreamNext]_streamVars

=============================================================================
