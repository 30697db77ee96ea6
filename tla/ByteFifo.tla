------------------------------ MODULE ByteFifo ------------------------------
(***************************************************************************)
(* What the two ring buffers of a Connection promise: a bounded first-in   *)
(* first-out queue of bytes.  A write either goes in whole or is refused   *)
(* whole; taking n bytes removes the n oldest ones (all of them when fewer *)
(* are there).  Nothing here knows about positions or wrap-around.         *)
(***************************************************************************)
EXTENDS Integers, Sequences

CONSTANTS Byte,        \* the values of a byte
          Capacity     \* the number of bytes the queue can hold, at least 1

VARIABLES queue,       \* the bytes, oldest first
          status       \* what the last operation returned

fvars == <<queue, status>>

\* The payloads an operation may be given: up to one byte more than fits.
Payload == UNION {[1..n -> Byte] : n \in 0..Capacity+1}

FifoInit == queue = <<>> /\ status = "Ok"

\* All of d is accepted, at the end of the queue.
Put(d) ==
  /\ d # <<>>
  /\ Len(queue) + Len(d) <= Capacity
  /\ queue' = queue \o d
  /\ status' = "Ok"

\* A write of nothing, or of more than there is room for, leaves no trace.
Refuse(d) ==
  /\ status' = IF d = <<>> THEN "InvalidArgument" ELSE "BufferFull"
  /\ d = <<>> \/ Len(queue) + Len(d) > Capacity
  /\ UNCHANGED queue

\* The n oldest bytes leave.
Take(n) ==
  /\ queue' = IF n < Len(queue) THEN SubSeq(queue, n + 1, Len(queue)) ELSE <<>>
  /\ UNCHANGED status

FifoNext ==
  \/ \E d \in Payload : Put(d) \/ Refuse(d)
  \/ \E n \in 0..Capacity+1 : Take(n)

FifoSpec == FifoInit /\ [][FifoNext]_fvars

=============================================================================
