----------------------------- MODULE RingBuffer -----------------------------
(***************************************************************************)
(* class RingBuffer (src/buffer/ring_buffer.cc): a byte array of fixed     *)
(* size with a read position, a write position and a count.  A Connection  *)
(* owns two: read_buffer_ is filled in place by recv() through WritePtr    *)
(* and Produce, write_buffer_ by Write; both are drained by Consume.       *)
(***************************************************************************)
EXTENDS Integers, Sequences, FiniteSetsExt

CONSTANTS Byte,                \* the values of a byte
          RequestedCapacity    \* the constructor's argument

ASSUME CapacityAssumption == RequestedCapacity \in Nat
ASSUME ByteAssumption == Byte # {}

\* The constructor never makes an empty array.
capacity_ == IF RequestedCapacity > 0 THEN RequestedCapacity ELSE 1

VARIABLES
  buffer_,          \* the array: every slot holds some byte, garbage at first
  read_pos_,        \* slot of the oldest byte
  write_pos_,       \* slot the next byte goes to
  readable_size_,   \* number of bytes held
  status            \* the Status the last operation returned

vars == <<buffer_, read_pos_, write_pos_, readable_size_, status>>

Slot == 0..capacity_-1

TypeOK ==
  /\ buffer_ \in [Slot -> Byte]
  /\ read_pos_ \in Slot
  /\ write_pos_ \in Slot
  /\ readable_size_ \in 0..capacity_
  /\ status \in {"Ok", "InvalidArgument", "BufferFull"}

-----------------------------------------------------------------------------
ReadableSize == readable_size_

WritableSize == capacity_ - readable_size_

Smaller(m, n) == IF m < n THEN m ELSE n

ContiguousWritableSize == Smaller(WritableSize, capacity_ - write_pos_)

\* Mutant: the end of the array is forgotten.
ContiguousReadableSizeOverEnd == ReadableSize

ContiguousReadableSize == Smaller(ReadableSize, capacity_ - read_pos_)

\* memcpy of the n bytes of data that follow the first skip ones, to the slots
\* that start at pos.
Memcpy(array, pos, data, skip, n) ==
  [s \in Slot |-> IF s \in pos..(pos + n - 1) THEN data[skip + s - pos + 1]
                                             ELSE array[s]]

\* The array is new char[capacity_], not cleared.
Init ==
  /\ buffer_ \in [Slot -> Byte]
  /\ read_pos_ = 0
  /\ write_pos_ = 0
  /\ readable_size_ = 0
  /\ status = "Ok"

\* Mutant: the part that runs over the end is not copied.
CopiedOnePart(data) ==
  Memcpy(buffer_, write_pos_, data, 0, Smaller(Len(data), capacity_ - write_pos_))

\* The array after Write's copy to the free slots, in two parts when it runs
\* over the end.
Copied(data) ==
  LET size == Len(data)
      first_part == capacity_ - write_pos_
  IN IF size > first_part
     THEN Memcpy(Memcpy(buffer_, write_pos_, data, 0, first_part),
                 0, data, first_part, size - first_part)
     ELSE Memcpy(buffer_, write_pos_, data, 0, size)

\* Mutant: the size is compared with the capacity, not with the room left.
WriteUnchecked(data) ==
  /\ Len(data) \in 1..capacity_
  /\ buffer_' = Copied(data)
  /\ write_pos_' = (write_pos_ + Len(data)) % capacity_
  /\ readable_size_' = readable_size_ + Len(data)
  /\ status' = "Ok"
  /\ UNCHANGED read_pos_

Write(data) ==
  /\ Len(data) # 0
  /\ Len(data) <= WritableSize
  /\ buffer_' = Copied(data)
  /\ write_pos_' = (write_pos_ + Len(data)) % capacity_
  /\ readable_size_' = readable_size_ + Len(data)
  /\ status' = "Ok"
  /\ UNCHANGED read_pos_

\* Write's two early returns.
WriteRefused(data) ==
  /\ \/ Len(data) = 0 /\ status' = "InvalidArgument"
     \/ /\ Len(data) > WritableSize
        /\ Len(data) # 0
        /\ status' = "BufferFull"
  /\ UNCHANGED <<buffer_, read_pos_, write_pos_, readable_size_>>

\* Mutant: the read position does not come round.
ConsumeNoWrap(n) ==
  LET size == Smaller(n, readable_size_)
  IN /\ read_pos_' = read_pos_ + size
     /\ readable_size_' = readable_size_ - size
     /\ UNCHANGED <<buffer_, write_pos_, status>>

\* Consume: a size above what is held is cut down to it.
Consume(n) ==
  LET size == Smaller(n, readable_size_)
  IN /\ read_pos_' = (read_pos_ + size) % capacity_
     /\ readable_size_' = readable_size_ - size
     /\ UNCHANGED <<buffer_, write_pos_, status>>

\* Mutant: the write position is left behind.
ProduceInPlace(n) ==
  /\ write_pos_' = write_pos_
  /\ readable_size_' = readable_size_ + Smaller(n, WritableSize)

\* Produce: likewise for the room that is left.
Produce(n) ==
  LET size == Smaller(n, WritableSize)
  IN /\ write_pos_' = (write_pos_ + size) % capacity_
     /\ readable_size_' = readable_size_ + size

\* How Connection::Recv fills the buffer: recv() stores data at WritePtr, at
\* most ContiguousWritableSize of it, and Produce makes it readable.
Fill(data) ==
  /\ Len(data) \in 1..ContiguousWritableSize
  /\ buffer_' = Memcpy(buffer_, write_pos_, data, 0, Len(data))
  /\ Produce(Len(data))
  /\ status' = "Ok"
  /\ UNCHANGED read_pos_

\* The arguments operations are called with: sizes from zero to one byte more
\* than the array holds.
Data == UNION {[1..n -> Byte] : n \in 0..capacity_+1}

Next ==
  \/ \E data \in Data : Write(data) \/ WriteRefused(data) \/ Fill(data)
  \/ \E n \in 0..capacity_+1 : Consume(n)

Spec == Init /\ [][Next]_vars

-----------------------------------------------------------------------------
\* The observers.  The array is read by offset from read_pos_.

\* The bytes from slot pos on, n of them, as memcpy reads them.
Segment(pos, n) == [i \in 1..n |-> buffer_[pos + i - 1]]

\* Mutant: the two parts in the wrong order.
PeekSwapped(size) ==
  LET first_part == capacity_ - read_pos_
  IN IF size > first_part
     THEN Segment(0, size - first_part) \o Segment(read_pos_, first_part)
     ELSE Segment(read_pos_, size)

\* Peek's copy of the first size bytes, in two parts over the end.
Peek(size) ==
  LET first_part == capacity_ - read_pos_
  IN IF size > first_part
     THEN Segment(read_pos_, first_part) \o Segment(0, size - first_part)
     ELSE Segment(read_pos_, size)

npos == -1

\* max_search_len = 0 stands for no limit.
SearchLen(max_search_len) ==
  IF max_search_len > 0 THEN Smaller(max_search_len, readable_size_)
                        ELSE readable_size_

\* memchr over n slots from pos: offset of the first c, or npos.
Memchr(pos, c, n) ==
  LET found == {k \in 0..n-1 : buffer_[pos + k] = c}
  IN IF found = {} THEN npos ELSE Min(found)

FindChar(c, max_search_len) ==
  LET search_len == SearchLen(max_search_len)
      contiguous == ContiguousReadableSize
      before == Memchr(read_pos_, c, Smaller(search_len, contiguous))
      after == Memchr(0, c, search_len - contiguous)
  IN IF before # npos THEN before
     ELSE IF after # npos THEN contiguous + after ELSE npos

\* Mutant: a match across the end of the array is missed.
FindSubstringContiguous(substr, max_search_len) ==
  LET found == {i \in 0..SearchLen(max_search_len) - Len(substr) :
                  /\ read_pos_ + i + Len(substr) <= capacity_
                  /\ Segment(read_pos_ + i, Len(substr)) = substr}
  IN IF substr = <<>> \/ found = {} THEN npos ELSE Min(found)

\* The first offset at which every character matches; a match may run over
\* the end of the array but not over search_len.
FindSubstring(substr, max_search_len) ==
  LET search_len == SearchLen(max_search_len)
      char_pos(i, j) == (((read_pos_ + i) % capacity_) + j) % capacity_
      found == {i \in 0..search_len - Len(substr) :
                  \A j \in 0..Len(substr)-1 :
                     buffer_[char_pos(i, j)] = substr[j + 1]}
  IN IF substr = <<>> \/ found = {} THEN npos ELSE Min(found)

\* The (at most two) pieces of memory that Flush hands to send or writev.
GetReadableIoVec ==
  LET contiguous == ContiguousReadableSize
      remaining == readable_size_ - contiguous
  IN IF readable_size_ = 0 THEN <<>>
     ELSE IF remaining > 0
     THEN <<[base |-> read_pos_, len |-> contiguous],
            [base |-> 0, len |-> remaining]>>
     ELSE <<[base |-> read_pos_, len |-> contiguous]>>

-----------------------------------------------------------------------------
\* The refinement mapping: the bytes a reader is still going to see.
contents ==
  [i \in 1..readable_size_ |-> buffer_[(read_pos_ + i - 1) % capacity_]]

Fifo == INSTANCE ByteFifo WITH queue <- contents, Capacity <- capacity_

\* The ring buffer is a byte queue: it starts empty and every step changes the
\* readable bytes as some step of a bounded queue does, whatever the positions,
\* the wrap-around and the clamping (ring_buffer.cc:29-146).
ImplementsFifo == Fifo!FifoSpec

\* An operation does what the queue's operation does for the same argument.
Match ==
  /\ \A data \in Data : /\ Write(data) \/ Fill(data) => Fifo!Put(data)
                        /\ WriteRefused(data) => Fifo!Refuse(data)
  /\ \A n \in 0..capacity_+1 : Consume(n) => Fifo!Take(n)

\* What comes out is what was put in: Write(data) and a recv of data append
\* data itself to the readable bytes, a refused Write leaves them alone, and
\* Consume(n) removes the n oldest (ring_buffer.cc:29-146).
OperationsMatchFifo == [][Match]_vars

\* The three position fields agree: write_pos_ is readable_size_ slots after
\* read_pos_, also when the array is exactly full or empty and the two
\* positions coincide (ring_buffer.cc:56, 132, 144).
PositionsAgree == write_pos_ = (read_pos_ + readable_size_) % capacity_

\* Flush sends the right bytes: the io vectors stay inside the array, none is
\* empty, and put together they are the readable bytes in order
\* (ring_buffer.cc:217-237).
IoVecIsContents ==
  LET iov == GetReadableIoVec
      bytes(k) == Segment(iov[k].base, iov[k].len)
  IN /\ \A k \in DOMAIN iov : /\ iov[k].len > 0
                              /\ iov[k].base + iov[k].len <= capacity_
     /\ CASE Len(iov) = 0 -> contents = <<>>
          [] Len(iov) = 1 -> contents = bytes(1)
          [] OTHER        -> contents = bytes(1) \o bytes(2)

\* Peek of any size that is there gives the oldest bytes (ring_buffer.cc:61-88).
PeekReadsOldest ==
  \A n \in 1..readable_size_ : Peek(n) = SubSeq(contents, 1, n)

\* The reference for a search: the first place in the readable bytes, cut at
\* the limit, where needle stands.
FirstIn(needle, max) ==
  LET text == IF max > 0 /\ max < Len(contents) THEN SubSeq(contents, 1, max)
                                               ELSE contents
      at == {i \in 0..Len(text) - Len(needle) :
               SubSeq(text, i + 1, i + Len(needle)) = needle}
  IN IF at = {} THEN npos ELSE Min(at)

\* Needles from one byte to one byte more than the array holds, so that some
\* are as long as the contents and some can never be found.
Needle == UNION {[1..n -> Byte] : n \in 1..capacity_+1}

\* Both searches give the first occurrence in the readable bytes, also when it
\* lies across the end of the array or the limit falls inside it
\* (ring_buffer.cc:148-215).
SearchesFindFirst ==
  \A max \in 0..capacity_+1 :
    /\ \A c \in Byte : FindChar(c, max) = FirstIn(<<c>>, max)
    /\ \A needle \in Needle : FindSubstring(needle, max) = FirstIn(needle, max)

=============================================================================
