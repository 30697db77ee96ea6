-------------------------- MODULE RingBufferProofs --------------------------
(***************************************************************************)
(* The ring buffer is a byte queue for every capacity and every set of     *)
(* bytes.  The argument: positions stay in step (IInv), and then each      *)
(* operation changes the readable bytes as the queue operation does, slot  *)
(* by slot.  The arithmetic of % is kept in three lemmas.                  *)
(***************************************************************************)
EXTENDS RingBuffer, SequenceTheorems, NatLemmas, TLAPS

LEMMA CapacityPositive == capacity_ \in Nat \ {0}
BY CapacityAssumption DEF capacity_

\* What % does below twice the modulus, all the code ever asks of it.
LEMMA ModSmall ==
  ASSUME NEW c \in Nat \ {0}, NEW x \in 0..c-1
  PROVE  x % c = x
OBVIOUS

LEMMA ModWrapped ==
  ASSUME NEW c \in Nat \ {0}, NEW x \in c..2*c-1
  PROVE  x % c = x - c
OBVIOUS

\* Both cases at once, for a sum of a position and a size.
LEMMA ModSum ==
  ASSUME NEW c \in Nat \ {0}, NEW p \in 0..c-1, NEW n \in 0..c
  PROVE  /\ (p + n) % c \in 0..c-1
         /\ (p + n) % c = IF p + n < c THEN p + n ELSE p + n - c
<1>1. CASE p + n < c
  <2>1. p + n \in 0..c-1
    BY <1>1
  <2>2. (p + n) % c = p + n
    BY <2>1, ModSmall
  <2> QED BY <2>1, <2>2, <1>1
<1>2. CASE ~(p + n < c)
  <2>1. p + n \in c..2*c-1
    BY <1>2
  <2>2. (p + n) % c = p + n - c
    BY <2>1, ModWrapped
  <2> QED BY <2>1, <2>2, <1>2
<1> QED BY <1>1, <1>2

-----------------------------------------------------------------------------
\* The inductive invariant: types, and positions that agree.
IInv == TypeOK /\ PositionsAgree

\* One memcpy inside the array keeps it an array of bytes.
LEMMA MemcpyType ==
  ASSUME NEW array \in [Slot -> Byte], NEW pos \in Int, NEW m \in Nat,
         NEW data \in [1..m -> Byte], NEW skip \in Nat, NEW n \in Nat,
         skip + n <= m
  PROVE  Memcpy(array, pos, data, skip, n) \in [Slot -> Byte]
<1> SUFFICES ASSUME NEW s \in Slot, s \in pos..(pos + n - 1)
             PROVE  data[skip + s - pos + 1] \in Byte
  BY DEF Memcpy
<1>1. capacity_ \in Nat /\ s \in Int
  BY CapacityPositive DEF Slot
<1>2. skip + s - pos + 1 \in 1..m
  BY <1>1
<1> QED BY <1>2

\* What an argument of an operation is.
LEMMA DataType ==
  ASSUME NEW data \in Data
  PROVE  /\ Len(data) \in 0..capacity_+1
         /\ data \in [1..Len(data) -> Byte]
         /\ data \in Seq(Byte)
<1>1. PICK n \in 0..capacity_+1 : data \in [1..n -> Byte]
  BY DEF Data
<1>2. n \in Nat
  BY <1>1, CapacityPositive
<1>3. data \in Seq(Byte) /\ Len(data) = n
  BY <1>1, <1>2
<1> QED BY <1>1, <1>3

LEMMA InitIInv == Init => IInv
<1> SUFFICES ASSUME Init PROVE IInv
  OBVIOUS
<1>1. 0 % capacity_ = 0
  BY CapacityPositive, ModSmall
<1> QED BY <1>1, CapacityPositive DEF Init, IInv, TypeOK, PositionsAgree, Slot

\* Every operation keeps IInv.
LEMMA NextIInv == IInv /\ [Next]_vars => IInv'
<1> SUFFICES ASSUME IInv, [Next]_vars PROVE IInv'
  OBVIOUS
<1> USE CapacityPositive
<1>0. /\ read_pos_ \in 0..capacity_-1 /\ write_pos_ \in 0..capacity_-1
      /\ readable_size_ \in 0..capacity_
      /\ buffer_ \in [Slot -> Byte]
      /\ write_pos_ = IF read_pos_ + readable_size_ < capacity_
                      THEN read_pos_ + readable_size_
                      ELSE read_pos_ + readable_size_ - capacity_
  BY ModSum DEF IInv, TypeOK, PositionsAgree, Slot
<1>grow. ASSUME NEW n \in 0..capacity_ - readable_size_,
                read_pos_' = read_pos_,
                write_pos_' = (write_pos_ + n) % capacity_,
                readable_size_' = readable_size_ + n
         PROVE  /\ read_pos_' \in Slot /\ write_pos_' \in Slot
                /\ readable_size_' \in 0..capacity_
                /\ PositionsAgree'
  <2>1. n \in 0..capacity_ /\ readable_size_ + n \in 0..capacity_
    BY <1>0
  <2>2. /\ write_pos_' \in 0..capacity_-1
        /\ write_pos_' = IF write_pos_ + n < capacity_ THEN write_pos_ + n
                         ELSE write_pos_ + n - capacity_
    BY <1>grow, <1>0, <2>1, ModSum
  <2>3. (read_pos_ + (readable_size_ + n)) % capacity_
          = IF read_pos_ + (readable_size_ + n) < capacity_
            THEN read_pos_ + (readable_size_ + n)
            ELSE read_pos_ + (readable_size_ + n) - capacity_
    BY <1>0, <2>1, ModSum
  <2>4. (read_pos_ + (readable_size_ + n)) % capacity_ = write_pos_'
    BY <1>0, <2>1, <2>2, <2>3
  <2> QED BY <1>0, <1>grow, <2>1, <2>2, <2>4 DEF PositionsAgree, Slot
<1>1. ASSUME NEW data \in Data, Write(data)
      PROVE  IInv'
  <2> DEFINE first == capacity_ - write_pos_
             size == Len(data)
  <2>1. /\ size \in 1..capacity_ - readable_size_
        /\ data \in [1..size -> Byte]
    BY <1>0, <1>1, DataType DEF Write, WritableSize
  <2>2. buffer_' \in [Slot -> Byte]
    <3>1. CASE size > first
      <4>1. Memcpy(buffer_, write_pos_, data, 0, first) \in [Slot -> Byte]
        <5>1. first \in Nat /\ 0 + first <= size /\ size \in Nat
              /\ write_pos_ \in Int /\ 0 \in Nat
          BY <1>0, <2>1, <3>1
        <5> HIDE DEF first, size
        <5> QED BY <5>1, <2>1, <1>0, MemcpyType
      <4>2. Memcpy(Memcpy(buffer_, write_pos_, data, 0, first),
                   0, data, first, size - first) \in [Slot -> Byte]
        <5>1. first \in Nat /\ size - first \in Nat /\ 0 \in Int
              /\ first + (size - first) <= size /\ size \in Nat
          BY <1>0, <2>1, <3>1
        <5> HIDE DEF first, size
        <5> QED BY <5>1, <4>1, <2>1, MemcpyType
      <4> QED BY <3>1, <4>2, <1>1 DEF Write, Copied
    <3>2. CASE ~(size > first)
      <4>1. size \in Nat /\ 0 + size <= size /\ write_pos_ \in Int /\ 0 \in Nat
        BY <1>0, <2>1
      <4>2. Memcpy(buffer_, write_pos_, data, 0, size) \in [Slot -> Byte]
        <5> HIDE DEF size
        <5> QED BY <4>1, <2>1, <1>0, MemcpyType
      <4> QED BY <3>2, <4>2, <1>1 DEF Write, Copied
    <3> QED BY <3>1, <3>2
  <2>3. size \in 0..capacity_ - readable_size_
    BY <2>1, <1>0
  <2> QED BY <1>1, <1>grow, <2>2, <2>3 DEF Write, IInv, TypeOK
<1>2. ASSUME NEW data \in Data, WriteRefused(data)
      PROVE  IInv'
  BY <1>2 DEF WriteRefused, IInv, TypeOK, PositionsAgree
<1>3. ASSUME NEW data \in Data, Fill(data)
      PROVE  IInv'
  <2> DEFINE size == Len(data)
  <2>1. /\ size \in 1..capacity_ - readable_size_
        /\ data \in [1..size -> Byte]
        /\ size <= capacity_ - write_pos_
    BY <1>0, <1>3, DataType
    DEF Fill, ContiguousWritableSize, WritableSize, Smaller
  <2>2. Memcpy(buffer_, write_pos_, data, 0, size) \in [Slot -> Byte]
    <3>1. size \in Nat /\ 0 + size <= size /\ write_pos_ \in Int /\ 0 \in Nat
      BY <1>0, <2>1
    <3> HIDE DEF size
    <3> QED BY <3>1, <2>1, <1>0, MemcpyType
  <2>3. size \in 0..capacity_ - readable_size_
    BY <2>1, <1>0
  <2>4. /\ write_pos_' = (write_pos_ + size) % capacity_
        /\ readable_size_' = readable_size_ + size
    <3>1. Smaller(size, WritableSize) = size
      BY <1>0, <2>1 DEF Smaller, WritableSize
    <3> QED BY <1>3, <3>1 DEF Fill, Produce
  <2> QED BY <1>3, <1>grow, <2>2, <2>3, <2>4 DEF Fill, IInv, TypeOK
<1>4. ASSUME NEW n \in 0..capacity_+1, Consume(n)
      PROVE  IInv'
  <2> DEFINE size == Smaller(n, readable_size_)
  <2>1. size \in 0..readable_size_ /\ size \in 0..capacity_
    BY <1>0 DEF Smaller
  <2>2. /\ read_pos_' \in 0..capacity_-1
        /\ read_pos_' = IF read_pos_ + size < capacity_ THEN read_pos_ + size
                        ELSE read_pos_ + size - capacity_
    <3> HIDE DEF size
    <3>1. read_pos_' = (read_pos_ + size) % capacity_
      BY <1>4 DEF Consume, size
    <3> QED BY <1>0, <3>1, <2>1, ModSum
  <2>3. readable_size_' = readable_size_ - size /\ write_pos_' = write_pos_
    BY <1>4 DEF Consume
  <2>4. readable_size_' \in 0..capacity_
    <3> HIDE DEF size
    <3> QED BY <1>0, <2>1, <2>3
  <2>5. (read_pos_' + readable_size_') % capacity_
          = IF read_pos_' + readable_size_' < capacity_
            THEN read_pos_' + readable_size_'
            ELSE read_pos_' + readable_size_' - capacity_
    BY <2>2, <2>4, ModSum
  <2>6. PositionsAgree'
    <3> HIDE DEF size
    <3> QED BY <1>0, <2>1, <2>2, <2>3, <2>4, <2>5 DEF PositionsAgree
  <2> QED BY <1>4, <2>2, <2>4, <2>6, <1>0 DEF Consume, IInv, TypeOK, Slot
<1>5. CASE UNCHANGED vars
  BY <1>5 DEF vars, IInv, TypeOK, PositionsAgree
<1> QED BY <1>1, <1>2, <1>3, <1>4, <1>5 DEF Next

\* The fields of RingBuffer keep their types (positions inside the array, a
\* count that never exceeds the capacity), for every capacity.
THEOREM RingTypeCorrect == Spec => []TypeOK
<1>1. IInv => TypeOK
  BY DEF IInv
<1> QED BY <1>1, InitIInv, NextIInv, PTL DEF Spec

\* write_pos_ stays readable_size_ slots after read_pos_, for every capacity.
THEOREM RingPositionsAgree == Spec => []PositionsAgree
<1>1. IInv => PositionsAgree
  BY DEF IInv
<1> QED BY <1>1, InitIInv, NextIInv, PTL DEF Spec

-----------------------------------------------------------------------------
\* The slot of the i-th readable byte, and of the k-th byte after them.
ReadSlot(i) == (read_pos_ + i - 1) % capacity_
WriteSlot(k) == (write_pos_ + k - 1) % capacity_

\* The readable bytes are a sequence of readable_size_ bytes.
LEMMA ContentsType ==
  ASSUME TypeOK
  PROVE  /\ contents \in Seq(Byte)
         /\ Len(contents) = readable_size_
         /\ DOMAIN contents = 1..readable_size_
<1> USE CapacityPositive
<1>1. /\ read_pos_ \in 0..capacity_-1 /\ readable_size_ \in 0..capacity_
      /\ buffer_ \in [Slot -> Byte] /\ readable_size_ \in Nat
  BY DEF TypeOK, Slot
<1>2. ASSUME NEW i \in 1..readable_size_
      PROVE  buffer_[(read_pos_ + i - 1) % capacity_] \in Byte
  <2>1. i - 1 \in 0..capacity_ /\ read_pos_ + i - 1 = read_pos_ + (i - 1)
    BY <1>1
  <2>2. (read_pos_ + (i - 1)) % capacity_ \in 0..capacity_-1
    BY <1>1, <2>1, ModSum
  <2> QED BY <1>1, <2>1, <2>2 DEF Slot
<1>3. contents \in [1..readable_size_ -> Byte]
  BY <1>2 DEF contents
<1> QED BY <1>1, <1>3

\* Where the i-th readable byte and the k-th free slot lie, without %.
LEMMA SlotValues ==
  ASSUME IInv
  PROVE  /\ \A i \in 1..readable_size_ :
              /\ ReadSlot(i) \in 0..capacity_-1
              /\ ReadSlot(i) = IF read_pos_ + i - 1 < capacity_
                               THEN read_pos_ + i - 1
                               ELSE read_pos_ + i - 1 - capacity_
         /\ \A k \in 1..capacity_ - readable_size_ :
              /\ WriteSlot(k) \in 0..capacity_-1
              /\ WriteSlot(k) = IF write_pos_ + k - 1 < capacity_
                                THEN write_pos_ + k - 1
                                ELSE write_pos_ + k - 1 - capacity_
              /\ WriteSlot(k) = (read_pos_ + (readable_size_ + k) - 1) % capacity_
              /\ \A i \in 1..readable_size_ : ReadSlot(i) # WriteSlot(k)
<1> USE CapacityPositive
<1>0. /\ read_pos_ \in 0..capacity_-1 /\ write_pos_ \in 0..capacity_-1
      /\ readable_size_ \in 0..capacity_
      /\ write_pos_ = IF read_pos_ + readable_size_ < capacity_
                      THEN read_pos_ + readable_size_
                      ELSE read_pos_ + readable_size_ - capacity_
  BY ModSum DEF IInv, TypeOK, PositionsAgree, Slot
<1>1. ASSUME NEW i \in 1..readable_size_
      PROVE  /\ ReadSlot(i) \in 0..capacity_-1
             /\ ReadSlot(i) = IF read_pos_ + i - 1 < capacity_
                              THEN read_pos_ + i - 1
                              ELSE read_pos_ + i - 1 - capacity_
  <2>1. i - 1 \in 0..capacity_ /\ read_pos_ + i - 1 = read_pos_ + (i - 1)
    BY <1>0
  <2> QED BY <1>0, <2>1, ModSum DEF ReadSlot
<1>2. ASSUME NEW k \in 1..capacity_ - readable_size_
      PROVE  /\ WriteSlot(k) \in 0..capacity_-1
             /\ WriteSlot(k) = IF write_pos_ + k - 1 < capacity_
                               THEN write_pos_ + k - 1
                               ELSE write_pos_ + k - 1 - capacity_
             /\ WriteSlot(k) = (read_pos_ + (readable_size_ + k) - 1) % capacity_
             /\ \A i \in 1..readable_size_ : ReadSlot(i) # WriteSlot(k)
  <2> DEFINE m == readable_size_ + k - 1
  <2>1. /\ k - 1 \in 0..capacity_ /\ write_pos_ + k - 1 = write_pos_ + (k - 1)
        /\ m \in 0..capacity_
        /\ read_pos_ + (readable_size_ + k) - 1 = read_pos_ + m
    BY <1>0
  <2>2. /\ WriteSlot(k) \in 0..capacity_-1
        /\ WriteSlot(k) = IF write_pos_ + k - 1 < capacity_
                          THEN write_pos_ + k - 1
                          ELSE write_pos_ + k - 1 - capacity_
    BY <1>0, <2>1, ModSum DEF WriteSlot
  <2>3. (read_pos_ + m) % capacity_
          = IF read_pos_ + m < capacity_ THEN read_pos_ + m
                                         ELSE read_pos_ + m - capacity_
    <3> HIDE DEF m
    <3> QED BY <1>0, <2>1, ModSum
  <2>4. WriteSlot(k) = (read_pos_ + m) % capacity_
    BY <1>0, <2>2, <2>3
  <2>5. \A i \in 1..readable_size_ : ReadSlot(i) # WriteSlot(k)
    BY <1>0, <1>1, <2>2
  <2> QED BY <2>1, <2>2, <2>4, <2>5
<1> QED BY <1>1, <1>2

\* Bytes stored in the free slots in order are appended to the readable ones.
LEMMA Appended ==
  ASSUME IInv, NEW data \in Data,
         Len(data) \in 1..capacity_ - readable_size_,
         read_pos_' = read_pos_,
         readable_size_' = readable_size_ + Len(data),
         \A k \in 1..Len(data) : buffer_'[WriteSlot(k)] = data[k],
         \A i \in 1..readable_size_ :
            buffer_'[ReadSlot(i)] = buffer_[ReadSlot(i)]
  PROVE  contents' = contents \o data
<1> USE CapacityPositive
<1> DEFINE n == Len(data)
<1>1. /\ contents \in Seq(Byte) /\ Len(contents) = readable_size_
      /\ data \in Seq(Byte) /\ readable_size_ \in 0..capacity_
      /\ n \in 1..capacity_ - readable_size_
  BY ContentsType, DataType DEF IInv, TypeOK
<1>2. /\ contents \o data \in Seq(Byte)
      /\ Len(contents \o data) = readable_size_ + n
  BY <1>1
<1>3. contents' = [i \in 1..readable_size_ + n |->
                      buffer_'[(read_pos_ + i - 1) % capacity_]]
  BY DEF contents
<1>4. ASSUME NEW i \in 1..readable_size_ + n
      PROVE  buffer_'[(read_pos_ + i - 1) % capacity_] = (contents \o data)[i]
  <2>1. CASE i <= readable_size_
    <3>1. i \in 1..readable_size_
      BY <2>1, <1>1
    <3>2. (contents \o data)[i] = contents[i]
      BY <3>1, <1>1
    <3> QED BY <3>1, <3>2 DEF contents, ReadSlot
  <2>2. CASE ~(i <= readable_size_)
    <3> DEFINE k == i - readable_size_
    <3>1. k \in 1..n /\ i = readable_size_ + k /\ k \in 1..capacity_ - readable_size_
      BY <2>2, <1>1
    <3>2. (contents \o data)[i] = data[k]
      BY <3>1, <1>1, <2>2
    <3>3. WriteSlot(k) = (read_pos_ + (readable_size_ + k) - 1) % capacity_
      <4> HIDE DEF k
      <4> QED BY <3>1, SlotValues
    <3> QED BY <3>1, <3>2, <3>3
  <2> QED BY <2>1, <2>2
<1>5. contents' \in [1..readable_size_ + n -> Byte]
  <2>1. \A i \in 1..readable_size_ + n : (contents \o data)[i] \in Byte
    BY <1>2, <1>1, ElementOfSeq
  <2> QED BY <1>3, <1>4, <2>1
<1>6. contents' \in Seq(Byte) /\ Len(contents') = readable_size_ + n
  BY <1>5, <1>1
<1>7. \A i \in 1..Len(contents') : contents'[i] = (contents \o data)[i]
  BY <1>3, <1>4, <1>6
<1> QED BY <1>2, <1>6, <1>7, SeqEqual

\* Consuming size bytes drops the first size readable ones.
LEMMA Dropped ==
  ASSUME IInv, NEW size \in 0..readable_size_,
         read_pos_' = (read_pos_ + size) % capacity_,
         readable_size_' = readable_size_ - size,
         buffer_' = buffer_
  PROVE  contents' = SubSeq(contents, size + 1, readable_size_)
<1> USE CapacityPositive
<1> DEFINE m == readable_size_ - size
<1>1. /\ contents \in Seq(Byte) /\ Len(contents) = readable_size_
      /\ readable_size_ \in 0..capacity_ /\ m \in 0..readable_size_
      /\ read_pos_ \in 0..capacity_-1
      /\ size \in 0..capacity_
  BY ContentsType DEF IInv, TypeOK, Slot
<1>2. /\ SubSeq(contents, size + 1, readable_size_) \in Seq(Byte)
      /\ Len(SubSeq(contents, size + 1, readable_size_)) = m
      /\ \A i \in 1..m : SubSeq(contents, size + 1, readable_size_)[i]
                           = contents[size + i]
  <2>1. \A i \in size+1..readable_size_ : contents[i] \in Byte
    BY <1>1, ElementOfSeq
  <2>2. \A i \in 1..m : size + 1 + i - 1 = size + i
    BY <1>1
  <2> QED BY <1>1, <2>1, <2>2, SubSeqProperties
<1>3. contents' = [i \in 1..m |-> buffer_[(read_pos_' + i - 1) % capacity_]]
  BY DEF contents
<1>4. ASSUME NEW i \in 1..m
      PROVE  (read_pos_' + i - 1) % capacity_ = ReadSlot(size + i)
  <2>1. /\ read_pos_' \in 0..capacity_-1
        /\ read_pos_' = IF read_pos_ + size < capacity_ THEN read_pos_ + size
                        ELSE read_pos_ + size - capacity_
    BY <1>1, ModSum
  <2>2. i - 1 \in 0..capacity_ /\ read_pos_' + i - 1 = read_pos_' + (i - 1)
    BY <1>1, <2>1
  <2>3. (read_pos_' + i - 1) % capacity_
          = IF read_pos_' + (i - 1) < capacity_ THEN read_pos_' + (i - 1)
            ELSE read_pos_' + (i - 1) - capacity_
    BY <2>1, <2>2, ModSum
  <2>4. size + i \in 1..readable_size_
    BY <1>1
  <2>5. ReadSlot(size + i) = IF read_pos_ + (size + i) - 1 < capacity_
                             THEN read_pos_ + (size + i) - 1
                             ELSE read_pos_ + (size + i) - 1 - capacity_
    BY <2>4, SlotValues
  <2> QED BY <1>1, <2>1, <2>3, <2>5, SMTT(30)
<1>5. ASSUME NEW i \in 1..m
      PROVE  contents'[i] = contents[size + i] /\ contents[size + i] \in Byte
  <2>1. size + i \in 1..readable_size_
    BY <1>1
  <2>2. contents[size + i] = buffer_[ReadSlot(size + i)]
    BY <2>1 DEF contents, ReadSlot
  <2> QED BY <1>1, <1>3, <1>4, <2>1, <2>2, ElementOfSeq
<1>6. contents' \in [1..m -> Byte]
  BY <1>3, <1>5
<1>7. contents' \in Seq(Byte) /\ Len(contents') = m
  BY <1>6, <1>1
<1> QED BY <1>2, <1>5, <1>7, SeqEqual

\* The copy puts the k-th byte in the k-th free slot and leaves the readable
\* bytes alone, wrapped or not.
LEMMA CopyStores ==
  ASSUME IInv, NEW data \in Data,
         Len(data) \in 1..capacity_ - readable_size_,
         buffer_' = Copied(data)
  PROVE  /\ \A k \in 1..Len(data) : buffer_'[WriteSlot(k)] = data[k]
         /\ \A i \in 1..readable_size_ :
              buffer_'[ReadSlot(i)] = buffer_[ReadSlot(i)]
<1> USE CapacityPositive
<1> DEFINE first == capacity_ - write_pos_
           size == Len(data)
<1>0. /\ read_pos_ \in 0..capacity_-1 /\ write_pos_ \in 0..capacity_-1
      /\ readable_size_ \in 0..capacity_
      /\ size \in 1..capacity_ - readable_size_
  BY DEF IInv, TypeOK, Slot
<1>1. ASSUME NEW s \in Slot
      PROVE  buffer_'[s] =
               IF s \in write_pos_..(write_pos_ + size - 1)
               THEN data[s - write_pos_ + 1]
               ELSE IF s \in 0..(size - first - 1) THEN data[first + s + 1]
               ELSE buffer_[s]
  <2>0. s \in 0..capacity_-1
    BY DEF Slot
  <2>1. CASE size > first
    <3>1. buffer_'[s] =
            IF s \in 0..(0 + (size - first) - 1) THEN data[first + s - 0 + 1]
            ELSE IF s \in write_pos_..(write_pos_ + first - 1)
            THEN data[0 + s - write_pos_ + 1]
            ELSE buffer_[s]
      BY <2>1 DEF Copied, Memcpy
    <3>2. /\ first + s - 0 + 1 = first + s + 1
          /\ 0 + s - write_pos_ + 1 = s - write_pos_ + 1
          /\ 0 + (size - first) - 1 = size - first - 1
      BY <1>0, <2>0
    <3>3. /\ s \in write_pos_..(write_pos_ + first - 1)
               <=> s \in write_pos_..(write_pos_ + size - 1)
          /\ ~(s \in write_pos_..(write_pos_ + size - 1)
               /\ s \in 0..(size - first - 1))
      BY <1>0, <2>0, <2>1
    <3> QED BY <3>1, <3>2, <3>3
  <2>2. CASE ~(size > first)
    <3>1. buffer_'[s] =
            IF s \in write_pos_..(write_pos_ + size - 1)
            THEN data[0 + s - write_pos_ + 1] ELSE buffer_[s]
      BY <2>2 DEF Copied, Memcpy
    <3>2. /\ 0 + s - write_pos_ + 1 = s - write_pos_ + 1
          /\ s \notin 0..(size - first - 1)
      BY <1>0, <2>0, <2>2
    <3> QED BY <3>1, <3>2
  <2> QED BY <2>1, <2>2
<1>2. ASSUME NEW k \in 1..size
      PROVE  buffer_'[WriteSlot(k)] = data[k]
  <2>1. /\ WriteSlot(k) \in 0..capacity_-1
        /\ WriteSlot(k) = IF write_pos_ + k - 1 < capacity_
                          THEN write_pos_ + k - 1
                          ELSE write_pos_ + k - 1 - capacity_
    BY <1>0, SlotValues
  <2>2. WriteSlot(k) \in Slot
    BY <2>1 DEF Slot
  <2>3. CASE write_pos_ + k - 1 < capacity_
    <3>1. /\ WriteSlot(k) \in write_pos_..(write_pos_ + size - 1)
          /\ WriteSlot(k) - write_pos_ + 1 = k
      BY <1>0, <2>1, <2>3
    <3> QED BY <1>1, <2>2, <3>1
  <2>4. CASE ~(write_pos_ + k - 1 < capacity_)
    <3>1. /\ WriteSlot(k) \notin write_pos_..(write_pos_ + size - 1)
          /\ WriteSlot(k) \in 0..(size - first - 1)
          /\ first + WriteSlot(k) + 1 = k
      BY <1>0, <2>1, <2>4
    <3> QED BY <1>1, <2>2, <3>1
  <2> QED BY <2>3, <2>4
<1>3. ASSUME NEW i \in 1..readable_size_
      PROVE  buffer_'[ReadSlot(i)] = buffer_[ReadSlot(i)]
  <2>1. /\ ReadSlot(i) \in 0..capacity_-1
        /\ \A k \in 1..capacity_ - readable_size_ : ReadSlot(i) # WriteSlot(k)
    BY SlotValues
  <2>2. ReadSlot(i) \in Slot
    BY <2>1 DEF Slot
  <2>3. ReadSlot(i) \notin write_pos_..(write_pos_ + size - 1)
    <3> SUFFICES ASSUME ReadSlot(i) \in write_pos_..(write_pos_ + size - 1)
                 PROVE  FALSE
      OBVIOUS
    <3> DEFINE k == ReadSlot(i) - write_pos_ + 1
    <3>1. /\ k \in 1..capacity_ - readable_size_
          /\ write_pos_ + k - 1 = ReadSlot(i)
      BY <1>0, <2>1
    <3> HIDE DEF k
    <3>2. WriteSlot(k) = ReadSlot(i)
      BY <2>1, <3>1, SlotValues
    <3> QED BY <2>1, <3>1, <3>2
  <2>4. ReadSlot(i) \notin 0..(size - first - 1)
    <3> SUFFICES ASSUME ReadSlot(i) \in 0..(size - first - 1)
                 PROVE  FALSE
      OBVIOUS
    <3> DEFINE k == first + ReadSlot(i) + 1
    <3>1. /\ k \in 1..capacity_ - readable_size_
          /\ write_pos_ + k - 1 = ReadSlot(i) + capacity_
      BY <1>0, <2>1
    <3> HIDE DEF k
    <3>2. WriteSlot(k) = IF write_pos_ + k - 1 < capacity_
                         THEN write_pos_ + k - 1
                         ELSE write_pos_ + k - 1 - capacity_
      BY <3>1, SlotValues
    <3>3. WriteSlot(k) = ReadSlot(i)
      <4>1. ~(write_pos_ + k - 1 < capacity_)
        BY <2>1, <3>1
      <4> QED BY <1>0, <2>1, <3>1, <3>2, <4>1
    <3> QED BY <2>1, <3>1, <3>3
  <2> QED BY <1>1, <2>2, <2>3, <2>4
<1> QED BY <1>2, <1>3

-----------------------------------------------------------------------------
\* Every operation of the ring buffer is the queue's operation on the same
\* argument.
LEMMA OperationMatches == IInv => Match
<1> SUFFICES ASSUME IInv PROVE Match
  OBVIOUS
<1> USE CapacityPositive
<1>0. /\ read_pos_ \in 0..capacity_-1 /\ write_pos_ \in 0..capacity_-1
      /\ readable_size_ \in 0..capacity_
      /\ Len(contents) = readable_size_ /\ contents \in Seq(Byte)
  BY ContentsType DEF IInv, TypeOK, Slot
<1>1. ASSUME NEW data \in Data, Write(data)
      PROVE  Fifo!Put(data)
  <2>1. Len(data) \in 1..capacity_ - readable_size_ /\ data # <<>>
    BY <1>0, <1>1, DataType DEF Write, WritableSize
  <2>2. buffer_' = Copied(data)
    BY <1>1 DEF Write
  <2>3. contents' = contents \o data
    BY <1>1, <2>1, <2>2, CopyStores, Appended DEF Write
  <2> QED BY <1>0, <1>1, <2>1, <2>3 DEF Write, Fifo!Put
<1>2. ASSUME NEW data \in Data, WriteRefused(data)
      PROVE  Fifo!Refuse(data)
  <2>1. contents' = contents
    BY <1>2 DEF WriteRefused, contents
  <2>2. Len(data) = 0 <=> data = <<>>
    BY DataType, EmptySeq
  <2> QED BY <1>0, <1>2, <2>1, <2>2, DataType
          DEF WriteRefused, WritableSize, Fifo!Refuse
<1>3. ASSUME NEW data \in Data, Fill(data)
      PROVE  Fifo!Put(data)
  <2>1. /\ Len(data) \in 1..capacity_ - readable_size_ /\ data # <<>>
        /\ Len(data) <= capacity_ - write_pos_
    BY <1>0, <1>3, DataType
    DEF Fill, ContiguousWritableSize, WritableSize, Smaller
  <2>2. buffer_' = Copied(data)
    <3>1. ~(Len(data) > capacity_ - write_pos_)
      BY <1>0, <2>1
    <3> QED BY <1>3, <3>1 DEF Fill, Copied
  <2>3. readable_size_' = readable_size_ + Len(data)
    <3>1. Smaller(Len(data), WritableSize) = Len(data)
      BY <1>0, <2>1 DEF Smaller, WritableSize
    <3> QED BY <1>3, <3>1 DEF Fill, Produce
  <2>4. contents' = contents \o data
    BY <1>3, <2>1, <2>2, <2>3, CopyStores, Appended DEF Fill
  <2> QED BY <1>0, <1>3, <2>1, <2>4 DEF Fill, Fifo!Put
<1>4. ASSUME NEW n \in 0..capacity_+1, Consume(n)
      PROVE  Fifo!Take(n)
  <2> DEFINE size == Smaller(n, readable_size_)
  <2>1. size \in 0..readable_size_
    BY <1>0 DEF Smaller
  <2>2. contents' = SubSeq(contents, size + 1, readable_size_)
    <3>1. /\ read_pos_' = (read_pos_ + size) % capacity_
          /\ readable_size_' = readable_size_ - size
          /\ buffer_' = buffer_
      BY <1>4 DEF Consume
    <3> HIDE DEF size
    <3> QED BY <2>1, <3>1, Dropped
  <2>3. CASE n < readable_size_
    BY <1>0, <1>4, <2>2, <2>3 DEF Fifo!Take, Consume, Smaller
  <2>4. CASE ~(n < readable_size_)
    <3>1. size = readable_size_
      BY <2>4 DEF Smaller
    <3>2. contents' = <<>>
      BY <1>0, <2>2, <3>1, SubSeqEmpty
    <3> QED BY <1>0, <1>4, <2>4, <3>2 DEF Fifo!Take, Consume
  <2> QED BY <2>3, <2>4
<1> QED BY <1>1, <1>2, <1>3, <1>4 DEF Match

\* So every step is a step of the queue, or changes nothing.
LEMMA StepRefines ==
  ASSUME IInv, [Next]_vars
  PROVE  [Fifo!FifoNext]_(Fifo!fvars)
<1>1. Data = Fifo!Payload
  BY DEF Data, Fifo!Payload
<1>2. CASE UNCHANGED vars
  BY <1>2 DEF vars, contents, Fifo!fvars
<1>3. CASE Next
  BY <1>1, <1>3, OperationMatches DEF Next, Match, Fifo!FifoNext
<1> QED BY <1>2, <1>3

\* Whatever the capacity and the bytes, Write and recv append exactly their
\* data, a refused Write leaves no trace, and Consume removes the oldest bytes.
THEOREM RingOperationsMatchFifo == Spec => OperationsMatchFifo
<1>1. IInv => [Match]_vars
  BY OperationMatches
<1> QED BY <1>1, InitIInv, NextIInv, PTL DEF Spec, OperationsMatchFifo

\* The ring buffer implements the bounded byte queue, for every capacity and
\* every set of bytes: it starts empty, and no step does to the readable bytes
\* what a queue would not do.
THEOREM RingImplementsFifo == Spec => ImplementsFifo
<1>1. Init => Fifo!FifoInit
  <2> SUFFICES ASSUME Init PROVE contents = <<>> /\ status = "Ok"
    BY DEF Fifo!FifoInit
  <2>1. contents \in Seq(Byte) /\ Len(contents) = 0
    BY InitIInv, ContentsType DEF Init, IInv
  <2> QED BY <2>1, EmptySeq DEF Init
<1>2. IInv /\ [Next]_vars => [Fifo!FifoNext]_(Fifo!fvars)
  BY StepRefines
<1> QED BY <1>1, <1>2, InitIInv, NextIInv, PTL
        DEF Spec, ImplementsFifo, Fifo!FifoSpec

-----------------------------------------------------------------------------
\* A segment inside the array is a sequence of its bytes.
LEMMA SegmentType ==
  ASSUME TypeOK, NEW pos \in Nat, NEW n \in Nat, pos + n <= capacity_
  PROVE  /\ Segment(pos, n) \in Seq(Byte) /\ Len(Segment(pos, n)) = n
         /\ \A i \in 1..n : Segment(pos, n)[i] = buffer_[pos + i - 1]
<1> USE CapacityPositive
<1>1. ASSUME NEW i \in 1..n PROVE buffer_[pos + i - 1] \in Byte
  <2>1. pos + i - 1 \in 0..capacity_-1
    OBVIOUS
  <2> QED BY <2>1 DEF TypeOK, Slot
<1>2. Segment(pos, n) \in [1..n -> Byte]
  BY <1>1 DEF Segment
<1>3. \A i \in 1..n : Segment(pos, n)[i] = buffer_[pos + i - 1]
  BY DEF Segment
<1> QED BY <1>2, <1>3

\* Peek copies the first n readable bytes, over the end of the array or not.
LEMMA PeekBytes ==
  ASSUME IInv, NEW n \in 1..readable_size_
  PROVE  /\ Peek(n) \in Seq(Byte) /\ Len(Peek(n)) = n
         /\ \A i \in 1..n : Peek(n)[i] = contents[i]
<1> USE CapacityPositive
<1> DEFINE first == capacity_ - read_pos_
<1>1. /\ TypeOK /\ read_pos_ \in 0..capacity_-1 /\ readable_size_ \in 0..capacity_
      /\ n \in 1..capacity_ /\ first \in 1..capacity_
  BY DEF IInv, TypeOK, Slot
<1>2. ASSUME NEW i \in 1..n
      PROVE  contents[i] = buffer_[IF i <= first THEN read_pos_ + i - 1
                                                 ELSE i - first - 1]
  <2>1. i \in 1..readable_size_
    BY <1>1
  <2>2. contents[i] = buffer_[ReadSlot(i)]
    BY <2>1 DEF contents, ReadSlot
  <2>3. ReadSlot(i) = IF read_pos_ + i - 1 < capacity_
                      THEN read_pos_ + i - 1 ELSE read_pos_ + i - 1 - capacity_
    BY <2>1, SlotValues
  <2>4. ReadSlot(i) = IF i <= first THEN read_pos_ + i - 1 ELSE i - first - 1
    BY <1>1, <2>3
  <2> QED BY <2>2, <2>4
<1>3. CASE n <= first
  <2>1. Peek(n) = Segment(read_pos_, n)
    BY <1>1, <1>3 DEF Peek
  <2>2. read_pos_ \in Nat /\ n \in Nat /\ read_pos_ + n <= capacity_
    BY <1>1, <1>3
  <2>3. /\ Peek(n) \in Seq(Byte) /\ Len(Peek(n)) = n
        /\ \A i \in 1..n : Peek(n)[i] = buffer_[read_pos_ + i - 1]
    BY <1>1, <2>1, <2>2, SegmentType, ZenonT(30)
  <2>4. \A i \in 1..n : i <= first
    BY <1>1, <1>3
  <2> QED BY <1>2, <2>3, <2>4
<1>4. CASE ~(n <= first)
  <2> DEFINE a == Segment(read_pos_, first)
             b == Segment(0, n - first)
  <2>1. Peek(n) = a \o b
    BY <1>1, <1>4 DEF Peek
  <2>2. /\ read_pos_ \in Nat /\ first \in Nat /\ read_pos_ + first <= capacity_
        /\ 0 \in Nat /\ n - first \in Nat /\ 0 + (n - first) <= capacity_
    BY <1>1, <1>4
  <2>3. /\ a \in Seq(Byte) /\ Len(a) = first
        /\ \A i \in 1..first : a[i] = buffer_[read_pos_ + i - 1]
    BY <1>1, <2>2, SegmentType
  <2>4. /\ b \in Seq(Byte) /\ Len(b) = n - first
        /\ \A i \in 1..n - first : b[i] = buffer_[0 + i - 1]
    BY <1>1, <2>2, SegmentType
  <2> HIDE DEF a, b
  <2>5. Peek(n) \in Seq(Byte) /\ Len(Peek(n)) = n
    <3>1. a \o b \in Seq(Byte) /\ Len(a \o b) = Len(a) + Len(b)
      BY <2>3, <2>4, ConcatProperties
    <3>2. Len(a) + Len(b) = n
      BY <1>1, <2>3, <2>4
    <3> QED BY <2>1, <3>1, <3>2
  <2>6. ASSUME NEW i \in 1..n PROVE Peek(n)[i] = contents[i]
    <3>1. CASE i <= first
      <4>1. i \in 1..first
        BY <1>1, <3>1
      <4>2. (a \o b)[i] = a[i]
        BY <4>1, <2>3, <2>4, <1>1
      <4> QED BY <1>2, <2>1, <2>3, <3>1, <4>1, <4>2
    <3>2. CASE ~(i <= first)
      <4>1. i - first \in 1..n - first /\ 0 + (i - first) - 1 = i - first - 1
        BY <1>1, <3>2
      <4>2. (a \o b)[i] = b[i - first]
        BY <4>1, <2>3, <2>4, <1>1, <3>2
      <4>3. b[i - first] = buffer_[i - first - 1]
        BY <2>4, <4>1
      <4> QED BY <1>2, <2>1, <3>2, <4>2, <4>3
    <3> QED BY <3>1, <3>2
  <2> QED BY <2>5, <2>6
<1> QED BY <1>3, <1>4

\* The same as an equation between sequences.
LEMMA PeekIsPrefix ==
  ASSUME IInv, NEW n \in 1..readable_size_
  PROVE  Peek(n) = SubSeq(contents, 1, n)
<1> DEFINE prefix == SubSeq(contents, 1, n)
<1>1. /\ contents \in Seq(Byte) /\ Len(contents) = readable_size_
      /\ readable_size_ \in Nat /\ n \in 1..readable_size_
  BY ContentsType, CapacityPositive DEF IInv, TypeOK
<1>2. /\ prefix \in Seq(Byte) /\ Len(prefix) = n
      /\ \A i \in 1..n : prefix[i] = contents[i]
  <2>1. \A i \in 1..n : contents[i] \in Byte
    BY <1>1, ElementOfSeq
  <2>2. \A i \in 1..n : 1 + i - 1 = i
    BY <1>1
  <2> QED BY <1>1, <2>1, <2>2, SubSeqProperties
<1>3. /\ Peek(n) \in Seq(Byte) /\ Len(Peek(n)) = n
      /\ \A i \in 1..n : Peek(n)[i] = contents[i]
  BY PeekBytes
<1> HIDE DEF prefix
<1>4. Peek(n) = prefix
  BY <1>2, <1>3, SeqEqual
<1> QED BY <1>4 DEF prefix

\* Peek gives the oldest bytes, for every capacity, every position and every
\* number of bytes that are there (ring_buffer.cc:61-88).
THEOREM RingPeekReadsOldest == Spec => []PeekReadsOldest
<1>1. IInv => PeekReadsOldest
  BY PeekIsPrefix DEF PeekReadsOldest
<1> QED BY <1>1, InitIInv, NextIInv, PTL DEF Spec

\* The io vectors lie inside the array and hold the readable bytes in order: the
\* two of them are what Peek copies.
LEMMA IoVecHolds == IInv => IoVecIsContents
<1> SUFFICES ASSUME IInv PROVE IoVecIsContents
  OBVIOUS
<1> USE CapacityPositive
<1> DEFINE first == capacity_ - read_pos_
           one == [base |-> read_pos_, len |-> readable_size_]
           head == [base |-> read_pos_, len |-> first]
           tail == [base |-> 0, len |-> readable_size_ - first]
<1>1. /\ read_pos_ \in 0..capacity_-1 /\ readable_size_ \in 0..capacity_
      /\ contents \in Seq(Byte) /\ Len(contents) = readable_size_
      /\ first \in 1..capacity_
  BY ContentsType DEF IInv, TypeOK, Slot
<1>2. CASE readable_size_ = 0
  <2>1. GetReadableIoVec = <<>>
    BY <1>2 DEF GetReadableIoVec
  <2>2. contents = <<>>
    BY <1>1, <1>2, EmptySeq
  <2> QED BY <2>1, <2>2 DEF IoVecIsContents
<1>3. readable_size_ # 0 => contents = Peek(readable_size_)
  <2> SUFFICES ASSUME readable_size_ # 0 PROVE contents = Peek(readable_size_)
    OBVIOUS
  <2>1. readable_size_ \in 1..readable_size_
    BY <1>1
  <2>2. /\ Peek(readable_size_) \in Seq(Byte)
        /\ Len(Peek(readable_size_)) = readable_size_
        /\ \A i \in 1..readable_size_ : Peek(readable_size_)[i] = contents[i]
    BY <2>1, PeekBytes
  <2> QED BY <1>1, <2>2, SeqEqual
<1>4. CASE readable_size_ # 0 /\ readable_size_ <= first
  <2>1. GetReadableIoVec = <<one>>
    BY <1>1, <1>4 DEF GetReadableIoVec, ContiguousReadableSize, ReadableSize, Smaller
  <2>2. contents = Segment(read_pos_, readable_size_)
    BY <1>1, <1>3, <1>4 DEF Peek
  <2>3. one.len > 0 /\ one.base + one.len <= capacity_
    BY <1>1, <1>4
  <2>4. contents = Segment(one.base, one.len)
    BY <2>2
  <2> HIDE DEF one
  <2> QED BY <2>1, <2>3, <2>4 DEF IoVecIsContents
<1>5. CASE readable_size_ > first
  <2>1. GetReadableIoVec = <<head, tail>>
    BY <1>1, <1>5 DEF GetReadableIoVec, ContiguousReadableSize, ReadableSize, Smaller
  <2>2. contents = Segment(read_pos_, first) \o Segment(0, readable_size_ - first)
    BY <1>1, <1>3, <1>5 DEF Peek
  <2>3. /\ head.len > 0 /\ head.base + head.len <= capacity_
        /\ tail.len > 0 /\ tail.base + tail.len <= capacity_
    BY <1>1, <1>5
  <2>4. contents = Segment(head.base, head.len) \o Segment(tail.base, tail.len)
    BY <2>2
  <2> HIDE DEF head, tail
  <2> QED BY <2>1, <2>3, <2>4 DEF IoVecIsContents
<1> QED BY <1>1, <1>2, <1>4, <1>5

\* The io vectors Flush hands to writev are the readable bytes, in order and
\* within the array, for every capacity (ring_buffer.cc:217-237).
THEOREM RingIoVecIsContents == Spec => []IoVecIsContents
BY IoVecHolds, InitIInv, NextIInv, PTL DEF Spec

-----------------------------------------------------------------------------
\* Where needle stands in the first len readable bytes, byte by byte.
Hits(needle, len) ==
  {i \in 0..len - Len(needle) :
     \A j \in 0..Len(needle)-1 : contents[i + j + 1] = needle[j + 1]}

\* What a search gives for a set of places.
FirstOf(places) == IF places = {} THEN npos ELSE Min(places)

\* FirstIn's text.
Text(max) == IF max > 0 /\ max < Len(contents) THEN SubSeq(contents, 1, max)
                                               ELSE contents

\* What a needle is.
LEMMA NeedleType ==
  ASSUME NEW needle \in Needle
  PROVE  needle \in Seq(Byte) /\ Len(needle) \in Nat \ {0} /\ needle # <<>>
<1>1. PICK n \in 1..capacity_+1 : needle \in [1..n -> Byte]
  BY DEF Needle
<1>2. n \in Nat \ {0}
  BY <1>1, CapacityPositive
<1>3. needle \in Seq(Byte) /\ Len(needle) = n
  BY <1>1, <1>2
<1> QED BY <1>2, <1>3

\* A lower bound that belongs to the set is its Min.
LEMMA MinUnique ==
  ASSUME NEW S \in SUBSET Nat, NEW x \in S, \A y \in S : x <= y
  PROVE  Min(S) = x
<1>1. Min(S) \in S /\ Min(S) <= x
  BY MinIsLeast
<1>2. x <= Min(S) /\ Min(S) \in Nat /\ x \in Nat
  BY <1>1
<1> QED BY <1>1, <1>2

\* A search looks at a number of bytes that are there, and the text of the
\* reference is those bytes.
LEMMA TextIsPrefix ==
  ASSUME IInv, NEW max \in Nat
  PROVE  /\ SearchLen(max) \in 0..readable_size_
         /\ Text(max) \in Seq(Byte) /\ Len(Text(max)) = SearchLen(max)
         /\ \A i \in 1..SearchLen(max) : Text(max)[i] = contents[i]
<1>1. /\ contents \in Seq(Byte) /\ Len(contents) = readable_size_
      /\ readable_size_ \in Nat /\ max \in Nat
  BY ContentsType, CapacityPositive DEF IInv, TypeOK
<1>2. CASE max > 0 /\ max < readable_size_
  <2>1. SearchLen(max) = max /\ Text(max) = SubSeq(contents, 1, max)
    BY <1>1, <1>2 DEF SearchLen, Smaller, Text
  <2>2. max \in 1..readable_size_
    BY <1>1, <1>2
  <2>3. \A i \in 1..max : contents[i] \in Byte
    BY <1>1, <2>2, ElementOfSeq
  <2>4. \A i \in 1..max : 1 + i - 1 = i
    BY <1>1
  <2>5. /\ SubSeq(contents, 1, max) \in Seq(Byte)
        /\ Len(SubSeq(contents, 1, max)) = max
        /\ \A i \in 1..max : SubSeq(contents, 1, max)[i] = contents[i]
    BY <1>1, <2>2, <2>3, <2>4, SubSeqProperties
  <2> QED BY <1>1, <2>1, <2>2, <2>5
<1>3. CASE ~(max > 0 /\ max < readable_size_)
  <2>1. SearchLen(max) = readable_size_ /\ Text(max) = contents
    BY <1>1, <1>3 DEF SearchLen, Smaller, Text
  <2> QED BY <1>1, <2>1
<1> QED BY <1>2, <1>3

\* The reference compares whole sequences; byte by byte it is Hits.
LEMMA ReferenceIsHits ==
  ASSUME IInv, NEW max \in Nat, NEW needle \in Seq(Byte),
         Len(needle) \in Nat \ {0}
  PROVE  FirstIn(needle, max) = FirstOf(Hits(needle, SearchLen(max)))
<1> DEFINE len == SearchLen(max)
           m == Len(needle)
           text == Text(max)
           at == {i \in 0..Len(text) - m : SubSeq(text, i + 1, i + m) = needle}
<1>1. /\ len \in 0..readable_size_ /\ text \in Seq(Byte) /\ Len(text) = len
      /\ \A i \in 1..len : text[i] = contents[i]
  BY TextIsPrefix
<1>2. readable_size_ \in Nat /\ len \in Nat /\ m \in Nat \ {0}
  BY <1>1, CapacityPositive DEF IInv, TypeOK
<1>3. FirstIn(needle, max) = FirstOf(at)
  BY DEF FirstIn, FirstOf, Text
<1> HIDE DEF len, m, text
<1>4. ASSUME NEW i \in 0..len - m
      PROVE  SubSeq(text, i + 1, i + m) = needle
               <=> \A j \in 0..m-1 : contents[i + j + 1] = needle[j + 1]
  <2> DEFINE part == SubSeq(text, i + 1, i + m)
  <2>1. /\ i \in Nat /\ i + 1 \in 1..len /\ i + m \in i..len
        /\ (i + m) - (i + 1) + 1 = m
    BY <1>2
  <2>2. \A j \in (i + 1)..(i + m) : text[j] \in Byte
    <3>1. \A j \in (i + 1)..(i + m) : j \in 1..Len(text)
      BY <1>1, <1>2, <2>1
    <3> QED BY <3>1, <1>1, ElementOfSeq
  <2>3. /\ part \in Seq(Byte) /\ Len(part) = m
        /\ \A k \in 1..m : part[k] = text[i + k]
    <3>1. \A k \in 1..m : i + 1 + k - 1 = i + k
      BY <1>2, <2>1
    <3>2. i + 1 \in 1..Len(text) /\ i + m \in i + 1 .. Len(text)
      BY <1>1, <1>2, <2>1
    <3> QED BY <1>1, <1>2, <2>1, <3>1, <3>2, <2>2, SubSeqProperties
  <2> HIDE DEF part
  <2>4. \A k \in 1..m : part[k] = contents[i + k]
    <3>1. \A k \in 1..m : i + k \in 1..len
      BY <1>2, <2>1
    <3> QED BY <3>1, <2>3, <1>1
  <2>5. part = needle <=> \A k \in 1..m : part[k] = needle[k]
    BY <2>3, SeqEqual DEF m
  <2>6. (\A k \in 1..m : contents[i + k] = needle[k])
          <=> \A j \in 0..m-1 : contents[i + j + 1] = needle[j + 1]
    <3>1. ASSUME NEW j \in 0..m-1
          PROVE  j + 1 \in 1..m /\ i + (j + 1) = i + j + 1
      BY <1>2, <2>1
    <3>2. ASSUME NEW k \in 1..m
          PROVE  k - 1 \in 0..m-1 /\ i + (k - 1) + 1 = i + k /\ (k - 1) + 1 = k
      BY <1>2, <2>1
    <3>3. ASSUME \A k \in 1..m : contents[i + k] = needle[k], NEW j \in 0..m-1
          PROVE  contents[i + j + 1] = needle[j + 1]
      BY <3>1, <3>3
    <3>4. ASSUME \A j \in 0..m-1 : contents[i + j + 1] = needle[j + 1],
                 NEW k \in 1..m
          PROVE  contents[i + k] = needle[k]
      BY <3>2, <3>4
    <3> QED BY <3>3, <3>4
  <2> QED BY <2>4, <2>5, <2>6 DEF part
<1>5. at = Hits(needle, len)
  BY <1>1, <1>4 DEF Hits, m
<1> QED BY <1>3, <1>5 DEF len

\* The slot FindSubstring compares is the slot of the readable byte.
LEMMA CharPos ==
  ASSUME IInv, NEW i \in Nat, NEW j \in Nat, i + j + 1 \in 1..readable_size_
  PROVE  (((read_pos_ + i) % capacity_) + j) % capacity_ = ReadSlot(i + j + 1)
<1> USE CapacityPositive
<1>1. /\ read_pos_ \in 0..capacity_-1 /\ readable_size_ \in 0..capacity_
  BY DEF IInv, TypeOK, Slot
<1>2. i \in 0..capacity_ /\ j \in 0..capacity_ /\ i + j \in 0..capacity_
  BY <1>1
<1>3. PICK p \in 0..capacity_-1 :
        /\ p = (read_pos_ + i) % capacity_
        /\ p = IF read_pos_ + i < capacity_ THEN read_pos_ + i
                                           ELSE read_pos_ + i - capacity_
  BY <1>1, <1>2, ModSum
<1>4. (p + j) % capacity_ = IF p + j < capacity_ THEN p + j ELSE p + j - capacity_
  BY <1>2, ModSum
<1>5. ReadSlot(i + j + 1) = IF read_pos_ + (i + j + 1) - 1 < capacity_
                            THEN read_pos_ + (i + j + 1) - 1
                            ELSE read_pos_ + (i + j + 1) - 1 - capacity_
  BY SlotValues
<1>6. (p + j) % capacity_ = ReadSlot(i + j + 1)
  <2>1. /\ p = IF read_pos_ + i < capacity_ THEN read_pos_ + i
                                           ELSE read_pos_ + i - capacity_
    BY <1>3
  <2> QED BY <1>1, <1>2, <1>4, <1>5, <2>1
<1> QED BY <1>3, <1>6

\* FindSubstring's comparison, slot by slot, is the reference's, byte by byte.
LEMMA FindSubstringIsHits ==
  ASSUME IInv, NEW max \in Nat, NEW needle,
         Len(needle) \in Nat \ {0}, needle # <<>>
  PROVE  FindSubstring(needle, max) = FirstOf(Hits(needle, SearchLen(max)))
<1> DEFINE len == SearchLen(max)
           m == Len(needle)
           found == {i \in 0..len - m : \A j \in 0..m-1 :
             buffer_[(((read_pos_ + i) % capacity_) + j) % capacity_]
               = needle[j + 1]}
<1>1. len \in 0..readable_size_ /\ readable_size_ \in Nat /\ m \in Nat \ {0}
  <2>1. len \in 0..readable_size_
    BY TextIsPrefix
  <2>2. readable_size_ \in Nat
    BY CapacityPositive DEF IInv, TypeOK
  <2> QED BY <2>1, <2>2
<1>2. FindSubstring(needle, max) = FirstOf(found)
  BY DEF FindSubstring, FirstOf
<1> HIDE DEF len, m
<1>3. ASSUME NEW i \in 0..len - m, NEW j \in 0..m-1
      PROVE  buffer_[(((read_pos_ + i) % capacity_) + j) % capacity_]
               = contents[i + j + 1]
  <2>1. i \in Nat /\ j \in Nat /\ i + j + 1 \in 1..readable_size_
    BY <1>1
  <2>2. (((read_pos_ + i) % capacity_) + j) % capacity_ = ReadSlot(i + j + 1)
    BY <2>1, CharPos
  <2>3. contents[i + j + 1] = buffer_[ReadSlot(i + j + 1)]
    BY <2>1 DEF contents, ReadSlot
  <2> QED BY <2>2, <2>3
<1>4. ASSUME NEW i \in 0..len - m
      PROVE  (\A j \in 0..m-1 :
                buffer_[(((read_pos_ + i) % capacity_) + j) % capacity_]
                  = needle[j + 1])
               <=> \A j \in 0..m-1 : contents[i + j + 1] = needle[j + 1]
  BY <1>3
<1>5. found = Hits(needle, len)
  BY <1>4 DEF Hits, m
<1> QED BY <1>2, <1>5 DEF len

\* FindChar's two memchr calls, before and after the end of the array, find the
\* first of the places; the second is asked only when the first has none.
LEMMA FindCharIsHits ==
  ASSUME IInv, NEW max \in Nat, NEW c \in Byte
  PROVE  FindChar(c, max) = FirstOf(Hits(<<c>>, SearchLen(max)))
<1> USE CapacityPositive
<1> DEFINE len == SearchLen(max)
           cont == ContiguousReadableSize
           first == Smaller(len, cont)
           B == {k \in 0..first-1 : buffer_[read_pos_ + k] = c}
           A == {k \in 0..(len - cont)-1 : buffer_[0 + k] = c}
           H == Hits(<<c>>, len)
<1>1. /\ read_pos_ \in 0..capacity_-1 /\ readable_size_ \in 0..capacity_
      /\ len \in 0..readable_size_
  <2>1. len \in 0..readable_size_
    BY TextIsPrefix
  <2> QED BY <2>1 DEF IInv, TypeOK, Slot
<1>2. /\ cont \in 0..readable_size_ /\ cont <= capacity_ - read_pos_
      /\ cont = readable_size_ \/ cont = capacity_ - read_pos_
  BY <1>1 DEF ContiguousReadableSize, ReadableSize, Smaller
<1>3. /\ first \in 0..len /\ first <= cont /\ (len <= cont => first = len)
      /\ (len > cont => first = cont /\ cont = capacity_ - read_pos_)
  <2> HIDE DEF len, cont
  <2> QED BY <1>1, <1>2 DEF Smaller
<1>4. FindChar(c, max) = IF FirstOf(B) # npos THEN FirstOf(B)
                         ELSE IF FirstOf(A) # npos THEN cont + FirstOf(A)
                         ELSE npos
  BY DEF FindChar, Memchr, FirstOf
<1> HIDE DEF len, cont, first
<1>5. ASSUME NEW i \in 0..len-1
      PROVE  contents[i + 1] = buffer_[IF read_pos_ + i < capacity_
                                       THEN read_pos_ + i
                                       ELSE read_pos_ + i - capacity_]
  <2>1. i + 1 \in 1..readable_size_ /\ read_pos_ + (i + 1) - 1 = read_pos_ + i
    BY <1>1
  <2>2. contents[i + 1] = buffer_[ReadSlot(i + 1)]
    BY <2>1 DEF contents, ReadSlot
  <2>3. ReadSlot(i + 1) = IF read_pos_ + (i + 1) - 1 < capacity_
                          THEN read_pos_ + (i + 1) - 1
                          ELSE read_pos_ + (i + 1) - 1 - capacity_
    BY <2>1, SlotValues
  <2> QED BY <2>1, <2>2, <2>3
<1>6. H = {i \in 0..len-1 : contents[i + 1] = c}
  <2>1. Len(<<c>>) = 1 /\ <<c>>[1] = c /\ 0..1-1 = {0}
    OBVIOUS
  <2>2. ASSUME NEW i \in 0..len-1
        PROVE  (\A j \in {0} : contents[i + j + 1] = <<c>>[j + 1])
                 <=> contents[i + 1] = c
    <3>1. i + 0 + 1 = i + 1 /\ 0 + 1 = 1
      BY <1>1
    <3> QED BY <2>1, <3>1
  <2> QED BY <2>1, <2>2 DEF Hits
<1>7. H \in SUBSET Nat /\ A \in SUBSET Nat /\ B \in SUBSET Nat
  BY <1>1, <1>2, <1>3, <1>6
<1>8. ASSUME NEW k \in 0..first-1
      PROVE  k \in H <=> k \in B
  <2>1. /\ k \in 0..len-1 /\ read_pos_ + k < capacity_
    BY <1>1, <1>2, <1>3
  <2> QED BY <1>5, <1>6, <2>1
<1>9. ASSUME NEW k \in 0..(len - cont)-1
      PROVE  cont + k \in H <=> k \in A
  <2>1. /\ cont + k \in 0..len-1 /\ read_pos_ + (cont + k) - capacity_ = 0 + k
        /\ ~(read_pos_ + (cont + k) < capacity_)
    BY <1>1, <1>2, <1>3
  <2>2. contents[(cont + k) + 1] = buffer_[0 + k]
    BY <1>5, <2>1
  <2> QED BY <1>6, <2>1, <2>2
<1>10. \A k \in B : k \in 0..first-1
  OBVIOUS
<1>11. \A k \in A : k \in 0..(len - cont)-1
  OBVIOUS
<1>12. \A i \in H : i \in 0..len-1
  BY <1>6
<1>13. ASSUME NEW i \in H, i \notin 0..first-1
       PROVE  i - cont \in A /\ i >= cont /\ i >= first
  <2>1. /\ i - cont \in 0..(len - cont)-1 /\ cont + (i - cont) = i /\ i >= cont
        /\ i >= first
    BY <1>1, <1>2, <1>3, <1>12, <1>13
  <2> QED BY <1>9, <2>1
<1> HIDE DEF A, B, H
<1>14. CASE B # {}
  <2>1. PICK x \in B : x = Min(B) /\ \A y \in B : x <= y
    BY <1>7, <1>14, MinIsLeast
  <2>2. x \in H /\ x \in 0..first-1
    BY <1>8, <1>10, <2>1
  <2>3. ASSUME NEW y \in H PROVE x <= y
    <3>1. CASE y \in 0..first-1
      BY <1>8, <2>1, <3>1
    <3>2. CASE y \notin 0..first-1
      BY <1>1, <1>3, <1>7, <1>13, <2>2, <3>2
    <3> QED BY <3>1, <3>2
  <2>4. Min(H) = x
    BY <1>7, <2>2, <2>3, MinUnique
  <2>5. FirstOf(B) = x /\ FirstOf(H) = x /\ x # npos
    BY <1>7, <1>14, <2>1, <2>2, <2>4 DEF FirstOf, npos
  <2> QED BY <1>4, <2>5 DEF H, len
<1>15. CASE B = {} /\ A # {}
  <2>1. PICK x \in A : x = Min(A) /\ \A y \in A : x <= y
    BY <1>7, <1>15, MinIsLeast
  <2>2. cont + x \in H /\ x \in Nat
    BY <1>7, <1>9, <1>11, <2>1
  <2>3. ASSUME NEW y \in H PROVE cont + x <= y
    <3>1. y \notin 0..first-1
      BY <1>8, <1>15
    <3>2. y - cont \in A
      BY <1>13, <3>1
    <3>3. x <= y - cont /\ y \in Nat /\ cont \in Nat
      BY <1>1, <1>2, <1>7, <2>1, <3>2
    <3> QED BY <2>2, <3>3
  <2>4. Min(H) = cont + x
    BY <1>7, <2>2, <2>3, MinUnique
  <2>5. /\ FirstOf(B) = npos /\ FirstOf(A) = x /\ FirstOf(A) # npos
        /\ FirstOf(H) = cont + x
    BY <1>15, <2>1, <2>2, <2>4 DEF FirstOf, npos
  <2> QED BY <1>4, <2>5 DEF H, len
<1>16. CASE B = {} /\ A = {}
  <2>1. H = {}
    BY <1>8, <1>13, <1>16
  <2>2. FirstOf(B) = npos /\ FirstOf(A) = npos /\ FirstOf(H) = npos
    BY <1>16, <2>1 DEF FirstOf
  <2> QED BY <1>4, <2>2 DEF H, len
<1> QED BY <1>14, <1>15, <1>16

\* The searches for any needle, however long, and any limit, a natural number:
\* in particular for the four bytes of the empty line that ends a request, the
\* one needle the program looks for (rtsp_server.cc:434).
EveryNeedleIsFound ==
  \A max \in Nat :
    /\ \A c \in Byte : FindChar(c, max) = FirstIn(<<c>>, max)
    /\ \A needle \in Seq(Byte) \ {<<>>} :
         FindSubstring(needle, max) = FirstIn(needle, max)

LEMMA EveryNeedleHolds == IInv => EveryNeedleIsFound
<1> SUFFICES ASSUME IInv, NEW max \in Nat
             PROVE  /\ \A c \in Byte : FindChar(c, max) = FirstIn(<<c>>, max)
                    /\ \A needle \in Seq(Byte) \ {<<>>} :
                         FindSubstring(needle, max) = FirstIn(needle, max)
  BY DEF EveryNeedleIsFound
<1>1. ASSUME NEW c \in Byte PROVE FindChar(c, max) = FirstIn(<<c>>, max)
  <2>1. <<c>> \in Seq(Byte) /\ Len(<<c>>) \in Nat \ {0}
    OBVIOUS
  <2> QED BY <2>1, FindCharIsHits, ReferenceIsHits
<1>2. ASSUME NEW needle \in Seq(Byte) \ {<<>>}
      PROVE  FindSubstring(needle, max) = FirstIn(needle, max)
  <2>1. Len(needle) \in Nat \ {0}
    BY EmptySeq
  <2> QED BY <2>1, FindSubstringIsHits, ReferenceIsHits
<1> QED BY <1>1, <1>2

\* Both searches give the first occurrence in the readable bytes, for every
\* capacity, every needle and every limit, wherever the occurrence and the
\* limit lie: across the end of the array or inside it (ring_buffer.cc:148-215).
THEOREM RingFindsEveryNeedle == Spec => []EveryNeedleIsFound
BY EveryNeedleHolds, InitIInv, NextIInv, PTL DEF Spec

\* The same for the needles and limits that the model checker tries, up to one
\* byte more than the array holds (ring_buffer.cc:148-215).
THEOREM RingSearchesFindFirst == Spec => []SearchesFindFirst
<1>1. EveryNeedleIsFound => SearchesFindFirst
  <2>1. \A max \in 0..capacity_+1 : max \in Nat
    BY CapacityPositive
  <2>2. \A needle \in Needle : needle \in Seq(Byte) \ {<<>>}
    BY NeedleType
  <2> QED BY <2>1, <2>2 DEF EveryNeedleIsFound, SearchesFindFirst
<1> QED BY <1>1, RingFindsEveryNeedle, PTL

=============================================================================
