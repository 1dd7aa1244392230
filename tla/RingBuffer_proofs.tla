-------------------------- MODULE RingBuffer_proofs --------------------------
(***************************************************************************)
(* Proofs about RingBuffer for every capacity, every byte alphabet and     *)
(* every set of pushed chunks and requested counts.                        *)
(***************************************************************************)
EXTENDS RingBuffer, TLAPS, SequenceTheorems

\* Below twice the capacity the modulo of an index is at most one subtraction.
Wrap(a, c) == IF a < c THEN a ELSE a - c

LEMMA ModWrap ==
  ASSUME NEW c \in Nat \ {0}, NEW a \in 0 .. 2 * c - 1
  PROVE  a % c = Wrap(a, c)
<1>1. CASE a < c
  BY <1>1, SMT DEF Wrap
<1>2. CASE a >= c
  BY <1>2, SMT DEF Wrap
<1> QED
  BY <1>1, <1>2

\* What push does to the head it also does to the end of the contents.
LEMMA WrapPush ==
  ASSUME NEW c \in Nat \ {0}, NEW t \in 0 .. c - 1, NEW k \in 0 .. c,
         NEW d \in Nat, k + d <= c
  PROVE  (((t + k) % c) + d) % c = (t + (k + d)) % c
<1>1. /\ t + k \in 0 .. 2 * c - 1
      /\ t + (k + d) \in 0 .. 2 * c - 1
      /\ Wrap(t + k, c) + d \in 0 .. 2 * c - 1
  BY DEF Wrap
<1>2. (t + k) % c = Wrap(t + k, c)
  BY <1>1, ModWrap, Zenon
<1>3. (Wrap(t + k, c) + d) % c = Wrap(Wrap(t + k, c) + d, c)
  BY <1>1, ModWrap, Zenon
<1>4. (t + (k + d)) % c = Wrap(t + (k + d), c)
  BY <1>1, ModWrap, Zenon
<1>5. Wrap(Wrap(t + k, c) + d, c) = Wrap(t + (k + d), c)
  BY DEF Wrap
<1> QED
  BY <1>2, <1>3, <1>4, <1>5, Zenon

LEMMA CalledType ==
  ASSUME NEW op \in {"RingBuffer", "push", "peek", "consume", "clear"},
         NEW data \in Seq(Byte), NEW n \in Nat
  PROVE  Fifo!Called(op, data, n) \in Call
  BY DEF Fifo!Called, Call

\* Each operation keeps the indices in range and the array an array of bytes.
THEOREM TypeCorrect == Spec => []TypeOK
<1> USE RingAssumption
<1> DEFINE Result == [threw : {"nothing", "overflow_error", "out_of_range"},
                      bytes : Seq(Byte)]
<1>0. 0 \in Nat /\ << >> \in Seq(Byte)
  OBVIOUS
<1>c. Fifo!Called("RingBuffer", << >>, 0) \in Call
  BY <1>0, CalledType
<1>1. Init => TypeOK
  BY <1>c DEF Init, TypeOK, Index, Fifo!Ok
<1>2. TypeOK /\ [Next]_vars => TypeOK'
  <2> SUFFICES ASSUME TypeOK, [Next]_vars
               PROVE  TypeOK'
    OBVIOUS
  <2>t. /\ m_buf \in [Index -> Byte]
        /\ m_head \in Index /\ m_tail \in Index
        /\ m_count \in 0 .. Capacity
    BY DEF TypeOK
  <2>c. call' \in Call
    <3>1. Chunk \subseteq Seq(Byte) /\ Request \subseteq Nat
      OBVIOUS
    <3>2. CASE UNCHANGED vars
      BY <3>2, Zenon DEF vars, TypeOK
    <3>3. CASE Next
      BY <1>0, <3>1, <3>3, CalledType DEF Next
    <3> QED
      BY <3>2, <3>3
  <2>1. ASSUME NEW data \in Chunk, PushFits(data)
        PROVE  TypeOK'
    <3>1. data \in Seq(Byte) /\ Len(data) \in Nat
      OBVIOUS
    <3>2. Written(data) \in [Index -> Byte]
      <4> DEFINE first_chunk == Least(Len(data), Capacity - m_head)
      <4>1. /\ first_chunk \in 0 .. Len(data)
            /\ \A j \in 1 .. Len(data) : data[j] \in Byte
        BY <2>t, <3>1 DEF Least, Index
      <4>2. ASSUME NEW i \in Index
            PROVE  (IF i >= m_head /\ i < m_head + first_chunk THEN data[i - m_head + 1]
                    ELSE IF i < Len(data) - first_chunk THEN data[first_chunk + i + 1]
                    ELSE m_buf[i]) \in Byte
        <5> HIDE DEF first_chunk
        <5>1. CASE i >= m_head /\ i < m_head + first_chunk
          <6>1. i - m_head + 1 \in 1 .. Len(data)
            BY <5>1, <2>t, <3>1, <4>1 DEF Index
          <6> QED BY <6>1, <5>1, <4>1
        <5>2. CASE ~(i >= m_head /\ i < m_head + first_chunk) /\ i < Len(data) - first_chunk
          <6>1. first_chunk + i + 1 \in 1 .. Len(data)
            BY <5>2, <3>1, <4>1 DEF Index
          <6> QED BY <6>1, <5>2, <4>1
        <5>3. CASE ~(i >= m_head /\ i < m_head + first_chunk) /\ ~(i < Len(data) - first_chunk)
          BY <5>3, <2>t
        <5> QED BY <5>1, <5>2, <5>3
      <4> QED BY <4>2 DEF Written
    <3>3. (m_head + Len(data)) % Capacity \in Index
      BY <2>t, <3>1 DEF Index
    <3>4. m_count + Len(data) \in 0 .. Capacity
      BY <2>1, <2>t, <3>1 DEF PushFits, free_space
    <3>5. result' \in Result
      BY <2>1 DEF PushFits, Fifo!Ok
    <3> QED
      BY <2>c, <2>1, <2>t, <3>2, <3>3, <3>4, <3>5, Zenon DEF PushFits, TypeOK
  <2>2. ASSUME NEW data \in Chunk, PushThrows(data)
        PROVE  TypeOK'
    BY <2>2, <2>c DEF PushThrows, TypeOK, Fifo!Throws
  <2>3. ASSUME NEW n \in Request, Peek(n)
        PROVE  TypeOK'
    <3>1. n <= m_count => Copied(n) \in Seq(Byte)
      BY <2>t DEF Copied, Least, Index
    <3>2. result' \in Result
      BY <2>3, <3>1 DEF Peek, Fifo!Returns, Fifo!Throws
    <3> QED
      BY <2>c, <2>3, <2>t, <3>2, Zenon DEF Peek, TypeOK
  <2>4. ASSUME NEW n \in Request, ConsumeFits(n)
        PROVE  TypeOK'
    <3>1. (m_tail + n) % Capacity \in Index
      BY <2>t DEF Index
    <3>2. m_count - n \in 0 .. Capacity
      BY <2>4, <2>t DEF ConsumeFits
    <3>3. result' \in Result
      BY <2>4 DEF ConsumeFits, Fifo!Ok
    <3> QED
      BY <2>c, <2>4, <2>t, <3>1, <3>2, <3>3, Zenon DEF ConsumeFits, TypeOK
  <2>5. ASSUME NEW n \in Request, ConsumeThrows(n)
        PROVE  TypeOK'
    BY <2>5, <2>c DEF ConsumeThrows, TypeOK, Fifo!Throws
  <2>6. CASE Clear
    BY <2>6, <2>c DEF Clear, TypeOK, Index, Fifo!Ok
  <2>7. CASE UNCHANGED vars
    BY <2>7, Zenon DEF vars, TypeOK
  <2> QED
    BY <2>1, <2>2, <2>3, <2>4, <2>5, <2>6, <2>7 DEF Next, Push, Consume
<1> QED
  BY <1>1, <1>2, PTL DEF Spec

-----------------------------------------------------------------------------
\* The head index always equals the tail index plus the count, modulo the
\* capacity, whatever calls have been made.
THEOREM HeadCorrect == Spec => []HeadFollowsContents
<1> USE RingAssumption
<1>1. Init => HeadFollowsContents
  BY DEF Init, HeadFollowsContents
<1>2. TypeOK /\ HeadFollowsContents /\ [Next]_vars => HeadFollowsContents'
  <2> SUFFICES ASSUME TypeOK, HeadFollowsContents, [Next]_vars
               PROVE  HeadFollowsContents'
    OBVIOUS
  <2>t. m_tail \in 0 .. Capacity - 1 /\ m_count \in 0 .. Capacity
    BY DEF TypeOK, Index
  <2>1. ASSUME NEW data \in Chunk, PushFits(data)
        PROVE  HeadFollowsContents'
    <3>1. Len(data) \in Nat
      OBVIOUS
    <3>2. m_count + Len(data) <= Capacity
      BY <2>1, <2>t, <3>1 DEF PushFits, free_space
    <3>3. (((m_tail + m_count) % Capacity) + Len(data)) % Capacity
            = (m_tail + (m_count + Len(data))) % Capacity
      BY <2>t, <3>1, <3>2, WrapPush
    <3> QED
      BY <2>1, <3>3, Zenon DEF PushFits, HeadFollowsContents
  <2>2. ASSUME NEW n \in Request, ConsumeFits(n)
        PROVE  HeadFollowsContents'
    <3>1. n \in Nat /\ n <= m_count
      BY <2>2 DEF ConsumeFits
    <3>2. (((m_tail + n) % Capacity) + (m_count - n)) % Capacity
            = (m_tail + m_count) % Capacity
      <4>1. m_count - n \in Nat /\ n + (m_count - n) = m_count /\ n \in 0 .. Capacity
        BY <2>t, <3>1
      <4> QED
        BY <4>1, <2>t, WrapPush
    <3> QED
      BY <2>2, <3>2, Zenon DEF ConsumeFits, HeadFollowsContents
  <2>3. CASE Clear
    <3>1. (0 + 0) % Capacity = 0
      BY ModWrap DEF Wrap
    <3> QED
      BY <2>3, <3>1, Zenon DEF Clear, HeadFollowsContents
  <2>4. CASE UNCHANGED <<m_buf, m_head, m_tail, m_count>>
    BY <2>4, Zenon DEF HeadFollowsContents
  <2> QED
    BY <2>1, <2>2, <2>3, <2>4
       DEF Next, Push, PushThrows, Peek, Consume, ConsumeThrows, vars
<1> QED
  BY <1>1, <1>2, TypeCorrect, PTL DEF Spec
-----------------------------------------------------------------------------
\* Contents as a function of the array, the tail and the count, so that it can
\* be used of the state before and of the state after a call.
Unread(b, t, k) == [i \in 1 .. k |-> b[(t + i - 1) % Capacity]]

LEMMA UnreadSeq ==
  ASSUME NEW b \in [Index -> Byte], NEW t \in Index, NEW k \in 0 .. Capacity
  PROVE  /\ Unread(b, t, k) \in Seq(Byte)
         /\ Len(Unread(b, t, k)) = k
         /\ \A i \in 1 .. k : Unread(b, t, k)[i] = b[Wrap(t + i - 1, Capacity)]
<1> USE RingAssumption
<1>2. ASSUME NEW i \in 1 .. k
      PROVE  /\ (t + i - 1) % Capacity = Wrap(t + i - 1, Capacity)
             /\ Wrap(t + i - 1, Capacity) \in Index
  <2>1. t + i - 1 \in 0 .. 2 * Capacity - 1
    BY DEF Index
  <2>2. Wrap(t + i - 1, Capacity) \in Index
    BY DEF Index, Wrap
  <2> QED
    BY <2>1, <2>2, ModWrap, Zenon
<1>3. Unread(b, t, k) = [i \in 1 .. k |-> b[Wrap(t + i - 1, Capacity)]]
  BY <1>2, Zenon DEF Unread
<1>4. \A i \in 1 .. k : b[Wrap(t + i - 1, Capacity)] \in Byte
  BY <1>2
<1> QED
  BY <1>3, <1>4

LEMMA ContentsSeq ==
  ASSUME TypeOK
  PROVE  /\ Contents \in Seq(Byte)
         /\ Len(Contents) = m_count
         /\ \A i \in 1 .. m_count : Contents[i] = m_buf[Wrap(m_tail + i - 1, Capacity)]
<1>1. m_buf \in [Index -> Byte] /\ m_tail \in Index /\ m_count \in 0 .. Capacity
  BY DEF TypeOK
<1>2. Contents = Unread(m_buf, m_tail, m_count)
  BY Zenon DEF Contents, Unread
<1> QED
  BY <1>1, <1>2, UnreadSeq, Zenon

LEMMA Concatenated ==
  ASSUME NEW s \in Seq(Byte), NEW t \in Seq(Byte), NEW k \in Nat, Len(s) = k
  PROVE  /\ s \o t \in Seq(Byte) /\ Len(s \o t) = k + Len(t)
         /\ \A i \in 1 .. k : (s \o t)[i] = s[i]
         /\ \A j \in 1 .. Len(t) : (s \o t)[k + j] = t[j]
  OBVIOUS

\* push appends its bytes: the bytes already there are not overwritten, and
\* the new ones are where peek will look for them.
LEMMA PushAppends ==
  ASSUME TypeOK, TypeOK', HeadFollowsContents, NEW data \in Chunk, PushFits(data)
  PROVE  Contents' = Contents \o data
<1> USE RingAssumption
<1>1. /\ m_buf \in [Index -> Byte] /\ m_tail \in Index /\ m_count \in 0 .. Capacity
      /\ data \in Seq(Byte) /\ Len(data) \in Nat
      /\ m_count + Len(data) <= Capacity
      /\ m_tail' = m_tail /\ m_count' = m_count + Len(data)
      /\ m_buf' = Written(data)
  BY DEF TypeOK, PushFits, free_space
<1>2. m_head = Wrap(m_tail + m_count, Capacity)
  <2>1. m_tail + m_count \in 0 .. 2 * Capacity - 1
    BY <1>1 DEF Index
  <2> QED
    BY <2>1, ModWrap, Zenon DEF HeadFollowsContents
<1>3. /\ Contents \in Seq(Byte) /\ Len(Contents) = m_count
      /\ \A i \in 1 .. m_count : Contents[i] = m_buf[Wrap(m_tail + i - 1, Capacity)]
  BY ContentsSeq, Zenon
<1>4. /\ Contents' \in Seq(Byte) /\ Len(Contents') = m_count + Len(data)
      /\ \A i \in 1 .. m_count + Len(data) :
           Contents'[i] = Written(data)[Wrap(m_tail + i - 1, Capacity)]
  <2>1. /\ Written(data) \in [Index -> Byte]
        /\ m_count + Len(data) \in 0 .. Capacity
    BY <1>1, Zenon DEF TypeOK
  <2>2. Contents' = Unread(Written(data), m_tail, m_count + Len(data))
    BY <1>1, Zenon DEF Contents, Unread
  <2> QED
    BY <1>1, <2>1, <2>2, UnreadSeq, Zenon
<1>5. ASSUME NEW i \in 1 .. m_count
      PROVE  Written(data)[Wrap(m_tail + i - 1, Capacity)] = m_buf[Wrap(m_tail + i - 1, Capacity)]
  <2>1. Wrap(m_tail + i - 1, Capacity) \in Index
    BY <1>1 DEF Wrap, Index
  <2> DEFINE first_chunk == Least(Len(data), Capacity - m_head)
             w == Wrap(m_tail + i - 1, Capacity)
  <2>2. ~(w >= m_head /\ w < m_head + first_chunk) /\ ~(w < Len(data) - first_chunk)
    BY <1>1, <1>2 DEF Least, Wrap, Index
  <2> QED
    BY <2>1, <2>2 DEF Written
<1>6. ASSUME NEW j \in 1 .. Len(data)
      PROVE  Written(data)[Wrap(m_tail + (m_count + j) - 1, Capacity)] = data[j]
  <2>1. Wrap(m_tail + (m_count + j) - 1, Capacity) \in Index
    BY <1>1 DEF Wrap, Index
  <2> QED
    BY <1>1, <1>2, <2>1 DEF Written, Least, Wrap, Index
<1>n. m_count \in Nat
  BY <1>1
<1>7. /\ Contents \o data \in Seq(Byte)
      /\ Len(Contents \o data) = m_count + Len(data)
      /\ \A i \in 1 .. m_count : (Contents \o data)[i] = Contents[i]
      /\ \A j \in 1 .. Len(data) : (Contents \o data)[m_count + j] = data[j]
  BY <1>1, <1>3, <1>n, Concatenated, Zenon
<1>8. ASSUME NEW i \in 1 .. m_count + Len(data)
      PROVE  Contents'[i] = (Contents \o data)[i]
  <2>1. CASE i \in 1 .. m_count
    BY <2>1, <1>3, <1>4, <1>5, <1>7
  <2>2. CASE i \notin 1 .. m_count
    <3>1. i - m_count \in 1 .. Len(data) /\ m_count + (i - m_count) = i
      BY <2>2, <1>1
    <3> QED
      BY <3>1, <1>4, <1>6, <1>7
  <2> QED
    BY <2>1, <2>2
<1> QED
  BY <1>4, <1>7, <1>8, SeqEqual

\* peek copies out the oldest bytes.
LEMMA PeekReads ==
  ASSUME TypeOK, NEW n \in 0 .. m_count
  PROVE  Copied(n) = SubSeq(Contents, 1, n)
<1> USE RingAssumption
<1>1. m_buf \in [Index -> Byte] /\ m_tail \in Index /\ m_count \in 0 .. Capacity
  BY DEF TypeOK
<1>2. /\ Contents \in Seq(Byte) /\ Len(Contents) = m_count
      /\ \A i \in 1 .. m_count : Contents[i] = m_buf[Wrap(m_tail + i - 1, Capacity)]
  BY ContentsSeq, Zenon
<1>3. ASSUME NEW i \in 1 .. n
      PROVE  Copied(n)[i] = Contents[i]
  <2>1. Contents[i] = m_buf[Wrap(m_tail + i - 1, Capacity)]
    BY <1>1, <1>2
  <2>2. Copied(n)[i] = m_buf[Wrap(m_tail + i - 1, Capacity)]
    BY <1>1 DEF Copied, Least, Wrap, Index
  <2> QED
    BY <2>1, <2>2
<1>4. SubSeq(Contents, 1, n) = [i \in 1 .. n |-> Contents[i]]
  BY <1>1, <1>2
<1>5. Copied(n) = [i \in 1 .. n |-> Copied(n)[i]]
  BY DEF Copied
<1> QED
  BY <1>3, <1>4, <1>5

\* consume drops the oldest bytes and leaves the others in place.
LEMMA ConsumeDrops ==
  ASSUME TypeOK, NEW n \in Request, ConsumeFits(n)
  PROVE  Contents' = SubSeq(Contents, n + 1, m_count)
<1> USE RingAssumption
<1>1. /\ m_buf \in [Index -> Byte] /\ m_tail \in Index /\ m_count \in 0 .. Capacity
      /\ n \in 0 .. m_count
      /\ m_buf' = m_buf /\ m_count' = m_count - n
  BY DEF TypeOK, ConsumeFits
<1>2. m_tail' = (m_tail + n) % Capacity
  BY DEF ConsumeFits
<1>3. /\ Contents \in Seq(Byte) /\ Len(Contents) = m_count
      /\ \A i \in 1 .. m_count : Contents[i] = m_buf[(m_tail + i - 1) % Capacity]
  BY ContentsSeq, Zenon DEF Contents
<1>4. Contents' = [i \in 1 .. m_count - n |-> m_buf[(m_tail' + i - 1) % Capacity]]
  BY <1>1, Zenon DEF Contents
<1>5. ASSUME NEW i \in 1 .. m_count - n
      PROVE  m_buf[(m_tail' + i - 1) % Capacity] = Contents[n + i]
  <2>1. /\ n \in 0 .. Capacity /\ i - 1 \in Nat /\ n + (i - 1) <= Capacity
        /\ m_tail \in 0 .. Capacity - 1 /\ n + i \in 1 .. m_count
    BY <1>1 DEF Index
  <2>2. (((m_tail + n) % Capacity) + (i - 1)) % Capacity = (m_tail + (n + (i - 1))) % Capacity
    BY <2>1, WrapPush, Zenon
  <2>3. Contents[n + i] = m_buf[(m_tail + (n + i) - 1) % Capacity]
    BY <2>1, <1>3
  <2>4. m_tail + (n + i) - 1 = m_tail + (n + (i - 1))
    BY <2>1
  <2>5. m_tail' + i - 1 = ((m_tail + n) % Capacity) + (i - 1)
    <3>1. (m_tail + n) % Capacity \in Int
      BY <1>1 DEF Index
    <3> HIDE DEF Index
    <3>2. PICK u \in Int : u = (m_tail + n) % Capacity
      BY <3>1, Zenon
    <3>3. m_tail' = u
      BY <3>2, <1>2, Zenon
    <3>4. u + i - 1 = u + (i - 1)
      BY SMT
    <3> QED
      BY <3>2, <3>3, <3>4, Zenon
  <2> QED
    BY <2>2, <2>3, <2>4, <2>5, Zenon
<1>6. SubSeq(Contents, n + 1, m_count) = [i \in 1 .. m_count - n |-> Contents[n + i]]
  BY <1>1, <1>3
<1> QED
  BY <1>4, <1>5, <1>6, Zenon

\* The ring buffer implements the byte FIFO: whatever the capacity and the
\* sequence of calls, every call has the effect, the return value and the
\* exception that the FIFO's has.
THEOREM Refinement == Spec => FifoSpec
<1> USE RingAssumption
<1>1. Init => Fifo!Init
  <2> SUFFICES ASSUME Init PROVE Contents = << >> /\ result = Fifo!Ok
    BY DEF Init, Fifo!Init
  <2>1. Contents = [i \in 1 .. 0 |-> m_buf[(m_tail + i - 1) % Capacity]]
    BY DEF Init, Contents
  <2>2. 1 .. 0 = {}
    OBVIOUS
  <2> QED
    BY <2>1, <2>2 DEF Init
<1>2. TypeOK /\ TypeOK' /\ HeadFollowsContents /\ [Next]_vars => [Fifo!Next]_Fifo!fifoVars
  <2> SUFFICES ASSUME TypeOK, TypeOK', HeadFollowsContents, [Next]_vars
               PROVE  Fifo!Next \/ UNCHANGED <<Contents, call, result>>
    BY DEF Fifo!fifoVars
  <2>t. /\ Contents \in Seq(Byte) /\ Len(Contents) = m_count
        /\ m_count \in 0 .. Capacity
    BY ContentsSeq, Zenon DEF TypeOK
  <2>u. UNCHANGED <<m_buf, m_head, m_tail, m_count>> => UNCHANGED Contents
    BY Zenon DEF Contents
  <2>1. ASSUME NEW data \in Chunk, PushFits(data)
        PROVE  Fifo!Push(data)
    <3>1. Contents' = Contents \o data
      BY <2>1, PushAppends
    <3>2. m_count + Len(data) <= Capacity /\ result' = Fifo!Ok
      BY <2>1, <2>t DEF PushFits, free_space
    <3> QED
      BY <2>t, <3>1, <3>2, Zenon DEF Fifo!Push
  <2>2. ASSUME NEW data \in Chunk, PushThrows(data)
        PROVE  Fifo!Push(data)
    <3>1. /\ m_count + Len(data) > Capacity
          /\ result' = Fifo!Throws("overflow_error")
          /\ UNCHANGED Contents
      BY <2>2, <2>t, <2>u DEF PushThrows, free_space
    <3> QED
      BY <2>t, <3>1, Zenon DEF Fifo!Push
  <2>3. ASSUME NEW n \in Request, Peek(n)
        PROVE  Fifo!Peek(n)
    <3>1. n <= m_count => Copied(n) = SubSeq(Contents, 1, n)
      BY <2>t, PeekReads
    <3> QED
      BY <2>3, <2>t, <2>u, <3>1 DEF Peek, Fifo!Peek
  <2>4. ASSUME NEW n \in Request, ConsumeFits(n)
        PROVE  Fifo!Consume(n)
    <3>1. Contents' = SubSeq(Contents, n + 1, m_count)
      BY <2>4, ConsumeDrops
    <3>2. n <= m_count /\ result' = Fifo!Ok
      BY <2>4 DEF ConsumeFits
    <3> QED
      BY <2>t, <3>1, <3>2, Zenon DEF Fifo!Consume
  <2>5. ASSUME NEW n \in Request, ConsumeThrows(n)
        PROVE  Fifo!Consume(n)
    BY <2>5, <2>t, <2>u DEF ConsumeThrows, Fifo!Consume
  <2>6. ASSUME Clear
        PROVE  Fifo!Clear
    <3>1. Contents' = [i \in 1 .. 0 |-> m_buf'[(m_tail' + i - 1) % Capacity]]
      BY <2>6, Zenon DEF Clear, Contents
    <3>2. 1 .. 0 = {}
      OBVIOUS
    <3>3. Contents' = << >>
      BY <3>1, <3>2
    <3> QED
      BY <2>6, <3>3, Zenon DEF Clear, Fifo!Clear
  <2>7. CASE UNCHANGED vars
    BY <2>7, <2>u, Zenon DEF vars
  <2> QED
    BY <2>1, <2>2, <2>3, <2>4, <2>5, <2>6, <2>7, Zenon DEF Next, Push, Consume, Fifo!Next
<1> QED
  BY <1>1, <1>2, TypeCorrect, HeadCorrect, PTL DEF Spec, FifoSpec, Fifo!Spec
=============================================================================
