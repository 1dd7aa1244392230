----------------------------- MODULE RingBuffer -----------------------------
(***************************************************************************)
(* class RingBuffer (src/ringBuffer.cpp, include/ringBuffer.h): a byte     *)
(* FIFO in a backing array of fixed size.  m_tail is the index of the      *)
(* oldest unread byte, m_head the index the next push writes to, m_count   *)
(* the number of unread bytes.  A copy that runs over the end of the array *)
(* is made in two parts, as the two memcpy calls of push and peek do.      *)
(*                                                                         *)
(* The class has no locking: one parser thread owns each instance, so a    *)
(* call is one step.                                                       *)
(***************************************************************************)
EXTENDS Integers, Sequences

CONSTANTS
  Byte,      \* the values of a byte; the array starts as all zeros
  Capacity,  \* m_capacity
  Chunk,     \* the byte strings a caller may push
  Request    \* the counts a caller may peek or consume

ASSUME RingAssumption ==
  /\ Capacity \in Nat \ {0}
  /\ 0 \in Byte
  /\ Chunk \subseteq Seq(Byte)
  /\ Request \subseteq Nat

VARIABLES
  m_buf,     \* the backing array
  m_head,
  m_tail,
  m_count,
  call,      \* the last call,
  result     \* and how it ended (see ByteFifo)

vars == <<m_buf, m_head, m_tail, m_count, call, result>>

Index == 0 .. Capacity - 1

Least(a, b) == IF a <= b THEN a ELSE b

free_space == Capacity - m_count

\* The unread bytes, oldest first: what the three indices stand for.
Contents == [i \in 1 .. m_count |-> m_buf[(m_tail + i - 1) % Capacity]]

Fifo == INSTANCE ByteFifo WITH fifo <- Contents

-----------------------------------------------------------------------------
Init ==
  /\ m_buf = [i \in Index |-> 0]
  /\ m_head = 0
  /\ m_tail = 0
  /\ m_count = 0
  /\ call = Fifo!Called("RingBuffer", << >>, 0)
  /\ result = Fifo!Ok

\* Mutated form: push without the second copy.
Written_NoWrap(data) ==
  [i \in Index |-> IF i >= m_head /\ i < m_head + Len(data) THEN data[i - m_head + 1]
                                                            ELSE m_buf[i]]

\* The array after push's two copies: first_chunk bytes from m_head on, and
\* what is left from index 0 on.
Written(data) ==
  LET first_chunk == Least(Len(data), Capacity - m_head) IN
    [i \in Index |->
       IF i >= m_head /\ i < m_head + first_chunk THEN data[i - m_head + 1]
       ELSE IF i < Len(data) - first_chunk THEN data[first_chunk + i + 1]
       ELSE m_buf[i]]

PushFits(data) ==
  /\ Len(data) <= free_space
  /\ m_buf' = Written(data)
  /\ m_head' = (m_head + Len(data)) % Capacity
  /\ m_count' = m_count + Len(data)
  /\ result' = Fifo!Ok
  /\ UNCHANGED m_tail

PushThrows(data) ==
  /\ Len(data) > free_space
  /\ result' = Fifo!Throws("overflow_error")
  /\ UNCHANGED <<m_buf, m_head, m_tail, m_count>>

Push(data) == PushFits(data) \/ PushThrows(data)

\* What peek's two copies put into a destination of n bytes.
Copied(n) ==
  LET first_chunk == Least(n, Capacity - m_tail) IN
    [i \in 1 .. n |-> IF i <= first_chunk THEN m_buf[m_tail + i - 1]
                                          ELSE m_buf[i - first_chunk - 1]]

Peek(n) ==
  /\ result' = IF n <= m_count THEN Fifo!Returns(Copied(n))
                               ELSE Fifo!Throws("out_of_range")
  /\ UNCHANGED <<m_buf, m_head, m_tail, m_count>>

\* Mutated form: consume without the modulo on the tail.
ConsumeFits_NoModulo(n) ==
  /\ n <= m_count
  /\ m_tail' = m_tail + n
  /\ m_count' = m_count - n
  /\ result' = Fifo!Ok
  /\ UNCHANGED <<m_buf, m_head>>

ConsumeFits(n) ==
  /\ n <= m_count
  /\ m_tail' = (m_tail + n) % Capacity
  /\ m_count' = m_count - n
  /\ result' = Fifo!Ok
  /\ UNCHANGED <<m_buf, m_head>>

ConsumeThrows(n) ==
  /\ n > m_count
  /\ result' = Fifo!Throws("out_of_range")
  /\ UNCHANGED <<m_buf, m_head, m_tail, m_count>>

Consume(n) == ConsumeFits(n) \/ ConsumeThrows(n)

\* Mutated form: clear that forgets the head.
Clear_KeepsHead ==
  /\ m_tail' = 0
  /\ m_count' = 0
  /\ result' = Fifo!Ok
  /\ UNCHANGED <<m_buf, m_head>>

Clear ==
  /\ m_head' = 0
  /\ m_tail' = 0
  /\ m_count' = 0
  /\ result' = Fifo!Ok
  /\ UNCHANGED m_buf

Next ==
  \/ \E data \in Chunk : call' = Fifo!Called("push", data, 0) /\ Push(data)
  \/ \E n \in Request : call' = Fifo!Called("peek", << >>, n) /\ Peek(n)
  \/ \E n \in Request : call' = Fifo!Called("consume", << >>, n) /\ Consume(n)
  \/ call' = Fifo!Called("clear", << >>, 0) /\ Clear

Spec == Init /\ [][Next]_vars

-----------------------------------------------------------------------------
Call == [op : {"RingBuffer", "push", "peek", "consume", "clear"}, data : Seq(Byte), n : Nat]

\* The indices stay inside the array, and m_count never exceeds the capacity:
\* free_space() is an unsigned subtraction that would wrap if it did.
TypeOK ==
  /\ m_buf \in [Index -> Byte]
  /\ m_head \in Index
  /\ m_tail \in Index
  /\ m_count \in 0 .. Capacity
  /\ call \in Call
  /\ result \in [threw : {"nothing", "overflow_error", "out_of_range"},
                 bytes : Seq(Byte)]

\* m_head is redundant: push, consume and clear update it and (m_tail,
\* m_count) separately, in different calls, and the next push overwrites
\* unread bytes as soon as the two drift apart.
HeadFollowsContents == m_head = (m_tail + m_count) % Capacity

\* The ring buffer is a FIFO of bytes: across any sequence of calls, and
\* wherever the array's end falls in a copy, push appends exactly its bytes,
\* peek returns exactly the oldest ones and consume removes exactly those
\* (the contract in the comments of include/ringBuffer.h).
FifoSpec == Fifo!Spec
=============================================================================
