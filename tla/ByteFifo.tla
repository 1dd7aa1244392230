------------------------------ MODULE ByteFifo ------------------------------
(***************************************************************************)
(* What a RingBuffer promises its caller (include/ringBuffer.h): a FIFO of *)
(* at most Capacity bytes that can be read from the front without being    *)
(* consumed.  A call that cannot be served throws and changes nothing.     *)
(***************************************************************************)
EXTENDS Integers, Sequences

CONSTANTS
  Byte,      \* the values of a byte
  Capacity,  \* the fixed capacity, in bytes
  Chunk,     \* the byte strings a caller may push
  Request    \* the counts a caller may peek or consume

VARIABLES
  fifo,      \* the unread bytes, oldest first
  call,      \* the last call: its name and argument
  result     \* how it ended: what it threw, what it returned

fifoVars == <<fifo, call, result>>

\* A call, and its outcomes.
Called(op, data, n) == [op |-> op, data |-> data, n |-> n]
Ok == [threw |-> "nothing", bytes |-> << >>]
Returns(s) == [threw |-> "nothing", bytes |-> s]
Throws(e) == [threw |-> e, bytes |-> << >>]

Init ==
  /\ fifo = << >>
  /\ call = Called("RingBuffer", << >>, 0)
  /\ result = Ok

Push(data) ==
  \/ /\ Len(fifo) + Len(data) <= Capacity
     /\ fifo' = fifo \o data
     /\ result' = Ok
  \/ /\ Len(fifo) + Len(data) > Capacity
     /\ result' = Throws("overflow_error")
     /\ UNCHANGED fifo

Peek(n) ==
  /\ result' = IF n <= Len(fifo) THEN Returns(SubSeq(fifo, 1, n))
                                 ELSE Throws("out_of_range")
  /\ UNCHANGED fifo

Consume(n) ==
  \/ /\ n <= Len(fifo)
     /\ fifo' = SubSeq(fifo, n + 1, Len(fifo))
     /\ result' = Ok
  \/ /\ n > Len(fifo)
     /\ result' = Throws("out_of_range")
     /\ UNCHANGED fifo

Clear ==
  /\ fifo' = << >>
  /\ result' = Ok

Next ==
  \/ \E data \in Chunk : call' = Called("push", data, 0) /\ Push(data)
  \/ \E n \in Request : call' = Called("peek", << >>, n) /\ Peek(n)
  \/ \E n \in Request : call' = Called("consume", << >>, n) /\ Consume(n)
  \/ call' = Called("clear", << >>, 0) /\ Clear

Spec == Init /\ [][Next]_fifoVars
=============================================================================
