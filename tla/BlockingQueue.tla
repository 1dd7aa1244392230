--------------------------- MODULE BlockingQueue ---------------------------
(***************************************************************************)
(* What ThreadSafeQueue promises (the comments of                          *)
(* include/threadSafeQueue.h): each push and each pop takes effect at one  *)
(* moment between its call and its return, on one FIFO.                    *)
(***************************************************************************)
EXTENDS Integers, Sequences

CONSTANTS
  Producers, Consumers,
  Tokens,      \* the threads that pass a stop token
  MaxSize,     \* 0 = unbounded
  MaxPushes    \* bound: calls of push by one producer

VARIABLES
  m_queue,     \* the items, oldest first
  calls,       \* per thread: "no call", "push", "pop", or "left" for good
  pushes,      \* per producer, its calls of push so far; the k-th pushes <<p, k>>
  returned,    \* per thread, what its last call returned
  stop_requested

Threads == Producers \cup Consumers

HasRoom == MaxSize = 0 \/ Len(m_queue) < MaxSize

Item(p) == <<p, pushes[p]>>

Init ==
  /\ m_queue = << >>
  /\ calls = [t \in Threads |-> "no call"]
  /\ pushes = [p \in Producers |-> 0]
  /\ returned = [t \in Threads |-> << >>]
  /\ stop_requested = {}

CallPush(p) ==
  /\ calls[p] = "no call"
  /\ pushes[p] < MaxPushes
  /\ calls' = [calls EXCEPT ![p] = "push"]
  /\ pushes' = [pushes EXCEPT ![p] = @ + 1]
  /\ UNCHANGED <<m_queue, returned, stop_requested>>

Returns(t, value, next) ==
  /\ calls' = [calls EXCEPT ![t] = next]
  /\ returned' = [returned EXCEPT ![t] = value]

\* push returns true.
Push(p) ==
  /\ calls[p] = "push"
  /\ HasRoom
  /\ m_queue' = Append(m_queue, Item(p))
  /\ Returns(p, <<TRUE>>, "no call")
  /\ UNCHANGED <<pushes, stop_requested>>

\* push returns false: only once a stop was requested.
PushStopped(p) ==
  /\ calls[p] = "push"
  /\ p \in stop_requested
  /\ Returns(p, <<FALSE>>, "left")
  /\ UNCHANGED <<m_queue, pushes, stop_requested>>

CallPop(c) ==
  /\ calls[c] = "no call"
  /\ calls' = [calls EXCEPT ![c] = "pop"]
  /\ UNCHANGED <<m_queue, pushes, returned, stop_requested>>

Pop(c) ==
  /\ calls[c] = "pop"
  /\ m_queue # << >>
  /\ m_queue' = Tail(m_queue)
  /\ Returns(c, <<Head(m_queue)>>, "no call")
  /\ UNCHANGED <<pushes, stop_requested>>

\* pop returns nullopt: only once a stop was requested and the queue is empty.
PopStopped(c) ==
  /\ calls[c] = "pop"
  /\ c \in stop_requested
  /\ m_queue = << >>
  /\ Returns(c, << >>, "left")
  /\ UNCHANGED <<m_queue, pushes, stop_requested>>

RequestStop(t) ==
  /\ t \in Tokens \ stop_requested
  /\ stop_requested' = stop_requested \cup {t}
  /\ UNCHANGED <<m_queue, calls, pushes, returned>>

Next ==
  \/ \E p \in Producers : CallPush(p) \/ Push(p) \/ PushStopped(p)
  \/ \E c \in Consumers : CallPop(c) \/ Pop(c) \/ PopStopped(c)
  \/ \E t \in Threads : RequestStop(t)

Spec == Init /\ [][Next]_<<m_queue, calls, pushes, returned, stop_requested>>
=============================================================================
