-------------------------- MODULE ThreadSafeQueue --------------------------
(***************************************************************************)
(* template class ThreadSafeQueue (include/threadSafeQueue.h): a FIFO      *)
(* behind one mutex and two condition variables, whose waits also end when *)
(* the caller's stop token fires.                                          *)
(*                                                                         *)
(* A thread makes one step per lock, wait or read of its stop token; what  *)
(* it does under the mutex without reading the token is one step.  The     *)
(* threads call as the program's do: a producer pushes, a consumer pops    *)
(* until it gets nullopt.                                                  *)
(***************************************************************************)
EXTENDS Integers, Sequences, FiniteSets

CONSTANTS
  Producers, Consumers,
  Tokens,       \* the threads that pass a stop token
  MaxSize,      \* m_max_size; 0 = unbounded
  MaxPushes,    \* bound: calls of push by one producer
  MaxSpurious   \* bound: spurious wakeups

ASSUME QueueAssumption ==
  /\ IsFiniteSet(Producers) /\ IsFiniteSet(Consumers)
  /\ Producers \cap Consumers = {}
  /\ Tokens \subseteq Producers \cup Consumers
  /\ MaxSize \in Nat
  /\ MaxPushes \in Nat
  /\ MaxSpurious \in Nat

VARIABLES
  m_mutex,        \* the set of its owners
  m_queue,
  m_not_empty,    \* the threads asleep on each condition variable
  m_not_full,
  pc,             \* where each thread is
  pushes,         \* per producer, its calls of push; the k-th pushes <<p, k>>
  returned,       \* per thread, what its last call returned
  stop_requested, \* the threads whose token was stopped
  callbacks,      \* of those, the ones whose stop callback has still to run
  spurious        \* spurious wakeups so far

vars == <<m_mutex, m_queue, m_not_empty, m_not_full, pc, pushes, returned, stop_requested,
          callbacks, spurious>>

Threads == Producers \cup Consumers

\* Mutated form: one too many.
HasRoom_OffByOne == MaxSize = 0 \/ Len(m_queue) <= MaxSize

HasRoom == MaxSize = 0 \/ Len(m_queue) < MaxSize

Init ==
  /\ m_mutex = {}
  /\ m_queue = << >>
  /\ m_not_empty = {}
  /\ m_not_full = {}
  /\ pc = [t \in Threads |-> "no call"]
  /\ pushes = [p \in Producers |-> 0]
  /\ returned = [t \in Threads |-> << >>]
  /\ stop_requested = {}
  /\ callbacks = {}
  /\ spurious = 0

-----------------------------------------------------------------------------
(* The mutex and std::condition_variable_any.                              *)

Goto(t, label) == pc' = [pc EXCEPT ![t] = label]

\* unique_lock's constructor, and the lock that ends a sleep.
Lock(t, from, to) ==
  /\ pc[t] = from
  /\ m_mutex = {}
  /\ m_mutex' = {t}
  /\ Goto(t, to)
  /\ UNCHANGED <<m_queue, m_not_empty, m_not_full, pushes, returned, stop_requested, callbacks, spurious>>

\* Mutated form: the mutex stays locked.
Return_StaysLocked(t, value) ==
  /\ returned' = [returned EXCEPT ![t] = value]
  /\ UNCHANGED m_mutex

\* The call returns, and unique_lock's destructor unlocks.
Return(t, value) ==
  /\ m_mutex' = m_mutex \ {t}
  /\ returned' = [returned EXCEPT ![t] = value]

\* Mutated form: nobody is notified.
Woken_Nobody(sleepers) == {{}}

\* notify_one: any one of the sleepers, if there are some.  The woken thread is
\* still inside wait and needs the mutex.
Woken(sleepers) == {W \in SUBSET sleepers : Cardinality(W) = IF sleepers = {} THEN 0 ELSE 1}

\* pc once t has gone to label and the threads W were woken.
PcAfter(t, label, W) == [u \in Threads |-> IF u = t THEN label ELSE IF u \in W THEN "woken" ELSE pc[u]]

\* A thread inside wait has its stop callback registered.
InWait(t) == pc[t] \in {"wait", "asleep", "woken"}

-----------------------------------------------------------------------------
(* push                                                                    *)

CallPush(p) ==
  /\ pc[p] = "no call"
  /\ pushes[p] < MaxPushes
  /\ pushes' = [pushes EXCEPT ![p] = @ + 1]
  /\ Goto(p, "call")
  /\ UNCHANGED <<m_mutex, m_queue, m_not_empty, m_not_full, returned, stop_requested, callbacks, spurious>>

\* The mutex is taken; in unbounded mode there is nothing to wait for.
LockPush(p) == Lock(p, "call", IF MaxSize > 0 THEN "wait" ELSE "check")

\* wait finds the predicate true.
PushMayGo(p) ==
  /\ pc[p] = "wait"
  /\ HasRoom
  /\ Goto(p, "check")
  /\ UNCHANGED <<m_mutex, m_queue, m_not_empty, m_not_full, pushes, returned, stop_requested, callbacks, spurious>>

\* wait unlocks and sleeps; its look at the token and its sleep are one step,
\* under the condition variable's own mutex, which notify takes too.
PushSleeps(p) ==
  /\ pc[p] = "wait"
  /\ ~HasRoom
  /\ p \notin stop_requested
  /\ m_mutex' = m_mutex \ {p}
  /\ m_not_full' = m_not_full \cup {p}
  /\ Goto(p, "asleep")
  /\ UNCHANGED <<m_queue, m_not_empty, pushes, returned, stop_requested, callbacks, spurious>>

\* Mutated form: a full queue refuses the item at once.
PushRefused_WhenFull(p) ==
  /\ \/ pc[p] = "wait" /\ ~HasRoom
     \/ pc[p] = "check" /\ p \in stop_requested
  /\ Return(p, <<FALSE>>)
  /\ Goto(p, "left")
  /\ UNCHANGED <<m_queue, m_not_empty, m_not_full, pushes, stop_requested, callbacks, spurious>>

\* Both ways to return false: the wait ended without room, or the token was
\* found stopped after it.
PushRefused(p) ==
  /\ \/ pc[p] = "wait" /\ ~HasRoom
     \/ pc[p] = "check"
  /\ p \in stop_requested
  /\ Return(p, <<FALSE>>)
  /\ Goto(p, "left")
  /\ UNCHANGED <<m_queue, m_not_empty, m_not_full, pushes, stop_requested, callbacks, spurious>>

PushDone(p) ==
  /\ pc[p] = "check"
  /\ p \notin stop_requested
  /\ m_queue' = Append(m_queue, <<p, pushes[p]>>)
  /\ \E W \in Woken(m_not_empty) :
       /\ m_not_empty' = m_not_empty \ W
       /\ pc' = PcAfter(p, "no call", W)
  /\ Return(p, <<TRUE>>)
  /\ UNCHANGED <<m_not_full, pushes, stop_requested, callbacks, spurious>>

-----------------------------------------------------------------------------
(* pop                                                                     *)

CallPop(c) ==
  /\ pc[c] = "no call"
  /\ Goto(c, "call")
  /\ UNCHANGED <<m_mutex, m_queue, m_not_empty, m_not_full, pushes, returned, stop_requested, callbacks, spurious>>

LockPop(c) == Lock(c, "call", "wait")

\* Mutated form: pop sleeps on the producers' condition variable.
PopSleeps_WrongVariable(c) ==
  /\ pc[c] = "wait"
  /\ m_queue = << >>
  /\ c \notin stop_requested
  /\ m_mutex' = m_mutex \ {c}
  /\ m_not_full' = m_not_full \cup {c}
  /\ Goto(c, "asleep")
  /\ UNCHANGED <<m_queue, m_not_empty, pushes, returned, stop_requested, callbacks, spurious>>

PopSleeps(c) ==
  /\ pc[c] = "wait"
  /\ m_queue = << >>
  /\ c \notin stop_requested
  /\ m_mutex' = m_mutex \ {c}
  /\ m_not_empty' = m_not_empty \cup {c}
  /\ Goto(c, "asleep")
  /\ UNCHANGED <<m_queue, m_not_full, pushes, returned, stop_requested, callbacks, spurious>>

\* Mutated form: a stopped pop returns nullopt although an item is there.
PopStopped_ItemsLeft(c) ==
  /\ pc[c] = "wait"
  /\ c \in stop_requested
  /\ Return(c, << >>)
  /\ Goto(c, "left")
  /\ UNCHANGED <<m_queue, m_not_empty, m_not_full, pushes, stop_requested, callbacks, spurious>>

PopStopped(c) ==
  /\ pc[c] = "wait"
  /\ m_queue = << >>
  /\ c \in stop_requested
  /\ Return(c, << >>)
  /\ Goto(c, "left")
  /\ UNCHANGED <<m_queue, m_not_empty, m_not_full, pushes, stop_requested, callbacks, spurious>>

PopDone(c) ==
  /\ pc[c] = "wait"
  /\ m_queue # << >>
  /\ m_queue' = Tail(m_queue)
  /\ \E W \in Woken(m_not_full) :
       /\ m_not_full' = m_not_full \ W
       /\ pc' = PcAfter(c, "no call", W)
  /\ Return(c, <<Head(m_queue)>>)
  /\ UNCHANGED <<m_not_empty, pushes, stop_requested, callbacks, spurious>>

-----------------------------------------------------------------------------
(* The end of a sleep.                                                     *)

Relock(t) == Lock(t, "woken", "wait")

\* Mutated form: the wait did not register for the stop.
RequestStop_NoCallback(t) ==
  /\ t \in Tokens \ stop_requested
  /\ stop_requested' = stop_requested \cup {t}
  /\ UNCHANGED <<m_mutex, m_queue, m_not_empty, m_not_full, pc, pushes, returned, callbacks, spurious>>

\* request_stop sets the flag; it runs the callback of a wait in progress next.
RequestStop(t) ==
  /\ t \in Tokens \ stop_requested
  /\ stop_requested' = stop_requested \cup {t}
  /\ callbacks' = IF InWait(t) THEN callbacks \cup {t} ELSE callbacks
  /\ UNCHANGED <<m_mutex, m_queue, m_not_empty, m_not_full, pc, pushes, returned, spurious>>

\* notify_all on the condition variable that t waits on.  A wait that has
\* returned meanwhile has taken its callback back.
RunCallback(t) ==
  /\ t \in callbacks
  /\ callbacks' = callbacks \ {t}
  /\ LET W == IF ~InWait(t) THEN {} ELSE IF t \in Producers THEN m_not_full ELSE m_not_empty IN
       /\ pc' = [u \in Threads |-> IF u \in W THEN "woken" ELSE pc[u]]
       /\ m_not_full' = m_not_full \ W
       /\ m_not_empty' = m_not_empty \ W
  /\ UNCHANGED <<m_mutex, m_queue, pushes, returned, stop_requested, spurious>>

WakeSpuriously(t) ==
  /\ pc[t] = "asleep"
  /\ spurious < MaxSpurious
  /\ spurious' = spurious + 1
  /\ m_not_full' = m_not_full \ {t}
  /\ m_not_empty' = m_not_empty \ {t}
  /\ Goto(t, "woken")
  /\ UNCHANGED <<m_mutex, m_queue, pushes, returned, stop_requested, callbacks>>

push(p) ==
  CallPush(p) \/ LockPush(p) \/ PushMayGo(p) \/ PushSleeps(p) \/ PushRefused(p) \/ PushDone(p)

pop(c) == CallPop(c) \/ LockPop(c) \/ PopSleeps(c) \/ PopStopped(c) \/ PopDone(c)

Next ==
  \/ \E p \in Producers : push(p)
  \/ \E c \in Consumers : pop(c)
  \/ \E t \in Threads : Relock(t) \/ RequestStop(t) \/ RunCallback(t) \/ WakeSpuriously(t)

\* Threads that can run do, woken ones included, and request_stop runs its
\* callbacks; nothing asks for a stop or for spurious wakeups.
Fairness ==
  /\ \A p \in Producers : WF_vars(push(p))
  /\ \A c \in Consumers : WF_vars(pop(c))
  /\ \A t \in Threads : WF_vars(Relock(t)) /\ WF_vars(RunCallback(t))

Spec == Init /\ [][Next]_vars /\ Fairness

-----------------------------------------------------------------------------
Items == Producers \X (0 .. MaxPushes)

TypeOK ==
  /\ m_mutex \subseteq Threads
  /\ m_queue \in Seq(Items)
  /\ m_not_empty \subseteq Consumers
  /\ m_not_full \subseteq Producers
  /\ pc \in [Threads -> {"no call", "call", "wait", "asleep", "woken", "check", "left"}]
  /\ pushes \in [Producers -> 0 .. MaxPushes]
  /\ DOMAIN returned = Threads
  /\ \A p \in Producers : returned[p] \in {<< >>, <<TRUE>>, <<FALSE>>}
  /\ \A c \in Consumers : returned[c] \in {<< >>} \cup {<<i>> : i \in Items}
  /\ stop_requested \subseteq Tokens
  /\ callbacks \subseteq stop_requested
  /\ spurious \in 0 .. MaxSpurious

\* No wakeup is lost on the way to a consumer: while consumers sleep, every
\* item in the queue has a consumer that is already on its way to it,
\* although notify_one wakes one thread, others may get to the item first,
\* and the woken one may be told to stop.
EveryItemHasATaker ==
  m_not_empty # {} =>
    Len(m_queue) <= Cardinality({c \in Consumers : pc[c] \in {"wait", "woken"}})

ProducerStopped == stop_requested \cap Producers # {}

\* The same for producers and free slots, in bounded mode, as long as no
\* producer was told to stop: one that is keeps its wakeup to itself.
EverySlotHasATaker ==
  m_not_full # {} /\ ~ProducerStopped =>
    MaxSize - Len(m_queue) <=
      Cardinality({p \in Producers : pc[p] \in {"wait", "woken", "check"}})

\* The queue is bounded in bounded mode, although the size is read and the item
\* added with the token checked in between.
Bounded == MaxSize > 0 => Len(m_queue) <= MaxSize

\* The call a thread is in.
CallOf(t) ==
  IF pc[t] \in {"no call", "left"} THEN pc[t] ELSE IF t \in Producers THEN "push" ELSE "pop"

Calls == [t \in Threads |-> CallOf(t)]

Queue == INSTANCE BlockingQueue WITH calls <- Calls

\* The queue implements the one of module BlockingQueue: whatever the
\* interleaving, each call takes effect at one moment; the items come out
\* once each and in the order they went in; push returns false only after a
\* stop, and pop nullopt only after a stop and with the queue empty
\* (include/threadSafeQueue.h:44-45, 54-55).
QueueSpec == Queue!Spec

\* "Automatically unblocks ... when st is stop-requested"
\* (include/threadSafeQueue.h:41): a call whose token is stopped returns.
StopUnblocks ==
  \A t \in Tokens :
    t \in stop_requested /\ pc[t] \notin {"no call", "left"} ~> pc[t] \in {"no call", "left"}

\* As long as one consumer keeps popping, every item is taken in the end,
\* whichever other consumers were woken for it and then stopped.
ItemsTaken == m_queue # << >> ~> m_queue = << >>

Forgotten(p) == pc[p] = "asleep" /\ HasRoom

\* "Blocks if the queue is full" (include/threadSafeQueue.h:40): a push does
\* not sleep on while there is room.
BlocksOnlyWhenFull == \A p \in Producers : Forgotten(p) ~> ~Forgotten(p)

\* It does not as long as no producer is told to stop, whatever happens to the
\* consumers.
SlotsAreUsed == \A p \in Producers : Forgotten(p) ~> ~Forgotten(p) \/ ProducerStopped
=============================================================================
