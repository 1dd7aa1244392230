----------------------- MODULE ThreadSafeQueue_proofs -----------------------
(***************************************************************************)
(* For any number of threads, any bound and any stops: the types, mutual   *)
(* exclusion, the bound of a bounded queue, that the queue implements      *)
(* BlockingQueue, and that no wakeup is lost.                              *)
(***************************************************************************)
EXTENDS ThreadSafeQueue, FiniteSetTheorems, TLAPS

\* Between lock and unlock.
Holding(t) == pc[t] \in {"wait", "check"}

\* The thread between lock and unlock is the one that owns the mutex: so no
\* two are.
MutualExclusion == \A t \in Threads : Holding(t) => m_mutex = {t}

\* The room that push's wait has seen is still there when the item is added,
\* because the mutex was not released since.
RoomIsFresh == MaxSize > 0 => \A p \in Producers : pc[p] = "check" => HasRoom

\* Asleep inside a call are exactly the threads that can be notified: nobody
\* sleeps without being registered on a condition variable.
SleepersSleep == \A t \in Threads : pc[t] = "asleep" <=> t \in m_not_empty \cup m_not_full

QueueInv == TypeOK /\ MutualExclusion /\ RoomIsFresh /\ SleepersSleep /\ Bounded

Labels == {"no call", "call", "wait", "asleep", "woken", "check", "left"}

\* notify_one wakes sleepers only, at most one of them.
LEMMA WokenSleep == ASSUME NEW S, NEW W \in Woken(S) PROVE W \subseteq S
  BY DEF Woken

\* Appending an item to the queue, and taking the first one away.
LEMMA QueueSteps ==
  ASSUME NEW S, NEW q \in Seq(S)
  PROVE /\ \A x \in S : Append(q, x) \in Seq(S) /\ Len(Append(q, x)) = Len(q) + 1
        /\ Len(q) \in Nat
        /\ q # << >> => Head(q) \in S /\ Tail(q) \in Seq(S) /\ Len(Tail(q)) = Len(q) - 1
  OBVIOUS

\* A counter below its bound can take one more step.
LEMMA Counts == ASSUME NEW m \in Nat, NEW n \in 0 .. m, n < m PROVE n + 1 \in 0 .. m
  OBVIOUS

\* The empty sequence is one of every set.
LEMMA EmptySeq == \A S : << >> \in Seq(S)
  OBVIOUS

\* The initial state satisfies the invariant.
LEMMA InitInv == Init => QueueInv
<1> SUFFICES ASSUME Init PROVE QueueInv
  OBVIOUS
<1>1. 0 \in 0 .. MaxPushes /\ 0 \in 0 .. MaxSpurious
  BY QueueAssumption
<1>2. m_queue \in Seq(Items)
  BY EmptySeq, Zenon DEF Init
<1>3. TypeOK
  <2>1. /\ DOMAIN returned = Threads
        /\ \A t \in Threads : returned[t] = << >>
    BY DEF Init
  <2>2. /\ \A p \in Producers : returned[p] \in {<< >>, <<TRUE>>, <<FALSE>>}
        /\ \A c \in Consumers : returned[c] \in {<< >>} \cup {<<i>> : i \in Items}
    BY <2>1, Zenon DEF Threads
  <2>3. /\ pc \in [Threads -> Labels]
        /\ pushes \in [Producers -> 0 .. MaxPushes]
    BY <1>1, Zenon DEF Init, Labels
  <2> QED
    BY <1>1, <1>2, <2>1, <2>2, <2>3, Zenon DEF Init, TypeOK, Labels
<1>4. Bounded
  <2>1. Len(m_queue) = 0
    BY EmptySeq DEF Init
  <2> QED
    BY <2>1, QueueAssumption DEF Bounded
<1>5. MutualExclusion /\ RoomIsFresh /\ SleepersSleep
  BY DEF Init, MutualExclusion, RoomIsFresh, SleepersSleep, Holding, Threads
<1> QED
  BY <1>3, <1>4, <1>5 DEF QueueInv

\* Every step preserves the types.
LEMMA TypeStep == TypeOK /\ [Next]_vars => TypeOK'
<1> SUFFICES ASSUME TypeOK, [Next]_vars PROVE TypeOK'
  OBVIOUS
<1> USE QueueAssumption DEF Threads
<1>1. ASSUME NEW p \in Producers, CallPush(p) PROVE TypeOK'
  <2>1. pushes' \in [Producers -> 0 .. MaxPushes]
    <3>1. pushes[p] \in 0 .. MaxPushes /\ pushes[p] < MaxPushes
      BY <1>1 DEF CallPush, TypeOK
    <3>2. pushes[p] + 1 \in 0 .. MaxPushes
      BY <3>1
    <3> QED
      BY <1>1, <3>2 DEF CallPush, TypeOK
  <2> QED
    BY <1>1, <2>1 DEF CallPush, TypeOK, Goto
<1>2. ASSUME NEW t \in Threads, NEW from, NEW to \in Labels, Lock(t, from, to) PROVE TypeOK'
  BY <1>2 DEF Lock, TypeOK, Goto, Labels
<1>3. ASSUME NEW p \in Producers, PushMayGo(p) \/ PushSleeps(p) PROVE TypeOK'
  BY <1>3 DEF PushMayGo, PushSleeps, TypeOK, Goto
<1>4. ASSUME NEW p \in Producers, PushRefused(p) PROVE TypeOK'
  BY <1>4 DEF PushRefused, TypeOK, Goto, Return
<1>5. ASSUME NEW p \in Producers, PushDone(p) PROVE TypeOK'
  <2>1. PICK W \in Woken(m_not_empty) :
          m_not_empty' = m_not_empty \ W /\ pc' = PcAfter(p, "no call", W)
    BY <1>5 DEF PushDone
  <2>2. pc' \in [Threads -> Labels]
    BY <2>1 DEF PcAfter, TypeOK, Labels
  <2>3. m_queue' \in Seq(Items)
    <3>1. <<p, pushes[p]>> \in Items
      BY DEF TypeOK, Items
    <3> QED
      BY <1>5, <3>1, QueueSteps DEF PushDone, TypeOK
  <2> QED
    BY <1>5, <2>1, <2>2, <2>3 DEF PushDone, TypeOK, Return, Labels
<1>6. ASSUME NEW c \in Consumers, CallPop(c) \/ PopSleeps(c) PROVE TypeOK'
  BY <1>6 DEF CallPop, PopSleeps, TypeOK, Goto
<1>7. ASSUME NEW c \in Consumers, PopStopped(c) PROVE TypeOK'
  BY <1>7 DEF PopStopped, TypeOK, Goto, Return
<1>8. ASSUME NEW c \in Consumers, PopDone(c) PROVE TypeOK'
  <2>1. PICK W \in Woken(m_not_full) :
          m_not_full' = m_not_full \ W /\ pc' = PcAfter(c, "no call", W)
    BY <1>8 DEF PopDone
  <2>2. pc' \in [Threads -> Labels]
    BY <2>1 DEF PcAfter, TypeOK, Labels
  <2>3. m_queue' \in Seq(Items) /\ Head(m_queue) \in Items
    BY <1>8, QueueSteps DEF PopDone, TypeOK
  <2>4. /\ DOMAIN returned' = Threads
        /\ \A p \in Producers : returned'[p] = returned[p]
        /\ \A d \in Consumers : returned'[d] = IF d = c THEN <<Head(m_queue)>> ELSE returned[d]
    BY <1>8 DEF PopDone, TypeOK, Return
  <2> QED
    BY <1>8, <2>1, <2>2, <2>3, <2>4 DEF PopDone, TypeOK, Return, Labels
<1>9. ASSUME NEW t \in Threads, RequestStop(t) \/ RunCallback(t) \/ WakeSpuriously(t) PROVE TypeOK'
  <2>1. CASE RequestStop(t)
    BY <2>1 DEF RequestStop, TypeOK
  <2>2. CASE RunCallback(t)
    BY <2>2 DEF RunCallback, TypeOK
  <2>3. CASE WakeSpuriously(t)
    <3>1. spurious' \in 0 .. MaxSpurious
      BY <2>3, Counts DEF WakeSpuriously, TypeOK
    <3> QED
      BY <2>3, <3>1 DEF WakeSpuriously, TypeOK, Goto
  <2> QED
    BY <1>9, <2>1, <2>2, <2>3
<1>10. CASE UNCHANGED vars
  BY <1>10 DEF vars, TypeOK
<1> QED
  BY <1>1, <1>2, <1>3, <1>4, <1>5, <1>6, <1>7, <1>8, <1>9, <1>10
     DEF Next, push, pop, LockPush, LockPop, Relock, Labels

\* Every step preserves the invariant.
LEMMA InvStep == QueueInv /\ [Next]_vars => QueueInv'
<1> SUFFICES ASSUME QueueInv, [Next]_vars PROVE QueueInv'
  OBVIOUS
<1> USE QueueAssumption DEF Threads
<1>0. TypeOK' /\ TypeOK /\ Len(m_queue) \in Nat
  <2>1. TypeOK' /\ TypeOK
    BY TypeStep DEF QueueInv
  <2>2. m_queue \in Seq(Items)
    BY <2>1 DEF TypeOK
  <2> QED
    BY <2>1, <2>2, QueueSteps
<1> DEFINE Rest == MutualExclusion /\ RoomIsFresh /\ SleepersSleep /\ Bounded
<1>1. ASSUME NEW p \in Producers, CallPush(p) PROVE Rest'
  BY <1>1, <1>0 DEF CallPush, Goto, QueueInv, TypeOK, MutualExclusion, RoomIsFresh, SleepersSleep,
       Bounded, Holding, HasRoom
<1>2. ASSUME NEW t \in Threads, NEW from \in {"call", "woken"}, NEW to \in {"wait", "check"},
             Lock(t, from, to), to = "check" => MaxSize = 0
      PROVE Rest'
  BY <1>2, <1>0 DEF Lock, Goto, QueueInv, TypeOK, MutualExclusion, RoomIsFresh, SleepersSleep,
       Bounded, Holding, HasRoom
<1>3. ASSUME NEW p \in Producers, PushMayGo(p) PROVE Rest'
  BY <1>3, <1>0 DEF PushMayGo, Goto, QueueInv, TypeOK, MutualExclusion, RoomIsFresh, SleepersSleep,
       Bounded, Holding, HasRoom
<1>4. ASSUME NEW p \in Producers, PushSleeps(p) PROVE Rest'
  BY <1>4, <1>0 DEF PushSleeps, Goto, QueueInv, TypeOK, MutualExclusion, RoomIsFresh, SleepersSleep,
       Bounded, Holding, HasRoom
<1>5. ASSUME NEW p \in Producers, PushRefused(p) PROVE Rest'
  BY <1>5, <1>0 DEF PushRefused, Goto, Return, QueueInv, TypeOK, MutualExclusion, RoomIsFresh,
       SleepersSleep, Bounded, Holding, HasRoom
<1>6. ASSUME NEW p \in Producers, PushDone(p) PROVE Rest'
  <2>1. PICK W \in Woken(m_not_empty) :
          m_not_empty' = m_not_empty \ W /\ pc' = PcAfter(p, "no call", W)
    BY <1>6 DEF PushDone
  <2>2. W \subseteq m_not_empty
    BY <2>1, WokenSleep
  <2>3. /\ m_mutex = {p}
        /\ \A t \in Threads : t # p => ~Holding(t)
    BY <1>6 DEF PushDone, QueueInv, MutualExclusion, Holding
  <2>4. MutualExclusion' /\ SleepersSleep' /\ RoomIsFresh'
    BY <1>0, <1>6, <2>1, <2>2, <2>3 DEF PushDone, PcAfter, TypeOK, QueueInv, MutualExclusion,
         SleepersSleep, RoomIsFresh, Holding
  <2>5. Bounded'
    <3>1. PICK item \in Items : item = <<p, pushes[p]>>
      BY <1>0 DEF TypeOK, Items
    <3>2. m_queue \in Seq(Items) /\ m_queue' = Append(m_queue, item)
      BY <1>0, <1>6, <3>1 DEF PushDone, TypeOK
    <3>3. Len(m_queue') = Len(m_queue) + 1
      BY <3>2, QueueSteps
    <3>4. MaxSize > 0 => HasRoom
      BY <1>6 DEF PushDone, QueueInv, RoomIsFresh
    <3>5. MaxSize > 0 => Len(m_queue) < MaxSize
      BY <3>4 DEF HasRoom
    <3> QED
      BY <1>0, <3>3, <3>5 DEF Bounded
  <2> QED
    BY <2>4, <2>5
<1>7. ASSUME NEW c \in Consumers, CallPop(c) PROVE Rest'
  BY <1>7, <1>0 DEF CallPop, Goto, QueueInv, TypeOK, MutualExclusion, RoomIsFresh, SleepersSleep,
       Bounded, Holding, HasRoom
<1>8. ASSUME NEW c \in Consumers, PopSleeps(c) PROVE Rest'
  BY <1>8, <1>0 DEF PopSleeps, Goto, QueueInv, TypeOK, MutualExclusion, RoomIsFresh, SleepersSleep,
       Bounded, Holding, HasRoom
<1>9. ASSUME NEW c \in Consumers, PopStopped(c) PROVE Rest'
  BY <1>9, <1>0 DEF PopStopped, Goto, Return, QueueInv, TypeOK, MutualExclusion, RoomIsFresh,
       SleepersSleep, Bounded, Holding, HasRoom
<1>10. ASSUME NEW c \in Consumers, PopDone(c) PROVE Rest'
  <2>1. PICK W \in Woken(m_not_full) :
          m_not_full' = m_not_full \ W /\ pc' = PcAfter(c, "no call", W)
    BY <1>10 DEF PopDone
  <2>2. W \subseteq m_not_full
    BY <2>1, WokenSleep
  <2>3. /\ m_mutex = {c}
        /\ \A t \in Threads : t # c => ~Holding(t)
    BY <1>10 DEF PopDone, QueueInv, MutualExclusion, Holding
  <2>4. MutualExclusion' /\ SleepersSleep' /\ RoomIsFresh'
    BY <1>0, <1>10, <2>1, <2>2, <2>3 DEF PopDone, PcAfter, TypeOK, QueueInv, MutualExclusion,
         SleepersSleep, RoomIsFresh, Holding
  <2>5. Bounded'
    <3>1. m_queue \in Seq(Items) /\ m_queue # << >> /\ m_queue' = Tail(m_queue)
      BY <1>0, <1>10 DEF PopDone, TypeOK
    <3>2. Len(m_queue') = Len(m_queue) - 1
      BY <3>1, QueueSteps, Zenon
    <3> QED
      BY <1>0, <3>2 DEF QueueInv, Bounded
  <2> QED
    BY <2>4, <2>5
<1>11. ASSUME NEW t \in Threads, RequestStop(t) PROVE Rest'
  BY <1>11, <1>0 DEF RequestStop, QueueInv, MutualExclusion, RoomIsFresh, SleepersSleep,
       Bounded, Holding, HasRoom
<1>12. ASSUME NEW t \in Threads, RunCallback(t) PROVE Rest'
  BY <1>12, <1>0 DEF RunCallback, QueueInv, TypeOK, MutualExclusion, RoomIsFresh, SleepersSleep,
       Bounded, Holding, HasRoom
<1>13. ASSUME NEW t \in Threads, WakeSpuriously(t) PROVE Rest'
  BY <1>13, <1>0 DEF WakeSpuriously, Goto, QueueInv, TypeOK, MutualExclusion, RoomIsFresh,
       SleepersSleep, Bounded, Holding, HasRoom
<1>14. ASSUME UNCHANGED vars PROVE Rest'
  BY <1>14 DEF vars, QueueInv, TypeOK, MutualExclusion, RoomIsFresh, SleepersSleep, Bounded,
       Holding, HasRoom
<1>15. Rest'
  <2>1. ASSUME NEW p \in Producers, LockPush(p) PROVE Rest'
    BY <2>1, <1>2 DEF LockPush
  <2>2. ASSUME NEW c \in Consumers, LockPop(c) PROVE Rest'
    BY <2>2, <1>2 DEF LockPop
  <2>3. ASSUME NEW t \in Threads, Relock(t) PROVE Rest'
    BY <2>3, <1>2 DEF Relock
  <2> HIDE DEF Rest
  <2> QED
    BY <1>1, <1>3, <1>4, <1>5, <1>6, <1>7, <1>8, <1>9, <1>10, <1>11, <1>12, <1>13, <1>14,
       <2>1, <2>2, <2>3 DEF Next, push, pop
<1> QED
  BY <1>0, <1>15 DEF QueueInv

\* The invariant holds throughout.
THEOREM QueueCorrect == Spec => []QueueInv
<1>1. Init => QueueInv
  BY InitInv
<1>2. QueueInv /\ [Next]_vars => QueueInv'
  BY InvStep
<1> QED
  BY <1>1, <1>2, PTL DEF Spec

\* Every variable keeps its type: in particular a consumer gets items, a
\* producer a Boolean, and nobody sleeps on the other side's condition variable.
THEOREM TypeCorrect == Spec => []TypeOK
<1>1. QueueInv => TypeOK
  BY DEF QueueInv
<1> QED
  BY <1>1, QueueCorrect, PTL

\* A bounded queue never holds more than m_max_size items (push,
\* include/threadSafeQueue.h:77-89), for any number of producers and whatever
\* wakes them.
THEOREM NeverOverfull == Spec => []Bounded
<1>1. QueueInv => Bounded
  BY DEF QueueInv
<1> QED
  BY <1>1, QueueCorrect, PTL

-----------------------------------------------------------------------------
(* Refinement.                                                             *)

\* A step that leaves every thread in its call leaves Calls alone; one that
\* takes a single thread to another call changes Calls there.
LEMMA CallsAfter ==
  /\ (\A u \in Threads : CallOf(u)' = CallOf(u)) => Calls' = Calls
  /\ \A t \in Threads : \A x :
       CallOf(t)' = x /\ (\A u \in Threads \ {t} : CallOf(u)' = CallOf(u))
         => Calls' = [Calls EXCEPT ![t] = x]
  BY DEF Calls

\* Every step of the queue is a step of the abstract one, or none.
LEMMA StepRefines ==
  QueueInv /\ [Next]_vars =>
    [Queue!Next]_<<m_queue, Calls, pushes, returned, stop_requested>>
<1> DEFINE absVars == <<m_queue, Calls, pushes, returned, stop_requested>>
<1> SUFFICES ASSUME QueueInv, [Next]_vars PROVE Queue!Next \/ UNCHANGED absVars
  OBVIOUS
<1>0. /\ TypeOK
      /\ \A t \in Threads : Calls[t] = CallOf(t)
      /\ Producers \cap Consumers = {}
  BY QueueAssumption DEF QueueInv, Calls
<1>1. ASSUME NEW p \in Producers, CallPush(p) PROVE Queue!CallPush(p)
  <2>1. Calls[p] = "no call"
    BY <1>0, <1>1 DEF CallPush, CallOf, Threads
  <2>2. Calls' = [Calls EXCEPT ![p] = "push"]
    <3>1. CallOf(p)' = "push" /\ \A u \in Threads \ {p} : CallOf(u)' = CallOf(u)
      BY <1>0, <1>1 DEF CallPush, Goto, CallOf, Threads, TypeOK
    <3> QED
      BY <3>1, CallsAfter DEF Threads
  <2> QED
    BY <1>1, <2>1, <2>2 DEF CallPush, Queue!CallPush
<1>2. ASSUME NEW t \in Threads, NEW from \in {"call", "woken"}, NEW to \in {"wait", "check"},
             Lock(t, from, to)
      PROVE UNCHANGED absVars
  <2>1. \A u \in Threads : CallOf(u)' = CallOf(u)
    BY <1>0, <1>2 DEF Lock, Goto, CallOf, TypeOK
  <2> QED
    BY <1>2, <2>1, CallsAfter DEF Lock
<1>3. ASSUME NEW p \in Producers, PushMayGo(p) \/ PushSleeps(p) PROVE UNCHANGED absVars
  <2>1. \A u \in Threads : CallOf(u)' = CallOf(u)
    BY <1>0, <1>3 DEF PushMayGo, PushSleeps, Goto, CallOf, TypeOK, Threads
  <2> QED
    BY <1>3, <2>1, CallsAfter DEF PushMayGo, PushSleeps
<1>4. ASSUME NEW p \in Producers, PushRefused(p) PROVE Queue!PushStopped(p)
  <2>1. Calls[p] = "push"
    BY <1>0, <1>4 DEF PushRefused, CallOf, Threads
  <2>2. Calls' = [Calls EXCEPT ![p] = "left"]
    <3>1. CallOf(p)' = "left" /\ \A u \in Threads \ {p} : CallOf(u)' = CallOf(u)
      BY <1>0, <1>4 DEF PushRefused, Goto, CallOf, Threads, TypeOK
    <3> QED
      BY <3>1, CallsAfter DEF Threads
  <2> QED
    BY <1>4, <2>1, <2>2 DEF PushRefused, Return, Queue!PushStopped, Queue!Returns
<1>5. ASSUME NEW p \in Producers, PushDone(p) PROVE Queue!Push(p)
  <2>1. PICK W \in Woken(m_not_empty) : pc' = PcAfter(p, "no call", W)
    BY <1>5 DEF PushDone
  <2>2. \A u \in W : pc[u] = "asleep"
    BY <2>1, <1>0, WokenSleep DEF QueueInv, TypeOK, SleepersSleep, Threads
  <2>3. Calls[p] = "push"
    BY <1>0, <1>5 DEF PushDone, CallOf, Threads
  <2>4. Calls' = [Calls EXCEPT ![p] = "no call"]
    <3>1. CallOf(p)' = "no call" /\ \A u \in Threads \ {p} : CallOf(u)' = CallOf(u)
      BY <2>1, <2>2 DEF PcAfter, CallOf, Threads
    <3> QED
      BY <3>1, CallsAfter DEF Threads
  <2>5. Queue!HasRoom
    <3>1. MaxSize > 0 => HasRoom
      BY <1>5 DEF PushDone, QueueInv, RoomIsFresh
    <3> QED
      BY <3>1, QueueAssumption DEF HasRoom, Queue!HasRoom
  <2> QED
    BY <1>5, <2>3, <2>4, <2>5 DEF PushDone, Return, Queue!Push, Queue!Returns, Queue!Item
<1>6. ASSUME NEW c \in Consumers, CallPop(c) PROVE Queue!CallPop(c)
  <2>1. Calls[c] = "no call"
    BY <1>0, <1>6 DEF CallPop, CallOf, Threads
  <2>2. Calls' = [Calls EXCEPT ![c] = "pop"]
    <3>1. CallOf(c)' = "pop" /\ \A u \in Threads \ {c} : CallOf(u)' = CallOf(u)
      BY <1>0, <1>6 DEF CallPop, Goto, CallOf, Threads, TypeOK
    <3> QED
      BY <3>1, CallsAfter DEF Threads
  <2> QED
    BY <1>6, <2>1, <2>2 DEF CallPop, Queue!CallPop
<1>7. ASSUME NEW c \in Consumers, PopSleeps(c) PROVE UNCHANGED absVars
  <2>1. \A u \in Threads : CallOf(u)' = CallOf(u)
    BY <1>0, <1>7 DEF PopSleeps, Goto, CallOf, TypeOK, Threads
  <2> QED
    BY <1>7, <2>1, CallsAfter DEF PopSleeps
<1>8. ASSUME NEW c \in Consumers, PopStopped(c) PROVE Queue!PopStopped(c)
  <2>1. Calls[c] = "pop"
    BY <1>0, <1>8 DEF PopStopped, CallOf, Threads
  <2>2. Calls' = [Calls EXCEPT ![c] = "left"]
    <3>1. CallOf(c)' = "left" /\ \A u \in Threads \ {c} : CallOf(u)' = CallOf(u)
      BY <1>0, <1>8 DEF PopStopped, Goto, CallOf, Threads, TypeOK
    <3> QED
      BY <3>1, CallsAfter DEF Threads
  <2> QED
    BY <1>8, <2>1, <2>2 DEF PopStopped, Return, Queue!PopStopped, Queue!Returns
<1>9. ASSUME NEW c \in Consumers, PopDone(c) PROVE Queue!Pop(c)
  <2>1. PICK W \in Woken(m_not_full) : pc' = PcAfter(c, "no call", W)
    BY <1>9 DEF PopDone
  <2>2. \A u \in W : pc[u] = "asleep"
    BY <2>1, <1>0, WokenSleep DEF QueueInv, TypeOK, SleepersSleep, Threads
  <2>3. Calls[c] = "pop"
    BY <1>0, <1>9 DEF PopDone, CallOf, Threads
  <2>4. Calls' = [Calls EXCEPT ![c] = "no call"]
    <3>1. CallOf(c)' = "no call" /\ \A u \in Threads \ {c} : CallOf(u)' = CallOf(u)
      BY <2>1, <2>2 DEF PcAfter, CallOf, Threads
    <3> QED
      BY <3>1, CallsAfter DEF Threads
  <2> QED
    BY <1>9, <2>3, <2>4 DEF PopDone, Return, Queue!Pop, Queue!Returns
<1>10. ASSUME NEW t \in Threads, RequestStop(t) PROVE Queue!RequestStop(t)
  <2>1. Calls' = Calls
    <3>1. \A u \in Threads : CallOf(u)' = CallOf(u)
      BY <1>10 DEF RequestStop, CallOf
    <3> QED
      BY <3>1, CallsAfter
  <2> QED
    BY <1>10, <2>1 DEF RequestStop, Queue!RequestStop
<1>11. ASSUME NEW t \in Threads, RunCallback(t) \/ WakeSpuriously(t) PROVE UNCHANGED absVars
  <2>1. \A u \in Threads : CallOf(u)' = CallOf(u)
    <3>1. CASE RunCallback(t)
      BY <3>1, <1>0 DEF RunCallback, QueueInv, SleepersSleep, CallOf
    <3>2. CASE WakeSpuriously(t)
      BY <3>2, <1>0 DEF WakeSpuriously, Goto, CallOf, TypeOK
    <3> QED
      BY <1>11, <3>1, <3>2
  <2> QED
    BY <1>11, <2>1, CallsAfter DEF RunCallback, WakeSpuriously
<1>12. ASSUME UNCHANGED vars PROVE UNCHANGED absVars
  <2>1. \A u \in Threads : CallOf(u)' = CallOf(u)
    BY <1>12 DEF vars, CallOf
  <2> QED
    BY <1>12, <2>1, CallsAfter DEF vars
<1>13. /\ \A p \in Producers : LockPush(p) => UNCHANGED absVars
       /\ \A c \in Consumers : LockPop(c) => UNCHANGED absVars
       /\ \A t \in Threads : Relock(t) => UNCHANGED absVars
  <2> HIDE DEF absVars
  <2> QED
    BY <1>2 DEF LockPush, LockPop, Relock, Threads
<1> HIDE DEF absVars
<1> QED
  BY <1>1, <1>3, <1>4, <1>5, <1>6, <1>7, <1>8, <1>9, <1>10, <1>11, <1>12, <1>13
     DEF Next, push, pop, Queue!Next, Queue!Threads, Threads

\* The queue is linearizable: push and pop, with their locks, waits, wakeups
\* and stops, implement the atomic ones of BlockingQueue, for any number of
\* producers and consumers (include/threadSafeQueue.h).
THEOREM Refinement == Spec => QueueSpec
<1>1. Init => Queue!Init
  <2> SUFFICES ASSUME Init PROVE Queue!Init
    OBVIOUS
  <2>1. Calls = [t \in Threads |-> "no call"]
    BY DEF Init, Calls, CallOf
  <2> QED
    BY <2>1 DEF Init, Queue!Init, Threads, Queue!Threads
<1>2. QueueInv /\ [Next]_vars =>
        [Queue!Next]_<<m_queue, Calls, pushes, returned, stop_requested>>
  BY StepRefines
<1> QED
  BY <1>1, <1>2, QueueCorrect, PTL DEF Spec, QueueSpec, Queue!Spec
-----------------------------------------------------------------------------
(* No wakeup is lost.                                                      *)

\* Who is on the way to an item, and who to a free slot.
ItemTakers == {c \in Consumers : pc[c] \in {"wait", "woken"}}
SlotTakers == {p \in Producers : pc[p] \in {"wait", "woken", "check"}}

\* How the number of those on their way follows from who joins and who leaves.
LEMMA TakersCount ==
  ASSUME NEW A, NEW B, IsFiniteSet(A), IsFiniteSet(B)
  PROVE /\ Cardinality(A) \in Nat /\ Cardinality(B) \in Nat
        /\ A \subseteq B => Cardinality(A) <= Cardinality(B)
        /\ \A x : A \ {x} \subseteq B => Cardinality(A) - 1 <= Cardinality(B)
        /\ \A x : x \notin A /\ A \cup {x} \subseteq B => Cardinality(A) + 1 <= Cardinality(B)
<1>1. Cardinality(A) \in Nat /\ Cardinality(B) \in Nat
  BY FS_CardinalityType
<1>2. A \subseteq B => Cardinality(A) <= Cardinality(B)
  BY FS_Subset
<1>3. ASSUME NEW x, A \ {x} \subseteq B PROVE Cardinality(A) - 1 <= Cardinality(B)
  <2>1. Cardinality(A \ {x}) <= Cardinality(B)
    BY <1>3, FS_Subset
  <2>2. Cardinality(A \ {x}) = IF x \in A THEN Cardinality(A) - 1 ELSE Cardinality(A)
    BY FS_RemoveElement
  <2> QED
    BY <1>1, <2>1, <2>2
<1>4. ASSUME NEW x, x \notin A, A \cup {x} \subseteq B PROVE Cardinality(A) + 1 <= Cardinality(B)
  <2>1. Cardinality(A \cup {x}) <= Cardinality(B)
    BY <1>4, FS_Subset
  <2>2. Cardinality(A \cup {x}) = Cardinality(A) + 1
    BY <1>4, FS_AddElement
  <2> QED
    BY <1>1, <2>1, <2>2
<1> QED
  BY <1>1, <1>2, <1>3, <1>4

\* notify_one wakes somebody, if anybody sleeps.
LEMMA SomebodyWakes ==
  ASSUME NEW S, IsFiniteSet(S), S # {}, NEW W \in Woken(S)
  PROVE \E x \in S : W = {x}
<1>1. W \subseteq S /\ Cardinality(W) = 1
  BY DEF Woken
<1>2. IsFiniteSet(W)
  BY <1>1, FS_Subset
<1> QED
  BY <1>1, <1>2, FS_Singleton

\* The takers are finitely many.
LEMMA TakersFinite ==
  /\ IsFiniteSet(ItemTakers) /\ IsFiniteSet(SlotTakers)
  /\ IsFiniteSet(ItemTakers') /\ IsFiniteSet(SlotTakers')
<1>1. /\ ItemTakers \subseteq Consumers /\ SlotTakers \subseteq Producers
      /\ ItemTakers' \subseteq Consumers /\ SlotTakers' \subseteq Producers
  BY DEF ItemTakers, SlotTakers
<1> QED
  BY <1>1, FS_Subset, QueueAssumption

\* The queue's length after a push and after a pop.
LEMMA LengthStep ==
  ASSUME TypeOK
  PROVE /\ Len(m_queue) \in Nat
        /\ \A p \in Producers : PushDone(p) => Len(m_queue') = Len(m_queue) + 1
        /\ \A c \in Consumers : PopDone(c) => Len(m_queue') = Len(m_queue) - 1
<1>1. m_queue \in Seq(Items)
  BY DEF TypeOK
<1>2. ASSUME NEW p \in Producers, PushDone(p) PROVE Len(m_queue') = Len(m_queue) + 1
  <2>1. PICK item \in Items : item = <<p, pushes[p]>>
    BY DEF TypeOK, Items
  <2>2. m_queue' = Append(m_queue, item)
    BY <1>2, <2>1, Zenon DEF PushDone
  <2> QED
    BY <1>1, <2>2, QueueSteps
<1>3. ASSUME NEW c \in Consumers, PopDone(c) PROVE Len(m_queue') = Len(m_queue) - 1
  BY <1>1, <1>3, QueueSteps DEF PopDone
<1> QED
  BY <1>1, <1>2, <1>3, QueueSteps

\* No step loses a wakeup for an item.
LEMMA ItemsStep == QueueInv /\ EveryItemHasATaker /\ [Next]_vars => EveryItemHasATaker'
<1> SUFFICES ASSUME QueueInv, EveryItemHasATaker, [Next]_vars PROVE EveryItemHasATaker'
  OBVIOUS
<1> USE QueueAssumption DEF Threads
<1>0. TypeOK /\ SleepersSleep /\ Len(m_queue) \in Nat
  BY LengthStep DEF QueueInv
<1>1. m_not_empty # {} => Len(m_queue) <= Cardinality(ItemTakers)
  BY DEF EveryItemHasATaker, ItemTakers
<1>2. SUFFICES m_not_empty' # {} => Len(m_queue') <= Cardinality(ItemTakers')
  BY DEF EveryItemHasATaker, ItemTakers
<1>3. ASSUME m_queue' = m_queue, m_not_empty' \subseteq m_not_empty, ItemTakers \subseteq ItemTakers'
      PROVE m_not_empty' # {} => Len(m_queue') <= Cardinality(ItemTakers')
  <2>1. /\ Cardinality(ItemTakers) <= Cardinality(ItemTakers')
        /\ Cardinality(ItemTakers) \in Nat /\ Cardinality(ItemTakers') \in Nat
    BY <1>3, TakersFinite, TakersCount
  <2> QED
    BY <1>0, <1>1, <1>3, <2>1
<1>4. ASSUME m_queue' = << >> PROVE m_not_empty' # {} => Len(m_queue') <= Cardinality(ItemTakers')
  BY <1>4, TakersFinite, FS_CardinalityType
<1>5. ASSUME NEW p \in Producers, CallPush(p) \/ LockPush(p) \/ PushMayGo(p) \/ PushSleeps(p) \/ PushRefused(p)
      PROVE m_queue' = m_queue /\ m_not_empty' \subseteq m_not_empty /\ ItemTakers \subseteq ItemTakers'
  BY <1>0, <1>5 DEF CallPush, LockPush, Lock, PushMayGo, PushSleeps, PushRefused, Return, Goto, TypeOK, ItemTakers
<1>6. ASSUME NEW p \in Producers, PushDone(p)
      PROVE m_not_empty' # {} => Len(m_queue') <= Cardinality(ItemTakers')
  <2> SUFFICES ASSUME m_not_empty' # {} PROVE Len(m_queue') <= Cardinality(ItemTakers')
    OBVIOUS
  <2>1. PICK W \in Woken(m_not_empty) :
          m_not_empty' = m_not_empty \ W /\ pc' = PcAfter(p, "no call", W)
    BY <1>6 DEF PushDone
  <2>2. m_not_empty # {} /\ IsFiniteSet(m_not_empty)
    BY <1>0, <2>1, FS_Subset DEF TypeOK
  <2>3. PICK c \in m_not_empty : W = {c}
    BY <2>1, <2>2, SomebodyWakes
  <2>4. c \in Consumers /\ c \notin ItemTakers
    BY <1>0 DEF TypeOK, SleepersSleep, ItemTakers
  <2>5. ItemTakers \cup {c} \subseteq ItemTakers'
    BY <1>0, <2>1, <2>3, <2>4 DEF PcAfter, TypeOK, ItemTakers
  <2>6. /\ Cardinality(ItemTakers) + 1 <= Cardinality(ItemTakers')
        /\ Cardinality(ItemTakers) \in Nat /\ Cardinality(ItemTakers') \in Nat
    BY <2>4, <2>5, TakersFinite, TakersCount
  <2>7. Len(m_queue') = Len(m_queue) + 1
    BY <1>0, <1>6, LengthStep
  <2> QED
    BY <1>0, <1>1, <2>2, <2>6, <2>7
<1>7. ASSUME NEW c \in Consumers, CallPop(c) \/ LockPop(c)
      PROVE m_queue' = m_queue /\ m_not_empty' \subseteq m_not_empty /\ ItemTakers \subseteq ItemTakers'
  BY <1>0, <1>7 DEF CallPop, LockPop, Lock, Goto, TypeOK, ItemTakers
<1>8. ASSUME NEW c \in Consumers, PopSleeps(c) \/ PopStopped(c) PROVE m_queue' = << >>
  BY <1>8 DEF PopSleeps, PopStopped
<1>9. ASSUME NEW c \in Consumers, PopDone(c)
      PROVE m_not_empty' # {} => Len(m_queue') <= Cardinality(ItemTakers')
  <2>1. PICK W \in Woken(m_not_full) : pc' = PcAfter(c, "no call", W)
    BY <1>9 DEF PopDone
  <2>2. ItemTakers \ {c} \subseteq ItemTakers'
    BY <1>0, <2>1 DEF PcAfter, TypeOK, ItemTakers
  <2>3. /\ Cardinality(ItemTakers) - 1 <= Cardinality(ItemTakers')
        /\ Cardinality(ItemTakers) \in Nat /\ Cardinality(ItemTakers') \in Nat
    BY <2>2, TakersFinite, TakersCount
  <2>4. Len(m_queue') = Len(m_queue) - 1 /\ m_not_empty' = m_not_empty
    BY <1>0, <1>9, LengthStep DEF PopDone
  <2> QED
    BY <1>0, <1>1, <2>3, <2>4
<1>10. ASSUME NEW t \in Threads, Relock(t) \/ RequestStop(t) \/ RunCallback(t) \/ WakeSpuriously(t)
       PROVE m_queue' = m_queue /\ m_not_empty' \subseteq m_not_empty /\ ItemTakers \subseteq ItemTakers'
  BY <1>0, <1>10 DEF Relock, Lock, RequestStop, RunCallback, WakeSpuriously, Goto, TypeOK, ItemTakers
<1>11. ASSUME UNCHANGED vars
       PROVE m_queue' = m_queue /\ m_not_empty' \subseteq m_not_empty /\ ItemTakers \subseteq ItemTakers'
  BY <1>11 DEF vars, ItemTakers
<1> QED
  BY <1>3, <1>4, <1>5, <1>6, <1>7, <1>8, <1>9, <1>10, <1>11 DEF Next, push, pop

\* For any number of threads no wakeup for an item is lost: notify_one in push
\* is enough, whatever the woken consumer does (include/threadSafeQueue.h:87).
THEOREM ItemsHaveTakers == Spec => []EveryItemHasATaker
<1>1. Init => EveryItemHasATaker
  BY DEF Init, EveryItemHasATaker
<1>2. QueueInv /\ EveryItemHasATaker /\ [Next]_vars => EveryItemHasATaker'
  BY ItemsStep
<1> QED
  BY <1>1, <1>2, QueueCorrect, PTL DEF Spec

\* No step loses a wakeup for a slot, but for a producer that gives up.
LEMMA SlotsStep == QueueInv /\ EverySlotHasATaker /\ [Next]_vars => EverySlotHasATaker'
<1> SUFFICES ASSUME QueueInv, EverySlotHasATaker, [Next]_vars PROVE EverySlotHasATaker'
  OBVIOUS
<1> USE QueueAssumption DEF Threads
<1>0. TypeOK /\ SleepersSleep /\ Len(m_queue) \in Nat
  BY LengthStep DEF QueueInv
<1> DEFINE Goal == m_not_full' # {} /\ ~ProducerStopped' => MaxSize - Len(m_queue') <= Cardinality(SlotTakers')
<1>1. m_not_full # {} /\ ~ProducerStopped => MaxSize - Len(m_queue) <= Cardinality(SlotTakers)
  BY DEF EverySlotHasATaker, SlotTakers
<1>2. SUFFICES Goal
  BY DEF EverySlotHasATaker, SlotTakers
<1>3. ASSUME m_queue' = m_queue, m_not_full' \subseteq m_not_full, stop_requested \subseteq stop_requested',
             SlotTakers \subseteq SlotTakers'
      PROVE Goal
  <2>1. /\ Cardinality(SlotTakers) <= Cardinality(SlotTakers')
        /\ Cardinality(SlotTakers) \in Nat /\ Cardinality(SlotTakers') \in Nat
    BY <1>3, TakersFinite, TakersCount
  <2>2. ~ProducerStopped' => ~ProducerStopped
    BY <1>3 DEF ProducerStopped
  <2> QED
    BY <1>0, <1>1, <1>3, <2>1, <2>2
<1>4. ASSUME NEW p \in Producers, CallPush(p) \/ LockPush(p) \/ PushMayGo(p)
      PROVE /\ m_queue' = m_queue /\ m_not_full' \subseteq m_not_full
            /\ stop_requested \subseteq stop_requested' /\ SlotTakers \subseteq SlotTakers'
  BY <1>0, <1>4 DEF CallPush, LockPush, Lock, PushMayGo, Goto, TypeOK, SlotTakers
<1>5. ASSUME NEW p \in Producers, PushSleeps(p) PROVE Goal
  <2>1. MaxSize - Len(m_queue') <= 0
    BY <1>0, <1>5 DEF PushSleeps, HasRoom
  <2>2. Cardinality(SlotTakers') \in Nat /\ Len(m_queue') \in Nat
    BY <1>0, <1>5, TakersFinite, FS_CardinalityType DEF PushSleeps
  <2> QED
    BY <2>1, <2>2
<1>6. ASSUME NEW p \in Producers, PushRefused(p) PROVE Goal
  BY <1>6 DEF PushRefused, ProducerStopped
<1>7. ASSUME NEW p \in Producers, PushDone(p) PROVE Goal
  <2>1. PICK W \in Woken(m_not_empty) : pc' = PcAfter(p, "no call", W)
    BY <1>7 DEF PushDone
  <2>2. SlotTakers \ {p} \subseteq SlotTakers'
    BY <1>0, <2>1 DEF PcAfter, TypeOK, SlotTakers
  <2>3. /\ Cardinality(SlotTakers) - 1 <= Cardinality(SlotTakers')
        /\ Cardinality(SlotTakers) \in Nat /\ Cardinality(SlotTakers') \in Nat
    BY <2>2, TakersFinite, TakersCount
  <2>4. Len(m_queue') = Len(m_queue) + 1 /\ m_not_full' = m_not_full /\ stop_requested' = stop_requested
    BY <1>0, <1>7, LengthStep DEF PushDone
  <2> QED
    BY <1>0, <1>1, <2>3, <2>4 DEF ProducerStopped
<1>8. ASSUME NEW c \in Consumers, CallPop(c) \/ LockPop(c) \/ PopSleeps(c) \/ PopStopped(c)
      PROVE /\ m_queue' = m_queue /\ m_not_full' \subseteq m_not_full
            /\ stop_requested \subseteq stop_requested' /\ SlotTakers \subseteq SlotTakers'
  BY <1>0, <1>8 DEF CallPop, LockPop, Lock, PopSleeps, PopStopped, Return, Goto, TypeOK, SlotTakers
<1>9. ASSUME NEW c \in Consumers, PopDone(c), m_not_full' # {}, ~ProducerStopped'
      PROVE MaxSize - Len(m_queue') <= Cardinality(SlotTakers')
  <2>1. PICK W \in Woken(m_not_full) :
          m_not_full' = m_not_full \ W /\ pc' = PcAfter(c, "no call", W)
    BY <1>9 DEF PopDone
  <2>2. m_not_full # {} /\ IsFiniteSet(m_not_full)
    BY <1>0, <1>9, <2>1, FS_Subset DEF TypeOK
  <2>3. PICK p \in m_not_full : W = {p}
    <3>1. W \in Woken(m_not_full)
      BY <2>1
    <3> QED
      BY <2>2, <3>1, SomebodyWakes
  <2>4. p \in Producers /\ p \notin SlotTakers
    BY <1>0 DEF TypeOK, SleepersSleep, SlotTakers
  <2>5. SlotTakers \cup {p} \subseteq SlotTakers'
    BY <1>0, <2>1, <2>3, <2>4 DEF PcAfter, TypeOK, SlotTakers
  <2>6. /\ Cardinality(SlotTakers) + 1 <= Cardinality(SlotTakers')
        /\ Cardinality(SlotTakers) \in Nat /\ Cardinality(SlotTakers') \in Nat
    BY <2>4, <2>5, TakersFinite, TakersCount
  <2>7. Len(m_queue') = Len(m_queue) - 1 /\ ~ProducerStopped
    BY <1>0, <1>9, LengthStep DEF PopDone, ProducerStopped
  <2> QED
    BY <1>0, <1>1, <2>2, <2>6, <2>7
<1>10. ASSUME NEW t \in Threads, Relock(t) \/ RequestStop(t) \/ RunCallback(t) \/ WakeSpuriously(t)
       PROVE /\ m_queue' = m_queue /\ m_not_full' \subseteq m_not_full
             /\ stop_requested \subseteq stop_requested' /\ SlotTakers \subseteq SlotTakers'
  BY <1>0, <1>10 DEF Relock, Lock, RequestStop, RunCallback, WakeSpuriously, Goto, TypeOK, SlotTakers
<1>11. ASSUME UNCHANGED vars
       PROVE /\ m_queue' = m_queue /\ m_not_full' \subseteq m_not_full
             /\ stop_requested \subseteq stop_requested' /\ SlotTakers \subseteq SlotTakers'
  BY <1>11 DEF vars, SlotTakers
<1>12. ASSUME NEW c \in Consumers, PopDone(c) PROVE Goal
  BY <1>9, <1>12
<1> HIDE DEF Goal
<1> QED
  BY <1>3, <1>4, <1>5, <1>6, <1>7, <1>8, <1>10, <1>11, <1>12 DEF Next, push, pop

\* For any number of threads and any bound, no wakeup for a free slot is lost
\* before a producer is told to stop: notify_one in pop is enough
\* (include/threadSafeQueue.h:99).
THEOREM SlotsHaveTakers == Spec => []EverySlotHasATaker
<1>1. Init => EverySlotHasATaker
  BY DEF Init, EverySlotHasATaker
<1>2. QueueInv /\ EverySlotHasATaker /\ [Next]_vars => EverySlotHasATaker'
  BY SlotsStep
<1> QED
  BY <1>1, <1>2, QueueCorrect, PTL DEF Spec
=============================================================================
