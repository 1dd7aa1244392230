--------------------------- MODULE Server_proofs ---------------------------
(***************************************************************************)
(* For any traffic: the types, that the shutdown of main leaves no log     *)
(* line behind in the queue or unwritten, and that the summaries of the    *)
(* parser and of the business logic end the log.                           *)
(***************************************************************************)
EXTENDS Server, SequenceLemmas, TLAPS

\* How far main has come: which threads it has joined, and when the logger is
\* told to stop.
JoinedListener == {"stop parser", "join parser", "stop logic", "join logic", "stop logger",
                   "join logger", "exited"}
JoinedParser == {"stop logic", "join logic", "stop logger", "join logger", "exited"}
JoinedLogic == {"stop logger", "join logger", "exited"}
StoppedLogger == {"join logger", "exited"}

Joined ==
  /\ main \in JoinedListener => pc["listener"] = "done"
  /\ main \in JoinedParser => pc["parser"] = "done"
  /\ main \in JoinedLogic => pc["logic"] = "done"

\* The logger drains only once main has told it to stop, and leaves an empty queue.
LoggerWaits ==
  /\ "logger" \in stop_requested => main \in StoppedLogger
  /\ pc["logger"] \in {"drain", "done"} => "logger" \in stop_requested
  /\ pc["logger"] = "done" => log_queue = << >>

ServerInv == TypeOK /\ Joined /\ LoggerWaits

Label == {"not launched", "start", "while", "epoll_wait", "dispatch", "pop", "handle", "leave", "drain", "done"}

LogOK ==
  /\ log_queue \in Seq(Line)
  /\ logged \in [Line -> Nat] /\ written \in [Line -> Nat]

-----------------------------------------------------------------------------
\* Pushing lines to the log queue keeps the types of what they go through.
LEMMA LogTypes ==
  ASSUME TypeOK, NEW t \in Pipeline, NEW kind \in {"running", "event", "final"}, NEW n \in Nat,
         Log(t, kind, n)
  PROVE LogOK'
<1>1. PICK line \in Line : line = <<t, kind>>
  BY DEF Line
<1>2. [i \in 1 .. n |-> line] \in Seq(Line)
  OBVIOUS
<1>3. log_queue \in Seq(Line) /\ log_queue' = log_queue \o [i \in 1 .. n |-> line]
  BY <1>1 DEF TypeOK, Log
<1>4. log_queue' \in Seq(Line)
  BY <1>2, <1>3
<1>5. logged' \in [Line -> Nat]
  <2>1. logged' = [logged EXCEPT ![line] = logged[line] + n] /\ logged \in [Line -> Nat]
    BY <1>1 DEF TypeOK, Log
  <2> QED
    BY <2>1
<1> QED
  BY <1>4, <1>5 DEF TypeOK, Log, LogOK

\* The logger takes a line off a queue that is not empty.
LEMMA LineTypes ==
  ASSUME TypeOK, log_queue # << >>
  PROVE Head(log_queue) \in Line /\ Tail(log_queue) \in Seq(Line)
<1>1. log_queue \in Seq(Line)
  BY DEF TypeOK
<1> QED
  BY <1>1

\* A batch of events has its type.
LEMMA BatchTypes ==
  ASSUME NEW n \in Nat, NEW b \in BOOLEAN
  PROVE [clients |-> n, shutdown |-> b] \in Batch
  BY DEF Batch

\* One event less leaves a batch.
LEMMA BatchShrinks ==
  ASSUME NEW b \in Batch, b.clients > 0
  PROVE [b EXCEPT !.clients = @ - 1] \in Batch
  BY DEF Batch

\* A number up to a bound is natural, and so are sums of them.
LEMMA Sums == ASSUME NEW m \in Nat, NEW n \in Nat, NEW k \in 0 .. n PROVE k \in Nat /\ m + k \in Nat
  OBVIOUS

\* Every step preserves the types.
LEMMA TypeStep == TypeOK /\ [Next]_vars => TypeOK'
<1> SUFFICES ASSUME TypeOK, [Next]_vars PROVE TypeOK'
  OBVIOUS
<1>0. /\ raw_queue \in Nat /\ parsed_queue \in Nat /\ events \in Nat
      /\ batch \in Batch
      /\ written \in [Line -> Nat]
  BY DEF TypeOK
<1> USE ServerAssumption DEF Threads, Pipeline, queues, logVars, netVars
<1>1. CASE listens
  <2>1. CASE SetUp
    <3>1. Log("listener", "running", 1)
      BY <2>1 DEF SetUp
    <3>2. LogOK'
      BY <3>1, LogTypes
    <3>3. eventfd' \in BOOLEAN
      <4>1. ("listener" \in stop_requested) \in BOOLEAN
        OBVIOUS
      <4>2. eventfd' = ("listener" \in stop_requested)
        BY <2>1 DEF SetUp
      <4> QED
        BY <4>1, <4>2, Zenon
    <3> QED
      BY <2>1, <3>2, <3>3 DEF SetUp, Goto, TypeOK, LogOK
  <2>2. CASE ListenerChecksStop \/ BatchDone
    BY <2>2 DEF ListenerChecksStop, BatchDone, Goto, TypeOK
  <2>3. CASE ShutdownEvent
    <3>1. Log("listener", "final", 1)
      BY <2>3 DEF ShutdownEvent
    <3>2. LogOK'
      BY <3>1, LogTypes
    <3> QED
      BY <2>3, <3>2 DEF ShutdownEvent, Goto, TypeOK, LogOK
  <2>4. ASSUME NEW clients \in 0 .. MaxReady, EpollReturns(clients, TRUE) PROVE TypeOK'
    <3>1. clients \in Nat /\ events' \in Nat
      BY <2>4, <1>0, Sums DEF EpollReturns
    <3>2. batch' \in Batch
      BY <2>4, <3>1, BatchTypes DEF EpollReturns
    <3> QED
      BY <2>4, <3>1, <3>2 DEF EpollReturns, Goto, TypeOK
  <2>5. ASSUME NEW chunks \in 0 .. MaxItems, NEW lines \in 0 .. MaxLines, HandleClient(chunks, lines)
        PROVE TypeOK'
    <3>1. Log("listener", "event", lines)
      BY <2>5 DEF HandleClient
    <3>2. LogOK'
      BY <3>1, LogTypes
    <3>3. raw_queue' \in Nat
      BY <2>5, <1>0, Sums DEF HandleClient
    <3>4. batch' \in Batch
      BY <2>5, <1>0, BatchShrinks DEF HandleClient
    <3> QED
      BY <2>5, <3>2, <3>3, <3>4 DEF HandleClient, TypeOK, LogOK
  <2> QED
    BY <1>1, <2>1, <2>2, <2>3, <2>4, <2>5 DEF listens
<1>2. CASE disturbed
  <2>1. CASE SetupThrows \/ EpollInterrupted
    BY <2>1 DEF SetupThrows, EpollInterrupted, Goto, TypeOK
  <2>2. CASE EpollFails
    <3>1. Log("listener", "event", 1)
      BY <2>2 DEF EpollFails
    <3>2. LogOK'
      BY <3>1, LogTypes
    <3> QED
      BY <2>2, <3>2 DEF EpollFails, Goto, TypeOK, LogOK
  <2>3. ASSUME NEW clients \in 1 .. MaxReady, EpollReturns(clients, FALSE) PROVE TypeOK'
    <3>1. clients \in Nat /\ events' \in Nat
      BY <2>3, <1>0, Sums DEF EpollReturns
    <3>2. batch' \in Batch
      BY <2>3, <3>1, BatchTypes DEF EpollReturns
    <3> QED
      BY <2>3, <3>1, <3>2 DEF EpollReturns, Goto, TypeOK
  <2> QED
    BY <1>2, <2>1, <2>2, <2>3 DEF disturbed
<1>3. ASSUME NEW t \in {"parser", "logic"}, worker(t) PROVE TypeOK'
  <2>1. CASE Starts(t)
    <3>1. Log(t, "running", 1)
      BY <2>1 DEF Starts
    <3>2. LogOK'
      BY <3>1, LogTypes
    <3> QED
      BY <2>1, <3>2 DEF Starts, Goto, TypeOK, LogOK
  <2>2. CASE ChecksStop(t) \/ PopsNothing(t)
    BY <2>2 DEF ChecksStop, PopsNothing, Goto, TypeOK
  <2>3. CASE Pops(t)
    <3>1. raw_queue' \in Nat /\ parsed_queue' \in Nat
      BY <2>3, <1>0 DEF Pops, InQueue
    <3> QED
      BY <2>3, <3>1 DEF Pops, Goto, TypeOK
  <2>4. CASE Leaves(t)
    <3>1. Log(t, "final", 1)
      BY <2>4 DEF Leaves
    <3>2. LogOK'
      BY <3>1, LogTypes
    <3> QED
      BY <2>4, <3>2 DEF Leaves, Goto, TypeOK, LogOK
  <2> QED
    BY <1>3, <2>1, <2>2, <2>3, <2>4 DEF worker
<1>4. CASE parser
  <2>1. ASSUME NEW packets \in 0 .. MaxItems, NEW lines \in 0 .. MaxLines, HandleChunk(packets, lines)
        PROVE TypeOK'
    <3>1. Log("parser", "event", lines)
      BY <2>1 DEF HandleChunk
    <3>2. LogOK'
      BY <3>1, LogTypes
    <3>3. parsed_queue' \in Nat
      BY <2>1, <1>0, Sums DEF HandleChunk
    <3> QED
      BY <2>1, <3>2, <3>3 DEF HandleChunk, Goto, TypeOK, LogOK
  <2> QED
    BY <1>3, <1>4, <2>1 DEF parser
<1>5. CASE logic
  <2>1. ASSUME NEW lines \in 0 .. MaxLines, HandlePacket(lines) PROVE TypeOK'
    <3>1. Log("logic", "event", lines)
      BY <2>1 DEF HandlePacket
    <3>2. LogOK'
      BY <3>1, LogTypes
    <3> QED
      BY <2>1, <3>2 DEF HandlePacket, Goto, TypeOK, LogOK
  <2> QED
    BY <1>3, <1>5, <2>1 DEF logic
<1>6. CASE logger
  <2>1. CASE LoggerChecksStop
    BY <2>1 DEF LoggerChecksStop, Goto, TypeOK
  <2>2. ASSUME NEW from, NEW to \in Label, WritesLine(from, to) PROVE TypeOK'
    <3>1. PICK line \in Line : line = Head(log_queue)
      BY <2>2, LineTypes DEF WritesLine
    <3>2. log_queue' \in Seq(Line)
      BY <2>2, LineTypes DEF WritesLine
    <3>3. written' \in [Line -> Nat]
      <4>1. written' = [written EXCEPT ![line] = written[line] + 1]
        BY <2>2, <3>1 DEF WritesLine
      <4> QED
        BY <1>0, <4>1
    <3> QED
      BY <2>2, <3>2, <3>3 DEF WritesLine, Goto, TypeOK, Label
  <2>3. ASSUME NEW from, NEW to \in Label, FindsNoLine(from, to) PROVE TypeOK'
    BY <2>3 DEF FindsNoLine, Goto, TypeOK, Label
  <2> QED
    BY <1>6, <2>1, <2>2, <2>3 DEF logger, Drain, Label
<1>7. CASE signal_handler \/ SeesShutdown \/ StartUpThrows
  BY <1>7 DEF signal_handler, SeesShutdown, StartUpThrows, TypeOK
<1>8. CASE ShutDown
  BY <1>8 DEF ShutDown, RequestStop, WakeListener, Join, TypeOK
<1>9. CASE StartUp
  BY <1>9 DEF StartUp, OpenLog, Launch, Goto, TypeOK, Starting
<1>10. CASE UNCHANGED vars
  BY <1>10 DEF vars, TypeOK
<1> QED
  BY <1>1, <1>2, <1>4, <1>5, <1>6, <1>7, <1>8, <1>9, <1>10 DEF Next

-----------------------------------------------------------------------------
\* A pipeline thread moves on, main and the stops do not, and the thread was not
\* done: then nothing that main relies on changes.
LEMMA PipelineStep ==
  ASSUME ServerInv, NEW t \in Pipeline, NEW label,
         Running, pc[t] # "done",
         pc' = [pc EXCEPT ![t] = label],
         UNCHANGED <<main, stop_requested>>
  PROVE Joined' /\ LoggerWaits'
<1>1. pc["logger"] # "done" /\ pc'["logger"] = pc["logger"]
  BY DEF ServerInv, TypeOK, Joined, LoggerWaits, Pipeline, Threads, JoinedListener, JoinedParser,
         JoinedLogic, StoppedLogger
<1>2. LoggerWaits'
  BY <1>1 DEF ServerInv, LoggerWaits
<1>3. Joined'
  BY DEF ServerInv, TypeOK, Joined, Pipeline, Threads
<1> QED
  BY <1>2, <1>3

\* The invariant is preserved by every step.
LEMMA InvStep == ServerInv /\ [Next]_vars => ServerInv'
<1> SUFFICES ASSUME ServerInv, [Next]_vars PROVE ServerInv'
  OBVIOUS
<1>0. TypeOK /\ TypeOK'
  BY TypeStep DEF ServerInv
<1> USE DEF queues, logVars, netVars
<1> DEFINE Rest == Joined /\ LoggerWaits
<1>1. ASSUME SetUp \/ ListenerChecksStop \/ ShutdownEvent \/ BatchDone \/ EpollInterrupted \/ EpollFails
      PROVE Rest'
  <2>1. PICK label : pc' = [pc EXCEPT !["listener"] = label]
    BY <1>1 DEF SetUp, ListenerChecksStop, ShutdownEvent, BatchDone, EpollInterrupted, EpollFails, Goto
  <2>2. Running /\ pc["listener"] # "done" /\ UNCHANGED <<main, stop_requested>>
    BY <1>1 DEF SetUp, ListenerChecksStop, ShutdownEvent, BatchDone, EpollInterrupted, EpollFails, At
  <2> QED
    BY <2>1, <2>2, PipelineStep DEF Pipeline
<1>2. ASSUME NEW clients, NEW shutdown, EpollReturns(clients, shutdown) PROVE Rest'
  BY <1>2, PipelineStep DEF EpollReturns, At, Goto, Pipeline
<1>3. ASSUME NEW chunks, NEW lines, HandleClient(chunks, lines) PROVE Rest'
  <2>1. pc' = [pc EXCEPT !["listener"] = "dispatch"]
    BY <1>0, <1>3 DEF HandleClient, At, TypeOK, Threads, Pipeline
  <2> QED
    BY <1>3, <2>1, PipelineStep DEF HandleClient, At, Pipeline
<1>4. ASSUME SetupThrows PROVE Rest'
  BY <1>0, <1>4 DEF SetupThrows, At, Running, ServerInv, TypeOK, Joined, LoggerWaits, JoinedListener,
       JoinedParser, JoinedLogic, StoppedLogger
<1>5. ASSUME NEW t \in {"parser", "logic"}, worker(t) PROVE Rest'
  <2>1. PICK label : pc' = [pc EXCEPT ![t] = label]
    BY <1>5 DEF worker, Starts, ChecksStop, Pops, PopsNothing, Leaves, Goto
  <2>2. Running /\ pc[t] # "done" /\ UNCHANGED <<main, stop_requested>>
    BY <1>5 DEF worker, Starts, ChecksStop, Pops, PopsNothing, Leaves, At
  <2> QED
    BY <2>1, <2>2, PipelineStep DEF Pipeline
<1>6. ASSUME NEW packets, NEW lines, HandleChunk(packets, lines) PROVE Rest'
  BY <1>6, PipelineStep DEF HandleChunk, At, Goto, Pipeline
<1>7. ASSUME NEW lines, HandlePacket(lines) PROVE Rest'
  BY <1>7, PipelineStep DEF HandlePacket, At, Goto, Pipeline
<1>8. ASSUME logger PROVE Rest'
  <2>1. /\ UNCHANGED <<main, stop_requested>>
        /\ \A t \in Pipeline : pc'[t] = pc[t]
    BY <1>0, <1>8 DEF logger, Drain, LoggerChecksStop, WritesLine, FindsNoLine, Goto, TypeOK, Threads, Pipeline
  <2>2. Joined'
    BY <2>1 DEF ServerInv, Joined, Pipeline
  <2>3. CASE LoggerChecksStop
    BY <1>0, <2>1, <2>2, <2>3 DEF LoggerChecksStop, Goto, ServerInv, LoggerWaits, TypeOK, Threads, At
  <2>4. CASE FindsNoLine("pop", "drain") \/ FindsNoLine("drain", "done")
    BY <1>0, <2>1, <2>2, <2>4 DEF FindsNoLine, Goto, ServerInv, LoggerWaits, TypeOK, Threads, At
  <2>5. CASE WritesLine("pop", "while") \/ WritesLine("drain", "drain")
    BY <1>0, <2>1, <2>2, <2>5 DEF WritesLine, Goto, ServerInv, LoggerWaits, TypeOK, Threads, At
  <2> QED
    BY <1>8, <2>2, <2>3, <2>4, <2>5 DEF logger, Drain
<1>9. ASSUME signal_handler \/ SeesShutdown PROVE Rest'
  BY <1>9 DEF signal_handler, SeesShutdown, ServerInv, Joined, LoggerWaits, JoinedListener,
       JoinedParser, JoinedLogic, StoppedLogger
<1>10. ASSUME ShutDown PROVE Rest'
  <2>1. /\ UNCHANGED <<pc, log_queue>>
        /\ "logger" \in stop_requested' => "logger" \in stop_requested \/ main = "stop logger"
        /\ stop_requested \subseteq stop_requested'
    BY <1>10 DEF ShutDown, RequestStop, WakeListener, Join
  <2>2. Joined'
    BY <1>10, <2>1 DEF ShutDown, RequestStop, WakeListener, Join, ServerInv, Joined, JoinedListener,
         JoinedParser, JoinedLogic
  <2>3. "logger" \in stop_requested' => main' \in StoppedLogger
    BY <1>10, <2>1 DEF ShutDown, RequestStop, WakeListener, Join, ServerInv, LoggerWaits, StoppedLogger
  <2>4. LoggerWaits'
    BY <2>1, <2>3 DEF ServerInv, LoggerWaits
  <2> QED
    BY <2>2, <2>4
<1>11. ASSUME StartUp \/ StartUpThrows PROVE Rest'
  <2>1. /\ main \in Starting /\ main' \in Starting \cup {"polling", "terminated"}
        /\ UNCHANGED <<stop_requested, log_queue>>
    BY <1>11 DEF StartUp, StartUpThrows, OpenLog, Launch, Starting
  <2>2. "logger" \notin stop_requested
    BY <2>1 DEF ServerInv, LoggerWaits, Starting, StoppedLogger
  <2>3. pc'["logger"] \notin {"drain", "done"}
    <3>1. pc["logger"] \notin {"drain", "done"} /\ "logger" \in DOMAIN pc
      BY <1>0, <2>2 DEF ServerInv, LoggerWaits, TypeOK, Threads
    <3>2. CASE UNCHANGED pc
      BY <3>1, <3>2
    <3>3. ASSUME NEW t, pc' = [pc EXCEPT ![t] = IF t = "logger" THEN "while" ELSE "start"]
          PROVE pc'["logger"] \notin {"drain", "done"}
      BY <3>1, <3>3
    <3> QED
      BY <1>11, <3>2, <3>3 DEF StartUp, StartUpThrows, OpenLog, Launch, Goto
  <2> QED
    BY <2>1, <2>2, <2>3 DEF Starting, Joined, LoggerWaits, JoinedListener, JoinedParser, JoinedLogic
<1>12. ASSUME UNCHANGED vars PROVE Rest'
  BY <1>12 DEF vars, ServerInv, Joined, LoggerWaits
<1>13. Rest'
  <2> HIDE DEF Rest
  <2> QED
    BY <1>1, <1>2, <1>3, <1>4, <1>5, <1>6, <1>7, <1>8, <1>9, <1>10, <1>11, <1>12
       DEF Next, listens, disturbed, parser, logic
<1> QED
  BY <1>0, <1>13 DEF ServerInv

\* The invariant holds from the start.
LEMMA InitInv == Init => ServerInv
<1> SUFFICES ASSUME Init PROVE ServerInv
  OBVIOUS
<1>1. TypeOK
  <2>1. log_queue \in Seq(Line)
    <3>1. log_queue = << >>
      BY DEF Init
    <3> QED
      BY <3>1
  <2>2. batch \in Batch
    BY BatchTypes DEF Init, NoEvents
  <2>3. pc \in [Threads -> Label]
    BY DEF Init, Label
  <2>4. raw_queue \in Nat /\ parsed_queue \in Nat /\ events \in Nat
    BY DEF Init
  <2>5. logged \in [Line -> Nat] /\ written \in [Line -> Nat]
    BY DEF Init
  <2> QED
    BY <2>1, <2>2, <2>3, <2>4, <2>5 DEF Init, TypeOK, Label, Starting
<1>2. Joined /\ LoggerWaits
  BY DEF Init, Joined, LoggerWaits, JoinedListener, JoinedParser, JoinedLogic, Threads, Pipeline
<1> QED
  BY <1>1, <1>2 DEF ServerInv

\* The invariant holds throughout.
THEOREM ServerCorrect == Spec => []ServerInv
<1>1. Init => ServerInv
  BY InitInv
<1>2. ServerInv /\ [Next]_vars => ServerInv'
  BY InvStep
<1> QED
  BY <1>1, <1>2, PTL DEF Spec

\* Every variable keeps its type: no counter of a queue falls below zero.
THEOREM TypeCorrect == Spec => []TypeOK
<1>1. ServerInv => TypeOK
  BY DEF ServerInv
<1> QED
  BY <1>1, ServerCorrect, PTL

\* The order of main's stops and joins (src/main.cpp:116-129) makes the drain
\* of AsyncLogger::run enough: when the logger returns, every thread that could
\* still push a line has ended, and the queue is empty.
THEOREM LoggerIsLast == Spec => []LoggerLeavesLast
<1>1. ServerInv => LoggerLeavesLast
  BY DEF ServerInv, LoggerLeavesLast, Joined, LoggerWaits, JoinedListener, JoinedParser, JoinedLogic,
         StoppedLogger, Pipeline
<1> QED
  BY <1>1, ServerCorrect, PTL

-----------------------------------------------------------------------------
(* What becomes of every line.                                             *)

Kind == {"running", "event", "final"}
ParserFinal == <<"parser", "final">>
LogicFinal == <<"logic", "final">>

\* A line that was pushed is written or still queued.
Accounted == \A line \in Line : logged[line] = written[line] + Count(log_queue, {line})

\* Who is told to stop, and when: nobody before main polls, the business logic
\* only after the listener and the parser are joined.  The two workers leave
\* their loops for no other reason.
Stops ==
  /\ stop_requested # {} => main \notin Starting
  /\ "logic" \in stop_requested => main \in {"join logic", "stop logger", "join logger", "exited"}
  /\ \A t \in {"parser", "logic"} : pc[t] \in {"leave", "done"} => t \in stop_requested
  /\ main = "exited" => pc["logger"] = "done"

\* A summary is pushed once, by the step that ends its thread.
SummariesLogged ==
  /\ logged[ParserFinal] = IF pc["parser"] = "done" THEN 1 ELSE 0
  /\ logged[LogicFinal] = IF pc["logic"] = "done" THEN 1 ELSE 0

\* Nothing is queued behind the summary of the business logic.
SummaryLast ==
  /\ \A i \in 1 .. Len(log_queue) : log_queue[i] = LogicFinal => i = Len(log_queue)
  /\ written[LogicFinal] > 0 => log_queue = << >>

LinesInv == Accounted /\ Stops /\ SummariesLogged /\ SummaryLast

\* A step pushes some lines of a thread that has not ended, writes one, or
\* leaves the log alone.
Pushes(t, kind, n) == Running /\ pc[t] # "done" /\ Log(t, kind, n)

LEMMA LogSteps ==
  ASSUME [Next]_vars
  PROVE \/ \E t \in Pipeline, kind \in Kind, n \in Nat : Pushes(t, kind, n)
        \/ \E from, to \in Label : WritesLine(from, to)
        \/ UNCHANGED logVars
<1> USE ServerAssumption DEF Kind, Pipeline, Pushes, At
<1>1. CASE listens
  <2>1. CASE SetUp
    BY <2>1 DEF SetUp
  <2>2. CASE ListenerChecksStop \/ BatchDone
    BY <2>2 DEF ListenerChecksStop, BatchDone
  <2>3. CASE ShutdownEvent
    BY <2>3 DEF ShutdownEvent
  <2>4. ASSUME NEW clients \in 0 .. MaxReady, EpollReturns(clients, TRUE) PROVE UNCHANGED logVars
    BY <2>4 DEF EpollReturns
  <2>5. ASSUME NEW chunks \in 0 .. MaxItems, NEW lines \in 0 .. MaxLines, HandleClient(chunks, lines)
        PROVE \E n \in Nat : Pushes("listener", "event", n)
    BY <2>5 DEF HandleClient
  <2> QED
    BY <1>1, <2>1, <2>2, <2>3, <2>4, <2>5 DEF listens
<1>2. CASE disturbed
  <2>1. CASE SetupThrows \/ EpollInterrupted
    BY <2>1 DEF SetupThrows, EpollInterrupted
  <2>2. CASE EpollFails
    BY <2>2 DEF EpollFails
  <2>3. ASSUME NEW clients, EpollReturns(clients, FALSE) PROVE UNCHANGED logVars
    BY <2>3 DEF EpollReturns
  <2> QED
    BY <1>2, <2>1, <2>2, <2>3 DEF disturbed
<1>3. ASSUME NEW t \in {"parser", "logic"}, worker(t)
      PROVE (\E kind \in Kind, n \in Nat : Pushes(t, kind, n)) \/ UNCHANGED logVars
  <2>1. CASE Starts(t)
    BY <2>1 DEF Starts
  <2>2. CASE ChecksStop(t) \/ PopsNothing(t) \/ Pops(t)
    BY <2>2 DEF ChecksStop, PopsNothing, Pops
  <2>3. CASE Leaves(t)
    BY <2>3 DEF Leaves
  <2> QED
    BY <1>3, <2>1, <2>2, <2>3 DEF worker
<1>4. ASSUME NEW packets \in 0 .. MaxItems, NEW lines \in 0 .. MaxLines, HandleChunk(packets, lines)
      PROVE \E n \in Nat : Pushes("parser", "event", n)
  BY <1>4 DEF HandleChunk
<1>5. ASSUME NEW lines \in 0 .. MaxLines, HandlePacket(lines)
      PROVE \E n \in Nat : Pushes("logic", "event", n)
  BY <1>5 DEF HandlePacket
<1>6. CASE logger
  BY <1>6 DEF logger, Drain, LoggerChecksStop, FindsNoLine, Label
<1>7. CASE signal_handler \/ SeesShutdown \/ StartUpThrows
  BY <1>7 DEF signal_handler, SeesShutdown, StartUpThrows
<1>8. CASE ShutDown
  BY <1>8 DEF ShutDown, RequestStop, WakeListener, Join
<1>9. CASE StartUp
  BY <1>9 DEF StartUp, OpenLog, Launch
<1>10. CASE UNCHANGED vars
  BY <1>10 DEF vars
<1> HIDE DEF Pushes
<1> QED
  BY <1>1, <1>2, <1>3, <1>4, <1>5, <1>6, <1>7, <1>8, <1>9, <1>10 DEF Next, parser, logic

\* No step loses or invents a line.
LEMMA AccountedStep == TypeOK /\ Accounted /\ [Next]_vars => Accounted'
<1> SUFFICES ASSUME TypeOK, Accounted, [Next]_vars, NEW line \in Line
             PROVE (logged[line] = written[line] + Count(log_queue, {line}))'
  BY DEF Accounted
<1>0. /\ log_queue \in Seq(Line) /\ logged \in [Line -> Nat] /\ written \in [Line -> Nat]
      /\ logged[line] = written[line] + Count(log_queue, {line})
  BY DEF TypeOK, Accounted
<1>1. Count(log_queue, {line}) \in Nat
  BY <1>0, WhereFinite
<1>2. ASSUME NEW t \in Pipeline, NEW kind \in Kind, NEW n \in Nat, Pushes(t, kind, n)
      PROVE (logged[line] = written[line] + Count(log_queue, {line}))'
  <2>1. PICK new \in Line : new = <<t, kind>>
    BY DEF Line, Kind
  <2>2. Times(n, new) \in Seq(Line)
    BY DEF Times
  <2>3. log_queue' = log_queue \o Times(n, new) /\ written' = written
    BY <1>2, <2>1 DEF Pushes, Log, Times
  <2>4. logged' = [logged EXCEPT ![new] = logged[new] + n]
    BY <1>2, <2>1 DEF Pushes, Log
  <2>5. Count(log_queue', {line}) = Count(log_queue, {line}) + Count(Times(n, new), {line})
    BY <1>0, <2>2, <2>3, CountConcat
  <2>6. Count(Times(n, new), {line}) = IF new = line THEN n ELSE 0
    <3>1. Count(Times(n, new), {line}) = IF new \in {line} THEN n ELSE 0
      BY CountConstant
    <3> QED
      BY <3>1
  <2>7. logged'[line] = logged[line] + IF new = line THEN n ELSE 0
    BY <1>0, <2>4
  <2> QED
    BY <1>0, <1>1, <2>3, <2>5, <2>6, <2>7
<1>3. ASSUME NEW from \in Label, NEW to \in Label, WritesLine(from, to)
      PROVE (logged[line] = written[line] + Count(log_queue, {line}))'
  <2>1. log_queue # << >> /\ log_queue' = Tail(log_queue) /\ logged' = logged
    BY <1>3 DEF WritesLine
  <2>2. PICK head \in Line : head = Head(log_queue)
    BY <2>1, LineTypes
  <2>3. written' = [written EXCEPT ![head] = written[head] + 1]
    BY <1>3, <2>2 DEF WritesLine
  <2>4. Count(log_queue', {line}) = Count(log_queue, {line}) - IF head = line THEN 1 ELSE 0
    <3>1. Count(Tail(log_queue), {line}) = Count(log_queue, {line}) - IF Head(log_queue) \in {line} THEN 1 ELSE 0
      BY <1>0, <2>1, CountTail
    <3> QED
      BY <2>1, <2>2, <3>1
  <2>5. written'[line] = written[line] + IF head = line THEN 1 ELSE 0
    BY <1>0, <2>3
  <2> QED
    BY <1>0, <1>1, <2>1, <2>4, <2>5
<1>4. CASE UNCHANGED logVars
  BY <1>0, <1>4 DEF logVars
<1> QED
  BY <1>2, <1>3, <1>4, LogSteps

\* No step of a thread or of main breaks the order of the stops.
LEMMA StopsStep == ServerInv /\ Stops /\ [Next]_vars => Stops'
<1> SUFFICES ASSUME ServerInv, Stops, [Next]_vars PROVE Stops'
  OBVIOUS
<1>0. pc \in [Threads -> Label] /\ stop_requested \subseteq Threads
  BY DEF ServerInv, TypeOK, Label
<1> USE DEF Threads, Pipeline, At, Goto, Running
<1>1. CASE listens \/ EpollInterrupted \/ EpollFails \/ (\E clients \in 1 .. MaxReady : EpollReturns(clients, FALSE))
  <2>1. /\ UNCHANGED <<main, stop_requested>> /\ main # "exited"
        /\ pc' = pc \/ \E label : pc' = [pc EXCEPT !["listener"] = label]
    BY <1>1 DEF listens, EpollInterrupted, EpollFails, EpollReturns, SetUp, ListenerChecksStop, ShutdownEvent,
                BatchDone, HandleClient
  <2> QED
    BY <1>0, <2>1 DEF Stops
<1>2. CASE SetupThrows
  BY <1>2 DEF SetupThrows, Stops, Starting, ServerInv, Joined, JoinedListener
<1>3. ASSUME NEW t \in {"parser", "logic"}, worker(t) PROVE Stops'
  <2>1. UNCHANGED <<main, stop_requested>> /\ main # "exited"
    BY <1>3 DEF worker, Starts, ChecksStop, Pops, PopsNothing, Leaves
  <2>2. \E label : pc' = [pc EXCEPT ![t] = label] /\ (label \in {"leave", "done"} => t \in stop_requested)
    BY <1>3 DEF worker, Starts, ChecksStop, Pops, PopsNothing, Leaves, Stops
  <2> QED
    BY <1>0, <2>1, <2>2 DEF Stops
<1>4. ASSUME NEW packets, NEW lines, HandleChunk(packets, lines) PROVE Stops'
  BY <1>0, <1>4 DEF HandleChunk, Stops
<1>5. ASSUME NEW lines, HandlePacket(lines) PROVE Stops'
  BY <1>0, <1>5 DEF HandlePacket, Stops
<1>6. CASE logger
  <2>1. /\ UNCHANGED <<main, stop_requested>> /\ main # "exited"
        /\ \E label : pc' = [pc EXCEPT !["logger"] = label]
    BY <1>6 DEF logger, Drain, LoggerChecksStop, WritesLine, FindsNoLine
  <2> QED
    BY <1>0, <2>1 DEF Stops
<1>7. CASE signal_handler \/ SeesShutdown
  BY <1>7 DEF signal_handler, SeesShutdown, Stops, Starting
<1>8. CASE ShutDown
  BY <1>8 DEF ShutDown, RequestStop, WakeListener, Join, Stops, Starting
<1>9. CASE StartUp \/ StartUpThrows
  <2>1. /\ main \in Starting /\ main' # "exited" /\ UNCHANGED stop_requested
        /\ pc' = pc \/ \E t \in Threads : pc' = [pc EXCEPT ![t] = IF t = "logger" THEN "while" ELSE "start"]
    BY <1>9 DEF StartUp, StartUpThrows, OpenLog, Launch, Starting
  <2>2. stop_requested = {}
    BY <2>1 DEF Stops
  <2> QED
    BY <1>0, <2>1, <2>2 DEF Stops
<1>10. CASE UNCHANGED vars
  BY <1>10 DEF vars, Stops
<1> QED
  BY <1>1, <1>2, <1>3, <1>4, <1>5, <1>6, <1>7, <1>8, <1>9, <1>10 DEF Next, disturbed, parser, logic

\* Lines of another kind or of another thread are no summary.
LEMMA OtherLines ==
  ASSUME TypeOK, NEW t \in Pipeline, NEW kind \in Kind, NEW n \in Nat, Log(t, kind, n),
         NEW s \in {"parser", "logic"}, t # s \/ kind # "final"
  PROVE logged'[<<s, "final">>] = logged[<<s, "final">>]
<1>1. PICK final \in Line : final = <<s, "final">>
  BY DEF Line, Pipeline
<1>2. PICK new \in Line : new = <<t, kind>>
  BY DEF Line, Kind
<1>3. logged' = [logged EXCEPT ![new] = logged[new] + n] /\ logged \in [Line -> Nat]
  BY <1>2 DEF Log, TypeOK
<1>4. new # final
  BY <1>1, <1>2
<1>5. logged'[final] = logged[final]
  BY <1>3, <1>4
<1> QED
  BY <1>1, <1>5

\* No step pushes a summary but the one that ends its thread.
LEMMA SummariesStep == ServerInv /\ Stops /\ SummariesLogged /\ [Next]_vars => SummariesLogged'
<1> SUFFICES ASSUME ServerInv, Stops, SummariesLogged, [Next]_vars PROVE SummariesLogged'
  OBVIOUS
<1>0. pc \in [Threads -> Label] /\ TypeOK
  BY DEF ServerInv, TypeOK, Label
<1> DEFINE Same(t) == /\ logged'[<<t, "final">>] = logged[<<t, "final">>]
                      /\ pc'[t] = "done" <=> pc[t] = "done"
<1>1. SUFFICES ASSUME NEW s \in {"parser", "logic"}
               PROVE Same(s) \/ (/\ logged'[<<s, "final">>] = logged[<<s, "final">>] + 1
                                 /\ pc[s] # "done" /\ pc'[s] = "done")
  <2>1. CASE Same("parser") /\ Same("logic")
    BY <2>1 DEF SummariesLogged, ParserFinal, LogicFinal
  <2>2. CASE ~(Same("parser") /\ Same("logic"))
    BY <1>1, <2>2 DEF SummariesLogged, ParserFinal, LogicFinal
  <2> QED
    BY <2>1, <2>2
<1> USE ServerAssumption DEF Threads, Pipeline, At, Goto, Kind, logVars
<1>2. CASE listens \/ disturbed
  <2>1. pc' = pc \/ \E label : pc' = [pc EXCEPT !["listener"] = label]
    BY <1>2 DEF listens, disturbed, SetupThrows, EpollInterrupted, EpollFails, EpollReturns, SetUp,
                ListenerChecksStop, ShutdownEvent, BatchDone, HandleClient
  <2>2. logged' = logged \/ \E kind \in Kind, n \in Nat : Log("listener", kind, n)
    BY <1>2 DEF listens, disturbed, SetupThrows, EpollInterrupted, EpollFails, EpollReturns, SetUp,
                ListenerChecksStop, ShutdownEvent, BatchDone, HandleClient
  <2>3. logged'[<<s, "final">>] = logged[<<s, "final">>]
    BY <1>0, <2>2, OtherLines
  <2> QED
    BY <1>0, <2>1, <2>3
<1>3. ASSUME NEW t \in {"parser", "logic"}, worker(t), ~Leaves(t) PROVE Same(s)
  <2>1. pc[t] # "done" /\ \E label \in Label \ {"done"} : pc' = [pc EXCEPT ![t] = label]
    BY <1>3 DEF worker, Starts, ChecksStop, Pops, PopsNothing, Label
  <2>2. logged' = logged \/ Log(t, "running", 1)
    BY <1>3 DEF worker, Starts, ChecksStop, Pops, PopsNothing
  <2>3. logged'[<<s, "final">>] = logged[<<s, "final">>]
    BY <1>0, <2>2, OtherLines
  <2> QED
    BY <1>0, <2>1, <2>3
<1>4. ASSUME NEW t \in {"parser", "logic"}, Leaves(t), t # s PROVE Same(s)
  <2>1. Log(t, "final", 1) /\ pc' = [pc EXCEPT ![t] = "done"]
    BY <1>4 DEF Leaves
  <2>2. logged'[<<s, "final">>] = logged[<<s, "final">>]
    BY <1>0, <1>4, <2>1, OtherLines
  <2> QED
    BY <1>0, <1>4, <2>1, <2>2
<1>5. ASSUME Leaves(s) PROVE logged'[<<s, "final">>] = logged[<<s, "final">>] + 1 /\ pc[s] # "done" /\ pc'[s] = "done"
  <2>1. PICK final \in Line : final = <<s, "final">>
    BY DEF Line
  <2>2. logged' = [logged EXCEPT ![final] = logged[final] + 1] /\ logged \in [Line -> Nat]
    BY <1>0, <1>5, <2>1 DEF Leaves, Log, TypeOK
  <2>3. logged'[final] = logged[final] + 1
    BY <2>2
  <2>4. pc[s] # "done" /\ pc'[s] = "done"
    BY <1>0, <1>5 DEF Leaves
  <2> QED
    BY <2>1, <2>3, <2>4
<1>6. ASSUME NEW packets, NEW lines \in 0 .. MaxLines, HandleChunk(packets, lines) PROVE Same(s)
  <2>1. logged'[<<s, "final">>] = logged[<<s, "final">>]
    BY <1>0, <1>6, OtherLines DEF HandleChunk
  <2> QED
    BY <1>0, <1>6, <2>1 DEF HandleChunk
<1>7. ASSUME NEW lines \in 0 .. MaxLines, HandlePacket(lines) PROVE Same(s)
  <2>1. logged'[<<s, "final">>] = logged[<<s, "final">>]
    BY <1>0, <1>7, OtherLines DEF HandlePacket
  <2> QED
    BY <1>0, <1>7, <2>1 DEF HandlePacket
<1>8. CASE logger
  <2>1. logged' = logged /\ \E label : pc' = [pc EXCEPT !["logger"] = label]
    BY <1>8 DEF logger, Drain, LoggerChecksStop, WritesLine, FindsNoLine
  <2> QED
    BY <1>0, <2>1
<1>9. CASE signal_handler \/ SeesShutdown \/ ShutDown
  BY <1>9 DEF signal_handler, SeesShutdown, ShutDown, RequestStop, WakeListener, Join
<1>10. CASE StartUp \/ StartUpThrows
  <2>1. /\ main \in Starting /\ UNCHANGED logged
        /\ pc' = pc \/ \E t \in Threads : pc' = [pc EXCEPT ![t] = IF t = "logger" THEN "while" ELSE "start"]
    BY <1>10 DEF StartUp, StartUpThrows, OpenLog, Launch, Starting
  <2>2. pc[s] # "done"
    BY <2>1 DEF Stops
  <2> QED
    BY <1>0, <2>1, <2>2
<1>11. CASE UNCHANGED vars
  BY <1>11 DEF vars
<1> HIDE DEF Same
<1> QED
  BY <1>2, <1>3, <1>4, <1>5, <1>6, <1>7, <1>8, <1>9, <1>10, <1>11 DEF Next, parser, logic

\* Once the business logic has left its loop, the threads before it have ended.
LEMMA LogicEndsLast ==
  ASSUME ServerInv, Stops, pc["logic"] \in {"leave", "done"}
  PROVE pc["listener"] = "done" /\ pc["parser"] = "done"
  BY DEF ServerInv, Joined, Stops, JoinedListener, JoinedParser

\* Nothing is pushed behind the summary of the business logic.
LEMMA SummaryLastStep == ServerInv /\ LinesInv /\ [Next]_vars => SummaryLast'
<1> SUFFICES ASSUME ServerInv, LinesInv, [Next]_vars PROVE SummaryLast'
  OBVIOUS
<1>0. /\ TypeOK /\ log_queue \in Seq(Line) /\ logged \in [Line -> Nat] /\ written \in [Line -> Nat]
      /\ LogicFinal \in Line
  BY DEF ServerInv, TypeOK, Line, LogicFinal, Pipeline
<1>1. /\ Count(log_queue, {LogicFinal}) \in Nat
      /\ logged[LogicFinal] = written[LogicFinal] + Count(log_queue, {LogicFinal})
  BY <1>0, WhereFinite DEF LinesInv, Accounted
<1>2. ASSUME NEW t \in Pipeline, NEW kind \in Kind, NEW n \in Nat, Pushes(t, kind, n)
      PROVE SummaryLast'
  <2>1. pc["logic"] # "done"
    BY <1>2, LogicEndsLast DEF Pushes, Pipeline, LinesInv
  <2>2. written[LogicFinal] = 0 /\ Count(log_queue, {LogicFinal}) = 0
    BY <1>0, <1>1, <2>1 DEF LinesInv, SummariesLogged
  <2>3. \A i \in 1 .. Len(log_queue) : log_queue[i] # LogicFinal
    <3>1. Where(log_queue, {LogicFinal}) = {}
      BY <1>0, <2>2, WhereFinite, FS_EmptySet DEF Count
    <3> QED
      BY <1>0, <3>1 DEF Where
  <2>4. PICK new \in Line : new = <<t, kind>>
    BY DEF Line, Kind
  <2>5. log_queue' = log_queue \o Times(n, new) /\ written' = written
    BY <1>2, <2>4 DEF Pushes, Log, Times
  <2>6. n \in {0, 1} \/ new # LogicFinal
    <3>1. CASE n = 1 \/ t # "logic" \/ kind # "final"
      BY <3>1, <2>4 DEF LogicFinal
    <3>2. CASE n # 1 /\ t = "logic" /\ kind = "final"
      <4>1. Log("logic", "final", n)
        BY <1>2, <3>2 DEF Pushes
      <4>2. logged'[LogicFinal] = logged[LogicFinal] + n
        <5>1. logged' = [logged EXCEPT ![LogicFinal] = logged[LogicFinal] + n]
          BY <4>1 DEF Log, LogicFinal
        <5> QED
          BY <1>0, <5>1
      <4>3. logged'[LogicFinal] \in {0, 1} /\ logged[LogicFinal] = 0
        BY SummariesStep, <2>1 DEF LinesInv, SummariesLogged
      <4>4. n = 0
        BY <3>2, <4>2, <4>3
      <4> QED
        BY <4>4
    <3> QED
      BY <3>1, <3>2
  <2>7. Times(n, new) \in Seq(Line) /\ Len(Times(n, new)) = n /\ \A i \in 1 .. n : Times(n, new)[i] = new
    BY DEF Times
  <2>8. \A i \in 1 .. Len(log_queue') : log_queue'[i] = LogicFinal => i = Len(log_queue')
    BY <1>0, <2>3, <2>5, <2>6, <2>7
  <2> QED
    BY <2>2, <2>5, <2>8 DEF SummaryLast
<1>3. ASSUME NEW from \in Label, NEW to \in Label, WritesLine(from, to) PROVE SummaryLast'
  <2>1. log_queue # << >> /\ log_queue' = Tail(log_queue)
    BY <1>3 DEF WritesLine
  <2>2. PICK head \in Line : head = Head(log_queue)
    BY <1>0, <2>1, LineTypes
  <2>3. written' = [written EXCEPT ![head] = written[head] + 1]
    BY <1>3, <2>2 DEF WritesLine
  <2>4. \A i \in 1 .. Len(log_queue') : log_queue'[i] = LogicFinal => i = Len(log_queue')
    BY <1>0, <2>1 DEF LinesInv, SummaryLast
  <2>5. written'[LogicFinal] > 0 => log_queue' = << >>
    <3>1. CASE head = LogicFinal
      <4>1. log_queue[1] = LogicFinal /\ 1 \in 1 .. Len(log_queue)
        BY <1>0, <2>1, <2>2, <3>1
      <4>2. Len(log_queue) = 1
        BY <4>1 DEF LinesInv, SummaryLast
      <4>3. Tail(log_queue) \in Seq(Line) /\ Len(Tail(log_queue)) = 0
        BY <1>0, <2>1, <4>2
      <4> QED
        BY <2>1, <4>3
    <3>2. CASE head # LogicFinal
      BY <1>0, <2>1, <2>3, <3>2 DEF LinesInv, SummaryLast
    <3> QED
      BY <3>1, <3>2
  <2> QED
    BY <2>4, <2>5 DEF SummaryLast
<1>4. CASE UNCHANGED logVars
  BY <1>4 DEF logVars, LinesInv, SummaryLast
<1> QED
  BY <1>2, <1>3, <1>4, LogSteps

\* The two invariants hold throughout.
THEOREM LinesCorrect == Spec => [](ServerInv /\ LinesInv)
<1>1. Init => LinesInv
  <2> SUFFICES ASSUME Init PROVE LinesInv
    OBVIOUS
  <2>1. ASSUME NEW line \in Line PROVE logged[line] = written[line] + Count(log_queue, {line})
    <3>1. logged[line] = 0 /\ written[line] = 0 /\ log_queue = << >>
      BY DEF Init
    <3>2. Count(<< >>, {line}) = 0
      BY CountSmall
    <3> QED
      BY <3>1, <3>2
  <2>2. Stops
    BY DEF Init, Stops, Threads, Pipeline, Starting
  <2>3. ParserFinal \in Line /\ LogicFinal \in Line
    BY DEF Line, Pipeline, ParserFinal, LogicFinal
  <2>4. SummariesLogged
    BY <2>3 DEF Init, SummariesLogged, Threads, Pipeline
  <2>5. SummaryLast
    <3>1. log_queue = << >> /\ written[LogicFinal] = 0
      BY <2>3 DEF Init
    <3> QED
      BY <3>1 DEF SummaryLast
  <2> QED
    BY <2>1, <2>2, <2>4, <2>5 DEF LinesInv, Accounted
<1>2. ServerInv /\ LinesInv /\ [Next]_vars => LinesInv'
  BY AccountedStep, StopsStep, SummariesStep, SummaryLastStep DEF LinesInv, ServerInv
<1> QED
  BY <1>1, <1>2, ServerCorrect, PTL DEF Spec

\* "ensuring no log lines are lost" (include/asyncLogger.h:31), for any number
\* of events, chunks, packets and lines: when main returns, every line that
\* any thread pushed was written, as often as it was pushed.
THEOREM LinesAreWritten == Spec => []NoLineLost
<1>1. ServerInv /\ LinesInv => NoLineLost
  <2> SUFFICES ASSUME ServerInv, LinesInv, main = "exited" PROVE written = logged
    BY DEF NoLineLost
  <2>1. log_queue = << >>
    BY DEF LinesInv, Stops, ServerInv, LoggerWaits
  <2>2. ASSUME NEW line \in Line PROVE logged[line] = written[line]
    <3>1. Count(log_queue, {line}) = 0
      BY <2>1, CountSmall
    <3>2. logged[line] = written[line] + Count(log_queue, {line}) /\ written[line] \in Nat
      BY DEF LinesInv, Accounted, ServerInv, TypeOK
    <3> QED
      BY <3>1, <3>2
  <2>3. logged \in [Line -> Nat] /\ written \in [Line -> Nat]
    BY DEF ServerInv, TypeOK
  <2> QED
    BY <2>2, <2>3
<1> QED
  BY <1>1, LinesCorrect, PTL

\* What the logger writes ends with the parser's summary and then the business logic's
\* (README.md:163-164), however the pushes of the threads and the writes of the
\* logger interleave: main stops the threads in the direction of the data.
THEOREM SummariesEndTheLog == Spec => EndsWithSummaries
<1>1. ServerInv /\ LinesInv /\ [Next]_vars =>
        [written[<<"logic", "final">>] > 0 => written' = written /\ written[<<"parser", "final">>] = 1]_vars
  <2> SUFFICES ASSUME ServerInv, LinesInv, [Next]_vars, written[LogicFinal] > 0
               PROVE written' = written /\ written[ParserFinal] = 1
    BY DEF LogicFinal, ParserFinal
  <2>1. log_queue = << >>
    BY DEF LinesInv, SummaryLast
  <2>2. pc["logic"] = "done"
    <3>1. LogicFinal \in Line /\ log_queue \in Seq(Line) /\ written \in [Line -> Nat]
      BY DEF Line, Pipeline, LogicFinal, ServerInv, TypeOK
    <3>2. Count(log_queue, {LogicFinal}) \in Nat
      BY <3>1, WhereFinite
    <3>3. logged[LogicFinal] # 0
      BY <3>1, <3>2 DEF LinesInv, Accounted
    <3> QED
      BY <3>3 DEF LinesInv, SummariesLogged
  <2>3. written[ParserFinal] = 1
    <3>1. ParserFinal \in Line /\ written \in [Line -> Nat]
      BY DEF Line, Pipeline, ParserFinal, ServerInv, TypeOK
    <3>2. Count(log_queue, {ParserFinal}) = 0
      BY <2>1, CountSmall
    <3>3. logged[ParserFinal] = 1
      BY <2>2, LogicEndsLast DEF LinesInv, SummariesLogged
    <3> QED
      BY <3>1, <3>2, <3>3 DEF LinesInv, Accounted
  <2>4. written' = written
    <3>1. ASSUME NEW from, NEW to, WritesLine(from, to) PROVE FALSE
      BY <2>1, <3>1 DEF WritesLine
    <3> QED
      BY <3>1, LogSteps DEF Pushes, Log, logVars
  <2> QED
    BY <2>3, <2>4
<1> QED
  BY <1>1, LinesCorrect, PTL DEF Spec, EndsWithSummaries
=============================================================================
