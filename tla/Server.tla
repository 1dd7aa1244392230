------------------------------- MODULE Server -------------------------------
(***************************************************************************)
(* The program as a whole (src/main.cpp): the four threads, the three      *)
(* queues between them and the ordered shutdown.                           *)
(*                                                                         *)
(* A queue is the atomic one that ThreadSafeQueue implements (module       *)
(* BlockingQueue), and unbounded, as main declares it.  What a thread does *)
(* with one item is reduced to how many items and log lines come out of    *)
(* it; modules StreamingParser and ThreadSafeQueue have the rest.          *)
(***************************************************************************)
EXTENDS Integers, Sequences

CONSTANTS
  MaxEvents,   \* bound: client events in a behaviour
  MaxReady,    \* most client events in one epoll_wait
  MaxItems,    \* most chunks from one event, and packets from one chunk
  MaxLines     \* most log lines from one item

ASSUME ServerAssumption ==
  MaxEvents \in Nat /\ MaxReady \in Nat /\ MaxItems \in Nat /\ MaxLines \in Nat

VARIABLES
  g_shutdown_requested,
  main,            \* where main() is
  pc,              \* where each thread is
  stop_requested,  \* the threads whose token was stopped
  raw_queue,       \* number of DataChunks
  parsed_queue,    \* number of Telemetry records
  log_queue,       \* log lines: <<thread, kind>>
  eventfd,         \* m_event_fd is readable
  batch,           \* events of epoll_wait to dispatch: [clients, shutdown]
  events,          \* client events so far
  logged,          \* how many of each line were pushed to it so far
  written          \* how many of each line the logger wrote

queues == <<raw_queue, parsed_queue>>
logVars == <<log_queue, logged, written>>
netVars == <<eventfd, batch, events>>
vars == <<g_shutdown_requested, main, pc, stop_requested, queues, logVars, netVars>>

Pipeline == {"listener", "parser", "logic"}
Threads == Pipeline \cup {"logger"}
Line == Pipeline \X {"running", "event", "final"}
Batch == [clients : Nat, shutdown : BOOLEAN]
NoEvents == [clients |-> 0, shutdown |-> FALSE]

Init ==
  /\ g_shutdown_requested = FALSE
  /\ main = "open log"
  /\ pc = [t \in Threads |-> "not launched"]
  /\ stop_requested = {}
  /\ raw_queue = 0
  /\ parsed_queue = 0
  /\ log_queue = << >>
  /\ eventfd = FALSE
  /\ batch = NoEvents
  /\ events = 0
  /\ logged = [line \in Line |-> 0]
  /\ written = [line \in Line |-> 0]

\* The process is neither over nor ended by std::terminate.
Running == main \notin {"exited", "terminated"}

At(t, label) == Running /\ pc[t] = label
Goto(t, label) == pc' = [pc EXCEPT ![t] = label]

\* t pushes n lines of this kind to the log queue.
Log(t, kind, n) ==
  /\ log_queue' = log_queue \o [i \in 1 .. n |-> <<t, kind>>]
  /\ logged' = [logged EXCEPT ![<<t, kind>>] = @ + n]
  /\ UNCHANGED written

-----------------------------------------------------------------------------
(* NetworkListener::run                                                    *)

\* setup_server_socket or setup_epoll throws; nothing on the thread catches it.
SetupThrows ==
  /\ At("listener", "start")
  /\ main' = "terminated"
  /\ UNCHANGED <<g_shutdown_requested, pc, stop_requested, queues, logVars, netVars>>

\* The socket and epoll are set up and the stop callback is registered; a token
\* that is already stopped runs it at once.
SetUp ==
  /\ At("listener", "start")
  /\ Log("listener", "running", 1)
  /\ eventfd' = ("listener" \in stop_requested)
  /\ Goto("listener", "while")
  /\ UNCHANGED <<g_shutdown_requested, main, stop_requested, queues, batch, events>>

ListenerChecksStop ==
  /\ At("listener", "while")
  /\ Goto("listener", IF "listener" \in stop_requested THEN "done" ELSE "epoll_wait")
  /\ UNCHANGED <<g_shutdown_requested, main, stop_requested, queues, logVars, netVars>>

\* epoll_wait returns some of what is ready.  Events behind the eventfd's in
\* the array are not looked at, so they are left out of the batch.
EpollReturns(clients, shutdown) ==
  /\ At("listener", "epoll_wait")
  /\ shutdown => eventfd
  /\ clients > 0 \/ shutdown
  /\ events + clients <= MaxEvents
  /\ events' = events + clients
  /\ batch' = [clients |-> clients, shutdown |-> shutdown]
  /\ Goto("listener", "dispatch")
  /\ UNCHANGED <<g_shutdown_requested, main, stop_requested, queues, logVars, eventfd>>

\* The signal was delivered on this thread: EINTR.
EpollInterrupted ==
  /\ At("listener", "epoll_wait")
  /\ g_shutdown_requested
  /\ Goto("listener", "while")
  /\ UNCHANGED <<g_shutdown_requested, main, stop_requested, queues, logVars, netVars>>

\* Any other error of epoll_wait ends the thread.
EpollFails ==
  /\ At("listener", "epoll_wait")
  /\ Log("listener", "event", 1)
  /\ Goto("listener", "done")
  /\ UNCHANGED <<g_shutdown_requested, main, stop_requested, queues, netVars>>

\* handle_accept, handle_client_data and disconnect_client, for one event. Its
\* chunks are finitely many here; the loop of src/listener.cpp:277 that a flood
\* keeps going is step by step in Listener.
HandleClient(chunks, lines) ==
  /\ At("listener", "dispatch")
  /\ batch.clients > 0
  /\ raw_queue' = raw_queue + chunks
  /\ Log("listener", "event", lines)
  /\ batch' = [batch EXCEPT !.clients = @ - 1]
  /\ UNCHANGED <<g_shutdown_requested, main, pc, stop_requested, parsed_queue, eventfd, events>>

ShutdownEvent ==
  /\ At("listener", "dispatch")
  /\ batch.clients = 0 /\ batch.shutdown
  /\ eventfd' = FALSE
  /\ Log("listener", "final", 1)
  /\ Goto("listener", "done")
  /\ UNCHANGED <<g_shutdown_requested, main, stop_requested, queues, batch, events>>

BatchDone ==
  /\ At("listener", "dispatch")
  /\ batch = NoEvents
  /\ Goto("listener", "while")
  /\ UNCHANGED <<g_shutdown_requested, main, stop_requested, queues, logVars, netVars>>

\* What the listener does of its own accord, once an event is there.
listens ==
  \/ SetUp \/ ListenerChecksStop \/ ShutdownEvent \/ BatchDone
  \/ \E clients \in 0 .. MaxReady : EpollReturns(clients, TRUE)
  \/ \E chunks \in 0 .. MaxItems, lines \in 0 .. MaxLines : HandleClient(chunks, lines)

\* What the drones, the kernel and signals do to it.
disturbed ==
  \/ SetupThrows \/ EpollInterrupted \/ EpollFails
  \/ \E clients \in 1 .. MaxReady : EpollReturns(clients, FALSE)

-----------------------------------------------------------------------------
(* StreamingParser::run and BusinessLogic::run: the same loop around pop.  *)

Starts(t) ==
  /\ At(t, "start")
  /\ Log(t, "running", 1)
  /\ Goto(t, "while")
  /\ UNCHANGED <<g_shutdown_requested, main, stop_requested, queues, netVars>>

ChecksStop(t) ==
  /\ At(t, "while")
  /\ Goto(t, IF t \in stop_requested THEN "leave" ELSE "pop")
  /\ UNCHANGED <<g_shutdown_requested, main, stop_requested, queues, logVars, netVars>>

\* Mutated form: pop does not wait for an item.
InQueue_Unchecked(t) == 1

InQueue(t) == IF t = "parser" THEN raw_queue ELSE parsed_queue

Pops(t) ==
  /\ At(t, "pop")
  /\ InQueue(t) > 0
  /\ raw_queue' = IF t = "parser" THEN raw_queue - 1 ELSE raw_queue
  /\ parsed_queue' = IF t = "logic" THEN parsed_queue - 1 ELSE parsed_queue
  /\ Goto(t, "handle")
  /\ UNCHANGED <<g_shutdown_requested, main, stop_requested, logVars, netVars>>

\* pop returns nullopt.
PopsNothing(t) ==
  /\ At(t, "pop")
  /\ InQueue(t) = 0
  /\ t \in stop_requested
  /\ Goto(t, "leave")
  /\ UNCHANGED <<g_shutdown_requested, main, stop_requested, queues, logVars, netVars>>

\* One chunk: the packets it completed, and a line for each thing that went wrong.
HandleChunk(packets, lines) ==
  /\ At("parser", "handle")
  /\ parsed_queue' = parsed_queue + packets
  /\ Log("parser", "event", lines)
  /\ Goto("parser", "while")
  /\ UNCHANGED <<g_shutdown_requested, main, stop_requested, raw_queue, netVars>>

\* One packet: an alert for the altitude, one for the speed, a throughput report.
HandlePacket(lines) ==
  /\ At("logic", "handle")
  /\ Log("logic", "event", lines)
  /\ Goto("logic", "while")
  /\ UNCHANGED <<g_shutdown_requested, main, stop_requested, queues, netVars>>

\* The summary after the loop.
Leaves(t) ==
  /\ At(t, "leave")
  /\ Log(t, "final", 1)
  /\ Goto(t, "done")
  /\ UNCHANGED <<g_shutdown_requested, main, stop_requested, queues, netVars>>

worker(t) == Starts(t) \/ ChecksStop(t) \/ Pops(t) \/ PopsNothing(t) \/ Leaves(t)
parser ==
  \/ worker("parser")
  \/ \E packets \in 0 .. MaxItems, lines \in 0 .. MaxLines : HandleChunk(packets, lines)
logic == worker("logic") \/ \E lines \in 0 .. MaxLines : HandlePacket(lines)

-----------------------------------------------------------------------------
(* AsyncLogger::run: a loop until the stop, then the drain with a token that *)
(* is stopped from the start.                                                *)

LoggerChecksStop ==
  /\ At("logger", "while")
  /\ Goto("logger", IF "logger" \in stop_requested THEN "drain" ELSE "pop")
  /\ UNCHANGED <<g_shutdown_requested, main, stop_requested, queues, logVars, netVars>>

\* Mutated form: a stop that is seen after the pop drops the line.
WritesLine_StopDrops(from, to) ==
  /\ At("logger", from)
  /\ log_queue # << >>
  /\ log_queue' = Tail(log_queue)
  /\ written' = IF from = "pop" /\ "logger" \in stop_requested THEN written
                ELSE [written EXCEPT ![Head(log_queue)] = @ + 1]
  /\ Goto("logger", to)
  /\ UNCHANGED <<g_shutdown_requested, main, stop_requested, queues, logged, netVars>>

\* pop, and write_message.
WritesLine(from, to) ==
  /\ At("logger", from)
  /\ log_queue # << >>
  /\ log_queue' = Tail(log_queue)
  /\ written' = [written EXCEPT ![Head(log_queue)] = @ + 1]
  /\ Goto("logger", to)
  /\ UNCHANGED <<g_shutdown_requested, main, stop_requested, queues, logged, netVars>>

\* pop returns nullopt.
FindsNoLine(from, to) ==
  /\ At("logger", from)
  /\ log_queue = << >>
  /\ from = "drain" \/ "logger" \in stop_requested
  /\ Goto("logger", to)
  /\ UNCHANGED <<g_shutdown_requested, main, stop_requested, queues, logVars, netVars>>

\* Mutated form: without the drain.
Drain_Skipped ==
  /\ At("logger", "drain")
  /\ Goto("logger", "done")
  /\ UNCHANGED <<g_shutdown_requested, main, stop_requested, queues, logVars, netVars>>

Drain == WritesLine("drain", "drain") \/ FindsNoLine("drain", "done")

logger ==
  \/ LoggerChecksStop \/ WritesLine("pop", "while") \/ FindsNoLine("pop", "drain")
  \/ Drain

-----------------------------------------------------------------------------
(* main                                                                    *)

\* AsyncLogger's constructor creates the directory and opens the log file.
OpenLog ==
  /\ main = "open log"
  /\ main' = "launch logger"
  /\ UNCHANGED <<g_shutdown_requested, pc, stop_requested, queues, logVars, netVars>>

Launch(from, t, to) ==
  /\ main = from
  /\ Goto(t, IF t = "logger" THEN "while" ELSE "start")
  /\ main' = to
  /\ UNCHANGED <<g_shutdown_requested, stop_requested, queues, logVars, netVars>>

StartUp ==
  \/ OpenLog
  \/ Launch("launch logger", "logger", "launch listener")
  \/ Launch("launch listener", "listener", "launch parser")
  \/ Launch("launch parser", "parser", "launch logic")
  \/ Launch("launch logic", "logic", "polling")

Starting == {"open log", "launch logger", "launch listener", "launch parser", "launch logic"}

\* The log file cannot be opened or a thread not be created: main does not
\* catch the exception.
StartUpThrows ==
  /\ main \in Starting
  /\ main' = "terminated"
  /\ UNCHANGED <<g_shutdown_requested, pc, stop_requested, queues, logVars, netVars>>

signal_handler ==
  /\ Running
  /\ ~g_shutdown_requested
  /\ g_shutdown_requested' = TRUE
  /\ UNCHANGED <<main, pc, stop_requested, queues, logVars, netVars>>

SeesShutdown ==
  /\ main = "polling"
  /\ g_shutdown_requested
  /\ main' = "stop listener"
  /\ UNCHANGED <<g_shutdown_requested, pc, stop_requested, queues, logVars, netVars>>

\* request_stop sets the flag of t's token; what comes next is the callback, for
\* the listener, or the join.
RequestStop(from, t, to) ==
  /\ main = from
  /\ stop_requested' = stop_requested \cup {t}
  /\ main' = to
  /\ UNCHANGED <<g_shutdown_requested, pc, queues, logVars, netVars>>

\* Mutated form: request_stop runs no callback.
WakeListener_NoCallback ==
  /\ main = "wake listener"
  /\ main' = "join listener"
  /\ UNCHANGED <<g_shutdown_requested, pc, stop_requested, queues, logVars, netVars>>

\* The callback that run registered writes to the eventfd.
WakeListener ==
  /\ main = "wake listener"
  /\ eventfd' = (eventfd \/ pc["listener"] \notin {"start", "done"})
  /\ main' = "join listener"
  /\ UNCHANGED <<g_shutdown_requested, pc, stop_requested, queues, logVars, batch, events>>

Join(from, t, to) ==
  /\ main = from
  /\ pc[t] = "done"
  /\ main' = to
  /\ UNCHANGED <<g_shutdown_requested, pc, stop_requested, queues, logVars, netVars>>

\* Mutated form: the business logic is stopped before the parser.
ShutDown_LogicFirst ==
  \/ RequestStop("stop listener", "listener", "wake listener")
  \/ WakeListener
  \/ Join("join listener", "listener", "stop logic")
  \/ RequestStop("stop logic", "logic", "join logic")
  \/ Join("join logic", "logic", "stop parser")
  \/ RequestStop("stop parser", "parser", "join parser")
  \/ Join("join parser", "parser", "stop logger")
  \/ RequestStop("stop logger", "logger", "join logger")
  \/ Join("join logger", "logger", "exited")

\* The pipeline is stopped and joined thread by thread, in the direction of the
\* data; the logger last, by its destructor.
ShutDown ==
  \/ RequestStop("stop listener", "listener", "wake listener")
  \/ WakeListener
  \/ Join("join listener", "listener", "stop parser")
  \/ RequestStop("stop parser", "parser", "join parser")
  \/ Join("join parser", "parser", "stop logic")
  \/ RequestStop("stop logic", "logic", "join logic")
  \/ Join("join logic", "logic", "stop logger")
  \/ RequestStop("stop logger", "logger", "join logger")
  \/ Join("join logger", "logger", "exited")

Next ==
  \/ listens \/ disturbed \/ parser \/ logic \/ logger
  \/ StartUp \/ StartUpThrows \/ signal_handler \/ SeesShutdown \/ ShutDown

\* Every thread that can go on does; nothing is asked of the drones, the kernel
\* or the user.
Fairness ==
  /\ WF_vars(listens) /\ WF_vars(parser) /\ WF_vars(logic) /\ WF_vars(logger)
  /\ WF_vars(StartUp) /\ WF_vars(SeesShutdown) /\ WF_vars(ShutDown)

Spec == Init /\ [][Next]_vars /\ Fairness

-----------------------------------------------------------------------------
TypeOK ==
  /\ g_shutdown_requested \in BOOLEAN
  /\ main \in Starting \cup
              {"polling", "stop listener", "wake listener", "join listener", "stop parser",
               "join parser", "stop logic", "join logic", "stop logger", "join logger",
               "exited", "terminated"}
  /\ pc \in [Threads -> {"not launched", "start", "while", "epoll_wait", "dispatch", "pop", "handle", "leave",
                         "drain", "done"}]
  /\ stop_requested \subseteq Threads
  /\ raw_queue \in Nat /\ parsed_queue \in Nat
  /\ log_queue \in Seq(Line)
  /\ eventfd \in BOOLEAN
  /\ batch \in Batch
  /\ events \in Nat
  /\ logged \in [Line -> Nat] /\ written \in [Line -> Nat]

\* "ensuring no log lines are lost" (include/asyncLogger.h:31): whatever was
\* queued when the shutdown began, and whatever the threads still had to say,
\* all of it is written before the process ends.
NoLineLost == main = "exited" => written = logged

\* Once the logger has left, the log queue is empty and nobody is there to push
\* to it again (src/main.cpp:111-114).
LoggerLeavesLast ==
  pc["logger"] = "done" => log_queue = << >> /\ \A t \in Pipeline : pc[t] = "done"

\* What the logger writes ends with the parser's summary and then the business
\* logic's (README.md:163-164): nothing is written after the second, and it is
\* not written before the first. The lines main prints itself, the Goodbye of
\* src/main.cpp:132 among them, do not pass the logger and are not in written.
EndsWithSummaries ==
  [][written[<<"logic", "final">>] > 0 =>
       written' = written /\ written[<<"parser", "final">>] = 1]_vars

\* Ctrl+C ends the process, wherever main and each thread are: asleep in
\* epoll_wait or in pop, in the middle of a batch or not yet launched.
ShutdownCompletes == g_shutdown_requested ~> ~Running

\* "Each pipeline thread pushes a final log message during shutdown"
\* (src/main.cpp:112, and the output shown in README.md:162).
ListenerSaysGoodbye ==
  main = "exited" => written[<<"listener", "final">>] = 1
=============================================================================
