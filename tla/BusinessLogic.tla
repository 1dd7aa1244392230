---------------------------- MODULE BusinessLogic ----------------------------
(***************************************************************************)
(* class BusinessLogic (src/businessLogic.cpp): the drone table, the       *)
(* threshold alerts and the throughput windows, against a clock that may   *)
(* move on between any two steps.  The parsed queue is the atomic one that *)
(* ThreadSafeQueue implements.                                             *)
(***************************************************************************)
EXTENDS Integers, Sequences, FiniteSets

CONSTANTS
  Samples,             \* telemetry: [drone_id, altitude, speed]
  REPORT_INTERVAL,
  ALTITUDE_THRESHOLD, SPEED_THRESHOLD,
  MaxPackets,          \* bound: packets in a behaviour
  MaxTime              \* bound: the clock

ASSUME LogicAssumption ==
  /\ \A t \in Samples : t.altitude \in Int /\ t.speed \in Int
  /\ REPORT_INTERVAL \in Nat \ {0}
  /\ ALTITUDE_THRESHOLD \in Int /\ SPEED_THRESHOLD \in Int
  /\ MaxPackets \in Nat /\ MaxTime \in Nat

VARIABLES
  now,             \* Clock::now()
  m_parsed_queue,
  stop_requested,
  pc,              \* where run() is
  m_drones,        \* the last telemetry of each drone_id
  m_packets_processed, m_packets_at_last_report,
  m_start_time, m_last_report_time,
  m_log_queue,     \* every line this thread has pushed
  handled          \* history: the packets so far, [telemetry, at]

counters == <<m_packets_processed, m_packets_at_last_report>>
times == <<m_start_time, m_last_report_time>>
vars == <<now, m_parsed_queue, stop_requested, pc, m_drones, counters, times, m_log_queue, handled>>

Init ==
  /\ now \in 0 .. MaxTime
  /\ m_parsed_queue = << >>
  /\ stop_requested = FALSE
  /\ pc = "start"
  /\ m_drones = << >>
  /\ m_packets_processed = 0
  /\ m_packets_at_last_report = 0
  /\ m_start_time = 0
  /\ m_last_report_time = 0
  /\ m_log_queue = << >>
  /\ handled = << >>

-----------------------------------------------------------------------------
(* The clock, the parser and main.                                         *)

logicVars == <<pc, m_drones, counters, times, m_log_queue, handled>>

Tick ==
  /\ now < MaxTime
  /\ now' = now + 1
  /\ UNCHANGED <<logicVars, m_parsed_queue, stop_requested>>

Push(telemetry) ==
  /\ Len(handled) + Len(m_parsed_queue) < MaxPackets
  /\ m_parsed_queue' = Append(m_parsed_queue, telemetry)
  /\ UNCHANGED <<logicVars, now, stop_requested>>

RequestStop ==
  /\ ~stop_requested
  /\ stop_requested' = TRUE
  /\ UNCHANGED <<logicVars, now, m_parsed_queue>>

Environment == Tick \/ (\E telemetry \in Samples : Push(telemetry)) \/ RequestStop

-----------------------------------------------------------------------------
(* run                                                                     *)

Starts ==
  /\ pc = "start"
  /\ m_log_queue' = Append(m_log_queue, [kind |-> "running"])
  /\ m_start_time' = now
  /\ m_last_report_time' = now
  /\ pc' = "while"
  /\ UNCHANGED <<now, m_parsed_queue, stop_requested, m_drones, counters, handled>>

CheckStop ==
  /\ pc = "while"
  /\ pc' = IF stop_requested THEN "leave" ELSE "pop"
  /\ UNCHANGED <<now, m_parsed_queue, stop_requested, m_drones, counters, times, m_log_queue, handled>>

\* pop returns nullopt.
PopStopped ==
  /\ pc = "pop"
  /\ m_parsed_queue = << >>
  /\ stop_requested
  /\ pc' = "leave"
  /\ UNCHANGED <<now, m_parsed_queue, stop_requested, m_drones, counters, times, m_log_queue, handled>>

\* Mutated form: emplace, which does not overwrite.
Upserted_KeepsFirst(t) ==
  [id \in DOMAIN m_drones \cup {t.drone_id} |-> IF id \in DOMAIN m_drones THEN m_drones[id] ELSE t]

Upserted(t) ==
  [id \in DOMAIN m_drones \cup {t.drone_id} |-> IF id = t.drone_id THEN t ELSE m_drones[id]]

TooHigh(t) == t.altitude > ALTITUDE_THRESHOLD
TooFast(t) == t.speed > SPEED_THRESHOLD

Alert(kind, t) == <<[kind |-> kind, drone_id |-> t.drone_id]>>

\* Mutated form: the speed is only looked at below the ceiling.
check_alerts_ElseIf(t) ==
  IF TooHigh(t) THEN Alert("altitude", t) ELSE IF TooFast(t) THEN Alert("speed", t) ELSE << >>

\* The lines that check_alerts pushes.
check_alerts(t) ==
  (IF TooHigh(t) THEN Alert("altitude", t) ELSE << >>)
    \o (IF TooFast(t) THEN Alert("speed", t) ELSE << >>)

\* pop returned a packet, up to the call of report_throughput.
Handle ==
  /\ pc = "pop"
  /\ m_parsed_queue # << >>
  /\ LET telemetry == Head(m_parsed_queue) IN
       /\ m_drones' = Upserted(telemetry)
       /\ m_log_queue' = m_log_queue \o check_alerts(telemetry)
       /\ handled' = Append(handled, [telemetry |-> telemetry, at |-> now])
  /\ m_parsed_queue' = Tail(m_parsed_queue)
  /\ m_packets_processed' = m_packets_processed + 1
  /\ pc' = "report"
  /\ UNCHANGED <<now, stop_requested, m_packets_at_last_report, times>>

-----------------------------------------------------------------------------
(* report_throughput, which reads the clock once.  A rate is logged as the *)
(* pair it is the quotient of: packets and time.                           *)

interval_elapsed == now - m_last_report_time

\* Mutated form: the subtraction is the wrong way round.
interval_packets_Swapped == m_packets_at_last_report - m_packets_processed

interval_packets == m_packets_processed - m_packets_at_last_report

Report ==
  [kind |-> "report", packets |-> interval_packets, elapsed |-> interval_elapsed,
   total |-> m_packets_processed, total_elapsed |-> now - m_start_time,
   drones |-> Cardinality(DOMAIN m_drones)]

\* Mutated form: a window that is exactly over is not over yet.
TooEarly_OffByOne == interval_elapsed <= REPORT_INTERVAL

TooEarly == interval_elapsed < REPORT_INTERVAL

\* Mutated form: the count of the last report is not kept.
Snapshot_TimeOnly == m_last_report_time' = now /\ UNCHANGED m_packets_at_last_report

Snapshot == m_last_report_time' = now /\ m_packets_at_last_report' = m_packets_processed

ReportTooEarly ==
  /\ pc = "report"
  /\ TooEarly
  /\ pc' = "while"
  /\ UNCHANGED <<now, m_parsed_queue, stop_requested, m_drones, counters, times, m_log_queue, handled>>

ReportDone ==
  /\ pc = "report"
  /\ ~TooEarly
  /\ m_log_queue' = Append(m_log_queue, Report)
  /\ Snapshot
  /\ pc' = "while"
  /\ UNCHANGED <<now, m_parsed_queue, stop_requested, m_drones, m_packets_processed, m_start_time, handled>>

report_throughput == ReportTooEarly \/ ReportDone

\* The summary after the loop; what is still queued stays there.
Leave ==
  /\ pc = "leave"
  /\ m_log_queue' = Append(m_log_queue,
       [kind |-> "final", total |-> m_packets_processed, total_elapsed |-> now - m_start_time,
        drones |-> Cardinality(DOMAIN m_drones)])
  /\ pc' = "done"
  /\ UNCHANGED <<now, m_parsed_queue, stop_requested, m_drones, counters, times, handled>>

run == Starts \/ CheckStop \/ PopStopped \/ Handle \/ report_throughput \/ Leave

Next == Environment \/ run

Spec == Init /\ [][Next]_vars

-----------------------------------------------------------------------------
Summary == [kind : {"final"}, total : Nat, total_elapsed : Nat, drones : Nat]
Throughput == [kind : {"report"}, packets : Nat, elapsed : Nat, total : Nat, total_elapsed : Nat,
               drones : Nat]
AlertLine == [kind : {"altitude", "speed"}, drone_id : {t.drone_id : t \in Samples}]
LogLine == [kind : {"running"}] \cup AlertLine \cup Throughput \cup Summary

\* In particular no count and no duration in the log is negative, which an
\* unsigned subtraction would show as a huge one.
TypeOK ==
  /\ now \in 0 .. MaxTime
  /\ m_parsed_queue \in Seq(Samples)
  /\ stop_requested \in BOOLEAN
  /\ pc \in {"start", "while", "pop", "report", "leave", "done"}
  /\ m_drones \in [DOMAIN m_drones -> Samples]
  /\ m_packets_processed \in Nat /\ m_packets_at_last_report \in Nat
  /\ m_start_time \in 0 .. now /\ m_last_report_time \in m_start_time .. now
  /\ m_log_queue \in Seq(LogLine)
  /\ handled \in Seq([telemetry : Samples, at : 0 .. MaxTime])

\* The table has every drone heard of, with the last thing it said: no older
\* sample survives a newer one (m_drones, src/businessLogic.cpp:44).
TableIsLatest ==
  /\ DOMAIN m_drones = {handled[i].telemetry.drone_id : i \in DOMAIN handled}
  /\ \A i \in DOMAIN handled :
       LET id == handled[i].telemetry.drone_id IN
         \/ m_drones[id] = handled[i].telemetry
         \/ \E j \in i + 1 .. Len(handled) : handled[j].telemetry.drone_id = id

IsReport(line) == line.kind = "report"
ReportsBefore(log, k) == {i \in 1 .. k - 1 : IsReport(log[i])}

\* These totals are the ones of the last report before line k, or of the start.
EndBefore(log, k, packets, elapsed) ==
  \/ ReportsBefore(log, k) = {} /\ packets = 0 /\ elapsed = 0
  \/ \E last \in ReportsBefore(log, k) :
       /\ \A i \in ReportsBefore(log, k) : i <= last
       /\ packets = log[last].total
       /\ elapsed = log[last].total_elapsed

\* The windows of the throughput reports are adjacent: each begins, in packets
\* and in time, where the one before it ended, the first at the start of
\* run(), so that every packet up to the last report is counted in one window
\* (later ones are in the window still open, which a stop leaves unreported),
\* and the interval figures add up to the averages
\* (src/businessLogic.cpp:111, 131-132).
WindowsTile ==
  \A k \in DOMAIN m_log_queue :
    LET r == m_log_queue[k] IN
      IsReport(r) => EndBefore(m_log_queue, k, r.total - r.packets, r.total_elapsed - r.elapsed)

\* A window that is over is reported with the next packet: once a packet has
\* been handled, the window open since the last report was not over when it
\* came, however the clock moved between the packet and the report.
NoWindowOverdue ==
  pc \in {"while", "pop", "leave", "done"} =>
    \A i \in DOMAIN handled : handled[i].at - m_last_report_time < REPORT_INTERVAL

Over == {"altitude", "speed"}
IsOver(t, limit) == IF limit = "altitude" THEN TooHigh(t) ELSE TooFast(t)

AlertsUpTo(log, k) == {i \in 1 .. k : log[i].kind \in Over}
CalledFor(packets, n) == {x \in (1 .. n) \X Over : IsOver(packets[x[1]].telemetry, x[2])}
Heard(packets, n) == {packets[i].telemetry.drone_id : i \in 1 .. n}

\* The lines of the log agree with each other: before a report or a summary that
\* speaks of n packets stand exactly the alerts that the first n packets call
\* for, and its drones are the ones that sent those.
LogIsConsistent ==
  \A k \in DOMAIN m_log_queue :
    LET line == m_log_queue[k] IN
      line.kind \in {"report", "final"} =>
        /\ Cardinality(AlertsUpTo(m_log_queue, k)) = Cardinality(CalledFor(handled, line.total))
        /\ line.drones = Cardinality(Heard(handled, line.total))
=============================================================================
