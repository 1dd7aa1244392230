------------------------ MODULE BusinessLogic_proofs ------------------------
(***************************************************************************)
(* For any telemetry, any limits, any report interval and any clock: the   *)
(* types, the drone table, the throughput windows and the agreement of the *)
(* lines of the log.                                                       *)
(***************************************************************************)
EXTENDS BusinessLogic, SequenceLemmas, TLAPS

\* The counters: every packet is counted, and a window holds no negative number.
Counts ==
  /\ m_packets_processed = Len(handled)
  /\ m_packets_at_last_report <= m_packets_processed
  /\ IsFiniteSet(DOMAIN m_drones)

\* Before run() nothing has happened.
Begins == pc = "start" => m_log_queue = << >> /\ handled = << >> /\ m_packets_at_last_report = 0

CoreInv == TypeOK /\ Counts /\ Begins

Packet == [telemetry : Samples, at : 0 .. MaxTime]

-----------------------------------------------------------------------------
\* The lines that a packet, a report and the summary push have their types.
LEMMA AlertTypes ==
  ASSUME NEW t \in Samples
  PROVE /\ Alert("altitude", t) \in Seq(LogLine) /\ Alert("speed", t) \in Seq(LogLine)
        /\ check_alerts(t) \in Seq(LogLine)
<1>1. ASSUME NEW kind \in {"altitude", "speed"} PROVE Alert(kind, t) \in Seq(LogLine)
  <2>1. [kind |-> kind, drone_id |-> t.drone_id] \in AlertLine
    BY DEF AlertLine
  <2>2. [kind |-> kind, drone_id |-> t.drone_id] \in LogLine
    BY <2>1, Zenon DEF LogLine
  <2> QED
    BY <2>2 DEF Alert
<1>2. check_alerts(t) \in Seq(LogLine)
  <2> HIDE DEF LogLine
  <2>1. Alert("altitude", t) \in Seq(LogLine) /\ Alert("speed", t) \in Seq(LogLine) /\ << >> \in Seq(LogLine)
    BY <1>1
  <2> QED
    BY <2>1 DEF check_alerts
<1> QED
  BY <1>1, <1>2

\* A report has its type.
LEMMA ReportType == ASSUME CoreInv PROVE Report \in Throughput /\ Report \in LogLine
<1>1. /\ interval_packets \in Nat /\ interval_elapsed \in Nat /\ m_packets_processed \in Nat
      /\ now - m_start_time \in Nat
  BY LogicAssumption DEF CoreInv, TypeOK, Counts, interval_packets, interval_elapsed
<1>2. Cardinality(DOMAIN m_drones) \in Nat
  BY FS_CardinalityType DEF CoreInv, Counts
<1>3. Report \in Throughput
  BY <1>1, <1>2 DEF Report, Throughput
<1> QED
  BY <1>3, Zenon DEF LogLine

Final ==
  [kind |-> "final", total |-> m_packets_processed, total_elapsed |-> now - m_start_time,
   drones |-> Cardinality(DOMAIN m_drones)]

\* The summary has its type.
LEMMA FinalType == ASSUME CoreInv PROVE Final \in Summary /\ Final \in LogLine
<1>1. m_packets_processed \in Nat /\ now - m_start_time \in Nat
  BY LogicAssumption DEF CoreInv, TypeOK, Counts
<1>2. Cardinality(DOMAIN m_drones) \in Nat
  BY FS_CardinalityType DEF CoreInv, Counts
<1>3. Final \in Summary
  BY <1>1, <1>2 DEF Final, Summary
<1> QED
  BY <1>3, Zenon DEF LogLine

\* Putting a sample into the table adds its drone and keeps the table one.
LEMMA UpsertTypes ==
  ASSUME m_drones \in [DOMAIN m_drones -> Samples], NEW t \in Samples
  PROVE /\ DOMAIN Upserted(t) = DOMAIN m_drones \cup {t.drone_id}
        /\ Upserted(t) \in [DOMAIN Upserted(t) -> Samples]
        /\ Upserted(t)[t.drone_id] = t
        /\ \A id \in DOMAIN m_drones : id # t.drone_id => Upserted(t)[id] = m_drones[id]
  BY DEF Upserted

\* What Handle does, for the packet it takes.
LEMMA HandleStep ==
  ASSUME CoreInv, Handle
  PROVE \E t \in Samples :
          /\ m_drones' = Upserted(t)
          /\ check_alerts(t) \in Seq(LogLine)
          /\ m_log_queue' = m_log_queue \o check_alerts(t)
          /\ handled' = Append(handled, [telemetry |-> t, at |-> now])
          /\ [telemetry |-> t, at |-> now] \in Packet
          /\ m_parsed_queue' = Tail(m_parsed_queue) /\ m_parsed_queue' \in Seq(Samples)
          /\ m_packets_processed' = m_packets_processed + 1
          /\ pc = "pop" /\ pc' = "report"
          /\ UNCHANGED <<now, stop_requested, m_packets_at_last_report, times>>
<1>1. m_parsed_queue \in Seq(Samples) /\ m_parsed_queue # << >> /\ now \in 0 .. MaxTime
  BY DEF CoreInv, TypeOK, Handle
<1>2. Head(m_parsed_queue) \in Samples /\ Tail(m_parsed_queue) \in Seq(Samples)
  BY <1>1
<1>3. check_alerts(Head(m_parsed_queue)) \in Seq(LogLine)
  BY <1>2, AlertTypes
<1>4. [telemetry |-> Head(m_parsed_queue), at |-> now] \in Packet
  BY <1>1, <1>2 DEF Packet
<1> QED
  BY <1>2, <1>3, <1>4 DEF Handle

\* The types, the counters and the start are preserved by every step.
LEMMA CoreStep == CoreInv /\ [Next]_vars => CoreInv'
<1> SUFFICES ASSUME CoreInv, [Next]_vars PROVE CoreInv'
  OBVIOUS
<1>0. /\ m_log_queue \in Seq(LogLine) /\ handled \in Seq(Packet) /\ m_parsed_queue \in Seq(Samples)
      /\ now \in 0 .. MaxTime
  BY DEF CoreInv, TypeOK, Packet
<1> USE LogicAssumption DEF counters, times, logicVars
<1>1. CASE Tick
  BY <1>1, SMTT(20) DEF Tick, CoreInv, TypeOK, Counts, Begins
<1>2. ASSUME NEW telemetry \in Samples, Push(telemetry) PROVE CoreInv'
  <2>1. m_parsed_queue' \in Seq(Samples)
    BY <1>0, <1>2 DEF Push
  <2> QED
    BY <1>2, <2>1 DEF Push, CoreInv, TypeOK, Counts, Begins
<1>3. CASE RequestStop
  BY <1>3 DEF RequestStop, CoreInv, TypeOK, Counts, Begins
<1>4. CASE Starts
  <2>1. m_log_queue' \in Seq(LogLine)
    <3>1. [kind |-> "running"] \in [kind : {"running"}]
      OBVIOUS
    <3>2. [kind |-> "running"] \in LogLine
      BY <3>1, Zenon DEF LogLine
    <3> QED
      BY <1>0, <1>4, <3>2 DEF Starts
  <2> QED
    BY <1>4, <2>1 DEF Starts, CoreInv, TypeOK, Counts, Begins
<1>5. CASE CheckStop \/ PopStopped \/ ReportTooEarly
  BY <1>5 DEF CheckStop, PopStopped, ReportTooEarly, CoreInv, TypeOK, Counts, Begins
<1>6. CASE Handle
  <2>1. PICK t \in Samples :
          /\ m_drones' = Upserted(t)
          /\ check_alerts(t) \in Seq(LogLine)
          /\ m_log_queue' = m_log_queue \o check_alerts(t)
          /\ handled' = Append(handled, [telemetry |-> t, at |-> now])
          /\ [telemetry |-> t, at |-> now] \in Packet
          /\ m_parsed_queue' = Tail(m_parsed_queue) /\ m_parsed_queue' \in Seq(Samples)
          /\ m_packets_processed' = m_packets_processed + 1
          /\ pc = "pop" /\ pc' = "report"
          /\ UNCHANGED <<now, stop_requested, m_packets_at_last_report, times>>
    BY <1>6, HandleStep
  <2>2. m_log_queue' \in Seq(LogLine)
    BY <1>0, <2>1
  <2>3. handled' \in Seq(Packet) /\ Len(handled') = Len(handled) + 1
    BY <1>0, <2>1
  <2>4. m_drones' \in [DOMAIN m_drones' -> Samples] /\ DOMAIN m_drones' = DOMAIN m_drones \cup {t.drone_id}
    BY <2>1, UpsertTypes DEF CoreInv, TypeOK
  <2>5. IsFiniteSet(DOMAIN m_drones')
    BY <2>4, FS_AddElement DEF CoreInv, Counts
  <2>6. TypeOK'
    BY <2>1, <2>2, <2>3, <2>4, SMTT(20) DEF CoreInv, TypeOK, Packet
  <2>7. Counts'
    BY <2>1, <2>3, <2>5 DEF CoreInv, TypeOK, Counts
  <2> QED
    BY <2>1, <2>6, <2>7 DEF CoreInv, Begins
<1>7. CASE ReportDone
  <2>1. m_log_queue' \in Seq(LogLine)
    BY <1>0, <1>7, ReportType DEF ReportDone
  <2> QED
    BY <1>7, <2>1 DEF ReportDone, Snapshot, CoreInv, TypeOK, Counts, Begins
<1>8. CASE Leave
  <2>1. m_log_queue' \in Seq(LogLine)
    BY <1>0, <1>8, FinalType DEF Leave, Final
  <2> QED
    BY <1>8, <2>1 DEF Leave, CoreInv, TypeOK, Counts, Begins
<1>9. CASE UNCHANGED vars
  BY <1>9 DEF vars, CoreInv, TypeOK, Counts, Begins
<1> QED
  BY <1>1, <1>2, <1>3, <1>4, <1>5, <1>6, <1>7, <1>8, <1>9 DEF Next, Environment, run, report_throughput

\* They hold from the start and so throughout.
LEMMA CoreCorrect == Spec => []CoreInv
<1>1. Init => CoreInv
  <2> SUFFICES ASSUME Init PROVE CoreInv
    OBVIOUS
  <2>1. /\ m_parsed_queue \in Seq(Samples) /\ m_log_queue \in Seq(LogLine) /\ handled \in Seq(Packet)
        /\ Len(handled) = 0
    BY DEF Init
  <2>2. DOMAIN m_drones = {} /\ m_drones \in [{} -> Samples]
    BY DEF Init
  <2>3. IsFiniteSet(DOMAIN m_drones)
    BY <2>2, FS_EmptySet
  <2>4. now \in 0 .. MaxTime /\ m_start_time \in 0 .. now /\ m_last_report_time \in m_start_time .. now
    BY LogicAssumption DEF Init
  <2>5. TypeOK
    BY <2>1, <2>2, <2>4 DEF Init, TypeOK, Packet
  <2>6. Counts
    BY <2>1, <2>3 DEF Init, Counts
  <2> QED
    BY <2>5, <2>6 DEF Init, CoreInv, Begins
<1> QED
  BY <1>1, CoreStep, PTL DEF Spec

\* Every variable keeps its type: in particular the counts and durations that
\* report_throughput subtracts never go below zero, however late a packet is
\* and whatever the clock does between two steps.
THEOREM TypeCorrect == Spec => []TypeOK
<1>1. CoreInv => TypeOK
  BY DEF CoreInv
<1> QED
  BY <1>1, CoreCorrect, PTL

-----------------------------------------------------------------------------
\* The table is the latest after one more packet.
LEMMA TableStep == CoreInv /\ TableIsLatest /\ [Next]_vars => TableIsLatest'
<1> SUFFICES ASSUME CoreInv, TableIsLatest, [Next]_vars PROVE TableIsLatest'
  OBVIOUS
<1>0. handled \in Seq(Packet) /\ m_drones \in [DOMAIN m_drones -> Samples]
  BY DEF CoreInv, TypeOK, Packet
<1>1. CASE Handle
  <2>1. PICK t \in Samples :
          /\ m_drones' = Upserted(t)
          /\ handled' = Append(handled, [telemetry |-> t, at |-> now])
          /\ [telemetry |-> t, at |-> now] \in Packet
    BY <1>1, HandleStep
  <2> DEFINE n == Len(handled)
             id == t.drone_id
  <2>2. /\ n \in Nat /\ DOMAIN handled = 1 .. n /\ DOMAIN handled' = 1 .. n + 1 /\ Len(handled') = n + 1
        /\ \A i \in 1 .. n : handled'[i] = handled[i]
        /\ handled'[n + 1].telemetry = t
    BY <1>0, <2>1
  <2>3. /\ DOMAIN m_drones' = DOMAIN m_drones \cup {id} /\ m_drones'[id] = t
        /\ \A d \in DOMAIN m_drones : d # id => m_drones'[d] = m_drones[d]
    BY <1>0, <2>1, UpsertTypes
  <2>4. DOMAIN m_drones' = {handled'[i].telemetry.drone_id : i \in DOMAIN handled'}
    BY <2>2, <2>3 DEF TableIsLatest
  <2>5. ASSUME NEW i \in DOMAIN handled'
        PROVE \/ m_drones'[handled'[i].telemetry.drone_id] = handled'[i].telemetry
              \/ \E j \in i + 1 .. Len(handled') :
                   handled'[j].telemetry.drone_id = handled'[i].telemetry.drone_id
    <3>1. CASE i = n + 1
      BY <2>2, <2>3, <3>1
    <3>2. CASE i # n + 1 /\ handled[i].telemetry.drone_id = id
      <4>1. n + 1 \in i + 1 .. Len(handled') /\ handled'[n + 1].telemetry.drone_id = handled'[i].telemetry.drone_id
        BY <2>2, <3>2
      <4> QED
        BY <4>1
    <3>3. CASE i # n + 1 /\ handled[i].telemetry.drone_id # id
      <4>1. i \in DOMAIN handled /\ handled'[i] = handled[i]
        BY <2>2, <3>3
      <4>2. handled[i].telemetry.drone_id \in DOMAIN m_drones
        BY <4>1 DEF TableIsLatest
      <4>3. CASE m_drones[handled[i].telemetry.drone_id] = handled[i].telemetry
        BY <2>3, <3>3, <4>1, <4>2, <4>3
      <4>4. CASE \E j \in i + 1 .. n : handled[j].telemetry.drone_id = handled[i].telemetry.drone_id
        <5>1. PICK j \in i + 1 .. n : handled[j].telemetry.drone_id = handled[i].telemetry.drone_id
          BY <4>4
        <5>2. j \in i + 1 .. Len(handled') /\ handled'[j] = handled[j]
          BY <2>2, <4>1
        <5> QED
          BY <4>1, <5>1, <5>2
      <4> QED
        BY <4>1, <4>3, <4>4 DEF TableIsLatest
    <3> QED
      BY <3>1, <3>2, <3>3
  <2> QED
    BY <2>4, <2>5, Zenon DEF TableIsLatest
<1>2. CASE ~Handle
  <2>1. UNCHANGED <<m_drones, handled>>
    BY <1>2 DEF Next, Environment, run, report_throughput, Tick, Push, RequestStop, Starts, CheckStop, PopStopped,
                ReportTooEarly, ReportDone, Leave, vars, logicVars
  <2> QED
    BY <2>1 DEF TableIsLatest
<1> QED
  BY <1>1, <1>2

\* For any telemetry the table has every drone heard of, with the last thing it
\* said (src/businessLogic.cpp:44).
THEOREM TableCorrect == Spec => []TableIsLatest
<1>1. Init => TableIsLatest
  BY DEF Init, TableIsLatest
<1> QED
  BY <1>1, TableStep, CoreCorrect, PTL DEF Spec

-----------------------------------------------------------------------------
\* Every packet came before now and, but for the one whose report is still due,
\* while the open window was not over.
InTime ==
  \A i \in DOMAIN handled :
    /\ handled[i].at <= now
    /\ (pc = "report" /\ i = Len(handled)) \/ handled[i].at - m_last_report_time < REPORT_INTERVAL

\* No step makes a window overdue.
LEMMA InTimeStep == CoreInv /\ InTime /\ [Next]_vars => InTime'
<1> SUFFICES ASSUME CoreInv, InTime, [Next]_vars PROVE InTime'
  OBVIOUS
<1>0. /\ handled \in Seq(Packet) /\ now \in Nat /\ m_last_report_time \in Nat /\ m_last_report_time <= now
      /\ \A i \in DOMAIN handled : handled[i].at \in Nat
  <2>1. handled \in Seq(Packet) /\ now \in Nat /\ m_last_report_time \in Nat /\ m_last_report_time <= now
    BY LogicAssumption DEF CoreInv, TypeOK, Packet
  <2>2. \A i \in DOMAIN handled : handled[i] \in Packet
    BY <2>1
  <2> QED
    BY <2>1, <2>2, LogicAssumption DEF Packet
<1> USE LogicAssumption DEF counters, times, logicVars
<1>1. CASE Handle
  <2>1. PICK t \in Samples :
          /\ handled' = Append(handled, [telemetry |-> t, at |-> now])
          /\ [telemetry |-> t, at |-> now] \in Packet
          /\ pc = "pop" /\ pc' = "report"
          /\ UNCHANGED <<now, m_last_report_time>>
    BY <1>1, HandleStep
  <2>2. /\ Len(handled) \in Nat /\ DOMAIN handled = 1 .. Len(handled)
        /\ DOMAIN handled' = 1 .. Len(handled) + 1 /\ Len(handled') = Len(handled) + 1
        /\ \A i \in 1 .. Len(handled) : handled'[i] = handled[i]
        /\ handled'[Len(handled) + 1].at = now
    BY <1>0, <2>1
  <2> QED
    BY <1>0, <2>1, <2>2 DEF InTime
<1>2. CASE Tick
  BY <1>0, <1>2 DEF Tick, InTime
<1>3. CASE Starts
  BY <1>0, <1>3 DEF Starts, InTime, CoreInv, Begins
<1>4. CASE ReportTooEarly
  BY <1>0, <1>4 DEF ReportTooEarly, TooEarly, interval_elapsed, InTime
<1>5. CASE ReportDone
  BY <1>0, <1>5 DEF ReportDone, Snapshot, InTime
<1>6. CASE (\E telemetry \in Samples : Push(telemetry)) \/ RequestStop \/ CheckStop \/ PopStopped \/ Leave \/ UNCHANGED vars
  <2>1. UNCHANGED <<handled, now, m_last_report_time>> /\ (pc = "report" => pc' = "report")
    BY <1>6 DEF Push, RequestStop, CheckStop, PopStopped, Leave, vars
  <2> QED
    BY <2>1 DEF InTime
<1> QED
  BY <1>1, <1>2, <1>3, <1>4, <1>5, <1>6 DEF Next, Environment, run, report_throughput

\* For any interval and any clock a window that is over is reported with the
\* next packet (the early return of src/businessLogic.cpp:107).
THEOREM WindowsInTime == Spec => []NoWindowOverdue
<1>1. Init => InTime
  BY DEF Init, InTime
<1>2. InTime => NoWindowOverdue
  BY DEF InTime, NoWindowOverdue
<1> QED
  BY <1>1, <1>2, InTimeStep, CoreCorrect, PTL DEF Spec

-----------------------------------------------------------------------------
\* The window that is open begins where the last report ended, or else at the
\* start of run().
OpenWindow ==
  EndBefore(m_log_queue, Len(m_log_queue) + 1, m_packets_at_last_report, m_last_report_time - m_start_time)

Windows == OpenWindow /\ WindowsTile

\* What kind of line is pushed where.
LEMMA KindOfLine ==
  /\ Report.kind = "report" /\ Final.kind = "final"
  /\ [kind |-> "running"].kind = "running"
  /\ \A t \in Samples : \A i \in 1 .. Len(check_alerts(t)) : check_alerts(t)[i].kind \in Over
<1>1. Report.kind = "report" /\ Final.kind = "final" /\ [kind |-> "running"].kind = "running"
  BY DEF Report, Final
<1>2. ASSUME NEW t \in Samples, NEW i \in 1 .. Len(check_alerts(t)) PROVE check_alerts(t)[i].kind \in Over
  <2>1. \A kind \in Over : Alert(kind, t)[1].kind = kind
    BY DEF Alert
  <2>2. \A kind \in Over : Alert(kind, t) \in Seq(LogLine) /\ Len(Alert(kind, t)) = 1
    BY AlertTypes DEF Alert, Over
  <2>3. "altitude" \in Over /\ "speed" \in Over
    BY DEF Over
  <2>4. CASE TooHigh(t) /\ TooFast(t)
    BY <2>1, <2>2, <2>3, <2>4 DEF check_alerts
  <2>5. CASE TooHigh(t) /\ ~TooFast(t)
    BY <2>1, <2>2, <2>3, <2>5 DEF check_alerts
  <2>6. CASE ~TooHigh(t) /\ TooFast(t)
    BY <2>1, <2>2, <2>3, <2>6 DEF check_alerts
  <2>7. CASE ~TooHigh(t) /\ ~TooFast(t)
    BY <2>7 DEF check_alerts
  <2> QED
    BY <2>4, <2>5, <2>6, <2>7
<1> QED
  BY <1>1, <1>2

\* A log that only grows keeps its lines and the reports among them.
Grows(log, s, new) ==
  /\ Len(log) \in Nat /\ Len(s) \in Nat /\ Len(new) = Len(log) + Len(s)
  /\ DOMAIN log = 1 .. Len(log) /\ DOMAIN new = 1 .. Len(new)
  /\ \A i \in 1 .. Len(log) : new[i] = log[i]
  /\ \A i \in Len(log) + 1 .. Len(new) : i - Len(log) \in 1 .. Len(s) /\ new[i] = s[i - Len(log)]
  /\ \A k \in 1 .. Len(log) + 1 : \A p, e : EndBefore(new, k, p, e) <=> EndBefore(log, k, p, e)

LEMMA LogGrows ==
  ASSUME NEW log \in Seq(LogLine), NEW s \in Seq(LogLine)
  PROVE Grows(log, s, log \o s)
<1> DEFINE new == log \o s
<1>1. /\ Len(log) \in Nat /\ Len(s) \in Nat /\ Len(new) = Len(log) + Len(s)
      /\ DOMAIN log = 1 .. Len(log) /\ DOMAIN new = 1 .. Len(new)
      /\ \A i \in 1 .. Len(log) : new[i] = log[i]
      /\ \A i \in Len(log) + 1 .. Len(new) : i - Len(log) \in 1 .. Len(s) /\ new[i] = s[i - Len(log)]
  OBVIOUS
<1>2. ASSUME NEW k \in 1 .. Len(log) + 1, NEW p, NEW e PROVE EndBefore(new, k, p, e) <=> EndBefore(log, k, p, e)
  <2>1. \A i \in 1 .. k - 1 : new[i] = log[i]
    BY <1>1
  <2>2. ReportsBefore(new, k) = ReportsBefore(log, k) /\ ReportsBefore(log, k) \subseteq 1 .. k - 1
    BY <2>1 DEF ReportsBefore
  <2> QED
    BY <2>1, <2>2 DEF EndBefore
<1> QED
  BY <1>1, <1>2 DEF Grows

\* Lines that are no reports leave the windows alone.
LEMMA OtherLinesKeepWindows ==
  ASSUME CoreInv, Windows, NEW s \in Seq(LogLine), m_log_queue' = m_log_queue \o s,
         \A i \in 1 .. Len(s) : ~IsReport(s[i]),
         UNCHANGED <<m_packets_at_last_report, times>>
  PROVE Windows'
<1> DEFINE n == Len(m_log_queue)
<1>1. m_log_queue \in Seq(LogLine)
  BY DEF CoreInv, TypeOK
<1>2. Grows(m_log_queue, s, m_log_queue')
  BY <1>1, LogGrows
<1>3. \A i \in n + 1 .. Len(m_log_queue') : ~IsReport(m_log_queue'[i])
  BY <1>2 DEF Grows
<1>4. OpenWindow'
  <2>1. ReportsBefore(m_log_queue', n + Len(s) + 1) = ReportsBefore(m_log_queue', n + 1)
    BY <1>2, <1>3 DEF ReportsBefore, Grows
  <2>2. EndBefore(m_log_queue, n + 1, m_packets_at_last_report, m_last_report_time - m_start_time)
    BY DEF Windows, OpenWindow
  <2>3. EndBefore(m_log_queue', n + 1, m_packets_at_last_report', m_last_report_time' - m_start_time')
    BY <1>2, <2>2 DEF times, Grows
  <2> QED
    BY <1>2, <2>1, <2>3 DEF OpenWindow, EndBefore, Grows
<1>5. WindowsTile'
  <2> SUFFICES ASSUME NEW k \in 1 .. Len(m_log_queue'), IsReport(m_log_queue'[k])
               PROVE LET r == m_log_queue'[k]
                     IN EndBefore(m_log_queue', k, r.total - r.packets, r.total_elapsed - r.elapsed)
    BY <1>2 DEF WindowsTile, Grows
  <2>1. k \in 1 .. n
    BY <1>2, <1>3 DEF Grows
  <2> QED
    BY <1>2, <2>1 DEF Windows, WindowsTile, Grows
<1> QED
  BY <1>4, <1>5 DEF Windows

\* A report closes the open window and opens the next one.
LEMMA ReportKeepsWindows ==
  ASSUME CoreInv, Windows, ReportDone
  PROVE Windows'
<1> DEFINE n == Len(m_log_queue)
<1>1. m_log_queue \in Seq(LogLine) /\ Report \in LogLine /\ n \in Nat
  BY ReportType DEF CoreInv, TypeOK
<1>2. PICK r \in LogLine : r = Report
  BY <1>1
<1>3. <<r>> \in Seq(LogLine) /\ Len(<<r>>) = 1 /\ m_log_queue' = m_log_queue \o <<r>>
  BY <1>1, <1>2 DEF ReportDone
<1>4. Grows(m_log_queue, <<r>>, m_log_queue')
  BY <1>1, <1>3, LogGrows
<1>5. Len(m_log_queue') = n + 1 /\ m_log_queue'[n + 1] = r
  BY <1>1, <1>3, <1>4 DEF Grows
<1>6. /\ r.kind = "report" /\ r.total = m_packets_processed /\ r.total_elapsed = now - m_start_time
      /\ r.total - r.packets = m_packets_at_last_report
      /\ r.total_elapsed - r.elapsed = m_last_report_time - m_start_time
  <2>1. /\ r.kind = "report" /\ r.packets = m_packets_processed - m_packets_at_last_report
        /\ r.elapsed = now - m_last_report_time /\ r.total = m_packets_processed
        /\ r.total_elapsed = now - m_start_time
    BY <1>2 DEF Report, interval_packets, interval_elapsed
  <2>2. /\ m_packets_processed \in Int /\ m_packets_at_last_report \in Int
        /\ now \in Int /\ m_last_report_time \in Int /\ m_start_time \in Int
    BY LogicAssumption DEF CoreInv, TypeOK
  <2> QED
    BY <2>1, <2>2
<1>7. OpenWindow'
  <2>1. n + 1 \in ReportsBefore(m_log_queue', n + 2) /\ \A i \in ReportsBefore(m_log_queue', n + 2) : i <= n + 1
    BY <1>1, <1>5, <1>6 DEF ReportsBefore, IsReport
  <2>2. m_packets_at_last_report' = m_packets_processed /\ m_last_report_time' - m_start_time' = now - m_start_time
    BY DEF ReportDone, Snapshot
  <2>3. EndBefore(m_log_queue', n + 2, m_packets_at_last_report', m_last_report_time' - m_start_time')
    BY <1>5, <1>6, <2>1, <2>2 DEF EndBefore
  <2>4. Len(m_log_queue') + 1 = n + 2
    BY <1>1, <1>5
  <2> QED
    BY <2>3, <2>4 DEF OpenWindow
<1>8. WindowsTile'
  <2> SUFFICES ASSUME NEW k \in 1 .. n + 1, IsReport(m_log_queue'[k])
               PROVE LET line == m_log_queue'[k]
                     IN EndBefore(m_log_queue', k, line.total - line.packets, line.total_elapsed - line.elapsed)
    BY <1>4, <1>5 DEF WindowsTile, Grows
  <2>1. CASE k \in 1 .. n
    BY <1>1, <1>4, <2>1 DEF Windows, WindowsTile, Grows
  <2>2. CASE k = n + 1
    BY <1>1, <1>4, <1>5, <1>6, <2>2 DEF Windows, OpenWindow, Grows
  <2> QED
    BY <1>1, <2>1, <2>2
<1> QED
  BY <1>7, <1>8 DEF Windows

\* Every step keeps the windows adjacent.
LEMMA WindowsStep == CoreInv /\ Windows /\ [Next]_vars => Windows'
<1> SUFFICES ASSUME CoreInv, Windows, [Next]_vars PROVE Windows'
  OBVIOUS
<1>0. m_log_queue \in Seq(LogLine)
  BY DEF CoreInv, TypeOK
<1>1. CASE Starts
  <2>1. m_log_queue' = <<[kind |-> "running"]>> /\ m_packets_at_last_report = 0
    BY <1>1 DEF Starts, CoreInv, Begins
  <2>2. Len(m_log_queue') = 1 /\ DOMAIN m_log_queue' = {1} /\ m_log_queue'[1].kind = "running"
    BY <2>1
  <2>3. ReportsBefore(m_log_queue', 2) = {}
    BY <2>2 DEF ReportsBefore, IsReport
  <2>4. m_packets_at_last_report' = 0 /\ m_last_report_time' - m_start_time' = 0
    BY <1>1, <2>1, LogicAssumption DEF Starts, counters, CoreInv, TypeOK
  <2>5. OpenWindow'
    BY <2>2, <2>3, <2>4 DEF OpenWindow, EndBefore
  <2>6. WindowsTile'
    BY <2>2 DEF WindowsTile, IsReport
  <2> QED
    BY <2>5, <2>6 DEF Windows
<1>2. CASE Handle
  <2>1. PICK t \in Samples :
          /\ check_alerts(t) \in Seq(LogLine) /\ m_log_queue' = m_log_queue \o check_alerts(t)
          /\ UNCHANGED <<m_packets_at_last_report, times>>
    BY <1>2, HandleStep
  <2>2. \A i \in 1 .. Len(check_alerts(t)) : ~IsReport(check_alerts(t)[i])
    BY KindOfLine DEF IsReport, Over
  <2> QED
    BY <2>1, <2>2, OtherLinesKeepWindows
<1>3. CASE ReportDone
  BY <1>3, ReportKeepsWindows
<1>4. CASE Leave
  <2>1. PICK f \in LogLine : f = Final
    BY FinalType
  <2>2. <<f>> \in Seq(LogLine) /\ Len(<<f>>) = 1 /\ m_log_queue' = m_log_queue \o <<f>>
    BY <1>0, <1>4, <2>1 DEF Leave, Final
  <2>3. \A i \in 1 .. Len(<<f>>) : ~IsReport(<<f>>[i])
    BY <2>1, <2>2, KindOfLine DEF IsReport
  <2>4. UNCHANGED <<m_packets_at_last_report, times>>
    BY <1>4 DEF Leave, counters
  <2> QED
    BY <2>2, <2>3, <2>4, OtherLinesKeepWindows
<1>5. CASE ~Starts /\ ~Handle /\ ~ReportDone /\ ~Leave
  <2>1. UNCHANGED <<m_log_queue, m_packets_at_last_report, m_last_report_time, m_start_time>>
    BY <1>5 DEF Next, Environment, run, report_throughput, Tick, Push, RequestStop, CheckStop, PopStopped,
                ReportTooEarly, vars, logicVars, times, counters
  <2> QED
    BY <2>1 DEF Windows, OpenWindow, WindowsTile
<1> QED
  BY <1>1, <1>2, <1>3, <1>4, <1>5

\* For any interval, clock and telemetry the throughput windows are adjacent
\* (src/businessLogic.cpp:131-132): no packet and no time up to the
\* last report is counted in two intervals or in none.
THEOREM WindowsAreAdjacent == Spec => []WindowsTile
<1>1. Init => Windows
  <2> SUFFICES ASSUME Init PROVE Windows
    OBVIOUS
  <2>1. m_log_queue = << >> /\ m_packets_at_last_report = 0 /\ m_last_report_time - m_start_time = 0
    BY DEF Init
  <2>2. ReportsBefore(m_log_queue, 1) = {} /\ Len(m_log_queue) + 1 = 1
    BY <2>1 DEF ReportsBefore
  <2> QED
    BY <2>1, <2>2 DEF Windows, OpenWindow, EndBefore, WindowsTile
<1>2. Windows => WindowsTile
  BY DEF Windows
<1> QED
  BY <1>1, <1>2, WindowsStep, CoreCorrect, PTL DEF Spec

-----------------------------------------------------------------------------
\* The alerts in the log are those that the packets so far call for, and no
\* line speaks of packets that have not been handled.
AlertsSoFar ==
  Cardinality(AlertsUpTo(m_log_queue, Len(m_log_queue))) = Cardinality(CalledFor(handled, Len(handled)))

Totals ==
  \A k \in DOMAIN m_log_queue :
    m_log_queue[k].kind \in {"report", "final"} => m_log_queue[k].total \in 0 .. Len(handled)

Agreement == AlertsSoFar /\ Totals /\ LogIsConsistent

\* The sets that are counted are finite.
LEMMA CountedFinite ==
  ASSUME NEW n \in Nat, NEW q
  PROVE /\ IsFiniteSet(CalledFor(q, n)) /\ Cardinality(CalledFor(q, n)) \in Nat
        /\ IsFiniteSet(AlertsUpTo(q, n)) /\ Cardinality(AlertsUpTo(q, n)) \in Nat
<1>1. IsFiniteSet(1 .. n)
  BY FS_Interval
<1>2. IsFiniteSet(Over)
  <2>1. IsFiniteSet({"altitude"} \cup {"speed"})
    BY FS_Singleton, FS_AddElement
  <2>2. Over = {"altitude"} \cup {"speed"}
    BY DEF Over
  <2> QED
    BY <2>1, <2>2
<1>3. IsFiniteSet((1 .. n) \X Over)
  BY <1>1, <1>2, FS_Product
<1>4. CalledFor(q, n) \in SUBSET ((1 .. n) \X Over) /\ AlertsUpTo(q, n) \in SUBSET (1 .. n)
  BY DEF CalledFor, AlertsUpTo
<1>5. IsFiniteSet(CalledFor(q, n))
  BY <1>3, <1>4, FS_Subset
<1>6. IsFiniteSet(AlertsUpTo(q, n))
  BY <1>1, <1>4, FS_Subset
<1> QED
  BY <1>5, <1>6, FS_CardinalityType

\* What the first n packets call for depends on those packets only.
LEMMA EarlierPackets ==
  ASSUME NEW h, NEW new, NEW n \in Nat, \A i \in 1 .. n : new[i] = h[i]
  PROVE CalledFor(new, n) = CalledFor(h, n) /\ Heard(new, n) = Heard(h, n)
<1>1. ASSUME NEW x \in (1 .. n) \X Over PROVE new[x[1]] = h[x[1]]
  BY <1>1
<1>2. CalledFor(new, n) = CalledFor(h, n)
  BY <1>1 DEF CalledFor
<1>3. Heard(new, n) = Heard(h, n)
  BY DEF Heard
<1> QED
  BY <1>2, <1>3

\* The alerts of a packet are as many as the limits it is over.
LEMMA AlertsOfPacket ==
  ASSUME NEW n \in Nat, NEW h, NEW new, NEW t \in Samples,
         \A i \in 1 .. n : new[i] = h[i], new[n + 1].telemetry = t
  PROVE Cardinality(CalledFor(new, n + 1)) = Cardinality(CalledFor(h, n)) + Len(check_alerts(t))
<1> DEFINE C == CalledFor(h, n)
           high == <<n + 1, "altitude">>
           fast == <<n + 1, "speed">>
<1>1. IsFiniteSet(C) /\ Cardinality(C) \in Nat /\ high \notin C /\ fast \notin C /\ high # fast
  <2>1. IsFiniteSet(C) /\ Cardinality(C) \in Nat
    BY CountedFinite
  <2>2. \A x \in C : x[1] \in 1 .. n
    BY DEF CalledFor
  <2>3. n + 1 \notin 1 .. n
    OBVIOUS
  <2> QED
    BY <2>1, <2>2, <2>3
<1>2. \A x : x \in CalledFor(new, n + 1) <=>
             x \in C \/ (x = high /\ TooHigh(t)) \/ (x = fast /\ TooFast(t))
  <2>1. \A x \in (1 .. n) \X Over : x \in CalledFor(new, n + 1) <=> x \in C
    <3> SUFFICES ASSUME NEW x \in (1 .. n) \X Over PROVE x \in CalledFor(new, n + 1) <=> x \in C
      OBVIOUS
    <3>1. x[1] \in 1 .. n /\ x \in (1 .. n + 1) \X Over /\ new[x[1]] = h[x[1]]
      OBVIOUS
    <3> QED
      BY <3>1 DEF CalledFor
  <2>2. high \in CalledFor(new, n + 1) <=> TooHigh(t)
    BY DEF CalledFor, IsOver, Over
  <2>3. fast \in CalledFor(new, n + 1) <=> TooFast(t)
    BY DEF CalledFor, IsOver, Over
  <2>4. \A x \in CalledFor(new, n + 1) : x \in (1 .. n) \X Over \/ x = high \/ x = fast
    BY DEF CalledFor, Over
  <2>5. C \subseteq (1 .. n) \X Over
    BY DEF CalledFor
  <2> HIDE DEF C, high, fast
  <2> QED
    BY <2>1, <2>2, <2>3, <2>4, <2>5
<1> HIDE DEF C, high, fast
<1>3. \A kind \in Over : Len(Alert(kind, t)) = 1 /\ Alert(kind, t) \in Seq(LogLine)
  BY AlertTypes DEF Alert, Over
<1>4. "altitude" \in Over /\ "speed" \in Over
  BY DEF Over
<1>5. Cardinality(C \cup {high}) = Cardinality(C) + 1 /\ IsFiniteSet(C \cup {high})
  BY <1>1, FS_AddElement
<1>6. Cardinality(C \cup {fast}) = Cardinality(C) + 1
  BY <1>1, FS_AddElement
<1>7. Cardinality((C \cup {high}) \cup {fast}) = Cardinality(C) + 1 + 1
  <2>1. fast \notin C \cup {high}
    BY <1>1
  <2>2. Cardinality((C \cup {high}) \cup {fast}) = Cardinality(C \cup {high}) + 1
    BY <1>5, <2>1, FS_AddElement
  <2> QED
    BY <1>5, <2>2
<1>8. CASE TooHigh(t) /\ TooFast(t)
  <2>1. CalledFor(new, n + 1) = (C \cup {high}) \cup {fast}
    BY <1>2, <1>8
  <2>2. check_alerts(t) = Alert("altitude", t) \o Alert("speed", t)
    BY <1>8 DEF check_alerts
  <2>3. Len(check_alerts(t)) = 2
    BY <1>3, <1>4, <2>2
  <2> QED
    BY <1>1, <1>7, <2>1, <2>3 DEF C
<1>9. CASE TooHigh(t) /\ ~TooFast(t)
  <2>1. CalledFor(new, n + 1) = C \cup {high}
    BY <1>2, <1>9
  <2>2. Len(check_alerts(t)) = 1
    BY <1>3, <1>4, <1>9 DEF check_alerts
  <2> QED
    BY <1>1, <1>5, <2>1, <2>2 DEF C
<1>10. CASE ~TooHigh(t) /\ TooFast(t)
  <2>1. CalledFor(new, n + 1) = C \cup {fast}
    BY <1>2, <1>10
  <2>2. Len(check_alerts(t)) = 1
    BY <1>3, <1>4, <1>10 DEF check_alerts
  <2> QED
    BY <1>1, <1>6, <2>1, <2>2 DEF C
<1>11. CASE ~TooHigh(t) /\ ~TooFast(t)
  <2>1. CalledFor(new, n + 1) = C
    BY <1>2, <1>11
  <2>2. Len(check_alerts(t)) = 0
    BY <1>11 DEF check_alerts
  <2> QED
    BY <1>1, <2>1, <2>2 DEF C
<1> QED
  BY <1>8, <1>9, <1>10, <1>11

\* Lines at the end of the log: all of them alerts, or none.
LEMMA AlertsOfLines ==
  ASSUME NEW log, NEW s, NEW new, Grows(log, s, new)
  PROVE /\ \A k \in 1 .. Len(log) : AlertsUpTo(new, k) = AlertsUpTo(log, k)
        /\ (\A i \in 1 .. Len(s) : s[i].kind \in Over) =>
             Cardinality(AlertsUpTo(new, Len(new))) = Cardinality(AlertsUpTo(log, Len(log))) + Len(s)
        /\ (\A i \in 1 .. Len(s) : s[i].kind \notin Over) =>
             AlertsUpTo(new, Len(new)) = AlertsUpTo(log, Len(log))
<1> DEFINE n == Len(log)
<1>1. \A k \in 1 .. n : AlertsUpTo(new, k) = AlertsUpTo(log, k)
  BY DEF Grows, AlertsUpTo
<1>2. ASSUME \A i \in 1 .. Len(s) : s[i].kind \in Over
      PROVE Cardinality(AlertsUpTo(new, Len(new))) = Cardinality(AlertsUpTo(log, n)) + Len(s)
  <2>1. n \in Nat /\ Len(s) \in Nat /\ Len(new) = n + Len(s)
    BY DEF Grows
  <2>2. PICK last : last = n + 1 .. n + Len(s)
    OBVIOUS
  <2>3. IsFiniteSet(last) /\ Cardinality(last) = Len(s)
    BY <2>1, <2>2, CountInterval
  <2>4. AlertsUpTo(new, Len(new)) = AlertsUpTo(log, n) \cup last /\ AlertsUpTo(log, n) \cap last = {}
    BY <1>2, <2>1, <2>2 DEF Grows, AlertsUpTo
  <2>5. IsFiniteSet(AlertsUpTo(log, n))
    BY <2>1, CountedFinite
  <2>6. Cardinality(AlertsUpTo(log, n) \cup last) = Cardinality(AlertsUpTo(log, n)) + Cardinality(last)
    BY <2>3, <2>4, <2>5, CountDisjoint
  <2> QED
    BY <2>3, <2>4, <2>6
<1>3. ASSUME \A i \in 1 .. Len(s) : s[i].kind \notin Over
      PROVE AlertsUpTo(new, Len(new)) = AlertsUpTo(log, n)
  BY <1>3 DEF Grows, AlertsUpTo
<1> QED
  BY <1>1, <1>2, <1>3

\* A line about the packets so far agrees with the alerts before it.
LEMMA LineKeepsAgreement ==
  ASSUME CoreInv, TableIsLatest, Agreement, NEW line \in LogLine, m_log_queue' = Append(m_log_queue, line),
         line.kind \notin Over, UNCHANGED handled,
         line.kind \in {"report", "final"} =>
           line.total = m_packets_processed /\ line.drones = Cardinality(DOMAIN m_drones)
  PROVE Agreement'
<1> DEFINE n == Len(m_log_queue)
<1>1. m_log_queue \in Seq(LogLine) /\ handled \in Seq(Packet) /\ m_packets_processed = Len(handled)
  BY DEF CoreInv, TypeOK, Counts, Packet
<1>2. PICK s \in Seq(LogLine) : Len(s) = 1 /\ s[1] = line /\ m_log_queue' = m_log_queue \o s
  <2>1. <<line>> \in Seq(LogLine) /\ Len(<<line>>) = 1 /\ <<line>>[1] = line /\ m_log_queue' = m_log_queue \o <<line>>
    BY <1>1
  <2> QED
    BY <2>1, Zenon
<1>3. Grows(m_log_queue, s, m_log_queue')
  BY <1>1, <1>2, LogGrows
<1>4. n \in Nat /\ Len(m_log_queue') = n + 1 /\ m_log_queue'[n + 1] = line /\ DOMAIN m_log_queue' = 1 .. n + 1
  BY <1>2, <1>3 DEF Grows
<1>5. /\ \A k \in 1 .. n : AlertsUpTo(m_log_queue', k) = AlertsUpTo(m_log_queue, k)
      /\ AlertsUpTo(m_log_queue', n + 1) = AlertsUpTo(m_log_queue, n)
  <2>1. \A i \in 1 .. Len(s) : s[i].kind \notin Over
    BY <1>2
  <2>2. AlertsUpTo(m_log_queue', Len(m_log_queue')) = AlertsUpTo(m_log_queue, Len(m_log_queue))
    BY <1>3, <2>1, AlertsOfLines
  <2>3. \A k \in 1 .. n : AlertsUpTo(m_log_queue', k) = AlertsUpTo(m_log_queue, k)
    BY <1>3, AlertsOfLines
  <2> QED
    BY <1>4, <2>2, <2>3
<1>6. AlertsSoFar'
  BY <1>4, <1>5 DEF Agreement, AlertsSoFar
<1>7. Totals'
  BY <1>1, <1>3, <1>4 DEF Agreement, Totals, Grows
<1>8. LogIsConsistent'
  <2> SUFFICES ASSUME NEW k \in 1 .. n + 1, m_log_queue'[k].kind \in {"report", "final"}
               PROVE LET x == m_log_queue'[k] IN
                       /\ Cardinality(AlertsUpTo(m_log_queue', k)) = Cardinality(CalledFor(handled', x.total))
                       /\ x.drones = Cardinality(Heard(handled', x.total))
    BY <1>4 DEF LogIsConsistent
  <2>1. CASE k \in 1 .. n
    BY <1>3, <1>5, <2>1 DEF Agreement, LogIsConsistent, Grows
  <2>2. CASE k = n + 1
    <3>1. DOMAIN m_drones = Heard(handled, Len(handled))
      <4>1. DOMAIN handled = 1 .. Len(handled)
        BY <1>1
      <4> QED
        BY <4>1, Zenon DEF TableIsLatest, Heard
    <3> QED
      BY <1>1, <1>4, <1>5, <2>2, <3>1 DEF Agreement, AlertsSoFar
  <2> QED
    BY <1>4, <2>1, <2>2
<1> QED
  BY <1>6, <1>7, <1>8 DEF Agreement

\* A packet adds the alerts it calls for, and no line speaks of it yet.
LEMMA PacketKeepsAgreement ==
  ASSUME CoreInv, Agreement, Handle
  PROVE Agreement'
<1> DEFINE n == Len(m_log_queue)
           m == Len(handled)
<1>1. PICK t \in Samples :
        /\ check_alerts(t) \in Seq(LogLine) /\ m_log_queue' = m_log_queue \o check_alerts(t)
        /\ handled' = Append(handled, [telemetry |-> t, at |-> now])
        /\ [telemetry |-> t, at |-> now] \in Packet
  BY HandleStep
<1>2. m_log_queue \in Seq(LogLine) /\ handled \in Seq(Packet)
  BY DEF CoreInv, TypeOK, Packet
<1>3. Grows(m_log_queue, check_alerts(t), m_log_queue')
  BY <1>1, <1>2, LogGrows
<1>4. /\ m \in Nat /\ Len(handled') = m + 1 /\ handled'[m + 1].telemetry = t
      /\ \A i \in 1 .. m : handled'[i] = handled[i]
  BY <1>1, <1>2
<1>5. \A i \in 1 .. Len(check_alerts(t)) : check_alerts(t)[i].kind \in Over
  BY KindOfLine
<1>6. /\ \A k \in 1 .. n : AlertsUpTo(m_log_queue', k) = AlertsUpTo(m_log_queue, k)
      /\ Cardinality(AlertsUpTo(m_log_queue', Len(m_log_queue')))
           = Cardinality(AlertsUpTo(m_log_queue, n)) + Len(check_alerts(t))
  BY <1>3, <1>5, AlertsOfLines
<1>7. AlertsSoFar'
  <2>1. Cardinality(CalledFor(handled', m + 1)) = Cardinality(CalledFor(handled, m)) + Len(check_alerts(t))
    BY <1>4, AlertsOfPacket
  <2> QED
    BY <1>4, <1>6, <2>1 DEF Agreement, AlertsSoFar
<1>8. ASSUME NEW k \in DOMAIN m_log_queue', m_log_queue'[k].kind \in {"report", "final"}
      PROVE k \in 1 .. n /\ m_log_queue'[k] = m_log_queue[k] /\ m_log_queue[k].total \in 0 .. m
  <2>1. k \in 1 .. n /\ m_log_queue'[k] = m_log_queue[k]
    BY <1>3, <1>5, <1>8 DEF Grows, Over
  <2> QED
    BY <1>3, <1>8, <2>1 DEF Agreement, Totals, Grows
<1>9. Totals'
  BY <1>4, <1>8 DEF Totals
<1>10. LogIsConsistent'
  <2> SUFFICES ASSUME NEW k \in DOMAIN m_log_queue', m_log_queue'[k].kind \in {"report", "final"}
               PROVE LET x == m_log_queue'[k] IN
                       /\ Cardinality(AlertsUpTo(m_log_queue', k)) = Cardinality(CalledFor(handled', x.total))
                       /\ x.drones = Cardinality(Heard(handled', x.total))
    BY DEF LogIsConsistent
  <2>1. k \in 1 .. n /\ m_log_queue'[k] = m_log_queue[k] /\ m_log_queue[k].total \in 0 .. m
    BY <1>8
  <2>2. PICK total \in Nat : total = m_log_queue[k].total /\ total <= m
    BY <1>4, <2>1
  <2>3. CalledFor(handled', total) = CalledFor(handled, total) /\ Heard(handled', total) = Heard(handled, total)
    BY <1>4, <2>2, EarlierPackets
  <2> QED
    BY <1>3, <1>6, <2>1, <2>2, <2>3 DEF Agreement, LogIsConsistent, Grows
<1> QED
  BY <1>7, <1>9, <1>10 DEF Agreement

\* Every step keeps the log in agreement with the packets.
LEMMA AgreementStep == CoreInv /\ TableIsLatest /\ Agreement /\ [Next]_vars => Agreement'
<1> SUFFICES ASSUME CoreInv, TableIsLatest, Agreement, [Next]_vars PROVE Agreement'
  OBVIOUS
<1>1. CASE Starts
  <2>1. PICK line \in LogLine : line = [kind |-> "running"]
    <3>1. [kind |-> "running"] \in [kind : {"running"}]
      OBVIOUS
    <3> QED
      BY <3>1, Zenon DEF LogLine
  <2>2. line.kind = "running" /\ m_log_queue' = Append(m_log_queue, line) /\ UNCHANGED handled
    BY <1>1, <2>1, KindOfLine DEF Starts
  <2> QED
    BY <2>2, LineKeepsAgreement DEF Over
<1>2. CASE Handle
  BY <1>2, PacketKeepsAgreement
<1>3. CASE ReportDone
  <2>1. PICK line \in LogLine : line = Report
    BY ReportType
  <2>2. /\ line.kind = "report" /\ m_log_queue' = Append(m_log_queue, line) /\ UNCHANGED handled
        /\ line.total = m_packets_processed /\ line.drones = Cardinality(DOMAIN m_drones)
    BY <1>3, <2>1 DEF ReportDone, Report
  <2> QED
    BY <2>2, LineKeepsAgreement DEF Over
<1>4. CASE Leave
  <2>1. PICK line \in LogLine : line = Final
    BY FinalType
  <2>2. /\ line.kind = "final" /\ m_log_queue' = Append(m_log_queue, line) /\ UNCHANGED handled
        /\ line.total = m_packets_processed /\ line.drones = Cardinality(DOMAIN m_drones)
    BY <1>4, <2>1 DEF Leave, Final
  <2> QED
    BY <2>2, LineKeepsAgreement DEF Over
<1>5. CASE ~Starts /\ ~Handle /\ ~ReportDone /\ ~Leave
  <2>1. UNCHANGED <<m_log_queue, handled>>
    BY <1>5 DEF Next, Environment, run, report_throughput, Tick, Push, RequestStop, CheckStop, PopStopped,
                ReportTooEarly, vars, logicVars
  <2> QED
    BY <2>1 DEF Agreement, AlertsSoFar, Totals, LogIsConsistent
<1> QED
  BY <1>1, <1>2, <1>3, <1>4, <1>5

\* For any telemetry and any limits, what a report or the summary says of
\* packets and drones agrees with the alerts logged before it: a packet is
\* counted, entered and checked as one (src/businessLogic.cpp:44-53).
THEOREM LogAgrees == Spec => []LogIsConsistent
<1>1. Init => Agreement
  <2> SUFFICES ASSUME Init PROVE Agreement
    OBVIOUS
  <2>1. m_log_queue = << >> /\ handled = << >> /\ Len(m_log_queue) = 0 /\ Len(handled) = 0
    BY DEF Init
  <2>2. AlertsUpTo(m_log_queue, 0) = {} /\ CalledFor(handled, 0) = {}
    BY DEF AlertsUpTo, CalledFor
  <2>3. AlertsSoFar
    BY <2>1, <2>2 DEF AlertsSoFar
  <2> QED
    BY <2>1, <2>3 DEF Agreement, Totals, LogIsConsistent
<1>2. Agreement => LogIsConsistent
  BY DEF Agreement
<1> QED
  BY <1>1, <1>2, AgreementStep, TableCorrect, CoreCorrect, PTL DEF Spec
=============================================================================
