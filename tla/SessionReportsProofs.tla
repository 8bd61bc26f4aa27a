------------------------- MODULE SessionReportsProofs -------------------------
(***************************************************************************)
(* Proofs about SessionReports, for any number of ticks, streams, events   *)
(* and operations, and any history capacity.                               *)
(*                                                                         *)
(* The events of the monitor are real by the invariant MonitorInv: what    *)
(* the monitor compares with, and what a tick under way has seen, never    *)
(* promise an alert for which no failure of the service is left.           *)
(***************************************************************************)
EXTENDS SessionReports, SequenceTheorems, TLAPS

(***************************************************************************)
(* Types.                                                                  *)
(***************************************************************************)
\* What is pushed stays a history.
LEMMA BoundedHistory ==
  ASSUME NEW h \in Seq(Envelope), NEW env \in Envelope, Len(h) <= HistoryCapacity
  PROVE  /\ Bounded(Append(h, env)) \in Seq(Envelope)
         /\ Len(Bounded(Append(h, env))) <= HistoryCapacity
<1> DEFINE long == Append(h, env)
<1>1. long \in Seq(Envelope) /\ Len(long) = Len(h) + 1 /\ Len(h) \in Nat
  OBVIOUS
<1>2. CASE Len(long) - HistoryCapacity > 0
  <2>1. HistoryCapacity \in Nat /\ Len(long) - HistoryCapacity = 1
    BY <1>1, <1>2, StreamConstants
  <2>2. Bounded(long) = SubSeq(long, 2, Len(long))
    BY <2>1 DEF Bounded
  <2>3. SubSeq(long, 2, Len(long)) \in Seq(Envelope) /\ Len(SubSeq(long, 2, Len(long))) = Len(long) - 1
    BY <1>1, <2>1, StreamConstants, SubSeqProperties
  <2> QED BY <1>1, <2>2, <2>3
<1>3. CASE ~(Len(long) - HistoryCapacity > 0)
  BY <1>1, <1>3, StreamConstants DEF Bounded
<1> QED BY <1>2, <1>3

StreamType == [Streams -> [state : {"none", "open", "closed", "gone"}, got : Seq(Envelope)]]

\* What is delivered stays a stream.
LEMMA ReceivedType ==
  ASSUME NEW responses \in StreamType, NEW listeners, NEW env \in Envelope
  PROVE  Received(responses, listeners, env) \in StreamType
<1>1. ASSUME NEW s \in Streams
      PROVE  [state |-> IF env.terminal THEN "closed" ELSE "open", got |-> Append(responses[s].got, env)]
                \in [state : {"none", "open", "closed", "gone"}, got : Seq(Envelope)]
  BY DEF StreamType
<1> QED BY <1>1 DEF Received, StreamType

StreamStep ==
  \/ OpenRecord \/ Emit \/ Finish \/ ForgetOperations
  \/ \E s \in Streams : HandleOperationEvents(s) \/ Disconnect(s)
  \/ UNCHANGED streamVars

LEMMA StreamTypes == StreamTypeOK /\ StreamStep => StreamTypeOK'
<1> SUFFICES ASSUME StreamTypeOK, StreamStep PROVE StreamTypeOK'
  OBVIOUS
<1> USE DEF StreamTypeOK
<1>0. stream \in StreamType /\ Len(history) \in Nat
  BY DEF StreamType
<1>a. \A s \in Streams : Unused \in [state : {"none", "open", "closed", "gone"}, got : Seq(Envelope)]
  BY DEF Unused
<1>b. <<>> \in Seq(Envelope) /\ Len(<<>>) <= HistoryCapacity
  BY StreamConstants
<1>1. CASE OpenRecord
  BY <1>1, <1>a, <1>b, StreamConstants DEF OpenRecord
<1>2. CASE ForgetOperations
  BY <1>2, <1>a, <1>b, StreamConstants DEF ForgetOperations
<1>3. CASE Emit
  <2> DEFINE env == [seq |-> sequence + 1, terminal |-> FALSE]
  <2>1. env \in Envelope
    BY StreamConstants DEF Envelope
  <2>2. history' \in Seq(Envelope) /\ Len(history') <= HistoryCapacity
    BY <1>3, <2>1, BoundedHistory DEF Emit
  <2>3. stream' \in StreamType
    BY <1>0, <1>3, <2>1, ReceivedType DEF Emit
  <2>4. /\ status' \in {"none", "running", "ended"} /\ sequence' \in 0..MaxEvents
        /\ subscribers' \subseteq Streams
    BY <1>3, StreamConstants DEF Emit
  <2> QED BY <2>2, <2>3, <2>4 DEF StreamType
<1>4. CASE Finish
  <2> DEFINE env  == [seq |-> Len(history) + 1, terminal |-> TRUE]
             rest == Listening(subscribers, env)
  <2>1. env \in Envelope
    BY <1>0 DEF Envelope
  <2>2. history' \in Seq(Envelope) /\ Len(history') <= HistoryCapacity
    BY <1>4, <2>1, BoundedHistory DEF Finish
  <2>3. Received(stream, subscribers, env) \in StreamType
    BY <1>0, <2>1, ReceivedType
  <2>4. Received(Received(stream, subscribers, env), rest, env) \in StreamType
    BY <2>1, <2>3, ReceivedType
  <2>5. stream' \in StreamType
    BY <1>4, <2>4 DEF Finish
  <2>6. /\ status' \in {"none", "running", "ended"} /\ sequence' \in 0..MaxEvents
        /\ subscribers' \subseteq Streams
    BY <1>4 DEF Finish
  <2> QED BY <2>2, <2>5, <2>6 DEF StreamType
<1>5. ASSUME NEW s \in Streams, HandleOperationEvents(s)
      PROVE  StreamTypeOK'
  <2>1. [state |-> IF status = "ended" THEN "closed" ELSE "open", got |-> history]
          \in [state : {"none", "open", "closed", "gone"}, got : Seq(Envelope)]
    OBVIOUS
  <2> QED BY <1>5, <2>1 DEF HandleOperationEvents
<1>6. ASSUME NEW s \in Streams, Disconnect(s)
      PROVE  StreamTypeOK'
  BY <1>6, <1>b DEF Disconnect
<1>7. CASE UNCHANGED streamVars
  BY <1>7 DEF streamVars
<1> QED BY <1>1, <1>2, <1>3, <1>4, <1>5, <1>6, <1>7 DEF StreamStep

MonitorTypeOK ==
  /\ wanted \in BOOLEAN /\ registering \in Nat
  /\ monitor \in Snapshots \cup {"none", "fresh"}
  /\ ticks \in [Slots -> [sees : Snapshots \cup {"nothing", "listed"}, orphan : BOOLEAN]]
  /\ service \in Snapshots /\ owed \in Int /\ stray \in BOOLEAN
  /\ lapses \subseteq {"overlap", "late", "restored", "unresolved"}

\* What the monitor, its properties and their invariant are about.
monitorVars == <<wanted, monitor, ticks, service, owed, stray, lapses>>

\* The steps that are about the stream only.
StreamOnly ==
  /\ \/ \E k \in {"up", "down"} : Begin(k)
     \/ UpForces \/ UpRecords \/ RemoveForgetsState \/ Emits \/ Ends
     \/ \E s \in Streams : Connects(s)
     \/ UNCHANGED vars
  /\ UNCHANGED <<monitorVars, registering>>

LEMMA Steps ==
  [Next]_vars =>
    \/ StreamOnly \/ ServiceChanges \/ Register \/ UpDiscovers \/ DownStopsMonitor \/ Restart
    \/ \E t \in Slots : TimerFires(t) \/ CollectFails(t) \/ Probe(t) \/ Compare(t)
  BY DEF Next, vars, StreamOnly, Begin, UpForces, UpRecords, RemoveForgetsState, Emits, Ends, Connects, Tick, monitoring, told, monitorVars

LEMMA EveryStepOfStream == [Next]_vars => StreamStep
  BY DEF Next, vars, StreamStep, ServiceChanges, TimerFires, CollectFails, Tick, Probe, Compare, Register,
         Begin, UpForces, UpRecords, RemoveForgetsState, UpDiscovers, DownStopsMonitor, Emits, Ends, Connects, Restart

LEMMA InitMonitorTypes == Init => MonitorTypeOK
<1> SUFFICES ASSUME Init PROVE MonitorTypeOK
  OBVIOUS
<1>1. wanted \in BOOLEAN /\ stray \in BOOLEAN
  BY DEF Init
<1>2. ticks \in [Slots -> [sees : Snapshots \cup {"nothing", "listed"}, orphan : BOOLEAN]]
  BY DEF Init, Idle
<1>3. /\ monitor \in Snapshots \cup {"none", "fresh"} /\ service \in Snapshots
      /\ registering \in Nat /\ owed \in Int /\ lapses = {}
  BY DEF Init, Snapshots
<1> QED BY <1>1, <1>2, <1>3 DEF MonitorTypeOK

LEMMA MonitorTypes == MonitorTypeOK /\ [Next]_vars => MonitorTypeOK'
<1> SUFFICES ASSUME MonitorTypeOK, [Next]_vars PROVE MonitorTypeOK'
  OBVIOUS
<1> USE DEF MonitorTypeOK, Idle
<1>1. CASE StreamOnly
  BY <1>1 DEF StreamOnly, monitorVars
<1>2. CASE ServiceChanges
  BY <1>2 DEF ServiceChanges, monitoring
<1>3. CASE Register
  BY <1>3 DEF Register, told
<1>4. CASE UpDiscovers
  BY <1>4 DEF UpDiscovers, told
<1>5. CASE DownStopsMonitor
  BY <1>5 DEF DownStopsMonitor, told, Orphaned
<1>6. CASE Restart
  BY <1>6 DEF Restart, RestoreMonitors, told
<1>7. ASSUME NEW t \in Slots, TimerFires(t) PROVE MonitorTypeOK'
  BY <1>7 DEF TimerFires, told, Snapshots
<1>8. ASSUME NEW t \in Slots, CollectFails(t) PROVE MonitorTypeOK'
  BY <1>8 DEF CollectFails, told
<1>9. ASSUME NEW t \in Slots, Probe(t) PROVE MonitorTypeOK'
  BY <1>9 DEF Probe, told, Snapshots
<1>10. ASSUME NEW t \in Slots, Compare(t) PROVE MonitorTypeOK'
  <2>1. monitor' \in Snapshots \cup {"none", "fresh"} /\ UNCHANGED <<wanted, registering, service, lapses>>
    BY <1>10 DEF Compare, Publish
  <2>2. ticks' \in [Slots -> [sees : Snapshots \cup {"nothing", "listed"}, orphan : BOOLEAN]]
    BY <1>10 DEF Compare
  <2>3. owed' \in Int
    BY <1>10 DEF Compare, Publish, told
  <2>4. stray' \in BOOLEAN
    BY <1>10 DEF Compare, Publish, told
  <2> QED BY <2>1, <2>2, <2>3, <2>4
<1> QED BY Steps, <1>1, <1>2, <1>3, <1>4, <1>5, <1>6, <1>7, <1>8, <1>9, <1>10

\* Every variable keeps its type, and the history its capacity.
THEOREM TypeCorrect == Spec => []TypeOK
<1>1. Init => TypeOK
  <2> SUFFICES ASSUME Init PROVE TypeOK
    OBVIOUS
  <2>1. StreamTypeOK
    BY StreamConstants DEF Init, InitStream, StreamTypeOK, Unused
  <2>2. MonitorTypeOK
    BY InitMonitorTypes
  <2> QED BY <2>1, <2>2 DEF Init, TypeOK, MonitorTypeOK
<1>2. TypeOK /\ [Next]_vars => TypeOK'
  <2> SUFFICES ASSUME TypeOK, [Next]_vars PROVE TypeOK'
    OBVIOUS
  <2>1. StreamTypeOK'
    BY EveryStepOfStream, StreamTypes DEF TypeOK
  <2>2. MonitorTypeOK'
    BY MonitorTypes DEF TypeOK, MonitorTypeOK
  <2>3. kind' \in {"none", "up", "forced", "discovered", "down", "cleared"} /\ initialized' \in BOOLEAN
    BY DEF TypeOK, Next, vars, ServiceChanges, TimerFires, CollectFails, Tick, Probe, Compare, Register,
           Begin, UpForces, UpRecords, RemoveForgetsState, UpDiscovers, DownStopsMonitor, Emits, Ends, Connects, Restart
  <2> QED BY <2>1, <2>2, <2>3 DEF TypeOK, MonitorTypeOK
<1> QED BY <1>1, <1>2, PTL DEF Spec

(***************************************************************************)
(* Events.                                                                 *)
(***************************************************************************)
LEMMA InitEvents == Init => MonitorInv
  BY DEF Init, MonitorInv, TicksHaveMonitor, NoMonitorAfterDown, FailuresAreOwed, QuietAfterDown, Live

LEMMA EventsFrame == UNCHANGED monitorVars /\ MonitorInv => MonitorInv'
  BY DEF monitorVars, MonitorInv, TicksHaveMonitor, NoMonitorAfterDown, FailuresAreOwed, QuietAfterDown, Live

\* Each failure of the service adds to what is owed.
LEMMA EventsServiceChanges == MonitorTypeOK /\ MonitorInv /\ ServiceChanges => MonitorInv'
<1> SUFFICES ASSUME MonitorTypeOK, MonitorInv, ServiceChanges PROVE MonitorInv'
  OBVIOUS
<1>1. /\ UNCHANGED <<wanted, monitor, ticks, stray, lapses>>
      /\ service' \in Snapshots \ {service} /\ owed \in Int
      /\ owed' = owed + IF service' = "failed" \/ service = "healthy" THEN 1 ELSE 0
  BY DEF ServiceChanges, monitoring, MonitorTypeOK
<1>2. TicksHaveMonitor' /\ NoMonitorAfterDown' /\ QuietAfterDown'
  BY <1>1 DEF MonitorInv, TicksHaveMonitor, NoMonitorAfterDown, QuietAfterDown, Live
<1>3. FailuresAreOwed'
  <2>1. \A t \in Slots : Live(t)' <=> Live(t)
    BY <1>1 DEF Live
  <2>2. service \in Snapshots /\ owed' \in Int /\ owed' >= owed
    BY <1>1 DEF MonitorTypeOK
  <2> QED BY <1>1, <2>1, <2>2 DEF MonitorInv, FailuresAreOwed, Snapshots
<1> QED BY <1>2, <1>3 DEF MonitorInv

LEMMA EventsRegister == MonitorTypeOK /\ MonitorInv /\ Register => MonitorInv'
<1> SUFFICES ASSUME MonitorTypeOK, MonitorInv, Register PROVE MonitorInv'
  OBVIOUS
<1>1. /\ UNCHANGED <<wanted, ticks, service, owed, stray>>
      /\ monitor' = (IF monitor = "none" THEN "fresh" ELSE monitor)
      /\ lapses' = IF wanted THEN lapses ELSE lapses \cup {"late"}
  BY DEF Register, told
<1>2. TicksHaveMonitor' /\ NoMonitorAfterDown' /\ QuietAfterDown'
  BY <1>1 DEF MonitorInv, TicksHaveMonitor, NoMonitorAfterDown, QuietAfterDown, Live
<1>3. FailuresAreOwed'
  BY <1>1 DEF MonitorInv, FailuresAreOwed, Live
<1> QED BY <1>2, <1>3 DEF MonitorInv

LEMMA EventsUpDiscovers == MonitorTypeOK /\ MonitorInv /\ UpDiscovers => MonitorInv'
  BY DEF UpDiscovers, told, MonitorInv, TicksHaveMonitor, NoMonitorAfterDown, FailuresAreOwed, QuietAfterDown, Live

\* The ticks of a stopped monitor count for nothing.
LEMMA EventsDownStops == MonitorTypeOK /\ MonitorInv /\ DownStopsMonitor => MonitorInv'
<1> SUFFICES ASSUME MonitorTypeOK, MonitorInv, DownStopsMonitor PROVE MonitorInv'
  OBVIOUS
<1>1. /\ UNCHANGED <<service, owed, stray, lapses>>
      /\ wanted' = FALSE /\ monitor' = "none" /\ ticks' = Orphaned
  BY DEF DownStopsMonitor, told
<1>2. \A t \in Slots : ~Live(t)'
  BY <1>1 DEF Live, Orphaned, MonitorTypeOK, Idle
<1> QED BY <1>1, <1>2 DEF MonitorInv, TicksHaveMonitor, NoMonitorAfterDown, FailuresAreOwed, QuietAfterDown

LEMMA EventsRestart == MonitorTypeOK /\ MonitorInv /\ Restart => MonitorInv'
<1> SUFFICES ASSUME MonitorTypeOK, MonitorInv, Restart PROVE MonitorInv'
  OBVIOUS
<1>1. /\ UNCHANGED <<wanted, service, owed, stray>>
      /\ ticks' = [t \in Slots |-> Idle] /\ RestoreMonitors
  BY DEF Restart, told
<1>2. \A t \in Slots : ~Live(t)'
  BY <1>1 DEF Live
<1>3. /\ monitor' \in {"none", "fresh"} /\ lapses \subseteq lapses'
      /\ monitor' = "none" \/ wanted \/ "restored" \in lapses'
  BY <1>1 DEF RestoreMonitors
<1>4. FailuresAreOwed'
  BY <1>1, <1>2, <1>3 DEF MonitorInv, FailuresAreOwed
<1> QED BY <1>1, <1>2, <1>3, <1>4 DEF MonitorInv, TicksHaveMonitor, NoMonitorAfterDown, QuietAfterDown

\* A tick begins with a listing that is not older than what is owed.
LEMMA EventsTimerFires ==
  ASSUME MonitorTypeOK, MonitorInv, NEW t \in Slots, TimerFires(t)
  PROVE  MonitorInv'
<1>1. /\ UNCHANGED <<wanted, monitor, service, owed, stray>>
      /\ monitor # "none" /\ lapses \subseteq lapses'
      /\ lapses' = IF \E u \in Slots : Live(u) THEN lapses \cup {"overlap"} ELSE lapses
  BY DEF TimerFires, told, Live
<1>2. /\ ticks'[t].sees = (IF service = "absent" THEN "absent" ELSE "listed")
      /\ \A u \in Slots \ {t} : ticks'[u] = ticks[u]
  BY DEF TimerFires, MonitorTypeOK
<1>3. CASE \E u \in Slots : Live(u)
  BY <1>1, <1>3 DEF MonitorInv, TicksHaveMonitor, NoMonitorAfterDown, FailuresAreOwed, QuietAfterDown
<1>4. CASE ~\E u \in Slots : Live(u)
  <2>1. \A u \in Slots : Live(u)' => u = t
    BY <1>2, <1>4 DEF Live
  <2>2. FailuresAreOwed'
    BY <1>1, <1>2, <1>4, <2>1 DEF MonitorInv, FailuresAreOwed, MonitorTypeOK, Snapshots
  <2> QED BY <1>1, <1>4, <2>2 DEF MonitorInv, TicksHaveMonitor, NoMonitorAfterDown, QuietAfterDown
<1> QED BY <1>3, <1>4

LEMMA EventsCollectFails ==
  ASSUME MonitorTypeOK, MonitorInv, NEW t \in Slots, CollectFails(t)
  PROVE  MonitorInv'
<1>1. UNCHANGED <<wanted, monitor, service, owed, stray, lapses>>
  BY DEF CollectFails, told
<1>2. /\ ticks'[t] = Idle
      /\ \A u \in Slots \ {t} : ticks'[u] = ticks[u]
  BY DEF CollectFails, MonitorTypeOK
<1>3. \A u \in Slots : Live(u)' => Live(u) /\ ticks'[u] = ticks[u]
  BY <1>2 DEF Live
<1> QED BY <1>1, <1>3 DEF MonitorInv, TicksHaveMonitor, NoMonitorAfterDown, FailuresAreOwed, QuietAfterDown

LEMMA EventsProbe ==
  ASSUME MonitorTypeOK, MonitorInv, NEW t \in Slots, Probe(t)
  PROVE  MonitorInv'
<1>1. UNCHANGED <<wanted, monitor, service, owed, stray, lapses>> /\ ticks[t].sees = "listed"
  BY DEF Probe, told
<1>2. /\ ticks'[t].sees = (IF service = "healthy" THEN "healthy" ELSE "failed")
      /\ ticks'[t].orphan = ticks[t].orphan
      /\ \A u \in Slots \ {t} : ticks'[u] = ticks[u]
  BY DEF Probe, MonitorTypeOK
<1>3. \A u \in Slots : Live(u)' => Live(u)
  BY <1>1, <1>2 DEF Live, Idle
<1>4. FailuresAreOwed'
  BY <1>1, <1>2, <1>3 DEF MonitorInv, FailuresAreOwed
<1> QED BY <1>1, <1>3, <1>4 DEF MonitorInv, TicksHaveMonitor, NoMonitorAfterDown, QuietAfterDown

\* An alert uses up what is owed for it.
LEMMA EventsCompare ==
  ASSUME MonitorTypeOK, MonitorInv, NEW t \in Slots, Compare(t)
  PROVE  MonitorInv'
<1>1. /\ UNCHANGED <<wanted, service, lapses>> /\ ticks[t].sees \in Snapshots
      /\ ticks'[t] = Idle /\ \A u \in Slots \ {t} : ticks'[u] = ticks[u]
  BY DEF Compare, MonitorTypeOK
<1>2. \A u \in Slots : Live(u)' => u # t /\ Live(u) /\ ticks'[u] = ticks[u]
  BY <1>1 DEF Live
<1>3. CASE ticks[t].orphan
  <2>1. UNCHANGED <<monitor, owed, stray>>
    BY <1>3 DEF Compare, told
  <2> QED BY <1>1, <1>2, <2>1 DEF MonitorInv, TicksHaveMonitor, NoMonitorAfterDown, FailuresAreOwed, QuietAfterDown
<1>4. CASE ~ticks[t].orphan
  <2>1. Live(t)
    BY <1>1, <1>4 DEF Live, Idle, Snapshots
  <2>2. monitor # "none" /\ monitor' = ticks[t].sees
    BY <1>4, <2>1 DEF Compare, MonitorInv, TicksHaveMonitor
  <2>3. TicksHaveMonitor' /\ NoMonitorAfterDown'
    BY <1>1, <2>2 DEF MonitorInv, TicksHaveMonitor, NoMonitorAfterDown, Snapshots
  <2>4. QuietAfterDown'
    BY <1>1, <1>4, <2>2 DEF Compare, Publish, told, MonitorInv, NoMonitorAfterDown, QuietAfterDown
  <2>5. FailuresAreOwed'
    <3> SUFFICES ASSUME "overlap" \notin lapses PROVE FailuresAreOwed'
      BY <1>1 DEF FailuresAreOwed
    <3>1. \A u \in Slots : ~Live(u)'
      BY <1>2, <2>1 DEF MonitorInv, FailuresAreOwed
    <3>2. owed' = IF monitor \in {"healthy", "absent"} /\ ticks[t].sees = "failed" THEN owed - 1 ELSE owed
      BY <1>4, <2>2 DEF Compare, Publish, told, MonitorTypeOK, Snapshots
    <3>3. owed' >= 0
      BY <2>1, <3>2 DEF MonitorInv, FailuresAreOwed, MonitorTypeOK
    <3>4. /\ ticks[t].sees = "healthy" /\ service # "healthy" => owed' >= 1
          /\ ticks[t].sees = "absent" /\ service = "failed" => owed' >= 1
      BY <2>1, <3>2 DEF MonitorInv, FailuresAreOwed
    <3> QED BY <1>1, <2>2, <3>1, <3>3, <3>4 DEF FailuresAreOwed
  <2> QED BY <2>3, <2>4, <2>5 DEF MonitorInv
<1> QED BY <1>3, <1>4

\* The inductive invariant: what is known of the service never promises an
\* alert that is not owed.
THEOREM EventInvariance == Spec => [](MonitorTypeOK /\ MonitorInv)
<1>1. Init => MonitorTypeOK /\ MonitorInv
  BY InitEvents, InitMonitorTypes
<1>2. MonitorTypeOK /\ MonitorInv /\ [Next]_vars => MonitorTypeOK' /\ MonitorInv'
  <2> SUFFICES ASSUME MonitorTypeOK, MonitorInv, [Next]_vars PROVE MonitorInv'
    BY MonitorTypes
  <2>1. CASE StreamOnly
    BY <2>1, EventsFrame DEF StreamOnly
  <2>2. ASSUME NEW t \in Slots, TimerFires(t) \/ CollectFails(t) \/ Probe(t) \/ Compare(t)
        PROVE  MonitorInv'
    BY <2>2, EventsTimerFires, EventsCollectFails, EventsProbe, EventsCompare
  <2> QED BY Steps, <2>1, <2>2, EventsServiceChanges, EventsRegister, EventsUpDiscovers,
             EventsDownStops, EventsRestart
<1> QED BY <1>1, <1>2, PTL DEF Spec

\* At most one alert for each failure of the service, and silence after a
\* `down`, whatever operations, monitors, restarts and ticks there are,
\* unless ticks overlapped, a registration came late or a stopped deployment
\* was restored.
THEOREM EventsAreRealAlways == Spec => []EventsAreReal
<1>1. MonitorTypeOK /\ MonitorInv => EventsAreReal
  BY DEF MonitorInv, FailuresAreOwed, EventsAreReal, AlertsAreFailures
<1> QED BY <1>1, EventInvariance, PTL
(***************************************************************************)
(* Streams.  An operation that emitted n events, and its terminal envelope *)
(* if e is 1, has reported Entry(1, n), ..., Entry(n + e, n).              *)
(***************************************************************************)
Entry(j, n) ==
  IF j <= n THEN [seq |-> j, terminal |-> FALSE]
  ELSE [seq |-> (IF n < HistoryCapacity THEN n ELSE HistoryCapacity) + 1, terminal |-> TRUE]

IsTail(q, n, e) ==
  /\ q \in Seq(Envelope) /\ Len(q) <= n + e
  /\ \A i \in 1..Len(q) : q[i] = Entry(n + e - Len(q) + i, n)

Held(total) == IF total < HistoryCapacity THEN total ELSE HistoryCapacity
E == IF status = "ended" THEN 1 ELSE 0

StreamInv ==
  /\ status = "none" => sequence = 0
  /\ IsTail(history, sequence, E) /\ Len(history) = Held(sequence + E)
  /\ \A s \in Streams : Following(s) =>
       /\ IsTail(stream[s].got, sequence, E) /\ Len(stream[s].got) >= Held(sequence + E)
       /\ stream[s].state = "open" => status = "running" /\ s \in subscribers
       /\ stream[s].state = "closed" => status = "ended"

\* Pushing what comes next makes a longer tail ...
LEMMA TailPushEvent ==
  ASSUME NEW q, NEW n \in Nat, IsTail(q, n, 0)
  PROVE  LET env == [seq |-> n + 1, terminal |-> FALSE]
         IN IsTail(Append(q, env), n + 1, 0) /\ Len(Append(q, env)) = Len(q) + 1
<1> DEFINE env == [seq |-> n + 1, terminal |-> FALSE]
           r == Append(q, env)
<1>1. env \in Envelope /\ q \in Seq(Envelope) /\ Len(q) \in Nat
  BY DEF IsTail, Envelope
<1>2. /\ r \in Seq(Envelope) /\ Len(r) = Len(q) + 1
      /\ \A i \in 1..Len(q) : r[i] = q[i]
      /\ r[Len(q) + 1] = env
  BY <1>1, AppendProperties
<1>3. ASSUME NEW i \in 1..Len(r) PROVE r[i] = Entry(n + 1 - Len(r) + i, n + 1)
  <2> HIDE DEF r
  <2>1. CASE i = Len(q) + 1
    <3>1. n + 1 - Len(r) + i = n + 1
      BY <1>1, <1>2, <2>1
    <3>2. Entry(n + 1, n + 1) = env
      BY DEF Entry
    <3> QED BY <1>2, <2>1, <3>1, <3>2
  <2>2. CASE i \in 1..Len(q)
    <3>1. q[i] = Entry(n + 0 - Len(q) + i, n)
      BY <1>1, <2>2 DEF IsTail
    <3>2. n + 0 - Len(q) + i = n - Len(q) + i /\ n + 1 - Len(r) + i = n - Len(q) + i
      BY <1>1, <1>2, <2>2
    <3>3. n - Len(q) + i <= n /\ n - Len(q) + i <= n + 1
      BY <1>1, <2>2
    <3>4. Entry(n - Len(q) + i, n) = Entry(n - Len(q) + i, n + 1)
      BY <3>3 DEF Entry
    <3> QED BY <1>2, <2>2, <3>1, <3>2, <3>4
  <2> QED BY <1>1, <1>2, <2>1, <2>2
<1> HIDE DEF r
<1>4. IsTail(r, n + 1, 0)
  <2>1. Len(r) <= n + 1 + 0
    BY <1>1, <1>2 DEF IsTail
  <2>2. ASSUME NEW i \in 1..Len(r) PROVE r[i] = Entry(n + 1 + 0 - Len(r) + i, n + 1)
    <3>1. n + 1 + 0 - Len(r) + i = n + 1 - Len(r) + i
      BY <1>1, <1>2
    <3> QED BY <1>3, <3>1
  <2> QED BY <1>2, <2>1, <2>2 DEF IsTail
<1> QED BY <1>2, <1>4 DEF r

LEMMA TailPushTerminal ==
  ASSUME NEW q, NEW n \in Nat, IsTail(q, n, 0)
  PROVE  LET env == [seq |-> Held(n) + 1, terminal |-> TRUE]
         IN IsTail(Append(q, env), n, 1) /\ Len(Append(q, env)) = Len(q) + 1
<1> DEFINE env == [seq |-> Held(n) + 1, terminal |-> TRUE]
           r == Append(q, env)
<1>1. env \in Envelope /\ q \in Seq(Envelope) /\ Len(q) \in Nat /\ Len(q) <= n
  BY StreamConstants DEF IsTail, Envelope, Held
<1>2. /\ r \in Seq(Envelope) /\ Len(r) = Len(q) + 1
      /\ \A i \in 1..Len(q) : r[i] = q[i]
      /\ r[Len(q) + 1] = env
  BY <1>1, AppendProperties
<1>3. ASSUME NEW i \in 1..Len(r) PROVE r[i] = Entry(n + 1 - Len(r) + i, n)
  <2> HIDE DEF r
  <2>1. CASE i = Len(q) + 1
    BY <1>1, <1>2, <2>1 DEF Entry, Held
  <2>2. CASE i \in 1..Len(q)
    <3>1. q[i] = Entry(n - Len(q) + i, n)
      BY <1>1, <2>2 DEF IsTail
    <3>2. n + 1 - Len(r) + i = n - Len(q) + i
      BY <1>1, <1>2, <2>2
    <3> QED BY <1>2, <2>2, <3>1, <3>2
  <2> QED BY <1>1, <1>2, <2>1, <2>2
<1> HIDE DEF r
<1>4. IsTail(r, n, 1)
  BY <1>1, <1>2, <1>3 DEF IsTail
<1> QED BY <1>2, <1>4 DEF r

\* ... and cutting its front leaves one.
LEMMA TailBounded ==
  ASSUME NEW q, NEW n \in Nat, NEW e \in {0, 1}, IsTail(q, n, e), Len(q) <= HistoryCapacity + 1
  PROVE  IsTail(Bounded(q), n, e) /\ Len(Bounded(q)) = Held(Len(q))
<1>1. q \in Seq(Envelope) /\ Len(q) \in Nat /\ HistoryCapacity \in Nat /\ Len(q) <= n + e
  BY StreamConstants DEF IsTail
<1>2. CASE Len(q) = HistoryCapacity + 1
  <2>1. Bounded(q) = SubSeq(q, 2, Len(q))
    BY <1>1, <1>2 DEF Bounded
  <2>2. \A i \in 2..Len(q) : q[i] \in Envelope
    BY <1>1
  <2>3. /\ SubSeq(q, 2, Len(q)) \in Seq(Envelope)
        /\ Len(SubSeq(q, 2, Len(q))) = Len(q) - 1
        /\ \A i \in 1..Len(q) - 1 : SubSeq(q, 2, Len(q))[i] = q[i + 1]
    <3>1. /\ SubSeq(q, 2, Len(q)) \in Seq(Envelope)
          /\ Len(SubSeq(q, 2, Len(q))) = IF 2 <= Len(q) THEN Len(q) - 2 + 1 ELSE 0
          /\ \A i \in 1..Len(q) - 2 + 1 : SubSeq(q, 2, Len(q))[i] = q[2 + i - 1]
      BY <1>1, <2>2, SubSeqProperties
    <3> QED BY <1>1, <1>2, <3>1, StreamConstants
  <2>4. ASSUME NEW i \in 1..Len(q) - 1 PROVE q[i + 1] = Entry(n + e - (Len(q) - 1) + i, n)
    <3>1. q[i + 1] = Entry(n + e - Len(q) + (i + 1), n)
      BY <1>1 DEF IsTail
    <3>2. n + e - Len(q) + (i + 1) = n + e - (Len(q) - 1) + i
      BY <1>1
    <3> QED BY <3>1, <3>2
  <2> DEFINE r == SubSeq(q, 2, Len(q))
  <2> HIDE DEF r
  <2>5. r \in Seq(Envelope) /\ Len(r) = Len(q) - 1 /\ \A i \in 1..Len(q) - 1 : r[i] = q[i + 1]
    BY <2>3 DEF r
  <2>6. \A i \in 1..Len(r) : r[i] = Entry(n + e - Len(r) + i, n)
    BY <2>4, <2>5
  <2>7. IsTail(r, n, e)
    BY <1>1, <2>5, <2>6 DEF IsTail
  <2>8. Bounded(q) = r /\ Len(r) = Held(Len(q))
    BY <1>1, <1>2, <2>1, <2>5 DEF Held, r
  <2> QED BY <2>7, <2>8
<1>3. CASE Len(q) <= HistoryCapacity
  BY <1>1, <1>3 DEF Bounded, Held
<1> QED BY <1>1, <1>2, <1>3

\* A tail is a suffix in the sense of the community modules.
LEMMA TailIsSuffix ==
  ASSUME StreamTypeOK, NEW q, IsTail(q, sequence, E)
  PROVE  IsSuffix(q, Told) /\ Len(Told) = sequence + E
<1> DEFINE events == [i \in 1..sequence |-> [seq |-> i, terminal |-> FALSE]]
           last == [seq |-> Held(sequence) + 1, terminal |-> TRUE]
           end == IF status # "ended" THEN <<>> ELSE <<last>>
<1>1. sequence \in Nat /\ E \in {0, 1} /\ last \in Envelope /\ q \in Seq(Envelope) /\ Len(q) \in Nat
  BY StreamConstants DEF StreamTypeOK, E, Envelope, Held, IsTail
<1>2. events \in Seq(Envelope) /\ Len(events) = sequence
  BY <1>1 DEF Envelope
<1>3. /\ end \in Seq(Envelope) /\ Len(end) = E
      /\ E = 1 => end[1] = last
  BY <1>1 DEF E
<1>4. Told = events \o end
  BY DEF Told, Held
<1>5. /\ Told \in Seq(Envelope) /\ Len(Told) = sequence + E
      /\ \A i \in 1..sequence + E : Told[i] = Entry(i, sequence)
  <2>a. \A i \in 1..sequence : events[i] = [seq |-> i, terminal |-> FALSE]
    OBVIOUS
  <2> HIDE DEF events, end, last
  <2>1. /\ events \o end \in Seq(Envelope) /\ Len(events \o end) = sequence + E
        /\ \A i \in 1..sequence + E : (events \o end)[i] =
             IF i <= sequence THEN events[i] ELSE end[i - sequence]
    BY <1>2, <1>3, ConcatProperties
  <2>2. \A i \in 1..sequence : events[i] = Entry(i, sequence)
    <3> SUFFICES ASSUME NEW i \in 1..sequence PROVE events[i] = Entry(i, sequence)
      OBVIOUS
    <3>1. i <= sequence
      BY <1>1
    <3>2. Entry(i, sequence) = [seq |-> i, terminal |-> FALSE]
      BY <3>1 DEF Entry
    <3> QED BY <2>a, <3>2
  <2>3. ASSUME NEW i \in 1..sequence + E, ~(i <= sequence) PROVE end[i - sequence] = Entry(i, sequence)
    <3>1. E = 1 /\ i - sequence = 1
      BY <1>1, <2>3
    <3> QED BY <1>1, <1>3, <2>3, <3>1 DEF Entry, Held, last
  <2>4. ASSUME NEW i \in 1..sequence + E PROVE (events \o end)[i] = Entry(i, sequence)
    <3>1. CASE i <= sequence
      BY <1>1, <2>1, <2>2, <3>1
    <3>2. CASE ~(i <= sequence)
      BY <2>1, <2>3, <3>2
    <3> QED BY <3>1, <3>2
  <2> QED BY <1>4, <2>1, <2>4
<1>6. Len(q) <= Len(Told)
  BY <1>5 DEF IsTail
<1> HIDE DEF events, end, last
<1>7. \A i \in 1..Len(q) : q[(Len(q) - i) + 1] = Told[(Len(Told) - i) + 1]
  <2> SUFFICES ASSUME NEW i \in 1..Len(q) PROVE q[(Len(q) - i) + 1] = Told[(Len(Told) - i) + 1]
    OBVIOUS
  <2>1. (Len(q) - i) + 1 \in 1..Len(q)
    BY <1>1
  <2>2. q[(Len(q) - i) + 1] = Entry(sequence + E - Len(q) + ((Len(q) - i) + 1), sequence)
    BY <2>1 DEF IsTail
  <2>3. sequence + E - Len(q) + ((Len(q) - i) + 1) = (Len(Told) - i) + 1
    BY <1>1, <1>5
  <2>4. (Len(Told) - i) + 1 \in 1..sequence + E
    BY <1>1, <1>5, <1>6
  <2> QED BY <1>5, <2>2, <2>3, <2>4
<1>8. /\ Len(Reverse(q)) = Len(q) /\ Len(Reverse(Told)) = Len(Told)
      /\ \A i \in 1..Len(q) : Reverse(q)[i] = Reverse(Told)[i]
  <2>1. Len(Reverse(q)) = Len(q) /\ Len(Reverse(Told)) = Len(Told)
    BY <1>1, <1>5 DEF Reverse
  <2>2. \A i \in 1..Len(q) : Reverse(q)[i] = q[(Len(q) - i) + 1]
    BY <1>1 DEF Reverse
  <2>3. \A i \in 1..Len(q) : Reverse(Told)[i] = Told[(Len(Told) - i) + 1]
    BY <1>1, <1>5, <1>6 DEF Reverse
  <2> QED BY <1>7, <2>1, <2>2, <2>3
<1>9. SubSeq(Reverse(q), 1, Len(q)) = SubSeq(Reverse(Told), 1, Len(q))
  <2>1. /\ Reverse(q) \in Seq(Envelope) /\ Reverse(Told) \in Seq(Envelope)
    <3>1. \A i \in 1..Len(q) : (Len(q) - i) + 1 \in 1..Len(q)
      BY <1>1
    <3>2. \A i \in 1..Len(Told) : (Len(Told) - i) + 1 \in 1..Len(Told)
      BY <1>5
    <3> QED BY <1>1, <1>5, <3>1, <3>2 DEF Reverse
  <2>2. \A i \in 1..Len(q) : Reverse(q)[i] \in Envelope /\ Reverse(Told)[i] \in Envelope
    BY <1>1, <1>5, <1>6, <1>8, <2>1
  <2> DEFINE a == SubSeq(Reverse(q), 1, Len(q))
             b == SubSeq(Reverse(Told), 1, Len(q))
  <2>3. /\ a \in Seq(Envelope) /\ Len(a) = IF 1 <= Len(q) THEN Len(q) - 1 + 1 ELSE 0
        /\ \A i \in 1..Len(q) - 1 + 1 : a[i] = Reverse(q)[1 + i - 1]
    BY <1>1, <2>2, SubSeqProperties
  <2>4. /\ b \in Seq(Envelope) /\ Len(b) = IF 1 <= Len(q) THEN Len(q) - 1 + 1 ELSE 0
        /\ \A i \in 1..Len(q) - 1 + 1 : b[i] = Reverse(Told)[1 + i - 1]
    BY <1>1, <2>2, SubSeqProperties
  <2> HIDE DEF a, b
  <2>5. Len(a) = Len(b) /\ \A i \in 1..Len(a) : a[i] = b[i]
    BY <1>1, <1>8, <2>3, <2>4
  <2>6. a = b
    BY <2>3, <2>4, <2>5, SeqEqual
  <2> QED BY <2>6 DEF a, b
<1> QED BY <1>5, <1>6, <1>8, <1>9 DEF IsSuffix, IsPrefix

LEMMA EmptyTail == IsTail(<<>>, 0, 0) /\ Len(<<>>) = Held(0)
  BY StreamConstants DEF IsTail, Held

LEMMA StreamOpens ==
  ASSUME OpenRecord \/ ForgetOperations \/ InitStream'
  PROVE  StreamInv'
<1>1. history' = <<>> /\ sequence' = 0 /\ E' = 0 /\ status' # "ended"
  BY DEF OpenRecord, ForgetOperations, InitStream, E
<1>2. \A s \in Streams : ~Following(s)'
  BY DEF OpenRecord, ForgetOperations, InitStream, Following, Unused
<1>3. IsTail(history', 0, 0) /\ Len(history') = Held(0)
  BY <1>1, EmptyTail
<1> QED BY <1>1, <1>2, <1>3 DEF StreamInv

LEMMA HeldGrows ==
  ASSUME NEW n \in Nat
  PROVE  /\ Held(Held(n) + 1) = Held(n + 1) /\ Held(n) \in Nat
         /\ Held(n) <= HistoryCapacity /\ Held(n + 1) <= Held(n) + 1
  BY StreamConstants DEF Held

\* The event is pushed to the history and to every open stream.
LEMMA StreamEmits ==
  ASSUME StreamTypeOK, StreamInv, Emit
  PROVE  StreamInv'
<1> DEFINE env == [seq |-> sequence + 1, terminal |-> FALSE]
           n == sequence
<1>1. /\ status = "running" /\ status' = "running" /\ sequence' = n + 1 /\ n \in Nat
      /\ UNCHANGED subscribers /\ E = 0 /\ E' = 0
  BY StreamConstants DEF Emit, E, StreamTypeOK
<1>2. IsTail(history, n, 0) /\ Len(history) = Held(n)
  BY <1>1 DEF StreamInv
<1>3. IsTail(Append(history, env), n + 1, 0) /\ Len(Append(history, env)) = Held(n) + 1
  BY <1>1, <1>2, TailPushEvent
<1>4. history' = Bounded(Append(history, env)) /\ stream' = Received(stream, subscribers, env)
  BY DEF Emit
<1>5. IsTail(history', n + 1, 0) /\ Len(history') = Held(n + 1)
  <2>1. Len(Append(history, env)) <= HistoryCapacity + 1
    <3>1. Held(n) \in Nat /\ Held(n) <= HistoryCapacity
      BY <1>1, HeldGrows
    <3>2. HistoryCapacity \in Nat
      BY StreamConstants
    <3>3. QED
      BY <1>3, <3>1, <3>2
  <2>2. n + 1 \in Nat
    BY <1>1
  <2> HIDE DEF env, n
  <2>3. IsTail(Bounded(Append(history, env)), n + 1, 0)
        /\ Len(Bounded(Append(history, env))) = Held(Len(Append(history, env)))
    BY <1>3, <2>1, <2>2, TailBounded
  <2> QED BY <1>1, <1>3, <1>4, <2>3, HeldGrows
<1>6. ASSUME NEW s \in Streams, Following(s)'
      PROVE  /\ IsTail(stream'[s].got, n + 1, 0) /\ Len(stream'[s].got) >= Held(n + 1)
             /\ stream'[s].state = "open" /\ s \in subscribers
  <2>1. stream'[s] = IF s \notin subscribers \/ stream[s].state # "open" THEN stream[s]
                     ELSE [state |-> "open", got |-> Append(stream[s].got, env)]
    BY <1>4 DEF Received
  <2>2. Following(s) /\ stream[s].state = "open" /\ s \in subscribers
    BY <1>1, <1>6, <2>1 DEF Following, StreamInv
  <2>3. IsTail(stream[s].got, n, 0) /\ Len(stream[s].got) >= Held(n)
    BY <1>1, <2>2 DEF StreamInv
  <2>4. stream'[s].got = Append(stream[s].got, env) /\ stream'[s].state = "open"
    BY <2>1, <2>2
  <2>5. Len(stream[s].got) \in Nat
    BY <2>3 DEF IsTail
  <2>6. IsTail(Append(stream[s].got, env), n + 1, 0) /\ Len(Append(stream[s].got, env)) = Len(stream[s].got) + 1
    BY <1>1, <2>3, TailPushEvent
  <2>7. Held(n + 1) <= Len(stream[s].got) + 1
    <3>1. Held(n) \in Nat /\ Held(n + 1) <= Held(n) + 1 /\ Held(n + 1) \in Nat
      BY <1>1, HeldGrows
    <3> QED BY <2>3, <2>5, <3>1
  <2> QED BY <2>2, <2>4, <2>6, <2>7
<1> QED BY <1>1, <1>5, <1>6 DEF StreamInv

\* The terminal envelope is pushed and closes every stream; the second round
\* of deliveries finds no listener.
LEMMA StreamFinishes ==
  ASSUME StreamTypeOK, StreamInv, Finish
  PROVE  StreamInv'
<1> DEFINE n == sequence
           env == [seq |-> Held(n) + 1, terminal |-> TRUE]
<1>1. /\ status = "running" /\ status' = "ended" /\ sequence' = n /\ n \in Nat
      /\ E = 0 /\ E' = 1
  BY DEF Finish, E, StreamTypeOK
<1>2. IsTail(history, n, 0) /\ Len(history) = Held(n)
  BY <1>1 DEF StreamInv
<1>3. IsTail(Append(history, env), n, 1) /\ Len(Append(history, env)) = Held(n) + 1
  BY <1>1, <1>2, TailPushTerminal
<1>4. history' = Bounded(Append(history, env)) /\ stream' = Received(Received(stream, subscribers, env), {}, env)
  BY <1>2 DEF Finish, Listening
<1>5. IsTail(history', n, 1) /\ Len(history') = Held(n + 1)
  <2>1. Len(Append(history, env)) <= HistoryCapacity + 1
    BY <1>1, <1>3, HeldGrows, StreamConstants
  <2> HIDE DEF env, n
  <2>2. IsTail(Bounded(Append(history, env)), n, 1)
        /\ Len(Bounded(Append(history, env))) = Held(Len(Append(history, env)))
    BY <1>1, <1>3, <2>1, TailBounded
  <2> QED BY <1>1, <1>3, <1>4, <2>2, HeldGrows
<1>6. ASSUME NEW s \in Streams, Following(s)'
      PROVE  /\ IsTail(stream'[s].got, n, 1) /\ Len(stream'[s].got) >= Held(n + 1)
             /\ stream'[s].state = "closed"
  <2>1. stream'[s] = IF s \notin subscribers \/ stream[s].state # "open" THEN stream[s]
                     ELSE [state |-> "closed", got |-> Append(stream[s].got, env)]
    BY <1>4 DEF Received
  <2>2. Following(s) /\ stream[s].state = "open" /\ s \in subscribers
    BY <1>1, <1>6, <2>1 DEF Following, StreamInv
  <2>3. IsTail(stream[s].got, n, 0) /\ Len(stream[s].got) >= Held(n)
    BY <1>1, <2>2 DEF StreamInv
  <2>4. stream'[s].got = Append(stream[s].got, env) /\ stream'[s].state = "closed"
    BY <2>1, <2>2
  <2>5. Len(stream[s].got) \in Nat
    BY <2>3 DEF IsTail
  <2>6. IsTail(Append(stream[s].got, env), n, 1) /\ Len(Append(stream[s].got, env)) = Len(stream[s].got) + 1
    BY <1>1, <2>3, TailPushTerminal
  <2>7. Held(n + 1) <= Len(stream[s].got) + 1
    <3>1. Held(n) \in Nat /\ Held(n + 1) <= Held(n) + 1 /\ Held(n + 1) \in Nat
      BY <1>1, HeldGrows
    <3> QED BY <2>3, <2>5, <3>1
  <2> QED BY <2>4, <2>6, <2>7
<1> QED BY <1>1, <1>5, <1>6 DEF StreamInv

LEMMA StreamConnects ==
  ASSUME StreamTypeOK, StreamInv, NEW s \in Streams, HandleOperationEvents(s) \/ Disconnect(s)
  PROVE  StreamInv'
<1>1. UNCHANGED <<status, sequence, history>> /\ E' = E
  BY DEF HandleOperationEvents, Disconnect, E
<1>2. \A u \in Streams \ {s} :
        stream'[u] = stream[u] /\ (u \in subscribers => u \in subscribers')
  BY DEF HandleOperationEvents, Disconnect, StreamTypeOK
<1>3. CASE Disconnect(s)
  <2>1. ~Following(s)'
    BY <1>3 DEF Disconnect, Following, StreamTypeOK
  <2> QED BY <1>1, <1>2, <2>1 DEF StreamInv, Following
<1>4. CASE HandleOperationEvents(s)
  <2>1. /\ stream'[s].got = history /\ status # "none"
        /\ stream'[s].state = IF status = "ended" THEN "closed" ELSE "open"
        /\ status # "ended" => s \in subscribers'
    BY <1>4 DEF HandleOperationEvents, StreamTypeOK
  <2>2. Held(sequence + E) \in Nat /\ Len(history) >= Held(sequence + E)
    <3>1. sequence + E \in Nat
      BY StreamConstants DEF StreamTypeOK, E
    <3>2. Held(sequence + E) \in Nat
      BY <3>1, HeldGrows
    <3> QED BY <3>2 DEF StreamInv
  <2>3. status = "running" \/ status = "ended"
    BY <2>1 DEF StreamTypeOK
  <2> QED BY <1>1, <1>2, <2>1, <2>2, <2>3 DEF StreamInv, Following
<1> QED BY <1>3, <1>4

\* Every stream is complete, whatever the capacity of the history and
\* however many events and streams there are.
THEOREM StreamsAreCompleteAlways == Spec => []StreamsAreComplete
<1>1. Init => StreamInv
  <2> SUFFICES ASSUME Init PROVE StreamInv
    OBVIOUS
  <2>1. history = <<>> /\ sequence = 0 /\ E = 0 /\ \A s \in Streams : ~Following(s)
    BY DEF Init, InitStream, E, Following, Unused
  <2> QED BY <2>1, EmptyTail DEF StreamInv
<1>2. StreamTypeOK /\ StreamInv /\ [Next]_vars => StreamInv'
  <2> SUFFICES ASSUME StreamTypeOK, StreamInv, StreamStep PROVE StreamInv'
    BY EveryStepOfStream
  <2>1. CASE UNCHANGED streamVars
    BY <2>1 DEF streamVars, StreamInv, E, Following
  <2> QED BY <2>1, StreamOpens, StreamEmits, StreamFinishes, StreamConnects DEF StreamStep
<1>3. StreamTypeOK /\ StreamInv => StreamsAreComplete
  <2> SUFFICES ASSUME StreamTypeOK, StreamInv, NEW s \in Streams, Following(s)
               PROVE  /\ IsSuffix(stream[s].got, Told)
                      /\ Len(stream[s].got) >= Held(Len(Told))
                      /\ stream[s].state = "closed" <=> status = "ended"
                      /\ sequence <= HistoryCapacity =>
                           \A i \in 2..Len(stream[s].got) :
                             stream[s].got[i].seq = stream[s].got[i - 1].seq + 1
    BY DEF StreamsAreComplete, Held
  <2> DEFINE got == stream[s].got
  <2>1. IsTail(got, sequence, E) /\ Len(got) >= Held(sequence + E)
    BY DEF StreamInv
  <2>2. IsSuffix(got, Told) /\ Len(Told) = sequence + E
    BY <2>1, TailIsSuffix
  <2>3. stream[s].state = "closed" <=> status = "ended"
    BY DEF StreamInv, Following
  <2>4. ASSUME sequence <= HistoryCapacity, NEW i \in 2..Len(got)
        PROVE  got[i].seq = got[i - 1].seq + 1
    <3>1. sequence \in Nat /\ E \in {0, 1} /\ Len(got) \in Nat /\ HistoryCapacity \in Nat
      BY <2>1, StreamConstants DEF StreamTypeOK, E, IsTail
    <3>2. Len(got) <= sequence + E /\ \A k \in 1..Len(got) : got[k] = Entry(sequence + E - Len(got) + k, sequence)
      BY <2>1 DEF IsTail
    <3> HIDE DEF got
    <3>3. i \in Int /\ i <= Len(got) /\ i \in 1..Len(got) /\ i - 1 \in 1..Len(got)
      BY <3>1
    <3> DEFINE j == sequence + E - Len(got) + i
    <3>4. got[i] = Entry(j, sequence) /\ got[i - 1] = Entry(sequence + E - Len(got) + (i - 1), sequence)
      BY <3>2, <3>3
    <3>5. sequence + E - Len(got) + (i - 1) = j - 1 /\ j \in Int /\ j <= sequence + 1
      BY <3>1, <3>2, <3>3
    <3> HIDE DEF j
    <3>6. Entry(j - 1, sequence).seq = j - 1
      BY <3>1, <3>5 DEF Entry
    <3>7. Entry(j, sequence).seq = j
      <4>1. CASE j <= sequence
        BY <4>1 DEF Entry
      <4>2. CASE ~(j <= sequence)
        BY <2>4, <3>1, <3>5, <4>2 DEF Entry
      <4> QED BY <4>1, <4>2
    <3> QED BY <3>4, <3>5, <3>6, <3>7
  <2> QED BY <2>1, <2>2, <2>3, <2>4
<1> QED BY <1>1, <1>2, <1>3, TypeCorrect, PTL DEF Spec, TypeOK
=============================================================================
