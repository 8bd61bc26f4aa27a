----------------------------- MODULE SessionReports -----------------------------
(***************************************************************************)
(* What clients are told of one session: by the stream of its operation    *)
(* and by its monitor (session-monitor.ts), which compares snapshots of    *)
(* the services and of their healthchecks and publishes what has changed.  *)
(* An `up` that discovers its services registers the monitor, a `down`     *)
(* stops it, a restarted daemon restores it from the state file.           *)
(*                                                                         *)
(* One service stands for all.  A snapshot reads whether it is listed,     *)
(* later probes it; ticks are started by a timer that waits for no answer. *)
(***************************************************************************)
EXTENDS OperationStream

CONSTANTS MaxTicks, MaxChanges, MaxOperations, MaxFaults   \* bounds

ASSUME ReportConstants == {MaxTicks, MaxChanges, MaxOperations, MaxFaults} \subseteq Nat

VARIABLES
  kind,         \* of the operation in progress, and what it has come to
  initialized,  \* the state file says that there was a deployment
  wanted,       \* history: its services were discovered, no `down` has completed
  registering,  \* registrations whose port assignments are being read
  monitor,      \* "none", "fresh" or the snapshot it compares with
  ticks,        \* per slot: a snapshot being collected
  service,      \* the truth: "absent", "failed" (listed, does not answer) or "healthy"
  owed,         \* history: failures of the service less alerts about them
  stray,        \* history: something was published after a `down`
  lapses,       \* history: what else could go wrong
  count         \* bounds

monitoring == <<registering, monitor, ticks>>
told == <<owed, stray>>
vars == <<streamVars, kind, initialized, wanted, monitoring, service, told, lapses, count>>

Slots == 1..MaxTicks
Snapshots == {"absent", "failed", "healthy"}
Idle == [sees |-> "nothing", orphan |-> FALSE]
Spend(what) == count[what] > 0 /\ count' = [count EXCEPT ![what] = @ - 1]

(***************************************************************************)
(* The service.  It fails by ceasing to answer, or by appearing without an *)
(* answer; it comes and goes with operations and without them.  One that   *)
(* goes while a tick that has listed it probes it does not answer either.  *)
(***************************************************************************)
ServiceChanges ==
  /\ Spend("changes")
  /\ service' \in Snapshots \ {service}
  /\ owed' = owed + IF service' = "failed" \/ service = "healthy" THEN 1 ELSE 0
  /\ UNCHANGED <<streamVars, kind, initialized, wanted, monitoring, stray, lapses>>

(***************************************************************************)
(* The monitor.                                                            *)
(***************************************************************************)
CollectFails(t) ==
  /\ ticks[t] # Idle /\ Spend("faults")
  /\ ticks' = [ticks EXCEPT ![t] = Idle]
  /\ UNCHANGED <<streamVars, kind, initialized, wanted, registering, monitor, service, told, lapses>>

\* The timer fires and the services are listed: from the Docker cache, by
\* `docker compose ps` or from the state file.  Nothing is kept in between, so
\* a tick begins with the answer.  Only a listed service is probed.
TimerFires(t) ==
  /\ monitor # "none" /\ ticks[t] = Idle
  /\ \A u \in 1..t - 1 : ticks[u] # Idle
  /\ ticks' = [ticks EXCEPT ![t] = [sees   |-> IF service = "absent" THEN "absent" ELSE "listed",
                                    orphan |-> FALSE]]
  /\ lapses' = IF \E u \in Slots : ticks[u] # Idle /\ ~ticks[u].orphan
               THEN lapses \cup {"overlap"} ELSE lapses
  /\ UNCHANGED <<streamVars, kind, initialized, wanted, registering, monitor, service, told, count>>

Probe(t) ==
  /\ ticks[t].sees = "listed"
  /\ ticks' = [ticks EXCEPT ![t].sees = IF service = "healthy" THEN "healthy" ELSE "failed"]
  /\ UNCHANGED <<streamVars, kind, initialized, wanted, registering, monitor, service, told, lapses, count>>

\* What the comparison publishes; clients raise an alert for a healthcheck
\* that was not known as failed before.
Publish(before, now) ==
  /\ owed' = IF now = "failed" /\ before # "failed" THEN owed - 1 ELSE owed
  /\ stray' = (stray \/ (now # before /\ ~wanted))

\* Mutant: a snapshot belongs to whatever monitor the session has now.
CompareForSession(t) ==
  /\ ticks[t].sees \in Snapshots
  /\ ticks' = [ticks EXCEPT ![t] = Idle]
  /\ IF monitor = "none" THEN UNCHANGED <<monitor, told>>
     ELSE /\ monitor' = ticks[t].sees
          /\ IF monitor = "fresh" THEN UNCHANGED told ELSE Publish(monitor, ticks[t].sees)
  /\ UNCHANGED <<streamVars, kind, initialized, wanted, registering, service, lapses, count>>

\* The first snapshot is compared with nothing, that of a stopped monitor is
\* dropped.
Compare(t) ==
  /\ ticks[t].sees \in Snapshots
  /\ ticks' = [ticks EXCEPT ![t] = Idle]
  /\ IF ticks[t].orphan THEN UNCHANGED <<monitor, told>>
     ELSE /\ monitor' = ticks[t].sees
          /\ IF monitor = "fresh" THEN UNCHANGED told ELSE Publish(monitor, ticks[t].sees)
  /\ UNCHANGED <<streamVars, kind, initialized, wanted, registering, service, lapses, count>>

Tick(t) == Probe(t) \/ Compare(t)

Orphaned == [t \in Slots |-> IF ticks[t] = Idle THEN Idle ELSE [ticks[t] EXCEPT !.orphan = TRUE]]

\* A session that has a monitor keeps it: only its collector is replaced.
Register ==
  /\ registering > 0
  /\ registering' = registering - 1
  /\ monitor' = IF monitor = "none" THEN "fresh" ELSE monitor
  /\ lapses' = IF wanted THEN lapses ELSE lapses \cup {"late"}
  /\ UNCHANGED <<streamVars, kind, initialized, wanted, ticks, service, told, count>>

(***************************************************************************)
(* Operations of the session, one at a time.                               *)
(***************************************************************************)
Begin(k) ==
  /\ Spend("operations")
  /\ OpenRecord
  /\ kind' = k
  /\ UNCHANGED <<initialized, wanted, monitoring, service, told, lapses>>

\* A forced `up` starts over: until its setup is done the state file says
\* that there is no deployment.
UpForces ==
  /\ kind = "up" /\ initialized
  /\ initialized' = FALSE /\ kind' = "forced"
  /\ UNCHANGED <<streamVars, wanted, monitoring, service, told, lapses, count>>

\* The state is written before the services are reported.
UpRecords ==
  /\ kind \in {"up", "forced"} /\ ~initialized
  /\ initialized' = TRUE
  /\ UNCHANGED <<streamVars, kind, wanted, monitoring, service, told, lapses, count>>

Emits ==
  /\ Emit
  /\ UNCHANGED <<kind, initialized, wanted, monitoring, service, told, lapses, count>>

\* "services-discovered" is an event of the stream; the observer registers
\* the monitor in a continuation of its own.
UpDiscovers ==
  /\ kind \in {"up", "forced"} /\ initialized
  /\ Emit
  /\ registering' = registering + 1
  /\ kind' = "discovered" /\ wanted' = TRUE
  /\ UNCHANGED <<initialized, monitor, ticks, service, told, lapses, count>>

\* Ticks under way are left to find their monitor stopped.
DownStopsMonitor ==
  /\ kind = "down"
  /\ kind' = "cleared" /\ wanted' = FALSE
  /\ monitor' = "none" /\ ticks' = Orphaned
  /\ UNCHANGED <<streamVars, initialized, registering, service, told, lapses, count>>

\* The teardown was that of a removal, which deletes the state as well.
RemoveForgetsState ==
  /\ kind = "cleared" /\ initialized
  /\ initialized' = FALSE
  /\ UNCHANGED <<streamVars, kind, wanted, monitoring, service, told, lapses, count>>

Ends ==
  /\ Finish
  /\ kind' = "none"
  /\ UNCHANGED <<initialized, wanted, monitoring, service, told, lapses, count>>

Connects(s) ==
  /\ HandleOperationEvents(s) \/ Disconnect(s)
  /\ UNCHANGED <<kind, initialized, wanted, monitoring, service, told, lapses, count>>

(***************************************************************************)
(* A daemon restart.  Monitors are restored before requests are accepted,  *)
(* for every session whose state is initialized and whose configuration    *)
(* can be loaded.                                                          *)
(***************************************************************************)
\* Mutant: a monitor starts with the next `up`.
RestoreNothing == monitor' = "none" /\ UNCHANGED lapses

RestoreMonitors ==
  \/ /\ ~initialized
     /\ monitor' = "none"
     /\ lapses' = IF wanted THEN lapses \cup {"unresolved"} ELSE lapses
  \/ /\ initialized
     /\ monitor' = "fresh"
     /\ lapses' = IF wanted THEN lapses ELSE lapses \cup {"restored"}
  \/ /\ initialized
     /\ monitor' = "none" /\ lapses' = lapses \cup {"unresolved"}

Restart ==
  /\ Spend("faults")
  /\ ForgetOperations
  /\ registering' = 0 /\ ticks' = [t \in Slots |-> Idle]
  /\ RestoreMonitors
  /\ kind' = "none"
  /\ UNCHANGED <<initialized, wanted, service, told>>

\* A daemon has started, with a deployment to restore or without one.
Init ==
  /\ InitStream
  /\ kind = "none" /\ initialized \in BOOLEAN /\ wanted = initialized
  /\ monitor = IF initialized THEN "fresh" ELSE "none"
  /\ registering = 0 /\ ticks = [t \in Slots |-> Idle]
  /\ service = (IF initialized THEN "healthy" ELSE "absent") /\ owed = 0 /\ stray = FALSE /\ lapses = {}
  /\ count = [changes |-> MaxChanges, operations |-> MaxOperations, faults |-> MaxFaults]

Next ==
  \/ ServiceChanges
  \/ \E t \in Slots : TimerFires(t) \/ CollectFails(t) \/ Tick(t)
  \/ Register
  \/ \E k \in {"up", "down"} : Begin(k)
  \/ UpForces \/ UpRecords \/ UpDiscovers
  \/ DownStopsMonitor \/ RemoveForgetsState
  \/ Emits \/ Ends
  \/ \E s \in Streams : Connects(s)
  \/ Restart

\* Timers fire, files are read, snapshots are answered (a probe within 2 s).
\* Operations and clients promise nothing.
Fairness ==
  /\ WF_vars(Register)
  /\ WF_vars(\E t \in Slots : TimerFires(t))
  /\ \A t \in Slots : WF_vars(Tick(t))

Spec == Init /\ [][Next]_vars /\ Fairness

(***************************************************************************)
(* Properties                                                              *)
(***************************************************************************)
\* Types; the history stays within its capacity.
TypeOK ==
  /\ StreamTypeOK
  /\ kind \in {"none", "up", "forced", "discovered", "down", "cleared"} /\ initialized \in BOOLEAN /\ wanted \in BOOLEAN
  /\ registering \in Nat
  /\ monitor \in Snapshots \cup {"none", "fresh"}
  /\ ticks \in [Slots -> [sees : Snapshots \cup {"nothing", "listed"}, orphan : BOOLEAN]]
  /\ service \in Snapshots /\ owed \in Int /\ stray \in BOOLEAN
  /\ lapses \subseteq {"overlap", "late", "restored", "unresolved"}

\* A user is alerted at most once for each time the service failed, over
\* operations, new monitors and daemon restarts -- unless two ticks of one
\* monitor overlapped: then an older snapshot can pass for a recovery.
AlertsAreFailures == owed >= 0 \/ "overlap" \in lapses

\* After a `down` nothing is published of its deployment until an `up`
\* registers a monitor -- unless the registration of the `up` before it came
\* last, or the daemon was restarted, which restores a monitor for every
\* initialized state, stopped or not.
QuietAfterDown == stray => lapses \cap {"late", "restored"} # {}

EventsAreReal == AlertsAreFailures /\ QuietAfterDown

(***************************************************************************)
(* The inductive invariant behind EventsAreReal.                           *)
(***************************************************************************)
Live(t) == ticks[t] # Idle /\ ~ticks[t].orphan

\* A session without a monitor has no tick whose snapshot counts.
TicksHaveMonitor == monitor = "none" => \A t \in Slots : ~Live(t)

\* A deployment taken down has no monitor.
NoMonitorAfterDown == wanted \/ lapses \cap {"late", "restored"} # {} \/ monitor = "none"

\* A failure is owed an alert from when the service fails until a comparison
\* meets it: whatever the monitor and a tick under way have seen, an alert
\* they can lead to is owed.
FailuresAreOwed ==
  "overlap" \in lapses \/
  /\ owed >= 0
  /\ \A t, u \in Slots : Live(t) /\ Live(u) => t = u
  /\ monitor = "healthy" /\ service # "healthy" => owed >= 1
  /\ monitor = "absent" /\ service = "failed" => owed >= 1
  /\ \A t \in Slots : Live(t) =>
       /\ ticks[t].sees = "listed" /\ monitor = "absent" /\ service # "healthy" => owed >= 1
       /\ ticks[t].sees = "absent" /\ service = "failed" => owed >= 1
       /\ ticks[t].sees = "failed" /\ monitor \in {"healthy", "absent"} => owed >= 1
       /\ ticks[t].sees = "healthy" /\ service # "healthy" => owed >= 1

MonitorInv == TicksHaveMonitor /\ NoMonitorAfterDown /\ FailuresAreOwed /\ QuietAfterDown

\* "A daemon restart SHALL NOT require a new `up`": whatever the service
\* settles on is what the monitor of a deployment compares with, for good --
\* unless the restarted daemon could not resolve the session, or it was
\* restarted while a forced `up` was starting over.
MonitorSettles == <>[](wanted /\ "unresolved" \notin lapses => monitor = service)
=============================================================================
