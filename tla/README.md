# WorktreeOS: models and proofs

TLA+ models of the WorktreeOS daemon (`packages/daemon`, `packages/runtime`, `packages/core`) and
of the parts of the web client that talk to it over streams, the TLC runs that check them on small
instances, and machine-checked proofs for every instance where they are worth it. Paths below are
relative to the repository root; `openspec/specs/...` are the repository's own requirements.

## 1. The system

WorktreeOS runs the services of git worktrees. A daemon (one JavaScript process) owns everything;
the command line, the web client and the desktop shell call its HTTP API. A worktree has one
*session*: a state file, generated compose files or shell processes, host ports, tunnel routes, log
streams, a monitor. There are no threads: whatever runs between two awaits is atomic, and
**everything hard in this code is what happens at an await** -- another handler, a timer, an
answer or a closed connection gets in between. Added to that are daemon restarts, failing Docker
and git commands, browser connections that break, and buffers at their capacity.

### 1.1 Inventory

| component | state it keeps | operations | talks to | what is hard |
|---|---|---|---|---|
| session operations (`ui-api.ts` handlers, `runtime/up-program.ts`, `shell.ts`, `operations.ts`) | state file, failure marker, running services, `activeUpControls` | up, down, service stop/restart, worktree create/remove | registry, tunnels, monitor, log streams, docker, git | two requests on one session; a stop against an `up` at any step; failure at any step |
| operation registry (`operation-registry.ts`) | operation records, `activeMutating` index, event history | begin, finish, subscribe | all handlers | check and insert, status and index in step |
| operation event streams (same file, `ui-api.ts`) | sequence numbers, bounded history, subscribers | append, subscribe, finish | CLI, web | late subscriber, overflow |
| log streams (`daemon-sessions.ts`, log followers, `log-buffer.ts`) | sessions, subscribers, service streams, buffers | subscribe, unsubscribe, append, reset, drop | docker, log files, HTTP clients | clients join and leave while a follower is being started |
| terminal sessions (`terminal-layer/actor.ts`, `byte-journal.ts`, `ws-handler.ts`, web `terminal-connection.ts`) | command queue, attachments, controller, journal; the client's last sequence | attach, detach, request/release control, input, resize, rename, terminate | PTY or tmux, WebSockets | a queue that waits for the backend, output outside the queue, reconnects |
| terminal manager and backends (`manager.ts`, `tmux-backend.ts`) | actors, tmux records on disk | create, restore, persist title/unread/binding | actor, tmux, ingest | read-modify-write of one record from three places |
| docker state cache (`docker-state-store.ts`, `docker-client.ts`) | containers by id, last sync time, event stream, timers | full sync, apply event, sample stats, reconcile | Docker engine, all readers of service status | answers of overlapping requests in any order |
| event bus and event streams (`event-bus.ts`, `handleEventStream`, web `events-context.tsx`) | next id, bounded history, subscribers; the tab's last id | publish, subscribe with replay | everything that publishes; every tab | eviction, restart, publishing from inside a listener |
| statuses and board (`status-catalog.ts`, `worktree-board.ts`, web `status-catalog-context.tsx`) | two JSON files; the catalog a tab shows | create/update/delete status, assign/clear worktree | event bus, tabs | unserialised read-await-write, two files that refer to each other |
| notifications (`notifications/*`) | duplicate window, presence, channels' settings | on activity: decide, render, deliver | event bus, web push, Telegram | nested publish, persisted settings |
| agent activity (`plugin-claude`, `agent-activity-ingest.ts`, `core/agent-activity.ts`) | seen event ids, activity per terminal | hook, ingest, reduce, sweep for staleness | terminal manager, event bus | events overtaking each other, turns that end without an event |
| session monitor (`session-monitor.ts`, `-runtime.ts`) | one monitor per session, last snapshot | start, stop, tick | docker cache, healthchecks, bus | overlapping ticks, replaced collector, a registration that comes late |
| tunnels (`runtime/tunnel-registry.ts`, `tunnel.ts`) | routes by session and hostname, the server | open, reset, restore, replay | up/down, certificates | server exchanged under its routes, ports that change hands |
| certificates (`acme/*`) | stored bundle, account, lock file | issue at startup, tick, swap, rotate | tunnel listener, other daemons of one home | two daemons, a swap of directories, a startup that gives up |
| daemon life cycle (`daemon-bootstrap.ts`, `daemon-server.ts`, CLI `start.ts`, desktop host) | metadata file, two listeners | start, ensure, stop, restart, foreground, desktop host | health endpoint, signals | processes that look for each other through one file |
| restoration (`monitor-restoration.ts`, `tunnel-restoration.ts`) | none | rebuild monitors and routes from state files | state files, docker cache | what the files cannot say |
| ports and compose (`packages/compose`) | none (previous assignments are input) | allocate, generate, select services | up | ports probed long before use |
| worktree state on disk (`core/state.ts`, `session-context.ts`) | state.json, failure marker | read, write, remove | session operations | not written atomically |
| project registry, notes, comments (`core/project-registry.ts`) | projects.json | register, rename, order, note, comment | handlers | lost updates |
| configuration, git and diffs, LLM, public auth, setup wizard, plugins, logging | none that operations race on | -- | -- | parsing and wiring |
| web client, CLI, desktop, docs, site | view state | -- | HTTP API | only the stream clients above |

What makes each of them correct is stated with its module below. `PROJECT.json` lists every component with what is modelled of it and why the rest is not,
and every hazard at the line where it bites.

### 1.2 How the parts interact

* A mutating request resolves its session (reads the state file), asks the registry for the session,
  answers 202, and leaves a runner behind. The runner calls runtime programs that call docker, git
  and shell; it resets log streams, opens and closes routes, starts and stops the monitor, and tells
  the bus. `down` and `remove` can abort a running `up` through a shared map of controls.
* The docker cache is fed by the engine and read by status handlers, the monitor and restoration.
* The bus is called synchronously by everything that changes; each tab has one stream of it and
  refetches what an event names. The notification engine is one of its listeners and publishes too.
* Terminals and log streams are independent of operations, except that an `up` resets the log
  streams and a `down` drops them.
* An agent in a terminal reports through hooks, one HTTP request each. What it reports changes a
  block in memory, the terminal's title and its unread mark; the last two are also on disk.
* The tunnel server is started with the daemon, exchanged when a certificate is renewed, and filled
  by `up`s and by the restoration after a restart.
* Several daemon processes may exist at a time: while one is replaced, or by mistake. They share the
  metadata file, the ports and the directory of certificates.

## 2. Plan

Order of work, most important behaviour first.

1. `SessionLock`, `SessionOperations` -- the operations on a session and the lock they implement;
   with proofs (`SessionOperationsProofs`).
2. `LogStreams` -- on-demand log followers; with proofs (`LogStreamsProofs`).
3. `TerminalSession` -- actor, journal, sockets, reconnecting clients; with proofs
   (`TerminalProofs`).
4. `DockerState` -- the cache against an engine; with proofs (`DaemonProofs`).
5. `EventBus`, and `WorkflowBoard` which composes it with the two files and the tab's catalog; with
   proofs (`WorkflowBoardProofs`).
6. `Tunnels` -- registry, server, ports, rotation of the listener, restoration after a restart; with
   proofs (`TunnelsProofs`).
7. `DaemonLifecycle` -- the commands, the listeners, the metadata file; with proofs
   (`DaemonProofs`).
8. `TerminalRecord`, and `AgentActivity` which composes it with hooks, ingest and reducer; with
   proofs (`TerminalProofs`).
9. `Certificates` -- order, lock, swap and activation, with several daemons; with proofs
   (`CertificatesProofs`).
10. `OperationStream`, and `SessionReports` which composes it with the session monitor and its
    restoration; with proofs (`SessionReportsProofs`).

These are done. What would come next, were the work to go on: `SessionOperations` with a daemon
restart between any two steps; the monitor over `DockerState` instead of over the truth; the terminal
actor restored with a fresh journal under clients that remember the old one; the rules of the
notification engine. Section 8 says which hazards wait for them.

Abstract specifications: the session lock (done, with proof); a log stream as a contiguous piece of
an append-only output per client, a replayed event stream as an exactly-once or announced-loss
channel, a map of containers that eventually equals the engine's, a record that survives restarts
(stated as properties of their modules rather than as modules of their own).

All modules are free of RECURSIVE operators, so that theorems can be stated about each. Section 6
says what is proved. A module of proofs has one component, or two that meet in the same part of the
daemon (`TerminalProofs`: the terminal and its agent; `DaemonProofs`: its processes and its view of
Docker), which is why the names of `AgentActivity` and `DaemonLifecycle` carry prefixes
(`ActivitySpec`, `LifecycleSpec`, ...).

## 3. How to read the models

*One action per stretch of code between awaits.* An action's guard is the place where the code is
suspended plus the conditions it meets on the way to the next await; its primed variables are what
the stretch assigns, in all the functions it calls. Two awaits with nothing in between that another
actor could observe or change are one action.

*The environment is nondeterministic, never friendly*: which request comes next, whether docker or
git fails, when a container dies, when a connection breaks, in which order answers arrive.

*History variables* record why something was allowed to go wrong. They are written by actions and
read by no guard. A property of the form "x goes wrong only if h" is the strong form of a promise
the code keeps only up to a known race: it fails as soon as there is a second way to get there.
Where a document states the promise without the "only if", a run of its own refutes the document's
form (section 5).

| module | history variable | set when |
|---|---|---|
| SessionOperations | `staleCtx` | an operation begins with a state read before somebody changed it |
| | `swallowed` | a removal goes on after its docker down failed |
| LogStreams | `last`, `torn` | what a client was given; channels in which it got a repeat or a gap |
| | `bystander` | a stream is started past another client whose subscription is not attached |
| | `draining` | a service is followed again while a stopped follower still has a read under way |
| TerminalSession | `early` | a socket closes before its hello was answered |
| | `behind` | a client reconnects with an acknowledgement behind what its screen shows |
| | `skipped`, `repeated` | a chunk is missing from, or twice on, a screen |
| DockerState | `covered` | the last event up to which everything is in a sync or was handled |
| | `overlapped` | two reads of the engine were under way at once since the last lone full sync |
| EventBus | `due`, `foreign` | events the tab has not seen; the tab's id is of an earlier daemon |
| Tunnels | `stopped` | a container stopped without a `down` |
| DaemonLifecycle | `lapses` | what 4.7 names |
| AgentActivity, TerminalRecord | `lapses` | an event was lost, overtaken or forgotten, a title outdated; two saves overlapped, one failed, one was cut off by a restart |
| | `finished` | a result was reported to an empty room and nobody has attached since |
| Certificates | `lapses` | what 4.9 names |
| SessionReports | `wanted` | services of the session were discovered and no `down` has completed since |
| | `owed`, `stray` | failures of the service less alerts about them; something was published after a `down` |
| | `lapses` | what 4.10 names |
| WorkflowBoard | `excused`, `torn` | the tab missed a change, or a worktree was left behind, for one of the reasons the property names |

*Mutants.* Operators commented "Mutant" or "A bug to be caught" are not part of a model. Each stands
before the definition it imitates and is a plausible bug in it; substituting it makes TLC refute the
property it is listed with in `PROJECT.json`.

## 4. The modules

### 4.1 SessionLock and SessionOperations

`SessionLock` is what the daemon promises: per session at most one operation at a time, each
operation at most once, a refusal only by naming an operation that holds the session at that moment.

`SessionOperations` is the code that has to keep that promise. A request is a thread of control with
a program counter `pc`; its labels are the awaits of the handlers and runners.

| code | model |
|---|---|
| validation, `resolveSession` | `Resolve` (one disjunct per handler), which copies the state file into `ctx` |
| `abortActiveUp`, drain against `ABORT_DRAIN_TIMEOUT_MS` | `AbortActiveUp`, `Drained`, `DrainTimeout` |
| `OperationRegistry.begin`, `finish` | `Conflict`, `BeginOk`, `BeginBusy`, `Finish` |
| runner of `up`, `runUpProgram`, `shell.ts` | `UpConfigured` ... `UpFails`; `UpCatch` is the two catch blocks |
| the unawaited `services-discovered` continuation | `discovering`, `StartMonitor` |
| runner of `down`, `runDownOperation` | `DownStop`, `DownFails`, `DownCleanup`, `DownEnds` |
| worktree removal, creation | `RemoveStop`, `RemoveCleanup`, `RemoveWorktree`, `CreateWorktree` |
| service stop and restart | `ServiceEnds`, `ServiceFails` |

A request is also the identity of the operation it creates, of its abort control, of the processes
it starts and of the collector its monitor polls, so "whose processes run" needs no second name. The
deployment mode (generated compose, own compose file, shell) is chosen per session in `Init`. All
services of a session start and stop together; ports, compose files and log text are abstracted.

What has to hold: `LockRefined` (the lock, of which `SessionExclusive` is the state form),
`ControlIsHolder` (a stop aborts the holder, never an operation that came later), `SurfacesMatch`
(routes of a quiet session lead to services that were started, `RoutesReachServices`; a successful
`down` leaves no route and no failure marker whatever it interrupted, `DownClearsSurfaces`),
`LeaksNeedALapse` (what it leaves running has one of two causes), `StopDuringSetup`, and under
fairness `RequestsEnd` (`StopAnswered` and `OperationsEnd`).

### 4.2 LogStreams

The log streams of one session. `Subscribe` joins a stream or suspends in the context resolver
(`resolving`); `ResolvesToNothing`, `ResolvesService` and `ResolvesAggregate` are the three
continuations. A follower reads the output of its service from `TailLines` back (`FollowerReads`),
ends by itself when a container stops (`FollowerEnds`), and is stopped asynchronously: a shell
follower that is told to stop may deliver one more read (`FollowerStops`). `Unsubscribe` is
`removeSubscriber`, `Reset` and `Drop` what `up` and `down` do. A chunk is its index in the output,
so a gap or a repeat is arithmetic.

What has to hold: `FollowersFitStreams` (a stream that was joined has a live follower, one follower
per service, and nobody follows for nobody) and `NoGapNoRepeat` (tail and live chunks are one
contiguous piece). Left out: shutdown of the
registry, the connection phase of a docker follower, the splitting of chunks into lines.

### 4.3 TerminalSession

The actor's command queue, attachments and controller, the journal of the last chunks, the
WebSocket handlers and the browser's side of the connection. `RunCommand` runs the command at the
head of the queue to its end; `rename` and `terminate` await the backend (`CommandAwaits`,
`BackendAnswers`) and hold up the queue meanwhile. Output (`PtyData`) does not go through the queue.
`Quiet` says that no command can run: a microtask is run before the next macrotask, so events are
handled only then. Sockets go from `open` over `shut` or `cut` (closed by the server, with or without
the frames in flight) to `closed`; `ClientReads` is `handleFrame` of the client.

What has to hold: `ControlComesBack` (`OneController`: the flag input is checked against and the
controller everybody is told of agree; `GhostsClosedEarly`: an attachment goes when its socket does,
unless that closed before its hello was answered), and `OutputIsExact` (nothing is skipped, nothing is repeated but
for the reconnect named in 5.2, the exit comes after all output). Left out: a daemon restart, bytes of input and resize, titles, decoding, shutdown.

### 4.4 DockerState

The cache against an engine (`EngineChanges`) whose changes are numbered events. A full sync is asked
for, made by the engine at one moment (`EngineLists`) and applied later (`ListApplied`); an event
stream replays from the last sync and its consumer inspects the container of each event, which is
again two moments; `SampleStats`/`StatsAnswered` likewise. Details that matter and are kept:
`lastSyncTime` is taken when a sync *ends* and in whole seconds, so a stream may begin before or
after it; the consumer of an aborted stream still handles what was delivered; a broken stream is
reopened only by the reconciliation timer. The engine's clock is the event count. `runServiceAction`
has no caller and is not modelled.

What has to hold: `CacheFollowsEngine` (exact whenever a sync and the events after it were handled;
a container that is gone is shown only after overlapping reads; usage is shown only of what runs) and
`SelfHealing`.

### 4.5 EventBus and WorkflowBoard

`EventBus` is the bus with its bounded history, one event stream and the tab at its other end. An
agent's activity may raise a notification from inside `publish`: the notification engine subscribed
first, so the streams are sent the notification (larger id) before the activity (`InnerFirst`).
`BusRestarts` keeps nothing but the tab's `last`.

`WorkflowBoard` extends it with the two JSON files and the handlers that read, await and rewrite
them (`Arrive`, `NoteAffected`, `LoadCatalog`, `SaveCatalog`, `LoadBoard`, `SaveBoard`, `Answer`,
`SaveFails`), with the catalog provider of the tab (`TabReceives` starts a fetch, `ServeFetch`,
`ApplyFetch`, `FetchFails`) and with daemon restarts. A file is read and written in one step.

What has to hold: `StreamIsExact` (where the replay ends the live events begin, and what a tab may
miss or be given twice),
`StaleNeedsLapse` (a settled tab shows the daemon's catalog) and `DanglingNeedsRace` (the board
refers to a deleted status only through a race of handlers or a delete cut in two).

### 4.6 Tunnels

Public hostnames lead to services through four pieces of state that change at different times: the
registry's records (`active`), the table of the server (`routes`), the host port in a session's
compose file (`file`) and what is bound to that port (`running`). Every call of the registry is one
step, because nothing in it waits; an `up` and a `down` wait for docker between theirs.

| code | model |
|---|---|
| start of an `up`, `TunnelRegistry.reset`, preparer | `BeginUp`, `Reset`, `Prepare`, `Opened`, `AllocateHostname` |
| `allocatePorts` (reuse, then search, with probes) | `Reusable`, `Allocations` |
| attempts of `docker compose up`, excluded ports | `ComposeUp`, `ComposeConflict`, `UpFails` |
| `down` | `DownContainers`, `DropRoutes`, `DownFails` |
| rotation of the listener, failed bind, replay | `RotateTunnelListener`, `RotationFailsToBind`, `Replayed` |
| restart and `restoreTunnelsFromSessions` | `Restart`, `Restorable`, `Winners`, `Restored` |
| whitelist in the settings | `SetServiceRoutePolicy` |

The environment stops and starts containers. The compose commands that a
restart interrupts may still start all or some of their containers, those of several sessions too, one for
each host port (`Completions`). What has to hold: `RoutesAreExact` (a running server routes exactly the
active records, with the whitelist each was given, and no hostname is handed out twice) and
`TrafficStaysHome` (a hostname leads to a container of another service only while its owner is amid an
operation or after its container stopped by itself).

### 4.7 DaemonLifecycle

Nothing but a file and a port stands between two daemons. A command (`Launch`) discovers in two steps:
it reads the file (`ReadMetadata`) and asks the URL it names (`Answer`, `NoAnswer`); whoever listens
there answers. `Spawn` starts a daemon, which binds the tunnel port once (`BindTunnel`), the web port
with retries and then the next free one (`BindWeb`, `BindFallback`), and truncates and writes the file
(`OpenMetadata`, `WriteMetadata`). A stop closes the web listener first and removes the file last
(`CloseWeb`, `CloseTunnel`, `OwnMetadata`, `RemoveMetadata`); what removes it looks at the pid in it
and removes it in two steps.

`SplitNeedsLapse` says that there is one daemon and everybody finds it, unless one of five lapses
happened: two commands ran together or before a daemon had started (`together`), a live daemon was
slow to answer (`slow`), a stop outlasted the five seconds a command waits (`impatient`), a foreground
start did not look (`unchecked`), a stopping daemon removed the file its successor had written after
it had looked (`late`).
`TunnelsSurviveRestart` is refuted, see 5.2.

### 4.8 TerminalRecord and AgentActivity

`TerminalRecord` is what a terminal remembers across restarts: title and unread mark, in memory and
in the record of the tmux backend, which every save reads, changes and writes back (`SaveTitle`,
`ReadRecord`, `WriteRecord`, `SaveFails`); titles are saved one at a time by the actor's queue, marks
at once. `AgentActivity` extends it with the truth (`agent`), the hooks that report some of what
happens (`AgentStep`; `Unreported` for what no hook reports), the requests they travel in (`net`, any
order, or `Loses`), the ingest that waits for a title before it reduces (`ArriveTitling`,
`AppliedAfterTitle`, `ArriveUntitled`), the reducer (`Reduce`), clients, the sweep for stale work
(`SweepStaleActivity`), transcript growth (`RefreshAgentActivity`) and restarts, over which the agent
goes on working.

What has to hold: `StateFollowsAgent` (a working agent is never shown finished or waiting, nor a
waiting one working, once all events are applied), `RecordFollowsMemory`, `ResultsStayMarked` (a result
nobody saw stays marked, restarts included), `UserTitlesStay` (an agent's title never replaces a
user's), and under fairness
`InterruptedTurnsClear`. Each but the last has its lapses, which the properties name.

### 4.9 Certificates

The certificate of the tunnel listener in a directory that the daemons of one home share. An issuer is
a daemon that starts or the tick of its scheduler. A startup reads the files of the bundle one by one
(`Reads`), serves them (`UseStored`) or orders without the lock (`OrderAtStartup`) and after 120
seconds goes on without TLS while its order goes on too (`StartupTimesOut`). A tick (`Ticks`) takes
the lock file or reclaims a stale one (`Takes`, `FindsStale`, `Reclaims`), orders, and rotates the
listener (`Rotates`). Both put a new bundle in place by moving the old one aside (`MovesAside`,
`Places`); when the swap fails (`SwapFails`) the old one is moved back (`PutsBack`), and when that
fails too nobody is told (`RollbackFails`). A bundle is a number, of which the certificate and its key are told apart where
they are read.

What has to hold: `BundleStays` (between the two renames is the only time without a bundle, but
for a crash there or a rollback that fails),
`OneOrder` (one tick at a time orders), `StrandedNeedsLapse` (a listener without a good certificate
beside a fresh one on disk has one of the named causes) and, under fairness, `CertificatesCome`. Its
lapses are: `unbound` (the port was taken, a bind failed, or certificate and key were of two bundles),
`stored` (a bundle was stored after the startup gave up, beside another daemon, or with an account that
could not be saved; or it was put back beside another daemon, or met with another's), `unrestored` (the
rename back failed like the swap before it), `crash` (between the two renames), `reclaimed` (two ticks removed
the lock of a dead daemon), `overran` (a tick outlasted the age at which its lock counts as stale).

### 4.10 OperationStream and SessionReports

`OperationStream` is the record of one operation and the responses that follow it. `Emit` numbers an
envelope, appends it to the bounded history and pushes it to the listeners; `Finish` pushes the
terminal envelope, whose number is taken from the history, twice, the second time to whoever is still
listening; `HandleOperationEvents` gives a client the history and goes on with what is pushed. Nothing
waits in any of them. A client that leaves (`Disconnect`) leaves its listener behind.

`SessionReports` extends it with the monitor. The operations of a session are in it as far as they
touch monitor and state file:

| code | model |
|---|---|
| `begin`, the state file (forced or not), `services-discovered` | `Begin`, `UpForces`, `UpRecords`, `UpDiscovers` |
| the unawaited continuation, `SessionMonitorRegistry.start` | `registering`, `Register` |
| `stop` in a `down` or a removal | `DownStopsMonitor`, `RemoveForgetsState` |
| `tick`: listing, healthcheck, comparison, failure | `TimerFires`, `Probe`, `Compare`, `CollectFails` |
| `restoreMonitorsFromSessions`, at a restart only | `Restart`, `RestoreMonitors` |

One service stands for all: it is absent, listed and failing, or healthy, and changes at will, with
and without operations. A tick begins with the answer of the listing, because nothing is kept before;
the probe comes at a later moment and only for a listed service, as in the code. Clients raise an
alert for a healthcheck that becomes known as failed (`deploy-notifications.ts:101`), so a service
that appears without answering also owes one. The collector that `start` replaces differs from the
old one in configuration only and is not told apart.

What has to hold: `StreamsAreComplete` (a response is a suffix of all the operation reported, as long
as the history allows, closed with the terminal envelope; its numbers run on while the history has not
overflowed), `EventsAreReal` (`AlertsAreFailures`: a user is not alerted twice for one failure, over
operations and restarts; `QuietAfterDown`: nothing is published of a stopped deployment) and, under
fairness, `MonitorSettles`. The lapses are: `overlap` (two ticks of one monitor were under way),
`late` (a registration came after the `down`), `restored` (a restart found the state file of a stopped
deployment), `unresolved` (a restart could not resolve the session, or met a forced `up` halfway).

## 5. The runs

| run | instance | distinct states | shows |
|---|---|---|---|
| `session_operations` | 1 session, 2 requests of any kind, all modes, fairness | 13,894 | the properties of 4.1 and the refinement of `SessionLock` |
| `log_streams` | 3 clients, 1 service, 1 own channel | 1,639,795 | the invariants of 4.2, both backends |
| `terminal_session` | 2 clients, 3 sockets, 2 chunks, 2 waiting commands | 2,606,969 | the invariants of 4.3 |
| `docker_state` | 1 container, 2 stream slots, 2 events, 1 failure | 874,419 | the invariants of 4.4 and `SelfHealing` |
| `workflow_board` | 1 status id, 2 names, 1 worktree, 2 handlers at once, history of 2 | 3,095,392 | the properties of 4.5, and no deadlock |
| `tunnels` | 2 sessions of one name, 3 ports, 2 attempts, 3 `up`s, 1 rotation, 2 restarts, 1 stop | 279,724 | the invariants of 4.6 |
| `daemon_lifecycle` | 3 commands, 3 daemons (1 incompatible), 1 death or signal, 1 slow answer | 1,360,079 | `SplitNeedsLapse` |
| `agent_activity` | 3 hook events, 2 under way, 1 client, 1 rename, 1 fault, 2 saves | 2,161,470 | the properties of 4.8 |
| `certificates` | 2 daemons, 3 bundles, 1 fault, 1 renewal, 1 stop | 497,066 | the properties of 4.9 |
| `session_reports` | 1 client, history of 2, 3 events, 2 operations, 2 ticks, 2 changes, 1 fault | 2,155,932 | the properties of 4.10 |
| `stop_leak` | as `session_operations`, 2 requests | -- | section 5.2 |
| `restart_tunnels` | 1 command, 2 daemons, no faults | -- | section 5.2 |

### 5.1 Bounds, and why they are enough

* *Requests.* A race on a session needs two requests; a third is the one that was there before
  (whose deployment is stopped, whose routes linger) or comes after (and meets the stale record).
  The run has two because it checks liveness, which rules symmetry out; its safety properties were also
  checked with three (263,727 states up to symmetry), and all of them are theorems for any number of
  requests and sessions. Two sessions meet in ports and hostnames only, which is `Tunnels`.
* *Log clients.* Three: one that starts a follower, one that joins or waits, one that leaves.
  Capacity and tail of 1 make every chunk after the first an eviction.
* *Sockets.* Three for two tabs: a tab that reconnects and another that competes for control. Two
  chunks suffice for a gap, a repeat and the edge of the journal, whose eviction (by bytes in the
  code) may drop any number of old chunks whenever a new one is appended.
* *Docker.* Two slots: a current stream and the aborted one that still drains. Two events of one
  container: start and stop, or stop and destroy of one that was there. The container may start
  again or be new. The same properties were also checked with two containers (12.7 million states),
  which is too long for a regular run.
* *Board.* A history of 2 against 4 events evicts; two handlers race on the files. Two status ids
  with one name (1.08 million states), three requests without activities (692,064) and a second
  failure (5,281,726) were checked as well.
* *Tunnels.* Two sessions with the same worktree name want the same hostname and, with three ports,
  may be given the same port by an availability probe; two attempts make the loser retry; the second
  restart meets what the first one restored.
* *Life cycle.* Two commands race; the third starts afterwards and meets what they left. The
  constraint `Orderly` cuts what follows a lapse, because the property promises nothing there, except
  after a foreground start: what two daemons side by side do to each other is explored.
* *Agent.* Three events, of which two may be under way, so any two may change places. A fault is a
  lost event, a failed save or a restart. Once two saves have overlapped, the constraint `SavesApart`
  follows what comes of it until something else has gone wrong; without any constraint the safety
  properties hold over 6,067,684 states, and they are theorems. `InterruptedTurnsClear` is checked
  within the constraint.
* *Certificates.* Two daemons: one that is replaced or runs side by side. One fault makes a swap fail
  and, or not, the rollback after it: what lasts long enough to fail the one may fail the other. Three bundles: the one of an
  old domain, one that comes due and its successor. A fault is one late or failed order, failed
  write or bind, or a lock held too long; one daemon may stop or die at any point. A bundle comes due
  only while no issuer is at work, since that takes weeks and an order minutes.

* *Reports.* A history of 2 under 3 events and the terminal one overflows; a client may come before,
  amid and after. Two operations are an `up` and the `down` after it, before it or against its late
  registration; the daemon starts with a deployment or without. Two ticks overlap; two changes are a
  failure and its recovery. A fault is a failed collection or a restart.

Symmetry is used where requests, clients, names, fetches, ports or commands are interchangeable and
the run checks no liveness. `CHECK_DEADLOCK FALSE` appears where the instance runs out of requests,
clients, chunks, events or faults and the system then rests; in `workflow_board` the tab and its stream
never rest, so deadlock is checked there.

### 5.2 What the code does not do as stated

Two runs of one property each are refuted by TLC; their findings in `PROJECT.json` quote the lines.

* `stop_leak`: `up` is spawning services; `down` resolves its session (no services recorded yet),
  then the `up` records them, `down` aborts it, waits, begins, finds nothing to stop in the state it
  holds, and succeeds. The processes go on; in shell mode their record may be overwritten too.
* `restart_tunnels`: one orderly `wos restart`. The old daemon closes its web listener first and its
  tunnel listener late; the new one waits for the web port and tries the tunnel port once.

The following were met while modelling. Each is a behaviour of a module, visible in the excuse of a
property, and has no run of its own.

* *Monitor after a stop*: the `up` reports its services and leaves the registration of the monitor
  behind an unawaited read (`ui-api.ts:2536`); a `down` aborts, drains, cleans up and ends; then the
  registration runs and the stopped deployment is polled (against
  `openspec/specs/wos-daemon-api/spec.md:438`).
* *Monitor restored*: a `down` leaves the state file initialized, so a restarted daemon polls what was
  stopped (`monitor-restoration.ts:133`), against the same line; the alerts of a deployment also go on
  while the next `up` takes it down, as its monitor is replaced only at the end.
* *Overlapping ticks*: a tick that takes longer than five seconds is compared after the one that
  follows it, so an old snapshot passes for a recovery and the failure is announced again
  (`session-monitor.ts:130`).
* *Terminal sequence*: the last envelope of an operation has the number of retained envelopes plus
  one (`operation-registry.ts:146`), although `daemon-protocol.ts:141` calls `sequence` "a strictly
  increasing integer per operation so clients can detect drops/reorder": from the first evicted envelope
  on it goes back.
* *Follower for nobody*: two clients subscribe to one service; the first starts the follower and
  leaves, kept alive by the interest of the second, who leaves before it is attached
  (`daemon-sessions.ts:357`).
* *Ended docker stream*: the container stops, its follower ends (`docker-log-follower.ts:60`), one
  client stays; whoever reconnects joins the ended stream and gets no live chunk.
* *Terminal ghost*: a socket closes while its attach waits behind a rename; nothing detaches it, and it
  may be the controller (`ws-handler.ts:161`).
* *Replay not acknowledged*: a client that was replayed output and disconnects before live output
  arrives has acknowledged nothing and is shown the same again (`terminal-connection.ts:182`, `:213`).
* *First connection*: a tab without an id is sent the whole history although `event-bus.ts:29`
  promises no replay; tabs do not refetch after a reconnect although
  `openspec/specs/wos-events/spec.md:189` wants it, hence the excuses of `StaleNeedsLapse`; streams see
  a notification before the activity that raised it.
* *Log reset*: `resetSession`'s comment (`daemon-sessions.ts:303-305`) has subscribers re-attach,
  which nothing makes them do.
* *Plaintext until renewal*: a tick returns at once when the bundle on disk is fresh
  (`scheduler.ts:131-135`), so a bundle stored after the startup gave up (`listener-resolve.ts:36-41`)
  or by another daemon, or whose activation failed, is not served before its renewal window opens.
* *Lock reclaim*: "at most one daemon wins" (`storage.ts:311-313`) does not hold when the second daemon
  that found the lock stale removes the lock that the first has just created.
* *Mixed bundle*: files are read by name while the directory is swapped, although "never a mix" is
  promised (`storage.ts:174-180`). A crash between the two renames (`:214-219`) leaves no bundle.
* *Failed rollback*: a daemon orders, moves the old bundle aside and can move neither the new one in nor
  the old one back (`storage.ts:223` ignores that). No bundle is left, without any crash, where the
  comment at `:209-210` promises "either the old or the new bundle on disk". The next tick orders anew; a
  daemon that is started meanwhile orders before it serves. Without the excuse `unrestored`, TLC refutes
  `BundleStays` in six steps (`RollbackFails`).
* *Agent state*: the reducer cannot tell a guessed idle from a reported one after a `session_start`
  (`agent-activity.ts:270`), so an agent that compacts its history after it was taken for idle, or after
  a restart, is shown idle until the next prompt. Events overtake each other at the await of a title.
* *Titles*: an agent's title that was decided on while a rename was being saved replaces it
  (`openspec/specs/wos-terminal-layer/spec.md:260`). A save of the mark that overlaps the save of the
  user's title writes the older title back (`tmux-backend.ts:735`); if that was the agent's, the next
  restart puts it in the place of the user's.

### 5.3 Fairness

* `HandlerFairness`: a continuation whose promise has resolved, and a timer that expired, is run.
  That is the JavaScript event loop, and nothing else is needed for `StopAnswered`: the drain is
  bounded by a timer, not by the `up`.
* `RunnerFairness` says that docker, git and init scripts return. The code cannot guarantee it, so it
  is the hypothesis of `OperationsEnd`, not part of the specification.
* `Fairness` of `DockerState`: the engine answers requests, delivered events are consumed, the timer
  fires. Engine changes, failures and broken streams are not fair and are bounded, so `SelfHealing`
  reads "once the engine stops changing". That requests have no timeout is listed as a hazard.
* `Fairness` of `AgentActivity`: a hook's request arrives or is given up (it has one second), a save is
  written or fails, the time to live passes and the sweep runs (both are timers). Nothing is assumed of
  the agent or of its users.
* `Fairness` of `SessionReports`: the interval fires, a listing and a probe (2 seconds) answer, the port
  assignments are read. Operations, clients and the service promise nothing; the service's changes are
  bounded, so `MonitorSettles` reads "once the service stops changing".
* `Fairness` of `Certificates`: what a daemon has begun goes on, its ticks come, a lock file grows old.
  Nobody need start a daemon, and no order need be late or fail; faults are bounded, so
  `CertificatesCome` reads "once things stop failing".

## 6. The proofs

Eight modules hold theorems, all checked by tlapm to the last leaf, for every value of the constants.

| module | theorem | statement |
|---|---|---|
| `SessionOperationsProofs` | `Invariance` | `Spec => []IInv` |
| | `TypeCorrect`, `Exclusive`, `AbortHitsTheHolder`, `RoutesLead`, `DownClears` | `Spec => []` of `TypeOK`, `SessionExclusive`, `ControlIsHolder`, `RoutesReachServices`, `DownClearsSurfaces` |
| | `Surfaces` | `Spec => []SurfacesMatch`, the last two together |
| | `Refinement` | `Spec => LockRefined`, that is, `SessionLock`'s specification under the mapping in `SessionOperations` |
| | `NothingStartsAfterStop` | `Spec => StopDuringSetup` |
| | `RecordInvariance` | `Spec => []LeakIInv` |
| | `DownStopsEverything` | `Spec => []LeaksNeedALapse` |
| `LogStreamsProofs` | `LogStreamInvariance` | `Spec => []Inv` |
| | `LogStreamTypes`, `StreamsFitTheirReaders`, `WhatClientsReadIsContiguous` | `Spec => []` of `TypeOK`, `FollowersFitStreams`, `NoGapNoRepeat` |
| `TunnelsProofs` | `TunnelInvariance` | `Spec => []IInv` |
| | `TunnelTypes`, `RoutingIsExact`, `TrafficIsHome` | `Spec => []` of `TypeOK`, `RoutesAreExact`, `TrafficStaysHome` |
| `CertificatesProofs` | `CertificateInvariance` | `Spec => []IInv` |
| | `ListenersServeTheirDomain`, `OneTickOrders`, `BundleNeverLost` | `Spec => []` of `TypeOK`, `OneOrder`, `BundleStays` |
| | `ListenerInvariance` | `Spec => [](IInv /\ PhaseInv /\ InHand /\ StrandInv)` |
| | `StrandedListenersHaveAReason` | `Spec => []StrandedNeedsLapse` |
| `SessionReportsProofs` | `TypeCorrect`, `StreamsAreCompleteAlways`, `EventsAreRealAlways` | `Spec => []` of `TypeOK`, `StreamsAreComplete`, `EventsAreReal` |
| | `EventInvariance` | `Spec => []MonitorInv` |
| `TerminalProofs` | `TerminalInvariance` | `Spec => []Inv` |
| | `TerminalTypes`, `ControlAlwaysComesBack`, `OutputIsAlwaysExact` | `Spec => []` of `TypeOK`, `ControlComesBack`, `OutputIsExact` |
| | `ActivityInvariance` | `ActivitySpec => []IInv` |
| | `ActivityTypes`, `StateIsHonest`, `RecordIsMemory`, `ResultsAreMarked` | `ActivitySpec => []` of `ActivityTypeOK`, `StateFollowsAgent`, `RecordFollowsMemory`, `ResultsStayMarked` |
| | `UserTitlesAreKept` | `ActivitySpec => UserTitlesStay` |
| `DaemonProofs` | `LifecycleInvariance` | `LifecycleSpec => []IInv` |
| | `PortsAreExclusive`, `OneDaemonIsFound` | `LifecycleSpec => []` of `LifecycleTypeOK`, `SplitNeedsLapse` |
| | `CacheInvariance` | `Spec => []Inv` |
| | `CacheTypes`, `CacheFollowsAlways` | `Spec => []` of `TypeOK`, `CacheFollowsEngine` |
| `WorkflowBoardProofs` | `BoardInvariance` | `Spec => []IInv` |
| | `BoardTypesHold`, `StaleHasALapse`, `DanglingHasARace` | `Spec => []` of `TypeOK`, `StaleNeedsLapse`, `DanglingNeedsRace` |
| | `StreamStaysExact` | `Spec => StreamIsExact` |

*Assumptions.* `RequestsAssumption`: `SessionOf` is a function from requests to sessions, and `None` is
no request. `LogAssumption`: the bounds are positive, services and the daemon's own channels are
disjoint, the aggregate and `None` are neither. `TunnelConstants`: every session has a base name, the
limits are naturals (positive for suffixes and attempts), the web UI's hostname is none of a service's,
`None` is no hostname. `CertificateConstants`: the number of bundles and the bounds are naturals, the
markers (`None`, `Gone`, `Plain`) are none of the values they stand beside. `LifecycleConstants`:
finitely many daemons, at least as many ports, the bounds are naturals, the markers are neither daemons
nor ports nor files. `StreamConstants`, `ReportConstants`: the history holds at least one envelope, the
bounds are naturals. `TerminalAssumption`: finitely many clients, positive bounds, `None` is no socket.
`DockerAssumption`: finitely many containers, at least one stream slot, slots are positive naturals, the
bounds naturals. `RecordConstants`, `ActivityConstants`: the bounds are naturals, `Untitled` is none of
the provenances of a title. `BusAssumption`, `BoardAssumption`: the types of events are those named, the
history holds at least one event, finitely many statuses and worktrees, the bounds are naturals. TLC
evaluates all of them in the runs.

### 6.1 Session operations

*Why an inductive invariant.* None of the properties is preserved by steps from every state that
satisfies it. `SessionExclusive` says nothing about where a runner is, so a runner that ended twice
would break it; `ControlIsHolder` forgets that an entry of the control map belongs to a runner that
will drop it; `RoutesReachServices` speaks of quiet sessions only, and the step that makes a session
quiet would find routes nobody vouches for. `IInv` adds what each place in the code implies:
`RunnersRun` (a runner exists exactly while its record is running), `ControlOfRunner` (a control
exists exactly while the runner of that `up` does), `RoutesOwned` (routes belong to started services
or to the `up` at work on them), `StartedAfterSetup`, `RefusedNeverBegan`, `HolderIsLatest`,
`KindOfRunner` and `DownHoldsTheLine` (what a `down` dropped stays dropped until it ends).
TLC agrees on the instance of `session_operations`.

*The argument.* The thirty actions touch the registry and the control map in seven ways. The shape
lemmas (`HandleShape`, `UpShape`, `OtherShape`, `StepShape`) show once that every step is a
`Resolve`, `BeginOk`, `BeginBusy`, `UpConfigured`, a move inside a handler or runner (`Moves`), or
the end of a runner (`Ends`, `EndsUp`). The lock part of `IInv` and the refinement follow shape by
shape: `BeginOk` is `Acquire`, `BeginBusy` is `Refuse`, the ends are `Release`, the rest stutters.
The conjuncts about routes, services and the steps of a `down` go action by action over those that
touch them, with frame lemmas for the others (`RoutesFrame`, `OnlyHolderTouches`).

*What runs and what is recorded.* `LeaksNeedALapse` needs an invariant of its own (`LeakInv`): in a session without a lapse, whatever runs is named by the state file, except
for the processes an `up` has spawned and is about to record (`Recorded`); the state a request holds
is the file's from `begin` to its first effect, because nobody else is at work in the session
(`CtxCurrent`, `Alone`); and at some places nothing runs at all (`NothingRuns`). A step disturbs its
own request and, when that request holds the session, its own session (`StepEffect`), so each action
is looked at once for those two, and `OthersKeep` and `ElsewhereKeeps` do the rest.

### 6.2 Tunnels

*The invariant.* `TrafficStaysHome` speaks of quiet sessions, and the step that makes one quiet
(`ComposeUp`) must find the route on the port of the compose file (`Served`), that port free of
others (`PortsDiffer`) and no container of an older file (`Cleared`); `Cleared` holds because an `up`
takes everything down before it allocates, which is what the mutant of `TypeOK` forgets.
`RoutesAreExact` is inductive with the types: `ServerMeans` turns the equation with the replay into a
pointwise one, `ResetTable` and `ReopenTable` say what a reset and a reopening do to a routing table,
and `OpenedFacts` that `open` picks hostnames nobody has (`MinOfNats`, from the well-foundedness of
`<`, for the first free suffix).

*The argument.* One lemma for each action. A step of one session leaves the others' routes and
containers alone (`ServedStep`, `ServesNothing`); a rotation is the replay itself; a restart serves
what it restored, and that runs on the port its label names (`RestoredFacts`), and what the
interrupted compose commands start had its port to itself.

### 6.3 Certificates

*The invariant.* `OneOrder` compares two ticks, so it needs to know what the lock says of each:
`LockHeld` has every tick at work own the lock, and young, until a lock overran or two reclaimed one.
`BundleStays` forgets where the old bundle is while there is none in place; `BundleKept` has it aside
in an order that goes on, as long as no crash and no failing rollback has left it there for good. `OffRests` (a daemon that is off is at nothing) makes a crash or a stop
harmless to both, and `InOrder` ties the files in hand to the stage of an order.

*The argument.* Action by action for each conjunct; frame lemmas (`WorkStep`, `GotoStep`, `RestStep`
and others) say what a step of one issuer leaves of the rest.

*Stranded listeners.* `StrandedNeedsLapse` relates the bundle on disk, those in the hands of two
issuers and the one served. `StrandInv` says it as a hand-over: as long as nothing was `stored` or
left `unbound`, one daemon serves (`OneListener`); it has the good bundle that is live, or its own
tick is about to bind it (`Has`, `Activates`); one that is starting orders only where nothing good is
stored (`Starts`); and a good bundle that is aside was its own (`Aside`), with no second order about
to put the next one aside (`Apart`). A rollback that fails needs no excuse here: it leaves nothing on
disk that a listener could lack. `PhaseInv` says where startups and ticks can be, `InHand` that
what was just ordered is not due. The first attempt at this proof failed, and TLC then showed why: a
second daemon can start while the first is between the two renames, finds no bundle and orders, and
the first one's rollback puts a good bundle back that the second, now at work on its own, never
serves. That is the code's behaviour (`storage.ts`, the rollback of `writeStoredCertificate`); the
instance of the run had been too small to show it, and the excuse `stored` now names it
(`Misleads`).

### 6.4 Reports

*Streams.* The property compares a response with everything reported, as a suffix; the invariant
(`StreamInv`) says the same of history and responses by position: `IsTail(q, n, e)` has the last
element of `q` be the last of `n` events and `e` terminal envelopes, and so on backwards. Pushing an
event, pushing the terminal envelope and cutting the history each have a lemma (`TailPushEvent`,
`TailPushTerminal`, `TailBounded`), a client that comes gets the history's tail, and `TailIsSuffix`
leads back to the property. The invariant also has every open response among the listeners and the
history as long as the capacity allows.

*Events.* `MonitorInv` makes `AlertsAreFailures` inductive by saying what an alert to come is owed for:
whatever the monitor last saw and the one tick that counts has seen so far, a failure they can lead to
has not been alerted yet (`FailuresAreOwed`); a stopped monitor has no tick that counts
(`TicksHaveMonitor`); a deployment taken down has no monitor but for a lapse (`NoMonitorAfterDown`).
The steps that are about the stream only leave all of it alone (`EventsFrame`).

### 6.5 Terminal session

*The invariant.* `OutputIsExact` speaks of what has been shown, so `Inv` says what the frames under way
will show: they are a `Stream` (a gap only first and before a chunk, chunks consecutive, nothing after
the end) that `Carries` the screen from the last chunk it shows to the last one written, without
touching an acknowledged one. `GreetInv` makes an open socket attached exactly when its hello was
answered, with nothing under way before that: so replay and live output meet without a gap although
output bypasses the queue. `QueueInv` (a socket attaches once, unanswered until then, and detaches only
when closed) is what both this and `GhostsClosedEarly` need; `SocketInv` leaves a client one socket that
is not closed, so that reading on it disturbs no other; `HubInv` makes `OneController` inductive.

*The argument.* Lemmas about frame sequences first, without the state: what a chunk sent
(`CarriesOutput`), the closing frame (`CarriesEnd`), a chunk or gap read (`CarriesChunk`, `CarriesGap`)
and the answer to a hello (`WelcomeFrames`) do to a stream. Then one lemma for each action;
`QueueRuns` and `QueueKeeps`, `GhostsRun` and `GhostsKeep` serve all of them, and `OthersQuiet` the
steps of one socket. That a client which may connect has a socket left is a count (`Room`). The
invariant was first checked by TLC, with two clients and with one client, four sockets and four chunks.

### 6.6 Log streams

*The invariant.* `NoGapNoRepeat` compares a chunk with the last one a client was given, wherever that
came from: the tail of a buffer or a delivery. `Fed` says why both agree: the follower in the map is the
only one whose chunks can still reach the session's stream, the buffer ends with the chunk before its
next one, and so does what every subscriber was given. It holds of a stream without a bystander and
without an old shell follower that still reads (`FeedInv`); `OwnInv` is the same for the daemon's own
channels. `FollowersFitStreams` needs `StreamInv` (nothing but the follower in the map runs) and, for
the last subscriber to leave, `AttachInv`: who asked for a service that is followed is attached to it,
so that the decision to stop, which looks at the attached sets only, finds it. `WaitInv` has nobody
attached to the service it still waits for; with `AttachInv` this is why the continuation that starts
a follower without looking at the map again replaces none, but for a bystander's.

*The argument.* One lemma for each action. Both continuations of the resolver are `StartStreams`
(`StartKeeps`); leaving, reset and drop are `EndStreams` (`EndParts`, `AllStreamsEnd`); a follower that
ends or stops feeds nobody (`CalmerKeeps`); `DeliverFacts` says what a delivered chunk leaves of buffers
and clients, `BufferedFacts` that a full buffer still ends with the chunk appended. The invariant was
first checked by TLC on the instance of `log_streams` and on one with two clients, a capacity of two
and three chunks and followers.

### 6.7 Docker state

*The invariant.* `CacheFollowsEngine` blames every wrong entry on an overlap or on an event that was not
handled, so the invariant says where the entries of the cache come from. `EngineInv`: a container is where the last
of its events left it, and destruction is final. `PlaceInv`: no list, sync, stream or inspect is ahead of
the engine, and an inspect is of the container of the event the consumer took last. `LoneListInv`: a list
that is alone is the only answer in flight and each of its entries is still true, unless the container
has changed since the list was made; this is what ends an overlap when it is applied. `NoOverlapInv`:
as long as nothing has overlapped, a list in flight is alone and an inspect is the only answer in
flight, and the cache is right about every container that has not changed since the last covered event;
at the engine's last event that is `ExactWhenCovered`, and with `EngineInv` it is `GhostsNeedOverlap`.

*The argument.* One lemma for each action. Steps that only move a stream share a frame (`StreamStep`,
`QuietKeeps`), and so do the two ways a sync ends; what `covered` may advance over is a lemma of its own
(`CoversParts`), as are the entry an event or an inspect leaves (`EntryParts`) and the answers that are not
alone (`NotAloneParts`). The invariant was first checked by TLC, with one container and three
events, and with two containers and two events.

### 6.8 Daemon lifecycle

*The invariant.* `SplitNeedsLapse` speaks of daemons that listen, and what makes two of them is a
command that believed there was none. `LaunchInv`: without a lapse one command is under way; what it
has read of the metadata file leads to whoever listens; while a daemon starts, the command that
started it only polls; and one that is about to clean up or to spawn does so over nobody. `FileInv`:
nobody listens while another daemon starts, and from the first write to the removal the file is that
of the one daemon, with nobody about to remove it. Both are guarded by `lapses = {}`, which no step
takes back. `Typed` is stronger than `LifecycleTypeOK` where ports are concerned: a daemon has a web port
exactly from its bind to its close, and no two have the same one; that `BindFallback` finds a port is
a count (`PortsSuffice`).

*The argument.* Types, then `DaemonAlone` and `CommandAlone`, each action by action; what only moves
a command is `CommandGoes`, what starts nothing `LaunchFrame`. The invariant was first checked by
TLC on the instance of `daemon_lifecycle`.

### 6.9 Agent activity

*The invariant.* `RecordFollowsMemory` speaks of the time when all is saved; `RecordInv` says what the
saves under way will leave. Saves are told apart by their number, at most one is of a title, and that
is the first title queued (`SavesInv`). What a save has read is what the file holds, and one save at a
time has read it, until two overlap (`DiskInv`). Several saves of the mark may be
under way: if there is only one, or only one that has not read yet, it has the mark of the memory, and if
there is none the file has it (`MarkInv`). `TitleQueueInv` keeps the agent's titles from queueing behind the user's.
`StateFollowsAgent` speaks of the time when no event is pending; `HonestInv` says what the pending ones will
do. Some are decisive, that is, they say what the agent does whatever was thought of it; from the last
decisive one on, or from where the block is if there is none, the events `Heals` the block, in the order
in which they were sent. An event that is applied earlier than one sent before it has overtaken it,
which is a lapse.

*The argument.* One lemma for each way in which a step may use the record (`MarkKeeps` and those that
follow it, against `RecordInv` alone), then one for each action. The proof failed for
`UserTitlesStay` as first stated, with titles decided on too early as its only excuse: the step of
`Restart` remained, with a file that two overlapping saves had left with the agent's older title. TLC found
that behaviour once the run followed overlapping saves, which its constraint had cut off; the property
now names both excuses.

### 6.10 Event bus and board

*The invariant.* The stream part (`BusInv`) is about ids. The history holds the newest ones in order
(`HistoryInv`). An event on the wire stands in its `Slot`, except for a notification just ahead of the
activity that raised it (`WireInv`). An id belongs to one event (`KnownInv`). What the tab has seen does not
go beyond the last id it remembers, and what is on the wire does, except in the middle of such a
pair (`SeenInv`). So the replay of `Replay` begins where the tab stopped and ends where live events begin.
The part of the files says what every handler is going to write: the file as it is with its own
change, unless another one wrote since it read (`RequestInv`); `DanglingNeedsRace` is inductive with
that. `FreshInv` follows a change of the catalog to the tab: as long as it is on its way (`Pipeline`: a
handler has yet to announce it, or an event is in the history of a tab that is away, or on the wire,
or a request unanswered) nothing is said; afterwards the tab shows it or an answer has it, and every answer
with an older catalog comes before one that has it.

*The argument.* `StreamIsExact` is about steps: a step that makes the tab miss an event has one of the
reasons of `LossNeedsReason`. Every lemma of an action therefore shows `IInv'` and `LossStep`. The lemmas
about sequences come first (`Joined`, `Ending`, what `Replay` returns and what `Retained` keeps), then
publishing, connecting and reading on the bus alone, then the actions. The invariant was first checked by
TLC on the instance of `workflow_board`, and over 11 million states of a larger one, whose check was stopped
there. `Replay` takes the end of the history by the number of older ids, and `With` replaces the
operators of `TLC` for one changed column, since the provers know neither `SelectSeq` nor `@@`; TLC
explores the same states as before.

### 6.11 What is only model-checked

Liveness: `StopAnswered` and `OperationsEnd`, `SelfHealing`, `InterruptedTurnsClear`, `CertificatesCome`,
`MonitorSettles`; and that `workflow_board` does not deadlock. The prover cannot do liveness under
fairness or ENABLED. Every invariant and every action property of the passing runs is a theorem.

## 7. What is not modelled

* Bytes, text and layout: compose files, YAML, log lines, terminal escapes, notification texts, SSE
  and WebSocket framing, X.509 and ACME messages (an order succeeds or fails).
* Files are read and written in one step, except where the code reads several (certificates), truncates
  first (the daemon's metadata) or reads, awaits and rewrites (board, terminal record). A torn write of
  `state.json` is a hazard without a property.
* Daemon restarts in `SessionOperations`, `LogStreams` and `TerminalSession`; `Tunnels`,
  `AgentActivity`, `WorkflowBoard`, `Certificates` and `SessionReports` have them.
* Tunnels in a monitor's snapshot and the aggregate status it computes, the rules of the notification
  engine, the project registry, discovery of agents by process lists and transcripts.
* The seeding of a missing `statuses.json` by its first read (section 8); a stored certificate that does
  not parse, which ends every tick (`scheduler.ts:139`); the truncation of a shell log
  (`shell-log-follower.ts:67`) and its two files, which are one sequence of chunks in `LogStreams`; compose
  commands that start containers only after the restarted daemon has restored its routes.
* Proxying of tunnel requests and the whitelist check of each; static ports and service selection.
* The parts marked `not_modelled` in `PROJECT.json`, each with its reason. Most of the repository by
  lines is of that kind: views and forms of the web client, parsing and validation of configuration,
  request validation, the setup wizard, git output, and wiring. It has no state that two actors
  share and no order in which something can go wrong; unit tests reach it.

## 8. Hazards without a property

`PROJECT.json` lists four, each with a note:

* `daemon-sessions.ts:314`: clients that stay over a reset get no chunks; whether that is wrong depends
  on how its comment is read.
* `terminal-connection.ts:181`: a client that remembers the sequences of a journal that starts again.
* `actor.ts:806`: a terminate that fails leaves the status for good.
* `docker-state-store.ts:128`: readers take an empty cache for an empty engine.

Five that are not in its list: a read that finds no `statuses.json` seeds it, and if it is slow overwrites a
status created meanwhile (`status-catalog.ts:151`); what an operation that a restart interrupts leaves half done; a tab that connects for the first time replays the whole history to
every listener, so those that act on an event (`deploy-notifications-bridge.tsx`) act again on every
reload; the terminal's replay decodes with a fresh decoder (`actor.ts:563`), which loses a character
split between two chunks; the status of a worktree is put together from an operation, a state file and
services that are read at different times (`ui-api.ts`, `handleWorktreeDetail`), until the next poll.
