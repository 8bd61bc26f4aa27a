------------------------- MODULE SessionOperations -------------------------
(***************************************************************************)
(* The mutating operations of the daemon on worktree sessions: `up`,       *)
(* `down`, service stop and restart, worktree removal and creation.        *)
(*                                                                         *)
(* Each HTTP request runs a handler (packages/daemon/src/ui-api.ts) that   *)
(* resolves the session, asks the operation registry                       *)
(* (operation-registry.ts) for the session, answers, and leaves a runner   *)
(* behind that deploys or tears down and finally releases the session.     *)
(* JavaScript runs to completion between two awaits, so one action is the  *)
(* code between the await where a request was suspended (pc) and the next  *)
(* await at which another request can change something it depends on.      *)
(*                                                                         *)
(* A request is also the identity of the operation record it creates, of   *)
(* the AbortController of an `up`, of the service processes it starts and  *)
(* of the collector its monitor polls.  All services of a session start    *)
(* and stop together; ports, compose files and log text are abstracted.    *)
(*                                                                         *)
(* Operators commented "Mutant" are no part of the model: each is a        *)
(* plausible bug, and a property is refuted when it replaces the           *)
(* definition that follows it.                                             *)
(***************************************************************************)
CONSTANTS
  Requests,   \* requests that will be submitted: the bound of the model
  Sessions,   \* worktree sessions
  SessionOf,  \* the session a request is about
  None        \* no request

Kinds == {"up", "down", "service-stop", "service-restart",
          "worktree-remove", "worktree-create"}
Modes == {"generated", "compose", "shell"}

ASSUME RequestsAssumption ==
  /\ SessionOf \in [Requests -> Sessions]
  /\ None \notin Requests

VARIABLES
  \* the environment: what each request asks for, how a session is configured
  kind, mode,
  \* operation-registry.ts
  status,          \* record.status of the operation a request began
  activeMutating,  \* the operation that holds each session
  latest,          \* the operation most recently begun in each session
  \* ui-api.ts: handlers and their runners
  pc,              \* where each request is suspended
  ctx,             \* the session state each request resolved
  busyWith,        \* the operation named by a 409 answer
  activeUp,        \* activeUpControls: the `up` a stop can abort
  aborted,         \* the requests whose AbortSignal fired
  draining,        \* the `up` each stop request waits for
  discovering,     \* services-discovered continuations not yet run
  \* what the operations act on
  stateFile,       \* the persisted WosState of each session
  upFailure,       \* sessions with an up-failure marker on disk
  running,         \* whose service processes or containers run
  composeStarted,  \* the ups that got their services started
  tunnels,         \* the `up` whose tunnel routes are registered
  monitor,         \* the `up` whose collector the session monitor polls
  worktree,        \* sessions whose worktree directory exists
  \* history, read only by properties
  staleCtx,        \* operations begun with a state that was no longer current
  swallowed        \* removals that went on after their docker down had failed

configVars   == <<kind, mode>>
registryVars == <<status, activeMutating, latest>>
historyVars  == <<staleCtx, swallowed>>
controlVars  == <<activeUp, aborted, draining>>
handlerVars  == <<pc, ctx, busyWith, historyVars>>
deployVars   == <<stateFile, upFailure, running, composeStarted, worktree>>
surfaceVars  == <<tunnels, monitor, discovering>>
vars == <<configVars, registryVars, controlVars, handlerVars, deployVars, surfaceVars>>

S(r) == SessionOf[r]
Shell(s) == mode[s] = "shell"

\* WosState as far as the handlers read it: the initialized flag and, in
\* shell mode, the recorded services (None: the map is empty).
WosState == [initialized : BOOLEAN, services : Requests \cup {None}]
NoState  == [initialized |-> FALSE, services |-> None]

Init ==
  /\ kind = [r \in Requests |-> "none"]
  /\ mode \in [Sessions -> Modes]
  /\ status = [r \in Requests |-> "none"]
  /\ activeMutating = [s \in Sessions |-> None]
  /\ latest = [s \in Sessions |-> None]
  /\ pc = [r \in Requests |-> "new"]
  /\ ctx = [r \in Requests |-> NoState]
  /\ busyWith = [r \in Requests |-> None]
  /\ activeUp = [s \in Sessions |-> None]
  /\ aborted = {}
  /\ draining = [r \in Requests |-> None]
  /\ discovering = {}
  /\ stateFile = [s \in Sessions |-> NoState]
  /\ upFailure = {}
  /\ running = [s \in Sessions |-> {}]
  /\ composeStarted = {}
  /\ tunnels = [s \in Sessions |-> None]
  /\ monitor = [s \in Sessions |-> None]
  /\ worktree \in SUBSET Sessions
  /\ staleCtx = {}
  /\ swallowed = {}

Goto(r, label) == pc' = [pc EXCEPT ![r] = label]

-----------------------------------------------------------------------------
(* Resolving a request: validation and resolveSession, which reads the     *)
(* state file.  The handler is suspended in between, so the state it keeps *)
(* may be overtaken before the operation begins.                           *)

Submit(r, k) == kind' = [kind EXCEPT ![r] = k]

Answer400(r) == /\ Goto(r, "done")
                /\ UNCHANGED ctx

ResolveInto(r, state, label) ==
  /\ ctx' = [ctx EXCEPT ![r] = state]
  /\ Goto(r, label)

ResolveUp(r) ==
  /\ Submit(r, "up")
  /\ IF S(r) \in worktree THEN ResolveInto(r, stateFile[S(r)], "begin")
                          ELSE Answer400(r)

ResolveDown(r) ==
  /\ Submit(r, "down")
  /\ IF S(r) \in worktree THEN ResolveInto(r, stateFile[S(r)], "stopping")
                          ELSE Answer400(r)

ResolveService(r) ==
  /\ Submit(r, "service-stop") \/ Submit(r, "service-restart")
  /\ IF S(r) \in worktree /\ stateFile[S(r)].initialized
     THEN ResolveInto(r, stateFile[S(r)], "begin")
     ELSE Answer400(r)

\* A deploy config that does not load leaves ctx null: the removal goes on
\* as if nothing had ever been deployed.  A dirty worktree is refused.
ResolveRemove(r) ==
  /\ Submit(r, "worktree-remove")
  /\ IF S(r) \in worktree
     THEN \/ ResolveInto(r, stateFile[S(r)], "begin")
          \/ ResolveInto(r, NoState, "begin")
          \/ Answer400(r)
     ELSE Answer400(r)

ResolveCreate(r) ==
  /\ Submit(r, "worktree-create")
  /\ IF S(r) \notin worktree THEN ResolveInto(r, NoState, "begin")
                             ELSE Answer400(r)

Resolve(r) ==
  /\ pc[r] = "new"
  /\ \/ ResolveUp(r) \/ ResolveDown(r) \/ ResolveService(r)
     \/ ResolveRemove(r) \/ ResolveCreate(r)
  /\ UNCHANGED <<mode, registryVars, controlVars, busyWith, historyVars, deployVars, surfaceVars>>

-----------------------------------------------------------------------------
(* Stopping a deployment that is still coming up (abortActiveUp)           *)

\* Mutant: the missing control is not noticed.
AbortActiveUpUnguarded(r) ==
  /\ pc[r] = "stopping"
  /\ aborted' = aborted \cup {activeUp[S(r)]}
  /\ draining' = [draining EXCEPT ![r] = activeUp[S(r)]]
  /\ Goto(r, "begin")
  /\ UNCHANGED <<configVars, registryVars, activeUp, ctx, busyWith, historyVars, deployVars, surfaceVars>>

AbortActiveUp(r) ==
  /\ pc[r] = "stopping"
  /\ LET control == activeUp[S(r)] IN
     IF control = None
     THEN Goto(r, "begin") /\ UNCHANGED <<aborted, draining>>
     ELSE /\ aborted' = aborted \cup {control}
          /\ draining' = [draining EXCEPT ![r] = control]
          /\ Goto(r, "draining")
  /\ UNCHANGED <<configVars, registryVars, activeUp, ctx, busyWith, historyVars, deployVars, surfaceVars>>

\* control.done resolved ...
Drained(r) ==
  /\ pc[r] = "draining"
  /\ pc[draining[r]] = "done"
  /\ Goto(r, "begin")
  /\ UNCHANGED <<configVars, registryVars, controlVars, ctx, busyWith, historyVars, deployVars, surfaceVars>>

\* Mutant: only control.done is awaited.
DrainForever(r) == FALSE

\* ... or ABORT_DRAIN_TIMEOUT_MS won the race.
DrainTimeout(r) ==
  /\ pc[r] = "draining"
  /\ Goto(r, "begin")
  /\ UNCHANGED <<configVars, registryVars, controlVars, ctx, busyWith, historyVars, deployVars, surfaceVars>>

-----------------------------------------------------------------------------
(* OperationRegistry.begin and finish                                      *)

\* Mutant: only an `up` is taken to occupy its session.
ConflictOfUps(s) ==
  IF activeMutating[s] # None /\ kind[activeMutating[s]] = "up"
  THEN activeMutating[s] ELSE None

\* The operation that makes the session busy, or None.
Conflict(s) ==
  IF activeMutating[s] # None /\ status[activeMutating[s]] = "running"
  THEN activeMutating[s] ELSE None

FirstStep(r) == CASE kind[r] = "up" -> "configuring"
                  [] kind[r] = "down" -> "stop-services"
                  [] kind[r] \in {"service-stop", "service-restart"} -> "service"
                  [] kind[r] = "worktree-remove" -> "remove-services"
                  [] OTHER -> "create-worktree"

BeginOk(r) ==
  /\ pc[r] = "begin"
  /\ Conflict(S(r)) = None
  /\ status' = [status EXCEPT ![r] = "running"]
  /\ activeMutating' = [activeMutating EXCEPT ![S(r)] = r]
  /\ latest' = [latest EXCEPT ![S(r)] = r]
  /\ staleCtx' = IF ctx[r] # stateFile[S(r)] THEN staleCtx \cup {r} ELSE staleCtx
  /\ Goto(r, FirstStep(r))
  /\ UNCHANGED <<configVars, controlVars, ctx, busyWith, swallowed, deployVars, surfaceVars>>

\* 409 session-busy, naming the active operation.
BeginBusy(r) ==
  /\ pc[r] = "begin"
  /\ Conflict(S(r)) # None
  /\ busyWith' = [busyWith EXCEPT ![r] = Conflict(S(r))]
  /\ Goto(r, "done")
  /\ UNCHANGED <<configVars, registryVars, controlVars, ctx, historyVars, deployVars, surfaceVars>>

Finish(r, outcome) ==
  /\ status' = [status EXCEPT ![r] = outcome]
  /\ activeMutating' = [activeMutating EXCEPT
       ![S(r)] = IF @ = r THEN None ELSE @]
  /\ Goto(r, "done")
  /\ UNCHANGED latest

\* Mutant: no finally block.
FinishUpKeepsControl(r, outcome) == Finish(r, outcome) /\ UNCHANGED activeUp

\* The runner of an `up` also drops its control on the way out.
FinishUp(r, outcome) ==
  /\ Finish(r, outcome)
  /\ activeUp' = [activeUp EXCEPT ![S(r)] = None]

-----------------------------------------------------------------------------
(* up: the runner of handleWorktreeUp around runUpProgram                  *)

\* healthcheckDefaultsLoader has resolved: only now can a stop find the
\* operation, and only now does its runner exist.
UpConfigured(r) ==
  /\ pc[r] = "configuring"
  /\ activeUp' = [activeUp EXCEPT ![S(r)] = r]
  /\ Goto(r, "resetting")
  /\ UNCHANGED <<configVars, registryVars, aborted, draining, ctx, busyWith, historyVars, deployVars, surfaceVars>>

\* clearUpFailure, sessions.resetSession, tunnels.reset.
UpReset(r) ==
  /\ pc[r] = "resetting"
  /\ upFailure' = upFailure \ {S(r)}
  /\ tunnels' = [tunnels EXCEPT ![S(r)] = None]
  /\ Goto(r, "preparing")
  /\ UNCHANGED <<configVars, registryVars, controlVars, ctx, busyWith, historyVars, stateFile,
                 running, composeStarted, worktree, monitor, discovering>>

\* What a recorded deployment still has running: everything of the compose
\* project, or the recorded shell processes.
RunningAfterStop(s, state) ==
  IF Shell(s) THEN running[s] \ {state.services}
  ELSE IF state.initialized THEN {} ELSE running[s]

\* Release the ports of the recorded deployment, allocate ports and open the
\* routes; a forced docker deployment is marked uninitialized until its
\* setup has run again.
UpPrepare(r) ==
  LET s == S(r) IN
  /\ pc[r] = "preparing"
  /\ running' = [running EXCEPT ![s] = RunningAfterStop(s, stateFile[s])]
  /\ \E noTunnel \in BOOLEAN :
       tunnels' = [tunnels EXCEPT ![s] = IF noTunnel THEN None ELSE r]
  /\ \/ UNCHANGED stateFile
     \/ ~Shell(s) /\ stateFile' = [stateFile EXCEPT ![s].initialized = FALSE]
  /\ Goto(r, "setup")
  /\ UNCHANGED <<configVars, registryVars, controlVars, ctx, busyWith, historyVars, upFailure,
                 composeStarted, worktree, monitor, discovering>>

\* Mutant: a stop is noticed only in the wait loop.
AfterSetupUnchecked(r) == "starting"

AfterSetup(r) == IF r \in aborted THEN "failing" ELSE "starting"

\* First-run setup (skipped when set up already), the state file of a docker
\* deployment, and the check that a stop has not been requested meanwhile.
UpSetup(r) ==
  /\ pc[r] = "setup"
  /\ IF Shell(S(r)) THEN UNCHANGED stateFile
     ELSE stateFile' = [stateFile EXCEPT ![S(r)].initialized = TRUE]
  /\ Goto(r, AfterSetup(r))
  /\ UNCHANGED <<configVars, registryVars, controlVars, ctx, busyWith, historyVars, upFailure,
                 running, composeStarted, worktree, surfaceVars>>

\* docker compose up (after its port-conflict retries), or the spawn loop.
UpStart(r) ==
  /\ pc[r] = "starting"
  /\ running' = [running EXCEPT ![S(r)] =
       IF Shell(S(r)) THEN @ \cup {r} ELSE {r}]
  /\ composeStarted' = composeStarted \cup {r}
  /\ Goto(r, "started")
  /\ UNCHANGED <<configVars, registryVars, controlVars, ctx, busyWith, historyVars, stateFile,
                 upFailure, worktree, surfaceVars>>

\* A failed compose up may leave containers behind, a retry takes down what
\* ran before; a failed spawn stops the processes it had started.
UpStartFails(r) ==
  /\ pc[r] = "starting"
  /\ \/ UNCHANGED running
     \/ ~Shell(S(r)) /\ \E left \in {{}, {r}} : running' = [running EXCEPT ![S(r)] = left]
  /\ Goto(r, "failing")
  /\ UNCHANGED <<configVars, registryVars, controlVars, ctx, busyWith, historyVars, stateFile,
                 upFailure, composeStarted, worktree, surfaceVars>>

\* Mutant: the spawned processes are never recorded.
RecordNothing(r) == UNCHANGED stateFile

\* Shell mode records the processes it spawned.
RecordServices(r) ==
  IF Shell(S(r))
  THEN stateFile' = [stateFile EXCEPT ![S(r)] = [initialized |-> TRUE, services |-> r]]
  ELSE UNCHANGED stateFile

\* services-discovered leaves a continuation behind that nobody awaits.
UpDiscover(r) ==
  /\ pc[r] = "started"
  /\ RecordServices(r)
  /\ discovering' = discovering \cup {r}
  /\ Goto(r, "healthcheck")
  /\ UNCHANGED <<configVars, registryVars, controlVars, ctx, busyWith, historyVars, upFailure,
                 running, composeStarted, worktree, tunnels, monitor>>

\* The continuation: readPortAssignments resolved, monitors.start.
StartMonitor(r) ==
  /\ r \in discovering
  /\ discovering' = discovering \ {r}
  /\ monitor' = [monitor EXCEPT ![S(r)] = r]
  /\ UNCHANGED <<configVars, registryVars, controlVars, handlerVars, deployVars, tunnels>>

\* The wait loop: only here can a stop interrupt it.  Compose mode has none.
UpHealthy(r) ==
  /\ pc[r] = "healthcheck"
  /\ mode[S(r)] = "compose" \/ r \notin aborted
  /\ Goto(r, "healthy")
  /\ UNCHANGED <<configVars, registryVars, controlVars, ctx, busyWith, historyVars, deployVars, surfaceVars>>

UpInterrupted(r) ==
  /\ pc[r] = "healthcheck"
  /\ mode[S(r)] # "compose" /\ r \in aborted
  /\ Goto(r, "failing")
  /\ UNCHANGED <<configVars, registryVars, controlVars, ctx, busyWith, historyVars, deployVars, surfaceVars>>

\* Ports, init script, compose ps or a required healthcheck failed.
UpError(r) ==
  /\ \/ pc[r] \in {"preparing", "setup"}
     \/ pc[r] = "started" /\ ~Shell(S(r))
     \/ pc[r] = "healthcheck" /\ mode[S(r)] # "compose"
  /\ Goto(r, "failing")
  /\ UNCHANGED <<configVars, registryVars, controlVars, ctx, busyWith, historyVars, deployVars, surfaceVars>>

UpSucceeds(r) ==
  /\ pc[r] = "healthy"
  /\ upFailure' = upFailure \ {S(r)}
  /\ FinishUp(r, "succeeded")
  /\ UNCHANGED <<configVars, aborted, draining, ctx, busyWith, historyVars, stateFile, running,
                 composeStarted, worktree, surfaceVars>>

\* Mutant: the routes of an `up` that never started anything stay.
RoutesKept(r) == tunnels

\* The inner catch: routes to services that never started are dropped.
RoutesAfterFailure(r) ==
  IF r \in composeStarted THEN tunnels ELSE [tunnels EXCEPT ![S(r)] = None]

EndQuietly(r) == FinishUp(r, "succeeded")

\* The two catch blocks: a stopped operation ends quietly, any other error is
\* reported.
UpCatch(r) ==
  /\ pc[r] = "failing"
  /\ tunnels' = RoutesAfterFailure(r)
  /\ IF r \in aborted
     THEN EndQuietly(r)
     ELSE Goto(r, "reporting") /\ UNCHANGED <<registryVars, activeUp>>
  /\ UNCHANGED <<configVars, aborted, draining, ctx, busyWith, historyVars, deployVars, monitor, discovering>>

UpFails(r) ==
  /\ pc[r] = "reporting"
  /\ upFailure' = IF stateFile[S(r)].initialized THEN upFailure
                  ELSE upFailure \cup {S(r)}
  /\ FinishUp(r, "failed")
  /\ UNCHANGED <<configVars, aborted, draining, ctx, busyWith, historyVars, stateFile, running,
                 composeStarted, worktree, surfaceVars>>

Up(r) ==
  \/ UpConfigured(r) \/ UpReset(r) \/ UpPrepare(r) \/ UpSetup(r) \/ UpStart(r)
  \/ UpStartFails(r) \/ UpDiscover(r) \/ UpHealthy(r) \/ UpInterrupted(r)
  \/ UpError(r) \/ UpSucceeds(r) \/ UpCatch(r) \/ UpFails(r)

-----------------------------------------------------------------------------
(* down, worktree removal and creation, service stop and restart           *)

\* runDownOperation acts on the resolved state, not on the file.  In shell
\* mode it writes that state back without its services.
StopServices(r) ==
  LET s == S(r) IN
  IF ~ctx[r].initialized THEN UNCHANGED <<running, stateFile>>
  ELSE /\ running' = [running EXCEPT ![s] = RunningAfterStop(s, ctx[r])]
       /\ stateFile' = IF Shell(s)
            THEN [stateFile EXCEPT ![s] = [ctx[r] EXCEPT !.services = None]]
            ELSE stateFile

DownStop(r) ==
  /\ pc[r] = "stop-services"
  /\ StopServices(r)
  /\ Goto(r, "down-cleanup")
  /\ UNCHANGED <<configVars, registryVars, controlVars, ctx, busyWith, historyVars, upFailure,
                 composeStarted, worktree, surfaceVars>>

\* docker compose down failed: nothing else is cleaned up.
DownFails(r) ==
  /\ pc[r] = "stop-services"
  /\ ctx[r].initialized /\ ~Shell(S(r))
  /\ Finish(r, "failed")
  /\ UNCHANGED <<configVars, controlVars, ctx, busyWith, historyVars, deployVars, surfaceVars>>

\* tunnels.drop, sessions.drop, monitors.stop.
DropSurfaces(r) ==
  /\ tunnels' = [tunnels EXCEPT ![S(r)] = None]
  /\ monitor' = [monitor EXCEPT ![S(r)] = None]
  /\ UNCHANGED discovering

DownCleanup(r) ==
  /\ pc[r] = "down-cleanup"
  /\ DropSurfaces(r)
  /\ Goto(r, "down-end")
  /\ UNCHANGED <<configVars, registryVars, controlVars, ctx, busyWith, historyVars, deployVars>>

DownEnds(r) ==
  /\ pc[r] = "down-end"
  /\ upFailure' = upFailure \ {S(r)}
  /\ Finish(r, "succeeded")
  /\ UNCHANGED <<configVars, controlVars, ctx, busyWith, historyVars, stateFile, running,
                 composeStarted, worktree, surfaceVars>>

\* The down inside a removal is best effort: its failure is only logged.
RemoveStop(r) ==
  /\ pc[r] = "remove-services"
  /\ \/ StopServices(r) /\ UNCHANGED swallowed
     \/ /\ ctx[r].initialized /\ ~Shell(S(r))
        /\ swallowed' = swallowed \cup {r}
        /\ UNCHANGED <<running, stateFile>>
  /\ Goto(r, "remove-cleanup")
  /\ UNCHANGED <<configVars, registryVars, controlVars, ctx, busyWith, staleCtx,
                 upFailure, composeStarted, worktree, surfaceVars>>

\* ... then removeSessionRootForWorktree, which holds the state file and the
\* failure marker.
RemoveCleanup(r) ==
  /\ pc[r] = "remove-cleanup"
  /\ DropSurfaces(r)
  /\ stateFile' = [stateFile EXCEPT ![S(r)] = NoState]
  /\ upFailure' = upFailure \ {S(r)}
  /\ Goto(r, "remove-worktree")
  /\ UNCHANGED <<configVars, registryVars, controlVars, ctx, busyWith, historyVars, running,
                 composeStarted, worktree>>

RemoveWorktree(r) ==
  /\ pc[r] = "remove-worktree"
  /\ \/ /\ S(r) \in worktree
        /\ worktree' = worktree \ {S(r)}
        /\ Finish(r, "succeeded")
     \/ UNCHANGED worktree /\ Finish(r, "failed")
  /\ UNCHANGED <<configVars, controlVars, ctx, busyWith, historyVars, stateFile, upFailure,
                 running, composeStarted, surfaceVars>>

\* git worktree add fails when the directory appeared after the check.
CreateWorktree(r) ==
  /\ pc[r] = "create-worktree"
  /\ \/ /\ S(r) \notin worktree
        /\ worktree' = worktree \cup {S(r)}
        /\ Finish(r, "succeeded")
     \/ UNCHANGED worktree /\ Finish(r, "failed")
  /\ UNCHANGED <<configVars, controlVars, ctx, busyWith, historyVars, stateFile, upFailure,
                 running, composeStarted, surfaceVars>>

StopService(r) ==
  /\ kind[r] = "service-stop"
  /\ running' = [running EXCEPT ![S(r)] = RunningAfterStop(S(r), ctx[r])]
  /\ UNCHANGED stateFile

\* Shell mode replaces the recorded process and writes the resolved state
\* back with the new one.
RestartService(r) ==
  /\ kind[r] = "service-restart"
  /\ IF Shell(S(r))
     THEN /\ running' = [running EXCEPT ![S(r)] = (@ \ {ctx[r].services}) \cup {r}]
          /\ stateFile' = [stateFile EXCEPT ![S(r)] = [ctx[r] EXCEPT !.services = r]]
     ELSE /\ running' = [running EXCEPT ![S(r)] = {r}]
          /\ UNCHANGED stateFile

ServiceEnds(r) ==
  /\ pc[r] = "service"
  /\ kind[r] = "service-restart" \/ ~Shell(S(r)) \/ ctx[r].services # None
  /\ StopService(r) \/ RestartService(r)
  /\ Finish(r, "succeeded")
  /\ UNCHANGED <<configVars, controlVars, ctx, busyWith, historyVars, upFailure, composeStarted,
                 worktree, surfaceVars>>

\* An unmanaged service, docker failed, or the old process stopped and no
\* new one started.
ServiceFails(r) ==
  /\ pc[r] = "service"
  /\ Finish(r, "failed")
  /\ \/ UNCHANGED running
     \/ /\ kind[r] = "service-restart" /\ Shell(S(r))
        /\ running' = [running EXCEPT ![S(r)] = @ \ {ctx[r].services}]
  /\ UNCHANGED <<configVars, controlVars, ctx, busyWith, historyVars, stateFile,
                 upFailure, composeStarted, worktree, surfaceVars>>

Teardown(r) ==
  \/ DownStop(r) \/ DownFails(r) \/ DownCleanup(r) \/ DownEnds(r)
  \/ RemoveStop(r) \/ RemoveCleanup(r) \/ RemoveWorktree(r)

Other(r) == CreateWorktree(r) \/ ServiceEnds(r) \/ ServiceFails(r)

-----------------------------------------------------------------------------
Handle(r) == \/ Resolve(r) \/ AbortActiveUp(r) \/ Drained(r) \/ DrainTimeout(r)
             \/ BeginOk(r) \/ BeginBusy(r)

Run(r) == Up(r) \/ Teardown(r) \/ Other(r) \/ StartMonitor(r)

Next == \E r \in Requests : Handle(r) \/ Run(r)

Spec == Init /\ [][Next]_vars

-----------------------------------------------------------------------------
(* Properties                                                              *)

Labels == {"new", "stopping", "draining", "begin", "done",
  "configuring", "resetting", "preparing", "setup", "starting", "started",
  "healthcheck", "healthy", "failing", "reporting",
  "stop-services", "down-cleanup", "down-end",
  "remove-services", "remove-cleanup", "remove-worktree",
  "create-worktree", "service"}

RegistryTypes ==
  /\ status \in [Requests -> {"none", "running", "succeeded", "failed"}]
  /\ activeMutating \in [Sessions -> Requests \cup {None}]
  /\ latest \in [Sessions -> Requests \cup {None}]

ControlTypes ==
  /\ activeUp \in [Sessions -> Requests \cup {None}]
  /\ aborted \subseteq Requests
  /\ draining \in [Requests -> Requests \cup {None}]

HandlerTypes ==
  /\ kind \in [Requests -> Kinds \cup {"none"}]
  /\ pc \in [Requests -> Labels]
  /\ ctx \in [Requests -> WosState]
  /\ busyWith \in [Requests -> Requests \cup {None}]
  /\ staleCtx \subseteq Requests
  /\ swallowed \subseteq Requests

DeployTypes ==
  /\ mode \in [Sessions -> Modes]
  /\ stateFile \in [Sessions -> WosState]
  /\ upFailure \subseteq Sessions
  /\ running \in [Sessions -> SUBSET Requests]
  /\ composeStarted \subseteq Requests
  /\ worktree \subseteq Sessions

SurfaceTypes ==
  /\ tunnels \in [Sessions -> Requests \cup {None}]
  /\ monitor \in [Sessions -> Requests \cup {None}]
  /\ discovering \subseteq Requests

TypeOK == RegistryTypes /\ ControlTypes /\ HandlerTypes /\ DeployTypes /\ SurfaceTypes

\* The requests whose runner is between begin and finish.
Working == {r \in Requests : status[r] = "running"}

\* No two mutating operations of a session are ever in progress, and the
\* registry's index names exactly the one that is: operation-registry.ts
\* keeps the record's status and activeMutating in step at every await.
SessionExclusive ==
  \A s \in Sessions : \A r \in Requests :
    activeMutating[s] = r <=> S(r) = s /\ r \in Working

\* A stop can only abort the `up` that holds the session now: the control
\* that abortActiveUp finds never outlives, and never belongs to, another
\* operation than the one the registry would name.
ControlIsHolder ==
  \A s \in Sessions : activeUp[s] # None =>
    activeUp[s] = activeMutating[s] /\ kind[activeUp[s]] = "up"

\* Once a session is quiet, registered routes lead to services that were
\* started: an `up` that fails or is stopped before compose up succeeded
\* takes its routes away again (ui-api.ts, the inner catch of the runner).
RoutesReachServices ==
  \A s \in Sessions : activeMutating[s] = None /\ tunnels[s] # None =>
    tunnels[s] \in composeStarted

\* The operation most recently begun in r's session is r, and it succeeded.
LastWord(r) == status[r] = "succeeded" /\ latest[S(r)] = r

\* After a successful `down` nothing of the deployment is shown any more:
\* no route and no failure marker, whatever it interrupted.
DownClearsSurfaces ==
  \A r \in Requests : kind[r] = "down" /\ LastWord(r) =>
    tunnels[S(r)] = None /\ S(r) \notin upFailure

\* What the daemon shows of a deployment is what there is of it, while no
\* operation is at work on it.
SurfacesMatch == RoutesReachServices /\ DownClearsSurfaces

\* The only ways a successful `down` leaves services running: an operation of
\* the session began with a state that another one had overtaken, or a
\* removal forgot containers it had failed to stop.  Otherwise what a `down`
\* stops is what runs, whatever was aborted, timed out or failed before it.
LeaksNeedALapse ==
  \A r \in Requests :
    /\ kind[r] = "down" /\ LastWord(r)
    /\ \A q \in staleCtx \cup swallowed : S(q) # S(r)
    => running[S(r)] = {}

\* A stop that arrives while an `up` is still being set up keeps it from
\* starting any service ("A stop requested during setup must not spawn any
\* service process", packages/runtime/src/shell.ts).
BeforeStart == {"resetting", "preparing", "setup"}
StopDuringSetup ==
  \A r \in Requests :
    [](r \in aborted /\ pc[r] \in BeforeStart => [](r \notin composeStarted))

\* The handlers and the registry implement the session lock.
LockOutcome ==
  [r \in Requests |-> CASE busyWith[r] # None -> "refused"
                        [] busyWith[r] = None /\ status[r] = "none" -> "pending"
                        [] busyWith[r] = None /\ status[r] = "running" -> "running"
                        [] OTHER -> "ended"]

Lock == INSTANCE SessionLock WITH
  holder <- activeMutating, outcome <- LockOutcome, blamed <- busyWith

LockRefined == Lock!Spec

\* A stop is always answered, or its `down` begins, even when the `up` it
\* interrupts never unwinds: the drain is bounded.
StopAnswered ==
  \A r \in Requests : pc[r] = "stopping" ~> pc[r] = "done" \/ status[r] # "none"

\* Promptness of the daemon: every continuation whose promise has resolved,
\* and every timer that expired, is eventually run.
HandlerFairness == \A r \in Requests : WF_vars(Handle(r))

\* In addition, docker, git and the init scripts return.
RunnerFairness == \A r \in Requests : WF_vars(Run(r))

HandlerSpec == Spec /\ HandlerFairness

\* Every operation ends and gives the session back, provided the external
\* commands it runs return: no path through a runner misses finish.
OperationsEnd ==
  RunnerFairness => \A r \in Requests : r \in Working ~> r \notin Working

\* No request hangs: neither the stop that waits for another operation nor
\* the operation itself.
RequestsEnd == StopAnswered /\ OperationsEnd

\* Stated by the code or its specification, and refuted by the model.

\* A `down` that aborted an `up` and waited for it to unwind "can take the
\* partial deployment fully down" (ui-api.ts, handleWorktreeDown).
DownStopsWhatItInterrupted ==
  \A r \in Requests : kind[r] = "down" /\ LastWord(r) =>
    draining[r] \notin running[S(r)]

-----------------------------------------------------------------------------
(* The inductive invariant behind SessionExclusive, ControlIsHolder and    *)
(* RoutesReachServices: where a request is suspended determines what it    *)
(* holds.                                                                  *)

Unbegun    == {"new", "stopping", "draining", "begin"}
UpControl  == {"resetting", "preparing", "setup", "starting", "started",
               "healthcheck", "healthy", "failing", "reporting"}
UpLabels   == UpControl \cup {"configuring"}
OtherLabels == {"stop-services", "down-cleanup", "down-end", "remove-services",
                "remove-cleanup", "remove-worktree", "create-worktree", "service"}

\* A runner is between two of its awaits exactly while its record runs.
RunnersRun ==
  \A r \in Requests :
    /\ pc[r] \in UpLabels \cup OtherLabels <=> status[r] = "running"
    /\ pc[r] \in Unbegun => status[r] = "none"
    /\ pc[r] \in UpLabels => kind[r] = "up"
    /\ pc[r] \in OtherLabels => kind[r] # "up"

\* The control map names the `up` of the session whose runner exists.
ControlOfRunner ==
  \A s \in Sessions : \A r \in Requests :
    activeUp[s] = r <=> S(r) = s /\ pc[r] \in UpControl

\* Routes belong to services that started, or to the `up` at work on them.
RoutesOwned ==
  \A s \in Sessions : \A r \in Requests :
    tunnels[s] = r => /\ S(r) = s
                      /\ \/ r \in composeStarted
                         \/ pc[r] \in {"setup", "starting", "failing"}

\* A refused request never began.
RefusedNeverBegan ==
  \A r \in Requests : busyWith[r] # None => pc[r] = "done" /\ status[r] = "none"

\* Services start once the checks that a stop relies on are behind.
StartedAfterSetup ==
  \A r \in Requests :
    pc[r] \in Unbegun \cup BeforeStart \cup {"configuring", "starting"} => r \notin composeStarted

\* The holder of a session is the operation begun last in it, and only a
\* `down` goes through the steps of a `down`.
HolderIsLatest ==
  \A s \in Sessions : activeMutating[s] # None => latest[s] = activeMutating[s]

KindOfRunner ==
  \A r \in Requests :
    pc[r] \in {"remove-services", "remove-cleanup", "remove-worktree", "create-worktree", "service"}
      => kind[r] # "down"

\* What a `down` has dropped nobody else brings back while it holds the session.
DownHoldsTheLine ==
  \A r \in Requests : kind[r] = "down" /\ pc[r] = "down-end" => tunnels[S(r)] = None

IInv == /\ TypeOK /\ RunnersRun /\ SessionExclusive /\ ControlOfRunner
        /\ RoutesOwned /\ RefusedNeverBegan /\ StartedAfterSetup
        /\ HolderIsLatest /\ KindOfRunner /\ DownHoldsTheLine /\ DownClearsSurfaces
=============================================================================
