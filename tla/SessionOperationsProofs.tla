---------------------- MODULE SessionOperationsProofs ----------------------
(***************************************************************************)
(* Proofs about SessionOperations, for any number of sessions and requests *)
(* and any deployment mode.                                                *)
(*                                                                         *)
(* The inductive invariant IInv says what a request holds at each place    *)
(* where its code can be suspended.  What the thirty actions do to the     *)
(* registry and to the control map comes in few shapes: a request resolves,*)
(* begins, is refused, becomes abortable (UpConfigured), moves on inside   *)
(* its handler or its runner (Moves), or its runner ends (Ends, EndsUp).   *)
(* StepShape establishes that once; the invariants and the refinement then *)
(* follow shape by shape.                                                  *)
(***************************************************************************)
EXTENDS SessionOperations, TLAPS

-----------------------------------------------------------------------------
(* The shapes of a step                                                    *)

Outcomes == {"succeeded", "failed"}

Moves(r) ==
  \E l \in Labels :
    /\ pc' = [pc EXCEPT ![r] = l]
    /\ \/ pc[r] \in UpControl /\ l \in UpControl
       \/ pc[r] \in OtherLabels /\ l \in OtherLabels
       \/ pc[r] \in Unbegun \ {"new"} /\ l \in Unbegun \ {"new"}
    /\ UNCHANGED <<kind, registryVars, activeUp, busyWith>>

Ends(r) ==
  /\ pc[r] \in OtherLabels
  /\ \E outcome \in Outcomes : Finish(r, outcome)
  /\ UNCHANGED <<kind, activeUp, busyWith>>

EndsUp(r) ==
  /\ pc[r] \in UpControl
  /\ \E outcome \in Outcomes : FinishUp(r, outcome)
  /\ UNCHANGED <<kind, busyWith>>

Idle == UNCHANGED <<kind, pc, registryVars, activeUp, busyWith>>

\* The handler before the operation begins: resolving, stopping, draining.
LEMMA HandleShape ==
  ASSUME NEW r \in Requests, Handle(r)
  PROVE  Moves(r) \/ Resolve(r) \/ BeginOk(r) \/ BeginBusy(r)
<1> USE DEF Moves, Labels, Unbegun, Goto, configVars, handlerVars, historyVars, controlVars
<1>1. CASE AbortActiveUp(r)
  BY <1>1 DEF AbortActiveUp
<1>2. CASE Drained(r)
  BY <1>2 DEF Drained
<1>3. CASE DrainTimeout(r)
  BY <1>3 DEF DrainTimeout
<1>4. QED
  BY <1>1, <1>2, <1>3 DEF Handle

\* The runner of an `up`, from the moment it can be aborted.
LEMMA UpShape ==
  ASSUME NEW r \in Requests, Up(r)
  PROVE  Moves(r) \/ EndsUp(r) \/ UpConfigured(r)
<1> USE DEF Moves, EndsUp, Labels, UpControl, Outcomes, Goto, configVars, handlerVars,
            historyVars, controlVars
<1>1. CASE UpReset(r) \/ UpPrepare(r)
  BY <1>1 DEF UpReset, UpPrepare
<1>2. CASE UpSetup(r)
  BY <1>2 DEF UpSetup, AfterSetup
<1>3. CASE UpStart(r) \/ UpStartFails(r) \/ UpDiscover(r)
  BY <1>3 DEF UpStart, UpStartFails, UpDiscover
<1>4. CASE UpHealthy(r) \/ UpInterrupted(r) \/ UpError(r)
  BY <1>4 DEF UpHealthy, UpInterrupted, UpError
<1>5. CASE UpSucceeds(r) \/ UpFails(r)
  BY <1>5 DEF UpSucceeds, UpFails
<1>6. CASE UpCatch(r)
  BY <1>6 DEF UpCatch, EndQuietly
<1>7. QED
  BY <1>1, <1>2, <1>3, <1>4, <1>5, <1>6 DEF Up

\* The runners of the other operations.
LEMMA OtherShape ==
  ASSUME NEW r \in Requests, Teardown(r) \/ Other(r)
  PROVE  Moves(r) \/ Ends(r)
<1> USE DEF Moves, Ends, Labels, OtherLabels, Outcomes, Goto, configVars, handlerVars,
            historyVars, controlVars
<1>1. CASE DownStop(r) \/ DownCleanup(r)
  BY <1>1 DEF DownStop, DownCleanup
<1>2. CASE DownFails(r) \/ DownEnds(r)
  BY <1>2 DEF DownFails, DownEnds
<1>3. CASE RemoveStop(r) \/ RemoveCleanup(r)
  BY <1>3 DEF RemoveStop, RemoveCleanup
<1>4. CASE RemoveWorktree(r)
  BY <1>4 DEF RemoveWorktree
<1>5. CASE Other(r)
  BY <1>5 DEF Other, CreateWorktree, ServiceEnds, ServiceFails
<1>6. QED
  BY <1>1, <1>2, <1>3, <1>4, <1>5 DEF Teardown

LEMMA StepShape ==
  ASSUME [Next]_vars
  PROVE  \/ Idle
         \/ \E r \in Requests :
              \/ Resolve(r) \/ BeginOk(r) \/ BeginBusy(r) \/ UpConfigured(r)
              \/ Moves(r) \/ Ends(r) \/ EndsUp(r)
<1>1. CASE UNCHANGED vars
  BY <1>1 DEF vars, Idle, configVars, handlerVars, registryVars, controlVars
<1>2. ASSUME NEW r \in Requests, StartMonitor(r) PROVE Idle
  BY <1>2 DEF StartMonitor, Idle, configVars, handlerVars, registryVars, controlVars
<1>3. QED
  BY <1>1, <1>2, HandleShape, UpShape, OtherShape DEF Next, Run

\* What Resolve does to the registry's view of a request.
LEMMA ResolveShape ==
  ASSUME NEW r \in Requests, Resolve(r)
  PROVE  /\ pc[r] = "new"
         /\ \E l \in {"begin", "stopping", "done"} : pc' = [pc EXCEPT ![r] = l]
         /\ \E k \in Kinds : kind' = [kind EXCEPT ![r] = k]
         /\ UNCHANGED <<registryVars, activeUp, busyWith>>
BY DEF Resolve, ResolveUp, ResolveDown, ResolveService, ResolveRemove, ResolveCreate,
       Submit, ResolveInto, Answer400, Goto, Kinds, controlVars

-----------------------------------------------------------------------------
(* Types                                                                   *)

LEMMA SessionOfType == ASSUME NEW r \in Requests PROVE S(r) \in Sessions
BY RequestsAssumption DEF S

\* The registry's records and index (operation-registry.ts).
LEMMA RegistryTypesStep == TypeOK /\ [Next]_vars => RegistryTypes'
<1> SUFFICES ASSUME TypeOK, [Next]_vars PROVE RegistryTypes'
    OBVIOUS
<1> USE SessionOfType DEF TypeOK, RegistryTypes, registryVars
<1>1. CASE Idle
  BY <1>1 DEF Idle
<1>2. ASSUME NEW r \in Requests, Resolve(r) \/ BeginBusy(r) \/ UpConfigured(r) \/ Moves(r)
      PROVE  RegistryTypes'
  BY <1>2 DEF Resolve, BeginBusy, UpConfigured, Moves
<1>3. ASSUME NEW r \in Requests, BeginOk(r) PROVE RegistryTypes'
  BY <1>3 DEF BeginOk
<1>4. ASSUME NEW r \in Requests, Ends(r) \/ EndsUp(r) PROVE RegistryTypes'
  BY <1>4 DEF Ends, EndsUp, FinishUp, Finish, Outcomes
<1>5. QED
  BY <1>1, <1>2, <1>3, <1>4, StepShape

\* The control map and the aborts (abortActiveUp).
LEMMA ControlTypesStep == TypeOK /\ [Next]_vars => ControlTypes'
<1> SUFFICES ASSUME TypeOK, [Next]_vars PROVE ControlTypes'
    OBVIOUS
<1> USE SessionOfType DEF TypeOK, ControlTypes, controlVars
<1>1. CASE UNCHANGED vars
  BY <1>1 DEF vars
<1>2. ASSUME NEW r \in Requests, Handle(r) PROVE ControlTypes'
  <2>1. CASE AbortActiveUp(r)
    BY <2>1 DEF AbortActiveUp
  <2>2. CASE ~AbortActiveUp(r)
    BY <1>2, <2>2 DEF Handle, Resolve, Drained, DrainTimeout, BeginOk, BeginBusy
  <2>3. QED
    BY <2>1, <2>2
<1>3. ASSUME NEW r \in Requests, Up(r) PROVE ControlTypes'
  <2>1. CASE UpConfigured(r)
    BY <2>1 DEF UpConfigured
  <2>2. CASE UpSucceeds(r) \/ UpCatch(r) \/ UpFails(r)
    BY <2>2 DEF UpSucceeds, UpCatch, UpFails, EndQuietly, FinishUp
  <2>3. QED
    BY <1>3, <2>1, <2>2 DEF Up, UpReset, UpPrepare, UpSetup, UpStart, UpStartFails, UpDiscover,
                            UpHealthy, UpInterrupted, UpError
<1>4. ASSUME NEW r \in Requests, Teardown(r) \/ Other(r) \/ StartMonitor(r)
      PROVE  ControlTypes'
  BY <1>4 DEF Teardown, Other, StartMonitor, DownStop, DownFails, DownCleanup, DownEnds,
              RemoveStop, RemoveCleanup, RemoveWorktree, CreateWorktree, ServiceEnds, ServiceFails
<1>5. QED
  BY <1>1, <1>2, <1>3, <1>4 DEF Next, Run

\* What the handlers keep between two awaits.
LEMMA HandlerTypesStep == TypeOK /\ [Next]_vars => HandlerTypes'
<1> SUFFICES ASSUME TypeOK, [Next]_vars PROVE HandlerTypes'
    OBVIOUS
<1>1. kind' \in [Requests -> Kinds \cup {"none"}]
  BY StepShape, ResolveShape
     DEF TypeOK, HandlerTypes, Idle, BeginOk, BeginBusy, UpConfigured, Moves, Ends, EndsUp, configVars
<1>2. pc' \in [Requests -> Labels]
  <2>1. ASSUME NEW r \in Requests, NEW l \in Labels, Goto(r, l) PROVE pc' \in [Requests -> Labels]
    BY <2>1 DEF Goto, TypeOK, HandlerTypes
  <2>2. ASSUME NEW r \in Requests, Resolve(r) PROVE pc' \in [Requests -> Labels]
    BY <2>2, ResolveShape DEF TypeOK, HandlerTypes, Labels
  <2>3. ASSUME NEW r \in Requests, BeginOk(r) \/ BeginBusy(r) \/ UpConfigured(r)
        PROVE  \E l \in Labels : Goto(r, l)
    BY <2>3 DEF BeginOk, BeginBusy, UpConfigured, FirstStep, Labels
  <2>4. ASSUME NEW r \in Requests, Ends(r) \/ EndsUp(r) PROVE Goto(r, "done") /\ "done" \in Labels
    BY <2>4 DEF Ends, EndsUp, FinishUp, Finish, Labels
  <2>5. QED
    BY <2>1, <2>2, <2>3, <2>4, StepShape DEF Moves, Idle, TypeOK, HandlerTypes
<1>3. busyWith' \in [Requests -> Requests \cup {None}]
  BY StepShape, ResolveShape, SessionOfType
     DEF TypeOK, HandlerTypes, RegistryTypes, Idle, BeginOk, BeginBusy, Conflict, UpConfigured,
         Moves, Ends, EndsUp
<1>4. ctx' \in [Requests -> WosState]
  <2>1. NoState \in WosState /\ \A r \in Requests : stateFile[S(r)] \in WosState
    BY SessionOfType DEF NoState, WosState, TypeOK, DeployTypes
  <2>2. ASSUME NEW r \in Requests, Resolve(r) PROVE ctx' \in [Requests -> WosState]
    <3>1. \/ UNCHANGED ctx
          \/ \E state \in {NoState, stateFile[S(r)]} : ctx' = [ctx EXCEPT ![r] = state]
      BY <2>2 DEF Resolve, ResolveUp, ResolveDown, ResolveService, ResolveRemove, ResolveCreate,
                  ResolveInto, Answer400
    <3>2. QED
      BY <2>1, <3>1 DEF TypeOK, HandlerTypes
  <2>3. UNCHANGED ctx \/ \E r \in Requests : Resolve(r)
    BY DEF Next, Handle, Run, Up, Teardown, Other, vars, handlerVars,
           AbortActiveUp, Drained, DrainTimeout, BeginOk, BeginBusy,
           UpConfigured, UpReset, UpPrepare, UpSetup, UpStart, UpStartFails, UpDiscover,
           StartMonitor, UpHealthy, UpInterrupted, UpError, UpSucceeds, UpCatch, UpFails,
           DownStop, DownFails, DownCleanup, DownEnds, RemoveStop, RemoveCleanup,
           RemoveWorktree, CreateWorktree, ServiceEnds, ServiceFails
  <2>4. QED
    BY <2>2, <2>3 DEF TypeOK, HandlerTypes
<1>5. staleCtx' \subseteq Requests /\ swallowed' \subseteq Requests
  <2>1. \/ UNCHANGED historyVars
        \/ \E r \in Requests : BeginOk(r) \/ RemoveStop(r)
    BY DEF Next, Handle, Run, Up, Teardown, Other, vars, handlerVars, historyVars,
           Resolve, AbortActiveUp, Drained, DrainTimeout, BeginBusy,
           UpConfigured, UpReset, UpPrepare, UpSetup, UpStart, UpStartFails, UpDiscover,
           StartMonitor, UpHealthy, UpInterrupted, UpError, UpSucceeds, UpCatch, UpFails,
           DownStop, DownFails, DownCleanup, DownEnds, RemoveCleanup,
           RemoveWorktree, CreateWorktree, ServiceEnds, ServiceFails
  <2>2. QED
    BY <2>1 DEF TypeOK, HandlerTypes, historyVars, BeginOk, RemoveStop
<1>6. QED
  BY <1>1, <1>2, <1>3, <1>4, <1>5 DEF HandlerTypes

\* State files, services, markers and worktrees.
LEMMA DeployTypesStep == TypeOK /\ [Next]_vars => DeployTypes'
<1> SUFFICES ASSUME TypeOK, [Next]_vars PROVE DeployTypes'
    OBVIOUS
<1> USE DEF TypeOK, DeployTypes, deployVars, configVars
<1>1. ASSUME NEW s \in Sessions, NEW state \in WosState
      PROVE  RunningAfterStop(s, state) \in SUBSET Requests
  BY DEF RunningAfterStop
<1>2. ASSUME NEW s \in Sessions, NEW state \in WosState, NEW q \in Requests \cup {None}
      PROVE  [state EXCEPT !.services = q] \in WosState
  BY DEF WosState
<1>3. ASSUME NEW s \in Sessions, NEW b \in BOOLEAN
      PROVE  [stateFile EXCEPT ![s].initialized = b] \in [Sessions -> WosState]
  BY DEF WosState
<1>4. CASE UNCHANGED vars
  BY <1>4 DEF vars
<1>5. ASSUME NEW r \in Requests, Handle(r) \/ StartMonitor(r) PROVE DeployTypes'
  BY <1>5 DEF Handle, StartMonitor, Resolve, AbortActiveUp, Drained, DrainTimeout, BeginOk,
              BeginBusy
<1>6. ASSUME NEW r \in Requests, StopServices(r)
      PROVE  /\ running' \in [Sessions -> SUBSET Requests]
             /\ stateFile' \in [Sessions -> WosState]
  <2>1. S(r) \in Sessions /\ ctx[r] \in WosState
    BY SessionOfType DEF HandlerTypes
  <2>2. RunningAfterStop(S(r), ctx[r]) \in SUBSET Requests
    BY <2>1, <1>1
  <2>3. [ctx[r] EXCEPT !.services = None] \in WosState
    BY <2>1, <1>2
  <2>4. QED
    BY <2>2, <2>3, <1>6 DEF StopServices
<1>7. ASSUME NEW r \in Requests, Up(r) PROVE DeployTypes'
  <2>1. CASE UpPrepare(r)
    <3>1. \/ UNCHANGED stateFile
          \/ stateFile' = [stateFile EXCEPT ![S(r)].initialized = FALSE]
      BY <2>1 DEF UpPrepare
    <3>2. RunningAfterStop(S(r), stateFile[S(r)]) \in SUBSET Requests
      BY <1>1, SessionOfType
    <3>3. QED
      BY <2>1, <3>1, <3>2, <1>3, SessionOfType DEF UpPrepare
  <2>2. CASE UpSetup(r)
    <3>1. stateFile' \in [Sessions -> WosState]
      BY <2>2, <1>3, SessionOfType DEF UpSetup
    <3>2. QED
      BY <2>2, <3>1 DEF UpSetup
  <2>3. CASE UpStart(r) \/ UpStartFails(r)
    <3>1. \/ UNCHANGED running
          \/ \E started \in SUBSET Requests : running' = [running EXCEPT ![S(r)] = started]
      BY <2>3, SessionOfType DEF UpStart, UpStartFails
    <3>2. QED
      BY <2>3, <3>1 DEF UpStart, UpStartFails
  <2>4. CASE UpDiscover(r)
    <3>1. [initialized |-> TRUE, services |-> r] \in WosState
      BY DEF WosState
    <3>2. QED
      BY <2>4, <3>1, SessionOfType DEF UpDiscover, RecordServices
  <2>5. CASE UpReset(r) \/ UpSucceeds(r) \/ UpFails(r)
    BY <2>5, SessionOfType DEF UpReset, UpSucceeds, UpFails
  <2>6. CASE UpConfigured(r) \/ UpHealthy(r) \/ UpInterrupted(r) \/ UpError(r) \/ UpCatch(r)
    BY <2>6 DEF UpConfigured, UpHealthy, UpInterrupted, UpError, UpCatch
  <2>7. QED
    BY <1>7, <2>1, <2>2, <2>3, <2>4, <2>5, <2>6 DEF Up
<1>8. ASSUME NEW r \in Requests, Teardown(r) PROVE DeployTypes'
  <2>1. CASE DownStop(r) \/ RemoveStop(r)
    BY <2>1, <1>6 DEF DownStop, RemoveStop
  <2>2. CASE DownFails(r) \/ DownCleanup(r) \/ DownEnds(r)
    BY <2>2 DEF DownFails, DownCleanup, DownEnds
  <2>3. CASE RemoveCleanup(r)
    BY <2>3, SessionOfType DEF RemoveCleanup, NoState, WosState
  <2>4. CASE RemoveWorktree(r)
    BY <2>4 DEF RemoveWorktree
  <2>5. QED
    BY <1>8, <2>1, <2>2, <2>3, <2>4 DEF Teardown
<1>9. ASSUME NEW r \in Requests, Other(r) PROVE DeployTypes'
  <2>1. S(r) \in Sessions /\ ctx[r] \in WosState
    BY SessionOfType DEF HandlerTypes
  <2>2. CASE CreateWorktree(r) \/ ServiceFails(r)
    BY <2>1, <2>2 DEF CreateWorktree, ServiceFails
  <2>3. CASE ServiceEnds(r)
    BY <2>1, <2>3, <1>1, <1>2 DEF ServiceEnds, StopService, RestartService
  <2>4. QED
    BY <1>9, <2>2, <2>3 DEF Other
<1>10. QED
  BY <1>4, <1>5, <1>7, <1>8, <1>9 DEF Next, Run

\* Routes, collectors and the continuations that register them.
LEMMA SurfaceTypesStep == TypeOK /\ [Next]_vars => SurfaceTypes'
<1> SUFFICES ASSUME TypeOK, [Next]_vars PROVE SurfaceTypes'
    OBVIOUS
<1> USE SessionOfType DEF TypeOK, SurfaceTypes, surfaceVars
<1>1. CASE UNCHANGED vars
  BY <1>1 DEF vars
<1>2. ASSUME NEW r \in Requests, Handle(r) \/ StartMonitor(r) PROVE SurfaceTypes'
  BY <1>2 DEF Handle, StartMonitor, Resolve, AbortActiveUp, Drained, DrainTimeout, BeginOk,
              BeginBusy
<1>3. ASSUME NEW r \in Requests, Up(r) PROVE SurfaceTypes'
  <2>1. CASE UpReset(r) \/ UpPrepare(r) \/ UpDiscover(r)
    BY <2>1 DEF UpReset, UpPrepare, UpDiscover
  <2>2. CASE UpCatch(r)
    BY <2>2 DEF UpCatch, RoutesAfterFailure
  <2>3. QED
    BY <1>3, <2>1, <2>2 DEF Up, UpConfigured, UpSetup, UpStart, UpStartFails, UpHealthy,
                            UpInterrupted, UpError, UpSucceeds, UpFails
<1>4. ASSUME NEW r \in Requests, Teardown(r) \/ Other(r) PROVE SurfaceTypes'
  BY <1>4 DEF Teardown, Other, DropSurfaces, DownStop, DownFails, DownCleanup, DownEnds,
              RemoveStop, RemoveCleanup, RemoveWorktree, CreateWorktree, ServiceEnds, ServiceFails
<1>5. QED
  BY <1>1, <1>2, <1>3, <1>4 DEF Next, Run

LEMMA TypeStep == TypeOK /\ [Next]_vars => TypeOK'
BY RegistryTypesStep, ControlTypesStep, HandlerTypesStep, DeployTypesStep, SurfaceTypesStep
   DEF TypeOK

-----------------------------------------------------------------------------
(* The lock                                                                *)

LockInv == RunnersRun /\ SessionExclusive /\ ControlOfRunner /\ RefusedNeverBegan

\* Moving on inside a handler or a runner changes nothing the lock is about.
LEMMA MovesKeepsLock ==
  ASSUME TypeOK, LockInv, NEW r \in Requests, Moves(r)
  PROVE  LockInv'
<1> USE DEF TypeOK, HandlerTypes, RegistryTypes, Moves, registryVars
<1>1. RunnersRun'
  BY DEF LockInv, RunnersRun, Unbegun, UpControl, UpLabels, OtherLabels
<1>2. SessionExclusive'
  BY DEF LockInv, SessionExclusive, Working
<1>3. ControlOfRunner'
  BY DEF LockInv, ControlOfRunner, Unbegun, UpControl, OtherLabels
<1>4. RefusedNeverBegan'
  BY DEF LockInv, RefusedNeverBegan, Unbegun, UpControl, OtherLabels
<1>5. QED
  BY <1>1, <1>2, <1>3, <1>4 DEF LockInv

\* A runner that ends gives up exactly its own session.
LEMMA EndsKeepsLock ==
  ASSUME TypeOK, LockInv, NEW r \in Requests, Ends(r) \/ EndsUp(r)
  PROVE  LockInv'
<1> USE SessionOfType DEF TypeOK, HandlerTypes, RegistryTypes, ControlTypes, Ends, EndsUp, FinishUp,
                          Finish, Outcomes, Goto
<1>1. RunnersRun'
  BY DEF LockInv, RunnersRun, Unbegun, UpControl, UpLabels, OtherLabels
<1>2. SessionExclusive'
  BY RequestsAssumption DEF LockInv, SessionExclusive, Working
<1>3. ControlOfRunner'
  BY RequestsAssumption DEF LockInv, ControlOfRunner, UpControl, OtherLabels
<1>4. RefusedNeverBegan'
  BY DEF LockInv, RefusedNeverBegan, RunnersRun, UpControl, UpLabels, OtherLabels
<1>5. QED
  BY <1>1, <1>2, <1>3, <1>4 DEF LockInv

\* OperationRegistry.begin grants a session that nobody holds.
LEMMA BeginKeepsLock ==
  ASSUME TypeOK, LockInv, NEW r \in Requests, BeginOk(r)
  PROVE  LockInv'
<1> USE SessionOfType DEF TypeOK, HandlerTypes, RegistryTypes, ControlTypes, BeginOk, Goto, configVars,
                          controlVars
<1>1. activeMutating[S(r)] = None
  BY RequestsAssumption DEF Conflict, LockInv, SessionExclusive, Working
<1>2. RunnersRun'
  BY DEF FirstStep, LockInv, RunnersRun, Unbegun, UpControl, UpLabels, OtherLabels
<1>3. SessionExclusive'
  BY <1>1, RequestsAssumption DEF LockInv, SessionExclusive, Working
<1>4. ControlOfRunner'
  BY DEF FirstStep, LockInv, ControlOfRunner, UpControl, OtherLabels
<1>5. RefusedNeverBegan'
  BY DEF LockInv, RefusedNeverBegan
<1>6. QED
  BY <1>2, <1>3, <1>4, <1>5 DEF LockInv

LEMMA OtherStepsKeepLock ==
  ASSUME TypeOK, LockInv, NEW r \in Requests, Resolve(r) \/ BeginBusy(r) \/ UpConfigured(r)
  PROVE  LockInv'
<1> USE SessionOfType DEF TypeOK, HandlerTypes, RegistryTypes, ControlTypes, Goto, configVars,
                          controlVars, registryVars
<1>1. CASE Resolve(r)
  <2>1. RunnersRun'
    BY <1>1, ResolveShape DEF LockInv, RunnersRun, Unbegun, UpControl, UpLabels, OtherLabels
  <2>2. SessionExclusive'
    BY <1>1, ResolveShape DEF LockInv, SessionExclusive, Working
  <2>3. ControlOfRunner' /\ RefusedNeverBegan'
    BY <1>1, ResolveShape DEF LockInv, ControlOfRunner, UpControl, RefusedNeverBegan
  <2>4. QED
    BY <2>1, <2>2, <2>3 DEF LockInv
<1>2. CASE BeginBusy(r)
  <2>1. RunnersRun'
    BY <1>2 DEF BeginBusy, LockInv, RunnersRun, Unbegun, UpControl, UpLabels, OtherLabels
  <2>2. SessionExclusive'
    BY <1>2 DEF BeginBusy, LockInv, SessionExclusive, Working
  <2>3. ControlOfRunner' /\ RefusedNeverBegan'
    BY <1>2 DEF BeginBusy, LockInv, ControlOfRunner, UpControl, RefusedNeverBegan, RunnersRun,
                Unbegun
  <2>4. QED
    BY <2>1, <2>2, <2>3 DEF LockInv
<1>3. CASE UpConfigured(r)
  <2>1. RunnersRun'
    BY <1>3 DEF UpConfigured, LockInv, RunnersRun, Unbegun, UpControl, UpLabels, OtherLabels
  <2>2. SessionExclusive'
    BY <1>3 DEF UpConfigured, LockInv, SessionExclusive, Working
  <2>3. \A q \in Requests : S(q) = S(r) => pc[q] \notin UpControl
    BY <1>3, RequestsAssumption
       DEF UpConfigured, LockInv, SessionExclusive, Working, RunnersRun, UpLabels, UpControl
  <2>4. ControlOfRunner'
    BY <1>3, <2>3 DEF UpConfigured, LockInv, ControlOfRunner, UpControl
  <2>5. RefusedNeverBegan'
    BY <1>3 DEF UpConfigured, LockInv, RefusedNeverBegan
  <2>6. QED
    BY <2>1, <2>2, <2>4, <2>5 DEF LockInv
<1>4. QED
  BY <1>1, <1>2, <1>3

LEMMA LockStep == TypeOK /\ LockInv /\ [Next]_vars => LockInv'
<1> SUFFICES ASSUME TypeOK, LockInv, [Next]_vars PROVE LockInv'
    OBVIOUS
<1>1. CASE Idle
  BY <1>1 DEF Idle, LockInv, RunnersRun, SessionExclusive, Working, ControlOfRunner,
              RefusedNeverBegan, registryVars
<1>2. QED
  BY <1>1, StepShape, MovesKeepsLock, EndsKeepsLock, BeginKeepsLock, OtherStepsKeepLock

-----------------------------------------------------------------------------
(* Services and routes                                                     *)

\* Services start only past every check a stop in time relies on.
LEMMA StartedStep == TypeOK /\ LockInv /\ StartedAfterSetup /\ [Next]_vars => StartedAfterSetup'
<1> SUFFICES ASSUME TypeOK, LockInv, StartedAfterSetup, [Next]_vars PROVE StartedAfterSetup'
    OBVIOUS
<1> USE DEF TypeOK, HandlerTypes, StartedAfterSetup, Unbegun, BeforeStart, Goto
<1>1. CASE UNCHANGED vars
  BY <1>1 DEF vars, handlerVars, deployVars
<1>2. ASSUME NEW r \in Requests, Handle(r) PROVE StartedAfterSetup'
  BY <1>2, ResolveShape DEF Handle, Resolve, AbortActiveUp, Drained, DrainTimeout, BeginOk,
     BeginBusy, FirstStep, deployVars
<1>3. ASSUME NEW r \in Requests, Up(r) PROVE StartedAfterSetup'
  <2>1. CASE UpStart(r)
    BY <2>1 DEF UpStart
  <2>2. CASE ~UpStart(r)
    <3>1. UNCHANGED composeStarted
      BY <1>3, <2>2 DEF Up, UpConfigured, UpReset, UpPrepare, UpSetup, UpStartFails, UpDiscover,
         UpHealthy, UpInterrupted, UpError, UpSucceeds, UpCatch, UpFails, deployVars
    <3>2. pc[r] \notin BeforeStart \cup {"configuring", "starting"} =>
            \E l \in Labels \ (Unbegun \cup BeforeStart \cup {"configuring", "starting"}) : Goto(r, l)
      BY <1>3, <2>2 DEF Up, UpConfigured, UpReset, UpPrepare, UpSetup, UpStartFails, UpDiscover,
         UpHealthy, UpInterrupted, UpError, UpSucceeds, UpCatch, UpFails, EndQuietly, FinishUp,
         Finish, Labels
    <3>3. \E l \in Labels : Goto(r, l)
      BY <1>3, UpShape DEF Moves, EndsUp, FinishUp, Finish, UpConfigured, Labels
    <3>4. QED
      BY <3>1, <3>2, <3>3
  <2>3. QED
    BY <2>1, <2>2
<1>4. ASSUME NEW r \in Requests, Teardown(r) \/ Other(r) PROVE StartedAfterSetup'
  <2>1. UNCHANGED composeStarted
    BY <1>4 DEF Teardown, Other, DownStop, DownFails, DownCleanup, DownEnds, RemoveStop,
       RemoveCleanup, RemoveWorktree, CreateWorktree, ServiceEnds, ServiceFails, deployVars
  <2>2. \E l \in OtherLabels \cup {"done"} : Goto(r, l)
    <3>1. CASE Ends(r)
      BY <3>1 DEF Ends, Finish
    <3>2. CASE Moves(r)
      BY <3>2, <1>4 DEF Teardown, Other, DownStop, DownFails, DownCleanup, DownEnds, RemoveStop,
       RemoveCleanup, RemoveWorktree, CreateWorktree, ServiceEnds, ServiceFails, Finish, OtherLabels
    <3>3. QED
      BY <1>4, <3>1, <3>2, OtherShape
  <2>3. QED
    BY <2>1, <2>2 DEF OtherLabels
<1>5. ASSUME NEW r \in Requests, StartMonitor(r) PROVE StartedAfterSetup'
  BY <1>5 DEF StartMonitor, handlerVars, deployVars
<1>6. QED
  BY <1>1, <1>2, <1>3, <1>4, <1>5 DEF Next, Run

\* A step that leaves the routes alone, or drops those of one session, keeps
\* every other route owned as long as its own request does not walk away from
\* routes it still answers for.
LEMMA RoutesFrame ==
  ASSUME TypeOK, RoutesOwned, NEW r \in Requests, NEW l, Goto(r, l),
         composeStarted \subseteq composeStarted',
         \/ tunnels' = tunnels
         \/ tunnels' = [tunnels EXCEPT ![S(r)] = None],
         \/ l \in {"setup", "starting", "failing"}
         \/ pc[r] \notin {"setup", "starting", "failing"}
         \/ r \in composeStarted'
         \/ tunnels'[S(r)] = None
  PROVE  RoutesOwned'
BY RequestsAssumption, SessionOfType
   DEF RoutesOwned, TypeOK, HandlerTypes, SurfaceTypes, Goto

\* Routes always lead to started services or belong to an `up` at work.
LEMMA RoutesStep == TypeOK /\ RoutesOwned /\ [Next]_vars => RoutesOwned'
<1> SUFFICES ASSUME TypeOK, RoutesOwned, [Next]_vars PROVE RoutesOwned'
    OBVIOUS
<1>1. CASE UNCHANGED vars
  BY <1>1 DEF vars, RoutesOwned, handlerVars, deployVars, surfaceVars
<1>2. ASSUME NEW r \in Requests, Handle(r) PROVE RoutesOwned'
  <2>1. tunnels' = tunnels /\ composeStarted' = composeStarted
    BY <1>2 DEF Handle, Resolve, AbortActiveUp, Drained, DrainTimeout, BeginOk, BeginBusy,
       deployVars, surfaceVars
  <2>2. pc[r] \in Unbegun
    BY <1>2 DEF Handle, Resolve, AbortActiveUp, Drained, DrainTimeout, BeginOk, BeginBusy, Unbegun
  <2>3. \E l : Goto(r, l)
    BY <1>2, ResolveShape DEF Handle, AbortActiveUp, Drained, DrainTimeout, BeginOk, BeginBusy,
       Goto
  <2>4. QED
    BY <2>1, <2>2, <2>3, RoutesFrame DEF Unbegun
<1>3. ASSUME NEW r \in Requests, Up(r) PROVE RoutesOwned'
  <2>1. CASE UpPrepare(r)
    BY <2>1, RequestsAssumption, SessionOfType
       DEF UpPrepare, RoutesOwned, TypeOK, HandlerTypes, SurfaceTypes, Goto
  <2>2. CASE UpReset(r)
    BY <2>2, RoutesFrame DEF UpReset
  <2>3. CASE UpCatch(r)
    <3>1. tunnels'[S(r)] = None \/ r \in composeStarted'
      BY <2>3, SessionOfType DEF UpCatch, RoutesAfterFailure, deployVars, TypeOK, SurfaceTypes
    <3>2. \E l : Goto(r, l)
      BY <2>3 DEF UpCatch, EndQuietly, FinishUp, Finish
    <3>3. QED
      BY <2>3, <3>1, <3>2, RoutesFrame DEF UpCatch, RoutesAfterFailure, deployVars
  <2>4. CASE UpStart(r) \/ UpStartFails(r) \/ UpSetup(r)
    BY <2>4, RoutesFrame DEF UpStart, UpStartFails, UpSetup, AfterSetup, surfaceVars
  <2>5. CASE UpError(r)
    BY <2>5, RoutesFrame DEF UpError, deployVars, surfaceVars
  <2>6. CASE UpConfigured(r) \/ UpDiscover(r) \/ UpHealthy(r) \/ UpInterrupted(r)
    BY <2>6, RoutesFrame DEF UpConfigured, UpDiscover, UpHealthy, UpInterrupted, deployVars,
       surfaceVars
  <2>7. CASE UpSucceeds(r) \/ UpFails(r)
    BY <2>7, RoutesFrame DEF UpSucceeds, UpFails, FinishUp, Finish, surfaceVars
  <2>8. QED
    BY <1>3, <2>1, <2>2, <2>3, <2>4, <2>5, <2>6, <2>7 DEF Up
<1>4. ASSUME NEW r \in Requests, Teardown(r) \/ Other(r) PROVE RoutesOwned'
  <2>1. /\ composeStarted' = composeStarted
        /\ tunnels' = tunnels \/ tunnels' = [tunnels EXCEPT ![S(r)] = None]
    BY <1>4 DEF Teardown, Other, DownStop, DownFails, DownCleanup, DownEnds, RemoveStop,
       RemoveCleanup, RemoveWorktree, CreateWorktree, ServiceEnds, ServiceFails, DropSurfaces,
       deployVars, surfaceVars
  <2>2. pc[r] \in OtherLabels
    BY <1>4 DEF Teardown, Other, DownStop, DownFails, DownCleanup, DownEnds, RemoveStop,
       RemoveCleanup, RemoveWorktree, CreateWorktree, ServiceEnds, ServiceFails, OtherLabels
  <2>3. \E l : Goto(r, l)
    BY <1>4, OtherShape DEF Moves, Ends, Finish, Goto
  <2>4. QED
    BY <2>1, <2>2, <2>3, RoutesFrame DEF OtherLabels
<1>5. ASSUME NEW r \in Requests, StartMonitor(r) PROVE RoutesOwned'
  BY <1>5 DEF StartMonitor, RoutesOwned, handlerVars, deployVars
<1>6. QED
  BY <1>1, <1>2, <1>3, <1>4, <1>5 DEF Next, Run

-----------------------------------------------------------------------------
(* What a `down` leaves                                                    *)

\* The runner of an `up` stays among its own places until it ends.
LEMMA UpStaysUp ==
  ASSUME LockInv, NEW r \in Requests, Up(r)
  PROVE  /\ kind[r] = "up" /\ UNCHANGED kind
         /\ \E l \in UpControl \cup {"done"} : Goto(r, l)
<1> USE DEF LockInv, RunnersRun, UpLabels, UpControl, OtherLabels, Unbegun, Goto
<1>1. pc[r] \in UpLabels
  BY DEF Up, UpConfigured, UpReset, UpPrepare, UpSetup, UpStart, UpStartFails, UpDiscover,
     UpHealthy, UpInterrupted, UpError, UpSucceeds, UpCatch, UpFails
<1>2. CASE Moves(r)
  BY <1>1, <1>2 DEF Moves
<1>3. CASE EndsUp(r) \/ UpConfigured(r)
  BY <1>1, <1>3 DEF EndsUp, FinishUp, Finish, UpConfigured, configVars
<1>4. QED
  BY <1>1, <1>2, <1>3, UpShape

DownInv == HolderIsLatest /\ KindOfRunner /\ DownHoldsTheLine /\ DownClearsSurfaces

\* Only the holder of a session touches its routes and its failure marker.
LEMMA OnlyHolderTouches ==
  ASSUME TypeOK, LockInv, [Next]_vars, NEW s \in Sessions,
         tunnels'[s] # tunnels[s] \/ (s \in upFailure') # (s \in upFailure)
  PROVE  \E r \in Requests : S(r) = s /\ r \in Working /\ (Up(r) \/ Teardown(r))
<1>1. PICK r \in Requests : Up(r) \/ Teardown(r)
  BY DEF Next, Handle, Run, Other, vars, deployVars, surfaceVars, Resolve, AbortActiveUp, Drained,
     DrainTimeout, BeginOk, BeginBusy, CreateWorktree, ServiceEnds, ServiceFails, StartMonitor
<1>2. r \in Working
  BY <1>1 DEF Up, Teardown, UpConfigured, UpReset, UpPrepare, UpSetup, UpStart, UpStartFails,
     UpDiscover, UpHealthy, UpInterrupted, UpError, UpSucceeds, UpCatch, UpFails, DownStop,
     DownFails, DownCleanup, DownEnds, RemoveStop, RemoveCleanup, RemoveWorktree,
     LockInv, RunnersRun, Working, UpLabels, UpControl, OtherLabels
<1>3. S(r) = s
  BY <1>1, SessionOfType
     DEF TypeOK, SurfaceTypes, DeployTypes, Up, Teardown, UpConfigured, UpReset, UpPrepare, UpSetup,
     UpStart, UpStartFails, UpDiscover, UpHealthy, UpInterrupted, UpError, UpSucceeds, UpCatch,
     RoutesAfterFailure, UpFails, DownStop, DownFails, DownCleanup, DownEnds, DropSurfaces,
     RemoveStop, RemoveCleanup, RemoveWorktree, deployVars, surfaceVars
<1>4. QED
  BY <1>1, <1>2, <1>3

LEMMA HolderIsLatestStep == TypeOK /\ LockInv /\ HolderIsLatest /\ [Next]_vars => HolderIsLatest'
<1> SUFFICES ASSUME TypeOK, LockInv, HolderIsLatest, [Next]_vars PROVE HolderIsLatest'
    OBVIOUS
<1> USE SessionOfType DEF TypeOK, RegistryTypes, HolderIsLatest, registryVars
<1>1. CASE Idle
  BY <1>1 DEF Idle
<1>2. ASSUME NEW r \in Requests, Resolve(r) \/ BeginBusy(r) \/ UpConfigured(r) \/ Moves(r)
      PROVE  HolderIsLatest'
  BY <1>2 DEF Resolve, BeginBusy, UpConfigured, Moves
<1>3. ASSUME NEW r \in Requests, BeginOk(r) PROVE HolderIsLatest'
  BY <1>3 DEF BeginOk
<1>4. ASSUME NEW r \in Requests, Ends(r) \/ EndsUp(r) PROVE HolderIsLatest'
  BY <1>4 DEF Ends, EndsUp, FinishUp, Finish
<1>5. QED
  BY <1>1, <1>2, <1>3, <1>4, StepShape

LEMMA KindOfRunnerStep == TypeOK /\ LockInv /\ KindOfRunner /\ [Next]_vars => KindOfRunner'
<1> SUFFICES ASSUME TypeOK, LockInv, KindOfRunner, [Next]_vars PROVE KindOfRunner'
    OBVIOUS
<1> USE DEF TypeOK, HandlerTypes, KindOfRunner, Goto, configVars
<1>1. CASE UNCHANGED vars
  BY <1>1 DEF vars, handlerVars
<1>2. ASSUME NEW r \in Requests, Handle(r) PROVE KindOfRunner'
  <2>1. CASE Resolve(r)
    BY <2>1, ResolveShape
  <2>2. CASE BeginOk(r)
    <3>1. kind[r] = "down" => FirstStep(r) = "stop-services"
      BY DEF FirstStep
    <3>2. QED
      BY <2>2, <3>1 DEF BeginOk
  <2>3. QED
    BY <1>2, <2>1, <2>2 DEF Handle, AbortActiveUp, Drained, DrainTimeout, BeginBusy
<1>3. ASSUME NEW r \in Requests, Up(r) PROVE KindOfRunner'
  BY <1>3, UpStaysUp DEF UpControl
<1>4. ASSUME NEW r \in Requests, Teardown(r) \/ Other(r) PROVE KindOfRunner'
  BY <1>4 DEF Teardown, Other, DownStop, DownFails, DownCleanup, DownEnds, RemoveStop,
       RemoveCleanup, RemoveWorktree, CreateWorktree, ServiceEnds, ServiceFails, Finish
<1>5. ASSUME NEW r \in Requests, StartMonitor(r) PROVE KindOfRunner'
  BY <1>5 DEF StartMonitor, handlerVars
<1>6. QED
  BY <1>1, <1>2, <1>3, <1>4, <1>5 DEF Next, Run

\* A `down` reaches its last step only from the cleanup, and succeeds only
\* from there.
LEMMA DownEndsProperly ==
  ASSUME TypeOK, LockInv, KindOfRunner, [Next]_vars, NEW r \in Requests
  PROVE  /\ pc'[r] = "down-end" => pc[r] = "down-end" \/ DownCleanup(r)
         /\ kind'[r] = "down" /\ status'[r] = "succeeded"
              => kind[r] = "down" /\ (status[r] = "succeeded" \/ DownEnds(r))
<1> DEFINE Goal == /\ pc'[r] = "down-end" => pc[r] = "down-end" \/ DownCleanup(r)
                   /\ kind'[r] = "down" /\ status'[r] = "succeeded"
                        => kind[r] = "down" /\ (status[r] = "succeeded" \/ DownEnds(r))
<1> USE DEF TypeOK, HandlerTypes, RegistryTypes, Goto, configVars, registryVars
<1>1. CASE UNCHANGED vars
  BY <1>1 DEF vars, handlerVars
<1>2. ASSUME NEW q \in Requests, Handle(q) PROVE Goal
  <2>1. CASE Resolve(q)
    BY <2>1, ResolveShape DEF LockInv, RunnersRun, Unbegun
  <2>2. CASE BeginOk(q)
    <3>1. FirstStep(q) # "down-end"
      BY DEF FirstStep
    <3>2. QED
      BY <2>2, <3>1 DEF BeginOk
  <2>3. QED
    BY <1>2, <2>1, <2>2 DEF Handle, AbortActiveUp, Drained, DrainTimeout, BeginBusy
<1>3. ASSUME NEW q \in Requests, Up(q) PROVE Goal
  <2>1. CASE r = q
    BY <1>3, <2>1, UpStaysUp DEF UpControl
  <2>2. CASE r # q
    BY <1>3, <2>2, UpStaysUp, UpShape DEF Moves, EndsUp, FinishUp, Finish, UpConfigured
  <2>3. QED
    BY <2>1, <2>2
<1>4. ASSUME NEW q \in Requests, Teardown(q) \/ Other(q) PROVE Goal
  BY <1>4 DEF Teardown, Other, DownStop, DownFails, DownCleanup, DownEnds, RemoveStop,
     RemoveCleanup, RemoveWorktree, CreateWorktree, ServiceEnds, ServiceFails, Finish, KindOfRunner
<1>5. ASSUME NEW q \in Requests, StartMonitor(q) PROVE Goal
  BY <1>5 DEF StartMonitor, handlerVars
<1>6. QED
  BY <1>1, <1>2, <1>3, <1>4, <1>5 DEF Next, Run

LEMMA DownStep ==
  TypeOK /\ LockInv /\ DownInv /\ [Next]_vars => DownInv'
<1> SUFFICES ASSUME TypeOK, LockInv, DownInv, [Next]_vars PROVE DownInv'
    OBVIOUS
<1> USE DEF DownInv
<1>1. ASSUME NEW r \in Requests, kind'[r] = "down", pc'[r] = "down-end"
      PROVE  tunnels'[S(r)] = None
  <2>1. CASE DownCleanup(r)
    BY <2>1, SessionOfType DEF DownCleanup, DropSurfaces, TypeOK, SurfaceTypes
  <2>2. CASE ~DownCleanup(r)
    <3>1. pc[r] = "down-end" /\ r \in Working
      BY <1>1, <2>2, DownEndsProperly DEF LockInv, RunnersRun, OtherLabels, Working
    <3>2. kind[r] = "down"
      BY <1>1, <3>1, StepShape, ResolveShape DEF Idle, BeginOk, BeginBusy, UpConfigured, Moves, Ends,
         EndsUp, configVars, TypeOK, HandlerTypes
    <3>3. tunnels[S(r)] = None
      BY <3>1, <3>2 DEF DownHoldsTheLine
    <3>4. CASE tunnels'[S(r)] # tunnels[S(r)]
      <4>1. PICK q \in Requests : S(q) = S(r) /\ q \in Working /\ (Up(q) \/ Teardown(q))
        BY <3>4, SessionOfType, OnlyHolderTouches
      <4>2. q = r
        BY <4>1, <3>1, SessionOfType DEF LockInv, SessionExclusive
      <4>3. DownEnds(r)
        BY <4>1, <4>2, <3>1 DEF Up, Teardown, UpConfigured, UpReset, UpPrepare, UpSetup, UpStart,
           UpStartFails, UpDiscover, UpHealthy, UpInterrupted, UpError, UpSucceeds, UpCatch,
           UpFails, DownStop, DownFails, DownCleanup, RemoveStop, RemoveCleanup, RemoveWorktree
      <4>4. QED
        BY <3>4, <4>3 DEF DownEnds, surfaceVars
    <3>5. QED
      BY <3>3, <3>4
  <2>3. QED
    BY <2>1, <2>2
<1>2. ASSUME NEW r \in Requests, kind'[r] = "down", status'[r] = "succeeded", latest'[S(r)] = r
      PROVE  tunnels'[S(r)] = None /\ S(r) \notin upFailure'
  <2>1. CASE DownEnds(r)
    BY <1>2, <2>1, DownEndsProperly DEF DownEnds, DownHoldsTheLine, surfaceVars
  <2>2. CASE ~DownEnds(r)
    <3>1. kind[r] = "down" /\ status[r] = "succeeded"
      BY <1>2, <2>2, DownEndsProperly
    <3>2. latest[S(r)] = r
      BY <1>2, StepShape, ResolveShape, SessionOfType DEF Idle, BeginOk, BeginBusy, UpConfigured, Moves,
         Ends, EndsUp, FinishUp, Finish, TypeOK, RegistryTypes, registryVars
    <3>3. tunnels[S(r)] = None /\ S(r) \notin upFailure
      BY <3>1, <3>2 DEF DownClearsSurfaces, LastWord
    <3>4. CASE tunnels'[S(r)] # tunnels[S(r)] \/ (S(r) \in upFailure') # (S(r) \in upFailure)
      <4>1. PICK q \in Requests : S(q) = S(r) /\ q \in Working
        BY <3>4, SessionOfType, OnlyHolderTouches
      <4>2. latest[S(r)] = q
        BY <4>1, SessionOfType, RequestsAssumption DEF LockInv, SessionExclusive, HolderIsLatest
      <4>3. QED
        BY <3>1, <3>2, <4>1, <4>2 DEF Working
    <3>5. QED
      BY <3>3, <3>4
  <2>3. QED
    BY <2>1, <2>2
<1>3. DownHoldsTheLine' /\ DownClearsSurfaces'
  BY <1>1, <1>2 DEF DownHoldsTheLine, DownClearsSurfaces, LastWord
<1>4. QED
  BY <1>3, HolderIsLatestStep, KindOfRunnerStep

-----------------------------------------------------------------------------
(* The theorems                                                            *)

LEMMA InitIInv == Init => IInv
<1> SUFFICES ASSUME Init PROVE IInv
    OBVIOUS
<1> USE DEF Init
<1>1. TypeOK
  BY DEF TypeOK, RegistryTypes, ControlTypes, HandlerTypes, DeployTypes, SurfaceTypes,
         Labels, WosState, NoState
<1>2. RunnersRun /\ SessionExclusive /\ ControlOfRunner /\ RefusedNeverBegan
  BY RequestsAssumption, SessionOfType
     DEF RunnersRun, SessionExclusive, ControlOfRunner, RefusedNeverBegan, Working, Unbegun,
         UpLabels, UpControl, OtherLabels
<1>3. RoutesOwned /\ StartedAfterSetup
  BY RequestsAssumption DEF RoutesOwned, StartedAfterSetup
<1>4. HolderIsLatest /\ KindOfRunner /\ DownHoldsTheLine /\ DownClearsSurfaces
  BY DEF HolderIsLatest, KindOfRunner, DownHoldsTheLine, DownClearsSurfaces, LastWord
<1>5. QED
  BY <1>1, <1>2, <1>3, <1>4 DEF IInv

LEMMA StepIInv == IInv /\ [Next]_vars => IInv'
BY TypeStep, LockStep, StartedStep, RoutesStep, DownStep DEF IInv, LockInv, DownInv

\* The invariant that carries the others holds of every execution.
THEOREM Invariance == Spec => []IInv
BY InitIInv, StepIInv, PTL DEF Spec

\* The registry, the handlers, the state files and the surfaces only ever
\* hold values of their kind: in particular nothing aborts an `up` that is
\* not there.
THEOREM TypeCorrect == Spec => []TypeOK
<1>1. IInv => TypeOK
  BY DEF IInv
<1>2. QED
  BY <1>1, Invariance, PTL

\* OperationRegistry: one mutating operation per session, and the index
\* names it.
THEOREM Exclusive == Spec => []SessionExclusive
<1>1. IInv => SessionExclusive
  BY DEF IInv
<1>2. QED
  BY <1>1, Invariance, PTL

\* abortActiveUp only ever aborts the `up` that holds the session.
THEOREM AbortHitsTheHolder == Spec => []ControlIsHolder
<1>1. IInv => ControlIsHolder
  <2> SUFFICES ASSUME IInv, NEW s \in Sessions, activeUp[s] # None
               PROVE  activeUp[s] = activeMutating[s] /\ kind[activeUp[s]] = "up"
    BY DEF ControlIsHolder
  <2>1. activeUp[s] \in Requests
    BY DEF IInv, TypeOK, ControlTypes
  <2>2. S(activeUp[s]) = s /\ pc[activeUp[s]] \in UpControl
    BY <2>1 DEF IInv, ControlOfRunner
  <2>3. activeUp[s] \in Working /\ kind[activeUp[s]] = "up"
    BY <2>1, <2>2 DEF IInv, RunnersRun, UpLabels, Working
  <2>4. QED
    BY <2>1, <2>2, <2>3 DEF IInv, SessionExclusive
<1>2. QED
  BY <1>1, Invariance, PTL

\* The tunnel routes of a quiet session lead to services that were started.
THEOREM RoutesLead == Spec => []RoutesReachServices
<1>1. IInv => RoutesReachServices
  <2> SUFFICES ASSUME IInv, NEW s \in Sessions, activeMutating[s] = None, tunnels[s] # None
               PROVE  tunnels[s] \in composeStarted
    BY DEF RoutesReachServices
  <2>1. tunnels[s] \in Requests
    BY DEF IInv, TypeOK, SurfaceTypes
  <2>2. /\ S(tunnels[s]) = s
        /\ \/ tunnels[s] \in composeStarted
           \/ pc[tunnels[s]] \in {"setup", "starting", "failing"}
    BY <2>1 DEF IInv, RoutesOwned
  <2>3. tunnels[s] \notin Working
    BY <2>1, <2>2, RequestsAssumption DEF IInv, SessionExclusive
  <2>4. QED
    BY <2>1, <2>2, <2>3 DEF IInv, RunnersRun, Working, UpLabels, UpControl
<1>2. QED
  BY <1>1, Invariance, PTL

\* A successful `down` leaves no route and no failure marker, whatever ran,
\* failed or was aborted before it.
THEOREM DownClears == Spec => []DownClearsSurfaces
<1>1. IInv => DownClearsSurfaces
  BY DEF IInv
<1>2. QED
  BY <1>1, Invariance, PTL

\* The two together: what the daemon shows of a deployment is what there is.
THEOREM Surfaces == Spec => []SurfacesMatch
<1>1. RoutesReachServices /\ DownClearsSurfaces => SurfacesMatch
  BY DEF SurfacesMatch
<1>2. QED
  BY <1>1, RoutesLead, DownClears, PTL

-----------------------------------------------------------------------------
(* Refinement: the handlers and the registry implement the session lock    *)

LEMMA LockInit == Init => Lock!Init
BY DEF Init, Lock!Init, LockOutcome

\* Steps that neither begin, refuse nor end an operation stutter.
LEMMA LockStutter ==
  ASSUME UNCHANGED <<registryVars, busyWith>>
  PROVE  UNCHANGED Lock!vars
BY DEF Lock!vars, LockOutcome, registryVars

LEMMA LockAcquire ==
  ASSUME TypeOK, LockInv, NEW r \in Requests, BeginOk(r)
  PROVE  Lock!Acquire(r)
<1> USE SessionOfType, RequestsAssumption DEF TypeOK, HandlerTypes, RegistryTypes
<1>1. pc[r] = "begin" /\ status[r] = "none" /\ busyWith[r] = None
  BY DEF BeginOk, LockInv, RunnersRun, RefusedNeverBegan, Unbegun
<1>2. activeMutating[S(r)] = None
  BY DEF BeginOk, Conflict, LockInv, SessionExclusive, Working
<1>3. LockOutcome[r] = "pending"
  BY <1>1 DEF LockOutcome
<1>4. LockOutcome' = [LockOutcome EXCEPT ![r] = "running"]
  BY <1>1 DEF BeginOk, LockOutcome
<1>5. QED
  BY <1>2, <1>3, <1>4 DEF BeginOk, Lock!Acquire, S

LEMMA LockRefuse ==
  ASSUME TypeOK, LockInv, NEW r \in Requests, BeginBusy(r)
  PROVE  Lock!Refuse(r)
<1> USE SessionOfType, RequestsAssumption DEF TypeOK, HandlerTypes, RegistryTypes
<1>1. pc[r] = "begin" /\ status[r] = "none" /\ busyWith[r] = None
  BY DEF BeginBusy, LockInv, RunnersRun, RefusedNeverBegan, Unbegun
<1>2. Conflict(S(r)) = activeMutating[S(r)] /\ activeMutating[S(r)] # None
  BY DEF BeginBusy, Conflict
<1>3. LockOutcome[r] = "pending"
  BY <1>1 DEF LockOutcome
<1>4. LockOutcome' = [LockOutcome EXCEPT ![r] = "refused"]
  BY <1>1, <1>2 DEF BeginBusy, LockOutcome, registryVars
<1>5. QED
  BY <1>2, <1>3, <1>4 DEF BeginBusy, Lock!Refuse, S, registryVars

LEMMA LockRelease ==
  ASSUME TypeOK, LockInv, NEW r \in Requests, Ends(r) \/ EndsUp(r)
  PROVE  Lock!Release(r)
<1> USE SessionOfType, RequestsAssumption DEF TypeOK, HandlerTypes, RegistryTypes
<1>1. PICK outcome \in Outcomes : Finish(r, outcome) /\ busyWith' = busyWith
  BY DEF Ends, EndsUp, FinishUp
<1>2. r \in Working /\ busyWith[r] = None
  BY DEF Ends, EndsUp, LockInv, RunnersRun, RefusedNeverBegan, UpLabels, Working
<1>3. activeMutating[S(r)] = r
  BY <1>2 DEF LockInv, SessionExclusive
<1>4. LockOutcome' = [LockOutcome EXCEPT ![r] = "ended"]
  BY <1>1, <1>2 DEF Finish, LockOutcome, Outcomes
<1>5. activeMutating' = [activeMutating EXCEPT ![S(r)] = None]
  BY <1>1, <1>3 DEF Finish
<1>6. QED
  BY <1>1, <1>3, <1>4, <1>5 DEF Lock!Release, S

LEMMA LockSteps == TypeOK /\ LockInv /\ [Next]_vars => [Lock!Next]_Lock!vars
<1> SUFFICES ASSUME TypeOK, LockInv, [Next]_vars PROVE [Lock!Next]_Lock!vars
    OBVIOUS
<1>1. CASE Idle
  BY <1>1, LockStutter DEF Idle
<1>2. ASSUME NEW r \in Requests, Resolve(r) \/ UpConfigured(r) \/ Moves(r)
      PROVE  UNCHANGED Lock!vars
  BY <1>2, LockStutter DEF Resolve, UpConfigured, Moves
<1>3. QED
  BY <1>1, <1>2, LockAcquire, LockRefuse, LockRelease, StepShape DEF Lock!Next

\* Whatever requests arrive in whatever order, what clients see of begin,
\* conflict and finish is a lock per session: granted only when free, refused
\* only in the name of the operation that holds it, released by its holder.
THEOREM Refinement == Spec => LockRefined
<1>1. IInv => TypeOK /\ LockInv
  BY DEF IInv, LockInv
<1>2. QED
  BY <1>1, Invariance, LockInit, LockSteps, PTL DEF Spec, LockRefined, Lock!Spec

-----------------------------------------------------------------------------
(* Stopping during setup                                                   *)

\* An `up` that was told to stop before its last check, and what becomes of it.
StoppedInTime(r) ==
  /\ r \in aborted /\ r \notin composeStarted
  /\ pc[r] \in BeforeStart \cup {"failing", "reporting", "done"}

LEMMA StoppedInTimeStays ==
  ASSUME IInv, [Next]_vars, NEW r \in Requests, StoppedInTime(r)
  PROVE  StoppedInTime(r)'
<1> USE DEF StoppedInTime, BeforeStart, IInv, TypeOK, HandlerTypes, Goto
<1>1. CASE UNCHANGED vars
  BY <1>1 DEF vars, controlVars, handlerVars, deployVars
<1>2. ASSUME NEW q \in Requests, Handle(q) PROVE StoppedInTime(r)'
  BY <1>2, ResolveShape DEF Handle, Resolve, AbortActiveUp, Drained, DrainTimeout, BeginOk,
     BeginBusy, controlVars, deployVars
<1>3. ASSUME NEW q \in Requests, Up(q) PROVE StoppedInTime(r)'
  <2>1. CASE UpStart(q)
    BY <2>1 DEF UpStart, controlVars
  <2>2. CASE UpSetup(q)
    BY <2>2 DEF UpSetup, AfterSetup, controlVars
  <2>3. CASE ~UpStart(q) /\ ~UpSetup(q)
    BY <1>3, <2>3 DEF Up, UpConfigured, UpReset, UpPrepare, UpStartFails, UpDiscover, UpHealthy,
       UpInterrupted, UpError, UpSucceeds, UpCatch, UpFails, EndQuietly, FinishUp, Finish,
       controlVars, deployVars
  <2>4. QED
    BY <2>1, <2>2, <2>3
<1>4. ASSUME NEW q \in Requests, Teardown(q) \/ Other(q) \/ StartMonitor(q)
      PROVE  StoppedInTime(r)'
  BY <1>4 DEF Teardown, Other, StartMonitor, DownStop, DownFails, DownCleanup, DownEnds, RemoveStop,
     RemoveCleanup, RemoveWorktree, CreateWorktree, ServiceEnds, ServiceFails, Finish,
     controlVars, handlerVars, deployVars
<1>5. QED
  BY <1>1, <1>2, <1>3, <1>4 DEF Next, Run

\* A stop that arrives while an `up` is still being set up keeps it from ever
\* starting a service, in every deployment mode (throwIfDeploymentCancelled
\* just before the services are started).
THEOREM NothingStartsAfterStop == Spec => StopDuringSetup
<1> SUFFICES ASSUME NEW r \in Requests
             PROVE  Spec => [](r \in aborted /\ pc[r] \in BeforeStart => [](r \notin composeStarted))
    BY DEF StopDuringSetup
<1>1. IInv /\ r \in aborted /\ pc[r] \in BeforeStart => StoppedInTime(r)
  BY DEF IInv, StartedAfterSetup, StoppedInTime
<1>2. IInv /\ [Next]_vars /\ StoppedInTime(r) => StoppedInTime(r)'
  BY StoppedInTimeStays
<1>3. StoppedInTime(r) => r \notin composeStarted
  BY DEF StoppedInTime
<1>4. QED
  BY <1>1, <1>2, <1>3, Invariance, PTL DEF Spec

-----------------------------------------------------------------------------
(* What a `down` leaves running: LeaksNeedALapse.  The invariant relates   *)
(* what runs to what the state file records, and the state a request       *)
(* resolved to the file it came from.  It is stated request by request and *)
(* session by session, because a step disturbs only its own request and,   *)
(* when that request holds the session, its own session (OwnEffect); so    *)
(* every action is looked at once, for its own request and session, and    *)
(* OthersKeep and ElsewhereKeeps take care of the rest.                    *)

\* No operation of the session has lapsed so far.
Clean(s) == \A q \in staleCtx \cup swallowed : S(q) # s

ServiceKinds == {"service-stop", "service-restart"}

\* What a request may assume where it is suspended: the state it resolved is
\* the file's from begin to its first effect, unless it was overtaken before.
CtxCurrent(r) ==
  /\ pc[r] \in {"stop-services", "remove-services", "service"} /\ r \notin staleCtx
       => ctx[r] = stateFile[S(r)]
  /\ pc[r] \in {"stopping", "draining"} => kind[r] = "down"
  /\ pc[r] = "service" => kind[r] \in ServiceKinds
  /\ pc[r] \in {"begin", "service"} /\ kind[r] \in ServiceKinds => ctx[r].initialized

\* Setup of a docker deployment is recorded before its services start.
SetUpBeforeStart(r) ==
  pc[r] \in {"starting", "started"} /\ ~Shell(S(r)) => stateFile[S(r)].initialized

\* Where nothing of a clean session can be running.
NothingRuns(r) ==
  Clean(S(r)) =>
    /\ pc[r] \in {"setup", "starting", "down-cleanup", "down-end", "remove-cleanup"}
         => running[S(r)] = {}
    /\ pc[r] = "started" /\ Shell(S(r)) => running[S(r)] \subseteq {r}

ShellRecords(s) ==
  Shell(s) /\ ~stateFile[s].initialized => stateFile[s].services = None

\* What runs in a clean session is in its state file, except for the
\* processes an `up` has spawned and is about to record.
Recorded(s) ==
  Clean(s) => \A q \in running[s] :
    \/ stateFile[s].initialized /\ (Shell(s) => stateFile[s].services = q)
    \/ Shell(s) /\ S(q) = s /\ pc[q] = "started"

RequestInv(r) == CtxCurrent(r) /\ SetUpBeforeStart(r) /\ NothingRuns(r)
SessionInv(s) == ShellRecords(s) /\ Recorded(s)

LeakInv ==
  /\ \A r \in Requests : RequestInv(r)
  /\ \A s \in Sessions : SessionInv(s)

-----------------------------------------------------------------------------
(* What a step leaves alone                                                *)

\* A step of r disturbs at most r itself and the session of r.
OwnEffect(r) ==
  /\ mode' = mode
  /\ \E l \in Labels : Goto(r, l)
  /\ \A q \in Requests \ {r} : kind'[q] = kind[q] /\ ctx'[q] = ctx[q]
  /\ \A s \in Sessions \ {S(r)} : stateFile'[s] = stateFile[s] /\ running'[s] = running[s]
  /\ staleCtx' \in {staleCtx, staleCtx \cup {r}}
  /\ swallowed' \in {swallowed, swallowed \cup {r}}
  /\ r \in Working \/ UNCHANGED <<stateFile, running>>

\* One request of a session is at work at a time.
LEMMA Alone ==
  ASSUME LockInv, NEW r \in Requests, r \in Working, NEW q \in Requests, q # r, S(q) = S(r)
  PROVE  pc[q] \notin UpLabels \cup OtherLabels
BY SessionOfType DEF LockInv, SessionExclusive, RunnersRun, Working

LEMMA OthersKeep ==
  ASSUME TypeOK, LockInv, NEW r \in Requests, OwnEffect(r),
         NEW q \in Requests, q # r, RequestInv(q)
  PROVE  RequestInv(q)'
<1> USE DEF OwnEffect, Goto, TypeOK, HandlerTypes, Shell, Clean
<1>1. pc'[q] = pc[q] /\ kind'[q] = kind[q] /\ ctx'[q] = ctx[q]
  OBVIOUS
<1>2. CASE S(q) = S(r) /\ r \in Working
  <2>1. pc[q] \notin UpLabels \cup OtherLabels
    BY <1>2, Alone
  <2>2. QED
    BY <1>1, <2>1 DEF RequestInv, CtxCurrent, SetUpBeforeStart, NothingRuns, UpLabels, UpControl,
       OtherLabels
<1>3. CASE ~(S(q) = S(r) /\ r \in Working)
  <2>1. stateFile'[S(q)] = stateFile[S(q)] /\ running'[S(q)] = running[S(q)]
    BY <1>3, SessionOfType
  <2>2. Clean(S(q))' => Clean(S(q))
    OBVIOUS
  <2>3. QED
    BY <1>1, <2>1, <2>2 DEF RequestInv, CtxCurrent, SetUpBeforeStart, NothingRuns
<1>4. QED
  BY <1>2, <1>3

LEMMA ElsewhereKeeps ==
  ASSUME TypeOK, NEW r \in Requests, OwnEffect(r), NEW s \in Sessions, s # S(r), SessionInv(s)
  PROVE  SessionInv(s)'
<1> USE DEF OwnEffect, Goto, TypeOK, HandlerTypes, DeployTypes, Shell, Clean
<1>1. ShellRecords(s)'
  BY DEF SessionInv, ShellRecords
<1>2. Clean(s)' => Clean(s)
  OBVIOUS
<1>3. \A q \in running[s] : S(q) = s => pc'[q] = pc[q]
  OBVIOUS
<1>4. Recorded(s)'
  BY <1>2, <1>3 DEF SessionInv, Recorded
<1>5. QED
  BY <1>1, <1>4 DEF SessionInv

\* A step that changes neither what runs nor what is recorded keeps the
\* session's part, unless an `up` forgets the processes it has spawned.
LEMMA QuietSession ==
  ASSUME TypeOK, NEW r \in Requests, OwnEffect(r), UNCHANGED <<stateFile, running>>,
         pc[r] # "started" \/ ~Shell(S(r)), SessionInv(S(r))
  PROVE  SessionInv(S(r))'
<1> USE DEF OwnEffect, Goto, TypeOK, HandlerTypes, DeployTypes, Shell, Clean
<1>1. ShellRecords(S(r))'
  BY DEF SessionInv, ShellRecords
<1>2. Clean(S(r))' => Clean(S(r))
  OBVIOUS
<1>3. \A q \in running[S(r)] : Shell(S(r)) /\ pc[q] = "started" => pc'[q] = pc[q]
  BY SessionOfType
<1>4. Recorded(S(r))'
  BY <1>2, <1>3 DEF SessionInv, Recorded
<1>5. QED
  BY <1>1, <1>4 DEF SessionInv

\* The places at which RequestInv says nothing.
Free == Labels \ {"stopping", "draining", "begin", "service", "stop-services", "remove-services",
                  "setup", "starting", "started", "down-cleanup", "down-end", "remove-cleanup"}

LEMMA FreeRequest ==
  ASSUME TypeOK, NEW r \in Requests, NEW l \in Free, Goto(r, l)
  PROVE  RequestInv(r)'
BY DEF Free, Goto, TypeOK, HandlerTypes, RequestInv, CtxCurrent, SetUpBeforeStart, NothingRuns

-----------------------------------------------------------------------------
(* Every step has an own effect only                                       *)

LEMMA HandleEffect ==
  ASSUME TypeOK, NEW r \in Requests, Handle(r)
  PROVE  OwnEffect(r) /\ UNCHANGED <<stateFile, running>>
<1> USE DEF TypeOK, HandlerTypes, OwnEffect, Goto, Labels, configVars, handlerVars, historyVars,
            deployVars
<1>1. CASE Resolve(r)
  <2>1. \E l \in {"begin", "stopping", "done"} : pc' = [pc EXCEPT ![r] = l]
    BY <1>1, ResolveShape
  <2>2. \A q \in Requests \ {r} : kind'[q] = kind[q]
    BY <1>1, ResolveShape
  <2>3. \A q \in Requests \ {r} : ctx'[q] = ctx[q]
    BY <1>1 DEF Resolve, ResolveUp, ResolveDown, ResolveService, ResolveRemove, ResolveCreate,
       ResolveInto, Answer400
  <2>4. UNCHANGED <<mode, stateFile, running, staleCtx, swallowed>>
    BY <1>1 DEF Resolve
  <2>5. QED
    BY <2>1, <2>2, <2>3, <2>4
<1>2. CASE AbortActiveUp(r) \/ Drained(r) \/ DrainTimeout(r) \/ BeginBusy(r)
  BY <1>2 DEF AbortActiveUp, Drained, DrainTimeout, BeginBusy
<1>3. CASE BeginOk(r)
  BY <1>3 DEF BeginOk, FirstStep
<1>4. QED
  BY <1>1, <1>2, <1>3 DEF Handle

LEMMA UpEffect ==
  ASSUME TypeOK, LockInv, NEW r \in Requests, Up(r)
  PROVE  OwnEffect(r)
<1> USE DEF TypeOK, HandlerTypes, DeployTypes, configVars, handlerVars, historyVars, deployVars
<1>1. r \in Working
  BY DEF Up, UpConfigured, UpReset, UpPrepare, UpSetup, UpStart, UpStartFails, UpDiscover,
     UpHealthy, UpInterrupted, UpError, UpSucceeds, UpCatch, UpFails,
     LockInv, RunnersRun, Working, UpLabels, UpControl
<1>2. \E l \in Labels : Goto(r, l)
  BY UpStaysUp DEF UpControl, Labels
<1>3. UNCHANGED <<mode, kind, ctx, staleCtx, swallowed>>
  BY DEF Up, UpConfigured, UpReset, UpPrepare, UpSetup, UpStart, UpStartFails, UpDiscover,
     UpHealthy, UpInterrupted, UpError, UpSucceeds, UpCatch, UpFails
<1>4. \A s \in Sessions \ {S(r)} : stateFile'[s] = stateFile[s] /\ running'[s] = running[s]
  <2>1. CASE UpPrepare(r) \/ UpSetup(r)
    BY <2>1 DEF UpPrepare, UpSetup
  <2>2. CASE UpStart(r) \/ UpStartFails(r) \/ UpDiscover(r)
    BY <2>2 DEF UpStart, UpStartFails, UpDiscover, RecordServices
  <2>3. CASE ~(UpPrepare(r) \/ UpSetup(r) \/ UpStart(r) \/ UpStartFails(r) \/ UpDiscover(r))
    BY <2>3 DEF Up, UpConfigured, UpReset, UpHealthy, UpInterrupted, UpError, UpSucceeds, UpCatch,
       UpFails
  <2>4. QED
    BY <2>1, <2>2, <2>3
<1>5. QED
  BY <1>1, <1>2, <1>3, <1>4 DEF OwnEffect

LEMMA OtherEffect ==
  ASSUME TypeOK, LockInv, NEW r \in Requests, Teardown(r) \/ Other(r)
  PROVE  OwnEffect(r)
<1> USE DEF TypeOK, HandlerTypes, DeployTypes, configVars, handlerVars, historyVars, deployVars
<1>1. r \in Working
  BY DEF Teardown, Other, DownStop, DownFails, DownCleanup, DownEnds, RemoveStop, RemoveCleanup,
     RemoveWorktree, CreateWorktree, ServiceEnds, ServiceFails, LockInv, RunnersRun, Working,
     OtherLabels
<1>2. \E l \in Labels : Goto(r, l)
  BY OtherShape DEF Moves, Ends, Finish, Goto, Labels
<1>3. UNCHANGED <<mode, kind, ctx, staleCtx>> /\ swallowed' \in {swallowed, swallowed \cup {r}}
  BY DEF Teardown, Other, DownStop, DownFails, DownCleanup, DownEnds, RemoveStop, RemoveCleanup,
     RemoveWorktree, CreateWorktree, ServiceEnds, ServiceFails
<1>4. \A s \in Sessions \ {S(r)} : stateFile'[s] = stateFile[s] /\ running'[s] = running[s]
  <2>1. CASE DownStop(r) \/ RemoveStop(r)
    BY <2>1 DEF DownStop, RemoveStop, StopServices
  <2>2. CASE ServiceEnds(r)
    BY <2>2 DEF ServiceEnds, StopService, RestartService
  <2>3. CASE ServiceFails(r) \/ RemoveCleanup(r)
    BY <2>3 DEF ServiceFails, RemoveCleanup
  <2>4. CASE DownFails(r) \/ DownCleanup(r) \/ DownEnds(r) \/ RemoveWorktree(r) \/ CreateWorktree(r)
    BY <2>4 DEF DownFails, DownCleanup, DownEnds, RemoveWorktree, CreateWorktree
  <2>5. QED
    BY <2>1, <2>2, <2>3, <2>4 DEF Teardown, Other
<1>5. QED
  BY <1>1, <1>2, <1>3, <1>4 DEF OwnEffect

LEMMA StepEffect ==
  ASSUME TypeOK, LockInv, [Next]_vars
  PROVE  \/ UNCHANGED <<mode, kind, pc, ctx, stateFile, running, historyVars>>
         \/ \E r \in Requests : OwnEffect(r) /\ (Handle(r) \/ Up(r) \/ Teardown(r) \/ Other(r))
<1>1. CASE UNCHANGED vars
  BY <1>1 DEF vars, configVars, handlerVars, deployVars
<1>2. ASSUME NEW r \in Requests, StartMonitor(r)
      PROVE  UNCHANGED <<mode, kind, pc, ctx, stateFile, running, historyVars>>
  BY <1>2 DEF StartMonitor, configVars, handlerVars, deployVars
<1>3. QED
  BY <1>1, <1>2, HandleEffect, UpEffect, OtherEffect DEF Next, Run

-----------------------------------------------------------------------------
(* The handlers, up to begin                                               *)

LEMMA HandleKeeps ==
  ASSUME TypeOK, LockInv, LeakInv, NEW r \in Requests, Handle(r)
  PROVE  RequestInv(r)' /\ SessionInv(S(r))'
<1> USE DEF TypeOK, HandlerTypes, Goto, configVars, handlerVars, historyVars, deployVars
<1>1. OwnEffect(r) /\ UNCHANGED <<stateFile, running>>
  BY HandleEffect
<1>2. pc[r] # "started"
  BY DEF Handle, Resolve, AbortActiveUp, Drained, DrainTimeout, BeginOk, BeginBusy
<1>3. SessionInv(S(r))'
  BY <1>1, <1>2, QuietSession, SessionOfType DEF LeakInv
<1>4. RequestInv(r)'
  <2>1. CASE Resolve(r)
    <3>1. CASE pc'[r] = "done"
      BY <2>1, <3>1, ResolveShape, FreeRequest DEF Free, Labels
    <3>2. CASE ~(pc'[r] = "done")
      <4>1. \/ pc'[r] = "stopping" /\ kind'[r] = "down"
            \/ pc'[r] = "begin" /\ (kind'[r] \in ServiceKinds => ctx'[r].initialized)
        BY <2>1, <3>2 DEF Resolve, ResolveUp, ResolveDown, ResolveService, ResolveRemove,
           ResolveCreate, ResolveInto, Answer400, Submit, ServiceKinds
      <4>2. QED
        BY <4>1 DEF RequestInv, CtxCurrent, SetUpBeforeStart, NothingRuns, ServiceKinds
    <3>3. QED
      BY <3>1, <3>2
  <2>2. CASE AbortActiveUp(r) \/ Drained(r) \/ DrainTimeout(r)
    <3>1. kind[r] = "down" /\ kind' = kind /\ pc'[r] \in {"begin", "draining"}
      BY <2>2 DEF AbortActiveUp, Drained, DrainTimeout, LeakInv, RequestInv, CtxCurrent
    <3>2. QED
      BY <3>1 DEF RequestInv, CtxCurrent, SetUpBeforeStart, NothingRuns, ServiceKinds
  <2>3. CASE BeginOk(r)
    <3>1. /\ kind' = kind /\ ctx' = ctx /\ pc'[r] = FirstStep(r)
          /\ r \notin staleCtx' => ctx[r] = stateFile[S(r)]
          /\ kind[r] \in ServiceKinds => ctx[r].initialized
      BY <2>3 DEF BeginOk, LeakInv, RequestInv, CtxCurrent
    <3>2. /\ FirstStep(r) \in {"configuring", "stop-services", "service", "remove-services",
                               "create-worktree"}
          /\ FirstStep(r) = "service" => kind[r] \in ServiceKinds
      BY DEF FirstStep, ServiceKinds
    <3>3. QED
      BY <1>1, <3>1, <3>2 DEF RequestInv, CtxCurrent, SetUpBeforeStart, NothingRuns
  <2>4. CASE BeginBusy(r)
    BY <2>4, FreeRequest DEF BeginBusy, Free, Labels
  <2>5. QED
    BY <2>1, <2>2, <2>3, <2>4 DEF Handle
<1>5. QED
  BY <1>3, <1>4

-----------------------------------------------------------------------------
(* The runners                                                             *)

\* While a request holds a clean session and has spawned nothing that is not
\* recorded, whatever runs there is in the state file ...
LEMMA AllRecorded ==
  ASSUME LockInv, NEW r \in Requests, r \in Working, pc[r] # "started",
         SessionInv(S(r)), Clean(S(r)), NEW q \in running[S(r)], q \in Requests
  PROVE  /\ stateFile[S(r)].initialized
         /\ Shell(S(r)) => stateFile[S(r)].services = q
<1>1. S(q) = S(r) => pc[q] # "started"
  BY Alone DEF UpLabels, UpControl
<1>2. QED
  BY <1>1 DEF SessionInv, Recorded

\* ... so that stopping what is recorded stops everything.
LEMMA StopStopsAll ==
  ASSUME TypeOK, LockInv, NEW r \in Requests, r \in Working, pc[r] # "started",
         SessionInv(S(r)), Clean(S(r))
  PROVE  /\ RunningAfterStop(S(r), stateFile[S(r)]) = {}
         /\ ~stateFile[S(r)].initialized => running[S(r)] = {}
<1>1. running[S(r)] \subseteq Requests
  BY SessionOfType DEF TypeOK, DeployTypes
<1>2. QED
  BY <1>1, AllRecorded DEF RunningAfterStop

\* A session in which nothing runs is recorded.
LEMMA EmptyIsRecorded ==
  ASSUME NEW s \in Sessions, Clean(s)' => running'[s] = {}
  PROVE  Recorded(s)'
BY DEF Recorded

LEMMA UpKeeps ==
  ASSUME TypeOK, LockInv, LeakInv, NEW r \in Requests, Up(r)
  PROVE  RequestInv(r)' /\ SessionInv(S(r))'
<1> USE DEF TypeOK, HandlerTypes, DeployTypes, Goto, configVars, handlerVars, historyVars, deployVars,
            Shell
<1>1. OwnEffect(r) /\ r \in Working /\ S(r) \in Sessions /\ UNCHANGED <<mode, staleCtx, swallowed>>
  <2>1. r \in Working
    BY DEF Up, UpConfigured, UpReset, UpPrepare, UpSetup, UpStart, UpStartFails, UpDiscover,
       UpHealthy, UpInterrupted, UpError, UpSucceeds, UpCatch, UpFails,
       LockInv, RunnersRun, Working, UpLabels, UpControl
  <2>2. UNCHANGED <<mode, staleCtx, swallowed>>
    BY DEF Up, UpConfigured, UpReset, UpPrepare, UpSetup, UpStart, UpStartFails, UpDiscover,
       UpHealthy, UpInterrupted, UpError, UpSucceeds, UpCatch, UpFails
  <2>3. QED
    BY <2>1, <2>2, UpEffect, SessionOfType
<1>2. RequestInv(r) /\ SessionInv(S(r)) /\ (Clean(S(r))' <=> Clean(S(r)))
  BY <1>1 DEF LeakInv, Clean
<1>3. CASE UpPrepare(r)
  <2>1. Clean(S(r)) => running'[S(r)] = {}
    BY <1>1, <1>2, <1>3, StopStopsAll DEF UpPrepare
  <2>2. ShellRecords(S(r))'
    BY <1>1, <1>2, <1>3 DEF UpPrepare, SessionInv, ShellRecords
  <2>3. RequestInv(r)'
    BY <1>2, <1>3, <2>1 DEF UpPrepare, RequestInv, CtxCurrent, SetUpBeforeStart, NothingRuns
  <2>4. QED
    BY <1>1, <1>2, <2>1, <2>2, <2>3, EmptyIsRecorded DEF SessionInv
<1>4. CASE UpSetup(r)
  <2>1. Clean(S(r)) => running'[S(r)] = {}
    BY <1>2, <1>4 DEF UpSetup, RequestInv, NothingRuns
  <2>2. ShellRecords(S(r))'
    BY <1>1, <1>2, <1>4 DEF UpSetup, SessionInv, ShellRecords
  <2>3. pc'[r] \in {"starting", "failing"} /\ (~Shell(S(r)) => stateFile'[S(r)].initialized)
    BY <1>1, <1>4 DEF UpSetup, AfterSetup, WosState
  <2>4. RequestInv(r)'
    BY <1>1, <1>2, <2>1, <2>3 DEF RequestInv, CtxCurrent, SetUpBeforeStart, NothingRuns
  <2>5. QED
    BY <1>1, <1>2, <2>1, <2>2, <2>4, EmptyIsRecorded DEF SessionInv
<1>5. CASE UpStart(r)
  <2>1. /\ Clean(S(r)) /\ Shell(S(r)) => running'[S(r)] = {r}
        /\ ~Shell(S(r)) => running'[S(r)] = {r} /\ stateFile[S(r)].initialized
    BY <1>1, <1>2, <1>5 DEF UpStart, RequestInv, NothingRuns, SetUpBeforeStart
  <2>2. RequestInv(r)'
    BY <1>2, <1>5, <2>1 DEF UpStart, RequestInv, CtxCurrent, SetUpBeforeStart, NothingRuns
  <2>3. QED
    BY <1>1, <1>2, <1>5, <2>1, <2>2 DEF UpStart, SessionInv, ShellRecords, Recorded
<1>6. CASE UpStartFails(r)
  <2>1. /\ Clean(S(r)) /\ Shell(S(r)) => running'[S(r)] = {}
        /\ ~Shell(S(r)) => stateFile[S(r)].initialized
    BY <1>1, <1>2, <1>6 DEF UpStartFails, RequestInv, NothingRuns, SetUpBeforeStart
  <2>2. RequestInv(r)'
    BY <1>6, FreeRequest DEF UpStartFails, Free, Labels
  <2>3. QED
    BY <1>1, <1>2, <1>6, <2>1, <2>2 DEF UpStartFails, SessionInv, ShellRecords, Recorded
<1>7. CASE UpDiscover(r)
  <2>1. Clean(S(r)) /\ Shell(S(r)) => running[S(r)] \subseteq {r}
    BY <1>2, <1>7 DEF UpDiscover, RequestInv, NothingRuns
  <2>2. RequestInv(r)'
    BY <1>7, FreeRequest DEF UpDiscover, Free, Labels
  <2>3. ~Shell(S(r)) => SessionInv(S(r))'
    BY <1>1, <1>2, <1>7, QuietSession DEF UpDiscover, RecordServices
  <2>4. Shell(S(r)) => SessionInv(S(r))'
    BY <1>1, <1>2, <1>7, <2>1
       DEF UpDiscover, RecordServices, SessionInv, ShellRecords, Recorded
  <2>5. QED
    BY <2>2, <2>3, <2>4
<1>8. CASE ~(UpPrepare(r) \/ UpSetup(r) \/ UpStart(r) \/ UpStartFails(r) \/ UpDiscover(r))
  <2>1. /\ UNCHANGED <<stateFile, running>>
        /\ pc[r] # "started" \/ ~Shell(S(r))
        /\ \E l \in Free : Goto(r, l)
    BY <1>8 DEF Up, UpConfigured, UpReset, UpHealthy, UpInterrupted, UpError, UpSucceeds, UpCatch,
       UpFails, EndQuietly, FinishUp, Finish, Free, Labels
  <2>2. QED
    BY <1>1, <1>2, <2>1, QuietSession, FreeRequest
<1>9. QED
  BY <1>3, <1>4, <1>5, <1>6, <1>7, <1>8

\* Stopping what an operation resolved, which is what is recorded unless the
\* operation was overtaken.
LEMMA StopServicesKeeps ==
  ASSUME TypeOK, LockInv, LeakInv, NEW r \in Requests, StopServices(r),
         OwnEffect(r), UNCHANGED <<staleCtx, swallowed>>,
         pc[r] \in {"stop-services", "remove-services"},
         pc'[r] \in {"down-cleanup", "remove-cleanup"}
  PROVE  RequestInv(r)' /\ SessionInv(S(r))'
<1> USE DEF TypeOK, HandlerTypes, DeployTypes, OwnEffect, Shell
<1>1. /\ r \in Working /\ S(r) \in Sessions /\ Clean(S(r))' = Clean(S(r))
      /\ RequestInv(r) /\ SessionInv(S(r))
  BY SessionOfType DEF LockInv, RunnersRun, OtherLabels, Working, Clean, LeakInv
<1>2. Clean(S(r)) => ctx[r] = stateFile[S(r)]
  BY <1>1 DEF RequestInv, CtxCurrent, Clean
<1>3. Clean(S(r)) => running'[S(r)] = {}
  <2>1. SUFFICES ASSUME Clean(S(r)) PROVE running'[S(r)] = {}
    OBVIOUS
  <2>2. pc[r] # "started"
    OBVIOUS
  <2>3. /\ RunningAfterStop(S(r), stateFile[S(r)]) = {}
        /\ ~stateFile[S(r)].initialized => running[S(r)] = {}
    BY <1>1, <2>1, <2>2, StopStopsAll
  <2>4. QED
    BY <1>1, <1>2, <2>1, <2>3 DEF StopServices
<1>4. ShellRecords(S(r))'
  BY <1>1 DEF StopServices, SessionInv, ShellRecords, WosState
<1>5. RequestInv(r)'
  BY <1>1, <1>3 DEF RequestInv, CtxCurrent, SetUpBeforeStart, NothingRuns
<1>6. QED
  BY <1>1, <1>3, <1>4, <1>5, EmptyIsRecorded DEF SessionInv

LEMMA TeardownKeeps ==
  ASSUME TypeOK, LockInv, LeakInv, NEW r \in Requests, Teardown(r)
  PROVE  RequestInv(r)' /\ SessionInv(S(r))'
<1> USE DEF TypeOK, HandlerTypes, DeployTypes, Goto, configVars, handlerVars, historyVars, deployVars
<1>1. OwnEffect(r) /\ S(r) \in Sessions /\ RequestInv(r) /\ SessionInv(S(r))
  BY OtherEffect, SessionOfType DEF LeakInv
<1>2. CASE DownStop(r)
  BY <1>1, <1>2, StopServicesKeeps DEF DownStop
<1>3. CASE RemoveStop(r) /\ StopServices(r) /\ UNCHANGED swallowed
  BY <1>1, <1>3, StopServicesKeeps DEF RemoveStop
<1>4. CASE RemoveStop(r) /\ swallowed' = swallowed \cup {r} /\ UNCHANGED <<running, stateFile>>
  <2>1. pc[r] = "remove-services" /\ pc'[r] = "remove-cleanup" /\ ~Clean(S(r))'
    BY <1>4 DEF RemoveStop, Clean
  <2>2. QED
    BY <1>1, <1>4, <2>1, QuietSession
       DEF RequestInv, CtxCurrent, SetUpBeforeStart, NothingRuns
<1>5. CASE RemoveCleanup(r)
  <2>1. Clean(S(r))' => running'[S(r)] = {}
    BY <1>1, <1>5 DEF RemoveCleanup, RequestInv, NothingRuns, Clean
  <2>2. ShellRecords(S(r))'
    BY <1>1, <1>5 DEF RemoveCleanup, ShellRecords, NoState
  <2>3. RequestInv(r)'
    BY <1>5, FreeRequest DEF RemoveCleanup, Free, Labels
  <2>4. QED
    BY <1>1, <2>1, <2>2, <2>3, EmptyIsRecorded DEF SessionInv
<1>6. CASE DownCleanup(r)
  <2>1. RequestInv(r)'
    BY <1>1, <1>6
       DEF DownCleanup, RequestInv, CtxCurrent, SetUpBeforeStart, NothingRuns, Clean
  <2>2. QED
    BY <1>1, <1>6, <2>1, QuietSession DEF DownCleanup
<1>7. CASE DownFails(r) \/ DownEnds(r) \/ RemoveWorktree(r)
  <2>1. /\ UNCHANGED <<stateFile, running>> /\ pc[r] # "started"
        /\ \E l \in Free : Goto(r, l)
    BY <1>7 DEF DownFails, DownEnds, RemoveWorktree, Finish, Free, Labels
  <2>2. QED
    BY <1>1, <2>1, QuietSession, FreeRequest
<1>8. QED
  BY <1>2, <1>3, <1>4, <1>5, <1>6, <1>7 DEF Teardown, RemoveStop

LEMMA OtherKeeps ==
  ASSUME TypeOK, LockInv, LeakInv, NEW r \in Requests, Other(r)
  PROVE  RequestInv(r)' /\ SessionInv(S(r))'
<1> USE DEF TypeOK, HandlerTypes, DeployTypes, Goto, configVars, handlerVars, historyVars, deployVars,
            Shell
<1>1. OwnEffect(r) /\ S(r) \in Sessions /\ RequestInv(r) /\ SessionInv(S(r))
  BY OtherEffect, SessionOfType DEF LeakInv
<1>2. RequestInv(r)'
  BY FreeRequest DEF Other, CreateWorktree, ServiceEnds, ServiceFails, Finish, Free, Labels
<1>3. CASE CreateWorktree(r)
  BY <1>1, <1>2, <1>3, QuietSession DEF CreateWorktree
<1>4. CASE ServiceEnds(r) \/ ServiceFails(r)
  <2>1. /\ r \in Working /\ pc[r] = "service" /\ ctx[r].initialized
        /\ UNCHANGED <<mode, staleCtx, swallowed>>
    BY <1>1, <1>4 DEF ServiceEnds, ServiceFails, LockInv, RunnersRun, OtherLabels, Working,
       RequestInv, CtxCurrent
  <2>2. Clean(S(r))' <=> Clean(S(r))
    BY <2>1 DEF Clean
  <2>3. Clean(S(r)) => ctx[r] = stateFile[S(r)]
    BY <1>1, <2>1 DEF RequestInv, CtxCurrent, Clean
  <2>4. \A q \in running[S(r)] : Clean(S(r)) =>
          stateFile[S(r)].initialized /\ (Shell(S(r)) => stateFile[S(r)].services = q)
    BY <1>1, <2>1, AllRecorded
  <2>5. CASE ServiceFails(r) \/ StopService(r)
    <3>1. UNCHANGED stateFile /\ running'[S(r)] \subseteq running[S(r)]
      BY <1>1, <1>4, <2>5 DEF ServiceFails, ServiceEnds, StopService, RestartService,
         RunningAfterStop
    <3>2. QED
      BY <1>1, <1>2, <2>1, <2>2, <2>4, <3>1 DEF SessionInv, ShellRecords, Recorded
  <2>6. CASE RestartService(r) /\ Shell(S(r))
    <3>1. /\ running'[S(r)] = (running[S(r)] \ {ctx[r].services}) \cup {r}
          /\ stateFile'[S(r)].initialized /\ stateFile'[S(r)].services = r
      BY <1>1, <2>1, <2>6 DEF RestartService, WosState
    <3>2. Clean(S(r)) => running'[S(r)] = {r}
      BY <2>3, <2>4, <2>6, <3>1
    <3>3. QED
      BY <1>2, <2>1, <2>2, <2>6, <3>1, <3>2 DEF SessionInv, ShellRecords, Recorded
  <2>7. CASE RestartService(r) /\ ~Shell(S(r))
    BY <1>1, <1>2, <2>1, <2>2, <2>3, <2>7 DEF RestartService, SessionInv, ShellRecords, Recorded
  <2>8. QED
    BY <1>4, <2>5, <2>6, <2>7 DEF ServiceEnds
<1>5. QED
  BY <1>3, <1>4 DEF Other

LEMMA LeakStep == TypeOK /\ LockInv /\ LeakInv /\ [Next]_vars => LeakInv'
<1> SUFFICES ASSUME TypeOK, LockInv, LeakInv, [Next]_vars PROVE LeakInv'
    OBVIOUS
<1>1. CASE UNCHANGED <<mode, kind, pc, ctx, stateFile, running, historyVars>>
  BY <1>1 DEF LeakInv, RequestInv, SessionInv, CtxCurrent, SetUpBeforeStart, NothingRuns,
     ShellRecords, Recorded, Clean, Shell, historyVars
<1>2. ASSUME NEW r \in Requests, OwnEffect(r), Handle(r) \/ Up(r) \/ Teardown(r) \/ Other(r)
      PROVE  LeakInv'
  <2>1. RequestInv(r)' /\ SessionInv(S(r))'
    BY <1>2, HandleKeeps, UpKeeps, TeardownKeeps, OtherKeeps
  <2>2. \A q \in Requests : RequestInv(q)'
    BY <1>2, <2>1, OthersKeep DEF LeakInv
  <2>3. \A s \in Sessions : SessionInv(s)'
    BY <1>2, <2>1, ElsewhereKeeps DEF LeakInv
  <2>4. QED
    BY <2>2, <2>3 DEF LeakInv
<1>3. QED
  BY <1>1, <1>2, StepEffect

-----------------------------------------------------------------------------
(* What a `down` leaves running                                            *)

\* Once a `down` has ended well and nothing has begun since, nobody touches
\* what runs in its session.
LEMMA NobodyStarts ==
  ASSUME TypeOK, LockInv, HolderIsLatest, [Next]_vars, NEW r \in Requests,
         LastWord(r)
  PROVE  running'[S(r)] = running[S(r)]
<1>1. \A q \in Requests : S(q) = S(r) => q \notin Working
  BY SessionOfType, RequestsAssumption
     DEF LastWord, LockInv, SessionExclusive, HolderIsLatest, Working
<1>2. QED
  BY <1>1, StepEffect, SessionOfType DEF OwnEffect

LEMMA DownLeavesNothingStep ==
  TypeOK /\ LockInv /\ HolderIsLatest /\ KindOfRunner /\ LeakInv /\ LeaksNeedALapse /\ [Next]_vars
    => LeaksNeedALapse'
<1> SUFFICES ASSUME TypeOK, LockInv, HolderIsLatest, KindOfRunner, LeakInv, LeaksNeedALapse, [Next]_vars,
                    NEW r \in Requests, kind'[r] = "down", LastWord(r)', Clean(S(r))'
             PROVE  running'[S(r)] = {}
    BY DEF LeaksNeedALapse, Clean
<1>1. Clean(S(r))
  BY StepEffect DEF Clean, OwnEffect, historyVars
<1>2. CASE DownEnds(r)
  BY <1>1, <1>2 DEF DownEnds, LeakInv, RequestInv, NothingRuns
<1>3. CASE ~DownEnds(r)
  <2>1. kind[r] = "down" /\ status[r] = "succeeded"
    BY <1>3, DownEndsProperly DEF LastWord
  <2>2. latest[S(r)] = r
    BY <2>1, StepShape, ResolveShape, SessionOfType DEF Idle, BeginOk, BeginBusy, UpConfigured, Moves,
       Ends, EndsUp, FinishUp, Finish, TypeOK, RegistryTypes, registryVars, LastWord
  <2>3. running[S(r)] = {}
    BY <1>1, <2>1, <2>2 DEF LeaksNeedALapse, LastWord, Clean
  <2>4. QED
    BY <2>1, <2>2, <2>3, NobodyStarts DEF LastWord
<1>4. QED
  BY <1>2, <1>3

-----------------------------------------------------------------------------
(* The theorems about it                                                   *)

LeakIInv == IInv /\ LeakInv /\ LeaksNeedALapse

LEMMA InitLeakIInv == Init => LeakIInv
<1> SUFFICES ASSUME Init PROVE LeakIInv
    OBVIOUS
<1> USE DEF Init
<1>1. LeakInv
  BY SessionOfType DEF LeakInv, RequestInv, SessionInv, CtxCurrent, SetUpBeforeStart, NothingRuns,
     ShellRecords, Recorded, NoState
<1>2. LeaksNeedALapse
  BY DEF LeaksNeedALapse
<1>3. QED
  BY <1>1, <1>2, InitIInv DEF LeakIInv

LEMMA StepLeakIInv == LeakIInv /\ [Next]_vars => LeakIInv'
BY StepIInv, LeakStep, DownLeavesNothingStep DEF LeakIInv, IInv, LockInv

\* What is recorded and what runs agree at every await, until an operation
\* of the session lapses (LeakInv above, part by part).
THEOREM RecordInvariance == Spec => []LeakIInv
BY InitLeakIInv, StepLeakIInv, PTL DEF Spec

\* runDownOperation acts on the state its handler resolved, perhaps long
\* before (ui-api.ts, handleWorktreeDown): still, a successful `down` leaves
\* nothing running unless an operation of the session began with an
\* overtaken state, or a removal went on after a failed docker down.
THEOREM DownStopsEverything == Spec => []LeaksNeedALapse
<1>1. LeakIInv => LeaksNeedALapse
  BY DEF LeakIInv
<1>2. QED
  BY <1>1, RecordInvariance, PTL
=============================================================================
