---------------------------- MODULE SessionLock ----------------------------
(***************************************************************************)
(* What the daemon promises about mutating operations, whatever handlers   *)
(* submit them: a session runs at most one at a time, an operation runs at *)
(* most once, and a submission is refused only by naming an operation that *)
(* holds the session at that moment ("the conflict response SHALL identify *)
(* the active operation", openspec/specs/wos-daemon-api/spec.md:112-118).  *)
(***************************************************************************)
CONSTANTS
  Requests,   \* submissions of mutating operations
  Sessions,   \* worktree sessions
  SessionOf,  \* the session a request is about
  None        \* no request

VARIABLES
  holder,     \* the operation running in each session, or None
  outcome,    \* what became of each request so far
  blamed      \* the operation a refused request was told about

vars == <<holder, outcome, blamed>>

Init ==
  /\ holder  = [s \in Sessions |-> None]
  /\ outcome = [r \in Requests |-> "pending"]
  /\ blamed  = [r \in Requests |-> None]

Acquire(r) ==
  /\ outcome[r] = "pending"
  /\ holder[SessionOf[r]] = None
  /\ holder'  = [holder EXCEPT ![SessionOf[r]] = r]
  /\ outcome' = [outcome EXCEPT ![r] = "running"]
  /\ UNCHANGED blamed

Refuse(r) ==
  /\ outcome[r] = "pending"
  /\ holder[SessionOf[r]] # None
  /\ outcome' = [outcome EXCEPT ![r] = "refused"]
  /\ blamed'  = [blamed EXCEPT ![r] = holder[SessionOf[r]]]
  /\ UNCHANGED holder

Release(r) ==
  /\ holder[SessionOf[r]] = r
  /\ holder'  = [holder EXCEPT ![SessionOf[r]] = None]
  /\ outcome' = [outcome EXCEPT ![r] = "ended"]
  /\ UNCHANGED blamed

Next == \E r \in Requests : Acquire(r) \/ Refuse(r) \/ Release(r)

Spec == Init /\ [][Next]_vars
=============================================================================
