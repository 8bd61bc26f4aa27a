---------------------------- MODULE AgentActivity ----------------------------
(***************************************************************************)
(* What the daemon believes of the agent in one terminal: the hooks that   *)
(* report it (plugin-claude/src/agent-hook.ts), the ingest pipeline        *)
(* (agent-activity-ingest.ts), the state machine (core/agent-activity.ts), *)
(* mark of the terminal (terminal-layer/manager.ts, actor.ts), the sweep   *)
(* for stale work, and the growth of the transcript.                       *)
(*                                                                         *)
(* Events travel as HTTP requests of their own: they may arrive in any     *)
(* order, or not within the second they are given.  Reduction is one step, *)
(* but an event that titles the terminal waits for the title to be saved.  *)
(***************************************************************************)
EXTENDS TerminalRecord

CONSTANTS Viewers, MaxEvents, MaxPending, MaxFaults, MaxRenames   \* bounds

ASSUME ActivityConstants == {MaxEvents, MaxPending, MaxFaults, MaxRenames} \subseteq Nat

VARIABLES
  agent,     \* the truth: what the agent is doing
  net,       \* events on their way: [n, kind]
  waiting,   \* events that wait for a title to be saved
  block,     \* the derived block: its state, idle with its provenance
  fresh,     \* an event refreshed the block within the time to live
  attended,  \* a client was attached during this stretch of work
  clients,   \* the clients attached
  finished,  \* history: a result was reported to an empty room, unseen since
  count      \* bounds

activity == <<block, fresh, attended, finished>>
activityVars == <<record, lapses, agent, net, waiting, activity, clients, count>>

Kinds == {"session_start", "prompt_submit", "stop", "question_asked", "permission_replied", "heartbeat"}
Pending == net \cup waiting
Spend(what) == count[what] > 0 /\ count' = [count EXCEPT ![what] = @ - 1]

(***************************************************************************)
(* The agent.  What it does is reported by a hook, except an interruption, *)
(* which needs somebody at the terminal, and an answer to some questions.  *)
(***************************************************************************)
Does(from, to, kind) ==
  /\ agent \in from /\ agent' = to
  /\ Cardinality(Pending) < MaxPending /\ Spend("events")
  /\ net' = net \cup {[n |-> MaxEvents - count.events + 1, kind |-> kind]}
  /\ UNCHANGED <<record, lapses, waiting, activity, clients>>

AgentStep ==
  \/ Does({"idle", "interrupted"}, "working", "prompt_submit")
  \/ Does({"working", "answered"}, "working", "heartbeat")
  \/ Does({"working"}, "asking", "question_asked")
  \/ Does({"asking"}, "working", "permission_replied")
  \/ Does({"working", "answered"}, "idle", "stop")
  \/ Does({"idle"}, "idle", "stop")                  \* the agent has waited for a while
  \/ Does({"idle"}, "idle", "session_start")         \* it was started, or its history cleared
  \/ Does({"working"}, "working", "session_start")   \* it compacted its history

Unreported(from, to) ==
  /\ agent \in from /\ agent' = to
  /\ UNCHANGED <<record, lapses, net, waiting, activity, clients, count>>

Answers == Unreported({"asking"}, "answered")
Interrupts == clients # {} /\ Unreported({"working", "answered", "asking"}, "interrupted")

\* The daemon is away, or the hook's second is over.
Loses(e) ==
  /\ e \in net /\ Spend("faults")
  /\ net' = net \ {e}
  /\ lapses' = lapses \cup {"lost"}
  /\ UNCHANGED <<record, agent, waiting, activity, clients>>

(***************************************************************************)
(* The state machine.                                                      *)
(***************************************************************************)
IdleStates == {"idle", "stopped", "stale"}    \* of no, a reported, a guessed provenance
Label(b) == IF b \in IdleStates THEN "idle" ELSE b

\* Mutant: whatever starts is idle.
ReduceAfresh(b, kind) ==
  CASE kind \in {"prompt_submit", "permission_replied"} -> "working"
    [] kind = "stop"           -> "stopped"
    [] kind = "question_asked" -> "awaiting"
    [] kind = "session_start"  -> "idle"
    [] kind = "heartbeat"      -> IF b \in {"none", "awaiting", "stale"} THEN "working" ELSE b

Reduce(b, kind) ==
  CASE kind \in {"prompt_submit", "permission_replied"} -> "working"
    [] kind = "stop"           -> "stopped"
    [] kind = "question_asked" -> "awaiting"
    [] kind = "session_start"  -> IF b \in IdleStates \cup {"none"} THEN "idle" ELSE b
    [] kind = "heartbeat"      -> IF b \in {"none", "awaiting", "stale"} THEN "working" ELSE b

Qualifies(b) == b \in {"stopped", "awaiting"}

EntersWork(b, next) == next = "working" /\ b # "working"

\* What goes wrong when an event is applied now.
Overtaken(e) == \E f \in Pending : f.n < e.n
Forgets(e) == e.kind = "session_start" /\ block \in {"stale", "none"} /\ agent # "idle"

Apply(e) ==
  LET next == Reduce(block, e.kind)
  IN /\ block' = next /\ fresh' = TRUE
     /\ attended' = IF EntersWork(block, next) THEN clients # {} ELSE attended
     /\ IF Qualifies(next) /\ Label(next) # Label(block) /\ clients = {}
        THEN SetUnread(TRUE) ELSE UNCHANGED <<unread, saves>>
     /\ finished' = IF Qualifies(next) /\ clients = {} /\ block # "stale" /\ Label(next) # Label(block)
                    THEN TRUE ELSE finished
     /\ lapses' = lapses \cup (IF Overtaken(e) THEN {"overtaken"} ELSE {})
                         \cup (IF Forgets(e) THEN {"forgotten"} ELSE {})

(***************************************************************************)
(* Ingest.  Whether an event titles the terminal is decided from the title *)
(* in memory; the title is then queued behind whatever is being saved.     *)
(***************************************************************************)
\* Mutant: a title given by the user is not looked for.
TitlesAnything(kind) == IF kind = "session_start" THEN {Untitled} ELSE {"agent"}

Titles(kind) ==
  CASE kind = "session_start" /\ title = "agent"       -> {Untitled}
    [] kind = "prompt_submit" /\ title = Untitled      -> {"agent"}
    [] kind = "stop" /\ title \in {Untitled, "agent"}  -> {"agent"}
    [] OTHER                                            -> {}

ArriveTitling(e) ==
  /\ e \in net
  /\ \E t \in Titles(e.kind) : todo' = Append(todo, [title |-> t, by |-> e.n])
  /\ net' = net \ {e} /\ waiting' = waiting \cup {e}
  /\ lapses' = IF \E i \in DOMAIN todo : todo[i].title = "user" THEN lapses \cup {"outdated"} ELSE lapses
  /\ UNCHANGED <<title, unread, disk, saves, agent, activity, clients, count>>

\* Events carry a title or not; only the clearing of a title needs none.
ArriveUntitled(e) ==
  /\ e \in net
  /\ e.kind = "session_start" => Titles(e.kind) = {}
  /\ net' = net \ {e}
  /\ Apply(e)
  /\ UNCHANGED <<title, disk, todo, agent, waiting, clients, count>>

AppliedAfterTitle(e) ==
  /\ e \in waiting /\ \A i \in DOMAIN todo : todo[i].by # e.n
  /\ waiting' = waiting \ {e}
  /\ Apply(e)
  /\ UNCHANGED <<title, disk, todo, agent, net, clients, count>>

(***************************************************************************)
(* The rest of the daemon.                                                 *)
(***************************************************************************)
TimeToLivePasses ==
  /\ block = "working" /\ fresh /\ Pending = {}
  /\ fresh' = FALSE
  /\ UNCHANGED <<record, lapses, agent, net, waiting, block, attended, finished, clients, count>>

\* Mutant: it waits until they have gone.
SweepUnattended ==
  /\ block = "working" /\ ~fresh /\ attended /\ clients = {}
  /\ block' = "stale" /\ fresh' = TRUE
  /\ UNCHANGED <<record, lapses, agent, net, waiting, attended, finished, clients, count>>

\* Only work that somebody attended, who may have interrupted it, is doubted.
SweepStaleActivity ==
  /\ block = "working" /\ ~fresh /\ attended
  /\ block' = "stale" /\ fresh' = TRUE
  /\ UNCHANGED <<record, lapses, agent, net, waiting, attended, finished, clients, count>>

\* The transcript grows while the agent works.
RefreshAgentActivity ==
  /\ agent \in {"working", "answered"} /\ block \in {"working", "stale"}
  /\ ~fresh \/ block = "stale"
  /\ block' = "working" /\ fresh' = TRUE
  /\ attended' = IF EntersWork(block, "working") THEN clients # {} ELSE attended
  /\ UNCHANGED <<record, lapses, agent, net, waiting, finished, clients, count>>

\* Mutant: attaching leaves the mark.
AttachUnseeing(c) ==
  /\ c \notin clients /\ ~SavingTitle
  /\ clients' = clients \cup {c}
  /\ attended' = (attended \/ block = "working")
  /\ finished' = FALSE
  /\ UNCHANGED <<record, lapses, agent, net, waiting, block, fresh, count>>

\* Viewers come and go through the command queue, between the titles.
Attach(c) ==
  /\ c \notin clients /\ ~SavingTitle
  /\ clients' = clients \cup {c}
  /\ attended' = (attended \/ block = "working")
  /\ SetUnread(FALSE)
  /\ finished' = FALSE
  /\ UNCHANGED <<title, disk, todo, lapses, agent, net, waiting, block, fresh, count>>

Detach(c) ==
  /\ c \in clients /\ ~SavingTitle
  /\ clients' = clients \ {c}
  /\ UNCHANGED <<record, lapses, agent, net, waiting, activity, count>>

UserRenames(t) ==
  /\ Spend("renames")
  /\ Rename(t)
  /\ UNCHANGED <<agent, net, waiting, activity, clients>>

SavesRecord ==
  /\ (Saving /\ UNCHANGED count) \/ (Failing /\ Spend("faults"))
  /\ UNCHANGED <<agent, net, waiting, activity, clients>>

\* The tmux session and the agent in it survive a restart; the block does not.
Restart ==
  /\ Spend("faults")
  /\ Reload
  /\ net' = {} /\ waiting' = {} /\ clients' = {}
  /\ block' = "none" /\ fresh' = TRUE /\ attended' = FALSE
  /\ lapses' = lapses \cup (IF Pending # {} THEN {"lost"} ELSE {})
                      \cup (IF saves # {} \/ todo # <<>> THEN {"unsaved"} ELSE {})
  /\ UNCHANGED <<agent, finished>>

ActivityInit ==
  /\ InitRecord
  /\ agent = "idle" /\ net = {} /\ waiting = {}
  /\ block = "none" /\ fresh = TRUE /\ attended = FALSE
  /\ clients = {} /\ finished = FALSE
  /\ count = [events |-> MaxEvents, faults |-> MaxFaults, renames |-> MaxRenames]

Delivery == \E e \in net : Loses(e) \/ ArriveTitling(e) \/ ArriveUntitled(e)
Resumption == \E e \in waiting : AppliedAfterTitle(e)

ActivityNext ==
  \/ AgentStep \/ Answers \/ Interrupts
  \/ Delivery \/ Resumption
  \/ TimeToLivePasses \/ SweepStaleActivity \/ RefreshAgentActivity
  \/ \E c \in Viewers : Attach(c) \/ Detach(c)
  \/ \E t \in {"user", Untitled} : UserRenames(t)
  \/ SavesRecord \/ Restart

\* A hook gives up after a second, files are written or not, and the sweep
\* runs every 15 seconds.  Nothing is assumed of the agent or of its users.
Fairness ==
  /\ WF_activityVars(Delivery) /\ WF_activityVars(SavesRecord) /\ WF_activityVars(Resumption)
  /\ WF_activityVars(TimeToLivePasses) /\ WF_activityVars(SweepStaleActivity)

ActivitySpec == ActivityInit /\ [][ActivityNext]_activityVars /\ Fairness

(***************************************************************************)
(* Properties                                                              *)
(***************************************************************************)
\* Types; a mark means that nobody is attached; a title waits for its save.
ActivityTypeOK ==
  /\ title \in {Untitled, "user", "agent"} /\ unread \in BOOLEAN
  /\ disk \in [title : {Untitled, "user", "agent"}, unread : BOOLEAN]
  /\ \A i \in DOMAIN todo : todo[i] \in [title : {Untitled, "user", "agent"}, by : 0..MaxEvents]
  /\ Cardinality({s \in saves : s.field = "title"}) <= 1
  /\ \A s \in saves : s.stage \in {"begun", "read"} /\ s.n \in 1..MaxSaves
  /\ agent \in {"idle", "working", "asking", "answered", "interrupted"}
  /\ Pending \subseteq [n : 1..MaxEvents, kind : Kinds] /\ net \cap waiting = {}
  /\ block \in IdleStates \cup {"none", "working", "awaiting"}
  /\ fresh \in BOOLEAN /\ attended \in BOOLEAN /\ clients \subseteq Viewers
  /\ unread => clients = {}
  /\ lapses \subseteq {"overlap", "failed", "lost", "overtaken", "unsaved", "forgotten", "outdated"}

\* What the block may say of an agent, once every event has been applied.
Honest ==
  [idle        |-> IdleStates \cup {"none"},
   working     |-> {"working", "stale", "none"},
   asking      |-> {"awaiting", "none"},
   answered    |-> {"awaiting", "stale", "none"},
   interrupted |-> {"working", "stale", "awaiting", "none"}]

\* The terminal never shows a working agent as finished or as waiting, nor a
\* waiting one as working, unless an event was lost or overtaken -- or it
\* compacts its history after it has been taken for idle, or after a restart:
\* a guess that every sign of life should undo becomes one that none does.
StateFollowsAgent ==
  Pending = {} /\ lapses \cap {"lost", "overtaken", "forgotten"} = {} => block \in Honest[agent]

\* The record on disk is what memory says once all is saved, although titles
\* and marks are saved by different routes -- unless two saves overlapped, one
\* failed, or the daemon went down with work to do.
RecordFollowsMemory ==
  saves = {} /\ todo = <<>> /\ lapses \cap {"overlap", "failed", "unsaved"} = {} =>
    disk = [title |-> title, unread |-> unread]

\* A result reported to an empty room stays marked until somebody attaches,
\* over restarts too, unless its save was lost.
ResultsStayMarked ==
  finished /\ lapses \cap {"overlap", "failed", "unsaved"} = {} => unread

\* A turn that was interrupted while somebody watched does not look like work
\* for ever.
InterruptedTurnsClear ==
  agent = "interrupted" /\ block = "working" /\ attended ~> agent # "interrupted" \/ block # "working"

\* "Agent-sourced updates MUST NOT replace a user-sourced title": they do so
\* only where the title was decided on while the user's was still being saved,
\* or over a restart after a save of the mark wrote the older title back.
UserTitlesStay ==
  [][title = "user" /\ title' = "agent" => lapses \cap {"outdated", "overlap"} # {}]_title
=============================================================================
