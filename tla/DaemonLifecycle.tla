--------------------------- MODULE DaemonLifecycle ---------------------------
(***************************************************************************)
(* Who runs the daemon, and how everyone finds it: the commands that       *)
(* start, stop and restart it (daemon-bootstrap.ts, start.ts, the desktop  *)
(* host), the listeners a starting daemon binds and the metadata file it   *)
(* writes (daemon-server.ts).  Nothing but that file and the preferred     *)
(* port stands between two daemons.                                        *)
(*                                                                         *)
(* Commands are processes of their own.  To discover is two steps, to read *)
(* the file and to ask whoever answers at the URL it names.                *)
(***************************************************************************)
EXTENDS Naturals, FiniteSets, FiniteSetsExt, TLC

CONSTANTS
  Launchers,     \* the commands that may be run, each once
  Daemons,       \* the daemon processes there may be, each once
  Incompatible,  \* those among them that speak another protocol version
  LastPort,      \* web ports 1..LastPort; 1 is the preferred one
  MaxEnds, MaxSlow,   \* bounds: deaths and signals, slow answers
  None, Unread

\* What the metadata file can say.
Files == [owner : Daemons, port : 1..LastPort, whole : BOOLEAN]

ASSUME LifecycleConstants ==
  /\ Incompatible \subseteq Daemons
  /\ IsFiniteSet(Daemons) /\ LastPort \in Nat /\ LastPort >= Cardinality(Daemons)
  /\ {MaxEnds, MaxSlow} \subseteq Nat
  /\ {None, Unread} \cap (Daemons \cup 1..LastPort) = {} /\ None \notin Files

VARIABLES
  phase,    \* where each daemon stands
  web,      \* the port of its web listener, or None
  tunnel,   \* the daemons that hold the tunnel port
  asked,    \* the daemons whose deferred stop is about to run
  meta,     \* the metadata file: None, or [owner, port, whole]
  cmd,      \* the command each launcher runs
  pc,       \* where it stands
  seen,     \* the URL it read from the file: Unread, None or a port
  found,    \* the daemon that answered there
  child,    \* the daemon it spawned
  lapses,   \* history: what has gone wrong so far
  count     \* bounds

daemons       == <<phase, web, tunnel, asked>>
launchers     == <<cmd, pc, seen, found, child>>
lifecycleVars == <<daemons, meta, launchers, lapses, count>>

Commands == {"start", "ensure", "stop", "restart", "foreground", "desktop"}
Booting  == {d \in Daemons : phase[d] \in {"starting", "booting", "bound", "writing"}}
Living   == {d \in Daemons : phase[d] \notin {"unused", "gone"}}
Listening == {d \in Daemons : web[d] # None}
Spend(what) == count[what] > 0 /\ count' = [count EXCEPT ![what] = @ - 1]
Lapse(name, happened) == lapses' = IF happened THEN lapses \cup {name} ELSE lapses
To(d, p) == phase' = [phase EXCEPT ![d] = p]

(***************************************************************************)
(* A daemon starts: one attempt at the tunnel port, then the web port with *)
(* a retry that gives way to the next free one, then the metadata file,    *)
(* which is truncated before it is written.                                *)
(***************************************************************************)
BindTunnel(d) ==
  /\ phase[d] = "starting"
  /\ To(d, "booting")
  /\ tunnel' = IF tunnel = {} THEN {d} ELSE tunnel
  /\ UNCHANGED <<web, asked, meta, launchers, lapses, count>>

Taken == {web[d] : d \in Listening}

\* Mutant: the preferred port is taken without looking.
BindRegardless(d) ==
  /\ phase[d] = "booting"
  /\ To(d, "bound")
  /\ web' = [web EXCEPT ![d] = 1]
  /\ UNCHANGED <<tunnel, asked, meta, launchers, lapses, count>>

\* The retry on a busy preferred port is this step not being taken yet.
BindWeb(d) ==
  /\ phase[d] = "booting" /\ 1 \notin Taken
  /\ To(d, "bound")
  /\ web' = [web EXCEPT ![d] = 1]
  /\ UNCHANGED <<tunnel, asked, meta, launchers, lapses, count>>

BindFallback(d) ==
  /\ phase[d] = "booting" /\ 1 \in Taken
  /\ To(d, "bound")
  /\ web' = [web EXCEPT ![d] = Min(1..LastPort \ Taken)]
  /\ UNCHANGED <<tunnel, asked, meta, launchers, lapses, count>>

Metadata(d, whole) == [owner |-> d, port |-> web[d], whole |-> whole]

\* A predecessor may have looked at the file and be about to remove it.
OpenMetadata(d) ==
  /\ phase[d] = "bound"
  /\ To(d, "writing")
  /\ meta' = Metadata(d, FALSE)
  /\ Lapse("late", \E e \in Daemons : phase[e] = "removing")
  /\ UNCHANGED <<web, tunnel, asked, launchers, count>>

\* The file that was opened may have been removed since: then the text goes
\* nowhere.  When another daemon opened it since, either text may be last.
WriteMetadata(d) ==
  /\ phase[d] = "writing"
  /\ To(d, "serving")
  /\ meta' \in CASE meta = None                 -> {None}
                 [] meta # None /\ meta.owner = d -> {Metadata(d, TRUE)}
                 [] OTHER                       -> {meta, Metadata(d, TRUE)}
  /\ UNCHANGED <<web, tunnel, asked, launchers, lapses, count>>

(***************************************************************************)
(* It stops: on a signal, or on a request that is answered first and acted *)
(* upon 50 ms later -- which does nothing before the start has completed.  *)
(* The web listener closes after a renewal in progress has ended, the      *)
(* tunnel listener after terminals and sessions.  The file is removed last *)
(* and only when it names this process.                                    *)
(***************************************************************************)
Signal(d) ==
  /\ phase[d] = "serving" /\ Spend("ends")
  /\ To(d, "stopping")
  /\ UNCHANGED <<web, tunnel, asked, meta, launchers, lapses>>

DeferredStop(d) ==
  /\ d \in asked
  /\ asked' = asked \ {d}
  /\ phase' = IF phase[d] = "serving" THEN [phase EXCEPT ![d] = "stopping"] ELSE phase
  /\ UNCHANGED <<web, tunnel, meta, launchers, lapses, count>>

CloseWeb(d) ==
  /\ phase[d] = "stopping"
  /\ To(d, "closing")
  /\ web' = [web EXCEPT ![d] = None]
  /\ UNCHANGED <<tunnel, asked, meta, launchers, lapses, count>>

CloseTunnel(d) ==
  /\ phase[d] = "closing"
  /\ To(d, "released")
  /\ tunnel' = tunnel \ {d}
  /\ UNCHANGED <<web, asked, meta, launchers, lapses, count>>

\* Mutant: the file is removed whoever it names.
AnyMetadata(d) ==
  /\ phase[d] = "released"
  /\ To(d, IF meta # None THEN "removing" ELSE "gone")
  /\ UNCHANGED <<web, tunnel, asked, meta, launchers, lapses, count>>

OwnMetadata(d) ==
  /\ phase[d] = "released"
  /\ To(d, IF meta # None /\ meta.whole /\ meta.owner = d THEN "removing" ELSE "gone")
  /\ UNCHANGED <<web, tunnel, asked, meta, launchers, lapses, count>>

RemoveMetadata(d) ==
  /\ phase[d] = "removing"
  /\ To(d, "gone")
  /\ meta' = None
  /\ UNCHANGED <<web, tunnel, asked, launchers, lapses, count>>

Ends(D) ==
  /\ phase' = [d \in Daemons |-> IF d \in D THEN "gone" ELSE phase[d]]
  /\ web' = [d \in Daemons |-> IF d \in D THEN None ELSE web[d]]
  /\ tunnel' = tunnel \ D

\* A crash, a start that fails (TLS, a bad host), a stop that throws half way.
Dies(d) ==
  /\ d \in Living /\ Spend("ends")
  /\ Ends({d})
  /\ asked' = asked \ {d}
  /\ UNCHANGED <<meta, launchers, lapses>>

(***************************************************************************)
(* The commands.                                                           *)
(***************************************************************************)
Goto(l, p) == pc' = [pc EXCEPT ![l] = p] /\ seen' = [seen EXCEPT ![l] = Unread]
UnderWay == {l \in Launchers : pc[l] \notin {"ready", "done"}}

\* `wos start --foreground` does not look for a daemon; the rest discover one.
Launch(l, c) ==
  /\ pc[l] = "ready"
  /\ cmd' = [cmd EXCEPT ![l] = c]
  /\ Goto(l, IF c = "foreground" THEN "spawn" ELSE "discover")
  /\ lapses' = lapses \cup (IF UnderWay \cup Booting # {} THEN {"together"} ELSE {})
                      \cup (IF c = "foreground" /\ Listening # {} THEN {"unchecked"} ELSE {})
  /\ UNCHANGED <<daemons, meta, found, child, count>>

Discovering == {"discover", "await", "poll", "recheck"}

ReadMetadata(l) ==
  /\ pc[l] \in Discovering /\ seen[l] = Unread
  /\ seen' = [seen EXCEPT ![l] = IF meta # None /\ meta.whole THEN meta.port ELSE None]
  /\ UNCHANGED <<daemons, meta, cmd, pc, found, child, lapses, count>>

\* The health request: who answers at the URL, if anyone, is not compared
\* with whom the file names.  It may also take too long.
Answering(l) == {d \in Listening : web[d] = seen[l]}

NoAnswer(l) ==
  \/ Answering(l) = {} /\ UNCHANGED <<lapses, count>>
  \/ Answering(l) # {} /\ Spend("slow") /\ Lapse("slow", TRUE)

Answer(l, d) == d \in Answering(l) /\ UNCHANGED <<lapses, count>>

Wants(l, p) == pc[l] = p /\ seen[l] # Unread

\* The first look.
Absent(l) ==
  /\ Wants(l, "discover") /\ NoAnswer(l)
  /\ Goto(l, IF cmd[l] = "desktop" THEN "spawn" ELSE "cleanup")
  /\ UNCHANGED <<daemons, meta, cmd, found, child>>

Present(l, d) ==
  /\ Wants(l, "discover") /\ Answer(l, d)
  /\ found' = [found EXCEPT ![l] = d]
  /\ \/ /\ cmd[l] \in {"stop", "restart", "replace"} \/ (d \in Incompatible /\ cmd[l] = "start")
        /\ pc' = [pc EXCEPT ![l] = "request"] /\ UNCHANGED <<cmd, seen>>
     \/ /\ cmd[l] \in {"ensure", "desktop"} \/ (d \notin Incompatible /\ cmd[l] = "start")
        /\ Goto(l, "done") /\ UNCHANGED cmd
     \/ /\ cmd[l] = "desktop" /\ d \in Incompatible        \* the user agrees to replace it
        /\ cmd' = [cmd EXCEPT ![l] = "replace"] /\ Goto(l, "discover")
  /\ UNCHANGED <<daemons, meta, child>>

\* A compatible daemon is asked at its URL and when nobody answers there its
\* process is signalled; an incompatible one is signalled.  A signal before
\* the start has completed kills.
Hit(l) ==
  IF found[l] \notin Incompatible /\ Answering(l) # {} THEN Answering(l) ELSE {found[l]} \cap Living

Posted(l) == found[l] \notin Incompatible /\ Answering(l) # {}

RequestStop(l) ==
  /\ pc[l] = "request"
  /\ IF Posted(l)
     THEN asked' = asked \cup Hit(l) /\ UNCHANGED <<phase, web, tunnel>>
     ELSE \/ /\ Hit(l) \subseteq Booting /\ Ends(Hit(l))
             /\ asked' = asked \ Hit(l)
          \/ /\ \E d \in Hit(l) : phase[d] = "serving" /\ To(d, "stopping")
             /\ UNCHANGED <<web, tunnel, asked>>
          \/ /\ \E d \in Hit(l) : phase[d] \notin {"serving"} /\ d \notin Booting
             /\ UNCHANGED daemons
  /\ Goto(l, "await")
  /\ UNCHANGED <<meta, cmd, found, child, lapses, count>>

StillThere(l, d) ==
  /\ Wants(l, "await") /\ Answer(l, d)
  /\ Goto(l, "await")
  /\ UNCHANGED <<daemons, meta, cmd, found, child>>

Vanished(l) ==
  /\ Wants(l, "await") /\ NoAnswer(l)
  /\ Goto(l, "cleanup")
  /\ UNCHANGED <<daemons, meta, cmd, found, child>>

\* Five seconds have passed, whatever still answers.
WaitRunsOut(l) ==
  /\ pc[l] = "await" /\ seen[l] = Unread
  /\ Goto(l, "cleanup")
  /\ Lapse("impatient", Listening # {})
  /\ UNCHANGED <<daemons, meta, cmd, found, child, count>>

CleanupStaleMetadata(l) ==
  /\ pc[l] = "cleanup"
  /\ meta' = None
  /\ Goto(l, IF cmd[l] = "stop" THEN "done" ELSE "spawn")
  /\ UNCHANGED <<daemons, cmd, found, child, lapses, count>>

\* In the foreground and in the desktop application the launcher becomes the
\* daemon; in the background it waits to see one answer, its own or not.
Spawn(l, d) ==
  /\ pc[l] = "spawn" /\ phase[d] = "unused"
  /\ To(d, "starting")
  /\ child' = [child EXCEPT ![l] = d]
  /\ Goto(l, IF cmd[l] \in {"foreground", "desktop", "replace"} THEN "done" ELSE "poll")
  /\ UNCHANGED <<web, tunnel, asked, meta, cmd, found, lapses, count>>

Healthy(l, d) ==
  /\ Wants(l, "poll") \/ Wants(l, "recheck")
  /\ Answer(l, d) /\ d \notin Incompatible
  /\ found' = [found EXCEPT ![l] = d]
  /\ Goto(l, "done")
  /\ UNCHANGED <<daemons, meta, cmd, child>>

\* Once its child has exited it looks once more, then reports the failure.
NotYet(l) ==
  /\ Wants(l, "poll") \/ Wants(l, "recheck")
  /\ NoAnswer(l) \/ \E d \in Incompatible : Answer(l, d)
  /\ \/ pc[l] = "poll" /\ phase[child[l]] # "gone" /\ Goto(l, "poll")
     \/ pc[l] = "poll" /\ phase[child[l]] = "gone" /\ Goto(l, "recheck")
     \/ pc[l] = "recheck" /\ Goto(l, "done")
  /\ UNCHANGED <<daemons, meta, cmd, found, child>>

\* Two minutes have passed.
GiveUp(l) ==
  /\ pc[l] = "poll" /\ seen[l] = Unread
  /\ Goto(l, "done")
  /\ UNCHANGED <<daemons, meta, cmd, found, child, lapses, count>>

\* Nothing runs, or one daemon does and the file names it.
LifecycleInit ==
  /\ \/ phase = [d \in Daemons |-> "unused"]
     \/ \E d \in Daemons : phase = [e \in Daemons |-> IF e = d THEN "serving" ELSE "unused"]
  /\ web = [d \in Daemons |-> IF phase[d] = "serving" THEN 1 ELSE None]
  /\ tunnel = Listening
  /\ asked = {}
  /\ meta = IF Listening = {} THEN None
            ELSE [owner |-> CHOOSE d \in Listening : TRUE, port |-> 1, whole |-> TRUE]
  /\ cmd = [l \in Launchers |-> None] /\ pc = [l \in Launchers |-> "ready"]
  /\ seen = [l \in Launchers |-> Unread]
  /\ found = [l \in Launchers |-> None] /\ child = [l \in Launchers |-> None]
  /\ lapses = {}
  /\ count = [ends |-> MaxEnds, slow |-> MaxSlow]

LifecycleNext ==
  \/ \E d \in Daemons :
       \/ BindTunnel(d) \/ BindWeb(d) \/ BindFallback(d) \/ OpenMetadata(d) \/ WriteMetadata(d)
       \/ Signal(d) \/ DeferredStop(d) \/ CloseWeb(d) \/ CloseTunnel(d)
       \/ OwnMetadata(d) \/ RemoveMetadata(d) \/ Dies(d)
  \/ \E l \in Launchers :
       \/ \E c \in Commands : Launch(l, c)
       \/ ReadMetadata(l) \/ Absent(l) \/ RequestStop(l) \/ Vanished(l) \/ WaitRunsOut(l)
       \/ CleanupStaleMetadata(l) \/ NotYet(l) \/ GiveUp(l)
       \/ \E d \in Daemons : Present(l, d) \/ StillThere(l, d) \/ Spawn(l, d) \/ Healthy(l, d)

LifecycleSpec == LifecycleInit /\ [][LifecycleNext]_lifecycleVars

(***************************************************************************)
(* Properties                                                              *)
(***************************************************************************)
Phases == {"unused", "starting", "booting", "bound", "writing", "serving",
           "stopping", "closing", "released", "removing", "gone"}

\* Types, that a listener is bound exactly from its bind to its close, and
\* that no two daemons share a port.
LifecycleTypeOK ==
  /\ phase \in [Daemons -> Phases] /\ web \in [Daemons -> 1..LastPort \cup {None}]
  /\ \A d \in Daemons : d \in Listening <=> phase[d] \in {"bound", "writing", "serving", "stopping"}
  /\ \A d, e \in Listening : web[d] = web[e] => d = e
  /\ tunnel \subseteq Living /\ Cardinality(tunnel) <= 1 /\ asked \subseteq Daemons
  /\ meta = None \/ meta \in Files
  /\ cmd \in [Launchers -> Commands \cup {"replace", None}]
  /\ pc \in [Launchers -> Discovering \cup {"ready", "request", "cleanup", "spawn", "done"}]
  /\ seen \in [Launchers -> 1..LastPort \cup {Unread, None}]
  /\ {found[l] : l \in Launchers} \cup {child[l] : l \in Launchers} \subseteq Daemons \cup {None}
  /\ lapses \subseteq {"together", "slow", "impatient", "unchecked", "late"}

\* There is one daemon and everybody finds it, over any sequence of commands,
\* signals and crashes -- unless commands ran together (or before a daemon had
\* started), a live daemon was slow to answer, a stop outlasted the wait, a
\* foreground start did not look, or a stopping daemon removed the file that
\* its successor wrote after it had looked.
SplitNeedsLapse ==
  lapses = {} =>
    /\ Cardinality(Listening) <= 1
    /\ \A d \in Daemons : phase[d] \in {"serving", "stopping"} => meta = Metadata(d, TRUE)

\* "the previous daemon can still be releasing the port for a moment": a start
\* retries the web port for that and not the tunnel port, so a daemon that is
\* alone and found may still be without tunnels after an orderly restart.
TunnelsSurviveRestart ==
  lapses = {} /\ count.ends = MaxEnds =>
    \A d \in Daemons : phase[d] = "serving" /\ Living = {d} => d \in tunnel
=============================================================================
