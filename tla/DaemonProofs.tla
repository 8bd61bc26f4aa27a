---------------------------- MODULE DaemonProofs ----------------------------
(***************************************************************************)
(* Proofs about the daemon's process and about what it keeps of Docker:    *)
(* DaemonLifecycle first, for any number of commands and daemons of any    *)
(* version, then DockerState, for any number of containers, event streams  *)
(* and changes of the engine.  The two share no variable.                  *)
(*                                                                         *)
(* Typed says more of the variables than LifecycleTypeOK.  As long as      *)
(* nothing has lapsed, one command at a time is under way (LaunchInv): it  *)
(* sees what listens and does not start a daemon beside another, and the   *)
(* file is always the one of the last daemon that was started (FileInv).   *)
(*                                                                         *)
(* What the cache of Docker shows is what the engine has, but for          *)
(* overlapping reads and events that nobody handled.                       *)
(***************************************************************************)
EXTENDS DaemonLifecycle, DockerState, FiniteSetTheorems, SequenceTheorems,
        WellFoundedInduction, TLAPS

Bound == {"bound", "writing", "serving", "stopping"}

DaemonsTyped ==
  /\ phase \in [Daemons -> Phases] /\ web \in [Daemons -> 1..LastPort \cup {None}]
  /\ \A d \in Daemons : web[d] # None <=> phase[d] \in Bound
  /\ \A d, e \in Daemons : web[d] # None /\ web[d] = web[e] => d = e
  /\ tunnel \subseteq Daemons /\ \A d, e \in tunnel : d = e
  /\ \A d \in tunnel : phase[d] \notin {"unused", "released", "removing", "gone"}
  /\ asked \subseteq Daemons

CommandsTyped ==
  /\ cmd \in [Launchers -> Commands \cup {"replace", None}]
  /\ pc \in [Launchers -> Discovering \cup {"ready", "request", "cleanup", "spawn", "done"}]
  /\ seen \in [Launchers -> 1..LastPort \cup {Unread, None}]
  /\ found \in [Launchers -> Daemons \cup {None}] /\ child \in [Launchers -> Daemons \cup {None}]

MetaTyped == meta = None \/ meta \in Files

HistoryTyped ==
  /\ lapses \subseteq {"together", "slow", "impatient", "unchecked", "late"}
  /\ count \in [{"ends", "slow"} -> Nat]

Typed == DaemonsTyped /\ MetaTyped /\ CommandsTyped /\ HistoryTyped

\* One command at a time is under way.  While it could still start a daemon
\* none is starting; what it has read of the file leads to whoever listens;
\* and when it goes to start one nobody listens any more.
LaunchInv ==
  /\ \A l, m \in UnderWay : l = m
  /\ \A d, e \in Booting : d = e
  /\ \A l \in UnderWay :
       /\ Booting # {} => pc[l] \in {"poll", "recheck"}
       /\ pc[l] \in {"cleanup", "spawn"} => Listening = {}
       /\ pc[l] \in {"discover", "await"} /\ seen[l] # Unread =>
            \A d \in Listening : web[d] = seen[l]

\* One daemon listens, none beside one that starts, and from its first write
\* to its last the file is its own.
FileInv ==
  /\ \A d, e \in Listening : d = e
  /\ \A d \in Daemons :
       /\ phase[d] \in {"starting", "booting"} => Listening = {}
       /\ phase[d] = "writing" => meta = Metadata(d, FALSE)
       /\ phase[d] \in {"serving", "stopping"} => meta = Metadata(d, TRUE)
       /\ phase[d] \in {"writing", "serving", "stopping"} => \A e \in Daemons : phase[e] # "removing"

Calm == lapses = {}
AloneInv == Calm => LaunchInv /\ FileInv

IInv == Typed /\ AloneInv

-----------------------------------------------------------------------------
(* Operators.                                                              *)

\* A set of naturals that is not empty has its least member.
LEMMA MinOfNats ==
  ASSUME NEW S \in SUBSET Nat, S # {}
  PROVE  Min(S) \in S
<1> DEFINE R == OpToRel(<, Nat)
<1>1. IsWellFoundedOn(R, Nat)
  BY NatLessThanWellFounded
<1>2. \A a, b \in Nat : a < b => <<a, b>> \in R
  BY DEF OpToRel
<1> HIDE DEF R
<1>3. PICK x \in S : \A y \in S : <<y, x>> \notin R
  BY <1>1, WFMin
<1>4. \A y \in S : x =< y
  <2> TAKE y \in S
  <2>1. x \in Nat /\ y \in Nat /\ ~(y < x)
    BY <1>2, <1>3
  <2>2. QED
    BY <2>1
<1>5. QED
  BY <1>4 DEF Min

\* There are as many ports as daemons: whoever does not listen finds a free one.
LEMMA PortsSuffice ==
  ASSUME DaemonsTyped, NEW d \in Daemons, web[d] = None
  PROVE  Min(1..LastPort \ Taken) \in 1..LastPort \ Taken
<1> DEFINE Others == Daemons \ {d}
           f == [p \in 1..LastPort |-> CHOOSE e \in Listening : web[e] = p]
<1>1. IsFiniteSet(Others) /\ Cardinality(Others) = Cardinality(Daemons) - 1
      /\ Cardinality(Daemons) \in Nat
  BY LifecycleConstants, FS_RemoveElement, FS_CardinalityType
<1>2. IsFiniteSet(1..LastPort) /\ Cardinality(1..LastPort) = LastPort
  BY LifecycleConstants, FS_Interval, FS_EmptySet
<1>3. SUFFICES ASSUME 1..LastPort \ Taken = {} PROVE FALSE
  BY LifecycleConstants, MinOfNats
<1>4. \A p \in 1..LastPort : f[p] \in Others /\ web[f[p]] = p
  BY <1>3, LifecycleConstants DEF Taken, Listening
<1>5. f \in [1..LastPort -> Others]
  BY <1>4
<1> HIDE DEF f
<1>6. Cardinality(Others) < Cardinality(1..LastPort)
  BY <1>1, <1>2, LifecycleConstants
<1>7. PICK p, q \in 1..LastPort : p # q /\ f[p] = f[q]
  BY <1>1, <1>2, <1>5, <1>6, FS_PigeonHole
<1>8. QED
  BY <1>4, <1>7
\* The types proved here are those that the run checks, and more.
LEMMA TypedImpliesTypeOK == Typed => LifecycleTypeOK
<1> SUFFICES ASSUME Typed PROVE LifecycleTypeOK
  OBVIOUS
<1>1. Cardinality(tunnel) <= 1
  <2>1. CASE tunnel = {}
    BY <2>1, FS_EmptySet
  <2>2. CASE tunnel # {}
    <3>1. PICK d : tunnel = {d}
      BY <2>2 DEF Typed, DaemonsTyped
    <3>2. QED
      BY <3>1, FS_Singleton
  <2>3. QED
    BY <2>1, <2>2
<1>2. QED
  BY <1>1 DEF Typed, LifecycleTypeOK, DaemonsTyped, MetaTyped, CommandsTyped, HistoryTyped, Listening, Living, Bound

\* None is neither a port nor a daemon.
LEMMA Sentinels == None \notin 1..LastPort /\ None \notin Daemons /\ Unread \notin 1..LastPort
BY LifecycleConstants

\* A bound stays a number.
LEMMA Spending ==
  ASSUME HistoryTyped, NEW what \in {"ends", "slow"}, Spend(what)
  PROVE  count' \in [{"ends", "slow"} -> Nat]
BY DEF Spend, HistoryTyped

-----------------------------------------------------------------------------
(* Types.                                                                  *)

\* A daemon that does not bind or release anything goes on.
LEMMA PhaseTyped ==
  ASSUME DaemonsTyped, NEW d \in Daemons, NEW p \in Phases, To(d, p),
         phase[d] \in Bound <=> p \in Bound, d \in tunnel => p \notin {"unused", "released", "removing", "gone"},
         UNCHANGED <<web, tunnel>>, asked' \subseteq Daemons
  PROVE  DaemonsTyped'
BY DEF DaemonsTyped, To, Living

\* A daemon binds a free port.
LEMMA BindTyped ==
  ASSUME DaemonsTyped, NEW d \in Daemons, NEW m \in 1..LastPort, m \notin Taken,
         phase[d] = "booting", To(d, "bound"), web' = [web EXCEPT ![d] = m], UNCHANGED <<tunnel, asked>>
  PROVE  DaemonsTyped'
<1>1. \A e \in Daemons : web[e] # m
  BY Sentinels DEF Taken, Listening
<1>2. \A e \in Daemons : phase'[e] = (IF e = d THEN "bound" ELSE phase[e])
                        /\ web'[e] = (IF e = d THEN m ELSE web[e])
  BY DEF To, DaemonsTyped
<1>3. phase' \in [Daemons -> Phases] /\ web' \in [Daemons -> 1..LastPort \cup {None}]
  BY DEF To, DaemonsTyped, Phases
<1>4. QED
  BY <1>1, <1>2, <1>3, Sentinels DEF DaemonsTyped, Bound

\* A command reads, asks and goes on.
LEMMA CommandTyped ==
  ASSUME CommandsTyped, NEW l \in Launchers,
         NEW p \in Discovering \cup {"ready", "request", "cleanup", "spawn", "done"},
         pc' = [pc EXCEPT ![l] = p], seen' = [seen EXCEPT ![l] = Unread] \/ seen' = seen,
         cmd' = cmd \/ \E c \in Commands \cup {"replace"} : cmd' = [cmd EXCEPT ![l] = c],
         found' = found \/ \E d \in Daemons : found' = [found EXCEPT ![l] = d],
         child' = child \/ \E d \in Daemons : child' = [child EXCEPT ![l] = d]
  PROVE  CommandsTyped'
BY DEF CommandsTyped

\* Daemons that end have let go of everything.
LEMMA EndsTyped ==
  ASSUME DaemonsTyped, NEW D \in SUBSET Daemons, Ends(D), asked' \subseteq Daemons
  PROVE  DaemonsTyped'
BY DEF DaemonsTyped, Ends, Living, Phases, Bound

\* An unanswered question costs nothing, or is recorded.
LEMMA NoAnswerTyped ==
  ASSUME HistoryTyped, NEW l \in Launchers, NoAnswer(l)
  PROVE  HistoryTyped'
BY Spending DEF NoAnswer, Lapse, HistoryTyped

\* Every step of a daemon keeps the types.
LEMMA DaemonTypes ==
  ASSUME Typed, NEW d \in Daemons,
         \/ BindTunnel(d) \/ BindWeb(d) \/ BindFallback(d) \/ OpenMetadata(d) \/ WriteMetadata(d)
         \/ Signal(d) \/ DeferredStop(d) \/ CloseWeb(d) \/ CloseTunnel(d)
         \/ OwnMetadata(d) \/ RemoveMetadata(d) \/ Dies(d)
  PROVE  Typed'
<1> USE DEF Typed
<1>1. CASE BindTunnel(d)
  BY <1>1 DEF BindTunnel, To, DaemonsTyped, Living, Phases, Bound, MetaTyped, CommandsTyped, HistoryTyped, launchers
<1>2. CASE BindWeb(d)
  <2>1. web[d] = None
    BY <1>2 DEF BindWeb, DaemonsTyped, Bound
  <2>2. 1 \in 1..LastPort /\ 1 \notin Taken
    BY <1>2, <2>1, PortsSuffice, LifecycleConstants DEF BindWeb
  <2>3. DaemonsTyped'
    BY <1>2, <2>2, BindTyped DEF BindWeb
  <2>4. QED
    BY <1>2, <2>3 DEF BindWeb, MetaTyped, CommandsTyped, HistoryTyped, launchers
<1>3. CASE BindFallback(d)
  <2>1. web[d] = None
    BY <1>3 DEF BindFallback, DaemonsTyped, Bound
  <2> DEFINE m == Min(1..LastPort \ Taken)
  <2>2. m \in 1..LastPort /\ m \notin Taken /\ web' = [web EXCEPT ![d] = m]
    BY <1>3, <2>1, PortsSuffice DEF BindFallback
  <2> HIDE DEF m
  <2>3. DaemonsTyped'
    BY <1>3, <2>2, BindTyped DEF BindFallback
  <2>4. QED
    BY <1>3, <2>3 DEF BindFallback, MetaTyped, CommandsTyped, HistoryTyped, launchers
<1>4. CASE OpenMetadata(d)
  BY <1>4, PhaseTyped DEF OpenMetadata, DaemonsTyped, Metadata, Files, Lapse, Phases, Bound, MetaTyped, CommandsTyped,
     HistoryTyped, launchers
<1>5. CASE WriteMetadata(d)
  <2>1. meta' \in {None, meta, Metadata(d, TRUE)}
    BY <1>5 DEF WriteMetadata
  <2>2. web[d] \in 1..LastPort
    BY <1>5 DEF WriteMetadata, DaemonsTyped, Bound
  <2>3. Metadata(d, TRUE) \in Files
    BY <2>2 DEF Metadata, Files
  <2>4. MetaTyped'
    BY <2>1, <2>3 DEF MetaTyped
  <2>5. QED
    BY <1>5, <2>4, PhaseTyped DEF WriteMetadata, DaemonsTyped, Phases, Bound, CommandsTyped, HistoryTyped, launchers
<1>6. CASE Signal(d)
  BY <1>6, PhaseTyped, Spending DEF Signal, DaemonsTyped, Phases, Bound, MetaTyped, CommandsTyped,
     HistoryTyped, launchers
<1>7. CASE DeferredStop(d)
  BY <1>7 DEF DeferredStop, DaemonsTyped, Living, Phases, Bound, MetaTyped, CommandsTyped, HistoryTyped, launchers
<1>8. CASE CloseWeb(d)
  BY <1>8, LifecycleConstants DEF CloseWeb, To, DaemonsTyped, Living, Phases, Bound, MetaTyped, CommandsTyped, HistoryTyped, launchers
<1>9. CASE CloseTunnel(d)
  BY <1>9 DEF CloseTunnel, To, DaemonsTyped, Living, Phases, Bound, MetaTyped, CommandsTyped, HistoryTyped, launchers
<1>10. CASE OwnMetadata(d)
  BY <1>10 DEF OwnMetadata, To, DaemonsTyped, Living, Phases, Bound, MetaTyped, CommandsTyped, HistoryTyped, launchers
<1>11. CASE RemoveMetadata(d)
  BY <1>11 DEF RemoveMetadata, To, DaemonsTyped, Living, Phases, Bound, MetaTyped, CommandsTyped, HistoryTyped, launchers
<1>12. CASE Dies(d)
  BY <1>12, EndsTyped, Spending DEF Dies, DaemonsTyped, MetaTyped, CommandsTyped, HistoryTyped, launchers
<1>13. QED
  BY <1>1, <1>2, <1>3, <1>4, <1>5, <1>6, <1>7, <1>8, <1>9, <1>10, <1>11, <1>12
\* Every step of a command keeps the types.
LEMMA CommandTypes ==
  ASSUME Typed, NEW l \in Launchers,
         \/ \E c \in Commands : Launch(l, c)
         \/ ReadMetadata(l) \/ Absent(l) \/ RequestStop(l) \/ Vanished(l) \/ WaitRunsOut(l)
         \/ CleanupStaleMetadata(l) \/ NotYet(l) \/ GiveUp(l)
         \/ \E d \in Daemons : Present(l, d) \/ StillThere(l, d) \/ Spawn(l, d) \/ Healthy(l, d)
  PROVE  Typed'
<1> USE DEF Typed
<1>1. ASSUME UNCHANGED daemons PROVE DaemonsTyped'
  BY <1>1 DEF daemons, DaemonsTyped
<1>2. ASSUME UNCHANGED <<lapses, count>> PROVE HistoryTyped'
  BY <1>2 DEF HistoryTyped
<1>3. ASSUME NEW c \in Commands, Launch(l, c) PROVE Typed'
  <2>1. CommandsTyped'
    BY <1>3, CommandTyped DEF Launch, Goto, Discovering
  <2>2. QED
    BY <1>1, <1>3, <2>1 DEF Launch, HistoryTyped, MetaTyped
<1>4. CASE ReadMetadata(l)
  <2>1. CommandsTyped'
    BY <1>4 DEF ReadMetadata, CommandsTyped, MetaTyped, Files
  <2>2. QED
    BY <1>1, <1>2, <1>4, <2>1 DEF ReadMetadata, MetaTyped
<1>5. CASE Absent(l) \/ Vanished(l)
  <2>1. CommandsTyped'
    BY <1>5, CommandTyped DEF Absent, Vanished, Goto
  <2>2. QED
    BY <1>1, <1>5, <2>1, NoAnswerTyped DEF Absent, Vanished, MetaTyped
<1>6. CASE RequestStop(l)
  <2>1. CommandsTyped'
    BY <1>6, CommandTyped DEF RequestStop, Goto, Discovering
  <2>2. Hit(l) \subseteq Daemons
    BY DEF Hit, Answering, Listening, Living
  <2>3. DaemonsTyped'
    <3>1. CASE Posted(l)
      BY <1>6, <2>2, <3>1 DEF RequestStop, DaemonsTyped
    <3>2. CASE Hit(l) \subseteq Booting /\ Ends(Hit(l)) /\ asked' = asked \ Hit(l)
      BY <2>2, <3>2, EndsTyped DEF DaemonsTyped
    <3>3. CASE \E d \in Hit(l) : phase[d] = "serving" /\ To(d, "stopping")
                               /\ UNCHANGED <<web, tunnel, asked>>
      BY <2>2, <3>3, PhaseTyped DEF DaemonsTyped, Phases, Bound
    <3>4. QED
      BY <1>1, <1>6, <3>1, <3>2, <3>3 DEF RequestStop
  <2>4. QED
    BY <1>2, <1>6, <2>1, <2>3 DEF RequestStop, MetaTyped
<1>7. CASE WaitRunsOut(l)
  <2>1. CommandsTyped'
    BY <1>7, CommandTyped DEF WaitRunsOut, Goto
  <2>2. QED
    BY <1>1, <1>7, <2>1 DEF WaitRunsOut, Lapse, HistoryTyped, MetaTyped
<1>8. CASE CleanupStaleMetadata(l)
  <2>1. CommandsTyped'
    BY <1>8, CommandTyped DEF CleanupStaleMetadata, Goto
  <2>2. QED
    BY <1>1, <1>2, <1>8, <2>1 DEF CleanupStaleMetadata, MetaTyped
<1>9. CASE NotYet(l)
  <2>1. CommandsTyped'
    BY <1>9, CommandTyped DEF NotYet, Goto, Discovering
  <2>2. HistoryTyped'
    BY <1>2, <1>9, NoAnswerTyped DEF NotYet, Answer
  <2>3. QED
    BY <1>1, <1>9, <2>1, <2>2 DEF NotYet, MetaTyped
<1>10. CASE GiveUp(l)
  <2>1. CommandsTyped'
    BY <1>10, CommandTyped DEF GiveUp, Goto
  <2>2. QED
    BY <1>1, <1>2, <1>10, <2>1 DEF GiveUp, MetaTyped
<1>11. ASSUME NEW d \in Daemons, Present(l, d) PROVE Typed'
  <2>1. CommandsTyped'
    BY <1>11, CommandTyped DEF Present, Goto, Discovering
  <2>2. QED
    BY <1>1, <1>2, <1>11, <2>1 DEF Present, Answer, MetaTyped
<1>12. ASSUME NEW d \in Daemons, StillThere(l, d) \/ Healthy(l, d) PROVE Typed'
  <2>1. CommandsTyped'
    BY <1>12, CommandTyped DEF StillThere, Healthy, Goto, Discovering
  <2>2. QED
    BY <1>1, <1>2, <1>12, <2>1 DEF StillThere, Healthy, Answer, MetaTyped
<1>13. ASSUME NEW d \in Daemons, Spawn(l, d) PROVE Typed'
  <2>1. CommandsTyped'
    BY <1>13, CommandTyped DEF Spawn, Goto, Discovering
  <2>2. DaemonsTyped'
    BY <1>13, PhaseTyped DEF Spawn, DaemonsTyped, Phases, Bound
  <2>3. QED
    BY <1>2, <1>13, <2>1, <2>2 DEF Spawn, MetaTyped
<1>14. QED
  BY <1>3, <1>4, <1>5, <1>6, <1>7, <1>8, <1>9, <1>10, <1>11, <1>12, <1>13

-----------------------------------------------------------------------------
(* One command, one daemon.                                                *)

\* A lapse is never taken back.
LEMMA CalmBefore == ASSUME LifecycleNext, Calm' PROVE Calm /\ lapses' = lapses
<1>1. ASSUME NEW l \in Launchers, NoAnswer(l) PROVE lapses \subseteq lapses'
  BY <1>1 DEF NoAnswer, Lapse
<1>2. ASSUME NEW d \in Daemons,
             \/ BindTunnel(d) \/ BindWeb(d) \/ BindFallback(d) \/ OpenMetadata(d) \/ WriteMetadata(d)
             \/ Signal(d) \/ DeferredStop(d) \/ CloseWeb(d) \/ CloseTunnel(d)
             \/ OwnMetadata(d) \/ RemoveMetadata(d) \/ Dies(d)
      PROVE  lapses \subseteq lapses'
  BY <1>2 DEF BindTunnel, BindWeb, BindFallback, OpenMetadata, WriteMetadata, Signal, DeferredStop, CloseWeb,
     CloseTunnel, OwnMetadata, RemoveMetadata, Dies, Lapse
<1>3. ASSUME NEW l \in Launchers, NEW c \in Commands,
             \/ Launch(l, c) \/ ReadMetadata(l) \/ Absent(l) \/ RequestStop(l) \/ Vanished(l) \/ WaitRunsOut(l)
             \/ CleanupStaleMetadata(l) \/ NotYet(l) \/ GiveUp(l)
      PROVE  lapses \subseteq lapses'
  <2>1. Launch(l, c) => lapses \subseteq lapses'
    BY DEF Launch, Lapse
  <2>2. NoAnswer(l) => lapses \subseteq lapses'
    BY <1>1
  <2>3. WaitRunsOut(l) \/ GiveUp(l) => lapses \subseteq lapses'
    BY DEF WaitRunsOut, GiveUp, Lapse
  <2>4. ReadMetadata(l) \/ RequestStop(l) \/ CleanupStaleMetadata(l) => lapses \subseteq lapses'
    BY DEF ReadMetadata, RequestStop, CleanupStaleMetadata
  <2>5. Absent(l) \/ Vanished(l) \/ NotYet(l) => lapses \subseteq lapses'
    BY <2>2 DEF Absent, Vanished, NotYet, Answer
  <2>6. QED
    BY <1>3, <2>1, <2>2, <2>3, <2>4, <2>5
<1>4. ASSUME NEW l \in Launchers, NEW d \in Daemons,
             Present(l, d) \/ StillThere(l, d) \/ Spawn(l, d) \/ Healthy(l, d)
      PROVE  lapses \subseteq lapses'
  BY <1>4 DEF Present, StillThere, Spawn, Healthy, Answer, Lapse
<1>5. "start" \in Commands
  BY DEF Commands
<1>6. lapses \subseteq lapses'
  BY <1>2, <1>3, <1>4, <1>5 DEF LifecycleNext
<1>7. QED
  BY <1>6 DEF Calm
\* A daemon takes a step: whoever starts it waits and looks at nothing.
LEMMA LaunchFrame ==
  ASSUME LaunchInv, UNCHANGED <<pc, seen>>, Booting' \subseteq Booting,
         Booting # {} \/ \A d \in Listening' : d \in Listening /\ web'[d] = web[d]
  PROVE  LaunchInv'
BY DEF LaunchInv, UnderWay

\* A command goes on.
LEMMA CommandGoes ==
  ASSUME Typed, LaunchInv, NEW l \in UnderWay, NEW p, Goto(l, p),
         Booting' \subseteq Booting,
         p = "done" \/ (Booting' # {} => p \in {"poll", "recheck"}),
         p \in {"cleanup", "spawn"} => Listening' = {}
  PROVE  LaunchInv'
<1>1. \A m \in Launchers : pc'[m] = (IF m = l THEN p ELSE pc[m]) /\ seen'[m] = (IF m = l THEN Unread ELSE seen[m])
  BY DEF Goto, Typed, CommandsTyped
<1>2. UnderWay' \subseteq {l} /\ (p = "done" => UnderWay' = {})
  BY <1>1 DEF LaunchInv, UnderWay
<1>3. \A d, e \in Booting' : d = e
  BY DEF LaunchInv
<1>4. CASE p = "done"
  BY <1>2, <1>3, <1>4 DEF LaunchInv
<1>5. CASE p # "done"
  <2>1. \A m \in UnderWay' : m = l /\ pc'[m] = p /\ seen'[m] = Unread
    BY <1>1, <1>2 DEF UnderWay
  <2>2. QED
    BY <1>3, <1>5, <2>1 DEF LaunchInv
<1>6. QED
  BY <1>4, <1>5

\* What one daemon does to the phases and to the sets of daemons.
LEMMA Steps ==
  ASSUME DaemonsTyped, NEW d \in Daemons, NEW p, To(d, p)
  PROVE  \A e \in Daemons : phase'[e] = IF e = d THEN p ELSE phase[e]
BY DEF To, DaemonsTyped

\* What a daemon writes is a file.
LEMMA FileWritten ==
  ASSUME DaemonsTyped, NEW d \in Daemons, phase[d] \in Bound, NEW whole \in BOOLEAN
  PROVE  Metadata(d, whole) \in Files /\ Metadata(d, whole) # None
BY LifecycleConstants DEF Metadata, Files, DaemonsTyped

\* A daemon starts, serves and stops.
LEMMA DaemonAlone ==
  ASSUME Typed, Typed', LaunchInv, FileInv, Calm', NEW d \in Daemons,
         \/ BindTunnel(d) \/ BindWeb(d) \/ BindFallback(d) \/ OpenMetadata(d) \/ WriteMetadata(d)
         \/ Signal(d) \/ DeferredStop(d) \/ CloseWeb(d) \/ CloseTunnel(d)
         \/ OwnMetadata(d) \/ RemoveMetadata(d) \/ Dies(d)
  PROVE  LaunchInv' /\ FileInv'
<1> USE DEF Typed
<1>1. /\ Listening = {e \in Daemons : phase[e] \in Bound}
      /\ Listening' = {e \in Daemons : phase'[e] \in Bound}
      /\ UNCHANGED <<pc, seen>>
  BY DEF DaemonsTyped, Listening, BindTunnel, BindWeb, BindFallback, OpenMetadata, WriteMetadata, Signal,
     DeferredStop, CloseWeb, CloseTunnel, OwnMetadata, RemoveMetadata, Dies, launchers
<1>2. CASE BindTunnel(d)
  <2>1. \A e \in Daemons : phase'[e] = IF e = d THEN "booting" ELSE phase[e]
    BY <1>2, Steps DEF BindTunnel
  <2>2. Listening' = Listening /\ Booting' = Booting /\ UNCHANGED <<web, meta>> /\ phase[d] = "starting"
    BY <1>1, <1>2, <2>1 DEF BindTunnel, Bound, Booting
  <2>3. QED
    BY <1>1, <2>1, <2>2, LaunchFrame DEF FileInv, Metadata
<1>3. CASE BindWeb(d) \/ BindFallback(d)
  <2>1. /\ \A e \in Daemons : phase'[e] = IF e = d THEN "bound" ELSE phase[e]
        /\ phase[d] = "booting" /\ UNCHANGED meta
    BY <1>3, Steps DEF BindWeb, BindFallback
  <2>2. d \in Booting /\ Listening = {}
    BY <2>1 DEF Booting, FileInv
  <2>3. Booting' = Booting /\ Listening' = {d}
    BY <1>1, <2>1, <2>2 DEF Booting, Bound
  <2>4. LaunchInv'
    BY <1>1, <2>2, <2>3, LaunchFrame
  <2>5. \A e \in Daemons \ {d} : phase'[e] \notin {"starting", "booting", "writing", "serving", "stopping"}
    <3>1. SUFFICES ASSUME NEW e \in Daemons \ {d} PROVE phase[e] \notin {"starting", "booting", "writing", "serving", "stopping"}
      BY <2>1
    <3>2. e \notin Booting /\ e \notin Listening
      BY <2>2 DEF LaunchInv
    <3>3. QED
      BY <1>1, <3>2 DEF Booting, Bound
  <2>6. FileInv'
    BY <2>1, <2>3, <2>5 DEF FileInv
  <2>7. QED
    BY <2>4, <2>6
<1>4. CASE OpenMetadata(d)
  <2>1. /\ \A e \in Daemons : phase'[e] = IF e = d THEN "writing" ELSE phase[e]
        /\ phase[d] = "bound" /\ meta' = Metadata(d, FALSE) /\ UNCHANGED web
        /\ \A e \in Daemons : phase[e] # "removing"
    BY <1>4, Steps DEF OpenMetadata, Lapse, Calm
  <2>2. d \in Booting /\ Booting' = Booting /\ Listening' = Listening /\ d \in Listening
    BY <1>1, <2>1 DEF Booting, Bound
  <2>3. \A e \in Daemons \ {d} : phase[e] \notin Bound /\ phase[e] \notin {"starting", "booting"}
    BY <1>1, <2>2 DEF FileInv
  <2>4. LaunchInv'
    BY <1>1, <2>1, <2>2, LaunchFrame
  <2>5. FileInv'
    <3>1. \A e, f \in Listening' : e = f
      BY <2>2 DEF FileInv
    <3>2. meta' = Metadata(d, FALSE)'
      BY <2>1 DEF Metadata
    <3>3. \A e \in Daemons \ {d} : phase'[e] \notin {"starting", "booting", "writing", "serving", "stopping"}
      BY <2>1, <2>3 DEF Bound
    <3>4. phase'[d] = "writing" /\ \A e \in Daemons : phase'[e] # "removing"
      BY <2>1
    <3>5. QED
      BY <3>1, <3>2, <3>3, <3>4 DEF FileInv
  <2>6. QED
    BY <2>4, <2>5
<1>5. CASE WriteMetadata(d)
  <2>1. /\ \A e \in Daemons : phase'[e] = IF e = d THEN "serving" ELSE phase[e]
        /\ phase[d] = "writing" /\ UNCHANGED web
    BY <1>5, Steps DEF WriteMetadata
  <2>2. meta = Metadata(d, FALSE) /\ meta # None
    <3>1. meta = Metadata(d, FALSE)
      BY <2>1 DEF FileInv
    <3>2. QED
      BY <2>1, <3>1, FileWritten DEF Bound
  <2>3. meta' = Metadata(d, TRUE)
    BY <1>5, <2>2 DEF WriteMetadata, Metadata
  <2>4. d \in Booting /\ Booting' = Booting \ {d} /\ Listening' = Listening /\ d \in Listening
    BY <1>1, <2>1 DEF Booting, Bound
  <2>5. \A e \in Daemons \ {d} : phase[e] \notin Bound /\ phase[e] # "removing" /\ phase[e] \notin {"starting", "booting"}
    BY <1>1, <2>1, <2>4 DEF FileInv
  <2>6. LaunchInv'
    BY <1>1, <2>1, <2>4, LaunchFrame
  <2>7. FileInv'
    <3>1. \A e, f \in Listening' : e = f
      BY <2>4 DEF FileInv
    <3>2. meta' = Metadata(d, TRUE)'
      BY <2>1, <2>3 DEF Metadata
    <3>3. \A e \in Daemons \ {d} : phase'[e] \notin {"starting", "booting", "writing", "serving", "stopping"}
      BY <2>1, <2>5 DEF Bound
    <3>4. phase'[d] = "serving" /\ \A e \in Daemons : phase'[e] # "removing"
      BY <2>1, <2>5
    <3>5. QED
      BY <3>1, <3>2, <3>3, <3>4 DEF FileInv
  <2>8. QED
    BY <2>6, <2>7
<1>6. CASE Signal(d) \/ DeferredStop(d)
  <2>1. /\ \A e \in Daemons : phase'[e] = phase[e] \/ (e = d /\ phase[d] = "serving" /\ phase'[d] = "stopping")
        /\ UNCHANGED <<web, meta>>
    BY <1>6, Steps DEF Signal, DeferredStop, DaemonsTyped
  <2>2. Booting' = Booting /\ Listening' = Listening
    BY <1>1, <2>1 DEF Booting, Bound
  <2>3. QED
    BY <1>1, <2>1, <2>2, LaunchFrame DEF FileInv, Metadata
<1>7. CASE CloseWeb(d)
  <2>1. /\ \A e \in Daemons : phase'[e] = IF e = d THEN "closing" ELSE phase[e]
        /\ \A e \in Daemons \ {d} : web'[e] = web[e]
        /\ phase[d] = "stopping" /\ UNCHANGED meta
    BY <1>7, Steps DEF CloseWeb, DaemonsTyped
  <2>2. Booting' = Booting /\ Listening' \subseteq Listening \ {d}
    BY <1>1, <2>1 DEF Booting, Bound
  <2>3. QED
    BY <1>1, <2>1, <2>2, LaunchFrame DEF FileInv, Metadata
<1>8. CASE CloseTunnel(d)
  <2>1. /\ \A e \in Daemons : phase'[e] = IF e = d THEN "released" ELSE phase[e]
        /\ phase[d] = "closing" /\ UNCHANGED <<meta, web>>
    BY <1>8, Steps DEF CloseTunnel
  <2>2. Booting' = Booting /\ Listening' = Listening
    BY <1>1, <2>1 DEF Booting, Bound
  <2>3. QED
    BY <1>1, <2>1, <2>2, LaunchFrame DEF FileInv, Metadata
<1>9. CASE OwnMetadata(d)
  <2>1. /\ \A e \in Daemons \ {d} : phase'[e] = phase[e]
        /\ phase[d] = "released" /\ UNCHANGED <<meta, web>>
        /\ \/ phase'[d] = "gone"
           \/ phase'[d] = "removing" /\ meta # None /\ meta.owner = d
    BY <1>9, Steps DEF OwnMetadata
  <2>2. Booting' = Booting /\ Listening' = Listening
    BY <1>1, <2>1 DEF Booting, Bound
  <2>3. \A e \in Daemons : phase[e] \in {"writing", "serving", "stopping"} => phase'[d] # "removing"
    BY <2>1 DEF FileInv, Metadata
  <2>4. QED
    BY <1>1, <2>1, <2>2, <2>3, LaunchFrame DEF FileInv, Metadata
<1>10. CASE RemoveMetadata(d)
  <2>1. /\ \A e \in Daemons : phase'[e] = IF e = d THEN "gone" ELSE phase[e]
        /\ phase[d] = "removing" /\ UNCHANGED web
    BY <1>10, Steps DEF RemoveMetadata
  <2>2. Booting' = Booting /\ Listening' = Listening
    BY <1>1, <2>1 DEF Booting, Bound
  <2>3. \A e \in Daemons : phase[e] \notin {"writing", "serving", "stopping"}
    BY <2>1 DEF FileInv
  <2>4. QED
    BY <1>1, <2>1, <2>2, <2>3, LaunchFrame DEF FileInv
<1>11. CASE Dies(d)
  <2>1. /\ \A e \in Daemons : phase'[e] = (IF e = d THEN "gone" ELSE phase[e])
                            /\ web'[e] = (IF e = d THEN None ELSE web[e])
        /\ UNCHANGED meta
    BY <1>11 DEF Dies, Ends
  <2>2. Booting' \subseteq Booting /\ Listening' \subseteq Listening \ {d}
    BY <1>1, <2>1 DEF Booting, Bound
  <2>3. QED
    BY <1>1, <2>1, <2>2, LaunchFrame DEF FileInv, Metadata
<1>12. QED
  BY <1>2, <1>3, <1>4, <1>5, <1>6, <1>7, <1>8, <1>9, <1>10, <1>11
\* A command looks, stops, cleans up and starts.
LEMMA CommandAlone ==
  ASSUME Typed, Typed', LaunchInv, FileInv, Calm, Calm', NEW l \in Launchers,
         \/ \E c \in Commands : Launch(l, c)
         \/ ReadMetadata(l) \/ Absent(l) \/ RequestStop(l) \/ Vanished(l) \/ WaitRunsOut(l)
         \/ CleanupStaleMetadata(l) \/ NotYet(l) \/ GiveUp(l)
         \/ \E d \in Daemons : Present(l, d) \/ StillThere(l, d) \/ Spawn(l, d) \/ Healthy(l, d)
  PROVE  LaunchInv' /\ FileInv'
<1> USE DEF Typed
<1>1. Listening = {d \in Daemons : phase[d] \in Bound}
  BY DEF DaemonsTyped, Listening
<1>2. ASSUME UNCHANGED <<daemons, meta>>
      PROVE  FileInv' /\ Listening' = Listening /\ Booting' = Booting
  BY <1>2 DEF daemons, FileInv, Listening, Booting, Metadata
<1>3. ASSUME NEW c \in Commands, Launch(l, c) PROVE LaunchInv' /\ FileInv'
  <2>1. /\ UnderWay = {} /\ Booting = {} /\ UNCHANGED <<daemons, meta>>
        /\ c = "foreground" => Listening = {}
    BY <1>3 DEF Launch, Calm
  <2>2. /\ \A m \in Launchers : m # l => pc'[m] = pc[m]
        /\ pc'[l] = (IF c = "foreground" THEN "spawn" ELSE "discover") /\ seen'[l] = Unread
    BY <1>3 DEF Launch, Goto, CommandsTyped
  <2>3. UnderWay' = {l}
    BY <2>1, <2>2 DEF UnderWay
  <2>4. QED
    BY <1>2, <2>1, <2>2, <2>3 DEF LaunchInv
<1>4. CASE ReadMetadata(l)
  <2>1. /\ UNCHANGED <<daemons, meta, pc>> /\ \A m \in Launchers : m # l => seen'[m] = seen[m]
        /\ seen'[l] = IF meta # None /\ meta.whole THEN meta.port ELSE None
    BY <1>4 DEF ReadMetadata, CommandsTyped
  <2>2. ASSUME pc[l] \in {"discover", "await"}, NEW d \in Listening PROVE web'[d] = seen'[l]
    <3>1. l \in UnderWay
      BY <2>2 DEF UnderWay
    <3>2. d \notin Booting
      BY <2>2, <3>1 DEF LaunchInv
    <3>3. phase[d] \in {"serving", "stopping"}
      BY <1>1, <2>2, <3>2 DEF Bound, Booting
    <3>4. meta = Metadata(d, TRUE) /\ meta # None
      BY <1>1, <2>2, <3>3, FileWritten DEF FileInv, Bound
    <3>5. QED
      BY <2>1, <3>4 DEF Metadata, daemons
  <2>3. UnderWay' = UnderWay /\ UnderWay = {l} /\ pc'[l] = pc[l]
    <3>1. l \in UnderWay
      BY <1>4 DEF ReadMetadata, Discovering, UnderWay
    <3>2. QED
      BY <2>1, <3>1 DEF LaunchInv, UnderWay
  <2>4. LaunchInv'
    BY <1>2, <2>1, <2>2, <2>3 DEF LaunchInv
  <2>5. QED
    BY <1>2, <2>1, <2>4
<1>5. CASE Absent(l) \/ Vanished(l)
  <2>1. /\ pc[l] \in {"discover", "await"} /\ seen[l] # Unread /\ Answering(l) = {}
        /\ UNCHANGED <<daemons, meta>>
    BY <1>5 DEF Absent, Vanished, Wants, NoAnswer, Lapse, Calm
  <2>2. l \in UnderWay
    BY <2>1 DEF UnderWay
  <2>3. Listening = {} /\ Booting = {}
    BY <2>1, <2>2 DEF LaunchInv, Answering
  <2>4. PICK p \in {"cleanup", "spawn"} : Goto(l, p)
    BY <1>5 DEF Absent, Vanished
  <2>5. QED
    BY <1>2, <2>1, <2>2, <2>3, <2>4, CommandGoes
<1>6. CASE RequestStop(l)
  <2>1. l \in UnderWay /\ Goto(l, "await") /\ pc[l] = "request" /\ UNCHANGED meta
    BY <1>6 DEF RequestStop, UnderWay
  <2>2. Booting = {}
    BY <2>1 DEF LaunchInv
  <2>3. /\ \A d \in Daemons : phase'[d] = phase[d] \/ (phase[d] = "serving" /\ phase'[d] = "stopping")
        /\ UNCHANGED web
    <3>1. CASE Posted(l)
      BY <1>6, <3>1 DEF RequestStop
    <3>2. CASE Hit(l) \subseteq Booting /\ Ends(Hit(l))
      <4>1. Hit(l) = {}
        BY <2>2, <3>2
      <4>2. QED
        BY <3>2, <4>1 DEF Ends, DaemonsTyped
    <3>3. CASE \E d \in Hit(l) : phase[d] = "serving" /\ To(d, "stopping") /\ UNCHANGED web
      BY <3>3 DEF To, DaemonsTyped
    <3>4. QED
      BY <1>6, <3>1, <3>2, <3>3 DEF RequestStop, daemons
  <2>4. Booting' = {} /\ Listening' = Listening
    BY <1>1, <2>2, <2>3 DEF Booting, Listening
  <2>5. FileInv'
    BY <2>1, <2>3, <2>4 DEF FileInv, Metadata
  <2>6. QED
    BY <2>1, <2>2, <2>4, <2>5, CommandGoes
<1>7. CASE WaitRunsOut(l)
  <2>1. l \in UnderWay /\ Goto(l, "cleanup") /\ pc[l] = "await" /\ UNCHANGED <<daemons, meta>> /\ Listening = {}
    BY <1>7 DEF WaitRunsOut, UnderWay, Lapse, Calm
  <2>2. Booting = {}
    BY <2>1 DEF LaunchInv
  <2>3. QED
    BY <1>2, <2>1, <2>2, CommandGoes
<1>8. CASE CleanupStaleMetadata(l)
  <2>1. l \in UnderWay /\ pc[l] = "cleanup" /\ UNCHANGED daemons
    BY <1>8 DEF CleanupStaleMetadata, UnderWay
  <2>2. PICK p \in {"done", "spawn"} : Goto(l, p)
    BY <1>8 DEF CleanupStaleMetadata
  <2>3. Booting = {} /\ Listening = {} /\ Booting' = {} /\ Listening' = {}
    BY <2>1 DEF LaunchInv, daemons, Booting, Listening
  <2>4. FileInv'
    BY <1>1, <2>1, <2>3 DEF FileInv, daemons, Bound, Booting
  <2>5. QED
    BY <2>1, <2>2, <2>3, <2>4, CommandGoes
<1>9. CASE NotYet(l) \/ GiveUp(l) \/ \E d \in Daemons : Healthy(l, d)
  <2>1. l \in UnderWay /\ UNCHANGED <<daemons, meta>>
    BY <1>9 DEF NotYet, GiveUp, Healthy, Wants, UnderWay
  <2>2. PICK p \in {"poll", "recheck", "done"} : Goto(l, p)
    BY <1>9 DEF NotYet, GiveUp, Healthy
  <2>3. QED
    BY <1>2, <2>1, <2>2, CommandGoes
<1>10. ASSUME NEW d \in Daemons, Present(l, d) PROVE LaunchInv' /\ FileInv'
  <2>1. l \in UnderWay /\ UNCHANGED <<daemons, meta>> /\ pc[l] = "discover"
    BY <1>10 DEF Present, Wants, UnderWay
  <2>2. Booting = {}
    BY <2>1 DEF LaunchInv
  <2>3. CASE \E p \in {"done", "discover"} : Goto(l, p)
    BY <1>2, <2>1, <2>2, <2>3, CommandGoes
  <2>4. CASE pc' = [pc EXCEPT ![l] = "request"] /\ UNCHANGED seen
    <3>1. \A m \in Launchers : pc'[m] = IF m = l THEN "request" ELSE pc[m]
      BY <2>4 DEF CommandsTyped
    <3>2. UnderWay' \subseteq {l}
      BY <2>1, <3>1 DEF LaunchInv, UnderWay
    <3>3. QED
      BY <1>2, <2>1, <2>2, <3>1, <3>2 DEF LaunchInv, UnderWay
  <2>5. QED
    BY <1>10, <2>3, <2>4 DEF Present
<1>11. ASSUME NEW d \in Daemons, StillThere(l, d) PROVE LaunchInv' /\ FileInv'
  <2>1. l \in UnderWay /\ UNCHANGED <<daemons, meta>> /\ pc[l] = "await" /\ Goto(l, "await")
    BY <1>11 DEF StillThere, Wants, UnderWay
  <2>2. Booting = {}
    BY <2>1 DEF LaunchInv
  <2>3. QED
    BY <1>2, <2>1, <2>2, CommandGoes
<1>12. ASSUME NEW d \in Daemons, Spawn(l, d) PROVE LaunchInv' /\ FileInv'
  <2>1. /\ l \in UnderWay /\ pc[l] = "spawn" /\ UNCHANGED <<meta, web>> /\ phase[d] = "unused"
        /\ \A e \in Daemons : phase'[e] = IF e = d THEN "starting" ELSE phase[e]
    BY <1>12, Steps DEF Spawn, UnderWay
  <2>2. Booting = {} /\ Listening = {}
    BY <2>1 DEF LaunchInv
  <2>3. Booting' = {d} /\ Listening' = {}
    BY <2>1, <2>2 DEF Booting, Listening
  <2>4. FileInv'
    BY <2>1, <2>2, <2>3 DEF FileInv, Booting, Metadata
  <2>5. PICK p \in {"done", "poll"} : Goto(l, p)
    BY <1>12 DEF Spawn
  <2>6. /\ \A m \in Launchers : pc'[m] = (IF m = l THEN p ELSE pc[m])
        /\ UnderWay' \subseteq {l} /\ (p = "done" => UnderWay' = {})
    <3>1. \A m \in Launchers : pc'[m] = IF m = l THEN p ELSE pc[m]
      BY <2>5 DEF Goto, CommandsTyped
    <3>2. QED
      BY <2>1, <3>1 DEF LaunchInv, UnderWay
  <2>7. LaunchInv'
    BY <2>3, <2>6 DEF LaunchInv, UnderWay
  <2>8. QED
    BY <2>4, <2>7
<1>13. QED
  BY <1>3, <1>4, <1>5, <1>6, <1>7, <1>8, <1>9, <1>10, <1>11, <1>12

-----------------------------------------------------------------------------
(* The theorems.                                                           *)

\* Nothing runs, or one daemon does that the file names.
LEMMA InitIInv == LifecycleInit => IInv
<1> SUFFICES ASSUME LifecycleInit PROVE IInv
  OBVIOUS
<1>1. \A d, e \in Daemons : phase[d] \in {"unused", "serving"}
                           /\ (phase[d] = "serving" /\ phase[e] = "serving" => d = e)
  BY DEF LifecycleInit
<1>2. (1..LastPort # {} /\ 1 \in 1..LastPort) \/ Daemons = {}
  BY LifecycleConstants, FS_EmptySet, FS_CardinalityType
<1>3. \A d \in Daemons : web[d] = (IF phase[d] = "serving" THEN 1 ELSE None)
  BY DEF LifecycleInit
<1>4. Listening = {d \in Daemons : phase[d] = "serving"}
  BY <1>2, <1>3, Sentinels DEF Listening
<1>5. DaemonsTyped
  BY <1>1, <1>2, <1>3, <1>4, Sentinels DEF LifecycleInit, DaemonsTyped, Phases, Bound
<1>6. \A d \in Listening : meta = [owner |-> d, port |-> 1, whole |-> TRUE]
  BY <1>1, <1>4 DEF LifecycleInit
<1>7. MetaTyped
  BY <1>2, <1>4, <1>6 DEF LifecycleInit, MetaTyped, Files
<1>8. CommandsTyped /\ HistoryTyped
  BY LifecycleConstants DEF LifecycleInit, CommandsTyped, HistoryTyped
<1>9. LaunchInv
  BY <1>1 DEF LifecycleInit, LaunchInv, UnderWay, Booting
<1>10. FileInv
  BY <1>1, <1>3, <1>4, <1>6 DEF FileInv, Metadata
<1>11. QED
  BY <1>5, <1>7, <1>8, <1>9, <1>10 DEF IInv, Typed, AloneInv

\* Every variable keeps its type, and until something lapses one command at a
\* time is under way and one daemon listens, with a file of its own.
THEOREM LifecycleInvariance == LifecycleSpec => []IInv
<1>1. IInv /\ [LifecycleNext]_lifecycleVars => IInv'
  <2> SUFFICES ASSUME IInv, [LifecycleNext]_lifecycleVars PROVE IInv'
    OBVIOUS
  <2>1. CASE LifecycleNext
    <3>1. Typed'
      BY <2>1, DaemonTypes, CommandTypes DEF IInv, LifecycleNext
    <3>2. ASSUME Calm' PROVE LaunchInv' /\ FileInv'
      <4>1. Calm /\ LaunchInv /\ FileInv
        BY <2>1, <3>2, CalmBefore DEF IInv, AloneInv
      <4>2. QED
        BY <2>1, <3>1, <3>2, <4>1, DaemonAlone, CommandAlone DEF IInv, LifecycleNext
    <3>3. QED
      BY <3>1, <3>2 DEF IInv, AloneInv
  <2>2. CASE UNCHANGED lifecycleVars
    BY <2>2 DEF lifecycleVars, daemons, launchers, IInv, Typed, DaemonsTyped, MetaTyped, CommandsTyped, HistoryTyped,
       AloneInv, Calm, LaunchInv, FileInv, UnderWay, Booting, Listening, Metadata
  <2>3. QED
    BY <2>1, <2>2
<1>2. QED
  BY InitIInv, <1>1, PTL DEF LifecycleSpec

\* A listener is bound exactly from its bind to its close, no two daemons share
\* a port, and at most one has the tunnel port.
THEOREM PortsAreExclusive == LifecycleSpec => []LifecycleTypeOK
<1>1. IInv => LifecycleTypeOK
  BY TypedImpliesTypeOK DEF IInv
<1>2. QED
  BY <1>1, LifecycleInvariance, PTL

\* One daemon, found by everybody, over any sequence of commands, signals and
\* crashes: unless one of the lapses that SplitNeedsLapse names has happened.
THEOREM OneDaemonIsFound == LifecycleSpec => []SplitNeedsLapse
<1>1. IInv => SplitNeedsLapse
  <2> SUFFICES ASSUME IInv, Calm
               PROVE  /\ Cardinality(Listening) <= 1
                      /\ \A d \in Daemons : phase[d] \in {"serving", "stopping"} => meta = Metadata(d, TRUE)
    BY DEF SplitNeedsLapse, Calm
  <2>1. FileInv
    BY DEF IInv, AloneInv
  <2>2. Cardinality(Listening) <= 1
    <3>1. CASE Listening = {}
      BY <3>1, FS_EmptySet
    <3>2. CASE Listening # {}
      <4>1. PICK d : Listening = {d}
        BY <2>1, <3>2 DEF FileInv
      <4>2. QED
        BY <4>1, FS_Singleton
    <3>3. QED
      BY <3>1, <3>2
  <2>3. \A d \in Daemons : phase[d] \in {"serving", "stopping"} => meta = Metadata(d, TRUE)
    BY <2>1 DEF FileInv
  <2>4. QED
    BY <2>2, <2>3
<1>2. QED
  BY <1>1, LifecycleInvariance, PTL

-----------------------------------------------------------------------------
(* What the daemon keeps of Docker.                                          *)
(* The inductive invariant.                                                 *)

Answered(p)   == lists[p].phase = "answered"
Inspecting(s) == streams[s].phase = "inspecting"

Domains ==
  /\ lists \in [Callers -> ListSet]
  /\ streams \in [Slots -> StreamSet]

(* A container is where the last of its events has brought it; it never     *)
(* comes back from its destruction.                                         *)
EngineInv ==
  /\ Last <= MaxEvents
  /\ \A c \in Containers :
       /\ world[c].at <= Last
       /\ world[c].at # 0 => events[world[c].at].c = c
  /\ \A i \in 1 .. Last :
       /\ i <= world[events[i].c].at
       /\ events[i].destroy =>
            world[events[i].c].life = "gone" /\ world[events[i].c].at = i

(* A stream and its consumer are where the engine has been, and a consumer  *)
(* inspects the container of the event it took last.                        *)
StreamPlaced(st) ==
  /\ st.phase = "connecting" => st.next = 0 /\ st.limit = 0 /\ st.open
  /\ st.phase \in {"idle", "inspecting"} =>
       /\ st.next <= Last + 1 /\ st.limit <= Last
       /\ st.next >= 1 \/ (~st.open /\ st.limit < st.next)
  /\ st.phase = "inspecting" =>
       st.next - 1 \in 1 .. Last /\ events[st.next - 1].c = st.c

(* Nobody is ahead of the engine.                                           *)
PlaceInv ==
  /\ covered <= Last /\ syncedTo <= Last
  /\ \A p \in Callers : Answered(p) => lists[p].pos <= Last
  /\ live # 0 => streams[live].phase # "none"
  /\ \A s \in Slots : StreamPlaced(streams[s])

(* What a read saw of a container is still true, or the container has       *)
(* changed since, after event n.                                            *)
StillTrue(w, c, n) == w = world[c] \/ world[c].at > n

(* A list that is alone is the only answer in flight, and ends what came    *)
(* before it.                                                               *)
LoneListInv == \A p \in Callers :
  Answered(p) /\ lists[p].alone =>
    /\ covered <= lists[p].pos
    /\ \A q \in Callers : q # p => ~Answered(q)
    /\ \A s \in Slots : ~Inspecting(s)
    /\ \A c \in Containers : StillTrue(lists[p].view[c], c, lists[p].pos)

(* Without an overlap every answer in flight is the only one, and the cache *)
(* is right about every container that has not changed since.               *)
NoOverlapInv == ~overlapped =>
  /\ \A p \in Callers : Answered(p) => lists[p].alone
  /\ \A s \in Slots : Inspecting(s) =>
       /\ \A r \in Slots : r # s => ~Inspecting(r)
       /\ \A p \in Callers : ~Answered(p)
       /\ StillTrue(streams[s].w, streams[s].c, covered)
       /\ StillTrue(streams[s].w, streams[s].c, streams[s].next - 1)
  /\ \A c \in Containers : Same(cache[c], world[c]) \/ world[c].at > covered

Inv ==
  /\ TypeOK /\ Domains /\ EngineInv /\ PlaceInv
  /\ LoneListInv /\ NoOverlapInv /\ UsageOnlyWhileRunning

-----------------------------------------------------------------------------
(* Types of what is in flight.                                              *)

Waiting    == [phase : {"connecting", "idle"}, next : Places, open : BOOLEAN, limit : Places]
Asking     == [phase : {"inspecting"}, next : Places, open : BOOLEAN, limit : Places,
               c : Containers, w : WorldSet]
AnswerSet  == [phase : {"answered"}, view : [Containers -> WorldSet],
               pos : 0 .. MaxEvents, alone : BOOLEAN]

LEMMA Numbers ==
  /\ MaxEvents \in Nat /\ MaxFailures \in Nat /\ Slots \subseteq Nat \ {0}
  /\ Places \subseteq Int /\ -1 \in Places /\ 0 \in Places
  BY DockerAssumption DEF Places

LEMMA StreamParts ==
  ASSUME NEW st \in StreamSet
  PROVE  /\ st = NoStream \/ st \in Waiting \/ st \in Asking
         /\ st.phase \in {"none", "connecting", "idle", "inspecting"}
         /\ st.phase = "none" <=> st = NoStream
         /\ st.phase \in {"connecting", "idle"} => st \in Waiting
         /\ st.phase = "inspecting" =>
              st \in Asking /\ st.c \in Containers /\ st.w \in WorldSet
         /\ st.phase # "none" => /\ st.next \in Int /\ st.next \in Places /\ st.open \in BOOLEAN
                                 /\ st.limit \in Int /\ st.limit \in Places
<1>1. st = NoStream \/ st \in Waiting \/ st \in Asking
  BY DEF StreamSet, Waiting, Asking
<1>2. CASE st = NoStream
  BY <1>2 DEF NoStream
<1>3. CASE st \in Waiting
  <2>1. /\ st.phase \in {"connecting", "idle"} /\ st.next \in Places
        /\ st.open \in BOOLEAN /\ st.limit \in Places
    BY <1>3 DEF Waiting
  <2>2. st # NoStream
    BY <2>1 DEF NoStream
  <2>3. st.next \in Int /\ st.limit \in Int
    BY <2>1, Numbers
  <2> QED BY <1>3, <2>1, <2>2, <2>3
<1>4. CASE st \in Asking
  <2>1. /\ st.phase \in {"inspecting"} /\ st.next \in Places
        /\ st.open \in BOOLEAN /\ st.limit \in Places /\ st.c \in Containers /\ st.w \in WorldSet
    BY <1>4 DEF Asking
  <2>2. st # NoStream
    BY <2>1 DEF NoStream
  <2>3. st.next \in Int /\ st.limit \in Int
    BY <2>1, Numbers
  <2> QED BY <1>4, <2>1, <2>2, <2>3
<1> QED BY <1>1, <1>2, <1>3, <1>4

LEMMA ListParts ==
  ASSUME NEW l \in ListSet
  PROVE  /\ l.phase \in {"none", "asked", "done", "answered"}
         /\ l.phase = "answered" =>
              /\ l \in AnswerSet
              /\ l.view \in [Containers -> WorldSet]
              /\ l.pos \in 0 .. MaxEvents /\ l.pos \in Int /\ l.pos >= 0 /\ l.pos <= MaxEvents
              /\ l.alone \in BOOLEAN
<1>1. l = NoList \/ l = [phase |-> "asked"] \/ l = [phase |-> "done"] \/ l \in AnswerSet
  BY DEF ListSet, AnswerSet
<1>2. CASE l \in AnswerSet
  BY <1>2, Numbers DEF AnswerSet
<1> QED BY <1>1, <1>2 DEF NoList

LEMMA EngineParts ==
  ASSUME TypeOK, EngineInv
  PROVE  /\ Last \in Nat /\ Last <= MaxEvents
         /\ \A c \in Containers :
              /\ world[c] \in WorldSet /\ world[c].at \in Nat /\ world[c].at <= Last
              /\ world[c].life \in {"unborn", "running", "exited", "gone"}
         /\ \A i \in 1 .. Last : /\ events[i].c \in Containers
                                 /\ events[i].destroy \in BOOLEAN
         /\ covered \in Int /\ syncedTo \in Int /\ covered >= -1 /\ syncedTo >= -1
<1>1. events \in Seq([c : Containers, destroy : BOOLEAN])
  BY DEF TypeOK
<1>2. Last \in Nat /\ \A i \in 1 .. Last : events[i] \in [c : Containers, destroy : BOOLEAN]
  <2>1. Len(events) \in Nat
    BY <1>1
  <2> QED BY <1>1, <2>1, ElementOfSeq DEF Last
<1>3. \A c \in Containers : world[c] \in WorldSet /\ world[c].at \in Nat
                            /\ world[c].life \in {"unborn", "running", "exited", "gone"}
  BY Numbers DEF TypeOK, WorldSet
<1>4. covered \in Int /\ syncedTo \in Int /\ covered >= -1 /\ syncedTo >= -1
  BY Numbers DEF TypeOK, Places
<1> QED BY <1>2, <1>3, <1>4 DEF EngineInv

(* A stream that is closed keeps its place, and what its consumer asked.    *)
LEMMA ClosedParts ==
  ASSUME TypeOK, EngineInv, NEW st \in StreamSet, st.phase # "none", StreamPlaced(st),
         NEW x \in Closed(st)
  PROVE  /\ x \in StreamSet /\ x.phase # "none" /\ StreamPlaced(x)
         /\ x.phase = "inspecting" =>
              /\ st.phase = "inspecting"
              /\ x.next = st.next /\ x.c = st.c /\ x.w = st.w
<1>1. /\ st.phase \in {"connecting", "idle", "inspecting"}
      /\ st.next \in Int /\ st.next \in Places /\ st.limit \in Places /\ st.open \in BOOLEAN
  BY StreamParts
<1>2. Last \in Nat /\ Last <= MaxEvents /\ MaxEvents \in Nat
  BY EngineParts, Numbers
<1>3. CASE ~st.open
  BY <1>3 DEF Closed
<1>4. CASE st.open /\ st.phase = "connecting"
  <2>1. x = [st EXCEPT !.open = FALSE, !.limit = st.next - 1, !.phase = "idle"]
    BY <1>4 DEF Closed
  <2>2. st \in Waiting /\ st.next = 0
    BY <1>4, StreamParts DEF StreamPlaced
  <2>3. /\ x \in Waiting /\ x.phase = "idle" /\ x.next = 0 /\ x.limit = -1 /\ x.open = FALSE
    <3>1. st.next - 1 = -1 /\ -1 \in Places
      BY <2>2, Numbers
    <3>2. x = [st EXCEPT !.open = FALSE, !.limit = -1, !.phase = "idle"]
      BY <2>1, <3>1
    <3> QED BY <2>2, <3>1, <3>2 DEF Waiting
  <2>4. x \in StreamSet
    BY <2>3 DEF StreamSet, Waiting
  <2> QED BY <2>3, <2>4, <1>2 DEF StreamPlaced
<1>5. CASE st.open /\ st.phase # "connecting"
  <2>1. PICK l \in (st.next - 1) .. Last : x = [st EXCEPT !.open = FALSE, !.limit = l]
    BY <1>5 DEF Closed
  <2>2. st.next >= 1 /\ st.next <= Last + 1
    BY <1>1, <1>5 DEF StreamPlaced
  <2>3. l \in Places /\ l <= Last
    BY <1>1, <1>2, <2>2 DEF Places
  <2>4. CASE st.phase = "idle"
    <3>1. st \in Waiting
      BY <2>4, StreamParts
    <3>2. x \in Waiting /\ x.phase = "idle" /\ x.next = st.next /\ x.limit = l
      BY <2>1, <2>3, <2>4, <3>1 DEF Waiting
    <3>3. x \in StreamSet
      BY <3>2 DEF StreamSet, Waiting
    <3> QED BY <2>2, <2>3, <3>2, <3>3 DEF StreamPlaced
  <2>5. CASE st.phase = "inspecting"
    <3>1. st \in Asking
      BY <2>5, StreamParts
    <3>2. /\ x \in Asking /\ x.phase = "inspecting" /\ x.next = st.next /\ x.limit = l
          /\ x.c = st.c /\ x.w = st.w
      BY <2>1, <2>3, <2>5, <3>1 DEF Asking
    <3>3. x \in StreamSet
      BY <3>2 DEF StreamSet, Asking
    <3> QED BY <2>2, <2>3, <2>5, <3>2, <3>3 DEF StreamPlaced
  <2> QED BY <1>1, <1>5, <2>4, <2>5
<1> QED BY <1>1, <1>3, <1>4, <1>5

-----------------------------------------------------------------------------
(* Steps that read nothing and apply nothing.                               *)

(* Answers in flight may be dropped, but none is made, and nothing that was *)
(* read or cached changes.                                                  *)
LEMMA QuietKeeps ==
  ASSUME Inv, TypeOK', Domains', PlaceInv',
         UNCHANGED <<world, events, cache, covered, overlapped>>,
         \A p \in Callers : Answered(p)' => Answered(p) /\ lists'[p] = lists[p],
         \A s \in Slots : Inspecting(s)' =>
           /\ Inspecting(s) /\ streams'[s].w = streams[s].w
           /\ streams'[s].c = streams[s].c /\ streams'[s].next = streams[s].next
  PROVE  Inv'
<1>1. EngineInv'
  BY DEF Inv, EngineInv, Last
<1>2. LoneListInv'
  BY DEF Inv, LoneListInv, StillTrue
<1>3. NoOverlapInv'
  BY DEF Inv, NoOverlapInv, StillTrue, Same, Exists
<1>4. UsageOnlyWhileRunning'
  BY DEF Inv, UsageOnlyWhileRunning
<1> QED BY <1>1, <1>2, <1>3, <1>4 DEF Inv

(* One stream is replaced by another that has no new answer.                *)
LEMMA StreamStep ==
  ASSUME Inv, NEW s \in Slots, NEW v \in StreamSet, StreamPlaced(v),
         streams' = [streams EXCEPT ![s] = v],
         v.phase = "inspecting" =>
           /\ Inspecting(s) /\ v.w = streams[s].w
           /\ v.c = streams[s].c /\ v.next = streams[s].next,
         UNCHANGED <<world, events, cache, syncedTo, samples, covered, overlapped, lists>>,
         timer' \in {"off", "armed", "syncing"}, failures' \in 0 .. MaxFailures,
         live' \in Slots \cup {0},
         live' # 0 => IF live' = s THEN v.phase # "none" ELSE live' = live
  PROVE  Inv'
<1>1. /\ streams' \in [Slots -> StreamSet] /\ streams'[s] = v
      /\ \A r \in Slots : r # s => streams'[r] = streams[r]
  BY DEF Inv, Domains
<1>2. Domains' /\ TypeOK'
  BY <1>1 DEF Inv, Domains, TypeOK
<1>4. PlaceInv'
  <2>1. live' # 0 => streams'[live'].phase # "none"
    BY <1>1 DEF Inv, PlaceInv
  <2>3. covered' <= Len(events') /\ syncedTo' <= Len(events')
        /\ \A p \in Callers : Answered(p)' => lists'[p].pos <= Len(events')
    BY DEF Inv, PlaceInv, Last, Answered
  <2>4. \A r \in Slots : StreamPlaced(streams[r])'
    BY <1>1 DEF Inv, PlaceInv, StreamPlaced, Last
  <2> QED BY <2>1, <2>3, <2>4 DEF PlaceInv, Last
<1>5. \A r \in Slots : Inspecting(r)' =>
           /\ Inspecting(r) /\ streams'[r].w = streams[r].w
           /\ streams'[r].c = streams[r].c /\ streams'[r].next = streams[r].next
  BY <1>1 DEF Inspecting
<1>6. \A p \in Callers : Answered(p)' => Answered(p) /\ lists'[p] = lists[p]
  BY DEF Answered
<1> QED BY <1>2, <1>4, <1>5, <1>6, QuietKeeps

LEMMA ConnectKeeps ==
  ASSUME Inv, NEW s \in Slots, Connect(s)
  PROVE  Inv'
<1>1. streams[s] \in StreamSet /\ StreamPlaced(streams[s]) /\ streams[s].phase = "connecting"
  BY DEF Inv, Domains, PlaceInv, Connect
<1>2. streams[s] \in Waiting /\ streams[s].limit = 0 /\ streams[s].open
  BY <1>1, StreamParts DEF StreamPlaced
<1>3. Last \in Nat /\ Last + 1 \in Places
  BY EngineParts, Numbers DEF Inv, Places
<1>4. PICK v \in StreamSet : v = [streams[s] EXCEPT !.phase = "idle", !.next = Last + 1]
  <2>1. [streams[s] EXCEPT !.phase = "idle", !.next = Last + 1] \in Waiting
    BY <1>2, <1>3 DEF Waiting
  <2>2. Waiting \subseteq StreamSet
    BY DEF Waiting, StreamSet
  <2> QED BY <2>1, <2>2
<1>5. v.phase = "idle" /\ v.next = Last + 1 /\ v.limit = 0
  BY <1>2, <1>4 DEF Waiting
<1>6. StreamPlaced(v)
  BY <1>3, <1>5 DEF StreamPlaced
<1>7. streams' = [streams EXCEPT ![s] = v]
  BY <1>4 DEF Connect
<1>8. UNCHANGED <<world, events, cache, syncedTo, samples, covered, overlapped, lists,
                  timer, failures, live>>
  BY DEF Connect
<1>9. /\ timer' \in {"off", "armed", "syncing"} /\ failures' \in 0 .. MaxFailures
      /\ live' \in Slots \cup {0}
  BY <1>8 DEF Inv, TypeOK
<1> QED BY <1>5, <1>6, <1>7, <1>8, <1>9, StreamStep

LEMMA StreamBreaksKeeps ==
  ASSUME Inv, NEW s \in Slots, StreamBreaks(s)
  PROVE  Inv'
<1>1. streams[s] \in StreamSet /\ StreamPlaced(streams[s]) /\ streams[s].phase # "none"
  BY StreamParts DEF Inv, Domains, PlaceInv, StreamBreaks
<1>2. PICK v \in Closed(streams[s]) : streams' = [streams EXCEPT ![s] = v]
  BY DEF StreamBreaks
<1>3. /\ v \in StreamSet /\ v.phase # "none" /\ StreamPlaced(v)
      /\ v.phase = "inspecting" =>
           /\ Inspecting(s) /\ v.w = streams[s].w
           /\ v.c = streams[s].c /\ v.next = streams[s].next
  BY <1>1, ClosedParts DEF Inv, Inspecting
<1>4. /\ UNCHANGED <<world, events, cache, syncedTo, samples, covered, overlapped, lists,
                     timer, live>>
      /\ failures < MaxFailures /\ failures' = failures + 1
  BY DEF StreamBreaks
<1>5. /\ timer' \in {"off", "armed", "syncing"} /\ failures' \in 0 .. MaxFailures
      /\ live' \in Slots \cup {0}
  BY <1>4, Numbers DEF Inv, TypeOK
<1> QED BY <1>2, <1>3, <1>4, <1>5, StreamStep

LEMMA ConsumerEndsKeeps ==
  ASSUME Inv, NEW s \in Slots, ConsumerEnds(s)
  PROVE  Inv'
<1>1. /\ NoStream \in StreamSet /\ NoStream.phase = "none" /\ StreamPlaced(NoStream)
  BY DEF StreamSet, NoStream, StreamPlaced
<1>2. /\ streams' = [streams EXCEPT ![s] = NoStream]
      /\ live' = IF live = s THEN 0 ELSE live
      /\ UNCHANGED <<world, events, cache, syncedTo, samples, covered, overlapped, lists,
                     timer, failures>>
  BY DEF ConsumerEnds
<1>3. /\ timer' \in {"off", "armed", "syncing"} /\ failures' \in 0 .. MaxFailures
      /\ live' \in Slots \cup {0}
  BY <1>2 DEF Inv, TypeOK
<1>4. live' # 0 => live' # s /\ live' = live
  BY <1>2
<1> QED BY <1>1, <1>2, <1>3, <1>4, StreamStep

(* What the consumer goes on from after an answer.                          *)
LEMMA IdleParts ==
  ASSUME Inv, NEW s \in Slots, Inspecting(s)
  PROVE  /\ Idle(streams[s]) \in StreamSet /\ StreamPlaced(Idle(streams[s]))
         /\ Idle(streams[s]).phase = "idle"
<1>1. streams[s] \in StreamSet /\ StreamPlaced(streams[s]) /\ streams[s].phase = "inspecting"
  BY DEF Inv, Domains, PlaceInv, Inspecting
<1>2. /\ streams[s].next \in Places /\ streams[s].open \in BOOLEAN /\ streams[s].limit \in Places
  BY <1>1, StreamParts
<1>3. Idle(streams[s]) \in Waiting
  BY <1>2 DEF Idle, Waiting
<1>4. Idle(streams[s]) \in StreamSet
  BY <1>3 DEF Waiting, StreamSet
<1>5. StreamPlaced(Idle(streams[s]))
  BY <1>1 DEF StreamPlaced, Idle
<1> QED BY <1>4, <1>5 DEF Idle

LEMMA InspectFailsKeeps ==
  ASSUME Inv, NEW s \in Slots, InspectFails(s)
  PROVE  Inv'
<1>1. Inspecting(s)
  BY DEF InspectFails, Inspecting
<1>2. PICK v \in StreamSet : v = Idle(streams[s])
  BY <1>1, IdleParts
<1>3. v.phase = "idle" /\ StreamPlaced(v)
  BY <1>1, <1>2, IdleParts
<1>4. /\ streams' = [streams EXCEPT ![s] = v]
      /\ UNCHANGED <<world, events, cache, syncedTo, samples, covered, overlapped, lists,
                     timer, live>>
      /\ failures < MaxFailures /\ failures' = failures + 1
  BY <1>2 DEF InspectFails
<1>5. /\ timer' \in {"off", "armed", "syncing"} /\ failures' \in 0 .. MaxFailures
      /\ live' \in Slots \cup {0}
  BY <1>4, Numbers DEF Inv, TypeOK
<1> QED BY <1>3, <1>4, <1>5, StreamStep

(* What start and the reconcile timer do after their sync.                  *)
LEMMA AfterSyncParts ==
  ASSUME Inv, NEW p \in Callers, NEW since \in -1 .. Last, AfterSync(p, since)
  PROVE  /\ streams' \in [Slots -> StreamSet]
         /\ \A s \in Slots : /\ StreamPlaced(streams'[s])
                             /\ streams'[s].phase = "inspecting" => streams'[s] = streams[s]
         /\ live' \in Slots \cup {0} /\ timer' \in {"off", "armed", "syncing"}
         /\ live' # 0 => streams'[live'].phase # "none"
<1>1. /\ streams \in [Slots -> StreamSet] /\ \A s \in Slots : StreamPlaced(streams[s])
      /\ live \in Slots \cup {0} /\ timer \in {"off", "armed", "syncing"}
      /\ live # 0 => streams[live].phase # "none"
  BY DEF Inv, Domains, TypeOK, PlaceInv
<1>2. CASE p = "restore"
  BY <1>1, <1>2 DEF AfterSync
<1>3. CASE p # "restore"
  <2>1. PICK s \in FreeSlots : /\ streams' = Opened(streams, s, since)
                               /\ live' = s /\ timer' = "armed"
    BY <1>3 DEF AfterSync
  <2>2. s \in Slots
    BY <2>1 DEF FreeSlots
  <2>3. Last \in Nat /\ Last <= MaxEvents /\ MaxEvents \in Nat
    BY EngineParts, Numbers DEF Inv
  <2>4. since \in Int /\ since >= -1 /\ since <= Last /\ since + 1 \in Places
    BY <2>3 DEF Places
  <2> DEFINE v == [phase |-> IF since = NotSynced THEN "connecting" ELSE "idle",
                   next  |-> since + 1, open |-> TRUE, limit |-> 0]
  <2>5. /\ v \in Waiting /\ v.phase \in {"connecting", "idle"} /\ v.next = since + 1
        /\ v.limit = 0 /\ v.open = TRUE /\ (v.phase = "connecting" <=> since = -1)
    BY <2>4, Numbers DEF Waiting, NotSynced
  <2>6. streams' = [streams EXCEPT ![s] = v]
    BY <2>1 DEF Opened
  <2> HIDE DEF v
  <2>7. v \in StreamSet
    BY <2>5 DEF Waiting, StreamSet
  <2>8. StreamPlaced(v)
    <3>1. v.phase = "connecting" => v.next = 0
      BY <2>5
    <3>2. v.phase = "idle" => v.next >= 1 /\ v.next <= Last + 1
      <4>1. v.phase = "idle" => since # -1
        BY <2>5
      <4>2. since # -1 => since + 1 >= 1 /\ since + 1 <= Last + 1
        BY <2>3, <2>4
      <4> QED BY <2>5, <4>1, <4>2
    <3> QED BY <2>3, <2>5, <3>1, <3>2 DEF StreamPlaced
  <2>9. /\ streams' \in [Slots -> StreamSet] /\ streams'[s] = v
        /\ \A r \in Slots : r # s => streams'[r] = streams[r]
    BY <1>1, <2>2, <2>6, <2>7
  <2> QED BY <1>1, <2>1, <2>2, <2>5, <2>8, <2>9
<1> QED BY <1>2, <1>3

LEMMA RestoreSyncsKeeps ==
  ASSUME Inv, RestoreSyncs
  PROVE  Inv'
<1>1. /\ lists' = [lists EXCEPT !["restore"] = [phase |-> "asked"]]
      /\ UNCHANGED <<world, events, cache, syncedTo, timer, streams, live, samples,
                     failures, covered, overlapped>>
  BY DEF RestoreSyncs
<1>2. /\ lists' \in [Callers -> ListSet]
      /\ \A p \in Callers : Answered(p)' => Answered(p) /\ lists'[p] = lists[p]
  BY <1>1 DEF Inv, Domains, ListSet, Answered, Callers
<1>3. TypeOK' /\ Domains'
  BY <1>1, <1>2 DEF Inv, TypeOK, Domains
<1>4. PlaceInv'
  BY <1>1, <1>2 DEF Inv, PlaceInv, StreamPlaced, Last
<1> QED BY <1>1, <1>2, <1>3, <1>4, QuietKeeps DEF Inspecting

LEMMA ReconcileKeeps ==
  ASSUME Inv, ReconcileFires
  PROVE  Inv'
<1>1. /\ timer' = "syncing" /\ live' = 0
      /\ lists' = [lists EXCEPT !["reconcile"] = [phase |-> "asked"]]
      /\ IF live = 0 THEN UNCHANGED streams
         ELSE \E st \in Closed(streams[live]) : streams' = [streams EXCEPT ![live] = st]
      /\ UNCHANGED <<world, events, cache, syncedTo, samples, failures, covered, overlapped>>
  BY DEF ReconcileFires
<1>2. /\ lists' \in [Callers -> ListSet]
      /\ \A p \in Callers : Answered(p)' => Answered(p) /\ lists'[p] = lists[p]
  BY <1>1 DEF Inv, Domains, ListSet, Answered, Callers
<1>3. /\ streams' \in [Slots -> StreamSet]
      /\ \A s \in Slots :
           /\ StreamPlaced(streams'[s])
           /\ streams'[s].phase = "inspecting" =>
                /\ streams[s].phase = "inspecting" /\ streams'[s].w = streams[s].w
                /\ streams'[s].c = streams[s].c /\ streams'[s].next = streams[s].next
  <2>1. streams \in [Slots -> StreamSet] /\ \A s \in Slots : StreamPlaced(streams[s])
    BY DEF Inv, Domains, PlaceInv
  <2>2. CASE live = 0
    BY <1>1, <2>1, <2>2
  <2>3. CASE live # 0
    <3>1. live \in Slots /\ streams[live].phase # "none"
      BY <2>3 DEF Inv, TypeOK, PlaceInv
    <3>2. PICK v \in Closed(streams[live]) : streams' = [streams EXCEPT ![live] = v]
      BY <1>1, <2>3
    <3>3. /\ v \in StreamSet /\ StreamPlaced(v)
          /\ v.phase = "inspecting" =>
               /\ streams[live].phase = "inspecting" /\ v.w = streams[live].w
               /\ v.c = streams[live].c /\ v.next = streams[live].next
      BY <2>1, <3>1, ClosedParts DEF Inv
    <3> QED BY <2>1, <3>1, <3>2, <3>3
  <2> QED BY <2>2, <2>3
<1>4. TypeOK' /\ Domains'
  BY <1>1, <1>2, <1>3 DEF Inv, TypeOK, Domains
<1>5. PlaceInv'
  BY <1>1, <1>2, <1>3 DEF Inv, PlaceInv, StreamPlaced, Last
<1> QED BY <1>1, <1>2, <1>3, <1>4, <1>5, QuietKeeps DEF Inspecting

LEMMA ListFailsKeeps ==
  ASSUME Inv, NEW p \in Callers, ListFails(p)
  PROVE  Inv'
<1>1. /\ failures < MaxFailures /\ failures' = failures + 1
      /\ AfterSync(p, syncedTo)
      /\ lists' = [lists EXCEPT ![p] = EndOfList(p)]
      /\ UNCHANGED <<world, events, cache, syncedTo, samples, covered, overlapped>>
  BY DEF ListFails
<1>2. /\ lists' \in [Callers -> ListSet]
      /\ \A q \in Callers : Answered(q)' => Answered(q) /\ lists'[q] = lists[q]
  <2>1. EndOfList(p) \in ListSet /\ EndOfList(p).phase # "answered"
    BY DEF EndOfList, NoList, ListSet
  <2> QED BY <1>1, <2>1 DEF Inv, Domains, Answered
<1>3. syncedTo \in -1 .. Last
  BY EngineParts DEF Inv, PlaceInv
<1>4. /\ streams' \in [Slots -> StreamSet]
      /\ \A s \in Slots : /\ StreamPlaced(streams'[s])
                          /\ streams'[s].phase = "inspecting" => streams'[s] = streams[s]
      /\ live' \in Slots \cup {0} /\ timer' \in {"off", "armed", "syncing"}
      /\ live' # 0 => streams'[live'].phase # "none"
  BY <1>1, <1>3, AfterSyncParts
<1>5. failures' \in 0 .. MaxFailures
  BY <1>1, Numbers DEF Inv, TypeOK
<1>6. TypeOK' /\ Domains'
  BY <1>1, <1>2, <1>4, <1>5 DEF Inv, TypeOK, Domains
<1>7. PlaceInv'
  BY <1>1, <1>2, <1>4 DEF Inv, PlaceInv, StreamPlaced, Last
<1> QED BY <1>1, <1>2, <1>4, <1>6, <1>7, QuietKeeps DEF Inspecting

LEMMA SampleKeeps ==
  ASSUME Inv, SampleStats \/ UNCHANGED vars
  PROVE  Inv'
<1>1. UNCHANGED <<world, events, cache, syncedTo, lists, timer, streams, live,
                  failures, covered, overlapped>>
  BY DEF SampleStats, vars
<1>2. samples' \subseteq [c : Containers, entry : EntrySet]
  BY DEF SampleStats, vars, Inv, TypeOK
<1>3. TypeOK' /\ Domains'
  BY <1>1, <1>2 DEF Inv, TypeOK, Domains
<1>4. PlaceInv'
  BY <1>1 DEF Inv, PlaceInv, StreamPlaced, Last, Answered
<1> QED BY <1>1, <1>3, <1>4, QuietKeeps DEF Inspecting, Answered

-----------------------------------------------------------------------------
(* The engine.                                                              *)

LEMMA EngineKeeps ==
  ASSUME Inv, NEW c \in Containers, EngineChanges(c)
  PROVE  Inv'
<1>1. /\ TypeOK /\ Domains /\ EngineInv /\ PlaceInv
      /\ LoneListInv /\ NoOverlapInv /\ UsageOnlyWhileRunning
  BY DEF Inv
<1>2. PICK life \in CASE world[c].life = "unborn"  -> {"running"}
                      [] world[c].life = "running" -> {"exited"}
                      [] world[c].life = "exited"  -> {"running", "gone"}
                      [] OTHER -> {} :
        /\ events' = Append(events, [c |-> c, destroy |-> life = "gone"])
        /\ world' = [world EXCEPT ![c] = [life |-> life, at |-> Last + 1]]
  BY DEF EngineChanges
<1>3. /\ Last < MaxEvents
      /\ UNCHANGED <<cache, syncedTo, lists, timer, streams, live, samples,
                     failures, covered, overlapped>>
  BY DEF EngineChanges
<1>4. life \in {"running", "exited", "gone"} /\ world[c].life # "gone"
  BY <1>2
<1>5. /\ Last \in Nat /\ Last + 1 \in 0 .. MaxEvents /\ Last + 1 <= MaxEvents
      /\ covered <= Last /\ covered \in Int
  BY <1>1, <1>3, EngineParts, Numbers DEF PlaceInv
<1>6. /\ world' \in [Containers -> WorldSet]
      /\ world'[c].at = Last + 1 /\ world'[c].life = life
      /\ \A d \in Containers : d # c => world'[d] = world[d]
  <2>1. [life |-> life, at |-> Last + 1] \in WorldSet
    BY <1>4, <1>5 DEF WorldSet
  <2> QED BY <1>1, <1>2, <2>1 DEF TypeOK
<1>7. /\ events' \in Seq([c : Containers, destroy : BOOLEAN])
      /\ Last' = Last + 1
      /\ \A i \in 1 .. Last : events'[i] = events[i]
      /\ events'[Last + 1].c = c
      /\ events'[Last + 1].destroy = (life = "gone")
  <2> DEFINE e == [c |-> c, destroy |-> life = "gone"]
  <2>1. e \in [c : Containers, destroy : BOOLEAN] /\ e.c = c /\ e.destroy = (life = "gone")
    OBVIOUS
  <2>2. events' = Append(events, e) /\ events \in Seq([c : Containers, destroy : BOOLEAN])
    BY <1>1, <1>2 DEF TypeOK
  <2> HIDE DEF e
  <2>3. /\ events' \in Seq([c : Containers, destroy : BOOLEAN])
        /\ Len(events') = Len(events) + 1
        /\ \A i \in 1 .. Len(events) : events'[i] = events[i]
        /\ events'[Len(events) + 1] = e
    BY <2>1, <2>2
  <2> QED BY <2>1, <2>3 DEF Last
<1>8. TypeOK' /\ Domains'
  BY <1>1, <1>3, <1>6, <1>7 DEF TypeOK, Domains
<1>9. \A d \in Containers : world[d].at \in Nat /\ world[d].at <= Last
  BY <1>1, EngineParts
<1>10. \A i \in 1 .. Last : events[i].c \in Containers
  BY <1>1, EngineParts
<1>11. EngineInv'
  <2>1. \A d \in Containers : /\ world'[d].at <= Last + 1
                              /\ world'[d].at # 0 => events'[world'[d].at].c = d
    <3> SUFFICES ASSUME NEW d \in Containers
                 PROVE  /\ world'[d].at <= Last + 1
                        /\ world'[d].at # 0 => events'[world'[d].at].c = d
      OBVIOUS
    <3>1. CASE d = c
      <4>1. PICK k \in Nat : k = Last + 1
        BY <1>5
      <4>2. world'[d].at = k /\ events'[k].c = c
        BY <3>1, <4>1, <1>6, <1>7
      <4> QED BY <3>1, <4>1, <4>2, <1>5
    <3>2. CASE d # c
      <4>1. PICK k \in Nat : k = world[d].at /\ k <= Last
        BY <1>9
      <4>2. world'[d].at = k /\ k <= Last + 1
        BY <3>2, <4>1, <1>5, <1>6
      <4>3. k # 0 => k \in 1 .. Last /\ events[k].c = d
        BY <4>1, <1>1, <1>5 DEF EngineInv
      <4> QED BY <4>2, <4>3, <1>7
    <3> QED BY <3>1, <3>2
  <2>2. ASSUME NEW i \in 1 .. Last + 1
        PROVE  /\ i <= world'[events'[i].c].at
               /\ events'[i].destroy =>
                    world'[events'[i].c].life = "gone" /\ world'[events'[i].c].at = i
    <3>1. CASE i = Last + 1
      <4>1. events'[i].c = c /\ (events'[i].destroy => life = "gone")
        BY <3>1, <1>7
      <4>2. world'[c].at = i /\ world'[c].life = life /\ i <= i
        BY <3>1, <1>5, <1>6
      <4> QED BY <4>1, <4>2
    <3>2. CASE i \in 1 .. Last
      <4>1. /\ events'[i] = events[i] /\ events[i].c \in Containers
            /\ i <= world[events[i].c].at
            /\ events[i].destroy =>
                 world[events[i].c].life = "gone" /\ world[events[i].c].at = i
        BY <3>2, <1>1, <1>7, <1>10 DEF EngineInv
      <4>2. CASE events[i].c = c
        <5>1. ~events[i].destroy
          BY <4>1, <4>2, <1>4
        <5>2. i <= Last + 1
          BY <3>2, <1>5
        <5> QED BY <4>1, <4>2, <5>1, <5>2, <1>6
      <4>3. CASE events[i].c # c
        BY <4>1, <4>3, <1>6
      <4> QED BY <4>2, <4>3
    <3> QED BY <3>1, <3>2, <1>5
  <2> QED BY <2>1, <2>2, <1>5, <1>7 DEF EngineInv
<1>12. \A s \in Slots : StreamPlaced(streams[s])'
  <2> SUFFICES ASSUME NEW s \in Slots PROVE StreamPlaced(streams[s])'
    OBVIOUS
  <2> DEFINE st == streams[s]
  <2>1. StreamPlaced(st) /\ st \in StreamSet /\ streams'[s] = st
    BY <1>1, <1>3 DEF PlaceInv, Domains
  <2>2. st.phase \in {"idle", "inspecting"} => st.next \in Int /\ st.limit \in Int
    BY <2>1, StreamParts
  <2>3. st.phase \in {"idle", "inspecting"} => st.next <= (Last + 1) + 1 /\ st.limit <= Last + 1
    BY <2>1, <2>2, <1>5 DEF StreamPlaced
  <2>4. st.phase = "inspecting" =>
          st.next - 1 \in 1 .. Last + 1 /\ events'[st.next - 1].c = st.c
    BY <2>1, <1>5, <1>7 DEF StreamPlaced
  <2> QED BY <2>1, <2>3, <2>4, <1>7 DEF StreamPlaced
<1>13. PlaceInv'
  <2>1. \A p \in Callers : Answered(p) => lists[p].pos \in Int /\ lists[p].pos <= Last
    BY <1>1, ListParts DEF Domains, Answered, PlaceInv
  <2>2. \A p \in Callers : Answered(p) => lists[p].pos <= Last + 1
    BY <2>1, <1>5
  <2>3. covered <= Last + 1 /\ syncedTo <= Last + 1
    BY <1>1, <1>5, EngineParts DEF PlaceInv
  <2> QED BY <1>1, <1>3, <1>7, <1>12, <2>2, <2>3 DEF PlaceInv, Answered
(* What was true of c before is not any more, but then c has changed since. *)
<1>14. \A d \in Containers : \A n \in Int : \A w :
         StillTrue(w, d, n) /\ n <= Last => StillTrue(w, d, n)'
  <2> SUFFICES ASSUME NEW d \in Containers, NEW n \in Int, NEW w,
                      StillTrue(w, d, n), n <= Last
               PROVE  w = world'[d] \/ world'[d].at > n
    BY DEF StillTrue
  <2>1. CASE d = c
    BY <2>1, <1>5, <1>6
  <2>2. CASE d # c
    BY <2>2, <1>6 DEF StillTrue
  <2> QED BY <2>1, <2>2
<1>15. LoneListInv'
  <2> SUFFICES ASSUME NEW p \in Callers, Answered(p), lists[p].alone
               PROVE  /\ covered <= lists[p].pos
                      /\ \A q \in Callers : q # p => ~Answered(q)
                      /\ \A s \in Slots : ~Inspecting(s)
                      /\ \A d \in Containers :
                           lists[p].view[d] = world'[d] \/ world'[d].at > lists[p].pos
    BY <1>3 DEF LoneListInv, Answered, Inspecting, StillTrue
  <2>1. lists[p].pos \in Int /\ lists[p].pos <= Last
    BY <1>1, ListParts DEF Domains, Answered, PlaceInv
  <2> QED BY <1>1, <1>14, <2>1 DEF LoneListInv, StillTrue
<1>16. NoOverlapInv'
  <2> SUFFICES ASSUME ~overlapped
               PROVE  /\ \A p \in Callers : Answered(p) => lists[p].alone
                      /\ \A s \in Slots : Inspecting(s) =>
                           /\ \A r \in Slots : r # s => ~Inspecting(r)
                           /\ \A p \in Callers : ~Answered(p)
                           /\ StillTrue(streams[s].w, streams[s].c, covered)'
                           /\ StillTrue(streams[s].w, streams[s].c, streams[s].next - 1)'
                      /\ \A d \in Containers : Same(cache[d], world'[d]) \/ world'[d].at > covered
    BY <1>3 DEF NoOverlapInv, Answered, Inspecting, Same, Exists
  <2>1. ASSUME NEW s \in Slots, Inspecting(s)
        PROVE  /\ StillTrue(streams[s].w, streams[s].c, covered)'
               /\ StillTrue(streams[s].w, streams[s].c, streams[s].next - 1)'
    <3>1. streams[s].c \in Containers /\ streams[s].next \in Int
      BY <2>1, <1>1, StreamParts DEF Domains, Inspecting
    <3>2. streams[s].next - 1 \in Int /\ streams[s].next - 1 <= Last
      BY <2>1, <1>1, <1>5, <3>1 DEF PlaceInv, StreamPlaced, Inspecting
    <3>3. PICK n \in Int : n = streams[s].next - 1
      BY <3>2
    <3>4. /\ StillTrue(streams[s].w, streams[s].c, covered)
          /\ StillTrue(streams[s].w, streams[s].c, n)
      BY <2>1, <1>1, <3>3 DEF NoOverlapInv
    <3>5. PICK d \in Containers : d = streams[s].c
      BY <3>1
    <3>6. PICK w : w = streams[s].w
      OBVIOUS
    <3>7. /\ w = world'[d] \/ world'[d].at > covered
          /\ w = world'[d] \/ world'[d].at > n
      BY <1>5, <1>14, <3>2, <3>3, <3>4, <3>5, <3>6 DEF StillTrue
    <3> QED BY <1>3, <3>3, <3>5, <3>6, <3>7 DEF StillTrue
  <2>2. ASSUME NEW d \in Containers PROVE Same(cache[d], world'[d]) \/ world'[d].at > covered
    <3>1. CASE d = c
      BY <3>1, <1>5, <1>6
    <3>2. CASE d # c
      BY <3>2, <1>1, <1>6 DEF NoOverlapInv
    <3> QED BY <3>1, <3>2
  <2> QED BY <1>1, <2>1, <2>2 DEF NoOverlapInv
<1>17. UsageOnlyWhileRunning'
  BY <1>1, <1>3 DEF UsageOnlyWhileRunning
<1> QED BY <1>8, <1>11, <1>13, <1>15, <1>16, <1>17 DEF Inv

-----------------------------------------------------------------------------
(* Reads and what comes of them.                                            *)

LEMMA EntryParts ==
  ASSUME NEW old \in EntrySet, NEW w \in WorldSet
  PROVE  /\ Entry(old, w) \in EntrySet
         /\ Same(Entry(old, w), w)
         /\ Entry(old, w).usage => Entry(old, w).life = "running"
<1>1. /\ w.life \in {"unborn", "running", "exited", "gone"} /\ w.at \in 0 .. MaxEvents
  BY DEF WorldSet
<1>2. CASE Exists(w)
  <2>1. w.life \in {"running", "exited"}
    BY <1>2 DEF Exists
  <2>2. Entry(old, w) = [life |-> w.life, at |-> w.at,
                         usage |-> w.life = "running" /\ old.usage]
    BY <1>2 DEF Entry, Upserted
  <2>3. (w.life = "running" /\ old.usage) \in BOOLEAN
    OBVIOUS
  <2>4. Entry(old, w) \in [life : {"running", "exited"}, at : 0 .. MaxEvents, usage : BOOLEAN]
    BY <1>1, <2>1, <2>2, <2>3
  <2>5. /\ Entry(old, w).life = w.life /\ Entry(old, w).at = w.at
        /\ Entry(old, w).usage = (w.life = "running" /\ old.usage)
    BY <2>2
  <2>6. Entry(old, w) \in EntrySet
    BY <2>4 DEF EntrySet
  <2>7. Same(Entry(old, w), w)
    BY <1>2, <2>5 DEF Same
  <2>8. Entry(old, w).usage => Entry(old, w).life = "running"
    BY <2>5
  <2> QED BY <2>6, <2>7, <2>8
<1>3. CASE ~Exists(w)
  BY <1>3 DEF Entry, EntrySet, Same, NoEntry
<1> QED BY <1>2, <1>3

LEMMA NotAloneParts ==
  ASSUME Domains
  PROVE  /\ NotAlone(lists) \in [Callers -> ListSet]
         /\ \A p \in Callers :
              /\ NotAlone(lists)[p].phase = lists[p].phase
              /\ Answered(p) => /\ NotAlone(lists)[p].alone = FALSE
                                /\ NotAlone(lists)[p].pos = lists[p].pos
<1> SUFFICES ASSUME NEW p \in Callers
             PROVE  /\ NotAlone(lists)[p] \in ListSet
                    /\ NotAlone(lists)[p].phase = lists[p].phase
                    /\ Answered(p) => /\ NotAlone(lists)[p].alone = FALSE
                                      /\ NotAlone(lists)[p].pos = lists[p].pos
  BY DEF NotAlone
<1>1. lists[p] \in ListSet
  BY DEF Domains
<1>2. CASE Answered(p)
  <2>1. lists[p] \in AnswerSet
    BY <1>1, <1>2, ListParts DEF Answered
  <2>2. NotAlone(lists)[p] = [lists[p] EXCEPT !.alone = FALSE]
    BY <1>2 DEF NotAlone, Answered
  <2>3. /\ NotAlone(lists)[p] \in AnswerSet /\ NotAlone(lists)[p].phase = lists[p].phase
        /\ NotAlone(lists)[p].alone = FALSE /\ NotAlone(lists)[p].pos = lists[p].pos
    BY <2>1, <2>2 DEF AnswerSet
  <2> QED BY <2>3 DEF AnswerSet, ListSet
<1>3. CASE ~Answered(p)
  BY <1>1, <1>3 DEF NotAlone, Answered
<1> QED BY <1>2, <1>3

LEMMA CoversParts ==
  ASSUME Inv, NEW i \in 1 .. Last
  PROVE  /\ Covers(i) \in Int /\ Covers(i) <= Last /\ Covers(i) \in Places
         /\ Covers(i) >= covered
         /\ Covers(i) = covered \/ (Covers(i) = i /\ i = covered + 1)
         /\ \A d \in Containers :
              d # events[i].c /\ world[d].at > covered => world[d].at > Covers(i)
<1>1. /\ covered \in Int /\ covered <= Last /\ covered \in Places
      /\ Last \in Nat /\ Last <= MaxEvents /\ MaxEvents \in Nat
  BY EngineParts, Numbers DEF Inv, PlaceInv, TypeOK
<1>2. /\ Covers(i) \in Int /\ Covers(i) <= Last /\ Covers(i) \in Places
      /\ Covers(i) = covered \/ (Covers(i) = i /\ i = covered + 1)
      /\ Covers(i) >= covered
  BY <1>1 DEF Covers, Places
<1>3. ASSUME NEW d \in Containers, d # events[i].c, world[d].at > covered
      PROVE  world[d].at > Covers(i)
  <2>1. PICK k \in Nat : k = world[d].at /\ k <= Last
    BY EngineParts DEF Inv
  <2>2. k # 0 => events[k].c = d
    BY <2>1 DEF Inv, EngineInv
  <2>3. k # i
    BY <1>3, <2>2
  <2> QED BY <1>1, <1>2, <1>3, <2>1, <2>3
<1> QED BY <1>2, <1>3

LEMMA NextParts ==
  ASSUME Inv, NEW s \in Slots, HasNext(s)
  PROVE  /\ streams[s] \in StreamSet /\ StreamPlaced(streams[s])
         /\ streams[s] \in Waiting /\ streams[s].phase = "idle"
         /\ streams[s].next \in 1 .. Last /\ streams[s].next + 1 \in Places
         /\ streams[s].limit <= Last
<1>1. streams[s] \in StreamSet /\ StreamPlaced(streams[s]) /\ streams[s].phase = "idle"
  BY DEF Inv, Domains, PlaceInv, HasNext
<1>2. /\ streams[s] \in Waiting /\ streams[s].next \in Int /\ streams[s].limit \in Int
      /\ streams[s].open \in BOOLEAN
  BY <1>1, StreamParts
<1>3. /\ Last \in Nat /\ Last <= MaxEvents /\ MaxEvents \in Nat
  BY EngineParts, Numbers DEF Inv
<1>4. PICK k \in Int : k = streams[s].next
  BY <1>2
<1>5. /\ streams[s].limit <= Last
      /\ streams[s].open => k <= Last
      /\ ~streams[s].open => k <= streams[s].limit
  BY <1>1, <1>4 DEF StreamPlaced, HasNext
<1>6. k >= 1
  BY <1>1, <1>2, <1>4, <1>5 DEF StreamPlaced
<1>7. k \in 1 .. Last /\ k + 1 \in Places
  BY <1>2, <1>3, <1>5, <1>6 DEF Places
<1> QED BY <1>1, <1>2, <1>4, <1>5, <1>7

LEMMA TakeDestroyKeeps ==
  ASSUME Inv, NEW s \in Slots, TakeDestroy(s)
  PROVE  Inv'
<1>1. /\ TypeOK /\ Domains /\ EngineInv /\ PlaceInv
      /\ LoneListInv /\ NoOverlapInv /\ UsageOnlyWhileRunning
  BY DEF Inv
<1>2. /\ HasNext(s) /\ events[streams[s].next].destroy
      /\ cache' = [cache EXCEPT ![events[streams[s].next].c] = NoEntry]
      /\ covered' = Covers(streams[s].next)
      /\ streams' = [streams EXCEPT ![s].next = streams[s].next + 1]
      /\ overlapped' = (overlapped \/ InFlight)
      /\ lists' = NotAlone(lists)
      /\ UNCHANGED <<world, events, syncedTo, timer, live, samples, failures>>
  BY DEF TakeDestroy
<1>3. /\ streams[s] \in StreamSet /\ StreamPlaced(streams[s])
      /\ streams[s] \in Waiting /\ streams[s].phase = "idle"
      /\ streams[s].next \in 1 .. Last /\ streams[s].next + 1 \in Places
      /\ streams[s].limit <= Last
  BY <1>2, NextParts
<1>4. PICK i \in 1 .. Last : i = streams[s].next
  BY <1>3
<1>5. PICK c \in Containers : c = events[i].c
  BY <1>1, EngineParts
<1>6. /\ Last \in Nat /\ Last = Len(events) /\ Last' = Last
  BY <1>1, <1>2, EngineParts DEF Last
<1>7. world[c].life = "gone" /\ world[c].at = i
  BY <1>1, <1>2, <1>4, <1>5 DEF EngineInv
<1>8. /\ cache' \in [Containers -> EntrySet] /\ cache'[c] = NoEntry
      /\ \A d \in Containers : d # c => cache'[d] = cache[d]
  BY <1>1, <1>2, <1>4, <1>5 DEF TypeOK, EntrySet
<1>9. PICK v \in StreamSet : v = [streams[s] EXCEPT !.next = i + 1]
  <2>1. [streams[s] EXCEPT !.next = i + 1] \in Waiting
    BY <1>3, <1>4 DEF Waiting
  <2> QED BY <2>1 DEF StreamSet, Waiting
<1>10. v.phase = "idle" /\ v.next = i + 1 /\ v.limit = streams[s].limit
  BY <1>3, <1>9 DEF Waiting
<1>11. StreamPlaced(v)
  BY <1>3, <1>6, <1>10 DEF StreamPlaced
<1>12. /\ streams' \in [Slots -> StreamSet] /\ streams'[s] = v
       /\ \A r \in Slots : r # s => streams'[r] = streams[r]
  BY <1>1, <1>2, <1>4, <1>9 DEF Domains
<1>13. /\ lists' \in [Callers -> ListSet]
       /\ \A p \in Callers :
            /\ lists'[p].phase = lists[p].phase
            /\ Answered(p) => lists'[p].alone = FALSE /\ lists'[p].pos = lists[p].pos
  BY <1>1, <1>2, NotAloneParts
<1>14. /\ covered' \in Int /\ covered' <= Last /\ covered' \in Places
       /\ \A d \in Containers :
            d # c /\ world[d].at > covered => world[d].at > covered'
  BY <1>2, <1>4, <1>5, CoversParts
<1>15. overlapped' \in BOOLEAN
  BY <1>2
<1>16. TypeOK' /\ Domains'
  BY <1>1, <1>2, <1>8, <1>12, <1>13, <1>14, <1>15 DEF TypeOK, Domains
<1>17. EngineInv'
  BY <1>1, <1>2 DEF EngineInv, Last
<1>18. PlaceInv'
  <2>1. \A r \in Slots : StreamPlaced(streams[r])'
    BY <1>1, <1>2, <1>11, <1>12 DEF PlaceInv, StreamPlaced, Last
  <2>2. live' # 0 => streams'[live'].phase # "none"
    BY <1>1, <1>2, <1>10, <1>12 DEF PlaceInv, TypeOK
  <2>3. \A p \in Callers : Answered(p)' => lists'[p].pos <= Last
    BY <1>1, <1>13 DEF PlaceInv, Answered
  <2> QED BY <1>1, <1>2, <1>6, <1>14, <2>1, <2>2, <2>3 DEF PlaceInv
<1>19. LoneListInv'
  BY <1>13 DEF LoneListInv, Answered
<1>20. NoOverlapInv'
  <2> SUFFICES ASSUME ~overlapped, ~InFlight
               PROVE  /\ \A p \in Callers : ~Answered(p)'
                      /\ \A r \in Slots : ~Inspecting(r)'
                      /\ \A d \in Containers :
                           Same(cache'[d], world[d]) \/ world[d].at > covered'
    BY <1>2 DEF NoOverlapInv, Same, Exists
  <2>1. \A p \in Callers : ~Answered(p)'
    BY <1>13 DEF Answered, InFlight
  <2>2. \A r \in Slots : ~Inspecting(r)'
    BY <1>10, <1>12 DEF Inspecting, InFlight
  <2>3. Same(cache'[c], world[c])
    BY <1>7, <1>8 DEF Same, Exists
  <2>4. \A d \in Containers : d # c => Same(cache'[d], world[d]) \/ world[d].at > covered'
    BY <1>1, <1>8, <1>14 DEF NoOverlapInv
  <2> QED BY <2>1, <2>2, <2>3, <2>4
<1>21. UsageOnlyWhileRunning'
  BY <1>1, <1>8 DEF UsageOnlyWhileRunning, NoEntry
<1> QED BY <1>16, <1>17, <1>18, <1>19, <1>20, <1>21 DEF Inv

(* The container's state is read when the engine gets the request.          *)
LEMMA TakeChangeKeeps ==
  ASSUME Inv, NEW s \in Slots, TakeChange(s)
  PROVE  Inv'
<1>1. /\ TypeOK /\ Domains /\ EngineInv /\ PlaceInv
      /\ LoneListInv /\ NoOverlapInv /\ UsageOnlyWhileRunning
  BY DEF Inv
<1> DEFINE c == events[streams[s].next].c
           v == [phase |-> "inspecting", next |-> streams[s].next + 1,
                 open |-> streams[s].open, limit |-> streams[s].limit,
                 c |-> c, w |-> world[c]]
<1>2. /\ HasNext(s)
      /\ streams' = [streams EXCEPT ![s] = v]
      /\ overlapped' = (overlapped \/ InFlight)
      /\ lists' = NotAlone(lists)
      /\ UNCHANGED <<world, events, cache, syncedTo, timer, live, samples, failures, covered>>
  BY DEF TakeChange
<1>3. /\ streams[s] \in StreamSet /\ StreamPlaced(streams[s])
      /\ streams[s].phase = "idle"
      /\ streams[s].next \in 1 .. Last /\ streams[s].next + 1 \in Places
      /\ streams[s].open \in BOOLEAN /\ streams[s].limit \in Places
      /\ streams[s].limit <= Last
  BY <1>2, NextParts, StreamParts
<1>4. PICK i \in 1 .. Last : i = streams[s].next
  BY <1>3
<1>5. c \in Containers /\ c = events[i].c /\ world[c] \in WorldSet
  BY <1>1, <1>4, EngineParts
<1>6. /\ Last \in Nat /\ Last = Len(events) /\ Last' = Last
  BY <1>1, <1>2, EngineParts DEF Last
<1>7. /\ v \in StreamSet /\ v.phase = "inspecting" /\ v.next = i + 1
      /\ v.limit = streams[s].limit /\ v.c = c /\ v.w = world[c]
  <2>1. v \in Asking
    BY <1>3, <1>5 DEF Asking
  <2> QED BY <2>1, <1>4 DEF StreamSet, Asking
<1> HIDE DEF v
<1>8. StreamPlaced(v)
  <2>1. /\ i + 1 <= Last + 1 /\ i + 1 >= 1 /\ (i + 1) - 1 = i
    BY <1>6
  <2> QED BY <1>3, <1>5, <1>7, <2>1 DEF StreamPlaced
<1>9. /\ streams' \in [Slots -> StreamSet] /\ streams'[s] = v
      /\ \A r \in Slots : r # s => streams'[r] = streams[r]
  BY <1>1, <1>2, <1>7 DEF Domains
<1>10. /\ lists' \in [Callers -> ListSet]
       /\ \A p \in Callers :
            /\ lists'[p].phase = lists[p].phase
            /\ Answered(p) => lists'[p].alone = FALSE /\ lists'[p].pos = lists[p].pos
  BY <1>1, <1>2, NotAloneParts
<1>11. TypeOK' /\ Domains'
  BY <1>1, <1>2, <1>9, <1>10 DEF TypeOK, Domains
<1>12. EngineInv' /\ UsageOnlyWhileRunning'
  BY <1>1, <1>2 DEF EngineInv, Last, UsageOnlyWhileRunning
<1>13. PlaceInv'
  <2>1. \A r \in Slots : StreamPlaced(streams[r])'
    BY <1>1, <1>2, <1>8, <1>9 DEF PlaceInv, StreamPlaced, Last
  <2>2. live' # 0 => streams'[live'].phase # "none"
    BY <1>1, <1>2, <1>7, <1>9 DEF PlaceInv, TypeOK
  <2>3. \A p \in Callers : Answered(p)' => lists'[p].pos <= Last
    BY <1>1, <1>10 DEF PlaceInv, Answered
  <2> QED BY <1>1, <1>2, <1>6, <2>1, <2>2, <2>3 DEF PlaceInv
<1>14. LoneListInv'
  BY <1>10 DEF LoneListInv, Answered
<1>15. NoOverlapInv'
  <2> SUFFICES ASSUME ~overlapped, ~InFlight
               PROVE  /\ \A p \in Callers : ~Answered(p)'
                      /\ \A r \in Slots : Inspecting(r)' =>
                           r = s /\ streams'[r].w = world[streams'[r].c]
                      /\ \A d \in Containers : Same(cache[d], world[d]) \/ world[d].at > covered
    BY <1>2 DEF NoOverlapInv, Same, Exists, StillTrue, Inspecting
  <2>1. \A p \in Callers : ~Answered(p)'
    BY <1>10 DEF Answered, InFlight
  <2>2. \A r \in Slots : Inspecting(r)' => r = s /\ streams'[r].w = world[streams'[r].c]
    BY <1>7, <1>9 DEF Inspecting, InFlight
  <2> QED BY <1>1, <2>1, <2>2 DEF NoOverlapInv
<1> QED BY <1>11, <1>12, <1>13, <1>14, <1>15 DEF Inv

(* The answer about an event is the container's state, or the container has *)
(* changed since the event.                                                 *)
LEMMA InspectAnsweredKeeps ==
  ASSUME Inv, NEW s \in Slots, InspectAnswered(s)
  PROVE  Inv'
<1>1. /\ TypeOK /\ Domains /\ EngineInv /\ PlaceInv
      /\ LoneListInv /\ NoOverlapInv /\ UsageOnlyWhileRunning
  BY DEF Inv
<1>2. /\ Inspecting(s)
      /\ cache' = [cache EXCEPT ![streams[s].c] = Entry(cache[streams[s].c], streams[s].w)]
      /\ covered' = Covers(streams[s].next - 1)
      /\ streams' = [streams EXCEPT ![s] = Idle(streams[s])]
      /\ UNCHANGED <<world, events, syncedTo, lists, timer, live, samples,
                     failures, overlapped>>
  BY DEF InspectAnswered, Inspecting
<1>3. /\ StreamPlaced(streams[s]) /\ streams[s].c \in Containers /\ streams[s].w \in WorldSet
  BY <1>1, <1>2, StreamParts DEF Domains, PlaceInv, Inspecting
<1>4. PICK i \in 1 .. Last : i = streams[s].next - 1 /\ events[i].c = streams[s].c
  BY <1>2, <1>3 DEF StreamPlaced, Inspecting
<1>5. PICK c \in Containers, w \in WorldSet : c = streams[s].c /\ w = streams[s].w
  BY <1>3
<1>6. PICK v \in StreamSet : v = Idle(streams[s])
  BY <1>2, IdleParts
<1>7. v.phase = "idle" /\ StreamPlaced(v)
  BY <1>2, <1>6, IdleParts
<1>8. /\ streams' \in [Slots -> StreamSet] /\ streams'[s] = v
      /\ \A r \in Slots : r # s => streams'[r] = streams[r]
  BY <1>1, <1>2, <1>6 DEF Domains
<1>9. /\ cache' \in [Containers -> EntrySet] /\ cache'[c] = Entry(cache[c], w)
      /\ \A d \in Containers : d # c => cache'[d] = cache[d]
      /\ Same(cache'[c], w) /\ (cache'[c].usage => cache'[c].life = "running")
  <2>1. cache \in [Containers -> EntrySet] /\ cache[c] \in EntrySet
    BY <1>1 DEF TypeOK
  <2>2. /\ Entry(cache[c], w) \in EntrySet
        /\ Same(Entry(cache[c], w), w)
        /\ Entry(cache[c], w).usage => Entry(cache[c], w).life = "running"
    BY <2>1, EntryParts
  <2>3. cache' = [cache EXCEPT ![c] = Entry(cache[c], w)]
    BY <1>2, <1>5
  <2> QED BY <2>1, <2>2, <2>3
<1>10. /\ covered' \in Int /\ covered' <= Last /\ covered' \in Places
       /\ covered' = covered \/ covered' = i
       /\ \A d \in Containers :
            d # c /\ world[d].at > covered => world[d].at > covered'
  BY <1>2, <1>4, <1>5, CoversParts
<1>11. TypeOK' /\ Domains'
  BY <1>1, <1>2, <1>8, <1>9, <1>10 DEF TypeOK, Domains
<1>12. EngineInv'
  BY <1>1, <1>2 DEF EngineInv, Last
<1>13. PlaceInv'
  <2>1. \A r \in Slots : StreamPlaced(streams[r])'
    BY <1>1, <1>2, <1>7, <1>8 DEF PlaceInv, StreamPlaced, Last
  <2>2. live' # 0 => streams'[live'].phase # "none"
    BY <1>1, <1>2, <1>7, <1>8 DEF PlaceInv, TypeOK
  <2> QED BY <1>1, <1>2, <1>10, <2>1, <2>2 DEF PlaceInv, Last, Answered
<1>14. LoneListInv'
  BY <1>1, <1>2 DEF LoneListInv, Answered
<1>15. NoOverlapInv'
  <2> SUFFICES ASSUME ~overlapped
               PROVE  /\ \A p \in Callers : ~Answered(p)
                      /\ \A r \in Slots : ~Inspecting(r)'
                      /\ \A d \in Containers :
                           Same(cache'[d], world[d]) \/ world[d].at > covered'
    BY <1>2 DEF NoOverlapInv, Same, Exists, Answered
  <2>1. \A p \in Callers : ~Answered(p)
    BY <1>1, <1>2 DEF NoOverlapInv
  <2>2. \A r \in Slots : ~Inspecting(r)'
    BY <1>1, <1>2, <1>7, <1>8 DEF NoOverlapInv, Inspecting
  <2>3. Same(cache'[c], world[c]) \/ world[c].at > covered'
    <3>1. /\ w = world[c] \/ world[c].at > covered
          /\ w = world[c] \/ world[c].at > i
      BY <1>1, <1>2, <1>4, <1>5 DEF NoOverlapInv, StillTrue
    <3> QED BY <1>9, <1>10, <3>1
  <2>4. \A d \in Containers : d # c => Same(cache'[d], world[d]) \/ world[d].at > covered'
    BY <1>1, <1>9, <1>10 DEF NoOverlapInv
  <2> QED BY <2>1, <2>2, <2>3, <2>4
<1>16. UsageOnlyWhileRunning'
  BY <1>1, <1>9 DEF UsageOnlyWhileRunning
<1> QED BY <1>11, <1>12, <1>13, <1>14, <1>15, <1>16 DEF Inv

LEMMA EngineListsKeeps ==
  ASSUME Inv, NEW p \in Callers, EngineLists(p)
  PROVE  Inv'
<1>1. /\ TypeOK /\ Domains /\ EngineInv /\ PlaceInv
      /\ LoneListInv /\ NoOverlapInv /\ UsageOnlyWhileRunning
  BY DEF Inv
<1> DEFINE l == [phase |-> "answered", view |-> world, pos |-> Last, alone |-> ~InFlight]
<1>2. /\ lists[p].phase = "asked"
      /\ lists' = [NotAlone(lists) EXCEPT ![p] = l]
      /\ overlapped' = (overlapped \/ InFlight)
      /\ UNCHANGED <<world, events, cache, syncedTo, timer, streams, live, samples,
                     failures, covered>>
  BY DEF EngineLists
<1>3. Last \in Nat /\ Last \in 0 .. MaxEvents /\ covered <= Last
  BY <1>1, EngineParts, Numbers DEF PlaceInv
<1>4. /\ l \in ListSet /\ l.phase = "answered" /\ l.view = world /\ l.pos = Last
      /\ l.alone = ~InFlight
  <2>1. world \in [Containers -> WorldSet]
    BY <1>1 DEF TypeOK
  <2>2. (~InFlight) \in BOOLEAN
    OBVIOUS
  <2>3. l \in AnswerSet
    BY <1>3, <2>1, <2>2 DEF AnswerSet
  <2> QED BY <2>3 DEF AnswerSet, ListSet
<1> HIDE DEF l
<1>5. /\ lists' \in [Callers -> ListSet] /\ lists'[p] = l
      /\ \A q \in Callers : q # p =>
           /\ lists'[q].phase = lists[q].phase
           /\ Answered(q) => lists'[q].alone = FALSE /\ lists'[q].pos = lists[q].pos
  BY <1>1, <1>2, <1>4, NotAloneParts
<1>6. TypeOK' /\ Domains'
  BY <1>1, <1>2, <1>5 DEF TypeOK, Domains
<1>7. EngineInv' /\ UsageOnlyWhileRunning'
  BY <1>1, <1>2 DEF EngineInv, Last, UsageOnlyWhileRunning
<1>8. PlaceInv'
  <2>1. \A q \in Callers : Answered(q)' => lists'[q].pos <= Last
    <3> SUFFICES ASSUME NEW q \in Callers, Answered(q)' PROVE lists'[q].pos <= Last
      OBVIOUS
    <3>1. CASE q = p
      BY <3>1, <1>3, <1>4, <1>5
    <3>2. CASE q # p
      BY <3>2, <1>1, <1>5 DEF PlaceInv, Answered
    <3> QED BY <3>1, <3>2
  <2>2. \A r \in Slots : StreamPlaced(streams[r])'
    BY <1>1, <1>2 DEF PlaceInv, StreamPlaced, Last
  <2> QED BY <1>1, <1>2, <2>1, <2>2 DEF PlaceInv, Last
<1>9. LoneListInv'
  <2> SUFFICES ASSUME NEW q \in Callers, Answered(q)', lists'[q].alone
               PROVE  /\ covered <= lists'[q].pos
                      /\ \A r \in Callers : r # q => ~Answered(r)'
                      /\ \A s \in Slots : ~Inspecting(s)
                      /\ \A c \in Containers : lists'[q].view[c] = world[c]
    BY <1>2 DEF LoneListInv, Inspecting, StillTrue
  <2>1. q = p /\ ~InFlight
    BY <1>4, <1>5 DEF Answered
  <2> QED BY <2>1, <1>3, <1>4, <1>5 DEF InFlight, Answered, Inspecting
<1>10. NoOverlapInv'
  <2> SUFFICES ASSUME ~overlapped, ~InFlight
               PROVE  /\ \A q \in Callers : Answered(q)' => lists'[q].alone
                      /\ \A s \in Slots : ~Inspecting(s)
                      /\ \A c \in Containers : Same(cache[c], world[c]) \/ world[c].at > covered
    BY <1>2 DEF NoOverlapInv, Same, Exists, Inspecting
  <2>1. \A q \in Callers : Answered(q)' => q = p
    BY <1>5 DEF Answered, InFlight
  <2> QED BY <1>1, <1>4, <1>5, <2>1 DEF NoOverlapInv, InFlight, Inspecting
<1> QED BY <1>6, <1>7, <1>8, <1>9, <1>10 DEF Inv

(* A list that was alone makes the cache right again, whatever it was.      *)
LEMMA ListAppliedKeeps ==
  ASSUME Inv, NEW p \in Callers, ListApplied(p)
  PROVE  Inv'
<1>1. /\ TypeOK /\ Domains /\ EngineInv /\ PlaceInv
      /\ LoneListInv /\ NoOverlapInv /\ UsageOnlyWhileRunning
  BY DEF Inv
<1>2. /\ Answered(p)
      /\ cache' = Synced(lists[p].view)
      /\ \E to \in (IF syncedTo = NotSynced THEN 0 ELSE syncedTo) .. Last :
           syncedTo' = to /\ AfterSync(p, to)
      /\ covered' = IF lists[p].pos > covered THEN lists[p].pos ELSE covered
      /\ overlapped' = (overlapped /\ ~lists[p].alone)
      /\ lists' = [lists EXCEPT ![p] = EndOfList(p)]
      /\ UNCHANGED <<world, events, samples, failures>>
  BY DEF ListApplied, Answered
<1>3. /\ lists[p].view \in [Containers -> WorldSet] /\ lists[p].alone \in BOOLEAN
      /\ lists[p].pos \in Int /\ lists[p].pos >= 0 /\ lists[p].pos <= Last
  BY <1>1, <1>2, ListParts DEF Domains, Answered, PlaceInv
<1>4. /\ Last \in Nat /\ Last <= MaxEvents /\ MaxEvents \in Nat
      /\ covered \in Int /\ covered <= Last /\ covered \in Places
      /\ syncedTo \in Int /\ syncedTo >= -1
  BY <1>1, EngineParts, Numbers DEF PlaceInv, TypeOK
<1>5. PICK to \in -1 .. Last : syncedTo' = to /\ AfterSync(p, to)
  BY <1>2, <1>4 DEF NotSynced
<1>6. /\ streams' \in [Slots -> StreamSet]
      /\ \A s \in Slots : /\ StreamPlaced(streams'[s])
                          /\ streams'[s].phase = "inspecting" => streams'[s] = streams[s]
      /\ live' \in Slots \cup {0} /\ timer' \in {"off", "armed", "syncing"}
      /\ live' # 0 => streams'[live'].phase # "none"
  BY <1>5, AfterSyncParts
<1>7. /\ lists' \in [Callers -> ListSet]
      /\ \A q \in Callers : Answered(q)' => q # p /\ Answered(q) /\ lists'[q] = lists[q]
  <2>1. EndOfList(p) \in ListSet /\ EndOfList(p).phase # "answered"
    BY DEF EndOfList, NoList, ListSet
  <2> QED BY <1>1, <1>2, <2>1 DEF Domains, Answered
<1>8. /\ cache' \in [Containers -> EntrySet]
      /\ \A c \in Containers : /\ Same(cache'[c], lists[p].view[c])
                               /\ cache'[c].usage => cache'[c].life = "running"
  <2>1. \A c \in Containers :
          /\ Entry(cache[c], lists[p].view[c]) \in EntrySet
          /\ Same(Entry(cache[c], lists[p].view[c]), lists[p].view[c])
          /\ Entry(cache[c], lists[p].view[c]).usage =>
               Entry(cache[c], lists[p].view[c]).life = "running"
    <3> SUFFICES ASSUME NEW c \in Containers
                 PROVE  /\ Entry(cache[c], lists[p].view[c]) \in EntrySet
                        /\ Same(Entry(cache[c], lists[p].view[c]), lists[p].view[c])
                        /\ Entry(cache[c], lists[p].view[c]).usage =>
                             Entry(cache[c], lists[p].view[c]).life = "running"
      OBVIOUS
    <3>1. cache[c] \in EntrySet /\ lists[p].view[c] \in WorldSet
      BY <1>1, <1>3 DEF TypeOK
    <3> QED BY <3>1, EntryParts
  <2>2. cache' = [c \in Containers |-> Entry(cache[c], lists[p].view[c])]
    BY <1>2 DEF Synced
  <2> QED BY <2>1, <2>2
<1>9. /\ covered' \in Int /\ covered' <= Last /\ covered' \in Places
      /\ lists[p].pos \in Places
  BY <1>2, <1>3, <1>4 DEF Places
<1>10. overlapped' \in BOOLEAN /\ syncedTo' \in Places /\ syncedTo' <= Last
  BY <1>2, <1>4, <1>5 DEF Places
<1>11. TypeOK' /\ Domains'
  BY <1>1, <1>2, <1>6, <1>7, <1>8, <1>9, <1>10 DEF TypeOK, Domains
<1>12. EngineInv' /\ UsageOnlyWhileRunning'
  BY <1>1, <1>2, <1>8 DEF EngineInv, Last, UsageOnlyWhileRunning
<1>13. PlaceInv'
  <2>1. \A r \in Slots : StreamPlaced(streams[r])'
    BY <1>2, <1>6 DEF StreamPlaced, Last
  <2>2. \A q \in Callers : Answered(q)' => lists'[q].pos <= Last
    BY <1>1, <1>7 DEF PlaceInv
  <2> QED BY <1>2, <1>6, <1>9, <1>10, <2>1, <2>2 DEF PlaceInv, Last
<1>14. LoneListInv'
  BY <1>1, <1>2, <1>7 DEF LoneListInv
<1>15. NoOverlapInv'
  <2> SUFFICES ASSUME ~overlapped \/ lists[p].alone PROVE NoOverlapInv'
    BY <1>2 DEF NoOverlapInv
  <2>1. lists[p].alone
    BY <1>1, <1>2 DEF NoOverlapInv
  <2>2. /\ covered <= lists[p].pos
        /\ \A q \in Callers : q # p => ~Answered(q)
        /\ \A s \in Slots : ~Inspecting(s)
        /\ \A c \in Containers : StillTrue(lists[p].view[c], c, lists[p].pos)
    BY <1>1, <1>2, <2>1 DEF LoneListInv
  <2>3. covered' = lists[p].pos
    BY <1>2, <1>3, <1>4, <2>2
  <2>4. \A q \in Callers : ~Answered(q)'
    BY <1>7, <2>2
  <2>5. \A s \in Slots : ~Inspecting(s)'
    BY <1>6, <2>2 DEF Inspecting
  <2>6. \A c \in Containers : Same(cache'[c], world[c]) \/ world[c].at > covered'
    BY <1>8, <2>2, <2>3 DEF StillTrue
  <2>7. \A c \in Containers : Same(cache[c], world[c])' \/ world'[c].at > covered'
    BY <1>2, <2>6 DEF Same, Exists
  <2> QED BY <2>4, <2>5, <2>7 DEF NoOverlapInv
<1> QED BY <1>11, <1>12, <1>13, <1>14, <1>15 DEF Inv

(* A sample changes nothing of an entry but its usage.                      *)
LEMMA StatsKeep ==
  ASSUME Inv, NEW x \in samples, StatsAnswered(x)
  PROVE  Inv'
<1>1. /\ TypeOK /\ Domains /\ EngineInv /\ PlaceInv
      /\ LoneListInv /\ NoOverlapInv /\ UsageOnlyWhileRunning
  BY DEF Inv
<1>2. /\ cache' = WithUsage(x) \/ cache' = cache
      /\ samples' = samples \ {x}
      /\ UNCHANGED <<world, events, syncedTo, lists, timer, streams, live,
                     failures, covered, overlapped>>
  BY DEF StatsAnswered
<1>3. PICK c \in Containers : c = x.c
  BY <1>1 DEF TypeOK
<1>4. cache \in [Containers -> EntrySet] /\ samples' \subseteq [c : Containers, entry : EntrySet]
  BY <1>1, <1>2 DEF TypeOK
<1>5. /\ cache' \in [Containers -> EntrySet]
      /\ \A d \in Containers :
           /\ cache'[d].life = cache[d].life /\ cache'[d].at = cache[d].at
           /\ cache'[d] = NoEntry <=> cache[d] = NoEntry
           /\ cache'[d].usage => cache'[d].life = "running" \/ cache'[d] = cache[d]
  <2>1. CASE cache' = cache
    BY <1>4, <2>1
  <2>2. CASE cache' # cache
    <3> DEFINE e == [cache[c] EXCEPT !.usage = TRUE]
    <3>1. cache' = [cache EXCEPT ![c] = e] /\ cache[c] # NoEntry /\ cache[c].life = "running"
      BY <1>2, <1>3, <2>2 DEF WithUsage, Cached
    <3>2. cache[c] \in [life : {"running", "exited"}, at : 0 .. MaxEvents, usage : BOOLEAN]
      BY <1>4, <3>1 DEF EntrySet
    <3>3. /\ e \in [life : {"running", "exited"}, at : 0 .. MaxEvents, usage : BOOLEAN]
          /\ e.life = cache[c].life /\ e.at = cache[c].at /\ e.life = "running"
      BY <3>1, <3>2
    <3> HIDE DEF e
    <3>4. e \in EntrySet /\ e # NoEntry
      BY <3>3 DEF EntrySet, NoEntry
    <3> QED BY <1>4, <3>1, <3>3, <3>4
  <2> QED BY <2>1, <2>2
<1>6. TypeOK' /\ Domains'
  BY <1>1, <1>2, <1>4, <1>5 DEF TypeOK, Domains
<1>7. EngineInv' /\ PlaceInv' /\ LoneListInv'
  BY <1>1, <1>2 DEF EngineInv, PlaceInv, LoneListInv, StreamPlaced, Last, Answered, Inspecting,
                    StillTrue
<1>8. \A d \in Containers : Same(cache[d], world[d]) => Same(cache[d], world[d])'
  BY <1>2, <1>5 DEF Same, Exists
<1>9. NoOverlapInv'
  BY <1>1, <1>2, <1>8 DEF NoOverlapInv, Answered, Inspecting, StillTrue
<1>10. UsageOnlyWhileRunning'
  BY <1>1, <1>5 DEF UsageOnlyWhileRunning
<1> QED BY <1>6, <1>7, <1>9, <1>10 DEF Inv

-----------------------------------------------------------------------------
(* The theorems.                                                            *)

LEMMA InvInit == Init => Inv
<1> SUFFICES ASSUME Init PROVE Inv
  OBVIOUS
<1>1. /\ events = <<>> /\ cache = [c \in Containers |-> NoEntry]
      /\ syncedTo = NotSynced /\ timer = "off" /\ live = 0 /\ samples = {}
      /\ lists = [p \in Callers |-> IF p = "start" THEN [phase |-> "asked"] ELSE NoList]
      /\ streams = [s \in Slots |-> NoStream]
      /\ failures = 0 /\ covered = NotSynced /\ overlapped = FALSE
  BY DEF Init
<1>2. Last = 0 /\ events \in Seq([c : Containers, destroy : BOOLEAN])
  BY <1>1 DEF Last
<1>3. /\ world \in [Containers -> WorldSet]
      /\ \A c \in Containers : world[c].at = 0
  BY Numbers DEF Init, WorldSet
<1>4. /\ Domains /\ \A p \in Callers : ~Answered(p)
      /\ \A s \in Slots : streams[s].phase = "none"
  BY <1>1 DEF Domains, ListSet, StreamSet, NoList, NoStream, Answered
<1>5. TypeOK
  <2>1. NoEntry \in EntrySet /\ NotSynced \in Places /\ 0 \in 0 .. MaxFailures
    BY Numbers DEF EntrySet, NotSynced
  <2> QED BY <1>1, <1>2, <1>3, <1>4, <2>1 DEF TypeOK, Domains
<1>6. EngineInv
  BY <1>2, <1>3, Numbers DEF EngineInv
<1>7. PlaceInv
  BY <1>1, <1>2, <1>4 DEF PlaceInv, StreamPlaced, NotSynced
<1>8. LoneListInv
  BY <1>4 DEF LoneListInv
<1>9. NoOverlapInv
  BY <1>1, <1>3, <1>4 DEF NoOverlapInv, Inspecting, NotSynced
<1>10. UsageOnlyWhileRunning
  BY <1>1 DEF UsageOnlyWhileRunning, NoEntry
<1> QED BY <1>4, <1>5, <1>6, <1>7, <1>8, <1>9, <1>10 DEF Inv

(* Whatever the engine does, and in whatever order its answers, events and  *)
(* samples are handled, lost and repeated, the cache and all that is in     *)
(* flight to it fit together.                                               *)
THEOREM CacheInvariance == Spec => []Inv
<1>1. Inv /\ [Next]_vars => Inv'
  <2> SUFFICES ASSUME Inv, [Next]_vars PROVE Inv'
    OBVIOUS
  <2>1. CASE \E c \in Containers : EngineChanges(c)
    BY <2>1, EngineKeeps
  <2>2. CASE EngineAnswers
    BY <2>2, EngineListsKeeps, ListAppliedKeeps, ConnectKeeps, InspectAnsweredKeeps, StatsKeep
       DEF EngineAnswers
  <2>3. CASE Consumes
    BY <2>3, TakeDestroyKeeps, TakeChangeKeeps, ConsumerEndsKeeps DEF Consumes
  <2>4. CASE Breaks
    BY <2>4, ListFailsKeeps, InspectFailsKeeps, StreamBreaksKeeps DEF Breaks
  <2>5. CASE RestoreSyncs
    BY <2>5, RestoreSyncsKeeps
  <2>6. CASE ReconcileFires
    BY <2>6, ReconcileKeeps
  <2>7. CASE SampleStats \/ UNCHANGED vars
    BY <2>7, SampleKeeps
  <2> QED BY <2>1, <2>2, <2>3, <2>4, <2>5, <2>6, <2>7 DEF Next
<1> QED BY <1>1, InvInit, PTL DEF Spec

(* Every variable of the store keeps its type.                              *)
THEOREM CacheTypes == Spec => []TypeOK
<1>1. Inv => TypeOK
  BY DEF Inv
<1> QED BY <1>1, CacheInvariance, PTL

(* After a sync and the events since then the cache is exactly the engine,  *)
(* a destroyed container does not come back, usage is that of a running     *)
(* container: but for reads that overlapped and events nobody handled.      *)
THEOREM CacheFollowsAlways == Spec => []CacheFollowsEngine
<1>1. Inv => CacheFollowsEngine
  <2> SUFFICES ASSUME Inv PROVE CacheFollowsEngine
    OBVIOUS
  <2>1. /\ Last \in Nat /\ covered \in Int
        /\ \A c \in Containers : world[c].at \in Nat /\ world[c].at <= Last
    BY EngineParts DEF Inv
  <2>2. ExactWhenCovered
    BY <2>1 DEF Inv, NoOverlapInv, ExactWhenCovered
  <2>3. GhostsNeedOverlap
    <3> SUFFICES ASSUME NEW c \in Containers, NEW i \in 1 .. Last,
                        events[i] = [c |-> c, destroy |-> TRUE], i <= covered, ~overlapped
                 PROVE  cache[c] = NoEntry
      BY DEF GhostsNeedOverlap, Cached
    <3>1. world[c].life = "gone" /\ world[c].at = i
      BY DEF Inv, EngineInv
    <3>2. Same(cache[c], world[c])
      BY <2>1, <3>1 DEF Inv, NoOverlapInv
    <3> QED BY <3>1, <3>2 DEF Same, Exists
  <2> QED BY <2>2, <2>3 DEF Inv, CacheFollowsEngine
<1> QED BY <1>1, CacheInvariance, PTL

=============================================================================
