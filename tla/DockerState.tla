---------------------------- MODULE DockerState ----------------------------
(***************************************************************************)
(* The daemon's cache of Docker container state: docker-state-store.ts     *)
(* against a Docker engine that changes on its own.                        *)
(*                                                                         *)
(* Three kinds of asynchronous work write the cache: full syncs (one at    *)
(* start-up, one by tunnel restoration, one per reconciliation), the       *)
(* consumer of each event stream, which inspects the container of an event *)
(* and awaits the answer, and the sampling of resource stats.  Nothing     *)
(* orders their answers.                                                   *)
(***************************************************************************)
EXTENDS Integers, Sequences, FiniteSets, TLC

CONSTANTS
  Containers,      \* container ids; Docker never uses one twice
  Slots,           \* event streams that may be read at the same time (a bound)
  MaxEvents,       \* bound: changes the engine makes
  MaxFailures      \* bound: failed requests and broken event streams

ASSUME DockerAssumption ==
  /\ IsFiniteSet(Containers)
  /\ Slots \subseteq Nat \ {0} /\ Slots # {}
  /\ MaxEvents \in Nat /\ MaxFailures \in Nat

VARIABLES
  world,        \* per container: its life and the event that brought it there
  events,       \* the engine's event log: the container of each event
  cache,        \* DockerStateStore.byId
  syncedTo,     \* lastSyncTime, as the last event before it; NotSynced before
  lists,        \* full syncs in flight, by who asked
  timer,        \* the reconcile timer
  streams,      \* event streams and their consumers
  live,         \* this.events: the slot of the current stream, or 0
  samples,      \* containers whose stats request is in flight
  failures,     \* failed requests and broken streams so far
  covered,      \* history: every event up to this one is reflected in a read
  overlapped    \* history: two reads overlapped since the last lone full sync

vars == <<world, events, cache, syncedTo, lists, timer, streams, live, samples,
          failures, covered, overlapped>>

NotSynced == -1
Callers   == {"start", "restore", "reconcile"}
NoEntry   == [life |-> "gone", at |-> 0, usage |-> FALSE]
NoList    == [phase |-> "none"]
NoStream  == [phase |-> "none"]

Cached(c) == cache[c] # NoEntry
Last      == Len(events)

-----------------------------------------------------------------------------
(* The engine.                                                             *)

(* A container starts (again), stops or is destroyed; every change is an   *)
(* event.                                                                  *)
EngineChanges(c) ==
  /\ Last < MaxEvents
  /\ \E life \in CASE world[c].life = "unborn"  -> {"running"}
                   [] world[c].life = "running" -> {"exited"}
                   [] world[c].life = "exited"  -> {"running", "gone"}
                   [] OTHER -> {} :
        /\ events' = Append(events, [c |-> c, destroy |-> life = "gone"])
        /\ world' = [world EXCEPT ![c] = [life |-> life, at |-> Last + 1]]
  /\ UNCHANGED <<cache, syncedTo, lists, timer, streams, live, samples,
                 failures, covered, overlapped>>

Exists(w) == w.life \in {"running", "exited"}

-----------------------------------------------------------------------------
(* The cache.                                                              *)

(* upsert: the sampled usage is kept while the container runs.             *)
Upserted(old, w) ==
  [life |-> w.life, at |-> w.at,
   usage |-> w.life = "running" /\ old.usage]

(* The entry after a read that showed the container as w; a container that *)
(* the read does not find is removed.                                      *)
Entry(old, w) == IF Exists(w) THEN Upserted(old, w) ELSE NoEntry

(* A bug to be caught: unlisted containers are stored, not removed.        *)
SyncedUnfiltered(view) == [c \in Containers |-> Upserted(cache[c], view[c])]

(* fullSync's loop over the listed containers and the removal of the rest. *)
Synced(view) == [c \in Containers |-> Entry(cache[c], view[c])]

(* An answer of the engine has been made and not been applied.             *)
InFlight == \/ \E p \in Callers : lists[p].phase = "answered"
            \/ \E s \in Slots : streams[s].phase = "inspecting"

(* History: from now on an answer in flight may be overtaken.              *)
NotAlone(ls) ==
  [p \in Callers |-> IF ls[p].phase = "answered"
                       THEN [ls[p] EXCEPT !.alone = FALSE] ELSE ls[p]]

-----------------------------------------------------------------------------
(* Event streams.                                                          *)

(* openEvents.  With a `since` the engine replays what happened after it;  *)
(* without one the stream begins when the engine gets the request.         *)
Opened(ss, slot, since) ==
  [ss EXCEPT ![slot] =
     [phase |-> IF since = NotSynced THEN "connecting" ELSE "idle",
      next  |-> since + 1, open |-> TRUE, limit |-> 0]]

FreeSlots == {s \in Slots : streams[s] = NoStream}

Connect(s) ==
  /\ streams[s].phase = "connecting"
  /\ streams' = [streams EXCEPT ![s].phase = "idle", ![s].next = Last + 1]
  /\ UNCHANGED <<world, events, cache, syncedTo, lists, timer, live, samples,
                 failures, covered, overlapped>>

(* A closed stream still hands out what its socket had received, up to     *)
(* limit: iterate() returns pending events before it looks at done.        *)
Closed(st) ==
  IF ~st.open THEN {st}
  ELSE IF st.phase = "connecting"
    THEN {[st EXCEPT !.open = FALSE, !.limit = st.next - 1, !.phase = "idle"]}
    ELSE {[st EXCEPT !.open = FALSE, !.limit = l] : l \in (st.next - 1) .. Last}

(* The socket ends: finish().  Nothing opens another stream before the     *)
(* next reconciliation.                                                    *)
StreamBreaks(s) ==
  /\ failures < MaxFailures
  /\ streams[s] # NoStream /\ streams[s].open
  /\ \E st \in Closed(streams[s]) : streams' = [streams EXCEPT ![s] = st]
  /\ failures' = failures + 1
  /\ UNCHANGED <<world, events, cache, syncedTo, lists, timer, live, samples,
                 covered, overlapped>>

(* consumeEvents returns when a closed stream has nothing left.            *)
ConsumerEnds(s) ==
  /\ streams[s].phase = "idle" /\ ~streams[s].open
  /\ streams[s].next > streams[s].limit
  /\ streams' = [streams EXCEPT ![s] = NoStream]
  /\ live' = IF live = s THEN 0 ELSE live
  /\ UNCHANGED <<world, events, cache, syncedTo, lists, timer, samples,
                 failures, covered, overlapped>>

HasNext(s) ==
  /\ streams[s].phase = "idle"
  /\ streams[s].next <= IF streams[s].open THEN Last ELSE streams[s].limit

(* The consumer waits for the answer about an event before it takes the    *)
(* next one.                                                               *)
Idle(st) == [phase |-> "idle", next |-> st.next, open |-> st.open,
             limit |-> st.limit]

Covers(i) == IF i = covered + 1 THEN i ELSE covered

(* applyEvent for a destroy: the entry goes at once.                       *)
TakeDestroy(s) ==
  /\ HasNext(s)
  /\ LET e == events[streams[s].next] IN
       /\ e.destroy
       /\ cache' = [cache EXCEPT ![e.c] = NoEntry]
       /\ covered' = Covers(streams[s].next)
  /\ streams' = [streams EXCEPT ![s].next = @ + 1]
  /\ overlapped' = (overlapped \/ InFlight)
  /\ lists' = NotAlone(lists)
  /\ UNCHANGED <<world, events, syncedTo, timer, live, samples, failures>>

(* applyEvent for every other action: ask the engine for the container's   *)
(* state.  The answer is what the engine knows now, whatever the event.    *)
TakeChange(s) ==
  /\ HasNext(s)
  /\ LET e == events[streams[s].next] IN
       /\ ~e.destroy
       /\ streams' = [streams EXCEPT ![s] =
            [phase |-> "inspecting", next |-> @.next + 1, open |-> @.open,
             limit |-> @.limit, c |-> e.c, w |-> world[e.c]]]
  /\ overlapped' = (overlapped \/ InFlight)
  /\ lists' = NotAlone(lists)
  /\ UNCHANGED <<world, events, cache, syncedTo, timer, live, samples,
                 failures, covered>>

(* The answer arrives; a 404 removes the entry.                            *)
InspectAnswered(s) ==
  /\ streams[s].phase = "inspecting"
  /\ LET c == streams[s].c IN cache' = [cache EXCEPT ![c] = Entry(@, streams[s].w)]
  /\ covered' = Covers(streams[s].next - 1)
  /\ streams' = [streams EXCEPT ![s] = Idle(@)]
  /\ UNCHANGED <<world, events, syncedTo, lists, timer, live, samples,
                 failures, overlapped>>

(* Any other error is logged and the event is forgotten.                   *)
InspectFails(s) ==
  /\ streams[s].phase = "inspecting" /\ failures < MaxFailures
  /\ streams' = [streams EXCEPT ![s] = Idle(@)]
  /\ failures' = failures + 1
  /\ UNCHANGED <<world, events, cache, syncedTo, lists, timer, live, samples,
                 covered, overlapped>>

-----------------------------------------------------------------------------
(* Full syncs.                                                             *)

(* restoreTunnelsFromSessions asks for one sync while start() may still be *)
(* waiting for its own.                                                    *)
RestoreSyncs ==
  /\ lists["restore"].phase = "none"
  /\ lists' = [lists EXCEPT !["restore"] = [phase |-> "asked"]]
  /\ UNCHANGED <<world, events, cache, syncedTo, timer, streams, live, samples,
                 failures, covered, overlapped>>

(* The reconcile timer fires: the event request is interrupted, then a     *)
(* sync is asked for.                                                      *)
ReconcileFires ==
  /\ timer = "armed"
  /\ timer' = "syncing"
  /\ lists' = [lists EXCEPT !["reconcile"] = [phase |-> "asked"]]
  /\ IF live = 0 THEN UNCHANGED streams
     ELSE \E st \in Closed(streams[live]) :
            streams' = [streams EXCEPT ![live] = st]
  /\ live' = 0
  /\ UNCHANGED <<world, events, cache, syncedTo, samples, failures, covered,
                 overlapped>>

(* The engine answers the list request.                                    *)
EngineLists(p) ==
  /\ lists[p].phase = "asked"
  /\ lists' = [NotAlone(lists) EXCEPT ![p] =
       [phase |-> "answered", view |-> world, pos |-> Last,
        alone |-> ~InFlight]]
  /\ overlapped' = (overlapped \/ InFlight)
  /\ UNCHANGED <<world, events, cache, syncedTo, timer, streams, live, samples,
                 failures, covered>>

(* What start() and the reconcile timer do when their sync has ended, well *)
(* or not: open a stream, arm the timer.                                   *)
AfterSync(p, since) ==
  IF p = "restore" THEN UNCHANGED <<streams, live, timer>>
  ELSE \E s \in FreeSlots :
         /\ streams' = Opened(streams, s, since)
         /\ live' = s
         /\ timer' = "armed"

EndOfList(p) == IF p = "restore" THEN [phase |-> "done"] ELSE NoList

(* The list is applied in one go.  lastSyncTime is the current time in     *)
(* whole seconds, so what happened between the making of the list and that *)
(* second will not be replayed, and what the list has seen may be.         *)
ListApplied(p) ==
  /\ lists[p].phase = "answered"
  /\ LET l == lists[p] IN
       /\ cache' = Synced(l.view)
       /\ \E to \in (IF syncedTo = NotSynced THEN 0 ELSE syncedTo) .. Last :
            syncedTo' = to /\ AfterSync(p, to)
       /\ covered' = IF l.pos > covered THEN l.pos ELSE covered
       /\ overlapped' = (overlapped /\ ~l.alone)
  /\ lists' = [lists EXCEPT ![p] = EndOfList(p)]
  /\ UNCHANGED <<world, events, samples, failures>>

(* A bug to be caught: a failed reconciliation does not arm the timer.     *)
GivesUpAfterFailure(p) ==
  /\ lists[p].phase = "asked" /\ failures < MaxFailures
  /\ failures' = failures + 1
  /\ lists' = [lists EXCEPT ![p] = EndOfList(p)]
  /\ UNCHANGED <<world, events, cache, syncedTo, timer, streams, live, samples,
                 covered, overlapped>>

(* The request fails: a warning, and everything goes on as after a sync.   *)
ListFails(p) ==
  /\ lists[p].phase = "asked" /\ failures < MaxFailures
  /\ failures' = failures + 1
  /\ AfterSync(p, syncedTo)
  /\ lists' = [lists EXCEPT ![p] = EndOfList(p)]
  /\ UNCHANGED <<world, events, cache, syncedTo, samples, covered, overlapped>>

-----------------------------------------------------------------------------
(* Resource stats.                                                         *)

(* sampleStats asks for every container the cache shows running.           *)
SampleStats ==
  /\ samples = {}
  /\ samples' = {[c |-> c, entry |-> cache[c]] :
                   c \in {d \in Containers : Cached(d) /\ cache[d].life = "running"}}
  /\ samples' # {}
  /\ UNCHANGED <<world, events, cache, syncedTo, lists, timer, streams, live,
                 failures, covered, overlapped>>

(* A bug to be caught: the sample is attached to the entry read before the *)
(* request.                                                                *)
WithUsageOfOld(x) == [cache EXCEPT ![x.c] = [x.entry EXCEPT !.usage = TRUE]]

(* One answer: the entry is looked up again after the await.               *)
WithUsage(x) ==
  IF Cached(x.c) /\ cache[x.c].life = "running"
    THEN [cache EXCEPT ![x.c].usage = TRUE] ELSE cache

StatsAnswered(x) ==
  /\ x \in samples
  /\ cache' \in {WithUsage(x), cache}
  /\ samples' = samples \ {x}
  /\ UNCHANGED <<world, events, syncedTo, lists, timer, streams, live,
                 failures, covered, overlapped>>

-----------------------------------------------------------------------------
(* start(): the daemon comes up with any containers left from before and   *)
(* asks for the first sync.                                                *)
Init ==
  /\ world \in [Containers -> {[life |-> "unborn", at |-> 0],
                               [life |-> "running", at |-> 0]}]
  /\ events = <<>>
  /\ cache = [c \in Containers |-> NoEntry]
  /\ syncedTo = NotSynced
  /\ lists = [p \in Callers |->
                IF p = "start" THEN [phase |-> "asked"] ELSE NoList]
  /\ timer = "off"
  /\ streams = [s \in Slots |-> NoStream]
  /\ live = 0
  /\ samples = {}
  /\ failures = 0
  /\ covered = NotSynced
  /\ overlapped = FALSE

EngineAnswers ==
  \/ \E p \in Callers : EngineLists(p) \/ ListApplied(p)
  \/ \E s \in Slots : Connect(s) \/ InspectAnswered(s)
  \/ \E x \in samples : StatsAnswered(x)

Consumes ==
  \E s \in Slots : TakeDestroy(s) \/ TakeChange(s) \/ ConsumerEnds(s)

Breaks ==
  \/ \E p \in Callers : ListFails(p)
  \/ \E s \in Slots : InspectFails(s) \/ StreamBreaks(s)

Next ==
  \/ \E c \in Containers : EngineChanges(c)
  \/ EngineAnswers \/ Consumes \/ Breaks
  \/ RestoreSyncs \/ ReconcileFires \/ SampleStats

Spec == Init /\ [][Next]_vars

(* The engine answers every request, consumers run, the timer fires.       *)
Fairness ==
  /\ \A p \in Callers : WF_vars(EngineLists(p)) /\ WF_vars(ListApplied(p))
  /\ \A s \in Slots :
       /\ WF_vars(Connect(s)) /\ WF_vars(InspectAnswered(s))
       /\ WF_vars(TakeDestroy(s)) /\ WF_vars(TakeChange(s))
       /\ WF_vars(ConsumerEnds(s))
  /\ WF_vars(ReconcileFires)

FairSpec == Spec /\ Fairness

-----------------------------------------------------------------------------
(* Type invariant.                                                         *)
EntrySet  == {NoEntry} \cup [life : {"running", "exited"}, at : 0 .. MaxEvents,
                             usage : BOOLEAN]
WorldSet  == [life : {"unborn", "running", "exited", "gone"}, at : 0 .. MaxEvents]
Places    == -1 .. MaxEvents + 1
StreamSet ==
  {NoStream}
    \cup [phase : {"connecting", "idle"}, next : Places, open : BOOLEAN,
          limit : Places]
    \cup [phase : {"inspecting"}, next : Places, open : BOOLEAN, limit : Places,
          c : Containers, w : WorldSet]
ListSet ==
  {NoList, [phase |-> "asked"], [phase |-> "done"]}
    \cup [phase : {"answered"}, view : [Containers -> WorldSet],
          pos : 0 .. MaxEvents, alone : BOOLEAN]

TypeOK ==
  /\ world \in [Containers -> WorldSet]
  /\ events \in Seq([c : Containers, destroy : BOOLEAN])
  /\ cache \in [Containers -> EntrySet]
  /\ syncedTo \in Places /\ covered \in Places
  /\ \A p \in Callers : lists[p] \in ListSet
  /\ timer \in {"off", "armed", "syncing"}
  /\ \A s \in Slots : streams[s] \in StreamSet
  /\ live \in Slots \cup {0}
  /\ samples \subseteq [c : Containers, entry : EntrySet]
  /\ failures \in 0 .. MaxFailures
  /\ overlapped \in BOOLEAN

-----------------------------------------------------------------------------
(* Properties.                                                             *)

Same(entry, w) ==
  IF Exists(w) THEN entry.life = w.life /\ entry.at = w.at ELSE entry = NoEntry

(* A full sync followed by the events since then, handled one after the    *)
(* other, leaves exactly the engine's containers in the cache.  The only   *)
(* excuses are reads that overlapped and events that nobody handled.       *)
ExactWhenCovered ==
  (covered = Last /\ ~InFlight /\ ~overlapped)
    => \A c \in Containers : Same(cache[c], world[c])

(* A container whose destruction the store was told of is a ghost in the   *)
(* cache only while two reads have overlapped: neither a replayed event    *)
(* nor a stats sample, nor a sync of its own, brings it back.              *)
GhostsNeedOverlap ==
  \A c \in Containers, i \in 1 .. Last :
    (events[i] = [c |-> c, destroy |-> TRUE] /\ i <= covered /\ Cached(c))
      => overlapped

(* The cache never reports resource usage of a container it does not show  *)
(* running, whatever the order of samples, events and syncs.               *)
UsageOnlyWhileRunning ==
  \A c \in Containers : cache[c].usage => cache[c].life = "running"

(* What the cache shows is what the engine has and nothing that is gone,   *)
(* whatever was answered late: for no other reason than those above.       *)
CacheFollowsEngine == ExactWhenCovered /\ GhostsNeedOverlap /\ UsageOnlyWhileRunning

(* "Self-healed by a periodic full resync": after failed requests, broken  *)
(* streams, lost events and overtaken answers the cache ends up showing    *)
(* exactly the engine's containers, once the engine stops changing.        *)
SelfHealing ==
  <>[](\A c \in Containers : Same(cache[c], world[c]))
=============================================================================
