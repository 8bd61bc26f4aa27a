------------------------------ MODULE EventBus ------------------------------
(***************************************************************************)
(* The daemon's event bus, one event stream of it and the browser tab that *)
(* reads the stream: event-bus.ts, handleEventStream of ui-api.ts and the  *)
(* reconnect loop of events-context.tsx.                                   *)
(*                                                                         *)
(* Ids count from 1 in every life of the daemon.  The tab keeps the id of  *)
(* the last event it saw across connections, and across daemons.  A        *)
(* connection the tab has lost may keep its subscription a while in the    *)
(* daemon; nobody reads what it gets, so it is not modelled.               *)
(*                                                                         *)
(* The notification engine listens before any stream does and publishes    *)
(* from inside its listener: a notification is sent to the streams before  *)
(* the agent activity that raised it, which has the smaller id.            *)
(***************************************************************************)
EXTENDS Naturals, Sequences, FiniteSets, SequencesExt

CONSTANTS
  Types,        \* the event types told apart
  Capacity,     \* events the history retains
  MaxEvents     \* bound: events of one daemon life

ASSUME BusAssumption ==
  /\ {"activity", "notification"} \subseteq Types
  /\ Capacity \in Nat \ {0} /\ MaxEvents \in Nat

VARIABLES
  nextId,       \* DaemonEventBus.nextId
  history,      \* DaemonEventBus.history: the retained envelopes
  open,         \* the tab has an event stream
  wire,         \* the envelopes on their way to the tab
  last,         \* lastEventId of the tab; 0 before the first event
  foreign,      \* history: `last` was given by an earlier daemon
  due           \* history: events of this daemon the tab has not seen

busVars == <<nextId, history, open, wire, last, foreign, due>>

Envelopes == [id : 1..MaxEvents, type : Types]

BusTypeOK ==
  /\ nextId \in 1..(MaxEvents + 1)
  /\ history \in Seq(Envelopes) /\ Len(history) <= Capacity
  /\ open \in BOOLEAN
  /\ wire \in Seq(Envelopes) /\ Len(wire) <= MaxEvents
  /\ last \in 0..MaxEvents
  /\ foreign \in BOOLEAN
  /\ due \subseteq Envelopes

BusInit ==
  /\ nextId = 1 /\ history = <<>>
  /\ open = FALSE /\ wire = <<>> /\ last = 0
  /\ foreign = FALSE /\ due = {}

-----------------------------------------------------------------------------
(* Mutants.                                                                *)

KeptWhole(envelopes) == envelopes
ReplayedAfterNext(since) ==
  LET old == {i \in DOMAIN history : history[i].id <= since + 1}
  IN  SubSeq(history, Cardinality(old) + 1, Len(history))

-----------------------------------------------------------------------------
(* The daemon.                                                             *)

(* The history drops its oldest events beyond its capacity.                *)
Retained(envelopes) ==
  SubSeq(envelopes, Len(envelopes) - Capacity + 1, Len(envelopes))

Numbered(types) ==
  [i \in 1..Len(types) |-> [id |-> nextId + i - 1, type |-> types[i]]]

(* Events get the next ids and are retained in that order.  The event      *)
(* stream of the tab has no filter: it is sent all of them.                *)
Emit(numbered, sent) ==
  LET kept == history \o numbered
  IN  /\ nextId + Len(numbered) - 1 <= MaxEvents
      /\ nextId' = nextId + Len(numbered)
      /\ history' = IF Len(kept) > Capacity THEN Retained(kept) ELSE kept
      /\ wire' = IF open THEN wire \o sent ELSE wire
      /\ due' = due \union ToSet(numbered)
      /\ UNCHANGED <<open, last, foreign>>

Publish(types) == Emit(Numbered(types), Numbered(types))

(* What the streams are sent when a listener ahead of them publishes too.  *)
InnerFirst(numbered) == Reverse(numbered)

(* An agent's activity changes.  The engine raises a notification when the *)
(* activity calls for one, its rule is enabled, it is no duplicate and     *)
(* nobody is looking.                                                      *)
PublishActivity ==
  \/ Publish(<<"activity">>)
  \/ LET pair == Numbered(<<"activity", "notification">>)
     IN  Emit(pair, InnerFirst(pair))

(* What a subscriber that saw `since` last is replayed: the events with a  *)
(* greater id.  The history is in the order of ids, so it is its end.      *)
Replay(since) ==
  LET old == {i \in DOMAIN history : history[i].id <= since}
  IN  SubSeq(history, Cardinality(old) + 1, Len(history))

(* A daemon that died and came back has no history and no streams.         *)
BusRestarts ==
  /\ nextId' = 1 /\ history' = <<>>
  /\ open' = FALSE /\ wire' = <<>>
  /\ foreign' = (last > 0)
  /\ due' = {}
  /\ UNCHANGED last

-----------------------------------------------------------------------------
(* The tab.                                                                *)

(* Its retry timer fires and it sends Last-Event-ID; the handler           *)
(* subscribes and replays in one go.                                       *)
Connect ==
  /\ ~open
  /\ open' = TRUE
  /\ wire' = Replay(last)
  /\ UNCHANGED <<nextId, history, last, foreign, due>>

(* The connection breaks: what was on its way is lost.                     *)
Disconnect ==
  /\ open
  /\ open' = FALSE /\ wire' = <<>>
  /\ UNCHANGED <<nextId, history, last, foreign, due>>

(* The tab takes an event; its listeners run before it takes the next one. *)
Receive ==
  /\ wire # <<>>
  /\ last' = Head(wire).id
  /\ wire' = Tail(wire)
  /\ foreign' = FALSE
  /\ due' = due \ {Head(wire)}
  /\ UNCHANGED <<nextId, history, open>>

-----------------------------------------------------------------------------
(* What the stream is worth.                                               *)

(* What the tab has not seen and will not see: not on its wire, and not in *)
(* what it would be replayed.                                              *)
Lost == due \ (IF open THEN ToSet(wire) ELSE ToSet(Replay(last)))

Evicted(e) == \A i \in DOMAIN history : history[i].id > e.id

(* The notification that an activity raised was seen, the activity not.    *)
Overtaken(e) ==
  e.type = "activity" /\ e.id < nextId - 1 /\ \A d \in due : d.id # e.id + 1

(* DaemonEventBus.subscribe, handleEventStream and EventsProvider: the     *)
(* tab loses an event only because it was evicted before the tab came      *)
(* back, because it has an id that the tab knows from an earlier daemon,   *)
(* or because the connection broke between a notification and the activity *)
(* that raised it.                                                         *)
LossNeedsReason ==
  [][\A e \in Lost' \ Lost :
       Evicted(e)' \/ (foreign' /\ e.id <= last') \/ Overtaken(e)']_busVars

(* EventsProvider: the tab is sent an event again only if it is a          *)
(* notification, which the tab saw before the activity that raised it and  *)
(* took that one's id for the last one it saw.                             *)
RepeatsAreNotifications ==
  \A i \in DOMAIN wire : wire[i] \notin due => wire[i].type = "notification"

(* DaemonEventBus.publish and subscribe: where the replay ends the live    *)
(* events begin.  A stream carries events of this daemon with no gap, in   *)
(* the order of their ids except for a notification and what raised it,    *)
(* up to the newest one.                                                   *)
StreamContinues ==
  LET ids == {wire[i].id : i \in DOMAIN wire}
  IN  /\ Cardinality(ids) = Len(wire)
      /\ \A i, j \in DOMAIN wire :
           i < j /\ wire[i].id > wire[j].id =>
             /\ wire[i].type = "notification" /\ wire[j].type = "activity"
             /\ wire[i].id = wire[j].id + 1
      /\ \A id \in ids : id + 1 \in ids \/ id + 1 = nextId \/ id + 1 = last

(* A tab is given every event once, in order, over broken connections,     *)
(* evictions and restarts, but for the reasons named above.                *)
StreamIsExact == []StreamContinues /\ []RepeatsAreNotifications /\ LossNeedsReason
=============================================================================
