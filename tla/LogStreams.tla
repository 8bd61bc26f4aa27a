----------------------------- MODULE LogStreams -----------------------------
(* The log streams of one session: DaemonSessionRegistry in                *)
(* packages/daemon/src/daemon-sessions.ts, with the followers of the two   *)
(* deployment backends.                                                    *)
(*                                                                         *)
(* A client subscribes to one service, to one of the daemon's own channels *)
(* (init, deployment) or, without a channel, to every service.  A service  *)
(* is followed on demand: the first subscriber resolves the stream context *)
(* (an await) and then starts a follower whose output is shared; the       *)
(* follower is to stop with the last subscriber.  Whatever runs between    *)
(* two awaits is one action.                                               *)
(*                                                                         *)
(* A chunk is its index in the output of its channel.  A follower reads    *)
(* the output of its service in order, from the last TailLines chunks on;  *)
(* followers[s][n] is the n-th follower ever started for service s.        *)
EXTENDS Naturals, Sequences, FiniteSets

CONSTANTS
  Clients,       \* HTTP clients, each of which opens one log stream
  Services,      \* services of the deployment
  OwnChannels,   \* the daemon's own channels: init and deployment
  Aggregate,     \* the channel of a subscription that names none
  None,
  TailLines,     \* how far back a new follower starts
  Capacity,      \* capacity of a LogBuffer
  MaxChunks,     \* bound: chunks a channel ever produces
  MaxFollowers   \* bound: followers ever started for one service

ASSUME LogAssumption ==
  /\ {TailLines, Capacity, MaxChunks, MaxFollowers} \subseteq Nat \ {0}
  /\ {Aggregate, None} \cap (Services \cup OwnChannels) = {}
  /\ Services \cap OwnChannels = {}
  /\ Aggregate # None

Channels == Services \cup OwnChannels

VARIABLES
  backend,    \* the session's deployment mode: "docker" or "shell"
  session,    \* the registry holds an object for the session
  subs,       \* subscribers.get(session); {} also stands for no entry
  channel,    \* what each client asked for, None before it subscribes
  attached,   \* SubscriberEntry.attached
  resolving,  \* clients whose start-up awaits the context resolver
  stream,     \* serviceStreams: the index of the stream's follower, or 0
  buffer,     \* the LogBuffer of each channel
  followers,  \* every follower ever started, by service
  output,     \* chunks each channel produced so far
  last,       \* history: last chunk a client was given of this stream
  torn,       \* history: channels of which a client got a repeat or a gap
  bystander,  \* history: services started past an unattached subscriber
  draining    \* history: services restarted while an old follower reads

registry == <<session, subs, attached, stream, buffer>>
requests == <<backend, channel, resolving>>
history  == <<last, torn, bystander, draining>>
vars == <<registry, requests, followers, output, history>>

FollowerTypes ==
  [next  : 1 .. MaxChunks + 1,   \* the chunk it reads next
   bound : BOOLEAN,              \* its sink closes over the current session
   state : {"running", "ended",  \* ended: the container's log stream closed
            "stopping", "stopped"}]

TypeOK ==
  /\ backend \in {"docker", "shell"}
  /\ session \in BOOLEAN
  /\ subs \subseteq Clients
  /\ channel \in [Clients -> Channels \cup {Aggregate, None}]
  /\ attached \in [Clients -> SUBSET Services]
  /\ resolving \subseteq Clients
  /\ followers \in [Services -> Seq(FollowerTypes)]
  /\ stream \in [Services -> Nat]
  /\ \A s \in Services : stream[s] <= Len(followers[s])
  /\ buffer \in [Channels -> Seq(1 .. MaxChunks)]
  /\ \A ch \in Channels : Len(buffer[ch]) <= Capacity
  /\ output \in [Channels -> 0 .. MaxChunks]
  /\ last \in [Clients -> [Channels -> 0 .. MaxChunks]]
  /\ torn \subseteq Clients \X Channels
  /\ bystander \subseteq Services /\ draining \subseteq Services

Init ==
  /\ backend \in {"docker", "shell"}
  /\ session = FALSE
  /\ subs = {}
  /\ channel = [c \in Clients |-> None]
  /\ attached = [c \in Clients |-> {}]
  /\ resolving = {}
  /\ stream = [s \in Services |-> 0]
  /\ buffer = [ch \in Channels |-> <<>>]
  /\ followers = [s \in Services |-> <<>>]
  /\ output = [ch \in Channels |-> 0]
  /\ last = [c \in Clients |-> [ch \in Channels |-> 0]]
  /\ torn = {} /\ bystander = {} /\ draining = {}

-----------------------------------------------------------------------------
(* Delivery.                                                               *)

(* matchesChannel: a subscription without a channel wants every service.   *)
Matches(ch, wanted) ==
  \/ wanted = ch
  \/ wanted = Aggregate /\ ch \in Services

(* Mutant: nothing is dropped.                                             *)
BufferedForever(buf, n) == Append(buf, n)

(* LogBuffer: append, then drop from the front what exceeds the capacity.  *)
Buffered(buf, n) ==
  SubSeq(Append(buf, n),
         IF Len(buf) < Capacity THEN 1 ELSE 2, Len(buf) + 1)

(* What the client is given continues what it was given before.            *)
Continues(c, ch, n) == last[c][ch] = 0 \/ n = last[c][ch] + 1

(* Buffer chunk n of ch and hand it to the subscribers that want ch.       *)
Deliver(ch, n) ==
  LET takers == {c \in subs : Matches(ch, channel[c])} IN
  /\ buffer' = [buffer EXCEPT ![ch] = Buffered(@, n)]
  /\ last' = [c \in Clients |-> IF c \in takers
                                THEN [last[c] EXCEPT ![ch] = n] ELSE last[c]]
  /\ torn' = torn \cup {<<c, ch>> : c \in {d \in takers : ~Continues(d, ch, n)}}

(* appendInit, appendDeployment.                                           *)
AppendOwn(ch) ==
  /\ output[ch] < MaxChunks
  /\ output' = [output EXCEPT ![ch] = @ + 1]
  /\ session' = TRUE
  /\ Deliver(ch, output[ch] + 1)
  /\ UNCHANGED <<subs, attached, stream, requests, followers,
                 bystander, draining>>

(* A service writes to its log; its followers read it later.               *)
ServiceWrites(s) ==
  /\ output[s] < MaxChunks
  /\ output' = [output EXCEPT ![s] = @ + 1]
  /\ UNCHANGED <<registry, requests, followers, history>>

(* Mutant: the docker follower does not check either.                      *)
ReadsOnceMore(f) == f.state \in {"running", "stopping"}

(* The docker follower checks its stopped flag before it calls the sink.   *)
(* The shell follower awaits the read of the file in between, so the read  *)
(* under way when it is stopped still reaches the sink.                    *)
Reads(f) ==
  \/ f.state = "running"
  \/ f.state = "stopping" /\ backend = "shell"

(* Follower n of s reads one chunk and calls its sink, which drops the     *)
(* chunk unless the session it closed over has a stream for s -- any       *)
(* stream.                                                                 *)
FollowerReads(s, n) ==
  LET f == followers[s][n] IN
  /\ Reads(f)
  /\ f.next <= output[s]
  /\ followers' = [followers EXCEPT
                     ![s][n].next = @ + 1,
                     ![s][n].state = IF @ = "stopping" THEN "stopped" ELSE @]
  /\ IF f.bound /\ stream[s] # 0
     THEN Deliver(s, f.next)
     ELSE UNCHANGED <<buffer, last, torn>>
  /\ UNCHANGED <<session, subs, attached, stream, requests, output,
                 bystander, draining>>

(* The container stops and with it the docker log stream; the stream's     *)
(* entry stays in the map.  A shell follower polls its file forever.       *)
FollowerEnds(s, n) ==
  /\ backend = "docker"
  /\ followers[s][n].state = "running"
  /\ followers' = [followers EXCEPT ![s][n].state = "ended"]
  /\ UNCHANGED <<registry, requests, output, history>>

(* A stopped follower resolves its done promise.                           *)
FollowerStops(s, n) ==
  /\ followers[s][n].state = "stopping"
  /\ followers' = [followers EXCEPT ![s][n].state = "stopped"]
  /\ UNCHANGED <<registry, requests, output, history>>

-----------------------------------------------------------------------------
(* Subscribing.                                                            *)

(* The services of which the client is given the buffered tail.            *)
Replayed(ch) ==
  {s \in Services : Matches(s, ch) /\ stream[s] # 0}

(* subscribe, up to the first await.  A running stream is joined; for a    *)
(* service without one, and always for the aggregate, the resolver is      *)
(* asked.  The tail of the buffer is replayed before any live chunk.       *)
Subscribe(c) == \E ch \in Channels \cup {Aggregate} :
  LET replayed == Replayed(ch) \cup (OwnChannels \cap {ch})
      waits == ch = Aggregate \/ (ch \in Services /\ Replayed(ch) = {}) IN
  /\ channel[c] = None
  /\ channel' = [channel EXCEPT ![c] = ch]
  /\ subs' = subs \cup {c}
  /\ attached' = [attached EXCEPT ![c] = Replayed(ch)]
  /\ resolving' = IF waits THEN resolving \cup {c} ELSE resolving
  /\ session' = (session \/ (waits /\ ch # Aggregate))
  /\ last' = [last EXCEPT ![c] =
       [x \in Channels |-> IF x \in replayed /\ buffer[x] # <<>>
                           THEN buffer[x][Len(buffer[x])] ELSE @[x]]]
  /\ UNCHANGED <<backend, stream, buffer, followers, output,
                 torn, bystander, draining>>

NewFollower(s) ==
  [next  |-> IF output[s] > TailLines THEN output[s] - TailLines + 1 ELSE 1,
   bound |-> TRUE,
   state |-> "running"]

(* startServiceStream for each service of "wanted".  The entry is set in   *)
(* the map before the starter runs and removed again when the starter      *)
(* finds nothing to follow ("followed" are those it does follow): either   *)
(* way an entry that was there is replaced.                                *)
StartStreams(wanted, followed) ==
  /\ \A s \in followed : Len(followers[s]) < MaxFollowers
  /\ session' = TRUE
  /\ followers' = [s \in Services |->
       IF s \in followed THEN Append(followers[s], NewFollower(s))
                         ELSE followers[s]]
  /\ stream' = [s \in Services |->
       CASE s \in followed          -> Len(followers[s]) + 1
         [] s \in wanted \ followed -> 0
         [] OTHER                   -> stream[s]]
  /\ buffer' = [ch \in Channels |-> IF ch \in wanted THEN <<>> ELSE buffer[ch]]
  /\ last' = [c \in Clients |-> [ch \in Channels |->
       IF ch \in wanted /\ stream[ch] = 0 THEN 0 ELSE last[c][ch]]]
  /\ bystander' = bystander \cup {s \in followed : \E d \in subs :
       channel[d] = s /\ s \notin attached[d] /\ attached'[d] = attached[d]}
  /\ draining' = draining \cup {s \in followed :
       backend = "shell" /\ \E n \in 1 .. Len(followers[s]) :
                              /\ followers[s][n].state = "stopping"
                              /\ followers[s][n].bound}
  /\ UNCHANGED torn

(* The resolver answers, but with nothing to start: no context, or the     *)
(* service is not among the allowed ones, or the subscriber has gone.      *)
ResolvesToNothing(c) ==
  /\ c \in resolving
  /\ resolving' = resolving \ {c}
  /\ UNCHANGED <<registry, backend, channel, followers, output, history>>

(* Mutant: whether the subscriber is still there is not looked at either.  *)
ResolvesServiceForNobody(c) == \E followed \in SUBSET {channel[c]} :
  /\ c \in resolving /\ channel[c] \in Services
  /\ resolving' = resolving \ {c}
  /\ attached' = [attached EXCEPT ![c] = @ \cup {channel[c]}]
  /\ StartStreams({channel[c]}, followed)
  /\ UNCHANGED <<subs, backend, channel, output>>

(* ensureServiceStreamForSubscriber after its await: whether a stream has  *)
(* been started meanwhile is not looked at again.                          *)
ResolvesService(c) == \E followed \in SUBSET {channel[c]} :
  /\ c \in resolving /\ c \in subs /\ channel[c] \in Services
  /\ resolving' = resolving \ {c}
  /\ attached' = [attached EXCEPT ![c] = @ \cup {channel[c]}]
  /\ StartStreams({channel[c]}, followed)
  /\ UNCHANGED <<subs, backend, channel, output>>

(* ensureAggregateStreamsForSubscriber after its await: only the services  *)
(* without a stream are started.                                           *)
ResolvesAggregate(c) == \E services \in SUBSET Services :
  LET wanted == {s \in services : stream[s] = 0} IN
  \E followed \in SUBSET wanted :
    /\ c \in resolving /\ c \in subs /\ channel[c] = Aggregate
    /\ resolving' = resolving \ {c}
    /\ attached' = [attached EXCEPT ![c] = @ \cup services]
    /\ StartStreams(wanted, followed)
    /\ UNCHANGED <<subs, backend, channel, output>>

-----------------------------------------------------------------------------
(* Leaving, and the operations that end streams.                           *)

(* serviceHasInterestedSubscriber among the subscribers in "rest".         *)
Interested(s, rest) ==
  \E d \in rest : \/ channel[d] = s
                  \/ channel[d] = Aggregate /\ s \in attached[d]

(* teardownServiceStream, teardownAllStreams: forget the streams of        *)
(* "ended", clear their buffers, signal their followers.                   *)
EndStreams(ended, keepsSession) ==
  /\ stream' = [s \in Services |-> IF s \in ended THEN 0 ELSE stream[s]]
  /\ followers' = [s \in Services |-> [n \in 1 .. Len(followers[s]) |->
       [followers[s][n] EXCEPT
         !.bound = @ /\ keepsSession,
         !.state = IF s \in ended /\ n = stream[s] /\ @ = "running"
                   THEN "stopping" ELSE @]]]

(* History: what clients that are no longer served were given is dropped.  *)
Forget(gone) ==
  /\ last' = [c \in Clients |-> [ch \in Channels |->
                                IF c \in gone THEN 0 ELSE last[c][ch]]]
  /\ UNCHANGED <<torn, bystander, draining>>

(* removeSubscriber.  The response's cancel and the request's abort may    *)
(* both call it.  It stops the streams the client was attached to and      *)
(* nobody else is interested in.                                           *)
Unsubscribe(c) ==
  /\ channel[c] # None
  /\ subs # {}
  /\ subs' = subs \ {c}
  /\ LET ended == IF session
                  THEN {s \in attached[c] : ~Interested(s, subs \ {c})}
                  ELSE {} IN
     /\ EndStreams(ended, TRUE)
     /\ buffer' = [ch \in Channels |-> IF ch \in ended THEN <<>> ELSE buffer[ch]]
  /\ Forget({c})
  /\ UNCHANGED <<session, attached, requests, output>>

(* resetSession, at the start of an up: subscribers stay.                  *)
Reset ==
  /\ session
  /\ EndStreams(Services, TRUE)
  /\ buffer' = [ch \in Channels |-> <<>>]
  /\ UNCHANGED <<session, subs, attached, requests, output, history>>

(* drop, at the end of a down or a remove: subscribers are forgotten.      *)
Drop ==
  /\ session
  /\ session' = FALSE
  /\ subs' = {}
  /\ EndStreams(Services, FALSE)
  /\ buffer' = [ch \in Channels |-> <<>>]
  /\ Forget(Clients)
  /\ UNCHANGED <<attached, requests, output>>

Next ==
  \/ \E ch \in OwnChannels : AppendOwn(ch)
  \/ \E s \in Services : ServiceWrites(s)
  \/ \E s \in Services : \E n \in 1 .. Len(followers[s]) :
       FollowerReads(s, n) \/ FollowerEnds(s, n) \/ FollowerStops(s, n)
  \/ \E c \in Clients :
       \/ Subscribe(c) \/ Unsubscribe(c)
       \/ ResolvesToNothing(c) \/ ResolvesService(c) \/ ResolvesAggregate(c)
  \/ Reset \/ Drop

Spec == Init /\ [][Next]_vars

-----------------------------------------------------------------------------
(* Properties.                                                             *)

Running(s) ==
  {n \in 1 .. Len(followers[s]) : followers[s][n].state = "running"}

(* A stream in the map was never told to stop: whoever joins it joins a    *)
(* follower that still reads, or one whose container ended by itself.      *)
JoinedStreamsAreLive ==
  \A s \in Services : stream[s] # 0 =>
    followers[s][stream[s]].state \in {"running", "ended"}

(* At most one follower reads a service -- unless a stream for it was      *)
(* started while another client's subscription to it was not attached.     *)
OneFollower ==
  \A s \in Services : s \notin bystander => Cardinality(Running(s)) <= 1

(* With the same exception, a follower that runs has a subscriber who      *)
(* reads it: the last one to leave stopped it.                             *)
FollowersAreRead ==
  \A s \in Services : s \notin bystander /\ Running(s) # {} => Interested(s, subs)

(* Streams are fed once, and what feeds them has readers, although clients *)
(* come, leave and wait for the resolver in any order.                     *)
FollowersFitStreams == JoinedStreamsAreLive /\ OneFollower /\ FollowersAreRead

(* The tail a client is given and the live chunks that follow are a        *)
(* contiguous piece of the output, whatever joins, leaves, restarts and    *)
(* resets happen -- unless two followers feed the stream, by the exception *)
(* above or because a stopped shell follower was still reading.            *)
NoGapNoRepeat ==
  \A c \in Clients, ch \in Channels :
    <<c, ch>> \in torn => ch \in bystander \cup draining
=============================================================================
