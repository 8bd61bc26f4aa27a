-------------------------- MODULE LogStreamsProofs --------------------------
(* For any number of clients, services, followers and chunks: streams that  *)
(* can be joined are live, a service is followed once and for somebody, and *)
(* what a client is given is a contiguous piece of the output.              *)
EXTENDS LogStreams, FiniteSetTheorems, SequenceTheorems, TLAPS

-----------------------------------------------------------------------------
(* The inductive invariant.                                                 *)

LastOf(buf) == buf[Len(buf)]

(* Who is served has asked for a channel; who is not has nothing to follow. *)
SubscriberInv == \A c \in Clients :
  /\ c \in subs => channel[c] # None
  /\ c \notin subs => \A ch \in Channels : last[c][ch] = 0

(* The map has live followers, and every running one but for a bystander.   *)
StreamInv == \A s \in Services :
  /\ stream[s] # 0 => session /\ followers[s][stream[s]].state \in {"running", "ended"}
  /\ s \notin bystander => Running(s) \subseteq {stream[s]}

(* A subscriber whose service is followed is attached to it; so nobody who  *)
(* still waits for the resolver has a stream, unless it is a bystander.     *)
AttachInv == \A c \in subs : \A s \in Services :
  channel[c] = s /\ s \notin attached[c] => s \in bystander \/ stream[s] = 0

WaitInv == \A c \in resolving :
  /\ channel[c] # None
  /\ channel[c] \in Services => channel[c] \notin attached[c]

(* A stream is fed by its follower alone, whose last chunk is the last one  *)
(* in the buffer and the last one every subscriber was given.               *)
Fed(s) ==
  /\ followers[s][stream[s]].bound
  /\ \A n \in 1 .. Len(followers[s]) :
       n # stream[s] => ~(Reads(followers[s][n]) /\ followers[s][n].bound)
  /\ buffer[s] # <<>> => LastOf(buffer[s]) = followers[s][stream[s]].next - 1
  /\ \A c \in subs : Matches(s, channel[c]) =>
       last[c][s] \in {0, followers[s][stream[s]].next - 1}

FeedInv == \A s \in Services :
  s \notin bystander /\ s \notin draining /\ stream[s] # 0 => Fed(s)

(* The same of the daemon's own channels.                                   *)
OwnInv == \A ch \in OwnChannels :
  /\ buffer[ch] # <<>> => LastOf(buffer[ch]) = output[ch]
  /\ \A c \in subs : Matches(ch, channel[c]) => last[c][ch] \in {0, output[ch]}

Inv ==
  /\ TypeOK /\ SubscriberInv /\ StreamInv /\ AttachInv /\ WaitInv
  /\ FollowersAreRead /\ FeedInv /\ OwnInv /\ NoGapNoRepeat

-----------------------------------------------------------------------------
(* Types and sequences.                                                     *)

LEMMA Bounds ==
  /\ MaxChunks \in Nat /\ MaxChunks > 0 /\ Capacity \in Nat /\ Capacity > 0
  /\ TailLines \in Nat /\ MaxFollowers \in Nat
  /\ Services \cap OwnChannels = {} /\ Aggregate \notin Channels /\ None \notin Channels
  /\ Aggregate # None
  BY LogAssumption DEF Channels

(* The buffer keeps its capacity and ends with what was appended.           *)
LEMMA BufferedFacts ==
  ASSUME NEW buf \in Seq(1 .. MaxChunks), Len(buf) <= Capacity, NEW n \in 1 .. MaxChunks
  PROVE  /\ Buffered(buf, n) \in Seq(1 .. MaxChunks)
         /\ Len(Buffered(buf, n)) <= Capacity
         /\ Buffered(buf, n) # <<>> /\ LastOf(Buffered(buf, n)) = n
<1> DEFINE long == Append(buf, n)
           from == IF Len(buf) < Capacity THEN 1 ELSE 2
           kept == SubSeq(long, from, Len(buf) + 1)
<1>1. /\ long \in Seq(1 .. MaxChunks) /\ Len(buf) \in Nat /\ Len(long) = Len(buf) + 1
      /\ long[Len(buf) + 1] = n
  OBVIOUS
<1>2. /\ from \in {1, 2} /\ from <= Len(buf) + 1
      /\ (Len(buf) + 1) - from + 1 <= Capacity
      /\ (Len(buf) + 1) - from + 1 \in Nat \ {0}
  BY <1>1, Bounds
<1> HIDE DEF long, from
<1>3. \A i \in from .. Len(buf) + 1 : long[i] \in 1 .. MaxChunks
  <2> SUFFICES ASSUME NEW i \in from .. Len(buf) + 1 PROVE long[i] \in 1 .. MaxChunks
    OBVIOUS
  <2>1. i \in 1 .. Len(long)
    BY <1>1, <1>2
  <2> QED BY <1>1, <2>1, ElementOfSeq
<1>4. /\ kept \in Seq(1 .. MaxChunks) /\ Len(kept) = (Len(buf) + 1) - from + 1
      /\ \A i \in 1 .. (Len(buf) + 1) - from + 1 : kept[i] = long[from + i - 1]
  <2>1. from \in Int /\ Len(buf) + 1 \in Int
    BY <1>1, <1>2
  <2> QED BY <1>2, <1>3, <2>1, SubSeqProperties
<1>5. kept[Len(kept)] = n
  <2>1. kept[Len(kept)] = long[from + ((Len(buf) + 1) - from + 1) - 1]
    BY <1>2, <1>4
  <2>2. from + ((Len(buf) + 1) - from + 1) - 1 = Len(buf) + 1
    BY <1>1, <1>2
  <2> QED BY <1>1, <2>1, <2>2
<1>6. kept # <<>> /\ Len(kept) <= Capacity
  BY <1>2, <1>4
<1> QED BY <1>4, <1>5, <1>6 DEF Buffered, LastOf, long, from

LEMMA FollowerParts ==
  ASSUME TypeOK, NEW s \in Services, NEW n \in 1 .. Len(followers[s])
  PROVE  /\ followers[s] \in Seq(FollowerTypes)
         /\ followers[s][n] \in FollowerTypes
         /\ followers[s][n].next \in Nat /\ followers[s][n].next > 0
         /\ followers[s][n].next <= MaxChunks + 1
         /\ followers[s][n].bound \in BOOLEAN
         /\ followers[s][n].state \in {"running", "ended", "stopping", "stopped"}
<1>1. followers[s] \in Seq(FollowerTypes)
  BY DEF TypeOK
<1>2. followers[s][n] \in FollowerTypes
  BY <1>1
<1> QED BY <1>1, <1>2, Bounds DEF FollowerTypes

(* A stream in the map is the index of a follower.                          *)
LEMMA StreamParts ==
  ASSUME TypeOK, NEW s \in Services
  PROVE  /\ Len(followers[s]) \in Nat /\ stream[s] \in Nat
         /\ stream[s] # 0 => stream[s] \in 1 .. Len(followers[s])
         /\ Running(s) \subseteq 1 .. Len(followers[s])
         /\ 0 \notin Running(s)
<1>1. followers[s] \in Seq(FollowerTypes) /\ stream[s] \in Nat /\ stream[s] <= Len(followers[s])
  BY DEF TypeOK
<1>2. Len(followers[s]) \in Nat
  BY <1>1
<1> QED BY <1>1, <1>2 DEF Running

-----------------------------------------------------------------------------
(* What comes out of the log of a service or of the daemon.                 *)

LEMMA WritesKeep ==
  ASSUME Inv, NEW s \in Services, ServiceWrites(s)
  PROVE  Inv'
<1> USE DEF Inv
<1>1. /\ output' = [output EXCEPT ![s] = @ + 1]
      /\ output[s] < MaxChunks
      /\ UNCHANGED <<registry, requests, followers, history>>
  BY DEF ServiceWrites
<1>2. UNCHANGED <<backend, session, subs, channel, attached, resolving, stream, buffer,
                  followers, last, torn, bystander, draining>>
  BY <1>1 DEF registry, requests, history
<1>3. TypeOK'
  <2>1. output' \in [Channels -> 0 .. MaxChunks]
    BY <1>1, Bounds DEF TypeOK, Channels
  <2> QED BY <1>2, <2>1 DEF TypeOK
<1>4. \A ch \in OwnChannels : output'[ch] = output[ch]
  BY <1>1, Bounds DEF TypeOK, Channels
<1>5. OwnInv'
  BY <1>2, <1>4 DEF OwnInv, Matches
<1>6. SubscriberInv' /\ StreamInv' /\ AttachInv' /\ WaitInv'
  BY <1>2 DEF SubscriberInv, StreamInv, AttachInv, WaitInv, Running
<1>7. FollowersAreRead' /\ NoGapNoRepeat'
  BY <1>2 DEF FollowersAreRead, Running, Interested, NoGapNoRepeat
<1>8. FeedInv'
  BY <1>2 DEF FeedInv, Fed, Reads, Matches
<1> QED BY <1>3, <1>5, <1>6, <1>7, <1>8

(* Delivering a chunk that continues what every taker was given tears no    *)
(* stream, and leaves it as the last one of the buffer and of every taker.  *)
LEMMA DeliverFacts ==
  ASSUME TypeOK, NEW ch \in Channels, NEW n \in 1 .. MaxChunks, Deliver(ch, n)
  PROVE  /\ buffer' \in [Channels -> Seq(1 .. MaxChunks)]
         /\ \A x \in Channels : Len(buffer'[x]) <= Capacity
         /\ last' \in [Clients -> [Channels -> 0 .. MaxChunks]]
         /\ torn' \subseteq Clients \X Channels
         /\ LastOf(buffer'[ch]) = n
         /\ \A x \in Channels : x # ch => buffer'[x] = buffer[x]
         /\ \A c \in Clients, x \in Channels :
              x # ch \/ c \notin subs => last'[c][x] = last[c][x]
         /\ \A c \in subs : Matches(ch, channel[c]) => last'[c][ch] = n
         /\ \A c \in Clients, x \in Channels :
              <<c, x>> \in torn' \ torn =>
                /\ x = ch /\ c \in subs /\ Matches(ch, channel[c])
                /\ ~Continues(c, ch, n)
<1> DEFINE takers == {c \in subs : Matches(ch, channel[c])}
<1>1. /\ buffer' = [buffer EXCEPT ![ch] = Buffered(buffer[ch], n)]
      /\ last' = [c \in Clients |-> IF c \in takers
                                    THEN [last[c] EXCEPT ![ch] = n] ELSE last[c]]
      /\ torn' = torn \cup {<<c, ch>> : c \in {d \in takers : ~Continues(d, ch, n)}}
  BY DEF Deliver
<1>2. /\ buffer \in [Channels -> Seq(1 .. MaxChunks)]
      /\ \A x \in Channels : Len(buffer[x]) <= Capacity
      /\ last \in [Clients -> [Channels -> 0 .. MaxChunks]]
      /\ torn \subseteq Clients \X Channels
      /\ takers \subseteq subs /\ subs \subseteq Clients
  BY DEF TypeOK
<1>3. /\ Buffered(buffer[ch], n) \in Seq(1 .. MaxChunks)
      /\ Len(Buffered(buffer[ch], n)) <= Capacity
      /\ LastOf(Buffered(buffer[ch], n)) = n
  BY <1>2, BufferedFacts
<1>4. n \in 0 .. MaxChunks
  BY Bounds
<1>5. /\ buffer' \in [Channels -> Seq(1 .. MaxChunks)]
      /\ \A x \in Channels : Len(buffer'[x]) <= Capacity
      /\ LastOf(buffer'[ch]) = n
      /\ \A x \in Channels : x # ch => buffer'[x] = buffer[x]
  BY <1>1, <1>2, <1>3
<1>6. \A c \in subs : Matches(ch, channel[c]) <=> c \in takers
  OBVIOUS
<1>7. torn' \subseteq Clients \X Channels
  BY <1>1, <1>2
<1>8. \A c \in Clients, x \in Channels : <<c, x>> \in torn' \ torn =>
        x = ch /\ c \in takers /\ ~Continues(c, ch, n)
  BY <1>1
<1>9. takers \subseteq subs
  BY <1>2
<1> HIDE DEF takers
<1>10. /\ last' \in [Clients -> [Channels -> 0 .. MaxChunks]]
       /\ \A c \in Clients, x \in Channels :
            x # ch \/ c \notin takers => last'[c][x] = last[c][x]
       /\ \A c \in takers : last'[c][ch] = n
  BY <1>1, <1>2, <1>4, <1>9
<1> QED BY <1>2, <1>5, <1>6, <1>7, <1>8, <1>9, <1>10

LEMMA AppendKeeps ==
  ASSUME Inv, NEW ch \in OwnChannels, AppendOwn(ch)
  PROVE  Inv'
<1> USE DEF Inv
<1>1. /\ output' = [output EXCEPT ![ch] = @ + 1] /\ output[ch] < MaxChunks
      /\ session' = TRUE
      /\ Deliver(ch, output[ch] + 1)
      /\ UNCHANGED <<subs, attached, stream, requests, followers, bystander, draining>>
  BY DEF AppendOwn
<1>2. UNCHANGED <<backend, subs, channel, attached, resolving, stream, followers,
                  bystander, draining>>
  BY <1>1 DEF requests
<1>3. ch \in Channels /\ ch \notin Services /\ output[ch] \in 0 .. MaxChunks
  BY Bounds DEF TypeOK, Channels
<1>4. output[ch] + 1 \in 1 .. MaxChunks /\ output[ch] \in Nat
  BY <1>1, <1>3, Bounds
<1>5. /\ output' \in [Channels -> 0 .. MaxChunks]
      /\ output'[ch] = output[ch] + 1
      /\ \A x \in Channels : x # ch => output'[x] = output[x]
  BY <1>1, <1>3, <1>4, Bounds DEF TypeOK
<1>6. /\ buffer' \in [Channels -> Seq(1 .. MaxChunks)]
      /\ \A x \in Channels : Len(buffer'[x]) <= Capacity
      /\ last' \in [Clients -> [Channels -> 0 .. MaxChunks]]
      /\ torn' \subseteq Clients \X Channels
      /\ LastOf(buffer'[ch]) = output[ch] + 1
      /\ \A x \in Channels : x # ch => buffer'[x] = buffer[x]
      /\ \A c \in Clients, x \in Channels :
           x # ch \/ c \notin subs => last'[c][x] = last[c][x]
      /\ \A c \in subs : Matches(ch, channel[c]) => last'[c][ch] = output[ch] + 1
      /\ \A c \in Clients, x \in Channels :
           <<c, x>> \in torn' \ torn =>
             /\ x = ch /\ c \in subs /\ Matches(ch, channel[c])
             /\ ~Continues(c, ch, output[ch] + 1)
  BY <1>1, <1>3, <1>4, DeliverFacts
<1>7. TypeOK'
  BY <1>1, <1>2, <1>5, <1>6 DEF TypeOK
<1>8. SubscriberInv'
  BY <1>2, <1>6 DEF SubscriberInv
<1>9. StreamInv' /\ AttachInv' /\ WaitInv' /\ FollowersAreRead'
  BY <1>1, <1>2 DEF StreamInv, AttachInv, WaitInv, Running, FollowersAreRead, Interested
<1>10. \A s \in Services : s \in Channels /\ s # ch
  BY <1>3 DEF Channels
<1>11. subs \subseteq Clients
  BY DEF TypeOK
<1>12. FeedInv'
  <2>1. \A s \in Services : buffer'[s] = buffer[s] /\ \A c \in subs : last'[c][s] = last[c][s]
    BY <1>6, <1>10, <1>11
  <2> QED BY <1>2, <2>1 DEF FeedInv, Fed, Reads, Matches
<1>13. OwnInv'
  <2> SUFFICES ASSUME NEW x \in OwnChannels
               PROVE  /\ buffer'[x] # <<>> => LastOf(buffer'[x]) = output'[x]
                      /\ \A c \in subs : Matches(x, channel[c]) =>
                           last'[c][x] \in {0, output'[x]}
    BY <1>2 DEF OwnInv, Matches, LastOf
  <2>1. x \in Channels
    BY DEF Channels
  <2>2. CASE x = ch
    BY <2>2, <1>5, <1>6
  <2>3. CASE x # ch
    BY <2>1, <2>3, <1>5, <1>6, <1>11 DEF OwnInv
  <2> QED BY <2>2, <2>3
<1>14. NoGapNoRepeat'
  <2> SUFFICES ASSUME NEW c \in Clients, NEW x \in Channels, <<c, x>> \in torn'
               PROVE  x \in bystander \cup draining
    BY <1>2 DEF NoGapNoRepeat
  <2>1. <<c, x>> \in torn
    <3>1. SUFFICES ASSUME <<c, x>> \notin torn PROVE FALSE
      OBVIOUS
    <3>2. c \in subs /\ Matches(ch, channel[c]) /\ ~Continues(c, ch, output[ch] + 1)
      BY <3>1, <1>6
    <3>3. last[c][ch] \in {0, output[ch]}
      BY <3>2 DEF OwnInv
    <3> QED BY <3>2, <3>3 DEF Continues
  <2> QED BY <2>1 DEF NoGapNoRepeat
<1> QED BY <1>7, <1>8, <1>9, <1>12, <1>13, <1>14

-----------------------------------------------------------------------------
(* What becomes of a follower.                                              *)

(* A follower that was not running before it changed, or does not read any  *)
(* more, feeds nobody: all that was known of the streams stays so.          *)
LEMMA CalmerKeeps ==
  ASSUME Inv, NEW s \in Services, NEW n \in 1 .. Len(followers[s]),
         NEW st \in {"ended", "stopped"},
         followers' = [followers EXCEPT ![s] =
           [followers[s] EXCEPT ![n] = [followers[s][n] EXCEPT !.state = st]]],
         st = "ended" => followers[s][n].state = "running",
         st = "stopped" => followers[s][n].state = "stopping",
         UNCHANGED <<registry, requests, output, history>>
  PROVE  Inv'
<1> USE DEF Inv
<1>1. UNCHANGED <<backend, session, subs, channel, attached, resolving, stream, buffer,
                  output, last, torn, bystander, draining>>
  BY DEF registry, requests, history
<1>2. PICK g \in FollowerTypes :
        /\ g = [followers[s][n] EXCEPT !.state = st] /\ g.state = st
        /\ g.next = followers[s][n].next /\ g.bound = followers[s][n].bound
  <2> DEFINE h == [followers[s][n] EXCEPT !.state = st]
  <2>1. followers[s][n] \in FollowerTypes
    BY FollowerParts
  <2>2. /\ h \in FollowerTypes /\ h.state = st
        /\ h.next = followers[s][n].next /\ h.bound = followers[s][n].bound
    BY <2>1 DEF FollowerTypes
  <2> HIDE DEF h
  <2>3. \E g \in FollowerTypes : g = h
    BY <2>2
  <2> QED BY <2>2, <2>3 DEF h
<1> DEFINE h == [followers[s] EXCEPT ![n] = g]
<1>3. /\ h \in Seq(FollowerTypes) /\ Len(h) = Len(followers[s]) /\ h[n] = g
      /\ \A m \in 1 .. Len(followers[s]) : m # n => h[m] = followers[s][m]
  BY FollowerParts, ExceptSeq
<1>3a. followers' = [followers EXCEPT ![s] = h]
  BY <1>2
<1> HIDE DEF h
<1>4. /\ followers' \in [Services -> Seq(FollowerTypes)]
      /\ \A x \in Services : Len(followers'[x]) = Len(followers[x])
      /\ \A x \in Services : x # s => followers'[x] = followers[x]
      /\ followers'[s][n] = g
      /\ \A m \in 1 .. Len(followers[s]) : m # n => followers'[s][m] = followers[s][m]
  BY <1>2, <1>3, <1>3a DEF TypeOK
<1>5. TypeOK'
  BY <1>1, <1>4 DEF TypeOK
<1>6. \A x \in Services : \A m \in 1 .. Len(followers[x]) :
        /\ followers'[x][m].next = followers[x][m].next
        /\ followers'[x][m].bound = followers[x][m].bound
        /\ \/ followers'[x][m].state = followers[x][m].state
           \/ x = s /\ m = n /\ followers'[x][m].state = st
  BY <1>2, <1>4
<1>7. \A x \in Services : Running(x)' \subseteq Running(x)
  BY <1>4, <1>6 DEF Running
<1>8. \A x \in Services : stream[x] # 0 => stream[x] \in 1 .. Len(followers[x])
  BY StreamParts
<1>9. \A x \in Services : stream[x] # 0 =>
        session /\ followers'[x][stream[x]].state \in {"running", "ended"}
  BY <1>6, <1>8 DEF StreamInv
<1>10. StreamInv'
  BY <1>1, <1>7, <1>9 DEF StreamInv
<1>11. FollowersAreRead'
  <2>1. \A x \in Services : Interested(x, subs)' = Interested(x, subs)
    BY <1>1 DEF Interested
  <2> QED BY <1>1, <1>7, <2>1 DEF FollowersAreRead
<1>12. SubscriberInv' /\ AttachInv' /\ WaitInv' /\ OwnInv' /\ NoGapNoRepeat'
  BY <1>1 DEF SubscriberInv, AttachInv, WaitInv, OwnInv, NoGapNoRepeat, Matches, LastOf
<1>13. FeedInv'
  <2> SUFFICES ASSUME NEW x \in Services, x \notin bystander, x \notin draining, stream[x] # 0
               PROVE  Fed(x)'
    BY <1>1 DEF FeedInv
  <2>1. Fed(x) /\ stream[x] \in 1 .. Len(followers[x])
    BY <1>8 DEF FeedInv
  <2>2. /\ followers'[x][stream[x]].bound
        /\ followers'[x][stream[x]].next = followers[x][stream[x]].next
    BY <1>6, <2>1 DEF Fed
  <2>4. \A m \in 1 .. Len(followers'[x]) : m # stream[x] =>
          ~(Reads(followers[x][m])' /\ followers'[x][m].bound)
    BY <1>1, <1>4, <1>6, <2>1 DEF Fed, Reads
  <2>5. /\ buffer'[x] # <<>> => LastOf(buffer'[x]) = followers'[x][stream'[x]].next - 1
        /\ \A c \in subs' : Matches(x, channel'[c]) =>
             last'[c][x] \in {0, followers'[x][stream'[x]].next - 1}
    BY <1>1, <2>1, <2>2 DEF Fed
  <2> QED BY <1>1, <2>2, <2>4, <2>5 DEF Fed, Reads, Matches, LastOf
<1> QED BY <1>5, <1>10, <1>11, <1>12, <1>13

LEMMA EndsKeep ==
  ASSUME Inv, NEW s \in Services, NEW n \in 1 .. Len(followers[s]),
         FollowerEnds(s, n) \/ FollowerStops(s, n)
  PROVE  Inv'
<1>1. CASE FollowerEnds(s, n)
  BY <1>1, CalmerKeeps DEF FollowerEnds
<1>2. CASE FollowerStops(s, n)
  BY <1>2, CalmerKeeps DEF FollowerStops
<1> QED BY <1>1, <1>2

(* Reading one chunk.                                                       *)
LEMMA ReadsParts ==
  ASSUME TypeOK, NEW s \in Services, NEW n \in 1 .. Len(followers[s]), FollowerReads(s, n)
  PROVE  /\ followers' \in [Services -> Seq(FollowerTypes)]
         /\ \A x \in Services : Len(followers'[x]) = Len(followers[x])
         /\ \A x \in Services : x # s => followers'[x] = followers[x]
         /\ \A m \in 1 .. Len(followers[s]) : m # n => followers'[s][m] = followers[s][m]
         /\ followers'[s][n].next = followers[s][n].next + 1
         /\ followers'[s][n].bound = followers[s][n].bound
         /\ followers[s][n].state # "stopping" =>
              followers'[s][n].state = followers[s][n].state
         /\ followers[s][n].state = "stopping" => followers'[s][n].state = "stopped"
         /\ followers[s][n].next \in 1 .. MaxChunks
<1> DEFINE f == followers[s][n]
           st == IF f.state = "stopping" THEN "stopped" ELSE f.state
           g == [f EXCEPT !.next = f.next + 1, !.state = st]
           h == [followers[s] EXCEPT ![n] = g]
<1>1. /\ f \in FollowerTypes /\ f.next \in Nat /\ f.next > 0
      /\ f.state \in {"running", "ended", "stopping", "stopped"}
  BY FollowerParts
<1>2. f.next <= output[s]
  BY DEF FollowerReads
<1>3. output[s] \in 0 .. MaxChunks
  BY DEF TypeOK, Channels
<1>4. f.next \in 1 .. MaxChunks /\ f.next + 1 \in 1 .. MaxChunks + 1
  <2> HIDE DEF f
  <2> PICK k \in Nat : k = f.next
    BY <1>1
  <2>1. k > 0 /\ k <= output[s]
    BY <1>1, <1>2
  <2> QED BY <1>3, <2>1, Bounds
<1>5. followers' = [followers EXCEPT ![s] = h]
  BY DEF FollowerReads, TypeOK
<1>6. st \in {"running", "ended", "stopping", "stopped"}
  BY <1>1
<1> HIDE DEF st
<1>7. /\ g \in FollowerTypes /\ g.next = f.next + 1 /\ g.state = st /\ g.bound = f.bound
  BY <1>1, <1>4, <1>6 DEF FollowerTypes
<1> HIDE DEF g
<1>8. /\ h \in Seq(FollowerTypes) /\ Len(h) = Len(followers[s]) /\ h[n] = g
      /\ \A m \in 1 .. Len(followers[s]) : m # n => h[m] = followers[s][m]
  BY <1>7, FollowerParts, ExceptSeq
<1> HIDE DEF h
<1>9. /\ followers' \in [Services -> Seq(FollowerTypes)] /\ followers'[s] = h
      /\ \A x \in Services : x # s => followers'[x] = followers[x]
  BY <1>5, <1>8 DEF TypeOK
<1> QED BY <1>4, <1>7, <1>8, <1>9 DEF st

LEMMA ReadsKeep ==
  ASSUME Inv, NEW s \in Services, NEW n \in 1 .. Len(followers[s]), FollowerReads(s, n)
  PROVE  Inv'
<1> DEFINE f == followers[s][n]
           delivers == f.bound /\ stream[s] # 0
<1>1. /\ TypeOK /\ SubscriberInv /\ StreamInv /\ AttachInv /\ WaitInv
      /\ FollowersAreRead /\ FeedInv /\ OwnInv /\ NoGapNoRepeat
  BY DEF Inv
<1>2. UNCHANGED <<backend, session, subs, channel, attached, resolving, stream, output,
                  bystander, draining>>
  BY DEF FollowerReads, requests
<1>3. Reads(f) /\ (delivers => Deliver(s, f.next))
      /\ (~delivers => UNCHANGED <<buffer, last, torn>>)
  BY DEF FollowerReads
<1>4. /\ followers' \in [Services -> Seq(FollowerTypes)]
      /\ \A x \in Services : Len(followers'[x]) = Len(followers[x])
      /\ \A x \in Services : x # s => followers'[x] = followers[x]
      /\ \A m \in 1 .. Len(followers[s]) : m # n => followers'[s][m] = followers[s][m]
      /\ followers'[s][n].next = f.next + 1
      /\ followers'[s][n].bound = f.bound
      /\ f.state # "stopping" => followers'[s][n].state = f.state
      /\ f.state = "stopping" => followers'[s][n].state = "stopped"
      /\ f.next \in 1 .. MaxChunks
  BY <1>1, ReadsParts
<1>5. s \in Channels /\ subs \subseteq Clients /\ subs' = subs
  BY <1>1, <1>2 DEF TypeOK, Channels
<1>6. /\ buffer' \in [Channels -> Seq(1 .. MaxChunks)]
      /\ \A x \in Channels : Len(buffer'[x]) <= Capacity
      /\ last' \in [Clients -> [Channels -> 0 .. MaxChunks]]
      /\ torn' \subseteq Clients \X Channels
      /\ \A x \in Channels : x # s => buffer'[x] = buffer[x]
      /\ \A c \in Clients, x \in Channels :
           x # s \/ c \notin subs => last'[c][x] = last[c][x]
      /\ \A c \in Clients, x \in Channels :
           <<c, x>> \in torn' \ torn =>
             /\ delivers /\ x = s /\ c \in subs /\ Matches(s, channel[c])
             /\ ~Continues(c, s, f.next)
  <2>1. CASE delivers
    BY <1>1, <1>3, <1>4, <1>5, <2>1, DeliverFacts
  <2>2. CASE ~delivers
    BY <1>1, <1>3, <2>2 DEF TypeOK
  <2> QED BY <2>1, <2>2
<1>7. delivers =>
        /\ LastOf(buffer'[s]) = f.next
        /\ \A c \in subs : Matches(s, channel[c]) => last'[c][s] = f.next
  BY <1>1, <1>3, <1>4, <1>5, DeliverFacts
<1>8. \A x \in Services : stream[x] # 0 => stream[x] \in 1 .. Len(followers[x])
  BY <1>1, StreamParts
<1>9. TypeOK'
  BY <1>1, <1>2, <1>4, <1>6 DEF TypeOK
<1>10. SubscriberInv'
  <2>1. \A c \in Clients : c \notin subs => \A ch \in Channels : last'[c][ch] = last[c][ch]
    BY <1>6
  <2> QED BY <1>1, <1>2, <2>1 DEF SubscriberInv
<1>11. \A x \in Services : Running(x)' = Running(x)
  BY <1>4 DEF Running
<1>12. StreamInv'
  <2>1. \A x \in Services : stream[x] # 0 =>
          session /\ followers'[x][stream[x]].state \in {"running", "ended"}
    BY <1>1, <1>4, <1>8 DEF StreamInv
  <2> QED BY <1>1, <1>2, <1>11, <2>1 DEF StreamInv
<1>13. AttachInv' /\ WaitInv'
  BY <1>1, <1>2 DEF AttachInv, WaitInv
<1>14. FollowersAreRead'
  <2>1. \A x \in Services : Interested(x, subs)' = Interested(x, subs)
    BY <1>2 DEF Interested
  <2> QED BY <1>1, <1>2, <1>11, <2>1 DEF FollowersAreRead
<1>15. OwnInv'
  <2>1. \A ch \in OwnChannels : ch \in Channels /\ ch # s
    BY Bounds DEF Channels
  <2>2. \A ch \in OwnChannels :
          buffer'[ch] = buffer[ch] /\ \A c \in subs : last'[c][ch] = last[c][ch]
    BY <1>5, <1>6, <2>1
  <2> QED BY <1>1, <1>2, <2>2 DEF OwnInv, Matches, LastOf
(* Whoever reads while the stream is fed by one follower is that follower.  *)
<1>16. s \notin bystander /\ s \notin draining /\ delivers => n = stream[s]
  BY <1>1, <1>3 DEF FeedInv, Fed
<1>17. NoGapNoRepeat'
  <2> SUFFICES ASSUME NEW c \in Clients, NEW x \in Channels, <<c, x>> \in torn',
                      x \notin bystander, x \notin draining
               PROVE  FALSE
    BY <1>2 DEF NoGapNoRepeat
  <2>1. <<c, x>> \notin torn
    BY <1>1 DEF NoGapNoRepeat
  <2>2. delivers /\ x = s /\ c \in subs /\ Matches(s, channel[c]) /\ ~Continues(c, s, f.next)
    BY <1>6, <2>1
  <2>3. n = stream[s] /\ Fed(s)
    BY <1>1, <1>16, <2>2 DEF FeedInv
  <2>4. last[c][s] \in {0, f.next - 1}
    BY <2>2, <2>3 DEF Fed
  <2>5. f.next \in Nat
    BY <1>4, Bounds
  <2> HIDE DEF f
  <2>6. last[c][s] = 0 \/ f.next = last[c][s] + 1
    BY <2>4, <2>5
  <2> QED BY <2>2, <2>6 DEF Continues
<1>18. FeedInv'
  <2> SUFFICES ASSUME NEW x \in Services, x \notin bystander, x \notin draining, stream[x] # 0
               PROVE  Fed(x)'
    BY <1>2 DEF FeedInv
  <2>1. Fed(x) /\ stream[x] \in 1 .. Len(followers[x]) /\ x \in Channels
    BY <1>1, <1>8 DEF FeedInv, Channels
  <2>2. followers'[x][stream[x]].bound
    BY <1>4, <2>1 DEF Fed
  <2>3. \A m \in 1 .. Len(followers[x]) : m # stream[x] =>
          ~(Reads(followers[x][m])' /\ followers'[x][m].bound)
    BY <1>2, <1>4, <2>1 DEF Fed, Reads
  <2>4. CASE x = s /\ n = stream[s]
    <3>1. delivers
      BY <2>1, <2>4 DEF Fed
    <3>2. followers'[s][stream[s]].next - 1 = f.next
      <4>1. PICK k \in Nat : k = f.next
        BY <1>4, Bounds
      <4>2. followers'[s][stream[s]].next = k + 1
        BY <1>4, <2>4, <4>1
      <4>3. (k + 1) - 1 = k
        OBVIOUS
      <4> QED BY <4>1, <4>2, <4>3
    <3>3. /\ buffer'[s] # <<>> => LastOf(buffer'[s]) = followers'[s][stream[s]].next - 1
          /\ \A c \in subs : Matches(s, channel[c]) =>
               last'[c][s] \in {0, followers'[s][stream[s]].next - 1}
      BY <1>7, <3>1, <3>2
    <3> QED BY <1>2, <1>4, <2>2, <2>3, <2>4, <3>3 DEF Fed, Matches, LastOf
  <2>5. CASE ~(x = s /\ n = stream[s])
    <3>1. followers'[x][stream[x]] = followers[x][stream[x]]
      BY <1>4, <2>1, <2>5
    <3>2. ~(x = s /\ delivers)
      BY <1>16, <2>5
    <3>3. buffer'[x] = buffer[x] /\ \A c \in subs : last'[c][x] = last[c][x]
      BY <1>3, <1>5, <1>6, <2>1, <3>2
    <3> QED BY <1>2, <1>4, <2>1, <2>2, <2>3, <3>1, <3>3 DEF Fed, Matches, LastOf
  <2> QED BY <2>4, <2>5
<1> QED BY <1>9, <1>10, <1>12, <1>13, <1>14, <1>15, <1>17, <1>18 DEF Inv

-----------------------------------------------------------------------------
(* Subscribing: who joins a stream is given the tail of its buffer, which   *)
(* ends where its follower goes on.                                         *)

LEMMA SubscribeKeeps ==
  ASSUME Inv, NEW c \in Clients, Subscribe(c)
  PROVE  Inv'
<1>1. /\ TypeOK /\ SubscriberInv /\ StreamInv /\ AttachInv /\ WaitInv
      /\ FollowersAreRead /\ FeedInv /\ OwnInv /\ NoGapNoRepeat
  BY DEF Inv
<1>2. PICK ch \in Channels \cup {Aggregate} :
        LET replayed == Replayed(ch) \cup (OwnChannels \cap {ch})
            waits == ch = Aggregate \/ (ch \in Services /\ Replayed(ch) = {}) IN
        /\ channel[c] = None
        /\ channel' = [channel EXCEPT ![c] = ch]
        /\ subs' = subs \cup {c}
        /\ attached' = [attached EXCEPT ![c] = Replayed(ch)]
        /\ resolving' = IF waits THEN resolving \cup {c} ELSE resolving
        /\ session' = (session \/ (waits /\ ch # Aggregate))
        /\ last' = [last EXCEPT ![c] =
             [x \in Channels |-> IF x \in replayed /\ buffer[x] # <<>>
                                 THEN buffer[x][Len(buffer[x])] ELSE last[c][x]]]
        /\ UNCHANGED <<backend, stream, buffer, followers, output,
                       torn, bystander, draining>>
  BY DEF Subscribe
<1> DEFINE replayed == Replayed(ch) \cup (OwnChannels \cap {ch})
           waits == ch = Aggregate \/ (ch \in Services /\ Replayed(ch) = {})
           tail == [x \in Channels |-> IF x \in replayed /\ buffer[x] # <<>>
                                       THEN LastOf(buffer[x]) ELSE last[c][x]]
<1>3. UNCHANGED <<backend, stream, buffer, followers, output, torn, bystander, draining>>
  BY <1>2
<1>4. /\ channel' = [channel EXCEPT ![c] = ch] /\ channel[c] = None
      /\ subs' = subs \cup {c}
      /\ attached' = [attached EXCEPT ![c] = Replayed(ch)]
      /\ resolving' = IF waits THEN resolving \cup {c} ELSE resolving
      /\ session' = (session \/ (waits /\ ch # Aggregate))
      /\ last' = [last EXCEPT ![c] = tail]
  BY <1>2 DEF LastOf
<1>5. /\ Replayed(ch) \subseteq Services
      /\ \A s \in Services : s \in Replayed(ch) <=> Matches(s, ch) /\ stream[s] # 0
  BY DEF Replayed
<1>6. c \notin subs /\ c \notin resolving /\ ch # None
      /\ \A x \in Channels : last[c][x] = 0
  BY <1>1, <1>4, Bounds DEF SubscriberInv, WaitInv
<1>7. \A x \in Channels : buffer[x] # <<>> => LastOf(buffer[x]) \in 0 .. MaxChunks
  <2> SUFFICES ASSUME NEW x \in Channels, buffer[x] # <<>>
               PROVE  LastOf(buffer[x]) \in 0 .. MaxChunks
    OBVIOUS
  <2>1. buffer[x] \in Seq(1 .. MaxChunks)
    BY <1>1 DEF TypeOK
  <2>2. Len(buffer[x]) \in 1 .. Len(buffer[x])
    BY <2>1
  <2>3. LastOf(buffer[x]) \in 1 .. MaxChunks
    BY <2>1, <2>2, ElementOfSeq DEF LastOf
  <2> QED BY <2>3, Bounds
<1>8. tail \in [Channels -> 0 .. MaxChunks]
  BY <1>1, <1>7 DEF TypeOK
<1>9. \A x \in Channels : tail[x] \in {0, LastOf(buffer[x])} /\ (buffer[x] = <<>> => tail[x] = 0)
  BY <1>6
<1> HIDE DEF tail, waits, replayed
<1>10. /\ channel' \in [Clients -> Channels \cup {Aggregate, None}]
       /\ attached' \in [Clients -> SUBSET Services]
       /\ resolving' \subseteq Clients /\ subs' \subseteq Clients
       /\ last' \in [Clients -> [Channels -> 0 .. MaxChunks]]
       /\ session' \in BOOLEAN
  <2>1. session' \in BOOLEAN
    BY <1>4
  <2>2. resolving' \subseteq Clients /\ subs' \subseteq Clients
    BY <1>1, <1>4 DEF TypeOK
  <2> QED BY <1>1, <1>4, <1>5, <1>8, <2>1, <2>2 DEF TypeOK
<1>11. TypeOK'
  BY <1>1, <1>3, <1>10 DEF TypeOK
<1>12. /\ channel'[c] = ch /\ attached'[c] = Replayed(ch) /\ last'[c] = tail
       /\ \A d \in Clients : d # c =>
            channel'[d] = channel[d] /\ attached'[d] = attached[d] /\ last'[d] = last[d]
  BY <1>1, <1>4 DEF TypeOK
<1>13. subs \subseteq Clients /\ resolving \subseteq Clients
  BY <1>1 DEF TypeOK
<1>14. SubscriberInv'
  BY <1>1, <1>4, <1>6, <1>12 DEF SubscriberInv
<1>15. StreamInv'
  <2>1. session => session'
    BY <1>4
  <2> QED BY <1>1, <1>3, <2>1 DEF StreamInv, Running
<1>16. AttachInv'
  <2> SUFFICES ASSUME NEW d \in subs', NEW s \in Services,
                      channel'[d] = s, s \notin attached'[d]
               PROVE  s \in bystander \/ stream[s] = 0
    BY <1>3 DEF AttachInv
  <2>1. CASE d = c
    BY <2>1, <1>5, <1>12 DEF Matches
  <2>2. CASE d # c
    BY <2>2, <1>1, <1>4, <1>12, <1>13 DEF AttachInv
  <2> QED BY <2>1, <2>2
<1>17. WaitInv'
  <2> SUFFICES ASSUME NEW d \in resolving'
               PROVE  /\ channel'[d] # None
                      /\ channel'[d] \in Services => channel'[d] \notin attached'[d]
    BY DEF WaitInv
  <2>1. CASE d = c
    <3>1. waits
      BY <2>1, <1>4, <1>6
    <3>2. ch \in Services => Replayed(ch) = {}
      BY <3>1, Bounds DEF waits, Channels
    <3> QED BY <2>1, <3>2, <1>6, <1>12
  <2>2. CASE d # c
    BY <2>2, <1>1, <1>4, <1>12, <1>13 DEF WaitInv
  <2> QED BY <2>1, <2>2
<1>18. FollowersAreRead'
  <2>1. ASSUME NEW s \in Services, Interested(s, subs) PROVE Interested(s, subs)'
    <3>1. PICK d \in subs : channel[d] = s \/ (channel[d] = Aggregate /\ s \in attached[d])
      BY <2>1 DEF Interested
    <3>2. d # c /\ d \in Clients /\ d \in subs'
      BY <1>4, <1>6, <1>13
    <3> QED BY <1>12, <3>1, <3>2 DEF Interested
  <2> QED BY <1>1, <1>3, <2>1 DEF FollowersAreRead, Running
<1>19. FeedInv'
  <2> SUFFICES ASSUME NEW s \in Services, s \notin bystander, s \notin draining, stream[s] # 0
               PROVE  Fed(s)'
    BY <1>3 DEF FeedInv
  <2>1. Fed(s) /\ s \in Channels
    BY <1>1 DEF FeedInv, Channels
  <2> DEFINE p == followers[s][stream[s]].next - 1
  <2>2. \A d \in subs' : Matches(s, channel'[d]) => last'[d][s] \in {0, p}
    <3> SUFFICES ASSUME NEW d \in subs', Matches(s, channel'[d])
                 PROVE  last'[d][s] \in {0, p}
      OBVIOUS
    <3>1. CASE d = c
      BY <3>1, <2>1, <1>9, <1>12 DEF Fed
    <3>2. CASE d # c
      BY <3>2, <2>1, <1>4, <1>12, <1>13 DEF Fed
    <3> QED BY <3>1, <3>2
  <2> QED BY <1>3, <2>1, <2>2 DEF Fed, Reads, Matches, LastOf
<1>20. OwnInv'
  <2> SUFFICES ASSUME NEW x \in OwnChannels, NEW d \in subs', Matches(x, channel'[d])
               PROVE  last'[d][x] \in {0, output[x]}
    BY <1>1, <1>3 DEF OwnInv, LastOf, Matches
  <2>1. x \in Channels
    BY DEF Channels
  <2>2. CASE d = c
    BY <2>1, <2>2, <1>1, <1>9, <1>12 DEF OwnInv
  <2>3. CASE d # c
    BY <2>3, <1>1, <1>4, <1>12, <1>13 DEF OwnInv
  <2> QED BY <2>2, <2>3
<1>21. NoGapNoRepeat'
  BY <1>1, <1>3 DEF NoGapNoRepeat
<1> QED BY <1>11, <1>14, <1>15, <1>16, <1>17, <1>18, <1>19, <1>20, <1>21 DEF Inv

LEMMA NothingKeeps ==
  ASSUME Inv, NEW c \in Clients, ResolvesToNothing(c)
  PROVE  Inv'
<1>1. /\ UNCHANGED <<backend, session, subs, channel, attached, stream, buffer, followers,
                     output, last, torn, bystander, draining>>
      /\ resolving' \subseteq resolving
  BY DEF ResolvesToNothing, registry, history
<1>2. TypeOK' /\ WaitInv'
  BY <1>1 DEF Inv, TypeOK, WaitInv
<1>3. SubscriberInv' /\ StreamInv' /\ AttachInv' /\ NoGapNoRepeat' /\ OwnInv'
  BY <1>1 DEF Inv, SubscriberInv, StreamInv, AttachInv, NoGapNoRepeat, OwnInv, Running,
              Matches, LastOf
<1>4. FollowersAreRead' /\ FeedInv'
  BY <1>1 DEF Inv, FollowersAreRead, FeedInv, Fed, Running, Interested, Reads, Matches, LastOf
<1> QED BY <1>2, <1>3, <1>4 DEF Inv

(* The streams a resolver starts are new, but for those of a bystander:     *)
(* nothing runs for them, and no client was given anything of them.         *)
LEMMA StartKeeps ==
  ASSUME Inv, NEW c \in subs, NEW wanted \in SUBSET Services, NEW followed \in SUBSET wanted,
         NEW added \in SUBSET Services, wanted \subseteq added,
         \A s \in wanted : s \in bystander \/ stream[s] = 0,
         \A s \in wanted : channel[c] = s \/ channel[c] = Aggregate,
         resolving' = resolving \ {c},
         attached' \in [Clients -> SUBSET Services],
         attached'[c] = attached[c] \cup added,
         \A d \in Clients : d # c => attached'[d] = attached[d],
         StartStreams(wanted, followed),
         UNCHANGED <<subs, backend, channel, output>>
  PROVE  Inv'
<1>1. /\ TypeOK /\ SubscriberInv /\ StreamInv /\ AttachInv /\ WaitInv
      /\ FollowersAreRead /\ FeedInv /\ OwnInv /\ NoGapNoRepeat
  BY DEF Inv
<1>2. /\ subs \subseteq Clients /\ resolving \subseteq Clients
      /\ c \in Clients /\ subs' = subs
      /\ \A s \in Services : s \in Channels
  BY <1>1 DEF TypeOK, Channels
<1>3. /\ session' = TRUE
      /\ followers' = [s \in Services |->
           IF s \in followed THEN Append(followers[s], NewFollower(s)) ELSE followers[s]]
      /\ stream' = [s \in Services |->
           CASE s \in followed          -> Len(followers[s]) + 1
             [] s \in wanted \ followed -> 0
             [] OTHER                   -> stream[s]]
      /\ buffer' = [ch \in Channels |-> IF ch \in wanted THEN <<>> ELSE buffer[ch]]
      /\ last' = [d \in Clients |-> [ch \in Channels |->
           IF ch \in wanted /\ stream[ch] = 0 THEN 0 ELSE last[d][ch]]]
      /\ bystander' = bystander \cup {s \in followed : \E d \in subs :
           channel[d] = s /\ s \notin attached[d] /\ attached'[d] = attached[d]}
      /\ draining' = draining \cup {s \in followed :
           backend = "shell" /\ \E n \in 1 .. Len(followers[s]) :
                                  /\ followers[s][n].state = "stopping"
                                  /\ followers[s][n].bound}
      /\ torn' = torn
  BY DEF StartStreams
<1>4. \A s \in Services :
        /\ followers[s] \in Seq(FollowerTypes) /\ Len(followers[s]) \in Nat
        /\ stream[s] \in Nat /\ stream[s] <= Len(followers[s])
  BY <1>1 DEF TypeOK
<1>5. \A s \in Services :
        /\ NewFollower(s) \in FollowerTypes
        /\ NewFollower(s).bound = TRUE /\ NewFollower(s).state = "running"
  <2> SUFFICES ASSUME NEW s \in Services
               PROVE  /\ NewFollower(s) \in FollowerTypes
                      /\ NewFollower(s).bound = TRUE /\ NewFollower(s).state = "running"
    OBVIOUS
  <2> DEFINE k == IF output[s] > TailLines THEN output[s] - TailLines + 1 ELSE 1
  <2>1. output[s] \in 0 .. MaxChunks
    BY <1>1, <1>2 DEF TypeOK
  <2>2. k \in 1 .. MaxChunks + 1
    BY <2>1, Bounds
  <2> HIDE DEF k
  <2>3. NewFollower(s) = [next |-> k, bound |-> TRUE, state |-> "running"]
    BY DEF NewFollower, k
  <2> QED BY <2>2, <2>3 DEF FollowerTypes
<1>6. \A s \in followed :
        /\ s \in Services
        /\ followers'[s] \in Seq(FollowerTypes)
        /\ Len(followers'[s]) = Len(followers[s]) + 1
        /\ followers'[s][Len(followers[s]) + 1] = NewFollower(s)
        /\ \A n \in 1 .. Len(followers[s]) : followers'[s][n] = followers[s][n]
        /\ stream'[s] = Len(followers[s]) + 1
  <2> SUFFICES ASSUME NEW s \in followed
               PROVE  /\ s \in Services
                      /\ followers'[s] \in Seq(FollowerTypes)
                      /\ Len(followers'[s]) = Len(followers[s]) + 1
                      /\ followers'[s][Len(followers[s]) + 1] = NewFollower(s)
                      /\ \A n \in 1 .. Len(followers[s]) : followers'[s][n] = followers[s][n]
                      /\ stream'[s] = Len(followers[s]) + 1
    OBVIOUS
  <2>1. s \in Services
    OBVIOUS
  <2>2. followers'[s] = Append(followers[s], NewFollower(s))
    BY <1>3, <2>1
  <2>3. stream'[s] = Len(followers[s]) + 1
    BY <1>3, <2>1
  <2> QED BY <1>4, <1>5, <2>1, <2>2, <2>3, AppendProperties
<1>7. \A s \in Services \ followed :
        /\ followers'[s] = followers[s]
        /\ s \in wanted => stream'[s] = 0
        /\ s \notin wanted => stream'[s] = stream[s]
  BY <1>3
<1>8. \A x \in Channels : /\ x \in wanted => buffer'[x] = <<>>
                          /\ x \notin wanted => buffer'[x] = buffer[x]
  BY <1>3
<1>9. \A d \in Clients, x \in Channels :
        /\ x \in wanted /\ stream[x] = 0 => last'[d][x] = 0
        /\ ~(x \in wanted /\ stream[x] = 0) => last'[d][x] = last[d][x]
  BY <1>3
<1>10. \A s \in followed : stream'[s] \in Nat /\ stream'[s] <= Len(followers'[s])
  BY <1>4, <1>6
<1>11. TypeOK'
  <2>1. followers' \in [Services -> Seq(FollowerTypes)]
    <3>1. \A s \in Services : followers'[s] \in Seq(FollowerTypes)
      BY <1>4, <1>6, <1>7
    <3>2. followers' = [s \in Services |-> followers'[s]]
      BY <1>3
    <3> QED BY <3>1, <3>2
  <2>2. /\ stream' \in [Services -> Nat]
        /\ \A s \in Services : stream'[s] <= Len(followers'[s])
    <3>1. \A s \in Services : stream'[s] \in Nat /\ stream'[s] <= Len(followers'[s])
      BY <1>4, <1>7, <1>10
    <3>2. stream' = [s \in Services |-> stream'[s]]
      BY <1>3
    <3> QED BY <3>1, <3>2
  <2>3. /\ buffer' \in [Channels -> Seq(1 .. MaxChunks)]
        /\ \A x \in Channels : Len(buffer'[x]) <= Capacity
    <3>1. \A x \in Channels : buffer'[x] \in Seq(1 .. MaxChunks) /\ Len(buffer'[x]) <= Capacity
      <4>1. <<>> \in Seq(1 .. MaxChunks) /\ Len(<<>>) = 0
        OBVIOUS
      <4>2. Capacity \in Nat
        BY Bounds
      <4>3. 0 <= Capacity
        BY <4>2
      <4>4. \A x \in Channels : buffer[x] \in Seq(1 .. MaxChunks) /\ Len(buffer[x]) <= Capacity
        BY <1>1 DEF TypeOK
      <4> QED BY <1>8, <4>1, <4>3, <4>4
    <3>2. buffer' = [x \in Channels |-> buffer'[x]]
      BY <1>3
    <3> QED BY <3>1, <3>2
  <2>4. last' \in [Clients -> [Channels -> 0 .. MaxChunks]]
    BY <1>1, <1>3, Bounds DEF TypeOK
  <2>5. bystander' \subseteq Services /\ draining' \subseteq Services
    BY <1>1, <1>3 DEF TypeOK
  <2>6. resolving' \subseteq Clients /\ session' \in BOOLEAN
    BY <1>2, <1>3
  <2> QED BY <1>1, <1>3, <2>1, <2>2, <2>3, <2>4, <2>5, <2>6 DEF TypeOK
<1>12. SubscriberInv'
  BY <1>1, <1>2, <1>9 DEF SubscriberInv
<1>13. WaitInv'
  BY <1>1, <1>2 DEF WaitInv
(* Nothing runs for a service that is started without a bystander.          *)
<1>14. \A s \in wanted : s \notin bystander => stream[s] = 0 /\ Running(s) = {}
  <2> SUFFICES ASSUME NEW s \in wanted, s \notin bystander PROVE stream[s] = 0 /\ Running(s) = {}
    OBVIOUS
  <2>1. stream[s] = 0
    OBVIOUS
  <2>2. Running(s) \subseteq {stream[s]} /\ 0 \notin Running(s)
    BY <1>1, StreamParts DEF StreamInv
  <2> QED BY <2>1, <2>2
<1>15. bystander \subseteq bystander' /\ draining \subseteq draining'
  BY <1>3
<1>16. \A s \in Services \ followed : Running(s)' = Running(s)
  BY <1>7 DEF Running
<1>17. \A s \in followed : s \notin bystander => Running(s)' \subseteq {stream'[s]}
  <2> SUFFICES ASSUME NEW s \in followed, s \notin bystander, NEW n \in Running(s)'
               PROVE  n = stream'[s]
    OBVIOUS
  <2>1. n \in 1 .. Len(followers'[s]) /\ followers'[s][n].state = "running"
    BY DEF Running
  <2>2. CASE n \in 1 .. Len(followers[s])
    BY <2>1, <2>2, <1>6, <1>14 DEF Running
  <2>3. CASE n = Len(followers[s]) + 1
    BY <2>3, <1>6
  <2>4. n \in 1 .. Len(followers[s]) \/ n = Len(followers[s]) + 1
    <3>1. Len(followers[s]) \in Nat /\ Len(followers'[s]) = Len(followers[s]) + 1
      BY <1>4, <1>6
    <3> QED BY <2>1, <3>1
  <2> QED BY <2>2, <2>3, <2>4
<1>18. StreamInv'
  <2> SUFFICES ASSUME NEW s \in Services
               PROVE  /\ stream'[s] # 0 =>
                           session' /\ followers'[s][stream'[s]].state \in {"running", "ended"}
                      /\ s \notin bystander' => Running(s)' \subseteq {stream'[s]}
    BY DEF StreamInv
  <2>1. CASE s \in followed
    BY <2>1, <1>3, <1>5, <1>6, <1>15, <1>17
  <2>2. CASE s \in wanted \ followed
    BY <2>2, <1>7, <1>14, <1>15, <1>16
  <2>3. CASE s \notin wanted
    BY <2>3, <1>1, <1>3, <1>7, <1>15, <1>16 DEF StreamInv
  <2> QED BY <2>1, <2>2, <2>3
<1>19. AttachInv'
  <2> SUFFICES ASSUME NEW d \in subs, NEW s \in Services, channel[d] = s, s \notin attached'[d],
                      s \notin bystander'
               PROVE  stream'[s] = 0
    BY <1>2 DEF AttachInv
  <2>1. d \in Clients /\ s \notin attached[d]
    BY <1>2
  <2>2. stream[s] = 0
    BY <1>1, <1>15, <2>1 DEF AttachInv
  <2>3. s \notin followed
    <3>1. SUFFICES ASSUME s \in followed PROVE FALSE
      OBVIOUS
    <3>2. d # c
      BY <3>1
    <3> QED BY <1>3, <2>1, <3>1, <3>2
  <2> QED BY <1>7, <2>2, <2>3
<1>20. FollowersAreRead'
  <2> SUFFICES ASSUME NEW s \in Services, s \notin bystander', Running(s)' # {}
               PROVE  Interested(s, subs)'
    BY <1>2 DEF FollowersAreRead
  <2>1. CASE s \in wanted
    <3>1. channel'[c] = s \/ (channel'[c] = Aggregate /\ s \in attached'[c])
      BY <2>1
    <3> QED BY <1>2, <3>1 DEF Interested
  <2>2. CASE s \notin wanted
    <3>1. Interested(s, subs)
      BY <2>2, <1>1, <1>15, <1>16 DEF FollowersAreRead
    <3>2. PICK d \in subs : channel[d] = s \/ (channel[d] = Aggregate /\ s \in attached[d])
      BY <3>1 DEF Interested
    <3>3. attached[d] \subseteq attached'[d]
      BY <1>2
    <3> QED BY <1>2, <3>2, <3>3 DEF Interested
  <2> QED BY <2>1, <2>2
<1>21. FeedInv'
  <2> SUFFICES ASSUME NEW s \in Services, s \notin bystander', s \notin draining', stream'[s] # 0
               PROVE  Fed(s)'
    BY DEF FeedInv
  <2>1. s \in Channels /\ s \notin bystander /\ s \notin draining
    BY <1>2, <1>15
  <2>2. CASE s \in followed
    <3>1. stream[s] = 0 /\ Running(s) = {}
      BY <2>1, <2>2, <1>14
    <3>2. followers'[s][stream'[s]].bound
      BY <2>2, <1>5, <1>6
    <3>3. \A n \in 1 .. Len(followers'[s]) : n # stream'[s] => n \in 1 .. Len(followers[s])
      <4>1. Len(followers[s]) \in Nat /\ Len(followers'[s]) = Len(followers[s]) + 1
            /\ stream'[s] = Len(followers[s]) + 1
        BY <2>2, <1>4, <1>6
      <4> QED BY <4>1
    <3>4. ASSUME NEW n \in 1 .. Len(followers'[s]), n # stream'[s],
                 Reads(followers[s][n]), followers[s][n].bound
          PROVE  FALSE
      <4>1. n \in 1 .. Len(followers[s])
        BY <3>3, <3>4
      <4>2. followers[s][n].state # "running"
        BY <3>1, <4>1 DEF Running
      <4>3. followers[s][n].state = "stopping" /\ backend = "shell"
        BY <3>4, <4>2 DEF Reads
      <4> QED BY <1>3, <2>2, <3>4, <4>1, <4>3
    <3>5. \A n \in 1 .. Len(followers'[s]) : n # stream'[s] =>
            ~(Reads(followers[s][n])' /\ followers'[s][n].bound)
      BY <1>6, <2>2, <3>3, <3>4 DEF Reads
    <3>6. buffer'[s] = <<>> /\ \A d \in subs : last'[d][s] = 0
      BY <1>2, <1>8, <1>9, <2>1, <2>2, <3>1
    <3> QED BY <1>2, <3>2, <3>5, <3>6 DEF Fed, Reads
  <2>3. CASE s \notin followed
    <3>1. s \notin wanted /\ stream'[s] = stream[s] /\ followers'[s] = followers[s]
      BY <2>3, <1>7
    <3>2. buffer'[s] = buffer[s] /\ \A d \in subs : last'[d][s] = last[d][s]
      BY <1>2, <1>8, <1>9, <2>1, <3>1
    <3>3. Fed(s)
      BY <1>1, <2>1, <3>1 DEF FeedInv
    <3> QED BY <1>2, <3>1, <3>2, <3>3 DEF Fed, Reads, Matches, LastOf
  <2> QED BY <2>2, <2>3
<1>22. OwnInv'
  <2>1. \A x \in OwnChannels : x \in Channels /\ x \notin wanted
    BY Bounds DEF Channels
  <2>2. \A x \in OwnChannels :
          buffer'[x] = buffer[x] /\ \A d \in subs : last'[d][x] = last[d][x]
    BY <1>2, <1>8, <1>9, <2>1
  <2> QED BY <1>1, <1>2, <2>2 DEF OwnInv, Matches, LastOf
<1>23. NoGapNoRepeat'
  BY <1>1, <1>3, <1>15 DEF NoGapNoRepeat
<1> QED BY <1>11, <1>12, <1>13, <1>18, <1>19, <1>20, <1>21, <1>22, <1>23 DEF Inv

LEMMA ResolvesKeep ==
  ASSUME Inv, NEW c \in Clients, ResolvesService(c) \/ ResolvesAggregate(c)
  PROVE  Inv'
<1>1. TypeOK /\ AttachInv /\ WaitInv
  BY DEF Inv
<1>2. CASE ResolvesService(c)
  <2>1. PICK followed \in SUBSET {channel[c]} :
          /\ c \in resolving /\ c \in subs /\ channel[c] \in Services
          /\ resolving' = resolving \ {c}
          /\ attached' = [attached EXCEPT ![c] = attached[c] \cup {channel[c]}]
          /\ StartStreams({channel[c]}, followed)
          /\ UNCHANGED <<subs, backend, channel, output>>
    BY <1>2 DEF ResolvesService
  <2>2. PICK s \in Services : s = channel[c]
    BY <2>1
  <2>3. s \in bystander \/ stream[s] = 0
    BY <1>1, <2>1, <2>2 DEF AttachInv, WaitInv
  <2>4. /\ attached' \in [Clients -> SUBSET Services]
        /\ attached'[c] = attached[c] \cup {s}
        /\ \A d \in Clients : d # c => attached'[d] = attached[d]
    BY <1>1, <2>1, <2>2 DEF TypeOK
  <2>5. /\ {s} \in SUBSET Services /\ followed \in SUBSET {s}
        /\ \A x \in {s} : x \in bystander \/ stream[x] = 0
        /\ \A x \in {s} : channel[c] = x \/ channel[c] = Aggregate
        /\ StartStreams({s}, followed)
    BY <2>1, <2>2, <2>3
  <2> QED BY <2>1, <2>4, <2>5, StartKeeps
<1>3. CASE ResolvesAggregate(c)
  <2>1. PICK services \in SUBSET Services :
          LET wanted == {s \in services : stream[s] = 0} IN
          \E followed \in SUBSET wanted :
            /\ c \in resolving /\ c \in subs /\ channel[c] = Aggregate
            /\ resolving' = resolving \ {c}
            /\ attached' = [attached EXCEPT ![c] = attached[c] \cup services]
            /\ StartStreams(wanted, followed)
            /\ UNCHANGED <<subs, backend, channel, output>>
    BY <1>3 DEF ResolvesAggregate
  <2>2. PICK wanted \in SUBSET services : wanted = {s \in services : stream[s] = 0}
    OBVIOUS
  <2>3. PICK followed \in SUBSET wanted :
          /\ c \in resolving /\ c \in subs /\ channel[c] = Aggregate
          /\ resolving' = resolving \ {c}
          /\ attached' = [attached EXCEPT ![c] = attached[c] \cup services]
          /\ StartStreams(wanted, followed)
          /\ UNCHANGED <<subs, backend, channel, output>>
    BY <2>1, <2>2
  <2>4. /\ attached' \in [Clients -> SUBSET Services]
        /\ attached'[c] = attached[c] \cup services
        /\ \A d \in Clients : d # c => attached'[d] = attached[d]
    BY <1>1, <2>3 DEF TypeOK
  <2>5. /\ wanted \in SUBSET Services /\ wanted \subseteq services
        /\ \A x \in wanted : stream[x] = 0
    BY <2>2
  <2> QED BY <2>3, <2>4, <2>5, StartKeeps
<1> QED BY <1>2, <1>3

-----------------------------------------------------------------------------
(* Leaving, and the operations that end streams.                            *)

LEMMA EndParts ==
  ASSUME TypeOK, StreamInv, NEW ended \in SUBSET Services, NEW keeps \in BOOLEAN,
         EndStreams(ended, keeps)
  PROVE  /\ stream' \in [Services -> Nat]
         /\ followers' \in [Services -> Seq(FollowerTypes)]
         /\ \A s \in Services :
              /\ Len(followers'[s]) = Len(followers[s])
              /\ s \in ended => stream'[s] = 0
              /\ s \notin ended => stream'[s] = stream[s] /\ Running(s)' = Running(s)
              /\ s \notin ended /\ keeps => \A n \in 1 .. Len(followers[s]) :
                   /\ followers'[s][n].next = followers[s][n].next
                   /\ followers'[s][n].bound = followers[s][n].bound
                   /\ followers'[s][n].state = followers[s][n].state
              /\ s \in ended /\ s \notin bystander => Running(s)' = {}
<1> DEFINE st(s, n) == IF s \in ended /\ n = stream[s] /\ followers[s][n].state = "running"
                       THEN "stopping" ELSE followers[s][n].state
           g(s, n) == [followers[s][n] EXCEPT !.bound = followers[s][n].bound /\ keeps,
                                              !.state = st(s, n)]
<1>1. /\ stream' = [s \in Services |-> IF s \in ended THEN 0 ELSE stream[s]]
      /\ followers' = [s \in Services |-> [n \in 1 .. Len(followers[s]) |-> g(s, n)]]
  BY DEF EndStreams
<1>2. \A s \in Services : Len(followers[s]) \in Nat /\ stream[s] \in Nat
  BY StreamParts
<1>3. stream' \in [Services -> Nat]
  BY <1>1, <1>2
<1>4. ASSUME NEW s \in Services, NEW n \in 1 .. Len(followers[s])
      PROVE  /\ g(s, n) \in FollowerTypes
             /\ g(s, n).next = followers[s][n].next
             /\ keeps => g(s, n).bound = followers[s][n].bound
             /\ g(s, n).state = st(s, n)
  <2>1. followers[s][n] \in FollowerTypes /\ followers[s][n].bound \in BOOLEAN
    BY FollowerParts
  <2>2. followers[s][n].state \in {"running", "ended", "stopping", "stopped"}
    BY FollowerParts
  <2>3. st(s, n) \in {"running", "ended", "stopping", "stopped"}
    BY <2>2
  <2> HIDE DEF st
  <2>4. (followers[s][n].bound /\ keeps) \in BOOLEAN
    OBVIOUS
  <2> QED BY <2>1, <2>3, <2>4 DEF FollowerTypes
<1> HIDE DEF g
<1>5. \A s \in Services :
        /\ followers'[s] \in Seq(FollowerTypes)
        /\ Len(followers'[s]) = Len(followers[s])
        /\ \A n \in 1 .. Len(followers[s]) : followers'[s][n] = g(s, n)
  <2> SUFFICES ASSUME NEW s \in Services
               PROVE  /\ followers'[s] \in Seq(FollowerTypes)
                      /\ Len(followers'[s]) = Len(followers[s])
                      /\ \A n \in 1 .. Len(followers[s]) : followers'[s][n] = g(s, n)
    OBVIOUS
  <2>1. followers'[s] = [n \in 1 .. Len(followers[s]) |-> g(s, n)]
    BY <1>1
  <2>2. \A n \in 1 .. Len(followers[s]) : g(s, n) \in FollowerTypes
    BY <1>4
  <2> QED BY <1>2, <2>1, <2>2
<1>6. followers' \in [Services -> Seq(FollowerTypes)]
  <2>1. followers' = [s \in Services |-> followers'[s]]
    BY <1>1
  <2> QED BY <1>5, <2>1
<1>7. \A s \in Services : \A n \in 1 .. Len(followers[s]) : followers'[s][n].state = st(s, n)
  BY <1>4, <1>5
<1>8. \A s \in Services : s \notin ended => stream'[s] = stream[s] /\ Running(s)' = Running(s)
  BY <1>1, <1>5, <1>7 DEF Running
<1>9. ASSUME NEW s \in ended, s \notin bystander
      PROVE  Running(s)' = {}
  <2> SUFFICES ASSUME NEW n \in Running(s)' PROVE FALSE
    OBVIOUS
  <2>1. s \in Services /\ n \in 1 .. Len(followers[s]) /\ st(s, n) = "running"
    BY <1>5, <1>7 DEF Running
  <2>2. n \in Running(s)
    BY <2>1 DEF Running
  <2>3. n = stream[s]
    BY <1>9, <2>1, <2>2 DEF StreamInv
  <2> QED BY <2>1, <2>3
<1>10. \A s \in ended : stream'[s] = 0
  BY <1>1
<1> QED BY <1>3, <1>4, <1>5, <1>6, <1>7, <1>8, <1>9, <1>10

LEMMA EmptyBuffer ==
  /\ <<>> \in Seq(1 .. MaxChunks) /\ Len(<<>>) <= Capacity
<1>1. <<>> \in Seq(1 .. MaxChunks) /\ Len(<<>>) = 0
  OBVIOUS
<1> QED BY <1>1, Bounds

(* The last subscriber to leave stops the stream it was attached to, and    *)
(* the subscriber to a followed service is attached to it.                  *)
LEMMA UnsubscribeKeeps ==
  ASSUME Inv, NEW c \in Clients, Unsubscribe(c)
  PROVE  Inv'
<1>1. /\ TypeOK /\ SubscriberInv /\ StreamInv /\ AttachInv /\ WaitInv
      /\ FollowersAreRead /\ FeedInv /\ OwnInv /\ NoGapNoRepeat
  BY DEF Inv
<1>0. PICK ended : ended = IF session THEN {s \in attached[c] : ~Interested(s, subs \ {c})}
                                      ELSE {}
  OBVIOUS
<1>2. /\ subs' = subs \ {c}
      /\ EndStreams(ended, TRUE)
      /\ buffer' = [ch \in Channels |-> IF ch \in ended THEN <<>> ELSE buffer[ch]]
      /\ last' = [d \in Clients |-> [ch \in Channels |-> IF d \in {c} THEN 0 ELSE last[d][ch]]]
      /\ UNCHANGED <<session, attached, backend, channel, resolving, output,
                     torn, bystander, draining>>
  BY <1>0 DEF Unsubscribe, Forget, requests
<1>3. /\ subs \subseteq Clients /\ attached[c] \subseteq Services
      /\ \A s \in Services : s \in Channels
  BY <1>1 DEF TypeOK, Channels
<1>4. ended \in SUBSET Services
  BY <1>0, <1>3
<1>5. \A s \in attached[c] : session /\ s \notin ended => Interested(s, subs \ {c})
  BY <1>0
<1>6. /\ stream' \in [Services -> Nat]
      /\ followers' \in [Services -> Seq(FollowerTypes)]
      /\ \A s \in Services :
           /\ Len(followers'[s]) = Len(followers[s])
           /\ s \in ended => stream'[s] = 0
           /\ s \notin ended => stream'[s] = stream[s] /\ Running(s)' = Running(s)
           /\ s \notin ended => \A n \in 1 .. Len(followers[s]) :
                /\ followers'[s][n].next = followers[s][n].next
                /\ followers'[s][n].bound = followers[s][n].bound
                /\ followers'[s][n].state = followers[s][n].state
           /\ s \in ended /\ s \notin bystander => Running(s)' = {}
  <2>1. PICK keeps \in BOOLEAN : keeps = TRUE
    OBVIOUS
  <2>2. EndStreams(ended, keeps)
    BY <1>2, <2>1
  <2>3. /\ stream' \in [Services -> Nat]
        /\ followers' \in [Services -> Seq(FollowerTypes)]
        /\ \A s \in Services :
             /\ Len(followers'[s]) = Len(followers[s])
             /\ s \in ended => stream'[s] = 0
             /\ s \notin ended => stream'[s] = stream[s] /\ Running(s)' = Running(s)
             /\ s \notin ended /\ keeps => \A n \in 1 .. Len(followers[s]) :
                  /\ followers'[s][n].next = followers[s][n].next
                  /\ followers'[s][n].bound = followers[s][n].bound
                  /\ followers'[s][n].state = followers[s][n].state
             /\ s \in ended /\ s \notin bystander => Running(s)' = {}
    BY <1>1, <1>4, <2>2, EndParts
  <2> QED BY <2>1, <2>3
<1>7. \A s \in Services : /\ Len(followers[s]) \in Nat /\ stream[s] <= Len(followers[s])
                          /\ stream[s] # 0 => stream[s] \in 1 .. Len(followers[s])
                          /\ 0 \notin Running(s)
  BY <1>1, StreamParts DEF TypeOK
<1>8. /\ \A x \in Channels : x \notin ended => buffer'[x] = buffer[x]
      /\ \A d \in Clients, x \in Channels : d # c => last'[d][x] = last[d][x]
      /\ \A x \in Channels : last'[c][x] = 0
  BY <1>2
<1>9. TypeOK'
  <2>1. \A s \in Services : stream'[s] <= Len(followers'[s])
    BY <1>6, <1>7
  <2>2. /\ buffer' \in [Channels -> Seq(1 .. MaxChunks)]
        /\ \A x \in Channels : Len(buffer'[x]) <= Capacity
    BY <1>1, <1>2, EmptyBuffer DEF TypeOK
  <2>3. last' \in [Clients -> [Channels -> 0 .. MaxChunks]]
    BY <1>1, <1>2, Bounds DEF TypeOK
  <2>4. subs' \subseteq Clients
    BY <1>2, <1>3
  <2> QED BY <1>1, <1>2, <1>6, <2>1, <2>2, <2>3, <2>4 DEF TypeOK
<1>10. SubscriberInv'
  BY <1>1, <1>2, <1>8 DEF SubscriberInv
<1>11. StreamInv'
  <2> SUFFICES ASSUME NEW s \in Services
               PROVE  /\ stream'[s] # 0 =>
                           session /\ followers'[s][stream'[s]].state \in {"running", "ended"}
                      /\ s \notin bystander => Running(s)' \subseteq {stream'[s]}
    BY <1>2 DEF StreamInv
  <2>1. CASE s \in ended
    BY <2>1, <1>6
  <2>2. CASE s \notin ended
    BY <2>2, <1>1, <1>6, <1>7 DEF StreamInv
  <2> QED BY <2>1, <2>2
<1>12. AttachInv' /\ WaitInv'
  <2>1. \A s \in Services : stream[s] = 0 => stream'[s] = 0
    BY <1>6
  <2> QED BY <1>1, <1>2, <2>1 DEF AttachInv, WaitInv
<1>13. FollowersAreRead'
  <2> SUFFICES ASSUME NEW s \in Services, s \notin bystander, Running(s)' # {}
               PROVE  Interested(s, subs \ {c})
    BY <1>2 DEF FollowersAreRead, Interested
  <2>1. s \notin ended /\ Running(s) # {}
    BY <1>6
  <2>2. stream[s] # 0 /\ session
    BY <1>1, <1>7, <2>1 DEF StreamInv
  <2>3. PICK d \in subs : channel[d] = s \/ (channel[d] = Aggregate /\ s \in attached[d])
    BY <1>1, <2>1 DEF FollowersAreRead, Interested
  <2>4. CASE d # c
    BY <2>3, <2>4 DEF Interested
  <2>5. CASE d = c
    <3>1. s \in attached[c]
      BY <1>1, <2>2, <2>3, <2>5 DEF AttachInv
    <3> QED BY <1>5, <2>1, <2>2, <3>1
  <2> QED BY <2>4, <2>5
<1>14. FeedInv'
  <2> SUFFICES ASSUME NEW s \in Services, s \notin bystander, s \notin draining, stream'[s] # 0
               PROVE  Fed(s)'
    BY <1>2 DEF FeedInv
  <2>1. s \notin ended /\ stream'[s] = stream[s] /\ s \in Channels
    BY <1>3, <1>6
  <2>2. Fed(s) /\ stream[s] \in 1 .. Len(followers[s])
    BY <1>1, <1>7, <2>1 DEF FeedInv
  <2>3. \A n \in 1 .. Len(followers'[s]) :
          /\ followers'[s][n].next = followers[s][n].next
          /\ followers'[s][n].bound = followers[s][n].bound
          /\ followers'[s][n].state = followers[s][n].state
          /\ n \in 1 .. Len(followers[s])
    BY <1>6, <2>1
  <2>4. \A n \in 1 .. Len(followers'[s]) : n # stream[s] =>
          ~(Reads(followers[s][n])' /\ followers'[s][n].bound)
    BY <1>2, <2>2, <2>3 DEF Fed, Reads
  <2>5. /\ followers'[s][stream[s]].bound
        /\ followers'[s][stream[s]].next = followers[s][stream[s]].next
    BY <1>6, <2>1, <2>2 DEF Fed
  <2>6. buffer'[s] = buffer[s] /\ \A d \in subs' : d \in subs /\ last'[d][s] = last[d][s]
    BY <1>2, <1>3, <1>8, <2>1
  <2> QED BY <1>2, <2>1, <2>2, <2>4, <2>5, <2>6 DEF Fed, Reads, Matches, LastOf
<1>15. OwnInv'
  <2>1. \A x \in OwnChannels : x \in Channels /\ x \notin ended
    BY <1>4, Bounds DEF Channels
  <2>2. \A x \in OwnChannels :
          buffer'[x] = buffer[x] /\ \A d \in subs' : d \in subs /\ last'[d][x] = last[d][x]
    BY <1>2, <1>3, <1>8, <2>1
  <2> QED BY <1>1, <1>2, <2>2 DEF OwnInv, Matches, LastOf
<1>16. NoGapNoRepeat'
  BY <1>1, <1>2 DEF NoGapNoRepeat
<1> QED BY <1>9, <1>10, <1>11, <1>12, <1>13, <1>14, <1>15, <1>16 DEF Inv

(* Without a stream there is nothing left to say of the followers.          *)
LEMMA AllStreamsEnd ==
  ASSUME Inv, NEW keeps \in BOOLEAN, EndStreams(Services, keeps), session' \in BOOLEAN,
         buffer' = [ch \in Channels |-> <<>>],
         subs' \subseteq subs,
         last' \in [Clients -> [Channels -> 0 .. MaxChunks]],
         \A d \in Clients, x \in Channels : last'[d][x] = 0 \/ last'[d][x] = last[d][x],
         \A d \in Clients : d \notin subs' /\ d \in subs => \A x \in Channels : last'[d][x] = 0,
         UNCHANGED <<attached, backend, channel, resolving, output, torn, bystander, draining>>
  PROVE  Inv'
<1>1. /\ TypeOK /\ SubscriberInv /\ StreamInv /\ AttachInv /\ WaitInv
      /\ FollowersAreRead /\ FeedInv /\ OwnInv /\ NoGapNoRepeat
  BY DEF Inv
<1>2. /\ stream' \in [Services -> Nat]
      /\ followers' \in [Services -> Seq(FollowerTypes)]
      /\ \A s \in Services : /\ Len(followers'[s]) = Len(followers[s])
                             /\ stream'[s] = 0
                             /\ s \notin bystander => Running(s)' = {}
  BY <1>1, EndParts
<1>3. TypeOK'
  <2>1. \A s \in Services : stream'[s] <= Len(followers'[s])
    <3>1. \A s \in Services : Len(followers'[s]) \in Nat
      BY <1>1, <1>2, StreamParts
    <3> QED BY <1>2, <3>1
  <2>2. /\ buffer' \in [Channels -> Seq(1 .. MaxChunks)]
        /\ \A x \in Channels : Len(buffer'[x]) <= Capacity
    BY EmptyBuffer
  <2>3. subs' \subseteq Clients
    BY <1>1 DEF TypeOK
  <2> QED BY <1>1, <1>2, <2>1, <2>2, <2>3 DEF TypeOK
<1>4. SubscriberInv'
  BY <1>1 DEF SubscriberInv
<1>5. StreamInv' /\ FollowersAreRead' /\ FeedInv'
  BY <1>2 DEF StreamInv, FollowersAreRead, FeedInv
<1>6. AttachInv' /\ WaitInv' /\ NoGapNoRepeat'
  BY <1>1, <1>2 DEF AttachInv, WaitInv, NoGapNoRepeat
<1>7. OwnInv'
  <2>1. \A x \in OwnChannels : x \in Channels
    BY DEF Channels
  <2>2. subs \subseteq Clients
    BY <1>1 DEF TypeOK
  <2> QED BY <1>1, <2>1, <2>2 DEF OwnInv, Matches
<1> QED BY <1>3, <1>4, <1>5, <1>6, <1>7 DEF Inv

LEMMA ResetKeeps ==
  ASSUME Inv, Reset \/ Drop
  PROVE  Inv'
<1>1. TypeOK /\ SubscriberInv /\ subs \subseteq Clients
  BY DEF Inv, TypeOK
<1>2. CASE Reset
  <2>1. /\ EndStreams(Services, TRUE) /\ buffer' = [ch \in Channels |-> <<>>]
        /\ UNCHANGED <<session, subs, last, attached, backend, channel, resolving, output,
                       torn, bystander, draining>>
    BY <1>2 DEF Reset, requests, history
  <2>2. session' \in BOOLEAN /\ last' \in [Clients -> [Channels -> 0 .. MaxChunks]]
    BY <1>1, <2>1 DEF TypeOK
  <2> QED BY <2>1, <2>2, AllStreamsEnd
<1>3. CASE Drop
  <2>1. /\ EndStreams(Services, FALSE) /\ buffer' = [ch \in Channels |-> <<>>]
        /\ session' = FALSE /\ subs' = {}
        /\ last' = [d \in Clients |-> [ch \in Channels |->
                      IF d \in Clients THEN 0 ELSE last[d][ch]]]
        /\ UNCHANGED <<attached, backend, channel, resolving, output, torn, bystander, draining>>
    BY <1>3 DEF Drop, Forget, requests
  <2>2. 0 \in 0 .. MaxChunks
    BY Bounds
  <2>3. last' = [d \in Clients |-> [ch \in Channels |-> 0]]
    BY <2>1
  <2>4. last' \in [Clients -> [Channels -> 0 .. MaxChunks]]
    BY <2>2, <2>3
  <2>5. \A d \in Clients, x \in Channels : last'[d][x] = 0
    BY <2>3
  <2>6. session' \in BOOLEAN /\ subs' \subseteq subs
    BY <2>1
  <2> QED BY <2>1, <2>4, <2>5, <2>6, AllStreamsEnd
<1> QED BY <1>2, <1>3

-----------------------------------------------------------------------------
(* The theorems.                                                            *)

LEMMA InvInit == Init => Inv
<1> SUFFICES ASSUME Init PROVE Inv
  OBVIOUS
<1>1. TypeOK
  <2>1. buffer \in [Channels -> Seq(1 .. MaxChunks)] /\ \A x \in Channels : Len(buffer[x]) <= Capacity
    BY EmptyBuffer DEF Init
  <2>2. /\ followers \in [Services -> Seq(FollowerTypes)] /\ stream \in [Services -> Nat]
        /\ \A s \in Services : stream[s] <= Len(followers[s])
    <3>1. <<>> \in Seq(FollowerTypes) /\ Len(<<>>) = 0
      OBVIOUS
    <3> QED BY <3>1 DEF Init
  <2>3. output \in [Channels -> 0 .. MaxChunks] /\ last \in [Clients -> [Channels -> 0 .. MaxChunks]]
    BY Bounds DEF Init
  <2> QED BY <2>1, <2>2, <2>3 DEF Init, TypeOK
<1>2. SubscriberInv /\ AttachInv /\ WaitInv /\ OwnInv /\ NoGapNoRepeat
  BY DEF Init, SubscriberInv, AttachInv, WaitInv, OwnInv, NoGapNoRepeat, Channels
<1>3. \A s \in Services : stream[s] = 0 /\ Running(s) = {}
  BY DEF Init, Running
<1>4. StreamInv /\ FollowersAreRead /\ FeedInv
  BY <1>3 DEF StreamInv, FollowersAreRead, FeedInv
<1> QED BY <1>1, <1>2, <1>4 DEF Inv

LEMMA InvStutters == Inv /\ UNCHANGED vars => Inv'
<1> SUFFICES ASSUME Inv, UNCHANGED vars PROVE Inv'
  OBVIOUS
<1>1. UNCHANGED <<backend, session, subs, channel, attached, resolving, stream, buffer,
                  followers, output, last, torn, bystander, draining>>
  BY DEF vars, registry, requests, history
<1>2. TypeOK' /\ SubscriberInv' /\ AttachInv' /\ WaitInv' /\ OwnInv' /\ NoGapNoRepeat'
  BY <1>1 DEF Inv, TypeOK, SubscriberInv, AttachInv, WaitInv, OwnInv, NoGapNoRepeat,
              Matches, LastOf
<1>3. StreamInv' /\ FollowersAreRead' /\ FeedInv'
  BY <1>1 DEF Inv, StreamInv, FollowersAreRead, FeedInv, Fed, Running, Interested, Reads,
              Matches, LastOf
<1> QED BY <1>2, <1>3 DEF Inv

(* Whatever clients, followers, resolvers, resets and drops do, the         *)
(* registry's streams, their followers, their buffers and what the clients  *)
(* were given fit together.                                                 *)
THEOREM LogStreamInvariance == Spec => []Inv
<1>1. Inv /\ [Next]_vars => Inv'
  <2> SUFFICES ASSUME Inv, [Next]_vars PROVE Inv'
    OBVIOUS
  <2>1. CASE \E ch \in OwnChannels : AppendOwn(ch)
    BY <2>1, AppendKeeps
  <2>2. CASE \E s \in Services : ServiceWrites(s)
    BY <2>2, WritesKeep
  <2>3. CASE \E s \in Services : \E n \in 1 .. Len(followers[s]) :
               FollowerReads(s, n) \/ FollowerEnds(s, n) \/ FollowerStops(s, n)
    BY <2>3, ReadsKeep, EndsKeep
  <2>4. CASE \E c \in Clients : Subscribe(c) \/ Unsubscribe(c) \/ ResolvesToNothing(c)
    BY <2>4, SubscribeKeeps, UnsubscribeKeeps, NothingKeeps
  <2>5. CASE \E c \in Clients : ResolvesService(c) \/ ResolvesAggregate(c)
    BY <2>5, ResolvesKeep
  <2>6. CASE Reset \/ Drop
    BY <2>6, ResetKeeps
  <2>7. CASE UNCHANGED vars
    BY <2>7, InvStutters
  <2> QED BY <2>1, <2>2, <2>3, <2>4, <2>5, <2>6, <2>7 DEF Next
<1> QED BY <1>1, InvInit, PTL DEF Spec

(* Every variable of the registry keeps its type; in particular a stream    *)
(* in the map has a follower, and no buffer outgrows its capacity.          *)
THEOREM LogStreamTypes == Spec => []TypeOK
<1>1. Inv => TypeOK
  BY DEF Inv
<1> QED BY <1>1, LogStreamInvariance, PTL

(* A stream in the map was never told to stop, a service is followed once   *)
(* and for a subscriber who reads it -- but for a service that was started  *)
(* past an unattached subscriber.                                           *)
THEOREM StreamsFitTheirReaders == Spec => []FollowersFitStreams
<1>1. Inv => FollowersFitStreams
  <2> SUFFICES ASSUME Inv PROVE FollowersFitStreams
    OBVIOUS
  <2>1. JoinedStreamsAreLive
    BY DEF Inv, StreamInv, JoinedStreamsAreLive
  <2>2. OneFollower
    <3> SUFFICES ASSUME NEW s \in Services, s \notin bystander
                 PROVE  Cardinality(Running(s)) <= 1
      BY DEF OneFollower
    <3>1. Running(s) \subseteq {stream[s]}
      BY DEF Inv, StreamInv
    <3>2. IsFiniteSet({stream[s]}) /\ Cardinality({stream[s]}) = 1
      BY FS_Singleton
    <3> QED BY <3>1, <3>2, FS_Subset
  <2> QED BY <2>1, <2>2 DEF Inv, FollowersFitStreams
<1> QED BY <1>1, LogStreamInvariance, PTL

(* What a client is given of a channel, the tail and the live chunks, is a  *)
(* contiguous piece of the output, unless two followers feed the stream.    *)
THEOREM WhatClientsReadIsContiguous == Spec => []NoGapNoRepeat
<1>1. Inv => NoGapNoRepeat
  BY DEF Inv
<1> QED BY <1>1, LogStreamInvariance, PTL

=============================================================================
