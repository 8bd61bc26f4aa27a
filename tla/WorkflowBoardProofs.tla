------------------------ MODULE WorkflowBoardProofs ------------------------
(***************************************************************************)
(* Proofs about WorkflowBoard with its EventBus, for any number of         *)
(* handlers, columns, worktrees, events and faults and any capacity of the *)
(* bus.                                                                    *)
(*                                                                         *)
(* BusInv says which ids the history and the wire hold and what the tab    *)
(* has seen of them; a step that loses an event is found by comparing what *)
(* the tab could still get before and after it (LossStep).  RequestInv     *)
(* says what every handler is going to write, DanglingNeedsRace which of   *)
(* them will free a worktree, and FreshInv where a catalog that the tab    *)
(* does not show yet is: in a request, in an event or with a tab about to  *)
(* ask.                                                                    *)
(***************************************************************************)
EXTENDS WorkflowBoard, FiniteSetTheorems, SequenceTheorems, TLAPS

-----------------------------------------------------------------------------
(* The bus.                                                                *)

\* The history holds the newest events, in the order of their ids.
HistoryInv ==
  /\ Len(history) < nextId
  /\ \A i \in 1..Len(history) : history[i].id = nextId - 1 - Len(history) + i

\* The ids on the wire end with the newest one as well.  An event stands in
\* its slot, but for a notification ahead of the activity that raised it.
Slot(i) == nextId - 1 - Len(wire) + i

InSlot(i) == wire[i].id = Slot(i)
Ahead(i) ==
  /\ i < Len(wire)
  /\ wire[i].id = Slot(i) + 1 /\ wire[i].type = "notification"
  /\ wire[i + 1].id = Slot(i) /\ wire[i + 1].type = "activity"
Behind(i) ==
  /\ wire[i].id = Slot(i) - 1 /\ wire[i].type = "activity"
  /\ i # 1 => wire[i - 1].id = Slot(i)

WireInv ==
  /\ Len(wire) < nextId /\ (~open => wire = <<>>)
  /\ \A i \in 1..Len(wire) : InSlot(i) \/ Ahead(i) \/ Behind(i)

\* An event has one id.
Known == ToSet(history) \union ToSet(wire) \union due
KnownInv ==
  /\ \A e \in Known : e.id < nextId
  /\ \A e, f \in Known : e.id = f.id => e = f

\* What the tab has seen of this daemon does not go beyond the last id it
\* knows, but for a notification; and what is on the wire does, but for the
\* activity that such a notification has overtaken.
Seen == ToSet(history) \ due
SeenInv ==
  /\ foreign => Seen = {}
  /\ ~foreign => last < nextId
  /\ \A h \in Seen : h.id <= last \/ (h.id = last + 1 /\ h.type = "notification")
  /\ wire # <<>> /\ wire[1].id >= Slot(1) => foreign \/ last < Slot(1)
  /\ wire # <<>> /\ wire[1].id < Slot(1) =>
       /\ ~foreign /\ last = Slot(1)
       /\ \A h \in Seen : h.id <= last
       /\ \A h \in ToSet(history) : h.id = last => h.type = "notification"
       /\ \A d \in due : d.id # last

BusInv ==
  /\ BusTypeOK /\ HistoryInv /\ WireInv /\ KnownInv /\ SeenInv /\ RepeatsAreNotifications

-----------------------------------------------------------------------------
(* Sequences.                                                              *)

\* Two sequences one after the other.
LEMMA Joined ==
  ASSUME NEW S, NEW s \in Seq(S), NEW t \in Seq(S)
  PROVE  /\ s \o t \in Seq(S) /\ Len(s \o t) = Len(s) + Len(t) /\ Len(s) \in Nat /\ Len(t) \in Nat
         /\ \A i \in 1..Len(s) : (s \o t)[i] = s[i]
         /\ \A i \in 1..Len(t) : (s \o t)[Len(s) + i] = t[i]
         /\ ToSet(s \o t) = ToSet(s) \union ToSet(t)
<1>1. /\ s \o t \in Seq(S) /\ Len(s \o t) = Len(s) + Len(t) /\ Len(s) \in Nat /\ Len(t) \in Nat
      /\ \A i \in 1..(Len(s) + Len(t)) : (s \o t)[i] = IF i <= Len(s) THEN s[i] ELSE t[i - Len(s)]
  BY ConcatProperties, LenProperties
<1>2. \A i \in 1..Len(s) : (s \o t)[i] = s[i]
  BY <1>1
<1>3. \A i \in 1..Len(t) : (s \o t)[Len(s) + i] = t[i]
  BY <1>1
<1>4. /\ DOMAIN (s \o t) = 1..(Len(s) + Len(t)) /\ DOMAIN s = 1..Len(s) /\ DOMAIN t = 1..Len(t)
  BY <1>1, LenProperties
<1>5. ToSet(s \o t) = ToSet(s) \union ToSet(t)
  <2>1. ASSUME NEW i \in DOMAIN (s \o t) PROVE (s \o t)[i] \in ToSet(s) \union ToSet(t)
    <3>1. CASE i <= Len(s)
      BY <1>1, <1>2, <1>4, <3>1 DEF ToSet
    <3>2. CASE i > Len(s)
      <4>1. i - Len(s) \in 1..Len(t)
        BY <1>1, <1>4, <3>2
      <4>2. (s \o t)[i] = t[i - Len(s)]
        BY <1>1, <1>4, <3>2
      <4>3. QED
        BY <1>4, <4>1, <4>2 DEF ToSet
    <3>3. QED
      BY <1>1, <1>4, <3>1, <3>2
  <2>2. ASSUME NEW i \in 1..Len(s) PROVE s[i] \in ToSet(s \o t)
    <3>1. i \in DOMAIN (s \o t)
      BY <1>1, <1>4
    <3>2. QED
      BY <1>2, <3>1 DEF ToSet
  <2>3. ASSUME NEW i \in 1..Len(t) PROVE t[i] \in ToSet(s \o t)
    <3>1. Len(s) + i \in DOMAIN (s \o t)
      BY <1>1, <1>4
    <3>2. QED
      BY <1>3, <3>1 DEF ToSet
  <2>4. QED
    BY <1>4, <2>1, <2>2, <2>3 DEF ToSet
<1>6. QED
  BY <1>1, <1>2, <1>3, <1>5

\* The end of a sequence, without its first m elements.
LEMMA Ending ==
  ASSUME NEW S, NEW s \in Seq(S), NEW m \in 0..Len(s)
  PROVE  /\ SubSeq(s, m + 1, Len(s)) \in Seq(S) /\ Len(s) \in Nat
         /\ Len(SubSeq(s, m + 1, Len(s))) = Len(s) - m
         /\ \A i \in 1..(Len(s) - m) : SubSeq(s, m + 1, Len(s))[i] = s[m + i]
         /\ \A e : e \in ToSet(SubSeq(s, m + 1, Len(s))) <=> \E i \in (m + 1)..Len(s) : e = s[i]
<1> DEFINE t == SubSeq(s, m + 1, Len(s))
<1>1. Len(s) \in Nat /\ m \in Nat /\ m <= Len(s)
  BY LenProperties
<1>2. /\ t \in Seq(S) /\ Len(t) = Len(s) - m
      /\ \A i \in 1..Len(t) : t[i] = s[m + i]
  <2>1. CASE m = Len(s)
    <3>1. t = <<>>
      BY <1>1, <2>1, SubSeqEmpty
    <3>2. QED
      BY <1>1, <2>1, <3>1, EmptySeq
  <2>2. CASE m < Len(s)
    <3>1. m + 1 \in 1..Len(s) /\ Len(s) \in (m + 1)..Len(s)
      BY <1>1, <2>2
    <3>2. /\ t \in Seq(S)
          /\ Len(t) = IF m + 1 <= Len(s) THEN Len(s) - (m + 1) + 1 ELSE 0
          /\ \A i \in 1..(Len(s) - (m + 1) + 1) : t[i] = s[(m + 1) + i - 1]
      BY <1>1, <3>1, SubSeqProperties
    <3>3. Len(t) = Len(s) - m
      BY <1>1, <2>2, <3>2
    <3>4. ASSUME NEW i \in 1..Len(t) PROVE t[i] = s[m + i]
      <4>1. i \in 1..(Len(s) - (m + 1) + 1) /\ (m + 1) + i - 1 = m + i
        BY <1>1, <3>3
      <4>2. QED
        BY <3>2, <4>1
    <3>5. QED
      BY <3>2, <3>3, <3>4
  <2>3. QED
    BY <1>1, <2>1, <2>2
<1>3. DOMAIN t = 1..Len(t)
  BY <1>2, LenProperties
<1>4. ASSUME NEW i \in 1..Len(t) PROVE t[i] \in {s[j] : j \in (m + 1)..Len(s)}
  <2>1. m + i \in (m + 1)..Len(s)
    BY <1>1, <1>2
  <2>2. QED
    BY <1>2, <2>1
<1>5. ASSUME NEW j \in (m + 1)..Len(s) PROVE s[j] \in ToSet(t)
  <2>1. j - m \in 1..Len(t) /\ m + (j - m) = j
    BY <1>1, <1>2
  <2>2. QED
    BY <1>2, <1>3, <2>1 DEF ToSet
<1>6. \A e : e \in ToSet(t) <=> \E i \in (m + 1)..Len(s) : e = s[i]
  BY <1>3, <1>4, <1>5 DEF ToSet
<1>7. QED
  BY <1>1, <1>2, <1>6

\* The elements of a sequence and their places.
LEMMA Places ==
  ASSUME NEW S, NEW s \in Seq(S)
  PROVE  /\ Len(s) \in Nat /\ DOMAIN s = 1..Len(s) /\ ToSet(s) = {s[i] : i \in 1..Len(s)}
         /\ ToSet(s) \subseteq S /\ \A i \in 1..Len(s) : s[i] \in S /\ s[i] \in ToSet(s)
         /\ s = <<>> <=> Len(s) = 0
<1>1. Len(s) \in Nat /\ DOMAIN s = 1..Len(s) /\ \A i \in 1..Len(s) : s[i] \in S
  BY LenProperties, ElementOfSeq
<1>2. QED
  BY <1>1, EmptySeq DEF ToSet

-----------------------------------------------------------------------------
(* Numbers and replays.                                                    *)

LEMMA NumberedFacts ==
  ASSUME nextId \in Nat \ {0}, NEW types \in Seq(Types), nextId + Len(Numbered(types)) - 1 <= MaxEvents
  PROVE  /\ Len(types) \in Nat /\ Len(Numbered(types)) = Len(types)
         /\ Numbered(types) \in Seq(Envelopes)
         /\ \A i \in 1..Len(types) : Numbered(types)[i] = [id |-> nextId + i - 1, type |-> types[i]]
<1>1. Len(types) \in Nat /\ \A i \in 1..Len(types) : types[i] \in Types
  BY LenProperties, ElementOfSeq
<1>2. Len(Numbered(types)) = Len(types)
  BY <1>1 DEF Numbered
<1>3. \A i \in 1..Len(types) : Numbered(types)[i] = [id |-> nextId + i - 1, type |-> types[i]]
  BY DEF Numbered
<1>4. ASSUME NEW i \in 1..Len(types) PROVE [id |-> nextId + i - 1, type |-> types[i]] \in Envelopes
  <2>1. nextId + i - 1 \in 1..MaxEvents
    BY <1>1, <1>2, BusAssumption
  <2>2. QED
    BY <1>1, <2>1 DEF Envelopes
<1>5. Numbered(types) \in [1..Len(types) -> Envelopes]
  BY <1>4 DEF Numbered
<1>6. Numbered(types) \in Seq(Envelopes)
  BY <1>1, <1>5, IsASeq
<1>7. QED
  BY <1>1, <1>2, <1>3, <1>6

\* What is replayed is the end of the history, and all of it that is newer.
Newer(events, since) ==
  LET old == {i \in DOMAIN events : events[i].id <= since}
  IN  SubSeq(events, Cardinality(old) + 1, Len(events))

LEMMA NewerFacts ==
  ASSUME NEW E, NEW H \in Seq(E), NEW since \in Nat, NEW next \in Nat, Len(H) < next,
         \A i \in 1..Len(H) : H[i].id = next - 1 - Len(H) + i
  PROVE  /\ Newer(H, since) \in Seq(E) /\ Len(Newer(H, since)) \in Nat /\ Len(Newer(H, since)) <= Len(H)
         /\ ToSet(Newer(H, since)) = {h \in ToSet(H) : h.id > since}
         /\ \A i \in 1..Len(Newer(H, since)) :
              /\ Newer(H, since)[i].id = next - 1 - Len(Newer(H, since)) + i
              /\ Newer(H, since)[i].id > since
<1>1. PICK n \in Nat, b \in Nat : n = Len(H) /\ b = next - 1 - n
  <2>1. Len(H) \in Nat /\ next - 1 - Len(H) \in Nat
    BY LenProperties
  <2>2. QED
    BY <2>1
<1>2. PICK m \in 0..n : m = IF since < b THEN 0 ELSE IF since - b > n THEN n ELSE since - b
  BY <1>1
<1> DEFINE old == {i \in DOMAIN H : H[i].id <= since}
           r == Newer(H, since)
<1>3. /\ next = b + n + 1 /\ DOMAIN H = 1..n /\ ToSet(H) = {H[i] : i \in 1..n}
      /\ \A i \in 1..n : H[i].id = b + i
  BY <1>1, Places
<1>4. \A i \in 1..n : b + i <= since <=> i <= m
  BY <1>1, <1>2
<1>5. old = 1..m
  BY <1>2, <1>3, <1>4
<1>6. Cardinality(1..m) = m
  <2>1. m \in Int /\ m >= 0
    BY <1>1, <1>2
  <2>2. QED
    BY <2>1, FS_Interval
<1>7. r = SubSeq(H, m + 1, Len(H)) /\ m \in 0..Len(H)
  BY <1>1, <1>2, <1>5, <1>6 DEF Newer
<1> HIDE DEF r, old
<1>8. /\ r \in Seq(E) /\ Len(r) = n - m
      /\ \A i \in 1..Len(r) : r[i] = H[m + i]
      /\ \A e : e \in ToSet(r) <=> \E i \in (m + 1)..n : e = H[i]
  <2>1. /\ SubSeq(H, m + 1, Len(H)) \in Seq(E)
        /\ Len(SubSeq(H, m + 1, Len(H))) = Len(H) - m
        /\ \A i \in 1..(Len(H) - m) : SubSeq(H, m + 1, Len(H))[i] = H[m + i]
        /\ \A e : e \in ToSet(SubSeq(H, m + 1, Len(H))) <=> \E i \in (m + 1)..Len(H) : e = H[i]
    BY <1>7, Ending
  <2>2. QED
    BY <1>1, <1>7, <2>1
<1>9. ToSet(r) = {h \in ToSet(H) : h.id > since}
  <2>1. ASSUME NEW i \in 1..n PROVE H[i].id > since <=> i \in (m + 1)..n
    <3>1. H[i].id > since <=> ~(b + i <= since)
      BY <1>3
    <3>2. i \in (m + 1)..n <=> ~(i <= m)
      BY <1>2
    <3>3. QED
      BY <1>4, <3>1, <3>2
  <2>2. (m + 1)..n \subseteq 1..n
    BY <1>1, <1>2
  <2>3. ASSUME NEW e PROVE e \in ToSet(r) <=> e \in ToSet(H) /\ e.id > since
    <3>1. e \in ToSet(r) <=> \E i \in (m + 1)..n : e = H[i]
      BY <1>8
    <3>2. e \in ToSet(H) <=> \E i \in 1..n : e = H[i]
      BY <1>3
    <3>3. QED
      BY <2>1, <2>2, <3>1, <3>2
  <2>4. QED
    BY <2>3
<1>10. ASSUME NEW i \in 1..Len(r) PROVE r[i].id = next - 1 - Len(r) + i /\ r[i].id > since
  <2>1. m + i \in 1..n /\ m + i > m
    BY <1>1, <1>2, <1>8
  <2>2. r[i].id = b + (m + i) /\ ~(b + (m + i) <= since)
    BY <1>2, <1>3, <1>4, <1>8, <2>1
  <2>3. QED
    BY <1>1, <1>2, <1>3, <1>8, <2>2
<1>11. Len(r) \in Nat /\ Len(r) <= Len(H)
  BY <1>1, <1>2, <1>8
<1>12. QED
  BY <1>8, <1>9, <1>10, <1>11 DEF r

LEMMA NewerSet ==
  ASSUME NEW H \in Seq(Envelopes), NEW since \in Nat, NEW next \in Nat, Len(H) < next,
         \A i \in 1..Len(H) : H[i].id = next - 1 - Len(H) + i
  PROVE  ToSet(Newer(H, since)) = {h \in ToSet(H) : h.id > since}
<1>1. QED
  BY NewerFacts

LEMMA ReplayFacts ==
  ASSUME BusTypeOK, HistoryInv
  PROVE  /\ Replay(last) \in Seq(Envelopes) /\ Len(Replay(last)) \in Nat /\ Len(Replay(last)) <= Len(history)
         /\ ToSet(Replay(last)) = {h \in ToSet(history) : h.id > last}
         /\ \A i \in 1..Len(Replay(last)) :
              Replay(last)[i].id = nextId - 1 - Len(Replay(last)) + i /\ Replay(last)[i].id > last
<1>1. history \in Seq(Envelopes) /\ last \in Nat /\ nextId \in Nat
  BY BusAssumption DEF BusTypeOK
<1>2. Replay(last) = Newer(history, last)
  BY DEF Replay, Newer
<1>3. Len(history) < nextId /\ \A i \in 1..Len(history) : history[i].id = nextId - 1 - Len(history) + i
  BY DEF HistoryInv
<1>4. /\ Newer(history, last) \in Seq(Envelopes) /\ Len(Newer(history, last)) \in Nat
      /\ Len(Newer(history, last)) <= Len(history)
      /\ ToSet(Newer(history, last)) = {h \in ToSet(history) : h.id > last}
      /\ \A i \in 1..Len(Newer(history, last)) :
           /\ Newer(history, last)[i].id = nextId - 1 - Len(Newer(history, last)) + i
           /\ Newer(history, last)[i].id > last
  BY <1>1, <1>3, NewerFacts
<1>5. QED
  BY <1>2, <1>4

-----------------------------------------------------------------------------
(* What is on the wire.                                                    *)

LEMMA Basics ==
  ASSUME BusInv
  PROVE  /\ nextId \in Nat /\ nextId > 0 /\ last \in Nat /\ MaxEvents \in Nat /\ Capacity \in Nat /\ Capacity > 0
         /\ nextId <= MaxEvents + 1
         /\ history \in Seq(Envelopes) /\ Len(history) \in Nat /\ DOMAIN history = 1..Len(history)
         /\ wire \in Seq(Envelopes) /\ Len(wire) \in Nat /\ DOMAIN wire = 1..Len(wire)
         /\ wire = <<>> <=> Len(wire) = 0
         /\ \A i \in 1..Len(wire) : wire[i] \in ToSet(wire) /\ wire[i] \in Envelopes
         /\ \A i \in 1..Len(history) : history[i] \in ToSet(history) /\ history[i] \in Envelopes
         /\ \A e \in ToSet(wire) : \E i \in 1..Len(wire) : e = wire[i]
         /\ \A e \in ToSet(history) : \E i \in 1..Len(history) : e = history[i]
         /\ Known \subseteq Envelopes /\ \A e \in Envelopes : e.id \in Nat /\ e.id > 0
         /\ foreign \in BOOLEAN /\ open \in BOOLEAN
         /\ \A i \in 1..Len(wire) : Slot(i) = nextId - 1 - Len(wire) + i
<1>1. BusTypeOK
  BY DEF BusInv
<1>2. /\ nextId \in Nat /\ nextId > 0 /\ last \in Nat /\ MaxEvents \in Nat /\ Capacity \in Nat /\ Capacity > 0
      /\ nextId <= MaxEvents + 1 /\ foreign \in BOOLEAN /\ open \in BOOLEAN
  BY <1>1, BusAssumption DEF BusTypeOK
<1>3. /\ history \in Seq(Envelopes) /\ Len(history) \in Nat /\ DOMAIN history = 1..Len(history)
      /\ \A i \in 1..Len(history) : history[i] \in ToSet(history) /\ history[i] \in Envelopes
      /\ \A e \in ToSet(history) : \E i \in 1..Len(history) : e = history[i]
      /\ ToSet(history) \subseteq Envelopes
  BY <1>1, Places DEF BusTypeOK
<1>4. /\ wire \in Seq(Envelopes) /\ Len(wire) \in Nat /\ DOMAIN wire = 1..Len(wire)
      /\ wire = <<>> <=> Len(wire) = 0
      /\ \A i \in 1..Len(wire) : wire[i] \in ToSet(wire) /\ wire[i] \in Envelopes
      /\ \A e \in ToSet(wire) : \E i \in 1..Len(wire) : e = wire[i]
      /\ ToSet(wire) \subseteq Envelopes
  BY <1>1, Places DEF BusTypeOK
<1>5. Known \subseteq Envelopes
  BY <1>1, <1>3, <1>4 DEF BusTypeOK, Known
<1>6. \A e \in Envelopes : e.id \in Nat /\ e.id > 0
  BY <1>2 DEF Envelopes
<1>7. \A i \in 1..Len(wire) : Slot(i) = nextId - 1 - Len(wire) + i
  BY DEF Slot
<1>8. QED
  BY <1>2, <1>3, <1>4, <1>5, <1>6, <1>7

\* An event on the wire is at most one off its slot, and above it, or below,
\* only next to the one it has changed places with.
LEMMA WireFacts ==
  ASSUME BusInv
  PROVE  /\ \A i \in 1..Len(wire) : wire[i].id \in Nat /\ (InSlot(i) \/ Ahead(i) \/ Behind(i))
         /\ \A i, j \in 1..Len(wire) : i < j => wire[i].id # wire[j].id
         /\ \A i, j \in 1..Len(wire) :
              i < j /\ wire[i].id > wire[j].id => j = i + 1 /\ Ahead(i)
<1>0. PICK L \in Nat, b \in Nat : L = Len(wire) /\ b = nextId - 1 - L
  <2>1. Len(wire) \in Nat /\ nextId - 1 - Len(wire) \in Nat
    BY Basics DEF BusInv, WireInv
  <2>2. QED
    BY <2>1
<1>1. \A i \in 1..L : wire[i].id \in Nat /\ (InSlot(i) \/ Ahead(i) \/ Behind(i)) /\ Slot(i) = b + i
  BY <1>0, Basics DEF BusInv, WireInv
<1>2. ASSUME NEW i \in 1..L, NEW j \in 1..L, i < j
      PROVE  wire[i].id # wire[j].id /\ (wire[i].id > wire[j].id => j = i + 1 /\ Ahead(i))
  <2>1. /\ InSlot(i) => wire[i].id = b + i
        /\ Ahead(i) => wire[i].id = b + i + 1 /\ wire[i + 1].id = b + i
        /\ Behind(i) => wire[i].id = b + i - 1
    BY <1>1 DEF InSlot, Ahead, Behind
  <2>2. /\ InSlot(j) => wire[j].id = b + j
        /\ Ahead(j) => wire[j].id = b + j + 1
        /\ Behind(j) => wire[j].id = b + j - 1 /\ wire[j - 1].id = b + j
    BY <1>1, <1>2 DEF InSlot, Ahead, Behind
  <2>3. CASE j = i + 1
    <3>1. j - 1 = i /\ i \in Int /\ j \in Int /\ b \in Nat
      BY <1>1, <2>3
    <3>2. QED
      BY <1>1, <2>1, <2>2, <2>3, <3>1
  <2>4. CASE j = i + 2
    <3>1. j - 1 = i + 1 /\ i \in Int /\ j \in Int /\ b \in Nat
      BY <1>1, <2>4
    <3>2. QED
      BY <1>1, <2>1, <2>2, <2>4, <3>1
  <2>5. CASE j > i + 2
    BY <1>1, <2>1, <2>2, <2>5
  <2>6. QED
    BY <1>1, <1>2, <2>3, <2>4, <2>5
<1>3. QED
  BY <1>0, <1>1, <1>2

\* The properties of the wire are in the invariant.
LEMMA InvStreamContinues ==
  ASSUME BusInv
  PROVE  StreamContinues
<1>0. PICK L \in Nat, b \in Nat : L = Len(wire) /\ b = nextId - 1 - L
  <2>1. Len(wire) \in Nat /\ nextId - 1 - Len(wire) \in Nat
    BY Basics DEF BusInv, WireInv
  <2>2. QED
    BY <2>1
<1> DEFINE ids == {wire[i].id : i \in DOMAIN wire}
           f == [i \in 1..L |-> wire[i].id]
<1>1. /\ nextId = b + L + 1 /\ DOMAIN wire = 1..L /\ last \in Nat
      /\ \A i \in 1..L : wire[i].id \in Nat /\ (InSlot(i) \/ Ahead(i) \/ Behind(i)) /\ Slot(i) = b + i
      /\ \A i, j \in 1..L : i < j => wire[i].id # wire[j].id
      /\ \A i, j \in 1..L : i < j /\ wire[i].id > wire[j].id => j = i + 1 /\ Ahead(i)
  BY <1>0, Basics, WireFacts DEF BusInv, WireInv
<1>2. Cardinality(ids) = L
  <2>1. \A i, j \in 1..L : wire[i].id = wire[j].id => i = j
    BY <1>1
  <2>2. f \in Bijection(1..L, ids)
    BY <1>1, <2>1 DEF Bijection, Injection, Surjection, IsInjective
  <2>3. IsFiniteSet(1..L) /\ Cardinality(1..L) = L
    BY FS_Interval
  <2>4. ExistsBijection(1..L, ids)
    BY <2>2 DEF ExistsBijection
  <2>5. QED
    BY <2>3, <2>4, FS_Bijection
<1>3. ASSUME NEW i \in 1..L, NEW j \in 1..L, i < j, wire[i].id > wire[j].id
      PROVE  /\ wire[i].type = "notification" /\ wire[j].type = "activity"
             /\ wire[i].id = wire[j].id + 1
  <2>1. j = i + 1 /\ Ahead(i)
    BY <1>1, <1>3
  <2>2. QED
    BY <1>1, <2>1 DEF Ahead
<1>4. ASSUME NEW i \in 1..L
      PROVE  wire[i].id + 1 \in ids \/ wire[i].id + 1 = nextId \/ wire[i].id + 1 = last
  <2>1. \A j \in 1..L : wire[j].id \in ids
    BY <1>1
  <2> HIDE DEF ids
  <2>2. ASSUME NEW j \in 1..L PROVE j = L => b + j + 1 = nextId
    BY <1>1
  <2>3. CASE InSlot(i)
    <3>1. wire[i].id = b + i
      BY <1>1, <2>3 DEF InSlot
    <3>2. CASE i = L
      BY <1>1, <3>1, <3>2
    <3>3. CASE i # L
      <4>1. i + 1 \in 1..L /\ Slot(i + 1) = b + i + 1
        BY <1>1, <3>3
      <4>2. CASE InSlot(i + 1)
        BY <1>1, <2>1, <3>1, <4>1, <4>2 DEF InSlot
      <4>3. CASE Ahead(i + 1)
        <5>1. i + 2 \in 1..L /\ wire[i + 2].id = b + i + 1
          <6>1. (i + 1) + 1 = i + 2
            BY <1>1
          <6>2. QED
            BY <1>1, <4>1, <4>3, <6>1 DEF Ahead
        <5>2. QED
          BY <2>1, <3>1, <5>1
      <4>4. CASE Behind(i + 1)
        <5>1. i + 1 # 1 /\ (i + 1) - 1 = i
          BY <1>1
        <5>2. wire[i].id = b + i + 1
          BY <4>1, <4>4, <5>1 DEF Behind
        <5>3. QED
          BY <1>1, <3>1, <5>2
      <4>5. QED
        BY <1>1, <4>1, <4>2, <4>3, <4>4
    <3>4. QED
      BY <3>2, <3>3
  <2>4. CASE Ahead(i)
    <3>1. wire[i].id = b + i + 1 /\ i + 1 \in 1..L /\ wire[i + 1].id = b + i
      BY <1>1, <2>4 DEF Ahead
    <3>2. CASE i + 1 = L
      BY <1>1, <3>1, <3>2
    <3>3. CASE i + 1 # L
      <4>1. i + 2 \in 1..L /\ Slot(i + 2) = b + i + 2
        <5>1. i + 2 \in 1..L
          BY <3>1, <3>3
        <5>2. Slot(i + 2) = b + (i + 2)
          BY <1>1, <5>1
        <5>3. QED
          BY <5>1, <5>2
      <4>2. CASE InSlot(i + 2)
        BY <1>1, <2>1, <3>1, <4>1, <4>2 DEF InSlot
      <4>3. CASE Ahead(i + 2)
        <5>1. i + 3 \in 1..L /\ wire[i + 3].id = b + i + 2
          <6>1. (i + 2) + 1 = i + 3
            BY <1>1
          <6>2. QED
            BY <1>1, <4>1, <4>3, <6>1 DEF Ahead
        <5>2. QED
          BY <2>1, <3>1, <5>1
      <4>4. CASE Behind(i + 2)
        <5>1. i + 2 # 1 /\ (i + 2) - 1 = i + 1
          BY <1>1
        <5>2. wire[i + 1].id = b + i + 2
          BY <4>1, <4>4, <5>1 DEF Behind
        <5>3. QED
          BY <1>1, <3>1, <5>2
      <4>5. QED
        BY <1>1, <4>1, <4>2, <4>3, <4>4
    <3>4. QED
      BY <3>2, <3>3
  <2>5. CASE Behind(i)
    <3>1. wire[i].id = b + i - 1
      BY <1>1, <2>5 DEF Behind
    <3>2. CASE i = 1
      <4>1. wire[1].id < Slot(1) /\ wire # <<>> /\ Slot(1) = b + 1
        BY <1>1, <3>1, <3>2, Basics
      <4>2. last = Slot(1)
        BY <4>1 DEF BusInv, SeenInv
      <4>3. QED
        BY <1>1, <3>1, <3>2, <4>1, <4>2
    <3>3. CASE i # 1
      <4>1. i - 1 \in 1..L /\ wire[i - 1].id = b + i
        BY <1>1, <2>5, <3>3 DEF Behind
      <4>2. QED
        BY <1>1, <2>1, <3>1, <4>1
    <3>4. QED
      BY <3>2, <3>3
  <2>6. QED
    BY <1>1, <2>3, <2>4, <2>5
<1>5. QED
  <2>1. \A id \in ids : id + 1 \in ids \/ id + 1 = nextId \/ id + 1 = last
    BY <1>1, <1>4
  <2>2. QED
    BY <1>0, <1>1, <1>2, <1>3, <2>1 DEF StreamContinues

-----------------------------------------------------------------------------
(* The steps of the bus and of the tab's stream.                           *)

\* Nothing is lost in the step without a reason.
LossStep ==
  \A e \in Lost' \ Lost : Evicted(e)' \/ (foreign' /\ e.id <= last') \/ Overtaken(e)'

\* The events S are published, and nothing is taken from the tab.
Grows(S) ==
  /\ open' = open /\ ToSet(wire) \subseteq ToSet(wire') /\ due \union S \subseteq due'
  /\ open => S \subseteq ToSet(wire')

LEMMA BusStutters ==
  ASSUME BusInv, UNCHANGED busVars
  PROVE  BusInv' /\ LossStep
<1>1. BusInv'
  BY DEF busVars, BusInv, BusTypeOK, HistoryInv, WireInv, KnownInv, SeenInv, Known, Seen,
         InSlot, Ahead, Behind, Slot, RepeatsAreNotifications
<1>2. Lost' = Lost
  BY DEF busVars, Lost, Replay
<1>3. QED
  BY <1>1, <1>2 DEF LossStep

LEMMA BusRestartsKeeps ==
  ASSUME BusInv, BusRestarts
  PROVE  BusInv' /\ LossStep
<1>1. /\ nextId' = 1 /\ history' = <<>> /\ open' = FALSE /\ wire' = <<>> /\ foreign' = (last > 0)
      /\ due' = {} /\ last' = last
  BY DEF BusRestarts
<1>2. /\ history' \in Seq(Envelopes) /\ Len(history') = 0 /\ ToSet(history') = {}
      /\ wire' \in Seq(Envelopes) /\ Len(wire') = 0 /\ ToSet(wire') = {} /\ DOMAIN wire' = {}
  BY <1>1, EmptySeq DEF ToSet
<1>3. BusTypeOK'
  <2>4. (last > 0) \in BOOLEAN
    OBVIOUS
  <2>5. foreign' \in BOOLEAN
    BY <1>1, <2>4
  <2>6. /\ nextId' \in 1..(MaxEvents + 1) /\ last' \in 0..MaxEvents
        /\ due' \subseteq Envelopes /\ open' \in BOOLEAN
    <3>1. nextId' \in 1..(MaxEvents + 1)
      BY <1>1, Basics
    <3>2. last' \in 0..MaxEvents
      BY <1>1 DEF BusInv, BusTypeOK
    <3>3. QED
      BY <1>1, <3>1, <3>2
  <2>1. /\ nextId' \in 1..(MaxEvents + 1) /\ last' \in 0..MaxEvents /\ foreign' \in BOOLEAN
        /\ due' \subseteq Envelopes /\ open' \in BOOLEAN
    BY <2>5, <2>6
  <2>2. Len(history') <= Capacity /\ Len(wire') <= MaxEvents
    BY <1>2, Basics
  <2>3. QED
    BY <1>2, <2>1, <2>2 DEF BusTypeOK
<1>4. HistoryInv' /\ WireInv'
  BY <1>1, <1>2 DEF HistoryInv, WireInv
<1>5. KnownInv'
  BY <1>1, <1>2 DEF KnownInv, Known
<1>6. SeenInv'
  <2>1. Seen' = {}
    BY <1>2 DEF Seen
  <2>2. ASSUME ~foreign' PROVE last' < nextId'
    <3>1. ~(last > 0)
      BY <1>1, <2>2
    <3>2. QED
      BY <1>1, <3>1, Basics
  <2>3. QED
    BY <1>1, <2>1, <2>2 DEF SeenInv
<1>7. RepeatsAreNotifications'
  BY <1>2 DEF RepeatsAreNotifications
<1>8. LossStep
  BY <1>1 DEF LossStep, Lost
<1>9. QED
  BY <1>3, <1>4, <1>5, <1>6, <1>7, <1>8 DEF BusInv

LEMMA ConnectKeeps ==
  ASSUME BusInv, Connect
  PROVE  BusInv' /\ LossStep
<1>1. /\ ~open /\ open' = TRUE /\ wire' = Replay(last) /\ nextId' = nextId /\ history' = history
      /\ last' = last /\ foreign' = foreign /\ due' = due
  BY DEF Connect
<1>2. BusTypeOK /\ HistoryInv /\ KnownInv /\ SeenInv
  BY DEF BusInv
<1>3. /\ wire' \in Seq(Envelopes) /\ Len(wire') \in Nat /\ Len(wire') <= Len(history)
      /\ ToSet(wire') = {h \in ToSet(history) : h.id > last}
      /\ \A i \in 1..Len(wire') : wire'[i].id = nextId - 1 - Len(wire') + i /\ wire'[i].id > last
  BY <1>1, <1>2, ReplayFacts
<1>4. /\ DOMAIN wire' = 1..Len(wire') /\ \A i \in 1..Len(wire') : wire'[i] \in ToSet(wire')
      /\ wire' = <<>> <=> Len(wire') = 0
  BY <1>3, Places
<1>5. /\ nextId \in Nat /\ last \in Nat /\ Len(history) \in Nat /\ Len(history) < nextId
      /\ nextId <= MaxEvents + 1 /\ MaxEvents \in Nat
  BY <1>2, Basics DEF HistoryInv
<1>6. BusTypeOK'
  <2>1. Len(wire') <= MaxEvents
    BY <1>3, <1>5
  <2>2. QED
    BY <1>1, <1>2, <1>3, <2>1 DEF BusTypeOK
<1>7. HistoryInv'
  BY <1>1, <1>2 DEF HistoryInv
<1>8. WireInv'
  <2>1. Len(wire') < nextId'
    BY <1>1, <1>3, <1>5
  <2>2. \A i \in 1..Len(wire') : InSlot(i)'
    BY <1>1, <1>3 DEF InSlot, Slot
  <2>3. QED
    BY <1>1, <2>1, <2>2 DEF WireInv
<1>9. Known' \subseteq Known /\ KnownInv'
  BY <1>1, <1>2, <1>3 DEF KnownInv, Known
<1>10. SeenInv'
  <2>1. Seen' = Seen
    BY <1>1 DEF Seen
  <2>2. ASSUME wire' # <<>> PROVE wire'[1].id = Slot(1)' /\ last < Slot(1)'
    <3>1. 1 \in 1..Len(wire')
      BY <1>3, <1>4, <2>2
    <3>2. QED
      BY <1>1, <1>3, <3>1 DEF Slot
  <2>3. last \in Nat /\ (wire' # <<>> => Slot(1)' \in Nat)
    BY <1>1, <1>3, <1>5 DEF Slot
  <2>4. wire' # <<>> => ~(wire'[1].id < Slot(1)')
    BY <2>2, <2>3
  <2>5. QED
    BY <1>1, <1>2, <2>1, <2>2, <2>4 DEF SeenInv
<1>11. RepeatsAreNotifications'
  <2>1. ASSUME NEW i \in 1..Len(wire'), wire'[i] \notin due' PROVE wire'[i].type = "notification"
    <3>1. wire'[i] \in Seen /\ wire'[i].id > last
      BY <1>1, <1>3, <1>4, <2>1 DEF Seen
    <3>2. wire'[i].id <= last \/ wire'[i].type = "notification"
      BY <1>2, <3>1 DEF SeenInv
    <3>3. wire'[i].id \in Nat
      BY <1>3, <1>4, Basics DEF Known
    <3>4. QED
      BY <1>5, <3>1, <3>2, <3>3
  <2>2. QED
    BY <1>4, <2>1 DEF RepeatsAreNotifications
<1>12. LossStep
  BY <1>1 DEF LossStep, Lost
<1>13. QED
  BY <1>6, <1>7, <1>8, <1>9, <1>10, <1>11, <1>12 DEF BusInv

\* What was on its way and is not replayed again has a reason.
LEMMA DisconnectKeeps ==
  ASSUME BusInv, Disconnect
  PROVE  BusInv' /\ LossStep
<1>1. /\ open /\ open' = FALSE /\ wire' = <<>> /\ nextId' = nextId /\ history' = history
      /\ last' = last /\ foreign' = foreign /\ due' = due
  BY DEF Disconnect
<1>2. BusTypeOK /\ HistoryInv /\ WireInv /\ KnownInv /\ SeenInv
  BY DEF BusInv
<1>3. wire' \in Seq(Envelopes) /\ Len(wire') = 0 /\ ToSet(wire') = {} /\ DOMAIN wire' = {}
  BY <1>1, EmptySeq DEF ToSet
<1>4. BusTypeOK'
  <2>1. Len(wire') <= MaxEvents
    BY <1>3, Basics
  <2>2. QED
    BY <1>1, <1>2, <1>3, <2>1 DEF BusTypeOK
<1>5. HistoryInv' /\ WireInv'
  <2>1. nextId > 0
    BY Basics
  <2>2. QED
    BY <1>1, <1>2, <1>3, <2>1 DEF HistoryInv, WireInv
<1>6. Known' \subseteq Known /\ KnownInv'
  BY <1>1, <1>2, <1>3 DEF KnownInv, Known
<1>7. SeenInv'
  <2>1. Seen' = Seen
    BY <1>1 DEF Seen
  <2>2. QED
    BY <1>1, <1>2, <2>1 DEF SeenInv
<1>8. RepeatsAreNotifications'
  BY <1>3 DEF RepeatsAreNotifications
<1>9. ASSUME NEW e \in Lost' \ Lost
      PROVE  Evicted(e) \/ (foreign /\ e.id <= last) \/ Overtaken(e)
  <2>1. Replay(last)' = Replay(last)
    BY <1>1 DEF Replay
  <2>2. e \in due /\ e \in ToSet(wire) /\ e \notin ToSet(Replay(last))
    BY <1>1, <1>9, <2>1 DEF Lost
  <2>3. e \notin ToSet(history) \/ ~(e.id > last)
    BY <1>2, <2>2, ReplayFacts
  <2>4. /\ e.id \in Nat /\ e.id < nextId /\ nextId \in Nat /\ last \in Nat /\ e \in Known
        /\ Len(history) \in Nat /\ DOMAIN history = 1..Len(history)
        /\ \A i \in 1..Len(history) : history[i] \in ToSet(history)
    BY <1>2, <2>2, Basics DEF KnownInv, Known
  <2>5. CASE e \notin ToSet(history)
    <3>1. ASSUME NEW i \in 1..Len(history) PROVE history[i].id > e.id
      <4>1. \A j \in 1..Len(history) : history[j].id # e.id
        BY <1>2, <2>4, <2>5 DEF KnownInv, Known
      <4>2. \A j \in 1..Len(history) : history[j].id = nextId - 1 - Len(history) + j
        BY <1>2 DEF HistoryInv
      <4>3. e.id - (nextId - 1 - Len(history)) \notin 1..Len(history)
        BY <2>4, <4>1, <4>2
      <4>4. e.id <= nextId - 1 - Len(history)
        BY <2>4, <4>3
      <4>5. QED
        BY <2>4, <4>2, <4>4
    <3>2. QED
      BY <2>4, <3>1 DEF Evicted
  <2>6. CASE e.id <= last /\ ~foreign
    <3>1. PICK k \in 1..Len(wire) : e = wire[k]
      BY <2>2, Basics
    <3>2. PICK L \in Nat, b \in Nat : L = Len(wire) /\ b = nextId - 1 - L
      <4>1. Len(wire) \in Nat /\ nextId - 1 - Len(wire) \in Nat
        BY <1>2, Basics DEF WireInv
      <4>2. QED
        BY <4>1
    <3>3. /\ 1 \in 1..L /\ wire # <<>> /\ wire[1].id \in Nat
          /\ \A i \in 1..L : wire[i].id \in Nat /\ (InSlot(i) \/ Ahead(i) \/ Behind(i)) /\ Slot(i) = b + i
      <4>1. 1 \in 1..L /\ wire # <<>>
        BY <3>1, <3>2, Basics
      <4>2. \A i \in 1..L : wire[i].id \in Nat /\ (InSlot(i) \/ Ahead(i) \/ Behind(i))
        BY <3>2, WireFacts
      <4>3. \A i \in 1..L : Slot(i) = b + i
        BY <3>2 DEF Slot
      <4>4. QED
        BY <4>1, <4>2, <4>3
    <3>4. ~(wire[1].id >= Slot(1))
      <4>1. SUFFICES ASSUME wire[1].id >= b + 1 PROVE FALSE
        BY <3>2, <3>3
      <4>2. last < b + 1
        BY <1>2, <2>6, <3>3, <4>1 DEF SeenInv
      <4>3. CASE k = 1
        BY <2>4, <2>6, <3>1, <3>2, <3>3, <4>1, <4>2, <4>3
      <4>4. CASE k > 1
        <5>2. /\ k \in Int /\ wire[k].id \in Nat /\ Slot(k) = b + k
              /\ InSlot(k) \/ Ahead(k) \/ Behind(k)
          BY <3>1, <3>2, <3>3
        <5>1. wire[k].id >= b + k - 1
          BY <3>2, <5>2 DEF InSlot, Ahead, Behind
        <5>3. QED
          BY <2>4, <2>6, <3>1, <3>2, <4>2, <4>4, <5>1, <5>2
      <4>5. QED
        BY <3>1, <4>3, <4>4
    <3>5. wire[1].id < Slot(1) /\ wire[1].id < b + 1
      BY <3>2, <3>3, <3>4
    <3>6. /\ last = b + 1
          /\ \A d \in due : d.id # last
      BY <1>2, <3>3, <3>5 DEF SeenInv
    <3>7. k = 1
      <4>1. CASE k = 2
        <5>1. ~Behind(2)
          <6>1. 2 - 1 = 1 /\ 2 # 1 /\ Slot(2) = b + 2
            BY <3>1, <3>2, <3>3, <4>1
          <6>2. wire[1].id # b + 2
            BY <3>2, <3>3, <3>5
          <6>3. QED
            BY <6>1, <6>2 DEF Behind
        <5>2. wire[2].id >= b + 2
          BY <3>1, <3>2, <3>3, <4>1, <5>1 DEF InSlot, Ahead
        <5>3. QED
          BY <2>4, <2>6, <3>1, <3>2, <3>3, <3>6, <4>1, <5>2
      <4>2. CASE k > 2
        <5>2. /\ k \in Int /\ wire[k].id \in Nat /\ Slot(k) = b + k
              /\ InSlot(k) \/ Ahead(k) \/ Behind(k)
          BY <3>1, <3>2, <3>3
        <5>1. wire[k].id >= b + k - 1
          BY <3>2, <5>2 DEF InSlot, Ahead, Behind
        <5>3. QED
          BY <2>4, <2>6, <3>1, <3>2, <3>6, <4>2, <5>1, <5>2
      <4>3. QED
        BY <3>1, <4>1, <4>2
    <3>8. e.type = "activity" /\ e.id = b
      <4>1. Behind(1)
        <5>1. ~InSlot(1) /\ ~Ahead(1)
          BY <3>2, <3>3, <3>5 DEF InSlot, Ahead
        <5>2. QED
          BY <3>3, <5>1
      <4>2. QED
        BY <3>1, <3>2, <3>3, <3>7, <4>1 DEF Behind
    <3>9. e.id < nextId - 1 /\ e.id + 1 = last
      <4>1. last < nextId
        BY <1>2, <2>6 DEF SeenInv
      <4>2. QED
        BY <2>4, <3>2, <3>6, <3>8, <4>1
    <3>10. QED
      BY <3>6, <3>8, <3>9 DEF Overtaken
  <2>7. QED
    BY <2>3, <2>4, <2>5, <2>6, Basics
<1>10. LossStep
  BY <1>1, <1>9 DEF LossStep, Evicted, Overtaken
<1>11. QED
  BY <1>4, <1>5, <1>6, <1>7, <1>8, <1>10 DEF BusInv

\* The tab takes the first event on the wire.
LEMMA ReceiveKeeps ==
  ASSUME BusInv, Receive
  PROVE  BusInv' /\ LossStep
<1>1. /\ wire # <<>> /\ last' = wire[1].id /\ wire' = Tail(wire) /\ foreign' = FALSE
      /\ due' = due \ {wire[1]} /\ nextId' = nextId /\ history' = history /\ open' = open
  BY DEF Receive
<1>2. BusTypeOK /\ HistoryInv /\ WireInv /\ KnownInv /\ SeenInv /\ RepeatsAreNotifications
  BY DEF BusInv
<1>3. PICK L \in Nat, b \in Nat : L = Len(wire) /\ b = nextId - 1 - L
  <2>1. Len(wire) \in Nat /\ nextId - 1 - Len(wire) \in Nat
    BY <1>2, Basics DEF WireInv
  <2>2. QED
    BY <2>1
<1>4. /\ 1 \in 1..L /\ wire[1] \in ToSet(wire) /\ nextId = b + L + 1
      /\ \A i \in 1..L : /\ wire[i].id \in Nat /\ Slot(i) = b + i
                         /\ InSlot(i) \/ Ahead(i) \/ Behind(i)
      /\ \A i, j \in 1..L : i < j => wire[i].id # wire[j].id
  <2>1. 1 \in 1..L /\ nextId = b + L + 1 /\ wire[1] \in ToSet(wire)
    BY <1>1, <1>3, Basics
  <2>2. /\ \A i \in 1..Len(wire) : wire[i].id \in Nat /\ (InSlot(i) \/ Ahead(i) \/ Behind(i))
        /\ \A i, j \in 1..Len(wire) : i < j => wire[i].id # wire[j].id
    BY WireFacts
  <2>3. \A i \in 1..L : Slot(i) = b + i
    BY <1>3, <2>1 DEF Slot
  <2>4. QED
    BY <1>3, <2>1, <2>2, <2>3
<1>5. /\ wire' \in Seq(Envelopes) /\ Len(wire') = L - 1
      /\ \A i \in 1..(L - 1) : wire'[i] = wire[i + 1]
  BY <1>1, <1>2, <1>3, HeadTailProperties DEF BusTypeOK
<1>6. /\ DOMAIN wire' = 1..(L - 1)
      /\ \A e \in ToSet(wire') : \E i \in 1..(L - 1) : e = wire[i + 1]
  <2>1. DOMAIN wire' = 1..Len(wire') /\ ToSet(wire') = {wire'[i] : i \in 1..Len(wire')}
    BY <1>5, Places
  <2>2. QED
    BY <1>5, <2>1
<1>7. ASSUME NEW i \in 1..(L - 1)
      PROVE  /\ i + 1 \in 1..L /\ Slot(i)' = b + i + 1 /\ wire'[i] = wire[i + 1]
             /\ wire[i + 1] \in ToSet(wire) /\ wire[i + 1] \in ToSet(wire') /\ wire[i + 1] # wire[1]
  <2>1. i + 1 \in 1..L /\ 1 < i + 1
    BY <1>3
  <2>2. Slot(i)' = b + i + 1
    BY <1>1, <1>4, <1>5 DEF Slot
  <2>3. wire'[i] \in ToSet(wire')
    BY <1>5, Places
  <2>4. QED
    BY <1>3, <1>4, <1>5, <2>1, <2>2, <2>3, Basics
<1>8. ToSet(wire') \subseteq ToSet(wire) /\ wire[1] \in Known
  <2>1. wire[1] \in Known
    BY <1>4 DEF Known
  <2>2. QED
    BY <1>6, <1>7, <2>1
<1>9. /\ wire[1] \in Envelopes /\ wire[1].id < nextId /\ nextId \in Nat /\ nextId <= MaxEvents + 1
      /\ MaxEvents \in Nat /\ last \in Nat /\ wire[1].id > 0
      /\ \A h \in Seen : h.id \in Nat /\ h \in Known /\ h \in ToSet(history)
      /\ foreign \in BOOLEAN
  <2>1. \A h \in Seen : h \in Known /\ h \in ToSet(history)
    BY DEF Seen, Known
  <2>2. QED
    BY <1>2, <1>8, <2>1, Basics DEF KnownInv
<1>10. BusTypeOK'
  <2>1. Len(wire') <= MaxEvents /\ last' \in 0..MaxEvents
    BY <1>1, <1>3, <1>4, <1>5, <1>9
  <2>2. QED
    BY <1>1, <1>2, <1>5, <2>1 DEF BusTypeOK
<1>11. HistoryInv'
  BY <1>1, <1>2 DEF HistoryInv
<1>12. WireInv'
  <2>1. Len(wire') < nextId'
    BY <1>1, <1>3, <1>4, <1>5
  <2>2. open
    BY <1>1, <1>2 DEF WireInv
  <2>3. ASSUME NEW i \in 1..(L - 1) PROVE InSlot(i)' \/ Ahead(i)' \/ Behind(i)'
    <3>1. CASE InSlot(i + 1)
      BY <1>4, <1>7, <3>1 DEF InSlot
    <3>2. CASE Ahead(i + 1)
      <4>1. i + 1 \in 1..(L - 1) /\ (i + 1) + 1 = i + 2
        BY <1>3, <3>2 DEF Ahead
      <4>2. wire'[i + 1] = wire[i + 2]
        BY <1>5, <4>1
      <4>3. /\ Slot(i + 1) = b + i + 1 /\ wire[i + 1].type = "notification"
            /\ wire[i + 1].id = b + i + 2 /\ wire[i + 2].id = b + i + 1 /\ wire[i + 2].type = "activity"
        <5>1. Slot(i + 1) = b + i + 1 /\ b + i + 1 + 1 = b + i + 2
          BY <1>3, <1>4, <1>7
        <5>2. QED
          BY <3>2, <4>1, <5>1 DEF Ahead
      <4>4. i < Len(wire') /\ b + i + 1 + 1 = b + i + 2
        BY <1>3, <1>5, <4>1
      <4>5. QED
        BY <1>7, <4>2, <4>3, <4>4 DEF Ahead
    <3>3. CASE Behind(i + 1)
      <4>1. i + 1 # 1 /\ (i + 1) - 1 = i /\ Slot(i + 1) = b + i + 1
        BY <1>4, <1>7
      <4>2. wire[i].id = b + i + 1 /\ wire[i + 1].id = b + i + 1 - 1 /\ wire[i + 1].type = "activity"
        BY <3>3, <4>1 DEF Behind
      <4>3. ASSUME i # 1 PROVE wire'[i - 1].id = Slot(i)'
        <5>1. i - 1 \in 1..(L - 1) /\ (i - 1) + 1 = i
          BY <4>3
        <5>2. QED
          BY <1>5, <1>7, <4>2, <5>1
      <4>4. QED
        BY <1>7, <4>2, <4>3 DEF Behind
    <3>4. QED
      BY <1>4, <1>7, <3>1, <3>2, <3>3
  <2>4. QED
    BY <1>1, <1>5, <2>1, <2>2, <2>3 DEF WireInv
<1>13. Known' \subseteq Known /\ KnownInv'
  <2>1. Known' \subseteq Known
    BY <1>1, <1>8 DEF Known
  <2>2. QED
    BY <1>1, <1>2, <2>1 DEF KnownInv
<1>14. Seen' \subseteq Seen \union {wire[1]}
  BY <1>1 DEF Seen
<1>15. ASSUME wire' # <<>>
       PROVE  1 \in 1..(L - 1) /\ 2 \in 1..L /\ wire'[1] = wire[2] /\ Slot(1)' = b + 2 /\ wire[2].id \in Nat
  <2>1. L - 1 # 0
    BY <1>3, <1>5, <1>15, EmptySeq
  <2>2. 1 \in 1..(L - 1) /\ 1 + 1 = 2 /\ b + 1 + 1 = b + 2
    BY <1>4, <2>1
  <2>3. QED
    BY <1>4, <1>7, <2>2
<1>16. SeenInv'
  <2>1. CASE InSlot(1)
    <3>1. wire[1].id = b + 1 /\ Slot(1) = b + 1
      BY <1>4, <2>1 DEF InSlot
    <3>2. foreign \/ last < b + 1
      BY <1>1, <1>2, <1>4, <3>1 DEF SeenInv
    <3>3. ASSUME NEW h \in Seen' PROVE h.id <= last'
      <4>1. CASE h = wire[1]
        BY <1>1, <1>4, <4>1
      <4>2. CASE h \in Seen
        <5>1. ~foreign
          BY <1>2, <4>2 DEF SeenInv
        <5>2. h.id <= last + 1
          BY <1>2, <1>9, <4>2 DEF SeenInv
        <5>3. QED
          BY <1>1, <1>3, <1>9, <3>1, <3>2, <4>2, <5>1, <5>2
      <4>3. QED
        BY <1>14, <4>1, <4>2
    <3>4. ASSUME wire' # <<>> PROVE last' < Slot(1)' /\ ~(wire'[1].id < Slot(1)')
      <4>1. last' < Slot(1)'
        BY <1>1, <1>3, <1>15, <3>1, <3>4
      <4>2. ~Behind(2)
        <5>1. 2 # 1 /\ 2 - 1 = 1 /\ Slot(2) = b + 2
          BY <1>4, <1>15, <3>4
        <5>2. wire[1].id # b + 2
          BY <1>3, <3>1
        <5>3. QED
          BY <5>1, <5>2 DEF Behind
      <4>3. wire[2].id >= b + 2
        BY <1>3, <1>4, <1>15, <3>4, <4>2 DEF InSlot, Ahead
      <4>4. QED
        BY <1>3, <1>15, <3>4, <4>1, <4>3
    <3>5. QED
      BY <1>1, <1>9, <3>3, <3>4 DEF SeenInv
  <2>2. CASE Ahead(1)
    <3>1. /\ wire[1].id = b + 2 /\ wire[2].id = b + 1 /\ wire[1].type = "notification" /\ 1 < L
          /\ Slot(1) = b + 1
      <4>1. 1 + 1 = 2 /\ b + 1 + 1 = b + 2
        BY <1>3
      <4>2. QED
        BY <1>3, <1>4, <2>2, <4>1 DEF Ahead
    <3>2. wire' # <<>>
      BY <1>3, <1>5, <3>1, EmptySeq
    <3>3. wire[1].id >= Slot(1)
      BY <1>3, <3>1
    <3>4. foreign \/ last < b + 1
      BY <1>1, <1>2, <3>1, <3>3 DEF SeenInv
    <3>5. ASSUME NEW h \in Seen' PROVE h.id <= last'
      <4>1. CASE h = wire[1]
        BY <1>1, <1>4, <4>1
      <4>2. CASE h \in Seen
        <5>1. ~foreign
          BY <1>2, <4>2 DEF SeenInv
        <5>2. h.id <= last + 1
          BY <1>2, <1>9, <4>2 DEF SeenInv
        <5>3. QED
          BY <1>1, <1>3, <1>9, <3>1, <3>4, <4>2, <5>1, <5>2
      <4>3. QED
        BY <1>14, <4>1, <4>2
    <3>6. ASSUME NEW h \in ToSet(history), h.id = last' PROVE h.type = "notification"
      <4>1. h \in Known
        BY DEF Known
      <4>2. h = wire[1]
        BY <1>1, <1>2, <1>8, <3>6, <4>1 DEF KnownInv
      <4>3. QED
        BY <3>1, <4>2
    <3>7. ASSUME NEW d \in due', d.id = last' PROVE FALSE
      <4>1. d \in Known /\ d # wire[1]
        BY <1>1 DEF Known
      <4>2. QED
        BY <1>1, <1>2, <1>8, <3>7, <4>1 DEF KnownInv
    <3>8. wire'[1].id < Slot(1)' /\ ~(wire'[1].id >= Slot(1)') /\ last' = Slot(1)'
      BY <1>1, <1>3, <1>15, <3>1, <3>2
    <3>9. QED
      BY <1>1, <1>9, <3>5, <3>6, <3>7, <3>8 DEF SeenInv
  <2>3. CASE Behind(1)
    <3>1. wire[1].id = b /\ Slot(1) = b + 1 /\ wire[1].id < Slot(1)
      <4>1. b + 1 - 1 = b /\ b < b + 1
        BY <1>3
      <4>2. QED
        BY <1>4, <2>3, <4>1 DEF Behind
    <3>2. /\ last = b + 1 /\ \A h \in Seen : h.id <= last
          /\ \A h \in ToSet(history) : h.id = last => h.type = "notification"
      BY <1>1, <1>2, <3>1 DEF SeenInv
    <3>3. ASSUME NEW h \in Seen' PROVE h.id <= last' \/ (h.id = last' + 1 /\ h.type = "notification")
      <4>1. CASE h = wire[1]
        BY <1>1, <1>4, <4>1
      <4>2. CASE h \in Seen
        BY <1>1, <1>3, <1>9, <3>1, <3>2, <4>2
      <4>3. QED
        BY <1>14, <4>1, <4>2
    <3>4. ASSUME wire' # <<>> PROVE last' < Slot(1)' /\ ~(wire'[1].id < Slot(1)')
      <4>1. last' < Slot(1)'
        BY <1>1, <1>3, <1>15, <3>1, <3>4
      <4>2. ~Behind(2)
        <5>1. 2 # 1 /\ 2 - 1 = 1 /\ Slot(2) = b + 2
          BY <1>4, <1>15, <3>4
        <5>2. wire[1].id # b + 2
          BY <1>3, <3>1
        <5>3. QED
          BY <5>1, <5>2 DEF Behind
      <4>3. wire[2].id >= b + 2
        BY <1>3, <1>4, <1>15, <3>4, <4>2 DEF InSlot, Ahead
      <4>4. QED
        BY <1>3, <1>15, <3>4, <4>1, <4>3
    <3>5. QED
      BY <1>1, <1>9, <3>3, <3>4 DEF SeenInv
  <2>4. QED
    BY <1>4, <2>1, <2>2, <2>3
<1>17. RepeatsAreNotifications'
  <2>1. ASSUME NEW i \in 1..(L - 1), wire'[i] \notin due' PROVE wire'[i].type = "notification"
    <3>1. wire[i + 1] \notin due /\ i + 1 \in DOMAIN wire
      BY <1>1, <1>3, <1>7, <2>1, Basics
    <3>2. QED
      BY <1>2, <1>7, <3>1 DEF RepeatsAreNotifications
  <2>2. QED
    BY <1>6, <2>1 DEF RepeatsAreNotifications
<1>18. LossStep
  <2>1. open
    BY <1>1, <1>2 DEF WireInv
  <2>2. ASSUME NEW e \in ToSet(wire), e # wire[1] PROVE e \in ToSet(wire')
    <3>1. PICK k \in 1..L : e = wire[k]
      BY <1>3, Basics
    <3>2. k - 1 \in 1..(L - 1) /\ (k - 1) + 1 = k
      BY <1>3, <2>2, <3>1
    <3>3. QED
      BY <1>7, <3>1, <3>2
  <2>3. QED
    BY <1>1, <2>1, <2>2 DEF LossStep, Lost
<1>19. QED
  BY <1>10, <1>11, <1>12, <1>13, <1>16, <1>17, <1>18 DEF BusInv

\* Events are published: they are sent in the order of their ids, or a
\* notification ahead of the activity that raised it.
LEMMA EmitKeeps ==
  ASSUME BusInv, NEW numbered \in Seq(Envelopes), NEW sent \in Seq(Envelopes),
         \A i \in 1..Len(numbered) : numbered[i].id = nextId + i - 1,
         Len(sent) = Len(numbered), ToSet(sent) = ToSet(numbered),
         \/ \A i \in 1..Len(sent) : sent[i].id = nextId + i - 1
         \/ /\ Len(sent) = 2
            /\ sent[1].id = nextId + 1 /\ sent[1].type = "notification"
            /\ sent[2].id = nextId /\ sent[2].type = "activity",
         Emit(numbered, sent)
  PROVE  BusInv' /\ LossStep /\ Grows(ToSet(numbered))
<1> DEFINE kept == history \o numbered
<1>1. /\ nextId + Len(numbered) - 1 <= MaxEvents /\ nextId' = nextId + Len(numbered)
      /\ history' = IF Len(kept) > Capacity THEN Retained(kept) ELSE kept
      /\ wire' = IF open THEN wire \o sent ELSE wire
      /\ due' = due \union ToSet(numbered) /\ open' = open /\ last' = last /\ foreign' = foreign
  BY DEF Emit
<1>2. BusTypeOK /\ HistoryInv /\ WireInv /\ KnownInv /\ SeenInv /\ RepeatsAreNotifications
  BY DEF BusInv
<1>3. PICK h \in Nat, n \in Nat, L \in Nat, N \in Nat :
         h = Len(history) /\ n = Len(numbered) /\ L = Len(wire) /\ N = nextId
  BY LenProperties, Basics
<1>4. /\ h < N /\ N > 0 /\ last \in Nat /\ MaxEvents \in Nat /\ Capacity \in Nat /\ Capacity > 0
      /\ history \in Seq(Envelopes) /\ wire \in Seq(Envelopes) /\ L < N /\ nextId' = N + n /\ N + n - 1 <= MaxEvents
      /\ \A e \in Envelopes : e.id \in Nat
      /\ \A i \in 1..h : history[i].id = N - 1 - h + i /\ history[i] \in ToSet(history)
      /\ \A i \in 1..n : numbered[i].id = N + i - 1
      /\ Known \subseteq Envelopes /\ foreign \in BOOLEAN /\ open \in BOOLEAN
  BY <1>1, <1>2, <1>3, Basics DEF HistoryInv, WireInv
<1>5. /\ ToSet(numbered) \subseteq Envelopes
      /\ \A i \in 1..n : numbered[i] \in ToSet(numbered)
      /\ \A e \in ToSet(numbered) : \E i \in 1..n : e = numbered[i]
  BY <1>3, Places
<1>6. \A e \in ToSet(numbered) : e.id \in Nat /\ e.id >= N /\ e.id < N + n
  BY <1>3, <1>4, <1>5
<1>7. \A e, f \in ToSet(numbered) : e.id = f.id => e = f
  <2>1. ASSUME NEW i \in 1..n, NEW j \in 1..n, numbered[i].id = numbered[j].id PROVE i = j
    BY <1>3, <1>4, <2>1
  <2>2. QED
    BY <1>5, <2>1
<1>8. /\ kept \in Seq(Envelopes) /\ Len(kept) = h + n /\ ToSet(kept) = ToSet(history) \union ToSet(numbered)
      /\ \A i \in 1..h : kept[i] = history[i]
      /\ \A i \in 1..n : kept[h + i] = numbered[i]
  <2>1. /\ kept \in Seq(Envelopes) /\ Len(kept) = Len(history) + Len(numbered)
        /\ ToSet(kept) = ToSet(history) \union ToSet(numbered)
        /\ \A i \in 1..Len(history) : kept[i] = history[i]
        /\ \A i \in 1..Len(numbered) : kept[Len(history) + i] = numbered[i]
    BY <1>4, Joined
  <2>2. QED
    BY <1>3, <2>1
<1>9. ASSUME NEW i \in 1..(h + n) PROVE kept[i].id = N - 1 - h + i
  <2>1. CASE i <= h
    BY <1>3, <1>4, <1>8, <2>1
  <2>2. CASE i > h
    <3>1. i - h \in 1..n /\ h + (i - h) = i
      BY <1>3, <2>2
    <3>2. kept[i].id = N + (i - h) - 1
      BY <1>4, <1>8, <3>1
    <3>3. QED
      BY <1>3, <3>2
  <2>3. QED
    BY <1>3, <2>1, <2>2
<1> HIDE DEF kept
<1>10. PICK m \in 0..(h + n) :
         /\ history' \in Seq(Envelopes) /\ Len(history') = h + n - m /\ Len(history') <= Capacity
         /\ \A i \in 1..(h + n - m) : history'[i] = kept[m + i]
         /\ \A e : e \in ToSet(history') <=> \E i \in (m + 1)..(h + n) : e = kept[i]
  <2>1. CASE Len(kept) > Capacity
    <3>1. PICK d \in 0..(h + n) : d + 1 = Len(kept) - Capacity + 1
      <4>1. h + n - Capacity \in 0..(h + n) /\ (h + n - Capacity) + 1 = Len(kept) - Capacity + 1
        BY <1>3, <1>4, <1>8, <2>1
      <4>2. QED
        BY <4>1
    <3>2. history' = SubSeq(kept, d + 1, Len(kept)) /\ d \in 0..Len(kept)
      BY <1>1, <1>8, <2>1, <3>1 DEF Retained
    <3>3. /\ history' \in Seq(Envelopes) /\ Len(history') = Len(kept) - d
          /\ \A i \in 1..(Len(kept) - d) : history'[i] = kept[d + i]
          /\ \A e : e \in ToSet(history') <=> \E i \in (d + 1)..Len(kept) : e = kept[i]
      <4>1. kept \in Seq(Envelopes)
        BY <1>8
      <4>2. /\ SubSeq(kept, d + 1, Len(kept)) \in Seq(Envelopes)
            /\ Len(SubSeq(kept, d + 1, Len(kept))) = Len(kept) - d
            /\ \A i \in 1..(Len(kept) - d) : SubSeq(kept, d + 1, Len(kept))[i] = kept[d + i]
            /\ \A e : e \in ToSet(SubSeq(kept, d + 1, Len(kept))) <=>
                   \E i \in (d + 1)..Len(kept) : e = kept[i]
        BY <3>2, <4>1, Ending
      <4>3. QED
        BY <3>2, <4>2
    <3>4. Len(kept) = h + n /\ h + n - d <= Capacity /\ d \in 0..(h + n)
      BY <1>3, <1>4, <1>8, <3>1
    <3>5. /\ history' \in Seq(Envelopes) /\ Len(history') = h + n - d /\ Len(history') <= Capacity
          /\ \A i \in 1..(h + n - d) : history'[i] = kept[d + i]
          /\ \A e : e \in ToSet(history') <=> \E i \in (d + 1)..(h + n) : e = kept[i]
      BY <3>3, <3>4
    <3>6. QED
      BY <3>4, <3>5
  <2>2. CASE ~(Len(kept) > Capacity)
    <3>1. history' = kept
      BY <1>1, <2>2
    <3>2. /\ 0 \in 0..(h + n) /\ h + n - 0 = h + n /\ 0 + 1 = 1 /\ Len(kept) <= Capacity
          /\ \A i \in 1..(h + n) : 0 + i = i
      BY <1>3, <1>4, <1>8, <2>2
    <3>3. \A e : e \in ToSet(kept) <=> \E i \in (0 + 1)..(h + n) : e = kept[i]
      <4>1. ToSet(kept) = {kept[i] : i \in 1..(h + n)}
        BY <1>8, Places
      <4>2. QED
        BY <3>2, <4>1
    <3>4. \A i \in 1..(h + n - 0) : kept[i] = kept[0 + i]
      BY <3>2
    <3>5. Len(kept) = h + n - 0
      BY <1>8, <3>2
    <3>6. /\ 0 \in 0..(h + n) /\ kept \in Seq(Envelopes) /\ Len(kept) <= Capacity
      BY <1>8, <3>2
    <3>7. QED
      BY <3>1, <3>3, <3>4, <3>5, <3>6
  <2>3. QED
    BY <2>1, <2>2
<1>11. m \in Nat /\ m <= h + n
  BY <1>3, <1>10
<1>12. HistoryInv'
  <2>1. ASSUME NEW i \in 1..Len(history') PROVE history'[i].id = nextId' - 1 - Len(history') + i
    <3>1. m + i \in 1..(h + n) /\ i \in 1..(h + n - m)
      BY <1>3, <1>10, <1>11
    <3>2. history'[i].id = N - 1 - h + (m + i)
      BY <1>9, <1>10, <3>1
    <3>3. QED
      BY <1>3, <1>4, <1>10, <1>11, <3>2
  <2>2. Len(history') < nextId'
    BY <1>3, <1>4, <1>10, <1>11
  <2>3. QED
    BY <2>1, <2>2 DEF HistoryInv
<1>13. ToSet(history') \subseteq ToSet(history) \union ToSet(numbered)
  <2>1. ASSUME NEW i \in (m + 1)..(h + n) PROVE kept[i] \in ToSet(kept)
    <3>1. i \in 1..Len(kept)
      BY <1>3, <1>8, <1>11
    <3>2. QED
      BY <1>8, <3>1, Places
  <2>2. QED
    BY <1>8, <1>10, <2>1
\* What is dropped is older than all that is kept.
<1>14. ASSUME NEW e \in ToSet(history) \union ToSet(numbered), e \notin ToSet(history')
       PROVE  Evicted(e)'
  <2>1. PICK j \in 1..(h + n) : e = kept[j]
    BY <1>8, Places
  <2>2. j <= m
    BY <1>3, <1>10, <1>11, <1>14, <2>1
  <2>3. ASSUME NEW i \in 1..Len(history') PROVE history'[i].id > e.id
    <3>1. m + i \in 1..(h + n) /\ i \in 1..(h + n - m) /\ m + i > j
      BY <1>3, <1>10, <1>11, <2>1, <2>2
    <3>2. history'[i].id = N - 1 - h + (m + i) /\ e.id = N - 1 - h + j
      BY <1>9, <1>10, <2>1, <3>1
    <3>3. QED
      BY <1>3, <1>11, <2>1, <3>1, <3>2
  <2>4. DOMAIN history' = 1..Len(history')
    BY <1>10, Places
  <2>5. \A i \in DOMAIN history' : history'[i].id > e.id
    BY <2>3, <2>4
  <2>6. QED
    BY <2>5 DEF Evicted
<1>15. BusTypeOK'
  <2>1. Len(wire') <= MaxEvents /\ wire' \in Seq(Envelopes)
    <3>1. CASE open
      <4>1. wire' = wire \o sent
        BY <1>1, <3>1
      <4>2. /\ wire \o sent \in Seq(Envelopes) /\ Len(wire \o sent) = Len(wire) + Len(sent)
        <5>1. wire \in Seq(Envelopes) /\ sent \in Seq(Envelopes)
          BY <1>4
        <5>2. QED
          BY <5>1, ConcatProperties
      <4>3. QED
        BY <1>3, <1>4, <4>1, <4>2
    <3>2. CASE ~open
      BY <1>1, <1>2, <3>2 DEF BusTypeOK
    <3>3. QED
      BY <3>1, <3>2
  <2>2. nextId' \in 1..(MaxEvents + 1)
    BY <1>3, <1>4
  <2>3. due' \subseteq Envelopes
    BY <1>1, <1>2, <1>5 DEF BusTypeOK
  <2>4. QED
    BY <1>1, <1>2, <1>10, <2>1, <2>2, <2>3 DEF BusTypeOK
<1>16. ToSet(wire') \subseteq ToSet(wire) \union ToSet(numbered)
  <2>1. CASE open
    <3>1. ToSet(wire \o sent) = ToSet(wire) \union ToSet(sent)
      BY <1>4, Joined
    <3>2. QED
      BY <1>1, <2>1, <3>1
  <2>2. CASE ~open
    BY <1>1, <2>2
  <2>3. QED
    BY <2>1, <2>2
<1>17. KnownInv'
  <2>1. Known' \subseteq Known \union ToSet(numbered)
    BY <1>1, <1>13, <1>16 DEF Known
  <2>2. \A e \in Known : e.id \in Nat /\ e.id < N
    BY <1>2, <1>3, <1>4 DEF KnownInv
  <2>3. ASSUME NEW e \in Known', NEW f \in Known', e.id = f.id PROVE e = f
    <3>1. CASE e \in Known /\ f \in Known
      BY <1>2, <2>3, <3>1 DEF KnownInv
    <3>2. CASE e \in ToSet(numbered) /\ f \in ToSet(numbered)
      BY <1>7, <2>3, <3>2
    <3>3. ASSUME NEW x \in Known, NEW y \in ToSet(numbered) PROVE x.id # y.id
      BY <1>3, <1>6, <2>2
    <3>4. QED
      BY <2>1, <2>3, <3>1, <3>2, <3>3
  <2>4. ASSUME NEW e \in Known' PROVE e.id < nextId'
    <3>1. CASE e \in Known
      BY <1>3, <1>4, <2>2, <3>1
    <3>2. CASE e \in ToSet(numbered)
      BY <1>4, <1>6, <3>2
    <3>3. QED
      BY <2>1, <3>1, <3>2
  <2>5. QED
    BY <2>3, <2>4 DEF KnownInv
<1>18. /\ sent \in Seq(Envelopes) /\ Len(sent) = n /\ \A i \in 1..n : sent[i].id \in Nat /\ sent[i] \in ToSet(numbered)
  <2>1. ASSUME NEW i \in 1..n PROVE sent[i] \in ToSet(sent)
    BY <1>3, Places
  <2>2. QED
    BY <1>3, <1>6, <2>1
\* The slots of the events that were on the wire stay where they are.
<1>19. PICK b \in Nat : b = N - 1 - L
  <2>1. N - 1 - L \in Nat
    BY <1>3, <1>4
  <2>2. QED
    BY <2>1
<1>20. /\ \A i \in 1..L : InSlot(i) \/ Ahead(i) \/ Behind(i)
       /\ \A i \in Int : Slot(i) = b + i
       /\ nextId - 1 - Len(wire) = b
  BY <1>2, <1>3, <1>19 DEF WireInv, Slot
<1>21. ASSUME open
       PROVE  /\ wire' \in Seq(Envelopes) /\ Len(wire') = L + n
              /\ \A i \in 1..L : wire'[i] = wire[i]
              /\ \A i \in 1..n : wire'[L + i] = sent[i]
              /\ \A i \in Int : Slot(i)' = b + i
  <2>1. wire' = wire \o sent
    BY <1>1, <1>21
  <2>6. /\ wire \o sent \in Seq(Envelopes) /\ Len(wire \o sent) = Len(wire) + Len(sent)
        /\ \A i \in 1..Len(wire) : (wire \o sent)[i] = wire[i]
        /\ \A i \in 1..Len(sent) : (wire \o sent)[Len(wire) + i] = sent[i]
    <3>1. wire \in Seq(Envelopes) /\ sent \in Seq(Envelopes)
      BY <1>4, <1>18
    <3>2. wire \o sent \in Seq(Envelopes) /\ Len(wire \o sent) = Len(wire) + Len(sent)
      BY <3>1, Joined
    <3>3. \A i \in 1..Len(wire) : (wire \o sent)[i] = wire[i]
      BY <3>1, Joined
    <3>4. \A i \in 1..Len(sent) : (wire \o sent)[Len(wire) + i] = sent[i]
      BY <3>1, Joined
    <3>5. QED
      BY <3>2, <3>3, <3>4
  <2>2. /\ wire' \in Seq(Envelopes) /\ Len(wire') = Len(wire) + Len(sent)
        /\ \A i \in 1..Len(wire) : wire'[i] = wire[i]
        /\ \A i \in 1..Len(sent) : wire'[Len(wire) + i] = sent[i]
    BY <2>1, <2>6
  <2>3. nextId' - 1 - Len(wire') = b
    BY <1>3, <1>4, <1>18, <1>19, <2>2
  <2>4. \A i \in Int : Slot(i)' = b + i
    BY <2>3 DEF Slot
  <2>5. QED
    BY <1>3, <1>18, <2>2, <2>4
<1>22. ASSUME open, NEW i \in 1..L PROVE InSlot(i)' \/ Ahead(i)' \/ Behind(i)'
  <2>1. /\ wire'[i] = wire[i] /\ Slot(i) = b + i /\ Slot(i)' = b + i /\ i \in Int
    BY <1>3, <1>20, <1>21, <1>22
  <2>2. CASE InSlot(i)
    BY <2>1, <2>2 DEF InSlot
  <2>3. CASE Ahead(i)
    <3>3. i < L
      BY <1>3, <2>3 DEF Ahead
    <3>1. i + 1 \in 1..L /\ i < Len(wire') /\ wire'[i + 1] = wire[i + 1]
      <4>1. i + 1 \in 1..L /\ i < L + n
        BY <1>3, <1>22, <3>3
      <4>2. QED
        BY <1>21, <1>22, <4>1
    <3>2. QED
      BY <2>1, <2>3, <3>1 DEF Ahead
  <2>4. CASE Behind(i)
    <3>1. ASSUME i # 1 PROVE wire'[i - 1] = wire[i - 1]
      <4>1. i - 1 \in 1..L
        BY <3>1
      <4>2. QED
        BY <1>21, <1>22, <4>1
    <3>2. QED
      BY <2>1, <2>4, <3>1 DEF Behind
  <2>5. QED
    BY <1>20, <2>2, <2>3, <2>4
<1>23. ASSUME open, NEW j \in 1..n PROVE InSlot(L + j)' \/ Ahead(L + j)' \/ Behind(L + j)'
  <2>5. L + j \in Int /\ b + L = N - 1 /\ j \in Int
    BY <1>3, <1>19, <1>23
  <2>1. /\ wire'[L + j] = sent[j] /\ Slot(L + j)' = b + (L + j) /\ Len(wire') = L + n
    BY <1>21, <1>23, <2>5
  <2>2. CASE \A i \in 1..n : sent[i].id = N + i - 1
    <3>1. sent[j].id = b + (L + j)
      <4>1. sent[j].id = N + j - 1
        BY <1>23, <2>2
      <4>2. N + j - 1 = b + (L + j)
        BY <1>3, <1>19, <2>5
      <4>3. QED
        BY <4>1, <4>2
    <3>2. QED
      BY <2>1, <3>1 DEF InSlot
  <2>3. CASE /\ n = 2
             /\ sent[1].id = N + 1 /\ sent[1].type = "notification"
             /\ sent[2].id = N /\ sent[2].type = "activity"
    <3>1. /\ wire'[L + 1] = sent[1] /\ wire'[L + 2] = sent[2]
          /\ Slot(L + 1)' = b + (L + 1) /\ Slot(L + 2)' = b + (L + 2)
      BY <1>21, <1>23, <2>3
    <3>2. CASE j = 1
      <4>1. /\ L + j < Len(wire') /\ wire'[L + j].id = Slot(L + j)' + 1 /\ wire'[L + j].type = "notification"
            /\ (L + j) + 1 = L + 2 /\ wire'[L + 2].id = Slot(L + j)' /\ wire'[L + 2].type = "activity"
        BY <2>1, <2>3, <2>5, <3>1, <3>2
      <4>2. QED
        BY <4>1 DEF Ahead
    <3>3. CASE j = 2
      <4>1. /\ wire'[L + j].id = Slot(L + j)' - 1 /\ wire'[L + j].type = "activity"
            /\ (L + j) - 1 = L + 1 /\ wire'[L + 1].id = Slot(L + j)'
        <5>1. L + 2 - 1 = L + 1 /\ b + (L + 2) = N + 1 /\ N + 1 - 1 = N
          BY <1>3, <1>19, <2>5
        <5>2. wire'[L + j] = sent[2] /\ wire'[L + 1].id = N + 1 /\ Slot(L + j)' = N + 1 /\ (L + j) - 1 = L + 1
          BY <2>3, <3>1, <3>3, <5>1
        <5>3. QED
          BY <2>3, <5>1, <5>2
      <4>2. QED
        BY <4>1 DEF Behind
    <3>4. QED
      BY <1>23, <2>3, <3>2, <3>3
  <2>4. QED
    BY <1>3, <1>18, <2>2, <2>3
<1>24. WireInv'
  <2>1. CASE open
    <3>1. ASSUME NEW i \in 1..Len(wire') PROVE InSlot(i)' \/ Ahead(i)' \/ Behind(i)'
      <4>1. CASE i <= L
        BY <1>22, <2>1, <4>1
      <4>2. CASE i > L
        <5>1. i - L \in 1..n /\ L + (i - L) = i
          BY <1>21, <2>1, <4>2
        <5>2. QED
          BY <1>23, <2>1, <5>1
      <4>3. QED
        BY <4>1, <4>2
    <3>2. Len(wire') < nextId'
      BY <1>3, <1>4, <1>21, <2>1
    <3>3. QED
      BY <1>1, <2>1, <3>1, <3>2 DEF WireInv
  <2>2. CASE ~open
    <3>1. wire' = <<>> /\ wire = <<>>
      BY <1>1, <1>2, <2>2 DEF WireInv
    <3>2. Len(wire') = 0 /\ 0 < nextId'
      BY <1>3, <1>4, <3>1, EmptySeq
    <3>3. QED
      BY <3>1, <3>2 DEF WireInv
  <2>3. QED
    BY <2>1, <2>2
<1>25. Seen' \subseteq Seen
  BY <1>1, <1>13 DEF Seen
<1>26. SeenInv'
  <2>1. ~foreign' => last' < nextId'
    BY <1>1, <1>2, <1>3, <1>4 DEF SeenInv
  <2>2. CASE wire = <<>>
    <3>1. ASSUME wire' # <<>>
          PROVE  Slot(1)' = N /\ ~(wire'[1].id < Slot(1)') /\ (foreign \/ last < N)
      <4>1. open
        BY <1>1, <2>2, <3>1
      <4>2. L = 0 /\ 1 \in 1..n
        BY <1>3, <1>18, <1>21, <2>2, <3>1, <4>1, EmptySeq
      <4>3. wire'[1] = sent[1] /\ Slot(1)' = N
        BY <1>3, <1>19, <1>21, <4>1, <4>2
      <4>4. sent[1].id >= N /\ sent[1].id \in Nat
        BY <1>6, <1>18, <4>2
      <4>5. QED
        BY <1>2, <1>3, <4>3, <4>4 DEF SeenInv
    <3>2. QED
      BY <1>1, <1>2, <1>25, <2>1, <3>1 DEF SeenInv
  <2>3. CASE wire # <<>>
    <3>1. wire' # <<>> => wire'[1] = wire[1] /\ Slot(1)' = Slot(1)
      <4>1. 1 \in 1..L
        BY <1>3, <2>3, Basics
      <4>2. open
        BY <1>2, <2>3 DEF WireInv
      <4>3. QED
        BY <1>20, <1>21, <4>1, <4>2
    <3>2. CASE wire[1].id < Slot(1)
      <4>1. /\ ~foreign /\ last = Slot(1) /\ \A x \in Seen : x.id <= last
            /\ \A x \in ToSet(history) : x.id = last => x.type = "notification"
            /\ \A d \in due : d.id # last
        BY <1>2, <2>3, <3>2 DEF SeenInv
      <4>2. last < N
        BY <1>2, <1>3, <4>1 DEF SeenInv
      <4>3. \A x \in ToSet(numbered) : x.id # last
        BY <1>3, <1>4, <1>6, <4>2
      <4>4. \A x \in ToSet(history') : x.id = last => x.type = "notification"
        BY <1>13, <4>1, <4>3
      <4>5. \A d \in due' : d.id # last
        BY <1>1, <4>1, <4>3
      <4>6. wire' # <<>> => ~(wire'[1].id >= Slot(1)')
        <5>1. 1 \in 1..L
          BY <1>3, <2>3, Basics
        <5>2. wire[1].id \in Nat /\ Slot(1) \in Nat
          <6>1. wire[1].id \in Nat
            BY <1>3, <5>1, Basics
          <6>2. Slot(1) = b + 1
            BY <1>20
          <6>3. QED
            BY <6>1, <6>2
        <5>3. QED
          BY <3>1, <3>2, <5>2
      <4>7. \A x \in Seen' : x.id <= last
        BY <1>25, <4>1
      <4>8. QED
        BY <1>1, <2>1, <3>1, <4>1, <4>4, <4>5, <4>6, <4>7 DEF SeenInv
    <3>3. CASE ~(wire[1].id < Slot(1))
      BY <1>1, <1>2, <1>25, <2>1, <2>3, <3>1, <3>3 DEF SeenInv
    <3>4. QED
      BY <3>2, <3>3
  <2>4. QED
    BY <2>2, <2>3
<1>27. RepeatsAreNotifications'
  <2>1. CASE open
    <3>1. ASSUME NEW i \in 1..(L + n), wire'[i] \notin due' PROVE wire'[i].type = "notification"
      <4>1. CASE i <= L
        <5>1. wire'[i] = wire[i] /\ i \in DOMAIN wire /\ wire[i] \notin due
          BY <1>1, <1>3, <1>21, <2>1, <3>1, <4>1, Basics
        <5>2. QED
          BY <1>2, <5>1 DEF RepeatsAreNotifications
      <4>2. CASE i > L
        <5>1. i - L \in 1..n /\ L + (i - L) = i
          BY <4>2
        <5>2. wire'[i] \in ToSet(numbered)
          BY <1>18, <1>21, <2>1, <5>1
        <5>3. QED
          BY <1>1, <3>1, <5>2
      <4>3. QED
        BY <4>1, <4>2
    <3>2. DOMAIN wire' = 1..(L + n)
      BY <1>21, <2>1, Places
    <3>3. QED
      BY <3>1, <3>2 DEF RepeatsAreNotifications
  <2>2. CASE ~open
    BY <1>1, <1>2, <2>2 DEF RepeatsAreNotifications, WireInv
  <2>3. QED
    BY <2>1, <2>2
<1>28. BusInv'
  BY <1>12, <1>15, <1>17, <1>24, <1>26, <1>27 DEF BusInv
<1>29. ASSUME NEW e \in Lost' \ Lost
       PROVE  Evicted(e)' \/ (foreign' /\ e.id <= last')
  <2>1. e \in due'
    BY <1>29 DEF Lost
  <2>2. CASE open
    <3>1. e \notin ToSet(wire')
      BY <1>1, <1>29, <2>2 DEF Lost
    <3>2. ToSet(wire') = ToSet(wire) \union ToSet(numbered)
      BY <1>1, <1>4, <2>2, Joined
    <3>3. e \in Lost
      BY <1>1, <2>1, <2>2, <3>1, <3>2 DEF Lost
    <3>4. QED
      BY <1>29, <3>3
  <2>3. CASE ~open
    <3>1. ToSet(Replay(last)) = {x \in ToSet(history) : x.id > last}
      BY <1>2, ReplayFacts
    <3>2. ToSet(Replay(last))' = {x \in ToSet(history') : x.id > last'}
      <4>1. Replay(last)' = Newer(history', last')
        BY DEF Replay, Newer
      <4>2. /\ history' \in Seq(Envelopes) /\ last' \in Nat /\ nextId' \in Nat /\ Len(history') < nextId'
            /\ \A i \in 1..Len(history') : history'[i].id = nextId' - 1 - Len(history') + i
        <5>1. last' \in Nat /\ nextId' \in Nat
          BY <1>1, <1>3, <1>4
        <5>2. history' \in Seq(Envelopes)
          BY <1>10
        <5>3. QED
          BY <1>12, <5>1, <5>2 DEF HistoryInv
      <4>3. ToSet(Newer(history', last')) = {x \in ToSet(history') : x.id > last'}
        BY <4>2, NewerSet
      <4>4. QED
        BY <4>1, <4>3
    <3>3. e \notin ToSet(history') \/ ~(e.id > last)
      BY <1>1, <1>29, <2>1, <2>3, <3>2 DEF Lost
    <3>4. e \notin due \/ (e \in ToSet(history) /\ e.id > last)
      BY <1>29, <2>3, <3>1 DEF Lost
    <3>5. e \in ToSet(history) \union ToSet(numbered)
      BY <1>1, <2>1, <3>4
    <3>6. CASE e \notin ToSet(history')
      BY <1>14, <3>5, <3>6
    <3>7. CASE e \in ToSet(history')
      <4>1. ~(e.id > last) /\ e \notin due
        BY <3>3, <3>4, <3>7
      <4>2. e \in ToSet(numbered)
        BY <1>1, <2>1, <4>1
      <4>3. ~(last < N) /\ e.id <= last
        BY <1>3, <1>4, <1>6, <4>1, <4>2
      <4>4. foreign
        BY <1>2, <1>3, <4>3 DEF SeenInv
      <4>5. QED
        BY <1>1, <4>3, <4>4
    <3>8. QED
      BY <3>6, <3>7
  <2>4. QED
    BY <2>2, <2>3
<1>30. LossStep
  BY <1>29 DEF LossStep
<1>31. Grows(ToSet(numbered))
  <2>1. CASE open
    <3>1. ToSet(wire \o sent) = ToSet(wire) \union ToSet(sent)
      BY <1>4, Joined
    <3>2. QED
      BY <1>1, <2>1, <3>1 DEF Grows
  <2>2. CASE ~open
    BY <1>1, <2>2 DEF Grows
  <2>3. QED
    BY <2>1, <2>2
<1>32. QED
  BY <1>28, <1>30, <1>31

LEMMA PublishKeeps ==
  ASSUME BusInv, NEW types \in Seq(Types), Publish(types)
  PROVE  BusInv' /\ LossStep /\ Grows(ToSet(Numbered(types)))
<1>1. nextId \in Nat \ {0} /\ nextId + Len(Numbered(types)) - 1 <= MaxEvents
  BY Basics DEF Publish, Emit
<1>2. /\ Len(types) \in Nat /\ Len(Numbered(types)) = Len(types) /\ Numbered(types) \in Seq(Envelopes)
      /\ \A i \in 1..Len(types) : Numbered(types)[i] = [id |-> nextId + i - 1, type |-> types[i]]
  BY <1>1, NumberedFacts
<1>3. \A i \in 1..Len(Numbered(types)) : Numbered(types)[i].id = nextId + i - 1
  <2>1. ASSUME NEW i \in 1..Len(types) PROVE Numbered(types)[i].id = nextId + i - 1
    <3>1. Numbered(types)[i] = [id |-> nextId + i - 1, type |-> types[i]]
      BY <1>2
    <3>2. QED
      BY <3>1
  <2>2. QED
    BY <1>2, <2>1
<1>4. Emit(Numbered(types), Numbered(types))
  BY DEF Publish
<1>5. QED
  BY <1>2, <1>3, <1>4, EmitKeeps

LEMMA PublishActivityKeeps ==
  ASSUME BusInv, PublishActivity
  PROVE  BusInv' /\ LossStep /\ Grows({})
<1>1. {"activity", "notification"} \subseteq Types
  BY BusAssumption
<1>2. CASE Publish(<<"activity">>)
  <2>1. <<"activity">> \in Seq(Types)
    BY <1>1
  <2>2. QED
    BY <1>2, <2>1, PublishKeeps DEF Grows
<1>3. CASE LET pair == Numbered(<<"activity", "notification">>) IN Emit(pair, InnerFirst(pair))
  <2> DEFINE types == <<"activity", "notification">>
             pair == Numbered(types)
             sent == InnerFirst(pair)
  <2>1. types \in Seq(Types) /\ Len(types) = 2 /\ types[1] = "activity" /\ types[2] = "notification"
    BY <1>1
  <2>2. Emit(pair, sent)
    BY <1>3
  <2>3. nextId \in Nat \ {0} /\ nextId + Len(pair) - 1 <= MaxEvents
    BY <2>2, Basics DEF Emit
  <2>4. /\ Len(pair) = 2 /\ pair \in Seq(Envelopes)
        /\ \A i \in 1..2 : pair[i] = [id |-> nextId + i - 1, type |-> types[i]]
    <3> HIDE DEF types
    <3>1. QED
      BY <2>1, <2>3, NumberedFacts
  <2>5. /\ pair[1].id = nextId /\ pair[1].type = "activity"
        /\ pair[2].id = nextId + 1 /\ pair[2].type = "notification"
    BY <2>1, <2>3, <2>4
  <2> HIDE DEF pair, types
  <2>6. sent = [i \in 1..2 |-> pair[2 - i + 1]]
    BY <2>4 DEF InnerFirst, Reverse
  <2>7. /\ sent \in [1..2 -> Envelopes] /\ sent[1] = pair[2] /\ sent[2] = pair[1]
    <3>1. pair[1] \in Envelopes /\ pair[2] \in Envelopes
      BY <2>4, Places
    <3>2. \A i \in 1..2 : pair[2 - i + 1] \in Envelopes
      BY <3>1
    <3>3. QED
      BY <2>6, <3>2
  <2>8. sent \in Seq(Envelopes) /\ Len(sent) = 2
    BY <2>6, <2>7, IsASeq
  <2> HIDE DEF sent
  <2>9. ToSet(sent) = ToSet(pair)
    <3>1. ToSet(sent) = {sent[1], sent[2]}
      <4>1. ToSet(sent) = {sent[i] : i \in 1..2}
        BY <2>8, Places
      <4>2. QED
        BY <4>1
    <3>2. ToSet(pair) = {pair[1], pair[2]}
      <4>1. ToSet(pair) = {pair[i] : i \in 1..2}
        BY <2>4, Places
      <4>2. QED
        BY <4>1
    <3>3. QED
      BY <2>7, <3>1, <3>2
  <2>10. \A i \in 1..Len(pair) : pair[i].id = nextId + i - 1
    BY <2>4
  <2>11. BusInv' /\ LossStep /\ Grows(ToSet(pair))
    BY <2>2, <2>4, <2>5, <2>7, <2>8, <2>9, <2>10, EmitKeeps
  <2>12. QED
    BY <2>11 DEF Grows
<1>4. QED
  BY <1>2, <1>3 DEF PublishActivity

LEMMA BusBegins ==
  ASSUME BusInit
  PROVE  BusInv
<1>1. /\ nextId = 1 /\ history = <<>> /\ open = FALSE /\ wire = <<>> /\ last = 0 /\ foreign = FALSE /\ due = {}
  BY DEF BusInit
<1>2. /\ history \in Seq(Envelopes) /\ Len(history) = 0 /\ ToSet(history) = {}
      /\ wire \in Seq(Envelopes) /\ Len(wire) = 0 /\ ToSet(wire) = {} /\ DOMAIN wire = {}
  BY <1>1, EmptySeq DEF ToSet
<1>3. BusTypeOK
  <2>1. 1 \in 1..(MaxEvents + 1) /\ 0 \in 0..MaxEvents /\ 0 <= Capacity /\ 0 <= MaxEvents
    BY BusAssumption
  <2>2. QED
    BY <1>1, <1>2, <2>1 DEF BusTypeOK
<1>4. HistoryInv /\ WireInv
  BY <1>1, <1>2 DEF HistoryInv, WireInv
<1>5. KnownInv
  BY <1>1, <1>2 DEF KnownInv, Known
<1>6. SeenInv
  BY <1>1, <1>2 DEF SeenInv, Seen
<1>7. RepeatsAreNotifications
  BY <1>2 DEF RepeatsAreNotifications
<1>8. QED
  BY <1>3, <1>4, <1>5, <1>6, <1>7 DEF BusInv

-----------------------------------------------------------------------------
(* The two files.                                                          *)

Maps(K, V) == UNION {[S -> V] : S \in SUBSET K}

LEMMA MapFacts ==
  ASSUME NEW K, NEW V, NEW f \in Maps(K, V)
  PROVE  DOMAIN f \subseteq K /\ f \in [DOMAIN f -> V]
BY DEF Maps

LEMMA MapsMade == ASSUME NEW K, NEW V, NEW D \in SUBSET K, NEW g \in [D -> V] PROVE g \in Maps(K, V)
BY DEF Maps

LEMMA WithFacts ==
  ASSUME NEW K, NEW V, NEW f \in Maps(K, V), NEW x \in K, NEW v \in V
  PROVE  /\ With(f, x, v) \in Maps(K, V) /\ DOMAIN With(f, x, v) = DOMAIN f \union {x}
         /\ With(f, x, v)[x] = v
         /\ \A y \in DOMAIN f : y # x => With(f, x, v)[y] = f[y]
<1>1. DOMAIN f \subseteq K /\ f \in [DOMAIN f -> V]
  BY MapFacts
<1>2. With(f, x, v) \in [DOMAIN f \union {x} -> V] /\ DOMAIN f \union {x} \in SUBSET K
  BY <1>1 DEF With
<1>3. With(f, x, v) \in Maps(K, V)
  BY <1>2, MapsMade
<1>4. QED
  BY <1>3 DEF With

LEMMA WithoutFacts ==
  ASSUME NEW K, NEW V, NEW f \in Maps(K, V), NEW S
  PROVE  /\ Without(f, S) \in Maps(K, V) /\ DOMAIN Without(f, S) = DOMAIN f \ S
         /\ \A y \in DOMAIN f \ S : Without(f, S)[y] = f[y]
<1>1. DOMAIN f \subseteq K /\ f \in [DOMAIN f -> V]
  BY MapFacts
<1>2. Without(f, S) \in [DOMAIN f \ S -> V] /\ DOMAIN f \ S \in SUBSET K
  BY <1>1 DEF Without
<1>3. Without(f, S) \in Maps(K, V)
  BY <1>2, MapsMade
<1>4. QED
  BY <1>3 DEF Without

LEMMA RenamedFacts ==
  ASSUME NEW K, NEW V, NEW f \in Maps(K, V), NEW x \in DOMAIN f, NEW v \in V
  PROVE  [f EXCEPT ![x] = v] \in Maps(K, V) /\ DOMAIN [f EXCEPT ![x] = v] = DOMAIN f
<1>1. DOMAIN f \in SUBSET K /\ f \in [DOMAIN f -> V]
  BY MapFacts
<1>2. [f EXCEPT ![x] = v] \in [DOMAIN f -> V]
  BY <1>1
<1>3. QED
  BY <1>1, <1>2, MapsMade

LEMMA FileTypes == Catalogs = Maps(Statuses, Names) /\ Boards = Maps(Worktrees, Statuses)
BY DEF Catalogs, Boards, Maps

LEMMA CatalogWith ==
  ASSUME NEW c \in Catalogs, NEW s \in Statuses, NEW n \in Names
  PROVE  With(c, s, n) \in Catalogs /\ DOMAIN c \subseteq DOMAIN With(c, s, n)
<1>1. c \in Maps(Statuses, Names) /\ Catalogs = Maps(Statuses, Names)
  BY FileTypes
<1>2. DOMAIN c \subseteq Statuses /\ c \in [DOMAIN c -> Names]
  BY <1>1, MapFacts
<1>3. With(c, s, n) \in [DOMAIN c \union {s} -> Names] /\ DOMAIN c \union {s} \in SUBSET Statuses
  BY <1>2 DEF With
<1>4. With(c, s, n) \in Maps(Statuses, Names)
  BY <1>3, MapsMade
<1>5. QED
  BY <1>1, <1>3, <1>4

LEMMA EmptyFile == ASSUME NEW K, NEW V PROVE <<>> \in Maps(K, V) /\ DOMAIN <<>> = {}
<1>1. <<>> \in [{} -> V]
  OBVIOUS
<1>2. QED
  BY <1>1 DEF Maps

-----------------------------------------------------------------------------
(* The requests.                                                           *)

Phases == {"affected", "loadCatalog", "saveCatalog", "loadBoard", "saveBoard", "answer"}

\* The requests that come to a phase.
Ops(phase) ==
  CASE phase = "affected"    -> {"delete"}
    [] phase = "loadCatalog" -> {"create", "update", "delete", "assign"}
    [] phase = "saveCatalog" -> {"create", "update", "delete"}
    [] phase = "loadBoard"   -> {"assign", "delete", "clear"}
    [] phase = "saveBoard"   -> {"assign", "delete", "clear"}
    [] phase = "answer"      -> {"create", "update", "delete", "assign", "clear"}

RequestRecords ==
  [phase : Phases, op : {"create", "update", "delete", "assign", "clear"},
   id : Statuses \union {""}, name : Names \union {""}, tree : Worktrees \union {""},
   affected : SUBSET Worktrees, next : Catalogs \union Boards \union {<<>>}, stale : BOOLEAN]

Answers == [phase : {"answered"}, value : Catalogs, overtaken : BOOLEAN, older : SUBSET Fetches]

BoardTypes ==
  /\ catalog \in Catalogs /\ shown \in Catalogs /\ board \in Boards
  /\ req \in [Requests -> RequestRecords \union {NoRequest}]
  /\ fetch \in [Fetches -> Answers \union {NoFetch, [phase |-> "asked"]}]
  /\ requests \in 0..MaxRequests /\ failures \in 0..MaxFailures
  /\ excused \in BOOLEAN /\ torn \subseteq Worktrees

\* What a handler holds belongs to its phase, and what it is going to write
\* is made of the file as it is, unless somebody has written that since.
Holds(q) ==
  /\ q.op \in Ops(q.phase)
  /\ q.op \in {"update", "delete", "assign"} => q.id \in Statuses
  /\ q.op \in {"create", "update"} => q.name \in Names
  /\ q.op \in {"assign", "clear"} => q.tree \in Worktrees
  /\ q.phase = "saveCatalog" => q.next \in Catalogs
  /\ q.phase = "saveBoard" => q.next \in Boards

Cleared(q, b) == IF q.op = "delete" THEN OnStatus(b, q.id) ELSE {q.tree} \intersect DOMAIN b

Fresh(q, c, b) ==
  /\ q.phase = "saveCatalog" /\ ~q.stale =>
       IF q.op = "delete" THEN q.next = Without(c, {q.id})
       ELSE DOMAIN c \subseteq DOMAIN q.next
  /\ q.phase = "saveBoard" /\ ~q.stale =>
       q.next = IF q.op = "assign" THEN With(b, q.tree, q.id) ELSE Without(b, Cleared(q, b))

RequestInv ==
  \A r \in Requests : req[r] # NoRequest => Holds(req[r]) /\ Fresh(req[r], catalog, board)

\* Something on its way makes the tab ask for the catalog again.
Pipeline ==
  \/ \E f \in Fetches : fetch[f].phase = "asked"
  \/ \E e \in ToSet(wire) : e.type = "catalog"
  \/ ~open /\ \E e \in due : e.type = "catalog"
  \/ \E r \in Requests : Unannounced(r)

Current(f) == fetch[f].phase = "answered" /\ fetch[f].value = catalog

\* With nothing on its way, the catalog is shown or in an answer, and an
\* answer with an old catalog comes before one with the catalog.
FreshInv ==
  ~excused /\ ~Pipeline =>
    /\ shown = catalog \/ \E g \in Fetches : Current(g)
    /\ \A f \in Fetches : fetch[f].phase = "answered" =>
         \/ Current(f) \/ fetch[f].overtaken
         \/ \E g \in Fetches : Current(g) /\ f \in fetch[g].older

IInv == BusInv /\ BoardTypes /\ RequestInv /\ DanglingNeedsRace /\ FreshInv

\* A request is one of a phase, or none.
LEMMA RecordFacts ==
  ASSUME NEW q \in RequestRecords \union {NoRequest}
  PROVE  /\ q = NoRequest \/ q \in RequestRecords
         /\ q # NoRequest <=> q.phase \in Phases
         /\ q = NoRequest <=> q.phase = "none"
         /\ q.phase \in Phases => q \in RequestRecords
<1>1. NoRequest.phase = "none" /\ "none" \notin Phases
  BY DEF NoRequest, Phases
<1>2. q \in RequestRecords => q.phase \in Phases
  BY DEF RequestRecords
<1>3. QED
  BY <1>1, <1>2

LEMMA RequestFacts ==
  ASSUME BoardTypes, NEW r \in Requests
  PROVE  /\ req[r] = NoRequest \/ req[r] \in RequestRecords
         /\ req[r] # NoRequest <=> req[r].phase \in Phases
         /\ req[r] = NoRequest <=> req[r].phase = "none"
         /\ req[r].phase \in Phases => req[r] \in RequestRecords
<1>1. req[r] \in RequestRecords \union {NoRequest}
  BY DEF BoardTypes
<1>2. QED
  BY <1>1, RecordFacts

LEMMA FetchFacts ==
  ASSUME BoardTypes, NEW f \in Fetches
  PROVE  /\ \/ fetch[f] = NoFetch /\ fetch[f].phase = "none"
            \/ fetch[f] = [phase |-> "asked"] /\ fetch[f].phase = "asked"
            \/ fetch[f] \in Answers /\ fetch[f].phase = "answered"
<1>1. fetch[f] \in Answers \union {NoFetch, [phase |-> "asked"]}
  BY DEF BoardTypes
<1>2. NoFetch.phase = "none" /\ [phase |-> "asked"].phase = "asked"
  BY DEF NoFetch
<1>3. fetch[f] \in Answers => fetch[f].phase = "answered"
  BY DEF Answers
<1>4. QED
  BY <1>1, <1>2, <1>3

\* A catalog event on the wire is one the tab has not seen.
LEMMA CatalogIsDue ==
  ASSUME BusInv, NEW e \in ToSet(wire), e.type = "catalog"
  PROVE  e \in due
<1>1. PICK i \in DOMAIN wire : e = wire[i]
  BY DEF ToSet
<1>2. e \notin due => e.type = "notification"
  BY <1>1 DEF BusInv, RepeatsAreNotifications
<1>3. QED
  BY <1>2

\* Requests that stay as they are, or that a save makes stale.
Same(r) ==
  /\ req'[r] \in RequestRecords \union {NoRequest}
  /\ req'[r].phase = req[r].phase
  /\ req[r] # NoRequest =>
       /\ req'[r].op = req[r].op /\ req'[r].id = req[r].id /\ req'[r].name = req[r].name
       /\ req'[r].tree = req[r].tree /\ req'[r].next = req[r].next
       /\ req'[r].affected = req[r].affected
       /\ ~req'[r].stale => ~req[r].stale

LEMMA SameKeeps ==
  ASSUME BoardTypes, NEW r \in Requests, Same(r), req[r] # NoRequest, Holds(req[r])
  PROVE  Holds(req'[r])
BY DEF Same, Holds

LEMMA SameIsHalfDeleted ==
  ASSUME BoardTypes, NEW r \in Requests, Same(r)
  PROVE  /\ HalfDeleted(r) => HalfDeleted(r)' /\ req'[r].id = req[r].id
         /\ HalfDeleted(r)' => HalfDeleted(r)
         /\ Unannounced(r)' <=> Unannounced(r)
<1>1. req'[r] = NoRequest <=> req[r] = NoRequest
  <2>1. req[r] = NoRequest <=> req[r].phase = "none"
    BY RequestFacts
  <2>2. req'[r] = NoRequest <=> req'[r].phase = "none"
    BY RecordFacts DEF Same
  <2>3. QED
    BY <2>1, <2>2 DEF Same
<1>2. CASE req[r] = NoRequest
  BY <1>1, <1>2 DEF HalfDeleted, Unannounced, NoRequest
<1>3. CASE req[r] # NoRequest
  BY <1>1, <1>3 DEF Same, HalfDeleted, Unannounced
<1>4. QED
  BY <1>2, <1>3

\* A step of one request that writes nothing.
LEMMA OneRequest ==
  ASSUME BoardTypes, RequestInv, DanglingNeedsRace, NEW r \in Requests,
         NEW new \in RequestRecords \union {NoRequest},
         req' = [req EXCEPT ![r] = new], UNCHANGED <<catalog, board, torn>>,
         new # NoRequest => Holds(new) /\ Fresh(new, catalog, board),
         HalfDeleted(r) => (HalfDeleted(r)' /\ new.id = req[r].id) \/ OnStatus(board, req[r].id) = {}
  PROVE  /\ req' \in [Requests -> RequestRecords \union {NoRequest}]
         /\ RequestInv' /\ DanglingNeedsRace'
         /\ \A q \in Requests : q # r => (Unannounced(q) => Unannounced(q)')
<1>1. /\ req' \in [Requests -> RequestRecords \union {NoRequest}] /\ req'[r] = new
      /\ \A q \in Requests : q # r => req'[q] = req[q]
  BY DEF BoardTypes
<1>3. RequestInv'
  <2>1. ASSUME NEW q \in Requests, req'[q] # NoRequest
        PROVE  Holds(req'[q]) /\ Fresh(req'[q], catalog', board')
    <3>1. CASE q = r
      BY <1>1, <2>1, <3>1
    <3>2. CASE q # r
      <4>1. req'[q] = req[q] /\ Holds(req[q]) /\ Fresh(req[q], catalog, board)
        BY <1>1, <2>1, <3>2 DEF RequestInv
      <4>2. QED
        BY <4>1
    <3>3. QED
      BY <3>1, <3>2
  <2>2. QED
    BY <2>1 DEF RequestInv
<1>4. DanglingNeedsRace'
  <2>1. SUFFICES ASSUME NEW w \in Dangling \ torn
                 PROVE  \E q \in Requests : HalfDeleted(q)' /\ req'[q].id = board[w]
    BY DEF DanglingNeedsRace, Dangling
  <2>2. PICK q \in Requests : HalfDeleted(q) /\ req[q].id = board[w]
    BY <2>1 DEF DanglingNeedsRace
  <2>3. CASE q = r
    <3>1. w \in OnStatus(board, req[q].id)
      BY <2>1, <2>2 DEF Dangling, OnStatus
    <3>2. QED
      BY <1>1, <2>2, <2>3, <3>1
  <2>4. CASE q # r
    BY <1>1, <2>2, <2>4 DEF HalfDeleted
  <2>5. QED
    BY <2>3, <2>4
<1>5. \A q \in Requests : q # r => (Unannounced(q) => Unannounced(q)')
  BY <1>1 DEF Unannounced, HalfDeleted
<1>6. QED
  BY <1>1, <1>3, <1>4, <1>5

\* Nothing the tab waits for comes to an end, and nothing it shows changes.
LEMMA FreshStays ==
  ASSUME FreshInv, UNCHANGED <<catalog, fetch, shown>>, ~excused' => ~excused,
         ~excused' /\ ~Pipeline' => ~Pipeline
  PROVE  FreshInv'
BY DEF FreshInv, Current

LEMMA FreshStaysForRequests ==
  ASSUME FreshInv, UNCHANGED <<catalog, tabVars, busVars>>,
         \A q \in Requests : Unannounced(q) => Unannounced(q)'
  PROVE  FreshInv'
<1>1. ~Pipeline' => ~Pipeline
  BY DEF Pipeline, tabVars, busVars
<1>2. QED
  BY <1>1, FreshStays DEF tabVars

LEMMA OneRequestKeeps ==
  ASSUME IInv, NEW r \in Requests, NEW new \in RequestRecords \union {NoRequest},
         req' = [req EXCEPT ![r] = new],
         UNCHANGED <<busVars, catalog, board, torn, tabVars, failures>>, requests' \in 0..MaxRequests,
         new # NoRequest => Holds(new) /\ Fresh(new, catalog, board),
         HalfDeleted(r) => (HalfDeleted(r)' /\ new.id = req[r].id) \/ OnStatus(board, req[r].id) = {},
         Unannounced(r) => Unannounced(r)'
  PROVE  IInv' /\ LossStep
<1>1. BusInv /\ BoardTypes /\ RequestInv /\ DanglingNeedsRace /\ FreshInv
  BY DEF IInv
<1>2. /\ req' \in [Requests -> RequestRecords \union {NoRequest}]
      /\ RequestInv' /\ DanglingNeedsRace'
      /\ \A q \in Requests : q # r => (Unannounced(q) => Unannounced(q)')
  BY <1>1, OneRequest
<1>3. BusInv' /\ LossStep
  BY <1>1, BusStutters
<1>4. FreshInv'
  BY <1>1, <1>2, FreshStaysForRequests
<1>5. BoardTypes'
  BY <1>1, <1>2 DEF BoardTypes, tabVars
<1>6. QED
  BY <1>2, <1>3, <1>4, <1>5 DEF IInv

\* A request that is none or in an early phase is not half deleted.
LEMMA NotHalfDeleted ==
  ASSUME NEW r \in Requests, req[r].phase \in {"none", "affected", "loadCatalog", "saveCatalog"}
  PROVE  ~HalfDeleted(r) /\ ~Unannounced(r)
BY DEF HalfDeleted, Unannounced

LEMMA ArriveKeeps ==
  ASSUME IInv, NEW r \in Requests, Arrive(r)
  PROVE  IInv' /\ LossStep
<1>1. /\ req[r] = NoRequest /\ requests' = requests + 1 /\ requests < MaxRequests
      /\ UNCHANGED <<busVars, fileVars, tabVars, failures, torn>>
  BY DEF Arrive
<1>2. requests' \in 0..MaxRequests
  BY <1>1, BoardAssumption DEF IInv, BoardTypes
<1>3. ~HalfDeleted(r) /\ ~Unannounced(r)
  BY <1>1, NotHalfDeleted DEF NoRequest
<1>4. PICK op \in {"create", "update", "delete", "assign", "clear"}, phase \in {"loadCatalog", "affected", "loadBoard"},
           id \in Statuses \union {""}, name \in Names \union {""}, tree \in Worktrees \union {""} :
        /\ req' = [req EXCEPT ![r] = Request(op, phase, id, name, tree)]
        /\ op \in Ops(phase)
        /\ op \in {"update", "delete", "assign"} => id \in Statuses
        /\ op \in {"create", "update"} => name \in Names
        /\ op \in {"assign", "clear"} => tree \in Worktrees
  <2>1. /\ "create" \in Ops("loadCatalog") /\ "update" \in Ops("loadCatalog") /\ "delete" \in Ops("affected")
        /\ "assign" \in Ops("loadCatalog") /\ "clear" \in Ops("loadBoard")
    BY DEF Ops
  <2>2. CASE \E n \in Names : req' = [req EXCEPT ![r] = Request("create", "loadCatalog", "", n, "")]
    BY <2>1, <2>2
  <2>3. CASE \E s \in Statuses, n \in Names :
               req' = [req EXCEPT ![r] = Request("update", "loadCatalog", s, n, "")]
    BY <2>1, <2>3
  <2>4. CASE \E s \in Statuses : req' = [req EXCEPT ![r] = Request("delete", "affected", s, "", "")]
    BY <2>1, <2>4
  <2>5. CASE \E s \in Statuses, w \in Worktrees :
               req' = [req EXCEPT ![r] = Request("assign", "loadCatalog", s, "", w)]
    BY <2>1, <2>5
  <2>6. CASE \E w \in Worktrees : req' = [req EXCEPT ![r] = Request("clear", "loadBoard", "", "", w)]
    BY <2>1, <2>6
  <2>7. QED
    BY <2>2, <2>3, <2>4, <2>5, <2>6 DEF Arrive
<1> DEFINE new == Request(op, phase, id, name, tree)
<1>5. new \in RequestRecords
  BY DEF Request, RequestRecords, Phases
<1>6. Holds(new) /\ Fresh(new, catalog, board)
  BY <1>4 DEF Request, Holds, Fresh
<1> HIDE DEF new
<1>7. req' = [req EXCEPT ![r] = new]
  BY <1>4 DEF new
<1>8. QED
  BY <1>1, <1>2, <1>3, <1>5, <1>6, <1>7, OneRequestKeeps DEF fileVars

LEMMA NoteAffectedKeeps ==
  ASSUME IInv, NEW r \in Requests, NoteAffected(r)
  PROVE  IInv' /\ LossStep
<1> DEFINE new == [req[r] EXCEPT !.phase = "loadCatalog", !.affected = OnStatus(board, req[r].id)]
<1>1. /\ req[r].phase = "affected" /\ UNCHANGED <<busVars, fileVars, tabVars, requests, failures, torn>>
      /\ req' = [req EXCEPT ![r] = new]
  BY DEF NoteAffected
<1>2. BoardTypes /\ RequestInv
  BY DEF IInv
<1>3. ~HalfDeleted(r) /\ ~Unannounced(r)
  BY <1>1, NotHalfDeleted
<1>4. req[r] \in RequestRecords /\ req[r] # NoRequest
  BY <1>1, <1>2, RequestFacts DEF Phases
<1>5. OnStatus(board, req[r].id) \subseteq Worktrees
  BY <1>2, FileTypes, MapFacts DEF BoardTypes, OnStatus
<1>6. new \in RequestRecords
  BY <1>4, <1>5 DEF RequestRecords, Phases
<1>7. Holds(req[r])
  BY <1>2, <1>4 DEF RequestInv
<1>8. req[r].op = "delete"
  BY <1>1, <1>7 DEF Holds, Ops
<1>9. /\ new.phase = "loadCatalog" /\ new.op = "delete" /\ new.id = req[r].id
  BY <1>4, <1>8 DEF RequestRecords
<1>10. "delete" \in Ops("loadCatalog")
  BY DEF Ops
<1> HIDE DEF new
<1>11. Holds(new) /\ Fresh(new, catalog, board)
  BY <1>7, <1>8, <1>9, <1>10 DEF Holds, Fresh
<1>12. requests' \in 0..MaxRequests
  BY <1>1, <1>2 DEF BoardTypes
<1>13. QED
  BY <1>1, <1>3, <1>6, <1>11, <1>12, OneRequestKeeps DEF fileVars

LEMMA LoadCatalogKeeps ==
  ASSUME IInv, NEW r \in Requests, LoadCatalog(r)
  PROVE  IInv' /\ LossStep
<1>1. req[r].phase = "loadCatalog" /\ UNCHANGED <<busVars, fileVars, tabVars, requests, failures, torn>>
  BY DEF LoadCatalog
<1>2. BoardTypes /\ RequestInv
  BY DEF IInv
<1>3. ~HalfDeleted(r) /\ ~Unannounced(r)
  BY <1>1, NotHalfDeleted
<1>4. req[r] \in RequestRecords /\ req[r] # NoRequest
  BY <1>1, <1>2, RequestFacts DEF Phases
<1>5. Holds(req[r]) /\ req[r].op \in {"create", "update", "delete", "assign"}
  BY <1>1, <1>2, <1>4 DEF RequestInv, Holds, Ops
<1>6. requests' \in 0..MaxRequests
  BY <1>1, <1>2 DEF BoardTypes
<1>7. /\ "create" \in Ops("saveCatalog") /\ "update" \in Ops("saveCatalog") /\ "delete" \in Ops("saveCatalog")
      /\ "assign" \in Ops("loadBoard")
  BY DEF Ops
<1>8. catalog \in Maps(Statuses, Names) /\ Catalogs = Maps(Statuses, Names)
  BY <1>2, FileTypes DEF BoardTypes
<1>9. ASSUME NEW id \in Statuses, NEW next \in Catalogs, req[r].op \in {"create", "update", "delete"},
             req[r].op # "create" => id = req[r].id,
             IF req[r].op = "delete" THEN next = Without(catalog, {id}) ELSE DOMAIN catalog \subseteq DOMAIN next,
             req' = [req EXCEPT ![r] = [req[r] EXCEPT !.phase = "saveCatalog", !.id = id, !.next = next]]
      PROVE  IInv' /\ LossStep
  <2> DEFINE new == [req[r] EXCEPT !.phase = "saveCatalog", !.id = id, !.next = next]
  <2>1. new \in RequestRecords
    BY <1>4, <1>9 DEF RequestRecords, Phases
  <2>2. /\ new.phase = "saveCatalog" /\ new.id = id /\ new.next = next /\ new.op = req[r].op
        /\ new.name = req[r].name /\ new.tree = req[r].tree
    BY <1>4 DEF RequestRecords
  <2>3. req' = [req EXCEPT ![r] = new]
    BY <1>9
  <2> HIDE DEF new
  <2>4. Holds(new) /\ Fresh(new, catalog, board)
    BY <1>5, <1>7, <1>9, <2>2 DEF Holds, Fresh
  <2>5. QED
    BY <1>1, <1>3, <1>6, <2>1, <2>3, <2>4, OneRequestKeeps DEF fileVars
<1>10. CASE /\ req[r].op = "create"
            /\ \E s \in Statuses \ DOMAIN catalog :
                 req' = [req EXCEPT ![r].phase = "saveCatalog", ![r].id = s,
                                    ![r].next = With(catalog, s, req[r].name)]
  <2>1. PICK s \in Statuses : req' = [req EXCEPT ![r].phase = "saveCatalog", ![r].id = s,
                                                 ![r].next = With(catalog, s, req[r].name)]
    BY <1>10
  <2>5. req[r].name \in Names
    BY <1>5, <1>10 DEF Holds
  <2>2. /\ With(catalog, s, req[r].name) \in Catalogs
        /\ DOMAIN catalog \subseteq DOMAIN With(catalog, s, req[r].name)
    <3>1. catalog \in Catalogs
      BY <1>8
    <3>2. QED
      BY <2>5, <3>1, CatalogWith
  <2>3. req' = [req EXCEPT ![r] = [req[r] EXCEPT !.phase = "saveCatalog", !.id = s,
                                                 !.next = With(catalog, s, req[r].name)]]
    BY <2>1
  <2>4. QED
    BY <1>9, <1>10, <2>2, <2>3
<1>11. CASE /\ req[r].op = "update" /\ req[r].id \in DOMAIN catalog
            /\ req' = [req EXCEPT ![r].phase = "saveCatalog",
                                  ![r].next = [catalog EXCEPT ![req[r].id] = req[r].name]]
  <2>1. req[r].id \in Statuses
    BY <1>5, <1>11 DEF Holds
  <2>2. /\ [catalog EXCEPT ![req[r].id] = req[r].name] \in Catalogs
        /\ DOMAIN catalog \subseteq DOMAIN [catalog EXCEPT ![req[r].id] = req[r].name]
    BY <1>5, <1>8, <1>11, RenamedFacts DEF Holds
  <2>3. req' = [req EXCEPT ![r] = [req[r] EXCEPT !.phase = "saveCatalog", !.id = req[r].id,
                                                 !.next = [catalog EXCEPT ![req[r].id] = req[r].name]]]
    BY <1>4, <1>11 DEF RequestRecords
  <2>4. QED
    BY <1>9, <1>11, <2>1, <2>2, <2>3
<1>12. CASE /\ req[r].op = "delete" /\ req[r].id \in DOMAIN catalog
            /\ req' = [req EXCEPT ![r].phase = "saveCatalog", ![r].next = Without(catalog, {req[r].id})]
  <2>1. req[r].id \in Statuses
    BY <1>5, <1>12 DEF Holds
  <2>2. Without(catalog, {req[r].id}) \in Catalogs
    BY <1>8, WithoutFacts
  <2>3. req' = [req EXCEPT ![r] = [req[r] EXCEPT !.phase = "saveCatalog", !.id = req[r].id,
                                                 !.next = Without(catalog, {req[r].id})]]
    BY <1>4, <1>12 DEF RequestRecords
  <2>4. QED
    BY <1>9, <1>12, <2>1, <2>2, <2>3
<1>13. CASE /\ req[r].op = "assign" /\ req[r].id \in DOMAIN catalog
            /\ req' = [req EXCEPT ![r].phase = "loadBoard"]
  <2> DEFINE new == [req[r] EXCEPT !.phase = "loadBoard"]
  <2>1. new \in RequestRecords
    BY <1>4 DEF RequestRecords, Phases
  <2>2. /\ new.phase = "loadBoard" /\ new.id = req[r].id /\ new.op = req[r].op
        /\ new.name = req[r].name /\ new.tree = req[r].tree
    BY <1>4 DEF RequestRecords
  <2>3. req' = [req EXCEPT ![r] = new]
    BY <1>13
  <2> HIDE DEF new
  <2>4. Holds(new) /\ Fresh(new, catalog, board)
    BY <1>5, <1>7, <1>13, <2>2 DEF Holds, Fresh
  <2>5. QED
    BY <1>1, <1>3, <1>6, <2>1, <2>3, <2>4, OneRequestKeeps DEF fileVars
<1>14. CASE req' = [req EXCEPT ![r] = NoRequest]
  BY <1>1, <1>3, <1>6, <1>14, OneRequestKeeps DEF fileVars
<1>15. QED
  BY <1>10, <1>11, <1>12, <1>13, <1>14 DEF LoadCatalog

LEMMA LoadBoardKeeps ==
  ASSUME IInv, NEW r \in Requests, LoadBoard(r)
  PROVE  IInv' /\ LossStep
<1>1. req[r].phase = "loadBoard" /\ UNCHANGED <<busVars, fileVars, tabVars, requests, failures, torn>>
  BY DEF LoadBoard
<1>2. BoardTypes /\ RequestInv
  BY DEF IInv
<1>3. req[r] \in RequestRecords /\ req[r] # NoRequest
  BY <1>1, <1>2, RequestFacts DEF Phases
<1>4. Holds(req[r]) /\ req[r].op \in {"assign", "delete", "clear"}
  BY <1>1, <1>2, <1>3 DEF RequestInv, Holds, Ops
<1>5. requests' \in 0..MaxRequests
  BY <1>1, <1>2 DEF BoardTypes
<1>6. /\ {"assign", "delete", "clear"} \subseteq Ops("saveBoard")
      /\ {"assign", "delete", "clear"} \subseteq Ops("answer")
  BY DEF Ops
<1>7. board \in Maps(Worktrees, Statuses) /\ Boards = Maps(Worktrees, Statuses)
  BY <1>2, FileTypes DEF BoardTypes
<1>8. ToClear(req[r]) = IF req[r].op = "assign" THEN {} ELSE Cleared(req[r], board)
  BY <1>4 DEF ToClear, Cleared
<1>9. req \in [Requests -> RequestRecords \union {NoRequest}]
  BY <1>2 DEF BoardTypes
<1>10. ASSUME NEW next \in Boards,
              next = IF req[r].op = "assign" THEN With(board, req[r].tree, req[r].id)
                     ELSE Without(board, Cleared(req[r], board)),
              req' = [req EXCEPT ![r] = [req[r] EXCEPT !.phase = "saveBoard", !.next = next]]
       PROVE  IInv' /\ LossStep
  <2> DEFINE new == [req[r] EXCEPT !.phase = "saveBoard", !.next = next]
  <2>1. new \in RequestRecords
    BY <1>3, <1>10 DEF RequestRecords, Phases
  <2>2. /\ new.phase = "saveBoard" /\ new.id = req[r].id /\ new.next = next /\ new.op = req[r].op
        /\ new.name = req[r].name /\ new.tree = req[r].tree
    BY <1>3 DEF RequestRecords
  <2>3. req' = [req EXCEPT ![r] = new] /\ req'[r] = new
    BY <1>9, <1>10
  <2> HIDE DEF new
  <2>4. Cleared(new, board) = Cleared(req[r], board)
    BY <2>2 DEF Cleared
  <2>5. Holds(new) /\ Fresh(new, catalog, board)
    BY <1>4, <1>6, <1>10, <2>2, <2>4 DEF Holds, Fresh
  <2>6. new # NoRequest
    BY <2>1, <2>2, RecordFacts DEF Phases
  <2>7. HalfDeleted(r) => HalfDeleted(r)' /\ new.id = req[r].id
    BY <2>2, <2>3, <2>6 DEF HalfDeleted
  <2>8. Unannounced(r) => Unannounced(r)'
    BY <1>1, <2>7 DEF Unannounced
  <2>9. QED
    BY <1>1, <1>5, <2>1, <2>3, <2>5, <2>7, <2>8, OneRequestKeeps DEF fileVars
<1>11. CASE /\ req[r].op = "assign"
            /\ req' = [req EXCEPT ![r].phase = "saveBoard",
                                  ![r].next = With(board, req[r].tree, req[r].id)]
  <2>1. With(board, req[r].tree, req[r].id) \in Boards
    BY <1>4, <1>7, <1>11, WithFacts DEF Holds
  <2>2. req' = [req EXCEPT ![r] = [req[r] EXCEPT !.phase = "saveBoard",
                                                 !.next = With(board, req[r].tree, req[r].id)]]
    BY <1>11
  <2>3. QED
    BY <1>10, <1>11, <2>1, <2>2
<1>12. CASE /\ req[r].op # "assign"
            /\ req' = [req EXCEPT ![r].phase = "saveBoard", ![r].next = Without(board, ToClear(req[r]))]
  <2>1. ToClear(req[r]) = Cleared(req[r], board)
    BY <1>8, <1>12
  <2>2. Without(board, Cleared(req[r], board)) \in Boards
    BY <1>7, WithoutFacts
  <2>3. req' = [req EXCEPT ![r] = [req[r] EXCEPT !.phase = "saveBoard",
                                                 !.next = Without(board, Cleared(req[r], board))]]
    BY <1>12, <2>1
  <2>4. QED
    BY <1>10, <1>12, <2>2, <2>3
<1>13. CASE /\ req[r].op # "assign" /\ ToClear(req[r]) = {}
            /\ req' = [req EXCEPT ![r].phase = "answer"]
  <2> DEFINE new == [req[r] EXCEPT !.phase = "answer"]
  <2>1. new \in RequestRecords
    BY <1>3 DEF RequestRecords, Phases
  <2>2. /\ new.phase = "answer" /\ new.id = req[r].id /\ new.op = req[r].op
        /\ new.name = req[r].name /\ new.tree = req[r].tree
    BY <1>3 DEF RequestRecords
  <2>3. req' = [req EXCEPT ![r] = new] /\ req'[r] = new
    BY <1>9, <1>13
  <2> HIDE DEF new
  <2>4. Holds(new) /\ Fresh(new, catalog, board)
    BY <1>4, <1>6, <2>2 DEF Holds, Fresh
  <2>5. HalfDeleted(r) => OnStatus(board, req[r].id) = {}
    BY <1>8, <1>13 DEF HalfDeleted, Cleared
  <2>6. Unannounced(r) => Unannounced(r)'
    BY <1>1, <2>2, <2>3 DEF Unannounced, HalfDeleted
  <2>7. QED
    BY <1>1, <1>5, <2>1, <2>3, <2>4, <2>5, <2>6, OneRequestKeeps DEF fileVars
<1>14. QED
  BY <1>11, <1>12, <1>13 DEF LoadBoard

-----------------------------------------------------------------------------
(* A file is written.                                                      *)

LEMMA SavedFacts ==
  ASSUME BoardTypes, NEW r \in Requests, req[r].phase \in {"saveCatalog", "saveBoard"},
         NEW next \in Phases, req' = Saved(r, next)
  PROVE  /\ req' \in [Requests -> RequestRecords \union {NoRequest}] /\ req[r] \in RequestRecords
         /\ req[r] # NoRequest
         /\ req'[r] \in RequestRecords /\ req'[r] # NoRequest
         /\ req'[r].phase = next /\ req'[r].op = req[r].op
         /\ req'[r].id = req[r].id /\ req'[r].name = req[r].name /\ req'[r].tree = req[r].tree
         /\ \A q \in Requests : q # r => Same(q) /\ (req[q].phase = req[r].phase => req'[q].stale)
<1>1. req[r] \in RequestRecords /\ req[r] # NoRequest
  BY RequestFacts DEF Phases
<1>2. req'[r] = [req[r] EXCEPT !.phase = next, !.next = <<>>, !.stale = FALSE]
  BY DEF Saved
<1>3. /\ req'[r] \in RequestRecords /\ req'[r].phase = next /\ req'[r].op = req[r].op
      /\ req'[r].id = req[r].id /\ req'[r].name = req[r].name /\ req'[r].tree = req[r].tree
  BY <1>1, <1>2 DEF RequestRecords
<1>4. req'[r] # NoRequest
  BY <1>3, RecordFacts
<1>5. ASSUME NEW q \in Requests, q # r
      PROVE  Same(q) /\ (req[q].phase = req[r].phase => req'[q].stale)
  <2>1. CASE req[q].phase = req[r].phase
    <3>1. req[q] \in RequestRecords /\ req[q] # NoRequest
      BY <2>1, RequestFacts DEF Phases
    <3>2. req'[q] = [req[q] EXCEPT !.stale = TRUE]
      BY <1>5, <2>1 DEF Saved
    <3>3. /\ req'[q] \in RequestRecords /\ req'[q].phase = req[q].phase /\ req'[q].op = req[q].op
          /\ req'[q].id = req[q].id /\ req'[q].name = req[q].name /\ req'[q].tree = req[q].tree
          /\ req'[q].next = req[q].next /\ req'[q].affected = req[q].affected /\ req'[q].stale = TRUE
      BY <3>1, <3>2 DEF RequestRecords
    <3>4. QED
      BY <3>3 DEF Same
  <2>2. CASE req[q].phase # req[r].phase
    <3>1. req'[q] = req[q]
      BY <1>5, <2>2 DEF Saved
    <3>2. QED
      BY <2>2, <3>1 DEF Same, BoardTypes
  <2>3. QED
    BY <2>1, <2>2
<1>6. req' \in [Requests -> RequestRecords \union {NoRequest}]
  <2>1. \A q \in Requests : req'[q] \in RequestRecords \union {NoRequest}
    BY <1>3, <1>5 DEF Same
  <2>2. req' = [q \in Requests |-> req'[q]]
    BY DEF Saved
  <2>3. QED
    BY <2>1, <2>2
<1>7. QED
  BY <1>1, <1>3, <1>4, <1>5, <1>6

\* A write leaves worktrees on deleted statuses only by a race, or the
\* delete that leaves them is still at it.
LEMMA TornOrHalfDeleted ==
  ASSUME board' \in Boards, NEW race \in BOOLEAN, MarkTorn(race),
         ~race => \A w \in Dangling' \ torn :
                    \E q \in Requests : HalfDeleted(q)' /\ req'[q].id = board'[w]
  PROVE  DanglingNeedsRace' /\ torn' \subseteq Worktrees
<1>1. torn' = Dangling' \intersect (torn \union (IF race THEN Worktrees ELSE {}))
  BY DEF MarkTorn
<1>2. Dangling' \subseteq Worktrees
  BY FileTypes, MapFacts DEF Dangling
<1>3. CASE race
  <2>1. Dangling' \ torn' = {}
    BY <1>1, <1>2, <1>3
  <2>2. QED
    BY <1>1, <1>2, <2>1 DEF DanglingNeedsRace
<1>4. CASE ~race
  <2>1. torn' = Dangling' \intersect torn
    BY <1>1, <1>4
  <2>2. Dangling' \ torn' \subseteq Dangling' \ torn
    BY <2>1
  <2>3. ASSUME NEW w \in Dangling' \ torn' PROVE \E q \in Requests : HalfDeleted(q)' /\ req'[q].id = board'[w]
    BY <1>4, <2>2
  <2>4. QED
    BY <1>2, <2>1, <2>3 DEF DanglingNeedsRace
<1>5. QED
  BY <1>3, <1>4

LEMMA SaveCatalogKeeps ==
  ASSUME IInv, NEW r \in Requests, SaveCatalog(r)
  PROVE  IInv' /\ LossStep
<1> DEFINE next == IF req[r].op = "delete" THEN "loadBoard" ELSE "answer"
<1>1. /\ req[r].phase = "saveCatalog" /\ catalog' = req[r].next /\ req' = Saved(r, next)
      /\ UNCHANGED <<busVars, board, tabVars, requests, failures>> /\ MarkTorn(req[r].stale)
  BY DEF SaveCatalog
<1>2. BusInv /\ BoardTypes /\ RequestInv /\ DanglingNeedsRace
  BY DEF IInv
<1>3. next \in Phases
  BY DEF Phases
<1> HIDE DEF next
<1>4. /\ req' \in [Requests -> RequestRecords \union {NoRequest}] /\ req[r] \in RequestRecords
      /\ req[r] # NoRequest
      /\ req'[r] \in RequestRecords /\ req'[r] # NoRequest
      /\ req'[r].phase = next /\ req'[r].op = req[r].op
      /\ req'[r].id = req[r].id /\ req'[r].name = req[r].name /\ req'[r].tree = req[r].tree
      /\ \A q \in Requests : q # r => Same(q) /\ (req[q].phase = "saveCatalog" => req'[q].stale)
  BY <1>1, <1>2, <1>3, SavedFacts
<1>5. /\ Holds(req[r]) /\ Fresh(req[r], catalog, board) /\ req[r].op \in {"create", "update", "delete"}
      /\ req[r].next \in Catalogs
  BY <1>1, <1>2, <1>4 DEF RequestInv, Holds, Ops
<1>6. BusInv' /\ LossStep
  BY <1>1, <1>2, BusStutters
<1>7. RequestInv'
  <2>1. ASSUME NEW q \in Requests, req'[q] # NoRequest
        PROVE  Holds(req'[q]) /\ Fresh(req'[q], catalog', board')
    <3>1. CASE q = r
      <4>1. req[r].op \in Ops(next)
        BY <1>5 DEF Ops, next
      <4>2. next # "saveCatalog" /\ next # "saveBoard"
        BY DEF next
      <4>3. QED
        BY <1>4, <1>5, <3>1, <4>1, <4>2 DEF Holds, Fresh
    <3>2. CASE q # r
      <4>1. Same(q) /\ (req[q].phase = "saveCatalog" => req'[q].stale)
        BY <1>4, <3>2
      <4>2. req[q] # NoRequest
        BY <1>2, <2>1, <4>1, RequestFacts, RecordFacts DEF Same
      <4>3. Holds(req[q]) /\ Fresh(req[q], catalog, board)
        BY <1>2, <4>2 DEF RequestInv
      <4>4. Cleared(req'[q], board) = Cleared(req[q], board)
        BY <4>1, <4>2 DEF Cleared, Same
      <4>5. Fresh(req'[q], catalog', board')
        BY <1>1, <4>1, <4>2, <4>3, <4>4 DEF Fresh, Same
      <4>6. QED
        BY <1>2, <4>1, <4>2, <4>3, <4>5, SameKeeps
    <3>3. QED
      BY <3>1, <3>2
  <2>2. QED
    BY <2>1 DEF RequestInv
<1>8. catalog' \in Catalogs /\ board' = board /\ req[r].stale \in BOOLEAN /\ board \in Boards
  BY <1>1, <1>2, <1>4, <1>5 DEF RequestRecords, BoardTypes
<1>9. HalfDeleted(r)' <=> req[r].op = "delete"
  BY <1>4 DEF HalfDeleted, next
<1>10. ASSUME ~req[r].stale, NEW w \in Dangling' \ torn
       PROVE  \E q \in Requests : HalfDeleted(q)' /\ req'[q].id = board'[w]
  <2>1. ASSUME w \in Dangling
        PROVE  \E q \in Requests : HalfDeleted(q)' /\ req'[q].id = board'[w]
    <3>1. PICK q \in Requests : HalfDeleted(q) /\ req[q].id = board[w]
      BY <1>2, <1>10, <2>1 DEF DanglingNeedsRace
    <3>2. q # r
      BY <1>1, <3>1 DEF HalfDeleted
    <3>3. Same(q)
      BY <1>4, <3>2
    <3>4. QED
      BY <1>2, <1>8, <3>1, <3>3, SameIsHalfDeleted
  <2>2. w \in DOMAIN board /\ board[w] \notin DOMAIN catalog'
    BY <1>8, <1>10 DEF Dangling
  <2>3. CASE req[r].op = "delete"
    <3>1. catalog' = Without(catalog, {req[r].id})
      BY <1>1, <1>5, <1>10, <2>3 DEF Fresh
    <3>2. DOMAIN catalog' = DOMAIN catalog \ {req[r].id}
      BY <3>1 DEF Without
    <3>3. CASE board[w] = req[r].id
      BY <1>4, <1>8, <1>9, <2>3, <3>3
    <3>4. CASE board[w] # req[r].id
      BY <2>1, <2>2, <3>2, <3>4 DEF Dangling
    <3>5. QED
      BY <3>3, <3>4
  <2>4. CASE req[r].op # "delete"
    <3>1. DOMAIN catalog \subseteq DOMAIN catalog'
      BY <1>1, <1>5, <1>10, <2>4 DEF Fresh
    <3>2. QED
      BY <2>1, <2>2, <3>1 DEF Dangling
  <2>5. QED
    BY <2>3, <2>4
<1>11. DanglingNeedsRace' /\ torn' \subseteq Worktrees
  <2>1. board' \in Boards /\ catalog' \in Catalogs
    BY <1>8
  <2>2. QED
    BY <1>1, <1>8, <1>10, <2>1, TornOrHalfDeleted
<1>12. BoardTypes'
  BY <1>1, <1>2, <1>4, <1>8, <1>11 DEF BoardTypes, tabVars
<1>13. FreshInv'
  <2>1. Unannounced(r)'
    BY <1>4, <1>5, <1>9 DEF Unannounced, next
  <2>2. Pipeline'
    BY <2>1 DEF Pipeline
  <2>3. QED
    BY <2>2 DEF FreshInv
<1>14. QED
  BY <1>6, <1>7, <1>11, <1>12, <1>13 DEF IInv

LEMMA SaveBoardKeeps ==
  ASSUME IInv, NEW r \in Requests, SaveBoard(r)
  PROVE  IInv' /\ LossStep
<1> DEFINE race == req[r].stale \/ (req[r].op = "assign" /\ req[r].id \notin DOMAIN catalog)
<1>1. /\ req[r].phase = "saveBoard" /\ board' = req[r].next /\ req' = Saved(r, "answer")
      /\ UNCHANGED <<busVars, catalog, tabVars, requests, failures>> /\ MarkTorn(race)
  BY DEF SaveBoard
<1>2. BusInv /\ BoardTypes /\ RequestInv /\ DanglingNeedsRace /\ FreshInv
  BY DEF IInv
<1>3. "answer" \in Phases
  BY DEF Phases
<1>4. /\ req' \in [Requests -> RequestRecords \union {NoRequest}] /\ req[r] \in RequestRecords
      /\ req[r] # NoRequest
      /\ req'[r] \in RequestRecords /\ req'[r] # NoRequest
      /\ req'[r].phase = "answer" /\ req'[r].op = req[r].op
      /\ req'[r].id = req[r].id /\ req'[r].name = req[r].name /\ req'[r].tree = req[r].tree
      /\ \A q \in Requests : q # r => Same(q) /\ (req[q].phase = "saveBoard" => req'[q].stale)
  BY <1>1, <1>2, <1>3, SavedFacts
<1>5. /\ Holds(req[r]) /\ Fresh(req[r], catalog, board) /\ req[r].op \in {"assign", "delete", "clear"}
      /\ req[r].next \in Boards
  BY <1>1, <1>2, <1>4 DEF RequestInv, Holds, Ops
<1>6. BusInv' /\ LossStep
  BY <1>1, <1>2, BusStutters
<1>7. RequestInv'
  <2>1. ASSUME NEW q \in Requests, req'[q] # NoRequest
        PROVE  Holds(req'[q]) /\ Fresh(req'[q], catalog', board')
    <3>1. CASE q = r
      <4>1. req[r].op \in Ops("answer")
        BY <1>5 DEF Ops
      <4>2. QED
        BY <1>4, <1>5, <3>1, <4>1 DEF Holds, Fresh
    <3>2. CASE q # r
      <4>1. Same(q) /\ (req[q].phase = "saveBoard" => req'[q].stale)
        BY <1>4, <3>2
      <4>2. req[q] # NoRequest
        BY <1>2, <2>1, <4>1, RequestFacts, RecordFacts DEF Same
      <4>3. Holds(req[q]) /\ Fresh(req[q], catalog, board)
        BY <1>2, <4>2 DEF RequestInv
      <4>4. Fresh(req'[q], catalog', board')
        BY <1>1, <4>1, <4>2, <4>3 DEF Fresh, Same
      <4>5. QED
        BY <1>2, <4>1, <4>2, <4>3, <4>4, SameKeeps
    <3>3. QED
      BY <3>1, <3>2
  <2>2. QED
    BY <2>1 DEF RequestInv
<1>8. board' \in Boards /\ catalog' = catalog /\ race \in BOOLEAN
      /\ board \in Maps(Worktrees, Statuses) /\ board' \in Maps(Worktrees, Statuses)
  BY <1>1, <1>2, <1>4, <1>5, FileTypes DEF RequestRecords, BoardTypes
<1>9. ASSUME ~race, NEW w \in Dangling' \ torn
      PROVE  \E q \in Requests : HalfDeleted(q)' /\ req'[q].id = board'[w]
  <2>1. w \in DOMAIN board' /\ board'[w] \notin DOMAIN catalog
    BY <1>8, <1>9 DEF Dangling
  <2>2. /\ w \in DOMAIN board /\ board'[w] = board[w]
        /\ HalfDeleted(r) => board[w] # req[r].id
    <3>1. CASE req[r].op = "assign"
      <4>1. board' = With(board, req[r].tree, req[r].id)
        BY <1>1, <1>5, <1>9, <3>1 DEF Fresh
      <4>2. req[r].tree \in Worktrees /\ req[r].id \in Statuses /\ req[r].id \in DOMAIN catalog
        BY <1>5, <1>9, <3>1 DEF Holds
      <4>3. /\ DOMAIN board' = DOMAIN board \union {req[r].tree} /\ board'[req[r].tree] = req[r].id
            /\ \A y \in DOMAIN board : y # req[r].tree => board'[y] = board[y]
        BY <1>8, <4>1, <4>2, WithFacts
      <4>4. w # req[r].tree
        BY <2>1, <4>2, <4>3
      <4>5. QED
        BY <2>1, <3>1, <4>3, <4>4 DEF HalfDeleted
    <3>2. CASE req[r].op # "assign"
      <4>1. board' = Without(board, Cleared(req[r], board))
        BY <1>1, <1>5, <1>9, <3>2 DEF Fresh
      <4>2. /\ DOMAIN board' = DOMAIN board \ Cleared(req[r], board)
            /\ \A y \in DOMAIN board \ Cleared(req[r], board) : board'[y] = board[y]
        <5>1. board \in Maps(Worktrees, Statuses)
          BY <1>8
        <5>2. /\ DOMAIN Without(board, Cleared(req[r], board)) = DOMAIN board \ Cleared(req[r], board)
              /\ \A y \in DOMAIN board \ Cleared(req[r], board) :
                   Without(board, Cleared(req[r], board))[y] = board[y]
          <6> DEFINE S == Cleared(req[r], board)
          <6> HIDE DEF S
          <6>1. /\ DOMAIN Without(board, S) = DOMAIN board \ S
                /\ \A y \in DOMAIN board \ S : Without(board, S)[y] = board[y]
            BY <5>1, WithoutFacts
          <6>2. QED
            BY <6>1 DEF S
        <5>3. QED
          BY <4>1, <5>2
      <4>3. HalfDeleted(r) => Cleared(req[r], board) = OnStatus(board, req[r].id)
        BY DEF HalfDeleted, Cleared
      <4>4. QED
        BY <2>1, <4>2, <4>3 DEF OnStatus
    <3>3. QED
      BY <3>1, <3>2
  <2>3. w \in Dangling \ torn
    BY <1>9, <2>1, <2>2 DEF Dangling
  <2>4. PICK q \in Requests : HalfDeleted(q) /\ req[q].id = board[w]
    BY <1>2, <2>3 DEF DanglingNeedsRace
  <2>5. q # r
    BY <2>2, <2>4
  <2>6. Same(q)
    BY <1>4, <2>5
  <2>7. QED
    BY <1>2, <2>2, <2>4, <2>6, SameIsHalfDeleted
<1>10. DanglingNeedsRace' /\ torn' \subseteq Worktrees
  BY <1>1, <1>8, <1>9, TornOrHalfDeleted
<1>11. BoardTypes'
  BY <1>1, <1>2, <1>4, <1>8, <1>10 DEF BoardTypes, tabVars
<1>12. FreshInv'
  <2>1. ASSUME NEW q \in Requests, Unannounced(q) PROVE Unannounced(q)'
    <3>1. CASE q = r
      BY <1>1, <1>4, <2>1, <3>1 DEF Unannounced, HalfDeleted
    <3>2. CASE q # r
      BY <1>2, <1>4, <2>1, <3>2, SameIsHalfDeleted
    <3>3. QED
      BY <3>1, <3>2
  <2>2. QED
    BY <1>1, <1>2, <2>1, FreshStaysForRequests
<1>13. QED
  BY <1>6, <1>7, <1>10, <1>11, <1>12 DEF IInv

\* Requests that end without having written what they were to write.
LEMMA RequestsEnd ==
  ASSUME IInv, NEW R \in SUBSET Requests,
         req' = [q \in Requests |-> IF q \in R THEN NoRequest ELSE req[q]],
         UNCHANGED fileVars, NEW race \in BOOLEAN, MarkTorn(race),
         ~race => \A q \in R : ~HalfDeleted(q)
  PROVE  /\ req' \in [Requests -> RequestRecords \union {NoRequest}]
         /\ RequestInv' /\ DanglingNeedsRace' /\ torn' \subseteq Worktrees
<1>1. BoardTypes /\ RequestInv /\ DanglingNeedsRace /\ catalog' = catalog /\ board' = board
  BY DEF IInv, fileVars
<1>2. \A q \in Requests : req'[q] = IF q \in R THEN NoRequest ELSE req[q]
  OBVIOUS
<1>3. req' \in [Requests -> RequestRecords \union {NoRequest}]
  BY <1>1 DEF BoardTypes
<1>4. RequestInv'
  <2>1. ASSUME NEW q \in Requests, req'[q] # NoRequest
        PROVE  Holds(req'[q]) /\ Fresh(req'[q], catalog', board')
    <3>1. req'[q] = req[q] /\ req[q] # NoRequest
      BY <1>2, <2>1
    <3>2. Holds(req[q]) /\ Fresh(req[q], catalog, board)
      BY <1>1, <3>1 DEF RequestInv
    <3>3. QED
      BY <1>1, <3>1, <3>2
  <2>2. QED
    BY <2>1 DEF RequestInv
<1>5. ASSUME ~race, NEW w \in Dangling' \ torn
      PROVE  \E q \in Requests : HalfDeleted(q)' /\ req'[q].id = board'[w]
  <2>1. w \in Dangling \ torn
    BY <1>1, <1>5 DEF Dangling
  <2>2. PICK q \in Requests : HalfDeleted(q) /\ req[q].id = board[w]
    BY <1>1, <2>1 DEF DanglingNeedsRace
  <2>3. req'[q] = req[q]
    BY <1>2, <1>5, <2>2
  <2>4. QED
    BY <1>1, <2>2, <2>3 DEF HalfDeleted
<1>6. DanglingNeedsRace' /\ torn' \subseteq Worktrees
  <2>1. board' \in Boards
    BY <1>1 DEF BoardTypes
  <2>2. QED
    BY <1>5, <2>1, TornOrHalfDeleted
<1>7. QED
  BY <1>3, <1>4, <1>6

LEMMA SaveFailsKeeps ==
  ASSUME IInv, NEW r \in Requests, SaveFails(r)
  PROVE  IInv' /\ LossStep
<1>1. /\ req[r].phase \in {"saveCatalog", "saveBoard"} /\ failures < MaxFailures /\ failures' = failures + 1
      /\ req' = [req EXCEPT ![r] = NoRequest] /\ excused' = (excused \/ HalfDeleted(r))
      /\ UNCHANGED <<busVars, fileVars, fetch, shown, requests>> /\ MarkTorn(HalfDeleted(r))
  BY DEF SaveFails
<1>2. BusInv /\ BoardTypes /\ FreshInv
  BY DEF IInv
<1>3. HalfDeleted(r) \in BOOLEAN /\ excused' \in BOOLEAN
  <2>1. HalfDeleted(r) \in BOOLEAN
    BY DEF HalfDeleted
  <2>2. (excused \/ HalfDeleted(r)) \in BOOLEAN
    OBVIOUS
  <2>3. QED
    BY <1>1, <2>1, <2>2
<1>4. req' = [q \in Requests |-> IF q \in {r} THEN NoRequest ELSE req[q]]
  BY <1>1, <1>2 DEF BoardTypes
<1>5. /\ req' \in [Requests -> RequestRecords \union {NoRequest}]
      /\ RequestInv' /\ DanglingNeedsRace' /\ torn' \subseteq Worktrees
  BY <1>1, <1>3, <1>4, RequestsEnd
<1>6. BusInv' /\ LossStep
  BY <1>1, <1>2, BusStutters
<1>7. BoardTypes'
  <2>1. failures' \in 0..MaxFailures
    BY <1>1, <1>2, BoardAssumption DEF BoardTypes
  <2>2. QED
    BY <1>1, <1>2, <1>3, <1>5, <2>1 DEF BoardTypes, fileVars
<1>8. FreshInv'
  <2>1. ASSUME ~excused' PROVE ~excused /\ ~Unannounced(r)
    BY <1>1, <2>1 DEF Unannounced
  <2>2. ASSUME ~excused', ~Pipeline' PROVE ~Pipeline
    <3>1. \A q \in Requests : q # r => (Unannounced(q) => Unannounced(q)')
      BY <1>4 DEF Unannounced, HalfDeleted
    <3>2. \A q \in Requests : ~Unannounced(q)
      BY <2>1, <2>2, <3>1 DEF Pipeline
    <3>3. QED
      BY <1>1, <2>2, <3>2 DEF Pipeline, busVars
  <2>3. QED
    BY <1>1, <1>2, <2>1, <2>2, FreshStays DEF fileVars
<1>9. QED
  BY <1>5, <1>6, <1>7, <1>8 DEF IInv

-----------------------------------------------------------------------------
(* What is told to the tab.                                                *)

LEMMA AnswerKeeps ==
  ASSUME IInv, NEW r \in Requests, Answer(r)
  PROVE  IInv' /\ LossStep
<1> DEFINE changed == CASE req[r].op \in {"create", "update"} -> <<"catalog">>
                        [] req[r].op \in {"assign", "clear"}  -> <<"board">>
                        [] req[r].op = "delete" ->
                             <<"catalog">> \o [w \in 1..Cardinality(req[r].affected) |-> "board"]
<1>1. /\ req[r].phase = "answer" /\ Publish(changed) /\ req' = [req EXCEPT ![r] = NoRequest]
      /\ UNCHANGED <<fileVars, tabVars, requests, failures, torn>>
  BY DEF Answer
<1>2. BusInv /\ BoardTypes /\ RequestInv /\ DanglingNeedsRace /\ FreshInv
  BY DEF IInv
<1>3. req[r] \in RequestRecords /\ req[r] # NoRequest
  BY <1>1, <1>2, RequestFacts DEF Phases
<1>4. {"catalog", "board"} \subseteq Types
  BY BoardAssumption
<1>5. req[r].op \in {"create", "update", "delete", "assign", "clear"} /\ req[r].affected \in SUBSET Worktrees
  BY <1>3 DEF RequestRecords
<1>6. /\ changed \in Seq(Types)
      /\ req[r].op \in {"create", "update", "delete"} => Len(changed) >= 1 /\ changed[1] = "catalog"
  <2>1. CASE req[r].op \in {"create", "update"}
    <3>1. changed = <<"catalog">>
      BY <2>1
    <3>2. <<"catalog">> \in Seq(Types) /\ Len(<<"catalog">>) = 1 /\ <<"catalog">>[1] = "catalog"
      BY <1>4
    <3> HIDE DEF changed
    <3>3. QED
      BY <3>1, <3>2
  <2>2. CASE req[r].op \in {"assign", "clear"}
    <3>1. changed = <<"board">>
      BY <2>2
    <3>2. QED
      BY <1>4, <2>2, <3>1
  <2>3. CASE req[r].op = "delete"
    <3> DEFINE n == Cardinality(req[r].affected)
               t == [w \in 1..n |-> "board"]
    <3>1. changed = <<"catalog">> \o t
      BY <2>3
    <3>2. n \in Nat
      BY <1>5, BoardAssumption, FS_Subset, FS_CardinalityType
    <3>3. t \in Seq(Types)
      <4>1. t \in [1..n -> Types]
        BY <1>4
      <4>2. QED
        BY <3>2, <4>1, IsASeq
    <3> HIDE DEF t
    <3>4. <<"catalog">> \in Seq(Types) /\ Len(<<"catalog">>) = 1 /\ <<"catalog">>[1] = "catalog"
      BY <1>4
    <3>5. /\ <<"catalog">> \o t \in Seq(Types) /\ Len(<<"catalog">> \o t) = 1 + Len(t) /\ Len(t) \in Nat
          /\ (<<"catalog">> \o t)[1] = "catalog"
      <4> DEFINE s == <<"catalog">>
      <4>1. s \in Seq(Types) /\ Len(s) = 1 /\ s[1] = "catalog" /\ 1 \in 1..1
        BY <3>4
      <4> HIDE DEF s
      <4>2. /\ s \o t \in Seq(Types) /\ Len(s \o t) = Len(s) + Len(t) /\ Len(t) \in Nat
            /\ \A i \in 1..Len(s) : (s \o t)[i] = s[i]
        BY <3>3, <4>1, Joined
      <4>3. QED
        BY <4>1, <4>2 DEF s
    <3> HIDE DEF changed
    <3>6. QED
      BY <3>1, <3>5
  <2>4. QED
    BY <1>5, <2>1, <2>2, <2>3
<1> HIDE DEF changed
<1>7. BusInv' /\ LossStep /\ Grows(ToSet(Numbered(changed)))
  BY <1>1, <1>2, <1>6, PublishKeeps
<1>8. ~HalfDeleted(r)
  BY <1>1 DEF HalfDeleted
<1>9. /\ req' \in [Requests -> RequestRecords \union {NoRequest}]
      /\ RequestInv' /\ DanglingNeedsRace'
      /\ \A q \in Requests : q # r => (Unannounced(q) => Unannounced(q)')
  BY <1>1, <1>2, <1>8, OneRequest DEF fileVars
<1>10. BoardTypes'
  BY <1>1, <1>2, <1>9 DEF BoardTypes, tabVars, fileVars
<1>11. Unannounced(r) => \E e \in ToSet(Numbered(changed)) : e.type = "catalog"
  <2>1. SUFFICES ASSUME Unannounced(r) PROVE \E e \in ToSet(Numbered(changed)) : e.type = "catalog"
    OBVIOUS
  <2>2. req[r].op \in {"create", "update", "delete"}
    BY <1>8, <2>1 DEF Unannounced
  <2>3. nextId \in Nat \ {0} /\ nextId + Len(Numbered(changed)) - 1 <= MaxEvents
    BY <1>1, <1>2, Basics DEF Publish, Emit
  <2>4. /\ Len(changed) \in Nat /\ Len(Numbered(changed)) = Len(changed) /\ Numbered(changed) \in Seq(Envelopes)
        /\ \A i \in 1..Len(changed) : Numbered(changed)[i] = [id |-> nextId + i - 1, type |-> changed[i]]
    BY <1>6, <2>3, NumberedFacts
  <2>5. 1 \in 1..Len(changed)
    BY <1>6, <2>2, <2>4
  <2>6. Numbered(changed)[1].type = "catalog"
    <3>1. Numbered(changed)[1] = [id |-> nextId + 1 - 1, type |-> changed[1]]
      BY <2>4, <2>5
    <3>2. changed[1] = "catalog"
      BY <1>6, <2>2
    <3>3. QED
      BY <3>1, <3>2
  <2>7. Numbered(changed)[1] \in ToSet(Numbered(changed))
    BY <2>4, <2>5, Places
  <2>8. QED
    BY <2>6, <2>7
<1>12. ~Pipeline' => ~Pipeline
  BY <1>1, <1>7, <1>9, <1>11 DEF Pipeline, Grows, tabVars
<1>13. FreshInv'
  BY <1>1, <1>2, <1>12, FreshStays DEF fileVars, tabVars
<1>14. QED
  BY <1>7, <1>9, <1>10, <1>13 DEF IInv

\* Neither requests nor the files change.
LEMMA RequestsStay ==
  ASSUME IInv, UNCHANGED <<fileVars, req, torn>>
  PROVE  /\ RequestInv' /\ DanglingNeedsRace'
         /\ \A q \in Requests : Unannounced(q)' <=> Unannounced(q)
<1>1. RequestInv /\ DanglingNeedsRace
  BY DEF IInv
<1>2. RequestInv'
  BY <1>1 DEF RequestInv, fileVars
<1>3. DanglingNeedsRace'
  BY <1>1 DEF DanglingNeedsRace, Dangling, HalfDeleted, fileVars
<1>4. \A q \in Requests : Unannounced(q)' <=> Unannounced(q)
  BY DEF Unannounced, HalfDeleted
<1>5. QED
  BY <1>2, <1>3, <1>4

LEMMA AgentActivityKeeps ==
  ASSUME IInv, AgentActivity
  PROVE  IInv' /\ LossStep
<1>1. PublishActivity /\ UNCHANGED <<fileVars, req, tabVars, requests, failures, torn>>
  BY DEF AgentActivity
<1>2. BusInv /\ BoardTypes /\ FreshInv
  BY DEF IInv
<1>3. BusInv' /\ LossStep /\ Grows({})
  BY <1>1, <1>2, PublishActivityKeeps
<1>4. RequestInv' /\ DanglingNeedsRace' /\ \A q \in Requests : Unannounced(q)' <=> Unannounced(q)
  BY <1>1, RequestsStay
<1>5. BoardTypes'
  BY <1>1, <1>2 DEF BoardTypes, tabVars, fileVars
<1>6. ~Pipeline' => ~Pipeline
  BY <1>1, <1>3, <1>4 DEF Pipeline, Grows, tabVars
<1>7. FreshInv'
  BY <1>1, <1>2, <1>6, FreshStays DEF fileVars, tabVars
<1>8. QED
  BY <1>3, <1>4, <1>5, <1>7 DEF IInv

-----------------------------------------------------------------------------
(* The tab.                                                                *)

LEMMA TabConnectsKeeps ==
  ASSUME IInv, TabConnects
  PROVE  IInv' /\ LossStep
<1>1. /\ Connect /\ excused' = (excused \/ \E e \in Lost : e.type = "catalog")
      /\ UNCHANGED <<fileVars, req, fetch, shown, requests, failures, torn>>
  BY DEF TabConnects
<1>2. BusInv /\ BoardTypes /\ FreshInv
  BY DEF IInv
<1>3. BusInv' /\ LossStep
  BY <1>1, <1>2, ConnectKeeps
<1>4. RequestInv' /\ DanglingNeedsRace' /\ \A q \in Requests : Unannounced(q)' <=> Unannounced(q)
  BY <1>1, RequestsStay
<1>5. BoardTypes'
  <2>1. (excused \/ \E e \in Lost : e.type = "catalog") \in BOOLEAN
    OBVIOUS
  <2>2. excused' \in BOOLEAN
    BY <1>1, <2>1
  <2>3. QED
    BY <1>1, <1>2, <2>2 DEF BoardTypes, fileVars
<1>6. ASSUME ~excused', ~Pipeline' PROVE ~Pipeline
  <2>1. /\ ~open /\ open' = TRUE /\ wire' = Replay(last) /\ due' = due
    BY <1>1 DEF Connect
  <2>2. wire = <<>>
    BY <1>2, <2>1 DEF BusInv, WireInv
  <2>3. ToSet(wire) = {}
    BY <2>2 DEF ToSet
  <2>4. \A e \in due : e.type = "catalog" => e \in ToSet(wire')
    BY <1>1, <1>6, <2>1 DEF Lost
  <2>5. QED
    BY <1>1, <1>4, <1>6, <2>3, <2>4 DEF Pipeline
<1>7. FreshInv'
  BY <1>1, <1>2, <1>6, FreshStays DEF fileVars
<1>8. QED
  BY <1>3, <1>4, <1>5, <1>7 DEF IInv

LEMMA TabLosesConnectionKeeps ==
  ASSUME IInv, TabLosesConnection
  PROVE  IInv' /\ LossStep
<1>1. Disconnect /\ UNCHANGED <<fileVars, req, tabVars, requests, failures, torn>>
  BY DEF TabLosesConnection
<1>2. BusInv /\ BoardTypes /\ FreshInv
  BY DEF IInv
<1>3. BusInv' /\ LossStep
  BY <1>1, <1>2, DisconnectKeeps
<1>4. RequestInv' /\ DanglingNeedsRace' /\ \A q \in Requests : Unannounced(q)' <=> Unannounced(q)
  BY <1>1, RequestsStay
<1>5. BoardTypes'
  BY <1>1, <1>2 DEF BoardTypes, fileVars, tabVars
<1>6. ~Pipeline' => ~Pipeline
  <2>1. open' = FALSE /\ due' = due
    BY <1>1 DEF Disconnect
  <2>2. \A e \in ToSet(wire) : e.type = "catalog" => e \in due
    BY <1>2, CatalogIsDue
  <2>3. QED
    BY <1>1, <1>4, <2>1, <2>2 DEF Pipeline, tabVars
<1>7. FreshInv'
  BY <1>1, <1>2, <1>6, FreshStays DEF fileVars, tabVars
<1>8. QED
  BY <1>3, <1>4, <1>5, <1>7 DEF IInv

LEMMA TabReceivesKeeps ==
  ASSUME IInv, TabReceives
  PROVE  IInv' /\ LossStep
<1>1. /\ Receive /\ IF Head(wire).type = "catalog" THEN Refresh ELSE UNCHANGED fetch
      /\ UNCHANGED <<fileVars, req, shown, excused, requests, failures, torn>>
  BY DEF TabReceives
<1>2. BusInv /\ BoardTypes /\ FreshInv
  BY DEF IInv
<1>3. BusInv' /\ LossStep
  BY <1>1, <1>2, ReceiveKeeps
<1>4. RequestInv' /\ DanglingNeedsRace' /\ \A q \in Requests : Unannounced(q)' <=> Unannounced(q)
  BY <1>1, RequestsStay
<1>5. CASE Refresh
  <2>1. PICK f \in Fetches : fetch' = [fetch EXCEPT ![f] = [phase |-> "asked"]]
    BY <1>5 DEF Refresh
  <2>2. fetch' \in [Fetches -> Answers \union {NoFetch, [phase |-> "asked"]}] /\ fetch'[f].phase = "asked"
    BY <1>2, <2>1 DEF BoardTypes
  <2>3. BoardTypes'
    BY <1>1, <1>2, <2>2 DEF BoardTypes, fileVars
  <2>4. FreshInv'
    BY <2>2 DEF FreshInv, Pipeline
  <2>5. QED
    BY <1>3, <1>4, <2>3, <2>4 DEF IInv
<1>6. CASE Head(wire).type # "catalog" /\ UNCHANGED fetch
  <2>1. BoardTypes'
    BY <1>1, <1>2, <1>6 DEF BoardTypes, fileVars
  <2>2. wire # <<>> /\ wire' = Tail(wire) /\ open /\ wire \in Seq(Envelopes)
    BY <1>1, <1>2 DEF Receive, BusInv, WireInv, BusTypeOK
  <2>3. ASSUME NEW e \in ToSet(wire), e.type = "catalog" PROVE e \in ToSet(wire')
    <3>1. PICK i \in 1..Len(wire) : e = wire[i]
      BY <1>2, Basics
    <3>2. i # 1 /\ Len(wire) \in Nat
      BY <1>2, <1>6, <2>2, <2>3, <3>1, Basics
    <3>3. /\ Tail(wire) \in Seq(Envelopes) /\ Len(Tail(wire)) = Len(wire) - 1
          /\ \A j \in 1..Len(Tail(wire)) : Tail(wire)[j] = wire[j + 1]
      BY <2>2, HeadTailProperties
    <3>4. i - 1 \in 1..Len(Tail(wire)) /\ (i - 1) + 1 = i
      BY <3>1, <3>2, <3>3
    <3>5. Tail(wire)[i - 1] = e /\ Tail(wire)[i - 1] \in ToSet(Tail(wire))
      BY <3>1, <3>3, <3>4, Places
    <3>6. QED
      BY <2>2, <3>5
  <2>4. ~Pipeline' => ~Pipeline
    BY <1>4, <1>6, <2>2, <2>3 DEF Pipeline
  <2>5. FreshInv'
    BY <1>1, <1>2, <1>6, <2>4, FreshStays DEF fileVars
  <2>6. QED
    BY <1>3, <1>4, <2>1, <2>5 DEF IInv
<1>7. QED
  BY <1>1, <1>5, <1>6

LEMMA ServeFetchKeeps ==
  ASSUME IInv, NEW f \in Fetches, ServeFetch(f)
  PROVE  IInv' /\ LossStep
<1> DEFINE new == [phase |-> "answered", value |-> catalog, overtaken |-> FALSE,
                   older |-> {g \in Fetches : fetch[g].phase = "answered"}]
<1>1. /\ fetch' = [fetch EXCEPT ![f] = new]
      /\ UNCHANGED <<busVars, fileVars, req, shown, excused, requests, failures, torn>>
  BY DEF ServeFetch
<1>2. BusInv /\ BoardTypes
  BY DEF IInv
<1>3. BusInv' /\ LossStep
  BY <1>1, <1>2, BusStutters
<1>4. RequestInv' /\ DanglingNeedsRace'
  BY <1>1, RequestsStay
<1>5. new \in Answers
  BY <1>2 DEF Answers, BoardTypes
<1>6. /\ new.phase = "answered" /\ new.value = catalog
      /\ new.older = {g \in Fetches : fetch[g].phase = "answered"}
  OBVIOUS
<1> HIDE DEF new
<1>7. /\ fetch'[f] = new /\ \A g \in Fetches : g # f => fetch'[g] = fetch[g]
      /\ fetch' \in [Fetches -> Answers \union {NoFetch, [phase |-> "asked"]}]
  BY <1>1, <1>2, <1>5 DEF BoardTypes
<1>8. BoardTypes'
  BY <1>1, <1>2, <1>7 DEF BoardTypes, fileVars
<1>9. Current(f)'
  BY <1>1, <1>6, <1>7 DEF Current, fileVars
<1>10. ASSUME NEW g \in Fetches, fetch'[g].phase = "answered" PROVE g = f \/ g \in fetch'[f].older
  BY <1>6, <1>7, <1>10
<1>11. FreshInv'
  BY <1>9, <1>10 DEF FreshInv
<1>12. QED
  BY <1>3, <1>4, <1>8, <1>11 DEF IInv

\* An answer is shown.  Those that came from the file before it did are
\* overtaken now, and those after it are as they were.
LEMMA ApplyFetchKeeps ==
  ASSUME IInv, NEW f \in Fetches, ApplyFetch(f)
  PROVE  IInv' /\ LossStep
<1>1. /\ fetch[f].phase = "answered" /\ shown' = fetch[f].value
      /\ fetch' = [g \in Fetches |->
                     IF g = f THEN NoFetch
                     ELSE IF fetch[g].phase # "answered" THEN fetch[g]
                     ELSE [fetch[g] EXCEPT !.older = @ \ {f}, !.overtaken = @ \/ g \in fetch[f].older]]
      /\ excused' = (/\ excused \/ fetch[f].overtaken
                     /\ \E g \in Fetches : fetch[g].phase = "answered" /\ fetch[g].value # catalog)
      /\ UNCHANGED <<busVars, fileVars, req, requests, failures, torn>>
  BY DEF ApplyFetch
<1>2. BusInv /\ BoardTypes /\ FreshInv
  BY DEF IInv
<1>3. BusInv' /\ LossStep
  BY <1>1, <1>2, BusStutters
<1>4. RequestInv' /\ DanglingNeedsRace' /\ \A q \in Requests : Unannounced(q)' <=> Unannounced(q)
  BY <1>1, RequestsStay
<1>5. fetch[f] \in Answers /\ fetch[f].value \in Catalogs /\ fetch[f].overtaken \in BOOLEAN
  BY <1>1, <1>2, FetchFacts DEF Answers
<1>6. fetch'[f] = NoFetch /\ fetch'[f].phase = "none"
  BY <1>1 DEF NoFetch
<1>7. ASSUME NEW g \in Fetches, g # f, fetch[g].phase # "answered"
      PROVE  fetch'[g] = fetch[g]
  BY <1>1, <1>7
<1>8. ASSUME NEW g \in Fetches, g # f, fetch[g].phase = "answered"
      PROVE  /\ fetch'[g] \in Answers /\ fetch'[g].phase = "answered" /\ fetch'[g].value = fetch[g].value
             /\ fetch'[g].older = fetch[g].older \ {f}
             /\ fetch'[g].overtaken <=> (fetch[g].overtaken \/ g \in fetch[f].older)
  <2>1. fetch[g] \in Answers
    BY <1>2, <1>8, FetchFacts
  <2>2. fetch'[g] = [fetch[g] EXCEPT !.older = fetch[g].older \ {f},
                                     !.overtaken = fetch[g].overtaken \/ g \in fetch[f].older]
    BY <1>1, <1>8
  <2>3. (fetch[g].overtaken \/ g \in fetch[f].older) \in BOOLEAN
    OBVIOUS
  <2>4. fetch[g].older \ {f} \in SUBSET Fetches
    BY <2>1 DEF Answers
  <2>5. QED
    BY <2>1, <2>2, <2>3, <2>4 DEF Answers
<1>9. fetch' \in [Fetches -> Answers \union {NoFetch, [phase |-> "asked"]}]
  <2>1. \A g \in Fetches : fetch'[g] \in Answers \union {NoFetch, [phase |-> "asked"]}
    BY <1>2, <1>6, <1>7, <1>8 DEF BoardTypes
  <2>2. fetch' = [g \in Fetches |-> fetch'[g]]
    BY <1>1
  <2>3. QED
    BY <2>1, <2>2
<1>10. BoardTypes'
  <2>1. (/\ excused \/ fetch[f].overtaken
         /\ \E g \in Fetches : fetch[g].phase = "answered" /\ fetch[g].value # catalog) \in BOOLEAN
    OBVIOUS
  <2>2. excused' \in BOOLEAN
    BY <1>1, <2>1
  <2>3. QED
    BY <1>1, <1>2, <1>5, <1>9, <2>2 DEF BoardTypes, fileVars
<1>11. FreshInv'
  <2>1. SUFFICES ASSUME ~excused', ~Pipeline'
                 PROVE  /\ shown' = catalog \/ \E g \in Fetches : Current(g)'
                        /\ \A g \in Fetches : fetch'[g].phase = "answered" =>
                             \/ Current(g)' \/ fetch'[g].overtaken
                             \/ \E h \in Fetches : Current(h)' /\ g \in fetch'[h].older
    BY <1>1 DEF FreshInv, fileVars
  <2>2. \A g \in Fetches : g # f => (Current(g)' <=> Current(g))
    BY <1>1, <1>7, <1>8 DEF Current, fileVars
  <2>3. \A g \in Fetches : fetch'[g].phase = "answered" => g # f /\ fetch[g].phase = "answered"
    BY <1>6, <1>7
  <2>4. CASE excused \/ fetch[f].overtaken
    <3>1. \A g \in Fetches : fetch[g].phase = "answered" => Current(g)
      BY <1>1, <2>1, <2>4 DEF Current
    <3>2. shown' = catalog
      BY <1>1, <3>1 DEF Current
    <3>3. QED
      BY <2>2, <2>3, <3>1, <3>2
  <2>5. CASE ~excused /\ ~fetch[f].overtaken
    <3>1. ~Pipeline
      <4>1. \A g \in Fetches : fetch[g].phase = "asked" => fetch'[g].phase = "asked"
        BY <1>1, <1>7
      <4>2. QED
        BY <1>1, <1>4, <2>1, <4>1 DEF Pipeline, busVars
    <3>2. /\ \A g \in Fetches : fetch[g].phase = "answered" =>
               \/ Current(g) \/ fetch[g].overtaken
               \/ \E h \in Fetches : Current(h) /\ g \in fetch[h].older
      BY <1>2, <2>5, <3>1 DEF FreshInv
    <3>3. shown' = catalog \/ \E g \in Fetches : Current(g)'
      <4>1. CASE Current(f)
        BY <1>1, <4>1 DEF Current
      <4>2. CASE ~Current(f)
        <5>1. PICK h \in Fetches : Current(h)
          BY <1>1, <2>5, <3>2, <4>2
        <5>2. QED
          BY <2>2, <4>2, <5>1
      <4>3. QED
        BY <4>1, <4>2
    <3>4. ASSUME NEW g \in Fetches, fetch'[g].phase = "answered"
          PROVE  \/ Current(g)' \/ fetch'[g].overtaken
                 \/ \E h \in Fetches : Current(h)' /\ g \in fetch'[h].older
      <4>1. g # f /\ fetch[g].phase = "answered"
        BY <2>3, <3>4
      <4>2. CASE Current(g)
        BY <2>2, <4>1, <4>2
      <4>3. CASE fetch[g].overtaken
        BY <1>8, <4>1, <4>3
      <4>4. CASE \E h \in Fetches : Current(h) /\ g \in fetch[h].older
        <5>1. PICK h \in Fetches : Current(h) /\ g \in fetch[h].older
          BY <4>4
        <5>2. CASE h = f
          BY <1>8, <4>1, <5>1, <5>2
        <5>3. CASE h # f
          BY <1>8, <2>2, <4>1, <5>1, <5>3 DEF Current
        <5>4. QED
          BY <5>2, <5>3
      <4>5. QED
        BY <3>2, <4>1, <4>2, <4>3, <4>4
    <3>5. QED
      BY <3>3, <3>4
  <2>6. QED
    BY <2>4, <2>5
<1>12. QED
  BY <1>3, <1>4, <1>10, <1>11 DEF IInv

LEMMA FetchFailsKeeps ==
  ASSUME IInv, NEW f \in Fetches, FetchFails(f)
  PROVE  IInv' /\ LossStep
<1>1. /\ failures < MaxFailures /\ failures' = failures + 1
      /\ fetch' = [fetch EXCEPT ![f] = NoFetch] /\ excused' = TRUE
      /\ UNCHANGED <<busVars, fileVars, req, shown, requests, torn>>
  BY DEF FetchFails
<1>2. BusInv /\ BoardTypes
  BY DEF IInv
<1>3. BusInv' /\ LossStep
  BY <1>1, <1>2, BusStutters
<1>4. RequestInv' /\ DanglingNeedsRace'
  BY <1>1, RequestsStay
<1>5. BoardTypes'
  <2>1. failures' \in 0..MaxFailures
    BY <1>1, <1>2, BoardAssumption DEF BoardTypes
  <2>2. fetch' \in [Fetches -> Answers \union {NoFetch, [phase |-> "asked"]}]
    BY <1>1, <1>2 DEF BoardTypes
  <2>3. QED
    BY <1>1, <1>2, <2>1, <2>2 DEF BoardTypes, fileVars
<1>6. FreshInv'
  BY <1>1 DEF FreshInv
<1>7. QED
  BY <1>3, <1>4, <1>5, <1>6 DEF IInv

LEMMA DaemonRestartsKeeps ==
  ASSUME IInv, DaemonRestarts
  PROVE  IInv' /\ LossStep
<1> DEFINE race == \E r \in Requests : HalfDeleted(r)
<1>1. /\ failures < MaxFailures /\ failures' = failures + 1 /\ BusRestarts
      /\ req' = [r \in Requests |-> NoRequest]
      /\ fetch' = [f \in Fetches |-> IF fetch[f].phase = "asked" THEN NoFetch ELSE fetch[f]]
      /\ excused' = (\/ excused
                     \/ \E e \in due : e.type = "catalog"
                     \/ \E f \in Fetches : fetch[f].phase = "asked"
                     \/ \E r \in Requests : Unannounced(r))
      /\ UNCHANGED <<fileVars, shown, requests>> /\ MarkTorn(race)
  BY DEF DaemonRestarts
<1>2. BusInv /\ BoardTypes /\ FreshInv
  BY DEF IInv
<1>3. BusInv' /\ LossStep
  BY <1>1, <1>2, BusRestartsKeeps
<1>4. race \in BOOLEAN /\ (~race => \A q \in Requests : ~HalfDeleted(q))
  OBVIOUS
<1> HIDE DEF race
<1>5. /\ req' \in [Requests -> RequestRecords \union {NoRequest}]
      /\ RequestInv' /\ DanglingNeedsRace' /\ torn' \subseteq Worktrees
  <2>1. req' = [q \in Requests |-> IF q \in Requests THEN NoRequest ELSE req[q]]
    BY <1>1
  <2>2. QED
    BY <1>1, <1>4, <2>1, RequestsEnd
<1>6. BoardTypes'
  <2>1. failures' \in 0..MaxFailures
    BY <1>1, <1>2, BoardAssumption DEF BoardTypes
  <2>2. fetch' \in [Fetches -> Answers \union {NoFetch, [phase |-> "asked"]}]
    BY <1>1, <1>2 DEF BoardTypes
  <2>3. (\/ excused
         \/ \E e \in due : e.type = "catalog"
         \/ \E f \in Fetches : fetch[f].phase = "asked"
         \/ \E r \in Requests : Unannounced(r)) \in BOOLEAN
    OBVIOUS
  <2>4. excused' \in BOOLEAN
    BY <1>1, <2>3
  <2>5. QED
    BY <1>1, <1>2, <1>5, <2>1, <2>2, <2>4 DEF BoardTypes, fileVars
<1>7. FreshInv'
  <2>1. CASE excused'
    BY <2>1 DEF FreshInv
  <2>2. CASE ~excused'
    <3>1. /\ ~excused
          /\ \A e \in due : e.type # "catalog"
          /\ \A f \in Fetches : fetch[f].phase # "asked"
          /\ \A r \in Requests : ~Unannounced(r)
      BY <1>1, <2>2
    <3>2. ~Pipeline
      BY <1>2, <3>1, CatalogIsDue DEF Pipeline
    <3>3. fetch' = fetch
      BY <1>1, <1>2, <3>1 DEF BoardTypes
    <3>4. QED
      BY <1>1, <1>2, <3>1, <3>2, <3>3, FreshStays DEF fileVars
  <2>3. QED
    BY <2>1, <2>2
<1>8. QED
  BY <1>3, <1>5, <1>6, <1>7 DEF IInv

-----------------------------------------------------------------------------
(* The theorems.                                                           *)

LEMMA BoardBegins == Init => IInv
<1> SUFFICES ASSUME Init PROVE IInv
  OBVIOUS
<1>1. /\ BusInit /\ catalog \in Catalogs /\ board = <<>> /\ req = [r \in Requests |-> NoRequest] /\ shown = <<>>
      /\ requests = 0 /\ failures = 0 /\ excused = FALSE /\ torn = {}
  BY DEF Init
<1>2. PICK f \in Fetches : fetch = [g \in Fetches |-> IF g = f THEN [phase |-> "asked"] ELSE NoFetch]
  BY DEF Init
<1>3. BusInv
  BY <1>1, BusBegins
<1>4. shown \in Catalogs /\ board \in Boards /\ DOMAIN board = {}
  BY <1>1, FileTypes, EmptyFile
<1>5. BoardTypes
  <2>1. 0 \in 0..MaxRequests /\ 0 \in 0..MaxFailures
    BY BoardAssumption
  <2>2. QED
    BY <1>1, <1>2, <1>4, <2>1 DEF BoardTypes
<1>6. RequestInv
  BY <1>1 DEF RequestInv
<1>7. DanglingNeedsRace
  BY <1>4 DEF DanglingNeedsRace, Dangling
<1>8. FreshInv
  BY <1>2 DEF FreshInv, Pipeline
<1>9. QED
  BY <1>3, <1>5, <1>6, <1>7, <1>8 DEF IInv

LEMMA BoardStutters == ASSUME IInv, UNCHANGED vars PROVE IInv' /\ LossStep
<1>1. UNCHANGED <<busVars, fileVars, req, tabVars, requests, failures, torn>>
  BY DEF vars
<1>2. BusInv /\ BoardTypes /\ FreshInv
  BY DEF IInv
<1>3. BusInv' /\ LossStep
  BY <1>1, <1>2, BusStutters
<1>4. RequestInv' /\ DanglingNeedsRace' /\ \A q \in Requests : Unannounced(q)' <=> Unannounced(q)
  BY <1>1, RequestsStay
<1>5. BoardTypes'
  BY <1>1, <1>2 DEF BoardTypes, fileVars, tabVars
<1>6. FreshInv'
  BY <1>1, <1>2, <1>4, FreshStaysForRequests DEF fileVars
<1>7. QED
  BY <1>3, <1>4, <1>5, <1>6 DEF IInv

LEMMA BoardSteps == IInv /\ [Next]_vars => IInv' /\ LossStep
<1> SUFFICES ASSUME IInv, [Next]_vars PROVE IInv' /\ LossStep
  OBVIOUS
<1>1. ASSUME NEW r \in Requests, Handler(r) PROVE IInv' /\ LossStep
  <2>1. CASE Arrive(r)
    BY <2>1, ArriveKeeps
  <2>2. CASE NoteAffected(r)
    BY <2>2, NoteAffectedKeeps
  <2>3. CASE LoadCatalog(r)
    BY <2>3, LoadCatalogKeeps
  <2>4. CASE LoadBoard(r)
    BY <2>4, LoadBoardKeeps
  <2>5. CASE SaveCatalog(r)
    BY <2>5, SaveCatalogKeeps
  <2>6. CASE SaveBoard(r)
    BY <2>6, SaveBoardKeeps
  <2>7. CASE Answer(r)
    BY <2>7, AnswerKeeps
  <2>8. CASE SaveFails(r)
    BY <2>8, SaveFailsKeeps
  <2>9. QED
    BY <1>1, <2>1, <2>2, <2>3, <2>4, <2>5, <2>6, <2>7, <2>8 DEF Handler
<1>2. CASE Tab
  <2>1. CASE TabConnects
    BY <2>1, TabConnectsKeeps
  <2>2. CASE TabLosesConnection
    BY <2>2, TabLosesConnectionKeeps
  <2>3. CASE TabReceives
    BY <2>3, TabReceivesKeeps
  <2>4. ASSUME NEW f \in Fetches, ServeFetch(f) \/ ApplyFetch(f) \/ FetchFails(f) PROVE IInv' /\ LossStep
    BY <2>4, ServeFetchKeeps, ApplyFetchKeeps, FetchFailsKeeps
  <2>5. QED
    BY <1>2, <2>1, <2>2, <2>3, <2>4 DEF Tab
<1>3. CASE AgentActivity
  BY <1>3, AgentActivityKeeps
<1>4. CASE DaemonRestarts
  BY <1>4, DaemonRestartsKeeps
<1>5. CASE UNCHANGED vars
  BY <1>5, BoardStutters
<1>6. QED
  BY <1>1, <1>2, <1>3, <1>4, <1>5 DEF Next

\* The inductive invariant: what the history and the wire hold and what the
\* tab has seen, what every handler is going to write, and where the catalog
\* is on its way to the tab.
THEOREM BoardInvariance == Spec => []IInv
<1>1. Init => IInv
  BY BoardBegins
<1>2. IInv /\ [Next]_vars => IInv'
  BY BoardSteps
<1>3. QED
  BY <1>1, <1>2, PTL DEF Spec

\* Every variable has its type; the history of the bus keeps to its capacity
\* (DaemonEventBus.publish).
THEOREM BoardTypesHold == Spec => []TypeOK
<1>1. ASSUME IInv PROVE TypeOK
  <2>1. BusTypeOK /\ BoardTypes
    BY <1>1 DEF IInv, BusInv
  <2>2. \A r \in Requests : req[r].phase = "none" \/ req[r].phase \in Phases
    BY <2>1, RequestFacts
  <2>3. \A f \in Fetches : fetch[f].phase \in {"none", "asked", "answered"}
    BY <2>1, FetchFacts
  <2>4. QED
    BY <2>1, <2>2, <2>3 DEF TypeOK, BoardTypes, Phases
<1>2. QED
  BY <1>1, BoardInvariance, PTL

\* StatusCatalogProvider: a settled tab shows the catalog of the daemon, but
\* for the lapses that StaleNeedsLapse names.
THEOREM StaleHasALapse == Spec => []StaleNeedsLapse
<1>1. ASSUME IInv PROVE StaleNeedsLapse
  <2>1. SUFFICES ASSUME Settled, ~excused PROVE shown = catalog
    BY DEF StaleNeedsLapse
  <2>2. /\ open /\ wire = <<>> /\ \A f \in Fetches : fetch[f].phase = "none"
        /\ \A r \in Requests : ~Unannounced(r)
    BY <2>1 DEF Settled, NoFetch
  <2>3. ToSet(wire) = {}
    BY <2>2 DEF ToSet
  <2>4. ~Pipeline
    BY <2>2, <2>3 DEF Pipeline
  <2>5. \A g \in Fetches : ~Current(g)
    BY <2>2 DEF Current
  <2>6. QED
    BY <1>1, <2>1, <2>4, <2>5 DEF IInv, FreshInv
<1>2. QED
  BY <1>1, BoardInvariance, PTL

\* handleStatusDelete and handleWorktreeStatus: a worktree stays on a deleted
\* status only while the delete is still at it, by a race of two handlers, or
\* because a delete was cut off between its two files.
THEOREM DanglingHasARace == Spec => []DanglingNeedsRace
<1>1. IInv => DanglingNeedsRace
  BY DEF IInv
<1>2. QED
  BY <1>1, BoardInvariance, PTL

\* DaemonEventBus and handleEventStream: the stream has no gap, nothing twice
\* but notifications, and what it loses has one of the reasons of
\* LossNeedsReason.
THEOREM StreamStaysExact == Spec => StreamIsExact
<1>1. IInv => StreamContinues /\ RepeatsAreNotifications
  BY InvStreamContinues DEF IInv, BusInv
<1>2. IInv /\ [Next]_vars => [LossStep]_busVars
  BY BoardSteps
<1>3. Spec => [][LossStep]_busVars
  BY <1>2, BoardInvariance, PTL DEF Spec
<1>4. Spec => LossNeedsReason
  BY <1>3 DEF LossNeedsReason, LossStep
<1>5. QED
  BY <1>1, <1>4, BoardInvariance, PTL DEF StreamIsExact
=============================================================================
