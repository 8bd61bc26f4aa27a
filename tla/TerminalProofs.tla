----------------------------- MODULE TerminalProofs -----------------------------
(***************************************************************************)
(* Proofs about a terminal: TerminalSession first, then AgentActivity with *)
(* its TerminalRecord.  The two share no variable.                         *)
(*                                                                         *)
(* For any number of clients, sockets, chunks and waiting commands control *)
(* of a terminal is one attachment's and comes back when its socket        *)
(* closes, and what a screen shows is what the process wrote.  For any     *)
(* number of events, saves, renames, restarts and clients the daemon's     *)
(* idea of the agent, the mark and the title are right but for the lapses  *)
(* that AgentActivity names.                                               *)
(***************************************************************************)
EXTENDS TerminalSession, AgentActivity, FiniteSetTheorems, SequenceTheorems,
        WellFoundedInduction, TLAPS

-----------------------------------------------------------------------------
(* The inductive invariant.                                                 *)

Chunk(f) == f.type \in {"output", "replay"}
Final(f) == f.type \in {"exit", "fatal"}

(* Frames on their way: a gap comes first and before a chunk, chunks follow *)
(* each other, and nothing follows the end.                                 *)
Stream(s) == \A i \in 1 .. Len(s) :
  /\ s[i].type = "gap" => i = 1 /\ Len(s) > 1 /\ Chunk(s[2])
  /\ \A j \in 1 .. Len(s) : Chunk(s[i]) /\ Chunk(s[j]) => s[i].seq + j = s[j].seq + i
  /\ Final(s[i]) => i = Len(s)

(* A screen that shows "from" shows "to" when it has read n frames of s.    *)
Leads(s, n, from, to) ==
  IF n = 0 THEN from = to ELSE Chunk(s[n]) /\ s[n].seq = to

(* The hub: flags are of attachments, an exited session has none.           *)
HubInv ==
  /\ controllers \subseteq attachments
  /\ status = "exited" => attachments = {}

(* Only a rename or a termination awaits the backend.                       *)
BusyInv == busy => queue # <<>> /\ Head(queue).op \in {"rename", "terminate"}

(* A client's sockets before its last one are closed.                       *)
SocketInv == \A x \in Sockets :
  /\ sock[x] = "none" <=> x[2] > used[x[1]]
  /\ x[2] < used[x[1]] => sock[x] = "closed"

(* A socket attaches once, when its hello is unanswered, and detaches once  *)
(* it is closed.                                                            *)
QueueInv == \A i \in 1 .. Len(queue) :
  LET x == queue[i].by IN
  /\ queue[i].op = "attach" =>
       /\ x \notin greeted
       /\ sock[x] # "none"
       /\ sock[x] = "closed" => x \in early
       /\ \A j \in 1 .. Len(queue) : queue[j] = queue[i] => j = i
  /\ queue[i].op = "detach" => sock[x] = "closed"

(* A socket whose hello was answered is attached while it is open; nothing  *)
(* is on its way before that or once it is closed.                          *)
Greet(x) ==
  /\ sock[x] = "none" => x \notin greeted /\ x \notin attachments
  /\ sock[x] = "open" => (x \in greeted <=> x \in attachments)
  /\ sock[x] \in {"none", "closed"} => inbox[x] = <<>>
  /\ sock[x] = "open" /\ x \notin greeted =>
       inbox[x] = <<>> /\ (x[1] \notin behind => seen[x[1]] = ack[x[1]])

GreetInv == \A x \in Sockets : Greet(x)

(* Frames s on their way to an open (and served) socket bring its screen,   *)
(* which shows "from", to the last chunk; "over" tells that the session has *)
(* exited, "again" that acknowledged and shown chunks have differed.        *)
Carries(s, open, served, from, acked, last, over, again) ==
  /\ Stream(s)
  /\ open => \A i \in 1 .. Len(s) : ~Final(s[i])
  /\ served => Leads(s, Len(s), from, last)
  /\ \A i \in 1 .. Len(s) :
       /\ Chunk(s[i]) => acked < s[i].seq /\ s[i].seq <= last
       /\ s[i].type = "exit" => over /\ Leads(s, i - 1, from, last)
  /\ s # <<>> /\ Chunk(s[1]) =>
       /\ s[1].seq <= from + 1 \/ over
       /\ s[1].seq > from \/ again

Wire(x) ==
  Carries(inbox[x], sock[x] = "open", sock[x] = "open" /\ x \in greeted,
          seen[x[1]], ack[x[1]], latest, status = "exited", x[1] \in behind)

WireInv == \A x \in Sockets : Wire(x)

ScreenInv == \A c \in Clients : ack[c] <= seen[c] /\ seen[c] <= latest

Inv ==
  /\ TypeOK /\ HubInv /\ BusyInv /\ SocketInv /\ QueueInv /\ GreetInv
  /\ WireInv /\ ScreenInv
  /\ OneController /\ GhostsClosedEarly /\ NothingSkipped /\ NothingRepeated

-----------------------------------------------------------------------------
(* Frames and sequences of them.                                            *)

LEMMA ConcatOne ==
  ASSUME NEW S, NEW s \in Seq(S), NEW e \in S
  PROVE  /\ s \o <<e>> \in Seq(S)
         /\ Len(s) \in Nat /\ Len(s \o <<e>>) = Len(s) + 1
         /\ \A i \in 1 .. Len(s) : (s \o <<e>>)[i] = s[i]
         /\ (s \o <<e>>)[Len(s) + 1] = e
<1>1. <<e>> \in Seq(S) /\ Len(<<e>>) = 1 /\ <<e>>[1] = e
  OBVIOUS
<1>2. Len(s) \in Nat
  OBVIOUS
<1> QED BY <1>1, <1>2, ConcatProperties

LEMMA ConcatTwo ==
  ASSUME NEW S, NEW s \in Seq(S), NEW a \in S, NEW b \in S
  PROVE  s \o <<a, b>> = (s \o <<a>>) \o <<b>>
<1>1. <<a>> \in Seq(S) /\ <<b>> \in Seq(S) /\ <<a, b>> \in Seq(S)
      /\ Len(<<a>>) = 1 /\ <<a>>[1] = a
      /\ Len(<<a, b>>) = 2 /\ <<a, b>>[1] = a /\ <<a, b>>[2] = b
  OBVIOUS
<1> DEFINE ab == <<a, b>>
           c  == <<a>> \o <<b>>
<1>2. c \in Seq(S) /\ Len(c) = 2 /\ c[1] = a /\ c[2] = b
  BY <1>1, ConcatOne
<1> HIDE DEF ab, c
<1>3. \A i \in 1 .. Len(ab) : ab[i] = c[i]
  BY <1>1, <1>2 DEF ab
<1>4. ab = c
  BY <1>1, <1>2, <1>3, SeqEqual DEF ab
<1> QED BY <1>1, <1>4, ConcatAssociative DEF ab, c

(* One more frame, which follows the last.                                  *)
LEMMA StreamGrows ==
  ASSUME NEW s \in Seq(Frames), NEW f \in Frames,
         Stream(s), \A i \in 1 .. Len(s) : ~Final(s[i]),
         f.type # "gap",
         s # <<>> /\ Chunk(f) => f.seq = s[Len(s)].seq + 1
  PROVE  Stream(s \o <<f>>)
<1> DEFINE t == s \o <<f>>
<1>1. /\ Len(s) \in Nat /\ Len(t) = Len(s) + 1
      /\ \A i \in 1 .. Len(s) : t[i] = s[i]
      /\ t[Len(s) + 1] = f
  BY ConcatOne
<1> HIDE DEF t
<1>2. /\ \A i \in 1 .. Len(t) : i \in 1 .. Len(s) \/ i = Len(s) + 1
      /\ \A i \in 1 .. Len(s) : Chunk(s[i]) => s[i].seq \in Nat
      /\ Chunk(f) => f.seq \in Nat
  BY <1>1, TerminalAssumption DEF Frames, Chunk
<1>3. ASSUME NEW i \in 1 .. Len(s), Chunk(s[i]), Chunk(f)
      PROVE  s[i].seq + (Len(s) + 1) = f.seq + i
  <2>1. Len(s) \in 1 .. Len(s) /\ s # <<>>
    BY <1>1
  <2>2. Chunk(s[Len(s)])
    BY <1>1, <1>3, <2>1 DEF Stream, Chunk, Final, Frames
  <2>3. s[i].seq + Len(s) = s[Len(s)].seq + i
    BY <1>3, <2>1, <2>2 DEF Stream
  <2>4. f.seq = s[Len(s)].seq + 1 /\ s[Len(s)].seq \in Nat
    BY <1>2, <1>3, <2>1, <2>2
  <2>5. s[i].seq \in Nat /\ i \in Nat /\ Len(s) \in Nat
    BY <1>1, <1>2, <1>3
  <2>6. PICK a \in Nat, b \in Nat : a = s[i].seq /\ b = s[Len(s)].seq
    BY <2>4, <2>5
  <2>7. a + Len(s) = b + i
    BY <2>3, <2>6, Zenon
  <2>8. a + (Len(s) + 1) = (b + 1) + i
    BY <2>5, <2>7
  <2> QED BY <2>4, <2>6, <2>8
<1>4. ASSUME NEW i \in 1 .. Len(t), NEW j \in 1 .. Len(t), Chunk(t[i]), Chunk(t[j])
      PROVE  t[i].seq + j = t[j].seq + i
  <2>1. CASE i \in 1 .. Len(s) /\ j \in 1 .. Len(s)
    BY <1>1, <1>4, <2>1 DEF Stream
  <2>2. CASE i \in 1 .. Len(s) /\ j = Len(s) + 1
    BY <1>1, <1>3, <1>4, <2>2
  <2>3. CASE i = Len(s) + 1 /\ j \in 1 .. Len(s)
    BY <1>1, <1>3, <1>4, <2>3
  <2>4. CASE i = Len(s) + 1 /\ j = Len(s) + 1
    BY <1>1, <2>4
  <2> QED BY <1>2, <2>1, <2>2, <2>3, <2>4
<1>5. ASSUME NEW i \in 1 .. Len(t)
      PROVE  /\ t[i].type = "gap" => i = 1 /\ Len(t) > 1 /\ Chunk(t[2])
             /\ Final(t[i]) => i = Len(t)
  <2>1. CASE i \in 1 .. Len(s)
    <3>1. t[i] = s[i] /\ (Len(s) > 1 => t[2] = s[2])
      BY <1>1, <2>1
    <3> QED BY <1>1, <2>1, <3>1 DEF Stream
  <2>2. CASE i = Len(s) + 1
    BY <1>1, <2>2
  <2> QED BY <1>2, <2>1, <2>2
<1> QED BY <1>4, <1>5 DEF Stream, t

(* The first frame is read.                                                 *)
LEMMA StreamShrinks ==
  ASSUME NEW s \in Seq(Frames), s # <<>>, Stream(s)
  PROVE  /\ Tail(s) \in Seq(Frames) /\ Len(s) \in Nat \ {0} /\ Len(Tail(s)) = Len(s) - 1
         /\ \A i \in 1 .. Len(Tail(s)) : Tail(s)[i] = s[i + 1]
         /\ Head(s) = s[1] /\ s[1] \in Frames
         /\ Stream(Tail(s))
<1> DEFINE t == Tail(s)
<1>1. /\ t \in Seq(Frames) /\ Len(s) \in Nat \ {0} /\ Len(t) = Len(s) - 1
      /\ \A i \in 1 .. Len(t) : t[i] = s[i + 1]
      /\ Head(s) = s[1] /\ s[1] \in Frames
  OBVIOUS
<1> HIDE DEF t
<1>2. ASSUME NEW i \in 1 .. Len(t), NEW j \in 1 .. Len(t)
      PROVE  /\ t[i].type # "gap"
             /\ Chunk(t[i]) /\ Chunk(t[j]) => t[i].seq + j = t[j].seq + i
             /\ Final(t[i]) => i = Len(t)
  <2>1. /\ t[i] = s[i + 1] /\ i + 1 \in 1 .. Len(s) /\ i + 1 # 1
        /\ t[j] = s[j + 1] /\ j + 1 \in 1 .. Len(s)
    BY <1>1, <1>2
  <2>2. Chunk(t[i]) /\ Chunk(t[j]) => t[i].seq + (j + 1) = t[j].seq + (i + 1)
    BY <2>1 DEF Stream
  <2>3. /\ Chunk(t[i]) => t[i].seq \in Nat
        /\ Chunk(t[j]) => t[j].seq \in Nat
    BY <1>1, TerminalAssumption DEF Frames, Chunk
  <2>4. /\ t[i].type # "gap"
        /\ Final(t[i]) => i = Len(t)
    BY <1>1, <2>1 DEF Stream
  <2>5. i \in Nat /\ j \in Nat
    BY <1>1
  <2>6. ASSUME Chunk(t[i]), Chunk(t[j]) PROVE t[i].seq + j = t[j].seq + i
    <3>1. PICK a \in Nat, b \in Nat : a = t[i].seq /\ b = t[j].seq
      BY <2>3, <2>6
    <3>2. a + (j + 1) = b + (i + 1)
      BY <2>2, <2>6, <3>1, Zenon
    <3>3. a + j = b + i
      BY <2>5, <3>2
    <3> QED BY <3>1, <3>3
  <2> QED BY <2>4, <2>6
<1>3. Stream(t)
  BY <1>2 DEF Stream
<1> QED BY <1>1, <1>3 DEF t

(* The answer to a hello.                                                   *)
Announced(from, gone) == IF Gap(from) /\ ~gone THEN <<[type |-> "gap", seq |-> 0]>> ELSE <<>>
Ended(gone) == IF gone THEN <<[type |-> "exit", seq |-> 0]>> ELSE <<>>
Welcome(from, gone) == Announced(from, gone) \o Replay(from) \o Ended(gone)

LEMMA ReplayFrames ==
  ASSUME NEW from \in Nat, TypeOK
  PROVE  /\ Replay(from) \in Seq(Frames) /\ Len(Replay(from)) \in Nat
         /\ Stream(Replay(from))
         /\ from >= latest => Replay(from) = <<>>
         /\ from < latest =>
              /\ Len(Replay(from)) > 0
              /\ Replay(from)[1].seq > from
              /\ ~Gap(from) => Replay(from)[1].seq = from + 1
              /\ Replay(from)[Len(Replay(from))].seq = latest
         /\ \A i \in 1 .. Len(Replay(from)) :
              /\ Replay(from)[i].type = "replay"
              /\ from < Replay(from)[i].seq /\ Replay(from)[i].seq <= latest
<1> DEFINE start == IF from + 1 < first THEN first ELSE from + 1
           s     == [i \in 1 .. latest - start + 1 |-> [type |-> "replay", seq |-> start + i - 1]]
<1>1. latest \in 0 .. MaxSeq /\ first \in 0 .. latest /\ MaxSeq \in Nat
  BY TerminalAssumption DEF TypeOK
<1>2. CASE from >= latest
  <2>1. Replay(from) = <<>>
    BY <1>2 DEF Replay
  <2> QED BY <1>1, <1>2, <2>1 DEF Stream
<1>3. CASE from < latest
  <2>1. /\ start \in Nat /\ start > from /\ start <= latest
        /\ latest - start + 1 \in Nat \ {0}
        /\ ~Gap(from) => start = from + 1
    BY <1>1, <1>3 DEF Gap
  <2> HIDE DEF start
  <2>2. Replay(from) = s
    BY <1>1, <1>3 DEF Replay, start
  <2>3. \A i \in 1 .. latest - start + 1 : [type |-> "replay", seq |-> start + i - 1] \in Frames
    BY <1>1, <2>1 DEF Frames
  <2>4. s \in Seq(Frames) /\ Len(s) = latest - start + 1
    BY <2>1, <2>3
  <2>5. \A i \in 1 .. Len(s) : s[i] = [type |-> "replay", seq |-> start + i - 1]
    BY <2>1, <2>4
  <2> HIDE DEF s
  <2>6. Stream(s)
    BY <2>1, <2>4, <2>5 DEF Stream, Chunk, Final
  <2>7. /\ Len(s) \in Nat \ {0} /\ s[1].seq = start /\ s[Len(s)].seq = latest
    BY <1>1, <2>1, <2>4, <2>5
  <2>8. ASSUME NEW i \in 1 .. Len(s)
        PROVE  s[i].type = "replay" /\ from < s[i].seq /\ s[i].seq <= latest
    <3>1. s[i] = [type |-> "replay", seq |-> start + i - 1]
      BY <2>5, Zenon
    <3>2. i \in Nat /\ 1 <= i /\ i <= latest - start + 1
      BY <2>1, <2>4
    <3> QED BY <1>1, <2>1, <3>1, <3>2
  <2> QED BY <1>1, <1>3, <2>1, <2>2, <2>4, <2>6, <2>7, <2>8
<1> QED BY <1>1, <1>2, <1>3

LEMMA WelcomeFrames ==
  ASSUME NEW from \in Nat, NEW gone \in BOOLEAN, TypeOK
  PROVE  LET w == Welcome(from, gone) IN
         /\ w \in Seq(Frames) /\ Len(w) \in Nat /\ Stream(w)
         /\ \A i \in 1 .. Len(w) :
              /\ Chunk(w[i]) => from < w[i].seq /\ w[i].seq <= latest
              /\ Final(w[i]) => gone
              /\ Final(w[i]) /\ from <= latest => Leads(w, i - 1, from, latest)
         /\ ~gone /\ from <= latest => Leads(w, Len(w), from, latest)
         /\ w # <<>> /\ Chunk(w[1]) => w[1].seq > from /\ (gone \/ w[1].seq = from + 1)
<1> DEFINE r   == Replay(from)
           w   == Welcome(from, gone)
           gap == [type |-> "gap", seq |-> 0]
           ex  == [type |-> "exit", seq |-> 0]
<1>1. latest \in Nat /\ first \in 0 .. latest
  BY TerminalAssumption DEF TypeOK
<1>2. gap \in Frames /\ ex \in Frames
  BY DEF Frames
<1>3. /\ r \in Seq(Frames) /\ Len(r) \in Nat
      /\ Stream(r)
      /\ from >= latest => r = <<>>
      /\ from < latest =>
           /\ Len(r) > 0
           /\ r[1].seq > from
           /\ ~Gap(from) => r[1].seq = from + 1
           /\ r[Len(r)].seq = latest
      /\ \A i \in 1 .. Len(r) :
           /\ r[i].type = "replay"
           /\ from < r[i].seq /\ r[i].seq <= latest
  BY ReplayFrames
<1> HIDE DEF r
<1>4. w = (Announced(from, gone) \o r) \o Ended(gone)
  BY DEF Welcome, r
<1>5. <<>> \o r = r /\ r \o <<>> = r
  BY <1>3, ConcatEmptySeq
<1>6. \A i \in 1 .. Len(r) : Chunk(r[i]) /\ ~Final(r[i])
  BY <1>3 DEF Chunk, Final
<1>7. from <= latest => Leads(r, Len(r), from, latest)
  <2>1. CASE from < latest
    BY <1>3, <1>6, <2>1 DEF Leads
  <2>2. CASE from = latest
    BY <1>1, <1>3, <2>2 DEF Leads
  <2> QED BY <1>1, <2>1, <2>2
<1> HIDE DEF w, gap, ex
<1>8. CASE gone
  <2>1. w = r \o <<ex>>
    BY <1>4, <1>5, <1>8 DEF Announced, Ended, ex
  <2>2. /\ w \in Seq(Frames) /\ Len(w) = Len(r) + 1
        /\ \A i \in 1 .. Len(r) : w[i] = r[i]
        /\ w[Len(r) + 1] = ex
    BY <1>2, <1>3, <2>1, ConcatOne
  <2>3. ex.type = "exit" /\ ~Chunk(ex)
    BY DEF ex, Chunk
  <2>4. Stream(w)
    BY <1>2, <1>3, <1>6, <2>1, <2>3, StreamGrows
  <2>5. ASSUME NEW i \in 1 .. Len(w)
        PROVE  /\ Chunk(w[i]) => i \in 1 .. Len(r) /\ from < w[i].seq /\ w[i].seq <= latest
               /\ Final(w[i]) /\ from <= latest => Leads(w, i - 1, from, latest)
    <3>1. CASE i \in 1 .. Len(r)
      BY <1>3, <1>6, <2>2, <3>1
    <3>2. CASE i = Len(r) + 1
      <4>1. ~Chunk(w[i]) /\ i - 1 = Len(r)
        BY <1>3, <2>2, <2>3, <3>2
      <4>2. Leads(r, Len(r), from, latest) => Leads(w, Len(r), from, latest)
        BY <1>3, <2>2 DEF Leads
      <4> QED BY <1>7, <4>1, <4>2
    <3> QED BY <1>3, <2>2, <3>1, <3>2
  <2>6. w # <<>> /\ Chunk(w[1]) => w[1].seq > from
    BY <1>3, <2>2, <2>5
  <2>7. Len(w) \in Nat
    BY <1>3, <2>2
  <2> QED BY <1>8, <2>2, <2>4, <2>5, <2>6, <2>7 DEF w
<1>9. CASE ~gone /\ Gap(from)
  <2>1. w = <<gap>> \o r
    <3>1. <<gap>> \o r \in Seq(Frames)
      BY <1>2, <1>3
    <3> QED BY <1>4, <1>9, <3>1, ConcatEmptySeq DEF Announced, Ended, gap
  <2>2. /\ w \in Seq(Frames) /\ Len(w) = Len(r) + 1 /\ w[1] = gap
        /\ \A i \in 1 .. Len(r) : w[i + 1] = r[i]
    <3>1. <<gap>> \in Seq(Frames) /\ Len(<<gap>>) = 1 /\ <<gap>>[1] = gap
      BY <1>2
    <3>2. /\ w \in Seq(Frames) /\ Len(w) = 1 + Len(r)
          /\ \A i \in 1 .. 1 + Len(r) : w[i] = IF i <= 1 THEN <<gap>>[i] ELSE r[i - 1]
      BY <1>3, <2>1, <3>1, ConcatProperties
    <3>3. ASSUME NEW i \in 1 .. Len(r) PROVE w[i + 1] = r[i]
      <4>1. i + 1 \in 1 .. 1 + Len(r) /\ ~(i + 1 <= 1) /\ i + 1 - 1 = i
        BY <1>3
      <4> QED BY <3>2, <4>1
    <3>4. w[1] = gap
      BY <1>3, <3>1, <3>2
    <3> QED BY <1>3, <3>2, <3>3, <3>4
  <2>3. gap.type = "gap" /\ ~Chunk(gap) /\ ~Final(gap) /\ from < latest
    BY <1>9 DEF gap, Chunk, Final, Gap
  <2>4. ASSUME NEW i \in 1 .. Len(w), i # 1
        PROVE  /\ i - 1 \in 1 .. Len(r) /\ w[i] = r[i - 1]
               /\ w[i].type = "replay" /\ from < w[i].seq /\ w[i].seq <= latest
    <3>1. i - 1 \in 1 .. Len(r) /\ (i - 1) + 1 = i
      BY <1>3, <2>2, <2>4
    <3>2. w[i] = r[i - 1]
      BY <2>2, <3>1
    <3> QED BY <1>3, <3>1, <3>2
  <2>5. Stream(w)
    <3>1. w[1].type = "gap" /\ Len(w) > 1 /\ Chunk(w[2])
      <4>1. Len(w) > 1 /\ w[2] = r[1] /\ Chunk(r[1])
        BY <1>3, <1>6, <2>2, <2>3
      <4> QED BY <2>2, <2>3, <4>1
    <3>2. ASSUME NEW i \in 1 .. Len(w), NEW j \in 1 .. Len(w), Chunk(w[i]), Chunk(w[j])
          PROVE  w[i].seq + j = w[j].seq + i
      <4>1. i # 1 /\ j # 1
        BY <2>2, <2>3, <3>2
      <4>2. /\ i - 1 \in 1 .. Len(r) /\ w[i] = r[i - 1]
            /\ j - 1 \in 1 .. Len(r) /\ w[j] = r[j - 1]
        BY <2>4, <4>1
      <4>3. r[i - 1].seq + (j - 1) = r[j - 1].seq + (i - 1)
        BY <1>3, <1>6, <4>2 DEF Stream
      <4>4. r[i - 1].seq \in Nat /\ r[j - 1].seq \in Nat
        <5>1. r[i - 1] \in Frames /\ r[j - 1] \in Frames
          BY <1>3, <4>2
        <5> QED BY <5>1, TerminalAssumption DEF Frames
      <4>5. i \in Nat /\ j \in Nat
        BY <1>3, <2>2
      <4>6. PICK a \in Nat, b \in Nat : a = r[i - 1].seq /\ b = r[j - 1].seq
        BY <4>4
      <4>7. a + (j - 1) = b + (i - 1)
        BY <4>3, <4>6, Zenon
      <4>8. a + j = b + i
        BY <4>5, <4>7
      <4> QED BY <4>2, <4>6, <4>8
    <3>3. ASSUME NEW i \in 1 .. Len(w)
          PROVE  /\ w[i].type = "gap" => i = 1 /\ Len(w) > 1 /\ Chunk(w[2])
                 /\ Final(w[i]) => i = Len(w)
      BY <2>2, <2>3, <2>4, <3>1 DEF Final
    <3> QED BY <3>2, <3>3 DEF Stream
  <2>6. \A i \in 1 .. Len(w) :
          /\ Chunk(w[i]) => from < w[i].seq /\ w[i].seq <= latest
          /\ ~Final(w[i])
    BY <2>2, <2>3, <2>4 DEF Final
  <2>7. Leads(w, Len(w), from, latest)
    <3>1. Len(w) # 1 /\ Len(w) \in 1 .. Len(w) /\ Len(w) - 1 = Len(r)
      BY <1>3, <2>2, <2>3
    <3>2. w[Len(w)] = r[Len(r)] /\ w[Len(w)].type = "replay"
      BY <2>4, <3>1
    <3> QED BY <1>3, <2>3, <3>1, <3>2 DEF Leads, Chunk
  <2>8. ~Chunk(w[1]) /\ Len(w) \in Nat
    BY <1>3, <2>2, <2>3
  <2> QED BY <1>9, <2>2, <2>5, <2>6, <2>7, <2>8 DEF w
<1>10. CASE ~gone /\ ~Gap(from)
  <2>1. w = r
    BY <1>4, <1>5, <1>10 DEF Announced, Ended
  <2>2. w # <<>> /\ Chunk(w[1]) => w[1].seq > from /\ w[1].seq = from + 1
    BY <1>1, <1>3, <1>10, <2>1
  <2> QED BY <1>3, <1>6, <1>7, <1>10, <2>1, <2>2 DEF w
<1> QED BY <1>8, <1>9, <1>10

-----------------------------------------------------------------------------
(* The command queue.                                                       *)

Live(x) == sock[x] \in {"open", "shut", "cut"}

LEMMA QueueShrinks ==
  ASSUME TypeOK, queue # <<>>, queue' = Tail(queue)
  PROVE  /\ queue' \in Seq(Commands)
         /\ Len(queue) \in Nat \ {0} /\ Len(queue') = Len(queue) - 1
         /\ \A i \in 1 .. Len(queue') : queue'[i] = queue[i + 1]
         /\ Head(queue) = queue[1] /\ queue[1] \in Commands
  BY DEF TypeOK

LEMMA QueueGrows ==
  ASSUME TypeOK, NEW cmd \in Commands, queue' = Append(queue, cmd)
  PROVE  /\ queue' \in Seq(Commands) /\ queue' # <<>>
         /\ Len(queue) \in Nat /\ Len(queue') = Len(queue) + 1
         /\ \A i \in 1 .. Len(queue) : queue'[i] = queue[i]
         /\ queue'[Len(queue) + 1] = cmd
         /\ queue # <<>> => Head(queue') = Head(queue)
  BY DEF TypeOK

(* The first command leaves the queue.                                      *)
LEMMA QueueRuns ==
  ASSUME TypeOK, QueueInv, queue # <<>>, queue' = Tail(queue),
         \A x \in Sockets : x \in greeted' =>
           x \in greeted \/ (queue[1].op = "attach" /\ queue[1].by = x),
         \A x \in Sockets : sock[x] # "none" => sock'[x] # "none",
         \A x \in Sockets : sock'[x] = "closed" <=> sock[x] = "closed",
         early' = early
  PROVE  QueueInv'
<1>1. /\ queue' \in Seq(Commands)
      /\ Len(queue) \in Nat \ {0} /\ Len(queue') = Len(queue) - 1
      /\ \A i \in 1 .. Len(queue') : queue'[i] = queue[i + 1]
      /\ queue[1] \in Commands
  BY QueueShrinks
<1> SUFFICES ASSUME NEW i \in 1 .. Len(queue')
    PROVE LET x == queue'[i].by IN
          /\ queue'[i].op = "attach" =>
               /\ x \notin greeted'
               /\ sock'[x] # "none"
               /\ sock'[x] = "closed" => x \in early'
               /\ \A j \in 1 .. Len(queue') : queue'[j] = queue'[i] => j = i
          /\ queue'[i].op = "detach" => sock'[x] = "closed"
  BY DEF QueueInv
<1> DEFINE cmd == queue'[i]
<1>2. /\ cmd = queue[i + 1] /\ i + 1 \in 1 .. Len(queue) /\ i + 1 # 1
      /\ cmd \in Commands
  BY <1>1
<1> HIDE DEF cmd
<1>3. CASE cmd.op = "attach"
  <2>1. cmd.by \in Sockets
    BY <1>2, <1>3 DEF Commands
  <2>2. /\ cmd.by \notin greeted /\ sock[cmd.by] # "none"
        /\ sock[cmd.by] = "closed" => cmd.by \in early
        /\ \A j \in 1 .. Len(queue) : queue[j] = cmd => j = i + 1
    BY <1>2, <1>3 DEF QueueInv
  <2>3. queue[1] # cmd /\ 1 \in 1 .. Len(queue)
    BY <1>1, <1>2, <2>2
  <2>4. ~(queue[1].op = "attach" /\ queue[1].by = cmd.by)
    BY <1>1, <1>2, <1>3, <2>3 DEF Commands
  <2>5. cmd.by \notin greeted'
    BY <2>1, <2>2, <2>4
  <2>6. ASSUME NEW j \in 1 .. Len(queue'), queue'[j] = cmd PROVE j = i
    <3>1. j + 1 \in 1 .. Len(queue) /\ queue[j + 1] = cmd
      BY <1>1, <2>6
    <3> QED BY <2>2, <3>1
  <2> QED BY <1>3, <2>1, <2>2, <2>5, <2>6 DEF cmd
<1>4. CASE cmd.op = "detach"
  <2>1. cmd.by \in Sockets
    BY <1>2, <1>4 DEF Commands
  <2>2. sock[cmd.by] = "closed"
    BY <1>2, <1>4 DEF QueueInv
  <2> QED BY <1>4, <2>1, <2>2 DEF cmd
<1> QED BY <1>3, <1>4 DEF cmd

(* Nothing leaves it, and at most one command comes.                        *)
Comes(cmd) ==
  /\ cmd \in Commands
  /\ queue' = Append(queue, cmd)
  /\ cmd.op = "attach" =>
       /\ \A i \in 1 .. Len(queue) : queue[i] # cmd
       /\ cmd.by \notin greeted' /\ sock'[cmd.by] = "open"
  /\ cmd.op = "detach" => sock'[cmd.by] = "closed"

LEMMA QueueKeeps ==
  ASSUME TypeOK, QueueInv, queue' = queue \/ \E cmd : Comes(cmd),
         greeted' \subseteq greeted, early \subseteq early',
         \A x \in Sockets : sock[x] # "none" => sock'[x] # "none",
         \A x \in Sockets : sock[x] = "closed" => sock'[x] = "closed",
         \A x \in Sockets : sock'[x] = "closed" =>
           sock[x] = "closed" \/ x \in early' \/ x \in greeted
  PROVE  QueueInv'
<1> DEFINE Held(i) ==
      LET x == queue[i].by IN
      /\ queue[i].op = "attach" =>
           x \notin greeted' /\ sock'[x] # "none" /\ (sock'[x] = "closed" => x \in early')
      /\ queue[i].op = "detach" => sock'[x] = "closed"
<1>1. ASSUME NEW i \in 1 .. Len(queue) PROVE Held(i)
  <2>1. queue[i] \in Commands
    BY DEF TypeOK
  <2>2. CASE queue[i].op = "attach"
    <3>1. queue[i].by \in Sockets
      BY <2>1, <2>2 DEF Commands
    <3> QED BY <2>2, <3>1 DEF QueueInv
  <2>3. CASE queue[i].op = "detach"
    <3>1. queue[i].by \in Sockets
      BY <2>1, <2>3 DEF Commands
    <3> QED BY <2>3, <3>1 DEF QueueInv
  <2> QED BY <2>2, <2>3
<1>2. CASE queue' = queue
  BY <1>1, <1>2 DEF QueueInv
<1>3. ASSUME NEW cmd, Comes(cmd) PROVE QueueInv'
  <2>1. /\ Len(queue) \in Nat /\ Len(queue') = Len(queue) + 1
        /\ \A i \in 1 .. Len(queue) : queue'[i] = queue[i]
        /\ queue'[Len(queue) + 1] = cmd
    BY <1>3, QueueGrows DEF Comes
  <2>2. ASSUME NEW i \in 1 .. Len(queue'), NEW j \in 1 .. Len(queue'),
               queue'[i].op = "attach", queue'[j] = queue'[i]
        PROVE  j = i
    <3>1. CASE i \in 1 .. Len(queue) /\ j \in 1 .. Len(queue)
      BY <2>1, <2>2, <3>1 DEF QueueInv
    <3>2. CASE i = Len(queue) + 1 /\ j \in 1 .. Len(queue)
      BY <1>3, <2>1, <2>2, <3>2 DEF Comes
    <3>3. CASE i \in 1 .. Len(queue) /\ j = Len(queue) + 1
      BY <1>3, <2>1, <2>2, <3>3 DEF Comes
    <3> QED BY <2>1, <3>1, <3>2, <3>3
  <2>3. ASSUME NEW i \in 1 .. Len(queue')
        PROVE LET x == queue'[i].by IN
          /\ queue'[i].op = "attach" =>
               x \notin greeted' /\ sock'[x] # "none" /\ (sock'[x] = "closed" => x \in early')
          /\ queue'[i].op = "detach" => sock'[x] = "closed"
    <3>1. CASE i \in 1 .. Len(queue)
      BY <1>1, <2>1, <3>1
    <3>2. CASE i = Len(queue) + 1
      BY <1>3, <2>1, <3>2 DEF Comes
    <3> QED BY <2>1, <3>1, <3>2
  <2> QED BY <2>2, <2>3 DEF QueueInv
<1> QED BY <1>2, <1>3

LEMMA GhostsRun ==
  ASSUME TypeOK, GhostsClosedEarly, QueueInv, queue # <<>>, queue' = Tail(queue),
         \A x \in attachments' :
           x \in attachments \/ (queue[1].op = "attach" /\ queue[1].by = x),
         queue[1].op = "detach" => queue[1].by \notin attachments',
         attachments' \subseteq Sockets, early' = early,
         \A x \in Sockets : Live(x) => Live(x)'
  PROVE  GhostsClosedEarly'
<1> SUFFICES ASSUME NEW x \in attachments', x \notin early'
             PROVE  Live(x)' \/ Waiting(x, "detach")'
  BY DEF GhostsClosedEarly, Live
<1>1. /\ Len(queue) \in Nat \ {0} /\ Len(queue') = Len(queue) - 1
      /\ \A i \in 1 .. Len(queue') : queue'[i] = queue[i + 1]
      /\ queue[1] \in Commands
  BY QueueShrinks
<1>2. CASE x \in attachments
  <2>1. Live(x) \/ Waiting(x, "detach")
    BY <1>2 DEF GhostsClosedEarly, Live
  <2>2. ASSUME Waiting(x, "detach") PROVE Waiting(x, "detach")'
    <3>1. PICK i \in 1 .. Len(queue) : queue[i] = [op |-> "detach", by |-> x]
      BY <2>2 DEF Waiting
    <3>2. i # 1
      BY <3>1
    <3>3. i - 1 \in 1 .. Len(queue') /\ queue'[i - 1] = queue[i]
      BY <1>1, <3>2
    <3> QED BY <3>1, <3>3 DEF Waiting
  <2> QED BY <2>1, <2>2
<1>3. CASE queue[1].op = "attach" /\ queue[1].by = x
  <2>1. /\ sock[x] # "none" /\ sock[x] # "closed"
    BY <1>1, <1>3 DEF QueueInv
  <2> QED BY <2>1 DEF Live, TypeOK
<1> QED BY <1>2, <1>3

LEMMA GhostsKeep ==
  ASSUME TypeOK, GhostsClosedEarly, queue' = queue \/ \E cmd : Comes(cmd),
         attachments' \subseteq attachments, early \subseteq early',
         \A x \in Sockets : Live(x) => Live(x)' \/ x \in early' \/ Waiting(x, "detach")'
  PROVE  GhostsClosedEarly'
<1> SUFFICES ASSUME NEW x \in attachments', x \notin early'
             PROVE  Live(x)' \/ Waiting(x, "detach")'
  BY DEF GhostsClosedEarly, Live
<1>1. x \in Sockets /\ (Live(x) \/ Waiting(x, "detach"))
  BY DEF GhostsClosedEarly, Live, TypeOK
<1>2. ASSUME Waiting(x, "detach") PROVE Waiting(x, "detach")'
  <2>1. PICK i \in 1 .. Len(queue) : queue[i] = [op |-> "detach", by |-> x]
    BY <1>2 DEF Waiting
  <2>2. i \in 1 .. Len(queue') /\ queue'[i] = queue[i]
    <3>1. ASSUME NEW cmd, Comes(cmd) PROVE i \in 1 .. Len(queue') /\ queue'[i] = queue[i]
      BY <3>1, QueueGrows DEF Comes
    <3> QED BY <3>1
  <2> QED BY <2>1, <2>2 DEF Waiting
<1> QED BY <1>1, <1>2

-----------------------------------------------------------------------------
(* Frames on their way.                                                     *)

LEMMA SocketParts ==
  ASSUME NEW x \in Sockets
  PROVE  /\ x = <<x[1], x[2]>> /\ x[1] \in Clients
         /\ x[2] \in Nat /\ 1 <= x[2] /\ x[2] <= MaxSockets
  BY TerminalAssumption DEF Sockets

(* Of a client's sockets, only the last may be open or carry frames.        *)
LEMMA OneSocket ==
  ASSUME TypeOK, SocketInv, GreetInv, NEW x \in Sockets, NEW y \in Sockets,
         x # y, x[1] = y[1], sock[x] \notin {"none", "closed"}
  PROVE  sock[y] \in {"none", "closed"} /\ inbox[y] = <<>>
<1>1. /\ x[1] \in Clients /\ x[2] \in Nat /\ y[2] \in Nat /\ x[2] # y[2]
      /\ used[x[1]] \in Nat
  <2>1. /\ x = <<x[1], x[2]>> /\ x[1] \in Clients /\ x[2] \in Nat
        /\ y = <<y[1], y[2]>> /\ y[2] \in Nat
    BY SocketParts
  <2>2. x[2] # y[2]
    BY <2>1, Zenon
  <2> QED BY <2>1, <2>2, TerminalAssumption DEF TypeOK
<1>2. x[2] = used[x[1]]
  BY <1>1 DEF SocketInv
<1>3. sock[y] \in {"none", "closed"}
  BY <1>1, <1>2 DEF SocketInv
<1> QED BY <1>3 DEF GreetInv, Greet

(* Nothing is sent to x: what is on its way stays so.                       *)
LEMMA WireKeeps ==
  ASSUME TypeOK, NEW x \in Sockets, Wire(x),
         inbox'[x] = inbox[x],
         sock'[x] = "open" => sock[x] = "open" /\ (x \in greeted' => x \in greeted),
         seen'[x[1]] = seen[x[1]], ack'[x[1]] = ack[x[1]],
         latest' = latest \/ (latest' = latest + 1 /\ status # "exited"
                                /\ ~(sock'[x] = "open" /\ x \in greeted')),
         status = "exited" => status' = "exited",
         behind \subseteq behind'
  PROVE  Wire(x)'
<1>1. latest \in Nat /\ \A i \in 1 .. Len(inbox[x]) : inbox[x][i] \in Frames
  BY TerminalAssumption DEF TypeOK
<1>2. \A i \in 1 .. Len(inbox[x]) : Chunk(inbox[x][i]) => inbox[x][i].seq \in Nat
  BY <1>1, TerminalAssumption DEF Frames, Chunk
<1>3. CASE latest' = latest
  BY <1>3 DEF Wire, Carries
<1>4. CASE latest' = latest + 1 /\ status # "exited" /\ ~(sock'[x] = "open" /\ x \in greeted')
  <2>1. \A i \in 1 .. Len(inbox[x]) :
          Chunk(inbox[x][i]) => ack[x[1]] < inbox[x][i].seq /\ inbox[x][i].seq <= latest'
    BY <1>1, <1>2, <1>4 DEF Wire, Carries
  <2> QED BY <1>4, <2>1 DEF Wire, Carries
<1> QED BY <1>3, <1>4

(* Nothing is on its way to x.                                              *)
LEMMA WireEmpty ==
  ASSUME NEW x \in Sockets, inbox'[x] = <<>>,
         sock'[x] = "open" /\ x \in greeted' => seen'[x[1]] = latest'
  PROVE  Wire(x)'
<1>1. Len(<<>>) = 0 /\ Stream(<<>>)
  BY DEF Stream
<1>2. Stream(inbox'[x])
  BY <1>1
<1>3. Leads(<<>>, 0, seen'[x[1]], seen'[x[1]])
  BY DEF Leads
<1> QED BY <1>1, <1>2, <1>3 DEF Wire, Carries

(* A chunk is sent to a socket that has all before it.                      *)
LEMMA CarriesOutput ==
  ASSUME NEW s \in Seq(Frames), NEW from \in Nat, NEW acked \in Nat, NEW last \in Nat,
         NEW f \in Frames, f.type = "output", f.seq = last + 1,
         NEW again, Carries(s, TRUE, TRUE, from, acked, last, FALSE, again),
         acked <= from, from <= last
  PROVE  Carries(s \o <<f>>, TRUE, TRUE, from, acked, last + 1, FALSE, again)
<1> DEFINE t == s \o <<f>>
<1>1. /\ t \in Seq(Frames)
      /\ Len(s) \in Nat /\ Len(t) = Len(s) + 1
      /\ \A i \in 1 .. Len(s) : t[i] = s[i]
      /\ t[Len(s) + 1] = f
  BY ConcatOne
<1>2. Chunk(f) /\ ~Final(f)
  BY DEF Chunk, Final
<1>3. /\ Stream(s) /\ \A i \in 1 .. Len(s) : ~Final(s[i])
      /\ Leads(s, Len(s), from, last)
      /\ \A i \in 1 .. Len(s) :
           /\ Chunk(s[i]) => acked < s[i].seq /\ s[i].seq <= last
           /\ s[i].type # "exit"
      /\ s # <<>> /\ Chunk(s[1]) =>
           /\ s[1].seq <= from + 1
           /\ s[1].seq > from \/ again
  BY DEF Carries
<1>4. s # <<>> => s[Len(s)].seq = last
  BY <1>1, <1>3 DEF Leads
<1>5. Stream(t)
  BY <1>2, <1>3, <1>4, StreamGrows
<1>6. \A i \in 1 .. Len(s) : Chunk(s[i]) => s[i].seq \in Nat
  BY TerminalAssumption DEF Frames, Chunk
<1>7. /\ \A i \in 1 .. Len(s) : t[i] = s[i] /\ (Chunk(s[i]) => s[i].seq <= last + 1)
      /\ \A i \in 1 .. Len(t) : i \in 1 .. Len(s) \/ i = Len(s) + 1
  BY <1>1, <1>3, <1>6
<1>8. t # <<>> /\ t[1] = IF s = <<>> THEN f ELSE s[1]
  BY <1>1
<1> HIDE DEF t
<1>9. \A i \in 1 .. Len(t) :
        /\ Chunk(t[i]) => acked < t[i].seq /\ t[i].seq <= last + 1
        /\ t[i].type # "exit" /\ ~Final(t[i])
  BY <1>1, <1>2, <1>3, <1>7
<1>10. Leads(t, Len(t), from, last + 1)
  BY <1>1, <1>2 DEF Leads
<1>11. Chunk(t[1]) => t[1].seq <= from + 1 /\ (t[1].seq > from \/ again)
  <2>1. CASE s = <<>>
    <3>1. from = last
      BY <1>3, <2>1 DEF Leads
    <3> QED BY <1>8, <2>1, <3>1
  <2>2. CASE s # <<>>
    BY <1>3, <1>8, <2>2
  <2> QED BY <2>1, <2>2
<1> QED BY <1>5, <1>9, <1>10, <1>11 DEF Carries, t

(* The server closes the socket with a frame: the exit, once nothing more   *)
(* is to come, or an error.                                                 *)
LEMMA CarriesEnd ==
  ASSUME NEW s \in Seq(Frames), NEW from, NEW acked, NEW last, NEW over, NEW after,
         NEW served, NEW again, NEW f \in Frames, Final(f),
         Carries(s, TRUE, served, from, acked, last, over, again),
         over => after,
         f.type = "exit" => served /\ after
  PROVE  Carries(s \o <<f>>, FALSE, FALSE, from, acked, last, after, again)
<1> DEFINE t == s \o <<f>>
<1>1. /\ t \in Seq(Frames)
      /\ Len(s) \in Nat /\ Len(t) = Len(s) + 1
      /\ \A i \in 1 .. Len(s) : t[i] = s[i]
      /\ t[Len(s) + 1] = f
  BY ConcatOne
<1>2. ~Chunk(f) /\ f.type # "gap"
  BY DEF Chunk, Final
<1>3. /\ Stream(s) /\ \A i \in 1 .. Len(s) : ~Final(s[i])
      /\ served => Leads(s, Len(s), from, last)
      /\ \A i \in 1 .. Len(s) : Chunk(s[i]) => acked < s[i].seq /\ s[i].seq <= last
      /\ s # <<>> /\ Chunk(s[1]) =>
           /\ s[1].seq <= from + 1 \/ over
           /\ s[1].seq > from \/ again
  BY DEF Carries
<1>4. Stream(t)
  BY <1>2, <1>3, StreamGrows
<1>5. t[1] = (IF s = <<>> THEN f ELSE s[1])
  BY <1>1
<1>6. \A i \in 1 .. Len(t) : i \in 1 .. Len(s) \/ i = Len(s) + 1
  BY <1>1
<1>7. Leads(s, Len(s), from, last) => Leads(t, Len(s), from, last)
  BY <1>1 DEF Leads
<1> HIDE DEF t
<1>8. ASSUME NEW i \in 1 .. Len(t)
      PROVE  /\ Chunk(t[i]) => acked < t[i].seq /\ t[i].seq <= last
             /\ t[i].type = "exit" => after /\ Leads(t, i - 1, from, last)
  <2>1. CASE i \in 1 .. Len(s)
    BY <1>1, <1>3, <2>1 DEF Final
  <2>2. CASE i = Len(s) + 1
    <3>1. t[i] = f /\ i - 1 = Len(s)
      BY <1>1, <2>2
    <3> QED BY <1>2, <1>3, <1>7, <3>1
  <2> QED BY <1>6, <2>1, <2>2
<1>9. Chunk(t[1]) =>
        /\ t[1].seq <= from + 1 \/ after
        /\ t[1].seq > from \/ again
  BY <1>2, <1>3, <1>5
<1> QED BY <1>4, <1>8, <1>9 DEF Carries, t

(* The screen takes a chunk: it shows what it brought, and the rest follows.*)
LEMMA CarriesChunk ==
  ASSUME NEW s \in Seq(Frames), s # <<>>, Chunk(s[1]),
         NEW from, NEW acked \in Nat, NEW last \in Nat, NEW open, NEW served, NEW over, NEW again,
         Carries(s, open, served, from, acked, last, over, again),
         NEW known \in {acked, s[1].seq}
  PROVE  Carries(Tail(s), open, served, s[1].seq, known, last, over, again)
<1> DEFINE t == Tail(s)
           n == s[1].seq
<1>1. /\ t \in Seq(Frames) /\ Len(s) \in Nat \ {0} /\ Len(t) = Len(s) - 1
      /\ \A i \in 1 .. Len(t) : t[i] = s[i + 1]
      /\ Stream(t)
  BY StreamShrinks DEF Carries
<1> HIDE DEF t
<1>2. /\ Stream(s)
      /\ open => \A i \in 1 .. Len(s) : ~Final(s[i])
      /\ served => Leads(s, Len(s), from, last)
      /\ \A i \in 1 .. Len(s) :
           /\ Chunk(s[i]) => acked < s[i].seq /\ s[i].seq <= last
           /\ s[i].type = "exit" => over /\ Leads(s, i - 1, from, last)
  BY DEF Carries
<1>3. \A i \in 1 .. Len(s) : Chunk(s[i]) => s[i].seq \in Nat
  BY TerminalAssumption DEF Frames, Chunk
<1>4. n \in Nat /\ 1 \in 1 .. Len(s)
  BY <1>1, <1>3
<1>5. ASSUME NEW i \in 1 .. Len(t)
      PROVE  t[i] = s[i + 1] /\ i + 1 \in 1 .. Len(s) /\ i \in Nat /\ i > 0
  BY <1>1
<1>6. ASSUME NEW i \in 1 .. Len(t), Chunk(t[i])
      PROVE  t[i].seq = n + i /\ t[i].seq \in Nat
  <2>1. PICK a \in Nat, b \in Nat : a = s[i + 1].seq /\ b = n
    BY <1>3, <1>4, <1>5, <1>6
  <2>2. s[i + 1].seq + 1 = s[1].seq + (i + 1)
    BY <1>2, <1>4, <1>5, <1>6 DEF Stream
  <2>3. a + 1 = b + (i + 1)
    BY <2>1, <2>2, Zenon
  <2>4. i \in Nat
    BY <1>5
  <2>5. a = b + i
    BY <2>3, <2>4
  <2> QED BY <1>5, <2>1, <2>4, <2>5
<1>7. ASSUME NEW k \in 1 .. Len(s), Leads(s, k, from, last)
      PROVE  Leads(t, k - 1, n, last)
  <2>1. Chunk(s[k]) /\ s[k].seq = last
    BY <1>7 DEF Leads
  <2>2. CASE k = 1
    BY <2>1, <2>2 DEF Leads
  <2>3. CASE k # 1
    <3>1. k - 1 \in 1 .. Len(t) /\ (k - 1) + 1 = k /\ k - 1 # 0
      BY <1>1, <2>3
    <3>2. t[k - 1] = s[k]
      BY <1>1, <3>1
    <3> QED BY <2>1, <3>1, <3>2 DEF Leads
  <2> QED BY <2>2, <2>3
<1>8. ASSUME NEW i \in 1 .. Len(t), Chunk(t[i])
      PROVE  known < t[i].seq /\ t[i].seq <= last
  <2>1. acked < t[i].seq /\ t[i].seq <= last
    BY <1>2, <1>5, <1>8
  <2>2. n < t[i].seq
    BY <1>4, <1>5, <1>6, <1>8
  <2> QED BY <2>1, <2>2
<1>9. ASSUME NEW i \in 1 .. Len(t), t[i].type = "exit"
      PROVE  over /\ Leads(t, i - 1, n, last)
  <2>1. /\ i + 1 \in 1 .. Len(s) /\ s[i + 1].type = "exit" /\ i + 1 - 1 = i
        /\ i \in 1 .. Len(s)
    BY <1>1, <1>5, <1>9
  <2>2. over /\ Leads(s, i, from, last)
    BY <1>2, <2>1
  <2> QED BY <1>7, <2>1, <2>2
<1>10. served => Leads(t, Len(t), n, last)
  BY <1>1, <1>2, <1>7
<1>11. t # <<>> /\ Chunk(t[1]) => t[1].seq <= n + 1 /\ t[1].seq > n
  <2>1. t # <<>> => 1 \in 1 .. Len(t)
    BY <1>1
  <2> QED BY <1>4, <1>6, <2>1
<1>12. open => \A i \in 1 .. Len(t) : ~Final(t[i])
  BY <1>2, <1>5
<1> QED BY <1>1, <1>8, <1>9, <1>10, <1>11, <1>12 DEF Carries, t

(* The screen takes a gap: it shows nothing before the chunk that follows.  *)
LEMMA CarriesGap ==
  ASSUME NEW s \in Seq(Frames), s # <<>>, s[1].type = "gap",
         NEW from, NEW acked \in Nat, NEW last \in Nat, NEW open, NEW served, NEW over, NEW again,
         Carries(s, open, served, from, acked, last, over, again)
  PROVE  /\ s[2].seq \in 1 .. MaxSeq /\ acked < s[2].seq /\ s[2].seq <= last
         /\ Carries(Tail(s), open, served, s[2].seq - 1, acked, last, over, again)
<1> DEFINE t == Tail(s)
           n == s[2].seq
<1>1. /\ t \in Seq(Frames) /\ Len(s) \in Nat \ {0} /\ Len(t) = Len(s) - 1
      /\ \A i \in 1 .. Len(t) : t[i] = s[i + 1]
      /\ Stream(t)
  BY StreamShrinks DEF Carries
<1> HIDE DEF t
<1>2. /\ Stream(s)
      /\ open => \A i \in 1 .. Len(s) : ~Final(s[i])
      /\ served => Leads(s, Len(s), from, last)
      /\ \A i \in 1 .. Len(s) :
           /\ Chunk(s[i]) => acked < s[i].seq /\ s[i].seq <= last
           /\ s[i].type = "exit" => over /\ Leads(s, i - 1, from, last)
  BY DEF Carries
<1>3. Len(s) > 1 /\ Chunk(s[2]) /\ 2 \in 1 .. Len(s)
  <2>1. 1 \in 1 .. Len(s)
    BY <1>1
  <2> QED BY <1>1, <1>2, <2>1 DEF Stream
<1>4. n \in 1 .. MaxSeq /\ n \in Nat /\ acked < n /\ n <= last
  BY <1>2, <1>3, TerminalAssumption DEF Frames, Chunk
<1>5. ASSUME NEW i \in 1 .. Len(t)
      PROVE  t[i] = s[i + 1] /\ i + 1 \in 1 .. Len(s)
  BY <1>1
<1>6. ASSUME NEW k \in 2 .. Len(s), Leads(s, k, from, last)
      PROVE  Leads(t, k - 1, n - 1, last)
  <2>1. Chunk(s[k]) /\ s[k].seq = last
    BY <1>6 DEF Leads
  <2>2. k - 1 \in 1 .. Len(t) /\ (k - 1) + 1 = k /\ k - 1 # 0
    BY <1>1
  <2>3. t[k - 1] = s[k]
    BY <1>1, <2>2
  <2> QED BY <2>1, <2>2, <2>3 DEF Leads
<1>7. ASSUME NEW i \in 1 .. Len(t), t[i].type = "exit"
      PROVE  over /\ Leads(t, i - 1, n - 1, last)
  <2>1. i + 1 \in 1 .. Len(s) /\ s[i + 1].type = "exit" /\ i + 1 - 1 = i /\ i \in 1 .. Len(s)
    BY <1>1, <1>5, <1>7
  <2>2. i # 1
    BY <1>3, <2>1 DEF Chunk
  <2>3. over /\ Leads(s, i, from, last)
    BY <1>2, <2>1
  <2> QED BY <1>6, <2>1, <2>2, <2>3
<1>8. served => Leads(t, Len(t), n - 1, last)
  BY <1>1, <1>2, <1>3, <1>6
<1>9. t # <<>> /\ t[1].seq = n
  BY <1>1, <1>3
<1>10. t[1].seq <= (n - 1) + 1 /\ t[1].seq > n - 1
  BY <1>4, <1>9
<1>11. \A i \in 1 .. Len(t) : Chunk(t[i]) => acked < t[i].seq /\ t[i].seq <= last
  BY <1>2, <1>5
<1>12. open => \A i \in 1 .. Len(t) : ~Final(t[i])
  BY <1>2, <1>5
<1> QED BY <1>1, <1>4, <1>7, <1>8, <1>10, <1>11, <1>12 DEF Carries, t

-----------------------------------------------------------------------------
(* The steps.  Each lemma takes Inv and gives Inv'.                         *)

LEMMA InitHolds == Init => Inv
<1> SUFFICES ASSUME Init PROVE Inv
  OBVIOUS
<1> USE TerminalAssumption DEF Init
<1>1. TypeOK
  <2>1. <<>> \in Seq(Commands) /\ <<>> \in Seq(Frames)
    OBVIOUS
  <2>2. inbox \in [Sockets -> Seq(Frames)] /\ queue \in Seq(Commands)
    BY <2>1
  <2>3. /\ used \in [Clients -> 0 .. MaxSockets]
        /\ ack \in [Clients -> 0 .. MaxSeq] /\ seen \in [Clients -> 0 .. MaxSeq]
        /\ latest \in 0 .. MaxSeq /\ first \in 0 .. latest
    OBVIOUS
  <2>4. sock \in [Sockets -> {"none", "open", "shut", "cut", "closed"}]
    OBVIOUS
  <2> HIDE TerminalAssumption DEF Init
  <2>5. /\ status \in {"running", "terminating", "exited"} /\ busy = FALSE /\ exiting = FALSE
        /\ attachments = {} /\ controllers = {} /\ control = None
        /\ greeted = {} /\ early = {}
        /\ done = {} /\ behind = {} /\ skipped = {} /\ repeated = {}
    BY DEF Init
  <2> QED BY <2>2, <2>3, <2>4, <2>5 DEF TypeOK
<1>2. HubInv /\ BusyInv /\ QueueInv /\ GreetInv /\ ScreenInv
  BY DEF HubInv, BusyInv, QueueInv, GreetInv, Greet, ScreenInv
<1>3. SocketInv
  <2>1. \A x \in Sockets : x[1] \in Clients /\ x[2] \in Nat /\ x[2] > 0
    BY SocketParts
  <2> QED BY <2>1 DEF SocketInv
<1>4. WireInv
  <2>1. Stream(<<>>)
    BY DEF Stream
  <2> QED BY <2>1 DEF WireInv, Wire, Carries
<1>5. OneController /\ GhostsClosedEarly /\ NothingSkipped /\ NothingRepeated
  BY DEF OneController, GhostsClosedEarly, NothingSkipped, NothingRepeated
<1> QED BY <1>1, <1>2, <1>3, <1>4, <1>5 DEF Inv

(* Commands that send nothing and leave the sockets alone: requestControl,  *)
(* releaseControl, a repeated termination; the end of a rename or of a      *)
(* termination is one of them.                                              *)
LEMMA HubOnlyStep ==
  ASSUME Inv, queue # <<>>, Done, UNCHANGED <<journal, exiting, wires, browser, status>>,
         attachments' = attachments, controllers' \subseteq attachments,
         control' \in Sockets \cup {None}, OneController',
         queue[1].op = "detach" => queue[1].by \notin attachments
  PROVE  Inv'
<1> USE DEF Inv, journal, wires, browser, Done
<1>1. /\ queue' \in Seq(Commands)
  BY QueueShrinks
<1>2. TypeOK'
  BY <1>1 DEF TypeOK
<1>3. HubInv' /\ BusyInv' /\ SocketInv' /\ ScreenInv'
  BY DEF HubInv, BusyInv, SocketInv, ScreenInv
<1>4. QueueInv'
  BY QueueRuns
<1>5. GhostsClosedEarly'
  BY GhostsRun DEF TypeOK, Live
<1>6. GreetInv' /\ WireInv'
  BY DEF GreetInv, Greet, WireInv, Wire
<1>7. NothingSkipped' /\ NothingRepeated'
  BY DEF NothingSkipped, NothingRepeated
<1> QED BY <1>2, <1>3, <1>4, <1>5, <1>6, <1>7

LEMMA RequestStep ==
  ASSUME Inv, ~busy, queue # <<>>, Head(queue).op = "request",
         RunRequest(Head(queue).by), Done, UNCHANGED <<journal, early, browser>>
  PROVE  Inv'
<1> DEFINE x == queue[1].by
<1>1. Head(queue) = queue[1] /\ queue[1] \in Commands /\ queue[1].op = "request"
  BY QueueShrinks DEF Inv, Done
<1>2. x \in Sockets
  BY <1>1 DEF Commands
<1>3. /\ UNCHANGED <<journal, exiting, wires, browser, status>>
      /\ attachments' = attachments
      /\ control' = IF x \in attachments THEN x ELSE control
      /\ controllers' = IF x \in attachments THEN {x} ELSE controllers
  BY <1>1 DEF RunRequest, wires
<1>4. OneController'
  BY <1>2, <1>3, TerminalAssumption DEF Inv, OneController, TypeOK
<1>5. controllers' \subseteq attachments /\ control' \in Sockets \cup {None}
  BY <1>2, <1>3 DEF Inv, HubInv, TypeOK
<1> QED BY <1>1, <1>3, <1>4, <1>5, HubOnlyStep

LEMMA ReleaseStep ==
  ASSUME Inv, ~busy, queue # <<>>, Head(queue).op = "release",
         RunRelease(Head(queue).by), Done, UNCHANGED <<journal, early, browser>>
  PROVE  Inv'
<1> DEFINE x == queue[1].by
<1>1. Head(queue) = queue[1] /\ queue[1] \in Commands /\ queue[1].op = "release"
  BY QueueShrinks DEF Inv, Done
<1>2. /\ UNCHANGED <<journal, exiting, wires, browser, status>>
      /\ attachments' = attachments
      /\ control' = IF x \in controllers \cap attachments THEN None ELSE control
      /\ controllers' = controllers \ {x}
  BY <1>1 DEF RunRelease, wires
<1>3. OneController'
  BY <1>2, TerminalAssumption DEF Inv, OneController, TypeOK, HubInv
<1>4. controllers' \subseteq attachments /\ control' \in Sockets \cup {None}
  BY <1>2 DEF Inv, HubInv, TypeOK
<1> QED BY <1>1, <1>2, <1>3, <1>4, HubOnlyStep

LEMMA TerminateAgainStep ==
  ASSUME Inv, ~busy, queue # <<>>, Head(queue).op = "terminate",
         UNCHANGED <<status, exiting, hub, sock, greeted, inbox>>,
         Done, UNCHANGED <<journal, early, browser>>
  PROVE  Inv'
<1>1. Head(queue) = queue[1] /\ queue[1].op = "terminate"
  BY QueueShrinks DEF Inv, Done
<1>2. UNCHANGED <<journal, exiting, wires, browser, status>> /\ UNCHANGED hub
  BY DEF wires
<1>3. OneController' /\ controllers' \subseteq attachments /\ control' \in Sockets \cup {None}
  BY <1>2 DEF Inv, OneController, HubInv, TypeOK, hub
<1> QED BY <1>1, <1>2, <1>3, HubOnlyStep DEF hub

LEMMA AnswerStep == ASSUME Inv, BackendAnswers PROVE Inv'
<1>1. /\ queue # <<>> /\ queue[1].op \in {"rename", "terminate"}
      /\ Done /\ UNCHANGED <<journal, exiting, wires, browser, status>> /\ UNCHANGED hub
  BY QueueShrinks DEF Inv, BackendAnswers, Done, BusyInv
<1>2. OneController' /\ controllers' \subseteq attachments /\ control' \in Sockets \cup {None}
  BY <1>1 DEF Inv, OneController, HubInv, TypeOK, hub
<1> QED BY <1>1, <1>2, HubOnlyStep DEF hub

(* What is sent arrives at the sockets that are open.                       *)
LEMMA SentTo ==
  ASSUME TypeOK, NEW frames \in [Sockets -> Seq(Frames)]
  PROVE  /\ Sent(frames) \in [Sockets -> Seq(Frames)]
         /\ \A y \in Sockets :
              /\ sock[y] # "open" \/ frames[y] = <<>> => Sent(frames)[y] = inbox[y]
              /\ sock[y] = "open" => Sent(frames)[y] = inbox[y] \o frames[y]
<1>1. ASSUME NEW y \in Sockets
      PROVE  /\ inbox[y] \in Seq(Frames) /\ inbox[y] \o <<>> = inbox[y]
             /\ inbox[y] \o frames[y] \in Seq(Frames)
  <2>1. inbox[y] \in Seq(Frames) /\ frames[y] \in Seq(Frames)
    BY DEF TypeOK
  <2> QED BY <2>1, ConcatEmptySeq, ConcatProperties
<1>2. \A y \in Sockets : Sent(frames)[y] = IF sock[y] = "open" THEN inbox[y] \o frames[y] ELSE inbox[y]
  BY DEF Sent
<1>3. Sent(frames) \in [Sockets -> Seq(Frames)]
  BY <1>1 DEF Sent
<1> QED BY <1>1, <1>2, <1>3

LEMMA SentOne ==
  ASSUME TypeOK, NEW x \in Sockets, NEW w \in Seq(Frames)
  PROVE  LET after == Sent([NoFrames EXCEPT ![x] = w]) IN
         /\ after \in [Sockets -> Seq(Frames)]
         /\ \A y \in Sockets : y # x => after[y] = inbox[y]
         /\ after[x] = IF sock[x] = "open" THEN inbox[x] \o w ELSE inbox[x]
<1> DEFINE frames == [NoFrames EXCEPT ![x] = w]
<1>1. /\ frames \in [Sockets -> Seq(Frames)]
      /\ \A y \in Sockets : frames[y] = IF y = x THEN w ELSE <<>>
  <2>1. NoFrames \in [Sockets -> Seq(Frames)] /\ \A y \in Sockets : NoFrames[y] = <<>>
    BY DEF NoFrames
  <2> QED BY <2>1
<1> HIDE DEF frames
<1> QED BY <1>1, SentTo DEF frames

(* doAttach.                                                                *)
LEMMA AttachStep ==
  ASSUME Inv, ~busy, queue # <<>>, Head(queue).op = "attach",
         RunAttach(Head(queue).by), Done, UNCHANGED <<journal, early, browser>>
  PROVE  Inv'
<1> DEFINE x     == queue[1].by
           c     == x[1]
           gone  == status = "exited"
           takes == control = None
           w     == Welcome(ack[c], gone)
<1>1. /\ Head(queue) = queue[1] /\ queue[1] \in Commands /\ queue[1].op = "attach"
      /\ queue' \in Seq(Commands) /\ queue' = Tail(queue) /\ busy' = FALSE
      /\ 1 \in 1 .. Len(queue)
  BY QueueShrinks DEF Inv, Done
<1>2. x \in Sockets /\ c \in Clients
  BY <1>1, SocketParts DEF Commands
<1>3. x \notin greeted /\ sock[x] # "none"
  BY <1>1 DEF Inv, QueueInv
<1> HIDE DEF x
<1>4. /\ inbox' = Sent([NoFrames EXCEPT ![x] = w])
      /\ control' = IF takes THEN x ELSE control
      /\ attachments' = IF gone THEN attachments ELSE attachments \cup {x}
      /\ controllers' = IF takes /\ ~gone THEN controllers \cup {x} ELSE controllers
      /\ sock' = IF gone THEN Closing({x}, "shut") ELSE sock
      /\ greeted' = greeted \cup {x}
      /\ UNCHANGED <<status, exiting, journal, early, browser>>
  BY <1>1 DEF RunAttach, Welcome, Announced, Ended, x
<1>5. ack[c] \in Nat /\ seen[c] \in Nat /\ latest \in Nat
      /\ ack[c] <= seen[c] /\ seen[c] <= latest /\ ack[c] <= latest
  BY <1>2, TerminalAssumption DEF Inv, TypeOK, ScreenInv
<1>6. /\ w \in Seq(Frames) /\ Len(w) \in Nat /\ Stream(w)
      /\ \A i \in 1 .. Len(w) :
           /\ Chunk(w[i]) => ack[c] < w[i].seq /\ w[i].seq <= latest
           /\ Final(w[i]) => gone
           /\ Final(w[i]) => Leads(w, i - 1, ack[c], latest)
      /\ ~gone => Leads(w, Len(w), ack[c], latest)
      /\ w # <<>> /\ Chunk(w[1]) => w[1].seq > ack[c] /\ (gone \/ w[1].seq = ack[c] + 1)
  BY <1>5, WelcomeFrames DEF Inv
<1> HIDE DEF w
<1>7. /\ inbox' \in [Sockets -> Seq(Frames)]
      /\ \A y \in Sockets : y # x => inbox'[y] = inbox[y]
      /\ sock[x] = "open" => inbox'[x] = w
      /\ sock[x] # "open" => inbox'[x] = inbox[x]
  <2>1. sock[x] = "open" => inbox[x] = <<>>
    BY <1>2, <1>3 DEF Inv, GreetInv, Greet
  <2>2. <<>> \o w = w
    BY <1>6, ConcatEmptySeq
  <2> QED BY <1>2, <1>4, <1>6, <2>1, <2>2, SentOne DEF Inv
<1>8. \A y \in Sockets :
        sock'[y] = IF gone /\ y = x /\ sock[y] = "open" THEN "shut" ELSE sock[y]
  BY <1>4 DEF Closing
<1>9. sock' \in [Sockets -> {"none", "open", "shut", "cut", "closed"}]
  BY <1>4 DEF Closing, Inv, TypeOK
<1>10. TypeOK'
  <2>1. /\ attachments' \subseteq Sockets /\ controllers' \subseteq Sockets
        /\ control' \in Sockets \cup {None} /\ greeted' \subseteq Sockets
    BY <1>2, <1>4 DEF Inv, TypeOK
  <2>2. UNCHANGED <<status, exiting, latest, first, early,
                    used, ack, seen, done, behind, skipped, repeated>>
    BY <1>4 DEF journal, browser
  <2> QED BY <1>1, <1>7, <1>9, <2>1, <2>2 DEF Inv, TypeOK
<1>11. HubInv' /\ BusyInv' /\ OneController'
  BY <1>1, <1>2, <1>4, TerminalAssumption DEF Inv, TypeOK, HubInv, BusyInv, OneController
<1>12. SocketInv' /\ ScreenInv' /\ NothingSkipped' /\ NothingRepeated'
  BY <1>4, <1>8 DEF Inv, SocketInv, ScreenInv, NothingSkipped, NothingRepeated, journal, browser
<1>13. QueueInv'
  <2>1. \A y \in Sockets : y \in greeted' => y \in greeted \/ (queue[1].op = "attach" /\ queue[1].by = y)
    BY <1>1, <1>4 DEF x
  <2> QED BY <1>1, <1>4, <1>8, <2>1, QueueRuns DEF Inv
<1>14. GhostsClosedEarly'
  <2>1. \A y \in attachments' : y \in attachments \/ (queue[1].op = "attach" /\ queue[1].by = y)
    BY <1>1, <1>4 DEF x
  <2>2. \A y \in Sockets : Live(y) => Live(y)'
    BY <1>8 DEF Live
  <2>3. attachments' \subseteq Sockets
    BY <1>10 DEF TypeOK
  <2> QED BY <1>1, <1>4, <2>1, <2>2, <2>3, GhostsRun DEF Inv
<1>15. ASSUME NEW y \in Sockets PROVE Greet(y)'
  <2>1. Greet(y)
    BY DEF Inv, GreetInv
  <2>2. CASE y # x
    BY <1>4, <1>7, <1>8, <2>1, <2>2 DEF Greet, browser
  <2>3. CASE y = x
    <3>1. sock'[x] = "open" => x \in attachments'
      BY <1>2, <1>4, <1>8
    <3>2. sock'[x] # "none" /\ (sock'[x] = "closed" => sock[x] = "closed")
      BY <1>2, <1>3, <1>8
    <3> QED BY <1>4, <1>7, <2>1, <2>3, <3>1, <3>2 DEF Greet
  <2> QED BY <2>2, <2>3
<1>16. ASSUME NEW y \in Sockets PROVE Wire(y)'
  <2>0. Wire(y)
    BY DEF Inv, WireInv
  <2>1. CASE y # x \/ sock[y] # "open"
    BY <1>4, <1>7, <1>8, <2>0, <2>1, WireKeeps DEF Inv, journal, browser
  <2>2. CASE y = x /\ sock[x] = "open"
    <3>1. inbox'[y] = w
      BY <1>7, <2>2
    <3>2. c \notin behind => seen[c] = ack[c]
      BY <1>2, <1>3, <2>2 DEF Inv, GreetInv, Greet
    <3>3. \A n : Leads(w, n, ack[c], latest) => Leads(w, n, seen[c], latest)
      BY <1>5 DEF Leads
    <3>4. sock'[x] = "open" => ~gone
      BY <1>2, <1>8, <2>2
    <3>5. \A i \in 1 .. Len(w) : w[i].type = "exit" => gone /\ Leads(w, i - 1, seen[c], latest)
      BY <1>6, <3>3 DEF Final
    <3>6. w # <<>> /\ Chunk(w[1]) =>
            /\ w[1].seq <= seen[c] + 1 \/ gone
            /\ w[1].seq > seen[c] \/ c \in behind
      <4>1. w # <<>> /\ Chunk(w[1]) => w[1].seq \in Nat
        BY <1>6, TerminalAssumption DEF Frames, Chunk
      <4> QED BY <1>5, <1>6, <3>2, <4>1
    <3>7. Carries(w, sock'[x] = "open", sock'[x] = "open" /\ x \in greeted',
                  seen[c], ack[c], latest, gone, c \in behind)
      BY <1>6, <3>3, <3>4, <3>5, <3>6 DEF Carries
    <3> QED BY <1>4, <2>2, <3>1, <3>7 DEF Wire, journal, browser
  <2> QED BY <2>1, <2>2
<1> QED BY <1>10, <1>11, <1>12, <1>13, <1>14, <1>15, <1>16 DEF Inv, GreetInv, WireInv

(* doDetach: the socket has closed.                                         *)
LEMMA DetachStep ==
  ASSUME Inv, ~busy, queue # <<>>, Head(queue).op = "detach",
         RunDetach(Head(queue).by), Done, UNCHANGED <<journal, early, browser>>
  PROVE  Inv'
<1> DEFINE x == queue[1].by
<1>1. /\ Head(queue) = queue[1] /\ queue[1] \in Commands /\ queue[1].op = "detach"
      /\ queue' \in Seq(Commands) /\ queue' = Tail(queue) /\ busy' = FALSE
      /\ 1 \in 1 .. Len(queue)
  BY QueueShrinks DEF Inv, Done
<1>2. x \in Sockets /\ sock[x] = "closed"
  BY <1>1 DEF Commands, Inv, QueueInv
<1>3. /\ attachments' = attachments \ {x}
      /\ controllers' = controllers \ {x}
      /\ control' = IF x \in controllers \cap attachments THEN None ELSE control
      /\ UNCHANGED <<status, exiting, latest, first, greeted, inbox, early,
                     used, ack, seen, done, behind, skipped, repeated>>
  BY <1>1 DEF RunDetach, journal, browser
<1>4. sock' = sock
  <2>1. sock' = IF x \in attachments THEN Closing({x}, "shut") ELSE sock
    BY <1>1 DEF RunDetach
  <2>2. Closing({x}, "shut") = [y \in Sockets |-> sock[y]]
    BY <1>2 DEF Closing
  <2>3. sock = [y \in Sockets |-> sock[y]]
    BY DEF Inv, TypeOK
  <2> QED BY <2>1, <2>2, <2>3
<1> HIDE DEF x
<1>5. TypeOK'
  <2>1. /\ attachments' \subseteq Sockets /\ controllers' \subseteq Sockets
        /\ control' \in Sockets \cup {None}
    BY <1>3 DEF Inv, TypeOK
  <2> QED BY <1>1, <1>3, <1>4, <2>1 DEF Inv, TypeOK
<1>6. HubInv' /\ BusyInv' /\ OneController'
  BY <1>1, <1>2, <1>3, TerminalAssumption DEF Inv, TypeOK, HubInv, BusyInv, OneController
<1>7. SocketInv' /\ ScreenInv' /\ NothingSkipped' /\ NothingRepeated'
  BY <1>3, <1>4 DEF Inv, SocketInv, ScreenInv, NothingSkipped, NothingRepeated
<1>8. QueueInv'
  BY <1>1, <1>3, <1>4, QueueRuns DEF Inv
<1>9. GhostsClosedEarly'
  <2>1. queue[1].by \notin attachments' /\ attachments' \subseteq Sockets
    BY <1>3, <1>5 DEF x, TypeOK
  <2> QED BY <1>1, <1>3, <1>4, <2>1, GhostsRun DEF Inv, Live
<1>10. GreetInv'
  BY <1>2, <1>3, <1>4 DEF Inv, GreetInv, Greet
<1>11. WireInv'
  BY <1>3, <1>4 DEF Inv, WireInv, Wire
<1> QED BY <1>5, <1>6, <1>7, <1>8, <1>9, <1>10, <1>11 DEF Inv

(* onPtyExit.                                                               *)
LEMMA ExitStep ==
  ASSUME Inv, ~busy, queue # <<>>, Head(queue).op = "exit",
         RunExit, Done, UNCHANGED <<journal, early, browser>>
  PROVE  Inv'
<1> DEFINE ex     == [type |-> "exit", seq |-> 0]
           frames == [y \in Sockets |-> IF y \in attachments THEN <<ex>> ELSE <<>>]
<1>1. /\ Head(queue) = queue[1] /\ queue[1].op = "exit"
      /\ queue' \in Seq(Commands) /\ queue' = Tail(queue) /\ busy' = FALSE
  BY QueueShrinks DEF Inv, Done
<1>2. /\ status' = "exited" /\ attachments' = {} /\ controllers' = {}
      /\ inbox' = Sent(frames)
      /\ sock' = Closing(attachments, "shut")
      /\ UNCHANGED <<control, exiting, latest, first, greeted, early,
                     used, ack, seen, done, behind, skipped, repeated>>
  BY DEF RunExit, journal, browser
<1>3. /\ sock' \in [Sockets -> {"none", "open", "shut", "cut", "closed"}]
      /\ \A y \in Sockets :
           sock'[y] = IF y \in attachments /\ sock[y] = "open" THEN "shut" ELSE sock[y]
  BY <1>2 DEF Closing, Inv, TypeOK
<1>4. ex \in Frames /\ Final(ex)
  BY DEF Frames, Final
<1>5. /\ frames \in [Sockets -> Seq(Frames)]
      /\ \A y \in Sockets : frames[y] = IF y \in attachments THEN <<ex>> ELSE <<>>
  BY <1>4
<1> HIDE DEF frames
<1>6. /\ inbox' \in [Sockets -> Seq(Frames)]
      /\ \A y \in Sockets :
           /\ sock[y] # "open" \/ y \notin attachments => inbox'[y] = inbox[y]
           /\ sock[y] = "open" /\ y \in attachments => inbox'[y] = inbox[y] \o <<ex>>
  BY <1>2, <1>5, SentTo DEF Inv
<1>7. TypeOK'
  BY <1>1, <1>2, <1>3, <1>6 DEF Inv, TypeOK
<1>8. HubInv' /\ BusyInv' /\ OneController' /\ NothingSkipped' /\ NothingRepeated'
  BY <1>1, <1>2 DEF Inv, HubInv, BusyInv, OneController, NothingSkipped, NothingRepeated
<1>9. SocketInv' /\ ScreenInv'
  BY <1>2, <1>3 DEF Inv, SocketInv, ScreenInv
<1>10. QueueInv'
  BY <1>1, <1>2, <1>3, QueueRuns DEF Inv
<1>11. GhostsClosedEarly'
  BY <1>2 DEF GhostsClosedEarly
<1>12. GreetInv'
  BY <1>2, <1>3, <1>6 DEF Inv, GreetInv, Greet
<1>13. ASSUME NEW y \in Sockets PROVE Wire(y)'
  <2>1. Wire(y) /\ Greet(y)
    BY DEF Inv, WireInv, GreetInv
  <2>2. CASE sock[y] # "open" \/ y \notin attachments
    BY <1>2, <1>3, <1>6, <2>1, <2>2, WireKeeps DEF Inv
  <2>3. CASE sock[y] = "open" /\ y \in attachments
    <3>1. y \in greeted /\ sock'[y] = "shut" /\ inbox[y] \in Seq(Frames)
      BY <1>3, <2>1, <2>3 DEF Greet, Inv, TypeOK
    <3>2. Carries(inbox[y], TRUE, TRUE, seen[y[1]], ack[y[1]], latest,
                  status = "exited", y[1] \in behind)
      BY <2>1, <2>3, <3>1 DEF Wire
    <3>3. Carries(inbox[y] \o <<ex>>, FALSE, FALSE, seen[y[1]], ack[y[1]], latest,
                  TRUE, y[1] \in behind)
      BY <1>4, <3>1, <3>2, CarriesEnd
    <3>4. inbox'[y] = inbox[y] \o <<ex>>
      BY <1>6, <2>3
    <3> HIDE DEF ex
    <3> QED BY <1>2, <3>1, <3>3, <3>4 DEF Wire, Carries
  <2> QED BY <2>2, <2>3
<1> QED BY <1>7, <1>8, <1>9, <1>10, <1>11, <1>12, <1>13 DEF Inv, WireInv

(* A command waits for the backend.                                         *)
LEMMA AwaitStep == ASSUME Inv, CommandAwaits PROVE Inv'
<1>1. /\ queue # <<>> /\ Head(queue).op \in {"rename", "terminate"} /\ busy' = TRUE
      /\ status' = status \/ (status = "running" /\ status' = "terminating")
      /\ UNCHANGED <<queue, attachments, controllers, control, latest, first, exiting,
                     sock, greeted, inbox, early,
                     used, ack, seen, done, behind, skipped, repeated>>
  BY DEF CommandAwaits, hub, journal, wires, browser
<1>2. TypeOK'
  BY <1>1 DEF Inv, TypeOK
<1>3. HubInv' /\ BusyInv' /\ OneController' /\ NothingSkipped' /\ NothingRepeated'
  BY <1>1 DEF Inv, HubInv, BusyInv, OneController, NothingSkipped, NothingRepeated
<1>4. SocketInv' /\ ScreenInv' /\ QueueInv'
  BY <1>1 DEF Inv, SocketInv, ScreenInv, QueueInv
<1>5. GhostsClosedEarly' /\ GreetInv'
  BY <1>1 DEF Inv, GhostsClosedEarly, Waiting, GreetInv, Greet
<1>6. ASSUME NEW y \in Sockets PROVE Wire(y)'
  <2>1. status = "exited" => status' = "exited"
    BY <1>1
  <2> QED BY <1>1, <2>1, WireKeeps DEF Inv, WireInv
<1> QED BY <1>2, <1>3, <1>4, <1>5, <1>6 DEF Inv, WireInv

(* A command of the process, of the HTTP API or of an attached socket is    *)
(* enqueued.                                                                *)
LEMMA EnqueueStep ==
  ASSUME Inv, NEW cmd \in Commands, cmd.op \notin {"attach", "detach"},
         queue' = Append(queue, cmd), exiting' \in BOOLEAN,
         UNCHANGED <<status, busy, hub, journal, wires, browser>>
  PROVE  Inv'
<1>1. UNCHANGED <<status, busy, attachments, controllers, control, latest, first,
                  sock, greeted, inbox, early,
                  used, ack, seen, done, behind, skipped, repeated>>
  BY DEF hub, journal, wires, browser
<1>2. queue' \in Seq(Commands) /\ queue' # <<>> /\ (queue # <<>> => Head(queue') = Head(queue))
  BY QueueGrows DEF Inv
<1>3. TypeOK'
  BY <1>1, <1>2 DEF Inv, TypeOK
<1>4. HubInv' /\ BusyInv' /\ OneController' /\ NothingSkipped' /\ NothingRepeated'
  BY <1>1, <1>2 DEF Inv, HubInv, BusyInv, OneController, NothingSkipped, NothingRepeated
<1>5. SocketInv' /\ ScreenInv' /\ GreetInv' /\ WireInv'
  BY <1>1 DEF Inv, SocketInv, ScreenInv, GreetInv, Greet, WireInv, Wire
<1>6. Comes(cmd)
  BY DEF Comes
<1>7. QueueInv'
  BY <1>1, <1>6, QueueKeeps DEF Inv
<1>8. GhostsClosedEarly'
  BY <1>1, <1>6, GhostsKeep DEF Inv, Live
<1> QED BY <1>3, <1>4, <1>5, <1>7, <1>8 DEF Inv

(* onPtyData.                                                               *)
LEMMA PtyStep == ASSUME Inv, PtyData PROVE Inv'
<1>1. PICK oldest \in Retained, slow \in SUBSET attachments :
        /\ status # "exited"
        /\ latest < MaxSeq
        /\ \A x \in slow : sock[x] = "open"
        /\ latest' = latest + 1
        /\ first' = oldest
        /\ inbox' = Sent([x \in Sockets |->
             CASE x \in slow -> <<[type |-> "output", seq |-> latest + 1],
                                  [type |-> "fatal", seq |-> 0]>>
               [] x \in attachments \ slow -> <<[type |-> "output", seq |-> latest + 1]>>
               [] OTHER -> <<>>])
        /\ sock' = Closing(slow, "cut")
        /\ attachments' = attachments \ slow
        /\ control' = ControlWithout(slow)
        /\ controllers' = controllers \ slow
        /\ UNCHANGED <<status, queue, busy, exiting, greeted, early, browser>>
  BY DEF PtyData, Listens
<1> DEFINE out    == [type |-> "output", seq |-> latest + 1]
           fatal  == [type |-> "fatal", seq |-> 0]
           frames == [x \in Sockets |->
             CASE x \in slow -> <<out, fatal>>
               [] x \in attachments \ slow -> <<out>>
               [] OTHER -> <<>>]
<1>2. /\ latest \in Nat /\ latest + 1 \in 1 .. MaxSeq /\ first \in 0 .. latest /\ MaxSeq \in Nat
      /\ slow \subseteq Sockets /\ attachments \subseteq Sockets
  BY <1>1, TerminalAssumption DEF Inv, TypeOK
<1>3. first' \in 0 .. latest'
  BY <1>1, <1>2 DEF Retained
<1>4. out \in Frames /\ fatal \in Frames /\ out.type = "output" /\ out.seq = latest + 1
      /\ Final(fatal) /\ fatal.type # "exit"
  BY <1>2 DEF Frames, Final
<1>5. inbox' = Sent(frames)
  BY <1>1
<1> HIDE DEF out, fatal
<1>6. /\ frames \in [Sockets -> Seq(Frames)]
      /\ \A x \in Sockets :
           /\ x \in slow => frames[x] = <<out, fatal>>
           /\ x \in attachments \ slow => frames[x] = <<out>>
           /\ x \notin attachments => frames[x] = <<>>
  <2>1. <<out, fatal>> \in Seq(Frames) /\ <<out>> \in Seq(Frames) /\ <<>> \in Seq(Frames)
    BY <1>4
  <2>2. \A x \in Sockets : frames[x] \in Seq(Frames)
    BY <1>1, <2>1
  <2> QED BY <1>1, <2>2
<1> HIDE DEF frames
<1>7. /\ inbox' \in [Sockets -> Seq(Frames)]
      /\ \A x \in Sockets :
           /\ sock[x] # "open" \/ x \notin attachments => inbox'[x] = inbox[x]
           /\ sock[x] = "open" /\ x \in attachments \ slow => inbox'[x] = inbox[x] \o <<out>>
           /\ x \in slow => inbox'[x] = inbox[x] \o <<out, fatal>>
  BY <1>1, <1>2, <1>5, <1>6, SentTo DEF Inv
<1>8. /\ sock' \in [Sockets -> {"none", "open", "shut", "cut", "closed"}]
      /\ \A x \in Sockets : sock'[x] = IF x \in slow THEN "cut" ELSE sock[x]
  BY <1>1 DEF Closing, Inv, TypeOK
<1>9. UNCHANGED <<status, queue, busy, exiting, greeted, early,
                  used, ack, seen, done, behind, skipped, repeated>>
  BY <1>1 DEF browser
<1>10. /\ attachments' = attachments \ slow /\ controllers' = controllers \ slow
       /\ control' = IF slow \cap controllers # {} THEN None ELSE control
  BY <1>1 DEF ControlWithout
<1>11. TypeOK'
  <2>1. /\ attachments' \subseteq Sockets /\ controllers' \subseteq Sockets
        /\ control' \in Sockets \cup {None}
    BY <1>10 DEF Inv, TypeOK
  <2>2. latest' \in 0 .. MaxSeq
    BY <1>1, <1>2
  <2> QED BY <1>3, <1>7, <1>8, <1>9, <2>1, <2>2 DEF Inv, TypeOK
<1>12. HubInv' /\ BusyInv' /\ NothingSkipped' /\ NothingRepeated'
  BY <1>9, <1>10 DEF Inv, HubInv, BusyInv, NothingSkipped, NothingRepeated
<1>13. OneController'
  <2>1. CASE slow \cap controllers = {}
    BY <1>1, <1>9, <1>10, <2>1 DEF Inv, OneController, HubInv
  <2>2. ASSUME NEW z \in slow \cap controllers PROVE OneController'
    <3>1. control = z /\ control' = None
      BY <1>1, <1>10, <2>2 DEF Inv, OneController
    <3>2. \A x \in attachments' : x # z /\ x \notin controllers
      BY <1>10, <2>2, <3>1 DEF Inv, OneController
    <3>3. None \notin attachments'
      BY <1>2, <1>10, TerminalAssumption
    <3> QED BY <1>10, <3>1, <3>2, <3>3 DEF OneController
  <2> QED BY <2>1, <2>2
<1>14. SocketInv'
  BY <1>1, <1>8, <1>9 DEF Inv, SocketInv
<1>15. ScreenInv'
  BY <1>1, <1>2, <1>9, TerminalAssumption DEF Inv, ScreenInv, TypeOK
<1>16. QueueInv'
  BY <1>1, <1>8, <1>9, QueueKeeps DEF Inv
<1>17. GhostsClosedEarly'
  BY <1>8, <1>9, <1>10, GhostsKeep DEF Inv, Live
<1>18. GreetInv'
  BY <1>1, <1>7, <1>8, <1>9, <1>10 DEF Inv, GreetInv, Greet
<1>19. ASSUME NEW x \in Sockets PROVE Wire(x)'
  <2>1. Wire(x) /\ Greet(x) /\ inbox[x] \in Seq(Frames)
    BY DEF Inv, WireInv, GreetInv, TypeOK
  <2>2. CASE sock[x] # "open" \/ x \notin attachments
    <3>1. ~(sock'[x] = "open" /\ x \in greeted')
      BY <1>1, <1>8, <1>9, <2>1, <2>2 DEF Greet
    <3> QED BY <1>1, <1>7, <1>8, <1>9, <2>1, <2>2, <3>1, WireKeeps DEF Inv
  <2>3. CASE sock[x] = "open" /\ x \in attachments
    <3>1. x \in greeted /\ x[1] \in Clients
      BY <2>1, <2>3, SocketParts DEF Greet
    <3>2. Carries(inbox[x], TRUE, TRUE, seen[x[1]], ack[x[1]], latest,
                  FALSE, x[1] \in behind)
      BY <1>1, <2>1, <2>3, <3>1 DEF Wire
    <3>3. /\ seen[x[1]] \in Nat /\ ack[x[1]] \in Nat
          /\ ack[x[1]] <= seen[x[1]] /\ seen[x[1]] <= latest
      BY <3>1, TerminalAssumption DEF Inv, TypeOK, ScreenInv
    <3>4. Carries(inbox[x] \o <<out>>, TRUE, TRUE, seen[x[1]], ack[x[1]], latest + 1,
                  FALSE, x[1] \in behind)
      BY <1>2, <1>4, <2>1, <3>2, <3>3, CarriesOutput
    <3>5. CASE x \notin slow
      <4>1. inbox'[x] = inbox[x] \o <<out>> /\ sock'[x] = "open" /\ status' # "exited"
        BY <1>1, <1>7, <1>8, <2>3, <3>5
      <4> QED BY <1>1, <1>9, <3>1, <3>4, <4>1 DEF Wire
    <3>6. CASE x \in slow
      <4>1. inbox[x] \o <<out, fatal>> = (inbox[x] \o <<out>>) \o <<fatal>>
        BY <1>4, <2>1, ConcatTwo
      <4>2. inbox[x] \o <<out>> \in Seq(Frames)
        BY <1>4, <2>1, ConcatOne
      <4>3. Carries((inbox[x] \o <<out>>) \o <<fatal>>, FALSE, FALSE, seen[x[1]], ack[x[1]],
                    latest + 1, FALSE, x[1] \in behind)
        BY <1>4, <3>4, <4>2, CarriesEnd
      <4>4. inbox'[x] = (inbox[x] \o <<out>>) \o <<fatal>> /\ sock'[x] = "cut" /\ status' # "exited"
        BY <1>1, <1>7, <1>8, <3>6, <4>1
      <4> QED BY <1>1, <1>9, <4>3, <4>4 DEF Wire
    <3> QED BY <3>5, <3>6
  <2> QED BY <2>2, <2>3
<1> QED BY <1>11, <1>12, <1>13, <1>14, <1>15, <1>16, <1>17, <1>18, <1>19 DEF Inv, WireInv

LEMMA ProcessStep ==
  ASSUME Inv, PtyExits \/ Call("rename") \/ Call("terminate")
  PROVE  Inv'
<1> DEFINE Cmd(op) == [op |-> op, by |-> None]
<1>1. \A op \in {"rename", "terminate", "exit"} : Cmd(op) \in Commands
  BY DEF Commands
<1>2. CASE PtyExits
  <2>1. queue' = Append(queue, Cmd("exit")) /\ exiting' \in BOOLEAN
    BY <1>2 DEF PtyExits, Queued
  <2> QED BY <1>1, <1>2, <2>1, EnqueueStep DEF PtyExits
<1>3. ASSUME NEW op \in {"rename", "terminate"}, Call(op) PROVE Inv'
  <2>1. queue' = Append(queue, Cmd(op)) /\ exiting' \in BOOLEAN
    BY <1>3 DEF Call, Queued, Inv, TypeOK
  <2> QED BY <1>1, <1>3, <2>1, EnqueueStep DEF Call
<1> QED BY <1>2, <1>3

(* A client that may open a socket has one left.                            *)
LEMMA Room ==
  ASSUME TypeOK, SocketInv, NEW c \in Clients,
         Cardinality({y \in Sockets : sock[y] # "none"}) < MaxSockets
  PROVE  used[c] < MaxSockets
<1> DEFINE T == {y \in Sockets : sock[y] # "none"}
           N == 1 .. MaxSockets
           F == [n \in N |-> <<c, n>>]
<1>1. MaxSockets \in Nat /\ MaxSockets > 0 /\ used[c] \in 0 .. MaxSockets
  BY TerminalAssumption DEF TypeOK
<1>2. IsFiniteSet(N) /\ Cardinality(N) = MaxSockets
  BY <1>1, FS_Interval
<1>3. IsFiniteSet(Sockets)
  BY <1>2, FS_Product, TerminalAssumption DEF Sockets
<1>4. IsFiniteSet(T) /\ Cardinality(T) \in Nat
  <2>1. T \in SUBSET Sockets
    OBVIOUS
  <2>2. IsFiniteSet(T)
    BY <1>3, <2>1, FS_Subset
  <2> QED BY <2>2, FS_CardinalityType
<1>5. SUFFICES ASSUME used[c] = MaxSockets PROVE FALSE
  BY <1>1
<1>6. \A n \in N : <<c, n>> \in T
  <2> SUFFICES ASSUME NEW n \in N PROVE <<c, n>> \in Sockets /\ sock[<<c, n>>] # "none"
    OBVIOUS
  <2>1. <<c, n>> \in Sockets
    BY DEF Sockets
  <2>2. <<c, n>>[1] = c /\ <<c, n>>[2] = n
    OBVIOUS
  <2>3. ~(n > used[c])
    BY <1>1, <1>5
  <2> QED BY <2>1, <2>2, <2>3 DEF SocketInv
<1>7. F \in Injection(N, T)
  <2>1. F \in [N -> T]
    BY <1>6
  <2>2. \A a, b \in N : F[a] = F[b] => a = b
    OBVIOUS
  <2> QED BY <2>1, <2>2 DEF Injection, IsInjective
<1>8. Cardinality(N) <= Cardinality(T)
  BY <1>4, <1>7, FS_Injection
<1> QED BY <1>1, <1>2, <1>4, <1>8

(* A client opens its next socket and says hello.                           *)
LEMMA ConnectStep ==
  ASSUME Inv, NEW c \in Clients, Connect(c)
  PROVE  Inv'
<1> DEFINE n   == used[c] + 1
           x   == <<c, n>>
           cmd == [op |-> "attach", by |-> x]
<1>1. /\ used[c] > 0 => sock[<<c, used[c]>>] = "closed"
      /\ used' = [used EXCEPT ![c] = n]
      /\ sock' = [sock EXCEPT ![x] = "open"]
      /\ queue' = Append(queue, cmd)
      /\ behind' = IF seen[c] > ack[c] THEN behind \cup {c} ELSE behind
      /\ UNCHANGED <<status, busy, attachments, controllers, control, latest, first, exiting,
                     greeted, inbox, early, ack, seen, done, skipped, repeated>>
  BY DEF Connect, hub, journal, Queued
<1>2. used[c] \in Nat /\ used[c] < MaxSockets /\ MaxSockets \in Nat
  <2>1. TypeOK /\ SocketInv /\ Cardinality({y \in Sockets : sock[y] # "none"}) < MaxSockets
    BY DEF Connect, Inv
  <2>2. used[c] < MaxSockets
    BY <2>1, Room
  <2> QED BY <2>1, <2>2, TerminalAssumption DEF TypeOK
<1>3. x \in Sockets /\ x[1] = c /\ x[2] = n /\ n \in Nat
  BY <1>2 DEF Sockets
<1>4. sock[x] = "none"
  BY <1>2, <1>3 DEF Inv, SocketInv
<1> HIDE DEF x
<1>5. /\ sock' \in [Sockets -> {"none", "open", "shut", "cut", "closed"}]
      /\ \A y \in Sockets : sock'[y] = IF y = x THEN "open" ELSE sock[y]
  BY <1>1, <1>3 DEF Inv, TypeOK
<1>6. /\ used' \in [Clients -> 0 .. MaxSockets]
      /\ \A d \in Clients : used'[d] = IF d = c THEN n ELSE used[d]
  BY <1>1, <1>2 DEF Inv, TypeOK
<1>7. x \notin greeted /\ x \notin attachments /\ inbox[x] = <<>>
  BY <1>3, <1>4 DEF Inv, GreetInv, Greet
<1>8. Comes(cmd)
  <2>1. cmd \in Commands /\ cmd.op = "attach" /\ cmd.by = x
    BY <1>3 DEF Commands
  <2>2. \A i \in 1 .. Len(queue) : queue[i] # cmd
    BY <1>4, <2>1 DEF Inv, QueueInv
  <2>3. x \notin greeted' /\ sock'[x] = "open"
    BY <1>1, <1>3, <1>5, <1>7
  <2> QED BY <1>1, <2>1, <2>2, <2>3 DEF Comes
<1>9. queue' \in Seq(Commands) /\ queue' # <<>> /\ (queue # <<>> => Head(queue') = Head(queue))
  BY <1>8, QueueGrows DEF Comes, Inv
<1>10. behind' \subseteq Clients /\ behind \subseteq behind'
  BY <1>1 DEF Inv, TypeOK
<1>11. TypeOK'
  BY <1>1, <1>5, <1>6, <1>9, <1>10 DEF Inv, TypeOK
<1>12. HubInv' /\ BusyInv' /\ OneController' /\ NothingSkipped' /\ NothingRepeated' /\ ScreenInv'
  BY <1>1, <1>9, <1>10
     DEF Inv, HubInv, BusyInv, OneController, NothingSkipped, NothingRepeated, ScreenInv
<1>13. SocketInv'
  <2> SUFFICES ASSUME NEW y \in Sockets
               PROVE  /\ sock'[y] = "none" <=> y[2] > used'[y[1]]
                      /\ y[2] < used'[y[1]] => sock'[y] = "closed"
    BY DEF SocketInv
  <2>1. /\ y = <<y[1], y[2]>> /\ y[1] \in Clients /\ y[2] \in Nat /\ y[2] > 0
        /\ used[y[1]] \in Nat
    BY SocketParts DEF Inv, TypeOK
  <2>2. /\ sock[y] = "none" <=> y[2] > used[y[1]]
        /\ y[2] < used[y[1]] => sock[y] = "closed"
    BY DEF Inv, SocketInv
  <2>3. CASE y = x
    BY <1>2, <1>3, <1>5, <1>6, <2>3
  <2>4. CASE y[1] # c
    BY <1>3, <1>5, <1>6, <2>1, <2>2, <2>4
  <2>5. CASE y # x /\ y[1] = c
    <3>1. y[2] # n
      BY <2>1, <2>5 DEF x
    <3>2. y[2] = used[c] => sock[y] = "closed"
      <4>1. y[2] = used[c] => y = <<c, used[c]>> /\ used[c] > 0
        BY <2>1, <2>5
      <4> QED BY <1>1, <4>1
    <3>3. sock'[y] = sock[y] /\ used'[y[1]] = used[c] + 1
      BY <1>5, <1>6, <2>1, <2>5
    <3> QED BY <1>2, <2>1, <2>2, <2>5, <3>1, <3>2, <3>3
  <2> QED BY <2>3, <2>4, <2>5
<1>14. QueueInv'
  BY <1>1, <1>4, <1>5, <1>8, QueueKeeps DEF Inv
<1>15. GhostsClosedEarly'
  BY <1>1, <1>5, <1>8, GhostsKeep DEF Inv, Live
<1>16. ASSUME NEW y \in Sockets PROVE Greet(y)'
  <2>1. Greet(y)
    BY DEF Inv, GreetInv
  <2>2. CASE y # x
    BY <1>1, <1>5, <1>10, <2>1, <2>2 DEF Greet
  <2>3. CASE y = x
    <3>1. c \notin behind' => seen[c] = ack[c]
      <4>1. ack[c] <= seen[c] /\ ack[c] \in Nat /\ seen[c] \in Nat
        BY TerminalAssumption DEF Inv, ScreenInv, TypeOK
      <4> QED BY <1>1, <4>1
    <3> QED BY <1>1, <1>3, <1>5, <1>7, <2>3, <3>1 DEF Greet
  <2> QED BY <2>2, <2>3
<1>17. ASSUME NEW y \in Sockets PROVE Wire(y)'
  <2>1. CASE y # x
    <3>1. sock'[y] = sock[y]
      BY <1>5, <2>1
    <3> QED BY <1>1, <1>10, <3>1, WireKeeps DEF Inv, WireInv
  <2>2. CASE y = x
    BY <1>1, <1>7, <2>2, WireEmpty
  <2> QED BY <2>1, <2>2
<1> QED BY <1>11, <1>12, <1>13, <1>14, <1>15, <1>16, <1>17 DEF Inv, GreetInv, WireInv

(* What a client's last socket does leaves its other sockets alone.         *)
LEMMA OthersQuiet ==
  ASSUME Inv, NEW x \in Sockets, sock[x] \notin {"none", "closed"},
         NEW y \in Sockets, y # x,
         sock'[y] = sock[y], inbox'[y] = inbox[y],
         x[1] # y[1] => seen'[y[1]] = seen[y[1]] /\ ack'[y[1]] = ack[y[1]],
         UNCHANGED <<status, attachments, latest, behind>>,
         y \in greeted' <=> y \in greeted
  PROVE  Greet(y)' /\ Wire(y)'
<1>1. Greet(y) /\ Wire(y)
  BY DEF Inv, GreetInv, WireInv
<1>2. CASE x[1] # y[1]
  <2>1. Wire(y)'
    BY <1>1, <1>2, WireKeeps DEF Inv
  <2> QED BY <1>1, <1>2, <2>1 DEF Greet
<1>3. CASE x[1] = y[1]
  <2>1. sock[y] \in {"none", "closed"} /\ inbox[y] = <<>>
    BY <1>3, OneSocket DEF Inv
  <2>2. Wire(y)'
    BY <2>1, WireEmpty
  <2> QED BY <1>1, <2>1, <2>2 DEF Greet
<1> QED BY <1>2, <1>3

(* The close handler.                                                       *)
LEMMA CloseStep ==
  ASSUME Inv, NEW x \in Sockets, SocketCloses(x)
  PROVE  Inv'
<1> DEFINE c   == x[1]
           cmd == [op |-> "detach", by |-> x]
<1>1. /\ sock[x] \in {"open", "shut", "cut"}
      /\ sock' = [sock EXCEPT ![x] = "closed"]
      /\ inbox' = [inbox EXCEPT ![x] = <<>>]
      /\ queue' = IF x \in greeted THEN Append(queue, cmd) ELSE queue
      /\ greeted' = greeted \ {x}
      /\ early' = IF x \in greeted THEN early ELSE early \cup {x}
      /\ \/ GivesUp(c)
         \/ UNCHANGED <<done, ack, seen>>
      /\ UNCHANGED <<status, busy, attachments, controllers, control, latest, first, exiting,
                     used, behind, skipped, repeated>>
  BY DEF SocketCloses, OnClose, Queued, hub, journal
<1>2. c \in Clients /\ cmd \in Commands /\ cmd.op = "detach" /\ cmd.by = x
  BY SocketParts DEF Commands
<1>3. /\ sock' \in [Sockets -> {"none", "open", "shut", "cut", "closed"}]
      /\ \A y \in Sockets : sock'[y] = IF y = x THEN "closed" ELSE sock[y]
  BY <1>1 DEF Inv, TypeOK
<1>4. /\ inbox' \in [Sockets -> Seq(Frames)]
      /\ \A y \in Sockets : inbox'[y] = IF y = x THEN <<>> ELSE inbox[y]
  <2>1. <<>> \in Seq(Frames)
    OBVIOUS
  <2> QED BY <1>1, <2>1 DEF Inv, TypeOK
<1>5. /\ done' \subseteq Clients
      /\ ack' \in [Clients -> 0 .. MaxSeq] /\ seen' \in [Clients -> 0 .. MaxSeq]
      /\ \A d \in Clients :
           \/ ack'[d] = ack[d] /\ seen'[d] = seen[d]
           \/ d = c /\ ack'[d] = 0 /\ seen'[d] = 0
  <2>1. 0 \in 0 .. MaxSeq
    BY TerminalAssumption
  <2>2. CASE GivesUp(c)
    BY <1>2, <2>1, <2>2 DEF GivesUp, Inv, TypeOK
  <2>3. CASE UNCHANGED <<done, ack, seen>>
    BY <2>3 DEF Inv, TypeOK
  <2> QED BY <1>1, <2>2, <2>3
<1>6. /\ queue' = queue \/ Comes(cmd)
      /\ x \in greeted => Comes(cmd)
  <2>1. x \in greeted => Comes(cmd)
    BY <1>1, <1>2, <1>3 DEF Comes
  <2> QED BY <1>1, <2>1
<1>7. queue' \in Seq(Commands) /\ (queue # <<>> => queue' # <<>> /\ Head(queue') = Head(queue))
  <2>1. CASE queue' = queue
    BY <2>1 DEF Inv, TypeOK
  <2>2. CASE Comes(cmd)
    BY <2>2, QueueGrows DEF Comes, Inv
  <2> QED BY <1>6, <2>1, <2>2
<1>8. TypeOK'
  BY <1>1, <1>3, <1>4, <1>5, <1>7 DEF Inv, TypeOK
<1>9. HubInv' /\ BusyInv' /\ OneController' /\ NothingSkipped' /\ NothingRepeated'
  BY <1>1, <1>7 DEF Inv, HubInv, BusyInv, OneController, NothingSkipped, NothingRepeated
<1>10. SocketInv'
  BY <1>1, <1>3 DEF Inv, SocketInv
<1>11. ScreenInv'
  <2>1. latest \in Nat /\ latest' = latest
    BY <1>1, TerminalAssumption DEF Inv, TypeOK
  <2>2. ASSUME NEW d \in Clients PROVE ack'[d] <= seen'[d] /\ seen'[d] <= latest
    <3>1. CASE ack'[d] = ack[d] /\ seen'[d] = seen[d]
      BY <3>1 DEF Inv, ScreenInv
    <3>2. CASE ack'[d] = 0 /\ seen'[d] = 0
      BY <2>1, <3>2
    <3> QED BY <1>5, <3>1, <3>2
  <2> QED BY <2>1, <2>2 DEF ScreenInv
<1>12. QueueInv'
  <2>1. queue' = queue \/ \E m : Comes(m)
    BY <1>6
  <2> QED BY <1>1, <1>3, <2>1, QueueKeeps DEF Inv
<1>13. GhostsClosedEarly'
  <2>1. queue' = queue \/ \E m : Comes(m)
    BY <1>6
  <2>2. x \in early' \/ Waiting(x, "detach")'
    <3>1. CASE x \in greeted
      <4>1. Len(queue) + 1 \in 1 .. Len(queue') /\ queue'[Len(queue) + 1] = cmd
        BY <1>6, <3>1, QueueGrows DEF Comes, Inv
      <4> QED BY <4>1 DEF Waiting
    <3>2. CASE x \notin greeted
      BY <1>1, <3>2
    <3> QED BY <3>1, <3>2
  <2>3. \A y \in Sockets : Live(y) => Live(y)' \/ y \in early' \/ Waiting(y, "detach")'
    BY <1>3, <2>2 DEF Live
  <2> QED BY <1>1, <2>1, <2>3, GhostsKeep DEF Inv
<1>14. ASSUME NEW y \in Sockets PROVE Greet(y)' /\ Wire(y)'
  <2>1. CASE y # x
    <3>1. y[1] \in Clients
      BY SocketParts
    <3> QED BY <1>1, <1>3, <1>4, <1>5, <2>1, <3>1, OthersQuiet
  <2>2. CASE y = x
    <3>1. inbox'[x] = <<>> /\ sock'[x] = "closed"
      BY <1>3, <1>4
    <3> QED BY <2>2, <3>1, WireEmpty DEF Greet
  <2> QED BY <2>1, <2>2
<1> QED BY <1>8, <1>9, <1>10, <1>11, <1>12, <1>13, <1>14 DEF Inv, GreetInv, WireInv

(* A frame of the client.                                                   *)
LEMMA SendStep ==
  ASSUME Inv, NEW x \in Sockets, NEW op \in {"request", "release"}, ClientSends(x, op)
  PROVE  Inv'
<1> DEFINE fatal == [type |-> "fatal", seq |-> 0]
<1>1. CASE x \in greeted
  <2> DEFINE cmd == [op |-> op, by |-> x]
  <2>1. /\ cmd \in Commands /\ cmd.op = op
        /\ queue' = Append(queue, cmd) /\ exiting' \in BOOLEAN
    BY <1>1 DEF ClientSends, Queued, Commands, Inv, TypeOK
  <2>2. UNCHANGED <<status, busy, hub, journal, wires, browser>>
    BY <1>1 DEF ClientSends, wires
  <2> HIDE DEF cmd
  <2> QED BY <2>1, <2>2, EnqueueStep
<1>2. CASE x \notin greeted
  <2>1. /\ sock[x] = "open"
        /\ inbox' = Sent([NoFrames EXCEPT ![x] = <<fatal>>])
        /\ sock' = Closing({x}, "cut")
        /\ UNCHANGED <<status, queue, busy, attachments, controllers, control, latest, first,
                       exiting, greeted, early, used, ack, seen, done,
                       behind, skipped, repeated>>
    BY <1>2 DEF ClientSends, hub, journal, browser
  <2>2. /\ sock' \in [Sockets -> {"none", "open", "shut", "cut", "closed"}]
        /\ \A y \in Sockets : sock'[y] = IF y = x THEN "cut" ELSE sock[y]
    BY <2>1 DEF Closing, Inv, TypeOK
  <2>3. fatal \in Frames /\ Final(fatal) /\ fatal.type # "exit"
    BY DEF Frames, Final
  <2> HIDE DEF fatal
  <2>4. /\ inbox' \in [Sockets -> Seq(Frames)]
        /\ \A y \in Sockets : y # x => inbox'[y] = inbox[y]
        /\ inbox'[x] = inbox[x] \o <<fatal>>
    <3>1. <<fatal>> \in Seq(Frames)
      BY <2>3
    <3> QED BY <2>1, <3>1, SentOne DEF Inv
  <2>5. TypeOK'
    BY <2>1, <2>2, <2>4 DEF Inv, TypeOK
  <2>6. HubInv' /\ BusyInv' /\ OneController' /\ NothingSkipped' /\ NothingRepeated' /\ ScreenInv'
    BY <2>1 DEF Inv, HubInv, BusyInv, OneController, NothingSkipped, NothingRepeated, ScreenInv
  <2>7. SocketInv'
    BY <2>1, <2>2 DEF Inv, SocketInv
  <2>8. QueueInv'
    BY <2>1, <2>2, QueueKeeps DEF Inv
  <2>9. GhostsClosedEarly'
    BY <2>1, <2>2, GhostsKeep DEF Inv, Live
  <2>10. ASSUME NEW y \in Sockets PROVE Greet(y)' /\ Wire(y)'
    <3>1. CASE y # x
      BY <2>1, <2>2, <2>4, <3>1, OthersQuiet
    <3>2. CASE y = x
      <4>1. Wire(x) /\ Greet(x) /\ inbox[x] \in Seq(Frames)
        BY DEF Inv, WireInv, GreetInv, TypeOK
      <4>2. Greet(x)'
        BY <1>2, <2>1, <2>2 DEF Greet
      <4>3. Carries(inbox[x], TRUE, FALSE, seen[x[1]], ack[x[1]], latest,
                    status = "exited", x[1] \in behind)
        BY <1>2, <2>1, <4>1 DEF Wire
      <4>4. Carries(inbox[x] \o <<fatal>>, FALSE, FALSE, seen[x[1]], ack[x[1]], latest,
                    status = "exited", x[1] \in behind)
        BY <2>3, <4>1, <4>3, CarriesEnd
      <4>5. Wire(x)'
        BY <1>2, <2>1, <2>2, <2>4, <4>4 DEF Wire
      <4> QED BY <3>2, <4>2, <4>5
    <3> QED BY <3>1, <3>2
  <2> QED BY <2>5, <2>6, <2>7, <2>8, <2>9, <2>10 DEF Inv, GreetInv, WireInv
<1> QED BY <1>1, <1>2

(* handleFrame in the browser.                                              *)
LEMMA ReadStep ==
  ASSUME Inv, NEW x \in Sockets, ClientReads(x)
  PROVE  Inv'
<1> DEFINE c == x[1]
           s == inbox[x]
           f == s[1]
           t == Tail(s)
<1>1. c \in Clients /\ s \in Seq(Frames) /\ s # <<>>
  BY SocketParts DEF ClientReads, Inv, TypeOK
<1>2. Wire(x) /\ Greet(x) /\ Stream(s)
  BY DEF Inv, WireInv, GreetInv, Wire, Carries
<1>3. /\ t \in Seq(Frames) /\ Len(s) \in Nat \ {0} /\ Len(t) = Len(s) - 1
      /\ Head(s) = f /\ f \in Frames /\ 1 \in 1 .. Len(s)
  BY <1>1, <1>2, StreamShrinks
<1>4. /\ inbox' = [inbox EXCEPT ![x] = t]
      /\ UNCHANGED <<status, queue, busy, attachments, controllers, control, latest, first,
                     exiting, sock, greeted, early, used, behind>>
  BY DEF ClientReads, hub, journal
<1>5. \/ /\ Chunk(f)
         /\ seen' = [seen EXCEPT ![c] = f.seq]
         /\ ack' = [ack EXCEPT ![c] = f.seq] \/ ack' = ack
         /\ skipped' = IF f.seq > seen[c] + 1 THEN skipped \cup {c} ELSE skipped
         /\ repeated' = IF f.seq <= seen[c] THEN repeated \cup {c} ELSE repeated
         /\ done' = done
      \/ /\ f.type = "gap"
         /\ seen' = [seen EXCEPT ![c] = s[2].seq - 1]
         /\ UNCHANGED <<ack, skipped, repeated, done>>
      \/ /\ Final(f)
         /\ GivesUp(c)
         /\ UNCHANGED <<skipped, repeated>>
  BY <1>3 DEF ClientReads, Chunk, Final
<1>6. /\ ack[c] \in 0 .. MaxSeq /\ seen[c] \in 0 .. MaxSeq /\ ack[c] \in Nat /\ seen[c] \in Nat
      /\ latest \in Nat /\ MaxSeq \in Nat /\ ack[c] <= seen[c] /\ seen[c] <= latest
  BY <1>1, TerminalAssumption DEF Inv, TypeOK, ScreenInv
<1>7. Carries(s, sock[x] = "open", sock[x] = "open" /\ x \in greeted,
              seen[c], ack[c], latest, status = "exited", c \in behind)
  BY <1>2 DEF Wire
<1> DEFINE Follows(from, known) ==
      Carries(t, sock[x] = "open", sock[x] = "open" /\ x \in greeted,
              from, known, latest, status = "exited", c \in behind)
<1> HIDE DEF f, t, Follows
<1>8. /\ inbox' \in [Sockets -> Seq(Frames)]
      /\ inbox'[x] = t
      /\ \A y \in Sockets : y # x => inbox'[y] = inbox[y]
  BY <1>3, <1>4 DEF Inv, TypeOK
(* What each kind of frame does to the client's screen.                     *)
<1>9. /\ ack' \in [Clients -> 0 .. MaxSeq] /\ seen' \in [Clients -> 0 .. MaxSeq]
      /\ {done', skipped', repeated'} \subseteq SUBSET Clients
      /\ \A d \in Clients : d # c => ack'[d] = ack[d] /\ seen'[d] = seen[d]
      /\ ack'[c] <= seen'[c] /\ seen'[c] <= latest
      /\ skipped' # {} => status = "exited"
      /\ repeated' \subseteq behind
      /\ Follows(seen'[c], ack'[c])
  <2>1. CASE Chunk(f)
    <3>1. /\ f.seq \in 1 .. MaxSeq /\ f.seq \in Nat /\ ack[c] < f.seq /\ f.seq <= latest
          /\ f.seq <= seen[c] + 1 \/ status = "exited"
          /\ f.seq > seen[c] \/ c \in behind
      <4>1. f.seq \in 1 .. MaxSeq
        BY <1>3, <2>1 DEF Frames, Chunk
      <4> QED BY <1>1, <1>3, <1>6, <1>7, <2>1, <4>1 DEF Carries, f
    <3>2. /\ seen' = [seen EXCEPT ![c] = f.seq]
          /\ ack' = [ack EXCEPT ![c] = f.seq] \/ ack' = ack
          /\ skipped' = IF f.seq > seen[c] + 1 THEN skipped \cup {c} ELSE skipped
          /\ repeated' = IF f.seq <= seen[c] THEN repeated \cup {c} ELSE repeated
          /\ done' = done
      BY <1>5, <2>1 DEF Chunk, Final
    <3>3. /\ ack' \in [Clients -> 0 .. MaxSeq] /\ seen' \in [Clients -> 0 .. MaxSeq]
          /\ \A d \in Clients : d # c => ack'[d] = ack[d] /\ seen'[d] = seen[d]
          /\ seen'[c] = f.seq /\ ack'[c] \in {ack[c], f.seq}
      <4>1. ack \in [Clients -> 0 .. MaxSeq] /\ seen \in [Clients -> 0 .. MaxSeq]
            /\ f.seq \in 0 .. MaxSeq
        BY <1>6, <3>1 DEF Inv, TypeOK
      <4> QED BY <1>1, <3>2, <4>1
    <3>4. ack'[c] <= seen'[c] /\ seen'[c] <= latest
      BY <1>6, <3>1, <3>3
    <3>5. /\ {done', skipped', repeated'} \subseteq SUBSET Clients
          /\ skipped' # {} => status = "exited"
          /\ repeated' \subseteq behind
      BY <1>1, <1>6, <3>1, <3>2 DEF Inv, TypeOK, NothingSkipped, NothingRepeated
    <3>6. Follows(f.seq, ack'[c])
      <4> DEFINE known == ack'[c]
      <4>1. known \in {ack[c], s[1].seq} /\ Chunk(s[1])
        BY <2>1, <3>3 DEF f
      <4> HIDE DEF known
      <4>2. Carries(Tail(s), sock[x] = "open", sock[x] = "open" /\ x \in greeted,
                    s[1].seq, known, latest, status = "exited", c \in behind)
        BY <1>1, <1>6, <1>7, <4>1, CarriesChunk
      <4> QED BY <4>2 DEF Follows, f, t, known
    <3> QED BY <3>3, <3>4, <3>5, <3>6
  <2>2. CASE f.type = "gap"
    <3>1. /\ s[2].seq \in 1 .. MaxSeq /\ ack[c] < s[2].seq /\ s[2].seq <= latest
          /\ Follows(s[2].seq - 1, ack[c])
      BY <1>1, <1>6, <1>7, <2>2, CarriesGap DEF Follows, f, t
    <3>2. s[2].seq - 1 \in 0 .. MaxSeq /\ ack[c] <= s[2].seq - 1 /\ s[2].seq - 1 <= latest
      BY <1>6, <3>1
    <3>3. /\ seen' = [seen EXCEPT ![c] = s[2].seq - 1]
          /\ UNCHANGED <<ack, skipped, repeated, done>>
      BY <1>5, <2>2 DEF Chunk, Final
    <3>4. /\ seen' \in [Clients -> 0 .. MaxSeq] /\ seen'[c] = s[2].seq - 1
          /\ \A d \in Clients : d # c => seen'[d] = seen[d]
      BY <1>1, <3>2, <3>3 DEF Inv, TypeOK
    <3> HIDE DEF s
    <3> QED BY <3>1, <3>2, <3>3, <3>4 DEF Inv, TypeOK, NothingSkipped, NothingRepeated
  <2>3. CASE Final(f)
    <3>1. Len(t) = 0 /\ t = <<>> /\ sock[x] # "open"
      <4>1. Len(s) = 1 /\ sock[x] # "open"
        BY <1>2, <1>3, <1>7, <2>3 DEF Stream, Carries, f
      <4> QED BY <1>3, <4>1
    <3>2. GivesUp(c) /\ UNCHANGED <<skipped, repeated>>
      BY <1>5, <2>3 DEF Chunk, Final
    <3>3. 0 \in 0 .. MaxSeq
      BY <1>6
    <3>4. /\ ack' \in [Clients -> 0 .. MaxSeq] /\ seen' \in [Clients -> 0 .. MaxSeq]
          /\ ack'[c] = 0 /\ seen'[c] = 0 /\ done' \subseteq Clients
          /\ \A d \in Clients : d # c => ack'[d] = ack[d] /\ seen'[d] = seen[d]
      BY <1>1, <3>2, <3>3 DEF GivesUp, Inv, TypeOK
    <3>5. Follows(0, 0)
      BY <3>1 DEF Follows, Carries, Stream
    <3> QED BY <1>6, <3>2, <3>4, <3>5 DEF Inv, TypeOK, NothingSkipped, NothingRepeated
  <2> QED BY <1>5, <2>1, <2>2, <2>3
<1>10. TypeOK'
  BY <1>4, <1>8, <1>9 DEF Inv, TypeOK
<1>11. HubInv' /\ BusyInv' /\ OneController' /\ SocketInv' /\ QueueInv'
  BY <1>4 DEF Inv, HubInv, BusyInv, OneController, SocketInv, QueueInv
<1>12. GhostsClosedEarly'
  BY <1>4 DEF Inv, GhostsClosedEarly, Waiting
<1>13. ScreenInv' /\ NothingSkipped' /\ NothingRepeated'
  BY <1>4, <1>9 DEF Inv, ScreenInv, NothingSkipped, NothingRepeated
<1>14. ASSUME NEW y \in Sockets PROVE Greet(y)' /\ Wire(y)'
  <2>1. sock[x] \notin {"none", "closed"} /\ (sock[x] = "open" => x \in greeted)
    BY <1>1, <1>2 DEF Greet
  <2>2. CASE y # x
    <3>1. x[1] # y[1] => seen'[y[1]] = seen[y[1]] /\ ack'[y[1]] = ack[y[1]]
      BY <1>9, SocketParts
    <3> QED BY <1>4, <1>8, <2>1, <2>2, <3>1, OthersQuiet
  <2>3. CASE y = x
    <3>1. Greet(x)'
      BY <1>2, <1>4, <2>1 DEF Greet
    <3>2. Wire(x)'
      BY <1>4, <1>8, <1>9 DEF Wire, Follows
    <3> QED BY <2>3, <3>1, <3>2
  <2> QED BY <2>2, <2>3
<1> QED BY <1>10, <1>11, <1>12, <1>13, <1>14 DEF Inv, GreetInv, WireInv

-----------------------------------------------------------------------------
(* The theorems.                                                            *)

LEMMA CommandStep == ASSUME Inv, RunCommand PROVE Inv'
<1>1. /\ ~busy /\ queue # <<>> /\ Done /\ UNCHANGED <<journal, early, browser>>
      /\ \/ Head(queue).op = "attach"  /\ RunAttach(Head(queue).by)
         \/ Head(queue).op = "detach"  /\ RunDetach(Head(queue).by)
         \/ Head(queue).op = "request" /\ RunRequest(Head(queue).by)
         \/ Head(queue).op = "release" /\ RunRelease(Head(queue).by)
         \/ Head(queue).op = "exit"    /\ RunExit
         \/ /\ Head(queue).op = "terminate"
            /\ UNCHANGED <<status, exiting, hub, sock, greeted, inbox>>
  BY DEF RunCommand
<1> QED BY <1>1, AttachStep, DetachStep, RequestStep, ReleaseStep, ExitStep, TerminateAgainStep

LEMMA NextStep == Inv /\ [Next]_vars => Inv'
<1> SUFFICES ASSUME Inv, [Next]_vars PROVE Inv'
  OBVIOUS
<1>1. CASE RunCommand
  BY <1>1, CommandStep
<1>2. CASE CommandAwaits
  BY <1>2, AwaitStep
<1>3. CASE BackendAnswers
  BY <1>3, AnswerStep
<1>4. CASE PtyData
  BY <1>4, PtyStep
<1>5. CASE PtyExits \/ Call("rename") \/ Call("terminate")
  BY <1>5, ProcessStep
<1>6. ASSUME NEW c \in Clients, Connect(c) PROVE Inv'
  BY <1>6, ConnectStep
<1>7. ASSUME NEW x \in Sockets, SocketCloses(x) PROVE Inv'
  BY <1>7, CloseStep
<1>8. ASSUME NEW x \in Sockets, ClientReads(x) PROVE Inv'
  BY <1>8, ReadStep
<1>9. ASSUME NEW x \in Sockets, ClientSends(x, "request") \/ ClientSends(x, "release") PROVE Inv'
  BY <1>9, SendStep
<1>10. CASE UNCHANGED vars
  <2>1. UNCHANGED <<status, queue, busy, attachments, controllers, control, latest, first,
                    exiting, sock, greeted, inbox, early,
                    used, ack, seen, done, behind, skipped, repeated>>
    BY <1>10 DEF vars, hub, journal, wires, browser
  <2> QED BY <2>1 DEF Inv, TypeOK, HubInv, BusyInv, SocketInv, QueueInv, GreetInv, Greet,
                      WireInv, Wire, ScreenInv, OneController, GhostsClosedEarly, Waiting,
                      NothingSkipped, NothingRepeated
<1> QED BY <1>1, <1>2, <1>3, <1>4, <1>5, <1>6, <1>7, <1>8, <1>9, <1>10 DEF Next

(* The inductive invariant holds in every state.                            *)
THEOREM TerminalInvariance == Spec => []Inv
BY InitHolds, NextStep, PTL DEF Spec

(* Every variable keeps its type, for any number of clients, sockets,       *)
(* chunks and commands (actor.ts, byte-journal.ts, ws-handler.ts).          *)
THEOREM TerminalTypes == Spec => []TypeOK
<1>1. Inv => TypeOK
  BY DEF Inv
<1> QED BY <1>1, TerminalInvariance, PTL

(* At most one attachment controls the terminal, and none whose socket has  *)
(* closed keeps the control, unless it closed before its attach ran         *)
(* (doAttach, doDetach, doRequestControl, maybeBackpressure, onPtyExit).    *)
THEOREM ControlAlwaysComesBack == Spec => []ControlComesBack
<1>1. Inv => ControlComesBack
  BY DEF Inv, ControlComesBack
<1> QED BY <1>1, TerminalInvariance, PTL

(* However sockets come and go, output is evicted and slow clients are cut  *)
(* off: a screen shows what the process wrote, in order; a missing chunk is *)
(* announced until the session has exited, a repeated one was shown without *)
(* having been acknowledged (planReplay, onPtyData, handleFrame).           *)
THEOREM OutputIsAlwaysExact == Spec => []OutputIsExact
<1>1. Inv => OutputIsExact
  <2> SUFFICES ASSUME Inv PROVE OutputIsExact
    OBVIOUS
  <2>1. ASSUME NEW x \in Sockets, inbox[x] # <<>>, Head(inbox[x]).type = "exit"
        PROVE  seen[x[1]] = latest
    <3>1. inbox[x] \in Seq(Frames) /\ 1 \in 1 .. Len(inbox[x]) /\ Head(inbox[x]) = inbox[x][1]
      BY <2>1 DEF Inv, TypeOK
    <3>2. Leads(inbox[x], 1 - 1, seen[x[1]], latest)
      BY <2>1, <3>1 DEF Inv, WireInv, Wire, Carries
    <3> QED BY <3>2 DEF Leads
  <2> QED BY <2>1 DEF Inv, OutputIsExact, ExitAfterAllOutput
<1> QED BY <1>1, TerminalInvariance, PTL

-----------------------------------------------------------------------------
(* The agent in the terminal.                                               *)
(*                                                                          *)
(* RecordInv: saves are told apart by their number, at most one is of a     *)
(* title and it is of the first title queued (SavesInv); what a save has    *)
(* read is what the file holds until two overlap (DiskInv); the save of a   *)
(* mark that will be written last has the mark of the memory (MarkInv).     *)
(* HonestInv: where the block does not say what the agent does, the events  *)
(* that are pending will set it right, from where it is or from the last    *)
(* decisive one among them on (Heals).                                      *)

SomeTitle == {Untitled, "user", "agent"}
Records == [title : SomeTitle, unread : BOOLEAN]
TitleCommands == [title : SomeTitle, by : 0..MaxEvents]
SaveTypes == [field : {"title", "unread"}, value : SomeTitle \cup BOOLEAN, stage : {"begun", "read"},
              copy : Records, n : 1..MaxSaves]
Faults == {"overlap", "failed", "lost", "overtaken", "unsaved", "forgotten", "outdated"}

RecordTyped ==
  /\ title \in SomeTitle /\ unread \in BOOLEAN
  /\ disk \in Records /\ todo \in Seq(TitleCommands)
  /\ saves \subseteq SaveTypes
  /\ \A s \in saves : s.value \in IF s.field = "title" THEN SomeTitle ELSE BOOLEAN
  /\ lapses \subseteq Faults

\* Saves are told apart by their number.  One title is saved at a time, the
\* first of those queued.
SavesInv ==
  /\ \A s, t \in saves : s.n = t.n \/ (s.field = "title" /\ t.field = "title") => s = t
  /\ \A s \in saves : s.field = "title" => todo # <<>> /\ s.value = Head(todo).title

\* No title of the agent's is queued behind one of the user's.
TitleQueueInv ==
  "outdated" \notin lapses =>
    \A i \in DOMAIN todo : todo[i].title = "agent" =>
      title # "user" /\ \A j \in 1..(i - 1) : todo[j].title # "user"

\* One save at a time is between its read and its write, so what it read is
\* what the file holds; and the title in the file is the one in memory.
DiskInv ==
  "overlap" \notin lapses =>
    /\ \A s \in saves : s.stage = "read" => s.copy = disk
    /\ \A s, t \in saves : s.stage = "read" /\ t.stage = "read" => s = t
    /\ disk.title = title

\* The save of a mark that will be written last, if any will, has the mark of
\* the memory; where there is none, the file has it.
MarkInv ==
  lapses \cap {"overlap", "failed"} = {} =>
    /\ (\A s \in saves : s.field # "unread") => disk.unread = unread
    /\ \A s \in saves :
         s.field = "unread"
         /\ (\A t \in saves \ {s} : t.field = "unread" => s.stage = "begun" /\ t.stage = "read")
         => s.value = unread

RecordInv == RecordTyped /\ SavesInv /\ TitleQueueInv /\ DiskInv /\ MarkInv

Agents == {"idle", "working", "asking", "answered", "interrupted"}
Blocks == IdleStates \cup {"none", "working", "awaiting"}

EventsTyped ==
  /\ Pending \subseteq [n : 1..MaxEvents, kind : Kinds] /\ net \cap waiting = {}
  /\ \A e \in Pending : e.n + count["events"] =< MaxEvents
  /\ \A e, f \in Pending : e.n = f.n => e = f
  /\ count \in [{"events", "faults", "renames"} -> Nat] /\ count["events"] =< MaxEvents

ActivityTyped ==
  /\ agent \in Agents /\ block \in Blocks
  /\ fresh \in BOOLEAN /\ attended \in BOOLEAN /\ finished \in BOOLEAN
  /\ clients \subseteq Viewers
  /\ unread => clients = {}

Typed == RecordInv /\ EventsTyped /\ ActivityTyped

\* Events of these kinds say what the agent does, whatever was thought of it.
Decisive == {"prompt_submit", "permission_replied", "stop", "question_asked"}
Later(e) == {f \in Pending : f.n > e.n}

\* A block b and events E yet to be applied, none of them decisive, lead to
\* what may be said of an agent that is at a.
Heals(a, b, E) ==
  /\ a = "idle" => b \in IdleStates \cup {"none"} /\ \A e \in E : e.kind = "session_start"
  /\ a = "working" => b \in {"working", "stale", "none"}
                      \/ (b = "awaiting" /\ \E e \in E : e.kind = "heartbeat")
  /\ a \in {"asking", "answered"} => b \in {"awaiting", "none"} /\ E = {}
  /\ a = "interrupted" => b \in {"working", "stale", "awaiting", "none"}

Indecisive(E) == \A e \in E : e.kind \notin Decisive
Told == lapses \cap {"lost", "overtaken", "forgotten"} = {}

\* What is pending will set the block right: from where it is, or from the
\* last decisive event on.
HonestInv == Told =>
  /\ Indecisive(Pending) => Heals(agent, block, Pending)
  /\ \A e \in Pending :
       e.kind \in Decisive /\ Indecisive(Later(e)) => Heals(agent, Reduce(block, e.kind), Later(e))

IInv == Typed /\ HonestInv /\ ResultsStayMarked

-----------------------------------------------------------------------------
(* Operators.                                                              *)

\* A set of naturals that is not empty has its least member.
LEMMA MinOfNats ==
  ASSUME NEW S \in SUBSET Nat, S # {}
  PROVE  Min(S) \in S
<1> DEFINE R == OpToRel(<, Nat)
<1>1. IsWellFoundedOn(R, Nat)
  BY NatLessThanWellFounded
<1>2. \A a, b \in Nat : a < b => <<a, b>> \in R
  BY DEF OpToRel
<1> HIDE DEF R
<1>3. PICK x \in S : \A y \in S : <<y, x>> \notin R
  BY <1>1, WFMin
<1>4. \A y \in S : x =< y
  <2> TAKE y \in S
  <2>1. x \in Nat /\ y \in Nat /\ ~(y < x)
    BY <1>2, <1>3
  <2>2. QED
    BY <2>1
<1>5. QED
  BY <1>4 DEF Min

\* A save begins with a number that no other has.
LEMMA SaveBegins ==
  ASSUME Free # {}, NEW field, NEW value
  PROVE  \E n \in 1..MaxSaves :
           /\ Save(field, value) = [field |-> field, value |-> value, stage |-> "begun", copy |-> Bare, n |-> n]
           /\ \A s \in saves : s.n # n
<1>1. Free \subseteq Nat
  BY RecordConstants DEF Free
<1>2. Min(Free) \in Free
  BY <1>1, MinOfNats
<1>3. QED
  BY <1>2 DEF Save, Free

\* The queue of titles, one longer or one shorter.
LEMMA TitlesGrow ==
  ASSUME todo \in Seq(TitleCommands), NEW c \in TitleCommands, todo' = Append(todo, c)
  PROVE  /\ todo' \in Seq(TitleCommands) /\ todo' # <<>>
         /\ DOMAIN todo' = 1..(Len(todo) + 1) /\ DOMAIN todo = 1..Len(todo) /\ Len(todo) \in Nat
         /\ \A i \in 1..Len(todo) : todo'[i] = todo[i]
         /\ todo'[Len(todo) + 1] = c
         /\ todo # <<>> => Head(todo') = Head(todo)
<1>1. /\ todo' \in Seq(TitleCommands) /\ todo' # <<>> /\ Len(todo') = Len(todo) + 1
      /\ \A i \in 1..Len(todo) : todo'[i] = todo[i]
      /\ todo'[Len(todo) + 1] = c
  BY AppendProperties
<1>2. todo # <<>> => Head(todo') = Head(todo)
  BY <1>1, HeadTailProperties
<1>3. QED
  BY <1>1, <1>2

LEMMA TitlesShrink ==
  ASSUME todo \in Seq(TitleCommands), todo # <<>>, todo' = Tail(todo)
  PROVE  /\ todo' \in Seq(TitleCommands) /\ Head(todo) \in TitleCommands /\ Head(todo) = todo[1]
         /\ 1 \in DOMAIN todo
         /\ \A i \in DOMAIN todo' : i \in Nat \ {0} /\ i + 1 \in DOMAIN todo /\ todo'[i] = todo[i + 1]
<1>1. /\ todo' \in Seq(TitleCommands) /\ Head(todo) \in TitleCommands /\ Len(todo') = Len(todo) - 1
      /\ \A i \in 1..Len(todo') : todo'[i] = todo[i + 1]
  BY HeadTailProperties
<1>2. DOMAIN todo' = 1..Len(todo') /\ DOMAIN todo = 1..Len(todo) /\ Len(todo) \in Nat /\ Len(todo) # 0
  BY <1>1, EmptySeq, LenProperties
<1>3. QED
  BY <1>1, <1>2

-----------------------------------------------------------------------------
(* The record.  A step sets or clears the mark, queues a title, begins,    *)
(* continues or ends a save, reloads the record or leaves it alone.        *)

LEMMA MarkKeeps ==
  ASSUME RecordInv, NEW mark \in BOOLEAN, SetUnread(mark),
         UNCHANGED <<title, disk, todo>>, lapses \subseteq lapses', lapses' \subseteq Faults
  PROVE  RecordInv' /\ unread' = mark
<1> USE DEF RecordInv
<1>1. CASE unread = mark
  <2>1. UNCHANGED <<unread, saves>>
    BY <1>1 DEF SetUnread
  <2>2. QED
    BY <1>1, <2>1 DEF RecordTyped, SavesInv, TitleQueueInv, DiskInv, MarkInv
<1>2. CASE unread # mark
  <2>1. Free # {} /\ unread' = mark /\ saves' = saves \cup {Save("unread", mark)}
    BY <1>2 DEF SetUnread
  <2>2. PICK n \in 1..MaxSaves :
          /\ Save("unread", mark) = [field |-> "unread", value |-> mark, stage |-> "begun", copy |-> Bare, n |-> n]
          /\ \A s \in saves : s.n # n
    BY <2>1, SaveBegins
  <2> DEFINE new == [field |-> "unread", value |-> mark, stage |-> "begun", copy |-> Bare, n |-> n]
  <2>3. /\ saves' = saves \cup {new} /\ new.field = "unread" /\ new.value = mark
        /\ new.stage = "begun" /\ new.n = n /\ new \notin saves
    BY <2>1, <2>2
  <2>4. new \in SaveTypes
    BY DEF SaveTypes, Bare, Records, SomeTitle
  <2> HIDE DEF new
  <2>5. RecordTyped'
    BY <2>1, <2>3, <2>4 DEF RecordTyped
  <2>6. SavesInv'
    BY <2>2, <2>3 DEF SavesInv
  <2>7. TitleQueueInv'
    BY DEF TitleQueueInv
  <2>8. DiskInv'
    BY <2>3 DEF DiskInv
  <2>9. MarkInv'
    BY <2>1, <2>3 DEF MarkInv
  <2>10. QED
    BY <2>1, <2>5, <2>6, <2>7, <2>8, <2>9
<1>3. QED
  BY <1>1, <1>2

LEMMA TitleQueued ==
  ASSUME RecordInv, NEW c \in TitleCommands, todo' = Append(todo, c),
         UNCHANGED <<title, unread, disk, saves>>, lapses \subseteq lapses', lapses' \subseteq Faults,
         c.title = "agent" /\ "outdated" \notin lapses' =>
           title # "user" /\ \A i \in DOMAIN todo : todo[i].title # "user"
  PROVE  RecordInv'
<1> USE DEF RecordInv
<1>1. /\ todo' \in Seq(TitleCommands) /\ todo' # <<>>
      /\ DOMAIN todo' = 1..(Len(todo) + 1) /\ DOMAIN todo = 1..Len(todo) /\ Len(todo) \in Nat
      /\ \A i \in 1..Len(todo) : todo'[i] = todo[i]
      /\ todo'[Len(todo) + 1] = c
      /\ todo # <<>> => Head(todo') = Head(todo)
  BY TitlesGrow DEF RecordTyped
<1>2. RecordTyped'
  BY <1>1 DEF RecordTyped
<1>3. SavesInv'
  BY <1>1 DEF SavesInv
<1>4. TitleQueueInv'
  <2> SUFFICES ASSUME "outdated" \notin lapses', NEW i \in DOMAIN todo', todo'[i].title = "agent"
               PROVE  title # "user" /\ \A j \in 1..(i - 1) : todo'[j].title # "user"
    BY DEF TitleQueueInv
  <2>1. CASE i \in DOMAIN todo
    BY <1>1, <2>1 DEF TitleQueueInv
  <2>2. CASE i = Len(todo) + 1
    BY <1>1, <2>2
  <2>3. QED
    BY <1>1, <2>1, <2>2
<1>5. DiskInv' /\ MarkInv'
  BY DEF DiskInv, MarkInv
<1>6. QED
  BY <1>2, <1>3, <1>4, <1>5

LEMMA TitleBegins ==
  ASSUME RecordInv, SaveTitle
  PROVE  RecordInv'
<1> USE DEF RecordInv
<1>1. /\ todo # <<>> /\ Free # {} /\ \A s \in saves : s.field # "title"
      /\ saves' = saves \cup {Save("title", Head(todo).title)}
      /\ UNCHANGED <<title, unread, disk, todo, lapses>>
  BY DEF SaveTitle, SavingTitle
<1> DEFINE value == Head(todo).title
<1>2. value \in SomeTitle
  <2>1. Head(todo) \in TitleCommands
    BY <1>1, HeadTailProperties DEF RecordTyped
  <2>2. QED
    BY <2>1 DEF TitleCommands
<1>3. PICK n \in 1..MaxSaves :
        /\ Save("title", value) = [field |-> "title", value |-> value, stage |-> "begun", copy |-> Bare, n |-> n]
        /\ \A s \in saves : s.n # n
  BY <1>1, SaveBegins
<1> DEFINE new == [field |-> "title", value |-> value, stage |-> "begun", copy |-> Bare, n |-> n]
<1>4. /\ saves' = saves \cup {new} /\ new.field = "title" /\ new.value = Head(todo).title
      /\ new.stage = "begun" /\ new.n = n
  BY <1>1, <1>3
<1>5. new \in SaveTypes
  BY <1>2 DEF SaveTypes, Bare, Records, SomeTitle
<1>6. new.value \in SomeTitle
  BY <1>2
<1> HIDE DEF new, value
<1>7. RecordTyped'
  BY <1>1, <1>4, <1>5, <1>6 DEF RecordTyped
<1>8. SavesInv'
  BY <1>1, <1>3, <1>4 DEF SavesInv
<1>9. TitleQueueInv' /\ DiskInv' /\ MarkInv'
  BY <1>1, <1>4 DEF TitleQueueInv, DiskInv, MarkInv
<1>10. QED
  BY <1>7, <1>8, <1>9

LEMMA ReadKeeps ==
  ASSUME RecordInv, NEW s \in saves, ReadRecord(s)
  PROVE  RecordInv'
<1> USE DEF RecordInv
<1> DEFINE new == [s EXCEPT !.stage = "read", !.copy = disk]
<1>1. /\ s.stage = "begun" /\ saves' = (saves \ {s}) \cup {new}
      /\ lapses' = IF saves # {s} THEN lapses \cup {"overlap"} ELSE lapses
      /\ UNCHANGED <<title, unread, disk, todo>>
  BY DEF ReadRecord
<1>2. s \in SaveTypes /\ disk \in Records
  BY DEF RecordTyped
<1>3. /\ new \in SaveTypes /\ new.stage = "read" /\ new.copy = disk
      /\ new.field = s.field /\ new.value = s.value /\ new.n = s.n
  BY <1>2 DEF SaveTypes
<1> HIDE DEF new
<1>4. RecordTyped'
  BY <1>1, <1>3 DEF RecordTyped, Faults
<1>5. SavesInv'
  BY <1>1, <1>3 DEF SavesInv
<1>6. TitleQueueInv'
  BY <1>1 DEF TitleQueueInv
<1>7. CASE saves = {s}
  <2>1. saves' = {new} /\ lapses' = lapses
    BY <1>1, <1>7
  <2>2. DiskInv'
    BY <1>1, <1>3, <2>1 DEF DiskInv
  <2>3. MarkInv'
    BY <1>1, <1>3, <1>7, <2>1 DEF MarkInv
  <2>4. QED
    BY <1>4, <1>5, <1>6, <2>2, <2>3
<1>8. CASE saves # {s}
  BY <1>1, <1>4, <1>5, <1>6, <1>8 DEF DiskInv, MarkInv
<1>9. QED
  BY <1>7, <1>8

\* A title's save ends: the queue moves on, and memory follows if it was written.
LEMMA TitleEnds ==
  ASSUME RecordInv, NEW s \in saves, NEW written \in BOOLEAN, Titled(s, written), saves' = saves \ {s},
         UNCHANGED unread, lapses \subseteq lapses', lapses' \subseteq Faults, disk' \in Records
  PROVE  RecordTyped' /\ SavesInv' /\ TitleQueueInv' /\ title' = (IF s.field = "title" /\ written THEN s.value ELSE title)
<1> USE DEF RecordInv
<1>1. CASE s.field = "title"
  <2>1. /\ todo # <<>> /\ s.value = Head(todo).title /\ todo' = Tail(todo)
        /\ title' = IF written THEN s.value ELSE title
    BY <1>1 DEF SavesInv, Titled
  <2>2. /\ todo' \in Seq(TitleCommands) /\ Head(todo) \in TitleCommands /\ Head(todo) = todo[1]
        /\ 1 \in DOMAIN todo
        /\ \A i \in DOMAIN todo' : i \in Nat \ {0} /\ i + 1 \in DOMAIN todo /\ todo'[i] = todo[i + 1]
    BY <2>1, TitlesShrink DEF RecordTyped
  <2>3. RecordTyped'
    BY <2>1, <2>2 DEF RecordTyped, TitleCommands
  <2>4. SavesInv'
    BY <1>1 DEF SavesInv
  <2>5. TitleQueueInv'
    <3> SUFFICES ASSUME "outdated" \notin lapses', NEW i \in DOMAIN todo', todo'[i].title = "agent"
                 PROVE  title' # "user" /\ \A j \in 1..(i - 1) : todo'[j].title # "user"
      BY DEF TitleQueueInv
    <3>1. title # "user" /\ \A j \in 1..i : todo[j].title # "user"
      BY <2>2 DEF TitleQueueInv
    <3>2. title' # "user"
      BY <2>1, <2>2, <3>1
    <3>3. ASSUME NEW j \in 1..(i - 1) PROVE todo'[j].title # "user"
      <4>1. j \in DOMAIN todo' /\ j + 1 \in 1..i
        BY <2>2
      <4>2. QED
        BY <2>2, <3>1, <4>1
    <3>4. QED
      BY <3>2, <3>3
  <2>6. QED
    BY <1>1, <2>1, <2>3, <2>4, <2>5
<1>2. CASE s.field # "title"
  <2>1. UNCHANGED <<todo, title>>
    BY <1>2 DEF Titled
  <2>2. QED
    BY <1>2, <2>1 DEF RecordTyped, SavesInv, TitleQueueInv
<1>3. QED
  BY <1>1, <1>2

LEMMA WriteKeeps ==
  ASSUME RecordInv, NEW s \in saves, WriteRecord(s)
  PROVE  RecordInv'
<1> USE DEF RecordInv
<1>1. /\ s.stage = "read" /\ disk' = [s.copy EXCEPT ![s.field] = s.value]
      /\ saves' = saves \ {s} /\ Titled(s, TRUE) /\ UNCHANGED <<unread, lapses>>
  BY DEF WriteRecord
<1>2. /\ s.copy \in Records /\ s.field \in {"title", "unread"}
      /\ s.field = "title" => s.value \in SomeTitle
      /\ s.field = "unread" => s.value \in BOOLEAN
  BY DEF RecordTyped, SaveTypes
<1>3. /\ disk' \in Records
      /\ s.field = "title" => disk'.title = s.value /\ disk'.unread = s.copy.unread
      /\ s.field = "unread" => disk'.title = s.copy.title /\ disk'.unread = s.value
  <2>1. CASE s.field = "title"
    BY <1>1, <1>2, <2>1 DEF Records
  <2>2. CASE s.field = "unread"
    BY <1>1, <1>2, <2>2 DEF Records
  <2>3. QED
    BY <1>2, <2>1, <2>2
<1>4. /\ RecordTyped' /\ SavesInv' /\ TitleQueueInv'
      /\ title' = (IF s.field = "title" THEN s.value ELSE title)
  BY <1>1, <1>3, TitleEnds DEF RecordTyped
<1>5. DiskInv'
  BY <1>1, <1>2, <1>3, <1>4 DEF DiskInv
<1>6. MarkInv'
  <2> SUFFICES ASSUME lapses \cap {"overlap", "failed"} = {} PROVE MarkInv'
    BY <1>1 DEF MarkInv
  <2>1. s.copy = disk /\ \A t \in saves' : t.stage # "read"
    BY <1>1 DEF DiskInv
  <2>2. \A t \in saves : t.stage \in {"begun", "read"}
    BY DEF RecordTyped, SaveTypes
  <2>3. (\A t \in saves' : t.field # "unread") => disk'.unread = unread
    BY <1>1, <1>2, <1>3, <2>1 DEF MarkInv
  <2>4. ASSUME NEW t \in saves', t.field = "unread",
               \A r \in saves' \ {t} : r.field = "unread" => t.stage = "begun" /\ r.stage = "read"
        PROVE  t.value = unread
    <3>1. t \in saves /\ t.stage = "begun"
      BY <1>1, <2>1, <2>2
    <3>2. \A r \in saves \ {t} : r.field = "unread" => t.stage = "begun" /\ r.stage = "read"
      BY <1>1, <2>4, <3>1
    <3>3. QED
      BY <2>4, <3>1, <3>2 DEF MarkInv
  <2>5. QED
    BY <1>1, <2>3, <2>4 DEF MarkInv
<1>7. QED
  BY <1>4, <1>5, <1>6

LEMMA FailKeeps ==
  ASSUME RecordInv, NEW s \in saves, SaveFails(s)
  PROVE  RecordInv'
<1> USE DEF RecordInv
<1>1. /\ s.stage = "read" /\ saves' = saves \ {s} /\ Titled(s, FALSE)
      /\ lapses' = IF s.field = "unread" THEN lapses \cup {"failed"} ELSE lapses
      /\ UNCHANGED <<unread, disk>>
  BY DEF SaveFails
<1>2. lapses \subseteq lapses' /\ lapses' \subseteq Faults /\ disk' \in Records
  BY <1>1 DEF RecordTyped, Faults
<1>3. RecordTyped' /\ SavesInv' /\ TitleQueueInv' /\ title' = title
  BY <1>1, <1>2, TitleEnds
<1>4. DiskInv'
  BY <1>1, <1>2, <1>3 DEF DiskInv
<1>5. MarkInv'
  <2>1. CASE s.field = "unread"
    BY <1>1, <2>1 DEF MarkInv
  <2>2. CASE s.field # "unread"
    BY <1>1, <2>2 DEF MarkInv
  <2>3. QED
    BY <2>1, <2>2
<1>6. QED
  BY <1>3, <1>4, <1>5

LEMMA ReloadKeeps ==
  ASSUME RecordInv, Reload, lapses \subseteq lapses', lapses' \subseteq Faults
  PROVE  RecordInv'
<1>1. /\ title' = disk.title /\ unread' = disk.unread /\ todo' = <<>> /\ saves' = {} /\ disk' = disk
  BY DEF Reload
<1>2. disk.title \in SomeTitle /\ disk.unread \in BOOLEAN /\ <<>> \in Seq(TitleCommands) /\ DOMAIN <<>> = {}
  BY EmptySeq DEF RecordInv, RecordTyped, Records
<1>3. QED
  BY <1>1, <1>2 DEF RecordInv, RecordTyped, SavesInv, TitleQueueInv, DiskInv, MarkInv

\* Where the record stays, its invariant does.
LEMMA RecordStays ==
  ASSUME RecordInv, UNCHANGED record, lapses \subseteq lapses', lapses' \subseteq Faults
  PROVE  RecordInv'
BY DEF record, RecordInv, RecordTyped, SavesInv, TitleQueueInv, DiskInv, MarkInv

-----------------------------------------------------------------------------
(* The reducer and what may be said of the agent.                          *)

LEMMA ReduceFacts ==
  ASSUME NEW b \in Blocks
  PROVE  /\ Reduce(b, "prompt_submit") = "working" /\ Reduce(b, "permission_replied") = "working"
         /\ Reduce(b, "stop") = "stopped" /\ Reduce(b, "question_asked") = "awaiting"
         /\ Reduce(b, "session_start") = IF b \in IdleStates \cup {"none"} THEN "idle" ELSE b
         /\ Reduce(b, "heartbeat") = IF b \in {"none", "awaiting", "stale"} THEN "working" ELSE b
         /\ \A k \in Kinds : Reduce(b, k) \in Blocks
BY DEF Reduce, Kinds, Blocks, IdleStates

\* The steps of the agent that a hook reports.
Row(from, to, kind) ==
  \/ from = {"idle", "interrupted"} /\ to = "working" /\ kind = "prompt_submit"
  \/ from = {"working", "answered"} /\ to = "working" /\ kind = "heartbeat"
  \/ from = {"working"} /\ to = "asking" /\ kind = "question_asked"
  \/ from = {"asking"} /\ to = "working" /\ kind = "permission_replied"
  \/ from = {"working", "answered"} /\ to = "idle" /\ kind = "stop"
  \/ from = {"idle"} /\ to = "idle" /\ kind = "stop"
  \/ from = {"idle"} /\ to = "idle" /\ kind = "session_start"
  \/ from = {"working"} /\ to = "working" /\ kind = "session_start"

LEMMA DecisiveReport ==
  ASSUME NEW from, NEW to, NEW kind \in Decisive, Row(from, to, kind), NEW b \in Blocks
  PROVE  Heals(to, Reduce(b, kind), {})
BY ReduceFacts DEF Row, Decisive, Heals, IdleStates

LEMMA IndecisiveReport ==
  ASSUME NEW from, NEW to, NEW kind, kind \notin Decisive, Row(from, to, kind),
         NEW a \in from, NEW b, NEW E, Heals(a, b, E), NEW e, e.kind = kind
  PROVE  Heals(to, b, E \cup {e})
<1>1. kind \in {"heartbeat", "session_start"}
  BY DEF Row, Decisive
<1>2. CASE kind = "heartbeat"
  BY <1>2 DEF Row, Heals
<1>3. CASE kind = "session_start"
  BY <1>3 DEF Row, Heals
<1>4. QED
  BY <1>1, <1>2, <1>3

LEMMA NothingReported ==
  ASSUME NEW a, NEW b, NEW E, Heals(a, b, E)
  PROVE  /\ a = "asking" => Heals("answered", b, E)
         /\ a \in {"working", "answered", "asking"} => Heals("interrupted", b, E)
BY DEF Heals

LEMMA IndecisiveApplied ==
  ASSUME NEW a \in Agents, NEW b \in Blocks, NEW E, Heals(a, b, E), NEW e \in E, e.kind \in Kinds \ Decisive,
         ~(e.kind = "session_start" /\ b \in {"stale", "none"} /\ a # "idle")
  PROVE  Heals(a, Reduce(b, e.kind), E \ {e})
<1>1. e.kind \in {"heartbeat", "session_start"}
  BY DEF Kinds, Decisive
<1>2. CASE e.kind = "heartbeat"
  BY <1>2, ReduceFacts DEF Heals, Agents, Blocks, IdleStates
<1>3. CASE e.kind = "session_start"
  BY <1>3, ReduceFacts DEF Heals, Agents, Blocks, IdleStates
<1>4. QED
  BY <1>1, <1>2, <1>3

LEMMA Guesses ==
  ASSUME NEW a, NEW E
  PROVE  /\ Heals(a, "working", E) => Heals(a, "stale", E)
         /\ \A b \in {"working", "stale"} :
              a \in {"working", "answered"} /\ Heals(a, b, E) => Heals(a, "working", E)
         /\ Heals(a, "none", {})
BY DEF Heals, IdleStates

\* A decisive event makes of every block the same.
LEMMA DecisiveForgets ==
  ASSUME NEW b \in Blocks, NEW c \in Blocks, NEW kind \in Decisive
  PROVE  Reduce(b, kind) = Reduce(c, kind)
BY ReduceFacts DEF Decisive

-----------------------------------------------------------------------------
(* The steps.                                                              *)

\* Where nothing is said and nothing happens, what is said stays right.
LEMMA HonestStays ==
  ASSUME HonestInv, UNCHANGED <<agent, block>>, Pending' = Pending, lapses \subseteq lapses'
  PROVE  HonestInv'
<1>1. \A e \in Pending : Later(e)' = Later(e)
  BY DEF Later
<1>2. Told' => Told
  BY DEF Told
<1>3. QED
  BY <1>1, <1>2 DEF HonestInv

LEMMA Spends ==
  ASSUME EventsTyped, NEW what \in {"events", "faults", "renames"}, Spend(what)
  PROVE  /\ count' \in [{"events", "faults", "renames"} -> Nat]
         /\ count["events"] \in Nat /\ count'["events"] =< count["events"] /\ count'["events"] =< MaxEvents
         /\ what = "events" => count["events"] > 0 /\ count'["events"] = count["events"] - 1
BY ActivityConstants DEF Spend, EventsTyped

\* Events stay as they are, or become fewer.
LEMMA EventsStay ==
  ASSUME EventsTyped, net' \subseteq net \cup waiting, waiting' \subseteq net \cup waiting,
         net' \cap waiting' = {},
         UNCHANGED count \/ Spend("faults") \/ Spend("renames")
  PROVE  EventsTyped'
<1>1. /\ count' \in [{"events", "faults", "renames"} -> Nat] /\ count["events"] \in Nat
      /\ count'["events"] =< count["events"] /\ count'["events"] =< MaxEvents
  BY Spends DEF EventsTyped
<1>2. Pending' \subseteq Pending
  BY DEF Pending
<1>3. \A e \in Pending : e.n \in Nat /\ e.n + count'["events"] =< MaxEvents
  <2> TAKE e \in Pending
  <2>1. e.n \in Nat /\ e.n + count["events"] =< MaxEvents
    BY DEF EventsTyped
  <2>2. QED
    BY <1>1, <2>1, ActivityConstants
<1>4. QED
  BY <1>1, <1>2, <1>3 DEF EventsTyped

\* A hook reports a step of the agent.
LEMMA ReportKeeps ==
  ASSUME IInv, NEW from, NEW to, NEW kind, Row(from, to, kind), Does(from, to, kind)
  PROVE  IInv'
<1> USE DEF IInv, Typed
<1>0. PICK e : e = [n |-> MaxEvents - count["events"] + 1, kind |-> kind]
  OBVIOUS
<1>1. /\ agent \in from /\ agent' = to /\ Spend("events") /\ net' = net \cup {e}
      /\ UNCHANGED <<record, lapses, waiting, activity, clients>>
  BY <1>0 DEF Does
<1>2. to \in Agents /\ kind \in Kinds
  BY DEF Row, Agents, Kinds
<1>3. /\ count' \in [{"events", "faults", "renames"} -> Nat] /\ count["events"] \in Nat
      /\ count["events"] > 0 /\ count'["events"] = count["events"] - 1
      /\ count["events"] =< MaxEvents /\ count'["events"] =< MaxEvents
  BY <1>1, Spends DEF EventsTyped
<1>4. /\ e.n \in 1..MaxEvents /\ e.n + count'["events"] = MaxEvents /\ e.kind = kind
      /\ \A f \in Pending : f.n \in 1..MaxEvents /\ f.n < e.n
  <2>1. e.n \in 1..MaxEvents /\ e.n + count'["events"] = MaxEvents /\ e.kind = kind
    BY <1>0, <1>3, ActivityConstants
  <2>2. ASSUME NEW f \in Pending PROVE f.n \in 1..MaxEvents /\ f.n < e.n
    <3>1. f.n \in 1..MaxEvents /\ f.n + count["events"] =< MaxEvents
      BY DEF EventsTyped
    <3>2. QED
      BY <1>0, <1>3, <3>1, ActivityConstants
  <2>3. QED
    BY <2>1, <2>2
<1>5. e \in [n : 1..MaxEvents, kind : Kinds]
  BY <1>0, <1>2, <1>4
<1>6. Pending' = Pending \cup {e} /\ e \notin Pending
  BY <1>1, <1>4 DEF Pending
<1>7. RecordInv'
  BY <1>1, RecordStays DEF RecordInv, RecordTyped
<1>8. EventsTyped'
  <2>1. ASSUME NEW f \in Pending' PROVE f.n + count'["events"] =< MaxEvents
    <3>1. CASE f = e
      BY <1>3, <1>4, <3>1, ActivityConstants
    <3>2. CASE f \in Pending
      <4>1. f.n \in 1..MaxEvents /\ f.n + count["events"] =< MaxEvents
        BY <3>2 DEF EventsTyped
      <4>2. QED
        BY <1>3, <4>1, ActivityConstants
    <3>3. QED
      BY <1>6, <3>1, <3>2
  <2>2. \A f, g \in Pending' : f.n = g.n => f = g
    BY <1>4, <1>6 DEF EventsTyped
  <2>3. net' \cap waiting' = {}
    BY <1>1, <1>6 DEF EventsTyped, Pending
  <2>4. Pending' \subseteq [n : 1..MaxEvents, kind : Kinds]
    BY <1>5, <1>6 DEF EventsTyped
  <2>5. QED
    BY <1>3, <2>1, <2>2, <2>3, <2>4 DEF EventsTyped
<1>9. ActivityTyped' /\ ResultsStayMarked'
  BY <1>1, <1>2 DEF ActivityTyped, ResultsStayMarked, record, activity
<1>10. HonestInv'
  <2> SUFFICES ASSUME Told PROVE HonestInv'
    BY <1>1 DEF HonestInv, Told
  <2>1. block' = block /\ block \in Blocks
    BY <1>1 DEF activity, ActivityTyped
  <2>2. Later(e)' = {}
    BY <1>4, <1>6 DEF Later
  <2>3. ASSUME NEW f \in Pending PROVE Later(f)' = Later(f) \cup {e}
    <3>1. e.n > f.n
      BY <1>4
    <3>2. \A g : g \in Later(f)' <=> g \in Later(f) \cup {e}
      BY <1>6, <3>1 DEF Later
    <3>3. QED
      BY <3>2
  <2>4. CASE kind \in Decisive
    <3>1. Heals(agent', Reduce(block', kind), Later(e)')
      BY <1>1, <2>1, <2>2, <2>4, DecisiveReport
    <3>2. ~Indecisive(Pending') /\ \A f \in Pending : ~Indecisive(Later(f)')
      BY <1>4, <1>6, <2>3, <2>4 DEF Indecisive
    <3>3. \A f \in Pending' : f = e \/ ~Indecisive(Later(f)')
      BY <1>6, <3>2
    <3>4. QED
      BY <1>4, <3>1, <3>2, <3>3 DEF HonestInv, Indecisive
  <2>5. CASE kind \notin Decisive
    <3>1. Indecisive(Pending)' => Heals(agent, block, Pending)
      BY <1>6 DEF HonestInv, Indecisive
    <3>2. Indecisive(Pending)' => Heals(agent', block', Pending')
      BY <1>1, <1>4, <1>6, <2>1, <2>5, <3>1, IndecisiveReport
    <3>3. ASSUME NEW f \in Pending', f.kind \in Decisive, Indecisive(Later(f))'
          PROVE  Heals(agent', Reduce(block', f.kind), Later(f)')
      <4>1. f \in Pending /\ Later(f)' = Later(f) \cup {e}
        BY <1>4, <1>6, <2>3, <2>5, <3>3
      <4>2. Heals(agent, Reduce(block, f.kind), Later(f))
        BY <3>3, <4>1 DEF HonestInv, Indecisive
      <4>3. QED
        BY <1>1, <1>4, <2>1, <2>5, <4>1, <4>2, IndecisiveReport
    <3>4. QED
      BY <3>2, <3>3 DEF HonestInv
  <2>6. QED
    BY <2>4, <2>5
<1>11. QED
  BY <1>7, <1>8, <1>9, <1>10

\* The agent takes a step that nobody reports.
LEMMA UnreportedKeeps ==
  ASSUME IInv, Answers \/ Interrupts
  PROVE  IInv'
<1> USE DEF IInv, Typed
<1>1. /\ agent' \in Agents /\ UNCHANGED <<record, lapses, net, waiting, activity, clients, count>>
      /\ \/ agent = "asking" /\ agent' = "answered"
         \/ agent \in {"working", "answered", "asking"} /\ agent' = "interrupted"
  BY DEF Answers, Interrupts, Unreported, Agents
<1>2. RecordInv'
  BY <1>1, RecordStays DEF RecordInv, RecordTyped
<1>3. EventsTyped'
  BY <1>1, EventsStay DEF EventsTyped
<1>4. ActivityTyped' /\ ResultsStayMarked'
  BY <1>1 DEF ActivityTyped, ResultsStayMarked, record, activity
<1>5. HonestInv'
  <2>1. Pending' = Pending /\ block' = block /\ \A f \in Pending : Later(f)' = Later(f)
    BY <1>1 DEF Pending, activity, Later
  <2>2. \A b, E : Heals(agent, b, E) => Heals(agent', b, E)
    BY <1>1, NothingReported
  <2>3. QED
    BY <1>1, <2>1, <2>2 DEF HonestInv, Told
<1>6. QED
  BY <1>2, <1>3, <1>4, <1>5

\* A request is lost: nothing is said of the agent from then on.
LEMMA LossKeeps ==
  ASSUME IInv, NEW e, Loses(e)
  PROVE  IInv'
<1> USE DEF IInv, Typed
<1>1. /\ e \in net /\ Spend("faults") /\ net' = net \ {e} /\ lapses' = lapses \cup {"lost"}
      /\ UNCHANGED <<record, agent, waiting, activity, clients>>
  BY DEF Loses
<1>2. RecordInv'
  BY <1>1, RecordStays DEF RecordInv, RecordTyped, Faults
<1>3. EventsTyped'
  BY <1>1, EventsStay DEF EventsTyped
<1>4. ActivityTyped' /\ ResultsStayMarked'
  BY <1>1 DEF ActivityTyped, ResultsStayMarked, record, activity
<1>5. HonestInv'
  BY <1>1 DEF HonestInv, Told
<1>6. QED
  BY <1>2, <1>3, <1>4, <1>5

\* An event is applied that is no longer pending then.
LEMMA ApplyKeeps ==
  ASSUME IInv, NEW e \in Pending, Apply(e), Pending' = Pending \ {e}, EventsTyped',
         UNCHANGED <<title, disk, todo, agent, clients>>
  PROVE  IInv'
<1> USE DEF IInv, Typed
<1> DEFINE next == Reduce(block, e.kind)
<1>1. /\ block' = next /\ fresh' = TRUE
      /\ attended' = IF EntersWork(block, next) THEN clients # {} ELSE attended
      /\ IF Qualifies(next) /\ Label(next) # Label(block) /\ clients = {}
         THEN SetUnread(TRUE) ELSE UNCHANGED <<unread, saves>>
      /\ finished' = IF Qualifies(next) /\ clients = {} /\ block # "stale" /\ Label(next) # Label(block)
                     THEN TRUE ELSE finished
      /\ lapses' = lapses \cup (IF Overtaken(e) THEN {"overtaken"} ELSE {})
                          \cup (IF Forgets(e) THEN {"forgotten"} ELSE {})
  BY DEF Apply
<1>2. e.kind \in Kinds /\ e.n \in Nat /\ block \in Blocks /\ \A f \in Pending : f.n \in Nat
  BY DEF EventsTyped, ActivityTyped
<1>3. next \in Blocks
  BY <1>2, ReduceFacts
<1> HIDE DEF next
<1>4. /\ lapses \subseteq lapses' /\ lapses' \subseteq Faults
      /\ lapses' \cap {"overlap", "failed", "unsaved"} = lapses \cap {"overlap", "failed", "unsaved"}
  BY <1>1 DEF RecordInv, RecordTyped, Faults
<1>5. PICK mark \in BOOLEAN : SetUnread(mark) /\ (mark => unread \/ clients = {}) /\ (unread => mark)
                             /\ (finished' # finished => mark)
  <2>1. CASE Qualifies(next) /\ Label(next) # Label(block) /\ clients = {}
    BY <1>1, <2>1
  <2>2. CASE ~(Qualifies(next) /\ Label(next) # Label(block) /\ clients = {})
    <3>1. UNCHANGED <<unread, saves>> /\ unread \in BOOLEAN /\ finished' = finished
      BY <1>1, <2>2 DEF RecordInv, RecordTyped
    <3>2. SetUnread(unread)
      BY <3>1 DEF SetUnread
    <3>3. QED
      BY <3>1, <3>2
  <2>3. QED
    BY <2>1, <2>2
<1>6. RecordInv' /\ unread' = mark
  BY <1>4, <1>5, MarkKeeps
<1>7. ActivityTyped'
  BY <1>1, <1>3, <1>5, <1>6 DEF ActivityTyped
<1>8. ResultsStayMarked'
  BY <1>4, <1>5, <1>6 DEF ResultsStayMarked, ActivityTyped
<1>9. HonestInv'
  <2> SUFFICES ASSUME Told' PROVE HonestInv'
    BY DEF HonestInv
  <2>1. Told /\ ~Overtaken(e) /\ ~Forgets(e)
    BY <1>1, <1>4 DEF Told
  <2>2. \A f \in Pending : f.n >= e.n /\ (f # e => f.n > e.n)
    BY <1>2, <2>1 DEF Overtaken, EventsTyped
  <2>3. Later(e) = Pending' /\ \A f \in Pending : Later(f)' = Later(f)
    BY <1>2, <2>2 DEF Later
  <2>4. ASSUME NEW f \in Pending', f.kind \in Decisive, Indecisive(Later(f))'
        PROVE  Heals(agent', Reduce(block', f.kind), Later(f)')
    <3>1. Heals(agent, Reduce(block, f.kind), Later(f))
      BY <2>1, <2>3, <2>4 DEF HonestInv, Indecisive
    <3>2. Reduce(block', f.kind) = Reduce(block, f.kind)
      BY <1>1, <1>2, <1>3, <2>4, DecisiveForgets
    <3>3. QED
      BY <2>3, <2>4, <3>1, <3>2
  <2>5. ASSUME Indecisive(Pending') PROVE Heals(agent', block', Pending')
    <3>1. CASE e.kind \in Decisive
      BY <1>1, <2>1, <2>3, <2>5, <3>1 DEF HonestInv, next
    <3>2. CASE e.kind \notin Decisive
      <4>1. Heals(agent, block, Pending)
        BY <2>1, <2>5, <3>2 DEF HonestInv, Indecisive
      <4>2. ~(e.kind = "session_start" /\ block \in {"stale", "none"} /\ agent # "idle")
        BY <2>1 DEF Forgets
      <4>3. Heals(agent, Reduce(block, e.kind), Pending \ {e})
        BY <1>2, <3>2, <4>1, <4>2, IndecisiveApplied DEF ActivityTyped
      <4>4. QED
        BY <1>1, <4>3 DEF next
    <3>3. QED
      BY <3>1, <3>2
  <2>6. QED
    BY <2>4, <2>5 DEF HonestInv, Indecisive
<1>10. QED
  BY <1>6, <1>7, <1>8, <1>9

LEMMA ArrivalKeeps ==
  ASSUME IInv, NEW e, ArriveUntitled(e) \/ AppliedAfterTitle(e)
  PROVE  IInv'
<1>1. CASE ArriveUntitled(e)
  <2>1. e \in net /\ net' = net \ {e} /\ Apply(e) /\ UNCHANGED <<title, disk, todo, agent, waiting, clients, count>>
    BY <1>1 DEF ArriveUntitled
  <2>2. e \in Pending /\ Pending' = Pending \ {e}
    BY <2>1 DEF Pending, IInv, Typed, EventsTyped
  <2>3. EventsTyped'
    BY <2>1, EventsStay DEF IInv, Typed, EventsTyped
  <2>4. QED
    BY <2>1, <2>2, <2>3, ApplyKeeps
<1>2. CASE AppliedAfterTitle(e)
  <2>1. e \in waiting /\ waiting' = waiting \ {e} /\ Apply(e) /\ UNCHANGED <<title, disk, todo, agent, net, clients, count>>
    BY <1>2 DEF AppliedAfterTitle
  <2>2. e \in Pending /\ Pending' = Pending \ {e}
    BY <2>1 DEF Pending, IInv, Typed, EventsTyped
  <2>3. EventsTyped'
    BY <2>1, EventsStay DEF IInv, Typed, EventsTyped
  <2>4. QED
    BY <2>1, <2>2, <2>3, ApplyKeeps
<1>3. QED
  BY <1>1, <1>2

\* An event waits for its title.
LEMMA TitlingKeeps ==
  ASSUME IInv, NEW e, ArriveTitling(e)
  PROVE  IInv'
<1> USE DEF IInv, Typed
<1>1. PICK t \in Titles(e.kind) : todo' = Append(todo, [title |-> t, by |-> e.n])
  BY DEF ArriveTitling
<1>2. /\ e \in net /\ net' = net \ {e} /\ waiting' = waiting \cup {e}
      /\ lapses' = IF \E i \in DOMAIN todo : todo[i].title = "user" THEN lapses \cup {"outdated"} ELSE lapses
      /\ UNCHANGED <<title, unread, disk, saves, agent, activity, clients, count>>
  BY DEF ArriveTitling
<1>3. e.n \in 0..MaxEvents /\ e.kind \in Kinds
  BY <1>2 DEF EventsTyped, Pending
<1>4. t \in SomeTitle /\ (t = "agent" => title # "user")
  BY <1>1, <1>3, RecordConstants DEF Titles, SomeTitle, Kinds
<1> DEFINE c == [title |-> t, by |-> e.n]
<1>5. c \in TitleCommands /\ c.title = t
  BY <1>3, <1>4 DEF TitleCommands
<1>6. lapses \subseteq lapses' /\ lapses' \subseteq Faults
  BY <1>2 DEF RecordInv, RecordTyped, Faults
<1>7. c.title = "agent" /\ "outdated" \notin lapses' =>
        title # "user" /\ \A i \in DOMAIN todo : todo[i].title # "user"
  BY <1>2, <1>4, <1>5
<1> HIDE DEF c
<1>8. RecordInv'
  BY <1>1, <1>2, <1>5, <1>6, <1>7, TitleQueued DEF c
<1>9. EventsTyped'
  BY <1>2, EventsStay DEF EventsTyped
<1>10. ActivityTyped' /\ ResultsStayMarked'
  BY <1>2, <1>6 DEF ActivityTyped, ResultsStayMarked, activity
<1>11. HonestInv'
  <2>1. Pending' = Pending
    BY <1>2 DEF Pending
  <2>2. QED
    BY <1>2, <1>6, <2>1, HonestStays DEF activity
<1>12. QED
  BY <1>8, <1>9, <1>10, <1>11

\* The block changes by itself: work is doubted, or seen to go on.
LEMMA GuessKeeps ==
  ASSUME IInv, TimeToLivePasses \/ SweepStaleActivity \/ RefreshAgentActivity
  PROVE  IInv'
<1> USE DEF IInv, Typed
<1>1. /\ UNCHANGED <<record, lapses, agent, net, waiting, finished, clients, count>>
      /\ fresh' \in BOOLEAN /\ attended' \in BOOLEAN
      /\ \/ block' = block
         \/ block = "working" /\ block' = "stale"
         \/ block \in {"working", "stale"} /\ agent \in {"working", "answered"} /\ block' = "working"
  BY DEF TimeToLivePasses, SweepStaleActivity, RefreshAgentActivity, ActivityTyped
<1>2. RecordInv'
  BY <1>1, RecordStays DEF RecordInv, RecordTyped
<1>3. EventsTyped'
  BY <1>1, EventsStay DEF EventsTyped
<1>4. block \in Blocks /\ block' \in Blocks
  BY <1>1 DEF ActivityTyped, Blocks, IdleStates
<1>5. ActivityTyped' /\ ResultsStayMarked'
  BY <1>1, <1>4 DEF ActivityTyped, ResultsStayMarked, record
<1>6. HonestInv'
  <2>1. Pending' = Pending /\ \A f \in Pending : Later(f)' = Later(f)
    BY <1>1 DEF Pending, Later
  <2>2. \A E : Heals(agent, block, E) => Heals(agent, block', E)
    BY <1>1, Guesses
  <2>3. \A f \in Pending : f.kind \in Decisive => Reduce(block', f.kind) = Reduce(block, f.kind)
    BY <1>4, DecisiveForgets
  <2>4. QED
    BY <1>1, <2>1, <2>2, <2>3 DEF HonestInv, Told
<1>7. QED
  BY <1>2, <1>3, <1>5, <1>6

LEMMA ClientKeeps ==
  ASSUME IInv, NEW c \in Viewers, Attach(c) \/ Detach(c)
  PROVE  IInv'
<1> USE DEF IInv, Typed
<1>1. CASE Attach(c)
  <2>1. /\ clients' = clients \cup {c} /\ attended' = (attended \/ block = "working")
        /\ SetUnread(FALSE) /\ finished' = FALSE
        /\ UNCHANGED <<title, disk, todo, lapses, agent, net, waiting, block, fresh, count>>
    BY <1>1 DEF Attach
  <2>2. RecordInv' /\ unread' = FALSE
    BY <2>1, MarkKeeps DEF RecordInv, RecordTyped
  <2>3. EventsTyped'
    BY <2>1, EventsStay DEF EventsTyped
  <2>4. ActivityTyped' /\ ResultsStayMarked'
    BY <2>1, <2>2 DEF ActivityTyped, ResultsStayMarked
  <2>5. HonestInv'
    BY <2>1, HonestStays DEF Pending
  <2>6. QED
    BY <2>2, <2>3, <2>4, <2>5
<1>2. CASE Detach(c)
  <2>1. /\ clients' = clients \ {c}
        /\ UNCHANGED <<record, lapses, agent, net, waiting, activity, count>>
    BY <1>2 DEF Detach
  <2>2. RecordInv'
    BY <2>1, RecordStays DEF RecordInv, RecordTyped
  <2>3. EventsTyped'
    BY <2>1, EventsStay DEF EventsTyped
  <2>4. ActivityTyped' /\ ResultsStayMarked'
    BY <2>1 DEF ActivityTyped, ResultsStayMarked, record, activity
  <2>5. HonestInv'
    BY <2>1, HonestStays DEF Pending, activity
  <2>6. QED
    BY <2>2, <2>3, <2>4, <2>5
<1>3. QED
  BY <1>1, <1>2

\* The rest of the daemon does not know of titles and their saves.
LEMMA RecordOnly ==
  ASSUME IInv, RecordInv', lapses \subseteq lapses', UNCHANGED <<unread, agent, net, waiting, activity, clients>>,
         UNCHANGED count \/ Spend("faults") \/ Spend("renames")
  PROVE  IInv'
<1> USE DEF IInv, Typed
<1>1. EventsTyped'
  BY EventsStay DEF EventsTyped
<1>2. ActivityTyped' /\ ResultsStayMarked'
  BY DEF ActivityTyped, ResultsStayMarked, activity
<1>3. HonestInv'
  BY HonestStays DEF Pending, activity
<1>4. QED
  BY <1>1, <1>2, <1>3

LEMMA RenameKeeps ==
  ASSUME IInv, NEW t \in {"user", Untitled}, UserRenames(t)
  PROVE  IInv'
<1> DEFINE c == [title |-> t, by |-> 0]
<1>1. /\ Spend("renames") /\ todo' = Append(todo, c)
      /\ UNCHANGED <<title, unread, disk, saves, lapses, agent, net, waiting, activity, clients>>
  BY DEF UserRenames, Rename
<1>2. c \in TitleCommands /\ c.title # "agent"
  BY RecordConstants, ActivityConstants DEF TitleCommands, SomeTitle
<1> HIDE DEF c
<1>3. RecordInv'
  BY <1>1, <1>2, TitleQueued DEF IInv, Typed, RecordInv, RecordTyped
<1>4. QED
  BY <1>1, <1>3, RecordOnly

LEMMA SavesKeep ==
  ASSUME IInv, SavesRecord
  PROVE  IInv'
<1>1. /\ (Saving /\ UNCHANGED count) \/ (Failing /\ Spend("faults"))
      /\ UNCHANGED <<agent, net, waiting, activity, clients>>
  BY DEF SavesRecord
<1>2. CASE SaveTitle /\ UNCHANGED count
  <2>1. RecordInv' /\ UNCHANGED <<unread, lapses>>
    BY <1>2, TitleBegins DEF IInv, Typed, SaveTitle
  <2>2. QED
    BY <1>1, <1>2, <2>1, RecordOnly
<1>3. ASSUME NEW s \in saves, ReadRecord(s), UNCHANGED count PROVE IInv'
  <2>1. RecordInv' /\ unread' = unread /\ lapses \subseteq lapses'
    BY <1>3, ReadKeeps DEF IInv, Typed, ReadRecord
  <2>2. QED
    BY <1>1, <1>3, <2>1, RecordOnly
<1>4. ASSUME NEW s \in saves, WriteRecord(s), UNCHANGED count PROVE IInv'
  <2>1. RecordInv' /\ UNCHANGED <<unread, lapses>>
    BY <1>4, WriteKeeps DEF IInv, Typed, WriteRecord
  <2>2. QED
    BY <1>1, <1>4, <2>1, RecordOnly
<1>5. ASSUME NEW s \in saves, SaveFails(s), Spend("faults") PROVE IInv'
  <2>1. RecordInv' /\ unread' = unread /\ lapses \subseteq lapses'
    BY <1>5, FailKeeps DEF IInv, Typed, SaveFails
  <2>2. QED
    BY <1>1, <1>5, <2>1, RecordOnly
<1>6. QED
  BY <1>1, <1>2, <1>3, <1>4, <1>5 DEF Saving, Failing

\* A restart loses nothing of what was saved, and says nothing of the agent.
LEMMA RestartKeeps ==
  ASSUME IInv, Restart
  PROVE  IInv'
<1> USE DEF IInv, Typed
<1>1. /\ Spend("faults") /\ Reload
      /\ net' = {} /\ waiting' = {} /\ clients' = {}
      /\ block' = "none" /\ fresh' = TRUE /\ attended' = FALSE
      /\ lapses' = lapses \cup (IF Pending # {} THEN {"lost"} ELSE {})
                          \cup (IF saves # {} \/ todo # <<>> THEN {"unsaved"} ELSE {})
      /\ UNCHANGED <<agent, finished>>
  BY DEF Restart
<1>2. lapses \subseteq lapses' /\ lapses' \subseteq Faults
  BY <1>1 DEF RecordInv, RecordTyped, Faults
<1>3. RecordInv'
  BY <1>1, <1>2, ReloadKeeps
<1>4. EventsTyped'
  BY <1>1, EventsStay
<1>5. ActivityTyped'
  BY <1>1 DEF ActivityTyped, Blocks
<1>6. ResultsStayMarked'
  <2> SUFFICES ASSUME finished, lapses' \cap {"overlap", "failed", "unsaved"} = {} PROVE unread'
    BY <1>1 DEF ResultsStayMarked
  <2>1. lapses \cap {"overlap", "failed", "unsaved"} = {} /\ saves = {}
    BY <1>1, <1>2
  <2>2. unread /\ disk.unread = unread
    BY <2>1 DEF ResultsStayMarked, RecordInv, MarkInv
  <2>3. QED
    BY <1>1, <2>2 DEF Reload
<1>7. HonestInv'
  <2>1. Pending' = {}
    BY <1>1 DEF Pending
  <2>2. QED
    BY <1>1, <2>1, Guesses DEF HonestInv
<1>8. QED
  BY <1>3, <1>4, <1>5, <1>6, <1>7

LEMMA StutterKeeps == ASSUME IInv, UNCHANGED activityVars PROVE IInv'
<1>1. UNCHANGED <<record, lapses, agent, net, waiting, activity, clients, count>>
  BY DEF activityVars
<1>2. RecordInv'
  BY <1>1, RecordStays DEF IInv, Typed, RecordInv, RecordTyped
<1>3. QED
  BY <1>1, <1>2, RecordOnly DEF record

LEMMA NextKeeps == ASSUME IInv, [ActivityNext]_activityVars PROVE IInv'
<1>1. CASE AgentStep
  <2>1. PICK from, to, kind : Row(from, to, kind) /\ Does(from, to, kind)
    BY <1>1 DEF AgentStep, Row
  <2>2. QED
    BY <2>1, ReportKeeps
<1>2. CASE Delivery
  BY <1>2, LossKeeps, TitlingKeeps, ArrivalKeeps DEF Delivery
<1>3. CASE Resumption
  BY <1>3, ArrivalKeeps DEF Resumption
<1>4. QED
  BY <1>1, <1>2, <1>3, UnreportedKeeps, GuessKeeps, ClientKeeps, RenameKeeps, SavesKeep, RestartKeeps,
     StutterKeeps DEF ActivityNext

-----------------------------------------------------------------------------
(* The theorems.                                                           *)

LEMMA InitKeeps == ASSUME ActivityInit PROVE IInv
<1>1. InitRecord /\ agent = "idle" /\ net = {} /\ waiting = {} /\ block = "none" /\ fresh = TRUE
      /\ attended = FALSE /\ clients = {} /\ finished = FALSE
      /\ count = [events |-> MaxEvents, faults |-> MaxFaults, renames |-> MaxRenames]
  BY DEF ActivityInit
<1>2. RecordInv
  <2>1. <<>> \in Seq(TitleCommands) /\ DOMAIN <<>> = {}
    BY EmptySeq
  <2>2. QED
    BY <1>1, <2>1 DEF InitRecord, Bare, RecordInv, RecordTyped, SavesInv, TitleQueueInv, DiskInv, MarkInv, Records, SomeTitle
<1>3. EventsTyped
  <2>1. /\ count["events"] = MaxEvents
        /\ count \in [{"events", "faults", "renames"} -> Nat]
    BY <1>1, ActivityConstants
  <2>2. QED
    BY <1>1, <2>1, ActivityConstants DEF EventsTyped, Pending
<1>4. ActivityTyped /\ ResultsStayMarked
  BY <1>1 DEF ActivityTyped, Agents, Blocks, ResultsStayMarked, InitRecord
<1>5. HonestInv
  <2>1. Pending = {}
    BY <1>1 DEF Pending
  <2>2. QED
    BY <1>1, <2>1, Guesses DEF HonestInv
<1>6. QED
  BY <1>2, <1>3, <1>4, <1>5 DEF IInv, Typed

LEMMA TypedImpliesTypeOK == Typed => ActivityTypeOK
<1> SUFFICES ASSUME Typed PROVE ActivityTypeOK
  OBVIOUS
<1> DEFINE Ts == {s \in saves : s.field = "title"}
<1>1. Cardinality(Ts) <= 1
  <2>1. CASE Ts = {}
    BY <2>1, FS_EmptySet
  <2>2. CASE Ts # {}
    <3>1. PICK s : Ts = {s}
      BY <2>2 DEF Typed, RecordInv, SavesInv
    <3>2. Cardinality({s}) = 1
      BY FS_Singleton
    <3>3. QED
      BY <3>1, <3>2
  <2>3. QED
    BY <2>1, <2>2
<1>2. \A i \in DOMAIN todo : todo[i] \in TitleCommands
  BY DEF Typed, RecordInv, RecordTyped
<1>3. \A s \in saves : s.stage \in {"begun", "read"} /\ s.n \in 1..MaxSaves
  BY DEF Typed, RecordInv, RecordTyped, SaveTypes
<1>4. QED
  BY <1>1, <1>2, <1>3 DEF ActivityTypeOK, Typed, RecordInv, RecordTyped, EventsTyped, ActivityTyped, SomeTitle, Records,
     TitleCommands, Faults, Agents, Blocks

\* For any number of clients, events, faults, renames and saves.
THEOREM ActivityInvariance == ActivitySpec => []IInv
<1>1. ActivityInit => IInv
  BY InitKeeps
<1>2. IInv /\ [ActivityNext]_activityVars => IInv'
  BY NextKeeps
<1>3. QED
  BY <1>1, <1>2, PTL DEF ActivitySpec

\* Every variable keeps its type, and a mark means that nobody is attached.
THEOREM ActivityTypes == ActivitySpec => []ActivityTypeOK
<1>1. IInv => ActivityTypeOK
  BY TypedImpliesTypeOK DEF IInv
<1>2. QED
  BY <1>1, ActivityInvariance, PTL

\* Once all events are applied the terminal says of the agent what it may.
THEOREM StateIsHonest == ActivitySpec => []StateFollowsAgent
<1>1. IInv => StateFollowsAgent
  <2> SUFFICES ASSUME IInv, Pending = {}, Told PROVE block \in Honest[agent]
    BY DEF StateFollowsAgent, Told
  <2>1. Heals(agent, block, {}) /\ agent \in Agents
    BY DEF IInv, HonestInv, Indecisive, Typed, ActivityTyped
  <2>2. QED
    BY <2>1 DEF Heals, Agents, Honest
<1>2. QED
  BY <1>1, ActivityInvariance, PTL

\* The record of a terminal with nothing to save is what memory says.
THEOREM RecordIsMemory == ActivitySpec => []RecordFollowsMemory
<1>1. IInv => RecordFollowsMemory
  BY DEF IInv, Typed, RecordInv, RecordTyped, DiskInv, MarkInv, Records, RecordFollowsMemory
<1>2. QED
  BY <1>1, ActivityInvariance, PTL

\* A result that nobody has seen stays marked.
THEOREM ResultsAreMarked == ActivitySpec => []ResultsStayMarked
<1>1. IInv => ResultsStayMarked
  BY DEF IInv
<1>2. QED
  BY <1>1, ActivityInvariance, PTL

\* No step of the daemon replaces a title of the user's, but for a lapse.
THEOREM UserTitlesAreKept == ActivitySpec => UserTitlesStay
<1>1. ASSUME IInv, ActivityNext, title = "user", title' = "agent"
      PROVE  lapses \cap {"outdated", "overlap"} # {}
  <2>1. ASSUME NEW s \in saves, WriteRecord(s) PROVE "outdated" \in lapses
    <3>1. s.field = "title" /\ title' = s.value
      BY <1>1, <2>1 DEF WriteRecord, Titled
    <3>2. todo # <<>> /\ s.value = Head(todo).title
      BY <1>1, <3>1 DEF IInv, Typed, RecordInv, SavesInv
    <3>3. Head(todo) = todo[1] /\ 1 \in DOMAIN todo
      BY <1>1, <3>2, EmptySeq, LenProperties DEF IInv, Typed, RecordInv, RecordTyped
    <3>4. QED
      BY <1>1, <3>1, <3>2, <3>3 DEF IInv, Typed, RecordInv, TitleQueueInv
  <2>2. CASE Restart
    BY <1>1, <2>2 DEF Restart, Reload, IInv, Typed, RecordInv, DiskInv
  <2>3. CASE SavesRecord
    BY <1>1, <2>1, <2>3 DEF SavesRecord, Saving, Failing, SaveTitle, ReadRecord, SaveFails, Titled
  <2>4. QED
    BY <1>1, <2>2, <2>3 DEF ActivityNext, AgentStep, Does, Answers, Interrupts, Unreported, Delivery, Resumption, Loses,
       ArriveTitling, ArriveUntitled, AppliedAfterTitle, TimeToLivePasses, SweepStaleActivity,
       RefreshAgentActivity, Attach, Detach, UserRenames, Rename, record
<1>2. ASSUME IInv, [ActivityNext]_activityVars
      PROVE  [title = "user" /\ title' = "agent" => lapses \cap {"outdated", "overlap"} # {}]_title
  BY <1>1, <1>2 DEF activityVars, record
<1>3. QED
  BY <1>2, ActivityInvariance, PTL DEF ActivitySpec, UserTitlesStay
=============================================================================
