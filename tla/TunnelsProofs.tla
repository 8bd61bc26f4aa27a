---------------------------- MODULE TunnelsProofs ----------------------------
(***************************************************************************)
(* Proofs about Tunnels, for any number of sessions, services and ports.   *)
(*                                                                         *)
(* The inductive invariant IInv adds to the types which operations find    *)
(* their session without containers, that what runs is bound to ports of   *)
(* its own, that a route of a quiet session has the port of its compose    *)
(* file and a container that runs or stopped by itself, that hostnames     *)
(* have one owner, and that the server's table is what a rotation replays. *)
(***************************************************************************)
EXTENDS Tunnels, WellFoundedInduction, TLAPS

Entry == [port : Ports, host : Hosts \cup {None}]
HasFile(s) == file[s] \in [Services -> Entry]

Stages == {"idle", "begun", "released", "prepared", "retrying", "dropping"}

\* A table of active records; OneOwnerPerHostname says Unique(active).
IsTable(table) ==
  /\ DOMAIN table = Sessions
  /\ \A s \in Sessions :
       /\ DOMAIN table[s] \subseteq Services
       /\ \A v \in DOMAIN table[s] : table[s][v] \in Record

Unique(table) ==
  \A s, t \in Sessions : \A v \in DOMAIN table[s], w \in DOMAIN table[t] :
    table[s][v].host = table[t][w].host => s = t /\ v = w

RegistryTyped ==
  /\ server \in BOOLEAN /\ web \in BOOLEAN /\ policy \in Policies
  /\ IsTable(active)
  /\ failed \in [Sessions -> SUBSET Services]
  /\ \A s \in Sessions : failed[s] \cap DOMAIN active[s] = {}

DeployTyped ==
  /\ op \in [Sessions -> Stages]
  /\ excluded \in [Sessions -> SUBSET Ports]
  /\ attempt \in [Sessions -> 0..MaxAttempts - 1]
  /\ DOMAIN file = Sessions
  /\ \A s \in Sessions : file[s] = Empty \/ HasFile(s)
  /\ \A s \in Sessions : op[s] = "prepared" => HasFile(s)
  /\ running \subseteq Sessions \X Services /\ stopped \subseteq Sessions \X Services
  /\ running \cap stopped = {}
  /\ \A c \in running \cup stopped : HasFile(c[1])

\* Between the release of its ports and its end an operation finds no
\* container of its session.
Cleared ==
  \A c \in running \cup stopped :
    op[c[1]] \notin {"released", "prepared", "retrying", "dropping"}

\* A file gives each service a port of its own, and so does the host.
PortsDiffer ==
  /\ \A s \in Sessions : \A v, w \in Services :
       HasFile(s) /\ file[s][v].port = file[s][w].port => v = w
  /\ \A c, d \in running : file[c[1]][c[2]].port = file[d[1]][d[2]].port => c = d

\* A route has the port of the file when its `up` starts the containers, and
\* a container when its session is quiet.
Served ==
  \A s \in Sessions : \A v \in DOMAIN active[s] :
    op[s] \in {"idle", "prepared"} =>
      /\ HasFile(s) /\ active[s][v].port = file[s][v].port
      /\ op[s] = "idle" => <<s, v>> \in running \cup stopped

Registry == RegistryTyped /\ RoutesAreExact
Deploy == DeployTyped /\ Cleared /\ PortsDiffer

IInv == Registry /\ Deploy /\ Served

-----------------------------------------------------------------------------
(* Operators.                                                              *)

\* A set of naturals that is not empty has its least member.
LEMMA MinOfNats ==
  ASSUME NEW S \in SUBSET Nat, S # {}
  PROVE  Min(S) \in S
<1> DEFINE R == OpToRel(<, Nat)
<1>1. IsWellFoundedOn(R, Nat)
  BY NatLessThanWellFounded
<1>2. \A a, b \in Nat : a < b => <<a, b>> \in R
  BY DEF OpToRel
<1> HIDE DEF R
<1>3. PICK x \in S : \A y \in S : <<y, x>> \notin R
  BY <1>1, WFMin
<1>4. \A y \in S : x =< y
  <2> TAKE y \in S
  <2>1. x \in Nat /\ y \in Nat /\ ~(y < x)
    BY <1>2, <1>3
  <2>2. QED
    BY <2>1
<1>5. QED
  BY <1>4 DEF Min

\* What an overlay is, pointwise.
LEMMA WithFacts ==
  ASSUME NEW f, NEW g
  PROVE  /\ DOMAIN With(f, g) = DOMAIN f \cup DOMAIN g
         /\ \A k \in DOMAIN f : With(f, g)[k] = f[k]
         /\ \A k \in DOMAIN g \ DOMAIN f : With(f, g)[k] = g[k]
BY DEF With

\* A table routes exactly these records and, if it was published, the web UI.
Routes(table, records, w) ==
  /\ table = [h \in DOMAIN table |-> table[h]]
  /\ DOMAIN table = {r.host : r \in records} \cup DOMAIN Own(w)
  /\ \A r \in records : table[r.host] = [port |-> r.port, policy |-> r.policy]
  /\ \A h \in DOMAIN Own(w) : table[h] = Own(w)[h]

OneRecordEach(records) == \A r, q \in records : r.host = q.host => r = q

\* Only the web UI has a route of the daemon's own.
LEMMA OwnFacts ==
  ASSUME NEW w \in BOOLEAN
  PROVE  DOMAIN Own(w) = IF w THEN {WebHost} ELSE {}
BY DEF Own, WebRoute, Empty

\* When each hostname has one record, such a table is the one made of them.
LEMMA RoutesMeans ==
  ASSUME NEW records, NEW w \in BOOLEAN, NEW table,
         OneRecordEach(records), WebHost \notin {r.host : r \in records}
  PROVE  Routes(table, records, w) <=> table = With(RoutesOf(records), Own(w))
<1> DEFINE R == RoutesOf(records)
           T == With(R, Own(w))
<1>1. DOMAIN R = {r.host : r \in records}
  BY DEF RoutesOf
<1>2. \A r \in records : R[r.host] = [port |-> r.port, policy |-> r.policy]
  <2> TAKE r \in records
  <2>1. PICK q \in records :
          /\ q = CHOOSE p \in records : p.host = r.host
          /\ q.host = r.host
    OBVIOUS
  <2>2. q = r
    BY <2>1 DEF OneRecordEach
  <2>3. r.host \in {p.host : p \in records}
    OBVIOUS
  <2>4. R[r.host] = LET p == CHOOSE p \in records : p.host = r.host
                    IN [port |-> p.port, policy |-> p.policy]
    BY <2>3 DEF RoutesOf
  <2>5. QED
    BY <2>1, <2>2, <2>4
<1>3. DOMAIN R \cap DOMAIN Own(w) = {}
  BY <1>1, OwnFacts
<1> HIDE DEF R
<1>4. /\ DOMAIN T = DOMAIN R \cup DOMAIN Own(w)
      /\ \A k \in DOMAIN R : T[k] = R[k]
      /\ \A k \in DOMAIN Own(w) : T[k] = Own(w)[k]
  BY <1>3 DEF With
<1>5. T = [h \in DOMAIN T |-> T[h]]
  BY DEF With
<1> HIDE DEF T
<1>6. Routes(T, records, w)
  BY <1>1, <1>2, <1>4, <1>5 DEF Routes
<1>7. ASSUME Routes(table, records, w) PROVE table = T
  <2>1. DOMAIN table = DOMAIN T
    BY <1>6, <1>7 DEF Routes
  <2>2. \A h \in DOMAIN table : table[h] = T[h]
    <3> TAKE h \in DOMAIN table
    <3>1. CASE h \in DOMAIN Own(w)
      BY <3>1, <1>6, <1>7 DEF Routes
    <3>2. CASE h \in {r.host : r \in records}
      <4>1. PICK r \in records : h = r.host
        BY <3>2
      <4>2. T[h] = [port |-> r.port, policy |-> r.policy]
        BY <4>1, <1>6 DEF Routes
      <4>3. table[h] = [port |-> r.port, policy |-> r.policy]
        BY <4>1, <1>7 DEF Routes
      <4>4. QED
        BY <4>2, <4>3
    <3>3. QED
      BY <3>1, <3>2, <1>7 DEF Routes
  <2>3. table = [h \in DOMAIN table |-> table[h]] /\ T = [h \in DOMAIN T |-> T[h]]
    BY <1>6, <1>7 DEF Routes
  <2>4. QED
    BY <2>1, <2>2, <2>3
<1>8. QED
  BY <1>6, <1>7 DEF T, R

-----------------------------------------------------------------------------
(* Tables of active records and the routing tables that go with them.      *)

\* A record is some service's of some session.
LEMMA RecordsMeans ==
  ASSUME NEW table
  PROVE  \A r : r \in RecordsOf(table) <=>
                  \E s \in Sessions : \E v \in DOMAIN table[s] : r = table[s][v]
BY DEF RecordsOf, Range

\* The records of a table with one owner for each hostname.
LEMMA TableFacts ==
  ASSUME NEW table, IsTable(table), Unique(table)
  PROVE  /\ OneRecordEach(RecordsOf(table))
         /\ {r.host : r \in RecordsOf(table)} \subseteq Hosts
         /\ WebHost \notin {r.host : r \in RecordsOf(table)}
<1>1. OneRecordEach(RecordsOf(table))
  <2> SUFFICES ASSUME NEW r \in RecordsOf(table), NEW q \in RecordsOf(table), r.host = q.host
               PROVE  r = q
    BY DEF OneRecordEach
  <2>1. PICK s \in Sessions : \E v \in DOMAIN table[s] : r = table[s][v]
    BY RecordsMeans
  <2>2. PICK v \in DOMAIN table[s] : r = table[s][v]
    BY <2>1
  <2>3. PICK t \in Sessions : \E w \in DOMAIN table[t] : q = table[t][w]
    BY RecordsMeans
  <2>4. PICK w \in DOMAIN table[t] : q = table[t][w]
    BY <2>3
  <2>5. QED
    BY <2>2, <2>4 DEF Unique
<1>2. {r.host : r \in RecordsOf(table)} \subseteq Hosts
  <2>1. \A r \in RecordsOf(table) : r \in Record
    BY RecordsMeans DEF IsTable
  <2>2. QED
    BY <2>1 DEF Record
<1>3. WebHost \notin Hosts
  BY TunnelConstants
<1>4. QED
  BY <1>1, <1>2, <1>3

\* What the server routes after a replay, pointwise.
LEMMA ReplayMeans ==
  ASSUME NEW table, IsTable(table), Unique(table), NEW w \in BOOLEAN, NEW routed
  PROVE  Routes(routed, RecordsOf(table), w) <=> routed = With(RoutesOf(RecordsOf(table)), Own(w))
BY TableFacts, RoutesMeans

\* A session's records are dropped together with their routes.
LEMMA ResetTable ==
  ASSUME NEW table, IsTable(table), Unique(table), NEW s \in Sessions,
         NEW w \in BOOLEAN, NEW routed, Routes(routed, RecordsOf(table), w)
  PROVE  LET next == [table EXCEPT ![s] = Empty]
             own == {table[s][v].host : v \in DOMAIN table[s]}
         IN IsTable(next) /\ Unique(next) /\ Routes(Without(routed, own), RecordsOf(next), w)
<1> DEFINE next == [table EXCEPT ![s] = Empty]
           own == {table[s][v].host : v \in DOMAIN table[s]}
           left == Without(routed, own)
<1>1. /\ DOMAIN next = Sessions /\ DOMAIN next[s] = {}
      /\ \A t \in Sessions \ {s} : next[t] = table[t]
  BY DEF IsTable, Empty
<1>2. /\ left = [h \in DOMAIN left |-> left[h]]
      /\ DOMAIN left = DOMAIN routed \ own
      /\ \A h \in DOMAIN left : left[h] = routed[h]
  BY DEF Without
<1> HIDE DEF next, left
<1>3. \A r : r \in RecordsOf(next) <=>
               \E t \in Sessions \ {s} : \E v \in DOMAIN table[t] : r = table[t][v]
  <2>1. \A r : r \in RecordsOf(next) <=> \E t \in Sessions : \E v \in DOMAIN next[t] : r = next[t][v]
    BY RecordsMeans
  <2>2. QED
    BY <1>1, <2>1
<1>4. IsTable(next) /\ Unique(next)
  BY <1>1 DEF IsTable, Unique
<1>5. \A r \in RecordsOf(next) : r \in RecordsOf(table) /\ r.host \notin own
  BY <1>3, RecordsMeans DEF Unique
<1>6. \A r \in RecordsOf(table) : r.host \in own \/ r \in RecordsOf(next)
  BY <1>3, RecordsMeans
<1>7. own \cap DOMAIN Own(w) = {}
  <2>1. own \subseteq {r.host : r \in RecordsOf(table)}
    BY RecordsMeans
  <2>2. QED
    BY <2>1, OwnFacts, TableFacts
<1> HIDE DEF own
<1>8. DOMAIN left = {r.host : r \in RecordsOf(next)} \cup DOMAIN Own(w)
  BY <1>2, <1>5, <1>6, <1>7 DEF Routes
<1>9. Routes(left, RecordsOf(next), w)
  BY <1>2, <1>5, <1>8 DEF Routes
<1>10. QED
  BY <1>4, <1>9 DEF next, own, left

\* New records of a session without any, for hostnames without a route.
LEMMA ReopenTable ==
  ASSUME NEW table, IsTable(table), Unique(table), NEW s \in Sessions, table[s] = Empty,
         NEW w \in BOOLEAN, NEW routed, Routes(routed, RecordsOf(table), w),
         NEW records, DOMAIN records \subseteq Services,
         \A v \in DOMAIN records : records[v] \in Record /\ records[v].host \notin DOMAIN routed,
         \A v, u \in DOMAIN records : records[v].host = records[u].host => v = u,
         NEW next, DOMAIN next = Sessions, next[s] = records,
         \A t \in Sessions \ {s} : next[t] = table[t]
  PROVE  /\ IsTable(next) /\ Unique(next)
         /\ Routes(With(routed, RoutesOf(Range(records))), RecordsOf(next), w)
<1> DEFINE new == Range(records)
           R == RoutesOf(new)
           T == With(routed, R)
<1>1. /\ DOMAIN next = Sessions /\ next[s] = records
      /\ \A t \in Sessions \ {s} : next[t] = table[t]
  OBVIOUS
<1>2. DOMAIN table[s] = {}
  BY DEF Empty
<1>3. \A r : r \in RecordsOf(next) <=> r \in RecordsOf(table) \/ r \in new
  <2>1. \A r : r \in RecordsOf(next) <=> \E t \in Sessions : \E v \in DOMAIN next[t] : r = next[t][v]
    BY RecordsMeans
  <2>2. \A r : r \in RecordsOf(table) <=>
                 \E t \in Sessions \ {s} : \E v \in DOMAIN table[t] : r = table[t][v]
    BY <1>2, RecordsMeans
  <2>3. \A r : r \in new <=> \E v \in DOMAIN next[s] : r = next[s][v]
    BY <1>1 DEF Range
  <2> HIDE DEF new
  <2>4. QED
    BY <1>1, <2>1, <2>2, <2>3
<1>4. IsTable(next)
  BY <1>1 DEF IsTable
<1>5. \A t \in Sessions : \A v \in DOMAIN table[t] : table[t][v].host \in DOMAIN routed
  BY RecordsMeans DEF Routes
<1>6. Unique(next)
  BY <1>1, <1>5 DEF Unique
<1>7. DOMAIN R = {r.host : r \in new}
  BY DEF RoutesOf
<1>8. \A r \in new : R[r.host] = [port |-> r.port, policy |-> r.policy]
  <2>1. OneRecordEach(new) /\ WebHost \notin {r.host : r \in new}
    BY TunnelConstants DEF OneRecordEach, Record, Range
  <2>2. Routes(With(RoutesOf(new), Own(FALSE)), new, FALSE)
    BY <2>1, RoutesMeans
  <2> HIDE DEF new
  <2>3. \A r \in new : With(RoutesOf(new), Own(FALSE))[r.host] = RoutesOf(new)[r.host]
    <3> TAKE r \in new
    <3>1. r.host \in DOMAIN RoutesOf(new)
      BY <1>7
    <3>2. QED
      BY <3>1 DEF With
  <2>4. QED
    BY <2>2, <2>3 DEF Routes
<1>9. DOMAIN routed \cap DOMAIN R = {}
  <2>1. \A r \in new : r.host \notin DOMAIN routed
    BY DEF Range
  <2> HIDE DEF new, R
  <2>2. QED
    BY <1>7, <2>1
<1> HIDE DEF new, R
<1>10. /\ DOMAIN T = DOMAIN routed \cup DOMAIN R
       /\ \A h \in DOMAIN routed : T[h] = routed[h]
       /\ \A h \in DOMAIN R : T[h] = R[h]
       /\ T = [h \in DOMAIN T |-> T[h]]
  BY <1>9 DEF With
<1> HIDE DEF T
<1>11. DOMAIN T = {r.host : r \in RecordsOf(next)} \cup DOMAIN Own(w)
  BY <1>3, <1>7, <1>10 DEF Routes
<1>12. \A r \in RecordsOf(next) : T[r.host] = [port |-> r.port, policy |-> r.policy]
  <2> TAKE r \in RecordsOf(next)
  <2>1. CASE r \in RecordsOf(table)
    BY <2>1, <1>10 DEF Routes
  <2>2. CASE r \in new
    BY <2>2, <1>7, <1>8, <1>10
  <2>3. QED
    BY <2>1, <2>2, <1>3
<1>13. Routes(T, RecordsOf(next), w)
  BY <1>10, <1>11, <1>12 DEF Routes
<1>14. QED
  BY <1>4, <1>6, <1>13 DEF T, R, new

\* `open` gives each service a hostname of its own that has no route yet.
LEMMA OpenedFacts ==
  ASSUME NEW routed, NEW s \in Sessions, NEW ports \in [Services -> Ports], policy \in Policies
  PROVE  LET records == Opened(routed, s, ports)
         IN /\ DOMAIN records \subseteq Services
            /\ \A v \in DOMAIN records :
                 /\ records[v] \in Record /\ records[v].port = ports[v]
                 /\ records[v].host \notin DOMAIN routed
            /\ \A v, u \in DOMAIN records : records[v].host = records[u].host => v = u
<1> DEFINE records == Opened(routed, s, ports)
<1>1. \A v \in Services : Free(routed, s, v) \in SUBSET Nat
  BY TunnelConstants DEF Free
<1>2. ASSUME NEW v \in DOMAIN records
      PROVE  /\ records[v].host \in Hosts \ DOMAIN routed
             /\ records[v] = [host |-> records[v].host, port |-> ports[v], policy |-> policy]
             /\ records[v].host.service = v
  <2>1. v \in Services /\ Free(routed, s, v) # {}
    BY <1>2 DEF Opened
  <2>2. Min(Free(routed, s, v)) \in Free(routed, s, v)
    BY <2>1, <1>1, MinOfNats
  <2>3. AllocateHostname(routed, s, v) \in Hosts \ DOMAIN routed
    BY <2>1, <2>2 DEF AllocateHostname, Free, Hosts
  <2>4. AllocateHostname(routed, s, v).service = v
    BY DEF AllocateHostname
  <2>5. records[v] = [host |-> AllocateHostname(routed, s, v), port |-> ports[v], policy |-> policy]
    BY <2>1 DEF Opened
  <2>6. QED
    BY <2>3, <2>4, <2>5
<1>3. DOMAIN records \subseteq Services
  BY DEF Opened
<1> HIDE DEF records
<1>4. \A v \in DOMAIN records : records[v] \in Record /\ records[v].port = ports[v]
  BY <1>2, <1>3 DEF Record
<1>5. QED
  BY <1>2, <1>3, <1>4 DEF records

-----------------------------------------------------------------------------
(* The registry's operations.                                              *)

\* The server routes the records that the registry has, pointwise.
LEMMA ServerMeans ==
  ASSUME Registry
  PROVE  IF server THEN Routes(routes, RecordsOf(active), web) ELSE routes = Empty
<1>1. Unique(active)
  BY DEF Registry, RoutesAreExact, OneOwnerPerHostname, Unique
<1>2. CASE server
  <2>1. routes = With(RoutesOf(RecordsOf(active)), Own(web))
    BY <1>2 DEF Registry, RoutesAreExact, RegistryMatchesServer, Replayed, Records
  <2>2. IsTable(active) /\ web \in BOOLEAN
    BY DEF Registry, RegistryTyped
  <2>3. QED
    BY <1>1, <1>2, <2>1, <2>2, ReplayMeans
<1>3. CASE ~server
  BY <1>3 DEF Registry, RoutesAreExact, RegistryMatchesServer
<1>4. QED
  BY <1>2, <1>3

\* ... and a server that does has what a rotation replays.
LEMMA ServerRestored ==
  ASSUME RegistryTyped', Unique(active'),
         IF server' THEN Routes(routes', RecordsOf(active'), web') ELSE routes' = Empty
  PROVE  Registry'
<1>1. OneOwnerPerHostname'
  BY DEF OneOwnerPerHostname, Unique
<1>2. IsTable(active') /\ web' \in BOOLEAN
  BY DEF RegistryTyped
<1>3. server' => routes' = With(RoutesOf(RecordsOf(active')), Own(web'))
  BY <1>2, ReplayMeans
<1>4. QED
  BY <1>1, <1>3 DEF Registry, RoutesAreExact, RegistryMatchesServer, Replayed, Records

\* What does not touch the tables keeps them right.
LEMMA RegistryUnchanged ==
  ASSUME Registry, UNCHANGED <<server, routes, active, failed, web>>, policy' \in Policies
  PROVE  Registry'
BY DEF Registry, RegistryTyped, RoutesAreExact, RegistryMatchesServer, OneOwnerPerHostname,
       Replayed, Records

\* A reset drops one session's records and routes, and no others.
LEMMA ResetStep ==
  ASSUME Registry, NEW s \in Sessions, Reset(s), UNCHANGED <<server, web, policy>>
  PROVE  /\ Registry' /\ DOMAIN active'[s] = {}
         /\ \A t \in Sessions \ {s} : active'[t] = active[t]
<1>1. active' = [active EXCEPT ![s] = Empty] /\ routes' = Without(routes, HostsOf(s))
  BY DEF Reset, AfterReset
<1>2. IsTable(active) /\ Unique(active) /\ web \in BOOLEAN
  BY DEF Registry, RegistryTyped, RoutesAreExact, OneOwnerPerHostname, Unique
<1>3. /\ DOMAIN active'[s] = {}
      /\ \A t \in Sessions \ {s} : active'[t] = active[t]
  BY <1>1, <1>2 DEF IsTable, Empty
<1>4. IsTable(active') /\ Unique(active')
  BY <1>2, <1>3, <1>1 DEF IsTable, Unique
<1>5. RegistryTyped'
  BY <1>3, <1>4 DEF Registry, RegistryTyped, Reset
<1>6. CASE server
  <2>1. Routes(routes, RecordsOf(active), web)
    BY <1>6, ServerMeans
  <2>2. Routes(routes', RecordsOf(active'), web)
    BY <2>1, <1>1, <1>2, ResetTable DEF HostsOf
  <2>3. QED
    BY <1>3, <1>4, <1>5, <1>6, <2>2, ServerRestored
<1>7. CASE ~server
  <2>1. routes' = Empty
    BY <1>7, <1>1, ServerMeans DEF Without, Empty
  <2>2. QED
    BY <1>3, <1>4, <1>5, <1>7, <2>1, ServerRestored
<1>8. QED
  BY <1>6, <1>7 DEF Registry, RegistryTyped

\* A reopening gives one session routes on the ports it was allocated.
LEMMA ReopenStep ==
  ASSUME Registry, NEW s \in Sessions, NEW ports \in [Services -> Ports], server,
         Reopen(s, ports), UNCHANGED <<server, web, policy>>
  PROVE  /\ Registry'
         /\ \A v \in DOMAIN active'[s] : active'[s][v].port = ports[v]
         /\ \A t \in Sessions \ {s} : active'[t] = active[t]
<1> DEFINE table == [active EXCEPT ![s] = Empty]
           routed == AfterReset(s)
           records == Opened(routed, s, ports)
<1>1. IsTable(active) /\ Unique(active) /\ web \in BOOLEAN /\ policy \in Policies
  BY DEF Registry, RegistryTyped, RoutesAreExact, OneOwnerPerHostname, Unique
<1>2. Routes(routes, RecordsOf(active), web)
  BY ServerMeans
<1>3. IsTable(table) /\ Unique(table) /\ Routes(routed, RecordsOf(table), web)
  BY <1>1, <1>2, ResetTable DEF AfterReset, HostsOf
<1>4. table[s] = Empty /\ DOMAIN table = Sessions
  BY <1>1 DEF IsTable
<1>5. /\ DOMAIN records \subseteq Services
      /\ \A v \in DOMAIN records :
           /\ records[v] \in Record /\ records[v].port = ports[v]
           /\ records[v].host \notin DOMAIN routed
      /\ \A v, u \in DOMAIN records : records[v].host = records[u].host => v = u
  BY <1>1, OpenedFacts
<1>6. /\ routes' = With(routed, RoutesOf(Range(records)))
      /\ active' = [active EXCEPT ![s] = records]
      /\ failed' = [failed EXCEPT ![s] = Services \ DOMAIN records]
  BY DEF Reopen
<1>7. /\ active'[s] = records
      /\ \A t \in Sessions \ {s} : active'[t] = active[t]
  BY <1>1, <1>6 DEF IsTable
<1>8. DOMAIN active' = Sessions /\ \A t \in Sessions \ {s} : active'[t] = table[t]
  BY <1>1, <1>6 DEF IsTable
<1> HIDE DEF table, routed, records
<1>9. IsTable(active') /\ Unique(active') /\ Routes(routes', RecordsOf(active'), web)
  <2>1. \A v \in DOMAIN records : records[v] \in Record /\ records[v].host \notin DOMAIN routed
    BY <1>5
  <2>2. /\ IsTable(active') /\ Unique(active')
        /\ Routes(With(routed, RoutesOf(Range(records))), RecordsOf(active'), web)
    BY <2>1, <1>1, <1>3, <1>4, <1>5, <1>7, <1>8, ReopenTable
  <2>3. QED
    BY <2>2, <1>6
<1>10. RegistryTyped'
  BY <1>1, <1>5, <1>6, <1>7, <1>9 DEF Registry, RegistryTyped
<1>11. QED
  BY <1>5, <1>7, <1>9, <1>10, ServerRestored

-----------------------------------------------------------------------------
(* Steps of one session.                                                   *)

\* A session's containers are those with its name.
LEMMA MineMeans ==
  ASSUME NEW s \in Sessions, NEW c \in Sessions \X Services
  PROVE  /\ c \in Mine(s) <=> c[1] = s
         /\ c = <<c[1], c[2]>> /\ c[1] \in Sessions /\ c[2] \in Services
BY DEF Mine

\* Another session's routes are served as before.
LEMMA ServedStep ==
  ASSUME Served, NEW s \in Sessions,
         \A t \in Sessions \ {s} :
           op'[t] = op[t] /\ file'[t] = file[t] /\ active'[t] = active[t],
         \A t \in Sessions \ {s} : \A v \in Services :
           <<t, v>> \in running \cup stopped => <<t, v>> \in running' \cup stopped',
         IsTable(active),
         \A v \in DOMAIN active'[s] :
           op'[s] \in {"idle", "prepared"} =>
             /\ HasFile(s)' /\ active'[s][v].port = file'[s][v].port
             /\ op'[s] = "idle" => <<s, v>> \in running' \cup stopped'
  PROVE  Served'
<1> SUFFICES ASSUME NEW t \in Sessions, NEW v \in DOMAIN active'[t], op'[t] \in {"idle", "prepared"}
             PROVE  /\ HasFile(t)' /\ active'[t][v].port = file'[t][v].port
                    /\ op'[t] = "idle" => <<t, v>> \in running' \cup stopped'
  BY DEF Served
<1>1. CASE t = s
  BY <1>1
<1>2. CASE t # s
  BY <1>2 DEF Served, HasFile, IsTable
<1>3. QED
  BY <1>1, <1>2

\* A session without records serves nothing.
LEMMA ServesNothing ==
  ASSUME IInv, NEW s \in Sessions, Reset(s), UNCHANGED <<server, web, policy>>, file' = file,
         \A t \in Sessions \ {s} : op'[t] = op[t],
         \A t \in Sessions \ {s} : \A v \in Services :
           <<t, v>> \in running \cup stopped => <<t, v>> \in running' \cup stopped'
  PROVE  Registry' /\ Served'
<1>1. /\ Registry' /\ DOMAIN active'[s] = {}
      /\ \A t \in Sessions \ {s} : active'[t] = active[t]
  BY ResetStep DEF IInv
<1>2. IsTable(active)
  BY DEF IInv, Registry, RegistryTyped
<1>3. QED
  BY <1>1, <1>2, ServedStep DEF IInv

\* An `up` begins: the session serves nothing.
LEMMA BeginUpStep ==
  ASSUME IInv, NEW s \in Sessions, BeginUp(s)
  PROVE  IInv'
<1>1. Registry' /\ Served'
  BY ServesNothing DEF BeginUp, IInv, Deploy, DeployTyped
<1>2. DeployTyped'
  BY TunnelConstants DEF BeginUp, IInv, Deploy, DeployTyped, Stages, HasFile
<1>3. Cleared' /\ PortsDiffer'
  BY DEF BeginUp, IInv, Deploy, DeployTyped, Cleared, PortsDiffer, HasFile
<1>4. QED
  BY <1>1, <1>2, <1>3 DEF IInv, Deploy

\* Everything of the session is taken down, so it is cleared.
LEMMA ReleasePortsStep ==
  ASSUME IInv, NEW s \in Sessions, ReleasePorts(s)
  PROVE  IInv'
<1>1. Registry'
  BY RegistryUnchanged DEF ReleasePorts, registry, IInv, Registry, RegistryTyped
<1>2. DeployTyped'
  BY DEF ReleasePorts, IInv, Deploy, DeployTyped, Stages, HasFile
<1>3. Cleared'
  BY MineMeans DEF ReleasePorts, IInv, Deploy, DeployTyped, Cleared
<1>4. PortsDiffer'
  BY DEF ReleasePorts, IInv, Deploy, DeployTyped, PortsDiffer, HasFile
<1>5. Served'
  BY ServedStep DEF ReleasePorts, registry, Mine, IInv, Deploy, DeployTyped, Registry, RegistryTyped
<1>6. QED
  BY <1>1, <1>2, <1>3, <1>4, <1>5 DEF IInv, Deploy

\* The ports of the file are free, so what starts binds ports of its own.
LEMMA ComposeUpStep ==
  ASSUME IInv, NEW s \in Sessions, ComposeUp(s)
  PROVE  IInv'
<1>1. Registry'
  BY RegistryUnchanged DEF ComposeUp, registry, IInv, Registry, RegistryTyped
<1>2. DeployTyped'
  BY MineMeans DEF ComposeUp, End, IInv, Deploy, DeployTyped, Cleared, Stages, HasFile, Mine
<1>3. Cleared'
  BY MineMeans DEF ComposeUp, End, IInv, Deploy, DeployTyped, Cleared, Mine
<1>4. PortsDiffer'
  BY MineMeans DEF ComposeUp, Conflicts, Bound, IInv, Deploy, DeployTyped, PortsDiffer, HasFile, Mine
<1>5. Served'
  BY ServedStep DEF ComposeUp, End, registry, Mine, IInv, Deploy, DeployTyped, Registry, RegistryTyped,
     Served, IsTable, HasFile
<1>6. QED
  BY <1>1, <1>2, <1>3, <1>4, <1>5 DEF IInv, Deploy

\* A conflict changes no container; the ports given up are ports.
LEMMA ComposeConflictStep ==
  ASSUME IInv, NEW s \in Sessions, ComposeConflict(s)
  PROVE  IInv'
<1>1. Registry'
  BY RegistryUnchanged DEF ComposeConflict, registry, IInv, Registry, RegistryTyped
<1>2. DeployTyped'
  BY TunnelConstants DEF ComposeConflict, Conflicts, IInv, Deploy, DeployTyped, Stages, HasFile, Entry
<1>3. Cleared' /\ PortsDiffer'
  BY DEF ComposeConflict, IInv, Deploy, DeployTyped, Cleared, PortsDiffer, HasFile
<1>4. Served'
  BY ServedStep DEF ComposeConflict, registry, IInv, Deploy, DeployTyped, Registry, RegistryTyped
<1>5. QED
  BY <1>1, <1>2, <1>3, <1>4 DEF IInv, Deploy

\* A file gives each service a port from those that are free.
LEMMA AllocationsFacts ==
  ASSUME NEW s \in Sessions, NEW ports \in Allocations(s)
  PROVE  /\ ports \in [Services -> Ports]
         /\ \A v, w \in Services : ports[v] = ports[w] => v = w
BY DEF Allocations

\* The file and the routes get the same ports while nothing of the session runs.
LEMMA PrepareStep ==
  ASSUME IInv, NEW s \in Sessions, Prepare(s)
  PROVE  IInv'
<1> PICK ports \in Allocations(s), tunnels \in BOOLEAN :
      /\ IF tunnels /\ server THEN Reopen(s, ports) ELSE Reset(s)
      /\ file' = [file EXCEPT ![s] = Labelled(ports, active'[s])]
  BY DEF Prepare
<1>1. /\ ports \in [Services -> Ports]
      /\ \A v, w \in Services : ports[v] = ports[w] => v = w
  BY AllocationsFacts
<1>2. /\ Registry'
      /\ \A v \in DOMAIN active'[s] : active'[s][v].port = ports[v]
      /\ \A t \in Sessions \ {s} : active'[t] = active[t]
  <2>1. CASE tunnels /\ server
    BY <1>1, <2>1, ReopenStep DEF Prepare, IInv
  <2>2. CASE ~(tunnels /\ server)
    BY <2>2, ResetStep DEF Prepare, IInv
  <2>3. QED
    BY <2>1, <2>2
<1>3. IsTable(active) /\ IsTable(active')
  BY <1>2 DEF IInv, Registry, RegistryTyped
<1>4. /\ HasFile(s)' /\ DOMAIN file' = Sessions
      /\ \A v \in Services : file'[s][v].port = ports[v]
      /\ \A t \in Sessions \ {s} : file'[t] = file[t]
  <2> DEFINE new == Labelled(ports, active'[s])
  <2>1. new \in [Services -> Entry]
    BY <1>1, <1>3 DEF Labelled, Entry, IsTable, Record
  <2>2. \A v \in Services : new[v].port = ports[v]
    BY DEF Labelled
  <2> HIDE DEF new
  <2>3. file' = [file EXCEPT ![s] = new]
    BY DEF new
  <2>4. QED
    BY <2>1, <2>2, <2>3 DEF IInv, Deploy, DeployTyped, HasFile
<1>5. \A c \in running \cup stopped : c[1] \in Sessions \ {s}
  BY MineMeans DEF Prepare, IInv, Deploy, DeployTyped, Cleared
<1>6. DeployTyped'
  BY <1>4, <1>5 DEF Prepare, IInv, Deploy, DeployTyped, Stages, HasFile
<1>7. Cleared'
  BY <1>5 DEF Prepare, IInv, Deploy, DeployTyped, Cleared
<1>8. PortsDiffer'
  BY <1>1, <1>4, <1>5 DEF Prepare, IInv, Deploy, DeployTyped, PortsDiffer, HasFile
<1>9. Served'
  BY <1>2, <1>3, <1>4, ServedStep DEF Prepare, IInv, Deploy, DeployTyped, IsTable
<1>10. QED
  BY <1>2, <1>6, <1>7, <1>8, <1>9 DEF IInv, Deploy

\* A failed `up` leaves containers on ports of their own, and no route.
LEMMA UpFailsStep ==
  ASSUME IInv, NEW s \in Sessions, UpFails(s)
  PROVE  IInv'
<1>1. PICK started \in SUBSET (IF op[s] = "prepared" THEN Services \ Conflicts(s) ELSE {}) :
        running' = running \cup ({s} \X started)
  BY DEF UpFails
<1>2. started \subseteq Services /\ (started # {} => op[s] = "prepared" /\ HasFile(s))
  BY <1>1 DEF IInv, Deploy, DeployTyped
<1>3. \A c \in running' : c \in running \/ (c[1] = s /\ c[2] \in started /\ c = <<s, c[2]>>)
  BY <1>1
<1>4. Registry' /\ Served'
  BY <1>1, ServesNothing DEF UpFails, End, IInv, Deploy, DeployTyped
<1>5. DeployTyped'
  BY <1>1, <1>2, <1>3, MineMeans
     DEF UpFails, End, IInv, Deploy, DeployTyped, Cleared, Stages, HasFile
<1>6. Cleared'
  BY <1>1, <1>2, <1>3, MineMeans DEF UpFails, End, IInv, Deploy, DeployTyped, Cleared
<1>7. PortsDiffer'
  <2>1. \A v \in started : v \in Services /\ file[s][v].port \notin Bound
    BY <1>1, <1>2 DEF Conflicts
  <2>2. QED
    BY <1>2, <1>3, <2>1 DEF UpFails, Bound, IInv, Deploy, DeployTyped, PortsDiffer, HasFile
<1>8. QED
  BY <1>4, <1>5, <1>6, <1>7 DEF IInv, Deploy

\* A `down` takes everything down; its routes need nothing until they are dropped.
LEMMA DownContainersStep ==
  ASSUME IInv, NEW s \in Sessions, DownContainers(s)
  PROVE  IInv'
<1>1. Registry'
  BY RegistryUnchanged DEF DownContainers, registry, IInv, Registry, RegistryTyped
<1>2. DeployTyped'
  BY DEF DownContainers, IInv, Deploy, DeployTyped, Stages, HasFile
<1>3. Cleared'
  BY MineMeans DEF DownContainers, IInv, Deploy, DeployTyped, Cleared
<1>4. PortsDiffer'
  BY DEF DownContainers, IInv, Deploy, DeployTyped, PortsDiffer, HasFile
<1>5. Served'
  BY ServedStep DEF DownContainers, registry, Mine, IInv, Deploy, DeployTyped, Registry, RegistryTyped
<1>6. QED
  BY <1>1, <1>2, <1>3, <1>4, <1>5 DEF IInv, Deploy

\* ... and they are.
LEMMA DropRoutesStep ==
  ASSUME IInv, NEW s \in Sessions, DropRoutes(s)
  PROVE  IInv'
<1>1. Registry' /\ Served'
  BY ServesNothing DEF DropRoutes, End, IInv, Deploy, DeployTyped
<1>2. DeployTyped'
  BY DEF DropRoutes, End, IInv, Deploy, DeployTyped, Stages, HasFile
<1>3. Cleared' /\ PortsDiffer'
  BY DEF DropRoutes, End, IInv, Deploy, DeployTyped, Cleared, PortsDiffer, HasFile
<1>4. QED
  BY <1>1, <1>2, <1>3 DEF IInv, Deploy

\* Containers that stop without a `down` are remembered as stopped.
LEMMA HaltStep ==
  ASSUME IInv, NEW s \in Sessions, Idle(s), NEW halted \in SUBSET running,
         running' = running \ halted, stopped' = stopped \cup halted,
         UNCHANGED <<registry, op, excluded, attempt, file>>
  PROVE  IInv'
<1>1. Registry'
  BY RegistryUnchanged DEF registry, IInv, Registry, RegistryTyped
<1>2. DeployTyped' /\ Cleared' /\ PortsDiffer'
  BY DEF IInv, Deploy, DeployTyped, Cleared, PortsDiffer, HasFile
<1>3. Served'
  BY DEF registry, IInv, Served, HasFile
<1>4. QED
  BY <1>1, <1>2, <1>3 DEF IInv, Deploy

\* A container that stopped starts again on a port that is still free.
LEMMA ContainerStartsStep ==
  ASSUME IInv, NEW s \in Sessions, NEW v \in Services, ContainerStarts(s, v)
  PROVE  IInv'
<1>1. Registry'
  BY RegistryUnchanged DEF ContainerStarts, registry, IInv, Registry, RegistryTyped
<1>2. DeployTyped' /\ Cleared'
  BY DEF ContainerStarts, IInv, Deploy, DeployTyped, Cleared, HasFile
<1>3. PortsDiffer'
  BY DEF ContainerStarts, Bound, IInv, Deploy, PortsDiffer, HasFile
<1>4. Served'
  BY DEF ContainerStarts, registry, IInv, Served, HasFile
<1>5. QED
  BY <1>1, <1>2, <1>3, <1>4 DEF IInv, Deploy

-----------------------------------------------------------------------------
(* Steps of the daemon.                                                    *)

\* The deployments are as before.
LEMMA DeployUnchanged ==
  ASSUME IInv, UNCHANGED deploy, active' = active
  PROVE  Deploy' /\ Served'
BY DEF deploy, IInv, Deploy, DeployTyped, Cleared, PortsDiffer, Served, HasFile

\* The whitelist of later routes changes no record.
LEMMA SetServiceRoutePolicyStep ==
  ASSUME IInv, NEW p \in Policies, SetServiceRoutePolicy(p)
  PROVE  IInv'
<1>1. Registry'
  BY RegistryUnchanged DEF SetServiceRoutePolicy, IInv
<1>2. QED
  BY <1>1, DeployUnchanged DEF SetServiceRoutePolicy, IInv

\* A replay serves what is active, a failed bind nothing.
LEMMA RotationStep ==
  ASSUME IInv, RotateTunnelListener \/ RotationFailsToBind
  PROVE  IInv'
<1> USE DEF RotateTunnelListener, RotationFailsToBind
<1>1. RegistryTyped' /\ OneOwnerPerHostname'
  BY DEF IInv, Registry, RegistryTyped, RoutesAreExact, OneOwnerPerHostname
<1>2. RegistryMatchesServer'
  BY DEF RegistryMatchesServer, Replayed, Records
<1>3. QED
  BY <1>1, <1>2, DeployUnchanged DEF IInv, Registry, RoutesAreExact

\* A daemon without a server restores nothing.
LEMMA NothingRestored ==
  RoutesOf(RecordsOf(Restored({}))) = Empty
<1>1. \A s \in Sessions : DOMAIN Restored({})[s] = {}
  BY DEF Restored
<1>2. RecordsOf(Restored({})) = {}
  BY <1>1, RecordsMeans
<1>3. QED
  BY <1>2 DEF RoutesOf, Empty

\* What is restored runs, on the port and under the hostname of its label.
LEMMA RestoredFacts ==
  ASSUME IInv, NEW won \in Winners
  PROVE  /\ IsTable(Restored(won)) /\ Unique(Restored(won))
         /\ \A s \in Sessions : \A v \in DOMAIN Restored(won)[s] :
              <<s, v>> \in running /\ Restored(won)[s][v].port = file[s][v].port
<1>1. won \subseteq Restorable /\ \A c, d \in won : LabelOf(c) = LabelOf(d) => c = d
  BY DEF Winners
<1> DEFINE table == Restored(won)
<1>2. /\ DOMAIN table = Sessions
      /\ \A s \in Sessions : \A v \in DOMAIN table[s] :
           /\ v \in Services /\ <<s, v>> \in won
           /\ table[s][v] = [host |-> file[s][v].host, port |-> file[s][v].port, policy |-> policy]
  BY DEF Restored
<1> HIDE DEF table
<1>3. \A s \in Sessions : \A v \in DOMAIN table[s] :
        /\ <<s, v>> \in running /\ file[s][v] \in Entry /\ file[s][v].host # None
        /\ LabelOf(<<s, v>>) = file[s][v].host
  <2> TAKE s \in Sessions
  <2> TAKE v \in DOMAIN table[s]
  <2>1. v \in Services /\ <<s, v>> \in running /\ file[s][v].host # None
    BY <1>1, <1>2 DEF Restorable
  <2>2. <<s, v>>[1] = s /\ <<s, v>>[2] = v
    OBVIOUS
  <2>3. HasFile(s)
    BY <2>1, <2>2 DEF IInv, Deploy, DeployTyped
  <2>4. QED
    BY <2>1, <2>3 DEF HasFile, LabelOf
<1>4. IsTable(table)
  <2>1. ASSUME NEW s \in Sessions, NEW v \in DOMAIN table[s] PROVE table[s][v] \in Record
    <3>1. file[s][v].host \in Hosts /\ file[s][v].port \in Ports /\ policy \in Policies
      BY <1>3 DEF Entry, IInv, Registry, RegistryTyped
    <3>2. table[s][v] = [host |-> file[s][v].host, port |-> file[s][v].port, policy |-> policy]
      BY <1>2
    <3>3. QED
      BY <3>1, <3>2 DEF Record
  <2>2. QED
    BY <2>1, <1>2 DEF IsTable
<1>5. Unique(table)
  <2> SUFFICES ASSUME NEW s \in Sessions, NEW t \in Sessions,
                      NEW v \in DOMAIN table[s], NEW w \in DOMAIN table[t],
                      table[s][v].host = table[t][w].host
               PROVE  s = t /\ v = w
    BY DEF Unique
  <2>1. file[s][v].host = file[t][w].host
    <3>1. /\ table[s][v] = [host |-> file[s][v].host, port |-> file[s][v].port, policy |-> policy]
          /\ table[t][w] = [host |-> file[t][w].host, port |-> file[t][w].port, policy |-> policy]
      BY <1>2
    <3>2. QED
      BY <3>1
  <2>2. <<s, v>> = <<t, w>>
    <3>1. LabelOf(<<s, v>>) = LabelOf(<<t, w>>)
      BY <2>1, <1>3
    <3>2. <<s, v>> \in won /\ <<t, w>> \in won
      BY <1>2
    <3>3. QED
      BY <3>1, <3>2, <1>1
  <2>3. QED
    BY <2>2
<1>6. QED
  BY <1>2, <1>3, <1>4, <1>5 DEF table

\* A restart: the compose commands under way start what finds its port free.
LEMMA RestartStep ==
  ASSUME IInv, Restart
  PROVE  IInv'
<1>2. PICK more \in Completions : running' = running \cup more
  BY DEF Restart
<1>3. /\ \A c \in more : /\ c \in Sessions \X Services /\ op[c[1]] = "prepared" /\ HasFile(c[1])
                        /\ file[c[1]][c[2]].port \notin Bound
      /\ \A c, d \in more : file[c[1]][c[2]].port = file[d[1]][d[2]].port => c = d
  BY DEF Completions, Conflicts, IInv, Deploy, DeployTyped
<1>4. PICK won \in Winners :
        LET kept == IF server' THEN won ELSE {}
        IN /\ active' = Restored(kept)
           /\ failed' = [t \in Sessions |-> {v \in Services : <<t, v>> \in Restorable \ kept}]
           /\ routes' = With(RoutesOf(RecordsOf(Restored(kept))), Own(server'))
  BY DEF Restart
<1> DEFINE kept == IF server' THEN won ELSE {}
<1>5. kept \in Winners \/ kept = {}
  OBVIOUS
<1>6. /\ active' = Restored(kept)
      /\ failed' = [t \in Sessions |-> {v \in Services : <<t, v>> \in Restorable \ kept}]
      /\ routes' = With(RoutesOf(RecordsOf(Restored(kept))), Own(server'))
      /\ ~server' => kept = {}
  BY <1>4
<1> HIDE DEF kept
<1>7. /\ IsTable(active') /\ Unique(active')
      /\ \A t \in Sessions : \A v \in DOMAIN active'[t] :
           <<t, v>> \in running /\ <<t, v>> \in kept /\ active'[t][v].port = file[t][v].port
  <2>1. \A t \in Sessions : \A v \in DOMAIN active'[t] : <<t, v>> \in kept
    BY <1>6 DEF Restored
  <2>2. CASE kept \in Winners
    BY <1>6, <2>1, <2>2, RestoredFacts
  <2>3. CASE kept = {}
    BY <1>6, <2>1, <2>3 DEF Restored, IsTable, Unique
  <2>4. QED
    BY <1>5, <2>2, <2>3
<1>8. Registry'
  <2>1. server' \in BOOLEAN /\ web' = server' /\ policy' = policy
    BY DEF Restart
  <2>2. failed' \in [Sessions -> SUBSET Services]
    BY <1>6
  <2>3. \A t \in Sessions : failed'[t] \cap DOMAIN active'[t] = {}
    BY <1>6, <1>7
  <2>4. RegistryTyped'
    BY <2>1, <2>2, <2>3, <1>7 DEF IInv, Registry, RegistryTyped
  <2>5. OneOwnerPerHostname'
    BY <1>7 DEF OneOwnerPerHostname, Unique
  <2>6. RegistryMatchesServer'
    <3>1. CASE server'
      BY <3>1, <2>1, <1>6 DEF RegistryMatchesServer, Replayed, Records
    <3>2. CASE ~server'
      <4>1. routes' = With(Empty, Own(FALSE))
        BY <3>2, <2>1, <1>6, NothingRestored
      <4>2. routes' = Empty
        BY <4>1 DEF With, Own, Empty
      <4>3. QED
        BY <3>2, <4>2 DEF RegistryMatchesServer
    <3>3. QED
      BY <3>1, <3>2
  <2>7. QED
    BY <2>4, <2>5, <2>6 DEF Registry, RoutesAreExact
<1>9. running' = running \cup more /\ UNCHANGED <<file, stopped>> /\ op' = [t \in Sessions |-> "idle"]
  BY <1>2 DEF Restart
<1>10. DeployTyped'
  <2>1. running' \cap stopped = {}
    BY <1>3, <1>9, MineMeans DEF IInv, Deploy, DeployTyped, Cleared
  <2>2. attempt' \in [Sessions -> 0..MaxAttempts - 1]
    BY TunnelConstants DEF Restart
  <2>3. QED
    BY <1>3, <1>9, <2>1, <2>2 DEF Restart, IInv, Deploy, DeployTyped, Stages, HasFile
<1>11. Cleared'
  BY <1>9, <1>10, MineMeans DEF Cleared, DeployTyped
<1>12. PortsDiffer'
  <2>1. \A c \in running : file[c[1]][c[2]].port \in Bound
    BY DEF Bound
  <2>2. ASSUME NEW c \in running', NEW d \in running', file[c[1]][c[2]].port = file[d[1]][d[2]].port
        PROVE  c = d
    BY <1>3, <1>9, <2>1, <2>2 DEF IInv, Deploy, PortsDiffer
  <2>3. QED
    BY <1>9, <2>2 DEF IInv, Deploy, PortsDiffer, HasFile
<1>13. Served'
  BY <1>2, <1>7 DEF Restart, Served, HasFile, IInv, Deploy, DeployTyped
<1>14. QED
  BY <1>8, <1>10, <1>11, <1>12, <1>13 DEF IInv, Deploy

-----------------------------------------------------------------------------
(* The theorems.                                                           *)

\* The invariant holds before the first `up`.
LEMMA InitIInv == Init => IInv
<1> SUFFICES ASSUME Init PROVE IInv
  OBVIOUS
<1> USE TunnelConstants DEF Init
<1>1. IsTable(active) /\ \A s \in Sessions : DOMAIN active[s] = {}
  BY DEF IsTable, Empty
<1>2. RegistryTyped /\ OneOwnerPerHostname
  BY <1>1 DEF RegistryTyped, OneOwnerPerHostname
<1>3. RegistryMatchesServer
  <2>1. RecordsOf(active) = {}
    BY <1>1, RecordsMeans
  <2>2. RoutesOf(RecordsOf(active)) = Empty
    BY <2>1 DEF RoutesOf, Empty
  <2>3. QED
    BY <2>2 DEF RegistryMatchesServer, Replayed, Records, With, Own, WebRoute, Empty
<1>4. DeployTyped
  BY DEF DeployTyped, Stages
<1>5. Cleared /\ PortsDiffer
  BY DEF Cleared, PortsDiffer, HasFile, Empty
<1>6. Served
  BY <1>1 DEF Served
<1>7. QED
  BY <1>2, <1>3, <1>4, <1>5, <1>6 DEF IInv, Registry, RoutesAreExact, Deploy

\* Every step of every session and of the daemon keeps the invariant.
LEMMA NextIInv == IInv /\ [Next]_vars => IInv'
<1> SUFFICES ASSUME IInv, [Next]_vars PROVE IInv'
  OBVIOUS
<1>1. ASSUME NEW s \in Sessions,
             \/ BeginUp(s) \/ ReleasePorts(s) \/ Prepare(s)
             \/ ComposeUp(s) \/ ComposeConflict(s) \/ UpFails(s)
             \/ DownContainers(s) \/ DropRoutes(s)
      PROVE  IInv'
  BY <1>1, BeginUpStep, ReleasePortsStep, PrepareStep, ComposeUpStep, ComposeConflictStep,
     UpFailsStep, DownContainersStep, DropRoutesStep
<1>2. ASSUME NEW s \in Sessions, DownFails(s) PROVE IInv'
  <2>1. PICK halted \in SUBSET (running \cap Mine(s)) \ {{}} :
          running' = running \ halted /\ stopped' = stopped \cup halted
    BY <1>2 DEF DownFails
  <2>2. halted \in SUBSET running
    OBVIOUS
  <2>3. QED
    BY <1>2, <2>1, <2>2, HaltStep DEF DownFails
<1>3. ASSUME NEW s \in Sessions, NEW v \in Services, ContainerStops(s, v) PROVE IInv'
  <2>1. {<<s, v>>} \in SUBSET running
    BY <1>3 DEF ContainerStops
  <2>2. QED
    BY <1>3, <2>1, HaltStep DEF ContainerStops
<1>4. ASSUME NEW s \in Sessions, NEW v \in Services, ContainerStarts(s, v) PROVE IInv'
  BY <1>4, ContainerStartsStep
<1>5. ASSUME NEW p \in Policies, SetServiceRoutePolicy(p) PROVE IInv'
  BY <1>5, SetServiceRoutePolicyStep
<1>6. CASE RotateTunnelListener \/ RotationFailsToBind
  BY <1>6, RotationStep
<1>7. CASE Restart
  BY <1>7, RestartStep
<1>8. CASE UNCHANGED vars
  <2>1. Registry'
    BY <1>8, RegistryUnchanged DEF vars, registry, IInv, Registry, RegistryTyped
  <2>2. QED
    BY <1>8, <2>1, DeployUnchanged DEF vars, registry, IInv
<1>9. QED
  BY <1>1, <1>2, <1>3, <1>4, <1>5, <1>6, <1>7, <1>8 DEF Next

\* The inductive invariant, for any number of sessions, services and ports.
THEOREM TunnelInvariance == Spec => []IInv
<1>1. QED
  BY InitIInv, NextIInv, PTL DEF Spec

\* Every variable keeps its type, and a container has a compose file
\* (runUpProgram writes it before it starts anything).
THEOREM TunnelTypes == Spec => []TypeOK
<1>1. IInv => TypeOK
  <2> SUFFICES ASSUME IInv PROVE TypeOK
    OBVIOUS
  <2>1. DOMAIN routes \subseteq Hosts \cup {WebHost}
    <3>1. IsTable(active) /\ Unique(active) /\ web \in BOOLEAN
      BY DEF IInv, Registry, RegistryTyped, RoutesAreExact, OneOwnerPerHostname, Unique
    <3>2. CASE server
      BY <3>1, <3>2, ServerMeans, TableFacts, OwnFacts DEF IInv, Routes
    <3>3. CASE ~server
      BY <3>3, ServerMeans DEF IInv, Empty
    <3>4. QED
      BY <3>2, <3>3
  <2>2. \A c \in running \cup stopped : file[c[1]] # Empty
    BY MineMeans DEF IInv, Deploy, DeployTyped, HasFile, Empty
  <2>3. QED
    BY <2>1, <2>2
       DEF TypeOK, IInv, Registry, RegistryTyped, IsTable, Deploy, DeployTyped, Stages, HasFile, Entry
<1>2. QED
  BY <1>1, TunnelInvariance, PTL

\* The server routes what the registry has, each hostname to one service.
THEOREM RoutingIsExact == Spec => []RoutesAreExact
<1>1. IInv => RoutesAreExact
  BY DEF IInv, Registry
<1>2. QED
  BY <1>1, TunnelInvariance, PTL

\* A public hostname of a quiet session whose container runs leads to it.
THEOREM TrafficIsHome == Spec => []TrafficStaysHome
<1>1. IInv => TrafficStaysHome
  <2> SUFFICES ASSUME IInv, NEW s \in Sessions, NEW v \in DOMAIN active[s], NEW c \in running,
                      active[s][v].port = file[c[1]][c[2]].port, c # <<s, v>>, Idle(s)
               PROVE  <<s, v>> \in stopped
    BY DEF TrafficStaysHome
  <2>1. active[s][v].port = file[s][v].port /\ <<s, v>> \in running \cup stopped
    BY DEF Idle, IInv, Served
  <2>2. <<s, v>> \notin running
    BY <2>1 DEF IInv, Deploy, PortsDiffer
  <2>3. QED
    BY <2>1, <2>2
<1>2. QED
  BY <1>1, TunnelInvariance, PTL
=============================================================================
