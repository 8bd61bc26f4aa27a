------------------------------ MODULE Tunnels ------------------------------
(***************************************************************************)
(* Public routes to the services of worktree sessions: the daemon's tunnel *)
(* registry and its server (tunnel-registry.ts, tunnel.ts), the host ports *)
(* an `up` allocates and retries (port-allocator.ts, up-program.ts), the   *)
(* routes rebuilt from compose labels after a daemon restart               *)
(* (tunnel-restoration.ts), and the listener replaced when its certificate *)
(* is renewed (acme/rotation.ts).                                          *)
(*                                                                         *)
(* A service stands for its one published container port, the registry's   *)
(* key `service:containerPort`.  Every operation of the registry runs      *)
(* without a real wait, and so does a rotation with the built-in server    *)
(* (its awaits are on functions that are synchronous inside): each is one  *)
(* step.  An `up` and a `down` wait for Docker between their steps.        *)
(***************************************************************************)
EXTENDS Naturals, FiniteSetsExt, Functions

CONSTANTS
  Sessions, Services, Ports,
  NameOf,       \* the base name of a session's worktree; sessions may share it
  MaxSuffix,    \* how many hostnames are tried for a service (10000 in the code)
  Policies,     \* whitelists a service route may be given
  WebHost, WebPort,      \* the route that publishes the daemon's own web UI
  MaxAttempts,  \* compose attempts of one `up`
  MaxUps, MaxRotations, MaxRestarts, MaxStops,   \* bounds
  None

Hosts == [name : {NameOf[s] : s \in Sessions}, suffix : 1..MaxSuffix, service : Services]

ASSUME TunnelConstants ==
  /\ NameOf \in [Sessions -> {NameOf[s] : s \in Sessions}]
  /\ {MaxSuffix, MaxAttempts} \subseteq Nat \ {0}
  /\ {MaxUps, MaxRotations, MaxRestarts, MaxStops} \subseteq Nat
  /\ WebHost \notin Hosts /\ None \notin Hosts /\ WebPort \notin Ports

VARIABLES
  server,    \* whether a tunnel server is attached to the registry
  routes,    \* its routing table: host -> [port, policy]
  active,    \* per session, the active records: service -> [host, port, policy]
  failed,    \* per session, the services with a failed record
  web,       \* the registry knows the route of the web UI
  policy,    \* the whitelist given to service routes from now on
  op,        \* the mutating operation of each session, and where it stands
  excluded,  \* per session, the ports an `up` gave up on after a conflict
  attempt,   \* per session, the compose attempts of the `up` so far
  file,      \* per session, the compose file: service -> [port, host]
  running,   \* the services whose container runs, on the port of the file
  stopped,   \* the services whose container stopped without a `down`
  count      \* bounds: ups, rotations, restarts, stops so far

registry == <<server, routes, active, failed, web, policy>>
deploy   == <<op, excluded, attempt, file, running, stopped>>
vars     == <<registry, deploy, count>>

Empty == [key \in {} |-> key]
Without(f, keys) == [k \in DOMAIN f \ keys |-> f[k]]
With(f, g) == [k \in DOMAIN f \cup DOMAIN g |-> IF k \in DOMAIN f THEN f[k] ELSE g[k]]
Spend(what) == count' = [count EXCEPT ![what] = @ + 1]

(***************************************************************************)
(* Host ports.  A port is available when no container is bound to it; a    *)
(* service keeps the port it had when it can.                              *)
(***************************************************************************)
Mine(s) == {s} \X Services
Bound == {file[c[1]][c[2]].port : c \in running}

Reusable(s, v) == v \in DOMAIN file[s] /\ file[s][v].port \notin Bound \cup excluded[s]

\* Which free port any other service gets depends on a hash of its name.
Allocations(s) ==
  {f \in [Services -> Ports \ (Bound \cup excluded[s])] :
     /\ \A v, w \in Services : f[v] = f[w] => v = w
     /\ \A v \in Services : Reusable(s, v) => f[v] = file[s][v].port}

(***************************************************************************)
(* The registry's operations.                                              *)
(***************************************************************************)
HostsOf(s) == {active[s][v].host : v \in DOMAIN active[s]}

RoutesOf(records) ==
  [h \in {r.host : r \in records} |->
     LET r == CHOOSE r \in records : r.host = h IN [port |-> r.port, policy |-> r.policy]]

AfterReset(s) == Without(routes, HostsOf(s))

Reset(s) ==
  /\ routes' = AfterReset(s)
  /\ active' = [active EXCEPT ![s] = Empty]
  /\ failed' = [failed EXCEPT ![s] = {}]

Free(table, s, v) ==
  {i \in 1..MaxSuffix : [name |-> NameOf[s], suffix |-> i, service |-> v] \notin DOMAIN table}

AllocateHostname(table, s, v) ==
  [name |-> NameOf[s], suffix |-> Min(Free(table, s, v)), service |-> v]

\* One `open` per service.  Hostnames of different services differ, so the
\* order of the calls is immaterial; without a free one the record is failed.
Opened(table, s, ports) ==
  [v \in {v \in Services : Free(table, s, v) # {}} |->
     [host |-> AllocateHostname(table, s, v), port |-> ports[v], policy |-> policy]]

Reopen(s, ports) ==
  LET records == Opened(AfterReset(s), s, ports)
  IN /\ routes' = With(AfterReset(s), RoutesOf(Range(records)))
     /\ active' = [active EXCEPT ![s] = records]
     /\ failed' = [failed EXCEPT ![s] = Services \ DOMAIN records]

(***************************************************************************)
(* `up`: reset, release the ports of the last deployment, allocate ports,  *)
(* open the tunnels and write the compose file, start the containers; on a *)
(* port conflict take everything down and allocate again.                  *)
(***************************************************************************)
Idle(s) == op[s] = "idle"
End(s) == op' = [op EXCEPT ![s] = "idle"]

BeginUp(s) ==
  /\ Idle(s) /\ count.ups < MaxUps
  /\ Spend("ups")
  /\ Reset(s)
  /\ op' = [op EXCEPT ![s] = "begun"]
  /\ excluded' = [excluded EXCEPT ![s] = {}]
  /\ attempt' = [attempt EXCEPT ![s] = 0]
  /\ UNCHANGED <<server, web, policy, file, running, stopped>>

\* Mutant: what stopped by itself is not taken down with the rest.
ReleasePortsOfRunning(s) ==
  /\ op[s] = "begun"
  /\ op' = [op EXCEPT ![s] = "released"]
  /\ running' = running \ Mine(s)
  /\ UNCHANGED <<registry, excluded, attempt, file, stopped, count>>

ReleasePorts(s) ==
  /\ op[s] = "begun"
  /\ op' = [op EXCEPT ![s] = "released"]
  /\ running' = running \ Mine(s)
  /\ stopped' = stopped \ Mine(s)
  /\ UNCHANGED <<registry, excluded, attempt, file, count>>

\* The compose file: each service's host port, and the label that a restart
\* restores its route from.
Labelled(ports, records) ==
  [v \in Services |-> [port |-> ports[v],
                       host |-> IF v \in DOMAIN records THEN records[v].host ELSE None]]

\* Mutant: the ports allocated after a conflict are not given to the tunnels.
PrepareOnce(s) ==
  /\ op[s] \in {"released", "retrying"}
  /\ \E ports \in Allocations(s), tunnels \in BOOLEAN :
       /\ CASE op[s] = "retrying"   -> UNCHANGED <<routes, active, failed>>
            [] tunnels /\ server    -> Reopen(s, ports)
            [] ~(tunnels /\ server) -> Reset(s)
       /\ file' = [file EXCEPT ![s] = Labelled(ports, active'[s])]
  /\ op' = [op EXCEPT ![s] = "prepared"]
  /\ UNCHANGED <<server, web, policy, excluded, attempt, running, stopped, count>>

\* `--no-tunnel`, and a daemon without a tunnel server, leave the labels out.
Prepare(s) ==
  /\ op[s] \in {"released", "retrying"}
  /\ \E ports \in Allocations(s), tunnels \in BOOLEAN :
       /\ IF tunnels /\ server THEN Reopen(s, ports) ELSE Reset(s)
       /\ file' = [file EXCEPT ![s] = Labelled(ports, active'[s])]
  /\ op' = [op EXCEPT ![s] = "prepared"]
  /\ UNCHANGED <<server, web, policy, excluded, attempt, running, stopped, count>>

Conflicts(s) == {v \in Services : file[s][v].port \in Bound}

ComposeUp(s) ==
  /\ op[s] = "prepared" /\ Conflicts(s) = {}
  /\ running' = running \cup Mine(s)
  /\ End(s)
  /\ UNCHANGED <<registry, excluded, attempt, file, stopped, count>>

\* Docker names the port it could not bind, or the code excludes them all.
ComposeConflict(s) ==
  /\ op[s] = "prepared" /\ Conflicts(s) # {} /\ attempt[s] + 1 < MaxAttempts
  /\ attempt' = [attempt EXCEPT ![s] = @ + 1]
  /\ \E v \in Conflicts(s), named \in BOOLEAN :
       excluded' = [excluded EXCEPT ![s] =
                      @ \cup {file[s][w].port : w \in IF named THEN {v} ELSE Services}]
  /\ op' = [op EXCEPT ![s] = "retrying"]
  /\ UNCHANGED <<registry, file, running, stopped, count>>

\* The last conflict, a failed command or a cancellation: containers that were
\* already started stay, the routes do not.
UpFails(s) ==
  /\ op[s] \in {"begun", "released", "prepared", "retrying"}
  /\ Reset(s)
  /\ \E started \in SUBSET (IF op[s] = "prepared" THEN Services \ Conflicts(s) ELSE {}) :
       running' = running \cup ({s} \X started)
  /\ End(s)
  /\ UNCHANGED <<server, web, policy, excluded, attempt, file, stopped, count>>

(***************************************************************************)
(* `down`: take the containers down, then drop the session's routes.  When *)
(* the command fails the routes stay with whatever it left.                *)
(***************************************************************************)
DownContainers(s) ==
  /\ Idle(s) /\ DOMAIN file[s] # {}
  /\ running' = running \ Mine(s)
  /\ stopped' = stopped \ Mine(s)
  /\ op' = [op EXCEPT ![s] = "dropping"]
  /\ UNCHANGED <<registry, excluded, attempt, file, count>>

DropRoutes(s) ==
  /\ op[s] = "dropping"
  /\ Reset(s)
  /\ End(s)
  /\ UNCHANGED <<server, web, policy, excluded, attempt, file, running, stopped, count>>

DownFails(s) ==
  /\ Idle(s) /\ running \cap Mine(s) # {} /\ count.stops < MaxStops
  /\ Spend("stops")
  /\ \E halted \in SUBSET (running \cap Mine(s)) \ {{}} :
       running' = running \ halted /\ stopped' = stopped \cup halted
  /\ UNCHANGED <<registry, op, excluded, attempt, file>>

(***************************************************************************)
(* The daemon's environment: a container stops or starts by itself, the    *)
(* whitelist is changed in the settings.                                   *)
(***************************************************************************)
ContainerStops(s, v) ==
  /\ Idle(s) /\ <<s, v>> \in running /\ count.stops < MaxStops
  /\ Spend("stops")
  /\ running' = running \ {<<s, v>>} /\ stopped' = stopped \cup {<<s, v>>}
  /\ UNCHANGED <<registry, op, excluded, attempt, file>>

ContainerStarts(s, v) ==
  /\ <<s, v>> \in stopped /\ file[s][v].port \notin Bound
  /\ running' = running \cup {<<s, v>>} /\ stopped' = stopped \ {<<s, v>>}
  /\ UNCHANGED <<registry, op, excluded, attempt, file, count>>

SetServiceRoutePolicy(p) ==
  /\ p # policy /\ policy' = p
  /\ UNCHANGED <<server, routes, active, failed, web, deploy, count>>

(***************************************************************************)
(* A renewed certificate replaces the listener: every record is replayed   *)
(* on the new one.  When the port cannot be bound again nothing is left.   *)
(***************************************************************************)
\* What a rotation replays.
RecordsOf(table) == UNION {Range(table[s]) : s \in Sessions}
Records == RecordsOf(active)
\* The daemon-scoped route, published once the web listener is bound.
WebRoute == [host \in {WebHost} |-> [port |-> WebPort, policy |-> None]]
Own(w) == IF w THEN WebRoute ELSE Empty

\* Mutant: routes are replayed with today's whitelist.
ReplayedUnderCurrentPolicy ==
  With(RoutesOf({[r EXCEPT !.policy = policy] : r \in Records}), Own(web))

Replayed == With(RoutesOf(Records), Own(web))

RotateTunnelListener ==
  /\ count.rotations < MaxRotations
  /\ Spend("rotations")
  /\ server' = TRUE
  /\ routes' = Replayed
  /\ UNCHANGED <<active, failed, web, policy, deploy>>

RotationFailsToBind ==
  /\ count.rotations < MaxRotations
  /\ Spend("rotations")
  /\ server' = FALSE
  /\ routes' = Empty
  /\ UNCHANGED <<active, failed, web, policy, deploy>>

(***************************************************************************)
(* The daemon restarts.  Operations in progress are lost, the compose      *)
(* commands they ran may still start some or all of their containers.      *)
(* What runs, on the port its label names, is restored; of two services    *)
(* with the same hostname the first one met.                               *)
(***************************************************************************)
Restorable == {c \in running : file[c[1]][c[2]].host # None}
LabelOf(c) == file[c[1]][c[2]].host

Restored(won) ==
  [s \in Sessions |-> [v \in {v \in Services : <<s, v>> \in won} |->
     [host |-> file[s][v].host, port |-> file[s][v].port, policy |-> policy]]]

\* One service for each hostname that the labels of what runs claim.
Winners == {won \in SUBSET Restorable :
              /\ \A c \in Restorable : \E w \in won : LabelOf(w) = LabelOf(c)
              /\ \A v, w \in won : LabelOf(v) = LabelOf(w) => v = w}

\* What the compose commands under way start without the daemon: of several
\* containers for one host port, one.
Completions ==
  {more \in SUBSET {c \in Sessions \X Services : op[c[1]] = "prepared" /\ c[2] \notin Conflicts(c[1])} :
     \A c, d \in more : file[c[1]][c[2]].port = file[d[1]][d[2]].port => c = d}

Restart ==
  /\ count.restarts < MaxRestarts
  /\ Spend("restarts")
  /\ \E more \in Completions : running' = running \cup more
  /\ server' \in BOOLEAN
  /\ \E won \in Winners :
       LET kept == IF server' THEN won ELSE {}
       IN /\ active' = Restored(kept)
          /\ failed' = [s \in Sessions |-> {v \in Services : <<s, v>> \in Restorable \ kept}]
          /\ routes' = With(RoutesOf(RecordsOf(Restored(kept))), Own(server'))
  /\ web' = server'
  /\ op' = [s \in Sessions |-> "idle"]
  /\ excluded' = [s \in Sessions |-> {}]
  /\ attempt' = [s \in Sessions |-> 0]
  /\ UNCHANGED <<policy, file, stopped>>

Init ==
  /\ server = TRUE /\ web = TRUE
  /\ routes = WebRoute
  /\ active = [s \in Sessions |-> Empty]
  /\ failed = [s \in Sessions |-> {}]
  /\ policy \in Policies
  /\ op = [s \in Sessions |-> "idle"]
  /\ excluded = [s \in Sessions |-> {}]
  /\ attempt = [s \in Sessions |-> 0]
  /\ file = [s \in Sessions |-> Empty]
  /\ running = {} /\ stopped = {}
  /\ count = [ups |-> 0, rotations |-> 0, restarts |-> 0, stops |-> 0]

Next ==
  \/ \E s \in Sessions :
       \/ BeginUp(s) \/ ReleasePorts(s) \/ Prepare(s)
       \/ ComposeUp(s) \/ ComposeConflict(s) \/ UpFails(s)
       \/ DownContainers(s) \/ DropRoutes(s) \/ DownFails(s)
       \/ \E v \in Services : ContainerStops(s, v) \/ ContainerStarts(s, v)
  \/ \E p \in Policies : SetServiceRoutePolicy(p)
  \/ RotateTunnelListener \/ RotationFailsToBind \/ Restart

Spec == Init /\ [][Next]_vars

(***************************************************************************)
(* Properties                                                              *)
(***************************************************************************)
Record == [host : Hosts, port : Ports, policy : Policies]

\* Types of the registry, the files and the containers; a container has a file.
TypeOK ==
  /\ server \in BOOLEAN /\ web \in BOOLEAN /\ policy \in Policies
  /\ DOMAIN routes \subseteq Hosts \cup {WebHost}
  /\ \A s \in Sessions :
       /\ DOMAIN active[s] \subseteq Services
       /\ \A v \in DOMAIN active[s] : active[s][v] \in Record
       /\ failed[s] \subseteq Services \ DOMAIN active[s]
       /\ op[s] \in {"idle", "begun", "released", "prepared", "retrying", "dropping"}
       /\ excluded[s] \subseteq Ports /\ attempt[s] \in 0..MaxAttempts - 1
       /\ file[s] = Empty \/ file[s] \in [Services -> [port : Ports, host : Hosts \cup {None}]]
  /\ \A c \in running \cup stopped : file[c[1]] # Empty
  /\ running \cap stopped = {}

\* The registry and its server agree across opens, resets, listener
\* replacements, failed binds and restarts: a running server routes exactly
\* the active records, with the port and the whitelist they were given, and
\* the web UI if it was published.
RegistryMatchesServer ==
  routes = IF server THEN Replayed ELSE Empty

\* A hostname is never handed to two services, whatever the worktrees are
\* called and whatever old labels ask for (allocateHostname, restore).
OneOwnerPerHostname ==
  \A s, t \in Sessions : \A v \in DOMAIN active[s], w \in DOMAIN active[t] :
    active[s][v].host = active[t][w].host => s = t /\ v = w

\* What the server routes is what the sessions were promised, each hostname
\* to one of them.
RoutesAreExact == RegistryMatchesServer /\ OneOwnerPerHostname

\* A public hostname leads to its own service, although sessions race for
\* host ports: when a route's port is bound by a container of another
\* service, then its owner is amid an operation, or its container stopped
\* without a `down`.
TrafficStaysHome ==
  \A s \in Sessions : \A v \in DOMAIN active[s] : \A c \in running :
    /\ active[s][v].port = file[c[1]][c[2]].port
    /\ c # <<s, v>>
    => ~Idle(s) \/ <<s, v>> \in stopped
=============================================================================
