---------------------------- MODULE Certificates ----------------------------
(***************************************************************************)
(* The certificate of the tunnel listener: ordered when a daemon starts    *)
(* (acme/listener-resolve.ts), renewed by its scheduler (scheduler.ts)     *)
(* under a lock file, and kept as a bundle of files in one directory       *)
(* (storage.ts) that the daemons of one home share.                        *)
(*                                                                         *)
(* An order takes minutes and a certificate ages for months: one comes     *)
(* into its renewal window only while nobody is at work.  A bundle is      *)
(* known by a number; of its files the certificate and its key are told    *)
(* apart.  A certificate that the authority issues is always acceptable.   *)
(***************************************************************************)
EXTENDS Naturals

CONSTANTS Daemons, None,
  Gone, Plain,       \* of a listener: there is none, it serves without TLS
  MaxBundles, MaxFaults, MaxAges, MaxStops    \* bounds

\* Who orders: a daemon that starts, and the tick of its scheduler.
Issuers == Daemons \X {"startup", "tick"}
Startup(d) == <<d, "startup">>
Tick(d)    == <<d, "tick">>

Locks == [by : Issuers, old : BOOLEAN]

ASSUME CertificateConstants ==
  /\ {MaxBundles, MaxFaults, MaxAges, MaxStops} \subseteq Nat
  /\ {None, Gone, Plain} \cap Nat = {} /\ None \notin Locks /\ Gone # Plain

VARIABLES
  live,      \* the bundle in the live directory, or None
  lock,      \* the lock file: [by, old], old after ten minutes; or None
  account,   \* an account at the authority is on disk
  daemon,    \* off, starting or serving
  listener,  \* of each daemon: Gone, Plain or the bundle it serves
  work,      \* of each issuer: where it stands, what it read, ordered, put aside
  due,       \* the bundles in their renewal window
  lapses,    \* history: what has gone wrong so far
  count      \* bounds

vars == <<live, lock, account, daemon, listener, work, due, lapses, count>>

Resting == [pc |-> "off", cert |-> None, key |-> None, new |-> None, aside |-> None]
At(p, pc) == work[p].pc = pc
Goto(p, pc) == work' = [work EXCEPT ![p].pc = pc]
Rests(p) == work' = [work EXCEPT ![p] = Resting]
Spend(what) == count[what] > 0 /\ count' = [count EXCEPT ![what] = @ - 1]

\* The domain was changed after bundle 0 had been ordered.
Covers(n) == n # 0
Fresh(n) == n # None /\ n \notin due

Used == {live} \cup {listener[d] : d \in Daemons}
        \cup UNION {{work[p].cert, work[p].key, work[p].new, work[p].aside} : p \in Issuers}
Unused == 1..MaxBundles \ Used

\* A new key and a new request: the certificate to come.
StartOrder(p) ==
  LET n == CHOOSE m \in Unused : TRUE
  IN /\ Unused # {}
     /\ work' = [work EXCEPT ![p] = [Resting EXCEPT !.pc = "ordering", !.new = n]]
     /\ due' = due \ {n}

(***************************************************************************)
(* The listener.  Whoever has bound the configured port keeps others out.  *)
(***************************************************************************)
Taken(d) == \E e \in Daemons \ {d} : listener[e] # Gone

Bind(d, what) ==
  \/ /\ ~Taken(d)
     /\ listener' = [listener EXCEPT ![d] = what]
     /\ UNCHANGED <<lapses, count>>
  \/ /\ \/ Taken(d) /\ lapses' = lapses \cup {"unbound"} /\ UNCHANGED count
        \/ lapses' = lapses \cup {"unbound"} /\ Spend("faults")
     /\ listener' = [listener EXCEPT ![d] = Gone]

Serve(d, what) == daemon' = [daemon EXCEPT ![d] = "serving"] /\ Bind(d, what)

Boot(d) ==
  /\ daemon[d] = "off"
  /\ daemon' = [daemon EXCEPT ![d] = "starting"]
  /\ Goto(Startup(d), "reading")
  /\ UNCHANGED <<live, lock, account, listener, due, lapses, count>>

\* A daemon stops or dies, and with it what it was at; files stay.
Stop(d) ==
  /\ daemon[d] # "off" /\ Spend("stops")
  /\ daemon' = [daemon EXCEPT ![d] = "off"]
  /\ listener' = [listener EXCEPT ![d] = Gone]
  /\ work' = [p \in Issuers |-> IF p[1] = d THEN Resting ELSE work[p]]
  /\ lapses' = IF \E p \in Issuers : p[1] = d /\ work[p].aside # None
               THEN lapses \cup {"crash"} ELSE lapses
  /\ UNCHANGED <<live, lock, account, due>>

(***************************************************************************)
(* Startup.  The files of the live bundle are read by name, one by one.    *)
(***************************************************************************)
Reads(d) ==
  LET p == Startup(d)
  IN /\ At(p, "reading") /\ live # None
     /\ \E file \in {"cert", "key"} :
          work[p][file] = None /\ work' = [work EXCEPT ![p][file] = live]
     /\ UNCHANGED <<live, lock, account, daemon, listener, due, lapses, count>>

Complete(w) == None \notin {w.cert, w.key}

\* Mutant: whose domain it is for is not looked at.
UsableAnywhere(w) == Complete(w) /\ Fresh(w.cert)

Usable(w) == Complete(w) /\ Fresh(w.cert) /\ Covers(w.cert)

\* A certificate with the key of another cannot be served.
UseStored(d) ==
  LET w == work[Startup(d)]
  IN /\ At(Startup(d), "reading") /\ Usable(w)
     /\ IF w.cert = w.key THEN Serve(d, w.cert)
        ELSE /\ daemon' = [daemon EXCEPT ![d] = "serving"]
             /\ lapses' = lapses \cup {"unbound"}
             /\ UNCHANGED <<listener, count>>
     /\ Rests(Startup(d))
     /\ UNCHANGED <<live, lock, account, due>>

\* Nothing there, or nothing of use: an order without the lock.
OrderAtStartup(d) ==
  LET w == work[Startup(d)]
  IN /\ At(Startup(d), "reading")
     /\ (Complete(w) \/ live = None) /\ ~Usable(w)
     /\ StartOrder(Startup(d))
     /\ UNCHANGED <<live, lock, account, daemon, listener, lapses, count>>

\* After 120 seconds the daemon goes on without TLS; the order goes on too.
StartupTimesOut(d) ==
  /\ daemon[d] = "starting" /\ work[Startup(d)].pc \in {"ordering", "placing"}
  /\ Spend("faults")
  /\ daemon' = [daemon EXCEPT ![d] = "serving"]
  /\ IF Taken(d) THEN lapses' = lapses \cup {"unbound"} /\ UNCHANGED listener
     ELSE listener' = [listener EXCEPT ![d] = Plain] /\ UNCHANGED lapses
  /\ UNCHANGED <<live, lock, account, work, due>>

(***************************************************************************)
(* The tick, every twelve hours.                                           *)
(***************************************************************************)
\* Mutant: a listener without a certificate is not the tick's business.
TicksToRenew(d) ==
  /\ daemon[d] = "serving" /\ At(Tick(d), "off")
  /\ live \in due
  /\ Goto(Tick(d), "locking")
  /\ UNCHANGED <<live, lock, account, daemon, listener, due, lapses, count>>

Ticks(d) ==
  /\ daemon[d] = "serving" /\ At(Tick(d), "off")
  /\ ~Fresh(live)
  /\ Goto(Tick(d), "locking")
  /\ UNCHANGED <<live, lock, account, daemon, listener, due, lapses, count>>

\* Mutant: the lock file is created or opened.
TakesAnyway(p) ==
  /\ At(p, "locking")
  /\ lock' = [by |-> p, old |-> FALSE]
  /\ StartOrder(p)
  /\ UNCHANGED <<live, account, daemon, listener, lapses, count>>

Takes(p) ==
  /\ At(p, "locking") /\ lock = None
  /\ lock' = [by |-> p, old |-> FALSE]
  /\ StartOrder(p)
  /\ UNCHANGED <<live, account, daemon, listener, lapses, count>>

\* Somebody holds the lock, or left it a short while ago.
Refused(p) ==
  /\ At(p, "locking") /\ lock # None /\ ~lock.old
  /\ Rests(p)
  /\ UNCHANGED <<live, lock, account, daemon, listener, due, lapses, count>>

FindsStale(p) ==
  /\ At(p, "locking") /\ lock # None /\ lock.old
  /\ Goto(p, "reclaiming")
  /\ UNCHANGED <<live, lock, account, daemon, listener, due, lapses, count>>

\* What is removed need not be the lock that was found stale; a new one is
\* created at once.
Reclaims(p) ==
  /\ At(p, "reclaiming")
  /\ lock' = [by |-> p, old |-> FALSE]
  /\ StartOrder(p)
  /\ lapses' = IF lock # None /\ ~lock.old THEN lapses \cup {"reclaimed"} ELSE lapses
  /\ UNCHANGED <<live, account, daemon, listener, count>>

Owns(p) == lock # None /\ lock.by = p

Releases(p) ==
  /\ At(p, "releasing")
  /\ lock' = IF Owns(p) THEN None ELSE lock
  /\ Rests(p)
  /\ UNCHANGED <<live, account, daemon, listener, due, lapses, count>>

AtWork(p) == work[p].pc \in {"ordering", "placing", "activating", "releasing"}

LockAges ==
  /\ lock # None /\ ~lock.old
  /\ lock' = [lock EXCEPT !.old = TRUE]
  /\ IF AtWork(lock.by) THEN Spend("faults") /\ lapses' = lapses \cup {"overran"}
     ELSE UNCHANGED <<count, lapses>>
  /\ UNCHANGED <<live, account, daemon, listener, work, due>>

(***************************************************************************)
(* An order, and the swap of the live directory for the new bundle.        *)
(***************************************************************************)
Fails(p) == work' = [work EXCEPT ![p] = [Resting EXCEPT !.pc = IF p[2] = "tick" THEN "releasing" ELSE "failed"]]

OrderFails(p) ==
  /\ At(p, "ordering") /\ Spend("faults") /\ Fails(p)
  /\ UNCHANGED <<live, lock, account, daemon, listener, due, lapses>>

MovesAside(p) ==
  /\ At(p, "ordering")
  /\ work' = [work EXCEPT ![p].pc = "placing", ![p].aside = live]
  /\ live' = None
  /\ UNCHANGED <<lock, account, daemon, listener, due, lapses, count>>

OthersUp(p) == \E d \in Daemons \ {p[1]} : daemon[d] # "off"

\* Stored.  The first time the account is saved too, and if that fails the
\* order has failed, although its bundle is in place.
Places(p) ==
  /\ At(p, "placing") /\ live = None
  /\ live' = work[p].new
  /\ \/ /\ account' = TRUE /\ UNCHANGED count
        /\ work' = [work EXCEPT ![p] = [Resting EXCEPT !.pc = "activating", !.new = work[p].new]]
     \/ ~account /\ Spend("faults") /\ Fails(p) /\ UNCHANGED account
  /\ lapses' = IF \/ p[2] = "startup" /\ daemon[p[1]] = "serving"
                  \/ OthersUp(p)
                  \/ count' # count
               THEN lapses \cup {"stored"} ELSE lapses
  /\ UNCHANGED <<lock, daemon, listener, due>>

\* Another bundle is in the way, or the file system fails.
SwapFails(p) ==
  /\ At(p, "placing")
  /\ IF live # None THEN UNCHANGED count ELSE Spend("faults")
  /\ Fails(p)
  /\ UNCHANGED <<lock, account, daemon, listener, due>>

\* Another bundle is in the way, or somebody else has met with none.
Misleads(p) == live # None \/ (work[p].aside # None /\ OthersUp(p))

\* Mutant: the old bundle is not put back.
LeavesAside(p) ==
  /\ SwapFails(p)
  /\ lapses' = IF Misleads(p) THEN lapses \cup {"stored"} ELSE lapses
  /\ UNCHANGED live

\* What was moved aside is moved back, unless another bundle is in its place.
PutsBack(p) ==
  /\ SwapFails(p)
  /\ lapses' = IF Misleads(p) THEN lapses \cup {"stored"} ELSE lapses
  /\ live' = IF live = None THEN work[p].aside ELSE live

\* What has failed the swap fails the rename back too.  Nobody is told, and
\* nothing takes up the directory that was moved aside.
RollbackFails(p) ==
  /\ SwapFails(p)
  /\ live = None /\ work[p].aside # None
  /\ lapses' = lapses \cup {"unrestored"}
  /\ UNCHANGED live

GivesUp(d) ==
  /\ At(Startup(d), "failed")
  /\ IF daemon[d] = "starting" THEN Serve(d, Plain)
     ELSE UNCHANGED <<daemon, listener, lapses, count>>
  /\ Rests(Startup(d))
  /\ UNCHANGED <<live, lock, account, due>>

ServesNew(d) ==
  /\ At(Startup(d), "activating")
  /\ IF daemon[d] = "starting" THEN Serve(d, work[Startup(d)].new)
     ELSE UNCHANGED <<daemon, listener, lapses, count>>
  /\ Rests(Startup(d))
  /\ UNCHANGED <<live, lock, account, due>>

\* Mutant: only a listener with a certificate is given another.
RotatesSecure(d) ==
  /\ At(Tick(d), "activating")
  /\ IF listener[d] # Plain THEN Bind(d, work[Tick(d)].new) ELSE UNCHANGED <<listener, lapses, count>>
  /\ work' = [work EXCEPT ![Tick(d)] = [Resting EXCEPT !.pc = "releasing"]]
  /\ UNCHANGED <<live, lock, account, daemon, due>>

\* The old listener is taken away and a new one bound.
Rotates(d) ==
  /\ At(Tick(d), "activating")
  /\ Bind(d, work[Tick(d)].new)
  /\ work' = [work EXCEPT ![Tick(d)] = [Resting EXCEPT !.pc = "releasing"]]
  /\ UNCHANGED <<live, lock, account, daemon, due>>

ComesDue(n) ==
  /\ \A p \in Issuers : At(p, "off")
  /\ n \notin due /\ Spend("ages")
  /\ due' = due \cup {n}
  /\ UNCHANGED <<live, lock, account, daemon, listener, work, lapses>>

Init ==
  /\ live \in {None, 0} /\ account = (live # None)
  /\ lock = None
  /\ daemon = [d \in Daemons |-> "off"] /\ listener = [d \in Daemons |-> Gone]
  /\ work = [p \in Issuers |-> Resting]
  /\ due = {} /\ lapses = {}
  /\ count = [faults |-> MaxFaults, ages |-> MaxAges, stops |-> MaxStops]

Storing(p) == MovesAside(p) \/ Places(p) \/ PutsBack(p) \/ RollbackFails(p)

StartupRuns(d) ==
  \/ Reads(d) \/ UseStored(d) \/ OrderAtStartup(d)
  \/ Storing(Startup(d)) \/ GivesUp(d) \/ ServesNew(d)

TickRuns(d) ==
  \/ Ticks(d) \/ Takes(Tick(d)) \/ Refused(Tick(d)) \/ FindsStale(Tick(d)) \/ Reclaims(Tick(d))
  \/ Storing(Tick(d)) \/ Rotates(d) \/ Releases(Tick(d))

Next ==
  \/ \E d \in Daemons : Boot(d) \/ Stop(d) \/ StartupTimesOut(d) \/ StartupRuns(d) \/ TickRuns(d)
  \/ \E p \in Issuers : OrderFails(p)
  \/ \E n \in Used \cap (0..MaxBundles) : ComesDue(n)
  \/ LockAges

\* What a daemon has begun goes on, its ticks come, and a lock grows old.
\* Nobody need start a daemon, and no order need be late.
Fairness ==
  /\ \A d \in Daemons : WF_vars(StartupRuns(d)) /\ WF_vars(TickRuns(d))
  /\ WF_vars(LockAges)

Spec == Init /\ [][Next]_vars /\ Fairness

(***************************************************************************)
(* Properties                                                              *)
(***************************************************************************)
\* Types; a listener serves a bundle that covers its domain.
TypeOK ==
  /\ live \in 0..MaxBundles \cup {None}
  /\ lock \in Locks \cup {None}
  /\ account \in BOOLEAN
  /\ daemon \in [Daemons -> {"off", "starting", "serving"}]
  /\ \A d \in Daemons : listener[d] \in {Gone, Plain} \/ listener[d] \in 1..MaxBundles
  /\ \A p \in Issuers : \A f \in {"cert", "key", "new", "aside"} :
       work[p][f] \in 0..MaxBundles \cup {None}
  /\ due \subseteq 0..MaxBundles
  /\ lapses \subseteq {"unbound", "stored", "unrestored", "crash", "reclaimed", "overran"}

\* There is no bundle only while one is being placed, whoever else swaps,
\* fails and rolls back meanwhile: unless a daemon crashed between the two
\* renames, or the rename back failed like the swap before it.  ("Failure
\* mid-swap leaves either the old or the new bundle on disk" has no excuse.)
BundleStays ==
  account /\ lapses \cap {"crash", "unrestored"} = {} =>
    live # None \/ \E p \in Issuers : At(p, "placing")

\* The lock lets one tick at a time order, unless it overran its ten minutes
\* or two ticks reclaimed the lock of a dead daemon at the same time.
OneOrder ==
  lapses \cap {"overran", "reclaimed"} = {} =>
    \A d, e \in Daemons : AtWork(Tick(d)) /\ AtWork(Tick(e)) => d = e

\* A certificate on disk that no tick will renew is the one the listener has,
\* unless it was stored too late, or stored or put back under another daemon,
\* met that daemon's on disk, could not be activated, or is not for this domain.
\* ("Try again on each scheduler tick so a transient DNS hook failure doesn't
\* lock the listener at plaintext forever".)
Secure(d) == listener[d] \notin due \cup {Gone, Plain}
AllOff(d) == At(Startup(d), "off") /\ At(Tick(d), "off")

StrandedNeedsLapse ==
  \A d \in Daemons :
    daemon[d] = "serving" /\ AllOff(d) /\ Fresh(live) /\ ~Secure(d) =>
      live = 0 \/ lapses \cap {"stored", "unbound"} # {}

\* Whatever fails, and whoever died with the lock: a listener without a
\* certificate, or with one to renew, gets one, or there is a fresh one on disk.
CertificatesCome ==
  \A d \in Daemons :
    daemon[d] = "serving" /\ ~Secure(d) ~> daemon[d] # "serving" \/ Secure(d) \/ Fresh(live)
=============================================================================
