------------------------- MODULE CertificatesProofs -------------------------
(***************************************************************************)
(* Proofs about Certificates, for any number of daemons, bundles and       *)
(* failures.                                                               *)
(*                                                                         *)
(* The inductive invariant IInv adds to the types where a bundle is in     *)
(* hand, that whoever is at work holds a young lock, that a bundle that is *)
(* not in place is aside in an order that goes on, and that a daemon that  *)
(* is off is at nothing.  StrandInv follows the good bundles, live or      *)
(* aside, to the one listener that has them.  Each part goes action by     *)
(* action; what an action does to one issuer, or to the other daemons, is  *)
(* covered by the frame lemmas.                                            *)
(***************************************************************************)
EXTENDS Certificates, TLAPS

Work == [pc : {"off", "reading", "locking", "reclaiming", "ordering", "placing",
               "activating", "releasing", "failed"},
         cert : 0..MaxBundles \cup {None}, key : 0..MaxBundles \cup {None},
         new : 0..MaxBundles \cup {None}, aside : 0..MaxBundles \cup {None}]

\* An order has a new bundle in hand until it is served or given up.
Orders == {"ordering", "placing", "activating"}

FilesTyped ==
  /\ live \in 0..MaxBundles \cup {None}
  /\ lock \in Locks \cup {None}
  /\ account \in BOOLEAN
  /\ daemon \in [Daemons -> {"off", "starting", "serving"}]
  /\ listener \in [Daemons -> {Gone, Plain} \cup 1..MaxBundles]
  /\ due \subseteq 0..MaxBundles
  /\ lapses \subseteq {"unbound", "stored", "unrestored", "crash", "reclaimed", "overran"}
  /\ count \in [{"faults", "ages", "stops"} -> Nat]

InOrder(p, w) ==
  /\ w.pc = "reading" => p[2] = "startup"
  /\ w.pc \in Orders => w.new \in 1..MaxBundles

WorkTyped == work \in [Issuers -> Work] /\ \A p \in Issuers : InOrder(p, work[p])

Typing == FilesTyped /\ WorkTyped

\* Whoever is at work holds the lock, and it is young.
LockHeld ==
  lapses \cap {"overran", "reclaimed"} = {} =>
    \A d \in Daemons : AtWork(Tick(d)) => Owns(Tick(d)) /\ ~lock.old

\* The bundle is in its place, or put aside by an order that still goes on.
BundleKept ==
  account /\ lapses \cap {"crash", "unrestored"} = {} =>
    live # None \/ \E p \in Issuers : At(p, "placing") /\ work[p].aside # None

\* A daemon that is off is at nothing.
OffRests == \A p \in Issuers : daemon[p[1]] = "off" => At(p, "off")

IInv == Typing /\ LockHeld /\ OffRests /\ BundleKept

\* The two issuers of a daemon are issuers, and differ.
LEMMA IssuerFacts ==
  ASSUME NEW d \in Daemons
  PROVE  /\ Startup(d) \in Issuers /\ Tick(d) \in Issuers
         /\ Startup(d)[1] = d /\ Tick(d)[1] = d
         /\ Startup(d)[2] = "startup" /\ Tick(d)[2] = "tick"
         /\ \A e \in Daemons : Tick(e) # Startup(d) /\ (Tick(e) = Tick(d) => e = d)
BY DEF Startup, Tick, Issuers

\* An issuer at rest is of the type of issuers.
LEMMA RestingWork == Resting \in Work /\ Resting.pc = "off"
BY DEF Resting, Work

\* The types proved here are those that the run checks, and more.
LEMMA TypingImpliesTypeOK == Typing => TypeOK
BY DEF Typing, FilesTyped, WorkTyped, TypeOK, Work

\* The invariant holds when nothing has been started.
LEMMA InitIInv == Init => IInv
<1> SUFFICES ASSUME Init PROVE IInv
  OBVIOUS
<1> USE CertificateConstants DEF Init
<1>1. FilesTyped
  BY DEF FilesTyped
<1>2. WorkTyped
  BY RestingWork DEF WorkTyped, InOrder, Orders
<1>3. LockHeld
  BY IssuerFacts, RestingWork DEF LockHeld, AtWork
<1>4. BundleKept
  BY DEF BundleKept
<1>5. OffRests
  BY RestingWork DEF OffRests, At
<1>6. QED
  BY <1>1, <1>2, <1>3, <1>4, <1>5 DEF IInv, Typing

-----------------------------------------------------------------------------
(* What one issuer does leaves the types.                                  *)

\* One issuer takes on other work, of the right type.
LEMMA WorkStep ==
  ASSUME WorkTyped, NEW p \in Issuers, NEW w \in Work, InOrder(p, w),
         work' = [work EXCEPT ![p] = w]
  PROVE  WorkTyped'
BY DEF WorkTyped, InOrder

\* An issuer goes on with the files it has read.
LEMMA GotoStep ==
  ASSUME WorkTyped, NEW p \in Issuers, NEW pc \in {"off", "reading", "locking", "reclaiming"},
         Goto(p, pc), pc = "reading" => p[2] = "startup"
  PROVE  WorkTyped'
<1> DEFINE w == [work[p] EXCEPT !.pc = pc]
<1>1. w \in Work /\ w.pc = pc
  BY DEF WorkTyped, Work
<1>2. work' = [work EXCEPT ![p] = w]
  BY DEF Goto, WorkTyped
<1>3. InOrder(p, w)
  BY <1>1 DEF InOrder, Orders
<1> HIDE DEF w
<1>4. QED
  BY <1>1, <1>2, <1>3, WorkStep

\* An issuer has done.
LEMMA RestStep ==
  ASSUME WorkTyped, NEW p \in Issuers, Rests(p)
  PROVE  WorkTyped'
BY RestingWork, WorkStep DEF Rests, InOrder, Orders

\* An order fails: a tick gives its lock back, a startup gives up.
LEMMA FailStep ==
  ASSUME WorkTyped, NEW p \in Issuers, Fails(p)
  PROVE  WorkTyped'
<1> DEFINE w == [Resting EXCEPT !.pc = IF p[2] = "tick" THEN "releasing" ELSE "failed"]
<1>1. w \in Work /\ w.pc \in {"releasing", "failed"}
  BY CertificateConstants DEF Work, Resting
<1>2. work' = [work EXCEPT ![p] = w]
  BY DEF Fails
<1> HIDE DEF w
<1>3. QED
  BY <1>1, <1>2, WorkStep DEF InOrder, Orders

\* An order begins with a bundle that nobody uses.
LEMMA OrderStep ==
  ASSUME WorkTyped, NEW p \in Issuers, StartOrder(p)
  PROVE  WorkTyped' /\ due' \subseteq due
<1> DEFINE n == CHOOSE m \in Unused : TRUE
           w == [Resting EXCEPT !.pc = "ordering", !.new = n]
<1>1. n \in 1..MaxBundles
  BY DEF StartOrder, Unused
<1>2. w \in Work /\ w.pc = "ordering" /\ w.new = n
  <2>1. n \in 0..MaxBundles \cup {None}
    BY <1>1
  <2> HIDE DEF n
  <2>2. QED
    BY <2>1 DEF Work, Resting
<1>3. work' = [work EXCEPT ![p] = w] /\ due' \subseteq due
  BY DEF StartOrder
<1> HIDE DEF n, w
<1>4. QED
  BY <1>1, <1>2, <1>3, WorkStep DEF InOrder

\* A bound stays a number.
LEMMA Spending ==
  ASSUME FilesTyped, NEW what \in {"faults", "ages", "stops"}, Spend(what)
  PROVE  count' \in [{"faults", "ages", "stops"} -> Nat]
BY DEF Spend, FilesTyped

\* A bind leaves the listener gone or with what it was to serve.
LEMMA Binding ==
  ASSUME FilesTyped, NEW d \in Daemons, NEW what \in {Plain} \cup 1..MaxBundles, Bind(d, what),
         UNCHANGED <<live, lock, account, due>>,
         daemon' \in [Daemons -> {"off", "starting", "serving"}]
  PROVE  FilesTyped'
<1>1. lapses' \in {lapses, lapses \cup {"unbound"}}
  BY DEF Bind
<1>2. listener' = [listener EXCEPT ![d] = what] \/ listener' = [listener EXCEPT ![d] = Gone]
  BY DEF Bind
<1>3. listener' \in [Daemons -> {Gone, Plain} \cup 1..MaxBundles]
  BY <1>2 DEF FilesTyped
<1>4. count' \in [{"faults", "ages", "stops"} -> Nat]
  BY Spending DEF Bind, FilesTyped
<1>5. QED
  BY <1>1, <1>3, <1>4 DEF FilesTyped

\* A daemon begins to serve.
LEMMA Serving ==
  ASSUME FilesTyped, NEW d \in Daemons, NEW what \in {Plain} \cup 1..MaxBundles, Serve(d, what),
         UNCHANGED <<live, lock, account, due>>
  PROVE  FilesTyped'
BY Binding DEF Serve, FilesTyped

\* Every step keeps the types.
LEMMA TypingStep ==
  ASSUME Typing, Next
  PROVE  Typing'
<1> USE CertificateConstants DEF Typing
<1>1. ASSUME NEW d \in Daemons, Boot(d) PROVE Typing'
  <2>1. FilesTyped'
    BY <1>1 DEF Boot, FilesTyped
  <2>2. WorkTyped'
    BY <1>1, GotoStep, IssuerFacts DEF Boot
  <2>3. QED
    BY <2>1, <2>2
<1>2. ASSUME NEW d \in Daemons, Stop(d) PROVE Typing'
  <2>1. FilesTyped'
    BY <1>2, Spending DEF Stop, FilesTyped
  <2>2. WorkTyped'
    BY <1>2, RestingWork DEF Stop, WorkTyped, InOrder, Orders
  <2>3. QED
    BY <2>1, <2>2
<1>3. ASSUME NEW d \in Daemons, StartupTimesOut(d) PROVE Typing'
  <2>1. FilesTyped'
    BY <1>3, Spending DEF StartupTimesOut, FilesTyped
  <2>2. WorkTyped'
    BY <1>3 DEF StartupTimesOut, WorkTyped
  <2>3. QED
    BY <2>1, <2>2
<1>4. ASSUME NEW d \in Daemons, Reads(d) PROVE Typing'
  <2>1. FilesTyped'
    BY <1>4 DEF Reads, FilesTyped
  <2>2. WorkTyped'
    <3> DEFINE p == Startup(d)
    <3>1. PICK file \in {"cert", "key"} : work' = [work EXCEPT ![p][file] = live]
      BY <1>4 DEF Reads
    <3> DEFINE w == [work[p] EXCEPT ![file] = live]
    <3>2. p \in Issuers /\ p[2] = "startup" /\ work[p].pc = "reading" /\ work[p] \in Work
      BY <1>4, IssuerFacts DEF Reads, At, WorkTyped
    <3> HIDE DEF p
    <3>5. ASSUME file = "cert" PROVE w \in Work /\ w.pc = "reading"
      BY <3>2, <3>5 DEF Work, FilesTyped
    <3>6. ASSUME file = "key" PROVE w \in Work /\ w.pc = "reading"
      BY <3>2, <3>6 DEF Work, FilesTyped
    <3>7. w \in Work /\ w.pc = "reading"
      BY <3>5, <3>6
    <3>3. work' = [work EXCEPT ![p] = w]
      BY <3>1, <3>2 DEF WorkTyped
    <3> HIDE DEF w
    <3>4. QED
      BY <3>2, <3>3, <3>7, WorkStep DEF InOrder, Orders
  <2>3. QED
    BY <2>1, <2>2
<1>5. ASSUME NEW d \in Daemons, UseStored(d) PROVE Typing'
  <2>1. FilesTyped'
    <3> DEFINE w == work[Startup(d)]
    <3>1. CASE w.cert = w.key
      <4>1. w.cert \in 1..MaxBundles
        BY <1>5, IssuerFacts DEF UseStored, Usable, Fresh, Covers, WorkTyped, Work
      <4>2. Serve(d, w.cert) /\ UNCHANGED <<live, lock, account, due>>
        BY <1>5, <3>1 DEF UseStored
      <4>3. QED
        BY <4>1, <4>2, Serving
    <3>2. CASE w.cert # w.key
      BY <1>5, <3>2 DEF UseStored, FilesTyped
    <3>3. QED
      BY <3>1, <3>2
  <2>2. WorkTyped'
    BY <1>5, RestStep, IssuerFacts DEF UseStored
  <2>3. QED
    BY <2>1, <2>2
<1>6. ASSUME NEW d \in Daemons, OrderAtStartup(d) PROVE Typing'
  <2>1. FilesTyped'
    BY <1>6, OrderStep, IssuerFacts DEF OrderAtStartup, FilesTyped
  <2>2. WorkTyped'
    BY <1>6, OrderStep, IssuerFacts DEF OrderAtStartup
  <2>3. QED
    BY <2>1, <2>2
<1>7. ASSUME NEW d \in Daemons, GivesUp(d) PROVE Typing'
  <2>1. FilesTyped'
    BY <1>7, Serving DEF GivesUp, FilesTyped
  <2>2. WorkTyped'
    BY <1>7, RestStep, IssuerFacts DEF GivesUp
  <2>3. QED
    BY <2>1, <2>2
<1>8. ASSUME NEW d \in Daemons, ServesNew(d) PROVE Typing'
  <2>1. FilesTyped'
    <3>1. work[Startup(d)].new \in 1..MaxBundles
      BY <1>8, IssuerFacts DEF ServesNew, At, WorkTyped, InOrder, Orders
    <3>2. QED
      BY <1>8, <3>1, Serving DEF ServesNew, FilesTyped
  <2>2. WorkTyped'
    BY <1>8, RestStep, IssuerFacts DEF ServesNew
  <2>3. QED
    BY <2>1, <2>2
<1>9. ASSUME NEW d \in Daemons, Ticks(d) PROVE Typing'
  <2>1. FilesTyped'
    BY <1>9 DEF Ticks, FilesTyped
  <2>2. WorkTyped'
    BY <1>9, GotoStep, IssuerFacts DEF Ticks
  <2>3. QED
    BY <2>1, <2>2
<1>10. ASSUME NEW d \in Daemons, Rotates(d) PROVE Typing'
  <2>1. FilesTyped'
    <3>1. work[Tick(d)].new \in 1..MaxBundles
      BY <1>10, IssuerFacts DEF Rotates, At, WorkTyped, InOrder, Orders
    <3>2. QED
      BY <1>10, <3>1, Binding DEF Rotates, FilesTyped
  <2>2. WorkTyped'
    <3> DEFINE w == [Resting EXCEPT !.pc = "releasing"]
    <3>1. w \in Work /\ w.pc = "releasing"
      BY DEF Work, Resting
    <3>2. work' = [work EXCEPT ![Tick(d)] = w]
      BY <1>10 DEF Rotates
    <3> HIDE DEF w
    <3>3. QED
      BY <3>1, <3>2, WorkStep, IssuerFacts DEF InOrder, Orders
  <2>3. QED
    BY <2>1, <2>2
<1>11. ASSUME NEW d \in Daemons, Takes(Tick(d)) PROVE Typing'
  <2>1. FilesTyped'
    BY <1>11, OrderStep, IssuerFacts DEF Takes, FilesTyped, Locks
  <2>2. WorkTyped'
    BY <1>11, OrderStep, IssuerFacts DEF Takes
  <2>3. QED
    BY <2>1, <2>2
<1>12. ASSUME NEW d \in Daemons, Refused(Tick(d)) PROVE Typing'
  <2>1. FilesTyped'
    BY <1>12 DEF Refused, FilesTyped
  <2>2. WorkTyped'
    BY <1>12, RestStep, IssuerFacts DEF Refused
  <2>3. QED
    BY <2>1, <2>2
<1>13. ASSUME NEW d \in Daemons, FindsStale(Tick(d)) PROVE Typing'
  <2>1. FilesTyped'
    BY <1>13 DEF FindsStale, FilesTyped
  <2>2. WorkTyped'
    BY <1>13, GotoStep, IssuerFacts DEF FindsStale
  <2>3. QED
    BY <2>1, <2>2
<1>14. ASSUME NEW d \in Daemons, Reclaims(Tick(d)) PROVE Typing'
  <2>1. FilesTyped'
    BY <1>14, OrderStep, IssuerFacts DEF Reclaims, FilesTyped, Locks
  <2>2. WorkTyped'
    BY <1>14, OrderStep, IssuerFacts DEF Reclaims
  <2>3. QED
    BY <2>1, <2>2
<1>15. ASSUME NEW d \in Daemons, Releases(Tick(d)) PROVE Typing'
  <2>1. FilesTyped'
    BY <1>15 DEF Releases, FilesTyped
  <2>2. WorkTyped'
    BY <1>15, RestStep, IssuerFacts DEF Releases
  <2>3. QED
    BY <2>1, <2>2
<1>16. ASSUME NEW p \in Issuers, MovesAside(p) PROVE Typing'
  <2>1. FilesTyped'
    BY <1>16 DEF MovesAside, FilesTyped
  <2>2. WorkTyped'
    <3> DEFINE w == [work[p] EXCEPT !.pc = "placing", !.aside = live]
    <3>0. work[p] \in Work /\ work[p].new \in 1..MaxBundles /\ live \in 0..MaxBundles \cup {None}
      BY <1>16 DEF MovesAside, At, WorkTyped, FilesTyped, InOrder, Orders
    <3>1. w \in Work /\ w.pc = "placing" /\ w.new \in 1..MaxBundles
      BY <3>0 DEF Work
    <3>2. work' = [work EXCEPT ![p] = w]
      BY <1>16 DEF MovesAside, WorkTyped
    <3> HIDE DEF w
    <3>3. QED
      BY <3>1, <3>2, WorkStep DEF InOrder
  <2>3. QED
    BY <2>1, <2>2
<1>17. ASSUME NEW p \in Issuers, Places(p) PROVE Typing'
  <2>1. FilesTyped'
    <3>1. work[p].new \in 1..MaxBundles
      BY <1>17 DEF Places, At, WorkTyped, InOrder, Orders
    <3>2. QED
      <4>1. live' \in 0..MaxBundles
        BY <1>17, <3>1 DEF Places
      <4>2. lapses' \in {lapses, lapses \cup {"stored"}} /\ account' \in BOOLEAN
        BY <1>17 DEF Places, FilesTyped
      <4>3. count' \in [{"faults", "ages", "stops"} -> Nat]
        BY <1>17, Spending DEF Places, FilesTyped
      <4>4. QED
        BY <1>17, <4>1, <4>2, <4>3 DEF Places, FilesTyped
  <2>2. WorkTyped'
    <3> DEFINE w == [Resting EXCEPT !.pc = "activating", !.new = work[p].new]
    <3>1. w \in Work /\ w.new \in 1..MaxBundles /\ w.pc = "activating"
      BY <1>17 DEF Places, At, WorkTyped, InOrder, Orders, Work, Resting
    <3>2. work' = [work EXCEPT ![p] = w] \/ Fails(p)
      BY <1>17 DEF Places
    <3> HIDE DEF w
    <3>3. QED
      BY <3>1, <3>2, WorkStep, FailStep DEF InOrder
  <2>3. QED
    BY <2>1, <2>2
<1>18. ASSUME NEW p \in Issuers, PutsBack(p) \/ RollbackFails(p) PROVE Typing'
  <2>0. SwapFails(p)
    BY <1>18 DEF PutsBack, RollbackFails
  <2>1. FilesTyped'
    <3>1. live' \in 0..MaxBundles \cup {None}
      BY <1>18 DEF PutsBack, RollbackFails, FilesTyped, WorkTyped, Work
    <3>2. lapses' \in {lapses, lapses \cup {"stored"}, lapses \cup {"unrestored"}}
      BY <1>18 DEF PutsBack, RollbackFails
    <3>3. QED
      BY <2>0, <3>1, <3>2, Spending DEF SwapFails, FilesTyped
  <2>2. WorkTyped'
    BY <2>0, FailStep DEF SwapFails
  <2>3. QED
    BY <2>1, <2>2
<1>19. ASSUME NEW p \in Issuers, OrderFails(p) PROVE Typing'
  <2>1. FilesTyped'
    BY <1>19, Spending DEF OrderFails, FilesTyped
  <2>2. WorkTyped'
    BY <1>19, FailStep DEF OrderFails
  <2>3. QED
    BY <2>1, <2>2
<1>20. ASSUME NEW n \in 0..MaxBundles, ComesDue(n) PROVE Typing'
  BY <1>20, Spending DEF ComesDue, FilesTyped, WorkTyped
<1>21. CASE LockAges
  <2>1. lock' \in Locks
    BY <1>21 DEF LockAges, FilesTyped, Locks
  <2>2. lapses' \in {lapses, lapses \cup {"overran"}}
    BY <1>21 DEF LockAges
  <2>3. count' \in [{"faults", "ages", "stops"} -> Nat]
    BY <1>21, Spending DEF LockAges, FilesTyped
  <2>4. QED
    BY <1>21, <2>1, <2>2, <2>3 DEF LockAges, FilesTyped, WorkTyped
<1>22. QED
  BY <1>1, <1>2, <1>3, <1>4, <1>5, <1>6, <1>7, <1>8, <1>9, <1>10, <1>11, <1>12, <1>13, <1>14, <1>15, <1>16, <1>17, <1>18, <1>19, <1>20, <1>21, IssuerFacts
     DEF Next, StartupRuns, TickRuns, Storing, Issuers

-----------------------------------------------------------------------------
(* The lock.                                                               *)

AtWorkPlaces == {"ordering", "placing", "activating", "releasing"}

\* A step that leaves the lock alone and puts no tick to work.
LEMMA LockQuiet ==
  ASSUME LockHeld, lock' = lock, lapses \subseteq lapses',
         \A d \in Daemons : AtWork(Tick(d))' => AtWork(Tick(d))
  PROVE  LockHeld'
BY DEF LockHeld, Owns

\* A step of one issuer that leaves the lock alone, and puts no tick to work.
LEMMA LockFrame ==
  ASSUME Typing, LockHeld, NEW p \in Issuers, NEW w,
         work' = [work EXCEPT ![p] = w],
         p[2] = "startup" \/ AtWork(p) \/ w.pc \notin AtWorkPlaces,
         lock' = lock, lapses \subseteq lapses'
  PROVE  LockHeld'
<1>1. ASSUME NEW d \in Daemons, AtWork(Tick(d))' PROVE AtWork(Tick(d))
  BY <1>1, IssuerFacts DEF AtWork, AtWorkPlaces, Typing, WorkTyped
<1>2. QED
  BY <1>1, LockQuiet

\* A tick on its way to the lock holds nothing.
LEMMA LockGoto ==
  ASSUME Typing, LockHeld, NEW p \in Issuers, NEW pc \in {"locking", "reclaiming"},
         Goto(p, pc), lock' = lock, lapses' = lapses
  PROVE  LockHeld'
<1>1. ASSUME NEW d \in Daemons, AtWork(Tick(d))' PROVE AtWork(Tick(d))
  BY <1>1, IssuerFacts DEF Goto, AtWork, Typing, WorkTyped, Work
<1>2. QED
  BY <1>1, LockQuiet

\* A step that gives p a new young lock while no tick is at work.
LEMMA LockTaken ==
  ASSUME Typing, NEW p \in Issuers, NEW w,
         work' = [work EXCEPT ![p] = w], lock' = [by |-> p, old |-> FALSE],
         lapses' \cap {"overran", "reclaimed"} = {} => \A d \in Daemons : ~AtWork(Tick(d))
  PROVE  LockHeld'
<1>1. lock' \in Locks /\ lock'.by = p /\ ~lock'.old
  BY DEF Locks
<1>2. lock' # None
  BY <1>1, CertificateConstants
<1>3. ASSUME lapses' \cap {"overran", "reclaimed"} = {}, NEW d \in Daemons, AtWork(Tick(d))'
      PROVE  Tick(d) = p
  <2>1. ~AtWork(Tick(d))
    BY <1>3
  <2>2. QED
    BY <1>3, <2>1, IssuerFacts DEF AtWork, Typing, WorkTyped
<1>4. QED
  BY <1>1, <1>2, <1>3 DEF LockHeld, Owns

\* Every step leaves the lock with whoever is at work.
LEMMA LockStep ==
  ASSUME Typing, LockHeld, Next
  PROVE  LockHeld'
<1> USE DEF AtWorkPlaces, Resting
<1>1. ASSUME NEW d \in Daemons, Boot(d) PROVE LockHeld'
  BY <1>1, LockFrame, IssuerFacts DEF Boot, Goto
<1>2. ASSUME NEW d \in Daemons, Reads(d) PROVE LockHeld'
  <2>1. ASSUME NEW e \in Daemons, AtWork(Tick(e))' PROVE AtWork(Tick(e))
    BY <1>2, <2>1, IssuerFacts DEF Reads, AtWork, Typing, WorkTyped
  <2>2. QED
    BY <1>2, <2>1, LockQuiet DEF Reads
<1>3. ASSUME NEW d \in Daemons, UseStored(d) PROVE LockHeld'
  BY <1>3, LockFrame, IssuerFacts DEF UseStored, Rests, Serve, Bind
<1>4. ASSUME NEW d \in Daemons, OrderAtStartup(d) PROVE LockHeld'
  BY <1>4, LockFrame, IssuerFacts DEF OrderAtStartup, StartOrder
<1>5. ASSUME NEW d \in Daemons, GivesUp(d) PROVE LockHeld'
  BY <1>5, LockFrame, IssuerFacts DEF GivesUp, Rests, Serve, Bind
<1>6. ASSUME NEW d \in Daemons, ServesNew(d) PROVE LockHeld'
  BY <1>6, LockFrame, IssuerFacts DEF ServesNew, Rests, Serve, Bind
<1>7. ASSUME NEW d \in Daemons, Ticks(d) PROVE LockHeld'
  BY <1>7, LockGoto, IssuerFacts DEF Ticks
<1>8. ASSUME NEW d \in Daemons, Rotates(d) PROVE LockHeld'
  BY <1>8, LockFrame, IssuerFacts DEF Rotates, At, AtWork, Bind
<1>9. ASSUME NEW d \in Daemons, StartupTimesOut(d) PROVE LockHeld'
  BY <1>9 DEF StartupTimesOut, LockHeld, AtWork, Owns
<1>10. ASSUME NEW d \in Daemons, Stop(d) PROVE LockHeld'
  <2>1. ASSUME NEW e \in Daemons, AtWork(Tick(e))' PROVE AtWork(Tick(e))
    BY <1>10, <2>1, IssuerFacts DEF Stop, AtWork
  <2>2. QED
    BY <1>10, <2>1, LockQuiet DEF Stop
<1>11. ASSUME NEW d \in Daemons, Refused(Tick(d)) PROVE LockHeld'
  BY <1>11, LockFrame, IssuerFacts DEF Refused, Rests
<1>12. ASSUME NEW d \in Daemons, FindsStale(Tick(d)) PROVE LockHeld'
  BY <1>12, LockGoto, IssuerFacts DEF FindsStale
<1>13. ASSUME NEW p \in Issuers, MovesAside(p) PROVE LockHeld'
  BY <1>13, LockFrame DEF MovesAside, At, AtWork
<1>14. ASSUME NEW p \in Issuers, Places(p) PROVE LockHeld'
  BY <1>14, LockFrame DEF Places, At, AtWork, Fails
<1>15. ASSUME NEW p \in Issuers, PutsBack(p) \/ RollbackFails(p) PROVE LockHeld'
  BY <1>15, LockFrame DEF PutsBack, RollbackFails, SwapFails, At, AtWork, Fails
<1>16. ASSUME NEW p \in Issuers, OrderFails(p) PROVE LockHeld'
  BY <1>16, LockFrame DEF OrderFails, At, AtWork, Fails
<1>17. ASSUME NEW d \in Daemons, Takes(Tick(d)) PROVE LockHeld'
  BY <1>17, LockTaken, IssuerFacts DEF Takes, StartOrder, LockHeld, Owns
<1>18. ASSUME NEW d \in Daemons, Reclaims(Tick(d)) PROVE LockHeld'
  BY <1>18, LockTaken, IssuerFacts DEF Reclaims, StartOrder, LockHeld, Owns
<1>19. ASSUME NEW d \in Daemons, Releases(Tick(d)) PROVE LockHeld'
  <2>1. CASE Owns(Tick(d))
    <3>1. ASSUME NEW e \in Daemons, AtWork(Tick(e))', lapses' \cap {"overran", "reclaimed"} = {}
          PROVE  FALSE
      <4>4. work' = [work EXCEPT ![Tick(d)] = Resting]
        BY <1>19 DEF Releases, Rests
      <4>5. e # d
        BY <3>1, <4>4, IssuerFacts DEF AtWork, Typing, WorkTyped
      <4>1. AtWork(Tick(e)) /\ e # d
        BY <3>1, <4>4, <4>5, IssuerFacts DEF AtWork, Typing, WorkTyped
      <4>2. Owns(Tick(e))
        BY <1>19, <3>1, <4>1 DEF LockHeld, Releases
      <4>3. QED
        BY <2>1, <4>1, <4>2 DEF Owns, Tick
    <3>2. QED
      BY <3>1 DEF LockHeld
  <2>2. CASE ~Owns(Tick(d))
    BY <1>19, <2>2, LockFrame, IssuerFacts DEF Releases, Rests
  <2>3. QED
    BY <2>1, <2>2
<1>20. ASSUME NEW n \in 0..MaxBundles, ComesDue(n) PROVE LockHeld'
  BY <1>20 DEF ComesDue, LockHeld, AtWork, Owns
<1>21. CASE LockAges
  BY <1>21 DEF LockAges, LockHeld, AtWork, Owns
<1>22. QED
  BY <1>1, <1>2, <1>3, <1>4, <1>5, <1>6, <1>7, <1>8, <1>9, <1>10, <1>11, <1>12, <1>13, <1>14, <1>15, <1>16, <1>17, <1>18, <1>19, <1>20, <1>21, IssuerFacts
     DEF Next, StartupRuns, TickRuns, Storing, Issuers

-----------------------------------------------------------------------------
(* The bundle.                                                             *)

\* An order that still goes on has the bundle, or the one there was, aside.
Keeps(p) == At(p, "placing") /\ work[p].aside # None

\* A step of one issuer that leaves the live directory alone.
LEMMA BundleFrame ==
  ASSUME Typing, BundleKept, live' = live, account' = account, lapses \subseteq lapses',
         \A p \in Issuers : Keeps(p) => Keeps(p)'
  PROVE  BundleKept'
BY DEF BundleKept, Keeps, At

\* A step that leaves a bundle in the live directory.
LEMMA BundlePut ==
  ASSUME live' # None
  PROVE  BundleKept'
BY DEF BundleKept

\* A step of an issuer that has nothing aside.
LEMMA BundleOne ==
  ASSUME Typing, BundleKept, NEW p \in Issuers, ~At(p, "placing"), NEW w,
         work' = [work EXCEPT ![p] = w],
         live' = live, account' = account, lapses \subseteq lapses'
  PROVE  BundleKept'
<1>1. ASSUME NEW q \in Issuers, Keeps(q) PROVE Keeps(q)'
  BY <1>1 DEF Keeps, At, Typing, WorkTyped
<1>2. QED
  BY <1>1, BundleFrame

\* A tick or a startup that only moves on has nothing aside.
LEMMA BundleGoto ==
  ASSUME Typing, BundleKept, NEW p \in Issuers, ~At(p, "placing"), NEW pc, Goto(p, pc),
         live' = live, account' = account, lapses \subseteq lapses'
  PROVE  BundleKept'
<1>1. ASSUME NEW q \in Issuers, Keeps(q) PROVE Keeps(q)'
  BY <1>1 DEF Keeps, At, Goto, Typing, WorkTyped
<1>2. QED
  BY <1>1, BundleFrame

\* Every step leaves the bundle in place or aside.
LEMMA BundleStep ==
  ASSUME Typing, OffRests, BundleKept, Next
  PROVE  BundleKept'
<1>1. ASSUME NEW d \in Daemons, Boot(d) PROVE BundleKept'
  BY <1>1, BundleGoto, IssuerFacts DEF Boot, OffRests, At
<1>2. ASSUME NEW d \in Daemons, Ticks(d) PROVE BundleKept'
  BY <1>2, BundleGoto, IssuerFacts DEF Ticks, At
<1>3. ASSUME NEW d \in Daemons, FindsStale(Tick(d)) PROVE BundleKept'
  BY <1>3, BundleGoto, IssuerFacts DEF FindsStale, At
<1>4. ASSUME NEW d \in Daemons, Reads(d) PROVE BundleKept'
  <2>1. ASSUME NEW q \in Issuers, Keeps(q) PROVE Keeps(q)'
    BY <1>4, <2>1, IssuerFacts DEF Reads, Keeps, At, Typing, WorkTyped
  <2>2. QED
    BY <1>4, <2>1, BundleFrame DEF Reads
<1>5. ASSUME NEW d \in Daemons, UseStored(d) PROVE BundleKept'
  BY <1>5, BundleOne, IssuerFacts DEF UseStored, At, Rests, Serve, Bind
<1>6. ASSUME NEW d \in Daemons, OrderAtStartup(d) PROVE BundleKept'
  BY <1>6, BundleOne, IssuerFacts DEF OrderAtStartup, At, StartOrder
<1>7. ASSUME NEW d \in Daemons, GivesUp(d) PROVE BundleKept'
  BY <1>7, BundleOne, IssuerFacts DEF GivesUp, At, Rests, Serve, Bind
<1>8. ASSUME NEW d \in Daemons, ServesNew(d) PROVE BundleKept'
  BY <1>8, BundleOne, IssuerFacts DEF ServesNew, At, Rests, Serve, Bind
<1>9. ASSUME NEW d \in Daemons, Rotates(d) PROVE BundleKept'
  BY <1>9, BundleOne, IssuerFacts DEF Rotates, At, Bind
<1>10. ASSUME NEW d \in Daemons, Takes(Tick(d)) PROVE BundleKept'
  BY <1>10, BundleOne, IssuerFacts DEF Takes, At, StartOrder
<1>11. ASSUME NEW d \in Daemons, Refused(Tick(d)) PROVE BundleKept'
  BY <1>11, BundleOne, IssuerFacts DEF Refused, At, Rests
<1>12. ASSUME NEW d \in Daemons, Reclaims(Tick(d)) PROVE BundleKept'
  BY <1>12, BundleOne, IssuerFacts DEF Reclaims, At, StartOrder
<1>13. ASSUME NEW d \in Daemons, Releases(Tick(d)) PROVE BundleKept'
  BY <1>13, BundleOne, IssuerFacts DEF Releases, At, Rests
<1>14. ASSUME NEW p \in Issuers, OrderFails(p) PROVE BundleKept'
  BY <1>14, BundleOne DEF OrderFails, At, Fails
<1>15. ASSUME NEW p \in Issuers, MovesAside(p) PROVE BundleKept'
  <2>1. At(p, "placing")' /\ work'[p].aside = live
    BY <1>15 DEF MovesAside, At, Typing, WorkTyped, Work
  <2>2. CASE live # None
    BY <2>1, <2>2 DEF BundleKept
  <2>3. CASE live = None
    <3>1. ASSUME NEW q \in Issuers, Keeps(q) PROVE Keeps(q)'
      BY <1>15, <3>1 DEF MovesAside, Keeps, At, Typing, WorkTyped
    <3>2. QED
      BY <1>15, <2>3, <3>1, BundleFrame DEF MovesAside
  <2>4. QED
    BY <2>2, <2>3
<1>16. ASSUME NEW p \in Issuers, Places(p) PROVE BundleKept'
  <2>1. work[p].new \in 1..MaxBundles
    BY <1>16 DEF Places, At, Typing, WorkTyped, InOrder, Orders
  <2>2. live' # None
    BY <1>16, <2>1, CertificateConstants DEF Places
  <2>3. QED
    BY <2>2, BundlePut
<1>17. ASSUME NEW p \in Issuers, PutsBack(p) PROVE BundleKept'
  <2>1. CASE live # None \/ work[p].aside # None
    BY <1>17, <2>1, BundlePut DEF PutsBack
  <2>2. CASE live = None /\ work[p].aside = None
    <3>1. ASSUME NEW q \in Issuers, Keeps(q) PROVE Keeps(q)'
      BY <1>17, <2>2, <3>1 DEF PutsBack, SwapFails, Fails, Keeps, At, Typing, WorkTyped
    <3>2. QED
      BY <1>17, <2>2, <3>1, BundleFrame DEF PutsBack, SwapFails
  <2>3. QED
    BY <2>1, <2>2
<1>18. ASSUME NEW d \in Daemons, Stop(d) PROVE BundleKept'
  <2>1. CASE \E p \in Issuers : p[1] = d /\ work[p].aside # None
    BY <1>18, <2>1 DEF Stop, BundleKept
  <2>2. CASE ~\E p \in Issuers : p[1] = d /\ work[p].aside # None
    <3>1. ASSUME NEW q \in Issuers, Keeps(q) PROVE Keeps(q)'
      BY <1>18, <2>2, <3>1 DEF Stop, Keeps, At
    <3>2. QED
      BY <1>18, <2>2, <3>1, BundleFrame DEF Stop
  <2>3. QED
    BY <2>1, <2>2
<1>19. ASSUME NEW d \in Daemons, StartupTimesOut(d) PROVE BundleKept'
  BY <1>19, BundleFrame DEF StartupTimesOut, Keeps, At
<1>20. ASSUME NEW n \in 0..MaxBundles, ComesDue(n) PROVE BundleKept'
  BY <1>20, BundleFrame DEF ComesDue, Keeps, At
<1>21. CASE LockAges
  BY <1>21, BundleFrame DEF LockAges, Keeps, At
<1>23. ASSUME NEW p \in Issuers, RollbackFails(p) PROVE BundleKept'
  BY <1>23 DEF RollbackFails, BundleKept
<1>22. QED
  BY <1>23, <1>1, <1>2, <1>3, <1>4, <1>5, <1>6, <1>7, <1>8, <1>9, <1>10, <1>11, <1>12, <1>13, <1>14, <1>15, <1>16, <1>17, <1>18, <1>19, <1>20, <1>21, IssuerFacts
     DEF Next, StartupRuns, TickRuns, Storing, Issuers

-----------------------------------------------------------------------------
(* Whoever is off rests.                                                   *)

\* A step of an issuer whose daemon is on, and stays on.
LEMMA RestFrame ==
  ASSUME Typing, OffRests, NEW p \in Issuers, NEW w,
         work' = [work EXCEPT ![p] = w],
         daemon[p[1]] # "off" \/ ~At(p, "off"),
         daemon' = daemon \/ \E x : x # "off" /\ daemon' = [daemon EXCEPT ![p[1]] = x]
  PROVE  OffRests'
BY DEF OffRests, At, Typing, WorkTyped, FilesTyped, Issuers

\* An issuer of a daemon that is on moves on.
LEMMA RestGoto ==
  ASSUME Typing, OffRests, NEW p \in Issuers, NEW pc, Goto(p, pc),
         daemon[p[1]] # "off" \/ ~At(p, "off"),
         daemon' = daemon
  PROVE  OffRests'
BY DEF OffRests, At, Goto, Typing, WorkTyped, FilesTyped, Issuers

\* Every step leaves those that are off at rest.
LEMMA RestStepOfDaemons ==
  ASSUME Typing, OffRests, Next
  PROVE  OffRests'
<1>1. ASSUME NEW d \in Daemons, Boot(d) PROVE OffRests'
  BY <1>1, IssuerFacts DEF Boot, Goto, OffRests, At, Typing, WorkTyped, FilesTyped, Issuers
<1>2. ASSUME NEW d \in Daemons, Stop(d) PROVE OffRests'
  BY <1>2 DEF Stop, OffRests, At, Resting, Typing, FilesTyped, Issuers
<1>3. ASSUME NEW d \in Daemons, StartupTimesOut(d) PROVE OffRests'
  BY <1>3 DEF StartupTimesOut, OffRests, At, Typing, FilesTyped, Issuers
<1>4. ASSUME NEW d \in Daemons, Reads(d) PROVE OffRests'
  <2>1. daemon' = daemon /\ At(Startup(d), "reading")
    BY <1>4 DEF Reads
  <2>2. ASSUME NEW p \in Issuers, daemon[p[1]] = "off" PROVE work'[p] = work[p]
    <3>1. p # Startup(d)
      BY <2>1, <2>2 DEF OffRests, At
    <3>2. QED
      BY <1>4, <3>1, IssuerFacts DEF Reads, Typing, WorkTyped
  <2>3. QED
    BY <2>1, <2>2 DEF OffRests, At
<1>5. ASSUME NEW d \in Daemons, UseStored(d) PROVE OffRests'
  <2>1. Startup(d) \in Issuers /\ Startup(d)[1] = d /\ ~At(Startup(d), "off")
    BY <1>5, IssuerFacts DEF UseStored, At
  <2>2. work' = [work EXCEPT ![Startup(d)] = Resting]
        /\ daemon' = [daemon EXCEPT ![d] = "serving"]
    BY <1>5 DEF UseStored, Rests, Serve
  <2>3. QED
    BY <2>1, <2>2, RestFrame
<1>6. ASSUME NEW d \in Daemons, OrderAtStartup(d) PROVE OffRests'
  BY <1>6, RestFrame, IssuerFacts DEF OrderAtStartup, At, StartOrder
<1>7. ASSUME NEW d \in Daemons, GivesUp(d) PROVE OffRests'
  <2>1. Startup(d) \in Issuers /\ Startup(d)[1] = d /\ ~At(Startup(d), "off")
    BY <1>7, IssuerFacts DEF GivesUp, At
  <2>2. work' = [work EXCEPT ![Startup(d)] = Resting]
    BY <1>7 DEF GivesUp, Rests
  <2>3. daemon' = daemon \/ daemon' = [daemon EXCEPT ![d] = "serving"]
    BY <1>7 DEF GivesUp, Serve
  <2>4. QED
    BY <2>1, <2>2, <2>3, RestFrame
<1>8. ASSUME NEW d \in Daemons, ServesNew(d) PROVE OffRests'
  <2>1. Startup(d) \in Issuers /\ Startup(d)[1] = d /\ ~At(Startup(d), "off")
    BY <1>8, IssuerFacts DEF ServesNew, At
  <2>2. work' = [work EXCEPT ![Startup(d)] = Resting]
    BY <1>8 DEF ServesNew, Rests
  <2>3. daemon' = daemon \/ daemon' = [daemon EXCEPT ![d] = "serving"]
    BY <1>8 DEF ServesNew, Serve
  <2>4. QED
    BY <2>1, <2>2, <2>3, RestFrame
<1>9. ASSUME NEW d \in Daemons, Rotates(d) PROVE OffRests'
  BY <1>9, RestFrame, IssuerFacts DEF Rotates, At
<1>10. ASSUME NEW d \in Daemons, Ticks(d) PROVE OffRests'
  BY <1>10, RestGoto, IssuerFacts DEF Ticks
<1>11. ASSUME NEW d \in Daemons, FindsStale(Tick(d)) PROVE OffRests'
  BY <1>11, RestGoto, IssuerFacts DEF FindsStale, At
<1>12. ASSUME NEW d \in Daemons, Takes(Tick(d)) PROVE OffRests'
  BY <1>12, RestFrame, IssuerFacts DEF Takes, At, StartOrder
<1>13. ASSUME NEW d \in Daemons, Refused(Tick(d)) PROVE OffRests'
  BY <1>13, RestFrame, IssuerFacts DEF Refused, At, Rests
<1>14. ASSUME NEW d \in Daemons, Reclaims(Tick(d)) PROVE OffRests'
  BY <1>14, RestFrame, IssuerFacts DEF Reclaims, At, StartOrder
<1>15. ASSUME NEW d \in Daemons, Releases(Tick(d)) PROVE OffRests'
  BY <1>15, RestFrame, IssuerFacts DEF Releases, At, Rests
<1>16. ASSUME NEW p \in Issuers, MovesAside(p) PROVE OffRests'
  BY <1>16 DEF MovesAside, OffRests, At, Typing, WorkTyped
<1>17. ASSUME NEW p \in Issuers, Places(p) PROVE OffRests'
  BY <1>17, RestFrame DEF Places, At, Fails
<1>18. ASSUME NEW p \in Issuers, PutsBack(p) \/ RollbackFails(p) PROVE OffRests'
  BY <1>18, RestFrame DEF PutsBack, RollbackFails, SwapFails, At, Fails
<1>19. ASSUME NEW p \in Issuers, OrderFails(p) PROVE OffRests'
  BY <1>19, RestFrame DEF OrderFails, At, Fails
<1>20. ASSUME NEW n \in 0..MaxBundles, ComesDue(n) PROVE OffRests'
  BY <1>20 DEF ComesDue, OffRests, At
<1>21. CASE LockAges
  BY <1>21 DEF LockAges, OffRests, At
<1>22. QED
  BY <1>1, <1>2, <1>3, <1>4, <1>5, <1>6, <1>7, <1>8, <1>9, <1>10, <1>11, <1>12, <1>13, <1>14, <1>15, <1>16, <1>17, <1>18, <1>19, <1>20, <1>21, IssuerFacts
     DEF Next, StartupRuns, TickRuns, Storing, Issuers

-----------------------------------------------------------------------------
(* Which bundle a listener has.  As long as nothing was stored or put back  *)
(* under another daemon, and every bind succeeded, one daemon serves, and   *)
(* it has or is about to bind every good bundle that is live or aside.      *)

Quiet == lapses \cap {"stored", "unbound"} = {}
Serves(d) == daemon[d] = "serving"
Good(b) == b \notin {None, 0} /\ b \notin due

\* Where the two issuers of a daemon can be; who is off has nothing in hand.
PhaseInv ==
  /\ \A d \in Daemons :
       /\ ~At(Tick(d), "off") => Serves(d)
       /\ At(Startup(d), "reading") => daemon[d] = "starting"
       /\ work[Startup(d)].pc \notin {"locking", "reclaiming", "releasing"}
  /\ \A p \in Issuers : At(p, "off") => work[p] = Resting

\* What has just been ordered is not in its renewal window.
InHand == \A p \in Issuers : work[p].pc \in Orders => work[p].new \notin due

OneListener ==
  /\ \A d \in Daemons : listener[d] # Gone <=> Serves(d)
  /\ \A d, e \in Daemons : Serves(d) /\ Serves(e) => d = e

\* The daemon serves the bundle, or its tick is about to.
Mine(d, b) == listener[d] = b \/ (At(Tick(d), "activating") /\ work[Tick(d)].new = b)

\* A daemon that starts has read what is there, orders only where nothing good
\* is there, and nobody but itself puts a bundle there.
Starts(d) == daemon[d] = "starting" =>
  /\ At(Startup(d), "reading") /\ live # None =>
       {work[Startup(d)].cert, work[Startup(d)].key} \subseteq {None, live}
  /\ work[Startup(d)].pc \in {"ordering", "placing", "failed"} => ~Good(live)
  /\ At(Startup(d), "activating") => live \in {None, work[Startup(d)].new}

Has(d) == Serves(d) /\ Good(live) => Mine(d, live)

\* What the tick is about to bind is live, or nothing is and its own late
\* startup has no other aside.
Activates(d) == At(Tick(d), "activating") =>
  \/ live = work[Tick(d)].new
  \/ live = None /\ (At(Startup(d), "placing") => work[Startup(d)].aside \in {None, work[Tick(d)].new})

\* Only a daemon that serves a good bundle puts it aside.
Aside(d, p) == At(p, "placing") /\ Good(work[p].aside) =>
  Serves(d) /\ (Mine(d, work[p].aside) \/ Good(live))

\* While p has a good bundle aside and a good one is live, q is not about to
\* put that one aside too.
Apart(p, q) ==
  At(p, "placing") /\ Good(work[p].aside) /\ Good(live)
    => work[q].pc \notin {"locking", "reclaiming", "ordering"}

Sound(d) ==
  /\ Starts(d) /\ Has(d) /\ Activates(d)
  /\ Aside(d, Startup(d)) /\ Aside(d, Tick(d))
  /\ Apart(Startup(d), Tick(d)) /\ Apart(Tick(d), Startup(d))

StrandInv == Quiet => OneListener /\ \A d \in Daemons : Sound(d)

\* What the steps below start from.
Before == Typing /\ OffRests /\ PhaseInv /\ InHand /\ StrandInv

\* The issuers are the startups and the ticks of daemons, all different.
LEMMA Issuing ==
  /\ \A p \in Issuers : p[1] \in Daemons /\ (p = Startup(p[1]) \/ p = Tick(p[1]))
  /\ \A d, e \in Daemons : /\ Startup(d) # Tick(e)
                           /\ d # e => Startup(d) # Startup(e) /\ Tick(d) # Tick(e)
BY DEF Startup, Tick, Issuers

\* The sentinels are no bundles.
LEMMA Sentinels == None \notin Nat /\ Gone \notin Nat /\ Plain \notin Nat
BY CertificateConstants

\* A lapse is never forgotten.
LEMMA QuietBefore == ASSUME lapses \subseteq lapses', Quiet' PROVE Quiet
BY DEF Quiet

\* An order leaves what is in use where it was, and its own bundle is new.
LEMMA OrderParts ==
  ASSUME Typing, NEW p \in Issuers, StartOrder(p)
  PROVE  /\ due' \subseteq due
         /\ \A b \in Used : b \in due' <=> b \in due
         /\ work'[p].pc = "ordering" /\ work'[p].new \notin due'
         /\ \A q \in Issuers \ {p} : work'[q] = work[q]
<1> DEFINE n == CHOOSE m \in Unused : TRUE
<1>1. n \in Unused /\ due' = due \ {n}
      /\ work' = [work EXCEPT ![p] = [Resting EXCEPT !.pc = "ordering", !.new = n]]
  BY DEF StartOrder
<1> HIDE DEF n
<1>2. n \notin Used
  BY <1>1 DEF Unused
<1>3. QED
  BY <1>1, <1>2 DEF Typing, WorkTyped, Resting

\* What is live, served or aside is in use.
LEMMA InUse ==
  /\ live \in Used
  /\ \A d \in Daemons : listener[d] \in Used
  /\ \A p \in Issuers : {work[p].cert, work[p].key, work[p].new, work[p].aside} \subseteq Used
BY DEF Used

-----------------------------------------------------------------------------
(* Where the issuers are.                                                  *)

\* One issuer moves on.
LEMMA PhaseFrame ==
  ASSUME Typing, OffRests, PhaseInv, InHand, NEW p \in Issuers, NEW w,
         work' = [work EXCEPT ![p] = w],
         p[2] = "tick" => w.pc = "off" \/ Serves(p[1])',
         p[2] = "startup" => w.pc \notin {"locking", "reclaiming", "releasing"},
         p[2] = "startup" /\ w.pc = "reading" => daemon'[p[1]] = "starting",
         w.pc = "off" => w = Resting,
         w.pc \in Orders => w.new \notin due',
         due' \subseteq due,
         \A d \in Daemons : daemon'[d] = daemon[d]
                            \/ (p = Startup(d) /\ (Serves(d)' \/ daemon[d] = "off"))
  PROVE  PhaseInv' /\ InHand'
<1>1. ASSUME NEW d \in Daemons, ~At(Tick(d), "off")' PROVE Serves(d)'
  BY <1>1, IssuerFacts DEF PhaseInv, OffRests, Serves, At, Typing, WorkTyped
<1>2. ASSUME NEW d \in Daemons, At(Startup(d), "reading")' PROVE daemon'[d] = "starting"
  BY <1>2, IssuerFacts, Issuing DEF PhaseInv, OffRests, Serves, At, Typing, WorkTyped
<1>3. ASSUME NEW d \in Daemons PROVE work'[Startup(d)].pc \notin {"locking", "reclaiming", "releasing"}
  BY <1>3, IssuerFacts DEF PhaseInv, Typing, WorkTyped
<1>4. ASSUME NEW q \in Issuers, At(q, "off")' PROVE work'[q] = Resting
  BY <1>4 DEF PhaseInv, At, Typing, WorkTyped
<1>5. InHand'
  BY DEF InHand, Typing, WorkTyped
<1>6. QED
  BY <1>1, <1>2, <1>3, <1>4, <1>5 DEF PhaseInv

\* Nobody moves.
LEMMA PhaseStays ==
  ASSUME PhaseInv, InHand, UNCHANGED <<work, due>>,
         \A d \in Daemons : daemon'[d] = daemon[d]
                            \/ (Serves(d)' /\ ~At(Startup(d), "reading"))
  PROVE  PhaseInv' /\ InHand'
BY DEF PhaseInv, InHand, Serves, At

\* An issuer orders.
LEMMA PhaseOrders ==
  ASSUME Typing, OffRests, PhaseInv, InHand, NEW p \in Issuers, StartOrder(p),
         p[2] = "tick" => Serves(p[1]), daemon' = daemon
  PROVE  PhaseInv' /\ InHand'
<1> DEFINE n == CHOOSE m \in Unused : TRUE
           w == [Resting EXCEPT !.pc = "ordering", !.new = n]
<1>1. n \in Unused /\ due' = due \ {n} /\ work' = [work EXCEPT ![p] = w]
  BY DEF StartOrder
<1>2. w.pc = "ordering" /\ w.new = n
  BY DEF Resting
<1> HIDE DEF n, w
<1>3. QED
  BY <1>1, <1>2, PhaseFrame DEF Serves, Orders

\* An issuer stops what it was at, or fails.
LEMMA PhaseEnds ==
  ASSUME Typing, OffRests, PhaseInv, InHand, NEW p \in Issuers, Rests(p) \/ (Fails(p) /\ ~At(p, "off")),
         due' = due,
         \A d \in Daemons : daemon'[d] = daemon[d] \/ (p = Startup(d) /\ Serves(d)')
  PROVE  PhaseInv' /\ InHand'
<1>1. CASE Rests(p)
  BY <1>1, RestingWork, PhaseFrame DEF Rests, Orders
<1>2. CASE Fails(p) /\ ~At(p, "off")
  <2> DEFINE w == [Resting EXCEPT !.pc = IF p[2] = "tick" THEN "releasing" ELSE "failed"]
  <2>1. work' = [work EXCEPT ![p] = w]
    BY <1>2 DEF Fails
  <2>2. w.pc = (IF p[2] = "tick" THEN "releasing" ELSE "failed")
    BY DEF Resting
  <2>3. p[2] = "tick" => Serves(p[1])'
    BY <1>2, Issuing, IssuerFacts DEF PhaseInv, Serves
  <2> HIDE DEF w
  <2>4. QED
    BY <2>1, <2>2, <2>3, PhaseFrame DEF Orders
<1>3. QED
  BY <1>1, <1>2

\* Every step leaves the issuers where they can be.
LEMMA PhaseStep ==
  ASSUME Typing, OffRests, PhaseInv, InHand, Next
  PROVE  PhaseInv' /\ InHand'
<1>1. ASSUME NEW d \in Daemons, Boot(d) PROVE PhaseInv' /\ InHand'
  <2> DEFINE w == [Resting EXCEPT !.pc = "reading"]
  <2>1. work[Startup(d)] = Resting
    BY <1>1, IssuerFacts DEF Boot, OffRests, PhaseInv
  <2>2. work' = [work EXCEPT ![Startup(d)] = w] /\ w.pc = "reading"
    BY <1>1, <2>1, IssuerFacts DEF Boot, Goto, Typing, WorkTyped, Resting
  <2> HIDE DEF w
  <2>3. /\ \A e \in Daemons : daemon'[e] = daemon[e] \/ (Startup(d) = Startup(e) /\ daemon[e] = "off")
        /\ daemon'[d] = "starting" /\ due' \subseteq due
    BY <1>1 DEF Boot, Typing, FilesTyped
  <2>4. Startup(d) \in Issuers /\ Startup(d)[1] = d /\ Startup(d)[2] = "startup"
    BY IssuerFacts
  <2>5. w.pc \notin Orders
    BY <2>2 DEF Orders
  <2>6. QED
    BY <2>2, <2>3, <2>4, <2>5, PhaseFrame
<1>2. ASSUME NEW d \in Daemons, Stop(d) PROVE PhaseInv' /\ InHand'
  <2>1. \A p \in Issuers : work'[p] = IF p[1] = d THEN Resting ELSE work[p]
    BY <1>2 DEF Stop
  <2>2. \A e \in Daemons : daemon'[e] = IF e = d THEN "off" ELSE daemon[e]
    BY <1>2 DEF Stop, Typing, FilesTyped
  <2>3. QED
    BY <1>2, <2>1, <2>2, IssuerFacts, RestingWork DEF Stop, PhaseInv, InHand, Orders, Serves, At
<1>3. ASSUME NEW d \in Daemons, StartupTimesOut(d) PROVE PhaseInv' /\ InHand'
  <2>1. \A e \in Daemons : daemon'[e] = daemon[e] \/ (Serves(e)' /\ ~At(Startup(e), "reading"))
    BY <1>3 DEF StartupTimesOut, Typing, FilesTyped, Serves, At
  <2>2. QED
    BY <1>3, <2>1, PhaseStays DEF StartupTimesOut
<1>4. ASSUME NEW d \in Daemons, Reads(d) PROVE PhaseInv' /\ InHand'
  <2>1. /\ \A p \in Issuers : work'[p].pc = work[p].pc /\ work'[p].new = work[p].new
        /\ \A p \in Issuers \ {Startup(d)} : work'[p] = work[p]
    <3>1. PICK file \in {"cert", "key"} : work' = [work EXCEPT ![Startup(d)][file] = live]
      BY <1>4 DEF Reads
    <3>2. QED
      BY <3>1 DEF Typing, WorkTyped, Work
  <2>2. At(Startup(d), "reading") /\ daemon' = daemon /\ due' = due
    BY <1>4 DEF Reads
  <2>3. QED
    BY <2>1, <2>2, IssuerFacts DEF PhaseInv, InHand, At, Serves
<1>5. ASSUME NEW d \in Daemons, UseStored(d) \/ GivesUp(d) \/ ServesNew(d) PROVE PhaseInv' /\ InHand'
  <2>1. Rests(Startup(d)) /\ due' = due
        /\ daemon' \in {daemon, [daemon EXCEPT ![d] = "serving"]}
    BY <1>5 DEF UseStored, GivesUp, ServesNew, Serve
  <2>2. \A e \in Daemons : daemon'[e] = daemon[e] \/ (Startup(d) = Startup(e) /\ Serves(e)')
    BY <2>1 DEF Typing, FilesTyped, Serves
  <2>3. QED
    BY <2>1, <2>2, PhaseEnds, IssuerFacts
<1>6. ASSUME NEW d \in Daemons, OrderAtStartup(d) PROVE PhaseInv' /\ InHand'
  BY <1>6, PhaseOrders, IssuerFacts DEF OrderAtStartup
<1>7. ASSUME NEW d \in Daemons, Ticks(d) \/ FindsStale(Tick(d)) PROVE PhaseInv' /\ InHand'
  <2>1. Serves(d)
    BY <1>7 DEF Ticks, FindsStale, PhaseInv, Serves, At
  <2>2. PICK pc \in {"locking", "reclaiming"} : Goto(Tick(d), pc) /\ UNCHANGED <<due, daemon>>
    BY <1>7 DEF Ticks, FindsStale
  <2> DEFINE w == [work[Tick(d)] EXCEPT !.pc = pc]
  <2>3. work' = [work EXCEPT ![Tick(d)] = w] /\ w.pc = pc
    BY <2>2, IssuerFacts DEF Goto, Typing, WorkTyped, Work
  <2> HIDE DEF w
  <2>4. QED
    BY <2>1, <2>2, <2>3, PhaseFrame, IssuerFacts DEF Orders, Serves
<1>8. ASSUME NEW d \in Daemons, Takes(Tick(d)) \/ Reclaims(Tick(d)) PROVE PhaseInv' /\ InHand'
  <2>1. Serves(d)
    BY <1>8 DEF Takes, Reclaims, PhaseInv, At
  <2>2. QED
    BY <1>8, <2>1, PhaseOrders, IssuerFacts DEF Takes, Reclaims
<1>9. ASSUME NEW d \in Daemons, Refused(Tick(d)) \/ Releases(Tick(d)) PROVE PhaseInv' /\ InHand'
  BY <1>9, PhaseEnds, IssuerFacts DEF Refused, Releases
<1>10. ASSUME NEW d \in Daemons, Rotates(d) PROVE PhaseInv' /\ InHand'
  <2> DEFINE w == [Resting EXCEPT !.pc = "releasing"]
  <2>1. work' = [work EXCEPT ![Tick(d)] = w] /\ w.pc = "releasing"
        /\ UNCHANGED <<daemon, due>> /\ Serves(d)
    BY <1>10 DEF Rotates, Resting, PhaseInv, At
  <2> HIDE DEF w
  <2>2. QED
    BY <2>1, PhaseFrame, IssuerFacts DEF Orders, Serves
<1>11. ASSUME NEW p \in Issuers, OrderFails(p) \/ PutsBack(p) \/ RollbackFails(p)
       PROVE  PhaseInv' /\ InHand'
  BY <1>11, PhaseEnds DEF OrderFails, PutsBack, RollbackFails, SwapFails, At
<1>12. ASSUME NEW p \in Issuers, MovesAside(p) PROVE PhaseInv' /\ InHand'
  <2> DEFINE w == [work[p] EXCEPT !.pc = "placing", !.aside = live]
  <2>1. /\ work' = [work EXCEPT ![p] = w] /\ w.pc = "placing" /\ w.new = work[p].new
        /\ At(p, "ordering") /\ UNCHANGED <<daemon, due>>
    BY <1>12 DEF MovesAside, Typing, WorkTyped, Work
  <2> HIDE DEF w
  <2>2. p[2] = "tick" => Serves(p[1])
    BY <2>1, Issuing, IssuerFacts DEF PhaseInv, At
  <2>3. QED
    BY <2>1, <2>2, PhaseFrame DEF Orders, Serves, InHand, At
<1>13. ASSUME NEW p \in Issuers, Places(p) PROVE PhaseInv' /\ InHand'
  <2>1. CASE Fails(p)
    BY <1>13, <2>1, PhaseEnds DEF Places, At
  <2>2. CASE ~Fails(p)
    <3> DEFINE w == [Resting EXCEPT !.pc = "activating", !.new = work[p].new]
    <3>1. /\ work' = [work EXCEPT ![p] = w] /\ w.pc = "activating" /\ w.new = work[p].new
          /\ At(p, "placing") /\ UNCHANGED <<daemon, due>>
      BY <1>13, <2>2 DEF Places, Resting
    <3> HIDE DEF w
    <3>2. p[2] = "tick" => Serves(p[1])
      BY <3>1, Issuing, IssuerFacts DEF PhaseInv, At
    <3>3. QED
      BY <3>1, <3>2, PhaseFrame DEF Orders, Serves, InHand, At
  <2>3. QED
    BY <2>1, <2>2
<1>14. ASSUME NEW n \in 0..MaxBundles, ComesDue(n) PROVE PhaseInv' /\ InHand'
  BY <1>14 DEF ComesDue, PhaseInv, InHand, Orders, At, Serves
<1>15. CASE LockAges
  BY <1>15 DEF LockAges, PhaseInv, InHand, At, Serves
<1>16. QED
  BY <1>1, <1>2, <1>3, <1>4, <1>5, <1>6, <1>7, <1>8, <1>9, <1>10, <1>11, <1>12, <1>13, <1>14, <1>15, IssuerFacts
     DEF Next, StartupRuns, TickRuns, Storing, Issuers


-----------------------------------------------------------------------------
(* Which bundle a listener has, action by action.                           *)

\* A daemon that is off has nothing to answer for.
LEMMA SoundOff ==
  ASSUME OffRests', NEW d \in Daemons, daemon'[d] = "off"
  PROVE  Sound(d)'
BY IssuerFacts DEF OffRests, At, Sound, Starts, Has, Activates, Aside, Apart, Serves

\* Nor has another than the one that moves, while the same bundle is live.
LEMMA Elsewhere ==
  ASSUME NEW d \in Daemons, Sound(d), daemon'[d] = daemon[d], listener'[d] = listener[d],
         \A p \in {Startup(d), Tick(d)} : work'[p] = work[p],
         live' = live, \A b \in Used : b \in due' <=> b \in due
  PROVE  Sound(d)'
<1> DEFINE s == Startup(d)
           t == Tick(d)
<1>1. {live, listener[d], work[s].new, work[t].new, work[s].aside, work[t].aside} \subseteq Used
  BY InUse, IssuerFacts
<1>2. \A b \in Used : Good(b)' <=> Good(b)
  BY DEF Good
<1>3. work'[s] = work[s] /\ work'[t] = work[t]
  OBVIOUS
<1>4. Good(live)' <=> Good(live)
  BY <1>1, <1>2
<1>5. (Good(work[s].aside)' <=> Good(work[s].aside)) /\ (Good(work[t].aside)' <=> Good(work[t].aside))
  BY <1>1, <1>2, <1>3
<1> QED
  BY <1>3, <1>4, <1>5 DEF Sound, Starts, Has, Activates, Aside, Apart, Mine, At, Serves

\* A bind that succeeds: nobody else serves.
LEMMA BindsAlone ==
  ASSUME NEW d \in Daemons, NEW what, Bind(d, what), Quiet'
  PROVE  ~Taken(d) /\ listener' = [listener EXCEPT ![d] = what]
BY DEF Bind, Quiet

\* The one that binds is the one that serves.
LEMMA OneBinds ==
  ASSUME Typing, OneListener, NEW d \in Daemons, NEW what, what # Gone, ~Taken(d),
         listener' = [listener EXCEPT ![d] = what], Serves(d)',
         \A e \in Daemons \ {d} : daemon'[e] = daemon[e]
  PROVE  OneListener'
BY DEF OneListener, Taken, Serves, Typing, FilesTyped

\* A lapse is never taken back.
LEMMA LapsesGrow == ASSUME Next PROVE lapses \subseteq lapses'
<1>1. ASSUME NEW d \in Daemons, NEW what, Bind(d, what) PROVE lapses \subseteq lapses'
  BY <1>1 DEF Bind
<1>2. ASSUME NEW p, Storing(p) PROVE lapses \subseteq lapses'
  BY <1>2 DEF Storing, MovesAside, Places, PutsBack, RollbackFails
<1>3. ASSUME NEW d \in Daemons, StartupRuns(d) PROVE lapses \subseteq lapses'
  BY <1>1, <1>2, <1>3 DEF StartupRuns, Reads, UseStored, OrderAtStartup, GivesUp, ServesNew, Serve
<1>4. ASSUME NEW d \in Daemons, TickRuns(d) PROVE lapses \subseteq lapses'
  BY <1>1, <1>2, <1>4 DEF TickRuns, Ticks, Takes, Refused, FindsStale, Reclaims, Rotates, Releases
<1>5. QED
  BY <1>3, <1>4 DEF Next, Boot, Stop, StartupTimesOut, OrderFails, ComesDue, LockAges

\* A startup that stores or waits for an order, and whoever it is that orders
\* beside a daemon that serves a good bundle: that bundle is not moved.
LEMMA NobodyElseOrders ==
  ASSUME Before, Quiet, NEW d \in Daemons, Serves(d), Good(live),
         NEW p \in Issuers, p[1] # d
  PROVE  ~At(p, "ordering")
<1> SUFFICES ASSUME At(p, "ordering") PROVE FALSE
  OBVIOUS
<1> DEFINE e == p[1]
<1>1. e \in Daemons /\ p \in {Startup(e), Tick(e)} /\ daemon[e] # "off" /\ ~Serves(e)
  BY Issuing DEF Before, OffRests, StrandInv, OneListener, At
<1>2. daemon[e] = "starting" /\ p = Startup(e)
  BY <1>1 DEF Before, Typing, FilesTyped, Serves, PhaseInv, At
<1>3. Starts(e)
  BY <1>1 DEF Before, StrandInv, Sound
<1>4. QED
  BY <1>2, <1>3 DEF Starts, At

\* While the same bundle is live, only the daemon that moves is concerned.
LEMMA OthersStay ==
  ASSUME Before, Quiet, NEW d \in Daemons,
         \A e \in Daemons \ {d} : daemon'[e] = daemon[e] /\ listener'[e] = listener[e],
         \A p \in Issuers : p[1] # d => work'[p] = work[p],
         live' = live, \A b \in Used : b \in due' <=> b \in due
  PROVE  \A e \in Daemons \ {d} : Sound(e)'
<1> SUFFICES ASSUME NEW e \in Daemons \ {d} PROVE Sound(e)'
  OBVIOUS
<1>1. Sound(e)
  BY DEF Before, StrandInv
<1>2. \A p \in {Startup(e), Tick(e)} : work'[p] = work[p]
  BY IssuerFacts
<1>3. QED
  BY <1>1, <1>2, Elsewhere

\* What the invariant says of one daemon.
LEMMA Then ==
  ASSUME Before, Quiet, NEW d \in Daemons
  PROVE  /\ OneListener /\ Sound(d)
         /\ Starts(d) /\ Has(d) /\ Activates(d) /\ Aside(d, Startup(d)) /\ Aside(d, Tick(d))
         /\ Apart(Startup(d), Tick(d)) /\ Apart(Tick(d), Startup(d))
         /\ daemon[d] = "starting" => At(Tick(d), "off")
BY IssuerFacts DEF Before, StrandInv, Sound, PhaseInv, Serves, At

\* A daemon starts, or a startup reads.
LEMMA BootSound ==
  ASSUME Before, Quiet, NEW d \in Daemons, Boot(d) \/ Reads(d)
  PROVE  OneListener' /\ \A e \in Daemons : Sound(e)'
<1> DEFINE s == Startup(d)
           t == Tick(d)
<1> USE IssuerFacts
<1>1. /\ UNCHANGED <<live, listener, due>> /\ ~Serves(d) /\ daemon'[d] = "starting"
      /\ \A e \in Daemons \ {d} : daemon'[e] = daemon[e]
      /\ \A p \in Issuers : p # s => work'[p] = work[p]
  <2>1. CASE Boot(d)
    BY <2>1 DEF Boot, Before, Typing, FilesTyped, WorkTyped, Goto, Serves
  <2>2. CASE Reads(d)
    BY <2>2 DEF Reads, Before, Typing, WorkTyped, PhaseInv, At, Serves
  <2>3. QED
    BY <2>1, <2>2
<1>2. \A e \in Daemons \ {d} : Sound(e)'
  BY <1>1, OthersStay
<1>3. OneListener'
  BY <1>1, Then DEF OneListener, Serves
<1>4. /\ work'[s].pc = "reading" /\ work'[t].pc = "off"
      /\ live # None => {work'[s].cert, work'[s].key} \subseteq {None, live}
  <2>1. CASE Boot(d)
    <3>1. work[s] = Resting /\ work[t].pc = "off"
      BY <2>1 DEF Boot, Before, OffRests, PhaseInv, At
    <3>2. work'[s] = [Resting EXCEPT !.pc = "reading"]
      BY <2>1, <3>1 DEF Boot, Goto, Before, Typing, WorkTyped
    <3>3. QED
      BY <1>1, <3>1, <3>2 DEF Resting
  <2>2. CASE Reads(d)
    <3>1. PICK file \in {"cert", "key"} : work' = [work EXCEPT ![s][file] = live]
      BY <2>2 DEF Reads
    <3>2. /\ work[s].pc = "reading" /\ daemon[d] = "starting" /\ work[t].pc = "off"
          /\ {work[s].cert, work[s].key} \subseteq {None, live}
      BY <2>2, Then DEF Reads, At, Starts, Before, PhaseInv
    <3>3. work'[s] = [work[s] EXCEPT ![file] = live] /\ work[s] \in Work
      BY <3>1 DEF Before, Typing, WorkTyped
    <3>4. QED
      BY <1>1, <3>2, <3>3 DEF Work
  <2>3. QED
    BY <2>1, <2>2
<1>5. Sound(d)'
  BY <1>1, <1>4 DEF Sound, Starts, Has, Activates, Aside, Apart, At, Serves
<1>6. QED
  BY <1>2, <1>3, <1>5

\* A daemon stops.
LEMMA StopSound ==
  ASSUME Before, Quiet, OffRests', NEW d \in Daemons, Stop(d)
  PROVE  OneListener' /\ \A e \in Daemons : Sound(e)'
<1>1. /\ UNCHANGED <<live, due>> /\ daemon'[d] = "off" /\ listener'[d] = Gone
      /\ \A e \in Daemons \ {d} : daemon'[e] = daemon[e] /\ listener'[e] = listener[e]
      /\ \A p \in Issuers : p[1] # d => work'[p] = work[p]
  BY DEF Stop, Before, Typing, FilesTyped
<1>2. \A e \in Daemons \ {d} : Sound(e)'
  BY <1>1, OthersStay
<1>3. Sound(d)'
  BY <1>1, SoundOff
<1>4. OneListener'
  BY <1>1, Then DEF OneListener, Serves
<1>5. QED
  BY <1>2, <1>3, <1>4

\* A daemon begins to serve when its startup has ended or takes too long.
LEMMA ServeSound ==
  ASSUME Before, Quiet, NEW d \in Daemons, NEW what \in {Plain} \cup 1..MaxBundles,
         ~Taken(d), listener' = [listener EXCEPT ![d] = what],
         daemon[d] = "starting", daemon' = [daemon EXCEPT ![d] = "serving"],
         UNCHANGED <<live, due>>,
         \/ Rests(Startup(d))
         \/ work' = work /\ work[Startup(d)].pc \in {"ordering", "placing"},
         Good(live) => what = live
  PROVE  OneListener' /\ \A e \in Daemons : Sound(e)'
<1> DEFINE s == Startup(d)
           t == Tick(d)
<1> USE IssuerFacts
<1>1. /\ Serves(d)' /\ listener'[d] = what /\ what # Gone
      /\ \A e \in Daemons \ {d} : daemon'[e] = daemon[e] /\ listener'[e] = listener[e]
  BY CertificateConstants, Sentinels DEF Before, Typing, FilesTyped, Serves
<1>2. \A p \in Issuers : p # s => work'[p] = work[p]
  BY DEF Rests, Before, Typing, WorkTyped
<1>3. \A e \in Daemons \ {d} : Sound(e)'
  BY <1>1, <1>2, OthersStay
<1>4. OneListener'
  BY <1>1, Then, OneBinds DEF Before
<1>5. /\ work'[t].pc = "off"
      /\ work'[s].pc = "off" \/ (work' = work /\ ~Good(live))
  BY <1>2, Then, RestingWork DEF Rests, Before, Typing, WorkTyped, At, Starts
<1>6. At(s, "placing") => ~Good(work[s].aside)
  BY Then DEF Aside, Serves
<1>7. Sound(d)'
  <2>1. CASE work'[s].pc = "off"
    BY <1>1, <1>5, <2>1 DEF Sound, Starts, Has, Activates, Aside, Apart, Mine, At, Serves, Good
  <2>2. CASE work' = work /\ ~Good(live) /\ work'[s].pc # "off"
    BY <1>1, <1>5, <1>6, <2>2, Then DEF Sound, Starts, Has, Activates, Aside, Apart, Mine, At, Serves, Good
  <2>3. QED
    BY <1>5, <2>1, <2>2
<1>8. QED
  BY <1>3, <1>4, <1>7

\* A startup ends, or goes on without a listener of TLS.
LEMMA StartupEndsSound ==
  ASSUME Before, Quiet, Quiet', NEW d \in Daemons, daemon[d] = "starting",
         UseStored(d) \/ GivesUp(d) \/ ServesNew(d) \/ StartupTimesOut(d)
  PROVE  OneListener' /\ \A e \in Daemons : Sound(e)'
<1> DEFINE s == Startup(d)
<1> USE IssuerFacts
<1>1. CASE UseStored(d)
  <2>1. work[s].cert = work[s].key /\ Usable(work[s]) /\ At(s, "reading")
    BY <1>1 DEF UseStored, Quiet
  <2>2. work[s].cert \in 1..MaxBundles
    BY <2>1 DEF Usable, Complete, Covers, Before, Typing, WorkTyped, Work
  <2>3. Good(live) => work[s].cert = live
    BY <2>1, Then DEF Starts, Good, Usable, Complete
  <2>4. Bind(d, work[s].cert) /\ daemon' = [daemon EXCEPT ![d] = "serving"]
        /\ Rests(s) /\ UNCHANGED <<live, due>>
    BY <1>1, <2>1 DEF UseStored, Serve
  <2>5. ~Taken(d) /\ listener' = [listener EXCEPT ![d] = work[s].cert]
    BY <2>4, BindsAlone
  <2> DEFINE what == work[s].cert
  <2>6. what \in {Plain} \cup 1..MaxBundles /\ (Good(live) => what = live)
    BY <2>2, <2>3
  <2>7. listener' = [listener EXCEPT ![d] = what]
    BY <2>5
  <2> HIDE DEF what
  <2>8. QED
    BY <2>4, <2>5, <2>6, <2>7, ServeSound
<1>2. CASE GivesUp(d)
  <2>1. Bind(d, Plain) /\ daemon' = [daemon EXCEPT ![d] = "serving"]
        /\ Rests(s) /\ UNCHANGED <<live, due>> /\ ~Good(live)
    BY <1>2, Then DEF GivesUp, Serve, Starts, At
  <2>2. ~Taken(d) /\ listener' = [listener EXCEPT ![d] = Plain]
    BY <2>1, BindsAlone
  <2>3. QED
    BY <1>2, <2>1, <2>2, ServeSound
<1>3. CASE ServesNew(d)
  <2>1. Bind(d, work[s].new) /\ daemon' = [daemon EXCEPT ![d] = "serving"]
        /\ Rests(s) /\ UNCHANGED <<live, due>> /\ live \in {None, work[s].new}
        /\ work[s].new \in 1..MaxBundles
    BY <1>3, Then DEF ServesNew, Serve, Starts, At, Before, Typing, WorkTyped, InOrder, Orders
  <2>2. ~Taken(d) /\ listener' = [listener EXCEPT ![d] = work[s].new]
    BY <2>1, BindsAlone
  <2> DEFINE what == work[s].new
  <2>3. what \in {Plain} \cup 1..MaxBundles /\ (Good(live) => what = live)
    BY <2>1 DEF Good
  <2>4. listener' = [listener EXCEPT ![d] = what]
    BY <2>2
  <2> HIDE DEF what
  <2>5. QED
    BY <2>1, <2>2, <2>3, <2>4, ServeSound
<1>4. CASE StartupTimesOut(d)
  <2>1. /\ listener' = [listener EXCEPT ![d] = Plain] /\ daemon' = [daemon EXCEPT ![d] = "serving"]
        /\ ~Taken(d) /\ UNCHANGED <<work, live, due>> /\ work[s].pc \in {"ordering", "placing"}
    BY <1>4 DEF StartupTimesOut, Quiet
  <2>2. ~Good(live)
    BY <2>1, Then DEF Starts
  <2>3. QED
    BY <2>1, <2>2, ServeSound
<1>5. QED
  BY <1>1, <1>2, <1>3, <1>4

\* An issuer goes on to wait, to order or to rest: it has nothing aside, its
\* tick is not about to bind, and it orders only where nothing good is live.
LEMMA WorkSound ==
  ASSUME Before, Quiet, NEW d \in Daemons, NEW p \in {Startup(d), Tick(d)},
         UNCHANGED <<live, daemon, listener>>, \A b \in Used : b \in due' <=> b \in due,
         \A q \in Issuers \ {p} : work'[q] = work[q],
         ~At(p, "placing"), p = Tick(d) => ~At(p, "activating"),
         work'[p].pc \notin {"placing", "activating", "reading"},
         work'[p].pc \in {"locking", "reclaiming", "ordering"} =>
           work[p].pc \in {"locking", "reclaiming", "ordering"} \/ ~Good(live),
         p = Startup(d) /\ daemon[d] = "starting" => ~Good(live)
  PROVE  OneListener' /\ \A e \in Daemons : Sound(e)'
<1> DEFINE s == Startup(d)
           t == Tick(d)
<1> USE IssuerFacts
<1>1. \A e \in Daemons \ {d} : Sound(e)'
  BY OthersStay
<1>2. OneListener'
  BY Then DEF OneListener, Serves
<1>3. /\ {live, work[s].aside, work[t].aside} \subseteq Used
      /\ \A b \in Used : Good(b)' <=> Good(b)
  BY InUse DEF Good
<1>4. Good(live)' <=> Good(live)
  BY <1>3
<1>5. CASE p = s
  <2>1. work'[t] = work[t] /\ (Good(work[t].aside)' <=> Good(work[t].aside))
    BY <1>3, <1>5
  <2>2. Starts(d)'
    BY <1>4, <1>5 DEF Starts, At
  <2>3. Has(d)' /\ Activates(d)' /\ Aside(d, t)'
    BY <1>4, <1>5, <2>1, Then DEF Has, Activates, Aside, Mine, Serves, At
  <2>4. Aside(d, s)' /\ Apart(s, t)' /\ Apart(t, s)'
    BY <1>4, <1>5, <2>1, Then DEF Aside, Apart, At
  <2>5. QED
    BY <1>1, <1>2, <2>2, <2>3, <2>4 DEF Sound
<1>6. CASE p = t
  <2>1. work'[s] = work[s] /\ (Good(work[s].aside)' <=> Good(work[s].aside))
    BY <1>3, <1>6
  <2>2. Starts(d)'
    BY <1>4, <2>1, Then DEF Starts, At
  <2>3. Has(d)' /\ Activates(d)' /\ Aside(d, s)'
    BY <1>4, <1>6, <2>1, Then DEF Has, Activates, Aside, Mine, Serves, At
  <2>4. Aside(d, t)' /\ Apart(s, t)' /\ Apart(t, s)'
    BY <1>4, <1>6, <2>1, Then DEF Aside, Apart, At
  <2>5. QED
    BY <1>1, <1>2, <2>2, <2>3, <2>4 DEF Sound
<1>7. QED
  BY <1>5, <1>6

\* A late startup rests, and ticks come, wait, order, are refused and end.
LEMMA IssuerSound ==
  ASSUME Before, Quiet, NEW d \in Daemons,
         \/ OrderAtStartup(d) \/ Ticks(d)
         \/ daemon[d] # "starting" /\ (GivesUp(d) \/ ServesNew(d))
         \/ Takes(Tick(d)) \/ Reclaims(Tick(d)) \/ Refused(Tick(d)) \/ FindsStale(Tick(d)) \/ Releases(Tick(d))
         \/ OrderFails(Startup(d)) \/ OrderFails(Tick(d))
  PROVE  OneListener' /\ \A e \in Daemons : Sound(e)'
<1> DEFINE s == Startup(d)
           t == Tick(d)
<1> USE IssuerFacts
<1>1. CASE OrderAtStartup(d)
  <2>1. UNCHANGED <<live, daemon, listener>> /\ At(s, "reading") /\ StartOrder(s)
        /\ daemon[d] = "starting"
    BY <1>1 DEF OrderAtStartup, Before, PhaseInv
  <2>2. ~Good(live)
    <3>1. live # None => Complete(work[s]) /\ ~Usable(work[s])
      BY <1>1 DEF OrderAtStartup
    <3>2. live # None => {work[s].cert, work[s].key} \subseteq {None, live}
      BY <2>1, Then DEF Starts
    <3>3. QED
      BY <3>1, <3>2 DEF Complete, Usable, Fresh, Covers, Good
  <2>3. QED
    BY <2>1, <2>2, OrderParts, WorkSound DEF Before, At
<1>2. CASE Ticks(d) \/ FindsStale(t)
  <2>1. PICK pc \in {"locking", "reclaiming"} : Goto(t, pc)
    BY <1>2 DEF Ticks, FindsStale
  <2>2. work'[t].pc = pc /\ \A q \in Issuers \ {t} : work'[q] = work[q]
    BY <2>1 DEF Goto, Before, Typing, WorkTyped, Work
  <2>3. /\ UNCHANGED <<live, daemon, listener, due>>
        /\ \/ At(t, "off") /\ ~Good(live)
           \/ At(t, "locking")
    BY <1>2 DEF Ticks, FindsStale, Good, Fresh
  <2>4. QED
    BY <2>2, <2>3, WorkSound DEF At
<1>3. CASE daemon[d] # "starting" /\ (GivesUp(d) \/ ServesNew(d))
  <2>1. /\ UNCHANGED <<live, daemon, listener, due>> /\ Rests(s)
        /\ work[s].pc \in {"failed", "activating"}
    BY <1>3 DEF GivesUp, ServesNew, At
  <2>2. work'[s].pc = "off" /\ \A q \in Issuers \ {s} : work'[q] = work[q]
    BY <2>1, RestingWork DEF Rests, Before, Typing, WorkTyped
  <2>3. QED
    BY <1>3, <2>1, <2>2, WorkSound DEF At
<1>4. CASE Takes(t) \/ Reclaims(t)
  <2>1. UNCHANGED <<live, daemon, listener>> /\ StartOrder(t) /\ work[t].pc \in {"locking", "reclaiming"}
    BY <1>4 DEF Takes, Reclaims, At
  <2>2. QED
    BY <2>1, OrderParts, WorkSound DEF Before, At
<1>5. CASE Refused(t) \/ Releases(t)
  <2>1. UNCHANGED <<live, daemon, listener, due>> /\ Rests(t) /\ work[t].pc \in {"locking", "releasing"}
    BY <1>5 DEF Refused, Releases, At
  <2>2. work'[t].pc = "off" /\ \A q \in Issuers \ {t} : work'[q] = work[q]
    BY <2>1, RestingWork DEF Rests, Before, Typing, WorkTyped
  <2>3. QED
    BY <2>1, <2>2, WorkSound DEF At
<1>6. ASSUME NEW p \in {s, t}, OrderFails(p) PROVE OneListener' /\ \A e \in Daemons : Sound(e)'
  <2>1. UNCHANGED <<live, daemon, listener, due>> /\ Fails(p) /\ At(p, "ordering")
    BY <1>6 DEF OrderFails
  <2>2. work'[p].pc \in {"releasing", "failed"} /\ \A q \in Issuers \ {p} : work'[q] = work[q]
    BY <2>1 DEF Fails, Before, Typing, WorkTyped, Resting
  <2>3. p = s /\ daemon[d] = "starting" => ~Good(live)
    BY <2>1, Then DEF Starts, At
  <2>4. QED
    BY <2>1, <2>2, <2>3, WorkSound DEF At
<1>7. QED
  BY <1>1, <1>2, <1>3, <1>4, <1>5, <1>6

\* A tick binds what it has ordered.
LEMMA RotateSound ==
  ASSUME Before, Quiet, Quiet', NEW d \in Daemons, Rotates(d)
  PROVE  OneListener' /\ \A e \in Daemons : Sound(e)'
<1> DEFINE s == Startup(d)
           t == Tick(d)
           n == work[t].new
<1> USE IssuerFacts
<1>1. /\ UNCHANGED <<live, daemon, due>> /\ Bind(d, n) /\ At(t, "activating") /\ Serves(d)
      /\ work'[t].pc = "releasing" /\ \A q \in Issuers \ {t} : work'[q] = work[q]
      /\ n \in 1..MaxBundles
  BY DEF Rotates, Before, Typing, WorkTyped, PhaseInv, At, Resting, InOrder, Orders
<1>2. n \notin due /\ n # Gone /\ n \notin {None, 0}
  BY <1>1, Sentinels DEF Before, InHand, At, Orders
<1>3. ~Taken(d) /\ listener' = [listener EXCEPT ![d] = n]
  BY <1>1, BindsAlone
<1>4. /\ listener'[d] = n
      /\ \A e \in Daemons \ {d} : daemon'[e] = daemon[e] /\ listener'[e] = listener[e]
  BY <1>1, <1>3 DEF Before, Typing, FilesTyped
<1>5. \/ live = n
      \/ live = None /\ (At(s, "placing") => work[s].aside \in {None, n})
  BY <1>1, Then DEF Activates
<1> HIDE DEF n
<1>6. OneListener'
  BY <1>1, <1>2, <1>3, <1>4, Then, OneBinds DEF Before, Serves
<1>7. \A e \in Daemons \ {d} : Sound(e)'
  BY <1>1, <1>4, OthersStay
<1>8. work'[s] = work[s]
  BY <1>1
<1>9. Starts(d)' /\ Has(d)' /\ Activates(d)' /\ Aside(d, t)' /\ Apart(s, t)' /\ Apart(t, s)'
  BY <1>1, <1>4, <1>5 DEF Starts, Has, Activates, Aside, Apart, Mine, Serves, Good, At
<1>10. Aside(d, s)'
  BY <1>1, <1>2, <1>4, <1>5, <1>8 DEF Aside, Mine, Serves, Good, At
<1>11. QED
  BY <1>6, <1>7, <1>9, <1>10 DEF Sound

\* An issuer puts what is live aside: the good bundle of its own daemon only.
LEMMA AsideSound ==
  ASSUME Before, Quiet, NEW d \in Daemons, NEW p \in {Startup(d), Tick(d)}, MovesAside(p)
  PROVE  OneListener' /\ \A e \in Daemons : Sound(e)'
<1> DEFINE s == Startup(d)
           t == Tick(d)
<1> USE IssuerFacts
<1>1. /\ UNCHANGED <<daemon, listener, due>> /\ live' = None /\ At(p, "ordering")
      /\ work'[p].pc = "placing" /\ work'[p].aside = live
      /\ \A q \in Issuers \ {p} : work'[q] = work[q]
  BY DEF MovesAside, Before, Typing, WorkTyped, Work
<1>2. OneListener'
  BY <1>1, Then DEF OneListener, Serves
<1>3. ~Good(live)' /\ \A b : Good(b)' <=> Good(b)
  BY <1>1 DEF Good
<1>4. ASSUME NEW e \in Daemons \ {d} PROVE Sound(e)'
  <2>1. Good(live) => ~Serves(e)
    BY <1>1, NobodyElseOrders
  <2>2. work'[Startup(e)] = work[Startup(e)] /\ work'[Tick(e)] = work[Tick(e)]
    BY <1>1
  <2>3. ASSUME At(Tick(e), "activating") PROVE live # work[Tick(e)].new
    <3>1. Serves(e) /\ Good(work[Tick(e)].new)
      BY <2>3, CertificateConstants DEF Before, PhaseInv, InHand, At, Orders, Typing, WorkTyped, InOrder, Good
    <3>2. QED
      BY <2>1, <3>1
  <2>4. Starts(e)' /\ Has(e)' /\ Apart(Startup(e), Tick(e))' /\ Apart(Tick(e), Startup(e))'
    BY <1>1, <1>3 DEF Starts, Has, Apart, At, Serves
  <2>5. Activates(e)'
    BY <1>1, <2>2, <2>3, Then DEF Activates, At
  <2>6. Aside(e, Startup(e))' /\ Aside(e, Tick(e))'
    BY <1>1, <1>3, <2>1, <2>2, Then DEF Aside, Mine, Serves, At
  <2>7. QED
    BY <2>4, <2>5, <2>6 DEF Sound
<1>5. Starts(d)' /\ Has(d)' /\ Apart(s, t)' /\ Apart(t, s)'
  BY <1>1, <1>3 DEF Starts, Has, Apart, At, Serves
<1>6. Good(live) => Serves(d) /\ Mine(d, live)
  <2>1. Good(live) => Serves(d)
    BY <1>1, Then DEF Starts, Serves, At, Before, PhaseInv, OffRests, Typing, FilesTyped
  <2>2. QED
    BY <2>1, Then DEF Has
<1>7. CASE p = s
  <2>1. work'[t] = work[t]
    BY <1>1, <1>7
  <2>2. Activates(d)'
    BY <1>1, <1>7, <2>1, Then DEF Activates, At
  <2>3. Aside(d, s)'
    BY <1>1, <1>3, <1>6, <1>7, <2>1 DEF Aside, Mine, At, Serves
  <2>4. Aside(d, t)'
    BY <1>1, <1>3, <1>7, <2>1, Then DEF Aside, Apart, Mine, At, Serves
  <2>5. QED
    BY <1>2, <1>4, <1>5, <2>2, <2>3, <2>4 DEF Sound
<1>8. CASE p = t
  <2>1. work'[s] = work[s]
    BY <1>1, <1>8
  <2>2. Activates(d)'
    BY <1>1, <1>8 DEF Activates, At
  <2>3. Aside(d, t)'
    BY <1>1, <1>3, <1>6, <1>8 DEF Aside, Mine, At, Serves
  <2>4. Aside(d, s)'
    BY <1>1, <1>3, <1>8, <2>1, Then DEF Aside, Apart, Mine, At, Serves
  <2>5. QED
    BY <1>2, <1>4, <1>5, <2>2, <2>3, <2>4 DEF Sound
<1>9. QED
  BY <1>7, <1>8

\* What is ordered is stored: for the only daemon that is up, or nobody is misled.
LEMMA PlaceSound ==
  ASSUME Before, Quiet, Quiet', OffRests', NEW d \in Daemons, NEW p \in {Startup(d), Tick(d)}, Places(p)
  PROVE  OneListener' /\ \A e \in Daemons : Sound(e)'
<1> DEFINE s == Startup(d)
           t == Tick(d)
           n == work[p].new
<1> USE IssuerFacts
<1>1. /\ UNCHANGED <<daemon, listener, due>> /\ live = None /\ live' = n /\ At(p, "placing")
      /\ ~(p[2] = "startup" /\ daemon[p[1]] = "serving") /\ ~OthersUp(p) /\ count' = count
  BY DEF Places, Quiet
<1>2. work' = [work EXCEPT ![p] = [Resting EXCEPT !.pc = "activating", !.new = n]]
  <2>1. ~Spend("faults")
    BY <1>1 DEF Spend, Before, Typing, FilesTyped
  <2>2. QED
    BY <2>1 DEF Places
<1>3. /\ work'[p].pc = "activating" /\ work'[p].new = n
      /\ \A q \in Issuers \ {p} : work'[q] = work[q]
  BY <1>2 DEF Before, Typing, WorkTyped, Resting
<1>4. n \notin due /\ n \in 1..MaxBundles
  BY <1>1 DEF Before, InHand, Typing, WorkTyped, InOrder, At, Orders
<1>5. n \notin {None, 0} /\ Good(live)'
  BY <1>1, <1>4, Sentinels DEF Good
<1>6. daemon[d] # "off" /\ \A e \in Daemons \ {d} : daemon[e] = "off"
  BY <1>1 DEF OthersUp, Before, OffRests, At
<1> HIDE DEF n
<1>7. OneListener'
  BY <1>1, Then DEF OneListener, Serves
<1>8. \A e \in Daemons \ {d} : Sound(e)'
  BY <1>1, <1>6, SoundOff
<1>9. CASE p = s
  <2>1. daemon[d] = "starting" /\ work'[t] = work[t] /\ At(t, "off")
    BY <1>1, <1>3, <1>6, <1>9, Then DEF Before, Typing, FilesTyped
  <2>2. Sound(d)'
    BY <1>1, <1>3, <1>9, <2>1 DEF Sound, Starts, Has, Activates, Aside, Apart, At, Serves
  <2>3. QED
    BY <1>7, <1>8, <2>2
<1>10. CASE p = t
  <2>1. Serves(d) /\ work'[s] = work[s]
    BY <1>1, <1>3, <1>10 DEF Before, PhaseInv, At
  <2>2. Sound(d)'
    BY <1>1, <1>3, <1>5, <1>10, <2>1 DEF Sound, Starts, Has, Activates, Aside, Apart, Mine, At, Serves
  <2>3. QED
    BY <1>7, <1>8, <2>2
<1>11. QED
  BY <1>9, <1>10

\* What was live is put back.
LEMMA BackSound ==
  ASSUME Before, Quiet, Quiet', OffRests', NEW d \in Daemons, NEW p \in {Startup(d), Tick(d)}, PutsBack(p)
  PROVE  OneListener' /\ \A e \in Daemons : Sound(e)'
<1> DEFINE s == Startup(d)
           t == Tick(d)
           b == work[p].aside
<1> USE IssuerFacts
<1>1. /\ UNCHANGED <<daemon, listener, due>> /\ live = None /\ live' = b /\ At(p, "placing")
      /\ b = None \/ ~OthersUp(p)
      /\ Fails(p)
  BY DEF PutsBack, SwapFails, Misleads, Quiet
<1>2. /\ work'[p].pc = IF p = t THEN "releasing" ELSE "failed"
      /\ \A q \in Issuers \ {p} : work'[q] = work[q]
  BY <1>1 DEF Fails, Before, Typing, WorkTyped, Resting
<1>3. ~Good(live) /\ \A a : Good(a)' <=> Good(a)
  BY <1>1 DEF Good
<1>4. Good(b) => Serves(d) /\ Mine(d, b)
  BY <1>1, <1>3, Then DEF Aside
<1>5. Good(live)' <=> Good(b)
  BY <1>1, <1>3
<1> HIDE DEF b
<1>6. OneListener'
  BY <1>1, Then DEF OneListener, Serves
<1>7. \A e \in Daemons \ {d} : Sound(e)'
  <2>1. CASE b = None
    BY <1>1, <1>2, <2>1, OthersStay
  <2>2. CASE b # None
    BY <1>1, <2>2, SoundOff DEF OthersUp
  <2>3. QED
    BY <2>1, <2>2
<1>8. Starts(d)'
  BY <1>1, <1>2, <1>4, <1>5, Then DEF Starts, Serves, At
<1>9. CASE p = s
  <2>1. work'[t] = work[t] /\ work'[s].pc = "failed"
    BY <1>2, <1>9
  <2>2. Has(d)' /\ Aside(d, t)'
    BY <1>1, <1>3, <1>4, <1>5, <1>9, <2>1, Then DEF Has, Aside, Mine, Serves, At
  <2>3. Activates(d)'
    <3>1. SUFFICES ASSUME At(t, "activating") PROVE live' \in {None, work[t].new}
      BY <2>1 DEF Activates, At
    <3>2. work[t].new # None
      BY <3>1, Sentinels DEF Before, Typing, WorkTyped, InOrder, Orders, At
    <3>3. QED
      BY <1>1, <1>9, <3>1, <3>2, Then DEF Activates, b
  <2>4. Aside(d, s)' /\ Apart(s, t)' /\ Apart(t, s)'
    BY <2>1 DEF Aside, Apart, At
  <2>5. QED
    BY <1>6, <1>7, <1>8, <2>2, <2>3, <2>4 DEF Sound
<1>10. CASE p = t
  <2>1. work'[s] = work[s] /\ work'[t].pc = "releasing"
    BY <1>2, <1>10
  <2>2. Has(d)' /\ Aside(d, s)'
    BY <1>1, <1>3, <1>4, <1>5, <1>10, <2>1, Then DEF Has, Aside, Mine, Serves, At
  <2>3. Activates(d)' /\ Aside(d, t)' /\ Apart(s, t)' /\ Apart(t, s)'
    BY <2>1 DEF Activates, Aside, Apart, At
  <2>4. QED
    BY <1>6, <1>7, <1>8, <2>2, <2>3 DEF Sound
<1>11. QED
  BY <1>9, <1>10

\* What was live is lost: the issuer has failed, and nothing is live.
LEMMA LostSound ==
  ASSUME Before, Quiet, NEW d \in Daemons, NEW p \in {Startup(d), Tick(d)}, RollbackFails(p)
  PROVE  OneListener' /\ \A e \in Daemons : Sound(e)'
<1> DEFINE s == Startup(d)
           t == Tick(d)
<1> USE IssuerFacts
<1>1. /\ UNCHANGED <<live, daemon, listener, due>> /\ live = None /\ At(p, "placing") /\ Fails(p)
  BY DEF RollbackFails, SwapFails
<1>2. /\ work'[p].pc = IF p = t THEN "releasing" ELSE "failed"
      /\ \A q \in Issuers \ {p} : work'[q] = work[q]
  BY <1>1 DEF Fails, Before, Typing, WorkTyped, Resting
<1>3. ~Good(live)' /\ \A b : Good(b)' <=> Good(b)
  BY <1>1 DEF Good
<1>4. OneListener'
  BY <1>1, Then DEF OneListener, Serves
<1>5. \A e \in Daemons \ {d} : Sound(e)'
  BY <1>1, <1>2, OthersStay
<1>6. Starts(d)' /\ Has(d)' /\ Apart(s, t)' /\ Apart(t, s)'
  BY <1>1, <1>2, <1>3 DEF Starts, Has, Apart, Serves, At
<1>7. CASE p = s
  BY <1>1, <1>2, <1>3, <1>4, <1>5, <1>6, <1>7, Then DEF Sound, Activates, Aside, Mine, Serves, At
<1>8. CASE p = t
  BY <1>1, <1>2, <1>3, <1>4, <1>5, <1>6, <1>8, Then DEF Sound, Activates, Aside, Mine, Serves, At
<1>9. QED
  BY <1>7, <1>8

\* While nobody is at work a bundle comes due, or the lock grows old.
LEMMA AgeSound ==
  ASSUME Before, Quiet, (\E n \in 0..MaxBundles : ComesDue(n)) \/ LockAges
  PROVE  OneListener' /\ \A e \in Daemons : Sound(e)'
<1> USE IssuerFacts
<1>1. OneListener'
  BY Then DEF OneListener, Serves, ComesDue, LockAges, Before, StrandInv
<1>2. CASE \E n \in 0..MaxBundles : ComesDue(n)
  <2>1. /\ UNCHANGED <<live, daemon, listener, work>> /\ due \subseteq due'
        /\ \A p \in Issuers : work[p].pc = "off"
    BY <1>2 DEF ComesDue, At
  <2>2. ASSUME NEW e \in Daemons PROVE Sound(e)'
    <3>1. Good(live)' => Good(live)
      BY <2>1 DEF Good
    <3>2. Has(e)'
      BY <2>1, <3>1, Then DEF Has, Mine, Serves, At
    <3>3. QED
      BY <2>1, <3>2 DEF Sound, Starts, Activates, Aside, Apart, At
  <2>3. QED
    BY <1>1, <2>2
<1>3. CASE LockAges
  BY <1>1, <1>3, Then, Elsewhere DEF LockAges
<1>4. QED
  BY <1>2, <1>3

\* Every step keeps it.
LEMMA StrandStep ==
  ASSUME Before, OffRests', Next
  PROVE  StrandInv'
<1> SUFFICES ASSUME Quiet' PROVE OneListener' /\ \A e \in Daemons : Sound(e)'
  BY DEF StrandInv
<1>1. Quiet
  BY LapsesGrow, QuietBefore
<1>2. ASSUME NEW d \in Daemons, GivesUp(d) \/ ServesNew(d)
      PROVE  OneListener' /\ \A e \in Daemons : Sound(e)'
  BY <1>1, <1>2, StartupEndsSound, IssuerSound
<1>3. ASSUME NEW d \in Daemons, UseStored(d) \/ StartupTimesOut(d)
      PROVE  OneListener' /\ \A e \in Daemons : Sound(e)'
  <2>1. daemon[d] = "starting"
    BY <1>3 DEF UseStored, StartupTimesOut, Before, PhaseInv
  <2>2. QED
    BY <1>1, <1>3, <2>1, StartupEndsSound
<1>4. ASSUME NEW d \in Daemons, NEW p \in {Startup(d), Tick(d)}, Storing(p)
      PROVE  OneListener' /\ \A e \in Daemons : Sound(e)'
  BY <1>1, <1>4, AsideSound, PlaceSound, BackSound, LostSound DEF Storing
<1>5. ASSUME NEW d \in Daemons, StartupRuns(d)
      PROVE  OneListener' /\ \A e \in Daemons : Sound(e)'
  BY <1>1, <1>2, <1>3, <1>4, <1>5, BootSound, IssuerSound DEF StartupRuns
<1>6. ASSUME NEW d \in Daemons, TickRuns(d)
      PROVE  OneListener' /\ \A e \in Daemons : Sound(e)'
  BY <1>1, <1>4, <1>6, RotateSound, IssuerSound DEF TickRuns
<1>7. ASSUME NEW p \in Issuers, OrderFails(p)
      PROVE  OneListener' /\ \A e \in Daemons : Sound(e)'
  BY <1>1, <1>7, Issuing, IssuerSound
<1>8. QED
  BY <1>1, <1>3, <1>5, <1>6, <1>7, BootSound, StopSound, AgeSound DEF Next

-----------------------------------------------------------------------------
(* The theorems.                                                           *)

\* Files, locks, daemons and orders keep their types, an order has a bundle in
\* hand, whoever is at work holds a young lock unless a lapse is recorded, and
\* the bundle is in place or aside.
THEOREM CertificateInvariance == Spec => []IInv
<1>1. IInv /\ [Next]_vars => IInv'
  <2> SUFFICES ASSUME IInv, [Next]_vars PROVE IInv'
    OBVIOUS
  <2>1. CASE Next
    BY <2>1, TypingStep, LockStep, RestStepOfDaemons, BundleStep DEF IInv
  <2>2. CASE UNCHANGED vars
    BY <2>2 DEF vars, IInv, Typing, FilesTyped, WorkTyped, InOrder, LockHeld, Owns, AtWork,
                OffRests, BundleKept, At
  <2>3. QED
    BY <2>1, <2>2
<1>2. QED
  BY InitIInv, <1>1, PTL DEF Spec

\* A listener serves a bundle that covers its domain, whatever is on disk.
THEOREM ListenersServeTheirDomain == Spec => []TypeOK
<1>1. IInv => TypeOK
  BY TypingImpliesTypeOK DEF IInv
<1>2. QED
  BY <1>1, CertificateInvariance, PTL

\* The lock file lets one tick at a time order, over any number of daemons,
\* crashes and restarts, unless one overran its ten minutes or two ticks
\* reclaimed the lock of a dead daemon at the same time.
THEOREM OneTickOrders == Spec => []OneOrder
<1>1. IInv => OneOrder
  BY IssuerFacts DEF IInv, LockHeld, OneOrder, Owns
<1>2. QED
  BY <1>1, CertificateInvariance, PTL

\* Once there has been a bundle there is one, or one is being put in its place,
\* whatever else moves, fails or stops -- unless a crash hit between renames.
THEOREM BundleNeverLost == Spec => []BundleStays
<1>1. IInv => BundleStays
  BY DEF IInv, BundleKept, BundleStays
<1>2. QED
  BY <1>1, CertificateInvariance, PTL

\* The issuers of a daemon are where they can be, an order has a bundle that is
\* not due, and, until something is stored or put back under another daemon or
\* a bind fails, one daemon serves and has every good bundle that is live.
THEOREM ListenerInvariance == Spec => [](IInv /\ PhaseInv /\ InHand /\ StrandInv)
<1>1. Init => PhaseInv /\ InHand /\ StrandInv
  <2> SUFFICES ASSUME Init PROVE PhaseInv /\ InHand /\ StrandInv
    OBVIOUS
  <2>1. \A p \in Issuers : work[p] = Resting /\ At(p, "off")
    BY RestingWork DEF Init, At
  <2>2. \A d \in Daemons : daemon[d] = "off" /\ listener[d] = Gone
    BY DEF Init
  <2>3. PhaseInv /\ InHand
    BY <2>1, IssuerFacts, RestingWork DEF PhaseInv, InHand, Orders, At
  <2>4. \A d \in Daemons : Sound(d)
    BY <2>1, <2>2, IssuerFacts DEF Sound, Starts, Has, Activates, Aside, Apart, At, Serves
  <2>5. QED
    BY <2>2, <2>3, <2>4 DEF StrandInv, OneListener, Serves
<1>2. IInv /\ PhaseInv /\ InHand /\ StrandInv /\ [Next]_vars => PhaseInv' /\ InHand' /\ StrandInv'
  <2> SUFFICES ASSUME IInv, PhaseInv, InHand, StrandInv, [Next]_vars PROVE PhaseInv' /\ InHand' /\ StrandInv'
    OBVIOUS
  <2>1. CASE Next
    BY <2>1, PhaseStep, RestStepOfDaemons, StrandStep DEF IInv, Before
  <2>2. CASE UNCHANGED vars
    <3>1. PhaseInv' /\ InHand'
      BY <2>2 DEF vars, PhaseInv, InHand, At, Serves
    <3>2. StrandInv'
      BY <2>2 DEF vars, StrandInv, Quiet, OneListener, Sound, Starts, Has, Activates, Aside, Apart, Mine,
                  Good, At, Serves
    <3>3. QED
      BY <3>1, <3>2
  <2>3. QED
    BY <2>1, <2>2
<1>3. QED
  BY <1>1, <1>2, CertificateInvariance, PTL DEF Spec

\* A certificate on disk that no tick will renew is the one the listener has,
\* unless it was stored or put back under another daemon, could not be bound,
\* or is not for this domain.
THEOREM StrandedListenersHaveAReason == Spec => []StrandedNeedsLapse
<1>1. IInv /\ PhaseInv /\ InHand /\ StrandInv => StrandedNeedsLapse
  <2> SUFFICES ASSUME IInv, StrandInv, NEW d \in Daemons, daemon[d] = "serving", AllOff(d), Fresh(live),
                      live # 0, lapses \cap {"stored", "unbound"} = {}
               PROVE  Secure(d)
    BY DEF StrandedNeedsLapse
  <2>1. Good(live) /\ live \in Nat
    BY DEF Fresh, Good, IInv, Typing, FilesTyped
  <2>2. listener[d] = live
    BY <2>1 DEF StrandInv, Quiet, Sound, Has, Mine, Serves, AllOff, At
  <2>3. QED
    BY <2>1, <2>2, Sentinels DEF Secure, Good
<1>2. QED
  BY <1>1, ListenerInvariance, PTL
=============================================================================
