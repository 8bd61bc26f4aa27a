---------------------------- MODULE WorkflowBoard ----------------------------
(***************************************************************************)
(* The workflow statuses and the board: status-catalog.ts and              *)
(* worktree-board.ts behind their HTTP handlers (ui-api.ts), and the       *)
(* catalog a browser tab shows (status-catalog-context.tsx), refetched on  *)
(* every status.catalog.changed event.                                     *)
(*                                                                         *)
(* Two JSON files are the state.  Every handler reads a file, awaits, and  *)
(* writes the whole file; nothing serialises the handlers, and nothing     *)
(* ties the two files together.  A file is read, and written, in one step. *)
(***************************************************************************)
EXTENDS EventBus

CONSTANTS
  Statuses,      \* status ids
  Names,         \* status names (with their colours)
  Worktrees,     \* worktree paths
  Requests,      \* mutating requests under way at the same time (a bound)
  Fetches,       \* catalog fetches of the tab under way (a bound)
  MaxRequests,   \* bound: mutating requests
  MaxFailures    \* bound: failed writes, failed fetches and daemon restarts

ASSUME BoardAssumption ==
  /\ IsFiniteSet(Statuses) /\ IsFiniteSet(Worktrees)
  /\ Types = {"catalog", "board", "activity", "notification"}
  /\ MaxRequests \in Nat /\ MaxFailures \in Nat

VARIABLES
  catalog,       \* statuses.json: status id -> name, on a set of ids
  board,         \* board.json: worktree -> status id, on a set of worktrees
  req,           \* the mutating requests
  fetch,         \* the catalog fetches of the tab
  shown,         \* the catalog the tab shows
  requests,      \* mutating requests so far
  failures,      \* failed writes, failed fetches and restarts so far
  excused,       \* history: the tab missed a change for a known reason
  torn           \* history: worktrees left on a deleted status by a race

fileVars == <<catalog, board>>
tabVars  == <<fetch, shown, excused>>
vars == <<busVars, fileVars, req, tabVars, requests, failures, torn>>

Catalogs == UNION {[S -> Names] : S \in SUBSET Statuses}
Boards   == UNION {[W -> Statuses] : W \in SUBSET Worktrees}
NoRequest == [phase |-> "none"]
NoFetch   == [phase |-> "none"]

With(f, x, v) == [y \in DOMAIN f \union {x} |-> IF y = x THEN v ELSE f[y]]
Without(f, S) == [x \in DOMAIN f \ S |-> f[x]]
OnStatus(b, s) == {w \in DOMAIN b : b[w] = s}

-----------------------------------------------------------------------------
(* Mutants.                                                                *)

(* The delete clears the worktrees it noted when it began.                 *)
ClearNoted(q) ==
  CASE q.op = "delete" -> q.affected
    [] q.op = "clear"  -> {q.tree} \intersect DOMAIN board
    [] q.op = "assign" -> {}

(* A refresh is dropped while another one is under way.                    *)
RefreshUnlessLoading ==
  IF \E f \in Fetches : fetch[f] # NoFetch
  THEN UNCHANGED fetch
  ELSE \E f \in Fetches : fetch' = [fetch EXCEPT ![f] = [phase |-> "asked"]]

-----------------------------------------------------------------------------
(* The handlers.                                                           *)

(* What a handler holds across an await: the file it is going to write,    *)
(* and whether that file was written by somebody else since it was read    *)
(* (history).                                                              *)
Request(op, first, id, name, tree) ==
  [phase |-> first, op |-> op, id |-> id, name |-> name, tree |-> tree,
   affected |-> {}, next |-> <<>>, stale |-> FALSE]

Arrive(r) ==
  /\ req[r] = NoRequest /\ requests < MaxRequests
  /\ requests' = requests + 1
  /\ \/ \E n \in Names :
          req' = [req EXCEPT ![r] = Request("create", "loadCatalog", "", n, "")]
     \/ \E s \in Statuses, n \in Names :
          req' = [req EXCEPT ![r] = Request("update", "loadCatalog", s, n, "")]
     \/ \E s \in Statuses :
          req' = [req EXCEPT ![r] = Request("delete", "affected", s, "", "")]
     \/ \E s \in Statuses, w \in Worktrees :
          req' = [req EXCEPT ![r] = Request("assign", "loadCatalog", s, "", w)]
     \/ \E w \in Worktrees :
          req' = [req EXCEPT ![r] = Request("clear", "loadBoard", "", "", w)]
  /\ UNCHANGED <<busVars, fileVars, tabVars, failures, torn>>

(* handleStatusDelete notes whom to tell about, before anything changes.   *)
NoteAffected(r) ==
  /\ req[r].phase = "affected"
  /\ req' = [req EXCEPT ![r].phase = "loadCatalog",
                        ![r].affected = OnStatus(board, req[r].id)]
  /\ UNCHANGED <<busVars, fileVars, tabVars, requests, failures, torn>>

(* The catalog is read.  A new status gets an id that this catalog does    *)
(* not have; an unknown id ends the request.                               *)
LoadCatalog(r) ==
  /\ req[r].phase = "loadCatalog"
  /\ \/ /\ req[r].op = "create"
        /\ \E s \in Statuses \ DOMAIN catalog :
             req' = [req EXCEPT ![r].phase = "saveCatalog", ![r].id = s,
                                ![r].next = With(catalog, s, req[r].name)]
     \/ /\ req[r].op = "update" /\ req[r].id \in DOMAIN catalog
        /\ req' = [req EXCEPT ![r].phase = "saveCatalog",
                              ![r].next = [catalog EXCEPT ![req[r].id] = req[r].name]]
     \/ /\ req[r].op = "delete" /\ req[r].id \in DOMAIN catalog
        /\ req' = [req EXCEPT ![r].phase = "saveCatalog",
                              ![r].next = Without(catalog, {req[r].id})]
     \/ /\ req[r].op = "assign" /\ req[r].id \in DOMAIN catalog
        /\ req' = [req EXCEPT ![r].phase = "loadBoard"]
     \/ /\ req[r].op # "create" /\ req[r].id \notin DOMAIN catalog
        /\ req' = [req EXCEPT ![r] = NoRequest]
  /\ UNCHANGED <<busVars, fileVars, tabVars, requests, failures, torn>>

(* The worktrees that a request takes off the board.                       *)
ToClear(q) ==
  CASE q.op = "delete" -> OnStatus(board, q.id)
    [] q.op = "clear"  -> {q.tree} \intersect DOMAIN board
    [] q.op = "assign" -> {}

(* The board is read.  Nothing to clear means nothing to write.            *)
LoadBoard(r) ==
  LET q == req[r] IN
  /\ q.phase = "loadBoard"
  /\ \/ /\ q.op = "assign"
        /\ req' = [req EXCEPT ![r].phase = "saveBoard",
                              ![r].next = With(board, q.tree, q.id)]
     \/ /\ q.op # "assign" /\ ToClear(q) # {}
        /\ req' = [req EXCEPT ![r].phase = "saveBoard",
                              ![r].next = Without(board, ToClear(q))]
     \/ /\ q.op # "assign" /\ ToClear(q) = {}
        /\ req' = [req EXCEPT ![r].phase = "answer"]
  /\ UNCHANGED <<busVars, fileVars, tabVars, requests, failures, torn>>

(* Worktrees whose status is not in the catalog.                           *)
Dangling == {w \in DOMAIN board : board[w] \notin DOMAIN catalog}

(* Whether this step of r leaves such worktrees is a race if r writes what *)
(* somebody else has changed since, or does not do the rest of a delete.   *)
MarkTorn(race) ==
  torn' = Dangling' \intersect (torn \union (IF race THEN Worktrees ELSE {}))

(* One file is written; whoever read it before holds an old one now.       *)
Saved(r, next) ==
  [q \in Requests |->
     IF q = r THEN [req[r] EXCEPT !.phase = next, !.next = <<>>, !.stale = FALSE]
     ELSE IF req[q].phase = req[r].phase THEN [req[q] EXCEPT !.stale = TRUE]
     ELSE req[q]]

SaveCatalog(r) ==
  /\ req[r].phase = "saveCatalog"
  /\ catalog' = req[r].next
  /\ req' = Saved(r, IF req[r].op = "delete" THEN "loadBoard" ELSE "answer")
  /\ UNCHANGED <<busVars, board, tabVars, requests, failures>>
  /\ MarkTorn(req[r].stale)

SaveBoard(r) ==
  /\ req[r].phase = "saveBoard"
  /\ board' = req[r].next
  /\ req' = Saved(r, "answer")
  /\ UNCHANGED <<busVars, catalog, tabVars, requests, failures>>
  /\ MarkTorn(req[r].stale \/ (req[r].op = "assign" /\ req[r].id \notin DOMAIN catalog))

(* Both files or one of them were written: the bus is told.                *)
Answer(r) ==
  LET q == req[r]
      changed == CASE q.op \in {"create", "update"} -> <<"catalog">>
                   [] q.op \in {"assign", "clear"}  -> <<"board">>
                   [] q.op = "delete" ->
                        <<"catalog">> \o [w \in 1..Cardinality(q.affected) |-> "board"]
  IN  /\ q.phase = "answer"
      /\ Publish(changed)
      /\ req' = [req EXCEPT ![r] = NoRequest]
      /\ UNCHANGED <<fileVars, tabVars, requests, failures, torn>>

AgentActivity ==
  /\ PublishActivity
  /\ UNCHANGED <<fileVars, req, tabVars, requests, failures, torn>>

HalfDeleted(r) ==
  req[r] # NoRequest /\ req[r].op = "delete" /\ req[r].phase \in {"loadBoard", "saveBoard"}

(* A write fails: the handler throws and the request ends there, with      *)
(* nobody told.                                                            *)
SaveFails(r) ==
  /\ req[r].phase \in {"saveCatalog", "saveBoard"}
  /\ failures < MaxFailures
  /\ failures' = failures + 1
  /\ req' = [req EXCEPT ![r] = NoRequest]
  /\ excused' = (excused \/ HalfDeleted(r))
  /\ UNCHANGED <<busVars, fileVars, fetch, shown, requests>>
  /\ MarkTorn(HalfDeleted(r))

-----------------------------------------------------------------------------
(* The tab.                                                                *)

(* refresh(): nothing keeps two of them apart.                             *)
Refresh ==
  \E f \in Fetches :
    /\ fetch[f] = NoFetch
    /\ fetch' = [fetch EXCEPT ![f] = [phase |-> "asked"]]

TabConnects ==
  /\ Connect
  /\ excused' = (excused \/ \E e \in Lost : e.type = "catalog")
  /\ UNCHANGED <<fileVars, req, fetch, shown, requests, failures, torn>>

TabLosesConnection ==
  /\ Disconnect
  /\ UNCHANGED <<fileVars, req, tabVars, requests, failures, torn>>

TabReceives ==
  /\ Receive
  /\ IF Head(wire).type = "catalog" THEN Refresh ELSE UNCHANGED fetch
  /\ UNCHANGED <<fileVars, req, shown, excused, requests, failures, torn>>

(* handleStatusList reads the file; the answer is on its way.              *)
ServeFetch(f) ==
  /\ fetch[f].phase = "asked"
  /\ fetch' = [fetch EXCEPT ![f] =
                 [phase |-> "answered", value |-> catalog, overtaken |-> FALSE,
                  older |-> {g \in Fetches : fetch[g].phase = "answered"}]]
  /\ UNCHANGED <<busVars, fileVars, req, shown, excused, requests, failures, torn>>

(* The answer arrives and is shown, whatever arrived before.               *)
ApplyFetch(f) ==
  /\ fetch[f].phase = "answered"
  /\ shown' = fetch[f].value
  /\ fetch' = [g \in Fetches |->
                 IF g = f THEN NoFetch
                 ELSE IF fetch[g].phase # "answered" THEN fetch[g]
                 ELSE [fetch[g] EXCEPT !.older = @ \ {f},
                                       !.overtaken = @ \/ g \in fetch[f].older]]
  /\ excused' = /\ excused \/ fetch[f].overtaken
                /\ \E g \in Fetches : fetch[g].phase = "answered" /\ fetch[g].value # catalog
  /\ UNCHANGED <<busVars, fileVars, req, requests, failures, torn>>

(* A failed fetch leaves what is shown and is not repeated.                *)
FetchFails(f) ==
  /\ fetch[f] # NoFetch /\ failures < MaxFailures
  /\ failures' = failures + 1
  /\ fetch' = [fetch EXCEPT ![f] = NoFetch]
  /\ excused' = TRUE
  /\ UNCHANGED <<busVars, fileVars, req, shown, requests, torn>>

(* The catalog has changed and the bus has not been told yet.              *)
Unannounced(r) ==
  \/ req[r].phase = "answer" /\ req[r].op \in {"create", "update", "delete"}
  \/ HalfDeleted(r)

(* The daemon dies and is started again.  The files stay.                  *)
DaemonRestarts ==
  /\ failures < MaxFailures
  /\ failures' = failures + 1
  /\ BusRestarts
  /\ req' = [r \in Requests |-> NoRequest]
  /\ fetch' = [f \in Fetches |-> IF fetch[f].phase = "asked" THEN NoFetch ELSE fetch[f]]
  /\ excused' = \/ excused
                \/ \E e \in due : e.type = "catalog"
                \/ \E f \in Fetches : fetch[f].phase = "asked"
                \/ \E r \in Requests : Unannounced(r)
  /\ UNCHANGED <<fileVars, shown, requests>>
  /\ MarkTorn(\E r \in Requests : HalfDeleted(r))

-----------------------------------------------------------------------------

(* The daemon is up, the files hold some catalog and an empty board, and   *)
(* the tab has just mounted: its first fetch is under way.                 *)
Init ==
  /\ BusInit
  /\ catalog \in Catalogs /\ board = <<>>
  /\ req = [r \in Requests |-> NoRequest]
  /\ shown = <<>>
  /\ \E f \in Fetches :
       fetch = [g \in Fetches |-> IF g = f THEN [phase |-> "asked"] ELSE NoFetch]
  /\ requests = 0 /\ failures = 0
  /\ excused = FALSE /\ torn = {}

Handler(r) ==
  \/ Arrive(r) \/ NoteAffected(r) \/ LoadCatalog(r) \/ LoadBoard(r)
  \/ SaveCatalog(r) \/ SaveBoard(r) \/ Answer(r) \/ SaveFails(r)

Tab ==
  \/ TabConnects \/ TabLosesConnection \/ TabReceives
  \/ \E f \in Fetches : ServeFetch(f) \/ ApplyFetch(f) \/ FetchFails(f)

Next == (\E r \in Requests : Handler(r)) \/ Tab \/ AgentActivity \/ DaemonRestarts

Spec == Init /\ [][Next]_vars

-----------------------------------------------------------------------------
(* Properties.                                                             *)

(* Every variable has its type; the history of the bus keeps to its        *)
(* capacity (DaemonEventBus.publish).                                      *)
TypeOK ==
  /\ BusTypeOK
  /\ catalog \in Catalogs /\ shown \in Catalogs /\ board \in Boards
  /\ \A r \in Requests : req[r].phase \in
       {"none", "affected", "loadCatalog", "saveCatalog", "loadBoard", "saveBoard", "answer"}
  /\ \A f \in Fetches : fetch[f].phase \in {"none", "asked", "answered"}
  /\ requests \in 0..MaxRequests /\ failures \in 0..MaxFailures
  /\ excused \in BOOLEAN /\ torn \subseteq Worktrees

(* The tab has its stream, has read everything on it, waits for no answer, *)
(* and no handler has a change to announce.                                *)
Settled ==
  /\ open /\ wire = <<>>
  /\ \A f \in Fetches : fetch[f] = NoFetch
  /\ \A r \in Requests : ~Unannounced(r)

(* StatusCatalogProvider: a settled tab shows the catalog of the daemon,   *)
(* whatever was fetched, announced and replayed in whatever order, unless  *)
(* an event was evicted, hidden or never published before the tab came     *)
(* back, a fetch failed, or an old answer came after a newer one.          *)
StaleNeedsLapse == Settled /\ ~excused => shown = catalog

(* handleStatusDelete and handleWorktreeStatus: the board keeps a worktree *)
(* on a deleted status only while the delete is still at it, or because a  *)
(* handler wrote what another one had changed since it looked, or a delete *)
(* was cut off between its two files.                                      *)
DanglingNeedsRace ==
  \A w \in Dangling \ torn : \E r \in Requests : HalfDeleted(r) /\ req[r].id = board[w]
=============================================================================
