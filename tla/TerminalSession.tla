-------------------------- MODULE TerminalSession --------------------------
(* One terminal session: the actor and its byte journal, the WebSocket      *)
(* handlers in front of it (packages/daemon/src/terminal-layer: actor.ts,   *)
(* byte-journal.ts, ws-handler.ts) and the browser's connection             *)
(* (apps/web/src/lib/terminal-connection.ts).                               *)
(*                                                                          *)
(* The actor runs its commands one at a time.  A command that awaits the    *)
(* backend (rename, terminate) holds up the queue while sockets open and    *)
(* close and the process writes; all other commands are done before the     *)
(* next event is handled.  An output chunk is its sequence number.          *)
(* A client opens one socket after the other: <<c, n>> is its n-th.         *)
EXTENDS Naturals, Sequences, FiniteSets

CONSTANTS
  Clients,      \* browser tabs that show the terminal
  None,
  MaxSockets,   \* bound: sockets opened, of all clients together
  MaxSeq,       \* bound: chunks the process writes 
  MaxQueue      \* bound: commands waiting in the actor

Sockets == Clients \X (1 .. MaxSockets)

ASSUME TerminalAssumption ==
  /\ {MaxSockets, MaxSeq, MaxQueue} \subseteq Nat \ {0}
  /\ IsFiniteSet(Clients) /\ None \notin Sockets

VARIABLES
  status,       \* "running", "terminating" or "exited"
  queue,        \* the commands, the one that runs first
  busy,         \* the first command awaits the backend
  attachments,  \* the attachment hub; a socket is one attachment
  controllers,  \* attachments with isController set
  control,      \* control.controllerAttachmentId
  latest,       \* journal: last sequence number
  first,        \* journal: oldest retained sequence number
  exiting,      \* the process has exited
  sock,         \* what has become of each socket
  greeted,      \* sockets whose hello was answered: data.attached, detach
  inbox,        \* frames on their way to the client
  used,         \* number of sockets each client has opened
  ack,          \* the client's lastAckSeq, its hello's last seen sequence
  seen,         \* the last chunk its screen shows
  done,         \* the client has given up or was told to
  early,        \* history: sockets closed while their attach was waiting
  behind,       \* history: clients that reconnected with ack behind seen
  skipped,      \* history: clients with a chunk missing, never announced
  repeated      \* history: clients shown a chunk twice

hub == <<attachments, controllers, control>>
journal == <<latest, first>>
browser == <<used, ack, seen, done, behind, skipped, repeated>>
wires == <<sock, greeted, inbox, early>>
vars == <<status, queue, busy, hub, journal, exiting, wires, browser>>

Commands ==
  [op : {"attach", "detach", "request", "release"}, by : Sockets]
    \cup [op : {"rename", "terminate", "exit"}, by : {None}]
Frames ==
  [type : {"output", "replay"}, seq : 1 .. MaxSeq]
    \cup [type : {"gap", "exit", "fatal"}, seq : {0}]

TypeOK ==
  /\ status \in {"running", "terminating", "exited"}
  /\ queue \in Seq(Commands)
  /\ busy \in BOOLEAN /\ (busy => queue # <<>>)
  /\ attachments \subseteq Sockets /\ controllers \subseteq Sockets
  /\ control \in Sockets \cup {None}
  /\ latest \in 0 .. MaxSeq /\ first \in 0 .. latest
  /\ exiting \in BOOLEAN
  /\ sock \in [Sockets -> {"none", "open", "shut", "cut", "closed"}]
  /\ greeted \subseteq Sockets /\ early \subseteq Sockets
  /\ inbox \in [Sockets -> Seq(Frames)]
  /\ used \in [Clients -> 0 .. MaxSockets]
  /\ ack \in [Clients -> 0 .. MaxSeq] /\ seen \in [Clients -> 0 .. MaxSeq]
  /\ {done, behind, skipped, repeated} \subseteq SUBSET Clients

Init ==
  /\ status = "running" /\ queue = <<>> /\ busy = FALSE
  /\ attachments = {} /\ controllers = {} /\ control = None
  /\ latest = 0 /\ first = 0 /\ exiting = FALSE
  /\ sock = [x \in Sockets |-> "none"] /\ greeted = {} /\ early = {}
  /\ inbox = [x \in Sockets |-> <<>>]
  /\ used = [c \in Clients |-> 0]
  /\ ack = [c \in Clients |-> 0] /\ seen = [c \in Clients |-> 0]
  /\ done = {} /\ behind = {} /\ skipped = {} /\ repeated = {}

-----------------------------------------------------------------------------
(* The command queue.                                                       *)

(* Queued commands run before the next event, unless the first one awaits   *)
(* the backend.                                                             *)
Quiet == busy \/ queue = <<>>

Queued(op, by) == Append(queue, [op |-> op, by |-> by])
HasRoom == Len(queue) < MaxQueue

(* Frames sent to a socket that is not open are dropped.                    *)
Sent(frames) ==
  [x \in Sockets |-> IF sock[x] = "open" THEN inbox[x] \o frames[x] ELSE inbox[x]]

(* The server closes the sockets in "which": shut for good (code 1000), cut *)
(* with a code after which the client reconnects.                           *)
Closing(which, how) ==
  [x \in Sockets |-> IF x \in which /\ sock[x] = "open" THEN how ELSE sock[x]]

(* The first command is done.                                               *)
Done == queue' = Tail(queue) /\ busy' = FALSE

NoFrames == [x \in Sockets |-> <<>>]

(* planReplay: whether chunks after "from" are gone.                        *)
Gap(from) == from < latest /\ from + 1 < first

(* planReplay: the retained chunks after "from".                            *)
Replay(from) ==
  LET start == IF from + 1 < first THEN first ELSE from + 1 IN
  IF from >= latest THEN <<>>
  ELSE [i \in 1 .. latest - start + 1 |->
          [type |-> "replay", seq |-> start + i - 1]]

(* doAttach.  The first to ask controls.  A gap is announced before the     *)
(* retained chunks; an exited session is replayed, and closed again.        *)
RunAttach(x) ==
  LET from   == ack[x[1]]
      takes  == control = None   \* the client always asks for control
      gone   == status = "exited"
      frames == (IF Gap(from) /\ ~gone THEN <<[type |-> "gap", seq |-> 0]>> ELSE <<>>)
                \o Replay(from)
                \o (IF gone THEN <<[type |-> "exit", seq |-> 0]>> ELSE <<>>) IN
  /\ inbox' = Sent([NoFrames EXCEPT ![x] = frames])
  /\ control' = IF takes THEN x ELSE control
  /\ attachments' = IF gone THEN attachments ELSE attachments \cup {x}
  /\ controllers' = IF takes /\ ~gone THEN controllers \cup {x} ELSE controllers
  /\ sock' = IF gone THEN Closing({x}, "shut") ELSE sock
  /\ greeted' = greeted \cup {x}
  /\ UNCHANGED <<status, exiting>>

(* doDetach.                                                                *)
RunDetach(x) ==
  /\ attachments' = attachments \ {x}
  /\ controllers' = controllers \ {x}
  /\ control' = IF x \in controllers \cap attachments THEN None ELSE control
  /\ sock' = IF x \in attachments THEN Closing({x}, "shut") ELSE sock
  /\ UNCHANGED <<status, exiting, greeted, inbox>>

(* doRequestControl: whoever asks takes over.                               *)
RunRequest(x) ==
  /\ control' = IF x \in attachments THEN x ELSE control
  /\ controllers' = IF x \in attachments THEN {x} ELSE controllers
  /\ UNCHANGED <<attachments, status, exiting, sock, greeted, inbox>>

(* doReleaseControl.                                                        *)
RunRelease(x) ==
  /\ control' = IF x \in controllers \cap attachments THEN None ELSE control
  /\ controllers' = controllers \ {x}
  /\ UNCHANGED <<attachments, status, exiting, sock, greeted, inbox>>

(* onPtyExit: every attachment gets the exit frame and is closed; the data  *)
(* listener is removed.                                                     *)
RunExit ==
  /\ status' = "exited"
  /\ inbox' = Sent([x \in Sockets |->
       IF x \in attachments THEN <<[type |-> "exit", seq |-> 0]>> ELSE <<>>])
  /\ sock' = Closing(attachments, "shut")
  /\ attachments' = {} /\ controllers' = {}
  /\ UNCHANGED <<control, exiting, greeted>>

(* The first command runs to its end.                                       *)
RunCommand ==
  /\ ~busy /\ queue # <<>>
  /\ LET cmd == Head(queue) IN
     \/ cmd.op = "attach"  /\ RunAttach(cmd.by)
     \/ cmd.op = "detach"  /\ RunDetach(cmd.by)
     \/ cmd.op = "request" /\ RunRequest(cmd.by)
     \/ cmd.op = "release" /\ RunRelease(cmd.by)
     \/ cmd.op = "exit"    /\ RunExit
     \/ /\ cmd.op = "terminate" /\ status # "running"
        /\ UNCHANGED <<status, exiting, hub, sock, greeted, inbox>>
  /\ Done
  /\ UNCHANGED <<journal, early, browser>>

(* setTitle and terminate get as far as the backend.                        *)
CommandAwaits ==
  /\ ~busy /\ queue # <<>>
  /\ \/ Head(queue).op = "rename" /\ status' = status
     \/ Head(queue).op = "terminate" /\ status = "running" /\ status' = "terminating"
  /\ busy' = TRUE
  /\ UNCHANGED <<queue, hub, journal, exiting, wires, browser>>

(* The backend answers, or fails, which the actor swallows.                 *)
BackendAnswers ==
  /\ busy
  /\ Done
  /\ UNCHANGED <<status, hub, journal, exiting, wires, browser>>

-----------------------------------------------------------------------------
(* The process and the HTTP API.                                            *)

(* Mutant: the last chunk goes as well.                                     *)
RetainsNothing == {latest + 2}

(* evictUntilWithinCapacity: which chunk may be the oldest after an append. *)
(* Chunks go by their size in bytes, but never the last.                    *)
Retained == (IF first = 0 THEN 1 ELSE first) .. latest + 1

(* maybeBackpressure: a controller that is cut off loses control.           *)
ControlWithout(slow) ==
  IF slow \cap controllers # {} THEN None ELSE control

(* Mutant: the data listener outlives the exit.                             *)
ListensForever == TRUE

(* Whether the actor listens to the process; onPtyExit ends it.             *)
Listens == status # "exited"

(* onPtyData, outside the queue: append to the journal and send to every    *)
(* attachment.  Those whose socket buffer is over its budget ("slow") are   *)
(* cut off.                                                                 *)
PtyData == \E oldest \in Retained, slow \in SUBSET attachments :
  /\ Quiet /\ Listens
  /\ latest < MaxSeq
  /\ \A x \in slow : sock[x] = "open"
  /\ latest' = latest + 1
  /\ first' = oldest
  /\ inbox' = Sent([x \in Sockets |->
       CASE x \in slow -> <<[type |-> "output", seq |-> latest + 1],
                            [type |-> "fatal", seq |-> 0]>>
         [] x \in attachments \ slow -> <<[type |-> "output", seq |-> latest + 1]>>
         [] OTHER -> <<>>])
  /\ sock' = Closing(slow, "cut")
  /\ attachments' = attachments \ slow
  /\ control' = ControlWithout(slow)
  /\ controllers' = controllers \ slow
  /\ UNCHANGED <<status, queue, busy, exiting, greeted, early, browser>>

PtyExits ==
  /\ Quiet /\ ~exiting
  /\ exiting' = TRUE
  /\ queue' = Queued("exit", None)
  /\ UNCHANGED <<status, busy, hub, journal, wires, browser>>

Call(op) ==
  /\ Quiet /\ HasRoom
  /\ queue' = Queued(op, None)
  /\ UNCHANGED <<status, busy, hub, journal, exiting, wires, browser>>

-----------------------------------------------------------------------------
(* Sockets.                                                                 *)

(* The client does not reconnect; what it has seen no longer matters.       *)
GivesUp(c) ==
  /\ done' = done \cup {c}
  /\ ack' = [ack EXCEPT ![c] = 0] /\ seen' = [seen EXCEPT ![c] = 0]

(* The socket opens and says hello; with a socket from earlier, this is a   *)
(* reconnect.                                                               *)
Connect(c) ==
  LET x == <<c, used[c] + 1>> IN
  /\ Quiet /\ HasRoom
  /\ c \notin done
  /\ Cardinality({y \in Sockets : sock[y] # "none"}) < MaxSockets
  /\ used[c] > 0 => sock[<<c, used[c]>>] = "closed"
  /\ used' = [used EXCEPT ![c] = @ + 1]
  /\ sock' = [sock EXCEPT ![x] = "open"]
  /\ queue' = Queued("attach", x)
  /\ behind' = IF seen[c] > ack[c] THEN behind \cup {c} ELSE behind
  /\ UNCHANGED <<status, busy, hub, journal, exiting, greeted, inbox, early,
                 ack, seen, done, skipped, repeated>>

(* Mutant: the close of an answered socket is not passed on.                *)
NothingOnClose(x) == queue

(* What the close handler enqueues: data.detach is set once the hello was   *)
(* answered.                                                                *)
OnClose(x) == IF x \in greeted THEN Queued("detach", x) ELSE queue

(* The close handler: it detaches when the hello was answered.  The socket  *)
(* closes because the client or the network drops it, or because the server *)
(* closed it; what is still on its way is lost.                             *)
SocketCloses(x) ==
  /\ Quiet
  /\ sock[x] \in {"open", "shut", "cut"}
  /\ sock[x] = "shut" => inbox[x] = <<>>
  /\ sock' = [sock EXCEPT ![x] = "closed"]
  /\ inbox' = [inbox EXCEPT ![x] = <<>>]
  /\ queue' = OnClose(x)
  /\ greeted' = greeted \ {x}
  /\ early' = IF x \in greeted THEN early ELSE early \cup {x}
  /\ IF sock[x] = "shut" THEN GivesUp(x[1]) ELSE UNCHANGED <<done, ack, seen>>
  /\ UNCHANGED <<status, busy, hub, journal, exiting, used,
                 behind, skipped, repeated>>

(* A control frame, or any other frame before the hello was answered, which *)
(* makes the server close the socket.                                       *)
ClientSends(x, op) ==
  /\ Quiet /\ sock[x] = "open"
  /\ IF x \in greeted
     THEN /\ HasRoom
          /\ queue' = Queued(op, x)
          /\ UNCHANGED <<sock, inbox>>
     ELSE /\ inbox' = Sent([NoFrames EXCEPT ![x] = <<[type |-> "fatal", seq |-> 0]>>])
          /\ sock' = Closing({x}, "cut")
          /\ queue' = queue
  /\ UNCHANGED <<status, busy, hub, journal, exiting, greeted, early, browser>>

(* handleFrame in the browser.  Live output is acknowledged, replay is not; *)
(* a gap clears the screen.                                                 *)
ClientReads(x) ==
  LET c == x[1]
      f == Head(inbox[x]) IN
  /\ inbox[x] # <<>>
  /\ inbox' = [inbox EXCEPT ![x] = Tail(@)]
  /\ \/ /\ f.type \in {"output", "replay"}
        /\ seen' = [seen EXCEPT ![c] = f.seq]
        /\ ack' = IF f.type = "output" /\ f.seq > ack[c]
                  THEN [ack EXCEPT ![c] = f.seq] ELSE ack
        /\ skipped' = IF f.seq > seen[c] + 1 THEN skipped \cup {c} ELSE skipped
        /\ repeated' = IF f.seq <= seen[c] THEN repeated \cup {c} ELSE repeated
        /\ done' = done
     \/ /\ f.type = "gap"
        /\ LET after == inbox[x][2].seq IN seen' = [seen EXCEPT ![c] = after - 1]
        /\ UNCHANGED <<ack, skipped, repeated, done>>
     \/ /\ f.type \in {"exit", "fatal"}
        /\ GivesUp(c)
        /\ UNCHANGED <<skipped, repeated>>
  /\ UNCHANGED <<status, queue, busy, hub, journal, exiting, sock, greeted, early,
                 used, behind>>

Next ==
  \/ RunCommand \/ CommandAwaits \/ BackendAnswers
  \/ PtyData \/ PtyExits
  \/ Call("rename") \/ Call("terminate")
  \/ \E c \in Clients : Connect(c)
  \/ \E x \in Sockets :
       \/ SocketCloses(x) \/ ClientReads(x)
       \/ ClientSends(x, "request") \/ ClientSends(x, "release")

Spec == Init /\ [][Next]_vars

-----------------------------------------------------------------------------
(* Properties.                                                              *)

(* At most one attachment controls input and resize: the flag input is      *)
(* checked against and the controller everybody is told of agree, and the   *)
(* controller of a live session is attached -- control is never held by     *)
(* somebody who left, which would keep it from whoever comes next.          *)
OneController ==
  /\ \A x \in attachments : x \in controllers <=> control = x
  /\ status # "exited" /\ control # None => control \in attachments

Waiting(x, op) == \E i \in 1 .. Len(queue) : queue[i] = [op |-> op, by |-> x]

(* Every attachment has a socket that is open or about to report its close, *)
(* or a detach in the queue -- unless the socket closed while the attach    *)
(* was waiting behind a command that awaits the backend.                    *)
GhostsClosedEarly ==
  \A x \in attachments : x \notin early =>
    sock[x] \in {"open", "shut", "cut"} \/ Waiting(x, "detach")

(* Control is one attachment's, and comes free when its socket closes.     *)
ControlComesBack == OneController /\ GhostsClosedEarly

(* Every chunk reaches the screen, or the gap is announced -- except in the *)
(* history of an exited session, where the gap is not announced.            *)
NothingSkipped == skipped # {} => status = "exited"

(* No chunk reaches the screen twice -- except when replayed chunks, which  *)
(* are not acknowledged, are asked for again by a reconnect.                *)
NothingRepeated == repeated \subseteq behind

(* A client that got the exit frame, on whatever socket, has the whole      *)
(* output of the process on its screen.                                     *)
ExitAfterAllOutput ==
  \A x \in Sockets :
    inbox[x] # <<>> /\ Head(inbox[x]).type = "exit" => seen[x[1]] = latest

(* What is on a screen is what the process wrote, across reconnects, slow   *)
(* sockets and evicted output, and nothing is missing when it exits.        *)
OutputIsExact == NothingSkipped /\ NothingRepeated /\ ExitAfterAllOutput
=============================================================================
