---------------------------- MODULE TerminalRecord ----------------------------
(***************************************************************************)
(* What one terminal session remembers across daemon restarts: its title   *)
(* with its provenance and its unread mark, in the actor's memory          *)
(* (terminal-layer/actor.ts) and in the record of the tmux backend         *)
(* (terminal-layer/tmux-backend.ts).                                       *)
(*                                                                         *)
(* A save reads the record, changes its own field and writes the record    *)
(* back.  Titles are saved one at a time by the actor's command queue;     *)
(* marks are saved at once.  Of a title only its provenance is kept, and   *)
(* a record is written whole (the code truncates the file and fills it).   *)
(***************************************************************************)
EXTENDS Naturals, Sequences, FiniteSets, FiniteSetsExt

CONSTANTS Untitled, MaxSaves    \* MaxSaves bounds the saves in flight

ASSUME RecordConstants == MaxSaves \in Nat /\ Untitled \notin {"user", "agent"}

VARIABLES
  title,    \* Untitled, "user" or "agent"
  unread,   \* somebody should look at this terminal
  disk,     \* the record: its fields
  todo,     \* the title commands queued: [title, by], by the event that waits for it or 0
  saves,    \* the saves in flight: [field, value, stage, copy, n]
  lapses    \* history: what has gone wrong so far

record == <<title, unread, disk, todo, saves>>

Bare == [title |-> Untitled, unread |-> FALSE]
Free == 1..MaxSaves \ {s.n : s \in saves}

Save(field, value) ==
  LET n == Min(Free)
  IN [field |-> field, value |-> value, stage |-> "begun", copy |-> Bare, n |-> n]

\* The mark is set or cleared in memory, then saved without waiting.
SetUnread(mark) ==
  IF unread = mark THEN UNCHANGED <<unread, saves>>
  ELSE /\ Free # {}
       /\ unread' = mark
       /\ saves' = saves \cup {Save("unread", mark)}

SavingTitle == \E s \in saves : s.field = "title"

\* The head of the command queue is saved; memory follows when it has been.
SaveTitle ==
  /\ todo # <<>> /\ Free # {}
  /\ ~SavingTitle
  /\ saves' = saves \cup {Save("title", Head(todo).title)}
  /\ UNCHANGED <<title, unread, disk, todo, lapses>>

ReadRecord(s) ==
  /\ s.stage = "begun"
  /\ saves' = (saves \ {s}) \cup {[s EXCEPT !.stage = "read", !.copy = disk]}
  /\ lapses' = IF saves # {s} THEN lapses \cup {"overlap"} ELSE lapses
  /\ UNCHANGED <<title, unread, disk, todo>>

\* Mutant: memory does not wait for the file.
TitledAnyway(s, done) ==
  IF s.field = "title"
  THEN todo' = Tail(todo) /\ title' = s.value
  ELSE UNCHANGED <<todo, title>>

Titled(s, done) ==
  IF s.field = "title"
  THEN /\ todo' = Tail(todo)
       /\ title' = IF done THEN s.value ELSE title
  ELSE UNCHANGED <<todo, title>>

WriteRecord(s) ==
  /\ s.stage = "read"
  /\ disk' = [s.copy EXCEPT ![s.field] = s.value]
  /\ saves' = saves \ {s}
  /\ Titled(s, TRUE)
  /\ UNCHANGED <<unread, lapses>>

\* A rename then fails; a mark that cannot be saved is logged.
SaveFails(s) ==
  /\ s.stage = "read"
  /\ saves' = saves \ {s}
  /\ Titled(s, FALSE)
  /\ lapses' = IF s.field = "unread" THEN lapses \cup {"failed"} ELSE lapses
  /\ UNCHANGED <<unread, disk>>

Saving == SaveTitle \/ \E s \in saves : ReadRecord(s) \/ WriteRecord(s)
Failing == \E s \in saves : SaveFails(s)

\* The user names the terminal, or takes the name away again.
Rename(t) ==
  /\ todo' = Append(todo, [title |-> t, by |-> 0])
  /\ UNCHANGED <<title, unread, disk, saves, lapses>>

\* Mutant: the mark is not adopted.
ReloadUnmarked ==
  /\ title' = disk.title /\ unread' = FALSE
  /\ todo' = <<>> /\ saves' = {}
  /\ UNCHANGED disk

\* A new daemon adopts the terminal from its record.
Reload ==
  /\ title' = disk.title /\ unread' = disk.unread
  /\ todo' = <<>> /\ saves' = {}
  /\ UNCHANGED disk

InitRecord ==
  /\ title = Untitled /\ unread = FALSE /\ disk = Bare
  /\ todo = <<>> /\ saves = {} /\ lapses = {}
=============================================================================
