---------------------------- MODULE OperationStream ----------------------------
(***************************************************************************)
(* The events of one operation and the clients that follow them: the       *)
(* record of the registry (operation-registry.ts) and the NDJSON responses *)
(* of handleOperationEvents (ui-api.ts).  A late client is given what the  *)
(* bounded history holds and goes on with what is pushed.                  *)
(***************************************************************************)
EXTENDS Integers, SequencesExt

CONSTANTS
  Streams,          \* responses that follow the operation
  HistoryCapacity,  \* envelopes a record holds
  MaxEvents         \* bound: events of one operation

ASSUME StreamConstants == HistoryCapacity \in Nat \ {0} /\ MaxEvents \in Nat

VARIABLES
  status,       \* of the operation: "none", "running", "ended"
  sequence,     \* the counter of its observer
  history,      \* the last envelopes: [seq, terminal]
  subscribers,  \* listeners of the record
  stream        \* per response: its state and what it was given

streamVars == <<status, sequence, history, subscribers, stream>>

Envelope == [seq : Nat, terminal : BOOLEAN]
Unused == [state |-> "none", got |-> <<>>]

\* Mutant: the history is cut one envelope too late.
BoundedLate(envelopes) ==
  LET overflow == Len(envelopes) - HistoryCapacity
  IN IF overflow > 1 THEN SubSeq(envelopes, overflow + 1, Len(envelopes)) ELSE envelopes

Bounded(envelopes) ==
  LET overflow == Len(envelopes) - HistoryCapacity
  IN IF overflow > 0 THEN SubSeq(envelopes, overflow + 1, Len(envelopes)) ELSE envelopes

\* A listener writes to its response, if that is still open, and closes it
\* with the terminal envelope.
Received(responses, listeners, env) ==
  [s \in Streams |->
     IF s \notin listeners \/ responses[s].state # "open" THEN responses[s]
     ELSE [state |-> IF env.terminal THEN "closed" ELSE "open", got |-> Append(responses[s].got, env)]]

\* ... and unsubscribes, whether or not anybody was reading.
Listening(listeners, env) == IF env.terminal THEN {} ELSE listeners

OpenRecord ==
  /\ status # "running"
  /\ status' = "running" /\ sequence' = 0 /\ history' = <<>> /\ subscribers' = {}
  /\ stream' = [s \in Streams |-> Unused]

Emit ==
  /\ status = "running" /\ sequence < MaxEvents
  /\ LET env == [seq |-> sequence + 1, terminal |-> FALSE]
     IN /\ history' = Bounded(Append(history, env))
        /\ stream' = Received(stream, subscribers, env)
  /\ sequence' = sequence + 1
  /\ UNCHANGED <<status, subscribers>>

\* The number of the terminal envelope is not the observer's.
Finish ==
  /\ status = "running"
  /\ LET env  == [seq |-> Len(history) + 1, terminal |-> TRUE]
         rest == Listening(subscribers, env)
     IN /\ history' = Bounded(Append(history, env))
        /\ stream' = Received(Received(stream, subscribers, env), rest, env)
  /\ status' = "ended" /\ subscribers' = {}
  /\ UNCHANGED sequence

\* Mutant: an operation that has ended is subscribed to like any other.
SubscribeAlways(s) ==
  /\ status # "none" /\ stream[s].state = "none"
  /\ stream' = [stream EXCEPT ![s] = [state |-> "open", got |-> history]]
  /\ subscribers' = subscribers \cup {s}
  /\ UNCHANGED <<status, sequence, history>>

HandleOperationEvents(s) ==
  /\ status # "none" /\ stream[s].state = "none"
  /\ stream' = [stream EXCEPT ![s] =
                  [state |-> IF status = "ended" THEN "closed" ELSE "open", got |-> history]]
  /\ subscribers' = IF status = "ended" THEN subscribers ELSE subscribers \cup {s}
  /\ UNCHANGED <<status, sequence, history>>

\* A client goes away; its listener stays until the operation ends.
Disconnect(s) ==
  /\ stream[s].state = "open"
  /\ stream' = [stream EXCEPT ![s] = [state |-> "gone", got |-> <<>>]]
  /\ UNCHANGED <<status, sequence, history, subscribers>>

\* The registry is memory: a restart forgets the operation.
ForgetOperations ==
  /\ status' = "none" /\ sequence' = 0 /\ history' = <<>> /\ subscribers' = {}
  /\ stream' = [s \in Streams |-> Unused]

InitStream ==
  /\ status = "none" /\ sequence = 0 /\ history = <<>> /\ subscribers = {}
  /\ stream = [s \in Streams |-> Unused]

(***************************************************************************)
(* Properties                                                              *)
(***************************************************************************)
StreamTypeOK ==
  /\ status \in {"none", "running", "ended"} /\ sequence \in 0..MaxEvents
  /\ history \in Seq(Envelope)
  /\ Len(history) <= HistoryCapacity
  /\ subscribers \subseteq Streams
  /\ stream \in [Streams -> [state : {"none", "open", "closed", "gone"}, got : Seq(Envelope)]]

\* What the operation has reported so far.
Told ==
  [i \in 1..sequence |-> [seq |-> i, terminal |-> FALSE]] \o
  (IF status # "ended" THEN <<>>
   ELSE <<[seq |-> (IF sequence < HistoryCapacity THEN sequence ELSE HistoryCapacity) + 1, terminal |-> TRUE]>>)

Following(s) == stream[s].state \in {"open", "closed"}

\* A response is all the operation reported since it was opened, and as much
\* before that as the history holds: without gap or repetition, ended by the
\* terminal envelope and closed with it.  Its numbers tell drops, as the
\* protocol says, while the operation has not outgrown the history.
StreamsAreComplete ==
  \A s \in Streams : Following(s) =>
    /\ IsSuffix(stream[s].got, Told)
    /\ Len(stream[s].got) >= IF Len(Told) < HistoryCapacity THEN Len(Told) ELSE HistoryCapacity
    /\ stream[s].state = "closed" <=> status = "ended"
    /\ sequence <= HistoryCapacity =>
         \A i \in 2..Len(stream[s].got) : stream[s].got[i].seq = stream[s].got[i - 1].seq + 1
=============================================================================
