------------------------ MODULE MCSessionOperations ------------------------
(* One worktree session and a bounded number of requests, each of any kind, *)
(* in every deployment mode.  Requests are interchangeable until submitted. *)
EXTENDS SessionOperations, TLC

CONSTANT TheSession

MCSessionOf == [r \in Requests |-> TheSession]
MCSessions  == {TheSession}
Symmetric   == Permutations(Requests)
=============================================================================
