--------------------------- MODULE MCLogStreams ---------------------------
(* One service and the deployment channel, clients that ask for either or  *)
(* for everything.                                                         *)
EXTENDS LogStreams, TLC

Symmetric == Permutations(Clients)
=============================================================================
