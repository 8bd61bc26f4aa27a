------------------------- MODULE MCDaemonLifecycle -------------------------
(* Three commands and three daemons, one of them of another version.  What  *)
(* follows a lapse is not explored, for nothing is promised after it; but  *)
(* two daemons that a foreground start left side by side are.              *)
EXTENDS DaemonLifecycle
CONSTANTS l1, l2, l3, d1, d2, d3
Orderly == lapses \subseteq {"unchecked"}
Symmetry == Permutations(Launchers) \cup Permutations(Daemons \ Incompatible)
=============================================================================
