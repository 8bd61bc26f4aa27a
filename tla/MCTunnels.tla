----------------------------- MODULE MCTunnels -----------------------------
(* Two sessions whose worktrees have the same base name, three ports.      *)
EXTENDS Tunnels, TLC
CONSTANTS s1, s2, web1, p1, p2, p3, app
OneName == [s \in Sessions |-> app]
Symmetry == Permutations(Ports)
=============================================================================
