------------------------- MODULE MCTerminalSession -------------------------
(* Two browser tabs on one terminal.                                        *)
EXTENDS TerminalSession, TLC

Symmetric == Permutations(Clients)
=============================================================================
