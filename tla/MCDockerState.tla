--------------------------- MODULE MCDockerState ---------------------------
(* A small instance of DockerState for TLC.                                *)
EXTENDS DockerState

CONSTANT c1
=============================================================================
