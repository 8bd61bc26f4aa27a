-------------------------- MODULE MCWorkflowBoard --------------------------
(* A small instance of WorkflowBoard for TLC.                              *)
EXTENDS WorkflowBoard, TLC

CONSTANTS s1, s2, n1, n2, w1, r1, r2, f1, f2

(* Request slots and fetch slots are interchangeable.                      *)
Symmetry == Permutations({r1, r2}) \union Permutations({f1, f2})
=============================================================================
