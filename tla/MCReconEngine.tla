---------------------------- MODULE MCReconEngine ----------------------------
(* Small instances of ReconEngine for TLC. *)
EXTENDS ReconEngine

CONSTANTS j1, j2, c1, c2

=============================================================================
