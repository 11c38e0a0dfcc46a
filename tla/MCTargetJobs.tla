---------------------------- MODULE MCTargetJobs ----------------------------
(* Small instances of TargetJobs: every job belongs to the one target.     *)
EXTENDS TargetJobs

CONSTANTS t1, j1, j2, m1, m2, a1, a2

OneTarget == [j \in Jobs |-> t1]
=============================================================================
