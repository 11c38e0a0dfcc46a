--------------------------- MODULE MCJobLifecycle ---------------------------
(* Small instances of ServingJobs: every job belongs to the one target,    *)
(* and any of the processes serve, or only one of them.                    *)
EXTENDS ServingJobs, TLC

CONSTANTS t1, j1, j2, m1, m2

OneTarget == [j \in Jobs |-> t1]

Interchangeable == Permutations(Jobs) \cup Permutations(Managers)
=============================================================================
