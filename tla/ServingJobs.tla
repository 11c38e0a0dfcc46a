----------------------------- MODULE ServingJobs -----------------------------
(***************************************************************************)
(* The job service with the processes that serve fixed from the start to   *)
(* the end: some, all, or only one.  What the mutex of the Manager adds to *)
(* the compare-and-set shows when one process serves.                      *)
(***************************************************************************)
EXTENDS JobHistory

VARIABLE serving   \* the processes that serve, from the start to the end

svars == <<vars, serving>>

\* Each process that starts makes one Manager for all its handlers.
SInit == Init /\ serving \in (SUBSET Managers) \ {{}}

SNext == /\ \/ \E m \in serving : ManagerStep(m)
            \/ \E t \in Targets : TargetStep(t)
         /\ UNCHANGED serving

SSpec == SInit /\ [][SNext]_svars

-----------------------------------------------------------------------------
\* What holds when one process serves: it can be shut down and restarted, but
\* no other changes the jobs meanwhile.
OneProcess == \E m \in Managers : serving = {m}

\* With one process, each event names as previous state the state the event
\* before it reached: what an auditor of the chain relies on.
OneProcessChains == OneProcess => HistoryChains

\* With one process, a job that was started keeps the time of its start.
OneProcessKeepsStart == OneProcess => StartIsKept

\* With one process, the reconstruction of ReconstructJobLifecycle neither
\* errs nor disagrees with the row.
OneProcessReconstructs == OneProcess => ReconstructionAgrees
=============================================================================
