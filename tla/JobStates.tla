------------------------------ MODULE JobStates ------------------------------
(***************************************************************************)
(* The states of a scan job and the steps between them, as the code that   *)
(* audits a job's history (ReconstructJobLifecycle) accepts them.          *)
(***************************************************************************)

Active   == {"QUEUED", "RUNNING"}
Terminal == {"COMPLETED", "FAILED", "CANCELLED"}
JobStatus == Active \cup Terminal

\* The successive states a reconstructed history may go through.
Edge == ({"QUEUED"} \X {"RUNNING"})
          \cup ({"RUNNING"} \X {"COMPLETED", "FAILED"})
          \cup (Active \X {"CANCELLED"})

\* What is stored for a job: "NONE" before it is created, "GONE" once its row
\* is deleted with its target.  Job identifiers are random and never reused.
StoredStatus == JobStatus \cup {"NONE", "GONE"}
=============================================================================
