----------------------------- MODULE ReconEngine -----------------------------
(***************************************************************************)
(* The reconnaissance engine of one process: requests that start scans,    *)
(* the pipeline goroutine of each scan, the table of cancel functions, and *)
(* the clients, administrators and restarts that get in the way.           *)
(* A transition of a job is one step here: the Manager's mutex serialises  *)
(* them within a process, and JobLifecycle shows what they implement.      *)
(***************************************************************************)
EXTENDS Naturals, FiniteSets, JobStates

CONSTANTS
    Jobs,        \* the scans; all of one target
    Cancellers,  \* the CancelRecon requests, one at a time each
    MaxSweeps,   \* bound: how many sweeps of UpdateTarget are due at a time
    MaxFaults    \* bound: how many calls of the pipelines the store fails

VARIABLES
    durable,      \* PostgreSQL, whose calls obey their context, or in memory
    target,       \* the stored status of the target
    was,          \* the statuses the target had: UpdateTarget may hold copies
    sweeps,       \* how many calls of UpdateTarget have still to sweep
    unswept,      \* history: a deactivation no sweep is due for, nor came after
    deleting,     \* DeleteTarget has swept and is about to delete
    job,          \* job[j]: the stored status of j
    starter,      \* starter[j]: where the StartRecon of j is
    cancels,      \* Engine.cancels: the jobs with a registered cancel function
    interrupted,  \* the jobs whose context is cancelled
    pipe,         \* pipe[j]: where the pipeline goroutine of j is
    verdict,      \* verdict[j]: what Execute found, reported as the job's end
    run,          \* run[j]: the stored status of j's recon run
    caller,       \* caller[c]: the job a CancelRecon is between its two halves
    acked,        \* the jobs whose CancelRecon was answered with success
    faulted       \* history: the calls <<step, j>> of a pipeline the store failed

vars == <<durable, target, was, sweeps, unswept, deleting, job, starter, cancels, interrupted,
          pipe, verdict, run, caller, acked, faulted>>

targetVars   == <<durable, target, was, sweeps, unswept, deleting>>
requestVars  == <<targetVars, caller, acked>>
pipelineVars == <<pipe, verdict, run, faulted>>
engineVars   == <<starter, cancels, interrupted>>

-----------------------------------------------------------------------------
NoJob     == "none"
ASSUME NoJobAssumption     == NoJob \notin Jobs
ASSUME MaxSweepsAssumption == MaxSweeps \in Nat
ASSUME MaxFaultsAssumption == MaxFaults \in Nat

Stages    == {"stage1", "stage2", "stage3", "stage4"}
StageNext == [s \in Stages \ {"stage4"} |->
                CASE s = "stage1" -> "stage2"
                  [] s = "stage2" -> "stage3"
                  [] s = "stage3" -> "stage4"]
Working   == {"save"} \cup Stages
AtPipe    == {"none", "close", "report", "cleanup", "ended", "lost"} \cup Working
AtStarter == {"idle", "checked", "created", "started", "answered", "refused"}

PipelineCalls == {"save", "close", "report"} \X Jobs
Fault(j) ==
    /\ Cardinality(faulted) < MaxFaults
    /\ faulted' = faulted \cup {<<pipe[j], j>>}

\* A transition of the job service: the target is active and the step legal.
active        == target = "ACTIVE"
May(j, new)   == active /\ <<job[j], new>> \in Edge
Move(j, new)  == job' = IF May(j, new) THEN [job EXCEPT ![j] = new] ELSE job

Init ==
    /\ durable \in BOOLEAN
    /\ target = "ACTIVE"
    /\ was = {"ACTIVE"}
    /\ sweeps = 0
    /\ unswept = FALSE
    /\ deleting = FALSE
    /\ job = [j \in Jobs |-> "NONE"]
    /\ starter = [j \in Jobs |-> "idle"]
    /\ cancels = {}
    /\ interrupted = {}
    /\ pipe = [j \in Jobs |-> "none"]
    /\ verdict = [j \in Jobs |-> "none"]
    /\ run = [j \in Jobs |-> "none"]
    /\ caller = [c \in Cancellers |-> NoJob]
    /\ acked = {}
    /\ faulted = {}

-----------------------------------------------------------------------------
\* StartRecon: the target is looked at, ...
CheckTarget(j) ==
    /\ starter[j] = "idle"
    /\ starter' = [starter EXCEPT ![j] = IF active THEN "checked" ELSE "refused"]
    /\ UNCHANGED <<requestVars, pipelineVars, job, cancels, interrupted>>

\* ... the job is created (the foreign key wants its target),
CreateJob(j) ==
    /\ starter[j] = "checked"
    /\ \/ /\ durable => target # "DELETED"
          /\ job' = [job EXCEPT ![j] = "QUEUED"]
          /\ starter' = [starter EXCEPT ![j] = "created"]
       \/ /\ durable /\ target = "DELETED"
          /\ starter' = [starter EXCEPT ![j] = "refused"]
          /\ UNCHANGED job
    /\ UNCHANGED <<requestVars, pipelineVars, cancels, interrupted>>

\* ... and started; a job that runs already is fine.
LaunchStart(j) ==
    /\ starter[j] = "created"
    /\ \/ /\ May(j, "RUNNING") \/ (active /\ job[j] = "RUNNING")
          /\ job' = [job EXCEPT ![j] = "RUNNING"]
          /\ starter' = [starter EXCEPT ![j] = "started"]
       \/ /\ ~active \/ job[j] \notin Active
          /\ starter' = [starter EXCEPT ![j] = "refused"]
          /\ UNCHANGED job
    /\ UNCHANGED <<requestVars, pipelineVars, cancels, interrupted>>

\* A call of the store fails, or the client goes away (the calls run under the
\* request's context): a job created so far stays as it is, and one whose
\* start was committed, but not answered, stays RUNNING.
StarterGivesUp(j) ==
    /\ durable
    /\ starter[j] \in {"idle", "checked", "created", "started"}
    /\ starter' = [starter EXCEPT ![j] = "refused"]
    /\ UNCHANGED <<requestVars, pipelineVars, job, cancels, interrupted>>

\* Only now is the cancel function registered and the goroutine launched.
Register(j) ==
    /\ starter[j] = "started"
    /\ cancels' = cancels \cup {j}
    /\ pipe' = [pipe EXCEPT ![j] = "save"]
    /\ starter' = [starter EXCEPT ![j] = "answered"]
    /\ UNCHANGED <<requestVars, job, interrupted, verdict, run, faulted>>

-----------------------------------------------------------------------------
\* Execute inserts the run row,
SaveRun(j) ==
    /\ pipe[j] = "save"
    /\ durable => j \notin interrupted /\ job[j] # "GONE"
    /\ pipe' = [pipe EXCEPT ![j] = "stage1"]
    /\ run' = [run EXCEPT ![j] = "RUNNING"]
    /\ UNCHANGED <<requestVars, engineVars, job, verdict, faulted>>

\* ... which the store refuses once the context is cancelled or the job's row
\* is gone (a foreign key), or because it fails, with the row or without.
SaveRunFails(j) ==
    /\ pipe[j] = "save"
    /\ durable
    /\ pipe' = [pipe EXCEPT ![j] = "report"]
    /\ verdict' = [verdict EXCEPT ![j] = "FAILED"]
    /\ \/ run' = run
       \/ job[j] # "GONE" /\ run' = [run EXCEPT ![j] = "RUNNING"]
    /\ IF j \in interrupted \/ job[j] = "GONE" THEN UNCHANGED faulted ELSE Fault(j)
    /\ UNCHANGED <<requestVars, engineVars, job>>

\* Mutant: the last stage is taken for one before the last.
StageEndsOffByOne(j) ==
    /\ pipe[j] \in Stages
    /\ pipe' = [pipe EXCEPT ![j] = IF j \in interrupted THEN "close"
                                  ELSE IF @ = "stage4" THEN "stage5" ELSE StageNext[@]]
    /\ verdict' = [verdict EXCEPT ![j] = IF j \in interrupted THEN "CANCELLED" ELSE @]
    /\ UNCHANGED <<requestVars, engineVars, job, run, faulted>>

\* Each stage ends with a look at the context.
StageEnds(j) ==
    /\ pipe[j] \in Stages
    /\ IF j \in interrupted \/ pipe[j] = "stage4"
       THEN /\ pipe' = [pipe EXCEPT ![j] = "close"]
            /\ verdict' = [verdict EXCEPT ![j] = IF j \in interrupted THEN "CANCELLED"
                                                                   ELSE "COMPLETED"]
       ELSE /\ pipe' = [pipe EXCEPT ![j] = StageNext[@]]
            /\ UNCHANGED verdict
    /\ UNCHANGED <<requestVars, engineVars, job, run, faulted>>

\* Mutant: an interrupted run is returned without being written.
CompleteRunUnlessInterrupted(j) ==
    /\ pipe[j] = "close"
    /\ pipe' = [pipe EXCEPT ![j] = "report"]
    /\ run' = IF run[j] = "none" \/ j \in interrupted
              THEN run ELSE [run EXCEPT ![j] = verdict[j]]
    /\ UNCHANGED <<requestVars, engineVars, job, verdict, faulted>>

\* completeRun writes the run's end under the same context, and ignores the
\* error: PostgreSQL refuses the write once the context is cancelled, ...
CompleteRun(j) ==
    /\ pipe[j] = "close"
    /\ pipe' = [pipe EXCEPT ![j] = "report"]
    /\ run' = IF run[j] = "none" \/ (durable /\ j \in interrupted)
              THEN run ELSE [run EXCEPT ![j] = verdict[j]]
    /\ UNCHANGED <<requestVars, engineVars, job, verdict, faulted>>

\* ... or fails to make it.
CompleteRunFails(j) ==
    /\ pipe[j] = "close"
    /\ durable
    /\ pipe' = [pipe EXCEPT ![j] = "report"]
    /\ Fault(j)
    /\ UNCHANGED <<requestVars, engineVars, job, verdict, run>>

\* Mutant: the job of a scan that was cancelled is left to CancelRecon.
ReportUnlessCancelled(j) ==
    /\ pipe[j] = "report"
    /\ pipe' = [pipe EXCEPT ![j] = "cleanup"]
    /\ IF verdict[j] = "CANCELLED" THEN UNCHANGED job ELSE Move(j, verdict[j])
    /\ UNCHANGED <<requestVars, engineVars, verdict, run, faulted>>

\* The goroutine fails, cancels or completes the job, and ignores the error ...
Report(j) ==
    /\ pipe[j] = "report"
    /\ pipe' = [pipe EXCEPT ![j] = "cleanup"]
    /\ Move(j, verdict[j])
    /\ UNCHANGED <<requestVars, engineVars, verdict, run, faulted>>

\* ... of a refusal, or of a store that fails.
ReportFails(j) ==
    /\ pipe[j] = "report"
    /\ durable
    /\ pipe' = [pipe EXCEPT ![j] = "cleanup"]
    /\ Fault(j)
    /\ UNCHANGED <<requestVars, engineVars, job, verdict, run>>

\* Mutant: only the context is released.
CleanupContextOnly(j) ==
    /\ pipe[j] = "cleanup"
    /\ pipe' = [pipe EXCEPT ![j] = "ended"]
    /\ interrupted' = interrupted \cup {j}
    /\ UNCHANGED <<requestVars, job, starter, cancels, verdict, run, faulted>>

\* The deferred function takes the registration back and frees the context.
Cleanup(j) ==
    /\ pipe[j] = "cleanup"
    /\ pipe' = [pipe EXCEPT ![j] = "ended"]
    /\ cancels' = cancels \ {j}
    /\ interrupted' = interrupted \cup {j}
    /\ UNCHANGED <<requestVars, job, starter, verdict, run, faulted>>

-----------------------------------------------------------------------------
\* CancelRecon calls the cancel function, if one is registered, ...
Interrupt(c, j) ==
    /\ caller[c] = NoJob
    /\ job[j] # "NONE"
    /\ caller' = [caller EXCEPT ![c] = j]
    /\ cancels' = cancels \ {j}
    /\ interrupted' = interrupted \cup (cancels \cap {j})
    /\ UNCHANGED <<pipelineVars, targetVars, job, starter, acked>>

\* ... then cancels the job; a job cancelled already counts as success.
CancelTheJob(c) ==
    /\ caller[c] # NoJob
    /\ Move(caller[c], "CANCELLED")
    /\ acked' = IF active /\ job[caller[c]] \in Active \cup {"CANCELLED"}
                THEN acked \cup {caller[c]} ELSE acked
    /\ caller' = [caller EXCEPT ![c] = NoJob]
    /\ UNCHANGED <<pipelineVars, targetVars, engineVars>>

\* The client goes away between the halves: the second fails.
CancelGivesUp(c) ==
    /\ durable
    /\ caller[c] # NoJob
    /\ caller' = [caller EXCEPT ![c] = NoJob]
    /\ UNCHANGED <<pipelineVars, targetVars, engineVars, job, acked>>

\* The job API moves recon jobs too, without telling the engine.
ApiMove(j, new) ==
    /\ May(j, new)
    /\ Move(j, new)
    /\ UNCHANGED <<requestVars, pipelineVars, engineVars>>

-----------------------------------------------------------------------------
\* Mutant: nothing is swept when a target is deactivated.
UpdateTargetOnly(old, new) ==
    /\ ~durable
    /\ old \in was /\ target # "DELETED"
    /\ target' = new
    /\ was' = was \cup {new}
    /\ unswept' = (unswept \/ (active /\ old # "ACTIVE" /\ new # "ACTIVE"))
    /\ UNCHANGED <<pipelineVars, engineVars, durable, sweeps, deleting, job, caller, acked>>

\* UpdateTarget writes the whole copy of the target it read, old being the
\* status of the copy, and goes on to sweep only if the copy was active: a
\* target that became active since is deactivated without a sweep.
\* (PostgreSQL refuses its statement, which gives comma-separated strings to
\* array columns.)
UpdateTarget(old, new) ==
    /\ ~durable
    /\ old \in was /\ target # "DELETED"
    /\ target' = new
    /\ was' = was \cup {new}
    /\ IF old = "ACTIVE" /\ new # "ACTIVE"
       THEN sweeps < MaxSweeps /\ sweeps' = sweeps + 1 /\ UNCHANGED unswept
       ELSE unswept' = (unswept \/ (active /\ new # "ACTIVE")) /\ UNCHANGED sweeps
    /\ UNCHANGED <<pipelineVars, engineVars, durable, deleting, job, caller, acked>>

\* HandleTargetDeactivated cancels what is queued or running, and ignores
\* what the store refuses (spared).
SweepJobs(spared) ==
    job' = [j \in Jobs |-> IF job[j] \in Active /\ j \notin spared THEN "CANCELLED" ELSE job[j]]

\* UpdateTarget calls it last,
UpdateSweeps ==
    /\ sweeps > 0
    /\ sweeps' = sweeps - 1
    /\ unswept' = FALSE
    /\ SweepJobs({})
    /\ UNCHANGED <<pipelineVars, engineVars, durable, target, was, deleting, caller, acked>>

\* DeleteTarget calls it first,
DeleteSweeps ==
    /\ target # "DELETED"
    /\ ~deleting
    /\ deleting' = TRUE
    /\ unswept' = FALSE
    /\ \E spared \in SUBSET Jobs : (durable \/ spared = {}) /\ SweepJobs(spared)
    /\ UNCHANGED <<pipelineVars, engineVars, durable, target, was, sweeps, caller, acked>>

\* ... and deletes the target; PostgreSQL deletes its jobs and runs with it.
DeleteRow ==
    /\ deleting
    /\ deleting' = FALSE
    /\ target' = "DELETED"
    /\ IF durable
       THEN /\ job' = [j \in Jobs |-> IF job[j] = "NONE" THEN "NONE" ELSE "GONE"]
            /\ run' = [j \in Jobs |-> "none"]
       ELSE UNCHANGED <<job, run>>
    /\ UNCHANGED <<engineVars, durable, was, sweeps, unswept, pipe, verdict, caller, acked,
                   faulted>>

\* The store fails the deletion after the sweep.
DeleteFails ==
    /\ durable
    /\ deleting
    /\ deleting' = FALSE
    /\ UNCHANGED <<pipelineVars, engineVars, durable, target, was, sweeps, unswept, job,
                   caller, acked>>

\* A restart loses all that is in memory, goroutines included.  (With the
\* in-memory store it loses the jobs too, and everything starts anew.)
Crash ==
    /\ durable
    /\ cancels' = {}
    /\ deleting' = FALSE
    /\ caller' = [c \in Cancellers |-> NoJob]
    /\ starter' = [j \in Jobs |-> IF starter[j] \in {"idle", "answered"}
                                  THEN starter[j] ELSE "refused"]
    /\ pipe' = [j \in Jobs |-> IF pipe[j] \in {"none", "ended"} THEN pipe[j] ELSE "lost"]
    /\ UNCHANGED <<durable, target, was, sweeps, unswept, job, interrupted, verdict, run,
                   acked, faulted>>

StartStep(j)    == CheckTarget(j) \/ CreateJob(j) \/ LaunchStart(j) \/ Register(j)
PipelineStep(j) == \/ SaveRun(j) \/ SaveRunFails(j) \/ StageEnds(j)
                   \/ CompleteRun(j) \/ CompleteRunFails(j)
                   \/ Report(j) \/ ReportFails(j) \/ Cleanup(j)

Next ==
    \/ \E j \in Jobs :
         \/ StartStep(j)
         \/ StarterGivesUp(j)
         \/ PipelineStep(j)
         \/ \E new \in JobStatus : ApiMove(j, new)
    \/ \E c \in Cancellers :
         \/ \E j \in Jobs : Interrupt(c, j)
         \/ CancelTheJob(c)
         \/ CancelGivesUp(c)
    \/ \E old, new \in {"ACTIVE", "INACTIVE"} : UpdateTarget(old, new)
    \/ UpdateSweeps
    \/ DeleteSweeps
    \/ DeleteRow
    \/ DeleteFails
    \/ Crash

Spec == Init /\ [][Next]_vars

\* Goroutines run, every stage is bounded by its timeouts and work lists, and
\* the handlers of the target go on.  Clients owe nothing.
Fairness == /\ \A j \in Jobs : WF_vars(Register(j)) /\ WF_vars(PipelineStep(j))
            /\ WF_vars(UpdateSweeps) /\ WF_vars(DeleteRow \/ DeleteFails)

FairSpec == Spec /\ Fairness

-----------------------------------------------------------------------------
TypeOK ==
    /\ durable \in BOOLEAN
    /\ target \in {"ACTIVE", "INACTIVE", "DELETED"}
    /\ was \subseteq {"ACTIVE", "INACTIVE"}
    /\ sweeps \in 0 .. MaxSweeps
    /\ unswept \in BOOLEAN
    /\ deleting \in BOOLEAN
    /\ job \in [Jobs -> StoredStatus]
    /\ starter \in [Jobs -> AtStarter]
    /\ cancels \subseteq Jobs
    /\ interrupted \subseteq Jobs
    /\ pipe \in [Jobs -> AtPipe]
    /\ verdict \in [Jobs -> Terminal \cup {"none"}]
    /\ run \in [Jobs -> {"none", "RUNNING", "COMPLETED", "CANCELLED"}]
    /\ caller \in [Cancellers -> Jobs \cup {NoJob}]
    /\ acked \subseteq Jobs
    /\ faulted \subseteq PipelineCalls

\* The table of cancel functions holds live pipelines only: two parties
\* delete from it, and neither may leave or take the entry of another.
RegistrationsAreLive ==
    cancels = {j \in Jobs : pipe[j] \notin {"none", "ended", "lost"}} \ interrupted

\* A pipeline that is over leaves no job active behind, although its report
\* may be refused and CancelRecon may stop half way.  The ways to leave one:
\* its target was deleted, or deactivated from a stale copy, which nothing
\* sweeps; or the store failed the report, whose error is ignored.
EndedPipelineEndedJob ==
    \A j \in Jobs : pipe[j] = "ended" /\ job[j] \in Active =>
        sweeps > 0 \/ target = "DELETED" \/ unswept \/ <<"report", j>> \in faulted

\* From the report on, the run row says what is reported, however the scan
\* was cancelled.  Only PostgreSQL may leave it RUNNING, when the context is
\* cancelled or it failed to insert or to close the row, or have none.
RunRowSettles ==
    \A j \in Jobs : pipe[j] \in {"report", "cleanup", "ended"} =>
        \/ run[j] = verdict[j]
        \/ durable /\ run[j] = "none"
        \/ /\ durable /\ run[j] = "RUNNING"
           /\ j \in interrupted \/ {<<"save", j>>, <<"close", j>>} \cap faulted # {}

\* A job whose pipeline was launched comes to an end, whichever client goes
\* away half way, unless its target is deleted, or deactivated from a stale
\* copy, the store fails its report or a restart takes the pipeline.
LaunchedJobsEnd ==
    \A j \in Jobs : pipe[j] = "save" ~>
        \/ job[j] \in Terminal \/ pipe[j] = "lost" \/ <<"report", j>> \in faulted
        \/ target = "DELETED" \/ unswept

\* A cancellation that was answered with success has reached the pipeline.
CancelReachesPipeline ==
    \A j \in acked : pipe[j] \in Working => j \in interrupted

\* Once the deactivation or deletion of a target is complete, no pipeline
\* goes on probing it uninterrupted.
ProbesNeedActiveTarget ==
    (~active /\ sweeps = 0) => \A j \in Jobs : pipe[j] \in Stages => j \in interrupted
=============================================================================
