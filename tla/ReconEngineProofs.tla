-------------------------- MODULE ReconEngineProofs --------------------------
(***************************************************************************)
(* What the reconnaissance engine guarantees for any number of scans and   *)
(* of cancelling clients, under either store.                              *)
(***************************************************************************)
EXTENDS ReconEngine, TLAPS

\* How far a job is by the time its StartRecon has come to a point.
Launched ==
    \A j \in Jobs :
        /\ pipe[j] # "none" => starter[j] = "answered"
        /\ starter[j] \in {"started", "answered"} => job[j] \notin {"NONE", "QUEUED"}

\* What Execute reports is one of the ends a running job can take.
Verdicts ==
    \A j \in Jobs :
        /\ pipe[j] = "close"  => verdict[j] \in {"COMPLETED", "CANCELLED"}
        /\ pipe[j] = "report" => verdict[j] \in Terminal

\* The target is inactive and swept: nothing of it runs.
SweptNothingRuns ==
    target = "INACTIVE" /\ sweeps = 0 /\ ~unswept => \A j \in Jobs : job[j] # "RUNNING"

\* Once it has reported, a pipeline's job has ended or went with its target,
\* or a sweep is due or will never be, or the store failed the report.
Reported ==
    \A j \in Jobs : pipe[j] \in {"cleanup", "ended"} =>
        \/ job[j] \in Terminal
        \/ sweeps > 0 \/ target = "DELETED" \/ unswept \/ <<"report", j>> \in faulted

\* PostgreSQL refuses every update of a target: none is deactivated.
SqlDeactivatesNothing == durable => target # "INACTIVE" /\ sweeps = 0 /\ ~unswept

\* Rows are deleted with their target only.
GoneWithTarget == \A j \in Jobs : job[j] = "GONE" => target = "DELETED"

Strong == TypeOK /\ GoneWithTarget /\ Launched /\ Verdicts /\ SweptNothingRuns /\ Reported
          /\ SqlDeactivatesNothing

-----------------------------------------------------------------------------
USE DEF targetVars, requestVars, pipelineVars, engineVars

\* The steps of a pipeline that leave the jobs alone.
Silent(j) == \/ SaveRun(j) \/ SaveRunFails(j) \/ StageEnds(j)
             \/ CompleteRun(j) \/ CompleteRunFails(j) \/ ReportFails(j) \/ Cleanup(j)

LEMMA PipelineStepIs ==
    ASSUME NEW j \in Jobs, PipelineStep(j)
    PROVE  Silent(j) \/ Report(j)
  BY DEF PipelineStep, Silent

\* Legal steps are between statuses a stored job can have.
LEMMA EdgeIsOfJobStatus == Edge \subseteq JobStatus \X JobStatus
  BY DEF Edge, JobStatus, Active, Terminal

\* A transition keeps the table of jobs well typed, and an ended job ended.
LEMMA MoveTyped ==
    ASSUME TypeOK, NEW j \in Jobs, NEW new \in JobStatus, Move(j, new)
    PROVE  /\ job' \in [Jobs -> StoredStatus]
           /\ \A i \in Jobs : job[i] \in Terminal => job'[i] = job[i]
           /\ \A i \in Jobs : job[i] \notin {"NONE", "QUEUED"}
                                => job'[i] \notin {"NONE", "QUEUED"}
           /\ \A i \in Jobs : job'[i] = "GONE" => job[i] = "GONE"
           /\ ~active => job' = job
           /\ \A i \in Jobs : job'[i] = "RUNNING" => job[i] = "RUNNING" \/ active
  BY EdgeIsOfJobStatus DEF TypeOK, Move, May, Edge, StoredStatus, JobStatus, Active, Terminal

\* The active target's running job ends with any terminal report.
LEMMA ReportEnds ==
    ASSUME TypeOK, NEW j \in Jobs, NEW new \in Terminal, Move(j, new),
           active, job[j] \notin {"NONE", "QUEUED", "GONE"}
    PROVE  job'[j] \in Terminal
  BY DEF TypeOK, Move, May, Edge, StoredStatus, JobStatus, Active, Terminal

\* A sweep keeps the table well typed and ends what was active, except what a
\* store that fails spares; it starts nothing.
LEMMA SweepTyped ==
    ASSUME TypeOK, UpdateSweeps \/ DeleteSweeps
    PROVE  /\ job' \in [Jobs -> StoredStatus]
           /\ \A i \in Jobs : job[i] \notin Active => job'[i] = job[i]
           /\ \A i \in Jobs : job'[i] \in {job[i], "CANCELLED"}
           /\ (~durable \/ UpdateSweeps) => \A i \in Jobs : job'[i] \notin Active
<1>1. PICK spared \in SUBSET Jobs :
          /\ SweepJobs(spared)
          /\ (~durable \/ UpdateSweeps) => spared = {}
  <2>1. CASE UpdateSweeps
    BY <2>1 DEF UpdateSweeps
  <2>2. CASE DeleteSweeps /\ ~UpdateSweeps
    BY <2>2 DEF DeleteSweeps
  <2> QED BY <2>1, <2>2
<1>2. "CANCELLED" \in StoredStatus /\ "CANCELLED" \notin Active
  BY DEF StoredStatus, JobStatus, Active, Terminal
<1>3. job' \in [Jobs -> StoredStatus]
  BY <1>1, <1>2 DEF SweepJobs, TypeOK
<1>4. \A i \in Jobs :
        job'[i] = IF job[i] \in Active /\ i \notin spared THEN "CANCELLED" ELSE job[i]
  BY <1>1 DEF SweepJobs
<1> QED BY <1>1, <1>2, <1>3, <1>4

\* UpdateTarget leaves a sweep behind or, when its copy was stale, a mark;
\* neither goes away by it, and it finds a target that is not deleted.
LEMMA UpdateLeavesAMark ==
    ASSUME TypeOK, NEW old, NEW new, UpdateTarget(old, new)
    PROVE  /\ target # "DELETED" /\ target' = new /\ job' = job /\ pipe' = pipe
           /\ faulted' = faulted
           /\ sweeps > 0 => sweeps' > 0
           /\ unswept => unswept'
           /\ active /\ new # "ACTIVE" => sweeps' > 0 \/ unswept'
<1>1. sweeps \in Nat /\ unswept \in BOOLEAN
  BY MaxSweepsAssumption DEF TypeOK
<1>2. CASE old = "ACTIVE" /\ new # "ACTIVE"
  <2>1. sweeps' = sweeps + 1 /\ unswept' = unswept
    BY <1>2 DEF UpdateTarget
  <2>2. sweeps' > 0
    BY <1>1, <2>1
  <2> QED BY <2>1, <2>2 DEF UpdateTarget
<1>3. CASE ~(old = "ACTIVE" /\ new # "ACTIVE")
  <2>1. sweeps' = sweeps /\ (unswept' = (unswept \/ (active /\ new # "ACTIVE")))
    BY <1>3 DEF UpdateTarget
  <2>2. (unswept => unswept') /\ (active /\ new # "ACTIVE" => unswept')
    BY <2>1, Zenon
  <2> QED BY <2>1, <2>2 DEF UpdateTarget
<1> QED BY <1>2, <1>3

\* The invariant holds when the engine starts.
LEMMA InitStrong == Init => Strong
<1> SUFFICES ASSUME Init PROVE Strong
  OBVIOUS
<1>1. TypeOK
  <2>1. sweeps \in 0 .. MaxSweeps
    BY MaxSweepsAssumption DEF Init
  <2> QED BY <2>1 DEF Init, TypeOK, AtStarter, AtPipe, NoJob, StoredStatus
<1>2. Launched
  BY DEF Init, Launched
<1>3. Verdicts /\ SweptNothingRuns /\ Reported /\ GoneWithTarget /\ SqlDeactivatesNothing
  BY DEF Init, Verdicts, SweptNothingRuns, Reported, GoneWithTarget, SqlDeactivatesNothing
<1> QED BY <1>1, <1>2, <1>3 DEF Strong

\* No step of the engine breaks its types.
LEMMA NextTyped == TypeOK /\ Verdicts /\ [Next]_vars => TypeOK'
<1> SUFFICES ASSUME TypeOK, Verdicts, [Next]_vars PROVE TypeOK'
  OBVIOUS
<1> USE DEF AtStarter, AtPipe, Working, Stages
<1>1. ASSUME NEW j \in Jobs, StartStep(j) \/ StarterGivesUp(j) PROVE TypeOK'
  BY <1>1 DEF StartStep, StarterGivesUp, CheckTarget, CreateJob, LaunchStart, Register,
              TypeOK, StoredStatus, JobStatus,
              Active, Terminal
<1>2. ASSUME NEW j \in Jobs, PipelineStep(j) PROVE TypeOK'
  <2>1. CASE SaveRun(j)
    BY <2>1 DEF SaveRun, TypeOK
  <2>2. CASE SaveRunFails(j)
    <3>1. <<pipe[j], j>> \in PipelineCalls
      BY <2>2 DEF SaveRunFails, PipelineCalls
    <3> QED BY <2>2, <3>1 DEF SaveRunFails, Fault, TypeOK, Terminal
  <2>3. CASE StageEnds(j)
    BY <2>3 DEF StageEnds, StageNext, TypeOK, Terminal
  <2>4. CASE CompleteRun(j)
    BY <2>4 DEF CompleteRun, Verdicts, TypeOK
  <2>5. CASE CompleteRunFails(j) \/ ReportFails(j)
    <3>1. <<pipe[j], j>> \in PipelineCalls
      BY <2>5 DEF CompleteRunFails, ReportFails, PipelineCalls
    <3> QED BY <2>5, <3>1 DEF CompleteRunFails, ReportFails, Fault, TypeOK
  <2>6. CASE Report(j)
    BY <2>6 DEF Report, Move, May, Edge, TypeOK, StoredStatus, JobStatus, Active, Terminal
  <2>7. CASE Cleanup(j)
    BY <2>7 DEF Cleanup, TypeOK
  <2> QED BY <1>2, <2>1, <2>2, <2>3, <2>4, <2>5, <2>6, <2>7 DEF PipelineStep
<1>3. ASSUME NEW j \in Jobs, NEW new \in JobStatus, ApiMove(j, new) PROVE TypeOK'
  BY <1>3, MoveTyped DEF ApiMove, TypeOK
<1>4. ASSUME NEW c \in Cancellers, NEW j \in Jobs, Interrupt(c, j) PROVE TypeOK'
  BY <1>4 DEF Interrupt, TypeOK
<1>5. ASSUME NEW c \in Cancellers, CancelTheJob(c) \/ CancelGivesUp(c) PROVE TypeOK'
  <2>1. caller[c] \in Jobs /\ "CANCELLED" \in JobStatus
    BY <1>5 DEF CancelTheJob, CancelGivesUp, TypeOK, JobStatus, Terminal
  <2>2. job' \in [Jobs -> StoredStatus]
    BY <1>5, <2>1, MoveTyped DEF CancelTheJob, CancelGivesUp, TypeOK
  <2> QED BY <1>5, <2>1, <2>2 DEF CancelTheJob, CancelGivesUp, TypeOK, NoJob
<1>6. CASE \/ \E old, new \in {"ACTIVE", "INACTIVE"} : UpdateTarget(old, new)
           \/ DeleteFails
  <2>1. CASE \E old, new \in {"ACTIVE", "INACTIVE"} : UpdateTarget(old, new)
    <3>1. PICK old \in {"ACTIVE", "INACTIVE"}, new \in {"ACTIVE", "INACTIVE"} :
             UpdateTarget(old, new)
      BY <2>1
    <3>2. sweeps' \in 0 .. MaxSweeps
      BY <3>1, MaxSweepsAssumption DEF UpdateTarget, TypeOK
    <3>3. unswept' \in BOOLEAN
      BY <3>1 DEF UpdateTarget, TypeOK
    <3> QED BY <3>1, <3>2, <3>3 DEF UpdateTarget, TypeOK
  <2>2. CASE DeleteFails
    BY <2>2 DEF DeleteFails, TypeOK
  <2> QED BY <1>6, <2>1, <2>2
<1>9. CASE UpdateSweeps \/ DeleteSweeps
  <2>1. job' \in [Jobs -> StoredStatus]
    BY <1>9, SweepTyped
  <2>2. sweeps' \in 0 .. MaxSweeps
    BY <1>9, MaxSweepsAssumption DEF UpdateSweeps, DeleteSweeps, TypeOK
  <2> QED BY <1>9, <2>1, <2>2 DEF UpdateSweeps, DeleteSweeps, TypeOK
<1>10. CASE DeleteRow
  BY <1>10 DEF DeleteRow, TypeOK, StoredStatus
<1>8. CASE Crash
  BY <1>8 DEF Crash, TypeOK, NoJob
<1>7. CASE UNCHANGED vars
  BY <1>7 DEF vars, TypeOK
<1> QED BY <1>1, <1>2, <1>3, <1>4, <1>5, <1>6, <1>7, <1>8, <1>9, <1>10 DEF Next

\* No step leaves a closing pipeline without a verdict its row may take.
LEMMA NextVerdicts == TypeOK /\ Verdicts /\ [Next]_vars => Verdicts'
<1> SUFFICES ASSUME TypeOK, Verdicts, [Next]_vars PROVE Verdicts'
  OBVIOUS
<1>1. ASSUME NEW j \in Jobs, StartStep(j) \/ StarterGivesUp(j) PROVE Verdicts'
  BY <1>1 DEF StartStep, StarterGivesUp, CheckTarget, CreateJob, LaunchStart, Register,
              TypeOK, Verdicts
<1>2. ASSUME NEW j \in Jobs, PipelineStep(j) PROVE Verdicts'
  <2>1. CASE SaveRun(j) \/ SaveRunFails(j) \/ ReportFails(j) \/ Report(j) \/ Cleanup(j)
    BY <2>1 DEF SaveRun, SaveRunFails, ReportFails, Report, Cleanup, TypeOK, Verdicts, Terminal
  <2>2. CASE StageEnds(j)
    BY <2>2 DEF StageEnds, StageNext, Stages, TypeOK, Verdicts, Terminal
  <2>3. CASE CompleteRun(j) \/ CompleteRunFails(j)
    BY <2>3 DEF CompleteRun, CompleteRunFails, TypeOK, Verdicts, Terminal
  <2> QED BY <1>2, <2>1, <2>2, <2>3 DEF PipelineStep
<1>3. ASSUME NEW j \in Jobs, NEW new \in JobStatus, ApiMove(j, new) PROVE Verdicts'
  BY <1>3 DEF ApiMove, Verdicts
<1>4. ASSUME NEW c \in Cancellers, NEW j \in Jobs, Interrupt(c, j) PROVE Verdicts'
  BY <1>4 DEF Interrupt, Verdicts
<1>5. ASSUME NEW c \in Cancellers, CancelTheJob(c) \/ CancelGivesUp(c) PROVE Verdicts'
  BY <1>5 DEF CancelTheJob, CancelGivesUp, Verdicts
<1>6. CASE \/ \E old, new \in {"ACTIVE", "INACTIVE"} : UpdateTarget(old, new)
           \/ UpdateSweeps \/ DeleteSweeps \/ DeleteRow \/ DeleteFails
  BY <1>6 DEF UpdateTarget, DeleteFails, UpdateSweeps, DeleteSweeps, DeleteRow, Verdicts
<1>7. CASE Crash
  BY <1>7 DEF Crash, TypeOK, Verdicts
<1>8. CASE UNCHANGED vars
  BY <1>8 DEF vars, Verdicts
<1> QED BY <1>1, <1>2, <1>3, <1>4, <1>5, <1>6, <1>7, <1>8 DEF Next

\* No step takes a launched job back to where it was before its start.
LEMMA NextLaunched == TypeOK /\ Verdicts /\ Launched /\ [Next]_vars => Launched'
<1> SUFFICES ASSUME TypeOK, Verdicts, Launched, [Next]_vars PROVE Launched'
  OBVIOUS
<1>1. ASSUME NEW j \in Jobs, StartStep(j) \/ StarterGivesUp(j) PROVE Launched'
  <2>1. CASE CheckTarget(j) \/ StarterGivesUp(j)
    BY <2>1 DEF CheckTarget, StarterGivesUp, TypeOK, Launched
  <2>2. CASE CreateJob(j) \/ LaunchStart(j)
    BY <2>2 DEF CreateJob, LaunchStart, TypeOK, Launched, Active
  <2>3. CASE Register(j)
    BY <2>3 DEF Register, TypeOK, Launched
  <2> QED BY <1>1, <2>1, <2>2, <2>3 DEF StartStep
<1>2. ASSUME NEW j \in Jobs, PipelineStep(j) PROVE Launched'
  <2>1. CASE Silent(j)
    BY <2>1 DEF Silent, SaveRun, SaveRunFails, StageEnds, CompleteRun,
              CompleteRunFails, ReportFails, Cleanup, Stages, TypeOK, Launched
  <2>2. CASE Report(j)
    <3>1. verdict[j] \in JobStatus
      BY <2>2 DEF Report, Verdicts, JobStatus
    <3> QED BY <2>2, <3>1, MoveTyped DEF Report, TypeOK, Launched
  <2> QED BY <1>2, <2>1, <2>2, PipelineStepIs
<1>3. ASSUME NEW j \in Jobs, NEW new \in JobStatus, ApiMove(j, new) PROVE Launched'
  BY <1>3, MoveTyped DEF ApiMove, Launched
<1>4. ASSUME NEW c \in Cancellers, NEW j \in Jobs, Interrupt(c, j) PROVE Launched'
  BY <1>4 DEF Interrupt, Launched
<1>5. ASSUME NEW c \in Cancellers, CancelTheJob(c) PROVE Launched'
  <2>1. caller[c] \in Jobs /\ "CANCELLED" \in JobStatus
    BY <1>5 DEF CancelTheJob, TypeOK, JobStatus, Terminal
  <2> QED BY <1>5, <2>1, MoveTyped DEF CancelTheJob, Launched
<1>6. ASSUME NEW c \in Cancellers, CancelGivesUp(c) PROVE Launched'
  BY <1>6 DEF CancelGivesUp, Launched
<1>7. CASE \/ \E old, new \in {"ACTIVE", "INACTIVE"} : UpdateTarget(old, new)
           \/ DeleteFails
  BY <1>7 DEF UpdateTarget, DeleteFails, Launched
<1>10. CASE UpdateSweeps \/ DeleteSweeps
  BY <1>10, SweepTyped DEF UpdateSweeps, DeleteSweeps, Launched, Active
<1>11. CASE DeleteRow
  BY <1>11 DEF DeleteRow, TypeOK, Launched
<1>8. CASE Crash
  BY <1>8 DEF Crash, TypeOK, Launched
<1>9. CASE UNCHANGED vars
  BY <1>9 DEF vars, Launched
<1> QED BY <1>1, <1>2, <1>3, <1>4, <1>5, <1>6, <1>7, <1>8, <1>9, <1>10, <1>11 DEF Next

\* A sweep leaves nothing running, and nothing starts on an inactive target.
LEMMA NextSweptNothingRuns ==
    ASSUME TypeOK, Verdicts, SweptNothingRuns, SqlDeactivatesNothing, [Next]_vars
    PROVE  SweptNothingRuns'
<1>1. ASSUME NEW j \in Jobs, StartStep(j) \/ StarterGivesUp(j) PROVE SweptNothingRuns'
  <2>1. CASE CheckTarget(j) \/ StarterGivesUp(j) \/ Register(j)
    BY <2>1 DEF CheckTarget, StarterGivesUp, Register, SweptNothingRuns
  <2>2. CASE CreateJob(j) \/ LaunchStart(j)
    BY <2>2 DEF CreateJob, LaunchStart, May, active, TypeOK, SweptNothingRuns
  <2> QED BY <1>1, <2>1, <2>2 DEF StartStep
<1>2. ASSUME NEW j \in Jobs, PipelineStep(j) PROVE SweptNothingRuns'
  <2>1. CASE Silent(j)
    BY <2>1 DEF Silent, SaveRun, SaveRunFails, StageEnds, CompleteRun,
              CompleteRunFails, ReportFails, Cleanup, SweptNothingRuns
  <2>2. CASE Report(j)
    <3>1. verdict[j] \in JobStatus
      BY <2>2 DEF Report, Verdicts, JobStatus
    <3> QED BY <2>2, <3>1, MoveTyped DEF Report, SweptNothingRuns, active
  <2> QED BY <1>2, <2>1, <2>2, PipelineStepIs
<1>3. ASSUME NEW j \in Jobs, NEW new \in JobStatus, ApiMove(j, new)
      PROVE  SweptNothingRuns'
  BY <1>3, MoveTyped DEF ApiMove, May, SweptNothingRuns, active
<1>4. ASSUME NEW c \in Cancellers, NEW j \in Jobs, Interrupt(c, j)
      PROVE  SweptNothingRuns'
  BY <1>4 DEF Interrupt, SweptNothingRuns
<1>5. ASSUME NEW c \in Cancellers, CancelTheJob(c) PROVE SweptNothingRuns'
  <2>1. caller[c] \in Jobs /\ "CANCELLED" \in JobStatus
    BY <1>5 DEF CancelTheJob, TypeOK, JobStatus, Terminal
  <2> QED BY <1>5, <2>1, MoveTyped DEF CancelTheJob, SweptNothingRuns, active
<1>6. ASSUME NEW c \in Cancellers, CancelGivesUp(c) PROVE SweptNothingRuns'
  BY <1>6 DEF CancelGivesUp, SweptNothingRuns
<1>7. CASE \/ \E old, new \in {"ACTIVE", "INACTIVE"} : UpdateTarget(old, new)
           \/ DeleteFails
  <2>1. CASE DeleteFails
    BY <2>1 DEF DeleteFails, SweptNothingRuns
  <2>2. CASE \E old, new \in {"ACTIVE", "INACTIVE"} : UpdateTarget(old, new)
    <3>1. PICK old \in {"ACTIVE", "INACTIVE"}, new \in {"ACTIVE", "INACTIVE"} :
             UpdateTarget(old, new)
      BY <2>2
    <3>2. sweeps \in Nat /\ sweeps' \in Nat /\ target \in {"ACTIVE", "INACTIVE", "DELETED"}
      BY <3>1, MaxSweepsAssumption DEF TypeOK, UpdateTarget
    <3>3. target' = "INACTIVE" /\ sweeps' = 0 /\ ~unswept'
             => target = "INACTIVE" /\ sweeps = 0 /\ ~unswept
      BY <3>1, <3>2, UpdateLeavesAMark DEF active
    <3> QED BY <3>1, <3>3, UpdateLeavesAMark DEF SweptNothingRuns
  <2> QED BY <1>7, <2>1, <2>2
<1>8. CASE UpdateSweeps \/ DeleteSweeps
  <2>1. target' = target
    BY <1>8 DEF UpdateSweeps, DeleteSweeps
  <2>2. CASE ~durable \/ UpdateSweeps
    BY <1>8, <2>2, SweepTyped DEF SweptNothingRuns, Active
  <2>3. CASE durable
    BY <2>1, <2>3 DEF SqlDeactivatesNothing, SweptNothingRuns
  <2> QED BY <2>2, <2>3
<1>11. CASE DeleteRow
  BY <1>11 DEF DeleteRow, SweptNothingRuns
<1>9. CASE UNCHANGED vars
  BY <1>9 DEF vars, SweptNothingRuns
<1>10. CASE Crash
  BY <1>10 DEF Crash, SweptNothingRuns
<1> QED BY <1>1, <1>2, <1>3, <1>4, <1>5, <1>6, <1>7, <1>8, <1>9, <1>10, <1>11 DEF Next

\* Under PostgreSQL no step deactivates the target.
LEMMA NextSql == TypeOK /\ SqlDeactivatesNothing /\ [Next]_vars => SqlDeactivatesNothing'
<1> SUFFICES ASSUME TypeOK, SqlDeactivatesNothing, [Next]_vars PROVE SqlDeactivatesNothing'
  OBVIOUS
<1> USE DEF SqlDeactivatesNothing
<1>1. ASSUME NEW j \in Jobs, StartStep(j) \/ StarterGivesUp(j) PROVE SqlDeactivatesNothing'
  BY <1>1 DEF StartStep, StarterGivesUp, CheckTarget, CreateJob, LaunchStart, Register
<1>2. ASSUME NEW j \in Jobs, PipelineStep(j) PROVE SqlDeactivatesNothing'
  BY <1>2, PipelineStepIs DEF Silent, SaveRun, SaveRunFails, StageEnds, CompleteRun,
              CompleteRunFails, Report, ReportFails, Cleanup
<1>3. ASSUME NEW j \in Jobs, NEW new \in JobStatus, ApiMove(j, new)
      PROVE  SqlDeactivatesNothing'
  BY <1>3 DEF ApiMove
<1>4. ASSUME NEW c \in Cancellers,
             (\E j \in Jobs : Interrupt(c, j)) \/ CancelTheJob(c) \/ CancelGivesUp(c)
      PROVE  SqlDeactivatesNothing'
  BY <1>4 DEF Interrupt, CancelTheJob, CancelGivesUp
<1>5. CASE \/ \E old, new \in {"ACTIVE", "INACTIVE"} : UpdateTarget(old, new)
           \/ DeleteFails
  BY <1>5 DEF UpdateTarget, DeleteFails
<1>6. CASE UpdateSweeps \/ DeleteSweeps \/ DeleteRow
  <2>1. durable' = durable /\ unswept' \in {unswept, FALSE} /\ target' \in {target, "DELETED"}
    BY <1>6 DEF UpdateSweeps, DeleteSweeps, DeleteRow
  <2>2. sweeps = 0 => sweeps' = 0
    BY <1>6 DEF UpdateSweeps, DeleteSweeps, DeleteRow
  <2> QED BY <2>1, <2>2
<1>7. CASE Crash \/ UNCHANGED vars
  BY <1>7 DEF Crash, vars
<1> QED BY <1>1, <1>2, <1>3, <1>4, <1>5, <1>6, <1>7 DEF Next

\* No transition makes a row go away; a deleted target stays deleted.
LEMMA NextGone ==
    ASSUME TypeOK, Verdicts, GoneWithTarget, [Next]_vars
    PROVE  GoneWithTarget'
<1>1. ASSUME NEW j \in Jobs, StartStep(j) \/ StarterGivesUp(j) PROVE GoneWithTarget'
  <2>1. target' = target
    BY <1>1 DEF StartStep, StarterGivesUp, CheckTarget, CreateJob, LaunchStart, Register
  <2>2. \A i \in Jobs : job'[i] = "GONE" => job[i] = "GONE"
    BY <1>1 DEF StartStep, StarterGivesUp, CheckTarget, CreateJob, LaunchStart, Register,
                TypeOK
  <2> QED BY <2>1, <2>2 DEF GoneWithTarget
<1>2. ASSUME NEW j \in Jobs, PipelineStep(j) PROVE GoneWithTarget'
  <2>1. CASE Silent(j)
    BY <2>1 DEF Silent, SaveRun, SaveRunFails, StageEnds, CompleteRun,
              CompleteRunFails, ReportFails, Cleanup, GoneWithTarget
  <2>2. CASE Report(j)
    <3>1. verdict[j] \in JobStatus
      BY <2>2 DEF Report, Verdicts, JobStatus
    <3> QED BY <2>2, <3>1, MoveTyped DEF Report, GoneWithTarget
  <2> QED BY <1>2, <2>1, <2>2, PipelineStepIs
<1>3. ASSUME NEW j \in Jobs, NEW new \in JobStatus, ApiMove(j, new) PROVE GoneWithTarget'
  BY <1>3, MoveTyped DEF ApiMove, GoneWithTarget
<1>4. ASSUME NEW c \in Cancellers, NEW j \in Jobs, Interrupt(c, j) PROVE GoneWithTarget'
  BY <1>4 DEF Interrupt, GoneWithTarget
<1>5. ASSUME NEW c \in Cancellers, CancelTheJob(c) PROVE GoneWithTarget'
  <2>1. caller[c] \in Jobs /\ "CANCELLED" \in JobStatus
    BY <1>5 DEF CancelTheJob, TypeOK, JobStatus, Terminal
  <2> QED BY <1>5, <2>1, MoveTyped DEF CancelTheJob, GoneWithTarget
<1>6. ASSUME NEW c \in Cancellers, CancelGivesUp(c) PROVE GoneWithTarget'
  BY <1>6 DEF CancelGivesUp, GoneWithTarget
<1>7. CASE \/ \E old, new \in {"ACTIVE", "INACTIVE"} : UpdateTarget(old, new)
           \/ DeleteFails \/ Crash \/ UNCHANGED vars
  BY <1>7 DEF UpdateTarget, DeleteFails, Crash, vars, GoneWithTarget, active
<1>8. CASE UpdateSweeps \/ DeleteSweeps
  BY <1>8, SweepTyped DEF UpdateSweeps, DeleteSweeps, GoneWithTarget, Active
<1>9. CASE DeleteRow
  BY <1>9 DEF DeleteRow, GoneWithTarget
<1> QED BY <1>1, <1>2, <1>3, <1>4, <1>5, <1>6, <1>7, <1>8, <1>9 DEF Next

\* No step leaves an active job behind a pipeline that has reported.
LEMMA NextReported ==
    ASSUME Strong, [Next]_vars
    PROVE  Reported'
<1> USE DEF Strong
<1>1. ASSUME NEW j \in Jobs, StartStep(j) \/ StarterGivesUp(j) PROVE Reported'
  <2>1. CASE CheckTarget(j) \/ StarterGivesUp(j)
    BY <2>1 DEF CheckTarget, StarterGivesUp, Reported
  <2>2. CASE Register(j)
    BY <2>2 DEF Register, TypeOK, Reported
  <2>3. CASE CreateJob(j) \/ LaunchStart(j)
    <3>1. pipe[j] = "none"
      BY <2>3 DEF CreateJob, LaunchStart, Launched
    <3> QED BY <2>3, <3>1 DEF CreateJob, LaunchStart, TypeOK, Reported
  <2> QED BY <1>1, <2>1, <2>2, <2>3 DEF StartStep
<1>2. ASSUME NEW j \in Jobs, PipelineStep(j) PROVE Reported'
  <2>1. CASE SaveRun(j) \/ SaveRunFails(j) \/ CompleteRun(j) \/ CompleteRunFails(j) \/ Cleanup(j)
    BY <2>1 DEF SaveRun, SaveRunFails, CompleteRun, CompleteRunFails, Fault, Cleanup, TypeOK,
                Reported
  <2>2. CASE StageEnds(j)
    BY <2>2 DEF StageEnds, StageNext, Stages, TypeOK, Reported
  <2>4. CASE ReportFails(j)
    BY <2>4 DEF ReportFails, Fault, TypeOK, Reported
  <2>3. CASE Report(j)
    <3>1. verdict[j] \in JobStatus /\ verdict[j] \in Terminal
      BY <2>3 DEF Report, Verdicts, JobStatus
    <3>2. job[j] \notin {"NONE", "QUEUED", "GONE"} \/ target = "DELETED"
      BY <2>3 DEF Report, Launched, GoneWithTarget
    <3>3. job'[j] \in Terminal \/ sweeps > 0 \/ unswept \/ target = "DELETED"
      <4>1. CASE active
        BY <2>3, <3>1, <3>2, <4>1, ReportEnds DEF Report, active
      <4>2. CASE target = "INACTIVE" /\ sweeps = 0 /\ ~unswept
        <5>1. job[j] \in Terminal
          BY <2>3, <3>2, <4>2 DEF Report, Launched, TypeOK, SweptNothingRuns, StoredStatus,
                             JobStatus, Active
        <5> QED BY <2>3, <3>1, <5>1, MoveTyped DEF Report
      <4> QED BY <4>1, <4>2, MaxSweepsAssumption DEF active, TypeOK
    <3>4. \A i \in Jobs : job[i] \in Terminal => job'[i] \in Terminal
      BY <2>3, <3>1, MoveTyped DEF Report
    <3> QED BY <2>3, <3>3, <3>4 DEF Report, TypeOK, Reported
  <2> QED BY <1>2, <2>1, <2>2, <2>3, <2>4 DEF PipelineStep
<1>3. ASSUME NEW j \in Jobs, NEW new \in JobStatus, ApiMove(j, new) PROVE Reported'
  BY <1>3, MoveTyped DEF ApiMove, Reported
<1>4. ASSUME NEW c \in Cancellers, NEW j \in Jobs, Interrupt(c, j) PROVE Reported'
  BY <1>4 DEF Interrupt, Reported
<1>5. ASSUME NEW c \in Cancellers, CancelTheJob(c) PROVE Reported'
  <2>1. caller[c] \in Jobs /\ "CANCELLED" \in JobStatus
    BY <1>5 DEF CancelTheJob, TypeOK, JobStatus, Terminal
  <2> QED BY <1>5, <2>1, MoveTyped DEF CancelTheJob, Reported
<1>6. ASSUME NEW c \in Cancellers, CancelGivesUp(c) PROVE Reported'
  BY <1>6 DEF CancelGivesUp, Reported
<1>7. CASE \/ \E old, new \in {"ACTIVE", "INACTIVE"} : UpdateTarget(old, new)
           \/ DeleteFails
  <2>1. CASE DeleteFails
    BY <2>1 DEF DeleteFails, Reported
  <2>2. CASE \E old, new \in {"ACTIVE", "INACTIVE"} : UpdateTarget(old, new)
    BY <2>2, UpdateLeavesAMark DEF Reported
  <2> QED BY <1>7, <2>1, <2>2
<1>8. CASE UpdateSweeps \/ DeleteSweeps
  <2>1. pipe' = pipe /\ target' = target /\ faulted' = faulted
    BY <1>8 DEF UpdateSweeps, DeleteSweeps
  <2>2. CASE ~durable \/ UpdateSweeps
    <3> SUFFICES ASSUME NEW i \in Jobs, pipe[i] # "none", target # "DELETED"
                 PROVE  job'[i] \in Terminal
      BY <2>1 DEF Reported
    <3>1. job[i] \notin {"NONE", "QUEUED", "GONE"}
      BY DEF Launched, GoneWithTarget
    <3>2. /\ job'[i] \in StoredStatus /\ job'[i] \notin Active
          /\ job'[i] \in {job[i], "CANCELLED"}
      BY <1>8, <2>2, SweepTyped
    <3> QED BY <3>1, <3>2 DEF StoredStatus, JobStatus, Active, Terminal
  <2>3. CASE durable /\ DeleteSweeps
    <3>1. sweeps = 0 /\ ~unswept
      BY <2>3 DEF SqlDeactivatesNothing
    <3>2. \A i \in Jobs : job[i] \in Terminal => job'[i] \in Terminal
      BY <1>8, SweepTyped DEF Terminal
    <3> QED BY <2>1, <3>1, <3>2 DEF Reported
  <2> QED BY <1>8, <2>2, <2>3
<1>11. CASE DeleteRow
  BY <1>11 DEF DeleteRow, Reported
<1>9. CASE UNCHANGED vars
  BY <1>9 DEF vars, Reported
<1>10. CASE Crash
  BY <1>10 DEF Crash, TypeOK, Reported
<1> QED BY <1>1, <1>2, <1>3, <1>4, <1>5, <1>6, <1>7, <1>8, <1>9, <1>10, <1>11 DEF Next

-----------------------------------------------------------------------------
\* The state of the engine stays well typed (and a closing pipeline has a
\* verdict a run row may take), with restarts and under either store.
THEOREM TypeCorrect == Spec => [](TypeOK /\ Verdicts)
<1>1. Init => TypeOK /\ Verdicts
  BY InitStrong DEF Strong
<1>2. TypeOK /\ Verdicts /\ [Next]_vars => (TypeOK /\ Verdicts)'
  BY NextTyped, NextVerdicts
<1> QED BY <1>1, <1>2, PTL DEF Spec

\* A pipeline that is over leaves no active job behind, whatever the job
\* service refuses of its report (an error it ignores): the job has ended, or
\* the sweep of HandleTargetDeactivated is due, or the target was deleted.
\* What is left is a deactivation from a stale copy, which nothing sweeps, and
\* a report the store failed.
THEOREM PipelinesEndTheirJobs == Spec => []EndedPipelineEndedJob
<1>1. Init => Strong
  BY InitStrong
<1>2. Strong /\ [Next]_vars => Strong'
  BY NextTyped, NextVerdicts, NextLaunched, NextSweptNothingRuns, NextReported, NextGone,
     NextSql DEF Strong
<1>3. Strong => EndedPipelineEndedJob
  BY DEF Strong, Reported, EndedPipelineEndedJob, Active, Terminal
<1> QED BY <1>1, <1>2, <1>3, PTL DEF Spec

\* A context is cancelled only after its pipeline was launched.
InterruptedWereLaunched == \A j \in interrupted : pipe[j] # "none"

Registrations == RegistrationsAreLive /\ InterruptedWereLaunched

\* No step leaks a cancel function or drops that of a live pipeline.
LEMMA NextRegistrations ==
    ASSUME TypeOK, Launched, Registrations, [Next]_vars
    PROVE  Registrations'
<1> USE DEF Registrations, RegistrationsAreLive, InterruptedWereLaunched
<1>1. ASSUME NEW j \in Jobs, StartStep(j) \/ StarterGivesUp(j) PROVE Registrations'
  <2>1. CASE CheckTarget(j) \/ StarterGivesUp(j) \/ CreateJob(j) \/ LaunchStart(j)
    BY <2>1 DEF CheckTarget, StarterGivesUp, CreateJob, LaunchStart
  <2>2. CASE Register(j)
    <3>1. pipe[j] = "none" /\ j \notin interrupted
      BY <2>2 DEF Register, Launched
    <3> QED BY <2>2, <3>1 DEF Register, TypeOK
  <2> QED BY <1>1, <2>1, <2>2 DEF StartStep
<1>2. ASSUME NEW j \in Jobs, PipelineStep(j) PROVE Registrations'
  <2>1. CASE \/ SaveRun(j) \/ SaveRunFails(j) \/ CompleteRun(j) \/ CompleteRunFails(j)
             \/ Report(j) \/ ReportFails(j)
    BY <2>1 DEF SaveRun, SaveRunFails, CompleteRun, CompleteRunFails, Report, ReportFails, TypeOK
  <2>2. CASE StageEnds(j)
    BY <2>2 DEF StageEnds, StageNext, Stages, TypeOK
  <2>3. CASE Cleanup(j)
    BY <2>3 DEF Cleanup, TypeOK
  <2> QED BY <1>2, <2>1, <2>2, <2>3 DEF PipelineStep
<1>3. ASSUME NEW j \in Jobs, NEW new \in JobStatus, ApiMove(j, new) PROVE Registrations'
  BY <1>3 DEF ApiMove
<1>4. ASSUME NEW c \in Cancellers, NEW j \in Jobs, Interrupt(c, j) PROVE Registrations'
  BY <1>4 DEF Interrupt
<1>5. ASSUME NEW c \in Cancellers, CancelTheJob(c) \/ CancelGivesUp(c)
      PROVE  Registrations'
  BY <1>5 DEF CancelTheJob, CancelGivesUp
<1>6. CASE \/ \E old, new \in {"ACTIVE", "INACTIVE"} : UpdateTarget(old, new)
           \/ UpdateSweeps \/ DeleteSweeps \/ DeleteRow \/ DeleteFails
  BY <1>6 DEF UpdateTarget, DeleteFails, UpdateSweeps, DeleteSweeps, DeleteRow
<1>7. CASE Crash
  BY <1>7 DEF Crash, TypeOK
<1>8. CASE UNCHANGED vars
  BY <1>8 DEF vars
<1> QED BY <1>1, <1>2, <1>3, <1>4, <1>5, <1>6, <1>7, <1>8 DEF Next

\* The table of cancel functions never keeps the entry of a pipeline that is
\* over and never loses that of one CancelRecon has not reached, although
\* both CancelRecon and the goroutine's deferred function delete from it.
THEOREM RegistrationsStayLive == Spec => []RegistrationsAreLive
<1> DEFINE IInv == TypeOK /\ Verdicts /\ Launched /\ Registrations
<1>1. Init => IInv
  <2>1. Init => Registrations
    BY DEF Init, Registrations, RegistrationsAreLive, InterruptedWereLaunched
  <2> QED BY <2>1, InitStrong DEF Strong
<1>2. IInv /\ [Next]_vars => IInv'
  BY NextTyped, NextVerdicts, NextLaunched, NextRegistrations
<1>3. IInv => RegistrationsAreLive
  BY DEF Registrations
<1> QED BY <1>1, <1>2, <1>3, PTL DEF Spec


-----------------------------------------------------------------------------
\* How far the run row is by the time the pipeline has come to a point.
RunFollowsPipeline ==
    /\ \A j \in Jobs : pipe[j] \in {"none", "save"} => run[j] = "none"
    /\ \A j \in Jobs : pipe[j] \in Stages \cup {"close"} =>
          run[j] = "RUNNING" \/ (durable /\ run[j] = "none")
    /\ RunRowSettles

\* No step makes the run row and the pipeline disagree.
LEMMA NextRunFollows ==
    ASSUME TypeOK, Verdicts, Launched, RunFollowsPipeline, [Next]_vars
    PROVE  RunFollowsPipeline'
<1> USE DEF RunFollowsPipeline, RunRowSettles
<1>1. ASSUME NEW j \in Jobs, StartStep(j) \/ StarterGivesUp(j) PROVE RunFollowsPipeline'
  <2>1. CASE CheckTarget(j) \/ StarterGivesUp(j) \/ CreateJob(j) \/ LaunchStart(j)
    BY <2>1 DEF CheckTarget, StarterGivesUp, CreateJob, LaunchStart
  <2>2. CASE Register(j)
    <3>1. pipe[j] = "none" /\ run[j] = "none"
      BY <2>2 DEF Register, Launched
    <3> QED BY <2>2, <3>1 DEF Register, TypeOK, Stages
  <2> QED BY <1>1, <2>1, <2>2 DEF StartStep
<1>2. ASSUME NEW j \in Jobs, PipelineStep(j) PROVE RunFollowsPipeline'
  <2>1. CASE SaveRun(j)
    BY <2>1 DEF SaveRun, TypeOK, Stages
  <2>6. CASE SaveRunFails(j)
    <3>1. /\ durable /\ pipe[j] = "save" /\ run[j] = "none" /\ faulted \subseteq faulted'
          /\ UNCHANGED <<durable, interrupted>>
          /\ pipe' = [pipe EXCEPT ![j] = "report"]
          /\ \A k \in Jobs : k # j => run'[k] = run[k] /\ verdict'[k] = verdict[k]
      BY <2>6 DEF SaveRunFails, Fault, TypeOK
    <3>2. run'[j] = "none" \/ run'[j] = "RUNNING"
      BY <2>6, <3>1 DEF SaveRunFails, TypeOK
    <3>3. run'[j] = "RUNNING" => j \in interrupted \/ <<"save", j>> \in faulted'
      BY <2>6, <3>1 DEF SaveRunFails, Fault, TypeOK
    <3> QED BY <3>1, <3>2, <3>3 DEF TypeOK, Stages
  <2>2. CASE StageEnds(j)
    <3>1. pipe[j] \in Stages /\ pipe'[j] \in Stages \cup {"close"}
      BY <2>2 DEF StageEnds, StageNext, Stages, TypeOK
    <3>2. \A k \in Jobs : k # j => pipe'[k] = pipe[k] /\ verdict'[k] = verdict[k]
      BY <2>2 DEF StageEnds, TypeOK
    <3>3. run' = run /\ durable' = durable /\ interrupted' = interrupted /\ faulted' = faulted
      BY <2>2 DEF StageEnds
    <3> QED BY <3>1, <3>2, <3>3 DEF Stages
  <2>3. CASE CompleteRun(j)
    <3>1. CASE run[j] = "none" \/ (durable /\ j \in interrupted)
      BY <2>3, <3>1 DEF CompleteRun, TypeOK, Stages
    <3>2. CASE ~(run[j] = "none" \/ (durable /\ j \in interrupted))
      BY <2>3, <3>2 DEF CompleteRun, TypeOK, Stages
    <3> QED BY <3>1, <3>2
  <2>7. CASE CompleteRunFails(j)
    BY <2>7 DEF CompleteRunFails, Fault, TypeOK, Stages
  <2>4. CASE Report(j) \/ ReportFails(j)
    BY <2>4 DEF Report, ReportFails, Fault, TypeOK, Stages
  <2>5. CASE Cleanup(j)
    BY <2>5 DEF Cleanup, TypeOK, Stages
  <2> QED BY <1>2, <2>1, <2>2, <2>3, <2>4, <2>5, <2>6, <2>7 DEF PipelineStep
<1>3. ASSUME NEW j \in Jobs, NEW new \in JobStatus, ApiMove(j, new) PROVE RunFollowsPipeline'
  BY <1>3 DEF ApiMove
<1>4. ASSUME NEW c \in Cancellers, NEW j \in Jobs, Interrupt(c, j) PROVE RunFollowsPipeline'
  BY <1>4 DEF Interrupt
<1>5. ASSUME NEW c \in Cancellers, CancelTheJob(c) \/ CancelGivesUp(c)
      PROVE  RunFollowsPipeline'
  BY <1>5 DEF CancelTheJob, CancelGivesUp
<1>6. CASE \/ \E old, new \in {"ACTIVE", "INACTIVE"} : UpdateTarget(old, new)
           \/ UpdateSweeps \/ DeleteSweeps \/ DeleteFails
  BY <1>6 DEF UpdateTarget, DeleteFails, UpdateSweeps, DeleteSweeps
<1>7. CASE DeleteRow
  BY <1>7 DEF DeleteRow
<1>8. CASE Crash
  BY <1>8 DEF Crash, TypeOK, Stages
<1>9. CASE UNCHANGED vars
  BY <1>9 DEF vars
<1> QED BY <1>1, <1>2, <1>3, <1>4, <1>5, <1>6, <1>7, <1>8, <1>9 DEF Next

\* From the report on, the run row says what is reported; only PostgreSQL may
\* leave it RUNNING, behind a context that was cancelled or when it failed to
\* insert the row or to close it.
THEOREM RunRowsSettle == Spec => []RunRowSettles
<1> DEFINE IInv == TypeOK /\ Verdicts /\ Launched /\ RunFollowsPipeline
<1>1. Init => IInv
  <2>1. Init => RunFollowsPipeline
    BY DEF Init, RunFollowsPipeline, RunRowSettles, Stages
  <2> QED BY <2>1, InitStrong DEF Strong
<1>2. IInv /\ [Next]_vars => IInv'
  BY NextTyped, NextVerdicts, NextLaunched, NextRunFollows
<1>3. IInv => RunRowSettles
  BY DEF RunFollowsPipeline
<1> QED BY <1>1, <1>2, <1>3, PTL DEF Spec

-----------------------------------------------------------------------------
\* CancelRecon is asked for only after the StartRecon of the job was answered
\* or given up.
PatientCancels ==
    \A c \in Cancellers : caller'[c] \notin {caller[c], NoJob} =>
        starter[caller'[c]] \in {"answered", "refused"}

\* A job somebody is cancelling, or has, is interrupted while it probes.
CancelledAreReached ==
    \A j \in Jobs : j \in acked \/ (\E c \in Cancellers : caller[c] = j) =>
        /\ starter[j] \in {"answered", "refused"}
        /\ pipe[j] \in Working => j \in interrupted

\* A pipeline exists only where StartRecon was answered.
LEMMA NextReached ==
    ASSUME TypeOK, Launched, Registrations, CancelledAreReached,
           [Next /\ PatientCancels]_vars
    PROVE  CancelledAreReached'
<1> USE DEF CancelledAreReached
<1>1. ASSUME NEW j \in Jobs, StartStep(j) \/ StarterGivesUp(j) PROVE CancelledAreReached'
  <2>1. /\ caller' = caller /\ acked' = acked /\ interrupted' = interrupted
        /\ \A k \in Jobs \ {j} : starter'[k] = starter[k] /\ pipe'[k] = pipe[k]
    BY <1>1 DEF StartStep, StarterGivesUp, CheckTarget, CreateJob, LaunchStart, Register, TypeOK
  <2>2. starter[j] \notin {"answered", "refused"}
    BY <1>1 DEF StartStep, StarterGivesUp, CheckTarget, CreateJob, LaunchStart, Register
  <2>3. j \notin acked /\ \A c \in Cancellers : caller[c] # j
    BY <2>2
  <2> QED BY <2>1, <2>3
<1>2. ASSUME NEW j \in Jobs, PipelineStep(j) PROVE CancelledAreReached'
  <2>1. caller' = caller /\ acked' = acked /\ starter' = starter /\ interrupted \subseteq interrupted'
    BY <1>2 DEF PipelineStep, SaveRun, SaveRunFails, StageEnds, CompleteRun, CompleteRunFails,
                Report, ReportFails, Cleanup
  <2>2. \A k \in Jobs : pipe'[k] \in Working => pipe[k] \in Working
    BY <1>2 DEF PipelineStep, SaveRun, SaveRunFails, StageEnds, CompleteRun, CompleteRunFails,
                Report, ReportFails, Cleanup, Working,
                Stages, TypeOK
  <2> QED BY <2>1, <2>2
<1>3. ASSUME NEW j \in Jobs, NEW new \in JobStatus, ApiMove(j, new)
      PROVE  CancelledAreReached'
  BY <1>3 DEF ApiMove
<1>4. ASSUME NEW c \in Cancellers, NEW j \in Jobs, Interrupt(c, j), PatientCancels
      PROVE  CancelledAreReached'
  <2>1. /\ caller' = [caller EXCEPT ![c] = j] /\ caller[c] = NoJob /\ acked' = acked
        /\ interrupted' = interrupted \cup (cancels \cap {j})
        /\ starter' = starter /\ pipe' = pipe
    BY <1>4 DEF Interrupt
  <2>2. starter[j] \in {"answered", "refused"}
    BY <1>4, <2>1, NoJobAssumption DEF PatientCancels, TypeOK
  <2>3. pipe[j] \in Working => j \in interrupted'
    BY <2>1 DEF Registrations, RegistrationsAreLive, Working, Stages
  <2> QED BY <2>1, <2>2, <2>3 DEF TypeOK
<1>5. ASSUME NEW c \in Cancellers, CancelTheJob(c) \/ CancelGivesUp(c)
      PROVE  CancelledAreReached'
  <2>1. /\ caller' = [caller EXCEPT ![c] = NoJob] /\ caller[c] \in Jobs
        /\ acked' \subseteq acked \cup {caller[c]}
        /\ UNCHANGED <<starter, pipe, interrupted>>
    BY <1>5 DEF CancelTheJob, CancelGivesUp, TypeOK
  <2> SUFFICES ASSUME NEW j \in Jobs, j \in acked' \/ (\E d \in Cancellers : caller'[d] = j)
               PROVE  /\ starter[j] \in {"answered", "refused"}
                      /\ pipe[j] \in Working => j \in interrupted
    BY <2>1
  <2>2. j \in acked \/ (\E d \in Cancellers : caller[d] = j)
    BY <2>1, NoJobAssumption DEF TypeOK
  <2> QED BY <2>2
<1>6. CASE \/ \E old, new \in {"ACTIVE", "INACTIVE"} : UpdateTarget(old, new)
           \/ UpdateSweeps \/ DeleteSweeps \/ DeleteRow \/ DeleteFails
  BY <1>6 DEF UpdateTarget, DeleteFails, UpdateSweeps, DeleteSweeps, DeleteRow
<1>7. CASE Crash
  <2>1. /\ acked' = acked /\ interrupted' = interrupted
        /\ \A c \in Cancellers : caller'[c] = NoJob
    BY <1>7 DEF Crash
  <2>2. \A j \in Jobs : /\ pipe'[j] \in Working => pipe[j] \in Working
                        /\ starter[j] \in {"answered", "refused"} => starter'[j] = starter[j]
    BY <1>7 DEF Crash, Working, Stages
  <2> SUFFICES ASSUME NEW j \in Jobs, j \in acked' \/ (\E c \in Cancellers : caller'[c] = j)
               PROVE  /\ starter'[j] \in {"answered", "refused"}
                      /\ pipe'[j] \in Working => j \in interrupted'
    OBVIOUS
  <2>3. j \in acked
    BY <2>1, NoJobAssumption
  <2> QED BY <2>1, <2>2, <2>3
<1>8. CASE UNCHANGED vars
  BY <1>8 DEF vars
<1> QED BY <1>1, <1>2, <1>3, <1>4, <1>5, <1>6, <1>7, <1>8 DEF Next

\* A cancellation that is asked for after the StartRecon of its job was
\* answered does reach the pipeline: the early request is the only way to
\* answer one with success and let the scan go on.
THEOREM PatientCancelsReachPipeline ==
    Init /\ [][Next /\ PatientCancels]_vars => []CancelReachesPipeline
<1> DEFINE IInv == TypeOK /\ Verdicts /\ Launched /\ Registrations /\ CancelledAreReached
<1>1. Init => IInv
  <2>1. Init => Registrations
    BY DEF Init, Registrations, RegistrationsAreLive, InterruptedWereLaunched
  <2>2. Init => CancelledAreReached
    BY NoJobAssumption DEF Init, CancelledAreReached
  <2> QED BY <2>1, <2>2, InitStrong DEF Strong
<1>2. IInv /\ [Next /\ PatientCancels]_vars => IInv'
  BY NextTyped, NextVerdicts, NextLaunched, NextRegistrations, NextReached
<1>3. IInv => CancelReachesPipeline
  BY DEF CancelledAreReached, CancelReachesPipeline, TypeOK
<1> QED BY <1>1, <1>2, <1>3, PTL
-----------------------------------------------------------------------------
\* The state machine JobLifecycle implements, of one job: a sweep moves all
\* the jobs of the target in a step here, each of them legally.
OneJob(j) == INSTANCE JobStateMachine WITH Jobs <- {j}, status <- [i \in {j} |-> job[i]]

\* A job is created once, by the request that was given its identifier.
CreatedByStarter == \A j \in Jobs : starter[j] \in {"idle", "checked"} => job[j] = "NONE"

\* Nothing but the creation stores a job that was not there.
LEMMA NextCreated ==
    ASSUME TypeOK, Verdicts, CreatedByStarter, [Next]_vars
    PROVE  CreatedByStarter'
<1> USE DEF CreatedByStarter
<1>1. ASSUME NEW j \in Jobs, StartStep(j) \/ StarterGivesUp(j) PROVE CreatedByStarter'
  BY <1>1 DEF StartStep, StarterGivesUp, CheckTarget, CreateJob, LaunchStart, Register, TypeOK
<1>2. ASSUME NEW j \in Jobs, NEW new \in JobStatus, Move(j, new), starter' = starter
      PROVE  CreatedByStarter'
  <2>1. <<"NONE", new>> \notin Edge
    BY DEF Edge, Active
  <2> QED BY <1>2, <2>1 DEF Move, May, TypeOK
<1>3. ASSUME NEW j \in Jobs, PipelineStep(j) PROVE CreatedByStarter'
  <2>1. CASE Silent(j)
    BY <2>1 DEF Silent, SaveRun, SaveRunFails, StageEnds, CompleteRun,
              CompleteRunFails, ReportFails, Cleanup
  <2>2. CASE Report(j)
    <3>1. verdict[j] \in JobStatus
      BY <2>2 DEF Report, Verdicts, JobStatus
    <3> QED BY <1>2, <2>2, <3>1 DEF Report
  <2> QED BY <1>3, <2>1, <2>2, PipelineStepIs
<1>4. ASSUME NEW j \in Jobs, NEW new \in JobStatus, ApiMove(j, new) PROVE CreatedByStarter'
  BY <1>2, <1>4 DEF ApiMove
<1>5. ASSUME NEW c \in Cancellers, CancelTheJob(c) PROVE CreatedByStarter'
  <2>1. caller[c] \in Jobs /\ "CANCELLED" \in JobStatus
    BY <1>5 DEF CancelTheJob, TypeOK, JobStatus, Terminal
  <2> QED BY <1>2, <1>5, <2>1 DEF CancelTheJob
<1>6. ASSUME NEW c \in Cancellers, CancelGivesUp(c) \/ \E j \in Jobs : Interrupt(c, j)
      PROVE  CreatedByStarter'
  BY <1>6 DEF CancelGivesUp, Interrupt
<1>7. CASE \/ \E old, new \in {"ACTIVE", "INACTIVE"} : UpdateTarget(old, new)
           \/ DeleteFails \/ UNCHANGED vars
  BY <1>7 DEF UpdateTarget, DeleteFails, vars
<1>8. CASE UpdateSweeps \/ DeleteSweeps
  BY <1>8, SweepTyped DEF UpdateSweeps, DeleteSweeps, Active
<1>9. CASE DeleteRow \/ Crash
  BY <1>9 DEF DeleteRow, Crash, TypeOK
<1> QED BY <1>1, <1>3, <1>4, <1>5, <1>6, <1>7, <1>8, <1>9 DEF Next

\* A step that is legal for a job is one of its state machine.
Legal(j) ==
    \/ job'[j] = job[j]
    \/ job[j] = "NONE" /\ job'[j] = "QUEUED"
    \/ <<job[j], job'[j]>> \in Edge
    \/ job[j] \in JobStatus /\ job'[j] = "GONE"

LEMMA LegalIsAStep ==
    ASSUME NEW j, Legal(j), TypeOK', j \in Jobs
    PROVE  [OneJob(j)!Next]_[i \in {j} |-> job[i]]
<1>1. CASE job'[j] = job[j]
  BY <1>1
<1>2. CASE \/ job[j] = "NONE" /\ job'[j] = "QUEUED"
           \/ <<job[j], job'[j]>> \in Edge
  <2>1. job'[j] \in JobStatus
    BY <1>2 DEF Edge, JobStatus, Active, Terminal
  <2>2. OneJob(j)!Step(j)
    BY <1>2, <2>1 DEF OneJob!Step, OneJob!JobStatus, OneJob!Edge, OneJob!Active,
                      OneJob!Terminal, JobStatus, Edge, Active, Terminal
  <2> QED BY <2>2 DEF OneJob!Next
<1>3. CASE job[j] \in JobStatus /\ job'[j] = "GONE"
  <2>1. OneJob(j)!Vanish({j})
    BY <1>3 DEF OneJob!Vanish, OneJob!JobStatus, OneJob!Active, OneJob!Terminal, JobStatus,
                Active, Terminal
  <2> QED BY <2>1 DEF OneJob!Next
<1> QED BY <1>1, <1>2, <1>3 DEF Legal

\* A transition is legal for every job.
LEMMA MoveLegal ==
    ASSUME TypeOK, NEW j \in Jobs, NEW new \in JobStatus, Move(j, new)
    PROVE  \A i \in Jobs : Legal(i)
  BY DEF Move, May, TypeOK, Legal

\* Every step of the engine, of the job API and of the target handlers is a
\* legal one for every job, or leaves it alone.
LEMMA NextLegal ==
    ASSUME TypeOK, Verdicts, CreatedByStarter, [Next]_vars
    PROVE  \A i \in Jobs : Legal(i)
<1>1. ASSUME NEW j \in Jobs, StartStep(j) \/ StarterGivesUp(j) PROVE \A i \in Jobs : Legal(i)
  <2>1. CASE CheckTarget(j) \/ StarterGivesUp(j) \/ Register(j)
    BY <2>1 DEF CheckTarget, StarterGivesUp, Register, Legal
  <2>2. CASE CreateJob(j)
    BY <2>2 DEF CreateJob, CreatedByStarter, TypeOK, Legal
  <2>3. CASE LaunchStart(j)
    BY <2>3 DEF LaunchStart, May, TypeOK, Legal
  <2> QED BY <1>1, <2>1, <2>2, <2>3 DEF StartStep
<1>2. ASSUME NEW j \in Jobs, PipelineStep(j) PROVE \A i \in Jobs : Legal(i)
  <2>1. CASE Silent(j)
    BY <2>1 DEF Silent, SaveRun, SaveRunFails, StageEnds, CompleteRun,
              CompleteRunFails, ReportFails, Cleanup, Legal
  <2>2. CASE Report(j)
    <3>1. verdict[j] \in JobStatus
      BY <2>2 DEF Report, Verdicts, JobStatus
    <3> QED BY <2>2, <3>1, MoveLegal DEF Report
  <2> QED BY <1>2, <2>1, <2>2, PipelineStepIs
<1>3. ASSUME NEW j \in Jobs, NEW new \in JobStatus, ApiMove(j, new)
      PROVE  \A i \in Jobs : Legal(i)
  BY <1>3, MoveLegal DEF ApiMove
<1>4. ASSUME NEW c \in Cancellers, CancelTheJob(c) PROVE \A i \in Jobs : Legal(i)
  <2>1. caller[c] \in Jobs /\ "CANCELLED" \in JobStatus
    BY <1>4 DEF CancelTheJob, TypeOK, JobStatus, Terminal
  <2> QED BY <1>4, <2>1, MoveLegal DEF CancelTheJob
<1>5. ASSUME NEW c \in Cancellers, CancelGivesUp(c) \/ \E j \in Jobs : Interrupt(c, j)
      PROVE  \A i \in Jobs : Legal(i)
  BY <1>5 DEF CancelGivesUp, Interrupt, Legal
<1>6. CASE \/ \E old, new \in {"ACTIVE", "INACTIVE"} : UpdateTarget(old, new)
           \/ DeleteFails \/ Crash \/ UNCHANGED vars
  BY <1>6 DEF UpdateTarget, DeleteFails, Crash, vars, Legal
<1>7. CASE UpdateSweeps \/ DeleteSweeps
  BY <1>7, SweepTyped DEF UpdateSweeps, DeleteSweeps, Legal, Edge, Active, Terminal
<1>8. CASE DeleteRow
  BY <1>8 DEF DeleteRow, TypeOK, StoredStatus, Legal
<1> QED BY <1>1, <1>2, <1>3, <1>4, <1>5, <1>6, <1>7, <1>8 DEF Next

\* Taken one at a time, the jobs of the engine follow the state machine the
\* job service promises, although it takes a transition for one step and a
\* sweep for another: the two models of a job agree.
THEOREM EachJobFollowsItsMachine ==
    ASSUME NEW j \in Jobs
    PROVE  Spec => OneJob(j)!Spec
<1> DEFINE IInv == TypeOK /\ Verdicts /\ CreatedByStarter
<1>1. Init => IInv
  <2>1. Init => CreatedByStarter
    BY DEF Init, CreatedByStarter
  <2> QED BY <2>1, InitStrong DEF Strong
<1>2. IInv /\ [Next]_vars => IInv'
  BY NextTyped, NextVerdicts, NextCreated
<1>3. Init => OneJob(j)!Init
  BY DEF Init, OneJob!Init
<1>4. IInv /\ IInv' /\ [Next]_vars => [OneJob(j)!Next]_[i \in {j} |-> job[i]]
  BY NextLegal, LegalIsAStep
<1> QED BY <1>1, <1>2, <1>3, <1>4, PTL DEF Spec, OneJob!Spec
=============================================================================
