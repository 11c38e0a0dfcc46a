---------------------------- MODULE JobLifecycle ----------------------------
(***************************************************************************)
(* The scan-job service: several server processes, each with one           *)
(* jobs.Manager, over one store.  A Manager's mutex serialises the         *)
(* transitions of its own process; between processes only the              *)
(* compare-and-set of the store stands.  Every operation is split where    *)
(* the code talks to the store, so that other processes, and the           *)
(* unserialised part of CreateJob, run in between.                         *)
(***************************************************************************)
EXTENDS Naturals, Sequences, FiniteSets, JobStates

CONSTANTS
    Jobs,       \* the job identifiers that may be drawn
    Targets,    \* the scan targets
    TargetOf,   \* the target each job is created for (its row never changes it)
    Managers,   \* the server processes
    Cascade,    \* TRUE: PostgreSQL's foreign keys; FALSE: the in-memory store
    Faults,     \* which of {"storage", "crash"} may happen
    MaxClock    \* bound: how many timestamps the requests may take

ASSUME TargetOfAssumption == TargetOf \in [Jobs -> Targets]
ASSUME CascadeAssumption  == Cascade \in BOOLEAN
ASSUME FaultsAssumption   == Faults \subseteq {"storage", "crash"}
ASSUME MaxClockAssumption == MaxClock \in Nat

VARIABLES
    target,   \* target[t]: the status stored for target t
    job,      \* job[j]: the stored row of job j
    log,      \* log[j]: the audit events stored for job j, in commit order
    pending,  \* pending[m]: creations validated, waiting for m's mutex
    op,       \* op[m]: what runs under m's mutex
    copy,     \* copy[m][j]: the row of j as that operation read it
    clock     \* the next value of time.Now()

vars == <<target, job, log, pending, op, copy, clock>>

-----------------------------------------------------------------------------
TargetStatus == {"ACTIVE", "INACTIVE", "DELETED"}

\* A timestamp of 0 is SQL NULL.
Row   == [status : StoredStatus, started : Nat, completed : Nat]
NoRow == [status |-> "NONE", started |-> 0, completed |-> 0]
Event == [prev : StoredStatus, new : JobStatus, at : Nat]

Requests == {"start", "complete", "fail", "cancel"}
Kinds    == Requests \cup {"sweep", "idle"}
Op       == [kind : Kinds, step : {"none", "check", "stamp", "commit"},
             todo : SUBSET Jobs, at : Nat]
IdleOp   == [kind |-> "idle", step |-> "none", todo |-> {}, at |-> 0]

\* Mutant: a cancellation also overwrites a job that has completed.
ExpectedWithCompleted(k) == CASE k = "start"                -> {"QUEUED"}
                              [] k \in {"complete", "fail"} -> {"RUNNING"}
                              [] OTHER -> {"QUEUED", "RUNNING", "COMPLETED"}

\* Mutant: a job may complete or fail without having been started.
ExpectedAnyActive(k) == IF k = "start" THEN {"QUEUED"} ELSE {"QUEUED", "RUNNING"}

\* The states the compare-and-set of each operation accepts, and the one it
\* writes; "sweep" is HandleTargetDeactivated.
Expected(k) == CASE k = "start"                -> {"QUEUED"}
                 [] k \in {"complete", "fail"} -> {"RUNNING"}
                 [] OTHER                      -> {"QUEUED", "RUNNING"}

\* Mutant: a failed job is written with a status outside the enumeration.
GoalWithError(k) == CASE k = "start"    -> "RUNNING"
                      [] k = "complete" -> "COMPLETED"
                      [] k = "fail"     -> "ERROR"
                      [] OTHER          -> "CANCELLED"

Goal(k) == CASE k = "start"    -> "RUNNING"
             [] k = "complete" -> "COMPLETED"
             [] k = "fail"     -> "FAILED"
             [] OTHER          -> "CANCELLED"

\* Mutant: the row is built anew instead of from the copy.
MovedFromScratch(k, row, now) ==
    IF k = "start" THEN [NoRow EXCEPT !.status = Goal(k), !.started = now]
                   ELSE [NoRow EXCEPT !.status = Goal(k), !.completed = now]

\* The row an operation writes: the copy it read, moved to the goal.
Moved(k, row, now) ==
    IF k = "start" THEN [row EXCEPT !.status = Goal(k), !.started = now]
                   ELSE [row EXCEPT !.status = Goal(k), !.completed = now]

Idle(m)      == op[m].kind = "idle"
TargetRow(j) == target[TargetOf[j]]
JobsOf(t)    == {j \in Jobs : TargetOf[j] = t}
Stored(j)    == job[j].status \in JobStatus

\* Requests already admitted may each take one more timestamp.
Outstanding == Cardinality({m \in Managers : op[m].step \in {"check", "stamp"}})
                 + Cardinality({p \in Managers \X Jobs : p[2] \in pending[p[1]]})
Admit == clock + Outstanding < MaxClock

Release(m) == /\ op'   = [op   EXCEPT ![m] = IdleOp]
              /\ copy' = [copy EXCEPT ![m] = [j \in Jobs |-> NoRow]]

-----------------------------------------------------------------------------
Init ==
    /\ target  = [t \in Targets |-> "ACTIVE"]
    /\ job     = [j \in Jobs |-> NoRow]
    /\ log     = [j \in Jobs |-> <<>>]
    /\ pending = [m \in Managers |-> {}]
    /\ op      = [m \in Managers |-> IdleOp]
    /\ copy    = [m \in Managers |-> [j \in Jobs |-> NoRow]]
    /\ clock   = 1

\* CreateJob up to the mutex: the target is checked before m.mu.Lock().
CreateValidate(m, j) ==
    /\ Admit
    /\ job[j].status = "NONE"
    /\ \A n \in Managers : j \notin pending[n]
    /\ TargetRow(j) = "ACTIVE"
    /\ pending' = [pending EXCEPT ![m] = @ \cup {j}]
    /\ UNCHANGED <<target, job, log, op, copy, clock>>

\* Mutant: the row goes in whether or not its target still exists.
CreateCommitUnchecked(m, j) ==
    /\ j \in pending[m]
    /\ Idle(m)
    /\ pending' = [pending EXCEPT ![m] = @ \ {j}]
    /\ clock' = clock + 1
    /\ job' = [job EXCEPT ![j] = [NoRow EXCEPT !.status = "QUEUED"]]
    /\ log' = [log EXCEPT ![j] =
                 <<[prev |-> "NONE", new |-> "QUEUED", at |-> clock]>>]
    /\ UNCHANGED <<target, op, copy>>

\* Mutant: the creation waits until the target is active again.
CreateCommitWhenActive(m, j) ==
    TargetRow(j) = "ACTIVE" /\ CreateCommitUnchecked(m, j)

\* CreateJob under the mutex: row and event go in together, or neither does;
\* the foreign key refuses a row whose target is gone.
CreateCommit(m, j) ==
    /\ j \in pending[m]
    /\ Idle(m)
    /\ pending' = [pending EXCEPT ![m] = @ \ {j}]
    /\ clock' = clock + 1
    /\ \/ /\ Cascade => TargetRow(j) # "DELETED"
          /\ job' = [job EXCEPT ![j] = [NoRow EXCEPT !.status = "QUEUED"]]
          /\ log' = [log EXCEPT ![j] =
                       <<[prev |-> "NONE", new |-> "QUEUED", at |-> clock]>>]
       \/ /\ \/ Cascade /\ TargetRow(j) = "DELETED"
             \/ "storage" \in Faults
          /\ UNCHANGED <<job, log>>
    /\ UNCHANGED <<target, op, copy>>

\* A request for a transition takes the mutex and reads the row.
Read(m, k, j) ==
    /\ Admit
    /\ Idle(m)
    /\ Stored(j)
    /\ op'   = [op EXCEPT ![m] =
                  [kind |-> k, step |-> "check", todo |-> {j}, at |-> 0]]
    /\ copy' = [copy EXCEPT ![m][j] = job[j]]
    /\ UNCHANGED <<target, job, log, pending, clock>>

StartJob(m, j)    == Read(m, "start", j)
CompleteJob(m, j) == Read(m, "complete", j)
FailJob(m, j)     == Read(m, "fail", j)
CancelJob(m, j)   == Read(m, "cancel", j)

\* ... then looks at the target and at the copy, and takes the time.
Check(m) ==
    /\ op[m].step = "check"
    /\ \A j \in op[m].todo :
         /\ TargetRow(j) = "ACTIVE"
         /\ copy[m][j].status \in Expected(op[m].kind)
    /\ op'    = [op EXCEPT ![m].step = "commit", ![m].at = clock]
    /\ clock' = clock + 1
    /\ UNCHANGED <<target, job, log, pending, copy>>

\* ... or returns early: the target is not active, the goal is reached
\* already (idempotent) or the state does not allow it, or a read failed.
Refuse(m) ==
    /\ op[m].step = "check"
    /\ \/ "storage" \in Faults
       \/ \E j \in op[m].todo :
            \/ TargetRow(j) # "ACTIVE"
            \/ copy[m][j].status \notin Expected(op[m].kind)
    /\ Release(m)
    /\ UNCHANGED <<target, job, log, pending, clock>>

\* HandleTargetDeactivated lists the target's jobs, without looking at the
\* target, and keeps those the list shows active.
SweepList(m, t) ==
    /\ Admit
    /\ Idle(m)
    /\ LET live == {j \in JobsOf(t) : job[j].status \in Active}
       IN  /\ live # {}
           /\ op'   = [op EXCEPT ![m] =
                         [kind |-> "sweep", step |-> "stamp", todo |-> live, at |-> 0]]
           /\ copy' = [copy EXCEPT ![m] =
                         [j \in Jobs |-> IF j \in live THEN job[j] ELSE NoRow]]
    /\ UNCHANGED <<target, job, log, pending, clock>>

\* ... takes one time for all of them,
SweepStamp(m) ==
    /\ op[m].step = "stamp"
    /\ op'    = [op EXCEPT ![m].step = "commit", ![m].at = clock]
    /\ clock' = clock + 1
    /\ UNCHANGED <<target, job, log, pending, copy>>

\* Mutant: the event is recorded even when the compare-and-set refuses.
CompareAndSetLogsAnyway(m, j) ==
    LET k == op[m].kind
        r == copy[m][j]
    IN  /\ job' = IF job[j].status \in Expected(k)
                  THEN [job EXCEPT ![j] = Moved(k, r, op[m].at)] ELSE job
        /\ log' = [log EXCEPT ![j] = Append(@,
                     [prev |-> r.status, new |-> Goal(k), at |-> op[m].at])]

\* Mutant: the previous status is taken from the copy after it was moved.
CompareAndSetLatePrevious(m, j) ==
    LET k == op[m].kind
    IN  IF job[j].status \in Expected(k)
        THEN /\ job' = [job EXCEPT ![j] = Moved(k, copy[m][j], op[m].at)]
             /\ log' = [log EXCEPT ![j] = Append(@,
                          [prev |-> Goal(k), new |-> Goal(k), at |-> op[m].at])]
        ELSE UNCHANGED <<job, log>>

\* TransitionJobWithAuditEvent: one transaction writes the whole row and
\* inserts the event, if the stored state is still one of the expected ones.
CompareAndSet(m, j) ==
    LET k == op[m].kind
        r == copy[m][j]
    IN  IF job[j].status \in Expected(k)
        THEN /\ job' = [job EXCEPT ![j] = Moved(k, r, op[m].at)]
             /\ log' = [log EXCEPT ![j] = Append(@,
                          [prev |-> r.status, new |-> Goal(k), at |-> op[m].at])]
        ELSE UNCHANGED <<job, log>>

\* Mutant: a sweep stops after its first job.
DoneAfterFirst(m, j) == Release(m)

\* The operation is done with job j; after the last one the mutex is freed.
Done(m, j) ==
    IF op[m].todo = {j}
    THEN Release(m)
    ELSE /\ op' = [op EXCEPT ![m].todo = @ \ {j}]
         /\ UNCHANGED copy

Commit(m, j) ==
    /\ op[m].step = "commit"
    /\ j \in op[m].todo
    /\ CompareAndSet(m, j)
    /\ Done(m, j)
    /\ UNCHANGED <<target, pending, clock>>

\* The transaction fails and rolls back.  A request returns the error; a
\* sweep ignores it and goes on with the next job.
CommitFails(m, j) ==
    /\ "storage" \in Faults
    /\ op[m].step = "commit"
    /\ j \in op[m].todo
    /\ Done(m, j)
    /\ UNCHANGED <<target, job, log, pending, clock>>

\* A process dies with everything it was doing; the store survives it.
Crash(m) ==
    /\ "crash" \in Faults
    /\ ~Idle(m) \/ pending[m] # {}
    /\ pending' = [pending EXCEPT ![m] = {}]
    /\ Release(m)
    /\ UNCHANGED <<target, job, log, clock>>

\* UPDATE targets SET status: any of the statuses, at any time.  (Under
\* PostgreSQL the statement of the code is refused, as TargetJobs shows; here
\* it stands for an operator's own SQL, which the service has to survive.)
SetTarget(t, s) ==
    /\ target[t] \notin {s, "DELETED"}
    /\ target' = [target EXCEPT ![t] = s]
    /\ UNCHANGED <<job, log, pending, op, copy, clock>>

\* Mutant: the events go with the target even where the rows stay.
DropTargetLosesEvents(t) ==
    /\ target[t] # "DELETED"
    /\ target' = [target EXCEPT ![t] = "DELETED"]
    /\ log' = [j \in Jobs |-> IF j \in JobsOf(t) THEN <<>> ELSE log[j]]
    /\ UNCHANGED <<job, pending, op, copy, clock>>

\* DELETE FROM targets: under PostgreSQL the rows of its jobs go with it and
\* their events lose their job_id; the in-memory store leaves both.
DropTarget(t) ==
    /\ target[t] # "DELETED"
    /\ target' = [target EXCEPT ![t] = "DELETED"]
    /\ LET lost == {j \in JobsOf(t) : Cascade /\ Stored(j)}
       IN  /\ job' = [j \in Jobs |-> IF j \in lost
                                       THEN [job[j] EXCEPT !.status = "GONE"]
                                       ELSE job[j]]
           /\ log' = [j \in Jobs |-> IF j \in lost THEN <<>> ELSE log[j]]
    /\ UNCHANGED <<pending, op, copy, clock>>

ManagerStep(m) ==
    \/ \E j \in Jobs : CreateValidate(m, j)
    \/ \E j \in Jobs : CreateCommit(m, j)
    \/ \E j \in Jobs : StartJob(m, j)
    \/ \E j \in Jobs : CompleteJob(m, j)
    \/ \E j \in Jobs : FailJob(m, j)
    \/ \E j \in Jobs : CancelJob(m, j)
    \/ Check(m)
    \/ Refuse(m)
    \/ \E t \in Targets : SweepList(m, t)
    \/ SweepStamp(m)
    \/ \E j \in Jobs : Commit(m, j)
    \/ \E j \in Jobs : CommitFails(m, j)
    \/ Crash(m)

TargetStep(t) ==
    \/ \E s \in {"ACTIVE", "INACTIVE"} : SetTarget(t, s)
    \/ DropTarget(t)

Next == \/ \E m \in Managers : ManagerStep(m)
        \/ \E t \in Targets : TargetStep(t)

Spec == Init /\ [][Next]_vars

\* What the goroutine that holds m's mutex does next.
Proceed(m) == Check(m) \/ Refuse(m) \/ SweepStamp(m) \/ (\E j \in Jobs : Commit(m, j))

\* Goroutines are scheduled and the store answers; sync.RWMutex hands itself
\* to a waiting writer, so a creation does not wait for ever behind others.
Fairness ==
    \A m \in Managers :
        /\ WF_vars(Proceed(m))
        /\ \A j \in Jobs : SF_vars(CreateCommit(m, j))

FairSpec == Spec /\ Fairness

-----------------------------------------------------------------------------
TypeOK ==
    /\ target  \in [Targets -> TargetStatus]
    /\ job     \in [Jobs -> Row]
    /\ log     \in [Jobs -> Seq(Event)]
    /\ pending \in [Managers -> SUBSET Jobs]
    /\ op      \in [Managers -> Op]
    /\ copy    \in [Managers -> [Jobs -> Row]]
    /\ clock   \in Nat

\* The stored events of a job tell its stored state: they start with its
\* creation, follow legal steps, and end in the state of the row.  (One
\* transaction writes row and event; the compare-and-set admits only states
\* from which the goal is one legal step away.)
HistoryTellsState ==
    \A j \in Jobs :
        IF Stored(j)
        THEN /\ log[j] # <<>>
             /\ log[j][1].new = "QUEUED"
             /\ log[j][Len(log[j])].new = job[j].status
             /\ \A i \in 1 .. Len(log[j]) - 1 :
                    <<log[j][i].new, log[j][i + 1].new>> \in Edge
        ELSE log[j] = <<>>

\* Once a job has ended, its row never changes again, whatever copies other
\* processes still hold; it can only go away with its target.
EndedRowsAreFinal ==
    [][\A j \in Jobs : job[j].status \in Terminal =>
           job'[j] = job[j] \/ job'[j].status = "GONE"]_vars

\* Each event names as previous state the state the event before it reached:
\* what an auditor of the chain relies on.
HistoryChains ==
    \A j \in Jobs : \A i \in 1 .. Len(log[j]) - 1 :
        log[j][i + 1].prev = log[j][i].new

\* A job that was started keeps the time of its start, however it ends.
StartIsKept ==
    \A j \in Jobs :
        Stored(j) /\ (\E i \in 1 .. Len(log[j]) : log[j][i].new = "RUNNING")
            => job[j].started # 0

\* Every job a sweep has listed ends or goes away, if nothing fails: when the
\* compare-and-set refuses (and the error is ignored) the job has ended.
SweptJobsEnd ==
    \A m \in Managers, j \in Jobs :
        (op[m].kind = "sweep" /\ j \in op[m].todo)
            ~> job[j].status \notin Active

\* A validated creation is not lost behind the mutex.
CreationsLand == \A m \in Managers, j \in Jobs : j \in pending[m] ~> j \notin pending[m]

\* The service implements the state machine it promises.
StateMachine == INSTANCE JobStateMachine
                  WITH status <- [j \in Jobs |-> job[j].status]
ImplementsStateMachine == StateMachine!Spec
=============================================================================
