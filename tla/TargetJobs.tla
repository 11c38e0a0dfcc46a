----------------------------- MODULE TargetJobs -----------------------------
(***************************************************************************)
(* The target handlers of the API on top of the job service: UpdateTarget  *)
(* and DeleteTarget read, write and sweep in separate calls, while jobs    *)
(* are created and moved.  Every change of a target comes from a handler,  *)
(* and every sweep (HandleTargetDeactivated) is made by one.               *)
(***************************************************************************)
EXTENDS JobLifecycle

CONSTANTS Admins,     \* the requests that change targets, one at a time each
          MaxEdits    \* bound: how many target requests are made

ASSUME MaxEditsAssumption == MaxEdits \in Nat
ASSUME AdminsAssumption   == Admins # {}

VARIABLES
    serial,   \* a client that waits for each answer is alone
    req,      \* req[a]: the target request a is serving
    sweeper,  \* sweeper[m]: whose sweep holds (or last held) m's mutex
    edits     \* how many target requests were made

tvars == <<vars, serial, req, sweeper, edits>>

NoReq == [at |-> "idle"]
AnyAdmin == CHOOSE a \in Admins : TRUE

\* at: where the handler is; seen: the status it read; want: the status it
\* writes ("keep": the request names none, the status read is written back).
Req == [at : {"read", "sweep", "sweeping"}, kind : {"update", "delete"},
        mgr : Managers, target : Targets,
        seen : TargetStatus, want : {"ACTIVE", "INACTIVE", "keep"}]

TInit ==
    /\ Init
    /\ serial \in BOOLEAN
    /\ req = [a \in Admins |-> NoReq]
    /\ sweeper = [m \in Managers |-> AnyAdmin]
    /\ edits = 0

\* Nothing is under way: no handler, no creation, no transition.
Quiet == /\ \A a \in Admins : req[a] = NoReq
         /\ \A m \in Managers : Idle(m) /\ pending[m] = {}

\* A new request comes at any time, or only when the last one is answered.
MayCome == serial => Quiet

Finish(a) == req' = [req EXCEPT ![a] = NoReq]
Goes(a, where) == req' = [req EXCEPT ![a].at = where]

-----------------------------------------------------------------------------
\* PATCH /api/targets/{id}: GetByID, then the body is merged into that copy.
UpdateRead(a, m, t, want) ==
    /\ req[a] = NoReq
    /\ MayCome
    /\ edits < MaxEdits
    /\ target[t] # "DELETED"
    /\ req' = [req EXCEPT ![a] = [at |-> "read", kind |-> "update", mgr |-> m,
                                  target |-> t, seen |-> target[t], want |-> want]]
    /\ edits' = edits + 1
    /\ UNCHANGED <<vars, serial, sweeper>>

\* Mutant: a request that names no status writes what it names.
WrittenAsNamed(r) == r.want

Written(r) == IF r.want = "keep" THEN r.seen ELSE r.want

\* Mutant: the write inserts the row when it is gone.
UpdateWriteUpserts(a) ==
    LET r == req[a]
    IN  /\ r.at = "read"
        /\ target' = [target EXCEPT ![r.target] = Written(r)]
        /\ Finish(a)
        /\ UNCHANGED <<job, log, pending, op, copy, clock, serial, sweeper, edits>>

\* Mutant: the old status is looked up after the new one was written, so the
\* handler never sees a change to sweep for.
UpdateWriteNoSweep(a) ==
    LET r == req[a]
    IN  /\ r.at = "read"
        /\ IF target[r.target] = "DELETED" THEN UNCHANGED target
           ELSE target' = [target EXCEPT ![r.target] = Written(r)]
        /\ Finish(a)
        /\ UNCHANGED <<job, log, pending, op, copy, clock, serial, sweeper, edits>>

\* storage.Update writes the whole copy back, in memory: PostgreSQL refuses
\* the statement, which gives comma-separated strings to array columns.  Only
\* when the copy went from ACTIVE to something else does the handler go on to
\* sweep.
UpdateWrite(a) ==
    LET r == req[a]
        t == r.target
    IN  /\ r.at = "read"
        /\ IF Cascade \/ target[t] = "DELETED"
           THEN UNCHANGED target /\ Finish(a)
           ELSE /\ target' = [target EXCEPT ![t] = Written(r)]
                /\ IF r.seen = "ACTIVE" /\ Written(r) # "ACTIVE"
                   THEN Goes(a, "sweep") ELSE Finish(a)
        /\ UNCHANGED <<job, log, pending, op, copy, clock, serial, sweeper, edits>>

\* DELETE /api/targets/{id} sweeps first, whatever the target's state.
DeleteCall(a, m, t) ==
    /\ req[a] = NoReq
    /\ MayCome
    /\ edits < MaxEdits
    /\ target[t] # "DELETED"
    /\ req' = [req EXCEPT ![a] = [at |-> "sweep", kind |-> "delete", mgr |-> m,
                                  target |-> t, seen |-> target[t], want |-> "keep"]]
    /\ edits' = edits + 1
    /\ UNCHANGED <<vars, serial, sweeper>>

\* The handler calls HandleTargetDeactivated, whose error it ignores,
Sweep(a) ==
    LET r == req[a] IN
    /\ r.at = "sweep"
    /\ SweepList(r.mgr, r.target)
    /\ Goes(a, "sweeping")
    /\ sweeper' = [sweeper EXCEPT ![r.mgr] = a]
    /\ UNCHANGED <<serial, edits>>

\* Mutant: only running jobs count as something to cancel.
SweepNothingRunning(a) ==
    LET r == req[a] IN
    /\ r.at = "sweep"
    /\ Idle(r.mgr)
    /\ \A j \in JobsOf(r.target) : job[j].status # "RUNNING"
    /\ Goes(a, "sweeping")
    /\ UNCHANGED <<vars, serial, sweeper, edits>>

\* ... which finds nothing to cancel,
SweepNothing(a) ==
    LET r == req[a] IN
    /\ r.at = "sweep"
    /\ Idle(r.mgr)
    /\ \A j \in JobsOf(r.target) : job[j].status \notin Active
    /\ Goes(a, "sweeping")
    /\ UNCHANGED <<vars, serial, sweeper, edits>>

\* ... and returns; an update is done then, a delete deletes the row.
SweepReturns(a) ==
    LET r == req[a] IN
    /\ r.at = "sweeping"
    /\ op[r.mgr].kind # "sweep" \/ sweeper[r.mgr] # a
    /\ Finish(a)
    /\ IF r.kind = "delete" /\ target[r.target] # "DELETED"
       THEN DropTarget(r.target) ELSE UNCHANGED vars
    /\ UNCHANGED <<serial, sweeper, edits>>

\* A crash takes the handlers of the process with it.
ProcessCrash(m) ==
    /\ Crash(m)
    /\ req' = [a \in Admins |-> IF req[a] # NoReq /\ req[a].mgr = m THEN NoReq
                                                                  ELSE req[a]]
    /\ UNCHANGED <<serial, sweeper, edits>>

\* The job API and the engine; sweeps and crashes are handled above.
JobStep(m) ==
    /\ \/ \E j \in Jobs : MayCome /\ CreateValidate(m, j)
       \/ \E j \in Jobs : CreateCommit(m, j)
       \/ \E j \in Jobs : /\ MayCome
                          /\ \/ StartJob(m, j)
                             \/ CompleteJob(m, j)
                             \/ FailJob(m, j)
                             \/ CancelJob(m, j)
       \/ Check(m)
       \/ Refuse(m)
       \/ SweepStamp(m)
       \/ \E j \in Jobs : Commit(m, j) \/ CommitFails(m, j)
    /\ UNCHANGED <<serial, req, sweeper, edits>>

AdminStep(a) ==
    \/ \E m \in Managers, t \in Targets :
         \/ \E want \in {"ACTIVE", "INACTIVE", "keep"} : UpdateRead(a, m, t, want)
         \/ DeleteCall(a, m, t)
    \/ UpdateWrite(a)
    \/ Sweep(a)
    \/ SweepNothing(a)
    \/ SweepReturns(a)

TNext == \/ \E a \in Admins : AdminStep(a)
         \/ \E m \in Managers : JobStep(m) \/ ProcessCrash(m)

TSpec == TInit /\ [][TNext]_tvars

\* Handlers and mutex holders go on; a handler that waits for the mutex gets
\* it (sync.RWMutex is fair to waiting writers).
TFairSpec ==
    /\ TSpec
    /\ \A m \in Managers :
         /\ WF_tvars(Proceed(m) /\ UNCHANGED <<serial, req, sweeper, edits>>)
         /\ \A j \in Jobs : SF_tvars(CreateCommit(m, j) /\ UNCHANGED <<serial, req, sweeper, edits>>)
    /\ \A a \in Admins :
         /\ WF_tvars(UpdateWrite(a))
         /\ SF_tvars(Sweep(a) \/ SweepNothing(a))
         /\ WF_tvars(SweepReturns(a))

-----------------------------------------------------------------------------
TTypeOK ==
    /\ TypeOK
    /\ serial \in BOOLEAN
    /\ req \in [Admins -> Req \cup {NoReq}]
    /\ sweeper \in [Managers -> Admins]
    /\ edits \in 0 .. MaxEdits

\* When everything has settled, no job is queued or running for a target
\* that is not active.
SettledJobsHaveActiveTargets ==
    Quiet => \A j \in Jobs : job[j].status \in Active => TargetRow(j) = "ACTIVE"

\* The same when the client is alone and waits for each answer.
SerialClientsSettle == serial => SettledJobsHaveActiveTargets

\* No job outlives the row of its target, although the handlers check the
\* target long before they insert the job.
NoJobWithoutTarget == \A j \in Jobs : Stored(j) => TargetRow(j) # "DELETED"

\* Jobs that were active when a handler was about to sweep their target end
\* (or go), even when others start, cancel or finish them meanwhile.
SweptTargetsJobsEnd ==
    \A a \in Admins, j \in Jobs :
        (req[a].at = "sweep" /\ req[a].target = TargetOf[j] /\ job[j].status \in Active)
            ~> job[j].status \notin Active
=============================================================================
