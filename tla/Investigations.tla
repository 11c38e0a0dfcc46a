--------------------------- MODULE Investigations ---------------------------
(***************************************************************************)
(* Investigations: planned for a hypothesis, executed one step a request,  *)
(* cancelled.  Each request works on the copy it read; in memory that copy *)
(* shares the list of steps with the store, in PostgreSQL nothing is       *)
(* shared, but the status update is refused by the database.               *)
(***************************************************************************)
EXTENDS Storage, Naturals, FiniteSets

CONSTANTS Researchers,       \* requests under way at the same time
          Investigation,     \* ids; each is planned at most once
          NumSteps,          \* steps of a plan
          MaxInvRequests     \* bound: how many requests are made

ASSUME NumStepsAssumption == NumSteps \in Nat \ {0} /\ MaxInvRequests \in Nat

VARIABLES
    inv,       \* inv[i]: the row of i
    steps,     \* steps[i]: how many steps of the stored i are done
    ireq,      \* ireq[r]: the request r is serving
    iasked     \* how many requests were made

ivars == <<inv, steps, ireq, iasked>>

\* SIMULATED is written by the handler; the transition table does not know it.
InvestigationStatus == {"PLANNED", "QUEUED", "RUNNING", "COMPLETED", "FAILED",
                        "CANCELLED", "SIMULATED"}

InvestigationSteps ==
    {<<"PLANNED", "QUEUED">>, <<"PLANNED", "CANCELLED">>, <<"QUEUED", "RUNNING">>,
     <<"QUEUED", "CANCELLED">>, <<"RUNNING", "COMPLETED">>, <<"RUNNING", "FAILED">>,
     <<"RUNNING", "CANCELLED">>, <<"FAILED", "QUEUED">>, <<"FAILED", "CANCELLED">>,
     <<"CANCELLED", "PLANNED">>}

MayBecome(from, to) == from = to \/ <<from, to>> \in InvestigationSteps

NoInvestigation == "none"
IdleRequest == [at |-> "idle"]

IInit ==
    /\ inv = [i \in Investigation |-> NoInvestigation]
    /\ steps = [i \in Investigation |-> 0]
    /\ ireq = [r \in Researchers |-> IdleRequest]
    /\ iasked = 0

Request(r, record) ==
    /\ ireq[r] = IdleRequest
    /\ iasked < MaxInvRequests
    /\ iasked' = iasked + 1
    /\ ireq' = [ireq EXCEPT ![r] = record]
Reply(r) == ireq' = [ireq EXCEPT ![r] = IdleRequest]

-----------------------------------------------------------------------------
\* POST /api/investigations reads the hypothesis and its target, then saves
\* the plan with every step PENDING.
PlanInvestigation(r, i) ==
    /\ inv[i] = NoInvestigation
    /\ Request(r, [at |-> "plan", of |-> i])
    /\ UNCHANGED <<inv, steps>>

SavePlan(r) ==
    /\ ireq[r].at = "plan"
    /\ IF inv[ireq[r].of] = NoInvestigation
       THEN inv' = [inv EXCEPT ![ireq[r].of] = "PLANNED"] ELSE UNCHANGED inv
    /\ Reply(r)
    /\ UNCHANGED <<steps, iasked>>

\* POST /api/investigations/{id}/cancel: read and check,
CancelRead(r, i) ==
    /\ inv[i] # NoInvestigation
    /\ MayBecome(inv[i], "CANCELLED")
    /\ Request(r, [at |-> "cancel", of |-> i])
    /\ UNCHANGED <<inv, steps>>

\* ... then write, whatever the status is now.
CancelWrite(r) ==
    /\ ireq[r].at = "cancel"
    /\ ~pg
    /\ inv' = [inv EXCEPT ![ireq[r].of] = "CANCELLED"]
    /\ Reply(r)
    /\ UNCHANGED <<steps, iasked>>

\* The status of the copy once a step was marked, done of the steps being so.
AfterStep(status, done) ==
    IF done = NumSteps THEN "SIMULATED"
    ELSE IF status \in {"PLANNED", "QUEUED"} THEN "RUNNING" ELSE status

Executable(status) == status \notin {NoInvestigation, "COMPLETED", "CANCELLED"}

\* POST /api/investigations/{id}/execute: the copy is read,
ExecuteRead(r, i) ==
    /\ Executable(inv[i])
    /\ Request(r, [at |-> "find", of |-> i, status |-> inv[i], done |-> steps[i]])
    /\ UNCHANGED <<inv, steps>>

\* How many steps are done in the list the handler works on: in memory it is
\* the list of the store, shared with every other execution.
StepsSeen(r) == IF pg THEN ireq[r].done ELSE steps[ireq[r].of]

\* ... its first pending step is found,
ExecuteFind(r) ==
    LET q == ireq[r] IN
    /\ q.at = "find"
    /\ IF StepsSeen(r) = NumSteps THEN Reply(r)
       ELSE ireq' = [ireq EXCEPT ![r] = [q EXCEPT !.at = "mark", !.done = StepsSeen(r) + 1]]
    /\ UNCHANGED <<inv, steps, iasked>>

\* ... and marked, in memory in the store itself, where another execution may
\* have marked it already;
ExecuteMark(r) ==
    LET q == ireq[r] IN
    /\ q.at = "mark"
    /\ steps' = IF pg \/ steps[q.of] >= q.done THEN steps ELSE [steps EXCEPT ![q.of] = q.done]
    /\ ireq' = [ireq EXCEPT ![r].at = "tally"]
    /\ UNCHANGED <<inv, iasked>>

\* ... the list is looked through for what is still pending,
ExecuteTally(r) ==
    LET q == ireq[r] IN
    /\ q.at = "tally"
    /\ ireq' = [ireq EXCEPT ![r] = [q EXCEPT !.at = "status",
                                             !.status = AfterStep(q.status, StepsSeen(r))]]
    /\ UNCHANGED <<inv, steps, iasked>>

\* ... the status is written,
ExecuteStatus(r) ==
    LET q == ireq[r] IN
    /\ q.at = "status"
    /\ ~pg
    /\ inv' = [inv EXCEPT ![q.of] = q.status]
    /\ ireq' = [ireq EXCEPT ![r].at = "save"]
    /\ UNCHANGED <<steps, iasked>>

\* Mutant: the copy has a list of steps of its own.
StepsOfCopyOwn(r) == ireq[r].done

\* The list of steps a saved copy brings along: in memory the store's own.
StepsOfCopy(r) == steps[ireq[r].of]

\* ... and the whole copy is saved, steps included.
ExecuteSave(r) ==
    LET q == ireq[r] IN
    /\ q.at = "save"
    /\ inv' = [inv EXCEPT ![q.of] = q.status]
    /\ steps' = [steps EXCEPT ![q.of] = StepsOfCopy(r)]
    /\ Reply(r)
    /\ UNCHANGED <<iasked>>

\* PostgreSQL refuses every UpdateInvestigationStatus, which uses one parameter
\* both as varchar and as text, and may refuse a plan.  The request answers an
\* error.
StatusRefused(r) ==
    /\ pg /\ ireq[r].at \in {"plan", "cancel", "status"}
    /\ Reply(r)
    /\ UNCHANGED <<inv, steps, iasked>>

INext ==
    /\ \E r \in Researchers :
         \/ \E i \in Investigation : PlanInvestigation(r, i) \/ CancelRead(r, i) \/ ExecuteRead(r, i)
         \/ SavePlan(r) \/ CancelWrite(r)
         \/ ExecuteFind(r) \/ ExecuteMark(r) \/ ExecuteTally(r)
         \/ ExecuteStatus(r) \/ ExecuteSave(r)
         \/ StatusRefused(r)
    /\ UNCHANGED pg

ISpec == StorageInit /\ IInit /\ [][INext]_<<pg, ivars>>

-----------------------------------------------------------------------------
ITypeOK ==
    /\ inv \in [Investigation -> InvestigationStatus \cup {NoInvestigation}]
    /\ steps \in [Investigation -> 0 .. NumSteps]
    /\ \A r \in Researchers : ireq[r].at \in {"idle", "plan", "cancel", "find", "mark",
                                              "tally", "status", "save"}
    /\ iasked \in 0 .. MaxInvRequests

\* A step that was executed is never pending again, although every execution
\* saves the whole investigation it read.  (Its status has no such luck: an
\* older RUNNING may land on top of SIMULATED, or of CANCELLED.)
StepsNeverUndone == [][\A i \in Investigation : steps'[i] >= steps[i]]_ivars
=============================================================================
