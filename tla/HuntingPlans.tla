---------------------------- MODULE HuntingPlans ----------------------------
(***************************************************************************)
(* The hunting planner: plans generated from what is known of a target,    *)
(* kept by the service in a map and saved in the store, and the approval   *)
(* of their steps by a human.  The service alone decides about approvals;  *)
(* the store is told afterwards and its errors are ignored.  Writing the   *)
(* map of the service takes no lock: the runtime may notice two accesses   *)
(* at once, and ends the process.                                          *)
(***************************************************************************)
EXTENDS Storage, Naturals, Sequences

CONSTANTS Plans,        \* ids, random: each is generated at most once
          Planners,     \* requests under way at the same time
          MaxGranted    \* bound: approvals counted for one step

ASSUME PlansAssumption == MaxGranted \in Nat \ {0, 1}

VARIABLES
    held,       \* held[p]: the plan p in the map of the service
    shelf,      \* shelf[p]: the plan p in the store
    preqs,      \* preqs[r]: the request r is serving
    born,       \* the ids that were given out
    granted     \* granted[p][n]: how often step n of p was approved (a history)

pvars == <<held, shelf, preqs, born, granted>>

NoPlan == [status |-> "none"]
IdlePlanner == [at |-> "idle"]
StepNumbers == 1 .. 3

\* What GenerateInvestigationPlan finds: a JavaScript reference (a path, a URL
\* in scope or outside, a name with a banned word) and a cloud reference.
Facts == [js : {"none", "path", "inside", "outside", "banned"}, cloud : {"none", "plain", "banned"}]

\* Its steps: headers of the asset, the first JavaScript reference, the first
\* cloud reference.
PlanSteps(facts) ==
    <<[action |-> "INSPECT_HEADERS", word |-> FALSE, inside |-> TRUE]>>
    \o (IF facts.js = "none" THEN <<>>
        ELSE <<[action |-> "CHECK_STATUS_CODE", word |-> facts.js = "banned",
                inside |-> facts.js # "outside"]>>)
    \o (IF facts.cloud = "none" THEN <<>>
        ELSE <<[action |-> "SAFE_METADATA_CHECK", word |-> facts.cloud = "banned",
                inside |-> FALSE]>>)

AllowedActionTypes == {"FETCH_URL", "COMPARE_RESPONSES", "INSPECT_HEADERS", "EXTRACT_JS_REFERENCE",
                       "CHECK_STATUS_CODE", "VERIFY_DNS", "INSPECT_TLS", "SAFE_METADATA_CHECK"}

\* Allowed actions, no banned words, and every URL in scope, apart from the
\* check of a cloud resource, which has a scope check of its own.
ValidatePlan(todo) ==
    \A n \in DOMAIN todo :
        /\ todo[n].action \in AllowedActionTypes
        /\ ~todo[n].word
        /\ todo[n].action # "SAFE_METADATA_CHECK" => todo[n].inside

PInit ==
    /\ held = [p \in Plans |-> NoPlan]
    /\ shelf = [p \in Plans |-> NoPlan]
    /\ preqs = [r \in Planners |-> IdlePlanner]
    /\ born = {}
    /\ granted = [p \in Plans |-> [n \in StepNumbers |-> 0]]

\* POST /api/targets/{id}/hunting-plans: a plan that is not valid is refused,
\* a valid one is about to be put into the map.
GenerateHuntingPlan(r, p, facts) ==
    /\ preqs[r] = IdlePlanner
    /\ p \notin born
    /\ born' = born \cup {p}
    /\ ValidatePlan(PlanSteps(facts))
    /\ preqs' = [preqs EXCEPT ![r] = [at |-> "map", of |-> p, size |-> Len(PlanSteps(facts))]]
    /\ UNCHANGED <<held, shelf, granted>>

KeepPlan(r) ==
    LET q == preqs[r] IN
    /\ q.at = "map"
    /\ held' = [held EXCEPT ![q.of] = [status |-> "PLANNED", size |-> q.size, approved |-> {}]]
    /\ preqs' = [preqs EXCEPT ![r] = [at |-> "save", of |-> q.of]]
    /\ UNCHANGED <<shelf, born, granted>>

\* SaveInvestigationPlan, one transaction; its error is ignored.
SaveInvestigationPlan(r) ==
    LET q == preqs[r] IN
    /\ q.at = "save"
    /\ \/ shelf' = [shelf EXCEPT ![q.of] = held[q.of]]
       \/ pg /\ UNCHANGED shelf
    /\ preqs' = [preqs EXCEPT ![r] = IdlePlanner]
    /\ UNCHANGED <<held, born, granted>>

\* The plan is known to the service (not only to the store), and the step is
\* not approved yet.
MayApprove(plan, n) == plan # NoPlan /\ n <= plan.size /\ n \notin plan.approved

\* The steps in the store of memory are those of the service.
Approve(plan, n) == [plan EXCEPT !.approved = @ \cup {n}]

\* ApproveStep, under the lock of the service, for a plan whose id a client
\* has been told.
ApproveStep(r, p, n) ==
    /\ preqs[r] = IdlePlanner
    /\ \A o \in Planners : preqs[o].at \in {"map", "save"} => preqs[o].of # p
    /\ MayApprove(held[p], n)
    /\ UNCHANGED born
    /\ held' = [held EXCEPT ![p] = [Approve(@, n) EXCEPT !.status = "APPROVED"]]
    /\ shelf' = IF ~pg /\ shelf[p] # NoPlan THEN [shelf EXCEPT ![p] = Approve(@, n)] ELSE shelf
    /\ granted' = [granted EXCEPT ![p][n] = IF @ < MaxGranted THEN @ + 1 ELSE @]
    /\ preqs' = [preqs EXCEPT ![r] = [at |-> "step", of |-> p, step |-> n]]

\* ApprovePlanStep: the step, then, in PostgreSQL by another statement, the
\* plan.  Errors are ignored.
ApprovePlanStep(r) ==
    LET q == preqs[r] IN
    /\ q.at = "step"
    /\ IF shelf[q.of] # NoPlan
       THEN /\ shelf' = [shelf EXCEPT ![q.of] =
                            IF pg THEN Approve(@, q.step)
                            ELSE [Approve(@, q.step) EXCEPT !.status = "APPROVED"]]
            /\ preqs' = [preqs EXCEPT ![r] = IF pg THEN [q EXCEPT !.at = "plan"] ELSE IdlePlanner]
       ELSE UNCHANGED shelf /\ preqs' = [preqs EXCEPT ![r] = IdlePlanner]
    /\ UNCHANGED <<held, born, granted>>

ApprovePlanStatus(r) ==
    /\ preqs[r].at = "plan"
    /\ shelf' = [shelf EXCEPT ![preqs[r].of].status = "APPROVED"]
    /\ preqs' = [preqs EXCEPT ![r] = IdlePlanner]
    /\ UNCHANGED <<held, born, granted>>

StoreRefuses(r) ==
    /\ pg /\ preqs[r].at \in {"step", "plan"}
    /\ preqs' = [preqs EXCEPT ![r] = IdlePlanner]
    /\ UNCHANGED <<held, shelf, born, granted>>

\* Mutant: after a restart the service works with what is stored.
AfterRestartReloaded == shelf

\* The map is empty after a restart; nothing loads the stored plans.
AfterRestart == [p \in Plans |-> NoPlan]

\* The process ends, when two requests are at the map at once or for another
\* reason, and starts again.
Restart ==
    /\ held' = AfterRestart
    /\ shelf' = IF pg THEN shelf ELSE [p \in Plans |-> NoPlan]
    /\ preqs' = [r \in Planners |-> IdlePlanner]
    /\ UNCHANGED <<born, granted>>

PNext ==
    /\ \/ \E r \in Planners :
            \/ \E p \in Plans, facts \in Facts : GenerateHuntingPlan(r, p, facts)
            \/ KeepPlan(r) \/ SaveInvestigationPlan(r)
            \/ \E p \in Plans, n \in StepNumbers : ApproveStep(r, p, n)
            \/ ApprovePlanStep(r) \/ ApprovePlanStatus(r) \/ StoreRefuses(r)
       \/ Restart
    /\ UNCHANGED pg

PSpec == StorageInit /\ PInit /\ [][PNext]_<<pg, pvars>>

-----------------------------------------------------------------------------
PTypeOK ==
    /\ \A p \in Plans : \A plan \in {held[p], shelf[p]} : plan # NoPlan =>
         /\ plan.status \in {"PLANNED", "APPROVED"}
         /\ plan.size \in StepNumbers /\ plan.approved \subseteq StepNumbers
    /\ \A r \in Planners : preqs[r].at \in {"idle", "map", "save", "step", "plan"}
    /\ granted \in [Plans -> [StepNumbers -> 0 .. MaxGranted]]

\* A step is approved by one human, once: of two requests one is refused, and
\* neither a refused save nor a restart makes a step open to approval again
\* (in memory the plan is gone then, and its id with it).  Nothing is stored
\* as approved that was not.
ApprovedOnce ==
    \A p \in Plans, n \in StepNumbers :
        /\ granted[p][n] <= 1
        /\ shelf[p] # NoPlan /\ n \in shelf[p].approved => granted[p][n] = 1
=============================================================================
