--------------------------- MODULE JobStateMachine ---------------------------
(***************************************************************************)
(* What the job service promises: every job moves by single legal steps,   *)
(* whoever and however many ask for them, and only the deletion of its     *)
(* target takes a job away.                                                *)
(***************************************************************************)
EXTENDS JobStates

CONSTANT Jobs

VARIABLE status

Init == status = [j \in Jobs |-> "NONE"]

\* One job takes one legal step: it is created, or follows an Edge.
Step(j) ==
    \E s \in JobStatus :
        /\ \/ status[j] = "NONE" /\ s = "QUEUED"
           \/ <<status[j], s>> \in Edge
        /\ status' = [status EXCEPT ![j] = s]

\* The rows of some jobs go away together, with the target they belong to.
Vanish(js) ==
    /\ \A j \in js : status[j] \in JobStatus
    /\ status' = [j \in Jobs |-> IF j \in js THEN "GONE" ELSE status[j]]

Next == (\E j \in Jobs : Step(j)) \/ (\E js \in SUBSET Jobs : Vanish(js))

Spec == Init /\ [][Next]_status
=============================================================================
