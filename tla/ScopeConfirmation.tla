------------------------- MODULE ScopeConfirmation -------------------------
(***************************************************************************)
(* What confirming a scope import promises (TestConfirmationConcurrency):  *)
(* an import waits for an operator, one confirmation succeeds, and in the  *)
(* same step there is a target that names the import, the chosen root and  *)
(* the operator.  Requests, locks and the two stores are left out.         *)
(***************************************************************************)
CONSTANTS
    Imports,     \* the scope imports
    Targets,     \* the target identifiers that may be drawn
    Roots,       \* the root domains
    Operators,   \* the operators who confirm
    Candidates   \* Candidates[i]: the roots discovered in import i

VARIABLES
    outcome,   \* outcome[i]: what was decided on import i
    origin     \* origin[t]: the confirmation target t comes from

Absent  == [root |-> "none", by |-> "absent"]
Waiting == [root |-> "none", by |-> "pending"]
NoOrigin == [import |-> "none", root |-> "none", by |-> "none"]

Init == /\ outcome = [i \in Imports |-> Absent]
        /\ origin = [t \in Targets |-> NoOrigin]

Offer(i) == /\ outcome[i] = Absent
            /\ outcome' = [outcome EXCEPT ![i] = Waiting]
            /\ UNCHANGED origin

Confirm(i, t, root, by) ==
    /\ outcome[i] = Waiting
    /\ origin[t] = NoOrigin
    /\ root \in Candidates[i]
    /\ outcome' = [outcome EXCEPT ![i] = [root |-> root, by |-> by]]
    /\ origin' = [origin EXCEPT ![t] = [import |-> i, root |-> root, by |-> by]]

Remove(t) == /\ origin[t] # NoOrigin
             /\ origin' = [origin EXCEPT ![t] = NoOrigin]
             /\ UNCHANGED outcome

Next == \/ \E i \in Imports : Offer(i)
        \/ \E i \in Imports, t \in Targets, root \in Roots, by \in Operators :
             Confirm(i, t, root, by)
        \/ \E t \in Targets : Remove(t)

Spec == Init /\ [][Next]_<<outcome, origin>>
=============================================================================
