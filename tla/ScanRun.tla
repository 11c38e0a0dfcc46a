------------------------------- MODULE ScanRun -------------------------------
(***************************************************************************)
(* What a reconnaissance run promises, whatever its workers do: a stage is *)
(* given its items when nothing that was given before it waits, each item  *)
(* is handled once or, when the run is cancelled, dropped, each URL of the *)
(* scope is reported once, and the run ends once: as COMPLETED when it was *)
(* not cancelled, and then nothing waits.                                  *)
(***************************************************************************)
EXTENDS Naturals

CONSTANTS Stages, Items, URLs, InScope

VARIABLES waiting,   \* what a stage was given and nobody has handled yet
          handled,   \* what was handled
          told,      \* how often each URL was reported
          cancelled, verdict

runvars == <<waiting, handled, told, cancelled, verdict>>

Init == /\ waiting = {} /\ handled = {}
        /\ told = [u \in URLs |-> 0]
        /\ cancelled = FALSE /\ verdict = "RUNNING"

Submit(s, is) ==
    /\ verdict = "RUNNING" /\ ~cancelled /\ waiting = {}
    /\ waiting' = {s} \X is
    /\ waiting' \cap handled = {}
    /\ UNCHANGED <<handled, told, cancelled, verdict>>

Handle(x) ==
    /\ verdict = "RUNNING"
    /\ waiting' = waiting \ {x}
    /\ handled' = handled \cup {x}
    /\ UNCHANGED <<told, cancelled, verdict>>

Drop(x) ==
    /\ verdict = "RUNNING" /\ cancelled
    /\ waiting' = waiting \ {x}
    /\ UNCHANGED <<handled, told, cancelled, verdict>>

Report(u) ==
    /\ verdict = "RUNNING"
    /\ told[u] = 0
    /\ told' = [told EXCEPT ![u] = 1]
    /\ UNCHANGED <<waiting, handled, cancelled, verdict>>

Cancel ==
    /\ verdict = "RUNNING"
    /\ cancelled' = TRUE
    /\ UNCHANGED <<waiting, handled, told, verdict>>

End ==
    /\ verdict = "RUNNING"
    /\ cancelled \/ waiting = {}
    /\ verdict' = IF cancelled THEN "CANCELLED" ELSE "COMPLETED"
    /\ UNCHANGED <<waiting, handled, told, cancelled>>

Next ==
    \/ \E s \in Stages, is \in SUBSET Items : Submit(s, is)
    \/ \E x \in waiting : Handle(x) \/ Drop(x)
    \/ \E u \in InScope : Report(u)
    \/ Cancel \/ End

Spec == Init /\ [][Next]_runvars
=============================================================================
