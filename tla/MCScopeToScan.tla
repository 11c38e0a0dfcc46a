----------------------------- MODULE MCScopeToScan -----------------------------
(***************************************************************************)
(* From a confirmed scope to the end of a scan: small instances of the     *)
(* confirmation of imports, the evaluation of scopes and the stages of a   *)
(* run.  In each behaviour one of the three moves, as in MCResearch.       *)
(***************************************************************************)
EXTENDS MCScopeImport, MCScopeEvaluation, MCReconStages

VARIABLE focus   \* the component that moves

scanVars == <<pg, vars, scope, file, svars, focus>>

CInit ==
    /\ Init /\ FInit /\ SInit
    /\ focus \in {"confirmation", "scope", "stages"}
    /\ focus # "confirmation" => ~durable
    /\ focus # "stages" => opts = {}
    /\ focus = "confirmation" => ~pg

CNext ==
    \/ focus = "confirmation" /\ Next /\ UNCHANGED <<pg, scope, file, svars, focus>>
    \/ focus = "scope" /\ FNext /\ UNCHANGED <<vars, svars, focus>>
    \/ focus = "stages" /\ SNext /\ UNCHANGED <<vars, scope, file, focus>>

\* The component that moves is as fair as its own specification says.
CSpec == /\ CInit /\ [][CNext]_scanVars
         /\ focus = "confirmation" => Fairness
         /\ focus = "stages" => SFairness

\* The type invariants of the three.
ScanTypeOK == TypeOK /\ FTypeOK /\ STypeOK

\* A run that moves comes to its end.
ScansEnd == focus = "stages" => RunsEnd
=============================================================================
