------------------------------ MODULE MCResearch ------------------------------
(***************************************************************************)
(* Small instances of the components around a scan.  They share nothing    *)
(* but the store they run on: in each behaviour one of them moves, and the *)
(* others keep their initial state, so that the run explores the sum of    *)
(* their states and not the product.                                       *)
(***************************************************************************)
EXTENDS Hypotheses, Investigations, Evidence, Analysis, HuntingPlans, Intelligence,
        EventBus, Throttler

CONSTANTS x1, x2,            \* two clients of any component
          e1, hA, hC, i1, v1, v2, t1, t2, a1, a2, p1, p2, s1, s2, tech, f1, f2

VARIABLE focus   \* the component that moves

Components == {"hypotheses", "investigations", "evidence", "analysis", "plans",
               "intelligence", "bus", "throttler"}

\* What a request and its answer may hold: a bearer token and a session in a
\* JSON body, or a token in the URL, a JWT in plain text and a sensitive header twice.
Exchanges ==
    {[url |-> "plain", sensitive |-> {"plain"}, header |-> {"bearer"},
      body |-> [json |-> TRUE, secret |-> "clear", other |-> "api key"], code |-> 200],
     [url |-> "token", sensitive |-> {"bearer", "plain"}, header |-> {"plain"},
      body |-> [json |-> FALSE, secret |-> "none", other |-> "jwt"], code |-> 500]}

\* Two assets of two targets, with a service each that runs one technology.
ServiceAssets == [s \in Services |-> IF s = s1 THEN a1 ELSE a2]
AssetOwners == [a \in {a1, a2} |-> IF a = a1 THEN t1 ELSE t2]
ProbeAnswer(s, f, raised) == [service |-> s, face |-> f, found |-> {tech}, raised |-> raised]
ProbeAnswers == {ProbeAnswer(s1, f1, {"difference"}), ProbeAnswer(s1, f2, {"invariant", "difference"}),
                 ProbeAnswer(s2, f1, {})}

researchVars == <<pg, hvars, ivars, evars, avars, pvars, xvars, bvars, wvars, focus>>

RInit ==
    /\ StorageInit
    /\ HInit /\ IInit /\ EInit /\ AInit /\ PInit /\ XInit /\ BInit /\ WInit
    /\ focus \in Components
    /\ focus # "hypotheses" => fit = [e \in Clues |-> "none"]

Only(component, step) == focus = component /\ step /\ UNCHANGED <<pg, focus>>

RNext ==
    \/ /\ Only("hypotheses", HNext)
       /\ UNCHANGED <<ivars, evars, avars, pvars, xvars, bvars, wvars>>
    \/ /\ Only("investigations", INext)
       /\ UNCHANGED <<hvars, evars, avars, pvars, xvars, bvars, wvars>>
    \/ /\ Only("evidence", ENext)
       /\ UNCHANGED <<hvars, ivars, avars, pvars, xvars, bvars, wvars>>
    \/ /\ Only("analysis", ANext)
       /\ UNCHANGED <<hvars, ivars, evars, pvars, xvars, bvars, wvars>>
    \/ /\ Only("plans", PNext)
       /\ UNCHANGED <<hvars, ivars, evars, avars, xvars, bvars, wvars>>
    \/ /\ Only("intelligence", XNext)
       /\ UNCHANGED <<hvars, ivars, evars, avars, pvars, bvars, wvars>>
    \/ /\ Only("bus", BNext)
       /\ UNCHANGED <<hvars, ivars, evars, avars, pvars, xvars, wvars>>
    \/ /\ Only("throttler", WNext)
       /\ UNCHANGED <<hvars, ivars, evars, avars, pvars, xvars, bvars>>

RSpec == RInit /\ [][RNext]_researchVars

\* The type invariants of all of them.
ResearchTypeOK == HTypeOK /\ ITypeOK /\ ETypeOK /\ ATypeOK /\ PTypeOK /\ XTypeOK
                    /\ BTypeOK /\ WTypeOK
=============================================================================
