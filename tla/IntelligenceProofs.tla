------------------------- MODULE IntelligenceProofs -------------------------
(***************************************************************************)
(* What the analyses of live probes leave behind, for any services,        *)
(* assets, targets, technologies, answers and workers: the type invariant, *)
(* and the consistency of change log, technologies and scores as long as   *)
(* no two analyses of an asset overlap and PostgreSQL refuses none a row,  *)
(* a change or a cluster.                                                  *)
(***************************************************************************)
EXTENDS Intelligence, TLAPS

ProbeStops == {"listed", "saved", "matching", "graph", "signals", "score",
               "score differences", "cluster"}

\* An analysis under way, and a stored cluster.
ProbeRow == [at : ProbeStops, service : Services, face : Faces, found : SUBSET Technologies,
             raised : SUBSET Kinds, todo : SUBSET Technologies,
             known : SUBSET Technologies, prev : Faces \cup {Unseen}, score : SUBSET Kinds]
ClusterRow == [status : Decisions \cup {"ACTIVE"}, score : SUBSET Kinds, endpoint : Services]

\* The sorts that the type invariant leaves out.
Sorted ==
    /\ probe \in [Probers -> ProbeRow \cup {IdleProber}]
    /\ cluster \in [AssetsSeen -> ClusterRow \cup {NoCluster}]
    /\ DOMAIN changelog = Subjects
    /\ \A x \in Subjects : changelog[x] \in Seq([prev : Faces \cup Technologies \cup {Unseen},
                                                 curr : Faces \cup Technologies])

XTyped == XTypeOK /\ Sorted

-----------------------------------------------------------------------------
\* What an analysis can be at, and what it keeps as it moves on.
LEMMA AnalysisMoves ==
    ASSUME NEW q \in ProbeRow
    PROVE  /\ IdleProber.at = "idle" /\ q.at # "idle" /\ q.service \in Services
           /\ AssetOf[q.service] \in AssetsSeen
           /\ TargetOfService(q.service) \in Owners /\ TargetOfService(q.service) # Unseen
           /\ \A stop \in ProbeStops : [q EXCEPT !.at = stop] \in ProbeRow
           /\ \A x : [q EXCEPT !.todo = @ \ {x}] \in ProbeRow
           /\ \A known \in SUBSET Technologies :
                [q EXCEPT !.at = "matching", !.known = known] \in ProbeRow
           /\ \A stop \in ProbeStops, score \in SUBSET Kinds :
                [q EXCEPT !.at = stop, !.score = @ \cup score] \in ProbeRow
<1>1. q.at # "idle" /\ q.service \in Services
  BY DEF ProbeRow, ProbeStops
<1>2. AssetOf[q.service] \in AssetsSeen
  BY <1>1, ServicesAssumption DEF AssetsSeen
<1>3. TargetOfService(q.service) \in Owners /\ TargetOfService(q.service) # Unseen
  BY <1>2, ServicesAssumption DEF TargetOfService, Owners, AssetsSeen, Unseen
<1>4. \A stop \in ProbeStops : [q EXCEPT !.at = stop] \in ProbeRow
  BY DEF ProbeRow
<1>5. \A x : [q EXCEPT !.todo = @ \ {x}] \in ProbeRow
  BY DEF ProbeRow
<1>6. \A known \in SUBSET Technologies :
        [q EXCEPT !.at = "matching", !.known = known] \in ProbeRow
  BY DEF ProbeRow, ProbeStops
<1>7. \A stop \in ProbeStops, score \in SUBSET Kinds :
        [q EXCEPT !.at = stop, !.score = @ \cup score] \in ProbeRow
  BY DEF ProbeRow
<1> QED BY <1>1, <1>2, <1>3, <1>4, <1>5, <1>6, <1>7 DEF IdleProber

\* A worker with a probe at hand is at an analysis.
LEMMA WorkerIsAtAnalysis ==
    ASSUME Sorted, NEW w \in Probers, probe[w].at # "idle"
    PROVE  probe[w] \in ProbeRow
BY DEF Sorted, IdleProber

LEMMA InitXTyped == XInit => XTyped
<1> SUFFICES ASSUME XInit PROVE XTyped
  OBVIOUS
<1>1. XTypeOK
  BY ServicesAssumption DEF XInit, XTypeOK, FaultsOK, NoCluster
<1>2. Sorted
  BY DEF XInit, Sorted
<1> QED BY <1>1, <1>2 DEF XTyped

\* Nodes saved for a target are nodes of a target, and stay.
LEMMA NodesSaved ==
    ASSUME XTyped, NEW t \in Owners, t # Unseen, NEW ns \in SUBSET NodeIds,
           SaveGraphNodes(t, ns)
    PROVE  /\ node' \in [NodeIds -> Owners \cup {Unseen}]
           /\ \A n \in NodeIds : n \in ns \/ node[n] # Unseen => node'[n] # Unseen
BY DEF SaveGraphNodes, XTyped, XTypeOK

\* A change recorded of a subject is added to its own changes only.
LEMMA ChangeAppends ==
    ASSUME Sorted, NEW x \in Subjects, NEW prev \in Faces \cup Technologies \cup {Unseen},
           NEW curr \in Faces \cup Technologies,
           changelog' = Change(x, prev, curr)
    PROVE  /\ changelog'[x] = Append(changelog[x], [prev |-> prev, curr |-> curr])
           /\ DOMAIN changelog' = Subjects
           /\ \A y \in Subjects : y # x => changelog'[y] = changelog[y]
           /\ changelog'[x] \in Seq([prev : Faces \cup Technologies \cup {Unseen},
                                     curr : Faces \cup Technologies])
<1>1. changelog' = [changelog EXCEPT ![x] = Append(@, [prev |-> prev, curr |-> curr])]
  BY DEF Change
<1>2. DOMAIN changelog = Subjects
  BY DEF Sorted
<1>3. changelog'[x] = Append(changelog[x], [prev |-> prev, curr |-> curr])
  BY <1>1, <1>2
<1>4. [prev |-> prev, curr |-> curr] \in [prev : Faces \cup Technologies \cup {Unseen},
                                          curr : Faces \cup Technologies]
  OBVIOUS
<1>5. changelog[x] \in Seq([prev : Faces \cup Technologies \cup {Unseen},
                            curr : Faces \cup Technologies])
  BY DEF Sorted
<1> QED BY <1>1, <1>2, <1>3, <1>4, <1>5

\* Statements are refused by PostgreSQL only, within the bound, and what is
\* missed is remembered.
LEMMA FaultsCounted ==
    ASSUME FaultsOK, UNCHANGED pg, NEW a \in AssetsSeen,
           Obeys \/ Misses(a) \/ (UNCHANGED faulted /\ \E n : Refused(n))
    PROVE  FaultsOK' /\ faulted \subseteq faulted' /\ faulted' \subseteq faulted \cup {a}
BY ServicesAssumption DEF FaultsOK, Obeys, Misses, Refused, faultVars

\* So it is in every step of an analysis.
LEMMA StepFaults ==
    ASSUME XTyped, UNCHANGED pg, NEW w \in Probers, AnalysisStep(w)
    PROVE  FaultsOK' /\ faulted \subseteq faulted' /\ faulted' \subseteq faulted \cup {Probed(w)}
<1>1. probe[w].at # "idle"
  BY DEF AnalysisStep, SaveServiceObservation, SaveServiceFails, RecordServiceChange,
         SaveTechnologyObservation, InferAssetTags, IngestProbeResult, RecordSignals,
         ScoreCluster, SynthesizeClusters
<1>2. Probed(w) \in AssetsSeen /\ FaultsOK
  BY <1>1, WorkerIsAtAnalysis, AnalysisMoves DEF XTyped, XTypeOK, Probed
<1>3. Obeys \/ Misses(Probed(w)) \/ (UNCHANGED faulted /\ \E n : Refused(n))
  <2>1. CASE SaveServiceObservation(w) \/ SaveServiceFails(w) \/ RecordServiceChange(w)
    BY <2>1 DEF SaveServiceObservation, SaveServiceFails, RecordServiceChange
  <2>2. CASE (\E x \in Technologies : SaveTechnologyObservation(w, x)) \/ InferAssetTags(w)
    BY <2>2 DEF SaveTechnologyObservation, InferAssetTags
  <2>3. CASE IngestProbeResult(w)
    BY <2>3 DEF IngestProbeResult
  <2>4. CASE RecordSignals(w) \/ ScoreCluster(w) \/ SynthesizeClusters(w)
    BY <2>4 DEF RecordSignals, ScoreCluster, SynthesizeClusters
  <2> QED BY <2>1, <2>2, <2>3, <2>4 DEF AnalysisStep
<1> QED BY <1>2, <1>3, FaultsCounted

\* Every step of an analysis keeps the sorts.
LEMMA StepTyped ==
    ASSUME XTyped, UNCHANGED pg, NEW w \in Probers, AnalysisStep(w)
    PROVE  XTyped'
<1> DEFINE p == probe[w]
           a == Probed(w)
           t == TargetOfService(p.service)
           Moves(q) == q \in ProbeRow \cup {IdleProber} /\ probe' = [probe EXCEPT ![w] = q]
<1>1. p.at # "idle"
  BY DEF AnalysisStep, SaveServiceObservation, SaveServiceFails, RecordServiceChange,
         SaveTechnologyObservation, InferAssetTags, IngestProbeResult, RecordSignals,
         ScoreCluster, SynthesizeClusters
<1>2. p \in ProbeRow
  BY <1>1, WorkerIsAtAnalysis DEF XTyped
<1>3. p.service \in Services /\ a \in AssetsSeen /\ t \in Owners /\ t # Unseen
  BY <1>2, AnalysisMoves DEF Probed
<1>4. ASSUME NEW q, Moves(q) PROVE probe' \in [Probers -> ProbeRow \cup {IdleProber}]
  BY <1>4 DEF XTyped, Sorted
<1>5. \A stop \in ProbeStops : Goes(w, stop) =>
          probe' \in [Probers -> ProbeRow \cup {IdleProber}]
  <2> SUFFICES ASSUME NEW stop \in ProbeStops, Goes(w, stop)
               PROVE  probe' \in [Probers -> ProbeRow \cup {IdleProber}]
    OBVIOUS
  <2>1. probe' = [probe EXCEPT ![w] = [p EXCEPT !.at = stop]]
    BY DEF Goes
  <2> QED BY <1>2, <1>4, <2>1, AnalysisMoves
<1>6. {"saved", "matching", "graph", "signals", "score", "score differences", "cluster"}
        \subseteq ProbeStops
  BY DEF ProbeStops
<1> USE StepFaults
<1>7. CASE SaveServiceObservation(w)
  <2>1. p.face \in Faces
    BY <1>2 DEF ProbeRow
  <2>2. XTypeOK'
    BY <1>3, <1>7, <2>1 DEF SaveServiceObservation, XTyped, XTypeOK, graphVars
  <2>3. Sorted'
    BY <1>5, <1>6, <1>7 DEF SaveServiceObservation, XTyped, Sorted
  <2> QED BY <2>2, <2>3 DEF XTyped
<1>8. CASE SaveServiceFails(w)
  <2>1. XTypeOK'
    <3>1. p.face \in Faces
      BY <1>2 DEF ProbeRow
    <3>2. face' \in [Services -> Faces \cup {Unseen}]
      BY <1>3, <1>8, <3>1 DEF SaveServiceFails, XTyped, XTypeOK
    <3> QED BY <1>8, <3>2 DEF SaveServiceFails, XTyped, XTypeOK, graphVars
  <2>2. Sorted'
    BY <1>4, <1>8 DEF SaveServiceFails, XTyped, Sorted
  <2> QED BY <2>1, <2>2 DEF XTyped
<1>9. CASE RecordServiceChange(w)
  <2> DEFINE known == {x \in Technologies : <<a, x>> \in recognised}
  <2>1. XTypeOK'
    BY <1>9 DEF RecordServiceChange, XTyped, XTypeOK, graphVars
  <2>2. probe' = [probe EXCEPT ![w] = [p EXCEPT !.at = "matching", !.known = known]]
    BY <1>9 DEF RecordServiceChange
  <2>3. probe' \in [Probers -> ProbeRow \cup {IdleProber}]
    BY <1>2, <1>4, <2>2, AnalysisMoves
  <2>4. p.face \in Faces /\ p.prev \in Faces \cup {Unseen}
        /\ ServiceSeen(p.service) \in Subjects
    BY <1>2, <1>3 DEF ProbeRow, Subjects
  <2>5. changelog' = changelog \/ changelog' = Change(ServiceSeen(p.service), p.prev, p.face)
    BY <1>9 DEF RecordServiceChange
  <2>6. Sorted'
    BY <1>9, <2>3, <2>4, <2>5, ChangeAppends DEF RecordServiceChange, XTyped, Sorted
  <2> QED BY <2>1, <2>6 DEF XTyped
<1>10. ASSUME NEW x \in Technologies, SaveTechnologyObservation(w, x) PROVE XTyped'
  <2>1. XTypeOK'
    BY <1>3, <1>10 DEF SaveTechnologyObservation, XTyped, XTypeOK, graphVars
  <2>2. probe' = [probe EXCEPT ![w] = [p EXCEPT !.todo = @ \ {x}]]
    BY <1>10 DEF SaveTechnologyObservation
  <2>3. probe' \in [Probers -> ProbeRow \cup {IdleProber}]
    BY <1>2, <1>4, <2>2, AnalysisMoves
  <2>4. TechnologySeen(a, x) \in Subjects
    BY <1>3 DEF Subjects
  <2>5. changelog' = changelog \/ changelog' = Change(TechnologySeen(a, x), Unseen, x)
    BY <1>10 DEF SaveTechnologyObservation
  <2>6. Sorted'
    BY <1>10, <2>3, <2>4, <2>5, ChangeAppends DEF SaveTechnologyObservation, XTyped, Sorted
  <2> QED BY <2>1, <2>6 DEF XTyped
<1>11. CASE InferAssetTags(w)
  <2>1. XTypeOK'
    BY <1>3, <1>11 DEF InferAssetTags, Tagged, XTyped, XTypeOK, graphVars
  <2>2. Sorted'
    BY <1>5, <1>6, <1>11 DEF InferAssetTags, XTyped, Sorted
  <2> QED BY <2>1, <2>2 DEF XTyped
<1>12. CASE IngestProbeResult(w)
  <2> DEFINE target  == <<"target", t>>
             host    == <<"host", a>>
             service == <<"service", p.service>>
             techs   == {<<"technology", x>> : x \in p.found}
             ns      == {target, host, service} \cup techs
             es      == {Edge(t, target, host), Edge(t, host, service)}
                          \cup {Edge(t, service, x) : x \in techs}
  <2>1. PICK n \in SUBSET ns, f \in SUBSET es : SaveGraphNodes(t, n) /\ SaveGraphEdges(f)
    BY <1>12 DEF IngestProbeResult
  <2>2. n \subseteq NodeIds
    <3>1. p.found \subseteq Technologies
      BY <1>2 DEF ProbeRow
    <3> QED BY <1>3, <3>1 DEF NodeIds
  <2>3. \A e \in f : e.target = t /\ {e.from, e.to} \subseteq NodeIds
    <3>1. p.found \subseteq Technologies
      BY <1>2 DEF ProbeRow
    <3>2. ns \subseteq NodeIds
      BY <1>3, <3>1 DEF NodeIds
    <3>3. \A e \in es : e.target = t /\ {e.from, e.to} \subseteq ns
      BY DEF Edge
    <3> HIDE DEF ns, es
    <3> QED BY <3>2, <3>3
  <2>4. /\ node' \in [NodeIds -> Owners \cup {Unseen}]
        /\ \A m \in NodeIds : m \in n \/ node[m] # Unseen => node'[m] # Unseen
    BY <1>3, <2>1, <2>2, NodesSaved
  <2>5. edges' = edges \cup {e \in f : Unseen \notin {node'[e.from], node'[e.to]}}
    BY <2>1 DEF SaveGraphEdges
  <2> HIDE DEF ns, es
  <2>6. ASSUME NEW e \in edges'
        PROVE  /\ e.target \in Owners /\ {e.from, e.to} \subseteq NodeIds
               /\ node'[e.from] # Unseen /\ node'[e.to] # Unseen
    <3>1. CASE e \in edges
      BY <2>4, <3>1 DEF XTyped, XTypeOK
    <3>2. CASE e \in f /\ Unseen \notin {node'[e.from], node'[e.to]}
      BY <1>3, <2>3, <3>2
    <3> QED BY <2>5, <3>1, <3>2
  <2>7. XTypeOK'
    BY <1>12, <2>4, <2>6 DEF IngestProbeResult, XTyped, XTypeOK
  <2>8. Sorted'
    BY <1>5, <1>6, <1>12 DEF IngestProbeResult, XTyped, Sorted
  <2> QED BY <2>7, <2>8 DEF XTyped
<1>13. CASE RecordSignals(w)
  <2>1. EvaluateInvariants(p) \cup EvaluateDifferentialBehavior(p) \subseteq Services \X Kinds
    BY <1>3 DEF EvaluateInvariants, EvaluateDifferentialBehavior, Kinds
  <2>2. XTypeOK'
    BY <1>13, <2>1 DEF RecordSignals, XTyped, XTypeOK, graphVars
  <2>3. Sorted'
    BY <1>5, <1>6, <1>13 DEF RecordSignals, XTyped, Sorted
  <2> QED BY <2>2, <2>3 DEF XTyped
<1>14. CASE ScoreCluster(w)
  <2>1. XTypeOK'
    BY <1>14 DEF ScoreCluster, XTyped, XTypeOK, graphVars
  <2>2. PICK stop \in ProbeStops, listed \in SUBSET Kinds :
            probe' = [probe EXCEPT ![w] = [p EXCEPT !.at = stop, !.score = @ \cup listed]]
    <3>1. Score(t) \subseteq Kinds
      BY DEF Score
    <3>2. PICK kind \in Kinds, listed \in SUBSET Kinds :
            probe' = [probe EXCEPT
                ![w].at = IF kind = "invariant" THEN "score differences" ELSE "cluster",
                ![w].score = @ \cup listed]
      BY <1>14, <3>1 DEF ScoreCluster
    <3> DEFINE stop == IF kind = "invariant" THEN "score differences" ELSE "cluster"
    <3>3. probe' = [probe EXCEPT ![w] = [p EXCEPT !.at = stop, !.score = @ \cup listed]]
      BY <3>2
    <3>4. stop \in ProbeStops /\ listed \in SUBSET Kinds
      BY <1>6, <3>2
    <3> QED BY <3>3, <3>4
  <2>4. probe' \in [Probers -> ProbeRow \cup {IdleProber}]
    BY <1>2, <1>4, <2>2, AnalysisMoves
  <2>5. Sorted'
    BY <1>14, <2>4 DEF ScoreCluster, XTyped, Sorted
  <2> QED BY <2>1, <2>5 DEF XTyped
<1>15. CASE SynthesizeClusters(w)
  <2> DEFINE c == [status |-> "ACTIVE", score |-> p.score, endpoint |-> p.service]
  <2>1. cluster' = cluster \/ cluster' = [cluster EXCEPT ![a] = c]
    BY <1>15 DEF SynthesizeClusters
  <2>2. c \in ClusterRow /\ c.status = "ACTIVE"
    BY <1>2, <1>3 DEF ClusterRow, ProbeRow
  <2> HIDE DEF c
  <2>3. XTypeOK'
    BY <1>3, <1>15, <2>1, <2>2 DEF SynthesizeClusters, XTyped, XTypeOK, Sorted, graphVars
  <2>4. cluster' \in [AssetsSeen -> ClusterRow \cup {NoCluster}]
    BY <1>3, <2>1, <2>2 DEF XTyped, Sorted
  <2>5. Sorted'
    BY <1>4, <1>15, <2>4 DEF SynthesizeClusters, XTyped, Sorted
  <2> QED BY <2>3, <2>5 DEF XTyped
<1> QED
  BY <1>7, <1>8, <1>9, <1>10, <1>11, <1>12, <1>13, <1>14, <1>15 DEF AnalysisStep

\* So do a new analysis and what researchers do.
LEMMA NextXTyped == XTyped /\ [XNext /\ UNCHANGED pg]_<<xvars, pg>> => XTyped'
<1> SUFFICES ASSUME XTyped, [XNext]_xvars, UNCHANGED pg PROVE XTyped'
  OBVIOUS
<1>1. CASE UNCHANGED xvars
  BY <1>1 DEF xvars, graphVars, faultVars, XTyped, XTypeOK, FaultsOK, Sorted
<1>2. ASSUME NEW w \in Probers, NEW p \in Answers, AnalyzeHTTPProbe(w, p) PROVE XTyped'
  <2>1. PICK prev \in {face[p.service], Unseen} :
            /\ probe' = [probe EXCEPT ![w] =
                   [at |-> "listed", service |-> p.service, face |-> p.face,
                    found |-> p.found, raised |-> p.raised, todo |-> p.found,
                    known |-> {}, prev |-> prev, score |-> {}]]
            /\ Obeys \/ Misses(AssetOf[p.service])
    BY <1>2 DEF AnalyzeHTTPProbe
  <2> DEFINE q == [at |-> "listed", service |-> p.service, face |-> p.face,
                   found |-> p.found, raised |-> p.raised, todo |-> p.found,
                   known |-> {}, prev |-> prev, score |-> {}]
  <2>2. p \in [service : Services, face : Faces, found : SUBSET Technologies,
               raised : SUBSET {"invariant", "difference"}]
    BY ServicesAssumption
  <2>3. prev \in Faces \cup {Unseen}
    BY <2>1, <2>2 DEF XTyped, XTypeOK
  <2>4. q \in ProbeRow
    BY <2>2, <2>3 DEF ProbeRow, ProbeStops, Kinds
  <2>5. FaultsOK'
    <3>1. AssetOf[p.service] \in AssetsSeen
      BY <2>2, ServicesAssumption DEF AssetsSeen
    <3> QED BY <2>1, <3>1, FaultsCounted DEF XTyped, XTypeOK
  <2>6. probe' = [probe EXCEPT ![w] = q]
    BY <2>1
  <2> HIDE DEF q
  <2>7. XTypeOK'
    BY <1>2, <2>5 DEF AnalyzeHTTPProbe, XTyped, XTypeOK, graphVars
  <2>8. Sorted'
    BY <1>2, <2>4, <2>6 DEF AnalyzeHTTPProbe, XTyped, Sorted
  <2> QED BY <2>7, <2>8 DEF XTyped
<1>3. ASSUME NEW a \in AssetsSeen, AddAssetTag(a) \/ RemoveAssetTag(a) PROVE XTyped'
  <2>1. FaultsOK'
    BY <1>3 DEF AddAssetTag, RemoveAssetTag, faultVars, FaultsOK, XTyped, XTypeOK
  <2> QED BY <1>3, <2>1
          DEF AddAssetTag, RemoveAssetTag, Tagged, XTyped, XTypeOK, Sorted, graphVars
<1>4. ASSUME NEW a \in AssetsSeen, NEW st \in Decisions, UpdateClusterStatus(a, st)
      PROVE  XTyped'
  <2>1. cluster[a] \in ClusterRow /\ cluster' = [cluster EXCEPT ![a].status = st]
    BY <1>4 DEF UpdateClusterStatus, XTyped, Sorted
  <2>2. cluster'[a] \in ClusterRow /\ cluster'[a].status = st
    BY <2>1 DEF ClusterRow, XTyped, Sorted
  <2>3. \A b \in AssetsSeen : b # a => cluster'[b] = cluster[b]
    BY <2>1 DEF XTyped, Sorted
  <2>4. cluster' \in [AssetsSeen -> ClusterRow \cup {NoCluster}]
    BY <2>1, <2>2, <2>3 DEF XTyped, Sorted
  <2>5. XTypeOK'
    BY <1>4, <2>2, <2>3 DEF faultVars, FaultsOK, UpdateClusterStatus, XTyped, XTypeOK, graphVars
  <2>6. Sorted'
    BY <1>4, <2>4 DEF UpdateClusterStatus, XTyped, Sorted
  <2> QED BY <2>5, <2>6 DEF XTyped
<1> QED BY <1>1, <1>2, <1>3, <1>4, StepTyped DEF XNext

\* The state of the intelligence is well typed: each edge of the graph joins
\* two nodes that are stored.
THEOREM IntelligenceTyped == XSpec => []XTypeOK
<1>1. XTyped => XTypeOK
  BY DEF XTyped
<1> QED BY <1>1, InitXTyped, NextXTyped, PTL DEF XSpec

-----------------------------------------------------------------------------
(***************************************************************************)
(* One analysis of an asset at a time.                                     *)
(***************************************************************************)

\* The analyses of an asset that are under way are one at most.
AtMostOne(a) == \A v, w \in Busy(a) : v = w

\* An analysis of s between saving the observation and recording the change.
Halfway(s) == \E w \in Busy(AssetOf[s]) : probe[w].at = "saved" /\ probe[w].service = s

\* The changes of a service tell its observations up to the stored one, but
\* while an analysis is halfway, which still knows where they end.
Told(s) ==
    /\ Chains(changelog[ServiceSeen(s)])
    /\ ~Halfway(s) => LastOf(changelog[ServiceSeen(s)]) = face[s]
    /\ \A w \in Busy(AssetOf[s]) : probe[w].service = s =>
         /\ probe[w].at = "listed" => probe[w].prev = face[s]
         /\ probe[w].at = "saved" => /\ face[s] = probe[w].face
                                     /\ LastOf(changelog[ServiceSeen(s)]) = probe[w].prev

\* A technology is announced once, when it is stored, and an analysis knows
\* which of those it still has to store are there.
Announced(a, x) ==
    /\ Len(changelog[TechnologySeen(a, x)]) = IF <<a, x>> \in recognised THEN 1 ELSE 0
    /\ \A w \in Busy(a) : probe[w].at = "matching" /\ x \in probe[w].todo =>
         (x \in probe[w].known <=> <<a, x>> \in recognised)

Scoring == {"score", "score differences", "cluster"}

\* The score of the cluster counts the signals of the asset, but between
\* recording new ones and saving the cluster again, when the analysis does.
Covered(a) ==
    /\ (\A w \in Busy(a) : probe[w].at \notin Scoring) =>
         \A g \in alarms : AssetOf[g[1]] = a =>
             cluster[a] # NoCluster /\ g[2] \in cluster[a].score
    /\ \A w \in Busy(a) : \A g \in alarms :
         /\ AssetOf[g[1]] = a
         /\ \/ probe[w].at = "cluster"
            \/ probe[w].at = "score differences" /\ g[2] = "invariant"
         => g[2] \in probe[w].score

Serial(a) ==
    /\ AtMostOne(a) /\ Covered(a)
    /\ \A x \in Technologies : Announced(a, x)
    /\ \A s \in Services : AssetOf[s] = a => Told(s)

XStrong == XTyped /\ \A a \in AssetsSeen : a \notin overlapped \cup faulted => Serial(a)

LEMMA InitXStrong == XInit => XStrong
<1> SUFFICES ASSUME XInit, NEW a \in AssetsSeen PROVE Serial(a)
  BY InitXTyped DEF XStrong
<1>1. Busy(a) = {}
  BY DEF XInit, Busy, IdleProber
<1>2. Covered(a) /\ AtMostOne(a)
  BY <1>1 DEF XInit, Covered, AtMostOne
<1>3. ASSUME NEW x \in Technologies PROVE Announced(a, x)
  <2>1. changelog[TechnologySeen(a, x)] = <<>>
    BY DEF XInit, Subjects
  <2> QED BY <1>1, <2>1 DEF XInit, Announced
<1>4. ASSUME NEW s \in Services, AssetOf[s] = a PROVE Told(s)
  <2>1. changelog[ServiceSeen(s)] = <<>> /\ face[s] = Unseen
    BY DEF XInit, Subjects
  <2> QED BY <1>1, <1>4, <2>1 DEF Told, Chains, LastOf
<1> QED BY <1>2, <1>3, <1>4 DEF Serial

\* What no step touches of an asset stays as it was.
LEMMA ElsewhereSerial ==
    ASSUME NEW a \in AssetsSeen, Serial(a),
           Busy(a)' = Busy(a), \A w \in Busy(a) : probe'[w] = probe[w],
           \A s \in Services : AssetOf[s] = a =>
               face'[s] = face[s] /\ changelog'[ServiceSeen(s)] = changelog[ServiceSeen(s)],
           \A x \in Technologies :
               /\ changelog'[TechnologySeen(a, x)] = changelog[TechnologySeen(a, x)]
               /\ <<a, x>> \in recognised' <=> <<a, x>> \in recognised,
           \A g : AssetOf[g[1]] = a => (g \in alarms' <=> g \in alarms),
           cluster'[a] = cluster[a]
           \/ (cluster[a] # NoCluster /\ cluster'[a] # NoCluster
               /\ cluster'[a].score = cluster[a].score)
    PROVE  Serial(a)'
<1>1. AtMostOne(a)'
  BY DEF Serial, AtMostOne
<1>2. Covered(a)'
  BY DEF Serial, Covered
<1>3. ASSUME NEW x \in Technologies PROVE Announced(a, x)'
  BY DEF Serial, Announced
<1>4. ASSUME NEW s \in Services, AssetOf[s] = a PROVE Told(s)'
  BY <1>4 DEF Serial, Told, Halfway
<1> QED BY <1>1, <1>2, <1>3, <1>4 DEF Serial

\* What a worker that moves changes of who is busy.
LEMMA WorkerMoves ==
    ASSUME XTyped, NEW w \in Probers, probe[w].at # "idle", NEW q,
           probe' = [probe EXCEPT ![w] = q],
           q.at # "idle" => q.service = probe[w].service,
           NEW a, a = Probed(w)
    PROVE  /\ w \in Busy(a)
           /\ \A b : b # a => Busy(b)' = Busy(b) /\ w \notin Busy(b)
           /\ \A v \in Probers : v # w => probe'[v] = probe[v]
           /\ probe'[w] = q
           /\ Busy(a)' = IF q.at = "idle" THEN Busy(a) \ {w} ELSE Busy(a)
<1>1. probe'[w] = q /\ \A v \in Probers : v # w => probe'[v] = probe[v]
  BY DEF XTyped, Sorted
<1>2. ASSUME NEW b, NEW v \in Probers, v # w PROVE v \in Busy(b)' <=> v \in Busy(b)
  BY <1>1, <1>2 DEF Busy
<1>3. ASSUME NEW b PROVE w \in Busy(b) <=> b = a
  BY DEF Busy, Probed
<1>4. ASSUME NEW b PROVE w \in Busy(b)' <=> b = a /\ q.at # "idle"
  BY <1>1 DEF Busy, Probed
<1>5. ASSUME NEW b PROVE Busy(b) \subseteq Probers /\ Busy(b)' \subseteq Probers
  BY DEF Busy
<1>6. ASSUME NEW b, b # a PROVE Busy(b)' = Busy(b)
  BY <1>2, <1>3, <1>4, <1>5, <1>6
<1>7. Busy(a)' = IF q.at = "idle" THEN Busy(a) \ {w} ELSE Busy(a)
  <2>1. \A v \in Probers : v \in Busy(a)' <=> v \in Busy(a) /\ (v # w \/ q.at # "idle")
    BY <1>2, <1>3, <1>4
  <2> QED BY <1>5, <2>1
<1> QED BY <1>1, <1>3, <1>6, <1>7

\* One step of an analysis that is alone on its asset keeps what the asset's
\* change log, technologies and score say.
LEMMA SoleStepSerial ==
    ASSUME XTyped, NEW w \in Probers, AnalysisStep(w),
           NEW a, a = Probed(w), Serial(a), a \notin faulted'
    PROVE  Serial(a)'
<1> DEFINE p == probe[w]
           r == p.service
           t == TargetOfService(r)
<1>1. p.at # "idle"
  BY DEF AnalysisStep, SaveServiceObservation, SaveServiceFails, RecordServiceChange,
         SaveTechnologyObservation, InferAssetTags, IngestProbeResult, RecordSignals,
         ScoreCluster, SynthesizeClusters
<1>2. p \in ProbeRow
  BY <1>1, WorkerIsAtAnalysis DEF XTyped
<1>3. r \in Services /\ a \in AssetsSeen /\ AssetOf[r] = a
  BY <1>2, AnalysisMoves DEF Probed
<1>4. Busy(a) = {w}
  BY <1>1 DEF Serial, AtMostOne, Busy, Probed
<1> DEFINE Going(q) == probe' = [probe EXCEPT ![w] = q]
<1>5. ASSUME NEW q, Going(q), q.at # "idle", q.service = r
      PROVE  Busy(a)' = {w} /\ probe'[w] = q
  BY <1>1, <1>4, <1>5, WorkerMoves
<1>6. ASSUME Going(IdleProber) PROVE Busy(a)' = {}
  <2>1. IdleProber.at = "idle"
    BY DEF IdleProber
  <2>2. a = Probed(w)
    OBVIOUS
  <2>3. Busy(a)' = Busy(a) \ {w}
    BY <1>1, <1>6, <2>1, <2>2, WorkerMoves
  <2> QED BY <1>4, <2>3
<1>7. \A stop \in ProbeStops : [p EXCEPT !.at = stop].at = stop
                               /\ [p EXCEPT !.at = stop].service = r /\ stop # "idle"
  BY <1>2 DEF ProbeRow, ProbeStops
<1>8. \A stop \in ProbeStops : Goes(w, stop) =>
        Busy(a)' = {w} /\ probe'[w] = [p EXCEPT !.at = stop]
  BY <1>5, <1>7 DEF Goes
<1>9. {"saved", "matching", "graph", "signals", "score"} \subseteq ProbeStops
  BY DEF ProbeStops
<1>0. ~Misses(a)
  BY DEF Misses
<1>10. Busy(a)' \subseteq {w} => AtMostOne(a)'
  BY DEF AtMostOne
\* Away from "saved", "listed", "matching", "score" and "cluster" the worker
\* promises nothing.
<1>11. ASSUME UNCHANGED <<face, changelog>>, Busy(a)' \subseteq {w},
              Busy(a)' = {w} => probe'[w].at \notin {"listed", "saved"},
              p.at # "saved",
              NEW s \in Services, AssetOf[s] = a
       PROVE  Told(s)'
  <2>1. ~Halfway(s) /\ Told(s)
    BY <1>4, <1>11 DEF Halfway, Serial
  <2>2. ~Halfway(s)'
    BY <1>11 DEF Halfway
  <2> QED BY <1>11, <2>1, <2>2 DEF Told
<1>12. ASSUME UNCHANGED <<changelog, recognised>>, Busy(a)' \subseteq {w},
              Busy(a)' = {w} => probe'[w].at # "matching",
              NEW x \in Technologies
       PROVE  Announced(a, x)'
  BY <1>12 DEF Announced, Serial
<1>13. ASSUME UNCHANGED <<alarms, cluster>>, Busy(a)' \subseteq {w},
              Busy(a)' = {w} => probe'[w].at \notin Scoring,
              p.at \notin Scoring
       PROVE  Covered(a)'
  BY <1>4, <1>13 DEF Covered, Serial, Scoring
<1>14. CASE SaveServiceObservation(w)
  <2>1. /\ Busy(a)' = {w} /\ probe'[w] = [p EXCEPT !.at = "saved"] /\ p.at = "listed"
        /\ UNCHANGED <<changelog, recognised, alarms, cluster>>
        /\ face' = [face EXCEPT ![r] = p.face]
    BY <1>8, <1>9, <1>14 DEF SaveServiceObservation
  <2>2. probe'[w].at = "saved" /\ probe'[w].service = r /\ probe'[w].face = p.face
        /\ probe'[w].prev = p.prev
    BY <1>2, <2>1 DEF ProbeRow
  <2>3. ASSUME NEW s \in Services, AssetOf[s] = a PROVE Told(s)'
    <3>1. Told(s) /\ ~Halfway(s)
      BY <1>4, <2>1, <2>3 DEF Serial, Halfway
    <3>2. face'[s] = IF s = r THEN p.face ELSE face[s]
      BY <2>1 DEF XTyped, XTypeOK
    <3>3. r = s => p.prev = face[s]
      BY <1>4, <2>1, <2>3, <3>1 DEF Told
    <3>4. CASE s # r
      <4>1. \A v \in Busy(a)' : probe'[v].service # s
        BY <2>1, <2>2, <3>4
      <4>2. ~Halfway(s)'
        BY <2>3, <4>1 DEF Halfway
      <4> QED BY <2>1, <2>3, <3>1, <3>2, <3>4, <4>1, <4>2 DEF Told
    <3>5. CASE s = r
      <4>1. Halfway(s)'
        BY <1>3, <2>1, <2>2, <3>5 DEF Halfway
      <4>2. LastOf(changelog[ServiceSeen(s)]) = p.prev
        BY <3>1, <3>3, <3>5 DEF Told
      <4> QED BY <2>1, <2>2, <2>3, <3>1, <3>2, <3>5, <4>1, <4>2 DEF Told
    <3> QED BY <3>4, <3>5
  <2> QED BY <1>10, <1>12, <1>13, <2>1, <2>2, <2>3 DEF Serial, Scoring
<1>15. CASE SaveServiceFails(w)
  <2>1. /\ Busy(a)' = {} /\ p.at = "listed"
        /\ UNCHANGED <<face, changelog, recognised, alarms, cluster>>
    BY <1>0, <1>6, <1>15 DEF SaveServiceFails
  <2> QED BY <1>10, <1>11, <1>12, <1>13, <2>1 DEF Serial, Scoring
<1>16. CASE RecordServiceChange(w)
  <2> DEFINE known == {x \in Technologies : <<a, x>> \in recognised}
             q == [p EXCEPT !.at = "matching", !.known = known]
             cs == changelog[ServiceSeen(r)]
             c == [prev |-> p.prev, curr |-> p.face]
  <2>1. q.at = "matching" /\ q.service = r /\ q.known = known
    BY <1>2 DEF ProbeRow
  <2>2. Going(q) /\ p.at = "saved" /\ UNCHANGED <<face, recognised, alarms, cluster>>
    BY <1>16 DEF RecordServiceChange
  <2>3. Busy(a)' = {w} /\ probe'[w] = q
    BY <1>5, <2>1, <2>2
  <2> HIDE DEF q
  <2>4. Told(r) /\ Halfway(r) /\ face[r] = p.face /\ LastOf(cs) = p.prev
    <3>1. w \in Busy(AssetOf[r])
      BY <1>3, <1>4
    <3> QED BY <1>3, <2>2, <3>1 DEF Serial, Told, Halfway
  <2>5. ServiceSeen(r) \in Subjects /\ p.prev \in Faces \cup {Unseen} /\ p.face \in Faces
    BY <1>2, <1>3 DEF Subjects, ProbeRow
  <2>6. \/ changelog' = changelog /\ p.prev = p.face
        \/ /\ changelog'[ServiceSeen(r)] = Append(cs, c)
           /\ \A y \in Subjects : y # ServiceSeen(r) => changelog'[y] = changelog[y]
    <3>1. CASE DetectServiceChanges(p.prev, p.face)
      <4>1. changelog' = Change(ServiceSeen(r), p.prev, p.face)
        BY <1>0, <1>16, <3>1 DEF RecordServiceChange
      <4>2. /\ changelog'[ServiceSeen(r)] = Append(changelog[ServiceSeen(r)],
                                                    [prev |-> p.prev, curr |-> p.face])
            /\ \A y \in Subjects : y # ServiceSeen(r) => changelog'[y] = changelog[y]
        <5> HIDE DEF p, r
        <5>1. /\ Sorted /\ p.prev \in Faces \cup Technologies \cup {Unseen}
              /\ p.face \in Faces \cup Technologies
          BY <2>5 DEF XTyped
        <5> QED BY <2>5, <4>1, <5>1, ChangeAppends
      <4> QED BY <4>2
    <3>2. CASE ~DetectServiceChanges(p.prev, p.face)
      BY <1>16, <3>2 DEF RecordServiceChange, DetectServiceChanges
    <3> QED BY <3>1, <3>2
  <2>7. ASSUME NEW s \in Services, AssetOf[s] = a PROVE ~Halfway(s)'
    BY <2>1, <2>3, <2>7 DEF Halfway
  <2>8. ASSUME NEW s \in Services, AssetOf[s] = a PROVE Told(s)'
    <3>1. CASE changelog'[ServiceSeen(s)] = changelog[ServiceSeen(s)] /\ s # r
      <4>1. Told(s) /\ ~Halfway(s)
        BY <1>4, <2>8, <3>1 DEF Serial, Halfway
      <4> QED BY <2>1, <2>2, <2>3, <2>7, <2>8, <3>1, <4>1 DEF Told
    <3>2. CASE changelog' = changelog /\ s = r
      BY <2>1, <2>2, <2>3, <2>4, <2>6, <2>7, <2>8, <3>2 DEF Told
    <3>3. CASE changelog'[ServiceSeen(r)] = Append(cs, c) /\ s = r
      <4>1. cs \in Seq([prev : Faces \cup Technologies \cup {Unseen},
                        curr : Faces \cup Technologies])
        BY <2>5 DEF XTyped, Sorted
      <4>2. Len(cs) \in Nat /\ Len(Append(cs, c)) = Len(cs) + 1
            /\ Append(cs, c)[Len(cs) + 1] = c
            /\ \A i \in 1 .. Len(cs) : Append(cs, c)[i] = cs[i]
        BY <4>1
      <4>3. c.prev = p.prev /\ c.curr = p.face
        OBVIOUS
      <4> DEFINE ds == Append(cs, c)
                 n == Len(cs)
      <4>4. Chains(cs) /\ LastOf(cs) = p.prev
        BY <2>4 DEF Told
      <4> HIDE DEF c, ds, cs
      <4>5. ASSUME NEW i \in 1 .. n + 1
            PROVE  ds[i].prev = IF i = 1 THEN Unseen ELSE ds[i - 1].curr
        <5>1. CASE i = n + 1 /\ n = 0
          <6>1. cs = <<>>
            BY <4>1, <5>1
          <6> QED BY <4>2, <4>3, <4>4, <5>1, <6>1 DEF LastOf, ds
        <5>2. CASE i = n + 1 /\ n # 0
          <6>1. cs # <<>>
            BY <4>1, <5>2
          <6>2. i - 1 = n /\ n \in 1 .. n /\ i # 1
            BY <4>2, <5>2
          <6> QED BY <4>2, <4>3, <4>4, <5>2, <6>1, <6>2 DEF LastOf, ds
        <5>3. CASE i # n + 1
          <6>1. i \in 1 .. n /\ (i # 1 => i - 1 \in 1 .. n)
            BY <4>2, <5>3
          <6> QED BY <4>2, <4>4, <6>1 DEF Chains, ds
        <5> QED BY <5>1, <5>2, <5>3
      <4>6. Chains(ds)
        BY <4>2, <4>5 DEF Chains, ds
      <4>7. LastOf(ds) = p.face
        <5>1. ds # <<>>
          BY <4>1, <4>2 DEF ds
        <5> QED BY <4>2, <4>3, <5>1 DEF LastOf, ds
      <4>8. changelog'[ServiceSeen(s)] = ds /\ face'[s] = p.face
        BY <2>2, <2>4, <3>3 DEF ds
      <4> QED BY <2>1, <2>3, <2>7, <2>8, <4>6, <4>7, <4>8 DEF Told
    <3>4. s # r => ServiceSeen(s) # ServiceSeen(r) /\ ServiceSeen(s) \in Subjects
      BY <2>8 DEF ServiceSeen, Subjects
    <3> QED BY <2>6, <3>1, <3>2, <3>3, <3>4
  <2>9. ASSUME NEW x \in Technologies PROVE Announced(a, x)'
    <3>1. TechnologySeen(a, x) \in Subjects /\ TechnologySeen(a, x) # ServiceSeen(r)
      BY <1>3 DEF Subjects, ServiceSeen, TechnologySeen
    <3>2. changelog'[TechnologySeen(a, x)] = changelog[TechnologySeen(a, x)]
      BY <2>6, <3>1
    <3> QED BY <2>1, <2>2, <2>3, <3>2 DEF Announced, Serial
  <2>10. Covered(a)'
    BY <1>13, <2>1, <2>2, <2>3 DEF Scoring
  <2> QED BY <1>10, <2>3, <2>8, <2>9, <2>10 DEF Serial
<1>17. ASSUME NEW x \in Technologies, SaveTechnologyObservation(w, x) PROVE Serial(a)'
  <2> DEFINE q == [p EXCEPT !.todo = @ \ {x}]
  <2>1. Going(q) /\ p.at = "matching" /\ x \in p.todo /\ UNCHANGED <<face, alarms, cluster>>
    BY <1>17 DEF SaveTechnologyObservation
  <2>2. q.at = "matching" /\ q.service = r /\ q.todo = p.todo \ {x} /\ q.known = p.known
    BY <1>2, <2>1 DEF ProbeRow
  <2>3. Busy(a)' = {w} /\ probe'[w] = q
    BY <1>5, <2>1, <2>2
  <2> HIDE DEF q
  <2>4. TechnologySeen(a, x) \in Subjects
    BY <1>3 DEF Subjects
  <2>5. Announced(a, x) /\ (x \in p.known <=> <<a, x>> \in recognised)
    BY <1>4, <2>1 DEF Serial, Announced
  <2>6. /\ \A y : y # x => (<<a, y>> \in recognised' <=> <<a, y>> \in recognised)
        /\ \A y \in Subjects : y # TechnologySeen(a, x) => changelog'[y] = changelog[y]
        /\ Len(changelog'[TechnologySeen(a, x)]) = IF <<a, x>> \in recognised' THEN 1 ELSE 0
    <3>1. CASE ServiceRowKnown /\ x \notin p.known
      <4>1. recognised' = recognised \cup {<<a, x>>}
            /\ changelog' = Change(TechnologySeen(a, x), Unseen, x)
        BY <1>17, <3>1 DEF SaveTechnologyObservation
      <4>2. /\ changelog'[TechnologySeen(a, x)] =
                   Append(changelog[TechnologySeen(a, x)], [prev |-> Unseen, curr |-> x])
            /\ \A y \in Subjects : y # TechnologySeen(a, x) => changelog'[y] = changelog[y]
        BY <2>4, <4>1, ChangeAppends DEF XTyped
      <4>3. changelog[TechnologySeen(a, x)] \in
              Seq([prev : Faces \cup Technologies \cup {Unseen}, curr : Faces \cup Technologies])
        BY <2>4 DEF XTyped, Sorted
      <4>4. Len(changelog[TechnologySeen(a, x)]) = 0
        BY <2>5, <3>1 DEF Announced
      <4>5. Len(changelog'[TechnologySeen(a, x)]) = 1
        BY <4>2, <4>3, <4>4
      <4> QED BY <4>1, <4>2, <4>5
    <3>2. CASE ~ServiceRowKnown \/ x \in p.known
      <4>1. changelog' = changelog /\ \A y : <<a, y>> \in recognised' <=> <<a, y>> \in recognised
        BY <1>17, <2>5, <3>2 DEF SaveTechnologyObservation
      <4> QED BY <2>5, <4>1 DEF Announced
    <3> QED BY <3>1, <3>2
  <2>7. ASSUME NEW y \in Technologies PROVE Announced(a, y)'
    <3>1. CASE y = x
      BY <2>2, <2>3, <2>6, <3>1 DEF Announced
    <3>2. CASE y # x
      <4>1. TechnologySeen(a, y) \in Subjects /\ TechnologySeen(a, y) # TechnologySeen(a, x)
        BY <1>3, <3>2 DEF Subjects, TechnologySeen
      <4>2. Announced(a, y)
        BY DEF Serial
      <4> QED BY <1>4, <2>1, <2>2, <2>3, <2>6, <3>2, <4>1, <4>2 DEF Announced
    <3> QED BY <3>1, <3>2
  <2>8. ASSUME NEW s \in Services, AssetOf[s] = a PROVE Told(s)'
    <3>1. ServiceSeen(s) \in Subjects /\ ServiceSeen(s) # TechnologySeen(a, x)
      BY <2>8 DEF Subjects, ServiceSeen, TechnologySeen
    <3>2. changelog'[ServiceSeen(s)] = changelog[ServiceSeen(s)]
      BY <2>6, <3>1
    <3>3. Told(s) /\ ~Halfway(s) /\ ~Halfway(s)'
      BY <1>4, <2>1, <2>2, <2>3, <2>8 DEF Serial, Halfway
    <3> QED BY <2>1, <2>2, <2>3, <2>8, <3>2, <3>3 DEF Told
  <2>9. Covered(a)'
    BY <1>13, <2>1, <2>2, <2>3 DEF Scoring
  <2> QED BY <1>10, <2>3, <2>7, <2>8, <2>9 DEF Serial
<1>18. CASE InferAssetTags(w)
  <2>1. /\ Busy(a)' = {w} /\ probe'[w] = [p EXCEPT !.at = "graph"] /\ p.at = "matching"
        /\ UNCHANGED <<face, changelog, recognised, alarms, cluster>>
    BY <1>8, <1>9, <1>18 DEF InferAssetTags
  <2>2. probe'[w].at = "graph"
    BY <1>2, <2>1 DEF ProbeRow
  <2> QED BY <1>10, <1>11, <1>12, <1>13, <2>1, <2>2 DEF Serial, Scoring
<1>19. CASE IngestProbeResult(w)
  <2>1. /\ Busy(a)' = {w} /\ probe'[w] = [p EXCEPT !.at = "signals"] /\ p.at = "graph"
        /\ UNCHANGED <<face, changelog, recognised, alarms, cluster>>
    BY <1>8, <1>9, <1>19 DEF IngestProbeResult
  <2>2. probe'[w].at = "signals"
    BY <1>2, <2>1 DEF ProbeRow
  <2> QED BY <1>10, <1>11, <1>12, <1>13, <2>1, <2>2 DEF Serial, Scoring
<1>20. CASE RecordSignals(w)
  <2>1. /\ Busy(a)' = {w} /\ probe'[w] = [p EXCEPT !.at = "score"] /\ p.at = "signals"
        /\ UNCHANGED <<face, changelog, recognised>>
    BY <1>8, <1>9, <1>20 DEF RecordSignals
  <2>2. probe'[w].at = "score"
    BY <1>2, <2>1 DEF ProbeRow
  <2>3. Covered(a)'
    BY <2>1, <2>2 DEF Covered, Scoring
  <2> QED BY <1>10, <1>11, <1>12, <2>1, <2>2, <2>3 DEF Serial
<1>21. CASE ScoreCluster(w)
  <2>1. PICK kind \in Kinds :
            /\ p.at = IF kind = "invariant" THEN "score" ELSE "score differences"
            /\ \E listed \in {Score(t) \cap {kind}, {}} :
                 /\ probe' = [probe EXCEPT
                       ![w].at = IF kind = "invariant" THEN "score differences" ELSE "cluster",
                       ![w].score = @ \cup listed]
                 /\ IF listed = Score(t) \cap {kind} THEN Obeys ELSE Misses(a)
    BY <1>21 DEF ScoreCluster
  <2> DEFINE stop == IF kind = "invariant" THEN "score differences" ELSE "cluster"
             q    == [p EXCEPT !.at = stop, !.score = @ \cup (Score(t) \cap {kind})]
  <2>2. Going(q) /\ UNCHANGED <<face, changelog, recognised, alarms, cluster>>
    <3>1. PICK new : new = Score(t) \cap {kind}
      OBVIOUS
    <3>2. probe' = [probe EXCEPT
                ![w].at = IF kind = "invariant" THEN "score differences" ELSE "cluster",
                ![w].score = @ \cup new]
      BY <1>0, <2>1, <3>1
    <3>3. probe' = [probe EXCEPT ![w] = [p EXCEPT !.at = stop, !.score = @ \cup new]]
      BY <3>2
    <3>4. Going(q)
      BY <3>1, <3>3
    <3> QED BY <1>21, <3>4 DEF ScoreCluster
  <2>3. q.at = stop /\ q.service = r /\ q.score = p.score \cup (Score(t) \cap {kind})
    BY <1>2 DEF ProbeRow
  <2>4. stop # "idle" /\ stop \in Scoring /\ stop \notin {"listed", "saved", "matching"}
        /\ p.at \in Scoring /\ p.at # "saved"
    BY <2>1 DEF Scoring
  <2> HIDE DEF q
  <2>5. Busy(a)' = {w} /\ probe'[w] = q
    BY <1>5, <2>2, <2>3, <2>4
  <2>6. ASSUME NEW g \in alarms, AssetOf[g[1]] = a PROVE g[2] \in Score(t)
    <3>1. g = <<g[1], g[2]>> /\ g[1] \in Services /\ g[2] \in Kinds
      BY <2>6 DEF XTyped, XTypeOK
    <3>2. TargetOfService(g[1]) = t
      BY <1>3, <2>6 DEF TargetOfService
    <3> QED BY <2>6, <3>1, <3>2 DEF Score
  <2>7. ASSUME NEW g \in alarms, AssetOf[g[1]] = a, stop = "cluster" \/ g[2] = "invariant"
        PROVE  g[2] \in q.score
    <3>1. g[2] \in Score(t)
      BY <2>6, <2>7
    <3>2. CASE kind = g[2]
      BY <2>3, <3>1, <3>2
    <3>3. CASE kind # g[2]
      <4>1. kind = "difference" /\ g[2] = "invariant" /\ p.at = "score differences"
        <5>1. g[2] \in {"invariant", "difference"} /\ kind \in {"invariant", "difference"}
          BY <2>1, <3>1 DEF Kinds, Score
        <5>2. p.at = IF kind = "invariant" THEN "score" ELSE "score differences"
          BY <2>1
        <5>3. kind # "invariant"
          BY <2>7, <3>3, <5>1
        <5> QED BY <3>3, <5>1, <5>2, <5>3
      <4>2. g[2] \in p.score
        BY <1>4, <2>7, <4>1 DEF Covered, Serial
      <4> QED BY <2>3, <4>2
    <3> QED BY <3>2, <3>3
  <2> HIDE DEF stop
  <2>8. Covered(a)'
    BY <2>2, <2>3, <2>4, <2>5, <2>7 DEF Covered
  <2> QED BY <1>10, <1>11, <1>12, <2>2, <2>3, <2>4, <2>5, <2>8 DEF Serial
<1>22. CASE SynthesizeClusters(w)
  <2>1. /\ Busy(a)' = {} /\ p.at = "cluster"
        /\ UNCHANGED <<face, changelog, recognised, alarms>>
        /\ cluster' = [cluster EXCEPT ![a] = [status |-> "ACTIVE", score |-> p.score,
                                              endpoint |-> p.service]]
    BY <1>0, <1>6, <1>22 DEF SynthesizeClusters
  <2>2. cluster'[a].score = p.score /\ cluster'[a].status = "ACTIVE"
    BY <1>3, <2>1 DEF XTyped, Sorted
  <2>3. cluster'[a] # NoCluster
    BY <2>2 DEF NoCluster
  <2>4. Covered(a)'
    BY <1>4, <2>1, <2>2, <2>3 DEF Covered, Serial
  <2> QED BY <1>10, <1>11, <1>12, <2>1, <2>4 DEF Serial
<1> QED
  BY <1>14, <1>15, <1>16, <1>17, <1>18, <1>19, <1>20, <1>21, <1>22 DEF AnalysisStep

\* A step of an analysis leaves the other assets as they are.
LEMMA StepIsLocal ==
    ASSUME XTyped, NEW w \in Probers, AnalysisStep(w),
           NEW b \in AssetsSeen, b # Probed(w), Serial(b)
    PROVE  Serial(b)'
<1> DEFINE p == probe[w]
           r == p.service
<1>1. p.at # "idle"
  BY DEF AnalysisStep, SaveServiceObservation, SaveServiceFails, RecordServiceChange,
         SaveTechnologyObservation, InferAssetTags, IngestProbeResult, RecordSignals,
         ScoreCluster, SynthesizeClusters
<1>2. p \in ProbeRow
  BY <1>1, WorkerIsAtAnalysis DEF XTyped
<1>3. PICK a : a = Probed(w)
  OBVIOUS
<1>4. r \in Services /\ a \in AssetsSeen /\ AssetOf[r] = a
  BY <1>2, <1>3, AnalysisMoves DEF Probed
<1>5. \E q : probe' = [probe EXCEPT ![w] = q] /\ (q.at # "idle" => q.service = r)
  <2>1. \A x : [p EXCEPT !.at = x].service = r /\ [p EXCEPT !.todo = x].service = r
    BY <1>2 DEF ProbeRow
  <2>2. IdleProber.at = "idle"
    BY DEF IdleProber
  <2>3. CASE SaveServiceFails(w) \/ SynthesizeClusters(w)
    BY <2>2, <2>3 DEF SaveServiceFails, SynthesizeClusters
  <2>4. CASE RecordServiceChange(w)
    <3>1. PICK known : probe' = [probe EXCEPT ![w] = [p EXCEPT !.at = "matching", !.known = known]]
      BY <2>4 DEF RecordServiceChange
    <3>2. [p EXCEPT !.at = "matching", !.known = known].service = r
      BY <1>2 DEF ProbeRow
    <3> QED BY <3>1, <3>2
  <2>5. CASE ScoreCluster(w)
    <3>1. PICK kind, listed :
            probe' = [probe EXCEPT
                ![w].at = IF kind = "invariant" THEN "score differences" ELSE "cluster",
                ![w].score = @ \cup listed]
      BY <2>5 DEF ScoreCluster
    <3> DEFINE stop == IF kind = "invariant" THEN "score differences" ELSE "cluster"
    <3>2. probe' = [probe EXCEPT ![w] = [p EXCEPT !.at = stop, !.score = @ \cup listed]]
      BY <3>1
    <3>3. [p EXCEPT !.at = stop, !.score = @ \cup listed].service = r
      BY <1>2 DEF ProbeRow
    <3> QED BY <3>2, <3>3
  <2>6. ASSUME NEW x \in Technologies, SaveTechnologyObservation(w, x)
        PROVE  \E q : probe' = [probe EXCEPT ![w] = q] /\ (q.at # "idle" => q.service = r)
    <3>1. probe' = [probe EXCEPT ![w] = [p EXCEPT !.todo = @ \ {x}]]
      BY <2>6 DEF SaveTechnologyObservation
    <3> QED BY <2>1, <3>1
  <2>7. CASE \E stop : Goes(w, stop)
    BY <2>1, <2>7 DEF Goes
  <2> QED
    BY <2>3, <2>4, <2>5, <2>6, <2>7
       DEF AnalysisStep, SaveServiceObservation, InferAssetTags, IngestProbeResult, RecordSignals
<1>6. Busy(b)' = Busy(b) /\ \A v \in Busy(b) : probe'[v] = probe[v]
  <2>1. Busy(b) \subseteq Probers
    BY DEF Busy
  <2>2. PICK q : probe' = [probe EXCEPT ![w] = q] /\ (q.at # "idle" => q.service = r)
    BY <1>5
  <2>3. Busy(b)' = Busy(b) /\ w \notin Busy(b) /\ \A v \in Probers : v # w => probe'[v] = probe[v]
    BY <1>1, <1>3, <2>2, WorkerMoves
  <2> QED BY <2>1, <2>3
<1>7. ASSUME NEW y \in Subjects, y # ServiceSeen(r), \A x : y # TechnologySeen(a, x)
      PROVE  changelog'[y] = changelog[y]
  <2>1. \A x, prev, curr : y # x /\ changelog' = Change(x, prev, curr) => changelog'[y] = changelog[y]
    BY DEF Change, XTyped, Sorted
  <2>2. CASE RecordServiceChange(w)
    BY <1>7, <2>1, <2>2 DEF RecordServiceChange
  <2>3. ASSUME NEW x \in Technologies, SaveTechnologyObservation(w, x)
        PROVE  changelog'[y] = changelog[y]
    BY <1>3, <1>7, <2>1, <2>3 DEF SaveTechnologyObservation
  <2> QED
    BY <2>2, <2>3 DEF AnalysisStep, SaveServiceObservation, SaveServiceFails, InferAssetTags,
         IngestProbeResult, RecordSignals, ScoreCluster, SynthesizeClusters
<1>8. ASSUME NEW s \in Services, AssetOf[s] = b
      PROVE  face'[s] = face[s] /\ changelog'[ServiceSeen(s)] = changelog[ServiceSeen(s)]
  <2>1. s # r
    BY <1>3, <1>4, <1>8
  <2>2. face'[s] = face[s]
    BY <2>1 DEF AnalysisStep, SaveServiceObservation, SaveServiceFails, RecordServiceChange,
                SaveTechnologyObservation, InferAssetTags, IngestProbeResult,
                RecordSignals, ScoreCluster, SynthesizeClusters, XTyped, XTypeOK
  <2>3. ServiceSeen(s) \in Subjects /\ ServiceSeen(s) # ServiceSeen(r)
        /\ \A x : ServiceSeen(s) # TechnologySeen(a, x)
    BY <2>1 DEF Subjects, ServiceSeen, TechnologySeen
  <2> QED BY <1>7, <2>2, <2>3
<1>9. ASSUME NEW x \in Technologies
      PROVE  /\ changelog'[TechnologySeen(b, x)] = changelog[TechnologySeen(b, x)]
             /\ <<b, x>> \in recognised' <=> <<b, x>> \in recognised
  <2>1. TechnologySeen(b, x) \in Subjects /\ TechnologySeen(b, x) # ServiceSeen(r)
        /\ \A y : TechnologySeen(b, x) # TechnologySeen(a, y)
    BY <1>3 DEF Subjects, ServiceSeen, TechnologySeen
  <2>2. recognised' = recognised \/ \E y : recognised' = recognised \cup {<<a, y>>}
    BY <1>3 DEF AnalysisStep, SaveServiceObservation, SaveServiceFails, RecordServiceChange,
                SaveTechnologyObservation, InferAssetTags, IngestProbeResult,
                RecordSignals, ScoreCluster, SynthesizeClusters
  <2> QED BY <1>3, <1>7, <2>1, <2>2
<1>10. ASSUME NEW g, AssetOf[g[1]] = b PROVE g \in alarms' <=> g \in alarms
  <2>1. CASE RecordSignals(w)
    <3>1. PICK stored \in SUBSET (EvaluateInvariants(p) \cup EvaluateDifferentialBehavior(p)) :
            alarms' = alarms \cup stored
      BY <2>1 DEF RecordSignals
    <3>2. g[1] # r
      BY <1>3, <1>4, <1>10
    <3>3. g \notin EvaluateInvariants(p) \cup EvaluateDifferentialBehavior(p)
      BY <3>2 DEF EvaluateInvariants, EvaluateDifferentialBehavior
    <3> QED BY <3>1, <3>3
  <2>2. CASE ~RecordSignals(w)
    BY <2>2 DEF AnalysisStep, SaveServiceObservation, SaveServiceFails, RecordServiceChange,
                SaveTechnologyObservation, InferAssetTags, IngestProbeResult,
                ScoreCluster, SynthesizeClusters
  <2> QED BY <2>1, <2>2
<1>11. cluster'[b] = cluster[b]
  BY DEF AnalysisStep, SaveServiceObservation, SaveServiceFails, RecordServiceChange,
         SaveTechnologyObservation, InferAssetTags, IngestProbeResult,
         RecordSignals, ScoreCluster, SynthesizeClusters, XTyped, Sorted
<1> QED BY <1>6, <1>8, <1>9, <1>10, <1>11, ElsewhereSerial

\* A step of an analysis, a new analysis and what researchers do keep it all.
LEMMA NextXStrong == XStrong /\ [XNext /\ UNCHANGED pg]_<<xvars, pg>> => XStrong'
<1> SUFFICES ASSUME XStrong, [XNext]_xvars, XTyped', UNCHANGED pg PROVE XStrong'
  BY NextXTyped DEF XStrong
<1> USE DEF XStrong
<1> SUFFICES ASSUME NEW a \in AssetsSeen, a \notin overlapped' \cup faulted' PROVE Serial(a)'
  OBVIOUS
<1>1. CASE UNCHANGED xvars
  <2>1. Serial(a) /\ Busy(a)' = Busy(a)
    BY <1>1 DEF xvars, Busy, faultVars
  <2> QED BY <1>1, <2>1, ElsewhereSerial DEF xvars, Busy
<1>2. ASSUME NEW w \in Probers, AnalysisStep(w) PROVE Serial(a)'
  <2>1. overlapped' = overlapped
    BY <1>2 DEF AnalysisStep, SaveServiceObservation, SaveServiceFails, RecordServiceChange,
         SaveTechnologyObservation, InferAssetTags, IngestProbeResult, RecordSignals,
         ScoreCluster, SynthesizeClusters
  <2>2. Serial(a)
    BY <1>2, <2>1, StepFaults
  <2> QED BY <1>2, <2>2, SoleStepSerial, StepIsLocal
<1>3. ASSUME NEW w \in Probers, NEW p \in Answers, AnalyzeHTTPProbe(w, p) PROVE Serial(a)'
  <2>0. PICK prev \in {face[p.service], Unseen} :
            /\ probe' = [probe EXCEPT ![w] =
                   [at |-> "listed", service |-> p.service, face |-> p.face,
                    found |-> p.found, raised |-> p.raised, todo |-> p.found,
                    known |-> {}, prev |-> prev, score |-> {}]]
            /\ IF prev = face[p.service] THEN Obeys ELSE Misses(AssetOf[p.service])
    BY <1>3 DEF AnalyzeHTTPProbe
  <2> DEFINE q == [at |-> "listed", service |-> p.service, face |-> p.face,
                   found |-> p.found, raised |-> p.raised, todo |-> p.found,
                   known |-> {}, prev |-> prev, score |-> {}]
  <2>1. /\ probe' = [probe EXCEPT ![w] = q] /\ probe[w].at = "idle"
        /\ UNCHANGED <<face, changelog, recognised, alarms, cluster>>
        /\ overlapped' = overlapped \cup {b \in {AssetOf[p.service]} : Busy(b) # {}}
    BY <1>3, <2>0 DEF AnalyzeHTTPProbe
  <2>2. /\ q.at = "listed" /\ q.service = p.service
        /\ AssetOf[p.service] = a => q.prev = face[p.service]
    BY <2>0 DEF Misses
  <2> HIDE DEF q
  <2>3. probe'[w] = q /\ \A v \in Probers : v # w => probe'[v] = probe[v]
    BY <2>1 DEF XTyped, Sorted
  <2>4. Serial(a)
    BY <2>0, <2>1 DEF Obeys, Misses, faultVars
  <2>5. CASE AssetOf[p.service] # a
    <3>1. \A v \in Probers : v \in Busy(a)' <=> v \in Busy(a)
      BY <2>1, <2>2, <2>3, <2>5 DEF Busy
    <3>2. Busy(a) \subseteq Probers /\ Busy(a)' \subseteq Probers /\ w \notin Busy(a)
      BY <2>1 DEF Busy
    <3>3. Busy(a)' = Busy(a) /\ \A v \in Busy(a) : probe'[v] = probe[v]
      BY <2>3, <3>1, <3>2
    <3> QED BY <2>1, <2>4, <3>3, ElsewhereSerial
  <2>6. CASE AssetOf[p.service] = a
    <3>1. Busy(a) = {}
      BY <2>1, <2>6
    <3>2. \A v \in Probers : v \in Busy(a)' <=> v = w
      BY <2>2, <2>3, <2>6, <3>1 DEF Busy
    <3>3. Busy(a)' = {w}
      BY <3>2 DEF Busy
    <3>4. AtMostOne(a)' /\ Covered(a)'
      BY <2>1, <2>2, <2>3, <2>4, <3>1, <3>3 DEF Serial, AtMostOne, Covered
    <3>5. ASSUME NEW x \in Technologies PROVE Announced(a, x)'
      BY <2>1, <2>2, <2>3, <2>4, <3>1, <3>3 DEF Serial, Announced
    <3>6. ASSUME NEW s \in Services, AssetOf[s] = a PROVE Told(s)'
      <4>1. Told(s) /\ ~Halfway(s)
        BY <2>4, <3>1, <3>6 DEF Serial, Halfway
      <4>2. ~Halfway(s)'
        BY <2>2, <2>3, <3>3, <3>6 DEF Halfway
      <4> QED BY <2>1, <2>2, <2>3, <3>3, <3>6, <4>1, <4>2 DEF Told
    <3> QED BY <3>4, <3>5, <3>6 DEF Serial
  <2> QED BY <2>5, <2>6
<1>4. ASSUME NEW b \in AssetsSeen,
             AddAssetTag(b) \/ RemoveAssetTag(b)
             \/ \E st \in Decisions : UpdateClusterStatus(b, st)
      PROVE  Serial(a)'
  <2>1. UNCHANGED <<face, changelog, recognised, alarms, probe, overlapped, faulted>>
    BY <1>4 DEF AddAssetTag, RemoveAssetTag, UpdateClusterStatus, faultVars
  <2>2. \/ cluster'[a] = cluster[a]
        \/ /\ cluster[a] # NoCluster /\ cluster'[a] # NoCluster
           /\ cluster'[a].score = cluster[a].score
    <3>1. CASE cluster' = cluster
      BY <3>1
    <3>2. ASSUME NEW st \in Decisions, UpdateClusterStatus(b, st), a = b
          PROVE  /\ cluster[a] # NoCluster /\ cluster'[a] # NoCluster
                 /\ cluster'[a].score = cluster[a].score
      <4>1. cluster[a] \in ClusterRow /\ cluster'[a] = [cluster[a] EXCEPT !.status = st]
        BY <3>2 DEF UpdateClusterStatus, XTyped, Sorted
      <4>2. cluster'[a] \in ClusterRow /\ cluster'[a].score = cluster[a].score
        BY <4>1 DEF ClusterRow
      <4>3. \A c \in ClusterRow : c # NoCluster
        <5>1. DOMAIN NoCluster = {"status"}
          BY DEF NoCluster
        <5>2. \A c \in ClusterRow : "score" \in DOMAIN c
          BY DEF ClusterRow
        <5> QED BY <5>1, <5>2
      <4> QED BY <4>1, <4>2, <4>3
    <3>3. ASSUME NEW st \in Decisions, UpdateClusterStatus(b, st), a # b
          PROVE  cluster'[a] = cluster[a]
      BY <3>3 DEF UpdateClusterStatus, XTyped, Sorted
    <3> QED BY <1>4, <3>1, <3>2, <3>3 DEF AddAssetTag, RemoveAssetTag
  <2>3. Serial(a) /\ Busy(a)' = Busy(a)
    BY <2>1 DEF Busy
  <2> QED BY <2>1, <2>2, <2>3, ElsewhereSerial
<1> QED BY <1>1, <1>2, <1>3, <1>4 DEF XNext

\* As long as no two analyses of an asset overlapped and none of them missed a
\* row, a change or a cluster that PostgreSQL refused, the change log of each of
\* its services chains up to the stored observation, each of its technologies
\* was announced once, and the score of its cluster counts its signals: for any
\* number of workers and refused statements, and however the analyses of other
\* assets interleave.
THEOREM SerialProbesAlwaysAgree == XSpec => []SerialProbesAgree
<1>1. XStrong => SerialProbesAgree
  <2> SUFFICES ASSUME XStrong PROVE SerialProbesAgree
    OBVIOUS
  <2>1. SerialChangesChain
    <3> SUFFICES ASSUME NEW s \in Services, Undisturbed(AssetOf[s])
                 PROVE  /\ Chains(changelog[ServiceSeen(s)])
                        /\ LastOf(changelog[ServiceSeen(s)]) = face[s]
                        /\ \A x \in Technologies :
                             Len(changelog[TechnologySeen(AssetOf[s], x)]) =
                               IF <<AssetOf[s], x>> \in recognised THEN 1 ELSE 0
      BY DEF SerialChangesChain
    <3>1. Serial(AssetOf[s])
      BY ServicesAssumption DEF XStrong, AssetsSeen, Undisturbed
    <3>2. Told(s) /\ \A x \in Technologies : Announced(AssetOf[s], x)
      BY <3>1 DEF Serial
    <3> QED BY <3>2 DEF Told, Halfway, Announced, Undisturbed
  <2>2. SerialScoresCountSignals
    BY DEF XStrong, Serial, Covered, SerialScoresCountSignals, Undisturbed
  <2> QED BY <2>1, <2>2 DEF SerialProbesAgree
<1> QED BY <1>1, InitXStrong, NextXStrong, PTL DEF XSpec
=============================================================================
