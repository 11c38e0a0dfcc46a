---------------------------- MODULE Intelligence ----------------------------
(***************************************************************************)
(* What a live HTTP probe leaves behind: the observation of its service    *)
(* and the change from the previous one, technologies, headers, tags, the  *)
(* graph of the target, signals, and the cluster that scores them.  The    *)
(* workers of the HTTP stage, of one scan or of several, analyse probes    *)
(* side by side and each step is a call of the store on its own.  Errors   *)
(* are ignored but that of the first save: PostgreSQL may refuse any       *)
(* statement, as it does once the scan was cancelled, and the analysis     *)
(* goes on.  Page assets, response times and the wording of records are    *)
(* left out; an event is EventBus's.  An asset has two services at most    *)
(* and few technologies, so that the limits of the lists are not reached.  *)
(***************************************************************************)
EXTENDS Storage, Naturals, Sequences, FiniteSets

CONSTANTS Services,      \* the services that answer, by URL
          AssetOf,       \* the asset each belongs to
          OwnerOf,       \* the target of each asset
          Technologies,  \* what the fingerprints can recognise
          Faces,         \* the status, title, server and TLS of a response
          Decisions,     \* the statuses researchers give a cluster
          Answers,       \* the probes: service, face, found technologies, raised signals
          Probers,       \* the workers with a probe at hand
          MaxProbes,     \* bound: how many probes are analysed
          MaxFaults      \* bound: how many statements PostgreSQL refuses

ASSUME ServicesAssumption ==
    /\ AssetOf \in [Services -> DOMAIN OwnerOf] /\ MaxProbes \in Nat /\ MaxFaults \in Nat
    /\ Answers \subseteq [service : Services, face : Faces, found : SUBSET Technologies,
                          raised : SUBSET {"invariant", "difference"}]
    /\ "none" \notin {OwnerOf[a] : a \in DOMAIN OwnerOf}

VARIABLES
    face,        \* face[s]: the stored observation of s
    changelog,   \* changelog[x]: the stored changes of x, in order
    recognised,  \* the stored technologies, <<asset, technology>>
    headers,     \* headers[a]: the response a's header observations tell of
    tag,         \* tag[a]: the tag a's hostname suggests, and who put it
    node,        \* node[n]: the target the graph node n is stored for
    edges,       \* the stored edges
    alarms,      \* the invariants and differences stored, <<service, kind>>
    cluster,     \* cluster[a]: the cluster of asset a
    probe,       \* probe[w]: the analysis w is at
    overlapped,  \* the assets two analyses ran on at the same time
    faulted,     \* the assets whose analysis missed a row, a change or a cluster
    faults,      \* how many statements were refused
    probed       \* how many probes were analysed

xvars == <<face, changelog, recognised, headers, tag, node, edges, alarms, cluster,
           probe, overlapped, faulted, faults, probed>>
faultVars == <<faulted, faults>>
graphVars == <<node, edges>>

AssetsSeen == DOMAIN OwnerOf
Owners     == {OwnerOf[a] : a \in AssetsSeen}
TargetOfService(s) == OwnerOf[AssetOf[s]]
Unseen     == "none"
IdleProber == [at |-> "idle"]
Kinds      == {"invariant", "difference"}
NoCluster  == [status |-> "absent"]
NodeIds == ({"target"} \X Owners) \cup ({"host"} \X AssetsSeen)
             \cup ({"service"} \X Services) \cup ({"technology"} \X Technologies)
\* What a change is about: an observed service, or a technology of an asset.
ServiceSeen(s) == <<"service", s>>
TechnologySeen(a, x) == <<"technology", a, x>>
Subjects == {ServiceSeen(s) : s \in Services}
              \cup {TechnologySeen(a, x) : a \in AssetsSeen, x \in Technologies}
Busy(a) == {w \in Probers : probe[w].at # "idle" /\ AssetOf[probe[w].service] = a}
Probed(w) == AssetOf[probe[w].service]
Goes(w, where) == probe' = [probe EXCEPT ![w].at = where]

XInit ==
    /\ face = [s \in Services |-> Unseen]
    /\ changelog = [x \in Subjects |-> <<>>]
    /\ recognised = {}
    /\ headers = [a \in AssetsSeen |-> Unseen]
    /\ tag = [a \in AssetsSeen |-> "absent"]
    /\ node = [n \in NodeIds |-> Unseen]
    /\ edges = {}
    /\ alarms = {}
    /\ cluster = [a \in AssetsSeen |-> NoCluster]
    /\ probe = [w \in Probers |-> IdleProber]
    /\ overlapped = {}
    /\ faulted = {} /\ faults = 0
    /\ probed = 0

-----------------------------------------------------------------------------
\* PostgreSQL refuses n statements of an analysis of a.
Refused(n) == pg /\ n \in 1 .. MaxFaults - faults /\ faults' = faults + n
Misses(a) == Refused(1) /\ faulted' = faulted \cup {a}
Obeys == UNCHANGED faultVars

\* AnalyzeHTTPProbe starts: the services stored for the asset are listed and
\* the one of this identity is kept as the previous observation, none if there
\* is no list.
AnalyzeHTTPProbe(w, p) ==
    /\ probe[w].at = "idle" /\ probed < MaxProbes
    /\ probed' = probed + 1
    /\ \E prev \in {face[p.service], Unseen} :
         /\ probe' = [probe EXCEPT ![w] =
                [at |-> "listed", service |-> p.service, face |-> p.face,
                 found |-> p.found, raised |-> p.raised, todo |-> p.found,
                 known |-> {}, prev |-> prev, score |-> {}]]
         /\ IF prev = face[p.service] THEN Obeys ELSE Misses(AssetOf[p.service])
    /\ overlapped' = overlapped \cup {a \in {AssetOf[p.service]} : Busy(a) # {}}
    /\ UNCHANGED <<face, changelog, recognised, headers, tag, graphVars, alarms, cluster>>

\* The observation replaces that of the same asset and identity.
SaveServiceObservation(w) ==
    /\ probe[w].at = "listed"
    /\ face' = [face EXCEPT ![probe[w].service] = probe[w].face]
    /\ Goes(w, "saved")
    /\ Obeys
    /\ UNCHANGED <<changelog, recognised, headers, tag, graphVars, alarms, cluster,
                   overlapped, probed>>

\* Without an answer to that the analysis ends there; the row may be written.
SaveServiceFails(w) ==
    /\ probe[w].at = "listed"
    /\ \/ Refused(1) /\ UNCHANGED <<face, faulted>>
       \/ Misses(Probed(w)) /\ face' = [face EXCEPT ![probe[w].service] = probe[w].face]
    /\ probe' = [probe EXCEPT ![w] = IdleProber]
    /\ UNCHANGED <<changelog, recognised, headers, tag, graphVars, alarms, cluster,
                   overlapped, probed>>

\* Mutant: only a service seen before can change.
DetectServiceChangesSeenOnly(prev, curr) == prev # Unseen /\ prev # curr

\* A service never seen before is a change too.
DetectServiceChanges(prev, curr) == prev = Unseen \/ prev # curr

Change(x, prev, curr) ==
    [changelog EXCEPT ![x] = Append(@, [prev |-> prev, curr |-> curr])]

\* The change is recorded, if it can be, and the technologies of the asset are
\* listed.
RecordServiceChange(w) ==
    LET p == probe[w] IN
    /\ p.at = "saved"
    /\ IF DetectServiceChanges(p.prev, p.face)
         THEN \/ Obeys /\ changelog' = Change(ServiceSeen(p.service), p.prev, p.face)
              \/ Misses(Probed(w)) /\ UNCHANGED changelog
         ELSE Obeys /\ UNCHANGED changelog
    /\ probe' = [probe EXCEPT ![w].at = "matching",
                   ![w].known = {x \in Technologies : <<Probed(w), x>> \in recognised}]
    /\ UNCHANGED <<face, recognised, headers, tag, graphVars, alarms, cluster,
                   overlapped, probed>>

\* The rows of technologies and of headers name the service observation, but
\* PostgreSQL wants the id of an http_services row there: it refuses them all.
ServiceRowKnown == ~pg

\* One technology, in any order: a new name is announced if it was saved.
SaveTechnologyObservation(w, x) ==
    LET p == probe[w] IN
    /\ p.at = "matching" /\ x \in p.todo
    /\ probe' = [probe EXCEPT ![w].todo = @ \ {x}]
    /\ IF ServiceRowKnown
         THEN /\ recognised' = recognised \cup {<<Probed(w), x>>}
              /\ changelog' = IF x \in p.known THEN changelog
                                ELSE Change(TechnologySeen(Probed(w), x), Unseen, x)
         ELSE UNCHANGED <<recognised, changelog>>
    /\ Obeys
    /\ UNCHANGED <<face, headers, tag, graphVars, alarms, cluster, overlapped, probed>>

\* EvaluateSecurityObservations: one row of each property of the asset.
EvaluateSecurityObservations(w) ==
    headers' = IF ServiceRowKnown THEN [headers EXCEPT ![Probed(w)] = probe[w].face] ELSE headers

\* AddAssetTag keeps a tag that is there, whoever put it.
Tagged(a, by) == [tag EXCEPT ![a] = IF @ = "absent" THEN by ELSE @]

\* The headers, then the tags the hostname and the port suggest.
InferAssetTags(w) ==
    /\ probe[w].at = "matching" /\ probe[w].todo = {}
    /\ EvaluateSecurityObservations(w)
    /\ \/ Obeys /\ tag' = Tagged(Probed(w), "system:inferred")
       \/ Refused(1) /\ UNCHANGED <<tag, faulted>>
    /\ Goes(w, "graph")
    /\ UNCHANGED <<face, changelog, recognised, graphVars, alarms, cluster, overlapped, probed>>

-----------------------------------------------------------------------------
\* The ids of host and technology nodes do not name the target.  In memory
\* a node belongs to the target that saved it last, in PostgreSQL to the first.
SaveGraphNodes(t, ns) ==
    node' = [n \in NodeIds |-> IF n \in ns /\ ~(pg /\ node[n] # Unseen) THEN t ELSE node[n]]

Edge(t, from, to) == [target |-> t, from |-> from, to |-> to]

\* PostgreSQL takes an edge only between nodes it has.
SaveGraphEdges(es) == edges' = edges \cup {e \in es : Unseen \notin {node'[e.from], node'[e.to]}}

\* IngestProbeResult, the graph: target, host, service and technologies.
IngestProbeResult(w) ==
    LET p == probe[w]
        t == TargetOfService(p.service)
        target  == <<"target", t>>
        host    == <<"host", Probed(w)>>
        service == <<"service", p.service>>
        techs   == {<<"technology", x>> : x \in p.found}
        ns == {target, host, service} \cup techs
        es == {Edge(t, target, host), Edge(t, host, service)} \cup {Edge(t, service, x) : x \in techs}
    IN
    /\ p.at = "graph"
    /\ \/ Obeys /\ SaveGraphNodes(t, ns) /\ SaveGraphEdges(es)
       \/ \E n \in SUBSET ns, e \in SUBSET es :
            /\ Refused(Cardinality(n) + Cardinality(e)) /\ UNCHANGED faulted
            /\ SaveGraphNodes(t, ns \ n) /\ SaveGraphEdges(es \ e)
    /\ Goes(w, "signals")
    /\ UNCHANGED <<face, changelog, recognised, headers, tag, alarms, cluster,
                   overlapped, probed>>

\* EvaluateInvariants: an open CORS header, a diagnostics page, HTTPS without HSTS.
EvaluateInvariants(p) == {<<p.service, k>> : k \in p.raised \cap {"invariant"}}

\* EvaluateDifferentialBehavior: any CORS header at all.
EvaluateDifferentialBehavior(p) == {<<p.service, k>> : k \in p.raised \cap {"difference"}}

RecordSignals(w) ==
    LET raised == EvaluateInvariants(probe[w]) \cup EvaluateDifferentialBehavior(probe[w]) IN
    /\ probe[w].at = "signals"
    /\ \E stored \in SUBSET raised :
         /\ alarms' = alarms \cup stored
         /\ IF stored = raised THEN Obeys
            ELSE Refused(Cardinality(raised \ stored)) /\ UNCHANGED faulted
    /\ Goes(w, "score")
    /\ UNCHANGED <<face, changelog, recognised, headers, tag, graphVars, cluster,
                   overlapped, probed>>

\* The compound score of a cluster goes up with each kind stored for the target.
Score(t) == {k \in Kinds : \E s \in Services : TargetOfService(s) = t /\ <<s, k>> \in alarms}

\* The two lists are read one after the other; an error leaves one empty.
ScoreCluster(w) ==
    \E kind \in Kinds :
        LET stored == Score(TargetOfService(probe[w].service)) \cap {kind} IN
        /\ probe[w].at = IF kind = "invariant" THEN "score" ELSE "score differences"
        /\ \E listed \in {stored, {}} :
             /\ probe' = [probe EXCEPT
                   ![w].at = IF kind = "invariant" THEN "score differences" ELSE "cluster",
                   ![w].score = @ \cup listed]
             /\ IF listed = stored THEN Obeys ELSE Misses(Probed(w))
        /\ UNCHANGED <<face, changelog, recognised, headers, tag, graphVars, alarms, cluster,
                       overlapped, probed>>

\* The id of a cluster is cut to 20 characters, which leaves the start of the
\* asset's id only: the services of an asset share one cluster.  Saving it, if
\* it can be, sets its status to ACTIVE again, whatever a researcher had decided.
SynthesizeClusters(w) ==
    /\ probe[w].at = "cluster"
    /\ \/ /\ Obeys
          /\ cluster' = [cluster EXCEPT ![Probed(w)] =
                [status |-> "ACTIVE", score |-> probe[w].score, endpoint |-> probe[w].service]]
       \/ Misses(Probed(w)) /\ UNCHANGED cluster
    /\ probe' = [probe EXCEPT ![w] = IdleProber]
    /\ UNCHANGED <<face, changelog, recognised, headers, tag, graphVars, alarms,
                   overlapped, probed>>

-----------------------------------------------------------------------------
\* PATCH /api/investigation-clusters/{id}/status takes any status.
UpdateClusterStatus(a, status) ==
    /\ cluster[a] # NoCluster
    /\ cluster' = [cluster EXCEPT ![a].status = status]
    /\ UNCHANGED <<face, changelog, recognised, headers, tag, graphVars, alarms, probe,
                   overlapped, faultVars, probed>>

AddAssetTag(a) ==
    /\ tag' = Tagged(a, "user:manual")
    /\ UNCHANGED <<face, changelog, recognised, headers, graphVars, alarms, cluster, probe,
                   overlapped, faultVars, probed>>

RemoveAssetTag(a) ==
    /\ tag[a] # "absent"
    /\ tag' = [tag EXCEPT ![a] = "absent"]
    /\ UNCHANGED <<face, changelog, recognised, headers, graphVars, alarms, cluster, probe,
                   overlapped, faultVars, probed>>

AnalysisStep(w) ==
    \/ SaveServiceObservation(w) \/ SaveServiceFails(w) \/ RecordServiceChange(w)
    \/ \E x \in Technologies : SaveTechnologyObservation(w, x)
    \/ InferAssetTags(w) \/ IngestProbeResult(w) \/ RecordSignals(w)
    \/ ScoreCluster(w) \/ SynthesizeClusters(w)

XNext ==
    \/ \E w \in Probers :
         \/ AnalysisStep(w)
         \/ \E p \in Answers : AnalyzeHTTPProbe(w, p)
    \/ \E a \in AssetsSeen : \/ AddAssetTag(a) \/ RemoveAssetTag(a)
                             \/ \E st \in Decisions : UpdateClusterStatus(a, st)

XSpec == XInit /\ StorageInit /\ [][XNext /\ UNCHANGED pg]_<<xvars, pg>>

-----------------------------------------------------------------------------
(* The type invariant; the store in memory refuses nothing. *)
FaultsOK == /\ faulted \subseteq AssetsSeen /\ faults \in 0 .. MaxFaults
            /\ pg \/ faulted = {}

XTypeOK ==
    /\ face \in [Services -> Faces \cup {Unseen}]
    /\ recognised \subseteq AssetsSeen \X Technologies
    /\ FaultsOK
    /\ node \in [NodeIds -> Owners \cup {Unseen}]
    /\ \A e \in edges : e.target \in Owners /\ {e.from, e.to} \subseteq NodeIds
    /\ \A e \in edges : node[e.from] # Unseen /\ node[e.to] # Unseen
    /\ alarms \subseteq Services \X Kinds
    /\ \A a \in AssetsSeen : cluster[a].status \in Decisions \cup {"ACTIVE", "absent"}
    /\ tag \in [AssetsSeen -> {"absent", "system:inferred", "user:manual"}]

Chains(cs)   == \A i \in 1 .. Len(cs) : cs[i].prev = IF i = 1 THEN Unseen ELSE cs[i-1].curr
LastOf(cs)   == IF cs = <<>> THEN Unseen ELSE cs[Len(cs)].curr

\* The analyses of an asset came one after the other, none is under way, and
\* none missed a row, a change or a cluster that PostgreSQL refused.
Undisturbed(a) == Busy(a) = {} /\ a \notin overlapped \cup faulted

\* The changes recorded of a service start from nothing, each starts where the
\* one before it ended, and the last ends at the observation that is stored;
\* and every technology that is stored was announced exactly once.
SerialChangesChain ==
    \A s \in Services :
        LET a == AssetOf[s] IN
        Undisturbed(a) =>
            /\ Chains(changelog[ServiceSeen(s)]) /\ LastOf(changelog[ServiceSeen(s)]) = face[s]
            /\ \A x \in Technologies :
                 Len(changelog[TechnologySeen(a, x)]) = IF <<a, x>> \in recognised THEN 1 ELSE 0

\* The score of an asset's cluster counts every kind of signal stored for the
\* asset's services.
SerialScoresCountSignals ==
    \A a \in AssetsSeen :
        Undisturbed(a) =>
            \A sig \in alarms : AssetOf[sig[1]] = a =>
                cluster[a] # NoCluster /\ sig[2] \in cluster[a].score

\* What analyses of an asset leave behind, one after the other, is consistent:
\* in its change log and in its score.
SerialProbesAgree == SerialChangesChain /\ SerialScoresCountSignals
=============================================================================
