------------------------------ MODULE Analysis ------------------------------
(***************************************************************************)
(* AI analysis: a request opens a run for an asset, gathers what is known  *)
(* of it, asks the analysis engine, saves its signals and candidates one   *)
(* by one and closes the run.  Errors of the store are logged or ignored;  *)
(* in PostgreSQL each statement may fail, all of them once the client that *)
(* asked is gone.  Events are left to the module EventBus.                 *)
(***************************************************************************)
EXTENDS Storage, Naturals, FiniteSets

CONSTANTS Analysts,     \* requests under way at the same time
          Assets,       \* the assets of the target
          MaxRuns,      \* bound: how many runs are opened
          MaxFound      \* bound: candidates the engine makes of one asset

ASSUME AnalysisAssumption == MaxRuns \in Nat /\ MaxFound \in Nat

VARIABLES
    aruns,       \* aruns[k]: the row of run k
    cands,       \* the stored candidates, <<run, number>>, with their state
    signals,     \* the stored signals, with their run
    areq,        \* areq[c]: the request c is serving
    opened       \* how many runs were opened

avars == <<aruns, cands, signals, areq, opened>>

CandidateState == {"CANDIDATE", "VALIDATED", "REJECTED"}
NoRun == [status |-> "none"]
Running(a) == [status |-> "RUNNING", asset |-> a, candidates |-> 0]
IdleAnalyst == [at |-> "idle"]
\* Between two assets of a request.
Between(todo) == IF todo = {} THEN IdleAnalyst ELSE [at |-> "open", todo |-> todo]

AInit ==
    /\ aruns = [k \in 1 .. MaxRuns |-> NoRun]
    /\ cands = {}
    /\ signals = {}
    /\ areq = [c \in Analysts |-> IdleAnalyst]
    /\ opened = 0

\* The state of candidate i of run k; a candidate that is not stored has none.
Stored(k, i) == \E cd \in cands : cd.run = k /\ cd.number = i
CandidatesOf(k) == {cd \in cands : cd.run = k}

-----------------------------------------------------------------------------
\* POST /api/analyze for one asset, or AnalyzeTarget for those listed.
TriggerAnalysis(c, todo) ==
    /\ areq[c] = IdleAnalyst /\ todo # {}
    /\ areq' = [areq EXCEPT ![c] = [at |-> "open", todo |-> todo]]
    /\ UNCHANGED <<aruns, cands, signals, opened>>

\* AnalyzeAsset: the run is saved as RUNNING; if that fails the analysis goes
\* on without its row.
OpenRun(c, a) ==
    LET k == opened + 1 IN
    /\ areq[c].at = "open" /\ a \in areq[c].todo
    /\ opened < MaxRuns
    /\ opened' = k
    /\ \/ aruns' = [aruns EXCEPT ![k] = Running(a)]
       \/ pg /\ UNCHANGED aruns
    /\ areq' = [areq EXCEPT ![c] = [at |-> "evidence", run |-> k, asset |-> a,
                                    todo |-> areq[c].todo \ {a}]]
    /\ UNCHANGED <<cands, signals>>

\* UpdateAnalysisRun, whose error is ignored.  In memory a run that was never
\* saved is not found; PostgreSQL inserts it.
Closed(c, status, n) ==
    LET q == areq[c] IN
    [aruns EXCEPT ![q.run] =
        IF @ = NoRun /\ ~pg THEN @ ELSE [status |-> status, asset |-> q.asset, candidates |-> n]]

\* Mutant: an analysis that fails leaves its run as it is.
RunAfterFailureOpen(c) == aruns

RunAfterFailure(c) == Closed(c, "FAILED", 0)

\* The evidence cannot be compiled, or the engine does not answer, answers an
\* error or something that does not parse: the run is marked FAILED, and the
\* next asset is taken.
AnalysisFails(c) ==
    /\ areq[c].at \in {"evidence", "engine"}
    /\ \/ aruns' = RunAfterFailure(c)
       \/ pg /\ UNCHANGED aruns
    /\ areq' = [areq EXCEPT ![c] = Between(areq[c].todo)]
    /\ UNCHANGED <<cands, signals, opened>>

\* BuildStructuredEvidence.
CompileEvidence(c) ==
    /\ areq[c].at = "evidence"
    /\ areq' = [areq EXCEPT ![c].at = "engine"]
    /\ UNCHANGED <<aruns, cands, signals, opened>>

\* The engine answers with a signal, whose id depends on the asset only, and
\* with n candidates, whose ids are new every time.
EngineAnswers(c, n) ==
    /\ areq[c].at = "engine"
    /\ areq' = [areq EXCEPT ![c] = [at |-> "signal", run |-> areq[c].run, asset |-> areq[c].asset,
                                    todo |-> areq[c].todo, found |-> n, next |-> 1]]
    /\ UNCHANGED <<aruns, cands, signals, opened>>

\* Rows of PostgreSQL that refer to a run need it.
Refers(k) == pg => aruns[k] # NoRun

\* In memory signals pile up; PostgreSQL keeps the first with an id.
SaveSecuritySignal(c) ==
    LET q == areq[c]
        s == [run |-> q.run, asset |-> q.asset]
    IN  /\ q.at = "signal"
        /\ \/ /\ Refers(q.run)
              /\ signals' = IF pg /\ \E o \in signals : o.asset = q.asset THEN signals
                            ELSE signals \cup {s}
           \/ pg /\ UNCHANGED signals
        /\ areq' = [areq EXCEPT ![c].at = "candidates"]
        /\ UNCHANGED <<aruns, cands, opened>>

\* One candidate, in the state CANDIDATE; one that cannot be saved is skipped.
SaveFindingCandidate(c) ==
    LET q == areq[c] IN
    /\ q.at = "candidates" /\ q.next <= q.found
    /\ \/ /\ Refers(q.run)
          /\ cands' = cands \cup {[run |-> q.run, number |-> q.next, state |-> "CANDIDATE"]}
       \/ pg /\ UNCHANGED cands
    /\ areq' = [areq EXCEPT ![c].next = @ + 1]
    /\ UNCHANGED <<aruns, signals, opened>>

\* The run is marked COMPLETED, with the number of candidates of the answer.
CloseRun(c) ==
    LET q == areq[c] IN
    /\ q.at = "candidates" /\ q.next > q.found
    /\ \/ aruns' = Closed(c, "COMPLETED", q.found)
       \/ pg /\ UNCHANGED aruns
    /\ areq' = [areq EXCEPT ![c] = Between(q.todo)]
    /\ UNCHANGED <<cands, signals, opened>>

\* PATCH /api/candidates/{id}/state: any state, from any state.  PostgreSQL
\* refuses the statement, which uses one parameter as varchar and as text.
UpdateCandidateState(k, i, state) ==
    /\ ~pg /\ Stored(k, i)
    /\ cands' = {IF cd.run = k /\ cd.number = i THEN [cd EXCEPT !.state = state] ELSE cd : cd \in cands}
    /\ UNCHANGED <<aruns, signals, areq, opened>>

ANext ==
    /\ \/ \E c \in Analysts :
            \/ \E todo \in SUBSET Assets : TriggerAnalysis(c, todo)
            \/ \E a \in Assets : OpenRun(c, a)
            \/ CompileEvidence(c) \/ AnalysisFails(c)
            \/ \E n \in 0 .. MaxFound : EngineAnswers(c, n)
            \/ SaveSecuritySignal(c) \/ SaveFindingCandidate(c) \/ CloseRun(c)
       \/ \E k \in 1 .. MaxRuns, i \in 1 .. MaxFound, state \in CandidateState :
            UpdateCandidateState(k, i, state)
    /\ UNCHANGED pg

ASpec == StorageInit /\ AInit /\ [][ANext]_<<pg, avars>>

-----------------------------------------------------------------------------
ATypeOK ==
    /\ \A k \in 1 .. MaxRuns :
         /\ aruns[k].status \in {"none", "RUNNING", "COMPLETED", "FAILED"}
         /\ aruns[k] # NoRun => aruns[k].asset \in Assets /\ aruns[k].candidates \in 0 .. MaxFound
    /\ cands \subseteq [run : 1 .. MaxRuns, number : 1 .. MaxFound, state : CandidateState]
    /\ signals \subseteq [run : 1 .. MaxRuns, asset : Assets]
    /\ \A c \in Analysts : areq[c].at \in {"idle", "open", "evidence", "engine", "signal", "candidates"}
    /\ opened \in 0 .. MaxRuns

\* Some request is still working on run k.
UnderWay(k) == \E c \in Analysts : areq[c].at \notin {"idle", "open"} /\ areq[c].run = k

\* In memory a run that nobody works on any more is settled and tells the
\* truth: FAILED without candidates, or COMPLETED with as many candidates as
\* are stored for it, whatever was asked at the same time and whatever
\* researchers decided about them.  (In PostgreSQL a run may stay RUNNING, or
\* count candidates that were never stored.)
InMemoryRunsSettle ==
    ~pg => \A k \in 1 .. opened : ~UnderWay(k) =>
        \/ aruns[k].status = "FAILED" /\ CandidatesOf(k) = {}
        \/ aruns[k].status = "COMPLETED" /\ Cardinality(CandidatesOf(k)) = aruns[k].candidates
=============================================================================
