----------------------------- MODULE Hypotheses -----------------------------
(***************************************************************************)
(* Signals and hypotheses of one target: the reasoning cycle that writes   *)
(* them, the requests that create them and change their status, and the    *)
(* gate in front of SUPPORTED.  Every statement of PostgreSQL is a step of *)
(* its own and may fail; the store in memory does a save under one lock.   *)
(***************************************************************************)
EXTENDS Storage, Integers, FiniteSets, SequencesExt

CONSTANTS Clients,      \* requests under way at the same time
          Clues,        \* evidence that one of the detectors reacts to
          Theories,     \* generated with a PENDING condition and a requirement
          Baselines,    \* generated as UNKNOWN, without evidence
          Bodies,       \* statuses a create request names (a bound)
          MaxRequests   \* bound: how many requests are made

ASSUME HypothesesAssumption ==
    /\ IsFiniteSet(Clues) /\ IsFiniteSet(Theories) /\ IsFiniteSet(Baselines)
    /\ MaxRequests \in Nat

VARIABLES
    hyp,      \* hyp[h]: the row of h
    owed,     \* owed[h]: "condition" if one of h is PENDING, "requirement" if h has one
    sig,      \* sig[e]: the status of the signal made from e
    group,    \* the group of the hypotheses is stored
    fit,      \* fit[e]: whether e is stored, and would pass the gate
    hreq,     \* hreq[c]: the request c is serving
    asked     \* how many requests were made

hvars == <<hyp, owed, sig, group, fit, hreq, asked>>

Hyps == Theories \cup Baselines
HypothesisStatus == {"HYPOTHESIZED", "INVESTIGATING", "SUPPORTED", "REJECTED",
                     "FALSIFIED", "DISMISSED", "UNKNOWN"}
SignalStatus == {"OPEN", "CORRELATED", "DISMISSED", "SUPERSEDED"}
Owable == {"condition", "requirement"}
\* What a hypothesis brings along: nothing, what is to be tested, or a
\* condition with a result.
Brought == {{}, Owable, {"settled"}}

NoRow == [status |-> "none"]
NoRequest == [at |-> "idle"]
StatusPlaces == {"list", "list requirements", "gate", "write"}
Rows == [status : HypothesisStatus \cup Bodies, ev : SUBSET Clues]

HypothesisSteps ==
    {<<"HYPOTHESIZED", "INVESTIGATING">>, <<"HYPOTHESIZED", "DISMISSED">>,
     <<"DISMISSED", "HYPOTHESIZED">>}
    \cup {"INVESTIGATING"} \X {"SUPPORTED", "FALSIFIED", "UNKNOWN", "DISMISSED"}
    \cup {"SUPPORTED", "FALSIFIED", "UNKNOWN"} \X {"INVESTIGATING", "DISMISSED"}

SignalSteps ==
    {<<"OPEN", "CORRELATED">>, <<"OPEN", "DISMISSED">>, <<"CORRELATED", "SUPERSEDED">>,
     <<"CORRELATED", "DISMISSED">>, <<"SUPERSEDED", "OPEN">>, <<"DISMISSED", "OPEN">>}

Legal(steps, from, to) == from = to \/ <<from, to>> \in steps

HInit ==
    /\ hyp = [h \in Hyps |-> NoRow]
    /\ owed = [h \in Hyps |-> {}]
    /\ sig = [e \in Clues |-> "none"]
    /\ group = FALSE
    /\ fit \in [Clues -> {"none", "fit"}]
    /\ hreq = [c \in Clients |-> NoRequest]
    /\ asked = 0

Ask(c, r) == /\ hreq[c] = NoRequest
             /\ asked < MaxRequests
             /\ asked' = asked + 1
             /\ hreq' = [hreq EXCEPT ![c] = r]
Answer(c) == hreq' = [hreq EXCEPT ![c] = NoRequest]
On(c, at) == hreq' = [hreq EXCEPT ![c].at = at]

-----------------------------------------------------------------------------
\* The statements that save the hypotheses hs, in some order.  In memory a row
\* brings its conditions and requirements along; PostgreSQL gets them one by
\* one after the row.
HypothesisStatements(hs, row, brings) ==
    LET order == SetToSeq(hs)
        ops == IF ~pg \/ brings = {} THEN <<"row">>
               ELSE IF brings = Owable THEN <<"row", "condition", "requirement">>
               ELSE <<"row", "settled">>
    IN  [i \in 1 .. Len(order) * Len(ops) |->
            [op |-> ops[1 + ((i - 1) % Len(ops))], of |-> order[1 + ((i - 1) \div Len(ops))],
             row |-> row, brings |-> brings]]

\* What is left of a save when its first statement fails: a group takes its
\* hypotheses with it, a row what it brings along; other errors are ignored.
AfterFailure(todo) ==
    CASE todo[1].op = "group" -> <<>>
      [] todo[1].op = "row" -> SubSeq(todo, 2 + Cardinality(todo[1].brings), Len(todo))
      [] OTHER -> Tail(todo)

\* generateSignalsFromEvidence: one open signal for each piece of evidence a
\* detector reacts to, in some order.
SignalStatements(found) ==
    LET order == SetToSeq(found)
    IN  [i \in DOMAIN order |-> [op |-> "signal", of |-> order[i]]]

\* correlateSignalsIntoHypotheses, for signals of one endpoint: two competing
\* theories that cite the evidence, each with something still to be tested,
\* and the theory that nothing is known.
GroupStatements(found) ==
    IF found = {} THEN <<>>
    ELSE LET theory == [status |-> "HYPOTHESIZED", ev |-> found]
             baseline == [status |-> "UNKNOWN", ev |-> {}]
         IN  <<[op |-> "group", of |-> found]>>
             \o HypothesisStatements(Theories, theory, Owable)
             \o HypothesisStatements(Baselines, baseline, {})

\* POST /api/reasoning/analyze: the cycle reads the evidence once.
RunReasoningCycle(c) ==
    LET found == {e \in Clues : fit[e] # "none"}
    IN  /\ Ask(c, [at |-> "saving", todo |-> SignalStatements(found) \o GroupStatements(found)])
        /\ UNCHANGED <<hyp, owed, sig, group, fit>>

\* verifyEvidenceBelongsToTarget, of all that a request cites.
EvidenceExists(ev) == \A e \in ev : fit[e] # "none"

\* POST /api/hypotheses takes the id and the status from the body, and checks
\* only that the evidence exists.  The conditions and requirements in the body
\* may name another hypothesis as theirs, and ids that are stored.
CreateHypothesis(c, h, status, ev, brings, whose) ==
    LET save == HypothesisStatements({h}, [status |-> status, ev |-> ev], brings) IN
    /\ EvidenceExists(ev)
    /\ Ask(c, [at |-> "saving",
               todo |-> [i \in DOMAIN save |->
                            IF save[i].op = "row" THEN save[i] ELSE [save[i] EXCEPT !.of = whose]]])
    /\ UNCHANGED <<hyp, owed, sig, group, fit>>

\* What a statement s makes of the rows.  An upsert overwrites the status of a
\* hypothesis or a signal; a row in PostgreSQL needs its group.
SaveHypothesisGroup(s) == group' = (group \/ s.op = "group")

SaveHypothesis(s) ==
    /\ (s.op = "row" /\ pg) => group
    /\ hyp' = IF s.op = "row" THEN [hyp EXCEPT ![s.of] = s.row] ELSE hyp

\* In memory conditions are added.  In PostgreSQL the result of a condition
\* whose id is stored is overwritten, with PENDING or with another; it may have
\* been the only PENDING one or not.  Both rows need their hypothesis there.
SaveOwed(s) ==
    \/ /\ s.op = "row"
       /\ owed' = IF pg THEN owed ELSE [owed EXCEPT ![s.of] = @ \cup (s.brings \cap Owable)]
    \/ /\ s.op \in Owable /\ hyp[s.of] # NoRow
       /\ owed' = [owed EXCEPT ![s.of] = @ \cup {s.op}]
    \/ /\ s.op = "settled"
       /\ owed' = owed \/ owed' = [owed EXCEPT ![s.of] = @ \ {"condition"}]
    \/ s.op \in {"group", "signal"} /\ owed' = owed

SaveReasoningSignal(s) ==
    sig' = IF s.op = "signal" THEN [sig EXCEPT ![s.of] = "OPEN"] ELSE sig

SaveStep(c) ==
    /\ hreq[c].at = "saving" /\ hreq[c].todo # <<>>
    /\ LET s == Head(hreq[c].todo) IN
         SaveHypothesisGroup(s) /\ SaveHypothesis(s) /\ SaveOwed(s) /\ SaveReasoningSignal(s)
    /\ hreq' = [o \in Clients |->
          CASE o = c -> [hreq[o] EXCEPT !.todo = Tail(@)]
            [] hreq[o].at \in StatusPlaces -> [hreq[o] EXCEPT !.owes = @ \cap owed'[hreq[o].of]]
            [] OTHER -> hreq[o]]
    /\ UNCHANGED <<fit, asked>>

SaveFails(c) ==
    /\ pg /\ hreq[c].at = "saving" /\ hreq[c].todo # <<>>
    /\ hreq' = [hreq EXCEPT ![c].todo = AfterFailure(@)]
    /\ UNCHANGED <<hyp, owed, sig, group, fit, asked>>

SaveDone(c) ==
    /\ hreq[c].at = "saving" /\ hreq[c].todo = <<>>
    /\ Answer(c)
    /\ UNCHANGED <<hyp, owed, sig, group, fit, asked>>
-----------------------------------------------------------------------------
\* POST /api/hypotheses/{id}/status: the row is read and the step checked.
\* owes: what was owed then and ever since (a history, for the properties);
\* sees: what the reads of conditions and requirements return; blind: one of
\* them failed.
StatusRead(c, h, want) ==
    /\ hyp[h] # NoRow
    /\ Legal(HypothesisSteps, hyp[h].status, want)
    /\ Ask(c, [at |-> IF want # "SUPPORTED" THEN "write" ELSE IF pg THEN "list" ELSE "gate",
               of |-> h, want |-> want, seen |-> hyp[h].status, ev |-> hyp[h].ev,
               owes |-> owed[h], sees |-> IF pg THEN {} ELSE owed[h], blind |-> FALSE])
    /\ UNCHANGED <<hyp, owed, sig, group, fit>>

\* In PostgreSQL conditions and requirements are listed by two more
\* statements, whose errors are ignored.
ListOwed(c) ==
    /\ hreq[c].at \in {"list", "list requirements"}
    /\ LET r == hreq[c]
           kind == IF r.at = "list" THEN "condition" ELSE "requirement"
           next == IF r.at = "list" THEN "list requirements" ELSE "gate"
       IN  \/ hreq' = [hreq EXCEPT ![c] = [r EXCEPT !.at = next,
                                                    !.sees = @ \cup (owed[r.of] \cap {kind})]]
           \/ hreq' = [hreq EXCEPT ![c] = [r EXCEPT !.at = next, !.blind = TRUE]]
    /\ UNCHANGED <<hyp, owed, sig, group, fit, asked>>

\* Stored, of this target, live, not rejected, and with a matching hash.
Supportable(e) == fit[e] = "fit"

\* Mutant: conditions that were not tested do not count.
GateIgnoresConditions(r) ==
    "requirement" \notin r.sees /\ r.ev # {} /\ \A e \in r.ev : Supportable(e)

\* Nothing missing, some evidence, nothing untested, all of it supportable.
GatePasses(r) == r.sees = {} /\ r.ev # {} /\ \A e \in r.ev : Supportable(e)

Gate(c) ==
    /\ hreq[c].at = "gate"
    /\ IF GatePasses(hreq[c]) THEN On(c, "write") ELSE Answer(c)
    /\ UNCHANGED <<hyp, owed, sig, group, fit, asked>>

\* Mutant: the write of SUPPORTED does not look at the status again.
StillAsSeenUnchecked(r) == TRUE

\* Only SUPPORTED is written under the condition that the status is still the
\* one that was read.
StillAsSeen(r) == r.want = "SUPPORTED" => hyp[r.of].status = r.seen

StatusWrite(c) ==
    LET r == hreq[c] IN
    /\ r.at = "write"
    /\ Answer(c)
    /\ hyp' = IF hyp[r.of] # NoRow /\ StillAsSeen(r)
              THEN [hyp EXCEPT ![r.of].status = r.want] ELSE hyp
    /\ UNCHANGED <<owed, sig, group, fit, asked>>

\* PATCH /api/signals/{id}/status: read, check, write.
SignalRead(c, e, want) ==
    /\ sig[e] # "none"
    /\ Legal(SignalSteps, sig[e], want)
    /\ Ask(c, [at |-> "signal", of |-> e, want |-> want])
    /\ UNCHANGED <<hyp, owed, sig, group, fit>>

SignalWrite(c) ==
    /\ hreq[c].at = "signal"
    /\ sig' = [sig EXCEPT ![hreq[c].of] = hreq[c].want]
    /\ Answer(c)
    /\ UNCHANGED <<hyp, owed, group, fit, asked>>

\* The database refuses a statement; the request answers an error.
WriteFails(c) ==
    /\ pg /\ hreq[c].at \in {"write", "signal"}
    /\ Answer(c)
    /\ UNCHANGED <<hyp, owed, sig, group, fit, asked>>

\* Evidence is recorded, or recorded again under its id with other content.
EvidenceRecorded(e, f) ==
    /\ fit[e] # f
    /\ fit' = [fit EXCEPT ![e] = f]
    /\ UNCHANGED <<hyp, owed, sig, group, hreq, asked>>

HNext ==
    /\ \/ \E c \in Clients :
            \/ RunReasoningCycle(c)
            \/ \E h \in Hyps, status \in Bodies, ev \in SUBSET Clues,
                  brings \in Brought, whose \in Hyps :
                 CreateHypothesis(c, h, status, ev, brings, whose)
            \/ SaveStep(c) \/ SaveFails(c) \/ SaveDone(c)
            \/ \E h \in Hyps, want \in HypothesisStatus \cup Bodies : StatusRead(c, h, want)
            \/ ListOwed(c) \/ Gate(c) \/ StatusWrite(c)
            \/ \E e \in Clues, want \in SignalStatus : SignalRead(c, e, want)
            \/ SignalWrite(c) \/ WriteFails(c)
       \/ \E e \in Clues, f \in {"fit", "unfit"} : EvidenceRecorded(e, f)
    /\ UNCHANGED pg

HSpec == StorageInit /\ HInit /\ [][HNext]_<<pg, hvars>>

-----------------------------------------------------------------------------
HTypeOK ==
    /\ hyp \in [Hyps -> Rows \cup {NoRow}]
    /\ owed \in [Hyps -> SUBSET Owable]
    /\ sig \in [Clues -> SignalStatus \cup {"none"}]
    /\ group \in BOOLEAN
    /\ fit \in [Clues -> {"none", "fit", "unfit"}]
    /\ \A c \in Clients : hreq[c].at \in {"idle", "saving", "list", "list requirements",
                                          "gate", "write", "signal"}
    /\ asked \in 0 .. MaxRequests

\* c's request for SUPPORTED changes in this step a hypothesis that is not.
Promotes(c) ==
    /\ hreq[c].at = "write" /\ hreq[c].want = "SUPPORTED" /\ hreq'[c] = NoRequest
    /\ hyp' # hyp /\ hyp[hreq[c].of].status # "SUPPORTED"

\* A status request makes a hypothesis SUPPORTED only out of INVESTIGATING,
\* whatever others did to it between the read and the write.
SupportIsGuarded ==
    [][\A c \in Clients : Promotes(c) => hyp[hreq[c].of].status = "INVESTIGATING"]_hvars

\* What was owed when the request read the row and has been ever since keeps
\* the hypothesis from being SUPPORTED by that request, in both stores, unless
\* a read of the conditions or requirements failed: PostgreSQL reads them after
\* the row, while cycles and creations are writing and overwriting them.
OwedBlocksSupport ==
    [][\A c \in Clients : Promotes(c) /\ ~hreq[c].blind => hreq[c].owes = {}]_hvars
=============================================================================
