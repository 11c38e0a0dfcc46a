------------------------------ MODULE Evidence ------------------------------
(***************************************************************************)
(* Evidence records: sanitised, hashed and saved with an event on the      *)
(* timeline, compared in pairs, checked against their hash; and the        *)
(* contradictions researchers find in them.  A hash is modelled as what it *)
(* is computed over: SHA-256 tells different contents apart.               *)
(***************************************************************************)
EXTENDS Storage, Naturals, FiniteSets

CONSTANTS Records,       \* ids of evidence; a body may name one that is stored
          EvTargets,     \* the targets evidence is recorded for
          Contents,      \* what may be posted: a set of Content
          Posters,       \* requests under way at the same time
          MaxPosts       \* bound: how many requests are made

VARIABLES
    record,      \* record[e]: the stored evidence
    rewritten,   \* the ids PostgreSQL was told of more than once
    told,        \* the records with an EVIDENCE_COLLECTED event
    diffs,       \* the stored comparisons
    con,         \* the status of a contradiction
    preq,        \* preq[p]: the request p is serving
    posts        \* how many requests were made

evars == <<record, rewritten, told, diffs, con, preq, posts>>

\* Values are told apart by the secrets the patterns look for.
Value == {"plain", "bearer", "jwt", "api key", "masked", "masked bearer"}
\* A body is a text, or a JSON object that may have a sensitive key.
Text == [json : {FALSE}, secret : {"none"}, other : Value]
Object == [json : {TRUE}, secret : {"none", "clear", "masked"}, other : Value]
\* A header is the set of the values that stand under names equal but for the
\* case of their letters; there is more than one in a map only a client made.
Header == (SUBSET Value) \ {{}}
Content == [url : {"plain", "token", "masked"}, sensitive : Header, header : Header,
            body : Text \cup Object, code : Nat]

ASSUME EvidenceAssumption == Contents \subseteq Content /\ MaxPosts \in Nat

NoRecord == [hash |-> "none"]
NoContradiction == "none"
IdlePost == [at |-> "idle"]

-----------------------------------------------------------------------------
\* A header with a sensitive name is masked whatever its value, another one
\* where its value looks like a bearer token or a JWT; a bearer token leaves
\* the word Bearer.  (The parts of a cookie that are no secrets stay.)
SanitizedHeader(name, v) ==
    CASE v = "bearer" -> "masked bearer"
      [] v = "jwt" \/ (name = "sensitive" /\ v # "masked bearer") -> "masked"
      [] OTHER -> v

SanitizedHeaders(name, vs) == {SanitizedHeader(name, v) : v \in vs}

SanitizedURL(u) == IF u = "token" THEN "masked" ELSE u

\* In an object sensitive keys and values like tokens are masked; only when
\* there were none is it treated as text, where API keys are found too.
SanitizedBody(b) ==
    LET token == b.other \in {"bearer", "jwt"}
    IN  IF b.json /\ (b.secret # "none" \/ token)
        THEN [b EXCEPT !.secret = IF @ = "none" THEN @ ELSE "masked",
                       !.other = IF token THEN "masked" ELSE @]
        ELSE [b EXCEPT !.other = IF @ \in {"bearer", "jwt", "api key"} THEN "masked" ELSE @]

Sanitize(c) ==
    [c EXCEPT !.url = SanitizedURL(@), !.sensitive = SanitizedHeaders("sensitive", @),
              !.header = SanitizedHeaders("other", @), !.body = SanitizedBody(@)]

\* The canonical form covers the target, the request and the response.  Of a
\* header's values normalizeHeaders takes the one its walk through the map comes
\* to last: each call may take another, and compute another hash.
Normalized(c, s, h) == [c EXCEPT !.sensitive = {s}, !.header = {h}]
CanonicalHashes(t, c) == {<<t, Normalized(c, s, h)>> : s \in c.sensitive, h \in c.header}

\* Mutant: the hash is taken before the secrets are masked.
RecordedUnsanitised(t, c) ==
    {[target |-> t, content |-> Sanitize(c), hash |-> x] : x \in CanonicalHashes(t, c)}

\* RecordEvidence: sanitise, then hash.  One of these is the outcome.
Recorded(t, c) ==
    {[target |-> t, content |-> Sanitize(c), hash |-> x] : x \in CanonicalHashes(t, Sanitize(c))}

\* Saving under an id that is taken: in memory the record is replaced; the
\* upsert of PostgreSQL replaces response and hash, and keeps target and
\* request.
Upserted(old, new) ==
    IF old = NoRecord \/ ~pg THEN new
    ELSE [target |-> old.target, hash |-> new.hash,
          content |-> [old.content EXCEPT !.code = new.content.code,
                                          !.body = new.content.body]]

-----------------------------------------------------------------------------
\* ComputeDiff, on the status codes: what makes a difference relevant.
Restricted(code) == code \in {401, 403}
Accessible(code) == code \in 200 .. 299

SecurityRelevant(x, y) ==
    \/ Restricted(x) /\ Accessible(y)
    \/ Accessible(x) /\ Restricted(y)
    \/ x # y /\ {x, y} \cap {500, 301, 302} # {}

\* What EvaluateContradiction makes of an expected and an observed state;
\* NOT_OBSERVED does not confirm anything.
Contradiction(expected, observed) ==
    CASE expected = observed -> NoContradiction
      [] <<expected, observed>> \in {<<"PRESENT", "ABSENT">>, <<"ABSENT", "PRESENT">>} ->
             "CONFIRMED_DEVIATION"
      [] <<expected, observed>> = <<"PRESENT", "NOT_OBSERVED">> -> "UNVERIFIED"
      [] OTHER -> "INVESTIGATING"

EInit ==
    /\ record = [e \in Records |-> NoRecord]
    /\ rewritten = {}
    /\ told = {}
    /\ diffs = {}
    /\ con = NoContradiction
    /\ preq = [p \in Posters |-> IdlePost]
    /\ posts = 0

Post(p, r) == /\ preq[p] = IdlePost
              /\ posts < MaxPosts
              /\ posts' = posts + 1
              /\ preq' = [preq EXCEPT ![p] = r]
Done(p) == preq' = [preq EXCEPT ![p] = IdlePost]

\* POST /api/evidence: the body is checked, the client's hash dropped, and the
\* record prepared.
RecordEvidence(p, e, t, c) ==
    /\ \E new \in Recorded(t, c) : Post(p, [at |-> "save", of |-> e, new |-> new])
    /\ UNCHANGED <<record, rewritten, told, diffs, con>>

SaveEvidence(p) ==
    LET r == preq[p] IN
    /\ r.at = "save"
    /\ record' = [record EXCEPT ![r.of] = Upserted(@, r.new)]
    /\ rewritten' = rewritten \cup {e \in {r.of} : pg /\ record[e] # NoRecord}
    /\ preq' = [preq EXCEPT ![p].at = "timeline"]
    /\ UNCHANGED <<told, diffs, con, posts>>

RecordTimelineEvent(p) ==
    /\ preq[p].at = "timeline"
    /\ told' = told \cup {preq[p].of}
    /\ Done(p)
    /\ UNCHANGED <<record, rewritten, diffs, con, posts>>

\* POST /api/evidence/diff: one record is read, then the other,
CompareRead(p, a, b) ==
    /\ record[a] # NoRecord
    /\ Post(p, [at |-> "compare", a |-> a, b |-> b, seen |-> record[a]])
    /\ UNCHANGED <<record, rewritten, told, diffs, con>>

\* ... records of different targets are refused,
Compare(p) ==
    LET r == preq[p] IN
    /\ r.at = "compare"
    /\ IF record[r.b] # NoRecord /\ record[r.b].target = r.seen.target
       THEN preq' = [preq EXCEPT ![p] =
                [at |-> "diff", diff |-> [a |-> r.a, b |-> r.b, target |-> r.seen.target,
                     from |-> r.seen.content.code, to |-> record[r.b].content.code,
                     relevant |-> SecurityRelevant(r.seen.content.code, record[r.b].content.code)]]]
       ELSE Done(p)
    /\ UNCHANGED <<record, rewritten, told, diffs, con, posts>>

\* ... and the comparison is saved (its own event is left out).
SaveDiff(p) ==
    /\ preq[p].at = "diff"
    /\ diffs' = diffs \cup {preq[p].diff}
    /\ Done(p)
    /\ UNCHANGED <<record, rewritten, told, con, posts>>

\* POST /api/contradictions/evaluate, with evidence that is stored.
EvaluateContradiction(p, expected, observed) ==
    /\ con = NoContradiction
    /\ \E e \in Records : record[e] # NoRecord
    /\ Contradiction(expected, observed) # NoContradiction
    /\ Post(p, IdlePost)
    /\ con' = Contradiction(expected, observed)
    /\ UNCHANGED <<record, rewritten, told, diffs>>

\* PATCH /api/contradictions/{id}/status reads the contradiction and saves it
\* with the status named, any status.
ContradictionRead(p, status) ==
    /\ con # NoContradiction
    /\ Post(p, [at |-> "contradiction", status |-> status])
    /\ UNCHANGED <<record, rewritten, told, diffs, con>>

UpdateContradictionStatus(p) ==
    /\ preq[p].at = "contradiction"
    /\ con' = preq[p].status
    /\ Done(p)
    /\ UNCHANGED <<record, rewritten, told, diffs, posts>>

\* The database refuses the next statement of p, which answers an error: a
\* record saved before that stays, without its event.
PostFails(p) ==
    /\ pg /\ preq[p].at \in {"save", "timeline", "diff", "contradiction"}
    /\ Done(p)
    /\ UNCHANGED <<record, rewritten, told, diffs, con, posts>>

ENext ==
    /\ \E p \in Posters :
         \/ \E e \in Records, t \in EvTargets, c \in Contents : RecordEvidence(p, e, t, c)
         \/ SaveEvidence(p) \/ RecordTimelineEvent(p)
         \/ \E a, b \in Records : CompareRead(p, a, b)
         \/ Compare(p) \/ SaveDiff(p)
         \/ \E x \in {"PRESENT", "ABSENT"}, y \in {"PRESENT", "ABSENT", "NOT_OBSERVED", "UNKNOWN"} :
              EvaluateContradiction(p, x, y)
         \/ \E status \in {"REJECTED", "DISMISSED"} : ContradictionRead(p, status)
         \/ UpdateContradictionStatus(p)
         \/ PostFails(p)
    /\ UNCHANGED pg

ESpec == StorageInit /\ EInit /\ [][ENext]_<<pg, evars>>

-----------------------------------------------------------------------------
ETypeOK ==
    /\ \A e \in Records : record[e] # NoRecord =>
         record[e].target \in EvTargets /\ record[e].content \in Content
    /\ told \subseteq Records /\ rewritten \subseteq Records
    /\ \A d \in diffs : d.target \in EvTargets /\ {d.a, d.b} \subseteq Records
    /\ con \in {NoContradiction, "UNVERIFIED", "INVESTIGATING", "CONFIRMED_DEVIATION",
                "REJECTED", "DISMISSED"}
    /\ \A p \in Posters : preq[p].at \in {"idle", "save", "timeline", "compare", "diff",
                                        "contradiction"}
    /\ posts \in 0 .. MaxPosts

\* VerifyEvidenceIntegrity computes the hash of what is stored once more:
\* whatever it finds under a header, it is the hash that was stored.
Verifies(e) == \A x \in CanonicalHashes(record[e].target, record[e].content) : x = record[e].hash

\* Header names differ by more than case.
Unambiguous(c) == \E s, h \in Value : c.sensitive = {s} /\ c.header = {h}

\* A record with unambiguous header names verifies at every moment, in memory
\* however often it is recorded again under the same id, in PostgreSQL as
\* long as it was recorded once.
RecordsVerify ==
    \A e \in Records : record[e] # NoRecord /\ Unambiguous(record[e].content)
                          /\ e \notin rewritten => Verifies(e)
=============================================================================
