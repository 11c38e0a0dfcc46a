----------------------------- MODULE ScopeImport -----------------------------
(***************************************************************************)
(* Scope imports and their confirmation: requests that read the review,    *)
(* decide, and then ask the store to create a target and mark the import   *)
(* CONFIRMED.  PostgreSQL does it in one transaction that locks the row of *)
(* the import; the in-memory store does it under its mutex.  Targets are   *)
(* deleted at any time; a request may fail, or its server die, anywhere.   *)
(***************************************************************************)
CONSTANTS
    Imports, Targets, Roots, Operators, Candidates,  \* see ScopeConfirmation
    Clients      \* the confirming requests, one at a time each

ASSUME CandidateAssumption == Candidates \in [Imports -> SUBSET Roots]
\* "none" stands for what is not there; no identifier and no root is empty.
ASSUME NoneAssumption == "none" \notin Imports \cup Targets \cup Roots

VARIABLES
    durable,   \* PostgreSQL, shared by several servers, or in memory
    review,    \* review[i]: the stored row of import i
    origin,    \* origin[t]: what the stored row of target t says of its origin
    request,   \* request[c]: the confirmation c is making
    acked      \* the confirmations answered with success

vars == <<durable, review, origin, request, acked>>

NoTarget == "none"
NoOrigin == [import |-> "none", root |-> "none", by |-> "none"]
NoReview == [status |-> "ABSENT", root |-> "none", by |-> "none", target |-> NoTarget]
Idle     == [at |-> "idle"]

Confirmation == [import : Imports, root : Roots, by : Operators]
Review == [status : {"PENDING_CONFIRMATION", "CONFIRMED"}, root : Roots \cup {"none"},
           by : Operators \cup {"none"}, target : Targets \cup {NoTarget}] \cup {NoReview}
Request == [at : {"checked", "locked", "inserted", "committed"}, import : Imports,
            root : Roots, by : Operators, target : Targets] \cup {Idle}

Init ==
    /\ durable \in BOOLEAN
    /\ review = [i \in Imports |-> NoReview]
    /\ origin = [t \in Targets |-> NoOrigin]
    /\ request = [c \in Clients |-> Idle]
    /\ acked = {}

Exists(t)    == origin[t] # NoOrigin
Confirmed(i) == review[i].status = "CONFIRMED"
Goes(c, where) == request' = [request EXCEPT ![c].at = where]
Finish(c)      == request' = [request EXCEPT ![c] = Idle]

\* The transactions under way that hold the row of an import.
Holders(i) == {c \in Clients : request[c].at \in {"locked", "inserted"}
                                 /\ request[c].import = i}

-----------------------------------------------------------------------------
\* ImportScope stores the sanitised file under a new identifier.
SaveImportReview(i) ==
    /\ review[i] = NoReview
    /\ review' = [review EXCEPT ![i] = [NoReview EXCEPT !.status = "PENDING_CONFIRMATION"]]
    /\ UNCHANGED <<durable, origin, request, acked>>

\* ConfirmScopeImport reads the review, refuses a confirmed one or a root that
\* is no candidate, and draws the target's identifier from the clock: two
\* servers may draw the same.
ConfirmScopeImport(c, i, root, by, t) ==
    /\ request[c] = Idle
    /\ review[i].status = "PENDING_CONFIRMATION"
    /\ root \in Candidates[i]
    /\ request' = [request EXCEPT ![c] = [at |-> "checked", import |-> i, root |-> root,
                                          by |-> by, target |-> t]]
    /\ UNCHANGED <<durable, review, origin, acked>>

\* Both rows of a confirmation.
Write(r) ==
    /\ review' = [review EXCEPT ![r.import] = [status |-> "CONFIRMED", root |-> r.root,
                                               by |-> r.by, target |-> r.target]]
    /\ origin' = [origin EXCEPT ![r.target] = [import |-> r.import, root |-> r.root,
                                               by |-> r.by]]

\* Mutant: the status the handler has seen is taken to be the status still.
ConfirmInMemoryStale(c) ==
    LET r == request[c] IN
    /\ ~durable
    /\ r.at = "checked"
    /\ IF Exists(r.target)
       THEN Finish(c) /\ UNCHANGED <<review, origin>>
       ELSE Goes(c, "committed") /\ Write(r)
    /\ UNCHANGED <<durable, acked>>

\* MemoryStorage.ConfirmScopeAndCreateTarget, all under its mutex.
ConfirmInMemory(c) ==
    LET r == request[c] IN
    /\ ~durable
    /\ r.at = "checked"
    /\ IF Confirmed(r.import) \/ Exists(r.target)
       THEN Finish(c) /\ UNCHANGED <<review, origin>>
       ELSE Goes(c, "committed") /\ Write(r)
    /\ UNCHANGED <<durable, acked>>

\* Mutant: the status read under the lock is not looked at.
LockImportUnchecked(c) ==
    LET r == request[c] IN
    /\ durable
    /\ r.at = "checked"
    /\ Holders(r.import) = {}
    /\ Goes(c, "locked")
    /\ UNCHANGED <<durable, review, origin, acked>>

\* SELECT ... FOR UPDATE waits for the row, and reads what was committed.
LockImport(c) ==
    LET r == request[c] IN
    /\ durable
    /\ r.at = "checked"
    /\ Holders(r.import) = {}
    /\ IF Confirmed(r.import) THEN Finish(c) ELSE Goes(c, "locked")
    /\ UNCHANGED <<durable, review, origin, acked>>

\* The unique indexes: of identifiers, and of the imports targets come from.
Taken(r) == Exists(r.target) \/ \E t \in Targets : origin[t].import = r.import

\* Nobody else's transaction has inserted the same identifier.
MayInsert(c) == \A d \in Clients \ {c} :
    request[d].at = "inserted" => request[d].target # request[c].target

\* Mutant: the insert is tried again until it succeeds.
InsertTargetRetries(c) ==
    LET r == request[c] IN
    /\ r.at = "locked"
    /\ MayInsert(c)
    /\ ~Taken(r)
    /\ Goes(c, "inserted")
    /\ UNCHANGED <<durable, review, origin, acked>>

\* Mutant: the insert is a transaction of its own.
InsertTargetAlone(c) ==
    LET r == request[c] IN
    /\ r.at = "locked"
    /\ MayInsert(c)
    /\ IF Taken(r) THEN Finish(c) /\ UNCHANGED origin
       ELSE /\ Goes(c, "inserted")
            /\ origin' = [origin EXCEPT ![r.target] = [import |-> r.import, root |-> r.root,
                                                       by |-> r.by]]
    /\ UNCHANGED <<durable, review, acked>>

\* INSERT INTO targets, seen by nobody yet; an insert of the same identifier
\* that is not committed is waited for.
InsertTarget(c) ==
    LET r == request[c] IN
    /\ r.at = "locked"
    /\ MayInsert(c)
    /\ IF Taken(r) THEN Finish(c) ELSE Goes(c, "inserted")
    /\ UNCHANGED <<durable, review, origin, acked>>

\* UPDATE scope_imports and COMMIT: both rows appear together.
Commit(c) ==
    /\ request[c].at = "inserted"
    /\ Write(request[c])
    /\ Goes(c, "committed")
    /\ UNCHANGED <<durable, acked>>

Said(r) == [import |-> r.import, root |-> r.root, by |-> r.by]

\* The answer goes out, after the review was read once more.
Answer(c) ==
    /\ request[c].at = "committed"
    /\ acked' = acked \cup {Said(request[c])}
    /\ Finish(c)
    /\ UNCHANGED <<durable, review, origin>>

\* The request ends early: its context is cancelled, a statement fails, the
\* reading back fails (and the handler panics on the missing review), or the
\* server dies.  A transaction under way is rolled back, a committed one stays.
Abandon(c) ==
    /\ durable
    /\ request[c] # Idle
    /\ Finish(c)
    /\ UNCHANGED <<durable, review, origin, acked>>

\* DeleteTarget: the foreign key of the import is set to NULL; in memory the
\* import keeps the identifier.  Neither touches the import's status.
DeleteTarget(t) ==
    /\ Exists(t)
    /\ origin' = [origin EXCEPT ![t] = NoOrigin]
    /\ review' = [i \in Imports |-> IF durable /\ review[i].target = t
                                    THEN [review[i] EXCEPT !.target = NoTarget]
                                    ELSE review[i]]
    /\ UNCHANGED <<durable, request, acked>>

Next ==
    \/ \E i \in Imports : SaveImportReview(i)
    \/ \E c \in Clients, i \in Imports, root \in Roots, by \in Operators, t \in Targets :
         ConfirmScopeImport(c, i, root, by, t)
    \/ \E c \in Clients :
         \/ ConfirmInMemory(c)
         \/ LockImport(c)
         \/ InsertTarget(c)
         \/ Commit(c)
         \/ Answer(c)
         \/ Abandon(c)
    \/ \E t \in Targets : DeleteTarget(t)

Spec == Init /\ [][Next]_vars

\* Handlers run on; PostgreSQL queues those who wait for a row or an index
\* entry, so each of them gets it in the end.
Fairness == \A c \in Clients : /\ WF_vars(ConfirmInMemory(c))
                               /\ SF_vars(LockImport(c))
                               /\ SF_vars(InsertTarget(c))
                               /\ WF_vars(Commit(c))
                               /\ WF_vars(Answer(c))

FairSpec == Spec /\ Fairness

-----------------------------------------------------------------------------
TypeOK ==
    /\ durable \in BOOLEAN
    /\ review \in [Imports -> Review]
    /\ origin \in [Targets -> Confirmation \cup {NoOrigin}]
    /\ request \in [Clients -> Request]
    /\ acked \subseteq Confirmation

\* A target that names an import is the one its import names, with the root
\* and the operator the import was confirmed with: no mixed provenance, and
\* at most one target for an import, however many requests confirm it.
TargetsAreAttributed ==
    \A t \in Targets : Exists(t) =>
        review[origin[t].import] = [status |-> "CONFIRMED", root |-> origin[t].root,
                                    by |-> origin[t].by, target |-> t]

\* A confirmation answered with success is the one on record, for ever: a
\* later request can neither win as well nor replace it, not even once the
\* target is deleted.
AnswersAreTrue ==
    \A a \in acked : /\ Confirmed(a.import)
                     /\ review[a.import].root = a.root
                     /\ review[a.import].by = a.by

\* A request that has passed the handler's checks is answered or given up:
\* nobody waits for ever for a row or an identifier another one holds.
RequestsEnd == \A c \in Clients : request[c].at = "checked" ~> request[c] = Idle

\* "Guaranteed invariant: CONFIRMED scope import <=> existing attributed target."
ConfirmedHasTarget ==
    \A i \in Imports : Confirmed(i) => \E t \in Targets : origin[t].import = i

\* The stores implement the confirmation they promise.
outcomeOf(r) == [root |-> r.root,
                 by   |-> CASE r.status = "ABSENT"    -> "absent"
                            [] r.status = "CONFIRMED" -> r.by
                            [] OTHER                  -> "pending"]
Promise == INSTANCE ScopeConfirmation WITH outcome <- [i \in Imports |-> outcomeOf(review[i])]
ImplementsConfirmation == Promise!Spec
=============================================================================
