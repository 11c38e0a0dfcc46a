-------------------------- MODULE ScopeImportProofs --------------------------
(***************************************************************************)
(* What the confirmation of scope imports guarantees for any number of     *)
(* imports, requests, roots and operators, under either store.             *)
(***************************************************************************)
EXTENDS ScopeImport, TLAPS

\* What a request may rely on from one step to the next.
Requests ==
    \A c \in Clients :
        LET r == request[c] IN
        /\ r.at # "idle" => /\ r.root \in Candidates[r.import]
                            /\ review[r.import] # NoReview
        /\ r.at \in {"locked", "inserted"} => durable /\ ~Confirmed(r.import)
        /\ r.at = "inserted" => ~Exists(r.target)
        /\ r.at = "committed" => /\ Confirmed(r.import)
                                 /\ review[r.import].root = r.root
                                 /\ review[r.import].by = r.by

\* The row of an import, and the identifier of a row not yet committed, have
\* one holder.
Exclusive ==
    \A c, d \in Clients : c # d =>
        /\ request[c].at \in {"locked", "inserted"} /\ request[d].at \in {"locked", "inserted"}
             => request[c].import # request[d].import
        /\ request[c].at = "inserted" /\ request[d].at = "inserted"
             => request[c].target # request[d].target

Inv == TypeOK /\ Requests /\ Exclusive /\ TargetsAreAttributed /\ AnswersAreTrue

-----------------------------------------------------------------------------
\* The fields of a request that is under way.
LEMMA RequestTyped ==
    ASSUME TypeOK, NEW c \in Clients, request[c].at # "idle"
    PROVE  /\ request[c].import \in Imports
           /\ request[c].root \in Roots
           /\ request[c].by \in Operators
           /\ request[c].target \in Targets
           /\ request[c].at \in {"checked", "locked", "inserted", "committed"}
           /\ request[c] \in [at : {"checked", "locked", "inserted", "committed"},
                              import : Imports, root : Roots, by : Operators,
                              target : Targets]
  BY DEF TypeOK, Request, Idle

\* A request that moves on or ends stays well typed.
LEMMA RequestMoves ==
    ASSUME TypeOK, NEW c \in Clients, request[c].at # "idle",
           \/ Finish(c)
           \/ \E where \in {"locked", "inserted", "committed"} : Goes(c, where)
    PROVE  request' \in [Clients -> Request]
<1>1. request[c] \in [at : {"checked", "locked", "inserted", "committed"},
                      import : Imports, root : Roots, by : Operators, target : Targets]
  BY RequestTyped
<1>2. ASSUME NEW where \in {"locked", "inserted", "committed"}
      PROVE  [request[c] EXCEPT !.at = where] \in Request
  BY <1>1, <1>2 DEF Request
<1>3. CASE Finish(c)
  BY <1>3 DEF Finish, TypeOK, Request
<1>4. CASE \E where \in {"locked", "inserted", "committed"} : Goes(c, where)
  <2>1. PICK where \in {"locked", "inserted", "committed"} : Goes(c, where)
    BY <1>4
  <2>2. request' = [request EXCEPT ![c] = [request[c] EXCEPT !.at = where]]
    BY <2>1 DEF Goes
  <2> QED BY <1>2, <2>2 DEF TypeOK
<1> QED BY <1>3, <1>4

\* Who is where after a request moved on or ended.
LEMMA AfterGoes ==
    ASSUME TypeOK, NEW c \in Clients, NEW where, request[c].at # "idle", Goes(c, where)
    PROVE  /\ request'[c].at = where
           /\ request'[c].import = request[c].import
           /\ request'[c].root = request[c].root
           /\ request'[c].by = request[c].by
           /\ request'[c].target = request[c].target
           /\ \A d \in Clients \ {c} : request'[d] = request[d]
<1>1. request'[c] = [request[c] EXCEPT !.at = where]
  BY DEF Goes, TypeOK
<1> QED BY <1>1, RequestTyped DEF Goes, TypeOK

\* Who is where after a request ended.
LEMMA AfterFinish ==
    ASSUME TypeOK, NEW c \in Clients, Finish(c)
    PROVE  /\ request'[c].at = "idle"
           /\ \A d \in Clients \ {c} : request'[d] = request[d]
  BY DEF Finish, Idle, TypeOK

\* A target that exists tells its import, which tells the target.
LEMMA TargetTellsImport ==
    ASSUME TypeOK, TargetsAreAttributed, NEW t \in Targets, Exists(t)
    PROVE  /\ origin[t].import \in Imports
           /\ Confirmed(origin[t].import)
           /\ review[origin[t].import].target = t
<1>1. origin[t] \in Confirmation
  BY DEF TypeOK, Exists
<1>2. review[origin[t].import] = [status |-> "CONFIRMED", root |-> origin[t].root,
                                  by |-> origin[t].by, target |-> t]
  BY DEF TargetsAreAttributed
<1> QED BY <1>1, <1>2 DEF Confirmation, Confirmed

\* The two rows of a confirmation are well typed.
LEMMA WriteTyped ==
    ASSUME TypeOK, NEW c \in Clients, request[c].at # "idle", Write(request[c])
    PROVE  /\ review' \in [Imports -> Review]
           /\ origin' \in [Targets -> Confirmation \cup {NoOrigin}]
<1>1. [status |-> "CONFIRMED", root |-> request[c].root, by |-> request[c].by,
       target |-> request[c].target] \in Review
  BY RequestTyped DEF Review
<1>2. [import |-> request[c].import, root |-> request[c].root, by |-> request[c].by]
        \in Confirmation
  BY RequestTyped DEF Confirmation
<1> QED BY <1>1, <1>2, RequestTyped DEF Write, TypeOK

\* No step of a request, the stores or a deletion breaks the types.
LEMMA NextTyped == TypeOK /\ [Next]_vars => TypeOK'
<1> SUFFICES ASSUME TypeOK, [Next]_vars PROVE TypeOK'
  OBVIOUS
<1>1. ASSUME NEW i \in Imports, SaveImportReview(i) PROVE TypeOK'
  <2>1. [NoReview EXCEPT !.status = "PENDING_CONFIRMATION"] \in Review
    BY DEF NoReview, Review, NoTarget
  <2> QED BY <1>1, <2>1 DEF SaveImportReview, TypeOK
<1>2. ASSUME NEW c \in Clients, NEW i \in Imports, NEW root \in Roots, NEW by \in Operators,
             NEW t \in Targets, ConfirmScopeImport(c, i, root, by, t)
      PROVE  TypeOK'
  <2>1. [at |-> "checked", import |-> i, root |-> root, by |-> by, target |-> t] \in Request
    BY DEF Request
  <2> QED BY <1>2, <2>1 DEF ConfirmScopeImport, TypeOK
<1>3. ASSUME NEW c \in Clients, ConfirmInMemory(c) PROVE TypeOK'
  BY <1>3, RequestMoves, WriteTyped DEF ConfirmInMemory, TypeOK
<1>4. ASSUME NEW c \in Clients, LockImport(c) \/ InsertTarget(c) PROVE TypeOK'
  BY <1>4, RequestMoves DEF LockImport, InsertTarget, TypeOK
<1>5. ASSUME NEW c \in Clients, Commit(c) PROVE TypeOK'
  BY <1>5, RequestMoves, WriteTyped DEF Commit, TypeOK
<1>6. ASSUME NEW c \in Clients, Answer(c) PROVE TypeOK'
  <2>1. Said(request[c]) \in Confirmation
    BY <1>6, RequestTyped DEF Answer, Said, Confirmation
  <2> QED BY <1>6, <2>1, RequestMoves DEF Answer, TypeOK
<1>7. ASSUME NEW c \in Clients, Abandon(c) PROVE TypeOK'
  BY <1>7 DEF Abandon, Finish, Idle, Request, TypeOK
<1>8. ASSUME NEW t \in Targets, DeleteTarget(t) PROVE TypeOK'
  <2>1. \A i \in Imports : review[i].target = t =>
            [review[i] EXCEPT !.target = NoTarget] \in Review
    BY NoneAssumption DEF TypeOK, Review, NoReview, NoTarget
  <2> QED BY <1>8, <2>1 DEF DeleteTarget, TypeOK
<1>9. CASE UNCHANGED vars
  BY <1>9 DEF vars, TypeOK
<1> QED BY <1>1, <1>2, <1>3, <1>4, <1>5, <1>6, <1>7, <1>8, <1>9 DEF Next

-----------------------------------------------------------------------------
\* The invariant holds of empty stores.
LEMMA InitInv == Init => Inv
<1> SUFFICES ASSUME Init PROVE Inv
  OBVIOUS
<1>1. TypeOK
  BY DEF Init, TypeOK, Review, Request, Idle
<1>2. Requests /\ Exclusive
  BY DEF Init, Requests, Exclusive, Idle
<1>3. TargetsAreAttributed /\ AnswersAreTrue
  BY DEF Init, TargetsAreAttributed, AnswersAreTrue, Exists
<1> QED BY <1>1, <1>2, <1>3 DEF Inv

\* Storing a new review keeps the invariant.
LEMMA SaveKeeps ==
    ASSUME Inv, NEW i \in Imports, SaveImportReview(i)
    PROVE  Requests' /\ Exclusive' /\ TargetsAreAttributed' /\ AnswersAreTrue'
<1> USE DEF Inv, SaveImportReview
<1>1. ~Confirmed(i)
  BY DEF Confirmed, NoReview
<1>2. \A k \in Imports : review[k] # NoReview => review'[k] = review[k]
  BY DEF TypeOK
<1>3. Requests'
  <2> SUFFICES ASSUME NEW c \in Clients, request[c].at # "idle" PROVE Requests!(c)'
    BY DEF Requests
  <2> QED BY <1>2, RequestTyped DEF Requests, Exists, Confirmed
<1>4. Exclusive'
  BY DEF Exclusive
<1>5. TargetsAreAttributed'
  <2> SUFFICES ASSUME NEW t \in Targets, Exists(t) PROVE TargetsAreAttributed!(t)'
    BY DEF TargetsAreAttributed, Exists
  <2>1. origin[t].import \in Imports
    BY DEF TypeOK, Exists, Confirmation
  <2> QED BY <1>2, <2>1 DEF TargetsAreAttributed, Exists, NoReview
<1>6. AnswersAreTrue'
  BY <1>1, <1>2 DEF AnswersAreTrue, Confirmed, TypeOK, Confirmation
<1> QED BY <1>3, <1>4, <1>5, <1>6

\* A new confirmation request keeps the invariant.
LEMMA AskKeeps ==
    ASSUME Inv, NEW c \in Clients, NEW i \in Imports, NEW root \in Roots,
           NEW by \in Operators, NEW t \in Targets, ConfirmScopeImport(c, i, root, by, t)
    PROVE  Requests' /\ Exclusive' /\ TargetsAreAttributed' /\ AnswersAreTrue'
<1> USE DEF Inv, ConfirmScopeImport
<1>1. Requests'
  BY DEF Requests, TypeOK, Exists, Confirmed, NoReview
<1>2. Exclusive'
  BY DEF Exclusive, TypeOK
<1>3. TargetsAreAttributed' /\ AnswersAreTrue'
  BY DEF TargetsAreAttributed, AnswersAreTrue, Exists, Confirmed
<1> QED BY <1>1, <1>2, <1>3

\* A request that ends, or goes on to hold a row, writing nothing.
LEMMA WaitKeeps ==
    ASSUME Inv, NEW c \in Clients, LockImport(c) \/ InsertTarget(c) \/ Abandon(c)
    PROVE  Requests' /\ Exclusive' /\ TargetsAreAttributed' /\ AnswersAreTrue'
<1> USE DEF Inv
<1>1. CASE LockImport(c)
  <2>1. Requests'
    BY <1>1, AfterGoes, AfterFinish DEF LockImport, Requests, Exists, Confirmed
  <2>2. Exclusive'
    BY <1>1, AfterGoes, AfterFinish DEF LockImport, Holders, Exclusive
  <2> QED BY <1>1, <2>1, <2>2 DEF LockImport, TargetsAreAttributed, AnswersAreTrue, Exists,
                                  Confirmed
<1>2. CASE InsertTarget(c)
  <2>1. Requests'
    BY <1>2, AfterGoes, AfterFinish DEF InsertTarget, Taken, Requests, Exists, Confirmed
  <2>2. Exclusive'
    BY <1>2, AfterGoes, AfterFinish DEF InsertTarget, MayInsert, Exclusive
  <2> QED BY <1>2, <2>1, <2>2 DEF InsertTarget, TargetsAreAttributed, AnswersAreTrue, Exists,
                                  Confirmed
<1>3. CASE Abandon(c)
  <2>1. Requests'
    BY <1>3 DEF Abandon, Finish, Idle, Requests, TypeOK, Exists, Confirmed
  <2>2. Exclusive'
    BY <1>3 DEF Abandon, Finish, Idle, Exclusive, TypeOK
  <2> QED BY <1>3, <2>1, <2>2 DEF Abandon, TargetsAreAttributed, AnswersAreTrue, Exists,
                                  Confirmed
<1> QED BY <1>1, <1>2, <1>3

\* Both stores write both rows when the import is not confirmed, the target
\* does not exist and no other transaction holds either.
LEMMA WriteKeeps ==
    ASSUME Inv, NEW c \in Clients, request[c].at # "idle", Write(request[c]),
           Goes(c, "committed"), acked' = acked, durable' = durable,
           ~Confirmed(request[c].import), ~Exists(request[c].target),
           \A d \in Clients \ {c} : request[d].at \in {"locked", "inserted"} =>
               request[d].import # request[c].import,
           \A d \in Clients \ {c} : request[d].at = "inserted" =>
               request[d].target # request[c].target
    PROVE  Requests' /\ Exclusive' /\ TargetsAreAttributed' /\ AnswersAreTrue'
<1> USE DEF Inv
<1> DEFINE r == request[c]
<1>0. r.import \in Imports /\ r.root \in Roots /\ r.by \in Operators /\ r.target \in Targets
  BY RequestTyped
<1>1. /\ review'[r.import] = [status |-> "CONFIRMED", root |-> r.root, by |-> r.by,
                             target |-> r.target]
      /\ \A k \in Imports \ {r.import} : review'[k] = review[k]
      /\ origin'[r.target] = [import |-> r.import, root |-> r.root, by |-> r.by]
      /\ \A t \in Targets \ {r.target} : origin'[t] = origin[t]
  BY <1>0 DEF Write, TypeOK
<1>2. /\ request'[c] = [r EXCEPT !.at = "committed"]
      /\ \A d \in Clients \ {c} : request'[d] = request[d]
  BY DEF Goes, TypeOK
<1>3. Requests'
  <2> SUFFICES ASSUME NEW d \in Clients, request'[d].at # "idle" PROVE Requests!(d)'
    BY DEF Requests
  <2>1. CASE d = c
    <3>1. /\ request'[c].at = "committed"  /\ request'[c].import = r.import
          /\ request'[c].root = r.root     /\ request'[c].by = r.by
      BY <1>2, RequestTyped
    <3>2. /\ review'[r.import].status = "CONFIRMED" /\ review'[r.import].root = r.root
          /\ review'[r.import].by = r.by
      BY <1>1
    <3>3. r.root \in Candidates[r.import]
      BY DEF Requests
    <3> HIDE DEF r
    <3> QED BY <2>1, <3>1, <3>2, <3>3 DEF Requests, Confirmed, NoReview
  <2>2. CASE d # c
    <3>1. request'[d] = request[d] /\ request[d].import \in Imports
          /\ request[d].target \in Targets
      BY <1>2, <2>2, RequestTyped
    <3>2. CASE request[d].import = r.import
      BY <1>1, <2>2, <3>1, <3>2 DEF Requests, Confirmed, NoReview
    <3>3. CASE request[d].import # r.import
      BY <1>1, <2>2, <3>1, <3>3 DEF Requests, Confirmed, Exists
    <3> QED BY <3>2, <3>3
  <2> QED BY <2>1, <2>2
<1>4. Exclusive'
  <2>1. request'[c].at = "committed"
    BY AfterGoes
  <2>2. \A d \in Clients : d # c => request'[d] = request[d]
    BY <1>2
  <2> SUFFICES ASSUME NEW d \in Clients, NEW e \in Clients, d # e
               PROVE  Exclusive!(d, e)'
    BY DEF Exclusive
  <2>3. CASE d = c \/ e = c
    BY <2>1, <2>3
  <2>4. CASE d # c /\ e # c
    BY <2>2, <2>4 DEF Exclusive
  <2> QED BY <2>3, <2>4
<1>5. TargetsAreAttributed'
  <2> SUFFICES ASSUME NEW t \in Targets, Exists(t)' PROVE TargetsAreAttributed!(t)'
    BY DEF TargetsAreAttributed
  <2>1. CASE t = r.target
    BY <1>0, <1>1, <2>1
  <2>2. CASE t # r.target
    <3>1. origin'[t] = origin[t] /\ Exists(t)
      BY <1>1, <2>2 DEF Exists
    <3>2. origin[t].import \in Imports /\ origin[t].import # r.import
      BY <3>1, TargetTellsImport
    <3> QED BY <1>1, <3>1, <3>2 DEF TargetsAreAttributed
  <2> QED BY <2>1, <2>2
<1>6. AnswersAreTrue'
  <2> SUFFICES ASSUME NEW a \in acked PROVE AnswersAreTrue!(a)'
    BY DEF AnswersAreTrue
  <2>1. a.import \in Imports /\ Confirmed(a.import)
    BY DEF TypeOK, Confirmation, AnswersAreTrue
  <2> QED BY <1>1, <2>1 DEF AnswersAreTrue, Confirmed
<1> QED BY <1>3, <1>4, <1>5, <1>6

\* A confirmation, in one step or by its commit, keeps the invariant.
LEMMA ConfirmKeeps ==
    ASSUME Inv, NEW c \in Clients, ConfirmInMemory(c) \/ Commit(c)
    PROVE  Requests' /\ Exclusive' /\ TargetsAreAttributed' /\ AnswersAreTrue'
<1> USE DEF Inv
<1>1. CASE Commit(c)
  BY <1>1, WriteKeeps DEF Commit, Requests, Exclusive
<1>2. CASE ConfirmInMemory(c)
  <2>1. \A d \in Clients : request[d].at \notin {"locked", "inserted"}
    BY <1>2 DEF ConfirmInMemory, Requests
  <2>2. CASE Confirmed(request[c].import) \/ Exists(request[c].target)
    <3>1. /\ request' = [request EXCEPT ![c] = Idle] /\ ~durable
          /\ UNCHANGED <<review, origin, durable, acked>>
      BY <1>2, <2>2 DEF ConfirmInMemory, Finish
    <3>2. Requests' /\ Exclusive'
      BY <3>1 DEF Idle, Requests, Exclusive, TypeOK, Exists, Confirmed
    <3>3. TargetsAreAttributed' /\ AnswersAreTrue'
      BY <3>1 DEF TargetsAreAttributed, AnswersAreTrue, Exists, Confirmed
    <3> QED BY <3>2, <3>3
  <2>3. CASE ~(Confirmed(request[c].import) \/ Exists(request[c].target))
    BY <1>2, <2>1, <2>3, WriteKeeps DEF ConfirmInMemory
  <2> QED BY <2>2, <2>3
<1> QED BY <1>1, <1>2

\* An answer keeps the invariant: it repeats what is on record.
LEMMA AnswerKeeps ==
    ASSUME Inv, NEW c \in Clients, Answer(c)
    PROVE  Requests' /\ Exclusive' /\ TargetsAreAttributed' /\ AnswersAreTrue'
<1> USE DEF Inv, Answer
<1>1. Requests' /\ Exclusive'
  BY DEF Finish, Idle, Requests, Exclusive, TypeOK, Exists, Confirmed
<1>2. TargetsAreAttributed'
  BY DEF TargetsAreAttributed, Exists
<1>3. AnswersAreTrue'
  BY DEF AnswersAreTrue, Requests, Said, Confirmed
<1> QED BY <1>1, <1>2, <1>3

\* The deletion of a target touches no status, root or operator.
LEMMA DeleteKeeps ==
    ASSUME Inv, NEW t \in Targets, DeleteTarget(t)
    PROVE  Requests' /\ Exclusive' /\ TargetsAreAttributed' /\ AnswersAreTrue'
<1> USE DEF Inv
<1>1. \A i \in Imports : /\ review'[i].status = review[i].status
                         /\ review'[i].root = review[i].root
                         /\ review'[i].by = review[i].by
                         /\ review[i].target # t => review'[i] = review[i]
  BY DEF DeleteTarget, TypeOK, Review, NoReview
<1>2. \A i \in Imports : review[i] # NoReview => review'[i] # NoReview
  <2> SUFFICES ASSUME NEW i \in Imports, review[i] # NoReview, review[i].target = t
               PROVE  review'[i] # NoReview
    BY <1>1
  <2>1. review[i].status # "ABSENT"
    BY DEF TypeOK, Review
  <2> QED BY <1>1, <2>1 DEF NoReview
<1>3. \A s \in Targets : Exists(s)' => s # t /\ origin'[s] = origin[s] /\ Exists(s)
  BY DEF DeleteTarget, TypeOK, Exists
<1>4. Requests'
  <2> SUFFICES ASSUME NEW c \in Clients, request[c].at # "idle" PROVE Requests!(c)'
    BY DEF Requests, DeleteTarget
  <2> QED BY <1>1, <1>2, <1>3, RequestTyped DEF DeleteTarget, Requests, Confirmed
<1>5. Exclusive'
  BY DEF DeleteTarget, Exclusive
<1>6. TargetsAreAttributed'
  <2> SUFFICES ASSUME NEW s \in Targets, Exists(s)' PROVE TargetsAreAttributed!(s)'
    BY DEF TargetsAreAttributed
  <2>1. origin[s].import \in Imports
    BY <1>3, TargetTellsImport
  <2>2. review[origin[s].import].target = s
    BY <1>3, TargetTellsImport
  <2> QED BY <1>1, <1>3, <2>1, <2>2 DEF TargetsAreAttributed
<1>7. AnswersAreTrue'
  BY <1>1 DEF DeleteTarget, AnswersAreTrue, Confirmed, TypeOK, Confirmation
<1> QED BY <1>4, <1>5, <1>6, <1>7

\* Every step keeps the invariant.
LEMMA NextInv == Inv /\ [Next]_vars => Inv'
<1> SUFFICES ASSUME Inv, [Next]_vars PROVE Inv'
  OBVIOUS
<1>1. TypeOK'
  BY NextTyped DEF Inv
<1>2. Requests' /\ Exclusive' /\ TargetsAreAttributed' /\ AnswersAreTrue'
  <2>1. CASE UNCHANGED vars
    BY <2>1 DEF vars, Inv, Requests, Exclusive, TargetsAreAttributed, AnswersAreTrue, Exists,
                Confirmed
  <2> QED BY <2>1, SaveKeeps, AskKeeps, WaitKeeps, ConfirmKeeps, AnswerKeeps, DeleteKeeps
          DEF Next
<1> QED BY <1>1, <1>2 DEF Inv

-----------------------------------------------------------------------------
\* Every target that names an import is the import's one target, with the
\* root and operator the import was confirmed with, under either store.
THEOREM ProvenanceIsNeverMixed == Spec => []TargetsAreAttributed
<1>1. Inv => TargetsAreAttributed
  BY DEF Inv
<1> QED BY <1>1, InitInv, NextInv, PTL DEF Spec

\* A confirmation answered with success stays the one on record, whatever
\* other requests, deletions, failures and restarts there are.
THEOREM SuccessIsOnRecord == Spec => []AnswersAreTrue
<1>1. Inv => AnswersAreTrue
  BY DEF Inv
<1> QED BY <1>1, InitInv, NextInv, PTL DEF Spec

\* The rows keep their types.
THEOREM TypeCorrect == Spec => []TypeOK
<1>1. Inv => TypeOK
  BY DEF Inv
<1> QED BY <1>1, InitInv, NextInv, PTL DEF Spec

-----------------------------------------------------------------------------
\* Nothing is recorded for an import that waits for its confirmation.
WaitingIsBlank ==
    \A i \in Imports : review[i].status = "PENDING_CONFIRMATION" => review[i].root = "none"

Strong == Inv /\ WaitingIsBlank

\* No step fills in the row of an import that still waits.
LEMMA NextWaiting == Strong /\ [Next]_vars => WaitingIsBlank'
<1> SUFFICES ASSUME Strong, [Next]_vars PROVE WaitingIsBlank'
  OBVIOUS
<1> USE DEF Strong, Inv, WaitingIsBlank
<1>1. ASSUME NEW i \in Imports, SaveImportReview(i) PROVE WaitingIsBlank'
  BY <1>1 DEF SaveImportReview, TypeOK, NoReview
<1>2. ASSUME NEW c \in Clients, ConfirmInMemory(c) \/ Commit(c) PROVE WaitingIsBlank'
  <2>1. CASE Write(request[c])
    BY <2>1 DEF Write, TypeOK
  <2>2. CASE review' = review
    BY <2>2
  <2> QED BY <1>2, <2>1, <2>2 DEF ConfirmInMemory, Commit
<1>3. ASSUME NEW t \in Targets, DeleteTarget(t) PROVE WaitingIsBlank'
  BY <1>3 DEF DeleteTarget, TypeOK, Review, NoReview
<1>4. CASE review' = review
  BY <1>4
<1> QED BY <1>1, <1>2, <1>3, <1>4 DEF Next, vars, ConfirmScopeImport, LockImport, InsertTarget,
                                      Answer, Abandon

\* A step that writes both rows is the confirmation of the promise.
LEMMA WriteConfirms ==
    ASSUME Strong, NEW c \in Clients, request[c].at # "idle", Write(request[c]),
           ~Confirmed(request[c].import), ~Exists(request[c].target)
    PROVE  Promise!Next
<1> DEFINE r == request[c]
           outcome == [i \in Imports |-> outcomeOf(review[i])]
<1>0. /\ r.import \in Imports /\ r.root \in Roots /\ r.by \in Operators
      /\ r.target \in Targets
  BY RequestTyped DEF Strong, Inv
<1>1. review[r.import].status = "PENDING_CONFIRMATION" /\ review[r.import].root = "none"
  BY <1>0 DEF Strong, Inv, TypeOK, Review, Confirmed, Requests, WaitingIsBlank
<1>2. outcome[r.import] = Promise!Waiting
  BY <1>0, <1>1 DEF outcomeOf, Promise!Waiting
<1>3. origin[r.target] = Promise!NoOrigin /\ r.root \in Candidates[r.import]
  BY DEF Strong, Inv, Requests, Exists, NoOrigin, Promise!NoOrigin
<1>4. origin' = [origin EXCEPT ![r.target] =
                   [import |-> r.import, root |-> r.root, by |-> r.by]]
  BY DEF Write
<1>5. outcome' = [outcome EXCEPT ![r.import] = [root |-> r.root, by |-> r.by]]
  <2>1. outcomeOf(review'[r.import]) = [root |-> r.root, by |-> r.by]
    BY <1>0 DEF Write, outcomeOf, Strong, Inv, TypeOK
  <2>2. \A i \in Imports \ {r.import} : review'[i] = review[i]
    BY DEF Write, Strong, Inv, TypeOK
  <2> QED BY <1>0, <2>1, <2>2 DEF outcomeOf
<1>6. Promise!Confirm(r.import, r.target, r.root, r.by)
  BY <1>2, <1>3, <1>4, <1>5 DEF Promise!Confirm
<1> QED BY <1>0, <1>6 DEF Promise!Next

\* Every step of the stores is a step of ScopeConfirmation or none.
LEMMA StepKeepsPromise == Strong /\ [Next]_vars =>
    Promise!Next \/ (UNCHANGED <<[i \in Imports |-> outcomeOf(review[i])], origin>>)
<1> SUFFICES ASSUME Strong, [Next]_vars
             PROVE  Promise!Next
                      \/ UNCHANGED <<[i \in Imports |-> outcomeOf(review[i])], origin>>
  OBVIOUS
<1> DEFINE outcome == [i \in Imports |-> outcomeOf(review[i])]
           Goal == Promise!Next \/ UNCHANGED <<outcome, origin>>
<1>1. ASSUME NEW i \in Imports, SaveImportReview(i) PROVE Goal
  <2>1. review'[i] = [NoReview EXCEPT !.status = "PENDING_CONFIRMATION"]
    BY <1>1 DEF SaveImportReview, Strong, Inv, TypeOK
  <2>2. outcome[i] = Promise!Absent
    BY <1>1 DEF SaveImportReview, outcomeOf, NoReview, Promise!Absent
  <2>3. outcomeOf(review'[i]) = Promise!Waiting
    BY <2>1 DEF outcomeOf, NoReview, Promise!Waiting
  <2>4. \A k \in Imports \ {i} : review'[k] = review[k]
    BY <1>1 DEF SaveImportReview, Strong, Inv, TypeOK
  <2>5. outcome' = [outcome EXCEPT ![i] = Promise!Waiting]
    BY <2>3, <2>4 DEF outcomeOf
  <2>6. Promise!Offer(i)
    BY <1>1, <2>2, <2>5 DEF SaveImportReview, Promise!Offer
  <2> QED BY <2>6 DEF Promise!Next
<1>2. ASSUME NEW c \in Clients, Commit(c) PROVE Goal
  BY <1>2, WriteConfirms DEF Commit, Strong, Inv, Requests
<1>3. ASSUME NEW c \in Clients, ConfirmInMemory(c) PROVE Goal
  <2>1. CASE UNCHANGED <<review, origin>>
    BY <2>1
  <2>2. CASE ~UNCHANGED <<review, origin>>
    BY <1>3, <2>2, WriteConfirms DEF ConfirmInMemory
  <2> QED BY <2>1, <2>2
<1>4. ASSUME NEW t \in Targets, DeleteTarget(t) PROVE Goal
  <2>1. \A i \in Imports : /\ review'[i].status = review[i].status
                           /\ review'[i].root = review[i].root
                           /\ review'[i].by = review[i].by
    BY <1>4 DEF DeleteTarget, Strong, Inv, TypeOK, Review, NoReview
  <2>2. outcome' = outcome
    BY <2>1 DEF outcomeOf
  <2>3. Promise!Remove(t)
    BY <1>4, <2>2 DEF DeleteTarget, Promise!Remove, Exists, NoOrigin, Promise!NoOrigin
  <2> QED BY <2>3 DEF Promise!Next
<1>5. CASE UNCHANGED <<review, origin>>
  BY <1>5
<1> QED BY <1>1, <1>2, <1>3, <1>4, <1>5 DEF Next, vars, ConfirmScopeImport, LockImport,
                                            InsertTarget, Answer, Abandon

\* Under either store, whatever fails, the rows change as the one-step
\* confirmation promises: import and target together, once per import.
THEOREM StoresKeepThePromise == Spec => ImplementsConfirmation
<1>1. Init => Strong
  <2>1. Init => WaitingIsBlank
    BY DEF Init, WaitingIsBlank, NoReview
  <2> QED BY <2>1, InitInv DEF Strong
<1>2. Strong /\ [Next]_vars => Strong'
  BY NextInv, NextWaiting DEF Strong
<1>3. Init => Promise!Init
  BY DEF Init, Promise!Init, outcomeOf, NoReview, Promise!Absent, NoOrigin, Promise!NoOrigin
<1>4. Strong /\ [Next]_vars
        => [Promise!Next]_<<[i \in Imports |-> outcomeOf(review[i])], origin>>
  BY StepKeepsPromise
<1> QED BY <1>1, <1>2, <1>3, <1>4, PTL DEF Spec, ImplementsConfirmation, Promise!Spec

-----------------------------------------------------------------------------
\* The documented invariant, of one import.
HasTarget(i) == \E t \in Targets : origin[t].import = i

\* An import is confirmed with its target, and only the deletion of that very
\* target takes it away.
OrphanedByDeletion ==
    \A i \in Imports : Confirmed(i)' /\ ~HasTarget(i)' =>
        /\ Confirmed(i)
        /\ HasTarget(i) => \E t \in Targets : origin[t].import = i /\ DeleteTarget(t)

\* A confirmation replaces no target another import has.
LEMMA WriteKeepsTargets ==
    ASSUME Inv, NEW c \in Clients, request[c].at # "idle", Write(request[c]),
           ~Exists(request[c].target)
    PROVE  \A i \in Imports :
              /\ i = request[c].import => HasTarget(i)'
              /\ i # request[c].import =>
                     review'[i] = review[i] /\ (HasTarget(i) => HasTarget(i)')
<1> DEFINE r == request[c]
<1>1. /\ origin'[r.target].import = r.import
      /\ \A t \in Targets \ {r.target} : origin'[t] = origin[t]
      /\ \A i \in Imports \ {r.import} : review'[i] = review[i]
      /\ r.target \in Targets
  BY RequestTyped DEF Inv, TypeOK, Write
<1>2. ASSUME NEW i \in Imports, HasTarget(i) PROVE HasTarget(i)'
  <2>1. PICK t \in Targets : origin[t].import = i
    BY <1>2 DEF HasTarget
  <2>2. t # r.target
    BY <2>1, NoneAssumption DEF Exists, NoOrigin
  <2>3. origin'[t].import = i
    BY <1>1, <2>1, <2>2
  <2> QED BY <2>3 DEF HasTarget
<1>3. \E t \in Targets : origin'[t].import = request[c].import
  BY <1>1
<1> QED BY <1>1, <1>2, <1>3 DEF HasTarget

\* Every step confirms with a target, or orphans by deleting one.
LEMMA StepOrphans == Inv /\ [Next]_vars => OrphanedByDeletion
<1> SUFFICES ASSUME Inv, [Next]_vars, NEW i \in Imports, Confirmed(i)', ~HasTarget(i)'
             PROVE  /\ Confirmed(i)
                    /\ HasTarget(i) => \E t \in Targets :
                                          origin[t].import = i /\ DeleteTarget(t)
  BY DEF OrphanedByDeletion
<1>1. ASSUME NEW k \in Imports, SaveImportReview(k)
      PROVE  Confirmed(i) /\ ~HasTarget(i)
  <2>1. review'[i] = review[i]
    BY <1>1 DEF SaveImportReview, Inv, TypeOK, NoReview, Confirmed
  <2> QED BY <1>1, <2>1 DEF SaveImportReview, Confirmed, HasTarget
<1>2. ASSUME NEW c \in Clients, ConfirmInMemory(c) \/ Commit(c)
      PROVE  Confirmed(i) /\ ~HasTarget(i)
  <2>1. CASE UNCHANGED <<review, origin>>
    BY <2>1 DEF Confirmed, HasTarget
  <2>2. CASE Write(request[c]) /\ ~Exists(request[c].target)
    <3>1. request[c].at # "idle"
      BY <1>2 DEF ConfirmInMemory, Commit
    <3>2. i # request[c].import
      BY <2>2, <3>1, WriteKeepsTargets DEF HasTarget
    <3> QED BY <2>2, <3>1, <3>2, WriteKeepsTargets DEF Confirmed
  <2>3. CASE Commit(c)
    BY <2>2, <2>3 DEF Commit, Inv, Requests
  <2>4. CASE ConfirmInMemory(c)
    BY <2>1, <2>2, <2>4 DEF ConfirmInMemory
  <2> QED BY <1>2, <2>3, <2>4
<1>3. ASSUME NEW t \in Targets, DeleteTarget(t)
      PROVE  Confirmed(i) /\ (HasTarget(i) => origin[t].import = i)
  <2>1. review'[i].status = review[i].status
    BY <1>3 DEF DeleteTarget, Inv, TypeOK, Review, NoReview
  <2>2. \A s \in Targets : s # t => origin'[s] = origin[s]
    BY <1>3 DEF DeleteTarget, Inv, TypeOK
  <2> QED BY <2>1, <2>2 DEF Confirmed, HasTarget
<1>4. CASE UNCHANGED <<review, origin>>
  BY <1>4 DEF Confirmed, HasTarget
<1> QED BY <1>1, <1>2, <1>3, <1>4 DEF Next, vars, ConfirmScopeImport, LockImport, InsertTarget,
                                      Answer, Abandon

\* Every step of the stores keeps "CONFIRMED scope import <=> existing
\* attributed target" for every import whose target it does not delete:
\* DeleteTarget, which leaves the status of the import, is its only violation.
THEOREM OnlyDeletionOrphans == Spec => [][OrphanedByDeletion]_vars
  BY InitInv, NextInv, StepOrphans, PTL DEF Spec

\* While no target is deleted the documented invariant holds, however
\* confirmations overlap, fail and are repeated, under either store.
THEOREM ConfirmedKeepsTarget ==
    Init /\ [][Next /\ ~(\E t \in Targets : DeleteTarget(t))]_vars => []ConfirmedHasTarget
<1> DEFINE IInv == Inv /\ ConfirmedHasTarget
<1>1. Init => IInv
  BY InitInv DEF Init, ConfirmedHasTarget, Confirmed, NoReview
<1>2. IInv /\ [Next /\ ~(\E t \in Targets : DeleteTarget(t))]_vars => IInv'
  <2> SUFFICES ASSUME Inv, ConfirmedHasTarget,
                      [Next /\ ~(\E t \in Targets : DeleteTarget(t))]_vars
               PROVE  IInv'
    OBVIOUS
  <2>1. Inv' /\ OrphanedByDeletion
    BY NextInv, StepOrphans
  <2>2. CASE UNCHANGED vars
    BY <2>1, <2>2 DEF vars, ConfirmedHasTarget, Confirmed
  <2>3. CASE ~(\E t \in Targets : DeleteTarget(t))
    BY <2>1, <2>3 DEF OrphanedByDeletion, ConfirmedHasTarget, HasTarget
  <2> QED BY <2>2, <2>3
<1> QED BY <1>1, <1>2, PTL
=============================================================================
