------------------------- MODULE JobLifecycleProofs -------------------------
(***************************************************************************)
(* What the job service guarantees for any number of jobs, targets and     *)
(* server processes, with storage faults and crashes; what it guarantees   *)
(* beside the target handlers, and when one process serves: proofs about   *)
(* JobLifecycle, TargetJobs and ServingJobs.                               *)
(***************************************************************************)
EXTENDS ServingJobs, TargetJobs, FiniteSetTheorems, TLAPS

(***************************************************************************)
(* Facts about the transition tables.                                      *)
(***************************************************************************)

\* Every operation's compare-and-set admits only states from which its goal
\* is one legal step away, and none of them is an end state.
LEMMA ExpectedIsOneStepAway ==
    \A k \in Kinds \ {"idle"} :
        /\ Goal(k) \in JobStatus
        /\ \A s \in Expected(k) : s \in Active /\ <<s, Goal(k)>> \in Edge
BY DEF Kinds, Requests, Goal, Expected, Active, Terminal, JobStatus, Edge

\* The row an operation writes is a row, and is in the operation's goal state.
LEMMA MovedIsRow ==
    ASSUME NEW k \in Kinds \ {"idle"}, NEW r \in Row, NEW now \in Nat
    PROVE  Moved(k, r, now) \in Row /\ Moved(k, r, now).status = Goal(k)
<1>1. Goal(k) \in StoredStatus
  BY ExpectedIsOneStepAway DEF StoredStatus
<1> QED BY <1>1 DEF Moved, Row

\* The absent row is a row, of status NONE.
LEMMA NoRowIsRow == NoRow \in Row /\ NoRow.status = "NONE"
BY DEF NoRow, Row, StoredStatus

(***************************************************************************)
(* Type correctness.                                                       *)
(***************************************************************************)

\* Freeing a mutex keeps the types of what it guards.
LEMMA ReleaseTyped ==
    ASSUME TypeOK, NEW m \in Managers, Release(m)
    PROVE  op' \in [Managers -> Op] /\ copy' \in [Managers -> [Jobs -> Row]]
BY NoRowIsRow DEF Release, TypeOK, Op, IdleOp, Kinds

\* ... and so does finishing one job of an operation.
LEMMA DoneTyped ==
    ASSUME TypeOK, NEW m \in Managers, NEW j \in Jobs, Done(m, j)
    PROVE  op' \in [Managers -> Op] /\ copy' \in [Managers -> [Jobs -> Row]]
<1>1. CASE op[m].todo = {j}
  BY <1>1, ReleaseTyped DEF Done
<1>2. CASE op[m].todo # {j}
  <2>1. op' = [op EXCEPT ![m].todo = @ \ {j}] /\ copy' = copy
    BY <1>2 DEF Done
  <2> QED BY <2>1 DEF TypeOK, Op
<1> QED BY <1>1, <1>2

\* An operation past its reads is not idle.
KindFits == \A m \in Managers : op[m].step # "none" => op[m].kind # "idle"

\* The compare-and-set stores rows and events only.
LEMMA CompareAndSetTyped ==
    ASSUME TypeOK, NEW m \in Managers, NEW j \in Jobs,
           op[m].kind # "idle", CompareAndSet(m, j)
    PROVE  job' \in [Jobs -> Row] /\ log' \in [Jobs -> Seq(Event)]
<1> DEFINE k == op[m].kind
<1>1. k \in Kinds \ {"idle"} /\ op[m].at \in Nat /\ copy[m][j] \in Row
  BY DEF TypeOK, Op
<1>2. CASE job[j].status \in Expected(k)
  <2>1. Moved(k, copy[m][j], op[m].at) \in Row
    BY <1>1, MovedIsRow
  <2>2. [prev |-> copy[m][j].status, new |-> Goal(k), at |-> op[m].at] \in Event
    BY <1>1, ExpectedIsOneStepAway DEF Event, Row
  <2>3. job' = [job EXCEPT ![j] = Moved(k, copy[m][j], op[m].at)]
    BY <1>2 DEF CompareAndSet
  <2>4. log' = [log EXCEPT ![j] = Append(@,
             [prev |-> copy[m][j].status, new |-> Goal(k), at |-> op[m].at])]
    BY <1>2 DEF CompareAndSet
  <2>5. log[j] \in Seq(Event)
    BY DEF TypeOK
  <2>6. Append(log[j], [prev |-> copy[m][j].status, new |-> Goal(k), at |-> op[m].at])
            \in Seq(Event)
    BY <2>2, <2>5
  <2> QED BY <2>1, <2>3, <2>4, <2>6 DEF TypeOK
<1>3. CASE job[j].status \notin Expected(k)
  BY <1>3 DEF CompareAndSet, TypeOK
<1> QED BY <1>2, <1>3

\* The service starts well typed.
LEMMA InitTyped == Init => TypeOK /\ KindFits
<1> SUFFICES ASSUME Init PROVE TypeOK /\ KindFits
  OBVIOUS
<1>1. <<>> \in Seq(Event)
  OBVIOUS
<1>2. IdleOp \in Op /\ IdleOp.step = "none"
  BY DEF IdleOp, Op, Kinds
<1> QED BY <1>1, <1>2, NoRowIsRow DEF Init, TypeOK, KindFits, TargetStatus

\* No step of the service, the clients or a crash breaks the types.
LEMMA NextTyped == TypeOK /\ KindFits /\ [Next]_vars => TypeOK' /\ KindFits'
<1> SUFFICES ASSUME TypeOK, KindFits, [Next]_vars PROVE TypeOK' /\ KindFits'
  OBVIOUS
<1>1. CASE UNCHANGED vars
  BY <1>1 DEF vars, TypeOK, KindFits
<1>2. ASSUME NEW m \in Managers, NEW j \in Jobs, CreateValidate(m, j)
      PROVE  TypeOK' /\ KindFits'
  BY <1>2 DEF CreateValidate, TypeOK, KindFits
<1>3. ASSUME NEW m \in Managers, NEW j \in Jobs, CreateCommit(m, j)
      PROVE  TypeOK' /\ KindFits'
  <2>1. [NoRow EXCEPT !.status = "QUEUED"] \in Row
    BY DEF NoRow, Row, StoredStatus, JobStatus, Active
  <2>2. <<[prev |-> "NONE", new |-> "QUEUED", at |-> clock]>> \in Seq(Event)
    BY DEF Event, StoredStatus, JobStatus, Active, TypeOK
  <2>3. \/ /\ job' = [job EXCEPT ![j] = [NoRow EXCEPT !.status = "QUEUED"]]
           /\ log' = [log EXCEPT ![j] =
                        <<[prev |-> "NONE", new |-> "QUEUED", at |-> clock]>>]
        \/ UNCHANGED <<job, log>>
    BY <1>3 DEF CreateCommit
  <2>4. job' \in [Jobs -> Row]
    BY <2>1, <2>3 DEF TypeOK
  <2>5. log' \in [Jobs -> Seq(Event)]
    BY <2>2, <2>3 DEF TypeOK
  <2> QED BY <1>3, <2>4, <2>5 DEF CreateCommit, TypeOK, KindFits
<1>4. ASSUME NEW m \in Managers, NEW k \in Requests, NEW j \in Jobs, Read(m, k, j)
      PROVE  TypeOK' /\ KindFits'
  <2>1. k \in Kinds /\ k # "idle"
    BY DEF Kinds, Requests
  <2>2. op' \in [Managers -> Op] /\ KindFits'
    BY <1>4, <2>1 DEF Read, TypeOK, KindFits, Op
  <2>3. copy' \in [Managers -> [Jobs -> Row]]
    BY <1>4 DEF Read, TypeOK
  <2> QED BY <1>4, <2>2, <2>3 DEF Read, TypeOK
<1>5. ASSUME NEW m \in Managers, Check(m)
      PROVE  TypeOK' /\ KindFits'
  <2>1. op' \in [Managers -> Op]
    <3>1. op' = [op EXCEPT ![m] = [op[m] EXCEPT !.step = "commit", !.at = clock]]
      BY <1>5, Zenon DEF Check
    <3>2. [op[m] EXCEPT !.step = "commit", !.at = clock] \in Op
      BY DEF TypeOK, Op
    <3> QED BY <3>1, <3>2 DEF TypeOK
  <2>2. clock' \in Nat
    BY <1>5 DEF Check, TypeOK
  <2>3. KindFits'
    <3>1. op[m].step = "check" /\ op' = [op EXCEPT ![m].step = "commit", ![m].at = clock]
      BY <1>5 DEF Check
    <3>2. op[m].kind # "idle"
      BY <3>1 DEF KindFits
    <3>3. \A n \in Managers : op'[n].kind = op[n].kind /\ (n # m => op'[n].step = op[n].step)
      BY <3>1 DEF TypeOK, Op
    <3> QED BY <3>2, <3>3 DEF KindFits
  <2> QED BY <1>5, <2>1, <2>2, <2>3 DEF Check, TypeOK
<1>6. ASSUME NEW m \in Managers, Refuse(m)
      PROVE  TypeOK' /\ KindFits'
  <2>1. Release(m)
    BY <1>6 DEF Refuse
  <2>2. KindFits'
    BY <2>1 DEF Release, IdleOp, TypeOK, KindFits
  <2> QED BY <1>6, <2>1, <2>2, ReleaseTyped DEF Refuse, TypeOK
<1>7. ASSUME NEW m \in Managers, NEW t \in Targets, SweepList(m, t)
      PROVE  TypeOK' /\ KindFits'
  <2> DEFINE live == {j \in JobsOf(t) : job[j].status \in Active}
  <2>1. live \subseteq Jobs
    BY DEF JobsOf
  <2>2. op' = [op EXCEPT ![m] =
               [kind |-> "sweep", step |-> "stamp", todo |-> live, at |-> 0]]
    BY <1>7 DEF SweepList
  <2>3. copy' = [copy EXCEPT ![m] = [j \in Jobs |-> IF j \in live THEN job[j] ELSE NoRow]]
    BY <1>7 DEF SweepList
  <2>4. op' \in [Managers -> Op] /\ KindFits'
    BY <2>1, <2>2 DEF TypeOK, KindFits, Op, Kinds
  <2>5. copy' \in [Managers -> [Jobs -> Row]]
    BY <2>3, NoRowIsRow DEF TypeOK
  <2> QED BY <1>7, <2>4, <2>5 DEF SweepList, TypeOK
<1>8. ASSUME NEW m \in Managers, SweepStamp(m)
      PROVE  TypeOK' /\ KindFits'
  <2>1. op' \in [Managers -> Op]
    <3>1. op' = [op EXCEPT ![m] = [op[m] EXCEPT !.step = "commit", !.at = clock]]
      BY <1>8, Zenon DEF SweepStamp
    <3>2. [op[m] EXCEPT !.step = "commit", !.at = clock] \in Op
      BY DEF TypeOK, Op
    <3> QED BY <3>1, <3>2 DEF TypeOK
  <2>2. KindFits'
    <3>1. op[m].step = "stamp" /\ op' = [op EXCEPT ![m].step = "commit", ![m].at = clock]
      BY <1>8 DEF SweepStamp
    <3>2. op[m].kind # "idle"
      BY <3>1 DEF KindFits
    <3>3. \A n \in Managers : op'[n].kind = op[n].kind /\ (n # m => op'[n].step = op[n].step)
      BY <3>1 DEF TypeOK, Op
    <3> QED BY <3>2, <3>3 DEF KindFits
  <2> QED BY <1>8, <2>1, <2>2 DEF SweepStamp, TypeOK
<1>9. ASSUME NEW m \in Managers, NEW j \in Jobs,
             Commit(m, j) \/ CommitFails(m, j)
      PROVE  TypeOK' /\ KindFits'
  <2>1. Done(m, j) /\ UNCHANGED <<target, pending, clock>> /\ op[m].kind # "idle"
    BY <1>9 DEF Commit, CommitFails, KindFits
  <2>2. job' \in [Jobs -> Row] /\ log' \in [Jobs -> Seq(Event)]
    BY <1>9, <2>1, CompareAndSetTyped DEF Commit, CommitFails, TypeOK
  <2>3. KindFits'
    <3>1. CASE Release(m)
      BY <3>1 DEF Release, IdleOp, TypeOK, KindFits
    <3>2. CASE op' = [op EXCEPT ![m].todo = @ \ {j}]
      BY <3>2 DEF TypeOK, KindFits, Op
    <3> QED BY <2>1, <3>1, <3>2 DEF Done
  <2> QED BY <2>1, <2>2, <2>3, DoneTyped DEF TypeOK
<1>10. ASSUME NEW m \in Managers, Crash(m)
       PROVE  TypeOK' /\ KindFits'
  <2>1. Release(m)
    BY <1>10 DEF Crash
  <2>2. KindFits'
    BY <2>1 DEF Release, IdleOp, TypeOK, KindFits
  <2> QED BY <1>10, <2>1, <2>2, ReleaseTyped DEF Crash, TypeOK
<1>11. ASSUME NEW t \in Targets, NEW s \in {"ACTIVE", "INACTIVE"}, SetTarget(t, s)
       PROVE  TypeOK' /\ KindFits'
  BY <1>11 DEF SetTarget, TypeOK, KindFits, TargetStatus
<1>12. ASSUME NEW t \in Targets, DropTarget(t)
       PROVE  TypeOK' /\ KindFits'
  <2>1. \A j \in Jobs : [job[j] EXCEPT !.status = "GONE"] \in Row
    BY DEF TypeOK, Row, StoredStatus
  <2>2. job' \in [Jobs -> Row] /\ log' \in [Jobs -> Seq(Event)]
    BY <1>12, <2>1 DEF DropTarget, TypeOK
  <2> QED BY <1>12, <2>2 DEF DropTarget, TypeOK, KindFits, TargetStatus
<1> QED
  BY <1>1, <1>2, <1>3, <1>4, <1>5, <1>6, <1>7, <1>8, <1>9, <1>10, <1>11, <1>12
     DEF Next, ManagerStep, TargetStep, StartJob, CompleteJob, FailJob, CancelJob, Requests

\* The variables keep their types, and whatever runs past its reads holds the
\* mutex, in every reachable state of every instance.
THEOREM TypeCorrect == Spec => [](TypeOK /\ KindFits)
BY InitTyped, NextTyped, PTL DEF Spec

(***************************************************************************)
(* The stored events of a job tell its stored state.                       *)
(***************************************************************************)

\* The history of one job fits its row.
Fits(j) ==
    IF Stored(j)
    THEN /\ log[j] # <<>>
         /\ log[j][1].new = "QUEUED"
         /\ log[j][Len(log[j])].new = job[j].status
         /\ \A i \in 1 .. Len(log[j]) - 1 :
                <<log[j][i].new, log[j][i + 1].new>> \in Edge
    ELSE log[j] = <<>>

\* HistoryTellsState, one job at a time.
LEMMA FitsIsHistory == HistoryTellsState <=> \A j \in Jobs : Fits(j)
BY DEF HistoryTellsState, Fits

\* One legal step more keeps a history that fits.
LEMMA OneStepFits ==
    ASSUME TypeOK, NEW j \in Jobs, Fits(j), NEW e \in Event,
           job[j].status \in Active, <<job[j].status, e.new>> \in Edge,
           job'[j].status = e.new, log'[j] = Append(log[j], e)
    PROVE  Fits(j)'
<1> DEFINE n == Len(log[j])
<1>1. log[j] \in Seq(Event) /\ Stored(j)
  BY DEF TypeOK, Stored, JobStatus
<1>2. n \in Nat /\ n >= 1 /\ log[j] # <<>>
  BY <1>1 DEF Fits
<1>3. /\ Len(log'[j]) = n + 1
      /\ log'[j][n + 1] = e
      /\ \A i \in 1 .. n : log'[j][i] = log[j][i]
  BY <1>1, <1>2
<1>4. log'[j][1].new = "QUEUED"
  BY <1>1, <1>2, <1>3 DEF Fits
<1>5. ASSUME NEW i \in 1 .. n
      PROVE  <<log'[j][i].new, log'[j][i + 1].new>> \in Edge
  <2>1. CASE i = n
    BY <2>1, <1>1, <1>2, <1>3 DEF Fits
  <2>2. CASE i < n
    <3>1. i \in 1 .. n - 1 /\ i + 1 \in 1 .. n
      BY <2>2, <1>2
    <3>2. <<log[j][i].new, log[j][i + 1].new>> \in Edge
      BY <3>1, <1>1 DEF Fits
    <3>3. log'[j][i] = log[j][i] /\ log'[j][i + 1] = log[j][i + 1]
      BY <3>1, <1>3
    <3>4. log'[j][i].new = log[j][i].new /\ log'[j][i + 1].new = log[j][i + 1].new
      BY <3>3
    <3> QED BY <3>2, <3>4, Zenon
  <2>3. i = n \/ i < n
    BY <1>2
  <2> QED BY <2>1, <2>2, <2>3, Zenon
<1>6. e.new \in JobStatus
  BY DEF Event
<1>7. log'[j] # <<>>
  BY <1>1
<1> QED BY <1>2, <1>3, <1>4, <1>5, <1>6, <1>7 DEF Fits, Stored

\* No step makes the trail of a job and its row disagree.
LEMMA NextTellsState ==
    TypeOK /\ KindFits /\ HistoryTellsState /\ [Next]_vars => HistoryTellsState'
<1> SUFFICES ASSUME TypeOK, KindFits, \A j \in Jobs : Fits(j), [Next]_vars,
                    NEW j \in Jobs
             PROVE  Fits(j)'
  BY FitsIsHistory DEF HistoryTellsState, Fits
<1>0. ASSUME job'[j] = job[j], log'[j] = log[j] PROVE Fits(j)'
  BY <1>0 DEF Fits, Stored
<1>1. CASE UNCHANGED <<job, log>>
  BY <1>0, <1>1
<1>2. ASSUME NEW m \in Managers, NEW i \in Jobs, CreateCommit(m, i)
      PROVE  Fits(j)'
  <2>1. CASE UNCHANGED <<job, log>>
    BY <1>1, <2>1
  <2>2. CASE /\ job' = [job EXCEPT ![i] = [NoRow EXCEPT !.status = "QUEUED"]]
             /\ log' = [log EXCEPT ![i] =
                          <<[prev |-> "NONE", new |-> "QUEUED", at |-> clock]>>]
    <3>1. CASE i = j
      <4>1. job'[j].status = "QUEUED" /\ Stored(j)'
        BY <2>2, <3>1 DEF TypeOK, NoRow, Stored, JobStatus, Active
      <4>2. log'[j] = <<[prev |-> "NONE", new |-> "QUEUED", at |-> clock]>>
        BY <2>2, <3>1 DEF TypeOK
      <4>3. log'[j][1].new = "QUEUED" /\ Len(log'[j]) = 1 /\ log'[j] # <<>>
        BY <4>2
      <4> QED BY <4>1, <4>3 DEF Fits
    <3>2. CASE i # j
      BY <1>0, <2>2, <3>2 DEF TypeOK
    <3> QED BY <3>1, <3>2
  <2> QED BY <1>2, <2>1, <2>2 DEF CreateCommit
<1>3. ASSUME NEW m \in Managers, NEW i \in Jobs, Commit(m, i)
      PROVE  Fits(j)'
  <2> DEFINE k == op[m].kind
             e == [prev |-> copy[m][i].status, new |-> Goal(k), at |-> op[m].at]
  <2>1. k \in Kinds \ {"idle"} /\ op[m].at \in Nat /\ copy[m][i] \in Row
    BY <1>3 DEF Commit, TypeOK, KindFits, Op
  <2>2. CASE job[i].status \in Expected(k) /\ i = j
    <3>1. /\ job' = [job EXCEPT ![i] = Moved(k, copy[m][i], op[m].at)]
          /\ log' = [log EXCEPT ![i] = Append(@, e)]
      BY <1>3, <2>2 DEF Commit, CompareAndSet
    <3>2. e \in Event
      BY <2>1, ExpectedIsOneStepAway DEF Event, Row
    <3>3. job[j].status \in Active /\ <<job[j].status, e.new>> \in Edge
      BY <2>1, <2>2, ExpectedIsOneStepAway
    <3>4. job'[j].status = e.new
      BY <2>1, <2>2, <3>1, MovedIsRow DEF TypeOK
    <3>5. log'[j] = Append(log[j], e)
      BY <2>2, <3>1 DEF TypeOK
    <3>6. Fits(j)
      OBVIOUS
    <3> HIDE DEF e
    <3> QED BY <3>2, <3>3, <3>4, <3>5, <3>6, OneStepFits
  <2>3. CASE ~(job[i].status \in Expected(k) /\ i = j)
    BY <1>0, <1>3, <2>3 DEF Commit, CompareAndSet, TypeOK
  <2> QED BY <2>2, <2>3
<1>4. ASSUME NEW t \in Targets, DropTarget(t)
      PROVE  Fits(j)'
  <2> DEFINE lost == {i \in JobsOf(t) : Cascade /\ Stored(i)}
  <2>1. /\ job' = [i \in Jobs |-> IF i \in lost THEN [job[i] EXCEPT !.status = "GONE"]
                                                ELSE job[i]]
        /\ log' = [i \in Jobs |-> IF i \in lost THEN <<>> ELSE log[i]]
    BY <1>4 DEF DropTarget
  <2>2. CASE j \in lost
    <3>1. job'[j].status = "GONE" /\ log'[j] = <<>>
      BY <2>1, <2>2 DEF TypeOK, Row
    <3>2. ~Stored(j)'
      BY <3>1 DEF Stored, JobStatus, Active, Terminal
    <3> QED BY <3>1, <3>2 DEF Fits
  <2>3. CASE j \notin lost
    BY <1>0, <2>1, <2>3
  <2> QED BY <2>2, <2>3
<1> QED
  BY <1>1, <1>2, <1>3, <1>4
     DEF Next, ManagerStep, TargetStep, vars, CreateValidate, StartJob, CompleteJob,
         FailJob, CancelJob, Read, Check, Refuse,
         SweepList, SweepStamp, CommitFails, Crash, SetTarget

\* However many processes act on a job, with faults and crashes, its stored
\* events start with its creation, follow legal steps and end in the stored
\* state: row and event never come apart.
THEOREM HistoryAlwaysTellsState == Spec => []HistoryTellsState
<1>1. Init => HistoryTellsState
  BY DEF Init, HistoryTellsState, Stored, NoRow, JobStatus, Active, Terminal
<1> QED BY <1>1, TypeCorrect, NextTellsState, PTL DEF Spec

(***************************************************************************)
(* Ended rows are final, and the service implements its state machine.     *)
(***************************************************************************)

\* What any step of the service does to the stored rows: nothing, one job
\* created, one legal step of one active job, or rows gone with a target.
RowStep ==
    \/ UNCHANGED job
    \/ \E j \in Jobs : /\ job[j].status = "NONE"
                       /\ \E r \in Row : r.status = "QUEUED" /\ job' = [job EXCEPT ![j] = r]
    \/ \E j \in Jobs : /\ job[j].status \in Active
                       /\ \E r \in Row : /\ <<job[j].status, r.status>> \in Edge
                                         /\ job' = [job EXCEPT ![j] = r]
    \/ \E lost \in SUBSET Jobs :
          /\ \A j \in lost : job[j].status \in JobStatus
          /\ job' = [j \in Jobs |-> IF j \in lost
                                      THEN [job[j] EXCEPT !.status = "GONE"] ELSE job[j]]

\* A creation waits in one queue only, and for a job that has no row yet.
PendingIsNew ==
    \A m \in Managers : \A j \in pending[m] :
        /\ job[j].status = "NONE"
        /\ \A n \in Managers : j \in pending[n] => n = m

\* What any step does to the row of a job: nothing, or one legal move.
LEMMA NextIsRowStep ==
    TypeOK /\ KindFits /\ PendingIsNew /\ [Next]_vars => RowStep
<1> SUFFICES ASSUME TypeOK, KindFits, PendingIsNew, [Next]_vars PROVE RowStep
  OBVIOUS
<1>1. CASE UNCHANGED job
  BY <1>1 DEF RowStep
<1>2. ASSUME NEW m \in Managers, NEW j \in Jobs, CreateCommit(m, j)
      PROVE  RowStep
  <2> DEFINE r == [NoRow EXCEPT !.status = "QUEUED"]
  <2>1. r \in Row /\ r.status = "QUEUED"
    BY DEF NoRow, Row, StoredStatus, JobStatus, Active
  <2>2. job[j].status = "NONE"
    BY <1>2 DEF CreateCommit, PendingIsNew
  <2>3. job' = [job EXCEPT ![j] = r] \/ UNCHANGED job
    BY <1>2 DEF CreateCommit
  <2> HIDE DEF r
  <2> QED BY <2>1, <2>2, <2>3 DEF RowStep
<1>3. ASSUME NEW m \in Managers, NEW j \in Jobs, Commit(m, j), job' # job
      PROVE  RowStep
  <2> DEFINE r == Moved(op[m].kind, copy[m][j], op[m].at)
  <2>1. /\ op[m].kind \in Kinds \ {"idle"}
        /\ op[m].at \in Nat
        /\ copy[m][j] \in Row
    BY <1>3 DEF Commit, TypeOK, KindFits, Op
  <2>2. job[j].status \in Expected(op[m].kind) /\ job' = [job EXCEPT ![j] = r]
    BY <1>3 DEF Commit, CompareAndSet
  <2>3. r \in Row /\ r.status = Goal(op[m].kind)
    BY <2>1, MovedIsRow
  <2>4. job[j].status \in Active /\ <<job[j].status, r.status>> \in Edge
    BY <2>1, <2>2, <2>3, ExpectedIsOneStepAway
  <2> HIDE DEF r
  <2> QED BY <2>2, <2>3, <2>4 DEF RowStep
<1>4. ASSUME NEW t \in Targets, DropTarget(t)
      PROVE  RowStep
  <2> DEFINE lost == {i \in JobsOf(t) : Cascade /\ Stored(i)}
  <2>1. lost \in SUBSET Jobs /\ \A j \in lost : job[j].status \in JobStatus
    BY DEF JobsOf, Stored
  <2>2. job' = [j \in Jobs |-> IF j \in lost
                                  THEN [job[j] EXCEPT !.status = "GONE"] ELSE job[j]]
    BY <1>4 DEF DropTarget
  <2> HIDE DEF lost
  <2> QED BY <2>1, <2>2 DEF RowStep
<1> QED
  BY <1>1, <1>2, <1>3, <1>4
     DEF Next, ManagerStep, TargetStep, vars, CreateValidate, StartJob, CompleteJob,
         FailJob, CancelJob, Read, Check, Refuse,
         SweepList, SweepStamp, CommitFails, Crash, SetTarget

\* A creation waiting for the mutex keeps an identifier nobody has stored.
LEMMA NextPendingIsNew ==
    TypeOK /\ KindFits /\ PendingIsNew /\ [Next]_vars => PendingIsNew'
<1> SUFFICES ASSUME TypeOK, KindFits, PendingIsNew, [Next]_vars PROVE PendingIsNew'
  OBVIOUS
<1>1. CASE UNCHANGED <<job, pending>>
  BY <1>1 DEF PendingIsNew
<1>2. ASSUME NEW m \in Managers, NEW j \in Jobs, CreateValidate(m, j)
      PROVE  PendingIsNew'
  BY <1>2 DEF CreateValidate, PendingIsNew, TypeOK
<1>3. ASSUME NEW m \in Managers, NEW j \in Jobs, CreateCommit(m, j)
      PROVE  PendingIsNew'
  <2>1. pending' = [pending EXCEPT ![m] = @ \ {j}] /\ j \in pending[m]
    BY <1>3 DEF CreateCommit
  <2>2. \A i \in Jobs : i # j => job'[i] = job[i]
    BY <1>3 DEF CreateCommit, TypeOK
  <2>3. \A n \in Managers : j \notin pending'[n]
    BY <2>1 DEF PendingIsNew, TypeOK
  <2> QED BY <2>1, <2>2, <2>3 DEF PendingIsNew, TypeOK
<1>4. ASSUME NEW m \in Managers, NEW j \in Jobs, Commit(m, j)
      PROVE  PendingIsNew'
  <2>1. pending' = pending
    BY <1>4 DEF Commit
  <2>2. \A i \in Jobs : job[i].status = "NONE" => job'[i] = job[i]
    <3>1. op[m].kind \in Kinds \ {"idle"}
      BY <1>4 DEF Commit, TypeOK, KindFits, Op
    <3>2. "NONE" \notin Expected(op[m].kind)
      BY <3>1, ExpectedIsOneStepAway DEF Active
    <3> QED BY <1>4, <3>2 DEF Commit, CompareAndSet, TypeOK
  <2> QED BY <2>1, <2>2 DEF PendingIsNew, TypeOK
<1>5. ASSUME NEW m \in Managers, Crash(m)
      PROVE  PendingIsNew'
  BY <1>5 DEF Crash, PendingIsNew, TypeOK
<1>6. ASSUME NEW t \in Targets, DropTarget(t)
      PROVE  PendingIsNew'
  <2>1. pending' = pending
    BY <1>6 DEF DropTarget
  <2>2. \A i \in Jobs : job[i].status = "NONE" => job'[i] = job[i]
    BY <1>6 DEF DropTarget, Stored, JobStatus, Active, Terminal
  <2> QED BY <2>1, <2>2 DEF PendingIsNew, TypeOK
<1> QED
  BY <1>1, <1>2, <1>3, <1>4, <1>5, <1>6
     DEF Next, ManagerStep, TargetStep, vars, StartJob, CompleteJob, FailJob,
         CancelJob, Read, Check, Refuse,
         SweepList, SweepStamp, CommitFails, SetTarget

\* At the start no creation waits.
LEMMA InitPendingIsNew == Init => PendingIsNew
BY DEF Init, PendingIsNew

\* Identifiers of waiting creations are never in use.
LEMMA AlwaysPendingIsNew == Spec => []PendingIsNew
BY InitPendingIsNew, NextPendingIsNew, TypeCorrect, PTL DEF Spec

\* An ended job's row is never written again: neither a late transition of
\* another process, nor a sweep, nor a repeated request changes it.
THEOREM EndedRowsStayFinal == Spec => EndedRowsAreFinal
<1>1. ASSUME TypeOK, RowStep
      PROVE  \A j \in Jobs : job[j].status \in Terminal =>
                 job'[j] = job[j] \/ job'[j].status = "GONE"
  <2> SUFFICES ASSUME NEW j \in Jobs, job[j].status \in Terminal, job'[j] # job[j]
               PROVE  job'[j].status = "GONE"
    OBVIOUS
  <2>1. job[j].status # "NONE" /\ job[j].status \notin Active
    BY DEF Terminal, Active
  <2>2. PICK lost \in SUBSET Jobs :
          job' = [i \in Jobs |-> IF i \in lost
                                   THEN [job[i] EXCEPT !.status = "GONE"] ELSE job[i]]
    BY <1>1, <2>1 DEF RowStep, TypeOK
  <2> QED BY <1>1, <2>2 DEF TypeOK, Row
<1>2. TypeOK /\ KindFits /\ PendingIsNew /\ [Next]_vars
        => [\A j \in Jobs : job[j].status \in Terminal =>
                job'[j] = job[j] \/ job'[j].status = "GONE"]_vars
  BY <1>1, NextIsRowStep
<1> QED BY <1>2, TypeCorrect, AlwaysPendingIsNew, PTL DEF Spec, EndedRowsAreFinal

\* The two specifications speak of the same states and steps.
LEMMA SameStates == StateMachine!JobStatus = JobStatus /\ StateMachine!Edge = Edge
BY DEF StateMachine!JobStatus, StateMachine!Active, StateMachine!Terminal,
       StateMachine!Edge, JobStatus, Active, Terminal, Edge

\* Every behaviour of the service, seen through the stored statuses, is a
\* behaviour of the abstract state machine: single legal steps, one job at a
\* time, and rows that go only with their target.
THEOREM ServiceImplementsStateMachine == Spec => ImplementsStateMachine
<1> DEFINE bar == [j \in Jobs |-> job[j].status]
<1>1. Init => StateMachine!Init
  BY DEF Init, StateMachine!Init, NoRow
<1>2. ASSUME TypeOK, RowStep
      PROVE  StateMachine!Next \/ UNCHANGED bar
  <2>1. CASE UNCHANGED job
    BY <2>1
  <2>2. ASSUME NEW j \in Jobs, NEW r \in Row, r.status \in JobStatus,
               \/ job[j].status = "NONE" /\ r.status = "QUEUED"
               \/ <<job[j].status, r.status>> \in Edge,
               job' = [job EXCEPT ![j] = r]
        PROVE  StateMachine!Next
    <3>1. bar[j] = job[j].status
      OBVIOUS
    <3>2. bar' = [bar EXCEPT ![j] = r.status]
      BY <1>2, <2>2 DEF TypeOK
    <3>3. StateMachine!Step(j)
      BY <2>2, <3>1, <3>2, SameStates DEF StateMachine!Step
    <3> QED BY <3>3 DEF StateMachine!Next
  <2>3. ASSUME NEW lost \in SUBSET Jobs,
               \A j \in lost : job[j].status \in JobStatus,
               job' = [j \in Jobs |-> IF j \in lost
                                        THEN [job[j] EXCEPT !.status = "GONE"] ELSE job[j]]
        PROVE  StateMachine!Next
    <3>1. \A j \in lost : bar[j] \in JobStatus
      BY <2>3
    <3>2. bar' = [j \in Jobs |-> IF j \in lost THEN "GONE" ELSE bar[j]]
      BY <1>2, <2>3 DEF TypeOK, Row
    <3>3. StateMachine!Vanish(lost)
      BY <3>1, <3>2, SameStates DEF StateMachine!Vanish
    <3> QED BY <3>3 DEF StateMachine!Next
  <2>4. \A s, u : <<s, u>> \in Edge => u \in JobStatus
    BY DEF Edge, JobStatus, Active, Terminal
  <2>5. "QUEUED" \in JobStatus
    BY DEF JobStatus, Active
  <2> QED BY <1>2, <2>1, <2>2, <2>3, <2>4, <2>5 DEF RowStep
<1>3. TypeOK /\ KindFits /\ PendingIsNew /\ [Next]_vars => [StateMachine!Next]_bar
  BY <1>2, NextIsRowStep
<1> QED
  BY <1>1, <1>3, TypeCorrect, AlwaysPendingIsNew, PTL
     DEF Spec, ImplementsStateMachine, StateMachine!Spec

(***************************************************************************)
(* The target handlers stay inside the job service.                        *)
(***************************************************************************)

\* A request under way has a manager and a target, and read a status that
\* was there.
ReqFits ==
    \A a \in Admins : req[a] # NoReq =>
        /\ req[a].mgr \in Managers /\ req[a].target \in Targets
        /\ req[a].seen \in {"ACTIVE", "INACTIVE"}
        /\ req[a].want \in {"ACTIVE", "INACTIVE", "keep"}

\* A handler that is somewhere serves a request.
LEMMA AtIsReq ==
    ASSUME TTypeOK, ReqFits, NEW a \in Admins, req[a].at \in {"read", "sweep", "sweeping"}
    PROVE  /\ req[a] \in Req
           /\ req[a].mgr \in Managers /\ req[a].target \in Targets
           /\ req[a].seen \in {"ACTIVE", "INACTIVE"}
           /\ Written(req[a]) \in {"ACTIVE", "INACTIVE"}
<1>1. req[a] # NoReq
  BY DEF NoReq
<1> QED BY <1>1 DEF TTypeOK, ReqFits, Written

\* What a handler writes is a change of the target's status, or none.
LEMMA UpdateWriteIsStep ==
    ASSUME TTypeOK, ReqFits, NEW a \in Admins, UpdateWrite(a)
    PROVE  (\E t \in Targets : TargetStep(t)) \/ UNCHANGED vars
<1> DEFINE t == req[a].target
<1>1. t \in Targets /\ Written(req[a]) \in {"ACTIVE", "INACTIVE"}
  BY AtIsReq DEF UpdateWrite
<1>2. UNCHANGED <<job, log, pending, op, copy, clock>>
  BY DEF UpdateWrite
<1>3. CASE UNCHANGED target
  BY <1>2, <1>3 DEF vars
<1>4. CASE /\ target[t] # "DELETED"
           /\ target' = [target EXCEPT ![t] = Written(req[a])]
  <2>1. CASE target[t] = Written(req[a])
    <3>1. target' = target
      BY <1>4, <2>1 DEF TTypeOK, TypeOK
    <3> QED BY <1>2, <3>1 DEF vars
  <2>2. CASE target[t] # Written(req[a])
    <3>1. SetTarget(t, Written(req[a]))
      BY <1>1, <1>2, <1>4, <2>2 DEF SetTarget
    <3> QED BY <1>1, <3>1 DEF TargetStep
  <2> QED BY <2>1, <2>2
<1> QED BY <1>3, <1>4 DEF UpdateWrite

\* Every step of the handlers, the job API and the processes is a step of the
\* job service.
LEMMA HandlersStayInside ==
    TTypeOK /\ ReqFits /\ [TNext]_tvars => [Next]_vars
<1> SUFFICES ASSUME TTypeOK, ReqFits, [TNext]_tvars PROVE [Next]_vars
  OBVIOUS
<1>1. CASE UNCHANGED tvars
  BY <1>1 DEF tvars
<1>2. ASSUME NEW a \in Admins, AdminStep(a) PROVE [Next]_vars
  <2>1. CASE UNCHANGED vars
    BY <2>1
  <2>2. CASE UpdateWrite(a)
    BY <2>2, UpdateWriteIsStep DEF Next
  <2>3. CASE Sweep(a)
    <3>1. req[a].mgr \in Managers /\ req[a].target \in Targets
      BY <2>3, AtIsReq DEF Sweep
    <3>2. SweepList(req[a].mgr, req[a].target)
      BY <2>3 DEF Sweep
    <3> QED BY <3>1, <3>2 DEF Next, ManagerStep
  <2>4. CASE SweepReturns(a)
    <3>1. req[a].target \in Targets
      BY <2>4, AtIsReq DEF SweepReturns
    <3>2. DropTarget(req[a].target) \/ UNCHANGED vars
      BY <2>4 DEF SweepReturns
    <3> QED BY <3>1, <3>2 DEF Next, TargetStep
  <2> QED BY <1>2, <2>1, <2>2, <2>3, <2>4 DEF AdminStep, UpdateRead, DeleteCall, SweepNothing
<1>3. ASSUME NEW m \in Managers, JobStep(m) PROVE [Next]_vars
  BY <1>3 DEF JobStep, Next, ManagerStep
<1>4. ASSUME NEW m \in Managers, ProcessCrash(m) PROVE [Next]_vars
  BY <1>4 DEF ProcessCrash, Next, ManagerStep
<1> QED BY <1>1, <1>2, <1>3, <1>4 DEF TNext

\* The handlers start with nothing to do.
LEMMA InitHandlers == TInit => TTypeOK /\ KindFits /\ ReqFits
<1>1. AnyAdmin \in Admins
  BY AdminsAssumption DEF AnyAdmin
<1> QED BY <1>1, InitTyped, MaxEditsAssumption DEF TInit, TTypeOK, ReqFits

\* No step of a handler breaks the types of the requests, or makes a request
\* rely on a status that was not there.
LEMMA NextHandlers ==
    TTypeOK /\ KindFits /\ ReqFits /\ [TNext]_tvars => TTypeOK' /\ KindFits' /\ ReqFits'
<1> SUFFICES ASSUME TTypeOK, KindFits, ReqFits, [TNext]_tvars
             PROVE  TTypeOK' /\ KindFits' /\ ReqFits'
  OBVIOUS
<1>1. TypeOK' /\ KindFits'
  BY HandlersStayInside, NextTyped DEF TTypeOK
<1> DEFINE Typed == /\ serial \in BOOLEAN
                    /\ req \in [Admins -> Req \cup {NoReq}]
                    /\ sweeper \in [Managers -> Admins]
                    /\ edits \in 0 .. MaxEdits
<1>2. Typed
  BY DEF TTypeOK
<1> SUFFICES Typed' /\ ReqFits'
  BY <1>1 DEF TTypeOK
<1>3. CASE UNCHANGED <<serial, req, sweeper, edits>>
  BY <1>2, <1>3 DEF ReqFits
<1>4. ASSUME NEW a \in Admins, NEW r \in Req,
             req' = [req EXCEPT ![a] = r], UNCHANGED <<serial, sweeper>>,
             edits < MaxEdits, edits' = edits + 1,
             r.seen # "DELETED"
      PROVE  Typed' /\ ReqFits'
  <2>1. req' \in [Admins -> Req \cup {NoReq}]
    BY <1>2, <1>4
  <2>2. edits' \in 0 .. MaxEdits
    BY <1>2, <1>4, MaxEditsAssumption
  <2>3. /\ r.mgr \in Managers /\ r.target \in Targets
        /\ r.seen \in {"ACTIVE", "INACTIVE"}
        /\ r.want \in {"ACTIVE", "INACTIVE", "keep"}
    BY <1>4 DEF Req, TargetStatus
  <2>4. ReqFits'
    BY <1>2, <1>4, <2>3 DEF ReqFits
  <2> QED BY <1>2, <1>4, <2>1, <2>2, <2>4
<1>5. ASSUME NEW a \in Admins, NEW m \in Managers, NEW t \in Targets,
             NEW want \in {"ACTIVE", "INACTIVE", "keep"}, UpdateRead(a, m, t, want)
      PROVE  Typed' /\ ReqFits'
  <2> DEFINE r == [at |-> "read", kind |-> "update", mgr |-> m,
                   target |-> t, seen |-> target[t], want |-> want]
  <2>1. r \in Req /\ r.seen # "DELETED"
    BY <1>5 DEF UpdateRead, Req, TTypeOK, TypeOK
  <2>2. /\ req' = [req EXCEPT ![a] = r] /\ UNCHANGED <<serial, sweeper>>
        /\ edits < MaxEdits /\ edits' = edits + 1
    BY <1>5 DEF UpdateRead
  <2> HIDE DEF r
  <2> QED BY <1>4, <2>1, <2>2
<1>6. ASSUME NEW a \in Admins, NEW m \in Managers, NEW t \in Targets, DeleteCall(a, m, t)
      PROVE  Typed' /\ ReqFits'
  <2> DEFINE r == [at |-> "sweep", kind |-> "delete", mgr |-> m,
                   target |-> t, seen |-> target[t], want |-> "keep"]
  <2>1. r \in Req /\ r.seen # "DELETED"
    BY <1>6 DEF DeleteCall, Req, TTypeOK, TypeOK
  <2>2. /\ req' = [req EXCEPT ![a] = r] /\ UNCHANGED <<serial, sweeper>>
        /\ edits < MaxEdits /\ edits' = edits + 1
    BY <1>6 DEF DeleteCall
  <2> HIDE DEF r
  <2> QED BY <1>4, <2>1, <2>2
<1>7. ASSUME NEW a \in Admins, Finish(a), UNCHANGED <<serial, sweeper, edits>>
      PROVE  Typed' /\ ReqFits'
  BY <1>2, <1>7 DEF Finish, ReqFits
<1>8. ASSUME NEW a \in Admins, NEW where \in {"sweep", "sweeping"},
             req[a] \in Req, Goes(a, where), UNCHANGED <<serial, edits>>,
             sweeper' \in [Managers -> Admins]
      PROVE  Typed' /\ ReqFits'
  <2>1. [req[a] EXCEPT !.at = where] \in Req
    BY <1>8 DEF Req
  <2>2. req' = [req EXCEPT ![a] = [req[a] EXCEPT !.at = where]]
    BY <1>8 DEF Goes
  <2>3. req' \in [Admins -> Req \cup {NoReq}]
    BY <1>2, <2>1, <2>2
  <2>4. req[a] # NoReq
    <3>1. req[a].at # "idle"
      BY <1>8 DEF Req
    <3> QED BY <3>1 DEF NoReq
  <2>5. ReqFits'
    BY <1>2, <1>8, <2>2, <2>4 DEF ReqFits, Req
  <2> QED BY <1>2, <1>8, <2>3, <2>5
<1>9. ASSUME NEW a \in Admins, UpdateWrite(a) PROVE Typed' /\ ReqFits'
  <2>1. UNCHANGED <<serial, sweeper, edits>> /\ (Goes(a, "sweep") \/ Finish(a))
    BY <1>9 DEF UpdateWrite
  <2>2. req[a] \in Req
    BY <1>9, AtIsReq DEF UpdateWrite
  <2> QED BY <1>2, <1>7, <1>8, <2>1, <2>2
<1>10. ASSUME NEW a \in Admins, Sweep(a) PROVE Typed' /\ ReqFits'
  <2>1. req[a] \in Req
    BY <1>10, AtIsReq DEF Sweep
  <2>2. sweeper' \in [Managers -> Admins]
    BY <1>2, <1>10 DEF Sweep
  <2> QED BY <1>8, <1>10, <2>1, <2>2 DEF Sweep
<1>11. ASSUME NEW a \in Admins, SweepNothing(a) PROVE Typed' /\ ReqFits'
  <2>1. req[a] \in Req
    BY <1>11, AtIsReq DEF SweepNothing
  <2>2. sweeper' \in [Managers -> Admins]
    BY <1>2, <1>11 DEF SweepNothing
  <2> QED BY <1>8, <1>11, <2>1, <2>2 DEF SweepNothing
<1>12. ASSUME NEW a \in Admins, SweepReturns(a) PROVE Typed' /\ ReqFits'
  BY <1>7, <1>12 DEF SweepReturns
<1>13. ASSUME NEW m \in Managers, JobStep(m) PROVE Typed' /\ ReqFits'
  BY <1>3, <1>13 DEF JobStep
<1>14. ASSUME NEW m \in Managers, ProcessCrash(m) PROVE Typed' /\ ReqFits'
  <2>1. req' = [a \in Admins |-> IF req[a] # NoReq /\ req[a].mgr = m THEN NoReq ELSE req[a]]
    BY <1>14 DEF ProcessCrash
  <2>2. UNCHANGED <<serial, sweeper, edits>>
    BY <1>14 DEF ProcessCrash
  <2>3. ReqFits'
    BY <2>1 DEF ReqFits
  <2> QED BY <1>2, <2>1, <2>2, <2>3
<1>15. CASE UNCHANGED tvars
  BY <1>3, <1>15 DEF tvars
<1> QED
  BY <1>5, <1>6, <1>9, <1>10, <1>11, <1>12, <1>13, <1>14, <1>15 DEF TNext, AdminStep

\* The requests of the target handlers are well typed in every reachable
\* state, with any number of administrators, processes and crashes.
THEOREM HandlersTyped == TSpec => []TTypeOK
BY InitHandlers, NextHandlers, PTL DEF TSpec

\* The target handlers over the job service are the job service, as far as
\* targets, jobs and events go: what is proved of JobLifecycle holds of them.
THEOREM HandlersImplementService == TSpec => Spec
<1>1. TInit => Init
  BY DEF TInit
<1> QED BY <1>1, InitHandlers, NextHandlers, HandlersStayInside, PTL DEF TSpec, Spec

\* No step leaves a row behind a target that is gone, when the store has
\* foreign keys.
LEMMA NextKeepsTargets ==
    ASSUME Cascade
    PROVE  TypeOK /\ KindFits /\ NoJobWithoutTarget /\ [Next]_vars => NoJobWithoutTarget'
<1> SUFFICES ASSUME TypeOK, KindFits, NoJobWithoutTarget, [Next]_vars,
                    NEW j \in Jobs, Stored(j)'
             PROVE  TargetRow(j)' # "DELETED"
  BY DEF NoJobWithoutTarget
<1>0. TargetOf[j] \in Targets
  BY TargetOfAssumption
<1>1. CASE UNCHANGED <<job, target>>
  BY <1>1 DEF NoJobWithoutTarget, Stored, TargetRow
<1>2. ASSUME NEW m \in Managers, NEW i \in Jobs, CreateCommit(m, i)
      PROVE  TargetRow(j)' # "DELETED"
  <2>1. target' = target
    BY <1>2 DEF CreateCommit
  <2>2. CASE Stored(j)
    BY <2>1, <2>2 DEF NoJobWithoutTarget, TargetRow
  <2>3. CASE ~Stored(j)
    BY <1>2, <2>1, <2>3 DEF CreateCommit, Stored, TypeOK, TargetRow
  <2> QED BY <2>2, <2>3
<1>3. ASSUME NEW m \in Managers, NEW i \in Jobs, Commit(m, i)
      PROVE  TargetRow(j)' # "DELETED"
  <2>1. target' = target
    BY <1>3 DEF Commit
  <2>2. op[m].kind \in Kinds \ {"idle"}
    BY <1>3 DEF Commit, TypeOK, KindFits, Op
  <2>3. Stored(j)
    <3>1. CASE job'[j] = job[j]
      BY <3>1 DEF Stored
    <3>2. CASE job'[j] # job[j]
      <4>1. job[j].status \in Expected(op[m].kind)
        BY <1>3, <3>2 DEF Commit, CompareAndSet, TypeOK
      <4> QED BY <2>2, <4>1, ExpectedIsOneStepAway DEF Stored, JobStatus
    <3> QED BY <3>1, <3>2
  <2> QED BY <2>1, <2>3 DEF NoJobWithoutTarget, TargetRow
<1>4. ASSUME NEW t \in Targets, NEW s \in {"ACTIVE", "INACTIVE"}, SetTarget(t, s)
      PROVE  TargetRow(j)' # "DELETED"
  <2>1. Stored(j)
    BY <1>4 DEF SetTarget, Stored
  <2> QED BY <1>0, <1>4, <2>1 DEF SetTarget, NoJobWithoutTarget, TargetRow, TypeOK
<1>5. ASSUME NEW t \in Targets, DropTarget(t)
      PROVE  TargetRow(j)' # "DELETED"
  <2> DEFINE lost == {i \in JobsOf(t) : Cascade /\ Stored(i)}
  <2>1. job'[j] = IF j \in lost THEN [job[j] EXCEPT !.status = "GONE"] ELSE job[j]
    BY <1>5 DEF DropTarget
  <2>2. j \notin lost
    <3> SUFFICES ASSUME j \in lost PROVE FALSE
      OBVIOUS
    <3>1. job'[j].status = "GONE"
      BY <2>1 DEF TypeOK, Row
    <3> QED BY <3>1 DEF Stored, JobStatus, Active, Terminal
  <2>3. Stored(j) /\ TargetOf[j] # t
    BY <2>1, <2>2 DEF Stored, JobsOf
  <2> QED BY <1>0, <1>5, <2>3 DEF DropTarget, NoJobWithoutTarget, TargetRow, TypeOK
<1> QED
  BY <1>1, <1>2, <1>3, <1>4, <1>5
     DEF Next, ManagerStep, TargetStep, vars, CreateValidate, StartJob, CompleteJob,
         FailJob, CancelJob, Read, Check, Refuse,
         SweepList, SweepStamp, CommitFails, Crash

\* Under PostgreSQL no job outlives the row of its target, although handlers
\* and creations look at the target long before they write.
THEOREM JobsGoWithTheirTarget ==
    ASSUME Cascade
    PROVE  TSpec => []NoJobWithoutTarget
<1>1. Init => NoJobWithoutTarget
  BY DEF Init, NoJobWithoutTarget, Stored, NoRow, JobStatus, Active, Terminal
<1>2. TypeOK /\ KindFits /\ NoJobWithoutTarget /\ [Next]_vars => NoJobWithoutTarget'
  BY NextKeepsTargets
<1> QED BY <1>1, <1>2, HandlersImplementService, TypeCorrect, PTL DEF Spec

(***************************************************************************)
(* What the mutex adds when one process serves.                            *)
(***************************************************************************)

\* The processes that serve run the job service.
LEMMA ServingStaysInside ==
    serving \subseteq Managers /\ [SNext]_svars => [Next]_vars /\ serving' = serving
BY DEF SNext, svars, Next

\* With the processes that serve fixed, the service is still the service.
LEMMA ServingIsService == SSpec => Spec
<1>1. SSpec => [](serving \subseteq Managers)
  <2>1. SInit => serving \subseteq Managers
    BY DEF SInit
  <2>2. serving \subseteq Managers /\ [SNext]_svars => (serving \subseteq Managers)'
    BY ServingStaysInside
  <2> QED BY <2>1, <2>2, PTL DEF SSpec
<1>2. SInit => Init
  BY DEF SInit
<1> QED BY <1>1, <1>2, ServingStaysInside, PTL DEF SSpec, Spec

\* No time that is stored is SQL NULL.
Timed == clock # 0 /\ \A m \in Managers : op[m].step = "commit" => op[m].at # 0

\* When one process serves, the copies it works on are the rows, but of jobs
\* that went with their target; without an operation it works on none.
Fresh ==
    \A m \in serving :
        /\ Idle(m) => op[m].todo = {}
        /\ \A j \in op[m].todo : copy[m][j] = job[j] \/ job[j].status = "GONE"

\* The chain of one job's events, and the start in its row.
Kept(j) ==
    /\ \A i \in 1 .. Len(log[j]) - 1 : log[j][i + 1].prev = log[j][i].new
    /\ Stored(j) /\ (\E i \in 1 .. Len(log[j]) : log[j][i].new = "RUNNING")
           => job[j].started # 0

\* Times stay times.
LEMMA NextTimed == TypeOK /\ KindFits /\ Timed /\ [Next]_vars => Timed'
<1> SUFFICES ASSUME TypeOK, KindFits, Timed, [Next]_vars PROVE Timed'
  OBVIOUS
<1>1. CASE UNCHANGED <<op, clock>>
  BY <1>1 DEF Timed
<1>2. ASSUME NEW m \in Managers, UNCHANGED op, clock' = clock + 1 PROVE Timed'
  BY <1>2 DEF Timed, TypeOK
<1>3. ASSUME NEW m \in Managers, Release(m), UNCHANGED clock PROVE Timed'
  BY <1>3 DEF Release, IdleOp, Timed, TypeOK
<1>4. ASSUME NEW m \in Managers, NEW j \in Jobs, Done(m, j), UNCHANGED clock PROVE Timed'
  <2>1. CASE op[m].todo = {j}
    BY <1>3, <1>4, <2>1 DEF Done
  <2>2. CASE op[m].todo # {j}
    BY <1>4, <2>2 DEF Done, Timed, TypeOK, Op
  <2> QED BY <2>1, <2>2
<1>5. ASSUME NEW m \in Managers, op'[m].step # "commit",
             \A n \in Managers : n # m => op'[n] = op[n], UNCHANGED clock
      PROVE  Timed'
  BY <1>5 DEF Timed
<1>6. ASSUME NEW m \in Managers, Check(m) \/ SweepStamp(m) PROVE Timed'
  <2>1. op' = [op EXCEPT ![m].step = "commit", ![m].at = clock] /\ clock' = clock + 1
    BY <1>6 DEF Check, SweepStamp
  <2> QED BY <2>1 DEF Timed, TypeOK, Op
<1>7. ASSUME NEW m \in Managers, NEW k \in Requests, NEW j \in Jobs, Read(m, k, j)
      PROVE  Timed'
  <2>1. op'[m].step = "check" /\ \A n \in Managers : n # m => op'[n] = op[n]
    BY <1>7 DEF Read, TypeOK
  <2> QED BY <1>5, <1>7, <2>1 DEF Read
<1>8. ASSUME NEW m \in Managers, NEW t \in Targets, SweepList(m, t) PROVE Timed'
  <2>1. op'[m].step = "stamp" /\ \A n \in Managers : n # m => op'[n] = op[n]
    BY <1>8 DEF SweepList, TypeOK
  <2> QED BY <1>5, <1>8, <2>1 DEF SweepList
<1> QED
  BY <1>1, <1>2, <1>3, <1>4, <1>6, <1>7, <1>8
     DEF Next, ManagerStep, TargetStep, vars, StartJob, CompleteJob, FailJob, CancelJob,
         Requests, CreateValidate, CreateCommit, Refuse, Commit, CommitFails, Crash,
         SetTarget, DropTarget

\* The copies of the one process stay the rows.
LEMMA NextFresh ==
    ASSUME NEW m \in Managers, serving = {m}
    PROVE  TypeOK /\ KindFits /\ Fresh /\ [SNext]_svars => Fresh'
<1> SUFFICES ASSUME TypeOK, KindFits, Fresh, [SNext]_svars PROVE Fresh'
  OBVIOUS
<1> DEFINE Fine == /\ Idle(m) => op[m].todo = {}
                   /\ \A j \in op[m].todo : copy[m][j] = job[j] \/ job[j].status = "GONE"
<1>0. serving' = {m} /\ Fine
  BY ServingStaysInside DEF Fresh
<1> SUFFICES Fine'
  BY <1>0 DEF Fresh
<1>1. CASE UNCHANGED <<job, op, copy>>
  BY <1>0, <1>1 DEF Idle
<1>2. ASSUME Release(m) PROVE Fine'
  BY <1>2 DEF Release, IdleOp, TypeOK
<1>3. ASSUME NEW j \in Jobs, Done(m, j), \A i \in Jobs : i # j => job'[i] = job[i]
      PROVE  Fine'
  <2>1. CASE op[m].todo = {j}
    BY <1>2, <1>3, <2>1 DEF Done
  <2>2. CASE op[m].todo # {j}
    <3>1. op' = [op EXCEPT ![m].todo = @ \ {j}] /\ copy' = copy
      BY <1>3, <2>2 DEF Done
    <3>2. op'[m].todo = op[m].todo \ {j} /\ op'[m].kind = op[m].kind
      BY <3>1 DEF TypeOK, Op
    <3>3. op[m].todo \subseteq Jobs
      BY DEF TypeOK, Op
    <3> QED BY <1>0, <1>3, <3>1, <3>2, <3>3 DEF Idle
  <2> QED BY <2>1, <2>2
<1>4. ASSUME NEW j \in Jobs, CreateCommit(m, j) PROVE Fine'
  BY <1>0, <1>4 DEF CreateCommit, Idle
<1>5. ASSUME NEW k \in Requests, NEW j \in Jobs, Read(m, k, j) PROVE Fine'
  <2>1. op'[m].todo = {j} /\ op'[m].kind = k
    BY <1>5 DEF Read, TypeOK
  <2>2. copy'[m][j] = job[j] /\ job' = job
    BY <1>5 DEF Read, TypeOK
  <2>3. k # "idle"
    BY DEF Requests
  <2> QED BY <2>1, <2>2, <2>3 DEF Idle
<1>6. ASSUME Check(m) \/ SweepStamp(m) PROVE Fine'
  <2>1. op' = [op EXCEPT ![m].step = "commit", ![m].at = clock] /\ UNCHANGED <<job, copy>>
    BY <1>6 DEF Check, SweepStamp
  <2>2. op'[m].todo = op[m].todo /\ op'[m].kind = op[m].kind
    BY <2>1 DEF TypeOK, Op
  <2> QED BY <1>0, <2>1, <2>2 DEF Idle
<1>7. ASSUME NEW t \in Targets, SweepList(m, t) PROVE Fine'
  <2> DEFINE live == {j \in JobsOf(t) : job[j].status \in Active}
  <2>1. op'[m].todo = live /\ op'[m].kind = "sweep"
    BY <1>7 DEF SweepList, TypeOK
  <2>2. copy'[m] = [j \in Jobs |-> IF j \in live THEN job[j] ELSE NoRow] /\ job' = job
    BY <1>7 DEF SweepList, TypeOK
  <2>3. live \subseteq Jobs
    BY DEF JobsOf
  <2> QED BY <2>1, <2>2, <2>3 DEF Idle
<1>8. ASSUME NEW j \in Jobs, Commit(m, j) PROVE Fine'
  <2>1. \A i \in Jobs : i # j => job'[i] = job[i]
    BY <1>8 DEF Commit, CompareAndSet, TypeOK
  <2> QED BY <1>3, <1>8, <2>1 DEF Commit
<1>9. ASSUME NEW j \in Jobs, CommitFails(m, j) PROVE Fine'
  BY <1>3, <1>9 DEF CommitFails
<1>10. ASSUME NEW t \in Targets, DropTarget(t) PROVE Fine'
  <2>1. \A j \in Jobs : job'[j] = job[j] \/ job'[j].status = "GONE"
    BY <1>10 DEF DropTarget, TypeOK, Row
  <2>2. \A j \in Jobs : job[j].status = "GONE" => job'[j].status = "GONE"
    BY <2>1
  <2>3. op[m].todo \subseteq Jobs
    BY DEF TypeOK, Op
  <2> QED BY <1>0, <1>10, <2>1, <2>2, <2>3 DEF DropTarget, Idle
<1>11. CASE Refuse(m) \/ Crash(m)
  BY <1>2, <1>11 DEF Refuse, Crash
<1>12. CASE ManagerStep(m)
  BY <1>1, <1>4, <1>5, <1>6, <1>7, <1>8, <1>9, <1>11, <1>12
     DEF ManagerStep, StartJob, CompleteJob, FailJob, CancelJob, Requests, CreateValidate
<1>13. CASE \E t \in Targets : TargetStep(t)
  BY <1>1, <1>10, <1>13 DEF TargetStep, SetTarget
<1> QED
  BY <1>1, <1>12, <1>13 DEF SNext, svars, vars

\* A commit from a copy that is the row keeps the chain and the start.
LEMMA CommitKeeps ==
    ASSUME TypeOK, KindFits, Timed, NEW m \in Managers, NEW j \in Jobs,
           Fits(j), Kept(j), Commit(m, j),
           job[j].status \in Expected(op[m].kind), copy[m][j] = job[j]
    PROVE  Kept(j)'
<1> DEFINE k == op[m].kind
           n == Len(log[j])
           e == [prev |-> job[j].status, new |-> Goal(k), at |-> op[m].at]
<1>1. k \in Kinds \ {"idle"} /\ op[m].at \in Nat /\ op[m].at # 0 /\ job[j] \in Row
  BY DEF Commit, TypeOK, KindFits, Op, Timed
<1>2. /\ job' = [job EXCEPT ![j] = Moved(k, job[j], op[m].at)]
      /\ log' = [log EXCEPT ![j] = Append(@, e)]
  BY DEF Commit, CompareAndSet
<1>3. job'[j] = Moved(k, job[j], op[m].at) /\ log'[j] = Append(log[j], e)
  BY <1>2 DEF TypeOK
<1>4. Stored(j)
  BY <1>1, ExpectedIsOneStepAway DEF Stored, JobStatus
<1>5. log[j] \in Seq(Event) /\ n \in Nat /\ n >= 1 /\ log[j][n].new = job[j].status
  BY <1>4 DEF TypeOK, Fits
<1>6. e.prev = job[j].status /\ e.new = Goal(k)
  OBVIOUS
<1> HIDE DEF e
<1>7. Len(log'[j]) = n + 1 /\ log'[j][n + 1] = e /\ \A i \in 1 .. n : log'[j][i] = log[j][i]
  BY <1>3, <1>5
<1>8. ASSUME NEW i \in 1 .. n PROVE log'[j][i + 1].prev = log'[j][i].new
  <2>1. CASE i = n
    BY <1>5, <1>6, <1>7, <2>1
  <2>2. CASE i # n
    <3>1. i \in 1 .. n - 1 /\ i + 1 \in 1 .. n
      BY <1>5, <2>2
    <3>2. log[j][i + 1].prev = log[j][i].new
      BY <3>1 DEF Kept
    <3>3. log'[j][i] = log[j][i] /\ log'[j][i + 1] = log[j][i + 1]
      BY <1>7, <3>1
    <3> QED BY <3>2, <3>3
  <2> QED BY <2>1, <2>2
<1>9. ASSUME NEW i \in 1 .. n + 1, log'[j][i].new = "RUNNING" PROVE job'[j].started # 0
  <2>1. CASE k = "start"
    BY <1>1, <1>3, <2>1 DEF Moved, Row
  <2>2. CASE k # "start"
    <3>1. Goal(k) # "RUNNING" /\ job'[j].started = job[j].started
      BY <1>1, <1>3, <2>2 DEF Goal, Moved, Row
    <3>2. i # n + 1
      BY <1>6, <1>7, <1>9, <3>1
    <3>3. i \in 1 .. n /\ log[j][i].new = "RUNNING"
      BY <1>5, <1>7, <1>9, <3>2
    <3> QED BY <1>4, <3>1, <3>3 DEF Kept
  <2> QED BY <2>1, <2>2
<1>10. \A i \in 1 .. Len(log'[j]) - 1 : log'[j][i + 1].prev = log'[j][i].new
  BY <1>5, <1>7, <1>8
<1>11. (\E i \in 1 .. Len(log'[j]) : log'[j][i].new = "RUNNING") => job'[j].started # 0
  BY <1>7, <1>9
<1> QED BY <1>10, <1>11 DEF Kept

\* No step of the one process, of a client of the targets or of a crash breaks
\* the chain of a job's events or loses its start.
LEMMA NextKept ==
    ASSUME NEW m \in Managers, serving = {m}
    PROVE  /\ TypeOK /\ KindFits /\ Timed /\ Fresh /\ HistoryTellsState
           /\ (\A j \in Jobs : Kept(j))
           /\ [SNext]_svars
           => \A j \in Jobs : Kept(j)'
<1> SUFFICES ASSUME TypeOK, KindFits, Timed, Fresh, HistoryTellsState,
                    \A j \in Jobs : Kept(j), [SNext]_svars, NEW j \in Jobs
             PROVE  Kept(j)'
  OBVIOUS
<1>0. ASSUME job'[j] = job[j], log'[j] = log[j] PROVE Kept(j)'
  BY <1>0 DEF Kept, Stored
<1>1. CASE UNCHANGED <<job, log>>
  BY <1>0, <1>1
<1>2. ASSUME NEW i \in Jobs, CreateCommit(m, i) PROVE Kept(j)'
  <2>1. CASE UNCHANGED <<job, log>> \/ i # j
    BY <1>0, <1>2, <2>1 DEF CreateCommit, TypeOK
  <2>2. CASE i = j /\ ~UNCHANGED <<job, log>>
    <3>1. log'[j] = <<[prev |-> "NONE", new |-> "QUEUED", at |-> clock]>>
      BY <1>2, <2>2 DEF CreateCommit, TypeOK
    <3>2. Len(log'[j]) = 1 /\ log'[j][1].new = "QUEUED"
      BY <3>1
    <3> QED BY <3>2 DEF Kept
  <2> QED BY <2>1, <2>2
<1>3. ASSUME NEW i \in Jobs, Commit(m, i) PROVE Kept(j)'
  <2>1. CASE i = j /\ job[j].status \in Expected(op[m].kind)
    <3>1. op[m].kind \in Kinds \ {"idle"} /\ j \in op[m].todo
      BY <1>3, <2>1 DEF Commit, TypeOK, KindFits, Op
    <3>2. job[j].status # "GONE"
      BY <2>1, <3>1, ExpectedIsOneStepAway DEF Active
    <3>3. copy[m][j] = job[j]
      BY <3>1, <3>2 DEF Fresh
    <3>4. Fits(j)
      BY FitsIsHistory
    <3> QED BY <1>3, <2>1, <3>3, <3>4, CommitKeeps
  <2>2. CASE ~(i = j /\ job[j].status \in Expected(op[m].kind))
    BY <1>0, <1>3, <2>2 DEF Commit, CompareAndSet, TypeOK
  <2> QED BY <2>1, <2>2
<1>4. ASSUME NEW t \in Targets, DropTarget(t) PROVE Kept(j)'
  <2> DEFINE lost == {i \in JobsOf(t) : Cascade /\ Stored(i)}
  <2>1. /\ job'[j] = IF j \in lost THEN [job[j] EXCEPT !.status = "GONE"] ELSE job[j]
        /\ log'[j] = IF j \in lost THEN <<>> ELSE log[j]
    BY <1>4 DEF DropTarget
  <2>2. CASE j \in lost
    BY <2>1, <2>2 DEF Kept
  <2>3. CASE j \notin lost
    BY <1>0, <2>1, <2>3
  <2> QED BY <2>2, <2>3
<1>5. CASE ManagerStep(m)
  BY <1>1, <1>2, <1>3, <1>5
     DEF ManagerStep, StartJob, CompleteJob, FailJob, CancelJob, CreateValidate,
         Read, Check, Refuse, SweepList, SweepStamp, CommitFails, Crash
<1>6. CASE \E t \in Targets : TargetStep(t)
  BY <1>1, <1>4, <1>6 DEF TargetStep, SetTarget
<1> QED BY <1>1, <1>5, <1>6 DEF SNext, svars, vars

\* All of it at once, as an invariant of one process.
OneProcessInv ==
    OneProcess => Fresh /\ \A j \in Jobs : Kept(j)

\* One process keeps its copies fresh, its chains whole and its starts.
LEMMA OneProcessKeeps == SSpec => []OneProcessInv
<1>1. SSpec => Spec
  BY ServingIsService
<1>2. Init => Timed
  BY DEF Init, Timed, IdleOp
<1>3. Spec => []Timed
  BY <1>2, NextTimed, TypeCorrect, PTL DEF Spec
<1>4. SInit => OneProcessInv
  <2> SUFFICES ASSUME SInit PROVE Fresh /\ \A j \in Jobs : Kept(j)
    BY DEF OneProcessInv
  <2>1. Init /\ serving \subseteq Managers
    BY DEF SInit
  <2>2. Fresh
    BY <2>1 DEF Init, Fresh, IdleOp
  <2>3. \A j \in Jobs : log[j] = <<>>
    BY <2>1 DEF Init
  <2> QED BY <2>2, <2>3 DEF Kept
<1>5. TypeOK /\ KindFits /\ Timed /\ HistoryTellsState /\ OneProcessInv /\ [SNext]_svars
        => OneProcessInv'
  <2> SUFFICES ASSUME TypeOK, KindFits, Timed, HistoryTellsState, OneProcessInv,
                      [SNext]_svars, OneProcess'
               PROVE  Fresh' /\ \A j \in Jobs : Kept(j)'
    BY DEF OneProcessInv
  <2>1. serving' = serving
    BY DEF SNext, svars
  <2>2. PICK m \in Managers : serving = {m}
    BY <2>1 DEF OneProcess
  <2>3. Fresh /\ \A j \in Jobs : Kept(j)
    BY <2>2 DEF OneProcess, OneProcessInv
  <2> QED BY <2>2, <2>3, NextFresh, NextKept
<1> QED
  BY <1>1, <1>3, <1>4, <1>5, TypeCorrect, HistoryAlwaysTellsState, PTL DEF SSpec

\* When one process serves, with faults, restarts and targets that change or
\* go, each stored event names as previous state the one the last event
\* reached.
THEOREM OneProcessIsChained == SSpec => []OneProcessChains
<1>1. OneProcessInv => OneProcessChains
  BY DEF OneProcessInv, OneProcessChains, HistoryChains, Kept
<1> QED BY <1>1, OneProcessKeeps, PTL

\* ... and a job that was started keeps the time of its start.
THEOREM OneProcessStartIsKept == SSpec => []OneProcessKeepsStart
<1>1. OneProcessInv => OneProcessKeepsStart
  BY DEF OneProcessInv, OneProcessKeepsStart, StartIsKept, Kept
<1> QED BY <1>1, OneProcessKeeps, PTL

(***************************************************************************)
(* ReconstructJobLifecycle, when one process serves: the events are in     *)
(* order already, and the fold over them meets the state of the row.       *)
(***************************************************************************)

\* Induction over an initial part of the naturals, from their well-foundedness.
LEMMA AllFromZero ==
    ASSUME NEW n \in Nat, NEW S, 0 \in S,
           \A i \in 1 .. n : i - 1 \in S => i \in S
    PROVE  0 .. n \subseteq S
<1> SUFFICES ASSUME NEW k \in 0 .. n, k \notin S PROVE FALSE
  OBVIOUS
<1> DEFINE Out == {i \in 0 .. n : i \notin S}
<1>1. PICK i \in Out : \A l \in Out : ~(l < i)
  <2>1. Out \subseteq Nat /\ Out # {}
    OBVIOUS
  <2>2. \E i \in Out : \A l \in Out : ~(<<l, i>> \in OpToRel(<, Nat))
    BY <2>1, NatLessThanWellFounded, WFMin
  <2>3. ASSUME NEW l \in Nat, NEW i \in Nat PROVE <<l, i>> \in OpToRel(<, Nat) <=> l < i
    BY DEF OpToRel
  <2> QED BY <2>1, <2>2, <2>3
<1>2. i # 0
  OBVIOUS
<1>3. i - 1 \in 0 .. n /\ i - 1 \in S
  BY <1>1, <1>2
<1> QED BY <1>2, <1>3

\* Sorting the events of a job whose times increase changes nothing.
LEMMA SortedStays ==
    ASSUME NEW s \in Seq(Event),
           \A i, k \in 1 .. Len(s) : i < k => s[i].at < s[k].at
    PROVE  Chronological(s) = s
<1> DEFINE n == Len(s)
           Earlier(k) == {i \in DOMAIN s : s[i].at < s[k].at}
<1>1. n \in Nat /\ DOMAIN s = 1 .. n
  OBVIOUS
<1>6. ASSUME NEW i \in 1 .. n PROVE s[i].at \in Nat
  <2>1. s[i] \in Event
    OBVIOUS
  <2> QED BY <2>1 DEF Event
<1>2. ASSUME NEW k \in 1 .. n PROVE Earlier(k) = 1 .. k - 1
  <2>1. ASSUME NEW i \in 1 .. n, s[i].at < s[k].at PROVE i < k
    BY <1>1, <1>6, <2>1
  <2>2. ASSUME NEW i \in 1 .. k - 1 PROVE i \in 1 .. n /\ i < k
    BY <1>1
  <2> QED BY <1>1, <2>1, <2>2
<1>3. ASSUME NEW k \in 1 .. n PROVE Cardinality(Earlier(k)) = k - 1
  <2>1. k \in Nat /\ 1 \in Int /\ k - 1 \in Int
    BY <1>1
  <2>2. Cardinality(1 .. k - 1) = IF 1 > k - 1 THEN 0 ELSE (k - 1) - 1 + 1
    BY <2>1, FS_Interval
  <2>3. Cardinality(1 .. k - 1) = k - 1
    BY <2>1, <2>2
  <2> QED BY <1>2, <2>3
<1>4. ASSUME NEW p \in 1 .. n
      PROVE  (CHOOSE k \in DOMAIN s : Cardinality(Earlier(k)) = p - 1) = p
  BY <1>1, <1>3
<1>5. Chronological(s) = [p \in DOMAIN s |-> s[CHOOSE k \in DOMAIN s : Cardinality(Earlier(k)) = p - 1]]
  BY DEF Chronological
<1>7. Chronological(s) = [p \in 1 .. n |-> s[p]]
  BY <1>1, <1>4, <1>5
<1> QED BY <1>1, <1>7

\* The fold of ReconstructJobLifecycle is the only sequence of states in which
\* each one comes from the one before by the next event.
LEMMA Replayed ==
    ASSUME NEW s \in Seq(Event), NEW v, v[0] = "NONE",
           \A i \in 1 .. Len(s) : v[i] = Replay(v[i - 1], s[i]),
           Chronological(s) = s
    PROVE  ReconstructJobLifecycle(s) = v[Len(s)]
<1> DEFINE n == Len(s)
           Eq(f) == f = [i \in 0 .. n |-> IF i = 0 THEN "NONE" ELSE Replay(f[i - 1], s[i])]
           d == CHOOSE f : Eq(f)
           g == [i \in 0 .. n |-> v[i]]
<1>1. n \in Nat
  OBVIOUS
<1>2. Eq(g)
  <2>1. ASSUME NEW i \in 0 .. n, i # 0 PROVE g[i] = Replay(g[i - 1], s[i])
    <3>1. i \in 1 .. n /\ i - 1 \in 0 .. n
      BY <2>1
    <3> QED BY <3>1
  <2>2. g[0] = "NONE"
    BY <1>1
  <2>3. \A i \in 0 .. n : g[i] = IF i = 0 THEN "NONE" ELSE Replay(g[i - 1], s[i])
    BY <2>1, <2>2
  <2> QED BY <2>3, Zenon
<1>3. Eq(d)
  BY <1>2
<1>4. ReconstructJobLifecycle(s) = d[n]
  BY Zenon DEF ReconstructJobLifecycle
<1>5. d[0] = "NONE" /\ \A i \in 1 .. n : d[i] = Replay(d[i - 1], s[i])
  <2> HIDE DEF d
  <2>1. d = [i \in 0 .. n |-> IF i = 0 THEN "NONE" ELSE Replay(d[i - 1], s[i])]
    BY <1>3
  <2>2. \A i \in 0 .. n : d[i] = IF i = 0 THEN "NONE" ELSE Replay(d[i - 1], s[i])
    BY <2>1, Zenon
  <2>3. 0 \in 0 .. n /\ \A i \in 1 .. n : i \in 0 .. n /\ i # 0
    BY <1>1
  <2> QED BY <2>2, <2>3
<1> HIDE DEF d
<1> DEFINE Same == {i \in 0 .. n : d[i] = v[i]}
<1>6. 0 \in Same
  BY <1>1, <1>5
<1>7. ASSUME NEW i \in 1 .. n, i - 1 \in Same PROVE i \in Same
  BY <1>1, <1>5, <1>7
<1> HIDE DEF Same
<1>8. 0 .. n \subseteq Same
  BY <1>1, <1>6, <1>7, AllFromZero
<1> QED BY <1>1, <1>4, <1>8 DEF Same

\* The times in one job's audit trail increase.
InOrder(j) == \A i, k \in 1 .. Len(log[j]) : i < k => log[j][i].at < log[j][k].at

\* All of them are past at time t.
Before(j, t) == \A i \in 1 .. Len(log[j]) : log[j][i].at < t

\* When one process serves, the time an operation has taken is later than all
\* that the jobs it still has to write have stored.
Stamped ==
    \A m \in serving : op[m].step = "commit" =>
        op[m].at < clock /\ \A j \in op[m].todo : Before(j, op[m].at)

\* The order of the times, as far as one process keeps it.
Ordered == Stamped /\ \A j \in Jobs : InOrder(j) /\ Before(j, clock)

\* A later event stored last keeps the order.
LEMMA AppendKeepsOrder ==
    ASSUME TypeOK, NEW j \in Jobs, NEW e \in Event, InOrder(j), Before(j, e.at),
           log'[j] = Append(log[j], e)
    PROVE  InOrder(j)' /\ \A t \in Nat : e.at < t => Before(j, t)'
<1> DEFINE n == Len(log[j])
<1>1. log[j] \in Seq(Event) /\ n \in Nat
  BY DEF TypeOK
<1>2. e.at \in Nat /\ \A i \in 1 .. n : log[j][i].at \in Nat
  <2>1. \A i \in 1 .. n : log[j][i] \in Event
    BY <1>1
  <2> QED BY <2>1 DEF Event
<1>3. Len(log'[j]) = n + 1 /\ log'[j][n + 1] = e /\ \A i \in 1 .. n : log'[j][i] = log[j][i]
  BY <1>1
<1>4. \A i \in 1 .. n + 1 : i = n + 1 \/ i \in 1 .. n
  BY <1>1
<1>5. ASSUME NEW i \in 1 .. n + 1, NEW k \in 1 .. n + 1, i < k
      PROVE  log'[j][i].at < log'[j][k].at
  <2>1. i \in 1 .. n
    BY <1>1, <1>5
  <2>2. CASE k = n + 1
    BY <1>3, <2>1, <2>2 DEF Before
  <2>3. CASE k \in 1 .. n
    BY <1>3, <1>5, <2>1, <2>3 DEF InOrder
  <2> QED BY <1>4, <2>2, <2>3
<1>6. ASSUME NEW t \in Nat, e.at < t, NEW i \in 1 .. n + 1 PROVE log'[j][i].at < t
  <2>1. CASE i = n + 1
    BY <1>3, <1>6, <2>1
  <2>2. CASE i \in 1 .. n
    <3>1. log[j][i].at < e.at /\ log[j][i].at \in Nat
      BY <1>2, <2>2 DEF Before
    <3> QED BY <1>2, <1>3, <1>6, <2>2, <3>1
  <2> QED BY <1>4, <2>1, <2>2
<1>7. InOrder(j)'
  BY <1>3, <1>5 DEF InOrder
<1>8. \A t \in Nat : e.at < t => Before(j, t)'
  BY <1>3, <1>6 DEF Before
<1> QED BY <1>7, <1>8

\* Steps of one process, of the targets' clients and crashes keep the order.
LEMMA NextOrdered ==
    ASSUME NEW m \in Managers, serving = {m}
    PROVE  TypeOK /\ KindFits /\ Ordered /\ [SNext]_svars => Ordered'
<1> SUFFICES ASSUME TypeOK, KindFits, Ordered, [SNext]_svars PROVE Ordered'
  OBVIOUS
<1> DEFINE Fine == op[m].step = "commit" =>
                     op[m].at < clock /\ \A j \in op[m].todo : Before(j, op[m].at)
           Kept2 == \A j \in Jobs : InOrder(j) /\ Before(j, clock)
<1>0. serving' = {m} /\ Fine /\ Kept2 /\ clock \in Nat
  BY ServingStaysInside DEF Ordered, Stamped, TypeOK
<1>1. ASSUME Fine', Kept2' PROVE Ordered'
  BY <1>0, <1>1 DEF Ordered, Stamped
<1>2. \A j \in Jobs : log[j] \in Seq(Event) /\ \A i \in 1 .. Len(log[j]) : log[j][i].at \in Nat
  <2>1. \A j \in Jobs : log[j] \in Seq(Event) /\ \A i \in 1 .. Len(log[j]) : log[j][i] \in Event
    BY DEF TypeOK
  <2> QED BY <2>1 DEF Event
<1>3. \A j \in Jobs : Before(j, clock + 1)
  <2> SUFFICES ASSUME NEW j \in Jobs, NEW i \in 1 .. Len(log[j])
               PROVE  log[j][i].at < clock + 1
    BY DEF Before
  <2>1. log[j][i].at < clock /\ log[j][i].at \in Nat
    BY <1>0, <1>2 DEF Before
  <2> QED BY <1>0, <2>1
<1>4. CASE UNCHANGED <<log, op, clock>>
  BY <1>0, <1>1, <1>4 DEF InOrder, Before
<1>5. ASSUME UNCHANGED <<log, clock>>, op'[m].step # "commit" PROVE Ordered'
  BY <1>0, <1>1, <1>5 DEF InOrder, Before
<1>6. ASSUME NEW j \in Jobs, CreateCommit(m, j) PROVE Ordered'
  <2>1. op' = op /\ clock' = clock + 1 /\ op[m].step # "commit"
    BY <1>6 DEF CreateCommit, Idle, KindFits
  <2>2. ASSUME NEW i \in Jobs PROVE InOrder(i)' /\ Before(i, clock)'
    <3>1. CASE log'[i] = log[i]
      BY <1>0, <1>3, <2>1, <3>1 DEF InOrder, Before
    <3>2. CASE log'[i] # log[i]
      <4>1. log'[i] = <<[prev |-> "NONE", new |-> "QUEUED", at |-> clock]>>
        BY <1>6, <3>2 DEF CreateCommit, TypeOK
      <4>2. Len(log'[i]) = 1 /\ log'[i][1].at = clock
        BY <4>1
      <4> QED BY <1>0, <2>1, <4>2 DEF InOrder, Before
    <3> QED BY <3>1, <3>2
  <2> QED BY <1>1, <2>1, <2>2
<1>7. ASSUME Check(m) \/ SweepStamp(m) PROVE Ordered'
  <2>1. /\ op' = [op EXCEPT ![m].step = "commit", ![m].at = clock]
        /\ clock' = clock + 1 /\ log' = log
    BY <1>7 DEF Check, SweepStamp
  <2>2. op'[m].todo = op[m].todo /\ op'[m].at = clock /\ op[m].todo \subseteq Jobs
    BY <2>1 DEF TypeOK, Op
  <2>3. Fine'
    <3>1. op'[m].at < clock'
      BY <1>0, <2>1, <2>2
    <3>2. ASSUME NEW j \in op'[m].todo PROVE Before(j, op[m].at)'
      BY <1>0, <2>1, <2>2, <3>2 DEF Before
    <3> QED BY <3>1, <3>2
  <2>4. Kept2'
    BY <1>0, <1>3, <2>1 DEF InOrder, Before
  <2> QED BY <1>1, <2>3, <2>4
<1>8. ASSUME NEW j \in Jobs, Done(m, j), UNCHANGED clock, op[m].step = "commit",
             \A i \in Jobs \ {j} : log'[i] = log[i],
             InOrder(j)' /\ Before(j, clock)'
      PROVE  Ordered'
  <2>1. Kept2'
    BY <1>0, <1>8 DEF InOrder, Before
  <2>2. Fine'
    <3>1. CASE op[m].todo = {j}
      <4>1. op'[m].step = "none"
        BY <1>8, <3>1 DEF Done, Release, IdleOp, TypeOK
      <4> QED BY <4>1
    <3>2. CASE op[m].todo # {j}
      <4>1. op' = [op EXCEPT ![m].todo = @ \ {j}]
        BY <1>8, <3>2 DEF Done
      <4>2. op'[m].todo = op[m].todo \ {j} /\ op'[m].at = op[m].at
            /\ op[m].todo \subseteq Jobs
        BY <4>1 DEF TypeOK, Op
      <4> QED BY <1>0, <1>8, <4>2 DEF Before
    <3> QED BY <3>1, <3>2
  <2> QED BY <1>1, <2>1, <2>2
<1>9. ASSUME NEW j \in Jobs, Commit(m, j) PROVE Ordered'
  <2>1. op[m].step = "commit" /\ j \in op[m].todo /\ clock' = clock /\ Done(m, j)
    BY <1>9 DEF Commit
  <2>2. CASE UNCHANGED log
    BY <1>0, <1>8, <2>1, <2>2 DEF InOrder, Before
  <2>3. CASE ~UNCHANGED log
    <3> DEFINE e == [prev |-> copy[m][j].status, new |-> Goal(op[m].kind), at |-> op[m].at]
    <3>1. log' = [log EXCEPT ![j] = Append(@, e)]
      BY <1>9, <2>3 DEF Commit, CompareAndSet
    <3>2. e \in Event
      <4>1. op[m].kind \in Kinds \ {"idle"} /\ op[m].at \in Nat
        BY <2>1 DEF TypeOK, KindFits, Op
      <4>2. Goal(op[m].kind) \in JobStatus
        BY <4>1, ExpectedIsOneStepAway
      <4>3. copy[m][j].status \in StoredStatus
        BY DEF TypeOK, Row
      <4> QED BY <4>1, <4>2, <4>3 DEF Event
    <3>3. e.at = op[m].at
      OBVIOUS
    <3> HIDE DEF e
    <3>4. log'[j] = Append(log[j], e) /\ \A i \in Jobs \ {j} : log'[i] = log[i]
      BY <3>1 DEF TypeOK
    <3>5. InOrder(j) /\ Before(j, e.at) /\ e.at < clock
      BY <1>0, <2>1, <3>3
    <3>6. InOrder(j)' /\ Before(j, clock)'
      BY <1>0, <2>1, <3>2, <3>4, <3>5, AppendKeepsOrder DEF Before
    <3> QED BY <1>8, <2>1, <3>4, <3>6
  <2> QED BY <2>2, <2>3
<1>10. ASSUME NEW j \in Jobs, CommitFails(m, j) PROVE Ordered'
  BY <1>0, <1>8, <1>10 DEF CommitFails, InOrder, Before
<1>11. ASSUME NEW t \in Targets, DropTarget(t) PROVE Ordered'
  <2>1. op' = op /\ clock' = clock
        /\ \A j \in Jobs : log'[j] = log[j] \/ log'[j] = <<>>
    BY <1>11 DEF DropTarget
  <2>2. ASSUME NEW j \in Jobs, log'[j] = <<>> PROVE InOrder(j)' /\ \A at : Before(j, at)'
    BY <2>2 DEF InOrder, Before
  <2>3. ASSUME NEW j \in Jobs, log'[j] = log[j]
        PROVE  (InOrder(j) => InOrder(j)') /\ \A at : Before(j, at) => Before(j, at)'
    BY <2>3 DEF InOrder, Before
  <2>4. op[m].todo \subseteq Jobs
    BY DEF TypeOK, Op
  <2> QED BY <1>0, <1>1, <2>1, <2>2, <2>3, <2>4 DEF Before
<1>12. ASSUME Release(m), UNCHANGED <<log, clock>> PROVE Ordered'
  <2>1. op'[m].step = "none"
    BY <1>12 DEF Release, IdleOp, TypeOK
  <2> QED BY <1>5, <1>12, <2>1
<1>13. ASSUME NEW k \in Requests, NEW j \in Jobs, Read(m, k, j) PROVE Ordered'
  <2>1. op'[m].step = "check"
    BY <1>13 DEF Read, TypeOK
  <2> QED BY <1>5, <1>13, <2>1 DEF Read
<1>14. ASSUME NEW t \in Targets, SweepList(m, t) PROVE Ordered'
  <2>1. op'[m].step = "stamp"
    BY <1>14 DEF SweepList, TypeOK
  <2> QED BY <1>5, <1>14, <2>1 DEF SweepList
<1>15. CASE ManagerStep(m)
  BY <1>4, <1>6, <1>7, <1>9, <1>10, <1>12, <1>13, <1>14, <1>15
     DEF ManagerStep, StartJob, CompleteJob, FailJob, CancelJob, Requests,
         CreateValidate, Refuse, Crash
<1>16. CASE \E t \in Targets : TargetStep(t)
  BY <1>4, <1>11, <1>16 DEF TargetStep, SetTarget
<1> QED BY <1>4, <1>15, <1>16 DEF SNext, svars, vars

\* The order of the times, as an invariant of one process.
LEMMA OneProcessKeepsOrder == SSpec => [](OneProcess => Ordered)
<1>1. SInit => (OneProcess => Ordered)
  <2> SUFFICES ASSUME SInit PROVE Ordered
    OBVIOUS
  <2>1. Init /\ serving \subseteq Managers
    BY DEF SInit
  <2>2. \A j \in Jobs : log[j] = <<>>
    BY <2>1 DEF Init
  <2>3. \A m \in serving : op[m].step = "none"
    BY <2>1 DEF Init, IdleOp
  <2> QED BY <2>2, <2>3 DEF Ordered, Stamped, InOrder, Before
<1>2. TypeOK /\ KindFits /\ (OneProcess => Ordered) /\ [SNext]_svars
        => (OneProcess => Ordered)'
  <2> SUFFICES ASSUME TypeOK, KindFits, OneProcess => Ordered, [SNext]_svars, OneProcess'
               PROVE  Ordered'
    OBVIOUS
  <2>1. serving' = serving
    BY DEF SNext, svars
  <2>2. PICK m \in Managers : serving = {m}
    BY <2>1 DEF OneProcess
  <2> QED BY <2>2, NextOrdered DEF OneProcess
<1> QED BY <1>1, <1>2, TypeCorrect, ServingIsService, PTL DEF SSpec

\* An event that follows a chain of legal steps replays to the state it names.
LEMMA ReplayFollowsChain ==
    ASSUME NEW e, e.new # "QUEUED", <<e.prev, e.new>> \in Edge
    PROVE  Replay(e.prev, e) = e.new
BY DEF Replay, Edge, Active

\* When one process serves, with faults, restarts and targets that change or
\* go, ReconstructJobLifecycle gives the state of every stored row from its
\* audit events alone, with no error: sorting by time leaves them in the order
\* they were stored, and each event follows the one before.
THEOREM OneProcessAlwaysReconstructs == SSpec => []OneProcessReconstructs
<1>1. ASSUME TypeOK, HistoryTellsState, OneProcessInv, OneProcess => Ordered
      PROVE  OneProcessReconstructs
  <2> SUFFICES ASSUME OneProcess, NEW j \in Jobs, Stored(j)
               PROVE  ReconstructJobLifecycle(log[j]) = job[j].status
    BY DEF OneProcessReconstructs, ReconstructionAgrees
  <2> DEFINE s == log[j]
             n == Len(s)
             v == [i \in 0 .. n |-> IF i = 0 THEN "NONE" ELSE s[i].new]
  <2>1. s \in Seq(Event) /\ n \in Nat
    BY <1>1 DEF TypeOK
  <2>2. /\ n # 0 /\ s[1].new = "QUEUED" /\ s[n].new = job[j].status
        /\ \A i \in 1 .. n - 1 : <<s[i].new, s[i + 1].new>> \in Edge
    BY <1>1, <2>1 DEF HistoryTellsState
  <2>3. \A i \in 1 .. n - 1 : s[i + 1].prev = s[i].new
    BY <1>1 DEF OneProcessInv, Kept
  <2>4. Chronological(s) = s
    BY <1>1, <2>1, SortedStays DEF Ordered, InOrder
  <2>5. ASSUME NEW i \in 1 .. n PROVE v[i] = Replay(v[i - 1], s[i])
    <3>1. CASE i = 1
      <4>1. v[1] = "QUEUED" /\ v[0] = "NONE"
        BY <2>1, <2>2
      <4>2. Replay("NONE", s[1]) = "QUEUED"
        BY <2>2 DEF Replay
      <4> QED BY <3>1, <4>1, <4>2
    <3>2. CASE i # 1
      <4>1. i - 1 \in 1 .. n - 1 /\ (i - 1) + 1 = i
        BY <2>1, <3>2
      <4>2. s[i].prev = s[i - 1].new /\ <<s[i].prev, s[i].new>> \in Edge
        BY <2>2, <2>3, <4>1
      <4>3. s[i].new # "QUEUED"
        BY <4>2 DEF Edge
      <4>4. v[i - 1] = s[i].prev /\ v[i] = s[i].new
        BY <2>1, <4>1, <4>2
      <4> QED BY <4>2, <4>3, <4>4, ReplayFollowsChain
    <3> QED BY <3>1, <3>2
  <2>6. v[0] = "NONE" /\ v[n] = s[n].new
    BY <2>1, <2>2
  <2> HIDE DEF v
  <2>7. ReconstructJobLifecycle(s) = v[n]
    BY <2>1, <2>4, <2>5, <2>6, Replayed
  <2> QED BY <2>2, <2>6, <2>7
<1> QED
  BY <1>1, TypeCorrect, HistoryAlwaysTellsState, OneProcessKeeps, OneProcessKeepsOrder,
     ServingIsService, PTL

(***************************************************************************)
(* A client that waits for its answers is never told of a job that is      *)
(* active on an inactive target.                                           *)
(***************************************************************************)

\* A sweep is past its reads from the start.
SweepStep == \A m \in Managers : op[m].kind = "sweep" => op[m].step # "check"

\* The handler of request a holds the mutex of m, for its sweep.
Sweeps(a, m) ==
    req[a].at = "sweeping" /\ m = req[a].mgr /\ op[m].kind = "sweep" /\ sweeper[m] = a

\* A target request of a serial client has the service to itself: no other
\* request, creation or transition is under way, and what it read is there.
Alone ==
    \A a \in Admins : req[a] # NoReq =>
        /\ \A b \in Admins : b # a => req[b] = NoReq
        /\ \A m \in Managers : pending[m] = {} /\ (~Idle(m) => Sweeps(a, m))
        /\ req[a].at = "read" => target[req[a].target] = req[a].seen

\* An active job has an active target, or its target is being swept,
Settling ==
    \A j \in Jobs : job[j].status \in Active =>
        \/ TargetRow(j) = "ACTIVE"
        \/ \E a \in Admins : req[a].at \in {"sweep", "sweeping"} /\ TargetOf[j] = req[a].target

\* ... and the sweep that runs has every active job of the target still to do.
Covered ==
    \A a \in Admins : req[a].at = "sweeping" =>
        \A j \in JobsOf(req[a].target) : job[j].status \in Active =>
            ~Idle(req[a].mgr) /\ j \in op[req[a].mgr].todo

\* A creation that waits has an active target.
PendingActive == \A m \in Managers : \A j \in pending[m] : TargetRow(j) = "ACTIVE"

Calm == Alone /\ Settling /\ Covered /\ PendingActive

\* No step gives a sweep something to check.
LEMMA NextSweepStep == TypeOK /\ SweepStep /\ [Next]_vars => SweepStep'
<1> SUFFICES ASSUME TypeOK, SweepStep, [Next]_vars PROVE SweepStep'
  OBVIOUS
<1>1. CASE UNCHANGED op
  BY <1>1 DEF SweepStep
<1>2. ASSUME NEW m \in Managers, op'[m].kind = "sweep" => op'[m].step # "check",
             \A n \in Managers : n # m => op'[n] = op[n]
      PROVE  SweepStep'
  BY <1>2 DEF SweepStep
<1>3. ASSUME NEW m \in Managers, Release(m) PROVE SweepStep'
  BY <1>3 DEF Release, IdleOp, SweepStep, TypeOK
<1>4. ASSUME NEW m \in Managers, NEW j \in Jobs, Done(m, j) PROVE SweepStep'
  <2>1. CASE op[m].todo = {j}
    BY <1>3, <1>4, <2>1 DEF Done
  <2>2. CASE op[m].todo # {j}
    BY <1>4, <2>2 DEF Done, SweepStep, TypeOK, Op
  <2> QED BY <2>1, <2>2
<1>5. ASSUME NEW m \in Managers, NEW k \in Requests, NEW j \in Jobs, Read(m, k, j)
      PROVE  SweepStep'
  <2>1. op'[m].kind = k /\ \A n \in Managers : n # m => op'[n] = op[n]
    BY <1>5 DEF Read, TypeOK
  <2> QED BY <1>2, <2>1 DEF Requests
<1>6. ASSUME NEW m \in Managers, Check(m) \/ SweepStamp(m) PROVE SweepStep'
  <2>1. op' = [op EXCEPT ![m].step = "commit", ![m].at = clock]
    BY <1>6 DEF Check, SweepStamp
  <2> QED BY <2>1 DEF SweepStep, TypeOK, Op
<1>7. ASSUME NEW m \in Managers, NEW t \in Targets, SweepList(m, t) PROVE SweepStep'
  <2>1. op'[m].step = "stamp" /\ \A n \in Managers : n # m => op'[n] = op[n]
    BY <1>7 DEF SweepList, TypeOK
  <2> QED BY <1>2, <2>1
<1> QED
  BY <1>1, <1>3, <1>4, <1>5, <1>6, <1>7
     DEF Next, ManagerStep, TargetStep, vars, StartJob, CompleteJob, FailJob, CancelJob,
         Requests, CreateValidate, CreateCommit, Refuse, Commit, CommitFails, Crash,
         SetTarget, DropTarget

\* Without a request under way, the facts about requests hold.
LEMMA NoRequestIsCalm ==
    ASSUME \A a \in Admins : req'[a] = NoReq,
           \A j \in Jobs : job'[j].status \in Active => TargetRow(j)' = "ACTIVE",
           PendingActive'
    PROVE  Calm'
<1>1. \A a \in Admins : req'[a].at = "idle"
  BY DEF NoReq
<1> QED BY <1>1 DEF Calm, Alone, Settling, Covered

\* When nothing is under way, every active job has an active target.
LEMMA QuietIsSettled ==
    ASSUME Calm, \A a \in Admins : req[a] = NoReq, NEW j \in Jobs, job[j].status \in Active
    PROVE  TargetRow(j) = "ACTIVE"
BY DEF Calm, Settling, NoReq

\* A request that comes when all is quiet finds the service calm and alone.
LEMMA NewRequestIsCalm ==
    ASSUME TTypeOK, Calm, Quiet, NEW a \in Admins, NEW r \in Req,
           r.at \in {"read", "sweep"}, r.seen = target[r.target],
           req' = [req EXCEPT ![a] = r], UNCHANGED vars
    PROVE  Calm'
<1>1. \A b \in Admins : req[b] = NoReq
  BY DEF Quiet
<1>2. req'[a] = r /\ \A b \in Admins : b # a => req'[b] = NoReq
  BY <1>1 DEF TTypeOK
<1>3. Alone'
  BY <1>2 DEF Quiet, Alone, Idle, vars
<1>4. Settling'
  BY <1>1, QuietIsSettled DEF Settling, TargetRow, vars
<1>5. Covered'
  BY <1>2 DEF Covered, NoReq
<1> QED BY <1>3, <1>4, <1>5 DEF Calm, PendingActive, TargetRow, vars

\* A step of a handler leaves a serial client's service calm.
LEMMA AdminKeepsCalm ==
    ASSUME TTypeOK, ReqFits, Calm, MayCome => Quiet, NEW a \in Admins, AdminStep(a)
    PROVE  Calm'
<1> DEFINE r == req[a]
           t == req[a].target
<1>0. ASSUME req[a] # NoReq, NEW b \in Admins, b # a PROVE req[b] = NoReq /\ req[b].at = "idle"
  BY <1>0 DEF Calm, Alone, NoReq
<1>1. ASSUME NEW m \in Managers, NEW u \in Targets,
             NEW want \in {"ACTIVE", "INACTIVE", "keep"}, UpdateRead(a, m, u, want)
      PROVE  Calm'
  <2> DEFINE q == [at |-> "read", kind |-> "update", mgr |-> m,
                   target |-> u, seen |-> target[u], want |-> want]
  <2>1. q \in Req /\ q.at = "read" /\ q.seen = target[q.target]
    BY DEF Req, TTypeOK, TypeOK
  <2>2. req' = [req EXCEPT ![a] = q] /\ UNCHANGED vars /\ Quiet
    BY <1>1 DEF UpdateRead
  <2> HIDE DEF q
  <2> QED BY <2>1, <2>2, NewRequestIsCalm
<1>2. ASSUME NEW m \in Managers, NEW u \in Targets, DeleteCall(a, m, u)
      PROVE  Calm'
  <2> DEFINE q == [at |-> "sweep", kind |-> "delete", mgr |-> m,
                   target |-> u, seen |-> target[u], want |-> "keep"]
  <2>1. q \in Req /\ q.at = "sweep" /\ q.seen = target[q.target]
    BY DEF Req, TTypeOK, TypeOK
  <2>2. req' = [req EXCEPT ![a] = q] /\ UNCHANGED vars /\ Quiet
    BY <1>2 DEF DeleteCall
  <2> HIDE DEF q
  <2> QED BY <2>1, <2>2, NewRequestIsCalm
<1>3. CASE UpdateWrite(a)
  <2>1. r # NoReq /\ r.at = "read" /\ t \in Targets
    BY <1>3, AtIsReq DEF UpdateWrite, NoReq
  <2>2. UNCHANGED <<job, log, pending, op, copy, clock, serial, sweeper, edits>>
    BY <1>3 DEF UpdateWrite
  <2>3. \A j \in Jobs : job[j].status \in Active => TargetRow(j) = "ACTIVE"
    BY <1>0, <2>1 DEF Calm, Settling
  <2>4. \A m \in Managers : pending[m] = {} /\ Idle(m)
    BY <2>1 DEF Calm, Alone, Sweeps
  <2>5. target[t] = r.seen
    BY <2>1 DEF Calm, Alone
  <2>6. PendingActive'
    BY <2>2, <2>4 DEF PendingActive
  <2>7. CASE UNCHANGED target /\ Finish(a)
    <3>1. \A b \in Admins : req'[b] = NoReq
      BY <1>0, <2>1, <2>7 DEF Finish, TTypeOK
    <3> QED BY <2>2, <2>3, <2>6, <2>7, <3>1, NoRequestIsCalm DEF TargetRow
  <2>8. CASE /\ target' = [target EXCEPT ![t] = Written(r)]
             /\ ~(r.seen = "ACTIVE" /\ Written(r) # "ACTIVE")
             /\ Finish(a)
    <3>1. \A b \in Admins : req'[b] = NoReq
      BY <1>0, <2>1, <2>8 DEF Finish, TTypeOK
    <3>2. \A j \in Jobs : job'[j].status \in Active => TargetRow(j)' = "ACTIVE"
      <4> SUFFICES ASSUME NEW j \in Jobs, job[j].status \in Active
                   PROVE  target'[TargetOf[j]] = "ACTIVE"
        BY <2>2 DEF TargetRow
      <4>1. target[TargetOf[j]] = "ACTIVE" /\ TargetOf[j] \in Targets
        BY <2>3, TargetOfAssumption DEF TargetRow
      <4> QED BY <2>5, <2>8, <4>1 DEF TTypeOK, TypeOK
    <3> QED BY <2>6, <3>1, <3>2, NoRequestIsCalm
  <2>9. CASE target' = [target EXCEPT ![t] = Written(r)] /\ Goes(a, "sweep")
    <3>1. r \in Req
      BY <1>3, AtIsReq DEF UpdateWrite
    <3>2. req'[a].at = "sweep" /\ req'[a].target = t
      BY <2>9, <3>1 DEF Goes, TTypeOK, Req
    <3>3. \A b \in Admins : b # a => req'[b] = NoReq
      BY <1>0, <2>1, <2>9 DEF Goes, TTypeOK
    <3>4. Alone'
      BY <2>2, <2>4, <3>2, <3>3 DEF Alone, Idle
    <3>5. Settling'
      <4> SUFFICES ASSUME NEW j \in Jobs, job[j].status \in Active, TargetOf[j] # t
                   PROVE  TargetRow(j)' = "ACTIVE"
        BY <2>2, <3>2 DEF Settling
      <4> QED BY <2>3, <2>9, TargetOfAssumption DEF TargetRow, TTypeOK, TypeOK
    <3>6. Covered'
      BY <3>2, <3>3 DEF Covered, NoReq
    <3> QED BY <2>6, <3>4, <3>5, <3>6 DEF Calm
  <2> QED BY <1>3, <2>7, <2>8, <2>9 DEF UpdateWrite
<1>4. CASE Sweep(a) \/ SweepNothing(a)
  <2>1. r # NoReq /\ r.at = "sweep" /\ r \in Req /\ t \in Targets /\ r.mgr \in Managers
    BY <1>4, AtIsReq DEF Sweep, SweepNothing, NoReq
  <2>2. Goes(a, "sweeping") /\ UNCHANGED <<target, job, pending>>
    BY <1>4 DEF Sweep, SweepNothing, SweepList, vars
  <2>3. /\ req'[a].at = "sweeping" /\ req'[a].target = t /\ req'[a].mgr = r.mgr
        /\ req'[a] # NoReq
    BY <2>1, <2>2 DEF Goes, TTypeOK, Req, NoReq
  <2>4. \A b \in Admins : b # a => req'[b] = NoReq /\ req'[b].at = "idle"
    BY <1>0, <2>1, <2>2 DEF Goes, TTypeOK
  <2>5. \A m \in Managers : pending[m] = {} /\ Idle(m)
    BY <2>1 DEF Calm, Alone, Sweeps
  <2>6. Settling'
    <3>1. \A j \in Jobs : job[j].status \in Active => TargetRow(j) = "ACTIVE" \/ TargetOf[j] = t
      BY <1>0, <2>1 DEF Calm, Settling
    <3> QED BY <2>2, <2>3, <3>1 DEF Settling, TargetRow
  <2>7. PendingActive'
    BY <2>2, <2>5 DEF PendingActive
  <2>8. CASE Sweep(a)
    <3> DEFINE live == {j \in JobsOf(t) : job[j].status \in Active}
    <3>1. SweepList(r.mgr, t) /\ sweeper' = [sweeper EXCEPT ![r.mgr] = a]
      BY <2>8 DEF Sweep
    <3>2. /\ op'[r.mgr].kind = "sweep" /\ op'[r.mgr].todo = live
          /\ \A m \in Managers : m # r.mgr => op'[m] = op[m]
      BY <2>1, <3>1 DEF SweepList, TTypeOK, TypeOK
    <3>3. sweeper'[r.mgr] = a
      BY <2>1, <3>1 DEF TTypeOK
    <3>4. \A m \in Managers : ~Idle(m)' => Sweeps(a, m)'
      BY <2>3, <2>5, <3>2, <3>3 DEF Idle, Sweeps
    <3>5. Alone'
      BY <2>2, <2>3, <2>4, <2>5, <3>4 DEF Alone
    <3>6. Covered'
      BY <2>2, <2>3, <2>4, <3>2 DEF Covered, Idle, JobsOf
    <3> QED BY <2>6, <2>7, <3>5, <3>6 DEF Calm
  <2>9. CASE SweepNothing(a)
    <3>1. UNCHANGED op /\ \A j \in JobsOf(t) : job[j].status \notin Active
      BY <2>9 DEF SweepNothing, vars
    <3>2. Alone'
      BY <2>2, <2>3, <2>4, <2>5, <3>1 DEF Alone, Idle
    <3>3. Covered'
      BY <2>2, <2>3, <2>4, <3>1 DEF Covered, JobsOf
    <3> QED BY <2>6, <2>7, <3>2, <3>3 DEF Calm
  <2> QED BY <1>4, <2>8, <2>9
<1>5. CASE SweepReturns(a)
  <2>1. r # NoReq /\ r.at = "sweeping" /\ r.mgr \in Managers /\ t \in Targets
    BY <1>5, AtIsReq DEF SweepReturns, NoReq
  <2>2. \A m \in Managers : pending[m] = {}
    BY <2>1 DEF Calm, Alone
  <2>3. Idle(r.mgr)
    BY <1>5, <2>1 DEF SweepReturns, Calm, Alone, Sweeps
  <2>4. \A j \in JobsOf(t) : job[j].status \notin Active
    BY <2>1, <2>3 DEF Calm, Covered
  <2>5. \A j \in Jobs : job[j].status \in Active => TargetRow(j) = "ACTIVE" /\ TargetOf[j] # t
    BY <1>0, <2>1, <2>4 DEF Calm, Settling, JobsOf
  <2>6. \A b \in Admins : req'[b] = NoReq
    BY <1>0, <1>5, <2>1 DEF SweepReturns, Finish, TTypeOK
  <2>7. CASE UNCHANGED vars
    <3>1. PendingActive' /\ \A j \in Jobs : job'[j].status \in Active => TargetRow(j)' = "ACTIVE"
      BY <2>2, <2>5, <2>7 DEF PendingActive, TargetRow, vars
    <3> QED BY <2>6, <3>1, NoRequestIsCalm
  <2>8. CASE DropTarget(t)
    <3>1. PendingActive'
      BY <2>2, <2>8 DEF PendingActive, DropTarget
    <3>2. ASSUME NEW j \in Jobs, job'[j].status \in Active PROVE TargetRow(j)' = "ACTIVE"
      <4> DEFINE lost == {i \in JobsOf(t) : Cascade /\ Stored(i)}
      <4>1. job'[j] = IF j \in lost THEN [job[j] EXCEPT !.status = "GONE"] ELSE job[j]
        BY <2>8 DEF DropTarget
      <4>2. j \notin lost
        <5>1. [job[j] EXCEPT !.status = "GONE"].status = "GONE"
          BY DEF TTypeOK, TypeOK, Row
        <5> QED BY <3>2, <4>1, <5>1 DEF Active
      <4>3. job[j].status \in Active
        BY <3>2, <4>1, <4>2
      <4> QED BY <2>5, <2>8, <4>3, TargetOfAssumption DEF DropTarget, TargetRow, TTypeOK, TypeOK
    <3> QED BY <2>6, <3>1, <3>2, NoRequestIsCalm
  <2> QED BY <1>5, <2>7, <2>8 DEF SweepReturns
<1> QED BY <1>1, <1>2, <1>3, <1>4, <1>5 DEF AdminStep

\* ... and so does a step of the job API, when the store does not fail.
LEMMA JobStepKeepsCalm ==
    ASSUME Faults = {}, TTypeOK, KindFits, ReqFits, SweepStep, Calm, MayCome => Quiet,
           NEW m \in Managers, JobStep(m)
    PROVE  Calm'
<1>0. UNCHANGED <<req, sweeper>>
  BY DEF JobStep
<1>1. ASSUME \A a \in Admins : req[a] = NoReq, UNCHANGED <<target, job, pending>> PROVE Calm'
  <2>1. \A j \in Jobs : job'[j].status \in Active => TargetRow(j)' = "ACTIVE"
    BY <1>1, QuietIsSettled DEF TargetRow
  <2>2. PendingActive'
    BY <1>1 DEF Calm, PendingActive, TargetRow
  <2> QED BY <1>0, <1>1, <2>1, <2>2, NoRequestIsCalm
<1>2. ASSUME NEW j \in Jobs, MayCome, CreateValidate(m, j) PROVE Calm'
  <2>1. \A a \in Admins : req[a] = NoReq
    BY <1>2 DEF Quiet
  <2>2. UNCHANGED <<target, job>>
    BY <1>2 DEF CreateValidate
  <2>3. PendingActive'
    BY <1>2 DEF CreateValidate, Calm, PendingActive, TargetRow, TTypeOK, TypeOK
  <2>4. \A i \in Jobs : job'[i].status \in Active => TargetRow(i)' = "ACTIVE"
    BY <2>1, <2>2, QuietIsSettled DEF TargetRow
  <2> QED BY <1>0, <2>1, <2>3, <2>4, NoRequestIsCalm
<1>3. ASSUME NEW j \in Jobs, CreateCommit(m, j) PROVE Calm'
  <2>1. j \in pending[m] /\ target' = target
    BY <1>3 DEF CreateCommit
  <2>2. \A a \in Admins : req[a] = NoReq
    BY <2>1 DEF Calm, Alone
  <2>3. PendingActive'
    BY <1>3 DEF CreateCommit, Calm, PendingActive, TargetRow, TTypeOK, TypeOK
  <2>4. ASSUME NEW i \in Jobs, job'[i].status \in Active PROVE TargetRow(i)' = "ACTIVE"
    <3>1. CASE i = j
      BY <2>1, <3>1 DEF Calm, PendingActive, TargetRow
    <3>2. CASE i # j
      <4>1. job'[i] = job[i]
        BY <1>3, <3>2 DEF CreateCommit, TTypeOK, TypeOK
      <4> QED BY <2>1, <2>2, <2>4, <4>1, QuietIsSettled DEF TargetRow
    <3> QED BY <3>1, <3>2
  <2> QED BY <1>0, <2>2, <2>3, <2>4, NoRequestIsCalm
<1>4. ASSUME NEW k \in Requests, NEW j \in Jobs, MayCome, Read(m, k, j) PROVE Calm'
  BY <1>1, <1>4 DEF Read, Quiet
<1>5. CASE Check(m) \/ Refuse(m)
  <2>1. op[m].step = "check" /\ UNCHANGED <<target, job, pending>>
    BY <1>5 DEF Check, Refuse
  <2>2. ~Idle(m) /\ op[m].kind # "sweep"
    BY <2>1 DEF KindFits, SweepStep, Idle
  <2>3. \A a \in Admins : req[a] = NoReq
    BY <2>2 DEF Calm, Alone, Sweeps
  <2> QED BY <1>1, <2>1, <2>3
<1>6. CASE SweepStamp(m)
  <2>1. /\ op' = [op EXCEPT ![m].step = "commit", ![m].at = clock]
        /\ UNCHANGED <<target, job, pending>>
    BY <1>6 DEF SweepStamp
  <2>2. \A n \in Managers : op'[n].kind = op[n].kind /\ op'[n].todo = op[n].todo
    BY <2>1 DEF TTypeOK, TypeOK, Op
  <2>3. Alone'
    <3>1. \A a \in Admins, n \in Managers : Sweeps(a, n) => Sweeps(a, n)'
      BY <1>0, <2>2 DEF Sweeps
    <3>2. \A n \in Managers : Idle(n)' <=> Idle(n)
      BY <2>2 DEF Idle
    <3> QED BY <1>0, <2>1, <3>1, <3>2 DEF Calm, Alone
  <2>4. Settling' /\ PendingActive'
    BY <1>0, <2>1 DEF Calm, Settling, PendingActive, TargetRow
  <2>5. Covered'
    <3> SUFFICES ASSUME NEW a \in Admins, req[a].at = "sweeping",
                        NEW j \in JobsOf(req[a].target), job[j].status \in Active
                 PROVE  ~Idle(req[a].mgr)' /\ j \in op'[req[a].mgr].todo
      BY <1>0, <2>1 DEF Covered, JobsOf
    <3>1. req[a].mgr \in Managers
      BY AtIsReq
    <3> QED BY <1>0, <2>2, <3>1 DEF Calm, Covered, Idle
  <2> QED BY <2>3, <2>4, <2>5 DEF Calm
<1>7. ASSUME NEW j \in Jobs, Commit(m, j) PROVE Calm'
  <2> DEFINE k == op[m].kind
  <2>1. /\ op[m].step = "commit" /\ j \in op[m].todo
        /\ CompareAndSet(m, j) /\ Done(m, j) /\ UNCHANGED <<target, pending>>
    BY <1>7 DEF Commit
  <2>2. k \in Kinds \ {"idle"} /\ op[m].at \in Nat /\ copy[m][j] \in Row /\ ~Idle(m)
    BY <2>1 DEF TTypeOK, TypeOK, KindFits, Op, Idle
  <2>3. ASSUME NEW i \in Jobs, job'[i].status \in Active
        PROVE  job[i].status \in Active /\ (k = "sweep" => i # j)
    <3>1. CASE i # j
      BY <2>1, <2>3, <3>1 DEF CompareAndSet, TTypeOK, TypeOK
    <3>2. CASE i = j /\ job[j].status \in Expected(k)
      <4>1. job'[j].status = Goal(k)
        <5>1. Moved(k, copy[m][j], op[m].at).status = Goal(k)
          BY <2>2, MovedIsRow
        <5>2. job' = [job EXCEPT ![j] = Moved(k, copy[m][j], op[m].at)]
          BY <2>1, <3>2 DEF CompareAndSet
        <5> QED BY <5>1, <5>2 DEF TTypeOK, TypeOK
      <4>2. job[j].status \in Active
        BY <2>2, <3>2, ExpectedIsOneStepAway
      <4>3. k # "sweep"
        BY <2>3, <3>2, <4>1 DEF Goal, Active
      <4> QED BY <3>2, <4>2, <4>3
    <3>3. CASE i = j /\ job[j].status \notin Expected(k)
      <4>1. job'[j] = job[j]
        BY <2>1, <3>3 DEF CompareAndSet
      <4>2. Expected("sweep") = Active
        BY DEF Expected, Active
      <4> QED BY <2>3, <3>3, <4>1, <4>2
    <3> QED BY <3>1, <3>2, <3>3
  <2>4. /\ \A n \in Managers : n # m => op'[n] = op[n]
        /\ \/ op'[m].kind = "idle" /\ op[m].todo = {j}
           \/ op'[m].kind = k /\ op'[m].todo = op[m].todo \ {j} /\ op[m].todo # {j}
    <3>1. CASE op[m].todo = {j}
      BY <2>1, <3>1 DEF Done, Release, IdleOp, TTypeOK, TypeOK
    <3>2. CASE op[m].todo # {j}
      BY <2>1, <3>2 DEF Done, TTypeOK, TypeOK, Op
    <3> QED BY <3>1, <3>2
  <2>5. Alone'
    BY <1>0, <2>1, <2>2, <2>4 DEF Calm, Alone, Sweeps, Idle
  <2>6. Settling' /\ PendingActive'
    BY <1>0, <2>1, <2>3 DEF Calm, Settling, PendingActive, TargetRow
  <2>7. Covered'
    <3> SUFFICES ASSUME NEW a \in Admins, req[a].at = "sweeping",
                        NEW i \in JobsOf(req[a].target), job'[i].status \in Active
                 PROVE  ~Idle(req[a].mgr)' /\ i \in op'[req[a].mgr].todo
      BY <1>0 DEF Covered, JobsOf
    <3>1. i \in Jobs /\ req[a] # NoReq
      BY DEF JobsOf, NoReq
    <3>2. m = req[a].mgr /\ k = "sweep"
      BY <2>2, <3>1 DEF Calm, Alone, Sweeps
    <3>3. i # j /\ i \in op[m].todo
      BY <2>3, <3>1, <3>2 DEF Calm, Covered
    <3> QED BY <1>0, <2>2, <2>4, <3>2, <3>3 DEF Idle
  <2> QED BY <2>5, <2>6, <2>7 DEF Calm
<1>8. ASSUME NEW j \in Jobs, CommitFails(m, j) PROVE Calm'
  BY <1>8 DEF CommitFails
<1> QED
  BY <1>2, <1>3, <1>4, <1>5, <1>6, <1>7, <1>8
     DEF JobStep, StartJob, CompleteJob, FailJob, CancelJob, Requests

\* When nothing fails, a client that is alone and waits for each answer never
\* finds the service settled with a job active on a target that is not: the
\* race of a creation with a sweep needs a second request.
THEOREM SerialClientsAlwaysSettle ==
    ASSUME Faults = {}
    PROVE  TSpec => []SerialClientsSettle
<1> DEFINE Inv == SweepStep /\ (serial => Calm)
<1>1. TInit => Inv
  <2> SUFFICES ASSUME TInit PROVE SweepStep /\ Calm
    OBVIOUS
  <2>1. /\ \A m \in Managers : op[m].kind = "idle" /\ pending[m] = {}
        /\ \A a \in Admins : req[a] = NoReq
        /\ \A j \in Jobs : job[j].status = "NONE"
    BY DEF TInit, Init, IdleOp, NoRow
  <2>2. SweepStep
    BY <2>1 DEF SweepStep
  <2>3. Alone /\ Settling /\ PendingActive
    BY <2>1 DEF Alone, Settling, PendingActive, Active
  <2>4. Covered
    BY <2>1 DEF Covered, NoReq
  <2> QED BY <2>2, <2>3, <2>4 DEF Calm
<1>2. TTypeOK /\ KindFits /\ ReqFits /\ Inv /\ [TNext]_tvars => Inv'
  <2> SUFFICES ASSUME TTypeOK, KindFits, ReqFits, Inv, [TNext]_tvars PROVE Inv'
    OBVIOUS
  <2>1. SweepStep'
    BY HandlersStayInside, NextSweepStep DEF TTypeOK
  <2>2. serial' = serial
    BY DEF TNext, tvars, AdminStep, JobStep, ProcessCrash, UpdateRead, UpdateWrite,
           DeleteCall, Sweep, SweepNothing, SweepReturns
  <2>3. ASSUME serial PROVE Calm'
    <3>1. Calm /\ (MayCome => Quiet)
      BY <2>3 DEF MayCome
    <3>2. CASE UNCHANGED tvars
      BY <3>1, <3>2
         DEF tvars, vars, Calm, Alone, Settling, Covered, PendingActive, Sweeps, Idle,
             TargetRow
    <3>3. ASSUME NEW a \in Admins, AdminStep(a) PROVE Calm'
      BY <3>1, <3>3, AdminKeepsCalm
    <3>4. ASSUME NEW m \in Managers, JobStep(m) PROVE Calm'
      BY <3>1, <3>4, JobStepKeepsCalm
    <3>5. ASSUME NEW m \in Managers, ProcessCrash(m) PROVE Calm'
      BY <3>5 DEF ProcessCrash, Crash
    <3> QED BY <3>2, <3>3, <3>4, <3>5 DEF TNext
  <2> QED BY <2>1, <2>2, <2>3
<1>3. Inv => SerialClientsSettle
  <2> SUFFICES ASSUME Calm, Quiet, NEW j \in Jobs, job[j].status \in Active
               PROVE  TargetRow(j) = "ACTIVE"
    BY DEF SerialClientsSettle, SettledJobsHaveActiveTargets
  <2> QED BY QuietIsSettled DEF Quiet
<1> QED BY <1>1, <1>2, <1>3, InitHandlers, NextHandlers, PTL DEF TSpec
=============================================================================
