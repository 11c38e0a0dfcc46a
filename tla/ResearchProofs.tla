--------------------------- MODULE ResearchProofs ---------------------------
(***************************************************************************)
(* What the approvals of hunting plans, the evidence records, the steps of *)
(* investigations and the runs of an analysis guarantee for any number of  *)
(* plans, records, runs and requests, under either store; and what all the *)
(* components around a scan guarantee together.                            *)
(***************************************************************************)
EXTENDS MCResearch, HypothesesProofs, IntelligenceProofs, BusAndThrottlerProofs

-----------------------------------------------------------------------------
(* Hunting plans. *)

IsPlan(x) == {"status", "approved"} \subseteq DOMAIN x /\ x.status # "none"

\* What the tables are defined for and what plans look like.
PShape ==
    /\ DOMAIN held = Plans /\ DOMAIN shelf = Plans /\ DOMAIN preqs = Planners
    /\ granted \in [Plans -> [StepNumbers -> 0 .. MaxGranted]]
    /\ \A p \in Plans : \A x \in {held[p], shelf[p]} : x = NoPlan \/ IsPlan(x)

\* A plan nobody was given the id of is nowhere, and nothing of it approved.
Unborn ==
    \A p \in Plans \ born : held[p] = NoPlan /\ \A n \in StepNumbers : granted[p][n] = 0

\* What the requests under way rely on.
PRequests ==
    \A r \in Planners : LET q == preqs[r] IN
        /\ q # IdlePlanner => {"at", "of"} \subseteq DOMAIN q /\ q.of \in Plans
        /\ q.at = "map"  => q.of \in born /\ \A n \in StepNumbers : granted[q.of][n] = 0
        /\ q.at = "save" => held[q.of] # NoPlan
        /\ q.at = "step" => q.step \in StepNumbers /\ granted[q.of][q.step] = 1
        /\ q.at = "plan" => shelf[q.of] # NoPlan

\* The service's plans know exactly the approvals there were.
HeldApprovals ==
    \A p \in Plans, n \in StepNumbers :
        held[p] # NoPlan => (n \in held[p].approved <=> granted[p][n] = 1)

PStrong == PShape /\ Unborn /\ PRequests /\ HeldApprovals /\ ApprovedOnce

\* A plan with one more approved step is a plan with that step approved.
LEMMA ApproveAdds ==
    ASSUME NEW x, IsPlan(x), NEW n
    PROVE  LET y == Approve(x, n)
               z == [Approve(x, n) EXCEPT !.status = "APPROVED"]
           IN  /\ IsPlan(y) /\ y.approved = x.approved \cup {n}
               /\ IsPlan(z) /\ z.approved = x.approved \cup {n}
  BY DEF IsPlan, Approve

\* NoPlan is not a plan, IdlePlanner is where no request is.
LEMMA Nothings ==
    /\ \A x : IsPlan(x) => x # NoPlan
    /\ IdlePlanner.at = "idle"
  BY DEF IsPlan, NoPlan, IdlePlanner

\* The invariant holds when the server starts.
LEMMA InitPStrong == PInit => PStrong
<1> SUFFICES ASSUME PInit PROVE PStrong
  OBVIOUS
<1>1. granted \in [Plans -> [StepNumbers -> 0 .. MaxGranted]]
  BY PlansAssumption DEF PInit
<1>2. \A p \in Plans, n \in StepNumbers : granted[p][n] = 0
  BY DEF PInit
<1>3. PShape
  BY <1>1 DEF PInit, PShape
<1>4. Unborn /\ HeldApprovals /\ ApprovedOnce
  BY <1>2 DEF PInit, Unborn, HeldApprovals, ApprovedOnce
<1>5. PRequests
  BY Nothings DEF PInit, PRequests
<1> QED BY <1>3, <1>4, <1>5 DEF PStrong

\* A generated plan is about to be kept, and nothing of it is approved.
LEMMA GenerateStrong ==
    ASSUME PStrong, NEW r \in Planners, NEW p \in Plans, NEW facts \in Facts,
           GenerateHuntingPlan(r, p, facts)
    PROVE  PStrong'
<1> DEFINE new == [at |-> "map", of |-> p, size |-> Len(PlanSteps(facts))]
<1>1. /\ preqs' = [preqs EXCEPT ![r] = new] /\ born' = born \cup {p} /\ p \notin born
      /\ UNCHANGED <<held, shelf, granted>>
  BY DEF GenerateHuntingPlan
<1>2. new.at = "map" /\ new.of = p /\ {"at", "of"} \subseteq DOMAIN new
  OBVIOUS
<1> HIDE DEF new
<1>3. \A n \in StepNumbers : granted[p][n] = 0
  BY <1>1 DEF PStrong, Unborn
<1>4. PShape' /\ HeldApprovals' /\ ApprovedOnce'
  BY <1>1 DEF PStrong, PShape, HeldApprovals, ApprovedOnce
<1>5. Unborn'
  BY <1>1 DEF PStrong, Unborn
<1>6. \A o \in Planners : preqs'[o] = IF o = r THEN new ELSE preqs[o]
  BY <1>1 DEF PStrong, PShape
<1>7. PRequests'
  BY <1>1, <1>2, <1>3, <1>6 DEF PStrong, PRequests
<1> QED BY <1>4, <1>5, <1>7 DEF PStrong

\* A plan enters the map with nothing approved, which is what there was.
LEMMA KeepStrong == ASSUME PStrong, NEW r \in Planners, KeepPlan(r) PROVE PStrong'
<1> DEFINE q == preqs[r]
           new == [status |-> "PLANNED", size |-> q.size, approved |-> {}]
           next == [at |-> "save", of |-> q.of]
<1>1. /\ q.at = "map" /\ held' = [held EXCEPT ![q.of] = new]
      /\ preqs' = [preqs EXCEPT ![r] = next] /\ UNCHANGED <<shelf, born, granted>>
  BY DEF KeepPlan
<1>2. q.of \in Plans /\ q.of \in born /\ \A n \in StepNumbers : granted[q.of][n] = 0
  BY <1>1, Nothings DEF PStrong, PRequests
<1>3. IsPlan(new) /\ new # NoPlan /\ new.approved = {}
  BY Nothings DEF IsPlan
<1>4. next.at = "save" /\ next.of = q.of /\ {"at", "of"} \subseteq DOMAIN next
  OBVIOUS
<1> HIDE DEF q, new, next
<1>5. \A p \in Plans : held'[p] = IF p = q.of THEN new ELSE held[p]
  BY <1>1 DEF PStrong, PShape
<1>6. \A o \in Planners : preqs'[o] = IF o = r THEN next ELSE preqs[o]
  BY <1>1 DEF PStrong, PShape
<1>7. PShape'
  BY <1>1, <1>3, <1>5 DEF PStrong, PShape
<1>8. Unborn' /\ ApprovedOnce'
  BY <1>1, <1>2, <1>5 DEF PStrong, Unborn, ApprovedOnce
<1>9. HeldApprovals'
  BY <1>1, <1>2, <1>3, <1>5 DEF PStrong, HeldApprovals
<1>10. PRequests'
  BY <1>1, <1>2, <1>3, <1>4, <1>5, <1>6 DEF PStrong, PRequests
<1> QED BY <1>7, <1>8, <1>9, <1>10 DEF PStrong

\* A request that only changes the store, and ends.
LEMMA EndsStrong ==
    ASSUME PStrong, NEW r \in Planners, preqs' = [preqs EXCEPT ![r] = IdlePlanner],
           UNCHANGED <<held, born, granted>>, DOMAIN shelf' = Plans,
           \A p \in Plans : /\ shelf'[p] = NoPlan \/ IsPlan(shelf'[p])
                            /\ shelf'[p] # NoPlan =>
                                 \A n \in StepNumbers : n \in shelf'[p].approved => granted[p][n] = 1
                            /\ shelf[p] # NoPlan => shelf'[p] # NoPlan
    PROVE  PStrong'
<1>1. \A o \in Planners : preqs'[o] = IF o = r THEN IdlePlanner ELSE preqs[o]
  BY DEF PStrong, PShape
<1>2. PShape'
  BY DEF PStrong, PShape
<1>3. Unborn' /\ HeldApprovals' /\ ApprovedOnce'
  BY DEF PStrong, Unborn, HeldApprovals, ApprovedOnce
<1>4. PRequests'
  BY <1>1, Nothings DEF PStrong, PRequests
<1> QED BY <1>2, <1>3, <1>4 DEF PStrong

\* The plan saved is the service's, approvals included.
LEMMA SaveStrong == ASSUME PStrong, NEW r \in Planners, SaveInvestigationPlan(r) PROVE PStrong'
<1> DEFINE q == preqs[r]
<1>1. /\ q.at = "save" /\ preqs' = [preqs EXCEPT ![r] = IdlePlanner]
      /\ shelf' = [shelf EXCEPT ![q.of] = held[q.of]] \/ UNCHANGED shelf
      /\ UNCHANGED <<held, born, granted>>
  BY DEF SaveInvestigationPlan
<1>2. q.of \in Plans /\ held[q.of] # NoPlan
  BY <1>1, Nothings DEF PStrong, PRequests
<1> HIDE DEF q
<1>3. \A p \in Plans : shelf'[p] = shelf[p] \/ (p = q.of /\ shelf'[p] = held[p])
  BY <1>1, <1>2 DEF PStrong, PShape
<1>4. DOMAIN shelf' = Plans
  BY <1>1 DEF PStrong, PShape
<1>5. \A p \in Plans : /\ shelf'[p] = NoPlan \/ IsPlan(shelf'[p])
                       /\ shelf[p] # NoPlan => shelf'[p] # NoPlan
  BY <1>2, <1>3 DEF PStrong, PShape
<1>6. ASSUME NEW p \in Plans, shelf'[p] # NoPlan, NEW n \in StepNumbers, n \in shelf'[p].approved
      PROVE  granted[p][n] = 1
  BY <1>3, <1>6 DEF PStrong, HeldApprovals, ApprovedOnce
<1> QED BY <1>1, <1>4, <1>5, <1>6, EndsStrong

\* An approval: the step was not approved, and is now, once.
LEMMA ApproveStrong ==
    ASSUME PStrong, NEW r \in Planners, NEW p \in Plans, NEW n \in StepNumbers, ApproveStep(r, p, n)
    PROVE  PStrong'
<1> DEFINE new == [Approve(held[p], n) EXCEPT !.status = "APPROVED"]
           next == [at |-> "step", of |-> p, step |-> n]
<1>1. /\ held[p] # NoPlan /\ n \notin held[p].approved /\ UNCHANGED born
      /\ held' = [held EXCEPT ![p] = new]
      /\ \/ shelf[p] # NoPlan /\ shelf' = [shelf EXCEPT ![p] = Approve(shelf[p], n)]
         \/ UNCHANGED shelf
      /\ granted' = [granted EXCEPT ![p][n] = IF @ < MaxGranted THEN @ + 1 ELSE @]
      /\ preqs' = [preqs EXCEPT ![r] = next]
      /\ \A o \in Planners : preqs[o].at \in {"map", "save"} => preqs[o].of # p
  BY DEF ApproveStep, MayApprove
<1>2. p \in born /\ IsPlan(held[p])
  BY <1>1 DEF PStrong, Unborn, PShape
<1>3. IsPlan(new) /\ new.approved = held[p].approved \cup {n} /\ new # NoPlan
  BY <1>2, ApproveAdds, Nothings
<1>4. next.at = "step" /\ next.of = p /\ next.step = n /\ {"at", "of"} \subseteq DOMAIN next
  OBVIOUS
<1> HIDE DEF new, next
<1>5. granted[p][n] = 0
  <2>1. granted[p][n] \in 0 .. MaxGranted /\ granted[p][n] <= 1 /\ granted[p][n] # 1
    BY <1>1 DEF PStrong, PShape, ApprovedOnce, HeldApprovals
  <2> QED BY <2>1, PlansAssumption
<1>6. /\ granted' \in [Plans -> [StepNumbers -> 0 .. MaxGranted]]
      /\ \A o \in Plans, m \in StepNumbers :
            granted'[o][m] = IF o = p /\ m = n THEN 1 ELSE granted[o][m]
  <2>1. granted' = [granted EXCEPT ![p][n] = 1]
    <3>1. (IF granted[p][n] < MaxGranted THEN granted[p][n] + 1 ELSE granted[p][n]) = 1
      BY <1>5, PlansAssumption
    <3> QED BY <1>1, <3>1
  <2> QED BY <2>1, PlansAssumption DEF PStrong, PShape
<1>7. \A o \in Plans : held'[o] = IF o = p THEN new ELSE held[o]
  BY <1>1 DEF PStrong, PShape
<1>8. \A o \in Planners : preqs'[o] = IF o = r THEN next ELSE preqs[o]
  BY <1>1 DEF PStrong, PShape
<1>9. \A o \in Plans :
         \/ shelf'[o] = shelf[o]
         \/ o = p /\ IsPlan(shelf'[o]) /\ shelf[o] # NoPlan /\ shelf'[o] # NoPlan
              /\ shelf'[o].approved = shelf[o].approved \cup {n}
  <2>1. shelf[p] # NoPlan =>
          /\ IsPlan(Approve(shelf[p], n)) /\ Approve(shelf[p], n) # NoPlan
          /\ Approve(shelf[p], n).approved = shelf[p].approved \cup {n}
    BY ApproveAdds, Nothings DEF PStrong, PShape
  <2> QED BY <1>1, <2>1 DEF PStrong, PShape
<1>10. PShape'
  <2>1. DOMAIN held' = Plans /\ DOMAIN shelf' = Plans /\ DOMAIN preqs' = Planners
    BY <1>1 DEF PStrong, PShape
  <2>2. \A o \in Plans : held'[o] = NoPlan \/ IsPlan(held'[o])
    BY <1>3, <1>7 DEF PStrong, PShape
  <2>3. \A o \in Plans : shelf'[o] = NoPlan \/ IsPlan(shelf'[o])
    BY <1>9 DEF PStrong, PShape
  <2> QED BY <1>6, <2>1, <2>2, <2>3 DEF PShape
<1>11. Unborn'
  BY <1>1, <1>2, <1>6, <1>7 DEF PStrong, Unborn
<1>12. HeldApprovals'
  BY <1>1, <1>3, <1>6, <1>7 DEF PStrong, HeldApprovals
<1>13. ApprovedOnce'
  <2>1. \A o \in Plans, m \in StepNumbers : granted'[o][m] <= 1
    BY <1>6 DEF PStrong, ApprovedOnce
  <2>2. ASSUME NEW o \in Plans, NEW m \in StepNumbers, shelf'[o] # NoPlan, m \in shelf'[o].approved
        PROVE  granted'[o][m] = 1
    BY <1>6, <1>9, <2>2 DEF PStrong, ApprovedOnce
  <2> QED BY <2>1, <2>2 DEF ApprovedOnce
<1>14. PRequests'
  <2> SUFFICES ASSUME NEW o \in Planners
               PROVE  LET q == preqs'[o] IN
                      /\ q # IdlePlanner => {"at", "of"} \subseteq DOMAIN q /\ q.of \in Plans
                      /\ q.at = "map"  => q.of \in born' /\ \A m \in StepNumbers : granted'[q.of][m] = 0
                      /\ q.at = "save" => held'[q.of] # NoPlan
                      /\ q.at = "step" => q.step \in StepNumbers /\ granted'[q.of][q.step] = 1
                      /\ q.at = "plan" => shelf'[q.of] # NoPlan
    BY DEF PRequests
  <2>1. CASE o = r
    BY <1>4, <1>6, <1>8, <2>1
  <2>2. CASE o # r
    <3>1. preqs'[o] = preqs[o]
      BY <1>8, <2>2
    <3>2. preqs[o].at \in {"map", "save", "step", "plan"} => preqs[o].of \in Plans
      BY Nothings DEF PStrong, PRequests
    <3> DEFINE q == preqs[o]
    <3>3. q # IdlePlanner => {"at", "of"} \subseteq DOMAIN q /\ q.of \in Plans
      BY DEF PStrong, PRequests
    <3>4. q.at = "map" => q.of # p /\ q.of \in born' /\ \A m \in StepNumbers : granted'[q.of][m] = 0
      BY <1>1, <1>6, <3>2 DEF PStrong, PRequests
    <3>5. q.at = "save" => held'[q.of] # NoPlan
      BY <1>1, <1>7, <3>2 DEF PStrong, PRequests
    <3>6. q.at = "step" => q.step \in StepNumbers /\ granted'[q.of][q.step] = 1
      BY <1>6, <3>2 DEF PStrong, PRequests
    <3>7. q.at = "plan" => shelf'[q.of] # NoPlan
      BY <1>9, <3>2 DEF PStrong, PRequests
    <3> HIDE DEF q
    <3> QED BY <3>1, <3>3, <3>4, <3>5, <3>6, <3>7 DEF q
  <2> QED BY <2>1, <2>2
<1> QED BY <1>10, <1>11, <1>12, <1>13, <1>14 DEF PStrong

\* The store is told of an approval there was.
LEMMA StoreStepStrong == ASSUME PStrong, NEW r \in Planners, ApprovePlanStep(r) PROVE PStrong'
<1> DEFINE q == preqs[r]
<1>1. q.at = "step" /\ UNCHANGED <<held, born, granted>>
  BY DEF ApprovePlanStep
<1>2. q.of \in Plans /\ q.step \in StepNumbers /\ granted[q.of][q.step] = 1
      /\ {"at", "of"} \subseteq DOMAIN q
  BY <1>1, Nothings DEF PStrong, PRequests
<1>3. CASE shelf[q.of] = NoPlan
  <2>1. UNCHANGED shelf /\ preqs' = [preqs EXCEPT ![r] = IdlePlanner]
    BY <1>3 DEF ApprovePlanStep
  <2> QED BY <1>1, <2>1, EndsStrong DEF PStrong, PShape, ApprovedOnce
<1>4. CASE shelf[q.of] # NoPlan
  <2>1. PICK x : /\ shelf' = [shelf EXCEPT ![q.of] = x]
                 /\ IsPlan(x) /\ x.approved = shelf[q.of].approved \cup {q.step}
    <3>1. IsPlan(shelf[q.of])
      BY <1>2, <1>4 DEF PStrong, PShape
    <3>2. LET y == Approve(shelf[q.of], q.step)
              z == [Approve(shelf[q.of], q.step) EXCEPT !.status = "APPROVED"]
          IN  /\ IsPlan(y) /\ y.approved = shelf[q.of].approved \cup {q.step}
              /\ IsPlan(z) /\ z.approved = shelf[q.of].approved \cup {q.step}
      BY <3>1, ApproveAdds
    <3>3. shelf' = [shelf EXCEPT ![q.of] =
                      IF pg THEN Approve(shelf[q.of], q.step)
                            ELSE [Approve(shelf[q.of], q.step) EXCEPT !.status = "APPROVED"]]
      BY <1>4 DEF ApprovePlanStep
    <3> QED BY <3>2, <3>3
  <2>2. preqs' = [preqs EXCEPT ![r] = [q EXCEPT !.at = "plan"]]
          \/ preqs' = [preqs EXCEPT ![r] = IdlePlanner]
    BY <1>4 DEF ApprovePlanStep
  <2>3. \A p \in Plans : shelf'[p] = IF p = q.of THEN x ELSE shelf[p]
    BY <2>1 DEF PStrong, PShape
  <2>4. DOMAIN shelf' = Plans
    BY <2>1 DEF PStrong, PShape
  <2>5. \A p \in Plans : /\ shelf'[p] = NoPlan \/ IsPlan(shelf'[p])
                         /\ shelf[p] # NoPlan => shelf'[p] # NoPlan
    BY <2>1, <2>3, Nothings DEF PStrong, PShape
  <2>6. ASSUME NEW p \in Plans, shelf'[p] # NoPlan, NEW n \in StepNumbers, n \in shelf'[p].approved
        PROVE  granted[p][n] = 1
    BY <1>2, <1>4, <2>1, <2>3, <2>6 DEF PStrong, ApprovedOnce
  <2>7. CASE preqs' = [preqs EXCEPT ![r] = IdlePlanner]
    BY <1>1, <2>4, <2>5, <2>6, <2>7, EndsStrong
  <2>8. CASE preqs' = [preqs EXCEPT ![r] = [q EXCEPT !.at = "plan"]]
    <3> DEFINE next == [q EXCEPT !.at = "plan"]
    <3>1. next.at = "plan" /\ next.of = q.of /\ {"at", "of"} \subseteq DOMAIN next
      BY <1>2
    <3>2. \A o \in Planners : preqs'[o] = IF o = r THEN next ELSE preqs[o]
      BY <2>8 DEF PStrong, PShape
    <3>3. shelf'[q.of] # NoPlan
      BY <1>2, <1>4, <2>5
    <3>4. DOMAIN preqs' = Planners
      BY <2>8 DEF PStrong, PShape
    <3> HIDE DEF next, q
    <3>5. PShape'
      BY <1>1, <2>4, <2>5, <3>4 DEF PStrong, PShape
    <3>6. Unborn' /\ HeldApprovals'
      BY <1>1 DEF PStrong, Unborn, HeldApprovals
    <3>7. ApprovedOnce'
      BY <1>1, <2>6 DEF PStrong, ApprovedOnce
    <3>8. PRequests'
      BY <1>1, <1>2, <2>5, <3>1, <3>2, <3>3, Nothings DEF PStrong, PRequests
    <3> QED BY <3>5, <3>6, <3>7, <3>8 DEF PStrong
  <2> QED BY <2>2, <2>7, <2>8
<1> QED BY <1>3, <1>4

\* Marking a stored plan approved changes no step.
LEMMA StoreStatusStrong == ASSUME PStrong, NEW r \in Planners, ApprovePlanStatus(r) PROVE PStrong'
<1> DEFINE q == preqs[r]
           x == [shelf[q.of] EXCEPT !.status = "APPROVED"]
<1>1. /\ q.at = "plan" /\ shelf' = [shelf EXCEPT ![q.of] = x]
      /\ preqs' = [preqs EXCEPT ![r] = IdlePlanner] /\ UNCHANGED <<held, born, granted>>
  BY DEF ApprovePlanStatus
<1>2. q.of \in Plans /\ IsPlan(shelf[q.of]) /\ shelf[q.of] # NoPlan
  BY <1>1, Nothings DEF PStrong, PRequests, PShape
<1>3. IsPlan(x) /\ x.approved = shelf[q.of].approved
  BY <1>2 DEF IsPlan
<1>4. x # NoPlan
  BY <1>3, Nothings
<1> HIDE DEF x, q
<1>5. \A p \in Plans : shelf'[p] = IF p = q.of THEN x ELSE shelf[p]
  BY <1>1 DEF PStrong, PShape
<1>6. DOMAIN shelf' = Plans
  BY <1>1 DEF PStrong, PShape
<1>7. ASSUME NEW p \in Plans, shelf'[p] # NoPlan, NEW n \in StepNumbers, n \in shelf'[p].approved
      PROVE  granted[p][n] = 1
  BY <1>2, <1>3, <1>5, <1>7 DEF PStrong, ApprovedOnce
<1>8. \A p \in Plans : /\ shelf'[p] = NoPlan \/ IsPlan(shelf'[p])
                       /\ shelf[p] # NoPlan => shelf'[p] # NoPlan
  BY <1>3, <1>4, <1>5 DEF PStrong, PShape
<1> QED BY <1>1, <1>6, <1>7, <1>8, EndsStrong

\* After a restart the service knows no plan and serves no request.
LEMMA RestartStrong == ASSUME PStrong, Restart PROVE PStrong'
<1>1. /\ held' = [p \in Plans |-> NoPlan] /\ preqs' = [r \in Planners |-> IdlePlanner]
      /\ shelf' = shelf \/ shelf' = [p \in Plans |-> NoPlan]
      /\ UNCHANGED <<born, granted>>
  BY DEF Restart, AfterRestart
<1>2. PShape'
  BY <1>1 DEF PStrong, PShape
<1>3. Unborn' /\ HeldApprovals' /\ ApprovedOnce'
  BY <1>1 DEF PStrong, Unborn, HeldApprovals, ApprovedOnce
<1>4. PRequests'
  BY <1>1, Nothings DEF PRequests
<1> QED BY <1>2, <1>3, <1>4 DEF PStrong

\* The invariant is inductive.
LEMMA NextPStrong == PStrong /\ [PNext]_<<pg, pvars>> => PStrong'
<1> SUFFICES ASSUME PStrong, [PNext]_<<pg, pvars>> PROVE PStrong'
  OBVIOUS
<1>1. ASSUME NEW r \in Planners, NEW p \in Plans, NEW facts \in Facts, GenerateHuntingPlan(r, p, facts)
      PROVE  PStrong'
  BY <1>1, GenerateStrong
<1>2. ASSUME NEW r \in Planners, KeepPlan(r) \/ SaveInvestigationPlan(r) PROVE PStrong'
  BY <1>2, KeepStrong, SaveStrong
<1>3. ASSUME NEW r \in Planners, NEW p \in Plans, NEW n \in StepNumbers, ApproveStep(r, p, n)
      PROVE  PStrong'
  BY <1>3, ApproveStrong
<1>4. ASSUME NEW r \in Planners, ApprovePlanStep(r) \/ ApprovePlanStatus(r) PROVE PStrong'
  BY <1>4, StoreStepStrong, StoreStatusStrong
<1>5. ASSUME NEW r \in Planners, StoreRefuses(r) PROVE PStrong'
  BY <1>5, EndsStrong DEF StoreRefuses, PStrong, PShape, ApprovedOnce
<1>6. CASE Restart
  BY <1>6, RestartStrong
<1>7. CASE UNCHANGED <<pg, pvars>>
  BY <1>7 DEF pvars, PStrong, PShape, Unborn, PRequests, HeldApprovals, ApprovedOnce
<1> QED BY <1>1, <1>2, <1>3, <1>4, <1>5, <1>6, <1>7 DEF PNext

\* No step of a plan is approved twice, and nothing is stored as approved
\* that no human approved: for any number of plans and of requests, whatever
\* the store refuses and however often the server restarts.
THEOREM StepsApprovedOnce == PSpec => []ApprovedOnce
<1>1. PStrong => ApprovedOnce
  BY DEF PStrong
<1> QED BY <1>1, InitPStrong, NextPStrong, PTL DEF PSpec

\* Plans, and the requests about them.
PlanRows ==
    [status : {"PLANNED", "APPROVED"}, size : StepNumbers, approved : SUBSET StepNumbers]
MapRequests == [at : {"map"}, of : Plans, size : StepNumbers]
KeptRequests == [at : {"save"}, of : Plans]
ApprovalRequests == [at : {"step", "plan"}, of : Plans, step : StepNumbers]
PlanRequests == {IdlePlanner} \cup MapRequests \cup KeptRequests \cup ApprovalRequests

PTyped ==
    /\ held \in [Plans -> PlanRows \cup {NoPlan}] /\ shelf \in [Plans -> PlanRows \cup {NoPlan}]
    /\ preqs \in [Planners -> PlanRequests]

\* What is typed is typed as the run checks it.
LEMMA PTypedIsTypeOK == PStrong /\ PTyped => PTypeOK
<1> SUFFICES ASSUME PStrong, PTyped PROVE PTypeOK
  OBVIOUS
<1>1. \A q \in PlanRequests : q.at \in {"idle", "map", "save", "step", "plan"}
  BY DEF PlanRequests, IdlePlanner, MapRequests, KeptRequests, ApprovalRequests
<1>2. \A plan \in PlanRows : /\ plan.status \in {"PLANNED", "APPROVED"}
                             /\ plan.size \in StepNumbers /\ plan.approved \subseteq StepNumbers
  BY DEF PlanRows
<1>3. \A p \in Plans : \A plan \in {held[p], shelf[p]} : plan # NoPlan => plan \in PlanRows
  BY DEF PTyped
<1>4. granted \in [Plans -> [StepNumbers -> 0 .. MaxGranted]]
  BY DEF PStrong, PShape
<1> QED BY <1>1, <1>2, <1>3, <1>4 DEF PTyped, PTypeOK

\* The requests of each place.
LEMMA PlannersAt ==
    ASSUME PTyped, NEW r \in Planners
    PROVE  /\ preqs[r].at = "map" => preqs[r] \in MapRequests
           /\ preqs[r].at = "save" => preqs[r] \in KeptRequests
           /\ preqs[r].at \in {"step", "plan"} => preqs[r] \in ApprovalRequests
<1>1. preqs[r] \in PlanRequests /\ IdlePlanner.at = "idle"
  BY DEF PTyped, IdlePlanner
<1>2. (\A q \in MapRequests : q.at = "map") /\ (\A q \in KeptRequests : q.at = "save")
  BY DEF MapRequests, KeptRequests
<1>3. \A q \in ApprovalRequests : q.at \in {"step", "plan"}
  BY DEF ApprovalRequests
<1> QED BY <1>1, <1>2, <1>3 DEF PlanRequests

\* A plan with one more approved step, and one that is marked as approved.
LEMMA ApprovedTyped ==
    ASSUME NEW plan \in PlanRows, NEW n \in StepNumbers
    PROVE  /\ Approve(plan, n) \in PlanRows
           /\ [Approve(plan, n) EXCEPT !.status = "APPROVED"] \in PlanRows
           /\ [plan EXCEPT !.status = "APPROVED"] \in PlanRows
<1>1. Approve(plan, n) \in PlanRows
  BY DEF Approve, PlanRows
<1>2. \A x \in PlanRows : [x EXCEPT !.status = "APPROVED"] \in PlanRows
  BY DEF PlanRows
<1> QED BY <1>1, <1>2

\* A plan has one to three steps.
LEMMA PlanSize == \A facts \in Facts : Len(PlanSteps(facts)) \in StepNumbers
  BY DEF PlanSteps, StepNumbers

\* No step breaks the types.
LEMMA NextPTyped == PStrong /\ PTyped /\ [PNext]_<<pg, pvars>> => PTyped'
<1> SUFFICES ASSUME PStrong, PTyped, [PNext]_<<pg, pvars>> PROVE PTyped'
  OBVIOUS
<1>1. /\ held \in [Plans -> PlanRows \cup {NoPlan}] /\ shelf \in [Plans -> PlanRows \cup {NoPlan}]
      /\ preqs \in [Planners -> PlanRequests] /\ IdlePlanner \in PlanRequests
  BY DEF PTyped, PlanRequests
<1>2. ASSUME NEW r \in Planners, NEW p \in Plans, NEW facts \in Facts,
             GenerateHuntingPlan(r, p, facts)
      PROVE  PTyped'
  <2> DEFINE new == [at |-> "map", of |-> p, size |-> Len(PlanSteps(facts))]
  <2>1. preqs' = [preqs EXCEPT ![r] = new] /\ UNCHANGED <<held, shelf>>
    BY <1>2 DEF GenerateHuntingPlan
  <2>2. new \in PlanRequests
    BY PlanSize DEF PlanRequests, MapRequests
  <2> HIDE DEF new
  <2> QED BY <1>1, <2>1, <2>2 DEF PTyped
<1>3. ASSUME NEW r \in Planners, KeepPlan(r) PROVE PTyped'
  <2> DEFINE q == preqs[r]
             row == [status |-> "PLANNED", size |-> q.size, approved |-> {}]
             new == [at |-> "save", of |-> q.of]
  <2>1. /\ q.at = "map" /\ held' = [held EXCEPT ![q.of] = row]
        /\ preqs' = [preqs EXCEPT ![r] = new] /\ UNCHANGED shelf
    BY <1>3 DEF KeepPlan
  <2>2. q.of \in Plans /\ q.size \in StepNumbers
    BY <2>1, PlannersAt DEF MapRequests
  <2>3. row \in PlanRows /\ new \in PlanRequests
    BY <2>2 DEF PlanRows, PlanRequests, KeptRequests
  <2> HIDE DEF row, new
  <2> QED BY <1>1, <2>1, <2>2, <2>3 DEF PTyped
<1>4. ASSUME NEW r \in Planners, SaveInvestigationPlan(r) PROVE PTyped'
  <2>1. /\ preqs[r].at = "save" /\ preqs' = [preqs EXCEPT ![r] = IdlePlanner] /\ UNCHANGED held
        /\ shelf' = [shelf EXCEPT ![preqs[r].of] = held[preqs[r].of]] \/ UNCHANGED shelf
    BY <1>4 DEF SaveInvestigationPlan
  <2>2. preqs[r].of \in Plans
    BY <2>1, PlannersAt DEF KeptRequests
  <2> QED BY <1>1, <2>1, <2>2 DEF PTyped
<1>5. ASSUME NEW r \in Planners, NEW p \in Plans, NEW n \in StepNumbers, ApproveStep(r, p, n)
      PROVE  PTyped'
  <2> DEFINE row == [Approve(held[p], n) EXCEPT !.status = "APPROVED"]
             new == [at |-> "step", of |-> p, step |-> n]
  <2>1. /\ held[p] # NoPlan /\ held' = [held EXCEPT ![p] = row]
        /\ \/ shelf[p] # NoPlan /\ shelf' = [shelf EXCEPT ![p] = Approve(shelf[p], n)]
           \/ UNCHANGED shelf
        /\ preqs' = [preqs EXCEPT ![r] = new]
    BY <1>5 DEF ApproveStep, MayApprove
  <2>2. held[p] \in PlanRows /\ (shelf[p] # NoPlan => shelf[p] \in PlanRows)
    BY <1>1, <2>1
  <2>3. row \in PlanRows /\ (shelf[p] # NoPlan => Approve(shelf[p], n) \in PlanRows)
    BY <2>2, ApprovedTyped
  <2>4. new \in PlanRequests
    BY DEF PlanRequests, ApprovalRequests
  <2> HIDE DEF row, new
  <2> QED BY <1>1, <2>1, <2>3, <2>4 DEF PTyped
<1>6. ASSUME NEW r \in Planners, ApprovePlanStep(r) PROVE PTyped'
  <2> DEFINE q == preqs[r]
             next == [q EXCEPT !.at = "plan"]
  <2>1. /\ q.at = "step" /\ UNCHANGED held
        /\ preqs' = [preqs EXCEPT ![r] = IdlePlanner] \/ preqs' = [preqs EXCEPT ![r] = next]
        /\ \/ UNCHANGED shelf
           \/ /\ shelf[q.of] # NoPlan
              /\ \E row \in {Approve(shelf[q.of], q.step),
                             [Approve(shelf[q.of], q.step) EXCEPT !.status = "APPROVED"]} :
                    shelf' = [shelf EXCEPT ![q.of] = row]
    BY <1>6 DEF ApprovePlanStep
  <2>2. q \in ApprovalRequests
    BY <2>1, PlannersAt
  <2>3. next \in PlanRequests /\ q.of \in Plans /\ q.step \in StepNumbers
    BY <2>2 DEF PlanRequests, ApprovalRequests
  <2> HIDE DEF q, next
  <2>4. shelf[q.of] # NoPlan =>
          /\ Approve(shelf[q.of], q.step) \in PlanRows
          /\ [Approve(shelf[q.of], q.step) EXCEPT !.status = "APPROVED"] \in PlanRows
    BY <1>1, <2>3, ApprovedTyped
  <2>5. shelf' \in [Plans -> PlanRows \cup {NoPlan}]
    BY <1>1, <2>1, <2>3, <2>4
  <2>6. preqs' \in [Planners -> PlanRequests]
    BY <1>1, <2>1, <2>3
  <2> QED BY <1>1, <2>1, <2>5, <2>6 DEF PTyped
<1>7. ASSUME NEW r \in Planners, ApprovePlanStatus(r) PROVE PTyped'
  <2> DEFINE p == preqs[r].of
  <2>1. /\ preqs[r].at = "plan" /\ shelf' = [shelf EXCEPT ![p] = [shelf[p] EXCEPT !.status = "APPROVED"]]
        /\ preqs' = [preqs EXCEPT ![r] = IdlePlanner] /\ UNCHANGED held
    BY <1>7 DEF ApprovePlanStatus
  <2>2. p \in Plans /\ shelf[p] # NoPlan
    BY <2>1, PlannersAt DEF ApprovalRequests, PStrong, PRequests
  <2>3. [shelf[p] EXCEPT !.status = "APPROVED"] \in PlanRows
    BY <1>1, <2>2 DEF PlanRows
  <2> HIDE DEF p
  <2> QED BY <1>1, <2>1, <2>2, <2>3 DEF PTyped
<1>8. ASSUME NEW r \in Planners, StoreRefuses(r) PROVE PTyped'
  BY <1>1, <1>8 DEF StoreRefuses, PTyped
<1>9. ASSUME Restart PROVE PTyped'
  BY <1>1, <1>9 DEF Restart, AfterRestart, PTyped
<1>10. CASE UNCHANGED <<pg, pvars>>
  BY <1>10 DEF pvars, PTyped
<1> QED BY <1>2, <1>3, <1>4, <1>5, <1>6, <1>7, <1>8, <1>9, <1>10 DEF PNext

\* The types of the plans, in the map and in the store.
THEOREM PlansTyped == PSpec => []PTypeOK
<1> DEFINE Inv == PStrong /\ PTyped
<1>1. PInit => Inv
  BY InitPStrong DEF PInit, PTyped, PlanRequests
<1>2. Inv /\ [PNext]_<<pg, pvars>> => Inv'
  BY NextPStrong, NextPTyped
<1> QED BY <1>1, <1>2, PTypedIsTypeOK, PTL DEF PSpec

-----------------------------------------------------------------------------
(* Evidence. *)

\* A record bears a hash of what it says.
Hashed(x) == x.hash \in CanonicalHashes(x.target, x.content)

\* What is about to be saved bears a hash of what it says, and so does what is
\* saved, unless PostgreSQL was told of it more than once.
EStrong ==
    /\ DOMAIN record = Records /\ DOMAIN preq = Posters
    /\ \A p \in Posters : preq[p].at = "save" =>
          /\ "at" \in DOMAIN preq[p] /\ preq[p].of \in Records
          /\ Hashed(preq[p].new)
    /\ \A e \in Records : record[e] # NoRecord /\ e \notin rewritten => Hashed(record[e])

\* Where header names differ by more than case, there is one hash to compute.
LEMMA UnambiguousHash ==
    ASSUME NEW t, NEW c, Unambiguous(c)
    PROVE  \A x, y \in CanonicalHashes(t, c) : x = y
BY DEF Unambiguous, CanonicalHashes

\* A request that saves no record keeps the invariant.
LEMMA NoRecordSaved ==
    ASSUME EStrong, NEW p \in Posters, NEW new, new.at # "save",
           preq' = [preq EXCEPT ![p] = new], UNCHANGED <<pg, record, rewritten>>
    PROVE  EStrong'
<1>1. \A o \in Posters : preq'[o] = IF o = p THEN new ELSE preq[o]
  BY DEF EStrong
<1> QED BY <1>1 DEF EStrong

\* The invariant is inductive.
LEMMA NextEStrong == EStrong /\ [ENext]_<<pg, evars>> => EStrong'
<1> SUFFICES ASSUME EStrong, [ENext]_<<pg, evars>> PROVE EStrong'
  OBVIOUS
<1>1. IdlePost.at # "save"
  BY DEF IdlePost
<1>2. ASSUME NEW p \in Posters, NEW e \in Records, NEW t \in EvTargets, NEW c \in Contents,
             RecordEvidence(p, e, t, c), UNCHANGED pg
      PROVE  EStrong'
  <2>1. PICK x \in Recorded(t, c) :
            preq' = [preq EXCEPT ![p] = [at |-> "save", of |-> e, new |-> x]]
    BY <1>2 DEF RecordEvidence, Post
  <2> DEFINE new == [at |-> "save", of |-> e, new |-> x]
  <2>2. \A o \in Posters : preq'[o] = IF o = p THEN new ELSE preq[o]
    BY <2>1 DEF EStrong
  <2>3. Hashed(x)
    BY <2>1 DEF Recorded, Hashed
  <2>4. new.new = x /\ new.of \in Records /\ "at" \in DOMAIN new
    OBVIOUS
  <2>5. UNCHANGED <<record, rewritten>>
    BY <1>2 DEF RecordEvidence
  <2> HIDE DEF new
  <2> QED BY <2>1, <2>2, <2>3, <2>4, <2>5 DEF EStrong
<1>3. ASSUME NEW p \in Posters, SaveEvidence(p), UNCHANGED pg PROVE EStrong'
  <2> DEFINE r == preq[p]
             next == [r EXCEPT !.at = "timeline"]
  <2>1. /\ r.at = "save" /\ record' = [record EXCEPT ![r.of] = Upserted(record[r.of], r.new)]
        /\ preq' = [preq EXCEPT ![p] = next]
    BY <1>3 DEF SaveEvidence
  <2>2. r.of \in Records /\ Hashed(r.new) /\ next.at = "timeline"
    BY <2>1 DEF EStrong
  <2>3. rewritten' = rewritten \cup {e \in {r.of} : pg /\ record[e] # NoRecord}
    BY <1>3 DEF SaveEvidence
  <2>4. r.of \notin rewritten' => Upserted(record[r.of], r.new) = r.new
    BY <2>3 DEF Upserted
  <2> HIDE DEF r, next
  <2>5. \A o \in Posters : preq'[o] = IF o = p THEN next ELSE preq[o]
    BY <2>1 DEF EStrong
  <2>6. DOMAIN record' = Records /\ DOMAIN preq' = Posters
    BY <2>1 DEF EStrong
  <2>7. \A e \in Records : record'[e] # NoRecord /\ e \notin rewritten' => Hashed(record'[e])
    BY <2>1, <2>2, <2>3, <2>4 DEF EStrong
  <2> QED BY <2>2, <2>5, <2>6, <2>7 DEF EStrong
<1>4. ASSUME NEW p \in Posters, UNCHANGED pg,
             \/ RecordTimelineEvent(p) \/ SaveDiff(p) \/ UpdateContradictionStatus(p) \/ PostFails(p)
      PROVE  EStrong'
  BY <1>1, <1>4, NoRecordSaved
     DEF RecordTimelineEvent, SaveDiff, UpdateContradictionStatus, PostFails, Done
<1>5. ASSUME NEW p \in Posters, NEW a \in Records, NEW b \in Records, CompareRead(p, a, b),
             UNCHANGED pg
      PROVE  EStrong'
  BY <1>5, NoRecordSaved DEF CompareRead, Post
<1>6. ASSUME NEW p \in Posters, Compare(p), UNCHANGED pg PROVE EStrong'
  <2>1. PICK new : new.at # "save" /\ preq' = [preq EXCEPT ![p] = new]
    BY <1>1, <1>6 DEF Compare, Done
  <2> QED BY <1>6, <2>1, NoRecordSaved DEF Compare
<1>7. ASSUME NEW p \in Posters, NEW x, NEW y, EvaluateContradiction(p, x, y), UNCHANGED pg
      PROVE  EStrong'
  BY <1>1, <1>7, NoRecordSaved DEF EvaluateContradiction, Post
<1>8. ASSUME NEW p \in Posters, NEW status, ContradictionRead(p, status), UNCHANGED pg
      PROVE  EStrong'
  BY <1>8, NoRecordSaved DEF ContradictionRead, Post
<1>9. CASE UNCHANGED <<pg, evars>>
  BY <1>9 DEF evars, EStrong
<1> QED BY <1>2, <1>3, <1>4, <1>5, <1>6, <1>7, <1>8, <1>9 DEF ENext

\* Every record with unambiguous header names verifies against its hash, for any
\* contents and any number of requests: in memory however often its id is used
\* again, in PostgreSQL while it was used once.
THEOREM EvidenceVerifies == ESpec => []RecordsVerify
<1>1. EInit => EStrong
  BY DEF EInit, EStrong, IdlePost
<1>2. EStrong => RecordsVerify
  BY UnambiguousHash DEF EStrong, Hashed, RecordsVerify, Verifies
<1> QED BY <1>1, <1>2, NextEStrong, PTL DEF ESpec

\* Records, comparisons and requests.
StoredRecords == [target : EvTargets, content : Content, hash : EvTargets \X Content]
Comparisons ==
    [a : Records, b : Records, target : EvTargets, from : Nat, to : Nat, relevant : BOOLEAN]
ContradictionStatus ==
    {NoContradiction, "UNVERIFIED", "INVESTIGATING", "CONFIRMED_DEVIATION", "REJECTED", "DISMISSED"}
SavePosts == [at : {"save", "timeline"}, of : Records, new : StoredRecords]
ComparePosts == [at : {"compare"}, a : Records, b : Records, seen : StoredRecords]
DiffPosts == [at : {"diff"}, diff : Comparisons]
ContradictionPosts == [at : {"contradiction"}, status : {"REJECTED", "DISMISSED"}]
PostRequests == {IdlePost} \cup SavePosts \cup ComparePosts \cup DiffPosts \cup ContradictionPosts

ETables ==
    /\ record \in [Records -> StoredRecords \cup {NoRecord}]
    /\ told \subseteq Records /\ rewritten \subseteq Records
    /\ diffs \subseteq Comparisons /\ con \in ContradictionStatus
ETyped ==
    /\ ETables /\ preq \in [Posters -> PostRequests] /\ posts \in 0 .. MaxPosts

\* What is typed is typed as the run checks it.
LEMMA ETypedIsTypeOK == ETyped => ETypeOK
<1> SUFFICES ASSUME ETyped PROVE ETypeOK
  OBVIOUS
<1>1. \A q \in PostRequests : q.at \in {"idle", "save", "timeline", "compare", "diff",
                                        "contradiction"}
  BY DEF PostRequests, IdlePost, SavePosts, ComparePosts, DiffPosts, ContradictionPosts
<1>2. \A d \in diffs : d.target \in EvTargets /\ {d.a, d.b} \subseteq Records
  BY DEF ETyped, ETables, Comparisons
<1>3. \A e \in Records : record[e] # NoRecord =>
        record[e].target \in EvTargets /\ record[e].content \in Content
  BY DEF ETyped, ETables, StoredRecords
<1> QED BY <1>1, <1>2, <1>3 DEF ETyped, ETables, ETypeOK, ContradictionStatus

\* Masking secrets leaves content that could have been posted.
LEMMA SanitizeTyped == ASSUME NEW c \in Content PROVE Sanitize(c) \in Content
<1>1. SanitizedURL(c.url) \in {"plain", "token", "masked"}
  BY DEF SanitizedURL, Content
<1>2. \A n, vs : vs \in Header => SanitizedHeaders(n, vs) \in Header
  <2>1. \A n, v : v \in Value => SanitizedHeader(n, v) \in Value
    BY DEF SanitizedHeader, Value
  <2>2. ASSUME NEW n, NEW vs \in Header PROVE SanitizedHeaders(n, vs) \in Header
    <3>1. PICK v : v \in vs
      BY DEF Header
    <3>2. SanitizedHeader(n, v) \in SanitizedHeaders(n, vs)
      BY <3>1 DEF SanitizedHeaders
    <3>3. SanitizedHeaders(n, vs) \subseteq Value
      BY <2>1 DEF SanitizedHeaders, Header
    <3> QED BY <3>2, <3>3 DEF Header
  <2> QED BY <2>2
<1>3. ASSUME NEW b \in Text \cup Object PROVE SanitizedBody(b) \in Text \cup Object
  <2>1. CASE b \in Text
    BY <2>1 DEF SanitizedBody, Text, Value
  <2>2. CASE b \in Object
    BY <2>2 DEF SanitizedBody, Object, Value
  <2> QED BY <2>1, <2>2
<1>4. c.sensitive \in Header /\ c.header \in Header /\ c.body \in Text \cup Object
  BY DEF Content
<1>5. Sanitize(c) = [c EXCEPT !.url = SanitizedURL(c.url),
                              !.sensitive = SanitizedHeaders("sensitive", c.sensitive),
                              !.header = SanitizedHeaders("other", c.header),
                              !.body = SanitizedBody(c.body)]
  BY DEF Sanitize
<1>6. /\ SanitizedHeaders("sensitive", c.sensitive) \in Header
      /\ SanitizedHeaders("other", c.header) \in Header /\ SanitizedBody(c.body) \in Text \cup Object
  BY <1>2, <1>3, <1>4
<1> QED BY <1>1, <1>5, <1>6 DEF Content

\* A hash is computed over content.
LEMMA HashesTyped ==
    ASSUME NEW t \in EvTargets, NEW c \in Content
    PROVE  CanonicalHashes(t, c) \subseteq EvTargets \X Content
<1>1. \A v \in Value : {v} \in Header
  BY DEF Header
<1>2. c.sensitive \subseteq Value /\ c.header \subseteq Value
  BY DEF Content, Header
<1>3. ASSUME NEW s \in c.sensitive, NEW h \in c.header PROVE Normalized(c, s, h) \in Content
  BY <1>1, <1>2 DEF Normalized, Content
<1> QED BY <1>3 DEF CanonicalHashes

\* A request moves on, and the tables stay typed.
LEMMA PosterMoves ==
    ASSUME ETyped, NEW p \in Posters, NEW new \in PostRequests, preq' = [preq EXCEPT ![p] = new],
           ETables', posts' = posts \/ (posts < MaxPosts /\ posts' = posts + 1)
    PROVE  ETyped'
<1>1. posts \in 0 .. MaxPosts /\ MaxPosts \in Nat
  BY EvidenceAssumption DEF ETyped
<1>2. posts' \in 0 .. MaxPosts
  BY <1>1
<1>3. preq' \in [Posters -> PostRequests]
  BY DEF ETyped
<1> QED BY <1>2, <1>3 DEF ETyped

\* The requests of each place.
LEMMA PostersAt ==
    ASSUME ETyped, NEW p \in Posters
    PROVE  /\ preq[p].at \in {"save", "timeline"} => preq[p] \in SavePosts
           /\ preq[p].at = "compare" => preq[p] \in ComparePosts
           /\ preq[p].at = "diff" => preq[p] \in DiffPosts
           /\ preq[p].at = "contradiction" => preq[p] \in ContradictionPosts
<1>1. preq[p] \in PostRequests /\ IdlePost.at = "idle"
  BY DEF ETyped, IdlePost
<1>2. \A q \in SavePosts : q.at \in {"save", "timeline"}
  BY DEF SavePosts
<1>3. (\A q \in ComparePosts : q.at = "compare") /\ (\A q \in DiffPosts : q.at = "diff")
  BY DEF ComparePosts, DiffPosts
<1>4. \A q \in ContradictionPosts : q.at = "contradiction"
  BY DEF ContradictionPosts
<1> QED BY <1>1, <1>2, <1>3, <1>4 DEF PostRequests

\* No step breaks the types.
LEMMA NextETyped == ETyped /\ [ENext]_<<pg, evars>> => ETyped'
<1> SUFFICES ASSUME ETyped, [ENext]_<<pg, evars>> PROVE ETyped'
  OBVIOUS
<1>1. /\ record \in [Records -> StoredRecords \cup {NoRecord}] /\ IdlePost \in PostRequests
      /\ UNCHANGED <<record, rewritten, told, diffs, con>> => ETables'
  BY DEF ETyped, ETables, PostRequests
<1>2. ASSUME NEW p \in Posters, NEW e \in Records, NEW t \in EvTargets, NEW c \in Contents,
             RecordEvidence(p, e, t, c)
      PROVE  ETyped'
  <2>1. PICK x \in Recorded(t, c) :
            preq' = [preq EXCEPT ![p] = [at |-> "save", of |-> e, new |-> x]]
    BY <1>2 DEF RecordEvidence, Post
  <2> DEFINE new == [at |-> "save", of |-> e, new |-> x]
  <2>2. x \in StoredRecords
    BY <2>1, EvidenceAssumption, SanitizeTyped, HashesTyped DEF Recorded, StoredRecords
  <2>3. new \in PostRequests
    BY <2>2 DEF PostRequests, SavePosts
  <2>4. /\ UNCHANGED <<record, rewritten, told, diffs, con>>
        /\ posts < MaxPosts /\ posts' = posts + 1
    BY <1>2 DEF RecordEvidence, Post
  <2>5. preq' = [preq EXCEPT ![p] = new]
    BY <2>1
  <2> HIDE DEF new
  <2> QED BY <1>1, <2>3, <2>4, <2>5, PosterMoves
<1>3. ASSUME NEW p \in Posters, SaveEvidence(p) PROVE ETyped'
  <2> DEFINE r == preq[p]
             new == [r EXCEPT !.at = "timeline"]
             up == Upserted(record[r.of], r.new)
  <2>1. /\ r.at = "save" /\ record' = [record EXCEPT ![r.of] = up]
        /\ preq' = [preq EXCEPT ![p] = new] /\ UNCHANGED <<told, diffs, con, posts>>
        /\ rewritten' \subseteq rewritten \cup {r.of}
    BY <1>3 DEF SaveEvidence
  <2>2. r \in SavePosts
    BY <2>1, PostersAt
  <2>3. new \in PostRequests /\ r.of \in Records /\ r.new \in StoredRecords
    BY <2>2 DEF PostRequests, SavePosts
  <2>4. up \in StoredRecords
    <3>1. CASE record[r.of] = NoRecord \/ ~pg
      BY <2>3, <3>1 DEF Upserted
    <3>2. CASE ~(record[r.of] = NoRecord \/ ~pg)
      <4> DEFINE old == record[r.of]
      <4>1. old \in StoredRecords
        BY <1>1, <2>3, <3>2
      <4>2. [old.content EXCEPT !.code = r.new.content.code, !.body = r.new.content.body] \in Content
        BY <2>3, <4>1 DEF StoredRecords, Content
      <4>3. old.target \in EvTargets /\ r.new.hash \in EvTargets \X Content
        BY <2>3, <4>1 DEF StoredRecords
      <4>4. up = [target |-> old.target, hash |-> r.new.hash,
                  content |-> [old.content EXCEPT !.code = r.new.content.code,
                                                  !.body = r.new.content.body]]
        BY <3>2 DEF Upserted
      <4> HIDE DEF old, r, up
      <4> QED BY <4>2, <4>3, <4>4 DEF StoredRecords
    <3> QED BY <3>1, <3>2
  <2> HIDE DEF new, up
  <2>5. ETables'
    BY <1>1, <2>1, <2>3, <2>4 DEF ETyped, ETables
  <2> QED BY <2>1, <2>3, <2>5, PosterMoves
<1>4. ASSUME NEW p \in Posters, RecordTimelineEvent(p) PROVE ETyped'
  <2>1. /\ preq[p].at = "timeline" /\ told' = told \cup {preq[p].of}
        /\ preq' = [preq EXCEPT ![p] = IdlePost]
        /\ UNCHANGED <<record, rewritten, diffs, con, posts>>
    BY <1>4 DEF RecordTimelineEvent, Done
  <2>2. preq[p].of \in Records
    BY <2>1, PostersAt DEF SavePosts
  <2>3. ETables'
    BY <2>1, <2>2 DEF ETyped, ETables
  <2> QED BY <1>1, <2>1, <2>3, PosterMoves
<1>5. ASSUME NEW p \in Posters, NEW a \in Records, NEW b \in Records, CompareRead(p, a, b)
      PROVE  ETyped'
  <2> DEFINE new == [at |-> "compare", a |-> a, b |-> b, seen |-> record[a]]
  <2>1. /\ record[a] # NoRecord /\ preq' = [preq EXCEPT ![p] = new]
        /\ UNCHANGED <<record, rewritten, told, diffs, con>> /\ posts < MaxPosts /\ posts' = posts + 1
    BY <1>5 DEF CompareRead, Post
  <2>2. record[a] \in StoredRecords
    BY <1>1, <2>1
  <2>3. new \in PostRequests
    BY <2>2 DEF PostRequests, ComparePosts
  <2> HIDE DEF new
  <2> QED BY <1>1, <2>1, <2>3, PosterMoves
<1>6. ASSUME NEW p \in Posters, Compare(p) PROVE ETyped'
  <2> DEFINE r == preq[p]
             d == [a |-> r.a, b |-> r.b, target |-> r.seen.target,
                   from |-> r.seen.content.code, to |-> record[r.b].content.code,
                   relevant |-> SecurityRelevant(r.seen.content.code, record[r.b].content.code)]
             new == [at |-> "diff", diff |-> d]
  <2>1. /\ r.at = "compare" /\ UNCHANGED <<record, rewritten, told, diffs, con, posts>>
        /\ \/ record[r.b] # NoRecord /\ preq' = [preq EXCEPT ![p] = new]
           \/ preq' = [preq EXCEPT ![p] = IdlePost]
    BY <1>6 DEF Compare, Done
  <2>2. r \in ComparePosts
    BY <2>1, PostersAt
  <2>3. ASSUME record[r.b] # NoRecord PROVE new \in PostRequests
    <3>1. r.a \in Records /\ r.b \in Records /\ r.seen \in StoredRecords
      BY <2>2 DEF ComparePosts
    <3>2. record[r.b] \in StoredRecords
      BY <1>1, <2>3, <3>1
    <3>3. \A x \in StoredRecords : x.target \in EvTargets /\ x.content.code \in Nat
      BY DEF StoredRecords, Content
    <3>4. SecurityRelevant(r.seen.content.code, record[r.b].content.code) \in BOOLEAN
      BY DEF SecurityRelevant
    <3> HIDE DEF r
    <3>5. d \in Comparisons
      BY <3>1, <3>2, <3>3, <3>4 DEF Comparisons
    <3> HIDE DEF d
    <3> QED BY <3>5 DEF PostRequests, DiffPosts
  <2> HIDE DEF new
  <2> QED BY <1>1, <2>1, <2>3, PosterMoves
<1>7. ASSUME NEW p \in Posters, SaveDiff(p) PROVE ETyped'
  <2>1. /\ preq[p].at = "diff" /\ diffs' = diffs \cup {preq[p].diff}
        /\ preq' = [preq EXCEPT ![p] = IdlePost] /\ UNCHANGED <<record, rewritten, told, con, posts>>
    BY <1>7 DEF SaveDiff, Done
  <2>2. preq[p].diff \in Comparisons
    BY <2>1, PostersAt DEF DiffPosts
  <2>3. ETables'
    BY <2>1, <2>2 DEF ETyped, ETables
  <2> QED BY <1>1, <2>1, <2>3, PosterMoves
<1>8. ASSUME NEW p \in Posters, NEW x \in {"PRESENT", "ABSENT"},
             NEW y \in {"PRESENT", "ABSENT", "NOT_OBSERVED", "UNKNOWN"}, EvaluateContradiction(p, x, y)
      PROVE  ETyped'
  <2>1. /\ preq' = [preq EXCEPT ![p] = IdlePost] /\ posts < MaxPosts /\ posts' = posts + 1
        /\ con' = Contradiction(x, y) /\ UNCHANGED <<record, rewritten, told, diffs>>
    BY <1>8 DEF EvaluateContradiction, Post
  <2>2. Contradiction(x, y) \in ContradictionStatus
    BY DEF Contradiction, ContradictionStatus
  <2>3. ETables'
    BY <2>1, <2>2 DEF ETyped, ETables
  <2> QED BY <1>1, <2>1, <2>3, PosterMoves
<1>9. ASSUME NEW p \in Posters, NEW status \in {"REJECTED", "DISMISSED"}, ContradictionRead(p, status)
      PROVE  ETyped'
  <2> DEFINE new == [at |-> "contradiction", status |-> status]
  <2>1. /\ preq' = [preq EXCEPT ![p] = new] /\ UNCHANGED <<record, rewritten, told, diffs, con>>
        /\ posts < MaxPosts /\ posts' = posts + 1
    BY <1>9 DEF ContradictionRead, Post
  <2>2. new \in PostRequests
    BY DEF PostRequests, ContradictionPosts
  <2> HIDE DEF new
  <2> QED BY <1>1, <2>1, <2>2, PosterMoves
<1>10. ASSUME NEW p \in Posters, UpdateContradictionStatus(p) PROVE ETyped'
  <2>1. /\ preq[p].at = "contradiction" /\ con' = preq[p].status
        /\ preq' = [preq EXCEPT ![p] = IdlePost] /\ UNCHANGED <<record, rewritten, told, diffs, posts>>
    BY <1>10 DEF UpdateContradictionStatus, Done
  <2>2. preq[p].status \in ContradictionStatus
    BY <2>1, PostersAt DEF ContradictionPosts, ContradictionStatus
  <2>3. ETables'
    BY <2>1, <2>2 DEF ETyped, ETables
  <2> QED BY <1>1, <2>1, <2>3, PosterMoves
<1>11. ASSUME NEW p \in Posters, PostFails(p) PROVE ETyped'
  BY <1>1, <1>11, PosterMoves DEF PostFails, Done
<1>12. CASE UNCHANGED <<pg, evars>>
  BY <1>12 DEF evars, ETyped, ETables
<1> QED BY <1>2, <1>3, <1>4, <1>5, <1>6, <1>7, <1>8, <1>9, <1>10, <1>11, <1>12 DEF ENext

\* The types of the evidence, the comparisons and the requests about them.
THEOREM EvidenceTyped == ESpec => []ETypeOK
<1>1. EInit => ETyped
  <2> SUFFICES ASSUME EInit PROVE ETyped
    OBVIOUS
  <2>1. 0 \in 0 .. MaxPosts
    BY EvidenceAssumption
  <2>2. IdlePost \in PostRequests /\ NoContradiction \in ContradictionStatus
    BY DEF PostRequests, ContradictionStatus
  <2> QED BY <2>1, <2>2 DEF EInit, ETyped, ETables
<1> QED BY <1>1, ETypedIsTypeOK, NextETyped, PTL DEF ESpec

-----------------------------------------------------------------------------
(* Investigations. *)

\* What executions under way rely on, and the number of steps.
IStrong ==
    /\ steps \in [Investigation -> 0 .. NumSteps] /\ DOMAIN ireq = Researchers
    /\ \A r \in Researchers : LET q == ireq[r] IN
          /\ q # IdleRequest => {"at", "of"} \subseteq DOMAIN q /\ q.of \in Investigation
          /\ q.at \in {"find", "mark"} => "done" \in DOMAIN q /\ q.done \in 0 .. NumSteps

\* Steps change in two places only, and there they go up.
LEMMA NextIStrong ==
    IStrong /\ [INext]_<<pg, ivars>>
        => IStrong' /\ \A i \in Investigation : steps'[i] >= steps[i]
<1> DEFINE Up == \A i \in Investigation : steps'[i] >= steps[i]
<1> SUFFICES ASSUME IStrong, [INext]_<<pg, ivars>> PROVE IStrong' /\ Up
  OBVIOUS
<1>1. IdleRequest.at = "idle"
  BY DEF IdleRequest
<1>2. ASSUME UNCHANGED steps PROVE Up /\ steps' \in [Investigation -> 0 .. NumSteps]
  BY <1>2, NumStepsAssumption DEF IStrong
<1>3. ASSUME NEW r \in Researchers, NEW new, ireq' = [ireq EXCEPT ![r] = new],
             steps' \in [Investigation -> 0 .. NumSteps],
             new # IdleRequest => {"at", "of"} \subseteq DOMAIN new /\ new.of \in Investigation,
             new.at \in {"find", "mark"} => "done" \in DOMAIN new /\ new.done \in 0 .. NumSteps
      PROVE  IStrong'
  <2>1. \A o \in Researchers : ireq'[o] = IF o = r THEN new ELSE ireq[o]
    BY <1>3 DEF IStrong
  <2> QED BY <1>3, <2>1 DEF IStrong
<1>4. ASSUME NEW r \in Researchers, Reply(r), steps' \in [Investigation -> 0 .. NumSteps]
      PROVE  IStrong'
  BY <1>1, <1>3, <1>4 DEF Reply
<1>5. ASSUME NEW r \in Researchers, NEW i \in Investigation, PlanInvestigation(r, i) \/ CancelRead(r, i)
      PROVE  IStrong' /\ Up
  <2>1. PICK a \in {"plan", "cancel"} : ireq' = [ireq EXCEPT ![r] = [at |-> a, of |-> i]]
    BY <1>5 DEF PlanInvestigation, CancelRead, Request
  <2>2. UNCHANGED steps
    BY <1>5 DEF PlanInvestigation, CancelRead
  <2> QED BY <1>2, <1>3, <2>1, <2>2
<1>6. ASSUME NEW r \in Researchers, NEW i \in Investigation, ExecuteRead(r, i) PROVE IStrong' /\ Up
  <2>1. steps[i] \in 0 .. NumSteps
    BY DEF IStrong
  <2> QED BY <1>2, <1>3, <1>6, <2>1 DEF ExecuteRead, Request
<1>7. ASSUME NEW r \in Researchers, SavePlan(r) \/ CancelWrite(r) \/ StatusRefused(r)
      PROVE  IStrong' /\ Up
  BY <1>2, <1>4, <1>7 DEF SavePlan, CancelWrite, StatusRefused
<1>8. ASSUME NEW r \in Researchers, ireq[r].at \in {"find", "mark", "tally", "status", "save"}
      PROVE  /\ {"at", "of"} \subseteq DOMAIN ireq[r] /\ ireq[r].of \in Investigation
             /\ steps[ireq[r].of] \in 0 .. NumSteps
  BY <1>1, <1>8 DEF IStrong
<1>9. ASSUME NEW r \in Researchers, ExecuteFind(r) PROVE IStrong' /\ Up
  <2>1. ireq[r].at = "find" /\ UNCHANGED steps
    BY <1>9 DEF ExecuteFind
  <2>2. StepsSeen(r) \in 0 .. NumSteps
    BY <1>8, <2>1 DEF StepsSeen, IStrong
  <2>3. CASE StepsSeen(r) = NumSteps
    BY <1>2, <1>4, <1>9, <2>1, <2>3 DEF ExecuteFind
  <2>4. CASE StepsSeen(r) # NumSteps
    <3> DEFINE new == [ireq[r] EXCEPT !.at = "mark", !.done = StepsSeen(r) + 1]
    <3>1. ireq' = [ireq EXCEPT ![r] = new]
      BY <1>9, <2>4 DEF ExecuteFind
    <3>2. {"at", "of", "done"} \subseteq DOMAIN ireq[r] /\ ireq[r].of \in Investigation
      BY <1>8, <2>1 DEF IStrong
    <3>3. StepsSeen(r) + 1 \in 0 .. NumSteps
      BY <2>2, <2>4, NumStepsAssumption
    <3>4. /\ {"at", "of", "done"} \subseteq DOMAIN new /\ new.of \in Investigation
          /\ new.done \in 0 .. NumSteps
      BY <3>2, <3>3
    <3> HIDE DEF new
    <3> QED BY <1>2, <1>3, <2>1, <3>1, <3>4
  <2> QED BY <2>3, <2>4
<1>10. ASSUME NEW r \in Researchers, ExecuteMark(r) PROVE IStrong' /\ Up
  <2> DEFINE q == ireq[r]
             next == [q EXCEPT !.at = "tally"]
  <2>1. /\ q.at = "mark" /\ ireq' = [ireq EXCEPT ![r] = next]
        /\ \/ UNCHANGED steps
           \/ ~(steps[q.of] >= q.done) /\ steps' = [steps EXCEPT ![q.of] = q.done]
    BY <1>10 DEF ExecuteMark
  <2>2. /\ {"at", "of"} \subseteq DOMAIN q /\ q.of \in Investigation
        /\ steps[q.of] \in 0 .. NumSteps /\ q.done \in 0 .. NumSteps
    BY <1>8, <2>1 DEF IStrong
  <2>3. next.at = "tally" /\ {"at", "of"} \subseteq DOMAIN next /\ next.of \in Investigation
    BY <2>2
  <2> HIDE DEF q, next
  <2>4. Up /\ steps' \in [Investigation -> 0 .. NumSteps]
    <3>1. CASE UNCHANGED steps
      BY <1>2, <3>1
    <3>2. CASE ~(steps[q.of] >= q.done) /\ steps' = [steps EXCEPT ![q.of] = q.done]
      BY <2>2, <3>2, NumStepsAssumption DEF IStrong
    <3> QED BY <2>1, <3>1, <3>2
  <2> QED BY <1>3, <2>1, <2>3, <2>4
<1>11. ASSUME NEW r \in Researchers, ExecuteTally(r) \/ ExecuteStatus(r) PROVE IStrong' /\ Up
  <2>1. PICK new : /\ ireq' = [ireq EXCEPT ![r] = new]
                   /\ \/ new = [ireq[r] EXCEPT !.at = "status",
                                               !.status = AfterStep(ireq[r].status, StepsSeen(r))]
                      \/ new = [ireq[r] EXCEPT !.at = "save"]
    BY <1>11 DEF ExecuteTally, ExecuteStatus
  <2>2. ireq[r].at \in {"tally", "status"} /\ UNCHANGED steps
    BY <1>11 DEF ExecuteTally, ExecuteStatus
  <2>3. new.at \in {"status", "save"} /\ {"at", "of"} \subseteq DOMAIN new /\ new.of \in Investigation
    BY <1>8, <2>1, <2>2
  <2> QED BY <1>2, <1>3, <2>1, <2>2, <2>3
<1>12. ASSUME NEW r \in Researchers, ExecuteSave(r) PROVE IStrong' /\ Up
  <2>1. steps' = [steps EXCEPT ![ireq[r].of] = steps[ireq[r].of]] /\ Reply(r)
    BY <1>12 DEF ExecuteSave, StepsOfCopy
  <2>2. steps' = steps
    BY <2>1 DEF IStrong
  <2> QED BY <1>2, <1>4, <2>1, <2>2
<1>13. CASE UNCHANGED <<pg, ivars>>
  BY <1>2, <1>13 DEF ivars, IStrong
<1> QED BY <1>5, <1>6, <1>7, <1>9, <1>10, <1>11, <1>12, <1>13 DEF INext

\* A step that was executed is never pending again, for any number of
\* investigations, steps and overlapping executions.
THEOREM ExecutedStepsStay == ISpec => StepsNeverUndone
<1>1. IInit => IStrong
  BY NumStepsAssumption DEF IInit, IStrong, IdleRequest
<1>2. IStrong /\ [INext]_<<pg, ivars>> => [\A i \in Investigation : steps'[i] >= steps[i]]_ivars
  BY NextIStrong
<1> QED BY <1>1, <1>2, NextIStrong, PTL DEF ISpec, StepsNeverUndone

\* The requests of each kind.
Executions ==
    [at : {"find", "mark", "tally", "status", "save"}, of : Investigation,
     status : InvestigationStatus, done : 0 .. NumSteps]
InvestigationRequests ==
    {IdleRequest} \cup [at : {"plan", "cancel"}, of : Investigation] \cup Executions

ITyped == ITypeOK /\ ireq \in [Researchers -> InvestigationRequests]

\* A request of each place.
LEMMA ResearchersAt ==
    ASSUME ITyped, NEW r \in Researchers
    PROVE  /\ ireq[r].at \in {"plan", "cancel"} => ireq[r].of \in Investigation
           /\ ireq[r].at \in {"find", "mark", "tally", "status", "save"} => ireq[r] \in Executions
<1>1. IdleRequest.at = "idle"
  BY DEF IdleRequest
<1>2. ireq[r] \in InvestigationRequests
  BY DEF ITyped
<1> QED BY <1>1, <1>2 DEF InvestigationRequests, Executions

\* A request moves on, and what it writes is typed.
LEMMA ResearcherMoves ==
    ASSUME ITyped, NEW r \in Researchers, NEW new \in InvestigationRequests,
           ireq' = [ireq EXCEPT ![r] = new],
           inv' \in [Investigation -> InvestigationStatus \cup {NoInvestigation}],
           steps' \in [Investigation -> 0 .. NumSteps],
           iasked' = iasked \/ (iasked < MaxInvRequests /\ iasked' = iasked + 1)
    PROVE  ITyped'
<1>1. ireq' \in [Researchers -> InvestigationRequests]
  BY DEF ITyped
<1>2. iasked' \in 0 .. MaxInvRequests
  <2>1. iasked \in 0 .. MaxInvRequests /\ MaxInvRequests \in Nat
    BY NumStepsAssumption DEF ITyped, ITypeOK
  <2> QED BY <2>1
<1>3. \A q \in InvestigationRequests : q.at \in {"idle", "plan", "cancel", "find", "mark", "tally",
                                                 "status", "save"}
  BY DEF InvestigationRequests, Executions, IdleRequest
<1> QED BY <1>1, <1>2, <1>3 DEF ITyped, ITypeOK

\* No step breaks the types.
LEMMA NextITyped == ITyped /\ [INext]_<<pg, ivars>> => ITyped'
<1> SUFFICES ASSUME ITyped, [INext]_<<pg, ivars>> PROVE ITyped'
  OBVIOUS
<1>1. /\ inv \in [Investigation -> InvestigationStatus \cup {NoInvestigation}]
      /\ steps \in [Investigation -> 0 .. NumSteps]
  BY DEF ITyped, ITypeOK
<1>2. IdleRequest \in InvestigationRequests
  BY DEF InvestigationRequests
<1>3. ASSUME NEW r \in Researchers, NEW i \in Investigation, PlanInvestigation(r, i) \/ CancelRead(r, i)
      PROVE  ITyped'
  <2>1. PICK a \in {"plan", "cancel"} : ireq' = [ireq EXCEPT ![r] = [at |-> a, of |-> i]]
    BY <1>3 DEF PlanInvestigation, CancelRead, Request
  <2>2. [at |-> a, of |-> i] \in InvestigationRequests
    BY DEF InvestigationRequests
  <2>3. UNCHANGED <<inv, steps>> /\ iasked < MaxInvRequests /\ iasked' = iasked + 1
    BY <1>3 DEF PlanInvestigation, CancelRead, Request
  <2> QED BY <1>1, <2>1, <2>2, <2>3, ResearcherMoves
<1>4. ASSUME NEW r \in Researchers, NEW i \in Investigation, ExecuteRead(r, i) PROVE ITyped'
  <2> DEFINE new == [at |-> "find", of |-> i, status |-> inv[i], done |-> steps[i]]
  <2>1. /\ ireq' = [ireq EXCEPT ![r] = new] /\ UNCHANGED <<inv, steps>>
        /\ iasked < MaxInvRequests /\ iasked' = iasked + 1
    BY <1>4 DEF ExecuteRead, Request
  <2>2. inv[i] \in InvestigationStatus /\ steps[i] \in 0 .. NumSteps
    BY <1>1, <1>4 DEF ExecuteRead, Executable
  <2>3. new \in InvestigationRequests
    BY <2>2 DEF InvestigationRequests, Executions
  <2> HIDE DEF new
  <2> QED BY <1>1, <2>1, <2>3, ResearcherMoves
<1>5. ASSUME NEW r \in Researchers, SavePlan(r) \/ CancelWrite(r) PROVE ITyped'
  <2>1. /\ ireq[r].at \in {"plan", "cancel"} /\ ireq' = [ireq EXCEPT ![r] = IdleRequest]
        /\ UNCHANGED <<steps, iasked>>
        /\ \/ UNCHANGED inv
           \/ \E s \in {"PLANNED", "CANCELLED"} : inv' = [inv EXCEPT ![ireq[r].of] = s]
    BY <1>5 DEF SavePlan, CancelWrite, Reply
  <2>2. inv' \in [Investigation -> InvestigationStatus \cup {NoInvestigation}]
    BY <1>1, <2>1, ResearchersAt DEF InvestigationStatus
  <2> QED BY <1>1, <1>2, <2>1, <2>2, ResearcherMoves
<1>6. ASSUME NEW r \in Researchers, StatusRefused(r) PROVE ITyped'
  BY <1>1, <1>2, <1>6, ResearcherMoves DEF StatusRefused, Reply
<1>7. ASSUME NEW r \in Researchers, ireq[r] \in Executions PROVE StepsSeen(r) \in 0 .. NumSteps
  BY <1>1, <1>7 DEF StepsSeen, Executions
<1>8. ASSUME NEW r \in Researchers, ExecuteFind(r) PROVE ITyped'
  <2>1. ireq[r].at = "find" /\ UNCHANGED <<inv, steps, iasked>>
    BY <1>8 DEF ExecuteFind
  <2>2. ireq[r] \in Executions
    BY <2>1, ResearchersAt
  <2>3. CASE StepsSeen(r) = NumSteps
    BY <1>1, <1>2, <1>8, <2>1, <2>3, ResearcherMoves DEF ExecuteFind, Reply
  <2>4. CASE StepsSeen(r) # NumSteps
    <3> DEFINE new == [ireq[r] EXCEPT !.at = "mark", !.done = StepsSeen(r) + 1]
    <3>1. ireq' = [ireq EXCEPT ![r] = new]
      BY <1>8, <2>4 DEF ExecuteFind
    <3>2. StepsSeen(r) + 1 \in 0 .. NumSteps
      BY <1>7, <2>2, <2>4, NumStepsAssumption
    <3>3. new \in InvestigationRequests
      BY <2>2, <3>2 DEF Executions, InvestigationRequests
    <3> HIDE DEF new
    <3> QED BY <1>1, <2>1, <3>1, <3>3, ResearcherMoves
  <2> QED BY <2>3, <2>4
<1>9. ASSUME NEW r \in Researchers, ExecuteMark(r) PROVE ITyped'
  <2> DEFINE new == [ireq[r] EXCEPT !.at = "tally"]
  <2>1. /\ ireq[r].at = "mark" /\ ireq' = [ireq EXCEPT ![r] = new] /\ UNCHANGED <<inv, iasked>>
        /\ UNCHANGED steps \/ steps' = [steps EXCEPT ![ireq[r].of] = ireq[r].done]
    BY <1>9 DEF ExecuteMark
  <2>2. ireq[r] \in Executions
    BY <2>1, ResearchersAt
  <2>3. new \in InvestigationRequests /\ ireq[r].done \in 0 .. NumSteps
    BY <2>2 DEF Executions, InvestigationRequests
  <2>4. steps' \in [Investigation -> 0 .. NumSteps]
    BY <1>1, <2>1, <2>3
  <2> HIDE DEF new
  <2> QED BY <1>1, <2>1, <2>3, <2>4, ResearcherMoves
<1>10. ASSUME NEW r \in Researchers, ExecuteTally(r) PROVE ITyped'
  <2> DEFINE s == AfterStep(ireq[r].status, StepsSeen(r))
             new == [ireq[r] EXCEPT !.at = "status", !.status = s]
  <2>1. /\ ireq[r].at = "tally" /\ ireq' = [ireq EXCEPT ![r] = new]
        /\ UNCHANGED <<inv, steps, iasked>>
    BY <1>10 DEF ExecuteTally
  <2>2. ireq[r] \in Executions
    BY <2>1, ResearchersAt
  <2>3. s \in InvestigationStatus
    BY <2>2 DEF AfterStep, Executions, InvestigationStatus
  <2> HIDE DEF s
  <2>4. new \in InvestigationRequests
    BY <2>2, <2>3 DEF Executions, InvestigationRequests
  <2> HIDE DEF new
  <2> QED BY <1>1, <2>1, <2>4, ResearcherMoves
<1>11. ASSUME NEW r \in Researchers, ExecuteStatus(r) PROVE ITyped'
  <2> DEFINE new == [ireq[r] EXCEPT !.at = "save"]
  <2>1. /\ ireq[r].at = "status" /\ ireq' = [ireq EXCEPT ![r] = new]
        /\ inv' = [inv EXCEPT ![ireq[r].of] = ireq[r].status] /\ UNCHANGED <<steps, iasked>>
    BY <1>11 DEF ExecuteStatus
  <2>2. ireq[r] \in Executions
    BY <2>1, ResearchersAt
  <2>3. new \in InvestigationRequests /\ ireq[r].status \in InvestigationStatus
    BY <2>2 DEF Executions, InvestigationRequests
  <2> HIDE DEF new
  <2> QED BY <1>1, <2>1, <2>3, ResearcherMoves
<1>12. ASSUME NEW r \in Researchers, ExecuteSave(r) PROVE ITyped'
  <2>1. /\ ireq[r].at = "save" /\ ireq' = [ireq EXCEPT ![r] = IdleRequest]
        /\ inv' = [inv EXCEPT ![ireq[r].of] = ireq[r].status] /\ UNCHANGED iasked
        /\ steps' = [steps EXCEPT ![ireq[r].of] = steps[ireq[r].of]]
    BY <1>12 DEF ExecuteSave, StepsOfCopy, Reply
  <2>2. ireq[r] \in Executions
    BY <2>1, ResearchersAt
  <2>3. ireq[r].status \in InvestigationStatus
    BY <2>2 DEF Executions
  <2> QED BY <1>1, <1>2, <2>1, <2>3, ResearcherMoves
<1>13. CASE UNCHANGED <<pg, ivars>>
  BY <1>13 DEF ivars, ITyped, ITypeOK
<1> QED BY <1>3, <1>4, <1>5, <1>6, <1>8, <1>9, <1>10, <1>11, <1>12, <1>13 DEF INext

\* The types of the investigations and of the requests about them.
THEOREM InvestigationsTyped == ISpec => []ITypeOK
<1>1. IInit => ITyped
  BY NumStepsAssumption DEF IInit, ITyped, ITypeOK, InvestigationRequests, IdleRequest
<1>2. ITyped => ITypeOK
  BY DEF ITyped
<1> QED BY <1>1, <1>2, NextITyped, PTL DEF ISpec

-----------------------------------------------------------------------------
(* Analysis, in memory. *)

Numbers(k) == {cd.number : cd \in CandidatesOf(k)}
AtWork(q) == q.at \notin {"idle", "open"}

\* Candidates are of runs that were opened, and are told apart by their number.
ACandidates ==
    /\ cands \subseteq [run : 1 .. opened, number : Nat, state : CandidateState]
    /\ \A cd, ce \in cands : cd.run = ce.run /\ cd.number = ce.number => cd = ce

\* A request at work has stored exactly the candidates it has come to.
WorksOn(q) ==
    /\ {"at", "run", "asset", "todo"} \subseteq DOMAIN q /\ q.run \in 1 .. opened
    /\ q.at \in {"evidence", "engine", "signal"} => Numbers(q.run) = {}
    /\ q.at \in {"signal", "candidates"} => {"found", "next"} \subseteq DOMAIN q /\ q.found \in Nat
    /\ q.at = "signal" => q.next = 1
    /\ q.at = "candidates" => q.next \in 1 .. q.found + 1 /\ Numbers(q.run) = 1 .. q.next - 1

\* What a run says when it has ended.
Ended(k) ==
    \/ aruns[k].status = "FAILED" /\ Numbers(k) = {}
    \/ /\ aruns[k].status = "COMPLETED" /\ aruns[k].candidates \in Nat
       /\ Numbers(k) = 1 .. aruns[k].candidates

AStrong ==
    /\ DOMAIN aruns = 1 .. MaxRuns /\ DOMAIN areq = Analysts /\ opened \in 0 .. MaxRuns
    /\ ACandidates
    /\ \A k \in 1 .. opened : aruns[k] # NoRun /\ (~UnderWay(k) => Ended(k))
    /\ \A c \in Analysts : AtWork(areq[c]) => WorksOn(areq[c])
    /\ \A c, d \in Analysts :
          AtWork(areq[c]) /\ AtWork(areq[d]) /\ areq[c].run = areq[d].run => c = d

\* Where a run stands between two assets.
LEMMA BetweenIsIdle == \A todo : ~AtWork(Between(todo))
  BY DEF Between, IdleAnalyst, AtWork

\* One request goes on with its run, or another one stays without: the
\* candidates keep their numbers.
LEMMA AnalystMoves ==
    ASSUME AStrong, UNCHANGED <<aruns, opened, cands>>, NEW c \in Analysts, NEW new,
           areq' = [areq EXCEPT ![c] = new],
           \/ AtWork(areq[c]) /\ AtWork(new) /\ new.run = areq[c].run /\ WorksOn(new)
           \/ ~AtWork(areq[c]) /\ ~AtWork(new)
    PROVE  AStrong'
<1>1. \A o \in Analysts : areq'[o] = IF o = c THEN new ELSE areq[o]
  BY DEF AStrong
<1>2. \A k : Numbers(k)' = Numbers(k)
  BY DEF Numbers, CandidatesOf
<1>3. \A k : UnderWay(k)' <=> UnderWay(k)
  BY <1>1 DEF UnderWay, AtWork
<1>4. ACandidates'
  BY DEF AStrong, ACandidates
<1>5. \A k \in 1 .. opened : aruns[k] # NoRun /\ (~UnderWay(k)' => Ended(k)')
  BY <1>2, <1>3 DEF AStrong, Ended
<1>6. ASSUME NEW q, WorksOn(q) PROVE WorksOn(q)'
  BY <1>2, <1>6 DEF WorksOn
<1>7. (\A o \in Analysts : AtWork(areq[o]) => WorksOn(areq[o]))'
  BY <1>1, <1>6 DEF AStrong, AtWork
<1>8. \A o, d \in Analysts :
         AtWork(areq'[o]) /\ AtWork(areq'[d]) /\ areq'[o].run = areq'[d].run => o = d
  BY <1>1 DEF AStrong
<1> QED BY <1>4, <1>5, <1>7, <1>8 DEF AStrong, AtWork

\* A request closes its run with a row that says what is stored.
LEMMA AnalystEnds ==
    ASSUME AStrong, UNCHANGED <<opened, cands>>, NEW c \in Analysts, AtWork(areq[c]),
           NEW todo, areq' = [areq EXCEPT ![c] = Between(todo)],
           NEW row, row # NoRun, aruns' = [aruns EXCEPT ![areq[c].run] = row],
           \/ row.status = "FAILED" /\ Numbers(areq[c].run) = {}
           \/ /\ row.status = "COMPLETED" /\ row.candidates \in Nat
              /\ Numbers(areq[c].run) = 1 .. row.candidates
    PROVE  AStrong'
<1> DEFINE run == areq[c].run
<1>1. \A o \in Analysts : areq'[o] = IF o = c THEN Between(todo) ELSE areq[o]
  BY DEF AStrong
<1>2. \A k : Numbers(k)' = Numbers(k)
  BY DEF Numbers, CandidatesOf
<1>3. run \in 1 .. opened /\ run \in DOMAIN aruns
  BY AnalysisAssumption DEF AStrong, WorksOn
<1>4. \A k \in 1 .. opened : aruns'[k] = IF k = run THEN row ELSE aruns[k]
  BY <1>3 DEF AStrong
<1>5. \A k : k # run /\ UnderWay(k) => UnderWay(k)'
  BY <1>1 DEF UnderWay
<1>6. \A k \in 1 .. opened : aruns'[k] # NoRun /\ (~UnderWay(k)' => Ended(k)')
  BY <1>2, <1>4, <1>5 DEF AStrong, Ended
<1>7. ACandidates'
  BY DEF AStrong, ACandidates
<1>8. ASSUME NEW q, WorksOn(q) PROVE WorksOn(q)'
  BY <1>2, <1>8 DEF WorksOn
<1>9. (\A o \in Analysts : AtWork(areq[o]) => WorksOn(areq[o]))'
  BY <1>1, <1>8, BetweenIsIdle DEF AStrong, AtWork
<1>10. \A o, d \in Analysts :
         AtWork(areq'[o]) /\ AtWork(areq'[d]) /\ areq'[o].run = areq'[d].run => o = d
  BY <1>1, BetweenIsIdle DEF AStrong
<1>11. DOMAIN aruns' = 1 .. MaxRuns /\ DOMAIN areq' = Analysts /\ opened' \in 0 .. MaxRuns
  BY DEF AStrong
<1> QED BY <1>6, <1>7, <1>9, <1>10, <1>11 DEF AStrong, AtWork

\* A run is opened under a number of its own.
LEMMA RunOpens ==
    ASSUME AStrong, ~pg, NEW c \in Analysts, NEW a \in Assets, OpenRun(c, a) PROVE AStrong'
<1> SUFFICES ASSUME NEW k, k = opened + 1, NEW new,
                    new = [at |-> "evidence", run |-> k, asset |-> a, todo |-> areq[c].todo \ {a}]
             PROVE  AStrong'
  OBVIOUS
<1>1. /\ areq[c].at = "open" /\ opened < MaxRuns /\ opened' = k
      /\ aruns' = [aruns EXCEPT ![k] = Running(a)]
      /\ areq' = [areq EXCEPT ![c] = new] /\ UNCHANGED cands
  BY DEF OpenRun
<1>2. opened \in Nat /\ k \in 1 .. MaxRuns /\ 1 .. opened \subseteq 1 .. k /\ k \notin 1 .. opened
  BY <1>1, AnalysisAssumption DEF AStrong
<1>3. \A o \in Analysts : areq'[o] = IF o = c THEN new ELSE areq[o]
  BY <1>1 DEF AStrong
<1>4. /\ new.at = "evidence" /\ new.run = k
      /\ {"at", "run", "asset", "todo"} \subseteq DOMAIN new
  OBVIOUS
<1>5. Numbers(k) = {} /\ \A j : Numbers(j)' = Numbers(j)
  BY <1>1, <1>2 DEF AStrong, ACandidates, Numbers, CandidatesOf
<1>6. ACandidates'
  BY <1>1, <1>2 DEF AStrong, ACandidates
<1>7. \A o \in Analysts : AtWork(areq[o]) => areq[o].run \in 1 .. opened /\ areq[o].run # k
  BY <1>2 DEF AStrong, WorksOn
<1>8. \A j \in 1 .. opened : UnderWay(j) => UnderWay(j)'
  BY <1>1, <1>3 DEF UnderWay
<1>9. UnderWay(k)'
  BY <1>3, <1>4 DEF UnderWay
<1>10. \A j \in 1 .. opened : aruns'[j] = aruns[j]
  BY <1>1, <1>2 DEF AStrong
<1>11. aruns'[k] # NoRun
  BY <1>1, <1>2 DEF AStrong, Running, NoRun
<1>12. \A j \in 1 .. opened : aruns'[j] # NoRun /\ (~UnderWay(j)' => Ended(j)')
  BY <1>5, <1>8, <1>10 DEF AStrong, Ended
<1>13. \A j \in 1 .. k : j \in 1 .. opened \/ j = k
  BY <1>2
<1>14. (\A j \in 1 .. opened : aruns[j] # NoRun /\ (~UnderWay(j) => Ended(j)))'
  BY <1>1, <1>9, <1>11, <1>12, <1>13
<1>15. ASSUME NEW q, WorksOn(q) PROVE WorksOn(q)'
  BY <1>1, <1>2, <1>5, <1>15 DEF WorksOn
<1>16. WorksOn(new)'
  BY <1>1, <1>2, <1>4, <1>5 DEF WorksOn
<1>17. (\A o \in Analysts : AtWork(areq[o]) => WorksOn(areq[o]))'
  BY <1>3, <1>15, <1>16 DEF AStrong, AtWork
<1>18. \A o, d \in Analysts :
          AtWork(areq'[o]) /\ AtWork(areq'[d]) /\ areq'[o].run = areq'[d].run => o = d
  BY <1>3, <1>4, <1>7 DEF AStrong
<1>19. DOMAIN aruns' = 1 .. MaxRuns /\ DOMAIN areq' = Analysts /\ opened' \in 0 .. MaxRuns
  BY <1>1, <1>2 DEF AStrong
<1> QED BY <1>6, <1>14, <1>17, <1>18, <1>19 DEF AStrong, AtWork

\* The next candidate gets the next number.
LEMMA CandidateSaved ==
    ASSUME AStrong, ~pg, NEW c \in Analysts, SaveFindingCandidate(c) PROVE AStrong'
<1> SUFFICES ASSUME NEW q, q = areq[c], NEW new, new = [q EXCEPT !.next = @ + 1],
                    NEW cd, cd = [run |-> q.run, number |-> q.next, state |-> "CANDIDATE"]
             PROVE  AStrong'
  OBVIOUS
<1>1. /\ q.at = "candidates" /\ q.next <= q.found /\ cands' = cands \cup {cd}
      /\ areq' = [areq EXCEPT ![c] = new] /\ UNCHANGED <<aruns, opened>>
  BY DEF SaveFindingCandidate
<1>2. AtWork(q) /\ WorksOn(q)
  BY <1>1 DEF AStrong, AtWork
<1>3. /\ q.run \in 1 .. opened /\ q.found \in Nat /\ q.next \in Nat \ {0}
      /\ Numbers(q.run) = 1 .. q.next - 1
      /\ {"at", "run", "asset", "todo", "found", "next"} \subseteq DOMAIN q
  BY <1>1, <1>2 DEF WorksOn
<1>4. /\ new.at = "candidates" /\ new.run = q.run /\ new.found = q.found
      /\ new.next = q.next + 1 /\ DOMAIN new = DOMAIN q
  BY <1>1, <1>3
<1>5. cd.run = q.run /\ cd.number = q.next
        /\ cd \in [run : 1 .. opened, number : Nat, state : CandidateState]
  BY <1>3 DEF CandidateState
<1>6. \A o \in Analysts : areq'[o] = IF o = c THEN new ELSE areq[o]
  BY <1>1 DEF AStrong
<1>7. \A j : Numbers(j)' = IF j = q.run THEN Numbers(j) \cup {q.next} ELSE Numbers(j)
  BY <1>1, <1>5 DEF Numbers, CandidatesOf
<1>8. Numbers(q.run)' = 1 .. q.next
  <2>1. \A n \in Nat \ {0} : (1 .. n - 1) \cup {n} = 1 .. n
    OBVIOUS
  <2>2. Numbers(q.run)' = (1 .. q.next - 1) \cup {q.next}
    BY <1>3, <1>7
  <2> QED BY <1>3, <2>1, <2>2
<1>9. ASSUME NEW ce \in cands, ce.run = q.run PROVE ce.number # q.next
  <2>1. ce.number \in Numbers(q.run)
    BY <1>9 DEF Numbers, CandidatesOf
  <2> QED BY <1>3, <2>1
<1>10. ACandidates'
  BY <1>1, <1>5, <1>9 DEF AStrong, ACandidates
<1>11. \A j : UnderWay(j)' <=> UnderWay(j)
  BY <1>1, <1>4, <1>6 DEF UnderWay
<1>12. UnderWay(q.run)
  BY <1>1 DEF UnderWay
<1>13. (\A j \in 1 .. opened : aruns[j] # NoRun /\ (~UnderWay(j) => Ended(j)))'
  BY <1>1, <1>7, <1>11, <1>12 DEF AStrong, Ended
<1>14. ASSUME NEW p, WorksOn(p), p.run # q.run PROVE WorksOn(p)'
  BY <1>1, <1>7, <1>14 DEF WorksOn
<1>15. WorksOn(new)'
  <2>1. new.next \in 1 .. new.found + 1 /\ Numbers(new.run)' = 1 .. new.next - 1
    BY <1>1, <1>3, <1>4, <1>8
  <2> QED BY <1>1, <1>3, <1>4, <2>1 DEF WorksOn
<1>16. \A o \in Analysts \ {c} : AtWork(areq[o]) => areq[o].run # q.run
  BY <1>2 DEF AStrong
<1>17. (\A o \in Analysts : AtWork(areq[o]) => WorksOn(areq[o]))'
  BY <1>6, <1>14, <1>15, <1>16 DEF AStrong, AtWork
<1>18. \A o, d \in Analysts :
          AtWork(areq'[o]) /\ AtWork(areq'[d]) /\ areq'[o].run = areq'[d].run => o = d
  <2>1. ASSUME NEW o \in Analysts, o # c, AtWork(areq'[o]) PROVE areq'[o].run # q.run
    BY <1>6, <1>16, <2>1
  <2>2. areq'[c].run = q.run
    BY <1>4, <1>6
  <2>3. ASSUME NEW o \in Analysts, NEW d \in Analysts, o # c, d # c,
               AtWork(areq'[o]), AtWork(areq'[d]), areq'[o].run = areq'[d].run
        PROVE  o = d
    BY <1>6, <2>3 DEF AStrong
  <2> QED BY <2>1, <2>2, <2>3
<1>19. DOMAIN aruns' = 1 .. MaxRuns /\ DOMAIN areq' = Analysts /\ opened' \in 0 .. MaxRuns
  BY <1>1 DEF AStrong
<1> QED BY <1>10, <1>13, <1>17, <1>18, <1>19 DEF AStrong, AtWork

\* A decision on a candidate changes its state only.
LEMMA CandidateDecided ==
    ASSUME AStrong, NEW k, NEW i, NEW state \in CandidateState, UpdateCandidateState(k, i, state)
    PROVE  AStrong'
<1> DEFINE F(cd) == IF cd.run = k /\ cd.number = i THEN [cd EXCEPT !.state = state] ELSE cd
<1>1. cands' = {F(cd) : cd \in cands} /\ UNCHANGED <<aruns, areq, opened>>
  BY DEF UpdateCandidateState
<1>2. \A cd \in cands : /\ F(cd).run = cd.run /\ F(cd).number = cd.number
                        /\ F(cd) \in [run : 1 .. opened, number : Nat, state : CandidateState]
  BY DEF AStrong, ACandidates
<1> HIDE DEF F
<1>3. \A j : Numbers(j)' = Numbers(j)
  <2> SUFFICES ASSUME NEW j PROVE Numbers(j)' = Numbers(j)
    OBVIOUS
  <2>1. ASSUME NEW x \in Numbers(j) PROVE x \in Numbers(j)'
    <3>1. PICK cd \in cands : cd.run = j /\ x = cd.number
      BY <2>1 DEF Numbers, CandidatesOf
    <3>2. F(cd) \in cands' /\ F(cd).run = j /\ x = F(cd).number
      BY <1>1, <1>2, <3>1
    <3> QED BY <3>2 DEF Numbers, CandidatesOf
  <2>2. ASSUME NEW x \in Numbers(j)' PROVE x \in Numbers(j)
    <3>1. PICK ce \in cands' : ce.run = j /\ x = ce.number
      BY <2>2 DEF Numbers, CandidatesOf
    <3>2. PICK cd \in cands : ce = F(cd)
      BY <1>1
    <3> QED BY <1>2, <3>1, <3>2 DEF Numbers, CandidatesOf
  <2> QED BY <2>1, <2>2
<1>4. ACandidates'
  <2>1. cands' \subseteq [run : 1 .. opened, number : Nat, state : CandidateState]
    BY <1>1, <1>2
  <2>2. ASSUME NEW cd \in cands', NEW ce \in cands', cd.run = ce.run, cd.number = ce.number
        PROVE  cd = ce
    <3>1. PICK x \in cands, y \in cands : cd = F(x) /\ ce = F(y)
      BY <1>1
    <3>2. x = y
      BY <1>2, <2>2, <3>1 DEF AStrong, ACandidates
    <3> QED BY <3>1, <3>2
  <2> QED BY <1>1, <2>1, <2>2 DEF ACandidates
<1>5. ASSUME NEW q, WorksOn(q) PROVE WorksOn(q)'
  BY <1>1, <1>3, <1>5 DEF WorksOn
<1>6. (\A o \in Analysts : AtWork(areq[o]) => WorksOn(areq[o]))'
  BY <1>1, <1>5 DEF AStrong, AtWork
<1>7. (\A j \in 1 .. opened : aruns[j] # NoRun /\ (~UnderWay(j) => Ended(j)))'
  BY <1>1, <1>3 DEF AStrong, Ended, UnderWay
<1> QED BY <1>1, <1>4, <1>6, <1>7 DEF AStrong, AtWork

\* The invariant is inductive for the store in memory.
LEMMA NextAStrong == ~pg /\ AStrong /\ [ANext]_<<pg, avars>> => AStrong'
<1> SUFFICES ASSUME ~pg, AStrong, [ANext]_<<pg, avars>> PROVE AStrong'
  OBVIOUS
<1>1. ASSUME NEW c \in Analysts, NEW todo \in SUBSET Assets, TriggerAnalysis(c, todo) PROVE AStrong'
  <2> DEFINE new == [at |-> "open", todo |-> todo]
  <2>1. /\ areq' = [areq EXCEPT ![c] = new] /\ areq[c] = IdleAnalyst
        /\ UNCHANGED <<aruns, cands, opened>>
    BY <1>1 DEF TriggerAnalysis
  <2>2. ~AtWork(areq[c]) /\ ~AtWork(new)
    BY <2>1 DEF AtWork, IdleAnalyst
  <2> HIDE DEF new
  <2> QED BY <2>1, <2>2, AnalystMoves
<1>2. ASSUME NEW c \in Analysts, NEW a \in Assets, OpenRun(c, a) PROVE AStrong'
  BY <1>2, RunOpens
<1>3. ASSUME NEW c \in Analysts, areq[c].at \in {"evidence", "engine", "signal", "candidates"}
      PROVE  AtWork(areq[c]) /\ WorksOn(areq[c])
  BY <1>3 DEF AStrong, AtWork
<1>4. ASSUME NEW c \in Analysts, CompileEvidence(c) PROVE AStrong'
  <2> DEFINE new == [areq[c] EXCEPT !.at = "engine"]
  <2>1. /\ areq' = [areq EXCEPT ![c] = new] /\ areq[c].at = "evidence"
        /\ UNCHANGED <<aruns, cands, opened>>
    BY <1>4 DEF CompileEvidence
  <2>2. new.at = "engine" /\ new.run = areq[c].run /\ DOMAIN new = DOMAIN areq[c]
    BY <1>3, <2>1 DEF WorksOn
  <2> HIDE DEF new
  <2>3. AtWork(new) /\ WorksOn(new)
    BY <1>3, <2>1, <2>2 DEF WorksOn, AtWork
  <2> QED BY <1>3, <2>1, <2>2, <2>3, AnalystMoves
<1>5. ASSUME NEW c \in Analysts, NEW n \in 0 .. MaxFound, EngineAnswers(c, n) PROVE AStrong'
  <2> DEFINE new == [at |-> "signal", run |-> areq[c].run, asset |-> areq[c].asset,
                     todo |-> areq[c].todo, found |-> n, next |-> 1]
  <2>1. /\ areq' = [areq EXCEPT ![c] = new] /\ areq[c].at = "engine"
        /\ UNCHANGED <<aruns, cands, opened>>
    BY <1>5 DEF EngineAnswers
  <2>2. /\ new.at = "signal" /\ new.run = areq[c].run /\ new.found = n /\ new.next = 1
        /\ {"at", "run", "asset", "todo", "found", "next"} \subseteq DOMAIN new
    OBVIOUS
  <2> HIDE DEF new
  <2>3. Numbers(new.run) = 1 .. new.next - 1 /\ new.next \in 1 .. new.found + 1
    <3>1. Numbers(areq[c].run) = {}
      BY <1>3, <2>1 DEF WorksOn
    <3>2. n \in Nat /\ 1 \in 1 .. n + 1 /\ 1 .. 1 - 1 = {}
      BY AnalysisAssumption
    <3> QED BY <2>2, <3>1, <3>2
  <2>4. AtWork(new) /\ WorksOn(new)
    BY <1>3, <2>1, <2>2, <2>3, AnalysisAssumption DEF WorksOn, AtWork
  <2> QED BY <1>3, <2>1, <2>2, <2>4, AnalystMoves
<1>6. ASSUME NEW c \in Analysts, SaveSecuritySignal(c) PROVE AStrong'
  <2> DEFINE new == [areq[c] EXCEPT !.at = "candidates"]
  <2>1. /\ areq' = [areq EXCEPT ![c] = new] /\ areq[c].at = "signal"
        /\ UNCHANGED <<aruns, cands, opened>>
    BY <1>6 DEF SaveSecuritySignal
  <2>2. /\ new.at = "candidates" /\ new.run = areq[c].run /\ DOMAIN new = DOMAIN areq[c]
        /\ new.found = areq[c].found /\ new.next = areq[c].next
    BY <1>3, <2>1 DEF WorksOn
  <2> HIDE DEF new
  <2>3. areq[c].found \in Nat /\ new.next = 1 /\ Numbers(new.run) = {}
    <3>1. WorksOn(areq[c])
      BY <1>3, <2>1
    <3> QED BY <2>1, <2>2, <3>1 DEF WorksOn
  <2>4. new.next \in 1 .. new.found + 1 /\ Numbers(new.run) = 1 .. new.next - 1
    <3>1. \A n \in Nat : 1 \in 1 .. n + 1 /\ 1 .. 1 - 1 = {}
      OBVIOUS
    <3> QED BY <2>2, <2>3, <3>1
  <2>5. AtWork(new) /\ WorksOn(new)
    BY <1>3, <2>1, <2>2, <2>4 DEF WorksOn, AtWork
  <2> QED BY <1>3, <2>1, <2>2, <2>5, AnalystMoves
<1>7. ASSUME NEW c \in Analysts, SaveFindingCandidate(c) PROVE AStrong'
  BY <1>7, CandidateSaved
<1>8. ASSUME NEW c \in Analysts, AtWork(areq[c]), NEW status, NEW n
      PROVE  Closed(c, status, n) = [aruns EXCEPT ![areq[c].run] =
                                       [status |-> status, asset |-> areq[c].asset, candidates |-> n]]
  BY <1>8 DEF Closed, AStrong, WorksOn
<1>9. ASSUME NEW c \in Analysts, AnalysisFails(c) PROVE AStrong'
  <2> DEFINE row == [status |-> "FAILED", asset |-> areq[c].asset, candidates |-> 0]
  <2>1. /\ areq[c].at \in {"evidence", "engine"} /\ aruns' = Closed(c, "FAILED", 0)
        /\ areq' = [areq EXCEPT ![c] = Between(areq[c].todo)] /\ UNCHANGED <<cands, opened>>
    BY <1>9 DEF AnalysisFails, RunAfterFailure
  <2>2. AtWork(areq[c]) /\ Numbers(areq[c].run) = {}
    BY <1>3, <2>1 DEF WorksOn
  <2>3. aruns' = [aruns EXCEPT ![areq[c].run] = row]
    BY <1>8, <2>1, <2>2
  <2>4. row # NoRun /\ row.status = "FAILED"
    BY DEF NoRun
  <2> HIDE DEF row
  <2> QED BY <2>1, <2>2, <2>3, <2>4, AnalystEnds
<1>10. ASSUME NEW c \in Analysts, CloseRun(c) PROVE AStrong'
  <2> DEFINE row == [status |-> "COMPLETED", asset |-> areq[c].asset, candidates |-> areq[c].found]
  <2>1. /\ areq[c].at = "candidates" /\ areq[c].next > areq[c].found
        /\ aruns' = Closed(c, "COMPLETED", areq[c].found)
        /\ areq' = [areq EXCEPT ![c] = Between(areq[c].todo)] /\ UNCHANGED <<cands, opened>>
    BY <1>10 DEF CloseRun
  <2>2. AtWork(areq[c]) /\ WorksOn(areq[c])
    BY <1>3, <2>1
  <2>3. areq[c].found \in Nat /\ Numbers(areq[c].run) = 1 .. areq[c].found
    <3>1. areq[c].found \in Nat /\ areq[c].next = areq[c].found + 1
      BY <2>1, <2>2 DEF WorksOn
    <3> QED BY <2>1, <2>2, <3>1 DEF WorksOn
  <2>4. aruns' = [aruns EXCEPT ![areq[c].run] = row]
    BY <1>8, <2>1, <2>2
  <2>5. row # NoRun /\ row.status = "COMPLETED" /\ row.candidates = areq[c].found
    BY DEF NoRun
  <2> HIDE DEF row
  <2> QED BY <2>1, <2>2, <2>3, <2>4, <2>5, AnalystEnds
<1>11. ASSUME NEW k, NEW i, NEW state \in CandidateState, UpdateCandidateState(k, i, state)
       PROVE  AStrong'
  BY <1>11, CandidateDecided
<1>12. CASE UNCHANGED <<pg, avars>>
  <2>1. UNCHANGED <<aruns, cands, areq, opened>>
    BY <1>12 DEF avars
  <2>2. \A k : Numbers(k)' = Numbers(k)
    BY <2>1 DEF Numbers, CandidatesOf
  <2>3. ASSUME NEW q, WorksOn(q) PROVE WorksOn(q)'
    BY <2>1, <2>2, <2>3 DEF WorksOn
  <2>4. (\A o \in Analysts : AtWork(areq[o]) => WorksOn(areq[o]))'
    BY <2>1, <2>3 DEF AStrong, AtWork
  <2>5. (\A j \in 1 .. opened : aruns[j] # NoRun /\ (~UnderWay(j) => Ended(j)))'
    BY <2>1, <2>2 DEF AStrong, Ended, UnderWay
  <2> QED BY <2>1, <2>4, <2>5 DEF AStrong, ACandidates, AtWork
<1> QED BY <1>1, <1>2, <1>4, <1>5, <1>6, <1>7, <1>9, <1>10, <1>11, <1>12 DEF ANext

\* Candidates that are numbered from 1 to n are n candidates.
LEMMA NumbersCount ==
    ASSUME AStrong, NEW k, NEW n \in Nat, Numbers(k) = 1 .. n
    PROVE  Cardinality(CandidatesOf(k)) = n
<1> DEFINE f == [x \in 1 .. n |-> CHOOSE cd \in CandidatesOf(k) : cd.number = x]
<1>1. \A x \in 1 .. n : f[x] \in CandidatesOf(k) /\ f[x].number = x
  BY DEF Numbers
<1>2. \A cd \in CandidatesOf(k) : cd.number \in 1 .. n
  BY DEF Numbers
<1>3. \A cd, ce \in CandidatesOf(k) : cd.number = ce.number => cd = ce
  BY DEF AStrong, ACandidates, CandidatesOf
<1>4. f \in [1 .. n -> CandidatesOf(k)]
  BY <1>1
<1> HIDE DEF f
<1>5. f \in Bijection(1 .. n, CandidatesOf(k))
  <2>1. IsInjective(f)
    BY <1>1, <1>4 DEF IsInjective
  <2>2. \A cd \in CandidatesOf(k) : \E x \in 1 .. n : f[x] = cd
    BY <1>1, <1>2, <1>3
  <2> QED BY <1>4, <2>1, <2>2 DEF Bijection, Injection, Surjection
<1>6. IsFiniteSet(1 .. n) /\ Cardinality(1 .. n) = n
  BY FS_Interval
<1> QED BY <1>5, <1>6, FS_Bijection DEF ExistsBijection

\* In memory a run that nobody works on any more is settled and counts the
\* candidates that are stored for it: for any number of requests, assets and
\* candidates, and whatever researchers decide meanwhile.
THEOREM RunsSettle == ASpec => []InMemoryRunsSettle
<1> DEFINE Inv == pg \/ AStrong
<1>1. StorageInit /\ AInit => Inv
  BY AnalysisAssumption DEF AInit, AStrong, ACandidates, IdleAnalyst, AtWork
<1>2. Inv /\ [ANext]_<<pg, avars>> => Inv'
  <2>1. [ANext]_<<pg, avars>> => UNCHANGED pg
    BY DEF ANext
  <2> QED BY <2>1, NextAStrong
<1>3. Inv => InMemoryRunsSettle
  <2> SUFFICES ASSUME ~pg, AStrong, NEW k \in 1 .. opened, ~UnderWay(k)
               PROVE  \/ aruns[k].status = "FAILED" /\ CandidatesOf(k) = {}
                      \/ /\ aruns[k].status = "COMPLETED"
                         /\ Cardinality(CandidatesOf(k)) = aruns[k].candidates
    BY DEF InMemoryRunsSettle
  <2>1. Ended(k)
    BY DEF AStrong
  <2>2. Numbers(k) = {} => CandidatesOf(k) = {}
    BY DEF Numbers
  <2> QED BY <2>1, <2>2, NumbersCount DEF Ended
<1> QED BY <1>1, <1>2, <1>3, PTL DEF ASpec

\* Rows and requests of each kind.
RunRows ==
    [status : {"RUNNING", "COMPLETED", "FAILED"}, asset : Assets, candidates : 0 .. MaxFound]
OpenRequests == [at : {"open"}, todo : SUBSET Assets]
AskRequests == [at : {"evidence", "engine"}, run : 1 .. MaxRuns, asset : Assets, todo : SUBSET Assets]
StoreRequests == [at : {"signal", "candidates"}, run : 1 .. MaxRuns, asset : Assets,
                  todo : SUBSET Assets, found : 0 .. MaxFound, next : 1 .. MaxFound + 1]
AnalysisRequests == {IdleAnalyst} \cup OpenRequests \cup AskRequests \cup StoreRequests

ATables ==
    /\ aruns \in [1 .. MaxRuns -> RunRows \cup {NoRun}]
    /\ cands \subseteq [run : 1 .. MaxRuns, number : 1 .. MaxFound, state : CandidateState]
    /\ signals \subseteq [run : 1 .. MaxRuns, asset : Assets]
    /\ opened \in 0 .. MaxRuns
ATyped == ATables /\ areq \in [Analysts -> AnalysisRequests]

\* What is typed is typed as the run checks it.
LEMMA ATypedIsTypeOK == ATyped => ATypeOK
<1> SUFFICES ASSUME ATyped PROVE ATypeOK
  OBVIOUS
<1>1. \A q \in AnalysisRequests : q.at \in {"idle", "open", "evidence", "engine", "signal",
                                            "candidates"}
  BY DEF AnalysisRequests, IdleAnalyst, OpenRequests, AskRequests, StoreRequests
<1>2. ASSUME NEW k \in 1 .. MaxRuns
      PROVE  /\ aruns[k].status \in {"none", "RUNNING", "COMPLETED", "FAILED"}
             /\ aruns[k] # NoRun => aruns[k].asset \in Assets /\ aruns[k].candidates \in 0 .. MaxFound
  <2>1. aruns[k] \in RunRows \/ aruns[k] = NoRun
    BY DEF ATyped, ATables
  <2>2. NoRun.status = "none"
    BY DEF NoRun
  <2>3. \A row \in RunRows : /\ row.status \in {"RUNNING", "COMPLETED", "FAILED"}
                             /\ row.asset \in Assets /\ row.candidates \in 0 .. MaxFound
    BY DEF RunRows
  <2> QED BY <2>1, <2>2, <2>3
<1> QED BY <1>1, <1>2 DEF ATyped, ATables, ATypeOK

\* The requests of each place.
LEMMA AnalystsAt ==
    ASSUME ATyped, NEW c \in Analysts
    PROVE  /\ areq[c].at = "open" => areq[c] \in OpenRequests
           /\ areq[c].at \in {"evidence", "engine"} => areq[c] \in AskRequests
           /\ areq[c].at \in {"signal", "candidates"} => areq[c] \in StoreRequests
<1>1. areq[c] \in AnalysisRequests /\ IdleAnalyst.at = "idle"
  BY DEF ATyped, IdleAnalyst
<1>2. \A q \in OpenRequests : q.at = "open"
  BY DEF OpenRequests
<1>3. \A q \in AskRequests : q.at \in {"evidence", "engine"}
  BY DEF AskRequests
<1>4. \A q \in StoreRequests : q.at \in {"signal", "candidates"}
  BY DEF StoreRequests
<1> QED BY <1>1, <1>2, <1>3, <1>4 DEF AnalysisRequests

\* A request moves on, and the tables stay typed.
LEMMA AnalystTyped ==
    ASSUME ATyped, NEW c \in Analysts, NEW new \in AnalysisRequests,
           areq' = [areq EXCEPT ![c] = new], ATables'
    PROVE  ATyped'
<1>1. areq' \in [Analysts -> AnalysisRequests]
  BY DEF ATyped
<1> QED BY <1>1 DEF ATyped

\* The row of a run that ends.
LEMMA ClosedTyped ==
    ASSUME ATyped, NEW c \in Analysts, areq[c] \in AskRequests \cup StoreRequests,
           NEW status \in {"COMPLETED", "FAILED"}, NEW n \in 0 .. MaxFound
    PROVE  /\ Closed(c, status, n) \in [1 .. MaxRuns -> RunRows \cup {NoRun}]
           /\ Between(areq[c].todo) \in AnalysisRequests
<1>1. areq[c].run \in 1 .. MaxRuns /\ areq[c].asset \in Assets /\ areq[c].todo \in SUBSET Assets
  BY DEF AskRequests, StoreRequests
<1>2. [status |-> status, asset |-> areq[c].asset, candidates |-> n] \in RunRows
  BY <1>1 DEF RunRows
<1>3. aruns \in [1 .. MaxRuns -> RunRows \cup {NoRun}]
  BY DEF ATyped, ATables
<1>4. Closed(c, status, n) \in [1 .. MaxRuns -> RunRows \cup {NoRun}]
  BY <1>1, <1>2, <1>3 DEF Closed
<1>5. Between(areq[c].todo) \in AnalysisRequests
  BY <1>1 DEF Between, AnalysisRequests, OpenRequests
<1> QED BY <1>4, <1>5

\* No step breaks the types.
LEMMA NextATyped == ATyped /\ [ANext]_<<pg, avars>> => ATyped'
<1> SUFFICES ASSUME ATyped, [ANext]_<<pg, avars>> PROVE ATyped'
  OBVIOUS
<1>1. ATables /\ (UNCHANGED <<aruns, cands, signals, opened>> => ATables')
  BY DEF ATyped, ATables
<1>2. ASSUME NEW c \in Analysts, NEW todo \in SUBSET Assets, TriggerAnalysis(c, todo) PROVE ATyped'
  <2> DEFINE new == [at |-> "open", todo |-> todo]
  <2>1. areq' = [areq EXCEPT ![c] = new] /\ UNCHANGED <<aruns, cands, signals, opened>>
    BY <1>2 DEF TriggerAnalysis
  <2>2. new \in AnalysisRequests
    BY DEF AnalysisRequests, OpenRequests
  <2> HIDE DEF new
  <2> QED BY <1>1, <2>1, <2>2, AnalystTyped
<1>3. ASSUME NEW c \in Analysts, NEW a \in Assets, OpenRun(c, a) PROVE ATyped'
  <2> DEFINE new == [at |-> "evidence", run |-> opened + 1, asset |-> a, todo |-> areq[c].todo \ {a}]
  <2>1. /\ areq[c].at = "open" /\ opened < MaxRuns /\ opened' = opened + 1
        /\ aruns' = [aruns EXCEPT ![opened + 1] = Running(a)] \/ UNCHANGED aruns
        /\ areq' = [areq EXCEPT ![c] = new] /\ UNCHANGED <<cands, signals>>
    BY <1>3 DEF OpenRun
  <2>2. opened + 1 \in 1 .. MaxRuns /\ opened + 1 \in 0 .. MaxRuns
    BY <1>1, <2>1, AnalysisAssumption DEF ATables
  <2>3. areq[c].todo \in SUBSET Assets
    BY <2>1, AnalystsAt DEF OpenRequests
  <2>4. new \in AnalysisRequests
    BY <2>2, <2>3 DEF AnalysisRequests, AskRequests
  <2>5. Running(a) \in RunRows
    BY AnalysisAssumption DEF Running, RunRows
  <2> HIDE DEF new
  <2>6. ATables'
    BY <1>1, <2>1, <2>2, <2>5 DEF ATables
  <2> QED BY <2>1, <2>4, <2>6, AnalystTyped
<1>4. ASSUME NEW c \in Analysts, CompileEvidence(c) PROVE ATyped'
  <2> DEFINE new == [areq[c] EXCEPT !.at = "engine"]
  <2>1. /\ areq[c].at = "evidence" /\ areq' = [areq EXCEPT ![c] = new]
        /\ UNCHANGED <<aruns, cands, signals, opened>>
    BY <1>4 DEF CompileEvidence
  <2>2. areq[c] \in AskRequests
    BY <2>1, AnalystsAt
  <2>3. new \in AnalysisRequests
    BY <2>2 DEF AnalysisRequests, AskRequests
  <2> HIDE DEF new
  <2> QED BY <1>1, <2>1, <2>3, AnalystTyped
<1>5. ASSUME NEW c \in Analysts, AnalysisFails(c) PROVE ATyped'
  <2>1. /\ areq[c].at \in {"evidence", "engine"} /\ UNCHANGED <<cands, signals, opened>>
        /\ aruns' = Closed(c, "FAILED", 0) \/ UNCHANGED aruns
        /\ areq' = [areq EXCEPT ![c] = Between(areq[c].todo)]
    BY <1>5 DEF AnalysisFails, RunAfterFailure
  <2>2. areq[c] \in AskRequests /\ 0 \in 0 .. MaxFound
    BY <2>1, AnalystsAt, AnalysisAssumption
  <2>3. /\ Closed(c, "FAILED", 0) \in [1 .. MaxRuns -> RunRows \cup {NoRun}]
        /\ Between(areq[c].todo) \in AnalysisRequests
    BY <2>2, ClosedTyped
  <2>4. ATables'
    BY <1>1, <2>1, <2>3 DEF ATables
  <2> QED BY <2>1, <2>3, <2>4, AnalystTyped
<1>6. ASSUME NEW c \in Analysts, NEW n \in 0 .. MaxFound, EngineAnswers(c, n) PROVE ATyped'
  <2> DEFINE new == [at |-> "signal", run |-> areq[c].run, asset |-> areq[c].asset,
                     todo |-> areq[c].todo, found |-> n, next |-> 1]
  <2>1. /\ areq[c].at = "engine" /\ areq' = [areq EXCEPT ![c] = new]
        /\ UNCHANGED <<aruns, cands, signals, opened>>
    BY <1>6 DEF EngineAnswers
  <2>2. areq[c] \in AskRequests /\ 1 \in 1 .. MaxFound + 1
    BY <2>1, AnalystsAt, AnalysisAssumption
  <2>3. new \in AnalysisRequests
    BY <2>2 DEF AnalysisRequests, AskRequests, StoreRequests
  <2> HIDE DEF new
  <2> QED BY <1>1, <2>1, <2>3, AnalystTyped
<1>7. ASSUME NEW c \in Analysts, SaveSecuritySignal(c) PROVE ATyped'
  <2> DEFINE new == [areq[c] EXCEPT !.at = "candidates"]
             s == [run |-> areq[c].run, asset |-> areq[c].asset]
  <2>1. /\ areq[c].at = "signal" /\ areq' = [areq EXCEPT ![c] = new]
        /\ signals' \in {signals, signals \cup {s}} /\ UNCHANGED <<aruns, cands, opened>>
    BY <1>7 DEF SaveSecuritySignal
  <2>2. areq[c] \in StoreRequests
    BY <2>1, AnalystsAt
  <2>3. new \in AnalysisRequests /\ s \in [run : 1 .. MaxRuns, asset : Assets]
    BY <2>2 DEF AnalysisRequests, StoreRequests
  <2> HIDE DEF new, s
  <2>4. ATables'
    BY <1>1, <2>1, <2>3 DEF ATables
  <2> QED BY <2>1, <2>3, <2>4, AnalystTyped
<1>8. ASSUME NEW c \in Analysts, SaveFindingCandidate(c) PROVE ATyped'
  <2> DEFINE new == [areq[c] EXCEPT !.next = areq[c].next + 1]
             cd == [run |-> areq[c].run, number |-> areq[c].next, state |-> "CANDIDATE"]
  <2>1. /\ areq[c].at = "candidates" /\ areq[c].next <= areq[c].found
        /\ areq' = [areq EXCEPT ![c] = new]
        /\ cands' \in {cands, cands \cup {cd}} /\ UNCHANGED <<aruns, signals, opened>>
    BY <1>8 DEF SaveFindingCandidate
  <2>2. areq[c] \in StoreRequests
    BY <2>1, AnalystsAt
  <2>3. areq[c].next \in 1 .. MaxFound /\ areq[c].next + 1 \in 1 .. MaxFound + 1
    <3>1. areq[c].next \in 1 .. MaxFound + 1 /\ areq[c].found \in 0 .. MaxFound
      BY <2>2 DEF StoreRequests
    <3> QED BY <2>1, <3>1, AnalysisAssumption
  <2>4. new \in AnalysisRequests
    BY <2>2, <2>3 DEF AnalysisRequests, StoreRequests
  <2>5. cd \in [run : 1 .. MaxRuns, number : 1 .. MaxFound, state : CandidateState]
    BY <2>2, <2>3 DEF StoreRequests, CandidateState
  <2> HIDE DEF new, cd
  <2>6. ATables'
    BY <1>1, <2>1, <2>5 DEF ATables
  <2> QED BY <2>1, <2>4, <2>6, AnalystTyped
<1>9. ASSUME NEW c \in Analysts, CloseRun(c) PROVE ATyped'
  <2>1. /\ areq[c].at = "candidates" /\ UNCHANGED <<cands, signals, opened>>
        /\ aruns' = Closed(c, "COMPLETED", areq[c].found) \/ UNCHANGED aruns
        /\ areq' = [areq EXCEPT ![c] = Between(areq[c].todo)]
    BY <1>9 DEF CloseRun
  <2>2. areq[c] \in StoreRequests
    BY <2>1, AnalystsAt
  <2>3. areq[c].found \in 0 .. MaxFound
    BY <2>2 DEF StoreRequests
  <2>4. /\ Closed(c, "COMPLETED", areq[c].found) \in [1 .. MaxRuns -> RunRows \cup {NoRun}]
        /\ Between(areq[c].todo) \in AnalysisRequests
    BY <2>2, <2>3, ClosedTyped
  <2>5. ATables'
    BY <1>1, <2>1, <2>4 DEF ATables
  <2> QED BY <2>1, <2>4, <2>5, AnalystTyped
<1>10. ASSUME NEW k, NEW i, NEW state \in CandidateState, UpdateCandidateState(k, i, state)
       PROVE  ATyped'
  <2> DEFINE Decided(cd) == IF cd.run = k /\ cd.number = i THEN [cd EXCEPT !.state = state] ELSE cd
             Row == [run : 1 .. MaxRuns, number : 1 .. MaxFound, state : CandidateState]
  <2>1. cands' = {Decided(cd) : cd \in cands} /\ UNCHANGED <<aruns, signals, areq, opened>>
    BY <1>10 DEF UpdateCandidateState
  <2>2. ASSUME NEW cd \in Row PROVE Decided(cd) \in Row
    OBVIOUS
  <2> HIDE DEF Decided
  <2>3. cands' \subseteq Row
    BY <1>1, <2>1, <2>2 DEF ATables
  <2> QED BY <2>1, <2>3 DEF ATyped, ATables
<1>11. CASE UNCHANGED <<pg, avars>>
  BY <1>11 DEF avars, ATyped, ATables
<1> QED BY <1>2, <1>3, <1>4, <1>5, <1>6, <1>7, <1>8, <1>9, <1>10, <1>11 DEF ANext

\* The types of the runs of an analysis, their candidates and signals.
THEOREM AnalysisTyped == ASpec => []ATypeOK
<1>1. AInit => ATyped
  BY AnalysisAssumption DEF AInit, ATyped, ATables, AnalysisRequests
<1> QED BY <1>1, ATypedIsTypeOK, NextATyped, PTL DEF ASpec

-----------------------------------------------------------------------------
(* Together: in each behaviour one component moves, the others stutter.    *)

\* Each component behaves as it does alone.
LEMMA EachBehaves ==
    RSpec => HSpec /\ ISpec /\ ESpec /\ ASpec /\ PSpec /\ XSpec /\ BSpec /\ WSpec
<1>1. RInit => /\ StorageInit /\ HInit /\ IInit /\ EInit /\ AInit /\ PInit /\ XInit
               /\ BInit /\ WInit
  BY DEF RInit
<1>2. ASSUME [RNext]_researchVars
      PROVE  /\ [HNext]_<<pg, hvars>> /\ [INext]_<<pg, ivars>> /\ [ENext]_<<pg, evars>>
             /\ [ANext]_<<pg, avars>> /\ [PNext]_<<pg, pvars>>
             /\ [XNext /\ UNCHANGED pg]_<<xvars, pg>> /\ [BNext]_bvars /\ [WNext]_wvars
  BY <1>2 DEF RNext, Only, researchVars
<1> QED BY <1>1, <1>2, PTL DEF RSpec, HSpec, ISpec, ESpec, ASpec, PSpec, XSpec, BSpec, WSpec

\* The types of all the components, in every behaviour of all of them and for
\* any values of the constants.
THEOREM ResearchTyped == RSpec => []ResearchTypeOK
<1>1. BSpec => []BTypeOK
  <2>1. BStrong => BTypeOK
    BY DEF BStrong
  <2> QED BY <2>1, InitBStrong, NextBStrong, PTL DEF BSpec
<1> QED BY <1>1, EachBehaves, HypothesesTyped, InvestigationsTyped, EvidenceTyped, AnalysisTyped,
           PlansTyped, IntelligenceTyped, ThrottlerTyped, PTL DEF ResearchTypeOK

\* What is proved of each component alone holds when they are together.
THEOREM ResearchKeepsItsPromises ==
    RSpec => /\ []RecordsVerify /\ []InMemoryRunsSettle /\ []ApprovedOnce
             /\ []SerialProbesAgree /\ []DeliveryIsOrderly /\ []BreakerRemembers
             /\ SupportIsGuarded /\ OwedBlocksSupport /\ StepsNeverUndone
  BY EachBehaves, EvidenceVerifies, RunsSettle, StepsApprovedOnce, SerialProbesAlwaysAgree,
     DeliveryStaysOrderly, SupportIsEarned, OwedBlocks, ExecutedStepsStay, BreakerFollowsHistory
=============================================================================
