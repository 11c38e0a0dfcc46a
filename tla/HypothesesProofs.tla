-------------------------- MODULE HypothesesProofs --------------------------
(***************************************************************************)
(* What the gate in front of SUPPORTED guarantees for any number of        *)
(* requests, hypotheses and pieces of evidence, under either store.  The   *)
(* statements a cycle saves are left open: nothing here depends on them.   *)
(***************************************************************************)
EXTENDS Hypotheses, FiniteSetTheorems, SequenceTheorems, TLAPS

StatusFields == {"at", "of", "want", "seen", "ev", "owes", "sees", "blind"}

\* What a status request that is at q relies on.
StatusRequest(q) ==
    /\ StatusFields \subseteq DOMAIN q /\ q.of \in Hyps
    /\ Legal(HypothesisSteps, q.seen, q.want)
    /\ q.owes \subseteq owed[q.of]
    /\ q.at \in {"list", "list requirements"} =>
         pg /\ q.want = "SUPPORTED" /\ q.owes \subseteq Owable
    /\ q.at = "list requirements" /\ ~q.blind => q.owes \cap {"condition"} \subseteq q.sees
    /\ q.at = "gate" => q.want = "SUPPORTED" /\ (~q.blind => q.owes \subseteq q.sees)
    /\ q.at = "write" /\ q.want = "SUPPORTED" /\ ~q.blind => q.owes = {}

HRequests ==
    \A c \in Clients : LET q == hreq[c] IN
        /\ q.at = "saving" => "at" \in DOMAIN q
        /\ q.at \in StatusPlaces => StatusRequest(q)

\* PostgreSQL keeps conditions and requirements only.
HTables ==
    /\ DOMAIN hreq = Clients /\ DOMAIN owed = Hyps
    /\ pg => \A h \in Hyps : owed[h] \subseteq Owable

HStrong == HTables /\ HRequests

-----------------------------------------------------------------------------
\* The places of the requests.
LEMMA Places ==
    /\ NoRequest.at = "idle"
    /\ {"idle", "saving", "signal"} \cap StatusPlaces = {}
  BY DEF NoRequest, StatusPlaces

\* Only the store in memory keeps what has no statement of its own.
LEMMA OwedStays ==
    ASSUME HTables, NEW s, SaveOwed(s), UNCHANGED pg
    PROVE  DOMAIN owed' = Hyps /\ (pg => \A h \in Hyps : owed'[h] \subseteq Owable)
<1>1. CASE s.op = "row" /\ owed' = IF pg THEN owed
                                  ELSE [owed EXCEPT ![s.of] = @ \cup (s.brings \cap Owable)]
  BY <1>1 DEF HTables
<1>2. CASE s.op \in Owable /\ owed' = [owed EXCEPT ![s.of] = @ \cup {s.op}]
  BY <1>2 DEF HTables
<1>3. CASE owed' = owed \/ owed' = [owed EXCEPT ![s.of] = @ \ {"condition"}]
  BY <1>3 DEF HTables
<1> QED BY <1>1, <1>2, <1>3 DEF SaveOwed

\* One request moves and nothing is saved: the invariant stays.
LEMMA OneHMovesOnly ==
    ASSUME HStrong, UNCHANGED <<pg, owed>>, NEW c \in Clients, NEW new,
           hreq' = [hreq EXCEPT ![c] = new],
           new.at = "saving" => "at" \in DOMAIN new,
           new.at \in StatusPlaces => StatusRequest(new)
    PROVE  HStrong'
<1>1. \A o \in Clients : hreq'[o] = IF o = c THEN new ELSE hreq[o]
  BY DEF HStrong, HTables
<1>2. HTables'
  BY DEF HStrong, HTables
<1>3. ASSUME NEW q, StatusRequest(q) PROVE StatusRequest(q)'
  BY <1>3 DEF StatusRequest
<1>4. HRequests'
  BY <1>1, <1>3 DEF HStrong, HRequests
<1> QED BY <1>2, <1>4 DEF HStrong

\* A statement of a save may settle what others were told of: they are owed it
\* no more.
LEMMA SaveKeeps ==
    ASSUME HStrong, UNCHANGED pg, NEW c \in Clients, SaveStep(c)
    PROVE  HStrong'
<1>1. /\ hreq[c].at = "saving"
      /\ hreq' = [o \in Clients |->
            CASE o = c -> [hreq[o] EXCEPT !.todo = Tail(@)]
              [] hreq[o].at \in StatusPlaces -> [hreq[o] EXCEPT !.owes = @ \cap owed'[hreq[o].of]]
              [] OTHER -> hreq[o]]
      /\ SaveOwed(Head(hreq[c].todo))
  BY DEF SaveStep
<1>2. HTables'
  <2>1. DOMAIN hreq' = Clients
    BY <1>1
  <2> QED BY <1>1, <2>1, OwedStays DEF HStrong, HTables
<1>3. ASSUME NEW o \in Clients, NEW r, r = hreq'[o]
      PROVE  /\ r.at = "saving" => "at" \in DOMAIN r
             /\ r.at \in StatusPlaces => StatusRequest(r)'
  <2> DEFINE q == hreq[o]
  <2>1. CASE o = c
    <3>1. r = [q EXCEPT !.todo = Tail(@)] /\ q.at = "saving" /\ "at" \in DOMAIN q
      BY <1>1, <1>3, <2>1 DEF HStrong, HRequests, StatusPlaces
    <3>2. r.at = "saving" /\ "at" \in DOMAIN r
      BY <3>1
    <3> QED BY <3>2 DEF StatusPlaces
  <2>2. CASE o # c /\ q.at \in StatusPlaces
    <3>1. StatusRequest(q)
      BY <2>2 DEF HStrong, HRequests
    <3>2. r = [q EXCEPT !.owes = @ \cap owed'[q.of]]
      BY <1>1, <1>3, <2>2
    <3>3. /\ DOMAIN r = DOMAIN q /\ r.at = q.at /\ r.of = q.of /\ r.want = q.want
          /\ r.seen = q.seen /\ r.sees = q.sees /\ r.blind = q.blind
          /\ r.owes = q.owes \cap owed'[q.of]
      BY <3>1, <3>2 DEF StatusRequest, StatusFields
    <3> HIDE DEF q
    <3>4. StatusRequest(r)'
      BY <3>1, <3>3 DEF StatusRequest
    <3>5. r.at # "saving"
      BY <2>2, <3>3 DEF StatusPlaces
    <3> QED BY <3>4, <3>5
  <2>3. CASE o # c /\ q.at \notin StatusPlaces
    <3>1. r = q /\ (q.at = "saving" => "at" \in DOMAIN q)
      BY <1>1, <1>3, <2>3 DEF HStrong, HRequests
    <3> QED BY <2>3, <3>1
  <2> QED BY <2>1, <2>2, <2>3
<1>4. HRequests'
  BY <1>3 DEF HRequests
<1> QED BY <1>2, <1>4 DEF HStrong

\* The steps of a status request keep the invariant.
LEMMA StatusSteps ==
    ASSUME HStrong, UNCHANGED pg, NEW c \in Clients,
           \/ \E h \in Hyps, want \in HypothesisStatus \cup Bodies : StatusRead(c, h, want)
           \/ ListOwed(c) \/ Gate(c) \/ StatusWrite(c)
    PROVE  HStrong'
<1>1. ASSUME NEW h \in Hyps, NEW want \in HypothesisStatus \cup Bodies, StatusRead(c, h, want)
      PROVE  HStrong'
  <2> DEFINE new == [at |-> IF want # "SUPPORTED" THEN "write" ELSE IF pg THEN "list" ELSE "gate",
                     of |-> h, want |-> want, seen |-> hyp[h].status, ev |-> hyp[h].ev,
                     owes |-> owed[h], sees |-> IF pg THEN {} ELSE owed[h], blind |-> FALSE]
  <2>1. /\ hreq' = [hreq EXCEPT ![c] = new] /\ UNCHANGED owed
        /\ Legal(HypothesisSteps, hyp[h].status, want)
    BY <1>1 DEF StatusRead, Ask
  <2>2. /\ StatusFields \subseteq DOMAIN new /\ new.of = h /\ new.want = want
        /\ new.seen = hyp[h].status /\ new.owes = owed[h] /\ new.blind = FALSE
        /\ new.sees = IF pg THEN {} ELSE owed[h]
        /\ new.at = IF want # "SUPPORTED" THEN "write" ELSE IF pg THEN "list" ELSE "gate"
    BY DEF StatusFields
  <2> HIDE DEF new
  <2>3. StatusRequest(new)
    BY <2>1, <2>2 DEF StatusRequest, HStrong, HTables
  <2>4. new.at # "saving"
    BY <2>2
  <2> QED BY <2>1, <2>3, <2>4, OneHMovesOnly
<1>2. ASSUME ListOwed(c) PROVE HStrong'
  <2> DEFINE r == hreq[c]
             kind == IF r.at = "list" THEN "condition" ELSE "requirement"
             next == IF r.at = "list" THEN "list requirements" ELSE "gate"
             seeing == [r EXCEPT !.at = next, !.sees = @ \cup (owed[r.of] \cap {kind})]
             failing == [r EXCEPT !.at = next, !.blind = TRUE]
  <2>1. /\ r.at \in {"list", "list requirements"} /\ UNCHANGED owed
        /\ hreq' = [hreq EXCEPT ![c] = seeing] \/ hreq' = [hreq EXCEPT ![c] = failing]
    BY <1>2 DEF ListOwed
  <2>2. StatusRequest(r)
    BY <2>1 DEF HStrong, HRequests, StatusPlaces
  <2>3. /\ DOMAIN seeing = DOMAIN r /\ seeing.at = next /\ seeing.of = r.of /\ seeing.want = r.want
        /\ seeing.seen = r.seen /\ seeing.owes = r.owes /\ seeing.blind = r.blind
        /\ seeing.sees = r.sees \cup (owed[r.of] \cap {kind})
    BY <2>2 DEF StatusRequest, StatusFields
  <2>4. /\ DOMAIN failing = DOMAIN r /\ failing.at = next /\ failing.of = r.of
        /\ failing.want = r.want /\ failing.seen = r.seen /\ failing.owes = r.owes
        /\ failing.blind = TRUE
    BY <2>2 DEF StatusRequest, StatusFields
  <2>5. next \in {"list requirements", "gate"} /\ (next = "gate" <=> r.at = "list requirements")
    BY <2>1
  <2>6. /\ r.at = "list" => kind = "condition"
        /\ r.at = "list requirements" => kind = "requirement"
    OBVIOUS
  <2> HIDE DEF seeing, failing, next, kind
  <2>7. StatusRequest(failing)
    BY <2>1, <2>2, <2>4, <2>5 DEF StatusRequest
  <2>8. StatusRequest(seeing)
    <3>1. r.owes \subseteq owed[r.of] /\ r.owes \subseteq {"condition", "requirement"}
      BY <2>1, <2>2 DEF StatusRequest, Owable
    <3>2. r.at = "list" => r.owes \cap {"condition"} \subseteq seeing.sees
      BY <2>3, <2>6, <3>1
    <3>3. r.at = "list requirements" /\ ~r.blind => r.owes \subseteq seeing.sees
      BY <2>2, <2>3, <2>6, <3>1 DEF StatusRequest
    <3> QED BY <2>1, <2>2, <2>3, <2>5, <3>2, <3>3 DEF StatusRequest
  <2> QED BY <2>1, <2>3, <2>4, <2>5, <2>7, <2>8, OneHMovesOnly
<1>3. ASSUME Gate(c) PROVE HStrong'
  <2> DEFINE r == hreq[c]
             next == [r EXCEPT !.at = "write"]
  <2>1. /\ r.at = "gate" /\ UNCHANGED owed
        /\ \/ hreq' = [hreq EXCEPT ![c] = next] /\ r.sees = {}
           \/ hreq' = [hreq EXCEPT ![c] = NoRequest]
    BY <1>3 DEF Gate, GatePasses, On, Answer
  <2>2. StatusRequest(r)
    BY <2>1 DEF HStrong, HRequests, StatusPlaces
  <2>3. /\ DOMAIN next = DOMAIN r /\ next.at = "write" /\ next.of = r.of /\ next.want = r.want
        /\ next.seen = r.seen /\ next.owes = r.owes /\ next.blind = r.blind
    BY <2>2 DEF StatusRequest, StatusFields
  <2> HIDE DEF next, r
  <2>4. r.sees = {} => StatusRequest(next)
    BY <2>1, <2>2, <2>3 DEF StatusRequest
  <2> QED BY <2>1, <2>3, <2>4, Places, OneHMovesOnly
<1>4. ASSUME StatusWrite(c) PROVE HStrong'
  BY <1>4, Places, OneHMovesOnly DEF StatusWrite, Answer
<1> QED BY <1>1, <1>2, <1>3, <1>4

\* So do all the other steps.
LEMMA NextHStrong == HStrong /\ [HNext]_<<pg, hvars>> => HStrong'
<1> SUFFICES ASSUME HStrong, [HNext]_<<pg, hvars>> PROVE HStrong'
  OBVIOUS
<1>1. ASSUME NEW c \in Clients, UNCHANGED <<pg, owed>>,
             NEW todo, hreq' = [hreq EXCEPT ![c] = [at |-> "saving", todo |-> todo]]
      PROVE  HStrong'
  BY <1>1, OneHMovesOnly DEF StatusPlaces
<1>2. ASSUME NEW c \in Clients, UNCHANGED <<pg, owed>>, Answer(c) PROVE HStrong'
  BY <1>2, Places, OneHMovesOnly DEF Answer
<1>3. ASSUME NEW c \in Clients, UNCHANGED pg, RunReasoningCycle(c) PROVE HStrong'
  BY <1>1, <1>3 DEF RunReasoningCycle, Ask
<1>4. ASSUME NEW c \in Clients, UNCHANGED pg, NEW h, NEW status, NEW ev, NEW brings, NEW whose,
             CreateHypothesis(c, h, status, ev, brings, whose)
      PROVE  HStrong'
  <2>1. UNCHANGED owed /\ \E todo : hreq' = [hreq EXCEPT ![c] = [at |-> "saving", todo |-> todo]]
    BY <1>4 DEF CreateHypothesis, Ask
  <2> QED BY <1>1, <1>4, <2>1
<1>5. ASSUME NEW c \in Clients, UNCHANGED pg, SaveFails(c) PROVE HStrong'
  <2>1. /\ hreq[c].at = "saving" /\ UNCHANGED owed
        /\ \E todo : hreq' = [hreq EXCEPT ![c] = [hreq[c] EXCEPT !.todo = todo]]
    BY <1>5 DEF SaveFails
  <2>2. PICK todo : hreq' = [hreq EXCEPT ![c] = [hreq[c] EXCEPT !.todo = todo]]
    BY <2>1
  <2> DEFINE new == [hreq[c] EXCEPT !.todo = todo]
  <2>3. "at" \in DOMAIN new /\ new.at = "saving"
    BY <2>1 DEF HStrong, HRequests
  <2> HIDE DEF new
  <2> QED BY <1>5, <2>1, <2>2, <2>3, OneHMovesOnly DEF new, StatusPlaces
<1>6. ASSUME NEW c \in Clients, UNCHANGED pg, SaveDone(c) \/ SignalWrite(c) \/ WriteFails(c)
      PROVE  HStrong'
  BY <1>2, <1>6 DEF SaveDone, SignalWrite, WriteFails
<1>7. ASSUME NEW c \in Clients, UNCHANGED pg, NEW e, NEW want, SignalRead(c, e, want) PROVE HStrong'
  BY <1>7, OneHMovesOnly DEF SignalRead, Ask, StatusPlaces
<1>8. ASSUME UNCHANGED <<pg, owed, hreq>> PROVE HStrong'
  BY <1>8 DEF HStrong, HTables, HRequests, StatusRequest
<1>9. ASSUME NEW e, NEW f, EvidenceRecorded(e, f), UNCHANGED pg PROVE HStrong'
  BY <1>8, <1>9 DEF EvidenceRecorded
<1>10. CASE UNCHANGED <<pg, hvars>>
  BY <1>8, <1>10 DEF hvars
<1> QED BY StatusSteps, SaveKeeps, <1>3, <1>4, <1>5, <1>6, <1>7, <1>9, <1>10 DEF HNext

\* The write of SUPPORTED finds the status that was read, and owes nothing it
\* was told of.
LEMMA PromotionIsEarned ==
    ASSUME HStrong, [HNext]_<<pg, hvars>>, NEW c \in Clients, Promotes(c)
    PROVE  /\ hyp[hreq[c].of].status = "INVESTIGATING"
           /\ ~hreq[c].blind => hreq[c].owes = {}
<1> DEFINE r == hreq[c]
<1>1. r.at = "write" /\ r.want = "SUPPORTED" /\ hreq'[c] = NoRequest /\ hyp' # hyp
      /\ hyp[r.of].status # "SUPPORTED"
  BY DEF Promotes
<1>2. StatusRequest(r)
  BY <1>1 DEF HStrong, HRequests, StatusPlaces
<1>3. hreq' # hreq
  BY <1>1, Places
<1>4. ASSUME NEW o \in Clients, StatusWrite(o) PROVE o = c
  BY <1>1, <1>4, Places DEF StatusWrite, Answer, HStrong, HTables
<1>5. ASSUME NEW o \in Clients, SaveStep(o) PROVE FALSE
  <2>1. /\ hreq[o].at = "saving"
        /\ hreq'[c] = IF o = c THEN [hreq[c] EXCEPT !.todo = Tail(@)]
                      ELSE [hreq[c] EXCEPT !.owes = @ \cap owed'[hreq[c].of]]
    BY <1>1, <1>5 DEF SaveStep, StatusPlaces
  <2>2. hreq'[c] = [r EXCEPT !.owes = @ \cap owed'[r.of]]
    BY <1>1, <2>1
  <2>3. hreq'[c].at = "write"
    BY <1>1, <2>2
  <2> QED BY <1>1, <2>3, Places
<1>6. \E o \in Clients : StatusWrite(o) \/ SaveStep(o)
  <2>1. ASSUME NEW o, \E h, status, ev, brings, whose :
                          CreateHypothesis(o, h, status, ev, brings, whose)
        PROVE  UNCHANGED hyp
    BY <2>1 DEF CreateHypothesis
  <2>2. ASSUME NEW o, \/ RunReasoningCycle(o) \/ SaveFails(o) \/ SaveDone(o)
                      \/ (\E h, want : StatusRead(o, h, want)) \/ ListOwed(o) \/ Gate(o)
        PROVE  UNCHANGED hyp
    BY <2>2 DEF RunReasoningCycle, SaveFails, SaveDone, StatusRead, ListOwed, Gate
  <2>3. ASSUME NEW o, (\E e, want : SignalRead(o, e, want)) \/ SignalWrite(o) \/ WriteFails(o)
        PROVE  UNCHANGED hyp
    BY <2>3 DEF SignalRead, SignalWrite, WriteFails
  <2>4. ASSUME NEW e, NEW f, EvidenceRecorded(e, f) PROVE UNCHANGED hyp
    BY <2>4 DEF EvidenceRecorded
  <2>5. ~UNCHANGED <<pg, hvars>>
    BY <1>1 DEF hvars
  <2> QED BY <1>1, <2>1, <2>2, <2>3, <2>4, <2>5 DEF HNext
<1>7. StatusWrite(c)
  BY <1>4, <1>5, <1>6
<1>8. hyp[r.of].status = r.seen
  BY <1>1, <1>7 DEF StatusWrite, StillAsSeen
<1>9. r.seen \in {"SUPPORTED", "INVESTIGATING"}
  BY <1>1, <1>2 DEF StatusRequest, Legal, HypothesisSteps
<1>10. ~r.blind => r.owes = {}
  BY <1>1, <1>2 DEF StatusRequest
<1> QED BY <1>1, <1>8, <1>9, <1>10

-----------------------------------------------------------------------------
(* Types. *)

\* The statements of a save, and what each place of a request holds.
RowStatements == [op : {"row", "settled"} \cup Owable, of : Hyps, row : Rows, brings : Brought]
Statements == RowStatements \cup [op : {"signal"}, of : Clues]
                \cup [op : {"group"}, of : SUBSET Clues]
Saving == [at : {"saving"}, todo : Seq(Statements)]
StatusRequests ==
    [at : StatusPlaces, of : Hyps, want : HypothesisStatus \cup Bodies,
     seen : HypothesisStatus \cup Bodies, ev : SUBSET Clues, owes : SUBSET Owable,
     sees : SUBSET Owable, blind : BOOLEAN]
SignalRequests == [at : {"signal"}, of : Clues, want : SignalStatus]
HRequest == {NoRequest} \cup Saving \cup StatusRequests \cup SignalRequests

HTyped == HTypeOK /\ hreq \in [Clients -> HRequest]

\* An order of a finite set is a sequence of its elements.
LEMMA OrderTyped == ASSUME NEW S, IsFiniteSet(S) PROVE SetToSeq(S) \in Seq(S)
<1>1. Cardinality(S) \in Nat /\ ExistsBijection(1 .. Cardinality(S), S)
  BY FS_CardinalityType
<1>2. \E f \in [1 .. Cardinality(S) -> S] : IsInjective(f)
  BY <1>1 DEF ExistsBijection, Bijection, Injection
<1>3. SetToSeq(S) \in [1 .. Cardinality(S) -> S]
  BY <1>2 DEF SetToSeq
<1> QED BY <1>1, <1>3

\* The statements that save some hypotheses.
LEMMA HypothesisStatementsTyped ==
    ASSUME NEW hs \in SUBSET Hyps, IsFiniteSet(hs), NEW row \in Rows, NEW brings \in Brought
    PROVE  HypothesisStatements(hs, row, brings) \in Seq(RowStatements)
<1> DEFINE order == SetToSeq(hs)
           ops == IF ~pg \/ brings = {} THEN <<"row">>
                  ELSE IF brings = Owable THEN <<"row", "condition", "requirement">>
                  ELSE <<"row", "settled">>
           k == Len(ops)
           n == Len(order) * k
           s(i) == [op |-> ops[1 + ((i - 1) % k)], of |-> order[1 + ((i - 1) \div k)],
                    row |-> row, brings |-> brings]
<1>1. order \in Seq(hs) /\ Len(order) \in Nat
  BY OrderTyped
<1>2. /\ k \in {1, 2, 3} /\ \A i \in 1 .. k : ops[i] \in {"row", "settled"} \cup Owable
  BY DEF Owable
<1> HIDE DEF order, ops
<1>3. ASSUME NEW i \in 1 .. n PROVE s(i) \in RowStatements
  <2>1. 1 + ((i - 1) % k) \in 1 .. k /\ 1 + ((i - 1) \div k) \in 1 .. Len(order)
    <3>1. CASE k = 1
      BY <1>1, <3>1
    <3>2. CASE k = 2
      BY <1>1, <3>2
    <3>3. CASE k = 3
      BY <1>1, <3>3
    <3> QED BY <1>2, <3>1, <3>2, <3>3
  <2>2. ops[1 + ((i - 1) % k)] \in {"row", "settled"} \cup Owable
    BY <1>2, <2>1
  <2>3. order[1 + ((i - 1) \div k)] \in Hyps
    BY <1>1, <2>1
  <2> HIDE DEF k
  <2> QED BY <2>2, <2>3 DEF RowStatements
<1>4. n \in Nat
  BY <1>1, <1>2
<1>5. HypothesisStatements(hs, row, brings) = [i \in 1 .. n |-> s(i)]
  BY Zenon DEF HypothesisStatements, order, ops
<1> HIDE DEF n, s
<1> QED BY <1>3, <1>4, <1>5

\* What a cycle saves.
LEMMA CycleTyped ==
    ASSUME NEW found \in SUBSET Clues
    PROVE  SignalStatements(found) \o GroupStatements(found) \in Seq(Statements)
<1> DEFINE order == SetToSeq(found)
           first == <<[op |-> "group", of |-> found]>>
           theory == [status |-> "HYPOTHESIZED", ev |-> found]
           baseline == [status |-> "UNKNOWN", ev |-> {}]
<1>1. IsFiniteSet(found)
  BY HypothesesAssumption, FS_Subset
<1>2. order \in Seq(Clues)
  <2>1. order \in Seq(found)
    BY <1>1, OrderTyped
  <2> QED BY <2>1
<1> HIDE DEF order
<1>3. SignalStatements(found) \in Seq(Statements)
  <2>1. SignalStatements(found) = [i \in 1 .. Len(order) |-> [op |-> "signal", of |-> order[i]]]
    BY <1>2 DEF SignalStatements, order
  <2>2. \A i \in 1 .. Len(order) : [op |-> "signal", of |-> order[i]] \in Statements
    BY <1>2 DEF Statements
  <2> QED BY <1>2, <2>1, <2>2
<1>4. theory \in Rows /\ baseline \in Rows
  BY DEF Rows, HypothesisStatus
<1>5. first \in Seq(Statements)
  <2>1. [op |-> "group", of |-> found] \in Statements
    BY DEF Statements
  <2> QED BY <2>1
<1> HIDE DEF theory, baseline, first
<1>6. /\ HypothesisStatements(Theories, theory, Owable) \in Seq(Statements)
      /\ HypothesisStatements(Baselines, baseline, {}) \in Seq(Statements)
  <2>1. /\ HypothesisStatements(Theories, theory, Owable) \in Seq(RowStatements)
        /\ HypothesisStatements(Baselines, baseline, {}) \in Seq(RowStatements)
    BY <1>4, HypothesesAssumption, HypothesisStatementsTyped DEF Hyps, Brought
  <2>2. RowStatements \subseteq Statements
    BY DEF Statements
  <2> QED BY <2>1, <2>2
<1>7. GroupStatements(found) \in Seq(Statements)
  <2>1. <<>> \in Seq(Statements)
    OBVIOUS
  <2>2. found # {} => GroupStatements(found) =
          (first \o HypothesisStatements(Theories, theory, Owable))
             \o HypothesisStatements(Baselines, baseline, {})
    BY DEF GroupStatements, first, theory, baseline
  <2>3. found = {} => GroupStatements(found) = <<>>
    BY DEF GroupStatements
  <2>4. first \o HypothesisStatements(Theories, theory, Owable) \in Seq(Statements)
    BY <1>5, <1>6
  <2>5. (first \o HypothesisStatements(Theories, theory, Owable))
          \o HypothesisStatements(Baselines, baseline, {}) \in Seq(Statements)
    BY <1>6, <2>4
  <2> QED BY <2>1, <2>2, <2>3, <2>5
<1> QED BY <1>3, <1>7

\* What is left of a save after a failure.
LEMMA AfterFailureTyped ==
    ASSUME NEW todo \in Seq(Statements), todo # <<>>
    PROVE  AfterFailure(todo) \in Seq(Statements)
<1>1. Tail(todo) \in Seq(Statements) /\ <<>> \in Seq(Statements)
  OBVIOUS
<1>2. todo[1].op = "row" =>
        SubSeq(todo, 2 + Cardinality(todo[1].brings), Len(todo)) \in Seq(Statements)
  <2> SUFFICES ASSUME todo[1].op = "row"
               PROVE  SubSeq(todo, 2 + Cardinality(todo[1].brings), Len(todo)) \in Seq(Statements)
    OBVIOUS
  <2>1. todo[1] \in Statements
    OBVIOUS
  <2>2. todo[1].brings \in Brought
    BY <2>1 DEF Statements, RowStatements, Owable
  <2>3. IsFiniteSet(todo[1].brings)
    <3>1. IsFiniteSet({}) /\ IsFiniteSet({"settled"}) /\ IsFiniteSet({"condition"})
      BY FS_EmptySet, FS_Singleton
    <3>2. IsFiniteSet({"condition"} \cup {"requirement"})
      BY <3>1, FS_AddElement
    <3>3. Owable = {"condition"} \cup {"requirement"}
      BY DEF Owable
    <3> QED BY <2>2, <3>1, <3>2, <3>3 DEF Brought
  <2>4. Cardinality(todo[1].brings) \in Nat
    BY <2>3, FS_CardinalityType
  <2> QED BY <2>4, SubSeqProperties
<1> QED BY <1>1, <1>2 DEF AfterFailure

\* Requests move on, and what they write is typed.
LEMMA AllWrite ==
    ASSUME HTyped, hreq' \in [Clients -> HRequest],
           hyp' \in [Hyps -> Rows \cup {NoRow}], owed' \in [Hyps -> SUBSET Owable],
           sig' \in [Clues -> SignalStatus \cup {"none"}], group' \in BOOLEAN, UNCHANGED fit,
           asked' = asked \/ (asked < MaxRequests /\ asked' = asked + 1)
    PROVE  HTyped'
<1>1. asked' \in 0 .. MaxRequests
  <2>1. asked \in 0 .. MaxRequests /\ MaxRequests \in Nat
    BY HypothesesAssumption DEF HTyped, HTypeOK
  <2> QED BY <2>1
<1>2. \A x \in HRequest : x.at \in {"idle", "saving", "list", "list requirements", "gate",
                                    "write", "signal"}
  <2>1. NoRequest.at = "idle" /\ \A x \in Saving : x.at = "saving"
    BY DEF NoRequest, Saving
  <2>2. \A x \in StatusRequests : x.at \in StatusPlaces
    BY DEF StatusRequests
  <2>3. \A x \in SignalRequests : x.at = "signal"
    BY DEF SignalRequests
  <2> QED BY <2>1, <2>2, <2>3 DEF HRequest, StatusPlaces
<1> QED BY <1>1, <1>2 DEF HTyped, HTypeOK

\* One request moves on.
LEMMA OneWrites ==
    ASSUME HTyped, NEW c \in Clients, NEW new \in HRequest, hreq' = [hreq EXCEPT ![c] = new],
           hyp' \in [Hyps -> Rows \cup {NoRow}], owed' \in [Hyps -> SUBSET Owable],
           sig' \in [Clues -> SignalStatus \cup {"none"}], group' \in BOOLEAN, UNCHANGED fit,
           asked' = asked \/ (asked < MaxRequests /\ asked' = asked + 1)
    PROVE  HTyped'
<1>1. hreq' \in [Clients -> HRequest]
  BY DEF HTyped
<1> QED BY <1>1, AllWrite

\* The same when it writes nothing.
LEMMA OneAsks ==
    ASSUME HTyped, NEW c \in Clients, NEW new \in HRequest, hreq' = [hreq EXCEPT ![c] = new],
           UNCHANGED <<hyp, owed, sig, group, fit>>,
           asked' = asked \/ (asked < MaxRequests /\ asked' = asked + 1)
    PROVE  HTyped'
<1>1. /\ hyp' \in [Hyps -> Rows \cup {NoRow}] /\ owed' \in [Hyps -> SUBSET Owable]
      /\ sig' \in [Clues -> SignalStatus \cup {"none"}] /\ group' \in BOOLEAN
  BY DEF HTyped, HTypeOK
<1> QED BY <1>1, OneWrites

\* A statement of a save leaves the tables typed.
LEMMA StatementTyped ==
    ASSUME HTyped, NEW s \in Statements,
           SaveHypothesisGroup(s), SaveHypothesis(s), SaveOwed(s), SaveReasoningSignal(s)
    PROVE  /\ hyp' \in [Hyps -> Rows \cup {NoRow}] /\ owed' \in [Hyps -> SUBSET Owable]
           /\ sig' \in [Clues -> SignalStatus \cup {"none"}] /\ group' \in BOOLEAN
<1>1. /\ hyp \in [Hyps -> Rows \cup {NoRow}] /\ owed \in [Hyps -> SUBSET Owable]
      /\ sig \in [Clues -> SignalStatus \cup {"none"}] /\ group \in BOOLEAN
  BY DEF HTyped, HTypeOK
<1>2. s.op \in {"row", "settled"} \cup Owable => s.of \in Hyps /\ s.row \in Rows
  BY DEF Statements, RowStatements, Owable
<1>3. s.op = "signal" => s.of \in Clues
  BY DEF Statements, RowStatements, Owable
<1>4. hyp' \in [Hyps -> Rows \cup {NoRow}]
  BY <1>1, <1>2 DEF SaveHypothesis
<1>5. owed' \in [Hyps -> SUBSET Owable]
  <2>1. CASE s.op = "row"
    BY <1>1, <1>2, <2>1 DEF SaveOwed, Owable
  <2>2. CASE s.op \in Owable
    BY <1>1, <1>2, <2>2 DEF SaveOwed, Owable
  <2>3. CASE s.op = "settled"
    BY <1>1, <1>2, <2>3 DEF SaveOwed, Owable
  <2>4. CASE s.op \in {"group", "signal"}
    BY <1>1, <2>4 DEF SaveOwed, Owable
  <2> QED BY <2>1, <2>2, <2>3, <2>4 DEF SaveOwed
<1>6. sig' \in [Clues -> SignalStatus \cup {"none"}]
  BY <1>1, <1>3 DEF SaveReasoningSignal, SignalStatus
<1>7. group' \in BOOLEAN
  BY <1>1 DEF SaveHypothesisGroup
<1> QED BY <1>4, <1>5, <1>6, <1>7

\* The requests of each kind.
LEMMA RequestsByPlace ==
    ASSUME NEW q \in HRequest
    PROVE  /\ q.at = "saving" => q \in Saving
           /\ q.at \in StatusPlaces => q \in StatusRequests
           /\ q.at = "signal" => q \in SignalRequests
<1>1. NoRequest.at = "idle" /\ \A x \in Saving : x.at = "saving"
  BY DEF NoRequest, Saving
<1>2. \A x \in StatusRequests : x.at \in StatusPlaces
  BY DEF StatusRequests
<1>3. \A x \in SignalRequests : x.at = "signal"
  BY DEF SignalRequests
<1> QED BY <1>1, <1>2, <1>3 DEF HRequest, StatusPlaces

\* No step breaks the types.
LEMMA NextHTyped == HTyped /\ [HNext]_<<pg, hvars>> => HTyped'
<1> SUFFICES ASSUME HTyped, [HNext]_<<pg, hvars>> PROVE HTyped'
  OBVIOUS
<1>1. NoRequest \in HRequest /\ \A c \in Clients : hreq[c] \in HRequest
  BY DEF HRequest, HTyped
<1>2. ASSUME NEW c \in Clients, RunReasoningCycle(c) PROVE HTyped'
  <2> DEFINE found == {e \in Clues : fit[e] # "none"}
             todo == SignalStatements(found) \o GroupStatements(found)
             new == [at |-> "saving", todo |-> todo]
  <2>1. todo \in Seq(Statements)
    BY CycleTyped
  <2>2. new \in HRequest
    BY <2>1 DEF HRequest, Saving
  <2>3. /\ hreq' = [hreq EXCEPT ![c] = new] /\ UNCHANGED <<hyp, owed, sig, group, fit>>
        /\ asked < MaxRequests /\ asked' = asked + 1
    BY <1>2 DEF RunReasoningCycle, Ask
  <2> HIDE DEF new
  <2> QED BY <2>2, <2>3, OneAsks
<1>3. ASSUME NEW c \in Clients, NEW h \in Hyps, NEW status \in Bodies, NEW ev \in SUBSET Clues,
             NEW brings \in Brought, NEW whose \in Hyps,
             CreateHypothesis(c, h, status, ev, brings, whose)
      PROVE  HTyped'
  <2> DEFINE row == [status |-> status, ev |-> ev]
             save == HypothesisStatements({h}, row, brings)
             todo == [i \in DOMAIN save |->
                        IF save[i].op = "row" THEN save[i] ELSE [save[i] EXCEPT !.of = whose]]
             new == [at |-> "saving", todo |-> todo]
  <2>1. row \in Rows
    BY DEF Rows
  <2>2. {h} \in SUBSET Hyps /\ IsFiniteSet({h})
    BY FS_Singleton
  <2> HIDE DEF row
  <2>3. save \in Seq(RowStatements)
    BY <2>1, <2>2, HypothesisStatementsTyped
  <2>4. todo \in Seq(Statements)
    <3> HIDE DEF save
    <3>1. ASSUME NEW i \in DOMAIN save
          PROVE  (IF save[i].op = "row" THEN save[i] ELSE [save[i] EXCEPT !.of = whose])
                   \in Statements
      <4>1. save[i] \in RowStatements
        BY <2>3
      <4>2. [save[i] EXCEPT !.of = whose] \in RowStatements
        BY <4>1 DEF RowStatements
      <4> QED BY <4>1, <4>2 DEF Statements
    <3>2. DOMAIN save = 1 .. Len(save) /\ Len(save) \in Nat
      BY <2>3
    <3> QED BY <3>1, <3>2
  <2>5. new \in HRequest
    BY <2>4 DEF HRequest, Saving
  <2>6. /\ hreq' = [hreq EXCEPT ![c] = new] /\ UNCHANGED <<hyp, owed, sig, group, fit>>
        /\ asked < MaxRequests /\ asked' = asked + 1
    BY <1>3 DEF CreateHypothesis, Ask, row
  <2> HIDE DEF new
  <2> QED BY <2>5, <2>6, OneAsks
<1>4. ASSUME NEW c \in Clients, NEW todo \in Seq(Statements),
             hreq[c].at = "saving", hreq' = [hreq EXCEPT ![c].todo = todo]
      PROVE  \E new \in HRequest : hreq' = [hreq EXCEPT ![c] = new]
  <2>1. hreq[c] \in Saving
    BY <1>1, <1>4, RequestsByPlace
  <2>2. [hreq[c] EXCEPT !.todo = todo] \in HRequest
    BY <2>1 DEF Saving, HRequest
  <2> QED BY <1>4, <2>2
<1>5. ASSUME NEW c \in Clients, hreq[c].at = "saving"
      PROVE  hreq[c].todo \in Seq(Statements)
  BY <1>1, <1>5, RequestsByPlace DEF Saving
<1>6. ASSUME NEW c \in Clients, SaveStep(c) PROVE HTyped'
  <2> DEFINE todo == hreq[c].todo
  <2>1. /\ hreq[c].at = "saving" /\ todo # <<>> /\ UNCHANGED <<fit, asked>>
        /\ hreq' = [o \in Clients |->
             CASE o = c -> [hreq[o] EXCEPT !.todo = Tail(@)]
               [] hreq[o].at \in StatusPlaces -> [hreq[o] EXCEPT !.owes = @ \cap owed'[hreq[o].of]]
               [] OTHER -> hreq[o]]
    BY <1>6 DEF SaveStep
  <2>2. todo \in Seq(Statements)
    BY <1>5, <2>1
  <2>3. Head(todo) \in Statements /\ Tail(todo) \in Seq(Statements)
    BY <2>1, <2>2
  <2>4. /\ SaveHypothesisGroup(Head(todo)) /\ SaveHypothesis(Head(todo))
        /\ SaveOwed(Head(todo)) /\ SaveReasoningSignal(Head(todo))
    BY <1>6 DEF SaveStep
  <2>5. /\ hyp' \in [Hyps -> Rows \cup {NoRow}] /\ owed' \in [Hyps -> SUBSET Owable]
        /\ sig' \in [Clues -> SignalStatus \cup {"none"}] /\ group' \in BOOLEAN
    BY <2>3, <2>4, StatementTyped
  <2>6. ASSUME NEW o \in Clients PROVE hreq'[o] \in HRequest
    <3>1. CASE o = c
      <4>1. hreq[c] \in Saving
        BY <1>1, <2>1, RequestsByPlace
      <4>2. [hreq[c] EXCEPT !.todo = Tail(@)] \in HRequest
        BY <2>3, <4>1 DEF Saving, HRequest
      <4>3. hreq'[o] = [hreq[c] EXCEPT !.todo = Tail(@)]
        BY <2>1, <3>1 DEF StatusPlaces
      <4> QED BY <4>2, <4>3
    <3>2. CASE o # c /\ hreq[o].at \in StatusPlaces
      <4>1. hreq[o] \in StatusRequests
        BY <1>1, <3>2, RequestsByPlace
      <4>2. [hreq[o] EXCEPT !.owes = @ \cap owed'[hreq[o].of]] \in StatusRequests
        BY <4>1 DEF StatusRequests
      <4> QED BY <2>1, <3>2, <4>2 DEF HRequest
    <3>3. CASE o # c /\ hreq[o].at \notin StatusPlaces
      BY <1>1, <2>1, <3>3
    <3> QED BY <3>1, <3>2, <3>3
  <2>7. hreq' \in [Clients -> HRequest]
    BY <2>1, <2>6
  <2> QED BY <2>1, <2>5, <2>7, AllWrite
<1>7. ASSUME NEW c \in Clients, SaveFails(c) PROVE HTyped'
  <2>1. /\ hreq[c].at = "saving" /\ hreq[c].todo # <<>>
        /\ hreq' = [hreq EXCEPT ![c].todo = AfterFailure(hreq[c].todo)]
        /\ UNCHANGED <<hyp, owed, sig, group, fit, asked>>
    BY <1>7 DEF SaveFails
  <2>2. AfterFailure(hreq[c].todo) \in Seq(Statements)
    BY <1>5, <2>1, AfterFailureTyped
  <2>3. PICK new \in HRequest : hreq' = [hreq EXCEPT ![c] = new]
    BY <1>4, <2>1, <2>2
  <2> QED BY <2>1, <2>3, OneAsks
<1>8. ASSUME NEW c \in Clients, SaveDone(c) \/ WriteFails(c) PROVE HTyped'
  BY <1>1, <1>8, OneAsks DEF SaveDone, WriteFails, Answer
<1>9. ASSUME NEW c \in Clients, NEW h \in Hyps, NEW want \in HypothesisStatus \cup Bodies,
             StatusRead(c, h, want)
      PROVE  HTyped'
  <2> DEFINE new == [at |-> IF want # "SUPPORTED" THEN "write" ELSE IF pg THEN "list" ELSE "gate",
                     of |-> h, want |-> want, seen |-> hyp[h].status, ev |-> hyp[h].ev,
                     owes |-> owed[h], sees |-> IF pg THEN {} ELSE owed[h], blind |-> FALSE]
  <2>1. hyp[h] \in Rows /\ owed[h] \in SUBSET Owable
    BY <1>9 DEF StatusRead, HTyped, HTypeOK
  <2>2. hyp[h].status \in HypothesisStatus \cup Bodies /\ hyp[h].ev \in SUBSET Clues
    BY <2>1 DEF Rows
  <2>3. new \in StatusRequests
    BY <2>1, <2>2 DEF StatusRequests, StatusPlaces
  <2>4. /\ hreq' = [hreq EXCEPT ![c] = new] /\ UNCHANGED <<hyp, owed, sig, group, fit>>
        /\ asked < MaxRequests /\ asked' = asked + 1
    BY <1>9 DEF StatusRead, Ask
  <2> HIDE DEF new
  <2>5. new \in HRequest
    BY <2>3 DEF HRequest
  <2> QED BY <2>4, <2>5, OneAsks
<1>10. ASSUME NEW c \in Clients, ListOwed(c) PROVE HTyped'
  <2> DEFINE r == hreq[c]
             kind == IF r.at = "list" THEN "condition" ELSE "requirement"
             next == IF r.at = "list" THEN "list requirements" ELSE "gate"
             seeing == [r EXCEPT !.at = next, !.sees = @ \cup (owed[r.of] \cap {kind})]
             failing == [r EXCEPT !.at = next, !.blind = TRUE]
  <2>1. /\ r.at \in {"list", "list requirements"}
        /\ UNCHANGED <<hyp, owed, sig, group, fit, asked>>
        /\ hreq' = [hreq EXCEPT ![c] = seeing] \/ hreq' = [hreq EXCEPT ![c] = failing]
    BY <1>10 DEF ListOwed
  <2>2. r \in StatusRequests
    BY <1>1, <2>1, RequestsByPlace DEF StatusPlaces
  <2>3. next \in StatusPlaces /\ owed[r.of] \in SUBSET Owable
    BY <2>2 DEF StatusPlaces, StatusRequests, HTyped, HTypeOK
  <2> HIDE DEF r, next, kind
  <2>4. seeing \in StatusRequests /\ failing \in StatusRequests
    BY <2>2, <2>3 DEF StatusRequests
  <2>5. seeing \in HRequest /\ failing \in HRequest
    BY <2>4 DEF HRequest
  <2> HIDE DEF seeing, failing
  <2> QED BY <2>1, <2>5, OneAsks
<1>11. ASSUME NEW c \in Clients, Gate(c) PROVE HTyped'
  <2> DEFINE new == [hreq[c] EXCEPT !.at = "write"]
  <2>1. /\ hreq[c].at = "gate" /\ UNCHANGED <<hyp, owed, sig, group, fit, asked>>
        /\ hreq' = [hreq EXCEPT ![c] = new] \/ hreq' = [hreq EXCEPT ![c] = NoRequest]
    BY <1>11 DEF Gate, On, Answer
  <2>2. hreq[c] \in StatusRequests
    BY <1>1, <2>1, RequestsByPlace DEF StatusPlaces
  <2>3. new \in StatusRequests
    BY <2>2 DEF StatusRequests, StatusPlaces
  <2>4. new \in HRequest
    BY <2>3 DEF HRequest
  <2> HIDE DEF new
  <2> QED BY <1>1, <2>1, <2>4, OneAsks
<1>12. ASSUME NEW c \in Clients, StatusWrite(c) PROVE HTyped'
  <2>1. /\ hreq[c].at = "write" /\ hreq' = [hreq EXCEPT ![c] = NoRequest]
        /\ UNCHANGED <<owed, sig, group, fit, asked>>
        /\ hyp' = hyp \/ /\ hyp[hreq[c].of] # NoRow
                         /\ hyp' = [hyp EXCEPT ![hreq[c].of].status = hreq[c].want]
    BY <1>12 DEF StatusWrite, Answer
  <2>2. hreq[c].of \in Hyps /\ hreq[c].want \in HypothesisStatus \cup Bodies
    BY <1>1, <2>1, RequestsByPlace DEF StatusPlaces, StatusRequests
  <2>3. hyp \in [Hyps -> Rows \cup {NoRow}]
    BY DEF HTyped, HTypeOK
  <2>4. hyp' \in [Hyps -> Rows \cup {NoRow}]
    <3>1. CASE hyp' = hyp
      BY <2>3, <3>1
    <3>2. CASE hyp' # hyp
      <4>1. hyp[hreq[c].of] \in Rows
        BY <2>1, <2>2, <2>3, <3>2
      <4>2. [hyp[hreq[c].of] EXCEPT !.status = hreq[c].want] \in Rows
        BY <2>2, <4>1 DEF Rows
      <4> QED BY <2>1, <2>2, <2>3, <3>2, <4>2
    <3> QED BY <3>1, <3>2
  <2>5. owed' \in [Hyps -> SUBSET Owable] /\ sig' \in [Clues -> SignalStatus \cup {"none"}]
        /\ group' \in BOOLEAN
    BY <2>1 DEF HTyped, HTypeOK
  <2> QED BY <1>1, <2>1, <2>4, <2>5, OneWrites
<1>13. ASSUME NEW c \in Clients, NEW e \in Clues, NEW want \in SignalStatus, SignalRead(c, e, want)
       PROVE  HTyped'
  <2> DEFINE new == [at |-> "signal", of |-> e, want |-> want]
  <2>1. new \in HRequest
    BY DEF HRequest, SignalRequests
  <2>2. /\ hreq' = [hreq EXCEPT ![c] = new] /\ UNCHANGED <<hyp, owed, sig, group, fit>>
        /\ asked < MaxRequests /\ asked' = asked + 1
    BY <1>13 DEF SignalRead, Ask
  <2> HIDE DEF new
  <2> QED BY <2>1, <2>2, OneAsks
<1>14. ASSUME NEW c \in Clients, SignalWrite(c) PROVE HTyped'
  <2>1. /\ hreq[c].at = "signal" /\ hreq' = [hreq EXCEPT ![c] = NoRequest]
        /\ sig' = [sig EXCEPT ![hreq[c].of] = hreq[c].want]
        /\ UNCHANGED <<hyp, owed, group, fit, asked>>
    BY <1>14 DEF SignalWrite, Answer
  <2>2. hreq[c].of \in Clues /\ hreq[c].want \in SignalStatus
    BY <1>1, <2>1, RequestsByPlace DEF SignalRequests
  <2>3. /\ hyp' \in [Hyps -> Rows \cup {NoRow}] /\ owed' \in [Hyps -> SUBSET Owable]
        /\ sig' \in [Clues -> SignalStatus \cup {"none"}] /\ group' \in BOOLEAN
    BY <2>1, <2>2 DEF HTyped, HTypeOK
  <2> QED BY <1>1, <2>1, <2>3, OneWrites
<1>15. ASSUME NEW e \in Clues, NEW f \in {"fit", "unfit"}, EvidenceRecorded(e, f) PROVE HTyped'
  BY <1>15 DEF EvidenceRecorded, HTyped, HTypeOK
<1>16. CASE UNCHANGED <<pg, hvars>>
  BY <1>16 DEF hvars, HTyped, HTypeOK
<1> QED BY <1>2, <1>3, <1>6, <1>7, <1>8, <1>9, <1>10, <1>11, <1>12, <1>13, <1>14, <1>15, <1>16
        DEF HNext

-----------------------------------------------------------------------------
\* The types of the hypotheses, signals and requests, whatever statuses the
\* bodies of requests name.
THEOREM HypothesesTyped == HSpec => []HTypeOK
<1>1. StorageInit /\ HInit => HTyped
  <2> SUFFICES ASSUME HInit PROVE HTyped
    OBVIOUS
  <2>1. 0 \in 0 .. MaxRequests
    BY HypothesesAssumption
  <2>2. NoRequest \in HRequest /\ NoRequest.at = "idle"
    BY DEF HRequest, NoRequest
  <2> QED BY <2>1, <2>2 DEF HInit, HTyped, HTypeOK
<1>2. HTyped => HTypeOK
  BY DEF HTyped
<1> QED BY <1>1, <1>2, NextHTyped, PTL DEF HSpec

\* A status request makes a hypothesis SUPPORTED only out of INVESTIGATING,
\* for any number of requests, cycles and hypotheses.
THEOREM SupportIsEarned == HSpec => SupportIsGuarded
<1>1. StorageInit /\ HInit => HStrong
  BY Places DEF HInit, HStrong, HTables, HRequests, Owable, StatusPlaces
<1>2. HStrong /\ [HNext]_<<pg, hvars>>
        => [\A c \in Clients : Promotes(c) => hyp[hreq[c].of].status = "INVESTIGATING"]_hvars
  BY PromotionIsEarned
<1> QED BY <1>1, <1>2, NextHStrong, PTL DEF HSpec, SupportIsGuarded

\* What a hypothesis has owed ever since a request read it keeps that request
\* from making it SUPPORTED, in both stores, unless a read failed on the way:
\* for any number of requests, cycles and creations that overwrite conditions.
THEOREM OwedBlocks == HSpec => OwedBlocksSupport
<1>1. StorageInit /\ HInit => HStrong
  BY Places DEF HInit, HStrong, HTables, HRequests, Owable, StatusPlaces
<1>2. HStrong /\ [HNext]_<<pg, hvars>>
        => [\A c \in Clients : Promotes(c) /\ ~hreq[c].blind => hreq[c].owes = {}]_hvars
  BY PromotionIsEarned
<1> QED BY <1>1, <1>2, NextHStrong, PTL DEF HSpec, OwedBlocksSupport
=============================================================================
