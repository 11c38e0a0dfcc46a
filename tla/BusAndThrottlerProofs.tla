------------------------- MODULE BusAndThrottlerProofs -------------------------
(***************************************************************************)
(* What the event bus guarantees for any number of subscribers, any types, *)
(* any history length and any channel capacity, and what the adaptive      *)
(* throttler guarantees for any responses in any order and any row of      *)
(* successes it recovers after.                                            *)
(***************************************************************************)
EXTENDS EventBus, Throttler, FiniteSetTheorems, TLAPS

-----------------------------------------------------------------------------
(* The event bus. *)

\* A channel is closed only after it left the lists of the bus, and what it
\* holds was published.
ClosedAreUnlisted ==
    /\ listed \cap closed = {}
    /\ \A s \in listed \cup closed : wants[s] # "none"
    /\ \A s \in Subscribers : \A i \in DOMAIN chan[s] : chan[s][i].number <= published

BStrong == BTypeOK /\ ClosedAreUnlisted /\ HistoryIsLatest /\ DeliveryIsOrderly

-----------------------------------------------------------------------------
\* Remembering an event keeps the history a sequence of events within its
\* bound, whose newest one is the event.
LEMMA RememberTyped ==
    ASSUME BTypeOK, NEW e \in Event
    PROVE  /\ Remember(e) \in Seq(Event)
           /\ Len(Remember(e)) = IF Len(history) >= MaxHistory THEN Len(history) ELSE Len(history) + 1
           /\ Len(Remember(e)) <= MaxHistory
           /\ Remember(e)[Len(Remember(e))] = e
           /\ \A i \in 1 .. Len(Remember(e)) - 1 :
                 Remember(e)[i] = history[IF Len(history) >= MaxHistory THEN i + 1 ELSE i]
<1>1. CASE Len(history) >= MaxHistory
  <2>1. Remember(e) = Append(Tail(history), e)
    BY <1>1 DEF Remember
  <2>2. Len(history) = MaxHistory /\ history # <<>>
    BY <1>1, BusAssumption DEF BTypeOK
  <2>3. Tail(history) \in Seq(Event) /\ Len(Tail(history)) = Len(history) - 1
    BY <2>2 DEF BTypeOK
  <2>4. \A i \in 1 .. Len(Tail(history)) : Tail(history)[i] = history[i + 1]
    BY <2>2 DEF BTypeOK
  <2> QED BY <1>1, <2>1, <2>2, <2>3, <2>4, BusAssumption
<1>2. CASE Len(history) < MaxHistory
  <2>1. Remember(e) = Append(history, e)
    BY <1>2, BusAssumption DEF Remember, BTypeOK
  <2> QED BY <1>2, <2>1, BusAssumption DEF BTypeOK
<1> QED BY <1>1, <1>2, BusAssumption DEF BTypeOK

\* The invariant holds of a new bus.
LEMMA InitBStrong == BInit => BStrong
<1> SUFFICES ASSUME BInit PROVE BStrong
  OBVIOUS
<1>1. BTypeOK
  <2>1. <<>> \in Seq(Event) /\ Len(<<>>) = 0
    OBVIOUS
  <2>2. chan \in [Subscribers -> Seq(Event)] /\ wants \in [Subscribers -> Types \cup {"all", "none"}]
    BY <2>1 DEF BInit
  <2>3. history \in Seq(Event) /\ Len(history) <= MaxHistory
    BY <2>1, BusAssumption DEF BInit
  <2> QED BY <2>2, <2>3 DEF BInit, BTypeOK
<1>2. ClosedAreUnlisted /\ DeliveryIsOrderly
  BY DEF BInit, ClosedAreUnlisted, DeliveryIsOrderly
<1>3. HistoryIsLatest
  BY BusAssumption DEF BInit, HistoryIsLatest
<1> QED BY <1>1, <1>2, <1>3 DEF BStrong

\* No step breaks the types.
LEMMA NextBTyped == BTypeOK /\ [BNext]_bvars => BTypeOK'
<1> SUFFICES ASSUME BTypeOK, [BNext]_bvars PROVE BTypeOK'
  OBVIOUS
<1>1. ASSUME NEW type \in Types, Publish(type) PROVE BTypeOK'
  <2> DEFINE e == [number |-> published + 1, type |-> type]
  <2>1. e \in Event
    BY DEF Event, BTypeOK
  <2>2. history' = Remember(e)
    BY <1>1 DEF Publish
  <2>3. history' \in Seq(Event) /\ Len(history') <= MaxHistory
    BY <2>1, <2>2, RememberTyped
  <2>4. chan' \in [Subscribers -> Seq(Event)]
    BY <1>1, <2>1 DEF Publish, BTypeOK
  <2> QED BY <1>1, <2>3, <2>4 DEF Publish, BTypeOK
<1>2. ASSUME NEW s \in Subscribers, NEW type \in Types \cup {"all"}, Subscribe(s, type)
      PROVE  BTypeOK'
  BY <1>2 DEF Subscribe, BTypeOK
<1>3. ASSUME NEW s \in Subscribers, Receive(s) PROVE BTypeOK'
  BY <1>3 DEF Receive, BTypeOK
<1>4. ASSUME NEW s \in Subscribers, Unsubscribe(s) PROVE BTypeOK'
  BY <1>4 DEF Unsubscribe, ListedWithout, BTypeOK
<1>5. CASE UNCHANGED bvars
  BY <1>5 DEF bvars, BTypeOK
<1> QED BY <1>1, <1>2, <1>3, <1>4, <1>5 DEF BNext

\* The history stays the latest events without a gap: only Publish touches it.
LEMMA NextHistory == BTypeOK /\ HistoryIsLatest /\ [BNext]_bvars => HistoryIsLatest'
<1> SUFFICES ASSUME BTypeOK, HistoryIsLatest, [BNext]_bvars PROVE HistoryIsLatest'
  OBVIOUS
<1>1. ASSUME NEW type \in Types, Publish(type) PROVE HistoryIsLatest'
  <2> DEFINE e == [number |-> published + 1, type |-> type]
  <2>1. e \in Event /\ e.number = published + 1
    BY DEF Event, BTypeOK
  <2>2. history' = Remember(e) /\ published' = published + 1
    BY <1>1 DEF Publish
  <2>3. /\ history' \in Seq(Event)
        /\ Len(history') = IF Len(history) >= MaxHistory THEN Len(history) ELSE Len(history) + 1
        /\ history'[Len(history')] = e
        /\ \A i \in 1 .. Len(history') - 1 :
              history'[i] = history[IF Len(history) >= MaxHistory THEN i + 1 ELSE i]
    BY <2>1, <2>2, RememberTyped
  <2> HIDE DEF e
  <2>4. /\ Len(history) \in Nat /\ Len(history') \in Nat
        /\ published \in Nat /\ published' = published + 1 /\ MaxHistory \in Nat
    BY <2>2, <2>3, BusAssumption DEF BTypeOK
  <2>5. DOMAIN history = 1 .. Len(history) /\ DOMAIN history' = 1 .. Len(history')
    BY <2>3 DEF BTypeOK
  <2>6. Len(history') = IF published + 1 < MaxHistory THEN published + 1 ELSE MaxHistory
    BY <2>3, <2>4 DEF HistoryIsLatest, BTypeOK
  <2>7. history'[Len(history')].number = published' - Len(history') + Len(history')
    <3>1. history'[Len(history')].number = published + 1
      BY <2>1, <2>3
    <3> QED BY <2>4, <3>1
  <2>8. ASSUME NEW i \in 1 .. Len(history') - 1 PROVE history'[i].number = published' - Len(history') + i
    <3>1. CASE Len(history) >= MaxHistory
      <4>1. i + 1 \in DOMAIN history /\ history'[i] = history[i + 1] /\ Len(history') = Len(history)
        BY <2>3, <2>4, <2>5, <3>1
      <4>2. history[i + 1].number = published - Len(history) + (i + 1)
        BY <4>1 DEF HistoryIsLatest
      <4> QED BY <4>1, <4>2, <2>4
    <3>2. CASE ~(Len(history) >= MaxHistory)
      <4>1. i \in DOMAIN history /\ history'[i] = history[i] /\ Len(history') = Len(history) + 1
        BY <2>3, <2>4, <2>5, <3>2
      <4>2. history[i].number = published - Len(history) + i
        BY <4>1 DEF HistoryIsLatest
      <4> QED BY <4>1, <4>2, <2>4
    <3> QED BY <3>1, <3>2
  <2>9. \A i \in 1 .. Len(history') : history'[i].number = published' - Len(history') + i
    <3>1. \A i \in 1 .. Len(history') : i = Len(history') \/ i \in 1 .. Len(history') - 1
      BY <2>4
    <3> QED BY <2>7, <2>8, <3>1
  <2> QED BY <2>2, <2>5, <2>6, <2>9 DEF HistoryIsLatest
<1>2. ASSUME UNCHANGED <<published, history>> PROVE HistoryIsLatest'
  BY <1>2 DEF HistoryIsLatest
<1> QED BY <1>1, <1>2 DEF BNext, Subscribe, Receive, Unsubscribe, bvars

\* A channel receives only what is newer than all it holds, and a closed one
\* is never found in the lists.
LEMMA NextDelivery ==
    BTypeOK /\ ClosedAreUnlisted /\ DeliveryIsOrderly /\ [BNext]_bvars
        => ClosedAreUnlisted' /\ DeliveryIsOrderly'
<1> SUFFICES ASSUME BTypeOK, ClosedAreUnlisted, DeliveryIsOrderly, [BNext]_bvars
             PROVE  ClosedAreUnlisted' /\ DeliveryIsOrderly'
  OBVIOUS
<1>1. ASSUME NEW type \in Types, Publish(type) PROVE ClosedAreUnlisted' /\ DeliveryIsOrderly'
  <2> DEFINE e == [number |-> published + 1, type |-> type]
  <2>1. Receivers(type) \cap closed = {}
    BY DEF Receivers, ClosedAreUnlisted
  <2>2. ~panicked'
    BY <1>1, <2>1 DEF Publish, DeliveryIsOrderly, BTypeOK
  <2>3. published' = published + 1 /\ UNCHANGED <<listed, wants, closed>>
    BY <1>1 DEF Publish
  <2>4. ASSUME NEW s \in Subscribers
        PROVE /\ \A i \in DOMAIN chan'[s] : chan'[s][i].number <= published'
              /\ \A i, j \in DOMAIN chan'[s] : i < j => chan'[s][i].number < chan'[s][j].number
    <3>1. chan[s] \in Seq(Event)
      BY DEF BTypeOK
    <3>2. \A i \in DOMAIN chan[s] : chan[s][i].number \in Nat
      <4>1. \A i \in DOMAIN chan[s] : chan[s][i] \in Event
        BY <3>1
      <4>2. \A x \in Event : x.number \in Nat
        BY DEF Event
      <4> QED BY <4>1, <4>2
    <3>3. chan'[s] = Append(chan[s], e) \/ chan'[s] = chan[s]
      BY <1>1 DEF Publish
    <3>4. CASE chan'[s] = chan[s]
      BY <2>3, <3>2, <3>4 DEF ClosedAreUnlisted, DeliveryIsOrderly, BTypeOK
    <3>5. CASE chan'[s] = Append(chan[s], e)
      <4>1. /\ DOMAIN chan'[s] = 1 .. Len(chan[s]) + 1
            /\ Len(chan[s]) \in Nat /\ DOMAIN chan[s] = 1 .. Len(chan[s])
            /\ chan'[s][Len(chan[s]) + 1] = e
            /\ \A i \in 1 .. Len(chan[s]) : chan'[s][i] = chan[s][i]
        BY <3>1, <3>5
      <4>2. e.number = published + 1 /\ published \in Nat
        BY DEF BTypeOK
      <4>3. \A i \in 1 .. Len(chan[s]) : chan[s][i].number <= published
        BY <4>1 DEF ClosedAreUnlisted
      <4>4. \A i \in DOMAIN chan'[s] : chan'[s][i].number <= published'
        BY <2>3, <3>2, <4>1, <4>2, <4>3
      <4>5. \A i, j \in DOMAIN chan'[s] : i < j => chan'[s][i].number < chan'[s][j].number
        <5>1. \A i, j \in 1 .. Len(chan[s]) : i < j => chan[s][i].number < chan[s][j].number
          BY <4>1 DEF DeliveryIsOrderly
        <5>2. \A i \in 1 .. Len(chan[s]) : chan[s][i].number < chan'[s][Len(chan[s]) + 1].number
          BY <3>2, <4>1, <4>2, <4>3
        <5>3. \A i, j \in 1 .. Len(chan[s]) + 1 :
                i < j => i \in 1 .. Len(chan[s]) /\ (j \in 1 .. Len(chan[s]) \/ j = Len(chan[s]) + 1)
          BY <4>1
        <5> QED BY <4>1, <5>1, <5>2, <5>3
      <4> QED BY <4>4, <4>5
    <3> QED BY <3>3, <3>4, <3>5
  <2>5. ClosedAreUnlisted'
    BY <2>3, <2>4 DEF ClosedAreUnlisted
  <2>6. DeliveryIsOrderly'
    BY <2>2, <2>4 DEF DeliveryIsOrderly
  <2> QED BY <2>5, <2>6
<1>2. ASSUME NEW s \in Subscribers, NEW type \in Types \cup {"all"}, Subscribe(s, type)
      PROVE  ClosedAreUnlisted' /\ DeliveryIsOrderly'
  <2>1. wants[s] = "none" /\ type # "none" /\ UNCHANGED <<published, chan, closed, panicked>>
    BY <1>2, BusAssumption DEF Subscribe
  <2>2. s \notin closed /\ listed' = listed \cup {s}
    BY <1>2, <2>1 DEF Subscribe, ClosedAreUnlisted
  <2>3. \A t \in listed' \cup closed' : wants'[t] # "none"
    BY <1>2, <2>1 DEF Subscribe, ClosedAreUnlisted, BTypeOK
  <2> QED BY <2>1, <2>2, <2>3 DEF ClosedAreUnlisted, DeliveryIsOrderly
<1>3. ASSUME NEW s \in Subscribers, Receive(s) PROVE ClosedAreUnlisted' /\ DeliveryIsOrderly'
  <2>1. chan[s] \in Seq(Event) /\ chan[s] # <<>>
    BY <1>3 DEF Receive, BTypeOK
  <2>2. chan' = [chan EXCEPT ![s] = Tail(chan[s])]
    BY <1>3 DEF Receive
  <2>3. /\ DOMAIN Tail(chan[s]) = 1 .. Len(chan[s]) - 1 /\ DOMAIN chan[s] = 1 .. Len(chan[s])
        /\ Len(chan[s]) \in Nat
        /\ \A i \in 1 .. Len(chan[s]) - 1 : Tail(chan[s])[i] = chan[s][i + 1]
    BY <2>1
  <2>4. \A t \in Subscribers : chan'[t] = IF t = s THEN Tail(chan[s]) ELSE chan[t]
    BY <2>2 DEF BTypeOK
  <2>5. UNCHANGED <<published, listed, wants, closed, panicked>>
    BY <1>3 DEF Receive
  <2>6. \A i \in DOMAIN Tail(chan[s]) : Tail(chan[s])[i].number <= published
    BY <2>3 DEF ClosedAreUnlisted
  <2>7. \A i, j \in DOMAIN Tail(chan[s]) : i < j => Tail(chan[s])[i].number < Tail(chan[s])[j].number
    BY <2>3 DEF DeliveryIsOrderly
  <2> QED BY <2>4, <2>5, <2>6, <2>7 DEF ClosedAreUnlisted, DeliveryIsOrderly
<1>4. ASSUME NEW s \in Subscribers, Unsubscribe(s) PROVE ClosedAreUnlisted' /\ DeliveryIsOrderly'
  BY <1>4 DEF Unsubscribe, ListedWithout, ClosedAreUnlisted, DeliveryIsOrderly, BTypeOK
<1>5. CASE UNCHANGED bvars
  BY <1>5 DEF bvars, ClosedAreUnlisted, DeliveryIsOrderly
<1> QED BY <1>1, <1>2, <1>3, <1>4, <1>5 DEF BNext

\* The invariant is inductive.
LEMMA NextBStrong == BStrong /\ [BNext]_bvars => BStrong'
  BY NextBTyped, NextHistory, NextDelivery DEF BStrong

-----------------------------------------------------------------------------
\* GetRecentEvents and GetEvents answer with the latest events, for any
\* length of the history.
THEOREM HistoryIsComplete == BSpec => []HistoryIsLatest
<1>1. BStrong => HistoryIsLatest
  BY DEF BStrong
<1> QED BY <1>1, InitBStrong, NextBStrong, PTL DEF BSpec

\* No subscriber sees events out of order or twice, and no event is sent on a
\* closed channel, for any number of subscribers and any capacity.
THEOREM DeliveryStaysOrderly == BSpec => []DeliveryIsOrderly
<1>1. BStrong => DeliveryIsOrderly
  BY DEF BStrong
<1> QED BY <1>1, InitBStrong, NextBStrong, PTL DEF BSpec

-----------------------------------------------------------------------------
(* The throttler. *)

Failures == {"429", "block"}

\* The successes counted are the row of successes the history ends with.
RowIsCounted ==
    /\ successes <= Len(heard)
    /\ \A k \in Len(heard) - successes + 1 .. Len(heard) : heard[k] = "200"
    /\ successes < Recovery /\ successes < Len(heard) => heard[Len(heard) - successes] # "200"

\* The failures counted are those that no row of successes has made good.
FailuresAreCounted ==
    /\ limited = UpTo(Cardinality(Strikes(heard, "429")), Limits)
    /\ blocked = UpTo(Cardinality(Strikes(heard, "block")), Blocks)

WStrong == WTypeOK /\ BreakerTellsItsCounts /\ RowIsCounted /\ FailuresAreCounted

-----------------------------------------------------------------------------
\* Halving a rate and raising it by one step stay within the limits.
LEMMA RatesInRange ==
    \A r \in MinRate .. MaxRate :
        /\ Half(r) \in MinRate .. MaxRate
        /\ UpTo(r + 2, MaxRate) \in MinRate .. MaxRate
  BY DEF Half, UpTo, MinRate, MaxRate

\* The failures that stand are finitely many.
LEMMA StrikesFinite ==
    ASSUME NEW h \in Seq(Responses), NEW r \in Responses
    PROVE  /\ IsFiniteSet(Strikes(h, r))
           /\ Cardinality(Strikes(h, r)) \in Nat
<1>1. Strikes(h, r) \subseteq 1 .. Len(h)
  BY DEF Strikes
<1>2. IsFiniteSet(1 .. Len(h))
  BY FS_Interval
<1> QED BY <1>1, <1>2, FS_Subset, FS_CardinalityType

\* A failure makes nothing good: what stood still stands, and the new one
\* stands with it.
LEMMA FailureStands ==
    ASSUME NEW h \in Seq(Responses), NEW f \in Failures, NEW r \in Failures
    PROVE  Strikes(Append(h, f), r) =
              IF f = r THEN Strikes(h, r) \cup {Len(h) + 1} ELSE Strikes(h, r)
<1> DEFINE n == Len(h)
           g == Append(h, f)
<1>1. /\ n \in Nat /\ g \in Seq(Responses) /\ Len(g) = n + 1 /\ g[n + 1] = f
      /\ DOMAIN g = 1 .. n + 1 /\ DOMAIN h = 1 .. n
      /\ \A i \in 1 .. n : g[i] = h[i]
      /\ n = Len(h) /\ g = Append(h, f)
  BY DEF Failures, Responses
<1>2. ASSUME NEW i
      PROVE  /\ Forgiven(h, i) <=> \E j \in i .. Len(h) - Recovery :
                                 \A k \in j + 1 .. j + Recovery : h[k] = "200"
             /\ Forgiven(g, i) <=> \E j \in i .. Len(g) - Recovery :
                                 \A k \in j + 1 .. j + Recovery : g[k] = "200"
  BY Zenon DEF Forgiven
<1> HIDE DEF n, g
<1>3. ASSUME NEW i \in 1 .. n + 1 PROVE Forgiven(g, i) <=> i \in 1 .. n /\ Forgiven(h, i)
  <2>1. ASSUME NEW j \in i .. Len(g) - Recovery, \A k \in j + 1 .. j + Recovery : g[k] = "200"
        PROVE  /\ i \in 1 .. n /\ j \in i .. Len(h) - Recovery
               /\ \A k \in j + 1 .. j + Recovery : h[k] = "200"
    <3>1. j + Recovery # n + 1
      BY <1>1, <2>1, ThrottlerAssumption DEF Failures
    <3> QED BY <1>1, <2>1, <3>1, ThrottlerAssumption
  <2>2. ASSUME i \in 1 .. n, NEW j \in i .. Len(h) - Recovery,
               \A k \in j + 1 .. j + Recovery : h[k] = "200"
        PROVE  /\ j \in i .. Len(g) - Recovery
               /\ \A k \in j + 1 .. j + Recovery : g[k] = "200"
    BY <1>1, <2>2, ThrottlerAssumption
  <2>3. ASSUME Forgiven(g, i) PROVE i \in 1 .. n /\ Forgiven(h, i)
    <3>1. PICK j \in i .. Len(g) - Recovery : \A k \in j + 1 .. j + Recovery : g[k] = "200"
      BY <1>2, <2>3, Zenon
    <3>2. i \in 1 .. n /\ j \in i .. Len(h) - Recovery /\ \A k \in j + 1 .. j + Recovery : h[k] = "200"
      BY <2>1, <3>1, Zenon
    <3> QED BY <1>2, <3>2, Zenon
  <2>4. ASSUME i \in 1 .. n, Forgiven(h, i) PROVE Forgiven(g, i)
    <3>1. PICK j \in i .. Len(h) - Recovery : \A k \in j + 1 .. j + Recovery : h[k] = "200"
      BY <1>2, <2>4, Zenon
    <3>2. j \in i .. Len(g) - Recovery /\ \A k \in j + 1 .. j + Recovery : g[k] = "200"
      BY <2>2, <2>4, <3>1, Zenon
    <3> QED BY <1>2, <3>2, Zenon
  <2> QED BY <2>3, <2>4
<1>4. \A i \in 1 .. n : i \in Strikes(g, r) <=> i \in Strikes(h, r)
  BY <1>1, <1>3 DEF Strikes
<1>5. n + 1 \in Strikes(g, r) <=> f = r
  BY <1>1, <1>3 DEF Strikes
<1>6. Strikes(g, r) \subseteq 1 .. n \cup {n + 1} /\ Strikes(h, r) \subseteq 1 .. n
  BY <1>1 DEF Strikes
<1>7. CASE f = r
  <2>1. \A i : i \in Strikes(g, r) <=> i \in Strikes(h, r) \cup {n + 1}
    BY <1>4, <1>5, <1>6, <1>7, Zenon
  <2>2. Strikes(g, r) = Strikes(h, r) \cup {n + 1}
    BY <2>1, Zenon
  <2> QED BY <1>1, <1>7, <2>2
<1>8. CASE f # r
  <2>1. \A i : i \in Strikes(g, r) <=> i \in Strikes(h, r)
    BY <1>4, <1>5, <1>6, <1>8, Zenon
  <2>2. Strikes(g, r) = Strikes(h, r)
    BY <2>1, Zenon
  <2> QED BY <1>1, <1>8, <2>2
<1> QED BY <1>7, <1>8

\* A success that does not complete a row makes nothing good.
LEMMA SuccessForgivesNothing ==
    ASSUME NEW h \in Seq(Responses), NEW r \in Failures, NEW s \in Nat,
           s + 1 < Recovery, s <= Len(h), s < Len(h) => h[Len(h) - s] # "200"
    PROVE  Strikes(Append(h, "200"), r) = Strikes(h, r)
<1> DEFINE n == Len(h)
           g == Append(h, "200")
<1>1. /\ n \in Nat /\ g \in Seq(Responses) /\ Len(g) = n + 1 /\ g[n + 1] = "200"
      /\ DOMAIN g = 1 .. n + 1 /\ DOMAIN h = 1 .. n
      /\ \A i \in 1 .. n : g[i] = h[i]
      /\ n = Len(h) /\ g = Append(h, "200")
  BY DEF Responses
<1>2. ASSUME NEW i
      PROVE  /\ Forgiven(h, i) <=> \E j \in i .. Len(h) - Recovery :
                                 \A k \in j + 1 .. j + Recovery : h[k] = "200"
             /\ Forgiven(g, i) <=> \E j \in i .. Len(g) - Recovery :
                                 \A k \in j + 1 .. j + Recovery : g[k] = "200"
  BY Zenon DEF Forgiven
<1> HIDE DEF n, g
<1>3. ASSUME NEW i \in 1 .. n PROVE Forgiven(g, i) <=> Forgiven(h, i)
  <2>1. ASSUME NEW j \in i .. Len(g) - Recovery, \A k \in j + 1 .. j + Recovery : g[k] = "200"
        PROVE  /\ j \in i .. Len(h) - Recovery
               /\ \A k \in j + 1 .. j + Recovery : h[k] = "200"
    <3>1. ASSUME j + Recovery = n + 1 PROVE FALSE
      <4>1. s < n /\ n - s \in j + 1 .. j + Recovery /\ n - s \in 1 .. n
        BY <1>1, <2>1, <3>1, ThrottlerAssumption
      <4> QED BY <1>1, <2>1, <4>1
    <3> QED BY <1>1, <2>1, <3>1, ThrottlerAssumption
  <2>2. ASSUME NEW j \in i .. Len(h) - Recovery, \A k \in j + 1 .. j + Recovery : h[k] = "200"
        PROVE  /\ j \in i .. Len(g) - Recovery
               /\ \A k \in j + 1 .. j + Recovery : g[k] = "200"
    BY <1>1, <2>2, ThrottlerAssumption
  <2>3. ASSUME Forgiven(g, i) PROVE Forgiven(h, i)
    <3>1. PICK j \in i .. Len(g) - Recovery : \A k \in j + 1 .. j + Recovery : g[k] = "200"
      BY <1>2, <2>3, Zenon
    <3>2. j \in i .. Len(h) - Recovery /\ \A k \in j + 1 .. j + Recovery : h[k] = "200"
      BY <2>1, <3>1, Zenon
    <3> QED BY <1>2, <3>2, Zenon
  <2>4. ASSUME Forgiven(h, i) PROVE Forgiven(g, i)
    <3>1. PICK j \in i .. Len(h) - Recovery : \A k \in j + 1 .. j + Recovery : h[k] = "200"
      BY <1>2, <2>4, Zenon
    <3>2. j \in i .. Len(g) - Recovery /\ \A k \in j + 1 .. j + Recovery : g[k] = "200"
      BY <2>2, <3>1, Zenon
    <3> QED BY <1>2, <3>2, Zenon
  <2> QED BY <2>3, <2>4
<1>4. \A i \in 1 .. n : i \in Strikes(g, r) <=> i \in Strikes(h, r)
  BY <1>1, <1>3 DEF Strikes
<1>5. n + 1 \notin Strikes(g, r)
  BY <1>1 DEF Strikes, Failures
<1>6. Strikes(g, r) \subseteq 1 .. n \cup {n + 1} /\ Strikes(h, r) \subseteq 1 .. n
  BY <1>1 DEF Strikes
<1>7. \A i \in Nat : i \in 1 .. n + 1 <=> i \in 1 .. n \/ i = n + 1
  BY <1>1
<1> QED BY <1>1, <1>4, <1>5, <1>6, <1>7

\* A success that completes a row makes everything good.
LEMMA RowForgivesAll ==
    ASSUME NEW h \in Seq(Responses), NEW r \in Failures,
           Recovery - 1 <= Len(h),
           \A k \in Len(h) - Recovery + 2 .. Len(h) : h[k] = "200"
    PROVE  Strikes(Append(h, "200"), r) = {}
<1> DEFINE n == Len(h)
           g == Append(h, "200")
<1>1. /\ n \in Nat /\ Len(g) = n + 1 /\ g[n + 1] = "200" /\ DOMAIN g = 1 .. n + 1
      /\ \A i \in 1 .. n : g[i] = h[i]
  BY DEF Responses
<1>2. \A k \in n + 2 - Recovery .. n + 1 : g[k] = "200"
  BY <1>1, ThrottlerAssumption
<1>3. ASSUME NEW i \in 1 .. n + 1, g[i] = r PROVE Forgiven(g, i)
  <2>1. i <= n + 1 - Recovery
    BY <1>2, <1>3, ThrottlerAssumption DEF Failures
  <2> DEFINE j == n + 1 - Recovery
  <2>2. j \in i .. Len(g) - Recovery /\ \A k \in j + 1 .. j + Recovery : g[k] = "200"
    <3>1. j \in i .. Len(g) - Recovery
      BY <1>1, <2>1, ThrottlerAssumption
    <3>2. j + 1 = n + 2 - Recovery /\ j + Recovery = n + 1
      BY <1>1, ThrottlerAssumption
    <3> QED BY <1>2, <3>1, <3>2
  <2> QED BY <2>2 DEF Forgiven
<1> QED BY <1>1, <1>3 DEF Strikes

\* The invariant holds of a new throttler.
LEMMA InitWStrong == WInit => WStrong
<1> SUFFICES ASSUME WInit PROVE WStrong
  OBVIOUS
<1>1. rate \in MinRate .. MaxRate /\ limited \in 0 .. Limits /\ blocked \in 0 .. Blocks
  BY DEF WInit, MinRate, MaxRate, Limits, Blocks
<1>2. successes \in 0 .. Recovery
  BY ThrottlerAssumption DEF WInit
<1>3. WTypeOK
  <2>1. heard \in Seq(Responses)
    BY DEF WInit
  <2> QED BY <1>1, <1>2, <2>1 DEF WInit, WTypeOK, Moods
<1>4. BreakerTellsItsCounts /\ RowIsCounted
  BY DEF WInit, BreakerTellsItsCounts, RowIsCounted, Limits, Blocks
<1>5. Strikes(heard, "429") = {} /\ Strikes(heard, "block") = {}
  BY DEF WInit, Strikes
<1>6. FailuresAreCounted
  BY <1>5, FS_EmptySet DEF FailuresAreCounted, WInit, UpTo, Limits, Blocks
<1> QED BY <1>3, <1>4, <1>6 DEF WStrong

\* No step breaks the types.
LEMMA NextWTyped == WTypeOK /\ [WNext]_wvars => WTypeOK'
<1> SUFFICES ASSUME WTypeOK, [WNext]_wvars PROVE WTypeOK'
  OBVIOUS
<1>0. ASSUME NEW r \in Responses, Hears(r) PROVE heard' \in Seq(Responses)
  BY <1>0 DEF Hears, WTypeOK
<1>1. CASE Record429
  <2>1. limited' \in 0 .. Limits /\ successes' \in 0 .. Recovery /\ rate' \in MinRate .. MaxRate
    BY <1>1, RatesInRange, ThrottlerAssumption DEF Record429, UpTo, Limits, WTypeOK
  <2>2. mood' \in Moods /\ open' \in BOOLEAN /\ backoff' \in BOOLEAN
    BY <1>1 DEF Record429, Moods, WTypeOK
  <2>3. heard' \in Seq(Responses)
    BY <1>0, <1>1 DEF Record429, Responses
  <2> QED BY <1>1, <2>1, <2>2, <2>3 DEF Record429, WTypeOK
<1>2. CASE RecordBlock
  <2>1. blocked' \in 0 .. Blocks /\ successes' \in 0 .. Recovery /\ rate' \in MinRate .. MaxRate
    BY <1>2, ThrottlerAssumption DEF RecordBlock, UpTo, Blocks, MinRate, MaxRate, WTypeOK
  <2>2. mood' \in Moods /\ open' \in BOOLEAN
    BY <1>2 DEF RecordBlock, Moods, WTypeOK
  <2>3. heard' \in Seq(Responses)
    BY <1>0, <1>2 DEF RecordBlock, Responses
  <2> QED BY <1>2, <2>1, <2>2, <2>3 DEF RecordBlock, WTypeOK
<1>3. CASE RecordSuccess
  <2>1. successes' \in 0 .. Recovery
    BY <1>3, ThrottlerAssumption DEF RecordSuccess, UpTo, WTypeOK
  <2>2. rate' \in MinRate .. MaxRate
    <3>1. rate' = UpTo(rate + 2, MaxRate) \/ rate' = rate
      BY <1>3 DEF RecordSuccess
    <3> QED BY <3>1, RatesInRange DEF WTypeOK
  <2>3. limited' \in 0 .. Limits /\ blocked' \in 0 .. Blocks
    <3>1. limited' \in {0, limited} /\ blocked' \in {0, blocked}
      BY <1>3 DEF RecordSuccess
    <3> QED BY <3>1 DEF WTypeOK, Limits, Blocks
  <2>4. mood' \in Moods /\ open' \in BOOLEAN
    BY <1>3 DEF RecordSuccess, Moods, WTypeOK
  <2>5. heard' \in Seq(Responses)
    BY <1>0, <1>3 DEF RecordSuccess, Responses
  <2> QED BY <1>3, <2>1, <2>2, <2>3, <2>4, <2>5 DEF RecordSuccess, WTypeOK
<1>4. CASE RetryUntilPasses
  BY <1>4 DEF RetryUntilPasses, WTypeOK
<1>5. CASE UNCHANGED wvars
  BY <1>5 DEF wvars, WTypeOK
<1> QED BY <1>1, <1>2, <1>3, <1>4, <1>5 DEF WNext, InspectResponse

\* The breaker and the counters change together.
LEMMA NextCounts == WTypeOK /\ BreakerTellsItsCounts /\ [WNext]_wvars => BreakerTellsItsCounts'
<1> SUFFICES ASSUME WTypeOK, BreakerTellsItsCounts, [WNext]_wvars PROVE BreakerTellsItsCounts'
  OBVIOUS
<1> USE DEF WTypeOK, BreakerTellsItsCounts, Limits, Blocks, UpTo
<1>1. CASE Record429
  BY <1>1 DEF Record429
<1>2. CASE RecordBlock
  BY <1>2 DEF RecordBlock
<1>3. CASE RecordSuccess
  BY <1>3 DEF RecordSuccess
<1>4. CASE RetryUntilPasses \/ UNCHANGED wvars
  BY <1>4 DEF RetryUntilPasses, wvars
<1> QED BY <1>1, <1>2, <1>3, <1>4 DEF WNext, InspectResponse

\* The successes counted stay the row the history ends with.
LEMMA NextRow == WTypeOK /\ RowIsCounted /\ [WNext]_wvars => RowIsCounted'
<1> SUFFICES ASSUME WTypeOK, RowIsCounted, [WNext]_wvars PROVE RowIsCounted'
  OBVIOUS
<1> DEFINE n == Len(heard)
<1>1. ASSUME NEW r \in Responses, Hears(r)
      PROVE  /\ n \in Nat /\ Len(heard') = n + 1 /\ heard'[n + 1] = r
             /\ \A i \in 1 .. n : heard'[i] = heard[i]
  BY <1>1 DEF Hears, WTypeOK
<1>2. CASE Record429 \/ RecordBlock
  <2>1. PICK f \in Failures : Hears(f) /\ successes' = 0
    BY <1>2 DEF Record429, RecordBlock, Failures
  <2>2. n \in Nat /\ Len(heard') = n + 1 /\ heard'[n + 1] = f
    BY <1>1, <2>1 DEF Failures, Responses
  <2> QED BY <2>1, <2>2 DEF RowIsCounted, Failures
<1>3. CASE RecordSuccess
  <2>1. /\ n \in Nat /\ Len(heard') = n + 1 /\ heard'[n + 1] = "200"
        /\ \A i \in 1 .. n : heard'[i] = heard[i]
    BY <1>1, <1>3 DEF RecordSuccess, Responses
  <2>2. /\ successes' = IF successes + 1 < Recovery THEN successes + 1 ELSE Recovery
        /\ successes \in 0 .. Recovery /\ Recovery \in Nat \ {0}
    BY <1>3, ThrottlerAssumption DEF RecordSuccess, UpTo, WTypeOK
  <2>3. successes' <= Len(heard')
    BY <2>1, <2>2 DEF RowIsCounted
  <2>4. ASSUME NEW k \in Len(heard') - successes' + 1 .. Len(heard') PROVE heard'[k] = "200"
    BY <2>1, <2>2, <2>3, <2>4 DEF RowIsCounted
  <2>5. successes' < Recovery /\ successes' < Len(heard')
           => heard'[Len(heard') - successes'] # "200"
    BY <2>1, <2>2 DEF RowIsCounted
  <2> QED BY <2>3, <2>4, <2>5, Zenon DEF RowIsCounted
<1>4. CASE RetryUntilPasses \/ UNCHANGED wvars
  BY <1>4 DEF RetryUntilPasses, wvars, RowIsCounted
<1> QED BY <1>2, <1>3, <1>4 DEF WNext, InspectResponse

\* One more failure that stands is one more that is counted.
LEMMA StrikeCounted ==
    ASSUME NEW h \in Seq(Responses), NEW r \in Failures
    PROVE  /\ Cardinality(Strikes(h, r)) \in Nat
           /\ Cardinality(Strikes(h, r) \cup {Len(h) + 1}) = Cardinality(Strikes(h, r)) + 1
<1>1. IsFiniteSet(Strikes(h, r)) /\ Cardinality(Strikes(h, r)) \in Nat
  BY StrikesFinite DEF Failures, Responses
<1>2. Len(h) + 1 \notin Strikes(h, r)
  BY DEF Strikes
<1> QED BY <1>1, <1>2, FS_AddElement

\* The failures counted stay those that no row of successes has made good.
LEMMA NextFailures ==
    WTypeOK /\ RowIsCounted /\ FailuresAreCounted /\ [WNext]_wvars => FailuresAreCounted'
<1> SUFFICES ASSUME WTypeOK, RowIsCounted, FailuresAreCounted, [WNext]_wvars
             PROVE  FailuresAreCounted'
  OBVIOUS
<1> DEFINE c(r) == Cardinality(Strikes(heard, r))
<1>1. heard \in Seq(Responses) /\ c("429") \in Nat /\ c("block") \in Nat
  BY StrikesFinite DEF WTypeOK, Responses
<1>2. limited = UpTo(c("429"), Limits) /\ blocked = UpTo(c("block"), Blocks)
  BY DEF FailuresAreCounted
<1>3. CASE Record429
  <2>1. heard' = Append(heard, "429") /\ limited' = UpTo(limited + 1, Limits) /\ blocked' = blocked
    BY <1>3 DEF Record429, Hears
  <2>2. Strikes(heard', "429") = Strikes(heard, "429") \cup {Len(heard) + 1}
    BY <1>1, <2>1, FailureStands DEF Failures
  <2>3. Strikes(heard', "block") = Strikes(heard, "block")
    BY <1>1, <2>1, FailureStands DEF Failures
  <2>4. Cardinality(Strikes(heard', "429")) = c("429") + 1
    BY <1>1, <2>2, StrikeCounted DEF Failures
  <2>5. limited' = UpTo(c("429") + 1, Limits)
    BY <1>1, <1>2, <2>1 DEF UpTo, Limits
  <2> QED BY <1>2, <2>1, <2>3, <2>4, <2>5 DEF FailuresAreCounted
<1>4. CASE RecordBlock
  <2>1. heard' = Append(heard, "block") /\ blocked' = UpTo(blocked + 1, Blocks) /\ limited' = limited
    BY <1>4 DEF RecordBlock, Hears
  <2>2. Strikes(heard', "block") = Strikes(heard, "block") \cup {Len(heard) + 1}
    BY <1>1, <2>1, FailureStands DEF Failures
  <2>3. Strikes(heard', "429") = Strikes(heard, "429")
    BY <1>1, <2>1, FailureStands DEF Failures
  <2>4. Cardinality(Strikes(heard', "block")) = c("block") + 1
    BY <1>1, <2>2, StrikeCounted DEF Failures
  <2>5. blocked' = UpTo(c("block") + 1, Blocks)
    BY <1>1, <1>2, <2>1 DEF UpTo, Blocks
  <2> QED BY <1>2, <2>1, <2>3, <2>4, <2>5 DEF FailuresAreCounted
<1>5. CASE RecordSuccess
  <2>1. heard' = Append(heard, "200") /\ successes \in 0 .. Recovery /\ Recovery \in Nat \ {0}
    BY <1>5, ThrottlerAssumption DEF RecordSuccess, Hears, WTypeOK
  <2>2. CASE successes + 1 < Recovery
    <3>1. Strikes(heard', "429") = Strikes(heard, "429")
      BY <1>1, <2>1, <2>2, SuccessForgivesNothing DEF RowIsCounted, Failures
    <3>2. Strikes(heard', "block") = Strikes(heard, "block")
      BY <1>1, <2>1, <2>2, SuccessForgivesNothing DEF RowIsCounted, Failures
    <3>3. limited' = limited /\ blocked' = blocked
      BY <1>5, <2>1, <2>2 DEF RecordSuccess
    <3> QED BY <1>2, <3>1, <3>2, <3>3 DEF FailuresAreCounted
  <2>3. CASE successes + 1 >= Recovery
    <3>1. /\ Recovery - 1 <= Len(heard)
          /\ \A k \in Len(heard) - Recovery + 2 .. Len(heard) : heard[k] = "200"
      BY <1>1, <2>1, <2>3 DEF RowIsCounted
    <3>2. Strikes(heard', "429") = {} /\ Strikes(heard', "block") = {}
      BY <1>1, <2>1, <3>1, RowForgivesAll DEF Failures
    <3>3. limited' = 0 /\ blocked' = 0
      BY <1>5, <2>1, <2>3 DEF RecordSuccess
    <3> QED BY <3>2, <3>3, FS_EmptySet DEF FailuresAreCounted, UpTo, Limits, Blocks
  <2> QED BY <2>1, <2>2, <2>3
<1>6. CASE RetryUntilPasses \/ UNCHANGED wvars
  BY <1>6 DEF RetryUntilPasses, wvars, FailuresAreCounted
<1> QED BY <1>3, <1>4, <1>5, <1>6 DEF WNext, InspectResponse

\* The invariant is inductive.
LEMMA NextWStrong == WStrong /\ [WNext]_wvars => WStrong'
  BY NextWTyped, NextCounts, NextRow, NextFailures DEF WStrong

-----------------------------------------------------------------------------
\* The throttler of an asset keeps its types: rates within the limits,
\* counters up to what trips the breaker.
THEOREM ThrottlerTyped == WSpec => []WTypeOK
<1>1. WInit => WTypeOK
  BY InitWStrong DEF WStrong
<1> QED BY <1>1, NextWTyped, PTL DEF WSpec

\* The breaker is open exactly while enough failures are counted, and what
\* calls itself normal counts none.
THEOREM BreakerIsHonest == WSpec => []BreakerTellsItsCounts
<1>1. WStrong => BreakerTellsItsCounts
  BY DEF WStrong
<1> QED BY <1>1, InitWStrong, NextWStrong, PTL DEF WSpec

\* The counters answer as the whole history of responses would, for any
\* threshold and any responses in any order: requests are refused exactly
\* while failures stand that no row of successes has made good, or a delay
\* runs.
THEOREM BreakerFollowsHistory == WSpec => []BreakerRemembers
<1>1. WStrong => BreakerRemembers
  <2> SUFFICES ASSUME WStrong PROVE BreakerRemembers
    OBVIOUS
  <2>1. /\ Cardinality(Strikes(heard, "429")) \in Nat
        /\ Cardinality(Strikes(heard, "block")) \in Nat
    BY StrikesFinite DEF WStrong, WTypeOK, Responses
  <2>2. /\ limited = Limits <=> Cardinality(Strikes(heard, "429")) >= Limits
        /\ blocked = Blocks <=> Cardinality(Strikes(heard, "block")) >= Blocks
    BY <2>1 DEF WStrong, FailuresAreCounted, UpTo, Limits, Blocks
  <2> QED BY <2>2 DEF WStrong, BreakerTellsItsCounts, BreakerRemembers, CanExecute, Tripped
<1> QED BY <1>1, InitWStrong, NextWStrong, PTL DEF WSpec
=============================================================================
