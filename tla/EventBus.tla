------------------------------ MODULE EventBus ------------------------------
(***************************************************************************)
(* The event bus: publishing never blocks, a subscriber whose channel is   *)
(* full misses the event, and the bus remembers the latest events.  Every  *)
(* call holds the mutex of the bus; receiving from a channel does not.     *)
(* Events are numbered in the order they are published.                    *)
(***************************************************************************)
EXTENDS Integers, Sequences

CONSTANTS Subscribers,   \* subscriptions; each is made at most once
          Types,         \* event types
          MaxHistory,    \* how many events the bus remembers
          Buffer,        \* the capacity of a channel
          MaxEvents      \* bound: how many events are published

ASSUME BusAssumption ==
    /\ MaxHistory \in Nat \ {0} /\ Buffer \in Nat \ {0} /\ MaxEvents \in Nat
    /\ {"all", "none"} \cap Types = {}

VARIABLES
    published,   \* how many events were published
    history,     \* the events remembered, oldest first
    listed,      \* the subscriptions in the lists of the bus
    wants,       \* wants[s]: the type s subscribed to, or "all"
    chan,        \* chan[s]: the events in the channel of s
    closed,      \* the channels that are closed
    panicked     \* an event was sent on a closed channel

bvars == <<published, history, listed, wants, chan, closed, panicked>>

Event == [number : Nat, type : Types]

BInit ==
    /\ published = 0
    /\ history = <<>>
    /\ listed = {}
    /\ wants = [s \in Subscribers |-> "none"]
    /\ chan = [s \in Subscribers |-> <<>>]
    /\ closed = {}
    /\ panicked = FALSE

\* Subscribe and SubscribeAll.
Subscribe(s, type) ==
    /\ wants[s] = "none"
    /\ wants' = [wants EXCEPT ![s] = type]
    /\ listed' = listed \cup {s}
    /\ UNCHANGED <<published, history, chan, closed, panicked>>

\* Mutant: one event more than the maximum is kept.
RememberOneMore(e) ==
    Append(IF Len(history) > MaxHistory THEN Tail(history) ELSE history, e)

Remember(e) ==
    Append(IF Len(history) >= MaxHistory THEN Tail(history) ELSE history, e)

Receivers(type) == {s \in listed : wants[s] \in {type, "all"}}

Publish(type) ==
    LET e == [number |-> published + 1, type |-> type] IN
    /\ published < MaxEvents
    /\ published' = published + 1
    /\ history' = Remember(e)
    /\ chan' = [s \in Subscribers |->
                   IF s \in Receivers(type) \ closed /\ Len(chan[s]) < Buffer
                   THEN Append(chan[s], e) ELSE chan[s]]
    /\ panicked' = (panicked \/ Receivers(type) \cap closed # {})
    /\ UNCHANGED <<listed, wants, closed>>

\* A subscriber takes the next event, also from a channel that is closed.
Receive(s) ==
    /\ chan[s] # <<>>
    /\ chan' = [chan EXCEPT ![s] = Tail(@)]
    /\ UNCHANGED <<published, history, listed, wants, closed, panicked>>

\* Mutant: unsubscribing closes the channel and leaves it in the list.
ListedWithoutKept(s) == listed

ListedWithout(s) == listed \ {s}

\* Unsubscribe, any number of times: the channel is found in the list, taken
\* out and closed.
Unsubscribe(s) ==
    /\ s \in listed
    /\ listed' = ListedWithout(s)
    /\ closed' = closed \cup {s}
    /\ UNCHANGED <<published, history, wants, chan, panicked>>

BNext ==
    \/ \E type \in Types : Publish(type)
    \/ \E s \in Subscribers :
         \/ \E type \in Types \cup {"all"} : Subscribe(s, type)
         \/ Receive(s) \/ Unsubscribe(s)

BSpec == BInit /\ [][BNext]_bvars

-----------------------------------------------------------------------------
BTypeOK ==
    /\ published \in Nat
    /\ history \in Seq(Event) /\ Len(history) <= MaxHistory
    /\ wants \in [Subscribers -> Types \cup {"all", "none"}]
    /\ listed \subseteq Subscribers /\ closed \subseteq Subscribers
    /\ chan \in [Subscribers -> Seq(Event)]
    /\ panicked \in BOOLEAN

\* GetRecentEvents and GetEvents answer with the latest events, all of them up
\* to the maximum, oldest first and without a gap.
HistoryIsLatest ==
    /\ Len(history) = IF published < MaxHistory THEN published ELSE MaxHistory
    /\ \A i \in DOMAIN history : history[i].number = published - Len(history) + i

\* A subscriber gets events in the order they were published, each at most
\* once, however often its channel was full, and nothing is sent on a channel
\* that was closed, whenever it unsubscribes.
DeliveryIsOrderly ==
    /\ ~panicked
    /\ \A s \in Subscribers : \A i, j \in DOMAIN chan[s] :
          i < j => chan[s][i].number < chan[s][j].number
=============================================================================
