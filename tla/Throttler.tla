----------------------------- MODULE Throttler -----------------------------
(***************************************************************************)
(* The adaptive throttler of one asset: responses slow requests down or    *)
(* trip a circuit breaker.  InspectResponse is handed any response at any  *)
(* time, as the tests of the package do: nothing in the server calls it,   *)
(* and nothing makes a caller ask CanExecute first.  A response that is    *)
(* none of 429, recognised block and 200 records nothing.  Rates are       *)
(* counted in halves of a request per second, rounded down.                *)
(***************************************************************************)
EXTENDS Naturals, Sequences, FiniteSets

CONSTANTS Recovery,     \* successes in a row after which all is forgotten; the code's is 10
          MaxResponses  \* bound on the responses recorded

ASSUME ThrottlerAssumption == Recovery \in Nat \ {0} /\ MaxResponses \in Nat

MinRate == 1
MaxRate == 40
Limits  == 3    \* 429s that trip the breaker
Blocks  == 2    \* blocks that trip it

VARIABLES
    rate,        \* currentRPS
    mood,        \* state
    limited,     \* consecutive429s, counted up to Limits
    blocked,     \* consecutiveBlocks, counted up to Blocks
    successes,   \* consecutiveSuccess, counted up to Recovery
    open,        \* circuitBreakerOpen
    backoff,     \* retryUntil has not passed
    heard        \* history: the responses recorded, in order

wvars == <<rate, mood, limited, blocked, successes, open, backoff, heard>>

Moods == {"NORMAL", "RATE_LIMITED", "REPEATED_429", "SUSTAINED_BLOCK", "WAF_THROTTLED"}
Responses == {"429", "block", "200"}
UpTo(n, bound) == IF n < bound THEN n ELSE bound
Half(r) == IF r \div 2 < MinRate THEN MinRate ELSE r \div 2

WInit ==
    /\ rate = 20 /\ mood = "NORMAL"
    /\ limited = 0 /\ blocked = 0 /\ successes = 0
    /\ open = FALSE /\ backoff = FALSE
    /\ heard = <<>>

Hears(r) == Len(heard) < MaxResponses /\ heard' = Append(heard, r)

-----------------------------------------------------------------------------
CanExecute == ~open /\ ~backoff

\* Mutant: the breaker trips but the successes counted so far stay.
Record429KeepsSuccesses ==
    /\ Hears("429")
    /\ limited' = UpTo(limited + 1, Limits)
    /\ rate' = Half(rate)
    /\ backoff' = TRUE
    /\ IF limited + 1 >= Limits THEN mood' = "REPEATED_429" /\ open' = TRUE
                                ELSE mood' = "RATE_LIMITED" /\ UNCHANGED open
    /\ UNCHANGED <<blocked, successes>>

\* A 429: half the rate, a delay, and the breaker at the third.
Record429 ==
    /\ Hears("429")
    /\ limited' = UpTo(limited + 1, Limits)
    /\ successes' = 0
    /\ rate' = Half(rate)
    /\ backoff' = TRUE
    /\ IF limited + 1 >= Limits THEN mood' = "REPEATED_429" /\ open' = TRUE
                                ELSE mood' = "RATE_LIMITED" /\ UNCHANGED open
    /\ UNCHANGED blocked

\* A 403 that bears a provider's signature: the lowest rate, the breaker at
\* the second.
RecordBlock ==
    /\ Hears("block")
    /\ blocked' = UpTo(blocked + 1, Blocks)
    /\ successes' = 0
    /\ rate' = MinRate
    /\ IF blocked + 1 >= Blocks THEN mood' = "SUSTAINED_BLOCK" /\ open' = TRUE
                                ELSE mood' = "WAF_THROTTLED" /\ UNCHANGED open
    /\ UNCHANGED <<limited, backoff>>

\* A 200: at the tenth in a row, and at each that follows, everything is
\* forgotten and the rate goes up by one.
RecordSuccess ==
    /\ Hears("200")
    /\ successes' = UpTo(successes + 1, Recovery)
    /\ IF successes + 1 >= Recovery
         THEN /\ limited' = 0 /\ blocked' = 0 /\ open' = FALSE /\ mood' = "NORMAL"
              /\ rate' = UpTo(rate + 2, MaxRate)
         ELSE UNCHANGED <<limited, blocked, open, mood, rate>>
    /\ UNCHANGED backoff

\* The part of InspectResponse that changes state; the observation it returns
\* reads the status again.
InspectResponse == Record429 \/ RecordBlock \/ RecordSuccess

RetryUntilPasses ==
    /\ backoff /\ backoff' = FALSE
    /\ UNCHANGED <<rate, mood, limited, blocked, successes, open, heard>>

WNext == InspectResponse \/ RetryUntilPasses

WSpec == WInit /\ [][WNext]_wvars

-----------------------------------------------------------------------------
(* The type invariant. *)
WTypeOK ==
    /\ rate \in MinRate .. MaxRate /\ mood \in Moods
    /\ limited \in 0 .. Limits /\ blocked \in 0 .. Blocks /\ successes \in 0 .. Recovery
    /\ open \in BOOLEAN /\ backoff \in BOOLEAN
    /\ heard \in Seq(Responses)

\* The breaker is open exactly while three 429s or two blocks are counted, and
\* a throttler that calls itself normal counts none.
BreakerTellsItsCounts ==
    /\ open <=> limited = Limits \/ blocked = Blocks
    /\ mood = "NORMAL" => limited = 0 /\ blocked = 0

\* What the whole history of responses says of the breaker: a failure counts
\* until, at any time after it, Recovery responses in a row are successes.
Forgiven(h, i) == \E j \in i .. Len(h) - Recovery : \A k \in j + 1 .. j + Recovery : h[k] = "200"
Strikes(h, r) == {i \in DOMAIN h : h[i] = r /\ ~Forgiven(h, i)}
Tripped(h) == Cardinality(Strikes(h, "429")) >= Limits \/ Cardinality(Strikes(h, "block")) >= Blocks

\* After any sequence of responses the counters answer as the history would:
\* requests are refused exactly while three 429s or two blocks stand that no
\* unbroken row of successes has made good, or a delay is still running.
BreakerRemembers == CanExecute <=> ~Tripped(heard) /\ ~backoff
=============================================================================
