----------------------------- MODULE JobHistory -----------------------------
(***************************************************************************)
(* ReconstructJobLifecycle: the status of a job, derived from its stored   *)
(* audit events alone, which it sorts by the time they carry.              *)
(***************************************************************************)
EXTENDS JobLifecycle

\* Chronological order: the place of an event is the number of earlier ones.
\* Times are distinct here, so the tie-breaker (the random event identifier)
\* never decides.
Chronological(events) ==
    LET Earlier(k) == {i \in DOMAIN events : events[i].at < events[k].at}
    IN  [p \in DOMAIN events |->
            events[CHOOSE k \in DOMAIN events : Cardinality(Earlier(k)) = p - 1]]

\* Mutant: only a queued job can be cancelled.
ReplayCancelsQueuedOnly(current, event) ==
    CASE current = "ERROR" -> "ERROR"
      [] event.new = "QUEUED" ->
            IF current = "NONE" THEN "QUEUED" ELSE "ERROR"
      [] event.new = "CANCELLED" ->
            IF current = "QUEUED" THEN "CANCELLED" ELSE "ERROR"
      [] OTHER -> IF event.prev = current THEN event.new ELSE "ERROR"

\* One event replayed on the state derived so far; "ERROR" is any of the
\* inconsistencies the function returns as an error.
Replay(current, event) ==
    CASE current = "ERROR" -> "ERROR"
      [] event.new = "QUEUED" ->
            IF current = "NONE" THEN "QUEUED" ELSE "ERROR"
      [] event.new = "CANCELLED" ->
            IF current \in Active THEN "CANCELLED" ELSE "ERROR"
      [] OTHER ->
            IF event.prev = current /\ <<current, event.new>> \in Edge
            THEN event.new ELSE "ERROR"

ReconstructJobLifecycle(events) ==
    LET sorted == Chronological(events)
        derived[i \in 0 .. Len(sorted)] ==
            IF i = 0 THEN "NONE" ELSE Replay(derived[i - 1], sorted[i])
    IN  derived[Len(sorted)]

\* The audit events of a job, replayed in the order of their times, give the
\* state its row is in: the reconstruction neither errs nor disagrees.
ReconstructionAgrees ==
    \A j \in Jobs :
        Stored(j) => ReconstructJobLifecycle(log[j]) = job[j].status
=============================================================================
