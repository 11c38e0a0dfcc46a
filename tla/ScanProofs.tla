----------------------------- MODULE ScanProofs -----------------------------
(***************************************************************************)
(* What the scope of a target and a reconnaissance run guarantee: for any  *)
(* names and patterns, any hosts, pages and links, any number of workers   *)
(* and any bucket.                                                         *)
(***************************************************************************)
EXTENDS MCScopeToScan, ScopeImportProofs, FiniteSetTheorems

-----------------------------------------------------------------------------
(* The scope of a target. *)

Fields == {"stored", "active", "root", "allowed", "rules", "excluded", "excludedPaths", "paths"}

\* A stored scope has every field.
IsScope(s) == Fields \subseteq DOMAIN s /\ s["stored"] = TRUE
ScopeShape == scope = NoScope \/ IsScope(scope)

\* What adding to one field leaves alone.
LEMMA AddsToOne ==
    ASSUME NEW s, NEW t, IsScope(s), NEW field \in Fields \ {"stored"}, Adds(s, t, field)
    PROVE  /\ \A f \in Fields \ {field} : t[f] = s[f]
           /\ s[field] \subseteq t[field] /\ t # NoScope
<1>1. t = [s EXCEPT ![field] = t[field]] /\ s[field] \subseteq t[field]
  BY DEF Adds
<1>2. \A f \in Fields \ {field} : t[f] = s[f]
  BY <1>1 DEF IsScope
<1>3. t["stored"] = TRUE
  BY <1>2 DEF IsScope, Fields
<1>4. NoScope["stored"] = FALSE
  BY DEF NoScope
<1> QED BY <1>1, <1>2, <1>3, <1>4

\* Fewer exclusions and more authorisations answer yes at least as often.
LEMMA EvaluateIsMonotone ==
    ASSUME NEW s, NEW t, NEW q, t.active = s.active, t.rules = s.rules, t.root = s.root,
           s.allowed \subseteq t.allowed,
           t.excluded \subseteq s.excluded, t.excludedPaths \subseteq s.excludedPaths,
           t.paths = {} \/ (s.paths # {} /\ s.paths \subseteq t.paths),
           Evaluate(s, q)
    PROVE  Evaluate(t, q)
<1>1. ~Refused(t, q)
  BY DEF Evaluate, Refused
<1>2. ~IsExcluded(t, q)
  BY DEF Evaluate, IsExcluded
<1>3. HostAuthorized(t, q)
  BY DEF Evaluate, HostAuthorized
<1>4. PathAuthorized(t, q)
  BY DEF Evaluate, PathAuthorized
<1> QED BY <1>1, <1>2, <1>3, <1>4 DEF Evaluate

\* An exclusion more, or the first path pattern, answers no more often.
LEMMA Narrows ==
    ASSUME NEW s, NEW t, IsScope(s),
           \/ Adds(s, t, "excluded") \/ Adds(s, t, "excludedPaths")
           \/ Adds(s, t, "paths") /\ s.paths = {}
    PROVE  InScopeOf(t) \subseteq InScopeOf(s)
<1> SUFFICES ASSUME NEW q \in Queries, Evaluate(t, q) PROVE Evaluate(s, q) /\ s # NoScope
  BY DEF InScopeOf
<1>1. s # NoScope
  BY DEF IsScope, NoScope
<1>2. CASE Adds(s, t, "excluded")
  <2>1. (\A f \in Fields \ {"excluded"} : t[f] = s[f]) /\ s["excluded"] \subseteq t["excluded"]
    BY <1>2, AddsToOne DEF Fields
  <2>2. /\ s.active = t.active /\ s.rules = t.rules /\ s.root = t.root /\ t.allowed = s.allowed
        /\ s.excluded \subseteq t.excluded /\ s.excludedPaths \subseteq t.excludedPaths
        /\ s.paths = {} \/ s.paths = t.paths
    BY <1>2, <2>1 DEF Fields
  <2> QED BY <1>1, <2>2, EvaluateIsMonotone
<1>3. CASE Adds(s, t, "excludedPaths")
  <2>1. /\ \A f \in Fields \ {"excludedPaths"} : t[f] = s[f]
        /\ s["excludedPaths"] \subseteq t["excludedPaths"]
    BY <1>3, AddsToOne DEF Fields
  <2>2. /\ s.active = t.active /\ s.rules = t.rules /\ s.root = t.root /\ t.allowed = s.allowed
        /\ s.excluded \subseteq t.excluded /\ s.excludedPaths \subseteq t.excludedPaths
        /\ s.paths = {} \/ s.paths = t.paths
    BY <1>3, <2>1 DEF Fields
  <2> QED BY <1>1, <2>2, EvaluateIsMonotone
<1>4. CASE Adds(s, t, "paths") /\ s.paths = {}
  <2>1. (\A f \in Fields \ {"paths"} : t[f] = s[f]) /\ s["paths"] \subseteq t["paths"]
    BY <1>4, AddsToOne DEF Fields
  <2>2. /\ s.active = t.active /\ s.rules = t.rules /\ s.root = t.root /\ t.allowed = s.allowed
        /\ s.excluded \subseteq t.excluded /\ s.excludedPaths \subseteq t.excludedPaths
        /\ s.paths = {} \/ s.paths = t.paths
    BY <1>4, <2>1 DEF Fields
  <2> QED BY <1>1, <2>2, EvaluateIsMonotone
<1> QED BY <1>1, <1>2, <1>3, <1>4

\* A domain more, or one more path pattern, answers yes more often.
LEMMA Widens ==
    ASSUME NEW s, NEW t, IsScope(s),
           Adds(s, t, "allowed") \/ (Adds(s, t, "paths") /\ s.paths # {})
    PROVE  InScopeOf(s) \subseteq InScopeOf(t)
<1> SUFFICES ASSUME NEW q \in Queries, Evaluate(s, q) PROVE Evaluate(t, q) /\ t # NoScope
  BY DEF InScopeOf
<1>1. CASE Adds(s, t, "allowed")
  BY <1>1, AddsToOne, EvaluateIsMonotone DEF Fields
<1>2. CASE Adds(s, t, "paths") /\ s.paths # {}
  BY <1>2, AddsToOne, EvaluateIsMonotone DEF Fields
<1> QED BY <1>1, <1>2

\* Every step leaves a scope with all its fields.
LEMMA NextScopeShape == ScopeShape /\ [FNext]_fvars => ScopeShape'
<1> SUFFICES ASSUME ScopeShape, [FNext]_fvars PROVE ScopeShape'
  OBVIOUS
<1>1. ASSUME NEW entries, NEW root, ImportTarget(entries, root) PROVE ScopeShape'
  BY <1>1 DEF ImportTarget, ScopeShape, IsScope, Fields
<1>2. ASSUME NEW root, NEW allowed, CreateTarget(root, allowed) PROVE ScopeShape'
  BY <1>2 DEF CreateTarget, ScopeShape, IsScope, Fields
<1>3. ASSUME NEW field \in Fields \ {"stored"}, NEW x, scope # NoScope,
             UpdateTarget([scope EXCEPT ![field] = x])
      PROVE  ScopeShape'
  BY <1>3 DEF UpdateTarget, ScopeShape, IsScope
<1>4. CASE scope # NoScope /\ FNext /\ ~(\E entries, root : ImportTarget(entries, root))
             /\ ~(\E root, allowed : CreateTarget(root, allowed))
  BY <1>3, <1>4 DEF FNext, Fields
<1>5. CASE UNCHANGED fvars
  BY <1>5 DEF fvars, ScopeShape
<1> QED BY <1>1, <1>2, <1>4, <1>5 DEF FNext

\* No edit of a target does the opposite of what it says, for any names,
\* patterns, rules and paths.
THEOREM EditsAreMonotone == FSpec => EditsGoOneWay
<1>1. FInit => ScopeShape
  BY DEF FInit, ScopeShape
<1>2. ScopeShape =>
        [scope # NoScope =>
          /\ \/ Adds(scope, scope', "excluded")
             \/ Adds(scope, scope', "excludedPaths")
             \/ Adds(scope, scope', "paths") /\ scope.paths = {}
             => InScopeOf(scope') \subseteq InScopeOf(scope)
          /\ \/ Adds(scope, scope', "allowed")
             \/ Adds(scope, scope', "paths") /\ scope.paths # {}
             => InScopeOf(scope) \subseteq InScopeOf(scope')]_fvars
  BY Narrows, Widens DEF ScopeShape
<1> QED BY <1>1, <1>2, NextScopeShape, PTL DEF FSpec, EditsGoOneWay

\* A target that names the file it came from is what the file made of it.
Imported ==
    file # NoFile =>
        \E root \in DiscoverRootDomains(file.entries) :
            scope = [stored |-> TRUE, active |-> TRUE, root |-> root,
                     allowed |-> {Exact(d) : d \in DiscoverRootDomains(file.entries)},
                     rules |-> IF pg THEN {} ELSE {CanonicalRule(e) : e \in file.entries},
                     excluded |-> {}, excludedPaths |-> {}, paths |-> {}]

\* The empty path is before every path a query can have.
LEMMA RootPathIsPrefix ==
    ASSUME NEW q \in Queries
    PROVE  IsPrefix(<<>>, q.path)
<1>1. PICK S : q.path \in Seq(S)
  <2>1. q.path = <<>> \/ q.path \in Paths
    BY DEF Queries
  <2>2. CASE q.path = <<>>
    <3>1. <<>> \in Seq({})
      OBVIOUS
    <3> QED BY <2>2, <3>1
  <2>3. CASE q.path \in Paths
    <3> DEFINE letters == {q.path[i] : i \in DOMAIN q.path}
    <3>1. q.path \in Seq(letters)
      BY <2>3, ScopeAssumption
    <3> HIDE DEF letters
    <3> QED BY <3>1
  <2> QED BY <2>1, <2>2, <2>3
<1>2. Len(<<>>) = 0 /\ Len(q.path) \in Nat
  BY <1>1
<1>3. SubSeq(<<>>, 1, 0) = <<>> /\ SubSeq(q.path, 1, 0) = <<>>
  BY <1>1
<1> QED BY <1>2, <1>3 DEF IsPrefix

\* What a file made of a target answers as the file says.
LEMMA ImportedFollowsFile == Imported => ScopeFollowsFile
<1> SUFFICES ASSUME Imported, file # NoFile, NEW q \in InScopeOf(scope)
             PROVE  /\ \E e \in file.entries :
                         \/ e.include /\ Asks(q) = RegistrableDomain(e.base)
                         \/ ~pg /\ Includes(e, Asks(q))
                    /\ ~pg => \A e \in file.entries : ~Excludes(e, Asks(q))
  BY DEF ScopeFollowsFile
<1> DEFINE roots == DiscoverRootDomains(file.entries)
<1>1. q \in Queries /\ Evaluate(scope, q)
  BY DEF InScopeOf
<1>2. /\ scope.root \in roots /\ scope.allowed = {Exact(d) : d \in roots}
      /\ scope.rules = IF pg THEN {} ELSE {CanonicalRule(e) : e \in file.entries}
  BY DEF Imported
<1>3. ASSUME NEW e \in file.entries
      PROVE  /\ ~pg => CanonicalRule(e) \in scope.rules
             /\ CanonicalRule(e).include = e.include
             /\ CanonicalRule(e).enabled = (e.asset \/ e.enabled)
             /\ HostMatches(CanonicalRule(e), Asks(q)) = HostMatches(e, Asks(q))
  BY <1>2 DEF CanonicalRule, HostMatches
<1>4. \E e \in file.entries :
         \/ e.include /\ Asks(q) = RegistrableDomain(e.base)
         \/ ~pg /\ Includes(e, Asks(q))
  <2>1. HostAuthorized(scope, q)
    BY <1>1 DEF Evaluate
  <2>2. CASE \E p \in scope.allowed \cup {Exact(scope.root)} : MatchesPattern(Asks(q), p)
    <3>1. PICK d \in roots : MatchesPattern(Asks(q), Exact(d))
      BY <1>2, <2>2
    <3>2. Asks(q) = d
      BY <3>1 DEF MatchesPattern, Exact
    <3> QED BY <3>2 DEF DiscoverRootDomains
  <2>3. CASE \E r \in scope.rules : r.include /\ r.enabled /\ MatchAdvancedRule(r, Asks(q), q)
    <3>0. ~pg
      BY <1>2, <2>3
    <3>1. PICK e \in file.entries :
            /\ CanonicalRule(e).include /\ CanonicalRule(e).enabled
            /\ MatchAdvancedRule(CanonicalRule(e), Asks(q), q)
      BY <1>2, <2>3, <3>0
    <3>2. HostMatches(CanonicalRule(e), Asks(q))
      BY <3>1 DEF MatchAdvancedRule
    <3> QED BY <1>3, <3>0, <3>1, <3>2 DEF Includes
  <2> QED BY <2>1, <2>2, <2>3 DEF HostAuthorized
<1>5. ASSUME ~pg, NEW e \in file.entries, Excludes(e, Asks(q))
      PROVE  FALSE
  <2> USE DEF Excludes
  <2>1. CanonicalRule(e).proto = "any" /\ CanonicalRule(e).path = <<>>
    BY <1>5 DEF CanonicalRule
  <2>2. MatchAdvancedRule(CanonicalRule(e), Asks(q), q)
    BY <1>1, <1>3, <1>5, <2>1, RootPathIsPrefix DEF MatchAdvancedRule
  <2>3. CanonicalRule(e).enabled /\ ~CanonicalRule(e).include
    BY <1>3, <1>5
  <2>4. IsExcluded(scope, q)
    BY <1>3, <1>5, <2>2, <2>3 DEF IsExcluded
  <2> QED BY <1>1, <2>4 DEF Evaluate
<1> QED BY <1>4, <1>5

\* A target as its scope file made it answers yes for no host the file does
\* not include and, in memory, for none it excludes, whatever the file lists;
\* under PostgreSQL, which drops the rules, it does for the roots only.
THEOREM ScopeAlwaysFollowsFile == FSpec => []ScopeFollowsFile
<1>1. FInit => Imported
  BY DEF FInit, Imported
<1>2. Imported /\ [FNext]_fvars => Imported'
  <2> SUFFICES ASSUME Imported, [FNext]_fvars PROVE Imported'
    OBVIOUS
  <2>1. ASSUME NEW entries, NEW root, ImportTarget(entries, root) PROVE Imported'
    <3>1. file'.entries = entries /\ root \in DiscoverRootDomains(entries)
      BY <2>1 DEF ImportTarget
    <3>2. DiscoverRootDomains(file.entries)' = DiscoverRootDomains(entries)
      BY <3>1 DEF DiscoverRootDomains
    <3>3. {CanonicalRule(e) : e \in file'.entries} = {CanonicalRule(e) : e \in entries}
      BY <3>1
    <3> QED BY <2>1, <3>1, <3>2, <3>3 DEF ImportTarget, StoredRules, Imported
  <2>2. ASSUME NEW root, NEW allowed, CreateTarget(root, allowed) PROVE Imported'
    <3>1. file = NoFile
      BY <2>2 DEF CreateTarget, Imported, NoScope
    <3> QED BY <2>2, <3>1 DEF CreateTarget, Imported
  <2>3. ASSUME NEW changed, UpdateTarget(changed) PROVE Imported'
    BY <2>3 DEF UpdateTarget, Imported
  <2>4. CASE UNCHANGED fvars
    BY <2>4 DEF fvars, Imported, DiscoverRootDomains
  <2> QED BY <2>1, <2>2, <2>3, <2>4 DEF FNext
<1> QED BY <1>1, <1>2, ImportedFollowsFile, PTL DEF FSpec

-----------------------------------------------------------------------------
\* What an import stores is typed.
LEMMA ImportTyped ==
    ASSUME NEW entries \in SUBSET Entries, NEW root \in RootDomains, FTypeOK,
           ImportTarget(entries, root)
    PROVE  FTypeOK'
<1>1. \A e \in entries : ~TooBroad(e)
  BY DEF ImportTarget, SanitizeScopeFile
<1>2. DiscoverRootDomains(entries) \subseteq RootDomains
  BY <1>1 DEF DiscoverRootDomains, RootDomains
<1>3. {Exact(d) : d \in DiscoverRootDomains(entries)} \subseteq {Exact(d) : d \in RootDomains}
  BY <1>2
<1>4. {CanonicalRule(e) : e \in entries} \subseteq {CanonicalRule(e) : e \in Entries}
  OBVIOUS
<1>5. UNCHANGED pg /\ file'.entries = entries
  BY DEF ImportTarget
<1>6. /\ scope'.active \in BOOLEAN /\ scope'.root = root
      /\ scope'.allowed = {Exact(d) : d \in DiscoverRootDomains(entries)}
      /\ scope'.rules \subseteq {CanonicalRule(e) : e \in entries}
      /\ scope'.excluded = {} /\ scope'.excludedPaths = {} /\ scope'.paths = {}
  BY DEF ImportTarget, StoredRules
<1> QED BY <1>3, <1>4, <1>5, <1>6 DEF FTypeOK

\* What a request creates is typed.
LEMMA CreateTyped ==
    ASSUME NEW root \in RootDomains, NEW allowed \in SUBSET Patterns, FTypeOK,
           CreateTarget(root, allowed)
    PROVE  FTypeOK'
<1>1. /\ scope'.active \in BOOLEAN /\ scope'.root = root /\ scope'.allowed = allowed
      /\ scope'.rules = {} /\ scope'.excluded = {} /\ scope'.excludedPaths = {}
      /\ scope'.paths = {} /\ UNCHANGED <<pg, file>>
  BY DEF CreateTarget
<1> QED BY <1>1 DEF FTypeOK

\* What an edit makes of a typed scope is typed.
LEMMA EditTyped ==
    ASSUME FTypeOK, ScopeShape, scope # NoScope,
           NEW field \in {"active", "allowed", "excluded", "excludedPaths", "paths"}, NEW x,
           field = "active" => x \in BOOLEAN,
           field = "allowed" => x \subseteq scope.allowed \cup Patterns,
           field = "excluded" => x \subseteq scope.excluded \cup Patterns,
           field = "excludedPaths" => x \subseteq scope.excludedPaths \cup Paths,
           field = "paths" => x \subseteq scope.paths \cup Paths,
           UpdateTarget([scope EXCEPT ![field] = x])
    PROVE  FTypeOK'
<1>1. scope' = [scope EXCEPT ![field] = x] /\ file' = NoFile /\ UNCHANGED pg
  BY DEF UpdateTarget
<1>2. \A f \in Fields : scope'[f] = IF f = field THEN x ELSE scope[f]
  BY <1>1 DEF ScopeShape, IsScope
<1>3. /\ scope'.active = (IF "active" = field THEN x ELSE scope.active)
      /\ scope'.root = scope.root
      /\ scope'.allowed = (IF "allowed" = field THEN x ELSE scope.allowed)
      /\ scope'.rules = scope.rules
      /\ scope'.excluded = (IF "excluded" = field THEN x ELSE scope.excluded)
      /\ scope'.excludedPaths = (IF "excludedPaths" = field THEN x ELSE scope.excludedPaths)
      /\ scope'.paths = (IF "paths" = field THEN x ELSE scope.paths)
  BY <1>2 DEF Fields
<1>4. file'.entries = {}
  BY <1>1 DEF NoFile
<1> QED BY <1>1, <1>3, <1>4 DEF FTypeOK

\* No step stores what the file, the request or the pattern does not name.
LEMMA NextFTyped == FTypeOK /\ ScopeShape /\ [FNext]_fvars => FTypeOK'
<1> SUFFICES ASSUME FTypeOK, ScopeShape, [FNext]_fvars PROVE FTypeOK'
  OBVIOUS
<1>1. \A h \in Names : RegistrableDomain(h) \in RootDomains
  BY DEF RootDomains
<1>2. ASSUME NEW n \in 1 .. MaxEntries, NEW entries \in kSubset(n, Entries), NEW h \in Names,
             ImportTarget(entries, RegistrableDomain(h))
      PROVE  FTypeOK'
  <2>1. entries \in SUBSET Entries
    BY DEF kSubset
  <2> QED BY <1>1, <1>2, <2>1, ImportTyped
<1>3. ASSUME NEW h \in Names, NEW p \in Patterns, CreateTarget(RegistrableDomain(h), {p})
      PROVE  FTypeOK'
  BY <1>1, <1>3, CreateTyped
<1>4. ASSUME scope # NoScope, NEW p \in Patterns,
             \/ UpdateTarget([scope EXCEPT !.allowed = @ \cup {p}])
             \/ UpdateTarget([scope EXCEPT !.allowed = @ \ {p}])
      PROVE  FTypeOK'
  BY <1>4, EditTyped
<1>5. ASSUME scope # NoScope, NEW p \in Patterns,
             \/ UpdateTarget([scope EXCEPT !.excluded = @ \cup {p}])
             \/ UpdateTarget([scope EXCEPT !.excluded = @ \ {p}])
      PROVE  FTypeOK'
  BY <1>5, EditTyped
<1>6. ASSUME scope # NoScope, NEW p \in Paths,
             UpdateTarget([scope EXCEPT !.excludedPaths = @ \cup {p}])
      PROVE  FTypeOK'
  BY <1>6, EditTyped
<1>7. ASSUME scope # NoScope, NEW p \in Paths,
             \/ UpdateTarget([scope EXCEPT !.paths = @ \cup {p}])
             \/ UpdateTarget([scope EXCEPT !.paths = @ \ {p}])
      PROVE  FTypeOK'
  BY <1>7, EditTyped
<1>8. ASSUME scope # NoScope, UpdateTarget([scope EXCEPT !.active = ~@]) PROVE FTypeOK'
  <2>1. (~scope.active) \in BOOLEAN
    OBVIOUS
  <2> QED BY <1>8, <2>1, EditTyped
<1>9. CASE UNCHANGED fvars
  BY <1>9 DEF fvars, FTypeOK
<1> QED BY <1>2, <1>3, <1>4, <1>5, <1>6, <1>7, <1>8, <1>9 DEF FNext

\* The row of a target and the file it names are well typed, for any names,
\* paths, entries and patterns.
THEOREM ScopesTyped == FSpec => []FTypeOK
<1>1. FInit => FTypeOK /\ ScopeShape
  BY DEF FInit, StorageInit, FTypeOK, ScopeShape, NoFile
<1> QED BY <1>1, NextFTyped, NextScopeShape, PTL DEF FSpec

-----------------------------------------------------------------------------
(* The run. *)

\* What the tables are defined for, and that a worker with an item has one.
Shape ==
    /\ DOMAIN worker = Stages \X Workers /\ DOMAIN queue = Stages /\ DOMAIN items = Stages
    /\ \A w \in Stages \X Workers :
          worker[w].at \notin {"off", "free"} => {"at", "item"} \subseteq DOMAIN worker[w]

\* The deduplicator knows exactly what was reported.
Counted ==
    /\ DOMAIN told = URLs
    /\ \A u \in URLs : told[u] = IF u \in seen THEN 1 ELSE 0

\* Unless the run is cancelled, what a stage was given is handled, queued or
\* with a worker.
NothingLost ==
    ~cancelled => \A s \in Stages : \A i \in items[s] :
                     <<s, i>> \in handled \/ i \in queue[s] \/ Holds(s, i)

\* Unless the run is cancelled, a worker leaves an empty channel only.
LeftEmpty ==
    ~cancelled => \A s \in Stages, x \in Workers : worker[<<s, x>>] = Off => queue[s] = {}

\* Only the pool of the current stage has workers.
OnePool == \A s \in Stages, x \in Workers : s # stage => worker[<<s, x>>] = Off

\* A run is COMPLETED at its end, and not when it was cancelled.
Verdict == verdict = "COMPLETED" => stage = "done" /\ ~cancelled

SStrong == Shape /\ NothingLost /\ LeftEmpty /\ OnePool /\ Verdict

rest == <<stage, cancelled, verdict>>

-----------------------------------------------------------------------------
\* A URL that is new is reported once.
LEMMA ReportCounts ==
    ASSUME Counted, NEW u \in URLs, CheckAndAddURL(u), Report(u) PROVE Counted'
  BY DEF Counted, CheckAndAddURL, Report

\* No step reports what the deduplicator knows, or lets it forget.
LEMMA NextCounted == Counted /\ [SNext]_<<pg, svars>> => Counted'
<1> SUFFICES ASSUME Counted, [SNext]_<<pg, svars>> PROVE Counted'
  OBVIOUS
<1>1. ASSUME UNCHANGED <<seen, told>> PROVE Counted'
  BY <1>1 DEF Counted
<1>2. ASSUME NEW found \in SUBSET Hosts, Discover(found) PROVE Counted'
  BY <1>1, <1>2 DEF Discover
<1>3. CASE Advance \/ Tick \/ Cancel
  BY <1>1, <1>3 DEF Advance, Tick, Cancel, results
<1>4. ASSUME NEW w \in Stages \X Workers, Work(w) PROVE Counted'
  <2>1. CASE Take(w) \/ Leave(w) \/ TakeToken(w) \/ ResolveHost(w) \/ ProbeHost(w)
    BY <1>1, <2>1 DEF Take, Leave, TakeToken, ResolveHost, ProbeHost, results
  <2>2. CASE MarkResolved(w) \/ MarkLive(w) \/ FetchLinks(w) \/ CrawlReturns(w)
    BY <1>1, <2>2 DEF MarkResolved, MarkLive, FetchLinks, CrawlReturns, results
  <2>3. ASSUME NEW u \in URLs, ReportListed(w, u) PROVE Counted'
    BY <1>1, <2>3, ReportCounts DEF ReportListed
  <2>4. CASE CrawlNext(w)
    BY <1>1, <2>4, ReportCounts, StagesAssumption DEF CrawlNext
  <2> QED BY <1>4, <2>1, <2>2, <2>3, <2>4 DEF Work
<1>5. CASE UNCHANGED <<pg, svars>>
  BY <1>1, <1>5 DEF svars
<1> QED BY <1>2, <1>3, <1>4, <1>5 DEF SNext, SStep

-----------------------------------------------------------------------------
\* The invariant holds when a run begins.
LEMMA InitSStrong == SInit => SStrong /\ Counted
<1> SUFFICES ASSUME SInit PROVE SStrong /\ Counted
  OBVIOUS
<1>1. \A w \in Stages \X Workers : worker[w] = Off
  BY DEF SInit
<1>2. \A s \in Stages, x \in Workers : worker[<<s, x>>] = Off
  BY <1>1
<1>3. Shape
  BY <1>1 DEF SInit, Shape, Off
<1>4. NothingLost /\ LeftEmpty
  BY DEF SInit, NothingLost, LeftEmpty
<1>5. OnePool /\ Verdict
  BY <1>2 DEF SInit, OnePool, Verdict
<1>6. Counted
  BY DEF SInit, Counted
<1> QED BY <1>3, <1>4, <1>5, <1>6 DEF SStrong

\* Starting a stage when no pool works keeps the invariant.
LEMMA StartSStrong ==
    ASSUME SStrong, NEW s \in Stages, NEW given, Start(s, given), ~cancelled,
           \A t \in Stages, x \in Workers : worker[<<t, x>>] = Off,
           UNCHANGED <<cancelled, verdict, handled>>, verdict # "COMPLETED"
    PROVE  SStrong'
<1>1. CASE ~(s \in opts /\ given # {})
  <2>1. stage' = s /\ UNCHANGED <<worker, queue, items>>
    BY <1>1 DEF Start
  <2>2. Shape' /\ NothingLost' /\ LeftEmpty'
    BY <2>1 DEF SStrong, Shape, NothingLost, LeftEmpty, Holds
  <2>3. OnePool' /\ Verdict'
    BY <2>1 DEF OnePool, Verdict
  <2> QED BY <2>2, <2>3 DEF SStrong
<1>2. CASE s \in opts /\ given # {}
  <2>1. /\ stage' = s
        /\ queue' = [queue EXCEPT ![s] = given] /\ items' = [items EXCEPT ![s] = given]
        /\ worker' = [w \in DOMAIN worker |-> IF w[1] = s THEN Free ELSE worker[w]]
    BY <1>2 DEF Start
  <2>2. \A t \in Stages, x \in Workers : worker'[<<t, x>>] = IF t = s THEN Free ELSE Off
    BY <2>1 DEF SStrong, Shape
  <2>3. \A t \in Stages : /\ queue'[t] = IF t = s THEN given ELSE queue[t]
                          /\ items'[t] = IF t = s THEN given ELSE items[t]
    BY <2>1 DEF SStrong, Shape
  <2>4. Free # Off /\ Free.at = "free" /\ Off.at = "off"
    BY DEF Free, Off
  <2>5. Shape'
    <3>1. /\ DOMAIN worker' = Stages \X Workers /\ DOMAIN queue' = Stages
          /\ DOMAIN items' = Stages
      BY <2>1 DEF SStrong, Shape
    <3>2. \A w \in Stages \X Workers : worker'[w] \in {Free, Off}
      BY <2>2
    <3> QED BY <2>4, <3>1, <3>2 DEF Shape
  <2>6. NothingLost'
    <3>1. \A t \in Stages : \A i : ~Holds(t, i)
      BY <2>4 DEF Holds
    <3>2. \A t \in Stages : \A i \in items[t] : <<t, i>> \in handled \/ i \in queue[t]
      BY <3>1 DEF SStrong, NothingLost
    <3>3. \A t \in Stages : \A i \in items'[t] : <<t, i>> \in handled \/ i \in queue'[t]
      BY <2>3, <3>2
    <3> QED BY <3>3 DEF NothingLost
  <2>7. LeftEmpty'
    BY <2>2, <2>3, <2>4 DEF SStrong, LeftEmpty
  <2>8. OnePool' /\ Verdict'
    BY <2>1, <2>2 DEF OnePool, Verdict
  <2> QED BY <2>5, <2>6, <2>7, <2>8 DEF SStrong
<1> QED BY <1>1, <1>2

\* A worker that keeps its item keeps the invariant.
LEMMA KeepsItem ==
    ASSUME SStrong, NEW w \in Stages \X Workers, NEW new, Becomes(w, new),
           worker[w].at \notin {"off", "free"}, new.at \notin {"off", "free"},
           {"at", "item"} \subseteq DOMAIN new, new.item = worker[w].item,
           UNCHANGED <<rest, queue, items, handled>>
    PROVE  SStrong'
<1>1. PICK s \in Stages, x \in Workers : w = <<s, x>>
  OBVIOUS
<1>2. \A t \in Stages, y \in Workers :
         worker'[<<t, y>>] = IF t = s /\ y = x THEN new ELSE worker[<<t, y>>]
  BY <1>1 DEF Becomes, SStrong, Shape
<1>3. Shape'
  BY DEF Becomes, SStrong, Shape
<1>4. ASSUME NEW t \in Stages, NEW i, Holds(t, i) PROVE Holds(t, i)'
  BY <1>1, <1>2, <1>4 DEF Holds
<1>5. NothingLost'
  BY <1>4 DEF SStrong, NothingLost, rest
<1>6. worker[<<s, x>>] # Off /\ new # Off
  BY <1>1 DEF Off
<1>7. LeftEmpty' /\ OnePool' /\ Verdict'
  BY <1>1, <1>2, <1>6 DEF SStrong, LeftEmpty, OnePool, Verdict, rest
<1> QED BY <1>3, <1>5, <1>7 DEF SStrong

\* A worker whose handler returns keeps the invariant.
LEMMA ReturnsItem ==
    ASSUME SStrong, NEW w \in Stages \X Workers, Returns(w),
           worker[w].at \notin {"off", "free"}, UNCHANGED <<rest, queue, items>>
    PROVE  SStrong'
<1>1. PICK s \in Stages, x \in Workers : w = <<s, x>>
  OBVIOUS
<1>2. /\ worker' = [worker EXCEPT ![w] = Free]
      /\ handled' = handled \cup {<<s, worker[w].item>>}
  BY <1>1 DEF Returns, Becomes
<1>3. \A t \in Stages, y \in Workers :
         worker'[<<t, y>>] = IF t = s /\ y = x THEN Free ELSE worker[<<t, y>>]
  BY <1>1, <1>2 DEF SStrong, Shape
<1>4. Free # Off /\ Free.at = "free" /\ worker[<<s, x>>] # Off
  BY <1>1 DEF Free, Off
<1>5. Shape'
  BY <1>2, <1>4 DEF SStrong, Shape
<1>6. ASSUME NEW t \in Stages, NEW i, Holds(t, i) PROVE Holds(t, i)' \/ <<t, i>> \in handled'
  BY <1>1, <1>2, <1>3, <1>6 DEF Holds
<1>7. NothingLost'
  BY <1>2, <1>6 DEF SStrong, NothingLost, rest
<1>8. LeftEmpty' /\ OnePool' /\ Verdict'
  BY <1>1, <1>3, <1>4 DEF SStrong, LeftEmpty, OnePool, Verdict, rest
<1> QED BY <1>5, <1>7, <1>8 DEF SStrong

\* A worker that takes an item from the channel keeps the invariant.
LEMMA TakesItem == ASSUME SStrong, NEW w \in Stages \X Workers, Take(w) PROVE SStrong'
<1>1. PICK s \in Stages, x \in Workers : w = <<s, x>>
  OBVIOUS
<1>2. PICK i \in queue[s] : /\ queue' = [queue EXCEPT ![s] = @ \ {i}]
                            /\ worker' = [worker EXCEPT ![w] = [at |-> "wait", item |-> i]]
  BY <1>1 DEF Take, Becomes
<1>3. worker[<<s, x>>] = Free /\ UNCHANGED <<rest, items, handled>>
  BY <1>1 DEF Take, rest
<1> DEFINE new == [at |-> "wait", item |-> i]
<1>4. \A t \in Stages, y \in Workers :
         worker'[<<t, y>>] = IF t = s /\ y = x THEN new ELSE worker[<<t, y>>]
  BY <1>1, <1>2 DEF SStrong, Shape
<1>5. \A t \in Stages : queue'[t] = IF t = s THEN queue[s] \ {i} ELSE queue[t]
  BY <1>2 DEF SStrong, Shape
<1>6. /\ Free.at = "free" /\ new.at = "wait" /\ new.item = i /\ new # Off /\ Free # Off
      /\ {"at", "item"} \subseteq DOMAIN new
  BY DEF Free, Off
<1>7. Shape'
  BY <1>2, <1>3, <1>6 DEF SStrong, Shape
<1>8. ASSUME NEW t \in Stages, NEW j, Holds(t, j) PROVE Holds(t, j)'
  BY <1>3, <1>4, <1>6, <1>8 DEF Holds
<1>9. Holds(s, i)'
  BY <1>4, <1>6 DEF Holds
<1>10. NothingLost'
  BY <1>3, <1>5, <1>8, <1>9 DEF SStrong, NothingLost, rest
<1>11. LeftEmpty'
  BY <1>3, <1>4, <1>5, <1>6 DEF SStrong, LeftEmpty, rest
<1>12. OnePool' /\ Verdict'
  BY <1>3, <1>4, <1>6 DEF SStrong, OnePool, Verdict, rest
<1> QED BY <1>7, <1>10, <1>11, <1>12 DEF SStrong

\* A worker that leaves keeps the invariant: with an item only when the run
\* is cancelled.
LEMMA LeavesPool == ASSUME SStrong, NEW w \in Stages \X Workers, Leave(w) PROVE SStrong'
<1>1. PICK s \in Stages, x \in Workers : w = <<s, x>>
  OBVIOUS
<1>2. worker' = [worker EXCEPT ![w] = Off] /\ UNCHANGED <<rest, queue, items, handled>>
  BY DEF Leave, Becomes, pool, rest
<1>3. cancelled \/ (worker[<<s, x>>] = Free /\ queue[s] = {})
  BY <1>1 DEF Leave, NothingToTake
<1>4. \A t \in Stages, y \in Workers :
         worker'[<<t, y>>] = IF t = s /\ y = x THEN Off ELSE worker[<<t, y>>]
  BY <1>1, <1>2 DEF SStrong, Shape
<1>5. Free.at = "free" /\ Off.at = "off"
  BY DEF Free, Off
<1>6. Shape'
  BY <1>2, <1>5 DEF SStrong, Shape
<1>7. NothingLost'
  <2>1. ASSUME ~cancelled, NEW t \in Stages, NEW i, Holds(t, i) PROVE Holds(t, i)'
    BY <1>3, <1>4, <1>5, <2>1 DEF Holds
  <2> QED BY <1>2, <2>1 DEF SStrong, NothingLost, rest
<1>8. LeftEmpty' /\ OnePool' /\ Verdict'
  BY <1>2, <1>3, <1>4 DEF SStrong, LeftEmpty, OnePool, Verdict, rest
<1> QED BY <1>6, <1>7, <1>8 DEF SStrong

\* Steps that touch neither the pools nor the verdict keep the invariant, a
\* cancellation of a run that goes on as well.
LEMMA ApartFromPools ==
    ASSUME SStrong, UNCHANGED <<stage, worker, queue, items, handled, verdict>>,
           cancelled' = cancelled \/ (cancelled' /\ stage # "done")
    PROVE  SStrong'
  BY DEF SStrong, Shape, NothingLost, LeftEmpty, OnePool, Verdict, Holds

\* The invariant is preserved by what workers do.
LEMMA WorkSStrong == ASSUME SStrong, NEW w \in Stages \X Workers, Work(w) PROVE SStrong'
<1> USE DEF pool, rest, results
<1>1. worker[w].at \notin {"off", "free"} => {"at", "item"} \subseteq DOMAIN worker[w]
  BY DEF SStrong, Shape
<1>2. CASE Take(w) \/ Leave(w)
  BY <1>2, TakesItem, LeavesPool
<1>3. CASE TakeToken(w)
  <2> DEFINE new == IF w[1] = "crawl"
                  THEN [at |-> "crawl", item |-> worker[w].item, list |-> Listed[worker[w].item],
                        front |-> <<[url |-> worker[w].item, depth |-> 0]>>, count |-> 0]
                  ELSE [at |-> w[1], item |-> worker[w].item]
  <2>1. Becomes(w, new) /\ worker[w].at = "wait" /\ UNCHANGED <<rest, queue, items, handled>>
    BY <1>3 DEF TakeToken
  <2>2. new.at \in Stages /\ new.item = worker[w].item /\ {"at", "item"} \subseteq DOMAIN new
    BY DEF Stages
  <2>3. new.at \notin {"off", "free"}
    BY <2>2 DEF Stages
  <2> HIDE DEF new
  <2> QED BY <2>1, <2>2, <2>3, KeepsItem
<1>4. CASE ResolveHost(w) \/ ProbeHost(w)
  <2>1. worker[w].at \in {"dns", "http"} /\ UNCHANGED <<rest, queue, items>>
    BY <1>4 DEF ResolveHost, ProbeHost
  <2>2. CASE Returns(w)
    BY <2>1, <2>2, ReturnsItem
  <2>3. ASSUME NEW a \in {"resolved", "answered"}, Becomes(w, [worker[w] EXCEPT !.at = a]),
               UNCHANGED handled
        PROVE  SStrong'
    <3> DEFINE new == [worker[w] EXCEPT !.at = a]
    <3>1. new.at = a /\ new.item = worker[w].item /\ {"at", "item"} \subseteq DOMAIN new
      BY <1>1, <2>1
    <3>2. Becomes(w, new)
      BY <2>3
    <3> HIDE DEF new
    <3> QED BY <2>1, <2>3, <3>1, <3>2, KeepsItem
  <2> QED BY <1>4, <2>2, <2>3 DEF ResolveHost, ProbeHost
<1>5. CASE MarkResolved(w) \/ MarkLive(w) \/ CrawlReturns(w)
  <2>1. worker[w].at \in {"resolved", "answered", "crawl"} /\ UNCHANGED <<rest, queue, items>>
    BY <1>5 DEF MarkResolved, MarkLive, CrawlReturns
  <2>2. Returns(w)
    BY <1>5 DEF MarkResolved, MarkLive, CrawlReturns
  <2> QED BY <2>1, <2>2, ReturnsItem
<1>6. ASSUME worker[w].at \in {"crawl", "fetch"}, UNCHANGED <<rest, queue, items, handled>>,
             NEW new, Becomes(w, new), new.at \in {"crawl", "fetch"},
             new.item = worker[w].item, DOMAIN new = DOMAIN worker[w]
      PROVE  SStrong'
  BY <1>1, <1>6, KeepsItem
<1>7. ASSUME NEW u \in URLs, ReportListed(w, u) PROVE SStrong'
  <2> DEFINE new == [worker[w] EXCEPT !.list = @ \ {u}]
  <2>1. worker[w].at = "crawl" /\ Becomes(w, new) /\ UNCHANGED <<rest, queue, items, handled>>
    BY <1>7 DEF ReportListed
  <2>2. new.at = "crawl" /\ new.item = worker[w].item /\ DOMAIN new = DOMAIN worker[w]
    BY <1>1, <2>1
  <2> HIDE DEF new
  <2> QED BY <1>6, <2>1, <2>2
<1>8. CASE CrawlNext(w)
  <2>1. worker[w].at = "crawl" /\ UNCHANGED <<rest, queue, items, handled>>
    BY <1>8 DEF CrawlNext
  <2>2. PICK new : /\ Becomes(w, new)
                   /\ \/ new = [worker[w] EXCEPT !.at = "fetch", !.count = @ + 1]
                      \/ new = [worker[w] EXCEPT !.front = Tail(@), !.count = @ + 1]
                      \/ new = [worker[w] EXCEPT !.front = Tail(@)]
    BY <1>8 DEF CrawlNext
  <2>3. /\ new.at \in {"crawl", "fetch"} /\ new.item = worker[w].item
        /\ DOMAIN new = DOMAIN worker[w]
    BY <1>1, <2>1, <2>2
  <2> QED BY <1>6, <2>1, <2>2, <2>3
<1>9. CASE FetchLinks(w)
  <2>1. worker[w].at = "fetch" /\ UNCHANGED <<rest, queue, items, handled>>
    BY <1>9 DEF FetchLinks
  <2>2. PICK front : Becomes(w, [worker[w] EXCEPT !.at = "crawl", !.front = front])
    BY <1>9 DEF FetchLinks
  <2> DEFINE new == [worker[w] EXCEPT !.at = "crawl", !.front = front]
  <2>3. /\ new.at = "crawl" /\ new.item = worker[w].item /\ DOMAIN new = DOMAIN worker[w]
    BY <1>1, <2>1
  <2>4. Becomes(w, new)
    BY <2>2
  <2> HIDE DEF new
  <2> QED BY <1>6, <2>1, <2>3, <2>4
<1> QED BY <1>2, <1>3, <1>4, <1>5, <1>7, <1>8, <1>9 DEF Work

\* The invariant is inductive.
LEMMA NextSStrong == SStrong /\ [SNext]_<<pg, svars>> => SStrong'
<1> SUFFICES ASSUME SStrong, [SNext]_<<pg, svars>> PROVE SStrong'
  OBVIOUS
<1>1. ASSUME NEW as, EndRun(as), as = "COMPLETED" => ~cancelled,
             \A s \in Stages, x \in Workers : worker[<<s, x>>] = Off,
             UNCHANGED <<cancelled, handled>>
      PROVE  SStrong'
  <2>1. UNCHANGED <<items, queue, worker, cancelled, handled>> /\ stage' = "done" /\ verdict' = as
    BY <1>1 DEF EndRun
  <2>2. Shape' /\ LeftEmpty'
    BY <2>1 DEF SStrong, Shape, LeftEmpty
  <2>3. \A s \in Stages : \A i : Holds(s, i)' <=> Holds(s, i)
    BY <2>1 DEF Holds
  <2>4. NothingLost'
    BY <2>1, <2>3 DEF SStrong, NothingLost
  <2>5. OnePool'
    BY <1>1, <2>1 DEF OnePool
  <2>6. Verdict'
    BY <1>1, <2>1 DEF Verdict
  <2> QED BY <2>2, <2>4, <2>5, <2>6 DEF SStrong
<1>2. ASSUME NEW found \in SUBSET Hosts, Discover(found) PROVE SStrong'
  <2>1. \A s \in Stages, x \in Workers : worker[<<s, x>>] = Off
    BY <1>2 DEF Discover, SStrong, OnePool, Stages
  <2>2. CASE cancelled
    BY <1>1, <1>2, <2>1, <2>2 DEF Discover
  <2>3. CASE ~cancelled
    <3>1. /\ Start("dns", found) /\ verdict # "COMPLETED"
          /\ UNCHANGED <<cancelled, verdict, handled>>
      BY <1>2, <2>3 DEF Discover, SStrong, Verdict
    <3> QED BY <2>1, <2>3, <3>1, StartSStrong DEF Stages
  <2> QED BY <2>2, <2>3
<1>3. CASE Advance
  <2>1. \A s \in Stages, x \in Workers : worker[<<s, x>>] = Off
    BY <1>3 DEF Advance, PoolIsDone, SStrong, OnePool
  <2>2. /\ verdict # "COMPLETED" /\ UNCHANGED <<cancelled, handled>>
    BY <1>3 DEF Advance, SStrong, Verdict, Stages
  <2>3. CASE cancelled
    BY <1>1, <1>3, <2>1, <2>2, <2>3 DEF Advance
  <2>4. CASE ~cancelled /\ stage = "dns"
    <3>1. Start("http", resolved \X Schemes) /\ UNCHANGED verdict
      BY <1>3, <2>4 DEF Advance
    <3> QED BY <2>1, <2>2, <2>4, <3>1, StartSStrong DEF Stages
  <2>5. CASE ~cancelled /\ stage = "http"
    <3>1. Start("crawl", live) /\ UNCHANGED verdict
      BY <1>3, <2>5 DEF Advance
    <3> QED BY <2>1, <2>2, <2>5, <3>1, StartSStrong DEF Stages
  <2>6. CASE ~cancelled /\ stage = "crawl"
    BY <1>1, <1>3, <2>1, <2>2, <2>6 DEF Advance
  <2> QED BY <1>3, <2>3, <2>4, <2>5, <2>6 DEF Advance, Stages
<1>4. CASE Tick \/ Cancel
  BY <1>4, ApartFromPools DEF Tick, Cancel, pool
<1>5. ASSUME NEW w \in Stages \X Workers, Work(w) PROVE SStrong'
  BY <1>5, WorkSStrong
<1>6. CASE UNCHANGED <<pg, svars>>
  BY <1>6, ApartFromPools DEF svars
<1> QED BY <1>2, <1>3, <1>4, <1>5, <1>6 DEF SNext, SStep

\* A COMPLETED run has no worker left, so nothing is queued or held.
LEMMA SStrongIsComplete == SStrong => CompletedIsComplete
<1> SUFFICES ASSUME SStrong, verdict = "COMPLETED", NEW s \in Stages, NEW i \in items[s]
             PROVE  <<s, i>> \in handled
  BY DEF CompletedIsComplete
<1>1. ~cancelled /\ \A x \in Workers : worker[<<s, x>>] = Off
  BY DEF SStrong, Verdict, OnePool, Stages
<1>2. queue[s] = {}
  BY <1>1, StagesAssumption DEF SStrong, LeftEmpty
<1>3. ~Holds(s, i)
  <2>1. Off.at = "off"
    BY DEF Off
  <2> QED BY <1>1, <2>1 DEF Holds
<1> QED BY <1>1, <1>2, <1>3 DEF SStrong, NothingLost

-----------------------------------------------------------------------------
\* The two halves of the type invariant: the workers, and the tables.
WorkersOK == (\A w \in Stages \X Workers : worker[w] \in MayDo(w[1])) /\ FetchesInScope

TablesOK ==
    /\ opts \subseteq Stages /\ stage \in Stages \cup {"discover", "done"}
    /\ \A s \in Stages : queue[s] \subseteq items[s] /\ items[s] \subseteq ItemsOf(s)
    /\ tokens \in 0 .. Burst
    /\ status \in [Hosts -> {"none", "DISCOVERED", "RESOLVED", "LIVE"}]
    /\ resolved \subseteq Hosts /\ live \subseteq Seeds
    /\ seen \subseteq InScope /\ crawled \subseteq InScope
    /\ told \in [URLs -> 0 .. 2]
    /\ verdict \in {"RUNNING", "COMPLETED", "CANCELLED"}

LEMMA Halves == STypeOK <=> WorkersOK /\ TablesOK
  BY DEF STypeOK, WorkersOK, TablesOK

\* Where a worker is says which pool it is of and what it holds.
LEMMA Places ==
    ASSUME WorkersOK, NEW w \in Stages \X Workers
    PROVE  /\ w[1] \in Stages
           /\ worker[w].at = "wait" => worker[w].item \in ItemsOf(w[1])
           /\ worker[w].at \in {"dns", "resolved"} =>
                w[1] = "dns" /\ worker[w] \in [at : {"dns", "resolved"}, item : Hosts]
           /\ worker[w].at \in {"http", "answered"} =>
                w[1] = "http" /\ worker[w] \in [at : {"http", "answered"}, item : Seeds]
           /\ worker[w].at \in {"crawl", "fetch"} => w[1] = "crawl" /\ worker[w] \in Crawls
<1>1. w[1] \in Stages /\ worker[w] \in MayDo(w[1])
  BY DEF WorkersOK
<1>2. \/ worker[w] \in {Off, Free} \cup [at : {"wait"}, item : ItemsOf(w[1])]
      \/ w[1] = "dns" /\ worker[w] \in [at : {"dns", "resolved"}, item : Hosts]
      \/ w[1] = "http" /\ worker[w] \in [at : {"http", "answered"}, item : Seeds]
      \/ w[1] = "crawl" /\ worker[w] \in Crawls
  BY <1>1 DEF MayDo, Stages
<1>3. ASSUME worker[w] \in Crawls PROVE worker[w].at \in {"crawl", "fetch"}
  BY <1>3 DEF Crawls
<1> QED BY <1>1, <1>2, <1>3 DEF Off, Free

\* The workers stay typed when one of them does what it may.
LEMMA OneBecomes ==
    ASSUME WorkersOK, Shape, NEW w \in Stages \X Workers, NEW new \in MayDo(w[1]),
           Becomes(w, new), seen \subseteq seen',
           new.at = "fetch" => /\ new.front # <<>>
                               /\ Head(new.front).url \in InScope \cap seen'
                               /\ Head(new.front).depth < MaxDepth
    PROVE  WorkersOK'
<1>1. \A v \in Stages \X Workers : worker'[v] = IF v = w THEN new ELSE worker[v]
  BY DEF Becomes, Shape
<1>2. \A v \in Stages \X Workers : worker'[v] \in MayDo(v[1])
  BY <1>1 DEF WorkersOK
<1>3. FetchesInScope'
  BY <1>1 DEF WorkersOK, FetchesInScope
<1>4. (\A v \in Stages \X Workers : worker[v] \in MayDo(v[1]))'
  BY <1>2 DEF MayDo, ItemsOf, Crawls
<1> QED BY <1>3, <1>4 DEF WorkersOK

\* Leaving and returning are things any worker may do.
LEMMA MayStop == \A s \in Stages : Off \in MayDo(s) /\ Free \in MayDo(s)
  BY DEF MayDo

LEMMA StopsTyped ==
    ASSUME WorkersOK, Shape, NEW w \in Stages \X Workers, NEW new \in {Off, Free},
           Becomes(w, new), seen \subseteq seen'
    PROVE  WorkersOK'
<1>1. w[1] \in Stages /\ new.at # "fetch"
  BY DEF Off, Free
<1> QED BY <1>1, MayStop, OneBecomes

\* A host's status stays one of the four.
LEMMA StatusTyped ==
    ASSUME TablesOK, NEW h \in Hosts, NEW new \in {"RESOLVED", "LIVE"}, SetStatus(h, new)
    PROVE  status' \in [Hosts -> {"none", "DISCOVERED", "RESOLVED", "LIVE"}]
  BY DEF TablesOK, SetStatus

\* Reporting keeps the tables typed.
LEMMA ReportTyped ==
    ASSUME TablesOK, NEW u \in URLs, u \in InScope, CheckAndAddURL(u), Report(u)
    PROVE  /\ seen' \subseteq InScope /\ u \in seen' /\ seen \subseteq seen'
           /\ told' \in [URLs -> 0 .. 2]
<1>1. told[u] \in 0 .. 2
  BY DEF TablesOK
<1>2. (IF told[u] < 2 THEN told[u] + 1 ELSE told[u]) \in 0 .. 2
  BY <1>1
<1>3. told' \in [URLs -> 0 .. 2]
  BY <1>2 DEF Report, TablesOK
<1> QED BY <1>3 DEF TablesOK, CheckAndAddURL

\* What a worker of the first two stages does keeps the state typed.
LEMMA PoolWorkTyped ==
    ASSUME WorkersOK, TablesOK, Shape, NEW w \in Stages \X Workers,
           \/ Take(w) \/ Leave(w) \/ TakeToken(w)
           \/ ResolveHost(w) \/ MarkResolved(w) \/ ProbeHost(w) \/ MarkLive(w)
    PROVE  WorkersOK' /\ TablesOK'
<1> USE DEF pool, results
<1>0. w[1] \in Stages
  OBVIOUS
<1>1. CASE Take(w)
  <2>1. PICK i \in queue[w[1]] : /\ queue' = [queue EXCEPT ![w[1]] = @ \ {i}]
                                 /\ Becomes(w, [at |-> "wait", item |-> i])
    BY <1>1 DEF Take
  <2>2. /\ UNCHANGED <<stage, items, opts, tokens, status, resolved, live, seen, told, crawled,
                       verdict>>
    BY <1>1 DEF Take
  <2> DEFINE new == [at |-> "wait", item |-> i]
  <2>3. i \in ItemsOf(w[1])
    BY <1>0, <2>1 DEF TablesOK
  <2>4. new \in MayDo(w[1]) /\ new.at # "fetch"
    BY <2>3 DEF MayDo
  <2>5. WorkersOK'
    <3> HIDE DEF new
    <3>1. Becomes(w, new)
      BY <2>1 DEF new
    <3> QED BY <2>2, <2>4, <3>1, OneBecomes
  <2>6. \A s \in Stages : queue'[s] \subseteq queue[s]
    BY <2>1 DEF Shape
  <2>7. TablesOK'
    BY <2>2, <2>6 DEF TablesOK, ItemsOf
  <2> QED BY <2>5, <2>7
<1>2. CASE Leave(w)
  <2>1. WorkersOK'
    BY <1>2, StopsTyped DEF Leave
  <2>2. TablesOK'
    BY <1>2 DEF Leave, TablesOK, ItemsOf
  <2> QED BY <2>1, <2>2
<1>3. CASE TakeToken(w)
  <2> DEFINE seed == worker[w].item
             crawl == [at |-> "crawl", item |-> seed, list |-> Listed[seed],
                       front |-> <<[url |-> seed, depth |-> 0]>>, count |-> 0]
             probe == [at |-> w[1], item |-> seed]
             new == IF w[1] = "crawl" THEN crawl ELSE probe
  <2>1. Becomes(w, new) /\ tokens > 0 /\ tokens' = tokens - 1 /\ worker[w].at = "wait"
    BY <1>3 DEF TakeToken
  <2>2. /\ UNCHANGED <<stage, items, queue, opts, status, resolved, live, seen, told, crawled,
                       verdict>>
    BY <1>3 DEF TakeToken
  <2>3. seed \in ItemsOf(w[1])
    BY <2>1, Places
  <2>4. ASSUME w[1] = "crawl" PROVE new \in MayDo(w[1]) /\ new.at # "fetch"
    <3>1. seed \in Seeds /\ seed \in URLs
      BY <2>3, <2>4 DEF ItemsOf, URLs
    <3>2. Listed[seed] \in SUBSET URLs
      BY <3>1, StagesAssumption
    <3>3. 0 \in 0 .. MaxDepth /\ 0 \in 0 .. MaxURLsPerHost
      BY StagesAssumption
    <3>4. crawl.front \in Seq([url : URLs, depth : 0 .. MaxDepth])
      BY <3>1, <3>3
    <3>5. crawl \in Crawls
      BY <3>1, <3>2, <3>3, <3>4 DEF Crawls
    <3> QED BY <2>4, <3>5 DEF MayDo
  <2>5. ASSUME w[1] = "dns" PROVE new \in MayDo(w[1]) /\ new.at # "fetch"
    BY <2>3, <2>5 DEF MayDo, ItemsOf
  <2>6. ASSUME w[1] = "http" PROVE new \in MayDo(w[1]) /\ new.at # "fetch"
    BY <2>3, <2>6 DEF MayDo, ItemsOf
  <2>7. new \in MayDo(w[1]) /\ new.at # "fetch"
    BY <1>0, <2>4, <2>5, <2>6 DEF Stages
  <2>8. WorkersOK'
    <3> HIDE DEF new
    <3> QED BY <2>1, <2>2, <2>7, OneBecomes
  <2>9. tokens' \in 0 .. Burst
    BY <2>1, StagesAssumption DEF TablesOK
  <2>10. TablesOK'
    BY <2>2, <2>9 DEF TablesOK, ItemsOf
  <2> QED BY <2>8, <2>10
<1>4. CASE ResolveHost(w)
  <2>1. w[1] = "dns" /\ worker[w] \in [at : {"dns", "resolved"}, item : Hosts]
    BY <1>4, Places DEF ResolveHost
  <2> DEFINE new == [worker[w] EXCEPT !.at = "resolved"]
  <2>2. new \in [at : {"dns", "resolved"}, item : Hosts] /\ new.at # "fetch"
    BY <2>1
  <2>3. new \in MayDo(w[1])
    BY <2>1, <2>2 DEF MayDo
  <2>4. UNCHANGED seen /\ (Becomes(w, new) \/ Becomes(w, Free))
    BY <1>4 DEF ResolveHost, Returns
  <2>5. WorkersOK'
    <3> HIDE DEF new
    <3> QED BY <2>2, <2>3, <2>4, OneBecomes, StopsTyped
  <2>6. TablesOK'
    BY <1>4 DEF ResolveHost, TablesOK, ItemsOf
  <2> QED BY <2>5, <2>6
<1>5. CASE MarkResolved(w)
  <2>1. worker[w].item \in Hosts
    BY <1>5, Places DEF MarkResolved
  <2>2. WorkersOK'
    BY <1>5, StopsTyped DEF MarkResolved, Returns
  <2>3. status' \in [Hosts -> {"none", "DISCOVERED", "RESOLVED", "LIVE"}]
    BY <1>5, <2>1, StatusTyped DEF MarkResolved
  <2>4. TablesOK'
    BY <1>5, <2>1, <2>3 DEF MarkResolved, TablesOK, ItemsOf
  <2> QED BY <2>2, <2>4
<1>6. CASE ProbeHost(w)
  <2>1. w[1] = "http" /\ worker[w] \in [at : {"http", "answered"}, item : Seeds]
    BY <1>6, Places DEF ProbeHost
  <2> DEFINE new == [worker[w] EXCEPT !.at = "answered"]
  <2>2. new \in [at : {"http", "answered"}, item : Seeds] /\ new.at # "fetch"
    BY <2>1
  <2>3. new \in MayDo(w[1])
    BY <2>1, <2>2 DEF MayDo
  <2>4. UNCHANGED seen /\ (Becomes(w, new) \/ Becomes(w, Free))
    BY <1>6 DEF ProbeHost, Returns
  <2>5. WorkersOK'
    <3> HIDE DEF new
    <3> QED BY <2>2, <2>3, <2>4, OneBecomes, StopsTyped
  <2>6. TablesOK'
    BY <1>6 DEF ProbeHost, TablesOK, ItemsOf
  <2> QED BY <2>5, <2>6
<1>7. CASE MarkLive(w)
  <2>1. worker[w].item \in Seeds
    BY <1>7, Places DEF MarkLive
  <2>2. worker[w].item[1] \in Hosts
    BY <2>1 DEF Seeds
  <2>3. WorkersOK'
    BY <1>7, StopsTyped DEF MarkLive, Returns
  <2>4. status' \in [Hosts -> {"none", "DISCOVERED", "RESOLVED", "LIVE"}]
    BY <1>7, <2>2, StatusTyped DEF MarkLive
  <2>5. TablesOK'
    BY <1>7, <2>1, <2>4 DEF MarkLive, TablesOK, ItemsOf
  <2> QED BY <2>3, <2>5
<1> QED BY <1>1, <1>2, <1>3, <1>4, <1>5, <1>6, <1>7

\* The first of a queue, the rest of it, and a queue made of an enumeration.
LEMMA QueueTyped ==
    ASSUME NEW S, NEW front \in Seq(S), front # <<>>
    PROVE  Head(front) \in S /\ Tail(front) \in Seq(S)
  OBVIOUS

LEMMA EnumerationTyped ==
    ASSUME NEW S, NEW n \in Nat, NEW f \in [1 .. n -> S]
    PROVE  f \in Seq(S)
  OBVIOUS

LEMMA OneDeeper ==
    ASSUME NEW n \in Nat, NEW d \in 0 .. n, d < n
    PROVE  d + 1 \in 0 .. n
  OBVIOUS

\* What a crawl does keeps the state typed: no URL deeper than the limit, no
\* more URLs than may be counted, and no page fetched from outside the scope.
LEMMA CrawlTyped ==
    ASSUME WorkersOK, TablesOK, Shape, NEW w \in Stages \X Workers,
           \/ \E u \in URLs : ReportListed(w, u)
           \/ CrawlNext(w) \/ FetchLinks(w) \/ CrawlReturns(w)
    PROVE  WorkersOK' /\ TablesOK'
<1> USE DEF pool, results
<1> DEFINE k == worker[w]
           q == Head(k.front)
           fronts == Seq([url : URLs, depth : 0 .. MaxDepth])
<1>1. \A new \in Crawls : w[1] = "crawl" => new \in MayDo(w[1])
  BY DEF MayDo
<1>2. ASSUME k \in Crawls
      PROVE  /\ k.item \in Seeds /\ k.list \subseteq URLs /\ k.front \in fronts
             /\ k.count \in 0 .. MaxURLsPerHost
  BY <1>2 DEF Crawls
<1>3. ASSUME k \in Crawls, k.front # <<>>
      PROVE  q \in [url : URLs, depth : 0 .. MaxDepth] /\ Tail(k.front) \in fronts
  BY <1>2, <1>3, QueueTyped
<1>4. ASSUME NEW u \in URLs, ReportListed(w, u) PROVE WorkersOK' /\ TablesOK'
  <2>1. k.at = "crawl" /\ w[1] = "crawl" /\ k \in Crawls
    BY <1>4, Places DEF ReportListed
  <2> DEFINE new == [k EXCEPT !.list = @ \ {u}]
  <2>2. new \in Crawls /\ new.at = "crawl"
    BY <2>1 DEF Crawls
  <2>3. /\ seen' \subseteq InScope /\ seen \subseteq seen' /\ told' \in [URLs -> 0 .. 2]
    <3>1. CASE u \in InScope /\ CheckAndAddURL(u) /\ Report(u)
      BY <3>1, ReportTyped
    <3>2. CASE UNCHANGED <<seen, told>>
      BY <3>2 DEF TablesOK
    <3> QED BY <1>4, <3>1, <3>2 DEF ReportListed
  <2>4. Becomes(w, new)
    BY <1>4 DEF ReportListed
  <2>5. WorkersOK'
    <3> HIDE DEF new
    <3> QED BY <1>1, <2>1, <2>2, <2>3, <2>4, OneBecomes
  <2>6. UNCHANGED <<stage, items, queue, opts, tokens, status, resolved, live, crawled, verdict>>
    BY <1>4 DEF ReportListed
  <2>7. TablesOK'
    BY <2>3, <2>6 DEF TablesOK, ItemsOf
  <2> QED BY <2>5, <2>7
<1>5. CASE CrawlNext(w)
  <2>1. k.at = "crawl" /\ w[1] = "crawl" /\ k \in Crawls /\ k.front # <<>>
        /\ k.count < MaxURLsPerHost
    BY <1>5, Places DEF CrawlNext
  <2>2. q.url \in URLs /\ q.depth \in 0 .. MaxDepth /\ Tail(k.front) \in fronts
    BY <1>3, <2>1
  <2>3. k.count + 1 \in 0 .. MaxURLsPerHost
    BY <1>2, <2>1, StagesAssumption
  <2>4. UNCHANGED <<stage, items, queue, opts, tokens, status, resolved, live, crawled, verdict>>
    BY <1>5 DEF CrawlNext
  <2> DEFINE fetches == [k EXCEPT !.at = "fetch", !.count = @ + 1]
             counts == [k EXCEPT !.front = Tail(@), !.count = @ + 1]
             drops == [k EXCEPT !.front = Tail(@)]
  <2>5. fetches \in Crawls /\ fetches.at = "fetch" /\ fetches.front = k.front
    BY <2>1, <2>3 DEF Crawls
  <2>6. counts \in Crawls /\ counts.at = "crawl"
    BY <2>1, <2>2, <2>3 DEF Crawls
  <2>7. drops \in Crawls /\ drops.at = "crawl"
    BY <2>1, <2>2 DEF Crawls
  <2>8. \/ /\ q.url \in InScope /\ CheckAndAddURL(q.url) /\ Report(q.url)
           /\ IF q.depth < MaxDepth THEN Becomes(w, fetches) ELSE Becomes(w, counts)
        \/ Becomes(w, drops) /\ UNCHANGED <<seen, told>>
    BY <1>5 DEF CrawlNext
  <2>9. /\ seen' \subseteq InScope /\ seen \subseteq seen' /\ told' \in [URLs -> 0 .. 2]
        /\ CheckAndAddURL(q.url) => q.url \in seen'
    <3>1. CASE q.url \in InScope /\ CheckAndAddURL(q.url) /\ Report(q.url)
      BY <2>2, <3>1, ReportTyped
    <3>2. CASE UNCHANGED <<seen, told>>
      BY <3>2 DEF TablesOK, CheckAndAddURL
    <3> QED BY <2>8, <3>1, <3>2
  <2>10. WorkersOK'
    <3> HIDE DEF fetches, counts, drops
    <3>1. CASE q.url \in InScope /\ q.url \in seen' /\ q.depth < MaxDepth /\ Becomes(w, fetches)
      BY <1>1, <2>1, <2>5, <2>9, <3>1, OneBecomes
    <3>2. CASE Becomes(w, counts) \/ Becomes(w, drops)
      BY <1>1, <2>1, <2>6, <2>7, <2>9, <3>2, OneBecomes
    <3> QED BY <2>8, <2>9, <3>1, <3>2
  <2>11. TablesOK'
    BY <2>4, <2>9 DEF TablesOK, ItemsOf
  <2> QED BY <2>10, <2>11
<1>6. CASE FetchLinks(w)
  <2>1. k.at = "fetch" /\ w[1] = "crawl" /\ k \in Crawls
    BY <1>6, Places DEF FetchLinks
  <2>2. k.front # <<>> /\ q.url \in InScope /\ q.depth < MaxDepth
    BY <2>1 DEF WorkersOK, FetchesInScope
  <2>3. q.url \in URLs /\ q.depth \in 0 .. MaxDepth /\ Tail(k.front) \in fronts
    BY <1>3, <2>1, <2>2
  <2>4. q.depth + 1 \in 0 .. MaxDepth
    BY <2>2, <2>3, StagesAssumption, OneDeeper
  <2>5. PICK us \in {{}, IF cancelled THEN {} ELSE Links[q.url]} :
          \E f \in [1 .. Cardinality(us) -> us] :
             Becomes(w, [k EXCEPT !.at = "crawl", !.front = Tail(@) \o
                            [i \in DOMAIN f |-> [url |-> f[i], depth |-> q.depth + 1]]])
    BY <1>6 DEF FetchLinks
  <2>6. us \subseteq URLs /\ Cardinality(us) \in Nat
    <3>1. us = {} \/ us = Links[q.url]
      BY <2>5
    <3>2. Links[q.url] \subseteq URLs /\ IsFiniteSet(Links[q.url])
      BY <2>3, StagesAssumption
    <3>3. IsFiniteSet(us)
      BY <3>1, <3>2, FS_EmptySet
    <3> QED BY <3>1, <3>2, <3>3, FS_CardinalityType
  <2>7. PICK f \in [1 .. Cardinality(us) -> us] :
          Becomes(w, [k EXCEPT !.at = "crawl", !.front = Tail(@) \o
                         [i \in DOMAIN f |-> [url |-> f[i], depth |-> q.depth + 1]]])
    BY <2>5
  <2> DEFINE found == [i \in DOMAIN f |-> [url |-> f[i], depth |-> q.depth + 1]]
             new == [k EXCEPT !.at = "crawl", !.front = Tail(@) \o found]
  <2>8. found \in fronts
    <3>1. \A i \in 1 .. Cardinality(us) :
            [url |-> f[i], depth |-> q.depth + 1] \in [url : URLs, depth : 0 .. MaxDepth]
      BY <2>4, <2>6
    <3>2. found = [i \in 1 .. Cardinality(us) |-> [url |-> f[i], depth |-> q.depth + 1]]
      OBVIOUS
    <3>3. found \in [1 .. Cardinality(us) -> [url : URLs, depth : 0 .. MaxDepth]]
      BY <3>1, <3>2
    <3> HIDE DEF found
    <3> QED BY <2>6, <3>3, EnumerationTyped
  <2>9. Tail(k.front) \o found \in fronts
    <3> DEFINE others == Tail(k.front)
    <3>1. others \in fronts
      BY <2>3
    <3> HIDE DEF found, others
    <3>2. others \o found \in fronts
      BY <2>8, <3>1
    <3> QED BY <3>2 DEF others
  <2>10. new \in Crawls /\ new.at = "crawl"
    <3> HIDE DEF found
    <3> QED BY <2>1, <2>9 DEF Crawls
  <2>11. Becomes(w, new) /\ crawled' = crawled \cup {q.url}
    BY <1>6, <2>7 DEF FetchLinks
  <2>12. UNCHANGED <<stage, items, queue, opts, tokens, status, resolved, live, seen, told, verdict>>
    BY <1>6 DEF FetchLinks
  <2>13. WorkersOK'
    <3> HIDE DEF new
    <3> QED BY <1>1, <2>1, <2>10, <2>11, <2>12, OneBecomes
  <2>14. TablesOK'
    BY <2>2, <2>11, <2>12 DEF TablesOK, ItemsOf
  <2> QED BY <2>13, <2>14
<1>7. CASE CrawlReturns(w)
  <2>1. WorkersOK'
    BY <1>7, StopsTyped DEF CrawlReturns, Returns
  <2>2. TablesOK'
    BY <1>7 DEF CrawlReturns, TablesOK, ItemsOf
  <2> QED BY <2>1, <2>2
<1> QED BY <1>4, <1>5, <1>6, <1>7

\* Starting a stage with items of its kind keeps the state typed.
LEMMA StartTyped ==
    ASSUME WorkersOK, TablesOK, Shape, NEW s \in Stages, NEW given \in SUBSET ItemsOf(s),
           Start(s, given), UNCHANGED seen
    PROVE  /\ WorkersOK' /\ stage' \in Stages
           /\ \A t \in Stages : queue'[t] \subseteq items'[t] /\ items'[t] \subseteq ItemsOf(t)
<1>1. CASE UNCHANGED <<queue, items, worker>>
  BY <1>1 DEF Start, WorkersOK, FetchesInScope, TablesOK, MayDo, ItemsOf, Crawls
<1>2. CASE /\ queue' = [queue EXCEPT ![s] = given] /\ items' = [items EXCEPT ![s] = given]
           /\ worker' = [w \in DOMAIN worker |-> IF w[1] = s THEN Free ELSE worker[w]]
  <2>1. \A w \in Stages \X Workers : worker'[w] = IF w[1] = s THEN Free ELSE worker[w]
    BY <1>2 DEF Shape
  <2>2. \A w \in Stages \X Workers : worker'[w] \in MayDo(w[1])
    BY <2>1, MayStop DEF WorkersOK
  <2>3. FetchesInScope'
    BY <2>1 DEF WorkersOK, FetchesInScope, Free
  <2>4. WorkersOK'
    BY <2>2, <2>3 DEF WorkersOK, MayDo, ItemsOf, Crawls
  <2>5. \A t \in Stages : /\ queue'[t] = IF t = s THEN given ELSE queue[t]
                          /\ items'[t] = IF t = s THEN given ELSE items[t]
    BY <1>2 DEF Shape
  <2> QED BY <2>4, <2>5 DEF Start, TablesOK
<1> QED BY <1>1, <1>2 DEF Start

\* No step of a run leaves the types.
LEMMA NextSTyped == STypeOK /\ Shape /\ [SNext]_<<pg, svars>> => STypeOK'
<1> SUFFICES ASSUME WorkersOK, TablesOK, Shape, [SNext]_<<pg, svars>>
             PROVE  WorkersOK' /\ TablesOK'
  BY DEF STypeOK, WorkersOK, TablesOK
<1>1. ASSUME UNCHANGED <<worker, seen>> PROVE WorkersOK'
  BY <1>1 DEF WorkersOK, FetchesInScope, MayDo, ItemsOf, Crawls
<1>2. ASSUME NEW found \in SUBSET Hosts, Discover(found) PROVE WorkersOK' /\ TablesOK'
  <2>1. UNCHANGED <<opts, tokens, live, seen, told, crawled>>
    BY <1>2 DEF Discover
  <2>2. status' \in [Hosts -> {"none", "DISCOVERED", "RESOLVED", "LIVE"}]
    BY <1>2 DEF Discover, TablesOK
  <2>3. CASE EndRun("CANCELLED") /\ UNCHANGED resolved
    BY <1>1, <2>1, <2>2, <2>3 DEF EndRun, TablesOK, ItemsOf
  <2>4. CASE /\ Start("dns", found) /\ resolved' = (IF "dns" \in opts THEN {} ELSE found)
             /\ UNCHANGED verdict
    <3>1. found \in SUBSET ItemsOf("dns") /\ "dns" \in Stages
      BY DEF ItemsOf, Stages
    <3>2. /\ WorkersOK' /\ stage' \in Stages
          /\ \A t \in Stages : queue'[t] \subseteq items'[t] /\ items'[t] \subseteq ItemsOf(t)
      BY <2>1, <2>4, <3>1, StartTyped
    <3> QED BY <2>1, <2>2, <2>4, <3>2 DEF TablesOK, ItemsOf
  <2> QED BY <1>2, <2>3, <2>4 DEF Discover
<1>3. CASE Advance
  <2>1. UNCHANGED <<opts, tokens, status, resolved, live, seen, told, crawled>>
    BY <1>3 DEF Advance, results
  <2>2. ASSUME NEW as \in {"CANCELLED", "COMPLETED"}, EndRun(as) PROVE WorkersOK' /\ TablesOK'
    BY <1>1, <2>1, <2>2 DEF EndRun, TablesOK, ItemsOf
  <2>3. ASSUME NEW s \in Stages, NEW given \in SUBSET ItemsOf(s), Start(s, given),
               UNCHANGED verdict
        PROVE  WorkersOK' /\ TablesOK'
    <3>1. /\ WorkersOK' /\ stage' \in Stages
          /\ \A t \in Stages : queue'[t] \subseteq items'[t] /\ items'[t] \subseteq ItemsOf(t)
      BY <2>1, <2>3, StartTyped
    <3> QED BY <2>1, <2>3, <3>1 DEF TablesOK, ItemsOf
  <2>4. /\ "http" \in Stages /\ "crawl" \in Stages
        /\ resolved \X Schemes \in SUBSET ItemsOf("http") /\ live \in SUBSET ItemsOf("crawl")
    BY DEF TablesOK, ItemsOf, Stages, Seeds
  <2>5. \/ EndRun("CANCELLED") \/ EndRun("COMPLETED")
        \/ Start("http", resolved \X Schemes) /\ UNCHANGED verdict
        \/ Start("crawl", live) /\ UNCHANGED verdict
    BY <1>3 DEF Advance
  <2> QED BY <2>2, <2>3, <2>4, <2>5
<1>4. CASE Tick
  <2>1. tokens' \in 0 .. Burst
    BY <1>4, StagesAssumption DEF Tick, TablesOK
  <2>2. UNCHANGED <<worker, stage, items, queue, opts, status, resolved, live, seen, told, crawled,
                    verdict>>
    BY <1>4 DEF Tick, pool, results
  <2> QED BY <1>1, <2>1, <2>2 DEF TablesOK, ItemsOf
<1>5. CASE Cancel
  BY <1>1, <1>5 DEF Cancel, pool, results, TablesOK, ItemsOf
<1>6. ASSUME NEW w \in Stages \X Workers, Work(w) PROVE WorkersOK' /\ TablesOK'
  BY <1>6, PoolWorkTyped, CrawlTyped DEF Work
<1>7. CASE UNCHANGED <<pg, svars>>
  BY <1>1, <1>7 DEF svars, TablesOK, ItemsOf
<1> QED BY <1>2, <1>3, <1>4, <1>5, <1>6, <1>7 DEF SNext, SStep

\* A run begins with its workers off and its tables empty.
LEMMA InitSTyped == SInit => STypeOK
<1> SUFFICES ASSUME SInit PROVE WorkersOK /\ TablesOK
  BY Halves
<1>1. WorkersOK
  BY MayStop DEF SInit, WorkersOK, FetchesInScope, Off
<1>2. TablesOK
  BY StagesAssumption DEF SInit, TablesOK
<1> QED BY <1>1, <1>2

\* A run keeps its types: with any hosts, pages, workers, bucket and bounds, no
\* crawl goes deeper or counts more than it may, or fetches outside the scope.
THEOREM RunsTyped == SSpec => []STypeOK
<1>1. SStrong => Shape
  BY DEF SStrong
<1> QED BY <1>1, InitSStrong, NextSStrong, InitSTyped, NextSTyped, PTL DEF SSpec

-----------------------------------------------------------------------------
\* In no run is a URL reported twice, whatever pages link to what and however
\* many workers crawl.
THEOREM URLsReportedOnce == SSpec => []ReportedOnce
<1>1. Counted => ReportedOnce
  BY DEF Counted, ReportedOnce
<1> QED BY <1>1, InitSStrong, NextCounted, PTL DEF SSpec

\* A run that says COMPLETED has handled everything it was given.
THEOREM CompletedRunsAreComplete == SSpec => []CompletedIsComplete
<1> QED BY InitSStrong, NextSStrong, SStrongIsComplete, PTL DEF SSpec

-----------------------------------------------------------------------------
(* A run keeps what ScanRun promises. *)

Busy(w) == worker[w].at \notin {"off", "free"}

\* An item is in one place: in the channel, with one worker, or handled.
OnePlace ==
    /\ \A s \in Stages : \A i \in queue[s] : ~Holds(s, i) /\ <<s, i>> \notin handled
    /\ \A s \in Stages, x \in Workers :
         Busy(<<s, x>>) =>
           /\ <<s, worker[<<s, x>>].item>> \notin handled
           /\ \A y \in Workers : (Busy(<<s, y>>) /\ worker[<<s, y>>].item = worker[<<s, x>>].item)
                                   => x = y

Before(s) == CASE s = "dns" -> {"discover"}
               [] s = "http" -> {"discover", "dns"}
               [] OTHER -> {"discover", "dns", "http"}

\* A stage that has not begun has handled nothing; a run has a verdict at its end.
NotYet == \A s \in Stages : stage \in Before(s) => \A i : <<s, i>> \notin handled

Ended == verdict = "RUNNING" <=> stage # "done"

OnceOnly == OnePlace /\ NotYet /\ Ended

\* What waits is the same when the same items are queued or held.
LEMMA SamePending ==
    ASSUME \A t \in Stages : \A i : (i \in queue'[t] \/ Holds(t, i)') <=> (i \in queue[t] \/ Holds(t, i))
    PROVE  Pending' = Pending
  BY DEF Pending

LEMMA OneLess ==
    ASSUME NEW s \in Stages, NEW i,
           \A t \in Stages : \A j : (j \in queue'[t] \/ Holds(t, j)')
                                      <=> (j \in queue[t] \/ Holds(t, j)) /\ <<t, j>> # <<s, i>>
    PROVE  Pending' = Pending \ {<<s, i>>}
  BY DEF Pending

\* A worker that keeps its item moves nothing.
LEMMA KeepsPlace ==
    ASSUME Shape, OnceOnly, NEW w \in Stages \X Workers, NEW new, Becomes(w, new),
           Busy(w), new.at \notin {"off", "free"}, new.item = worker[w].item,
           UNCHANGED <<stage, queue, handled, verdict>>
    PROVE  OnceOnly' /\ Pending' = Pending
<1>1. PICK s \in Stages, x \in Workers : w = <<s, x>>
  OBVIOUS
<1>2. \A t \in Stages, y \in Workers :
          worker'[<<t, y>>] = IF t = s /\ y = x THEN new ELSE worker[<<t, y>>]
  BY <1>1 DEF Becomes, Shape
<1>3. \A t \in Stages, y \in Workers :
          /\ Busy(<<t, y>>)' <=> Busy(<<t, y>>)
          /\ Busy(<<t, y>>) => worker'[<<t, y>>].item = worker[<<t, y>>].item
  BY <1>1, <1>2 DEF Busy
<1>4. \A t \in Stages : \A i : Holds(t, i)' <=> Holds(t, i)
  BY <1>3 DEF Holds, Busy
<1>5. OnePlace'
  BY <1>3, <1>4 DEF OnceOnly, OnePlace
<1>6. NotYet' /\ Ended'
  BY DEF OnceOnly, NotYet, Ended, Before
<1> QED BY <1>4, <1>5, <1>6, SamePending DEF OnceOnly

\* A worker that lets go of its item, handled or not, leaves it waiting nowhere.
LEMMA LetsGo ==
    ASSUME Shape, OnceOnly, WorkersOK, NEW w \in Stages \X Workers, Busy(w),
           NEW new \in {Off, Free}, Becomes(w, new),
           handled' \in {handled, handled \cup {<<w[1], worker[w].item>>}},
           stage = w[1], UNCHANGED <<stage, queue, verdict>>
    PROVE  /\ OnceOnly' /\ <<w[1], worker[w].item>> \in Pending
           /\ Pending' = Pending \ {<<w[1], worker[w].item>>}
<1>1. PICK s \in Stages, x \in Workers : w = <<s, x>>
  OBVIOUS
<1> DEFINE it == worker[w].item
<1>2. \A t \in Stages, y \in Workers :
          worker'[<<t, y>>] = IF t = s /\ y = x THEN new ELSE worker[<<t, y>>]
  BY <1>1 DEF Becomes, Shape
<1>3. new.at \in {"off", "free"}
  BY DEF Off, Free
<1>4. \A t \in Stages, y \in Workers :
          /\ Busy(<<t, y>>)' <=> Busy(<<t, y>>) /\ ~(t = s /\ y = x)
          /\ ~(t = s /\ y = x) => worker'[<<t, y>>].item = worker[<<t, y>>].item
  BY <1>2, <1>3 DEF Busy
<1>5. \A y \in Workers : (Busy(<<s, y>>) /\ worker[<<s, y>>].item = it) => x = y
  BY <1>1 DEF OnceOnly, OnePlace
<1>6. \A t \in Stages : \A i : Holds(t, i)' <=> Holds(t, i) /\ <<t, i>> # <<s, it>>
  <2> TAKE t \in Stages
  <2> TAKE i
  <2>1. ASSUME Holds(t, i)' PROVE Holds(t, i) /\ <<t, i>> # <<s, it>>
    <3>1. PICK y \in Workers : Busy(<<t, y>>)' /\ worker'[<<t, y>>].item = i
      BY <2>1 DEF Holds, Busy
    <3>2. Busy(<<t, y>>) /\ worker[<<t, y>>].item = i /\ ~(t = s /\ y = x)
      BY <1>4, <3>1
    <3> QED BY <1>5, <3>2 DEF Holds, Busy
  <2>2. ASSUME Holds(t, i), <<t, i>> # <<s, it>> PROVE Holds(t, i)'
    <3>1. PICK y \in Workers : Busy(<<t, y>>) /\ worker[<<t, y>>].item = i
      BY <2>2 DEF Holds, Busy
    <3>2. ~(t = s /\ y = x)
      BY <1>1, <2>2, <3>1
    <3> QED BY <1>4, <3>1, <3>2 DEF Holds, Busy
  <2> QED BY <2>1, <2>2
<1>7. Holds(s, it) /\ it \notin queue[s]
  <2>1. Holds(s, it)
    BY <1>1 DEF Holds, Busy
  <2> QED BY <2>1 DEF OnceOnly, OnePlace
<1>8. OnePlace'
  <2>1. \A t \in Stages : \A i \in queue'[t] : ~Holds(t, i)' /\ <<t, i>> \notin handled'
    BY <1>1, <1>6, <1>7 DEF OnceOnly, OnePlace
  <2>2. ASSUME NEW t \in Stages, NEW y \in Workers, Busy(<<t, y>>)'
        PROVE  /\ <<t, worker'[<<t, y>>].item>> \notin handled'
               /\ \A z \in Workers : (Busy(<<t, z>>)' /\ worker'[<<t, z>>].item = worker'[<<t, y>>].item)
                                       => y = z
    <3>1. Busy(<<t, y>>) /\ ~(t = s /\ y = x) /\ worker'[<<t, y>>].item = worker[<<t, y>>].item
      BY <1>4, <2>2
    <3>2. <<t, worker[<<t, y>>].item>> # <<s, it>>
      BY <1>5, <3>1
    <3>3. <<t, worker[<<t, y>>].item>> \notin handled
      BY <3>1 DEF OnceOnly, OnePlace
    <3>4. \A z \in Workers : (Busy(<<t, z>>)' /\ worker'[<<t, z>>].item = worker'[<<t, y>>].item)
                                => y = z
      BY <1>4, <3>1 DEF OnceOnly, OnePlace
    <3> QED BY <1>1, <3>1, <3>2, <3>3, <3>4
  <2> QED BY <2>1, <2>2 DEF OnePlace
<1>9. NotYet'
  <2>1. stage \notin Before(s)
    BY <1>1 DEF Before, Stages
  <2>2. \A t \in Stages : stage \in Before(t) => t # s
    BY <2>1
  <2> QED BY <1>1, <2>2 DEF OnceOnly, NotYet, Before
<1>10. Ended'
  BY DEF OnceOnly, Ended
<1>11. <<s, it>> \in Pending
  <2>1. it \in Hosts \cup Seeds
    <3>1. worker[w] \in MayDo(s)
      BY <1>1 DEF WorkersOK
    <3> QED BY <3>1 DEF MayDo, ItemsOf, Crawls, Busy, Off, Free
  <2> QED BY <1>7, <2>1 DEF Pending
<1>12. Pending' = Pending \ {<<s, it>>}
  BY <1>6, <1>7, OneLess
<1> QED BY <1>1, <1>8, <1>9, <1>10, <1>11, <1>12 DEF OnceOnly

\* An item that a worker takes waits with the worker.
LEMMA TakenOnce ==
    ASSUME Shape, OnceOnly, NEW w \in Stages \X Workers, Take(w)
    PROVE  OnceOnly' /\ Pending' = Pending
<1>1. PICK s \in Stages, x \in Workers : w = <<s, x>>
  OBVIOUS
<1>2. PICK it \in queue[s] : /\ queue' = [queue EXCEPT ![s] = @ \ {it}]
                            /\ Becomes(w, [at |-> "wait", item |-> it])
  BY <1>1 DEF Take
<1>3. UNCHANGED <<stage, handled, verdict>> /\ worker[<<s, x>>] = Free
  BY <1>1 DEF Take
<1>4. \A t \in Stages, y \in Workers :
          worker'[<<t, y>>] = IF t = s /\ y = x THEN [at |-> "wait", item |-> it] ELSE worker[<<t, y>>]
  BY <1>1, <1>2 DEF Becomes, Shape
<1>5. \A t \in Stages : queue'[t] = IF t = s THEN queue[s] \ {it} ELSE queue[t]
  BY <1>2 DEF Shape
<1>6. /\ ~Busy(<<s, x>>) /\ Busy(<<s, x>>)' /\ worker'[<<s, x>>].item = it
      /\ \A t \in Stages, y \in Workers :
            ~(t = s /\ y = x) => /\ Busy(<<t, y>>)' <=> Busy(<<t, y>>)
                                /\ worker'[<<t, y>>].item = worker[<<t, y>>].item
  <2>1. worker[<<s, x>>].at = "free"
    BY <1>3 DEF Free
  <2>2. worker'[<<s, x>>].at = "wait" /\ worker'[<<s, x>>].item = it
    BY <1>4
  <2> QED BY <1>4, <2>1, <2>2 DEF Busy
<1>7. \A t \in Stages : \A i : Holds(t, i)' <=> Holds(t, i) \/ <<t, i>> = <<s, it>>
  <2> TAKE t \in Stages
  <2> TAKE i
  <2>1. ASSUME Holds(t, i)' PROVE Holds(t, i) \/ <<t, i>> = <<s, it>>
    <3>1. PICK y \in Workers : Busy(<<t, y>>)' /\ worker'[<<t, y>>].item = i
      BY <2>1 DEF Holds, Busy
    <3> QED BY <1>6, <3>1 DEF Holds, Busy
  <2>2. ASSUME Holds(t, i) PROVE Holds(t, i)'
    <3>1. PICK y \in Workers : Busy(<<t, y>>) /\ worker[<<t, y>>].item = i
      BY <2>2 DEF Holds, Busy
    <3> QED BY <1>6, <3>1 DEF Holds, Busy
  <2>3. ASSUME <<t, i>> = <<s, it>> PROVE Holds(t, i)'
    BY <1>6, <2>3 DEF Holds, Busy
  <2> QED BY <2>1, <2>2, <2>3
<1>8. ~Holds(s, it) /\ <<s, it>> \notin handled
  BY DEF OnceOnly, OnePlace
<1>9. OnePlace'
  <2>1. ASSUME NEW t \in Stages, NEW i \in queue'[t]
        PROVE  ~Holds(t, i)' /\ <<t, i>> \notin handled'
    <3>1. i \in queue[t] /\ <<t, i>> # <<s, it>>
      BY <1>5
    <3>2. ~Holds(t, i) /\ <<t, i>> \notin handled
      BY <3>1 DEF OnceOnly, OnePlace
    <3>3. ~Holds(t, i)'
      BY <1>7, <3>1, <3>2
    <3> QED BY <1>3, <3>2, <3>3
  <2>2. \A y \in Workers : Busy(<<s, y>>) => worker[<<s, y>>].item # it
    BY <1>8 DEF Holds, Busy
  <2>3. ASSUME NEW t \in Stages, NEW y \in Workers, Busy(<<t, y>>)'
        PROVE  /\ <<t, worker'[<<t, y>>].item>> \notin handled'
               /\ \A z \in Workers : (Busy(<<t, z>>)' /\ worker'[<<t, z>>].item = worker'[<<t, y>>].item)
                                       => y = z
    <3>1. CASE t = s /\ y = x
      BY <1>3, <1>6, <1>8, <2>2, <3>1
    <3>2. CASE ~(t = s /\ y = x)
      BY <1>3, <1>6, <2>2, <2>3, <3>2 DEF OnceOnly, OnePlace
    <3> QED BY <3>1, <3>2
  <2> QED BY <2>1, <2>3 DEF OnePlace
<1>10. NotYet' /\ Ended'
  BY <1>3 DEF OnceOnly, NotYet, Ended, Before
<1>11. Pending' = Pending
  BY <1>5, <1>7, SamePending
<1> QED BY <1>9, <1>10, <1>11 DEF OnceOnly

\* A worker that leaves without an item moves nothing.
LEMMA LeavesFree ==
    ASSUME Shape, OnceOnly, NEW w \in Stages \X Workers, ~Busy(w), Becomes(w, Off),
           UNCHANGED <<stage, queue, handled, verdict>>
    PROVE  OnceOnly' /\ Pending' = Pending
<1>1. PICK s \in Stages, x \in Workers : w = <<s, x>>
  OBVIOUS
<1>2. Off.at = "off"
  BY DEF Off
<1>3. \A t \in Stages, y \in Workers :
          worker'[<<t, y>>] = IF t = s /\ y = x THEN Off ELSE worker[<<t, y>>]
  BY <1>1 DEF Becomes, Shape
<1>4. \A t \in Stages, y \in Workers :
          /\ Busy(<<t, y>>)' <=> Busy(<<t, y>>)
          /\ Busy(<<t, y>>) => worker'[<<t, y>>].item = worker[<<t, y>>].item
  BY <1>1, <1>2, <1>3 DEF Busy
<1>5. \A t \in Stages : \A i : Holds(t, i)' <=> Holds(t, i)
  BY <1>4 DEF Holds, Busy
<1>6. OnePlace'
  BY <1>4, <1>5 DEF OnceOnly, OnePlace
<1>7. NotYet' /\ Ended'
  BY DEF OnceOnly, NotYet, Ended, Before
<1> QED BY <1>5, <1>6, <1>7, SamePending DEF OnceOnly

\* When no worker is left and the run is not cancelled, nothing waits.
LEMMA NothingWaits ==
    ASSUME SStrong, ~cancelled, \A s \in Stages, x \in Workers : worker[<<s, x>>] = Off
    PROVE  Pending = {} /\ \A s \in Stages : queue[s] = {} /\ \A i : ~Holds(s, i)
<1>1. \A s \in Stages : queue[s] = {}
  BY StagesAssumption DEF SStrong, LeftEmpty
<1>2. \A s \in Stages : \A i : ~Holds(s, i)
  <2>1. Off.at = "off"
    BY DEF Off
  <2> QED BY <2>1 DEF Holds
<1> QED BY <1>1, <1>2 DEF Pending

\* A stage that starts is given what was not handled before.
LEMMA StartsOnce ==
    ASSUME SStrong, OnceOnly, ~cancelled,
           \A t \in Stages, x \in Workers : worker[<<t, x>>] = Off,
           NEW s \in Stages, stage \in Before(s), NEW given \in SUBSET (Hosts \cup Seeds),
           Start(s, given), UNCHANGED <<handled, verdict>>, verdict = "RUNNING"
    PROVE  /\ OnceOnly' /\ Pending = {}
           /\ \/ Pending' = Pending
              \/ Pending' = {s} \X given /\ Pending' \cap handled = {}
<1>1. Pending = {} /\ \A t \in Stages : queue[t] = {} /\ \A i : ~Holds(t, i)
  BY NothingWaits
<1>2. Off.at = "off" /\ Free.at = "free"
  BY DEF Off, Free
<1>3. stage' = s
  BY DEF Start
<1>4. NotYet'
  <2>1. \A t \in Stages : s \in Before(t) => stage \in Before(t)
    BY DEF Before, Stages
  <2> QED BY <1>3, <2>1 DEF OnceOnly, NotYet, Before
<1>5. Ended'
  BY <1>3 DEF Ended, Stages
<1>6. CASE UNCHANGED <<queue, items, worker>>
  <2>1. \A t \in Stages : \A i : Holds(t, i)' <=> Holds(t, i)
    BY <1>6 DEF Holds
  <2>2. \A t \in Stages, x \in Workers : ~Busy(<<t, x>>)'
    BY <1>2, <1>6 DEF Busy
  <2>3. OnePlace'
    BY <1>1, <1>6, <2>1, <2>2 DEF OnePlace
  <2>4. Pending' = Pending
    BY <1>6, <2>1, SamePending
  <2> QED BY <1>1, <1>4, <1>5, <2>3, <2>4 DEF OnceOnly
<1>7. CASE /\ queue' = [queue EXCEPT ![s] = given] /\ items' = [items EXCEPT ![s] = given]
           /\ worker' = [w \in DOMAIN worker |-> IF w[1] = s THEN Free ELSE worker[w]]
  <2>1. \A t \in Stages, x \in Workers : worker'[<<t, x>>] = IF t = s THEN Free ELSE Off
    BY <1>7 DEF SStrong, Shape
  <2>2. \A t \in Stages : queue'[t] = IF t = s THEN given ELSE {}
    BY <1>1, <1>7 DEF SStrong, Shape
  <2>3. \A t \in Stages, x \in Workers : ~Busy(<<t, x>>)'
    BY <1>2, <2>1 DEF Busy
  <2>4. \A t \in Stages : \A i : ~Holds(t, i)'
    BY <2>3 DEF Holds, Busy
  <2>5. \A i : <<s, i>> \notin handled
    BY DEF OnceOnly, NotYet
  <2>6. OnePlace'
    BY <2>2, <2>3, <2>4, <2>5 DEF OnePlace
  <2>7. Pending' = {s} \X given
    BY <2>2, <2>4 DEF Pending
  <2>8. Pending' \cap handled = {}
    BY <2>5, <2>7
  <2> QED BY <1>1, <1>4, <1>5, <2>6, <2>7, <2>8 DEF OnceOnly
<1> QED BY <1>6, <1>7 DEF Start

\* A run that ends leaves everything where it is.
LEMMA EndsOnce ==
    ASSUME SStrong, OnceOnly, NEW as \in {"COMPLETED", "CANCELLED"}, EndRun(as), UNCHANGED handled
    PROVE  OnceOnly' /\ Pending' = Pending
<1>1. UNCHANGED <<queue, worker>> /\ stage' = "done" /\ verdict' = as
  BY DEF EndRun
<1>2. \A t \in Stages : \A i : Holds(t, i)' <=> Holds(t, i)
  BY <1>1 DEF Holds
<1>3. OnePlace'
  BY <1>1, <1>2 DEF OnceOnly, OnePlace, Busy
<1>4. NotYet' /\ Ended'
  BY <1>1 DEF NotYet, Ended, Before
<1> QED BY <1>1, <1>2, <1>3, <1>4, SamePending DEF OnceOnly

runs == <<Pending, handled, told, cancelled, verdict>>

\* What a worker does is a step of ScanRun, or none.
LEMMA WorkKeepsPromise ==
    ASSUME SStrong, OnceOnly, WorkersOK, TablesOK, Counted, NEW w \in Stages \X Workers, Work(w)
    PROVE  OnceOnly' /\ [Run!Next]_runs
<1> USE DEF pool, results
<1>1. Shape
  BY DEF SStrong
<1>2. Busy(w) => stage = w[1] /\ verdict = "RUNNING"
  <2>1. PICK s \in Stages, x \in Workers : w = <<s, x>>
    OBVIOUS
  <2>2. Busy(w) => worker[<<s, x>>] # Off
    BY <2>1 DEF Busy, Off
  <2>3. Busy(w) => stage = s
    BY <2>2 DEF SStrong, OnePool
  <2> QED BY <2>1, <2>3 DEF OnceOnly, Ended, Stages
<1>3. ASSUME NEW new, Becomes(w, new), Busy(w), new.at \notin {"off", "free"},
             new.item = worker[w].item, UNCHANGED <<stage, queue, handled, cancelled, verdict>>,
             \/ UNCHANGED told
             \/ \E u \in InScope : told[u] = 0 /\ told' = [told EXCEPT ![u] = 1]
      PROVE  OnceOnly' /\ [Run!Next]_runs
  <2>1. OnceOnly' /\ Pending' = Pending
    BY <1>1, <1>3, KeepsPlace
  <2>2. CASE UNCHANGED told
    BY <1>3, <2>1, <2>2 DEF runs
  <2>3. CASE \E u \in InScope : told[u] = 0 /\ told' = [told EXCEPT ![u] = 1]
    <3>1. \E u \in InScope : Run!Report(u)
      BY <1>2, <1>3, <2>1, <2>3 DEF Run!Report
    <3> QED BY <2>1, <3>1 DEF Run!Next
  <2> QED BY <1>3, <2>2, <2>3
<1>4. ASSUME Busy(w), Returns(w), UNCHANGED <<stage, queue, told, cancelled, verdict>>
      PROVE  OnceOnly' /\ [Run!Next]_runs
  <2> DEFINE x == <<w[1], worker[w].item>>
  <2>1. OnceOnly' /\ x \in Pending /\ Pending' = Pending \ {x} /\ handled' = handled \cup {x}
    BY <1>1, <1>2, <1>4, LetsGo DEF Returns
  <2>2. Run!Handle(x)
    BY <1>2, <1>4, <2>1 DEF Run!Handle
  <2> HIDE DEF x
  <2> QED BY <2>1, <2>2 DEF Run!Next
<1>5. worker[w].at \notin {"off", "free"} => Busy(w)
  BY DEF Busy
<1>6. CASE Take(w)
  <2>1. OnceOnly' /\ Pending' = Pending
    BY <1>1, <1>6, TakenOnce
  <2> QED BY <1>6, <2>1 DEF Take, runs
<1>7. CASE Leave(w)
  <2>1. /\ Becomes(w, Off)
        /\ UNCHANGED <<stage, queue, told, cancelled, handled, verdict>>
    BY <1>7 DEF Leave
  <2>2. CASE ~Busy(w)
    <3>1. OnceOnly' /\ Pending' = Pending
      BY <1>1, <2>1, <2>2, LeavesFree
    <3> QED BY <2>1, <3>1 DEF runs
  <2>3. CASE Busy(w)
    <3> DEFINE x == <<w[1], worker[w].item>>
    <3>1. cancelled
      BY <1>7, <2>3 DEF Leave, Busy, Free
    <3>2. OnceOnly' /\ x \in Pending /\ Pending' = Pending \ {x}
      BY <1>1, <1>2, <2>1, <2>3, LetsGo
    <3>3. Run!Drop(x)
      BY <1>2, <2>1, <2>3, <3>1, <3>2 DEF Run!Drop
    <3> HIDE DEF x
    <3> QED BY <3>2, <3>3 DEF Run!Next
  <2> QED BY <2>2, <2>3
<1>8. CASE TakeToken(w)
  <2> DEFINE new == IF w[1] = "crawl"
                  THEN [at |-> "crawl", item |-> worker[w].item, list |-> Listed[worker[w].item],
                        front |-> <<[url |-> worker[w].item, depth |-> 0]>>, count |-> 0]
                  ELSE [at |-> w[1], item |-> worker[w].item]
  <2>1. Becomes(w, new) /\ worker[w].at = "wait"
        /\ UNCHANGED <<stage, queue, told, cancelled, handled, verdict>>
    BY <1>8 DEF TakeToken
  <2>2. new.at \in Stages /\ new.item = worker[w].item
    BY DEF Stages
  <2>3. new.at \notin {"off", "free"}
    BY <2>2 DEF Stages
  <2> HIDE DEF new
  <2> QED BY <1>3, <1>5, <2>1, <2>2, <2>3
<1>9. ASSUME NEW a \in {"resolved", "answered"},
             Becomes(w, [worker[w] EXCEPT !.at = a]), worker[w].at \in {"dns", "http"},
             UNCHANGED <<stage, queue, told, cancelled, handled, verdict>>
      PROVE  OnceOnly' /\ [Run!Next]_runs
  <2> DEFINE new == [worker[w] EXCEPT !.at = a]
  <2>1. new.at = a /\ new.item = worker[w].item
    BY <1>9 DEF SStrong, Shape
  <2>2. Becomes(w, new)
    BY <1>9
  <2> HIDE DEF new
  <2> QED BY <1>3, <1>5, <1>9, <2>1, <2>2
<1>10. CASE ResolveHost(w)
  <2>1. worker[w].at = "dns" /\ UNCHANGED <<stage, queue, told, cancelled, verdict>>
    BY <1>10 DEF ResolveHost
  <2>2. \/ Becomes(w, [worker[w] EXCEPT !.at = "resolved"]) /\ UNCHANGED handled
        \/ Returns(w)
    BY <1>10 DEF ResolveHost
  <2> QED BY <1>4, <1>5, <1>9, <2>1, <2>2
<1>11. CASE ProbeHost(w)
  <2>1. worker[w].at = "http" /\ UNCHANGED <<stage, queue, told, cancelled, verdict>>
    BY <1>11 DEF ProbeHost
  <2>2. \/ Becomes(w, [worker[w] EXCEPT !.at = "answered"]) /\ UNCHANGED handled
        \/ Returns(w)
    BY <1>11 DEF ProbeHost
  <2> QED BY <1>4, <1>5, <1>9, <2>1, <2>2
<1>12. CASE MarkResolved(w) \/ MarkLive(w) \/ CrawlReturns(w)
  BY <1>4, <1>5, <1>12 DEF MarkResolved, MarkLive, CrawlReturns
<1>13. ASSUME NEW u \in URLs, u \in InScope, CheckAndAddURL(u), Report(u)
       PROVE  told[u] = 0 /\ told' = [told EXCEPT ![u] = 1]
  <2>1. told[u] = 0
    BY <1>13 DEF Counted, CheckAndAddURL
  <2>2. (IF told[u] < 2 THEN told[u] + 1 ELSE told[u]) = 1
    BY <2>1
  <2> QED BY <1>13, <2>1, <2>2 DEF Report
<1>14. ASSUME worker[w].at \in {"crawl", "fetch"}
       PROVE  /\ worker[w] \in Crawls
              /\ \A list : [worker[w] EXCEPT !.list = list].at = worker[w].at
              /\ \A list : [worker[w] EXCEPT !.list = list].item = worker[w].item
  BY <1>14, Places DEF Crawls
<1>15. ASSUME NEW u \in URLs, ReportListed(w, u) PROVE OnceOnly' /\ [Run!Next]_runs
  <2> DEFINE new == [worker[w] EXCEPT !.list = @ \ {u}]
  <2>1. worker[w].at = "crawl" /\ UNCHANGED <<stage, queue, cancelled, handled, verdict>>
        /\ Becomes(w, new)
    BY <1>15 DEF ReportListed
  <2>2. new.at = "crawl" /\ new.item = worker[w].item
    BY <1>14, <2>1
  <2>3. UNCHANGED told \/ \E v \in InScope : told[v] = 0 /\ told' = [told EXCEPT ![v] = 1]
    BY <1>13, <1>15 DEF ReportListed
  <2> HIDE DEF new
  <2> QED BY <1>3, <1>5, <2>1, <2>2, <2>3
<1>16. CASE CrawlNext(w)
  <2> DEFINE q == Head(worker[w].front)
  <2>1. worker[w].at = "crawl" /\ UNCHANGED <<stage, queue, cancelled, handled, verdict>>
    BY <1>16 DEF CrawlNext
  <2>2. PICK new : /\ Becomes(w, new)
                   /\ \/ new = [worker[w] EXCEPT !.at = "fetch", !.count = @ + 1]
                      \/ new = [worker[w] EXCEPT !.front = Tail(@), !.count = @ + 1]
                      \/ new = [worker[w] EXCEPT !.front = Tail(@)]
    BY <1>16 DEF CrawlNext
  <2>3. new.at \in {"crawl", "fetch"} /\ new.item = worker[w].item
    BY <1>14, <2>1, <2>2 DEF Crawls
  <2>4. UNCHANGED told \/ (q.url \in InScope /\ CheckAndAddURL(q.url) /\ Report(q.url))
    BY <1>16 DEF CrawlNext
  <2>5. UNCHANGED told \/ \E v \in InScope : told[v] = 0 /\ told' = [told EXCEPT ![v] = 1]
    BY <1>13, <2>4, StagesAssumption
  <2> QED BY <1>3, <1>5, <2>1, <2>2, <2>3, <2>5
<1>17. CASE FetchLinks(w)
  <2>1. worker[w].at = "fetch" /\ UNCHANGED <<stage, queue, told, cancelled, handled, verdict>>
    BY <1>17 DEF FetchLinks
  <2>2. PICK front : Becomes(w, [worker[w] EXCEPT !.at = "crawl", !.front = front])
    BY <1>17 DEF FetchLinks
  <2> DEFINE new == [worker[w] EXCEPT !.at = "crawl", !.front = front]
  <2>3. new.at = "crawl" /\ new.item = worker[w].item
    BY <1>14, <2>1 DEF Crawls
  <2>4. Becomes(w, new)
    BY <2>2
  <2> HIDE DEF new
  <2> QED BY <1>3, <1>5, <2>1, <2>3, <2>4
<1> QED BY <1>6, <1>7, <1>8, <1>10, <1>11, <1>12, <1>15, <1>16, <1>17 DEF Work

\* Every step of a run is a step of ScanRun, or none.
LEMMA NextKeepsPromise ==
    SStrong /\ OnceOnly /\ STypeOK /\ Counted /\ [SNext]_<<pg, svars>> => OnceOnly' /\ [Run!Next]_runs
<1> SUFFICES ASSUME SStrong, OnceOnly, WorkersOK, TablesOK, Counted, [SNext]_<<pg, svars>>
             PROVE  OnceOnly' /\ [Run!Next]_runs
  BY Halves
<1>1. ASSUME NEW as, EndRun(as), as = (IF cancelled THEN "CANCELLED" ELSE "COMPLETED"),
             verdict = "RUNNING", \A s \in Stages, x \in Workers : worker[<<s, x>>] = Off,
             UNCHANGED <<cancelled, handled, told>>
      PROVE  OnceOnly' /\ [Run!Next]_runs
  <2>1. OnceOnly' /\ Pending' = Pending /\ verdict' = as
    BY <1>1, EndsOnce DEF EndRun
  <2>2. cancelled \/ Pending = {}
    BY <1>1, NothingWaits
  <2>3. Run!End
    BY <1>1, <2>1, <2>2 DEF Run!End
  <2> QED BY <2>1, <2>3 DEF Run!Next
<1>2. ASSUME NEW s \in Stages, NEW given \in SUBSET (Hosts \cup Seeds), Start(s, given),
             stage \in Before(s), ~cancelled, verdict = "RUNNING",
             \A t \in Stages, x \in Workers : worker[<<t, x>>] = Off,
             UNCHANGED <<cancelled, handled, told, verdict>>
      PROVE  OnceOnly' /\ [Run!Next]_runs
  <2>1. /\ OnceOnly' /\ Pending = {}
        /\ \/ Pending' = Pending
           \/ Pending' = {s} \X given /\ Pending' \cap handled = {}
    BY <1>2, StartsOnce
  <2>2. CASE Pending' = Pending
    BY <1>2, <2>1, <2>2 DEF runs
  <2>3. CASE Pending' = {s} \X given /\ Pending' \cap handled = {}
    <3>1. Run!Submit(s, given)
      BY <1>2, <2>1, <2>3 DEF Run!Submit
    <3> QED BY <2>1, <3>1 DEF Run!Next
  <2> QED BY <2>1, <2>2, <2>3
<1>3. stage # "done" => verdict = "RUNNING"
  BY DEF OnceOnly, Ended
<1>4. ASSUME NEW found \in SUBSET Hosts, Discover(found) PROVE OnceOnly' /\ [Run!Next]_runs
  <2>1. \A s \in Stages, x \in Workers : worker[<<s, x>>] = Off
    BY <1>4 DEF Discover, SStrong, OnePool, Stages
  <2>2. stage = "discover" /\ UNCHANGED <<cancelled, handled, told>>
    BY <1>4 DEF Discover
  <2>3. CASE cancelled
    BY <1>1, <1>3, <1>4, <2>1, <2>2, <2>3 DEF Discover
  <2>4. CASE ~cancelled
    <3>1. Start("dns", found) /\ UNCHANGED verdict
      BY <1>4, <2>4 DEF Discover
    <3>2. "dns" \in Stages /\ stage \in Before("dns") /\ found \in SUBSET (Hosts \cup Seeds)
      BY <2>2 DEF Stages, Before
    <3> QED BY <1>2, <1>3, <2>1, <2>2, <2>4, <3>1, <3>2
  <2> QED BY <2>3, <2>4
<1>5. CASE Advance
  <2>1. \A s \in Stages, x \in Workers : worker[<<s, x>>] = Off
    BY <1>5 DEF Advance, PoolIsDone, SStrong, OnePool
  <2>2. stage \in Stages /\ verdict = "RUNNING" /\ UNCHANGED <<cancelled, handled, told>>
    BY <1>3, <1>5 DEF Advance, Stages, results
  <2>3. CASE cancelled
    BY <1>1, <1>5, <2>1, <2>2, <2>3 DEF Advance
  <2>4. CASE ~cancelled /\ stage = "dns"
    <3>1. Start("http", resolved \X Schemes) /\ UNCHANGED verdict
      BY <1>5, <2>4 DEF Advance
    <3>2. /\ "http" \in Stages /\ stage \in Before("http")
          /\ resolved \X Schemes \in SUBSET (Hosts \cup Seeds)
      BY <2>4 DEF Stages, Before, TablesOK, Seeds
    <3> QED BY <1>2, <2>1, <2>2, <2>4, <3>1, <3>2
  <2>5. CASE ~cancelled /\ stage = "http"
    <3>1. Start("crawl", live) /\ UNCHANGED verdict
      BY <1>5, <2>5 DEF Advance
    <3>2. "crawl" \in Stages /\ stage \in Before("crawl") /\ live \in SUBSET (Hosts \cup Seeds)
      BY <2>5 DEF Stages, Before, TablesOK
    <3> QED BY <1>2, <2>1, <2>2, <2>5, <3>1, <3>2
  <2>6. CASE ~cancelled /\ stage = "crawl"
    BY <1>1, <1>5, <2>1, <2>2, <2>6 DEF Advance
  <2> QED BY <2>2, <2>3, <2>4, <2>5, <2>6 DEF Stages
<1>6. ASSUME UNCHANGED <<stage, queue, worker, handled, verdict, told>>
      PROVE  OnceOnly' /\ Pending' = Pending
  <2>1. \A t \in Stages : \A i : Holds(t, i)' <=> Holds(t, i)
    BY <1>6 DEF Holds
  <2>2. OnceOnly'
    BY <1>6, <2>1 DEF OnceOnly, OnePlace, NotYet, Ended, Before, Busy
  <2> QED BY <1>6, <2>1, <2>2, SamePending
<1>7. CASE Tick
  BY <1>6, <1>7 DEF Tick, pool, results, runs
<1>8. CASE Cancel
  <2>1. UNCHANGED <<stage, queue, worker, handled, verdict, told>> /\ cancelled' = TRUE
        /\ verdict = "RUNNING"
    BY <1>3, <1>8 DEF Cancel, pool, results
  <2>2. OnceOnly' /\ Pending' = Pending
    BY <1>6, <2>1
  <2>3. Run!Cancel
    BY <2>1, <2>2 DEF Run!Cancel
  <2> QED BY <2>2, <2>3 DEF Run!Next
<1>9. ASSUME NEW w \in Stages \X Workers, Work(w) PROVE OnceOnly' /\ [Run!Next]_runs
  BY <1>9, WorkKeepsPromise
<1>10. CASE UNCHANGED <<pg, svars>>
  BY <1>6, <1>10 DEF svars, runs
<1> QED BY <1>4, <1>5, <1>7, <1>8, <1>9, <1>10 DEF SNext, SStep

\* The stages and their workers implement ScanRun: each item is handled once,
\* by one worker, and dropped only under a cancellation; a stage starts when
\* nothing waits; each URL is reported once; and a run ends once, by its verdict.
THEOREM StagesImplementScanRun == SSpec => ImplementsScanRun
<1>1. SInit => Run!Init /\ OnceOnly
  <2> SUFFICES ASSUME SInit PROVE Run!Init /\ OnceOnly
    OBVIOUS
  <2>1. /\ \A s \in Stages : queue[s] = {}
        /\ \A s \in Stages, x \in Workers : worker[<<s, x>>].at = "off"
    BY DEF SInit, Off
  <2>2. \A s \in Stages : \A i : ~Holds(s, i)
    BY <2>1 DEF Holds
  <2>3. Pending = {}
    BY <2>1, <2>2 DEF Pending
  <2>4. OnceOnly
    BY <2>1 DEF SInit, OnceOnly, OnePlace, NotYet, Ended, Busy
  <2> QED BY <2>3, <2>4 DEF SInit, Run!Init
<1>2. SStrong => Shape
  BY DEF SStrong
<1> QED BY <1>1, <1>2, InitSStrong, NextSStrong, NextCounted, InitSTyped, NextSTyped,
           NextKeepsPromise, PTL DEF SSpec, ImplementsScanRun, Run!Spec, Run!runvars, runs

-----------------------------------------------------------------------------
(* When every seed of the scope is crawled. *)

\* The sites of the seeds stay apart: reach[s] has the pages the crawl of s can
\* come to, no other seed among them, and no robots.txt or sitemap lists a seed.
Apart(reach) ==
    \A s \in Seeds :
        /\ s \in reach[s] /\ reach[s] \cap Seeds \subseteq {s}
        /\ \A u \in reach[s] : Links[u] \cap InScope \subseteq reach[s]
        /\ Listed[s] \cap Seeds \cap InScope = {}

Crawling(k) == k.at \in {"crawl", "fetch"}

\* A crawl may report pages of its own site only, and as long as nobody knows
\* its seed it has the seed before it and has counted nothing.
Follows(reach, known, k) ==
    /\ k.list \cap Seeds \cap InScope = {}
    /\ \A i \in 1 .. Len(k.front) : k.front[i].url \in InScope => k.front[i].url \in reach[k.item]
    /\ k.item \in InScope \ known => /\ k.at = "crawl" /\ k.count = 0 /\ k.front # <<>>
                                     /\ Head(k.front) = [url |-> k.item, depth |-> 0]

CrawlsFollow(reach) ==
    \A w \in Stages \X Workers : Crawling(worker[w]) => Follows(reach, seen, worker[w])

\* A seed the deduplicator knows was fetched, or is, by its own crawl.
Fetches(k, s) == k.at = "fetch" /\ k.item = s /\ Head(k.front).url = s
SeenAreFetched ==
    \A s \in Seeds \cap seen :
        s \in crawled \/ \E w \in Stages \X Workers : Fetches(worker[w], s)

HandledAreCrawled ==
    ~cancelled => \A s \in Seeds \cap InScope : <<"crawl", s>> \in handled => s \in crawled

Seeded(reach) == CrawlsFollow(reach) /\ SeenAreFetched /\ HandledAreCrawled

\* What does not touch a crawl keeps it.
LEMMA ApartFromCrawls ==
    ASSUME NEW reach, Seeded(reach), UNCHANGED <<seen, crawled>>,
           \A w \in Stages \X Workers :
               worker'[w] = worker[w] \/ (~Crawling(worker[w]) /\ ~Crawling(worker'[w])),
           \A s : <<"crawl", s>> \in handled' => <<"crawl", s>> \in handled,
           cancelled => cancelled'
    PROVE  Seeded(reach)'
<1>1. ASSUME NEW w \in Stages \X Workers, Crawling(worker'[w])
      PROVE  Follows(reach, seen', worker'[w])
  <2>1. worker'[w] = worker[w] /\ Follows(reach, seen, worker[w])
    BY <1>1 DEF Seeded, CrawlsFollow
  <2> QED BY <2>1 DEF Follows
<1>2. \A w \in Stages \X Workers, s \in Seeds : Fetches(worker[w], s) => Fetches(worker'[w], s)
  BY DEF Fetches, Crawling
<1>3. CrawlsFollow(reach)'
  BY <1>1 DEF CrawlsFollow, Crawling
<1>4. SeenAreFetched'
  BY <1>2 DEF Seeded, SeenAreFetched, Fetches
<1>5. HandledAreCrawled'
  BY DEF Seeded, HandledAreCrawled
<1> QED BY <1>3, <1>4, <1>5 DEF Seeded

\* A crawl that goes on as it may keeps the others, and its seed if it fetches it.
LEMMA OneCrawlMoves ==
    ASSUME Shape, NEW reach, Seeded(reach), NEW w \in Stages \X Workers, NEW new, Becomes(w, new),
           seen \subseteq seen', crawled \subseteq crawled', UNCHANGED handled,
           cancelled => cancelled',
           Crawling(new) => Follows(reach, seen', new),
           \A s \in Seeds \cap seen : Fetches(worker[w], s) => s \in crawled' \/ Fetches(new, s),
           \A s \in Seeds \cap (seen' \ seen) : s \in crawled' \/ Fetches(new, s)
    PROVE  Seeded(reach)'
<1>1. \A v \in Stages \X Workers : worker'[v] = IF v = w THEN new ELSE worker[v]
  BY DEF Becomes, Shape
<1>2. CrawlsFollow(reach)'
  <2> SUFFICES ASSUME NEW v \in Stages \X Workers, Crawling(worker'[v])
               PROVE  Follows(reach, seen', worker'[v])
    BY DEF CrawlsFollow, Crawling
  <2>1. CASE v = w
    <3>1. worker'[v] = new
      BY <1>1, <2>1
    <3> QED BY <3>1 DEF Follows
  <2>2. CASE v # w
    <3>1. worker'[v] = worker[v]
      BY <1>1, <2>2
    <3>2. Follows(reach, seen, worker[v])
      BY <3>1 DEF Seeded, CrawlsFollow
    <3> QED BY <3>1, <3>2 DEF Follows
  <2> QED BY <2>1, <2>2
<1>3. SeenAreFetched'
  <2> SUFFICES ASSUME NEW s \in Seeds, s \in seen', s \notin crawled'
               PROVE  \E v \in Stages \X Workers : Fetches(worker'[v], s)
    BY DEF SeenAreFetched, Fetches
  <2>1. CASE s \notin seen
    BY <1>1, <2>1
  <2>2. CASE s \in seen
    <3>1. PICK v \in Stages \X Workers : Fetches(worker[v], s)
      BY <2>2 DEF Seeded, SeenAreFetched
    <3>2. Fetches(worker'[v], s)
      BY <1>1, <2>2, <3>1
    <3> QED BY <3>2
  <2> QED BY <2>1, <2>2
<1>4. HandledAreCrawled'
  BY DEF Seeded, HandledAreCrawled
<1> QED BY <1>2, <1>3, <1>4 DEF Seeded

\* The first of a queue and the rest of it, place by place.
LEMMA FirstAndRest ==
    ASSUME NEW S, NEW front \in Seq(S), front # <<>>
    PROVE  /\ Len(front) \in Nat /\ 1 \in 1 .. Len(front) /\ Head(front) = front[1]
           /\ Tail(front) \in Seq(S) /\ Len(Tail(front)) = Len(front) - 1
           /\ \A i \in 1 .. Len(Tail(front)) :
                 Tail(front)[i] = front[i + 1] /\ i + 1 \in 1 .. Len(front)
  OBVIOUS

\* What follows from one of a crawl's pages does not leave its site.
LEMMA RestFollows ==
    ASSUME NEW front \in Seq([url : URLs, depth : 0 .. MaxDepth]), front # <<>>, NEW site,
           \A i \in 1 .. Len(front) : front[i].url \in InScope => front[i].url \in site
    PROVE  /\ Head(front).url \in InScope => Head(front).url \in site
           /\ \A i \in 1 .. Len(Tail(front)) :
                 Tail(front)[i].url \in InScope => Tail(front)[i].url \in site
<1>1. Head(front) = front[1] /\ 1 \in 1 .. Len(front)
  BY FirstAndRest
<1>2. \A i \in 1 .. Len(Tail(front)) : Tail(front)[i] = front[i + 1] /\ i + 1 \in 1 .. Len(front)
  BY FirstAndRest
<1> QED BY <1>1, <1>2

\* A crawl begins at its seed, with what robots.txt and the sitemap list.
LEMMA TokenSeeds ==
    ASSUME Shape, WorkersOK, NEW reach, Apart(reach), Seeded(reach),
           NEW w \in Stages \X Workers, TakeToken(w)
    PROVE  Seeded(reach)'
<1>1. worker[w].at = "wait" /\ UNCHANGED <<seen, crawled, handled, cancelled>>
  BY DEF TakeToken, results
<1>2. ~Crawling(worker[w]) /\ \A s : ~Fetches(worker[w], s)
  BY <1>1 DEF Crawling, Fetches
<1>3. CASE w[1] = "crawl"
  <2> DEFINE s == worker[w].item
             new == [at |-> "crawl", item |-> s, list |-> Listed[s],
                     front |-> <<[url |-> s, depth |-> 0]>>, count |-> 0]
  <2>1. s \in Seeds
    BY <1>1, <1>3, Places DEF ItemsOf
  <2>2. Becomes(w, new)
    BY <1>3 DEF TakeToken
  <2>3. /\ new.at = "crawl" /\ new.item = s /\ new.list = Listed[s] /\ new.count = 0
        /\ Len(new.front) = 1 /\ new.front[1] = [url |-> s, depth |-> 0]
        /\ new.front # <<>> /\ Head(new.front) = [url |-> s, depth |-> 0]
    OBVIOUS
  <2> HIDE DEF new, s
  <2>4. Follows(reach, seen', new)
    <3>1. new.list \cap Seeds \cap InScope = {}
      BY <2>1, <2>3 DEF Apart
    <3>2. \A i \in 1 .. Len(new.front) : new.front[i].url \in reach[new.item]
      BY <2>1, <2>3 DEF Apart
    <3> QED BY <2>3, <3>1, <3>2 DEF Follows
  <2> QED BY <1>1, <1>2, <2>2, <2>4, OneCrawlMoves
<1>4. CASE w[1] # "crawl"
  <2>1. Becomes(w, [at |-> w[1], item |-> worker[w].item])
    BY <1>4 DEF TakeToken
  <2>2. w[1] \notin {"crawl", "fetch"}
    BY <1>4 DEF Stages
  <2>3. ~Crawling([at |-> w[1], item |-> worker[w].item])
    BY <2>2 DEF Crawling
  <2>4. \A v \in Stages \X Workers :
           worker'[v] = IF v = w THEN [at |-> w[1], item |-> worker[w].item] ELSE worker[v]
    BY <2>1 DEF Becomes, Shape
  <2> QED BY <1>1, <1>2, <2>3, <2>4, ApartFromCrawls
<1> QED BY <1>3, <1>4

\* Listed URLs are no seeds.
LEMMA ListedSeeds ==
    ASSUME Shape, WorkersOK, NEW reach, Apart(reach), Seeded(reach),
           NEW w \in Stages \X Workers, NEW u \in URLs, ReportListed(w, u)
    PROVE  Seeded(reach)'
<1> DEFINE k == worker[w]
           new == [k EXCEPT !.list = @ \ {u}]
<1>1. /\ k.at = "crawl" /\ u \in k.list /\ Becomes(w, new)
      /\ UNCHANGED <<crawled, handled, cancelled>>
      /\ seen' = seen \/ (u \in InScope /\ seen' = seen \cup {u})
  BY DEF ReportListed, CheckAndAddURL
<1>2. k \in Crawls /\ Follows(reach, seen, k)
  BY <1>1, Places DEF Seeded, CrawlsFollow, Crawling
<1>3. /\ new.at = "crawl" /\ new.item = k.item /\ new.list = k.list \ {u}
      /\ new.front = k.front /\ new.count = k.count
  BY <1>1, <1>2 DEF Crawls
<1>4. u \in InScope => u \notin Seeds
  BY <1>1, <1>2 DEF Follows
<1> HIDE DEF new
<1>5. Follows(reach, seen', new)
  <2> HIDE DEF k
  <2> QED BY <1>1, <1>2, <1>3 DEF Follows
<1>6. seen \subseteq seen' /\ \A s \in Seeds : s \notin seen' \ seen
  BY <1>1, <1>4
<1>7. \A s : ~Fetches(k, s)
  BY <1>1 DEF Fetches
<1> QED BY <1>1, <1>5, <1>6, <1>7, OneCrawlMoves

\* The crawl that first meets a seed is the seed's own, which then fetches it.
LEMMA NextSeeds ==
    ASSUME Shape, WorkersOK, NEW reach, Apart(reach), Seeded(reach), MaxDepth > 0,
           NEW w \in Stages \X Workers, CrawlNext(w)
    PROVE  Seeded(reach)'
<1> DEFINE k == worker[w]
           q == Head(k.front)
           fetches == [k EXCEPT !.at = "fetch", !.count = @ + 1]
           counts == [k EXCEPT !.front = Tail(@), !.count = @ + 1]
           drops == [k EXCEPT !.front = Tail(@)]
<1>1. k.at = "crawl" /\ k.front # <<>> /\ UNCHANGED <<crawled, handled, cancelled>>
  BY DEF CrawlNext
<1>2. k \in Crawls /\ Follows(reach, seen, k)
  BY <1>1, Places DEF Seeded, CrawlsFollow, Crawling
<1>3. k.item \in Seeds /\ k.front \in Seq([url : URLs, depth : 0 .. MaxDepth])
  BY <1>2 DEF Crawls
<1>4. \/ /\ q.url \in InScope /\ seen' = seen \cup {q.url}
         /\ IF q.depth < MaxDepth THEN Becomes(w, fetches) ELSE Becomes(w, counts)
      \/ q.url \notin InScope \cap (URLs \ seen) /\ Becomes(w, drops) /\ seen' = seen
  BY DEF CrawlNext, CheckAndAddURL
<1>5. /\ q.url \in InScope => q.url \in reach[k.item]
      /\ \A i \in 1 .. Len(Tail(k.front)) :
            Tail(k.front)[i].url \in InScope => Tail(k.front)[i].url \in reach[k.item]
  <2>1. \A i \in 1 .. Len(k.front) : k.front[i].url \in InScope => k.front[i].url \in reach[k.item]
    BY <1>2 DEF Follows
  <2> HIDE DEF k
  <2> QED BY <1>1, <1>3, <2>1, RestFollows
<1>6. q.url \in InScope /\ q.url \in Seeds => q.url = k.item
  BY <1>3, <1>5 DEF Apart
<1>7. k.item \in InScope \ seen => q.url = k.item /\ q.depth = 0
  BY <1>2 DEF Follows
<1>8. k.list \cap Seeds \cap InScope = {}
  BY <1>2 DEF Follows
<1>9. /\ fetches.at = "fetch" /\ fetches.item = k.item /\ fetches.list = k.list
      /\ fetches.front = k.front
      /\ counts.at = "crawl" /\ counts.item = k.item /\ counts.list = k.list
      /\ counts.front = Tail(k.front)
      /\ drops.at = "crawl" /\ drops.item = k.item /\ drops.list = k.list
      /\ drops.front = Tail(k.front)
  <2>1. DOMAIN k = {"at", "item", "list", "front", "count"} /\ k.at = "crawl"
    BY <1>1, <1>2 DEF Crawls
  <2> HIDE DEF k
  <2>2. fetches.at = "fetch" /\ fetches.item = k.item /\ fetches.list = k.list /\ fetches.front = k.front
    BY <2>1
  <2>3. counts.at = k.at /\ counts.item = k.item /\ counts.list = k.list /\ counts.front = Tail(k.front)
    BY <2>1
  <2>4. drops.at = k.at /\ drops.item = k.item /\ drops.list = k.list /\ drops.front = Tail(k.front)
    BY <2>1
  <2> QED BY <2>1, <2>2, <2>3, <2>4
<1>10. seen \subseteq seen' /\ \A s : ~Fetches(k, s)
  BY <1>1, <1>4 DEF Fetches
<1> HIDE DEF fetches, counts, drops
<1>11. CASE q.url \in InScope /\ seen' = seen \cup {q.url} /\ q.depth < MaxDepth /\ Becomes(w, fetches)
  <2>1. Follows(reach, seen', fetches)
    <3>1. \A i \in 1 .. Len(k.front) :
             k.front[i].url \in InScope => k.front[i].url \in reach[k.item]
      BY <1>2 DEF Follows
    <3>2. k.item \notin InScope \ seen'
      BY <1>7, <1>11
    <3> HIDE DEF k
    <3> QED BY <1>8, <1>9, <3>1, <3>2 DEF Follows
  <2>2. \A s \in Seeds \cap (seen' \ seen) : Fetches(fetches, s)
    BY <1>6, <1>9, <1>11 DEF Fetches
  <2> QED BY <1>1, <1>10, <1>11, <2>1, <2>2, OneCrawlMoves
<1>12. CASE q.url \in InScope /\ seen' = seen \cup {q.url} /\ ~(q.depth < MaxDepth) /\ Becomes(w, counts)
  <2>1. k.item \notin InScope \ seen
    BY <1>7, <1>12
  <2>2. Follows(reach, seen', counts)
    <3> HIDE DEF k
    <3> QED BY <1>5, <1>8, <1>9, <1>12, <2>1 DEF Follows
  <2>3. \A s \in Seeds : s \notin seen' \ seen
    BY <1>6, <1>12, <2>1
  <2> QED BY <1>1, <1>10, <1>12, <2>2, <2>3, OneCrawlMoves
<1>13. CASE q.url \notin InScope \cap (URLs \ seen) /\ Becomes(w, drops) /\ seen' = seen
  <2>1. k.item \notin InScope \ seen
    BY <1>3, <1>7, <1>13 DEF URLs
  <2>2. Follows(reach, seen', drops)
    <3> HIDE DEF k
    <3> QED BY <1>5, <1>8, <1>9, <1>13, <2>1 DEF Follows
  <2> QED BY <1>1, <1>10, <1>13, <2>2, OneCrawlMoves
<1> QED BY <1>4, <1>11, <1>12, <1>13

\* Two queues one after the other, place by place.
LEMMA Appended ==
    ASSUME NEW S, NEW T, NEW a \in Seq(S), NEW b \in Seq(T)
    PROVE  /\ Len(a) \in Nat /\ Len(b) \in Nat /\ Len(a \o b) = Len(a) + Len(b)
           /\ \A i \in 1 .. Len(a \o b) :
                 (a \o b)[i] = IF i <= Len(a) THEN a[i] ELSE b[i - Len(a)]
<1>1. Len(a) \in Nat /\ Len(b) \in Nat
  OBVIOUS
<1>2. Len(a \o b) = Len(a) + Len(b)
  OBVIOUS
<1>3. ASSUME NEW i \in 1 .. Len(a \o b)
      PROVE  (a \o b)[i] = IF i <= Len(a) THEN a[i] ELSE b[i - Len(a)]
  OBVIOUS
<1> QED BY <1>1, <1>2, <1>3

\* The links of a page of a site are of the site.
LEMMA FetchSeeds ==
    ASSUME Shape, WorkersOK, NEW reach, Apart(reach), Seeded(reach),
           NEW w \in Stages \X Workers, FetchLinks(w)
    PROVE  Seeded(reach)'
<1> DEFINE k == worker[w]
           q == Head(k.front)
<1>1. k.at = "fetch" /\ crawled' = crawled \cup {q.url} /\ UNCHANGED <<seen, handled, cancelled>>
  BY DEF FetchLinks
<1>2. k \in Crawls /\ Follows(reach, seen, k) /\ k.front # <<>> /\ q.url \in InScope
  BY <1>1, Places DEF Seeded, CrawlsFollow, Crawling, WorkersOK, FetchesInScope
<1>3. k.item \in Seeds /\ k.front \in Seq([url : URLs, depth : 0 .. MaxDepth])
  BY <1>2 DEF Crawls
<1>4. PICK us \in {{}, IF cancelled THEN {} ELSE Links[q.url]} :
         \E f \in [1 .. Cardinality(us) -> us] :
            Becomes(w, [k EXCEPT !.at = "crawl", !.front = Tail(@) \o
                           [i \in DOMAIN f |-> [url |-> f[i], depth |-> q.depth + 1]]])
  BY DEF FetchLinks
<1>5. PICK f \in [1 .. Cardinality(us) -> us] :
         Becomes(w, [k EXCEPT !.at = "crawl", !.front = Tail(@) \o
                        [i \in DOMAIN f |-> [url |-> f[i], depth |-> q.depth + 1]]])
  BY <1>4
<1> DEFINE found == [i \in DOMAIN f |-> [url |-> f[i], depth |-> q.depth + 1]]
           front == Tail(k.front) \o found
           new == [k EXCEPT !.at = "crawl", !.front = front]
<1>6. Becomes(w, new)
  BY <1>5
<1>7. new.at = "crawl" /\ new.item = k.item /\ new.list = k.list /\ new.front = front
  BY <1>2 DEF Crawls
<1>8. /\ q.url \in reach[k.item]
      /\ \A i \in 1 .. Len(Tail(k.front)) :
            Tail(k.front)[i].url \in InScope => Tail(k.front)[i].url \in reach[k.item]
  <2>1. \A i \in 1 .. Len(k.front) : k.front[i].url \in InScope => k.front[i].url \in reach[k.item]
    BY <1>2 DEF Follows
  <2>2. q.url \in InScope
    BY <1>2
  <2> HIDE DEF k
  <2> QED BY <1>2, <1>3, <2>1, <2>2, RestFollows
<1>9. Cardinality(us) \in Nat /\ q.url \in URLs
  <2>1. q.url \in URLs
    BY <1>2, StagesAssumption
  <2>2. IsFiniteSet(us)
    BY <1>4, <2>1, StagesAssumption, FS_EmptySet
  <2> QED BY <2>1, <2>2, FS_CardinalityType
<1>10. \A i \in 1 .. Cardinality(us) : found[i].url \in InScope => found[i].url \in reach[k.item]
  <2>1. us \cap InScope \subseteq reach[k.item]
    BY <1>3, <1>4, <1>8 DEF Apart
  <2> QED BY <2>1
<1>11. \A i \in 1 .. Len(front) : front[i].url \in InScope => front[i].url \in reach[k.item]
  <2> DEFINE rest0 == Tail(k.front)
  <2>1. rest0 \in Seq([url : URLs, depth : 0 .. MaxDepth])
    BY <1>2, <1>3, FirstAndRest
  <2>2. found \in [1 .. Cardinality(us) -> {found[i] : i \in 1 .. Cardinality(us)}]
    OBVIOUS
  <2> HIDE DEF found, rest0
  <2>3. found \in Seq({found[i] : i \in 1 .. Cardinality(us)}) /\ Len(found) = Cardinality(us)
    BY <1>9, <2>2
  <2>4. \A i \in 1 .. Len(rest0 \o found) :
           \/ i \in 1 .. Len(rest0) /\ (rest0 \o found)[i] = rest0[i]
           \/ \E n \in 1 .. Cardinality(us) : (rest0 \o found)[i] = found[n]
    <3>1. Len(rest0) \in Nat /\ Len(rest0 \o found) = Len(rest0) + Cardinality(us)
      BY <2>1, <2>3, Appended
    <3>2. \A i \in 1 .. Len(rest0 \o found) :
             (rest0 \o found)[i] = IF i <= Len(rest0) THEN rest0[i] ELSE found[i - Len(rest0)]
      BY <2>1, <2>3, Appended
    <3>3. \A i \in 1 .. Len(rest0 \o found) : i > Len(rest0) => i - Len(rest0) \in 1 .. Cardinality(us)
      BY <1>9, <3>1
    <3> QED BY <3>1, <3>2, <3>3
  <2> QED BY <1>8, <1>10, <2>4 DEF rest0
<1> HIDE DEF new, front, found
<1>12. k.list \cap Seeds \cap InScope = {} /\ k.item \notin InScope \ seen
  BY <1>1, <1>2 DEF Follows
<1>13. Follows(reach, seen', new)
  <2> HIDE DEF k
  <2> QED BY <1>1, <1>7, <1>11, <1>12 DEF Follows
<1>14. \A s : Fetches(k, s) => s \in crawled'
  BY <1>1 DEF Fetches
<1> QED BY <1>1, <1>6, <1>13, <1>14, OneCrawlMoves

\* A crawl that returns has had its seed fetched: no other worker has the item.
LEMMA ReturnSeeds ==
    ASSUME Shape, WorkersOK, OnceOnly, NEW reach, Seeded(reach), MaxDepth > 0,
           MaxURLsPerHost > 0, NEW w \in Stages \X Workers, CrawlReturns(w)
    PROVE  Seeded(reach)'
<1> DEFINE k == worker[w]
<1>1. /\ k.at = "crawl" /\ Becomes(w, Free) /\ UNCHANGED <<seen, crawled, cancelled>>
      /\ handled' = handled \cup {<<w[1], k.item>>}
      /\ k.front = <<>> \/ k.count >= MaxURLsPerHost \/ cancelled
  BY DEF CrawlReturns, Returns, results
<1>2. k \in Crawls /\ Follows(reach, seen, k) /\ w[1] = "crawl"
  BY <1>1, Places DEF Seeded, CrawlsFollow, Crawling
<1>3. \A v \in Stages \X Workers : worker'[v] = IF v = w THEN Free ELSE worker[v]
  BY <1>1 DEF Becomes, Shape
<1>4. ~Crawling(Free) /\ Free.at # "fetch"
  BY DEF Crawling, Free
<1>5. CrawlsFollow(reach)'
  <2> SUFFICES ASSUME NEW v \in Stages \X Workers, Crawling(worker'[v])
               PROVE  Follows(reach, seen', worker'[v])
    BY DEF CrawlsFollow, Crawling
  <2>1. worker'[v] = worker[v] /\ Follows(reach, seen, worker[v])
    BY <1>3, <1>4 DEF Seeded, CrawlsFollow
  <2> QED BY <1>1, <2>1 DEF Follows
<1>6. SeenAreFetched'
  <2> SUFFICES ASSUME NEW s \in Seeds, s \in seen, s \notin crawled
               PROVE  \E v \in Stages \X Workers : Fetches(worker'[v], s)
    BY <1>1 DEF SeenAreFetched, Fetches
  <2>1. PICK v \in Stages \X Workers : Fetches(worker[v], s)
    BY DEF Seeded, SeenAreFetched
  <2>2. v # w
    BY <1>1, <2>1 DEF Fetches
  <2> QED BY <1>3, <2>1, <2>2
<1>7. ASSUME ~cancelled, k.item \in InScope PROVE k.item \in crawled
  <2>1. k.item \in Seeds /\ k.item \in seen
    <3>1. k.item \in Seeds
      BY <1>2 DEF Crawls
    <3>2. ASSUME k.item \notin seen PROVE FALSE
      <4>1. k.count = 0 /\ k.front # <<>>
        BY <1>2, <1>7, <3>2 DEF Follows
      <4>2. MaxURLsPerHost \in Nat /\ ~(0 >= MaxURLsPerHost)
        BY StagesAssumption
      <4> QED BY <1>1, <1>7, <4>1, <4>2
    <3> QED BY <3>1, <3>2
  <2> SUFFICES ASSUME NEW v \in Stages \X Workers, Fetches(worker[v], k.item)
               PROVE  FALSE
    BY <2>1 DEF Seeded, SeenAreFetched
  <2>2. v[1] = "crawl"
    BY Places DEF Fetches
  <2>3. PICK x \in Workers, y \in Workers : w = <<"crawl", x>> /\ v = <<"crawl", y>>
    BY <1>2, <2>2
  <2>4. /\ worker[<<"crawl", x>>].at = "crawl" /\ worker[<<"crawl", y>>].at = "fetch"
        /\ worker[<<"crawl", y>>].item = worker[<<"crawl", x>>].item
    BY <1>1, <2>3 DEF Fetches
  <2>5. x = y
    BY <2>4 DEF OnceOnly, OnePlace, Busy, Stages
  <2> QED BY <2>4, <2>5
<1>8. HandledAreCrawled'
  BY <1>1, <1>7 DEF Seeded, HandledAreCrawled
<1> QED BY <1>5, <1>6, <1>8 DEF Seeded

\* No step of a run loses a seed.
LEMMA NextSeeded ==
    ASSUME SStrong, WorkersOK, OnceOnly, NEW reach, Apart(reach), Seeded(reach),
           MaxDepth > 0, MaxURLsPerHost > 0, [SNext]_<<pg, svars>>
    PROVE  Seeded(reach)'
<1> USE DEF pool, results
<1>1. Shape
  BY DEF SStrong
<1>2. ~Crawling(Off) /\ ~Crawling(Free)
  BY DEF Crawling, Off, Free
<1>3. ASSUME NEW s \in Stages, NEW given, Start(s, given), UNCHANGED <<seen, crawled, handled, cancelled>>,
             \A t \in Stages, x \in Workers : worker[<<t, x>>] = Off
      PROVE  Seeded(reach)'
  <2>1. \A v \in Stages \X Workers : worker[v] = Off
    BY <1>3
  <2>2. \A v \in Stages \X Workers : worker'[v] \in {Off, Free}
    BY <1>1, <1>3, <2>1 DEF Start, Shape
  <2> QED BY <1>2, <1>3, <2>1, <2>2, ApartFromCrawls
<1>4. ASSUME NEW as, EndRun(as), UNCHANGED <<seen, crawled, handled, cancelled>>
      PROVE  Seeded(reach)'
  BY <1>4, ApartFromCrawls DEF EndRun
<1>5. ASSUME NEW found \in SUBSET Hosts, Discover(found) PROVE Seeded(reach)'
  <2>1. \A t \in Stages, x \in Workers : worker[<<t, x>>] = Off
    BY <1>5 DEF Discover, SStrong, OnePool, Stages
  <2>2. UNCHANGED <<seen, crawled, handled, cancelled>> /\ "dns" \in Stages
    BY <1>5 DEF Discover, Stages
  <2>3. EndRun("CANCELLED") \/ Start("dns", found)
    BY <1>5 DEF Discover
  <2> QED BY <1>3, <1>4, <2>1, <2>2, <2>3
<1>6. CASE Advance
  <2>1. \A t \in Stages, x \in Workers : worker[<<t, x>>] = Off
    BY <1>6 DEF Advance, PoolIsDone, SStrong, OnePool
  <2>2. UNCHANGED <<seen, crawled, handled, cancelled>> /\ {"http", "crawl"} \subseteq Stages
    BY <1>6 DEF Advance, Stages
  <2>3. \/ EndRun("CANCELLED") \/ EndRun("COMPLETED")
        \/ Start("http", resolved \X Schemes) \/ Start("crawl", live)
    BY <1>6 DEF Advance
  <2> QED BY <1>3, <1>4, <2>1, <2>2, <2>3
<1>7. CASE Tick \/ Cancel \/ UNCHANGED <<pg, svars>>
  BY <1>7, ApartFromCrawls DEF Tick, Cancel, svars
<1>8. ASSUME NEW w \in Stages \X Workers, NEW new, Becomes(w, new), ~Crawling(worker[w]),
             ~Crawling(new), UNCHANGED <<seen, crawled, cancelled>>,
             \A s : <<"crawl", s>> \in handled' => <<"crawl", s>> \in handled
      PROVE  Seeded(reach)'
  <2>1. \A v \in Stages \X Workers : worker'[v] = IF v = w THEN new ELSE worker[v]
    BY <1>1, <1>8 DEF Becomes, Shape
  <2> QED BY <1>8, <2>1, ApartFromCrawls
<1>9. ASSUME NEW w \in Stages \X Workers, Take(w) PROVE Seeded(reach)'
  <2>1. PICK i \in queue[w[1]] : Becomes(w, [at |-> "wait", item |-> i])
    BY <1>9 DEF Take
  <2>2. worker[w] = Free /\ UNCHANGED <<seen, crawled, cancelled, handled>>
    BY <1>9 DEF Take
  <2>3. ~Crawling([at |-> "wait", item |-> i])
    BY DEF Crawling
  <2> QED BY <1>2, <1>8, <2>1, <2>2, <2>3
<1>10. ASSUME NEW w \in Stages \X Workers, Leave(w) PROVE Seeded(reach)'
  <2>1. ~Crawling(worker[w])
    BY <1>2, <1>10 DEF Leave, Crawling
  <2>2. Becomes(w, Off) /\ UNCHANGED <<seen, crawled, cancelled, handled>>
    BY <1>10 DEF Leave
  <2> QED BY <1>2, <1>8, <2>1, <2>2
<1>11. ASSUME NEW w \in Stages \X Workers, Returns(w), UNCHANGED <<seen, crawled, cancelled>>,
              worker[w].at \in {"dns", "resolved", "http", "answered"}
       PROVE  Seeded(reach)'
  <2>1. w[1] # "crawl"
    BY <1>11, Places
  <2>2. \A s : <<"crawl", s>> \in handled' => <<"crawl", s>> \in handled
    BY <1>11, <2>1 DEF Returns
  <2>3. ~Crawling(worker[w])
    BY <1>11 DEF Crawling
  <2> QED BY <1>2, <1>8, <1>11, <2>2, <2>3 DEF Returns
<1>12. ASSUME NEW w \in Stages \X Workers, NEW a \in {"resolved", "answered"},
              Becomes(w, [worker[w] EXCEPT !.at = a]), worker[w].at \in {"dns", "http"},
              UNCHANGED <<seen, crawled, cancelled, handled>>
       PROVE  Seeded(reach)'
  <2> DEFINE new == [worker[w] EXCEPT !.at = a]
  <2>1. new.at = a
    BY <1>1, <1>12 DEF Shape
  <2>2. ~Crawling(worker[w]) /\ ~Crawling(new)
    BY <1>12, <2>1 DEF Crawling
  <2>3. Becomes(w, new)
    BY <1>12
  <2> HIDE DEF new
  <2> QED BY <1>8, <1>12, <2>2, <2>3
<1>13. ASSUME NEW w \in Stages \X Workers, ResolveHost(w) \/ ProbeHost(w) PROVE Seeded(reach)'
  <2>1. worker[w].at \in {"dns", "http"} /\ UNCHANGED <<seen, crawled, cancelled>>
    BY <1>13 DEF ResolveHost, ProbeHost
  <2>2. \/ Returns(w)
        \/ UNCHANGED handled /\ \E a \in {"resolved", "answered"} :
                                   Becomes(w, [worker[w] EXCEPT !.at = a])
    BY <1>13 DEF ResolveHost, ProbeHost
  <2> QED BY <1>11, <1>12, <2>1, <2>2
<1>14. ASSUME NEW w \in Stages \X Workers, MarkResolved(w) \/ MarkLive(w) PROVE Seeded(reach)'
  <2>1. /\ worker[w].at \in {"resolved", "answered"} /\ Returns(w)
        /\ UNCHANGED <<seen, crawled, cancelled>>
    BY <1>14 DEF MarkResolved, MarkLive
  <2> QED BY <1>11, <2>1
<1>15. ASSUME NEW w \in Stages \X Workers, Work(w) PROVE Seeded(reach)'
  BY <1>1, <1>9, <1>10, <1>13, <1>14, <1>15, TokenSeeds, ListedSeeds, NextSeeds, FetchSeeds,
     ReturnSeeds DEF Work
<1> QED BY <1>5, <1>6, <1>7, <1>15 DEF SNext, SStep

\* Sites that link to no other seed and list none in robots.txt or a sitemap
\* have all their seeds crawled when the run is COMPLETED, in whatever order
\* the workers crawl: a link or a listing is all that can take a seed away.
THEOREM SeedsApartAreCrawled ==
    ASSUME NEW reach, Apart(reach)
    PROVE  SSpec => []SeedsAreCrawled
<1> DEFINE bounded == MaxDepth > 0 /\ MaxURLsPerHost > 0
           IInv == /\ SStrong /\ Counted /\ OnceOnly /\ STypeOK
                   /\ bounded => Seeded(reach)
<1>1. SInit => IInv
  <2> SUFFICES ASSUME SInit PROVE OnceOnly /\ Seeded(reach)
    BY InitSStrong, InitSTyped
  <2>1. \A s \in Stages, x \in Workers : worker[<<s, x>>].at = "off"
    BY DEF SInit, Off
  <2>2. \A s \in Stages : \A i : ~Holds(s, i)
    BY <2>1 DEF Holds
  <2>3. OnceOnly
    BY <2>1, <2>2 DEF SInit, OnceOnly, OnePlace, NotYet, Ended, Busy
  <2>4. Seeded(reach)
    BY <2>1 DEF SInit, Seeded, CrawlsFollow, Crawling, SeenAreFetched, HandledAreCrawled
  <2> QED BY <2>3, <2>4
<1>2. IInv /\ [SNext]_<<pg, svars>> => IInv'
  <2> SUFFICES ASSUME IInv, [SNext]_<<pg, svars>> PROVE IInv'
    OBVIOUS
  <2>1. WorkersOK /\ Shape
    BY Halves DEF SStrong
  <2>2. SStrong' /\ Counted' /\ OnceOnly' /\ STypeOK'
    BY <2>1, NextSStrong, NextCounted, NextKeepsPromise, NextSTyped
  <2>3. bounded => Seeded(reach)'
    BY <2>1, NextSeeded
  <2> QED BY <2>2, <2>3
<1>3. IInv => SeedsAreCrawled
  <2> SUFFICES ASSUME IInv, verdict = "COMPLETED", bounded,
                      NEW s \in items["crawl"], s \in InScope
               PROVE  s \in crawled
    BY DEF SeedsAreCrawled
  <2>1. <<"crawl", s>> \in handled /\ ~cancelled
    BY SStrongIsComplete DEF CompletedIsComplete, Stages, SStrong, Verdict
  <2>2. s \in Seeds
    BY DEF STypeOK, ItemsOf, Stages
  <2> QED BY <2>1, <2>2 DEF Seeded, HandledAreCrawled
<1> QED BY <1>1, <1>2, <1>3, PTL DEF SSpec

-----------------------------------------------------------------------------
(* The components together. *)

\* Whatever the three do one beside the other, each behaves as it does alone.
LEMMA EachScanPartBehaves == CSpec => Spec /\ FSpec /\ SSpec
<1>1. CInit => Init /\ FInit /\ StorageInit /\ SInit
  BY DEF CInit, FInit
<1>2. [CNext]_scanVars => [Next]_vars /\ [FNext]_fvars /\ [SNext]_<<pg, svars>>
  <2> SUFFICES ASSUME [CNext]_scanVars
               PROVE  [Next]_vars /\ [FNext]_fvars /\ [SNext]_<<pg, svars>>
    OBVIOUS
  <2>1. CASE Next /\ UNCHANGED <<pg, scope, file, svars>>
    BY <2>1 DEF fvars
  <2>2. ASSUME FNext, UNCHANGED <<vars, svars>>
        PROVE  [Next]_vars /\ [FNext]_fvars /\ [SNext]_<<pg, svars>>
    <3>1. CASE UNCHANGED pg
      BY <2>2, <3>1
    <3> QED BY <2>2, <3>1 DEF FNext, ImportTarget, StoredRules, CreateTarget, UpdateTarget
  <2>3. CASE SNext /\ UNCHANGED <<vars, scope, file>>
    BY <2>3 DEF SNext, fvars
  <2>4. CASE UNCHANGED scanVars
    BY <2>4 DEF scanVars, fvars
  <2> QED BY <2>1, <2>2, <2>3, <2>4 DEF CNext
<1> QED BY <1>1, <1>2, PTL DEF CSpec, Spec, FSpec, SSpec

\* From the confirmation of a scope to the end of a scan, all rows and workers
\* are well typed.
THEOREM ScansTyped == CSpec => []ScanTypeOK
<1> QED BY EachScanPartBehaves, TypeCorrect, ScopesTyped, RunsTyped, PTL DEF ScanTypeOK

\* What each of the three guarantees holds while they serve together.
THEOREM ScansKeepTheirPromises ==
    CSpec => /\ [](TargetsAreAttributed /\ AnswersAreTrue)
             /\ [](ScopeFollowsFile /\ ReportedOnce /\ CompletedIsComplete)
             /\ ImplementsConfirmation /\ EditsGoOneWay /\ ImplementsScanRun
<1> QED BY EachScanPartBehaves, ProvenanceIsNeverMixed, SuccessIsOnRecord,
           StoresKeepThePromise, ScopeAlwaysFollowsFile, EditsAreMonotone,
           URLsReportedOnce, CompletedRunsAreComplete, StagesImplementScanRun, PTL
=============================================================================
