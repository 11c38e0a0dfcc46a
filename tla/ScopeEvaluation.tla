--------------------------- MODULE ScopeEvaluation ---------------------------
(***************************************************************************)
(* From a scope file to the answer "in scope": the sanitiser turns the     *)
(* entries of a file into rules and root candidates, a confirmation turns  *)
(* those into a target, handlers create and edit targets, and every stage  *)
(* of a scan asks Evaluate.  A host is the sequence of its labels, the     *)
(* registrable domain first; a path is a sequence of letters.              *)
(***************************************************************************)
EXTENDS Storage, Naturals, Sequences, SequencesExt, FiniteSets

CONSTANTS Names,       \* the hosts asked about
          Paths,       \* the paths asked about
          Entries,     \* what a scope file may list
          Patterns,    \* the domain patterns a request may name
          MaxEntries,  \* bound: entries of a file
          MaxElements  \* bound: patterns a target is edited to have

ASSUME ScopeAssumption == /\ \A h \in Names : Len(h) > 0
                          /\ \A p \in Paths : p \in Seq({p[i] : i \in DOMAIN p})
                          /\ MaxEntries \in Nat /\ MaxElements \in Nat

VARIABLES scope,   \* what the stored row of the target says of its scope
          file     \* the entries it was imported from, until it is edited

fvars == <<pg, scope, file>>

NoScope == [stored |-> FALSE]
NoFile  == [entries |-> {}]
Exact(host)  == [base |-> host, wild |-> FALSE]
TooBroad(p)  == p.base = <<>>     \* "*", "*." and what has no dot

\* A query names a host, a URL, or both.  Without a URL the protocol is "any"
\* and the path "/".
Queries ==
    [host : Names, url : {<<>>}, proto : {"any"}, path : {<<>>}]
    \cup [host : Names \cup {<<>>}, url : Names, proto : {"http", "https"}, path : Paths]

-----------------------------------------------------------------------------
\* The regular expression of a rule: one host, or all below a base.
HostMatches(rule, host) ==
    IF rule.wild THEN IsStrictPrefix(rule.base, host) ELSE host = rule.base

MatchAdvancedRule(rule, host, q) ==
    /\ HostMatches(rule, host)
    /\ rule.proto \in {"any", q.proto}
    /\ IsPrefix(rule.path, q.path)

\* A pattern of the plain lists: "*.base" stands for the base as well.
MatchesPattern(host, p) ==
    /\ ~TooBroad(p)
    /\ IF p.wild THEN IsPrefix(p.base, host) ELSE host = p.base

Asks(q) == IF q.host = <<>> THEN q.url ELSE q.host

\* Refused before any rule is looked at.
Refused(s, q) ==
    \/ ~s.active
    \/ q.host # <<>> /\ q.url # <<>> /\ q.host # q.url

\* An exact exclusion is also searched for in the text of the URL, where it
\* is found in the hosts below it.
IsExcluded(s, q) ==
    \/ \E p \in s.excluded : \/ MatchesPattern(Asks(q), p)
                             \/ q.url # <<>> /\ ~p.wild /\ IsPrefix(p.base, q.url)
    \/ q.url # <<>> /\ \E path \in s.excludedPaths : IsPrefix(path, q.path)
    \/ \E r \in s.rules : ~r.include /\ r.enabled /\ MatchAdvancedRule(r, Asks(q), q)

HostAuthorized(s, q) ==
    \/ \E p \in s.allowed \cup {Exact(s.root)} : MatchesPattern(Asks(q), p)
    \/ \E r \in s.rules : r.include /\ r.enabled /\ MatchAdvancedRule(r, Asks(q), q)

\* Mutant: every pattern has to match.
PathAuthorizedByAll(s, q) ==
    s.paths # {} => q.url # <<>> /\ \A p \in s.paths : IsPrefix(p, q.path)

\* Path patterns, when there are any, want a URL.
PathAuthorized(s, q) ==
    s.paths # {} => q.url # <<>> /\ \E p \in s.paths : IsPrefix(p, q.path)

Evaluate(s, q) ==
    ~Refused(s, q) /\ ~IsExcluded(s, q) /\ HostAuthorized(s, q) /\ PathAuthorized(s, q)

-----------------------------------------------------------------------------
\* An asset of a list becomes a rule for its host: the path of its URL is
\* dropped, and what is not eligible is excluded.  A rule of a Burp file is
\* kept as it is.
CanonicalRule(e) ==
    [base |-> e.base, wild |-> e.wild, include |-> e.include,
     enabled |-> e.asset \/ e.enabled,
     proto |-> IF e.asset THEN "any" ELSE e.proto,
     path |-> IF e.asset THEN <<>> ELSE e.path]

RegistrableDomain(host) == <<Head(host)>>

\* Mutant: what is excluded is a root candidate too.
DiscoverRootDomainsOfAll(entries) == {RegistrableDomain(e.base) : e \in entries}

\* The root candidates come from what is included, disabled rules too.
DiscoverRootDomains(entries) ==
    {RegistrableDomain(e.base) : e \in {x \in entries : x.include}}

\* An entry whose host would match everything makes the whole file refused.
SanitizeScopeFile(entries) ==
    /\ \A e \in entries : ~TooBroad(e)
    /\ DiscoverRootDomains(entries) # {}

\* What is left of the rules of a confirmed import when its target is read:
\* PostgreSQL has no column for them.
StoredRules(entries) == IF pg THEN {} ELSE {CanonicalRule(e) : e \in entries}

\* The target a confirmed import creates: every candidate is allowed, not
\* only the one that was selected.
ImportTarget(entries, root) ==
    /\ scope = NoScope
    /\ SanitizeScopeFile(entries)
    /\ root \in DiscoverRootDomains(entries)
    /\ scope' = [stored |-> TRUE, active |-> TRUE, root |-> root,
                 allowed |-> {Exact(d) : d \in DiscoverRootDomains(entries)},
                 rules |-> StoredRules(entries),
                 excluded |-> {}, excludedPaths |-> {}, paths |-> {}]
    /\ file' = [entries |-> entries]
    /\ UNCHANGED pg

\* POST /api/targets, after ValidateTarget.
CreateTarget(root, allowed) ==
    /\ scope = NoScope
    /\ \A p \in allowed : ~TooBroad(p)
    /\ scope' = [stored |-> TRUE, active |-> TRUE, root |-> root, allowed |-> allowed,
                 rules |-> {}, excluded |-> {}, excludedPaths |-> {}, paths |-> {}]
    /\ UNCHANGED <<pg, file>>

Size(s) == Cardinality(s.allowed) + Cardinality(s.excluded) + Cardinality(s.excludedPaths)
             + Cardinality(s.paths)

\* PATCH /api/targets/{id} replaces the lists it names, and validates none of
\* them; PostgreSQL refuses the statement.
UpdateTarget(changed) ==
    /\ ~pg
    /\ scope # NoScope
    /\ Size(changed) <= Size(scope) \/ Size(changed) <= MaxElements
    /\ scope' = changed
    /\ file' = NoFile
    /\ UNCHANGED pg

FInit == StorageInit /\ scope = NoScope /\ file = NoFile

FNext ==
    \/ \E n \in 1 .. MaxEntries : \E entries \in kSubset(n, Entries) :
         \E h \in Names : ImportTarget(entries, RegistrableDomain(h))
    \/ \E h \in Names, p \in Patterns : CreateTarget(RegistrableDomain(h), {p})
    \/ /\ scope # NoScope
       /\ \/ \E p \in Patterns :
               \/ UpdateTarget([scope EXCEPT !.allowed = @ \cup {p}])
               \/ UpdateTarget([scope EXCEPT !.allowed = @ \ {p}])
               \/ UpdateTarget([scope EXCEPT !.excluded = @ \cup {p}])
               \/ UpdateTarget([scope EXCEPT !.excluded = @ \ {p}])
          \/ \E p \in Paths :
               \/ UpdateTarget([scope EXCEPT !.excludedPaths = @ \cup {p}])
               \/ UpdateTarget([scope EXCEPT !.paths = @ \cup {p}])
               \/ UpdateTarget([scope EXCEPT !.paths = @ \ {p}])
          \/ UpdateTarget([scope EXCEPT !.active = ~@])

FSpec == FInit /\ [][FNext]_fvars

-----------------------------------------------------------------------------
RootDomains == {RegistrableDomain(h) : h \in Names}
                 \cup DiscoverRootDomains({e \in Entries : ~TooBroad(e)})

FTypeOK ==
    /\ pg \in BOOLEAN
    /\ file.entries \subseteq Entries
    /\ scope = NoScope
       \/ /\ scope.active \in BOOLEAN
          /\ scope.root \in RootDomains
          /\ scope.allowed \subseteq Patterns \cup {Exact(d) : d \in RootDomains}
          /\ scope.rules \subseteq {CanonicalRule(e) : e \in Entries}
          /\ scope.excluded \subseteq Patterns
          /\ scope.excludedPaths \cup scope.paths \subseteq Paths

InScopeOf(s) == IF s = NoScope THEN {} ELSE {q \in Queries : Evaluate(s, q)}

\* An entry of a file includes a host; an exclusion names it, whatever URL.
Includes(e, host) == e.include /\ (e.asset \/ e.enabled) /\ HostMatches(e, host)
Excludes(e, host) == /\ ~e.include
                     /\ e.asset \/ (e.enabled /\ e.proto = "any" /\ e.path = <<>>)
                     /\ HostMatches(e, host)

\* A target that is as its scope file made it answers yes only for hosts the
\* file includes, or the roots of those; under PostgreSQL for the roots only.
\* In memory it never does for a host the file excludes.
ScopeFollowsFile ==
    file # NoFile =>
        \A q \in InScopeOf(scope) :
            /\ \E e \in file.entries :
                 \/ e.include /\ Asks(q) = RegistrableDomain(e.base)
                 \/ ~pg /\ Includes(e, Asks(q))
            /\ ~pg => \A e \in file.entries : ~Excludes(e, Asks(q))

\* t says what s says, and more of one kind.
Adds(s, t, field) == /\ s # t /\ s[field] \subseteq t[field]
                     /\ t = [s EXCEPT ![field] = t[field]]

\* An exclusion more, or the first path pattern, authorises nothing new; a
\* domain more, or one more path pattern, takes nothing away.
EditsGoOneWay ==
    [][scope # NoScope =>
        /\ \/ Adds(scope, scope', "excluded")
           \/ Adds(scope, scope', "excludedPaths")
           \/ Adds(scope, scope', "paths") /\ scope.paths = {}
           => InScopeOf(scope') \subseteq InScopeOf(scope)
        /\ \/ Adds(scope, scope', "allowed")
           \/ Adds(scope, scope', "paths") /\ scope.paths # {}
           => InScopeOf(scope) \subseteq InScopeOf(scope')]_fvars
=============================================================================
