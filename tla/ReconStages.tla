---------------------------- MODULE ReconStages ----------------------------
(***************************************************************************)
(* The stages of one reconnaissance run: hosts are discovered, resolved,   *)
(* probed and crawled.  Each stage after the first is a pool of workers    *)
(* that take items from a channel, wait for a token of the rate limiter    *)
(* and handle the item; the next stage starts when all of them are done.   *)
(* The run may be cancelled at any moment.                                 *)
(***************************************************************************)
EXTENDS Storage, Naturals, Sequences, FiniteSets

CONSTANTS Hosts,          \* what the provider may discover, all in scope
          Schemes,        \* each resolved host is probed under each of them
          Pages,          \* further URLs, normalised
          InScope,        \* the URLs of the scope
          Links,          \* Links[u]: the URLs the page u links to
          Listed,         \* Listed[s]: what robots.txt and the sitemap of s list
          Workers,        \* the workers of each pool
          Burst,          \* the size of the token bucket
          MaxDepth, MaxURLsPerHost

Seeds == Hosts \X Schemes
URLs == Seeds \cup Pages

ASSUME StagesAssumption ==
    /\ InScope \subseteq URLs /\ Workers # {}
    /\ Links \in [URLs -> SUBSET URLs] /\ \A u \in URLs : IsFiniteSet(Links[u])
    /\ Listed \in [Seeds -> SUBSET URLs]
    /\ Burst \in Nat \ {0} /\ MaxDepth \in Nat /\ MaxURLsPerHost \in Nat

VARIABLES
    opts,        \* the stages that were asked for
    stage,       \* the stage that runs
    items,       \* items[s]: what stage s was given (a history)
    queue,       \* queue[s]: the items in the channel of the pool of stage s
    worker,      \* worker[<<s, w>>]: what worker w of that pool does
    tokens,      \* tokens in the bucket
    cancelled,   \* the context is cancelled
    status,      \* status[h]: the status of the asset, "none" if not stored
    resolved,    \* the hosts that resolved
    live,        \* the seeds that answered
    seen,        \* the URLs the deduplicator knows
    told,        \* told[u]: how often u was reported, counted to 2
    crawled,     \* the pages whose links were asked for (a history)
    handled,     \* the items whose handler returned (a history)
    verdict      \* the status of the run

svars == <<opts, stage, items, queue, worker, tokens, cancelled, status, resolved, live,
           seen, told, crawled, handled, verdict>>
pool == <<stage, items, queue, opts>>
results == <<status, resolved, live, seen, told, crawled>>

Stages == {"dns", "http", "crawl"}

Off == [at |-> "off"]
Free == [at |-> "free"]

SInit ==
    /\ opts \in SUBSET Stages
    /\ stage = "discover"
    /\ items = [s \in Stages |-> {}]
    /\ queue = [s \in Stages |-> {}]
    /\ worker = [w \in Stages \X Workers |-> Off]
    /\ tokens = Burst
    /\ cancelled = FALSE
    /\ status = [h \in Hosts |-> "none"]
    /\ resolved = {} /\ live = {} /\ seen = {} /\ crawled = {} /\ handled = {}
    /\ told = [u \in URLs |-> 0]
    /\ verdict = "RUNNING"
-----------------------------------------------------------------------------
\* A stage without items, or that was not asked for, starts no pool.
Start(s, given) ==
    /\ stage' = s
    /\ IF s \in opts /\ given # {}
       THEN /\ queue' = [queue EXCEPT ![s] = given]
            /\ items' = [items EXCEPT ![s] = given]
            /\ worker' = [w \in DOMAIN worker |-> IF w[1] = s THEN Free ELSE worker[w]]
       ELSE UNCHANGED <<queue, items, worker>>

EndRun(as) == /\ stage' = "done" /\ verdict' = as
              /\ UNCHANGED <<items, queue, worker>>

\* Discovery, which the pipeline does itself: every host is stored as
\* DISCOVERED, unless the store refuses; all of them are submitted.
Discover(found) ==
    /\ stage = "discover"
    /\ \E lost \in SUBSET found :
         /\ pg \/ lost = {}
         /\ status' = [h \in Hosts |-> IF h \in found \ lost THEN "DISCOVERED" ELSE status[h]]
    /\ IF cancelled THEN EndRun("CANCELLED") /\ UNCHANGED resolved
       ELSE /\ Start("dns", found)
            /\ resolved' = IF "dns" \in opts THEN {} ELSE found
            /\ UNCHANGED verdict
    /\ UNCHANGED <<opts, tokens, cancelled, live, seen, told, crawled, handled>>

\* Mutant: Close does not wait for the workers.
PoolIsDoneAtOnce == queue[stage] = {}

\* Close of the pool: the channel is closed, every worker has left.
PoolIsDone == \A w \in Workers : worker[<<stage, w>>] = Off

Advance ==
    /\ stage \in Stages
    /\ PoolIsDone
    /\ CASE cancelled -> EndRun("CANCELLED")
         [] ~cancelled /\ stage = "dns" -> Start("http", resolved \X Schemes) /\ UNCHANGED verdict
         [] ~cancelled /\ stage = "http" -> Start("crawl", live) /\ UNCHANGED verdict
         [] OTHER -> EndRun("COMPLETED")
    /\ UNCHANGED <<opts, tokens, cancelled, handled, results>>

\* Mutant: the ticker adds to a full bucket.
TickOverflows ==
    /\ stage # "done" /\ tokens <= Burst
    /\ tokens' = tokens + 1
    /\ UNCHANGED <<pool, worker, cancelled, results, handled, verdict>>

\* The ticker of the rate limiter.
Tick == /\ stage # "done" /\ tokens < Burst
        /\ tokens' = tokens + 1
        /\ UNCHANGED <<pool, worker, cancelled, results, handled, verdict>>

Cancel == /\ stage # "done" /\ ~cancelled
          /\ cancelled' = TRUE
          /\ UNCHANGED <<pool, worker, tokens, results, handled, verdict>>
-----------------------------------------------------------------------------
Becomes(w, state) == worker' = [worker EXCEPT ![w] = state]

\* Mutant: an item that is taken stays in the channel.
TakeACopy(w) ==
    /\ worker[w] = Free
    /\ \E i \in queue[w[1]] : Becomes(w, [at |-> "wait", item |-> i])
    /\ UNCHANGED <<pool, tokens, cancelled, results, handled, verdict>>

\* A worker takes an item,
Take(w) ==
    /\ worker[w] = Free
    /\ \E i \in queue[w[1]] : /\ queue' = [queue EXCEPT ![w[1]] = @ \ {i}]
                             /\ Becomes(w, [at |-> "wait", item |-> i])
    /\ UNCHANGED <<stage, items, opts, tokens, cancelled, results, handled, verdict>>

\* Mutant: the channel is never closed.
NothingToTakeNever(w) == FALSE

NothingToTake(w) == queue[w[1]] = {}

\* ... leaves when the channel is closed and empty, or the run is cancelled,
\* with the item it has not handled,
Leave(w) ==
    /\ \/ worker[w] = Free /\ NothingToTake(w)
       \/ worker[w].at \in {"free", "wait"} /\ cancelled
    /\ Becomes(w, Off)
    /\ UNCHANGED <<pool, tokens, cancelled, results, handled, verdict>>

\* ... waits for a token, and starts on its item.
TakeToken(w) ==
    /\ worker[w].at = "wait"
    /\ tokens > 0
    /\ tokens' = tokens - 1
    /\ Becomes(w, IF w[1] = "crawl"
                  THEN [at |-> "crawl", item |-> worker[w].item, list |-> Listed[worker[w].item],
                        front |-> <<[url |-> worker[w].item, depth |-> 0]>>, count |-> 0]
                  ELSE [at |-> w[1], item |-> worker[w].item])
    /\ UNCHANGED <<pool, cancelled, results, handled, verdict>>

Returns(w) == /\ Becomes(w, Free)
              /\ handled' = handled \cup {<<w[1], worker[w].item>>}

\* UpdateAssetStatus, for an asset that was found; the store may refuse.
SetStatus(h, new) ==
    \/ status' = IF status[h] = "none" THEN status ELSE [status EXCEPT ![h] = new]
    \/ pg /\ UNCHANGED status

\* The DNS handler: a host that resolves is marked and passed on; under a
\* cancelled context none does.
ResolveHost(w) ==
    /\ worker[w].at = "dns"
    /\ \/ /\ ~cancelled
          /\ Becomes(w, [worker[w] EXCEPT !.at = "resolved"])
          /\ UNCHANGED handled
       \/ Returns(w)
    /\ UNCHANGED <<pool, tokens, cancelled, results, verdict>>

MarkResolved(w) ==
    /\ worker[w].at = "resolved"
    /\ SetStatus(worker[w].item, "RESOLVED")
    /\ resolved' = resolved \cup {worker[w].item}
    /\ Returns(w)
    /\ UNCHANGED <<pool, tokens, cancelled, live, seen, told, crawled, verdict>>

\* The HTTP handler: a probe answers, fails or is skipped.
ProbeHost(w) ==
    /\ worker[w].at = "http"
    /\ \/ /\ ~cancelled
          /\ Becomes(w, [worker[w] EXCEPT !.at = "answered"])
          /\ UNCHANGED handled
       \/ Returns(w)
    /\ UNCHANGED <<pool, tokens, cancelled, results, verdict>>

MarkLive(w) ==
    /\ worker[w].at = "answered"
    /\ SetStatus(worker[w].item[1], "LIVE")
    /\ live' = live \cup {worker[w].item}
    /\ Returns(w)
    /\ UNCHANGED <<pool, tokens, cancelled, resolved, seen, told, crawled, verdict>>
-----------------------------------------------------------------------------
\* Mutant: the deduplicator does not remember what it was asked about.
CheckAndAddURLForgets(u) == u \notin seen /\ UNCHANGED seen

\* CheckAndAddURL, under a lock: whether u is new; it is known from then on.
CheckAndAddURL(u) == u \notin seen /\ seen' = seen \cup {u}

Report(u) == told' = [told EXCEPT ![u] = IF @ < 2 THEN @ + 1 ELSE @]

\* robots.txt and the sitemap come first: every URL in scope that is new is
\* reported.
ReportListed(w, u) ==
    LET k == worker[w] IN
    /\ k.at = "crawl" /\ u \in k.list
    /\ Becomes(w, [k EXCEPT !.list = @ \ {u}])
    /\ \/ u \in InScope /\ CheckAndAddURL(u) /\ Report(u)
       \/ u \notin InScope \cap (URLs \ seen) /\ UNCHANGED <<seen, told>>
    /\ UNCHANGED <<pool, tokens, cancelled, status, resolved, live, crawled, handled, verdict>>

\* The breadth-first crawl: the next URL is dropped when it is outside or
\* known already; otherwise it is reported and, above the depth limit, the
\* page is fetched (under a cancelled context it cannot be).
CrawlNext(w) ==
    LET k == worker[w]
        q == Head(k.front)
    IN  /\ k.at = "crawl" /\ k.list = {}
        /\ k.front # <<>> /\ k.count < MaxURLsPerHost /\ ~cancelled
        /\ \/ /\ q.url \in InScope /\ CheckAndAddURL(q.url) /\ Report(q.url)
              /\ IF q.depth < MaxDepth
                 THEN Becomes(w, [k EXCEPT !.at = "fetch", !.count = @ + 1])
                 ELSE Becomes(w, [k EXCEPT !.front = Tail(@), !.count = @ + 1])
           \/ /\ q.url \notin InScope \cap (URLs \ seen)
              /\ Becomes(w, [k EXCEPT !.front = Tail(@)])
              /\ UNCHANGED <<seen, told>>
        /\ UNCHANGED <<pool, tokens, cancelled, status, resolved, live, crawled, handled, verdict>>

\* fetchAndExtractLinks, which may fail; the links come last in the queue.
FetchLinks(w) ==
    LET k == worker[w]
        q == Head(k.front)
        Arrange(us) == {f \in [1 .. Cardinality(us) -> us] : \A a, b \in DOMAIN f : f[a] = f[b] => a = b}
    IN  /\ k.at = "fetch"
        /\ crawled' = crawled \cup {q.url}
        /\ \E us \in {{}, IF cancelled THEN {} ELSE Links[q.url]} : \E f \in Arrange(us) :
             Becomes(w, [k EXCEPT !.at = "crawl", !.front = Tail(@) \o
                            [i \in DOMAIN f |-> [url |-> f[i], depth |-> q.depth + 1]]])
        /\ UNCHANGED <<pool, tokens, cancelled, status, resolved, live, seen, told, handled, verdict>>

CrawlReturns(w) ==
    LET k == worker[w] IN
    /\ k.at = "crawl" /\ k.list = {}
    /\ k.front = <<>> \/ k.count >= MaxURLsPerHost \/ cancelled
    /\ Returns(w)
    /\ UNCHANGED <<pool, tokens, cancelled, results, verdict>>

Work(w) ==
    \/ Take(w) \/ Leave(w) \/ TakeToken(w)
    \/ ResolveHost(w) \/ MarkResolved(w) \/ ProbeHost(w) \/ MarkLive(w)
    \/ \E u \in URLs : ReportListed(w, u)
    \/ CrawlNext(w) \/ FetchLinks(w) \/ CrawlReturns(w)

SStep == \/ \E found \in SUBSET Hosts : Discover(found)
         \/ Advance
         \/ \E w \in Stages \X Workers : Work(w)

SNext == (SStep \/ Tick \/ Cancel) /\ UNCHANGED pg

SSpec == StorageInit /\ SInit /\ [][SNext]_<<pg, svars>>

\* Every goroutine runs, requests time out, and the ticker ticks.
SFairness == WF_svars(SStep) /\ WF_svars(Tick)

-----------------------------------------------------------------------------
ItemsOf(s) == IF s = "dns" THEN Hosts ELSE Seeds

\* What a worker of a pool may do.  No URL is deeper than the depth limit, and
\* no crawl counts more URLs than it may.
Crawls == [at : {"crawl", "fetch"}, item : Seeds, list : SUBSET URLs,
           front : Seq([url : URLs, depth : 0 .. MaxDepth]), count : 0 .. MaxURLsPerHost]

MayDo(s) == {Off, Free} \cup [at : {"wait"}, item : ItemsOf(s)]
              \cup CASE s = "dns" -> [at : {"dns", "resolved"}, item : Hosts]
                     [] s = "http" -> [at : {"http", "answered"}, item : Seeds]
                     [] OTHER -> Crawls

\* What a crawl fetches is the first of its queue, in scope and above the limit.
FetchesInScope ==
    \A w \in Stages \X Workers :
        worker[w].at = "fetch" => LET k == worker[w] IN
            /\ k.front # <<>>
            /\ Head(k.front).url \in InScope \cap seen
            /\ Head(k.front).depth < MaxDepth

STypeOK ==
    /\ opts \subseteq Stages
    /\ stage \in Stages \cup {"discover", "done"}
    /\ \A s \in Stages : queue[s] \subseteq items[s] /\ items[s] \subseteq ItemsOf(s)
    /\ \A w \in Stages \X Workers : worker[w] \in MayDo(w[1])
    /\ FetchesInScope
    /\ tokens \in 0 .. Burst
    /\ status \in [Hosts -> {"none", "DISCOVERED", "RESOLVED", "LIVE"}]
    /\ resolved \subseteq Hosts /\ live \subseteq Seeds
    /\ seen \subseteq InScope /\ crawled \subseteq InScope
    /\ told \in [URLs -> 0 .. 2]
    /\ verdict \in {"RUNNING", "COMPLETED", "CANCELLED"}

\* A URL is reported at most once in a run, in however many pages, lists and
\* workers it turns up.
ReportedOnce == \A u \in URLs : told[u] <= 1

\* A run that says COMPLETED has handled all that was submitted in every
\* stage: no worker left an item behind, and a cancellation that came first
\* shows in the status.
CompletedIsComplete ==
    verdict = "COMPLETED" => \A s \in Stages : \A i \in items[s] : <<s, i>> \in handled

\* What waits: it is in the channel of its pool, or a worker holds it.
Holds(s, i) ==
    \E x \in Workers : worker[<<s, x>>].at \notin {"off", "free"} /\ worker[<<s, x>>].item = i

Pending == {x \in Stages \X (Hosts \cup Seeds) : x[2] \in queue[x[1]] \/ Holds(x[1], x[2])}

\* A run keeps what ScanRun promises, with any interleaving of its workers and
\* a cancellation at any moment: a stage starts when the one before it has
\* handled everything, no item is handled twice or given to two workers, none is
\* dropped unless the run is cancelled, and nothing comes after the end.
Run == INSTANCE ScanRun WITH Items <- Hosts \cup Seeds, waiting <- Pending
ImplementsScanRun == Run!Spec

\* Every run comes to an end, cancelled or not, with a bucket of any size and
\* fewer tokens than workers.
RunsEnd == <>(verdict # "RUNNING")

\* CrawlSeed, it says, crawls from the seed up to the depth limit.  A seed
\* that robots.txt or a sitemap lists, or that another crawl has met, is known
\* when its turn comes, and its page is never fetched.
SeedsAreCrawled ==
    (verdict = "COMPLETED" /\ MaxDepth > 0 /\ MaxURLsPerHost > 0) =>
        \A s \in items["crawl"] \cap InScope : s \in crawled
=============================================================================
