# NexusHunter-AI: a verification of its server

NexusHunter-AI is a platform for authorised reconnaissance: a Go server keeps
scan targets, runs scan jobs and reconnaissance pipelines for them, imports
scope files that operators confirm, and reasons about what it found.  This
directory models the part of that server where interleavings, faults and
restarts decide what is true, checks it with TLC on small instances, and proves
the main results with TLAPS for every size.

Paths below are relative to `src/backend/internal/` unless they start with
`docs/`, `cmd/` or `migrations/`.

## 1. The system

| Component | Keeps | Operations | Talks to | Module |
|---|---|---|---|---|
| Scan job service (`jobs/jobs.go`) | one mutex per process; all else in the store | create, start, complete, fail, cancel a job; sweep the jobs of a target; replay a history | store (compare-and-set with an audit event), event bus | JobLifecycle, JobHistory, ServingJobs |
| Target handlers (`api/handler.go`) | nothing | create, read-merge-write, delete, and the sweeps | store, job service, scope | TargetJobs, ScopeEvaluation |
| Reconnaissance engine (`recon/engine.go`, `pipeline.go`) | table of cancel functions, one goroutine per scan | start, cancel; pipeline of four stages; run row | job service, store, event bus | ReconEngine |
| Reconnaissance stages (`recon/workers.go`, `crawler.go`, `dedupe.go`, ...) | channels, tokens, seen sets of one scan | submit, work, drain | network, store, scope | ReconStages |
| Scope imports (`api/handler_phase8.go`, `storage/postgres_phase8.go`) | import rows, provenance of targets | import, confirm (which creates a target) | store | ScopeImport |
| Scope evaluation (`scope/`) | nothing | sanitise a file, evaluate a question | imports, handlers, stages, planner | ScopeEvaluation |
| Asset and security intelligence (`intel/`) | observations, changes, graph, tags, signals, clusters | analyse a probe; tags and decisions of researchers | stages, store | Intelligence |
| Reasoning workflow (`reasoning/`, `api/reasoning_handler.go`) | hypotheses, signals, investigations | cycle, create, change a status, plan, execute, cancel | store, evidence | Hypotheses, Investigations |
| Evidence engine (`evidence/`) | evidence, timeline, comparisons, contradictions | record, compare, evaluate, verify | store | Evidence |
| AI analysis (`ai/`) | analysis runs, signals, candidates | analyse, set a candidate's state | Python engine, store | Analysis |
| Hunting planner (`planner/`) | plans in memory, and in the store | generate, approve a step | scope, store | HuntingPlans |
| Event bus (`events/`) | bounded history, subscriber channels | publish, subscribe, unsubscribe | everybody publishes, clients listen | EventBus |
| WAF throttler (`waf/`) | rate and breaker of an asset | record a response, ask | nobody yet | Throttler |
| Stores (`storage/`) | all rows | PostgreSQL with foreign keys and transactions, or maps under a mutex | everybody | Storage, and the actions of the callers |

The server (`cmd/server/main.go`) uses PostgreSQL when it can reach one and the
in-memory store otherwise.  Several servers may share one PostgreSQL; the
in-memory store belongs to one.  Both matter: they differ in what is atomic, in
what a foreign key deletes, in what an upsert overwrites, in whether a cancelled
context stops a write, and in what a restart loses.

### What is hard here

* A job, a hypothesis, an investigation, a contradiction is read, judged and
  written in separate calls.  The mutex of the job `Manager` covers its own
  process only, and `CreateJob` judges the target before it takes it; the
  reasoning handlers have no lock at all.
* Rows are written back whole from a copy.  Only a status in a `WHERE` clause,
  where there is one, stands between a stale copy and the row.
* In memory a copy is shallow: the list of steps of an investigation or a plan
  is shared between the store and everyone who read it.
* What is one operation under the lock of the in-memory store is several
  statements of PostgreSQL, whose errors are often ignored.
* A pipeline is a goroutine with a context of its own.  It outlives the request
  that launched it, its registration comes after the job is RUNNING, and two
  parties take the registration back.  Its stages are pools that must drain
  when they are done and stop when they are cancelled.
* A confirmation writes two rows, and two operators may confirm one import.
* A restart loses goroutines, registrations, plans and mutexes and keeps the rows.

`PROJECT.json` lists each hazard at its line, with the properties that would
catch it, or the reason why none does.

### What makes each component correct

* Jobs: an ended job never changes; row and audit trail agree; every change is
  a legal step; a sweep ends what it listed; replaying the trail gives the row.
* Targets: when all requests are answered, no job is active for a target that
  is not; no job outlives the row of its target.
* Engine: a registration exists for exactly the live pipelines nobody has
  interrupted; a pipeline that is over leaves no active job behind but in a few
  named ways; a cancellation that was answered reached the pipeline; a pipeline
  does not probe for an inactive target.
* Stages: a run ends, COMPLETED means that all was handled, a URL is reported
  once, and a seed is crawled.
* Scope: a target answers what its file says, exclusions before inclusions, and
  an edit never does the opposite of what it is for.  One confirmation of an
  import wins, import and target tell the same story, an answer of success stays
  true, requests end.
* Hypotheses and investigations: SUPPORTED is reached from INVESTIGATING only
  and not while something is owed; an executed step stays executed.
* Evidence: a stored hash is the hash of what is stored, however often it is computed.
* Analyses and plans: a run that nobody works on is settled and counts what is
  there; an approval is given once.
* Intelligence: the change log of a service leads to its observation, and a
  score counts what was found, as long as analyses of an asset do not overlap and
  the store loses none of their statements.
* Bus and throttler: order, no duplicates in a channel, no send on a closed one; a
  breaker refuses exactly while the responses so far say it should.

## 2. Modules

```
JobStates ---- JobStateMachine (abstract) <== JobLifecycle
     |                        JobLifecycle ---- JobHistory ---- ServingJobs ---- MCJobLifecycle
     |                                   \----- TargetJobs ---- MCTargetJobs
     |                        (ServingJobs, TargetJobs ---- JobLifecycleProofs)
     \-------- ReconEngine ---- ReconEngineProofs, MCReconEngine
               (JobStateMachine, of each job <== ReconEngineProofs)

ScopeConfirmation (abstract) <== ScopeImport ---- ScopeImportProofs
                                      \---- MCScopeImport ------\
Storage ---- ScopeEvaluation ------------ MCScopeEvaluation ----- MCScopeToScan
        \--- ReconStages ---------------- MCReconStages --------/
ScanRun (abstract) <== ReconStages
             (MCScopeToScan, ScopeImportProofs ---- ScanProofs)

Storage ---- Hypotheses ---- HypothesesProofs
        \--- Intelligence -- IntelligenceProofs
        \--- Investigations, Evidence, Analysis, HuntingPlans
EventBus, Throttler ---- BusAndThrottlerProofs
(Hypotheses, Investigations, Evidence, Analysis, HuntingPlans, Intelligence,
 EventBus, Throttler ---- MCResearch)
(MCResearch, HypothesesProofs, IntelligenceProofs, BusAndThrottlerProofs
 ---- ResearchProofs)
```
A plain line is EXTENDS, `<==` an INSTANCE that a refinement goes through.

**JobStates** holds the statuses and the legal steps; `ReconstructJobLifecycle`
is where the code spells the steps out.  "NONE" and "GONE" stand for a row that
is not there yet and not there any more.

**JobStateMachine** is what the service promises of each job's status: it
appears as QUEUED, takes legal steps, and vanishes only with its target.

**JobLifecycle** is `jobs.Manager` in several processes over one store.
`op[m]` is what runs under the mutex of process `m`, `copy[m]` the rows it read,
`pending[m]` the creations that have been validated and wait for the mutex.  An
operation is cut where the code calls the store: `Read` (GetJobByID), `Check`
(GetByID of the target), then `Commit`, the compare-and-set.  `SweepList`,
`SweepStamp` and one `Commit` per job are `HandleTargetDeactivated`.
`CommitFails` is a failed statement: a request gives up, a sweep goes on.
`Crash` forgets what a process held.  `log[j]` are the stored audit events.  An
identifier is random and never drawn twice.  `SetTarget` and `DropTarget` let
the environment change targets at any time, more than the handlers do.

**JobHistory** adds `ReconstructJobLifecycle` as an operator: sort by time (the
place of an event is the number of earlier ones), replay one event after the other.

**ServingJobs** fixes which of the processes serve (`main.go` makes one Manager
in each): what the mutex adds to the compare-and-set shows when it is one.

**TargetJobs** replaces that environment by the real handlers: `UpdateRead` and
`UpdateWrite` (the copy written back whole), `DeleteCall`, the sweep as an
operation of the process, `SweepReturns`.  `serial` says that a lone client
waits for each answer.  Under PostgreSQL `UpdateWrite` changes nothing, because
`PostgresStorage.Update` gives comma-separated strings to columns that `Create`
fills with arrays and the statement is refused.

**ReconEngine** is one process with its pipelines, under either store
(`durable`).  `starter[j]` walks through StartRecon, `pipe[j]` through the
goroutine, `verdict[j]` is what Execute returned, `cancels` the table of cancel
functions, `interrupted` the contexts that are done.  A transition of a job is
one step here; JobLifecycle is about what is inside it.  Clients may go away
between two calls, jobs may also be moved through the job endpoints, targets
are updated and deleted with their sweeps in steps of their own, and under
PostgreSQL the process may restart at any point.  `UpdateTarget(old, new)` writes
back a copy whose status was `old`, any status the target ever had (`was`), and
sweeps only if that was ACTIVE: a stale copy deactivates a target without a
sweep, which the history `unswept` remembers until a sweep comes.  The store may
fail the three calls a pipeline makes whose failure nobody repairs, the
insertion of its run, its closing and the report of its job (`SaveRunFails`,
`CompleteRunFails`, `ReportFails`); `faulted` remembers which.  A stage is one
step that ends with a look at the context; ReconStages opens it up.

**ReconStages** is one run.  `queue[s]` is the channel of the pool of stage `s`,
`worker[<<s, w>>]` what a worker does, `tokens` the bucket of the rate limiter,
`seen` the deduplicator.  `Discover` is done by the pipeline itself, `Advance` is
Close of a pool followed by the look at the context, `Take`, `TakeToken` and
`Leave` are the loop of a worker, the rest are the three handlers.  The crawl
keeps its breadth-first queue in the worker (`front`), after the URLs of
robots.txt and the sitemap (`list`).  `Cancel` may come at any moment.  `items`,
`crawled` and `handled` are histories for the properties.

**ScanRun** is what a run promises whatever its workers do: `Submit` gives a stage
its items when nothing that was given before waits, `Handle` and `Drop` take one
of them away, the second only after `Cancel`, `Report` tells of a URL once, and
`End` is final.  ReconStages implements it with `Pending`, what is in a channel or
in the hands of a worker, for what waits: a token, a fetch, a lookup or the status
of an asset are its business alone.

**ScopeConfirmation** is the promise of the two stores: an import and the target
it becomes change in one step.  **ScopeImport** is the code: the handler reads
the review and judges it (`ConfirmScopeImport`); in memory the store does the
rest under its mutex (`ConfirmInMemory`); under PostgreSQL the transaction locks
the row (`LockImport`), inserts (`InsertTarget`, which waits for an uncommitted
insert of the same identifier and fails on a taken one), updates and commits
(`Commit`).  `Abandon` is every way to end early, including the one after the
commit where the review cannot be read back.  `DeleteTarget` may come at any
time.

**ScopeEvaluation** follows one target from its file to its answers: `file` is
what it came from, `scope` the five lists the code keeps (domains, exclusions,
excluded paths, path patterns, rules).  `SanitizeScopeFile`, `CanonicalRule` and
`DiscoverRootDomains` are the sanitiser, `StoredRules` what a store keeps of the
rules (PostgreSQL nothing: the table has no column for them), `Evaluate` the
evaluator in the order of its checks, `CreateTarget` and `UpdateTarget` the
handlers as far as scope goes.
A host is the sequence of its labels, registrable domain first, so that "below a
base" is a strict prefix.

**Hypotheses** cuts every save into the statements PostgreSQL sees (`todo`), in
memory into one.  `RunReasoningCycle` reads the evidence and lists what it will
save; `SaveStep` and `SaveFails` take the statements one by one.  A status
request is `StatusRead`, in PostgreSQL two times `ListOwed`, `Gate` when SUPPORTED
is asked for, and `StatusWrite`, conditional only for SUPPORTED.  What is owed may
be taken back: a creation may name a stored condition with a result, which
PostgreSQL overwrites (`SaveOwed`).  `owes`, `sees` and `blind` in the request are
histories: what was owed at the read and has been ever since, what the reads of
it returned, whether one failed.

**Investigations** keeps of an investigation its status and how many steps are
done.  An execution is `ExecuteRead`, `ExecuteFind`, `ExecuteMark`, `ExecuteTally`,
`ExecuteStatus`, `ExecuteSave`, on the shared list in memory and on a copy in
PostgreSQL, where the status update is refused and nothing gets past it.

**Evidence** models a hash as what it is computed over and a value by the secret
it bears; `Sanitize` and `Upserted` say what redaction masks and what an upsert
overwrites in either store.  A header is the set of the values that stand under
names equal but for case.  `CanonicalHashes` is a set for that reason: the
normalisation takes the first match of a walk through a Go map, so that a hash of
such a record is one of several.  **Analysis** walks a request through the assets it
was asked for: run row, evidence, engine, signal, candidates, end of the run.
**HuntingPlans** has each plan twice, `held` by the service and on the `shelf` of
the store; `Restart` empties the first.  **Intelligence** is AnalyzeHTTPProbe with
one step per call of the store, by several workers; the stored changes are kept
by what they are about, a service or a technology of an asset.  PostgreSQL may
refuse any of these calls, and only the error of the first save ends an analysis;
`faulted` are the assets whose analyses have missed a row, a change, a list or a
cluster that way.  **EventBus** numbers events as they are published.
**Throttler** is handed any response at any time, as the tests of the package do:
no code of the server calls it.  `heard` is the history of the responses.

**Storage** is the choice of the store, `pg`, made once.  JobLifecycle,
TargetJobs, ReconEngine and ScopeImport have constants or variables of their own
for it (`Cascade`, `durable`), since more than the store depends on it there.

Definitions preceded by a comment that starts with "Mutant:" are deliberate
mistakes.  Each stands before the definition it would replace, and breaks the
property it belongs to; no specification uses them.

## 3. Runs

| Run | Specification, instance | Shows |
|---|---|---|
| Jobs | ServingJobs; 2 jobs, PostgreSQL, faults and crashes, 7 timestamps; 2 processes of which either or both serve | `TypeOK`, `HistoryTellsState`, `EndedRowsAreFinal`, `ImplementsStateMachine`: the compare-and-set alone keeps jobs legal. `OneProcessChains`, `OneProcessKeepsStart`, `OneProcessReconstructs`: what the mutex adds when one process serves |
| JobsReconstructTwoProcesses | ServingJobs; 1 job, 2 processes, no faults | **violated**: `ReconstructionAgrees` |
| TargetJobsPostgres | TargetJobs; 1 job, 2 processes, 2 administrators, 2 target requests, PostgreSQL, faults and crashes | `NoJobWithoutTarget`; `Spec`: the handlers stay inside JobLifecycle, so what is proved of it holds of them |
| TargetJobsInMemory | TargetJobs with fairness; 2 jobs, 1 process, 1 administrator, 2 target requests | `TTypeOK`, `SerialClientsSettle`, and the liveness of sweeps and creations: `SweptTargetsJobsEnd`, `SweptJobsEnd`, `CreationsLand` |
| TargetJobsSettled | TargetJobs; 1 job, 1 process | **violated**: `SettledJobsHaveActiveTargets` |
| ReconScans | ReconEngine with fairness; 2 scans, 1 canceller, both stores, a fault and restarts | `TypeOK`, `RegistrationsAreLive`, `EndedPipelineEndedJob`, `RunRowSettles`, `LaunchedJobsEnd` |
| ReconCancelTooEarly | ReconEngine; 1 scan, 1 canceller | **violated**: `CancelReachesPipeline` |
| ReconDeactivated | ReconEngine; 1 scan, 1 canceller | **violated**: `ProbesNeedActiveTarget` |
| ScopeToScan | MCScopeToScan with fairness; see below | confirmation: `TargetsAreAttributed`, `AnswersAreTrue`, `ImplementsConfirmation`, `RequestsEnd`; scope: `ScopeFollowsFile`, `EditsGoOneWay`; stages: `ReportedOnce`, `CompletedIsComplete`, `ImplementsScanRun`, `ScansEnd`; types of all: `ScanTypeOK` |
| ScopeTargetDeleted | ScopeImport; 1 import | **violated**: `ConfirmedHasTarget` |
| SeedsAreCrawled | ReconStages; 2 hosts whose sitemaps list their home pages | **violated**: `SeedsAreCrawled` |
| Research | MCResearch; see below | `SupportIsGuarded`, `OwedBlocksSupport`, `StepsNeverUndone`, `RecordsVerify`, `InMemoryRunsSettle`, `ApprovedOnce`, `SerialProbesAgree`, `DeliveryIsOrderly`, `BreakerRemembers`; types of all: `ResearchTypeOK` |

### Runs that check several components

The components of ScopeToScan and of Research share the choice of a store and
no other state that their properties speak of.  Their product would
say nothing that the parts do not, and would be out of reach.  In these two runs
a variable `focus`, chosen in the initial state, says which component moves; the
others keep their initial state.  TLC then explores the sum of their state
spaces.  Where a component has fairness, it is asked of it when it is the one
that moves, and `ScansEnd` speaks of those behaviours.  That a component behaves
in the composition as it does alone is proved (section 5), which is why its
theorems hold there too.

* ScopeToScan: two imports, two requests, two operators, two roots and two
  identifiers; files of up to two of six entries, chosen to cover what is below
  an included domain, that domain or a host of it excluded, a disabled rule, and
  an entry that is refused; edits up to three patterns; two hosts with two
  further pages, one out of scope, two workers, one token, every choice of
  stages.
* Research: two clients of everything and both stores; one piece of evidence,
  a theory and a baseline, 3 requests; one investigation of two steps, 6 requests; two
  records and 3 posts; two assets and two runs of up to one candidate; two
  plans; two services of two targets, two probes and one refused statement; two
  subscribers, five events, a history and channels of two; a throttler that
  recovers after three successes (the code's number is ten), with eight
  responses.

### Bounds

* `MaxClock` bounds how many timestamps requests may take; a request is admitted
  only if everything admitted before it can still finish, so the bound stops new
  requests and never a step half way.  A job takes three timestamps in its whole
  life; seven let two jobs be created, started and ended, with attempts
  that fail in between.  In TargetJobsInMemory the bound (11) is never reached:
  two jobs and two target requests cannot take more.
* `MaxEdits` bounds the target requests: two are what a lost update or a
  deactivation followed by a deletion needs.
* Two processes, clients, requests or workers are enough for every pair of a
  stale reader and a writer, and for every confirmation or approval that loses.
  One target is enough where jobs of different targets share nothing but the
  mutex; two jobs are there for that.
* `MaxRequests` = 3: a cycle, a creation or a first status request that sets the
  stage, and two requests that race.  `MaxInvRequests` = 6: the plan, an
  execution per step, and executions or a cancellation that overlap them.
* `MaxEvents` = 5 fills a history and a channel of two more than twice.
  `MaxDepth` = 1 and `MaxURLsPerHost` = 2 are both reached: a page at depth one
  is not fetched, and a site with two links has one too many.  `Burst` = 1 with
  two workers makes them wait for the ticker.
* `MaxGranted` = 2 lets a second approval show; counting stops there.
* `MaxSweeps` = 1: an update that has still to sweep, and any number from stale
  copies that never will.
* `MaxFaults` = 1: one refused statement of an analysis, or one failed call of a
  pipeline, is enough for each way an error is ignored to show, and leaves
  another analysis or pipeline to follow it.
* `Recovery` = 3 and `MaxResponses` = 8: three 429s, a row of successes that is
  broken, one that is not, and what comes after.  With ten the same happens
  later; the proof is for any number.
* The proofs of section 5 hold for any value of these bounds.

Deadlock is not checked: a system whose requests have come to their bound, or
whose target is deleted and whose jobs have ended, has really stopped.

Symmetry is used where the properties are safety properties and the constants
interchangeable (jobs and processes of Jobs); never in a run with liveness.

### Fairness

* A request that holds the mutex goes on: it is a goroutine of a running server,
  and each call of a store returns (weak fairness of `Proceed`).
* `sync.Mutex` has a starvation mode: a waiter gets it after a millisecond of
  waiting, which is strong fairness of the step that takes it (`CreateCommit`,
  the sweep).
* Pipelines: each stage is bounded by timeouts and a finite work list (that the
  stages end is what ScopeToScan checks), so weak fairness of `PipelineStep` and
  `Register`; the handlers of the target go on.  Clients owe nothing, neither a
  cancellation nor the second half of one.
* Stages: some worker or the pipeline that can take a step takes one, and the
  ticker ticks (weak fairness of `SStep` and of `Tick`).  Nothing is asked of a
  single worker, and nothing of `Cancel`.
* PostgreSQL queues those who wait for a row or an index entry: strong fairness
  of `LockImport` and `InsertTarget`.  Failures and deletions have no fairness.

## 4. What the violated runs say

* **JobsReconstructTwoProcesses.**  A cancellation takes its time in one process
  before the start another process commits first.  The trail is then legal in
  commit order and not in time order, and the replay returns an error for a job
  whose row is fine.
* **TargetJobsSettled.**  A creation validated before a deactivation and
  committed after its sweep leaves a queued job for an inactive target, and the
  job can no longer be cancelled, since every transition wants an active target.
  A lone client that waits for its answers never sees it (`SerialClientsSettle`).
* **ReconCancelTooEarly.**  A cancellation between StartJob and the registration
  of the cancel function is answered with success; the pipeline then runs in full.
* **ReconDeactivated.**  Deactivating or deleting a target cancels its jobs in
  the store; a pipeline that already runs is not reached.
* **SeedsAreCrawled.**  A seed that its own sitemap lists, or that another site
  links to, is known to the deduplicator when its crawl starts; the crawl drops
  it, fetches no page and follows no link.  The run still says COMPLETED.
* **ScopeTargetDeleted.**  The target of a confirmed import is deleted; the
  import stays CONFIRMED and can never be confirmed again.

### Behaviour the models take as it is

The code does these things and the models do them too.  The properties that
would be false because of them exempt the case and say so; where a comment or a
document promises more, it is named:

* PostgreSQL refuses some statements always: the update of a target (strings for
  array columns, `storage/postgres.go:175`), the status updates of
  investigations and of candidates (one parameter used as varchar and as text).
* A repeated cycle brings a decided hypothesis back to HYPOTHESIZED, a repeated
  probe brings a dismissed cluster back to ACTIVE: their identifiers depend on
  content, and an upsert writes the status.
* `CreateHypothesis` accepts SUPPORTED from the body; the gate is only in front
  of status requests.
* An older RUNNING may land on top of the SIMULATED or CANCELLED of an
  investigation, and the status SIMULATED is not in the transition table.
* `UpdateTarget` does not validate the patterns it stores; `CreateTarget` does.
  Evaluation refuses patterns that are too broad whoever stored them.
* Under PostgreSQL a run of an analysis may stay RUNNING, which is why
  `InMemoryRunsSettle` names the store.
* PostgreSQL neither writes nor reads the rules a scope file was turned into
  (`storage/postgres_phase8.go:318`, `storage/postgres.go:84`).  A file that includes
  what is below a domain and excludes the domain itself leaves a stored target
  that authorises the domain, since every root of the included entries is
  allowed: there `ScopeFollowsFile` says nothing of exclusions.
  (`docs/SCOPE_SYSTEM.md:8` says that exclusions prevail.)
* Under PostgreSQL `GetHypothesis` lists conditions and requirements by statements
  of their own and ignores their errors (`storage/postgres_reasoning.go:455`): the
  gate then sees none and lets a hypothesis with a PENDING condition become
  SUPPORTED.  `OwedBlocksSupport` exempts the requests that were `blind`.
  (`api/reasoning_handler.go:206` answers that no such transition is possible.)
* Under PostgreSQL a record of evidence that is recorded again under its id keeps
  target and request and takes the new hash (`storage/postgres_evidence.go:43`),
  and fails its verification; under either store so may one with two header names
  that differ by case only, whose hash depends on the order in which Go walks a
  map (`evidence/canonical.go:137`).  `RecordsVerify` exempts both.  (A failed
  verification is there to detect tampering, `evidence/engine.go:399`.)
* The error of the report of a pipeline is ignored, and so is that of closing its
  run row.  A job stays RUNNING, behind a pipeline that is gone, when the store
  failed the report, or refused it because a stale copy had deactivated the
  target without a sweep.
* An analysis of a probe ignores all errors but that of its first save.  When
  PostgreSQL refuses a change record (`intel/engine.go:107`), as it does once the
  scan was cancelled, the observation is stored and its change is lost: the next
  probe finds nothing new.
* A creation may settle a stored condition of another hypothesis, so that what
  was owed when a status was asked for is not owed when the gate looks.
* An open breaker closes after ten successes in a row, as the comment in
  `waf/throttler.go` says; a caller that asks `CanExecute` before each request
  would send none and so earn none, and there is no half-open state.
* After a restart no plan can be approved any more.

## 5. What is proved

All theorems are about arbitrary sets of jobs, targets, processes, scans,
clients, imports, hosts, pages, names, hypotheses, plans, records, requests and
subscribers, from the named assumptions on the constants in the modules and
nothing else.  The sets may be infinite, with two exceptions that the code makes
true: a page has finitely many links (`StagesAssumption`), and a cycle finds
finitely many clues, theories and baselines (`HypothesesAssumption`), since each is
a list.  The bounds are any natural numbers those assumptions admit, with a least
value of one for `Recovery` (`ThrottlerAssumption`) and of one or two for some others.

| Module | Theorem | States |
|---|---|---|
| JobLifecycleProofs | `TypeCorrect` | `TypeOK`, with `KindFits`: what is past its reads is not idle |
| | `HistoryAlwaysTellsState` | `HistoryTellsState` |
| | `EndedRowsStayFinal` | `EndedRowsAreFinal` |
| | `ServiceImplementsStateMachine` | refinement of JobStateMachine |
| | `OneProcessIsChained` | `OneProcessChains` |
| | `OneProcessStartIsKept` | `OneProcessKeepsStart` |
| | `OneProcessAlwaysReconstructs` | `OneProcessReconstructs` |
| | `HandlersTyped` | `TTypeOK` |
| | `HandlersImplementService` | TargetJobs refines JobLifecycle (`Spec`) |
| | `JobsGoWithTheirTarget` | `NoJobWithoutTarget`, under PostgreSQL |
| | `SerialClientsAlwaysSettle` | `SerialClientsSettle`, when nothing fails |
| ReconEngineProofs | `TypeCorrect` | `TypeOK`, with `Verdicts` |
| | `PipelinesEndTheirJobs` | `EndedPipelineEndedJob` |
| | `RegistrationsStayLive` | `RegistrationsAreLive` |
| | `RunRowsSettle` | `RunRowSettles` |
| | `PatientCancelsReachPipeline` | `CancelReachesPipeline`, when no cancellation comes before StartRecon answered |
| | `EachJobFollowsItsMachine` | refinement of JobStateMachine, by each job |
| ScopeImportProofs | `TypeCorrect` | `TypeOK` |
| | `ProvenanceIsNeverMixed` | `TargetsAreAttributed` |
| | `SuccessIsOnRecord` | `AnswersAreTrue` |
| | `StoresKeepThePromise` | refinement of ScopeConfirmation |
| | `OnlyDeletionOrphans` | `OrphanedByDeletion`: what may leave a confirmed import without its target |
| | `ConfirmedKeepsTarget` | `ConfirmedHasTarget`, while no target is deleted |
| ScanProofs | `EditsAreMonotone` | `EditsGoOneWay` |
| | `ScopeAlwaysFollowsFile` | `ScopeFollowsFile` |
| | `ScopesTyped` | `FTypeOK` |
| | `URLsReportedOnce` | `ReportedOnce` |
| | `CompletedRunsAreComplete` | `CompletedIsComplete` |
| | `RunsTyped` | `STypeOK`, with `FetchesInScope` |
| | `StagesImplementScanRun` | refinement of ScanRun |
| | `SeedsApartAreCrawled` | `SeedsAreCrawled`, when seeds are neither listed nor linked from another site |
| | `ScansTyped`, `ScansKeepTheirPromises` | `ScanTypeOK`, and every safety property of ScopeToScan, of the composition |
| HypothesesProofs | `HypothesesTyped` | `HTypeOK` |
| | `SupportIsEarned` | `SupportIsGuarded` |
| | `OwedBlocks` | `OwedBlocksSupport` |
| IntelligenceProofs | `IntelligenceTyped` | `XTypeOK` |
| | `SerialProbesAlwaysAgree` | `SerialProbesAgree` |
| ResearchProofs | `StepsApprovedOnce`, `PlansTyped` | `ApprovedOnce`, `PTypeOK` |
| | `EvidenceVerifies`, `EvidenceTyped` | `RecordsVerify`, `ETypeOK` |
| | `ExecutedStepsStay`, `InvestigationsTyped` | `StepsNeverUndone`, `ITypeOK` |
| | `RunsSettle`, `AnalysisTyped` | `InMemoryRunsSettle`, `ATypeOK` |
| | `ResearchTyped`, `ResearchKeepsItsPromises` | `ResearchTypeOK`, and every property of Research, of the composition |
| BusAndThrottlerProofs | `HistoryIsComplete` | the history is the latest events, without a gap |
| | `DeliveryStaysOrderly` | `DeliveryIsOrderly` |
| | `ThrottlerTyped` | `WTypeOK` |
| | `BreakerIsHonest` | the breaker is open exactly at its limits |
| | `BreakerFollowsHistory` | `BreakerRemembers`, for any row of successes and any number of responses |

**Jobs.**  `HistoryTellsState` is inductive together with the types: the one
fact needed is `ExpectedIsOneStepAway`, that the compare-and-set of every
operation admits only states from which its goal is one legal step.  The copy
may be as stale as it likes.  For `EndedRowsAreFinal` and the refinement,
`NextIsRowStep` says what any step does to the row of a job, and `PendingIsNew`
that a creation waiting for the mutex has an identifier nobody has stored, so
that the insert cannot overwrite a row.

**One process.**  `OneProcessChains` and `OneProcessKeepsStart` are false with
two processes, so the proof needs what the mutex gives: `Fresh`, that the copies
an operation works on are the rows, except of jobs that went with their target
(which the compare-and-set refuses).  `Timed` says that no time taken is NULL.

For `OneProcessReconstructs` the proof shows that one process also stores its
events in the order of their times (`Ordered`): the time an operation takes is
later than all that is stored of the jobs it may still write (`Stamped`), since
nobody else takes a time while it holds the mutex.  Sorting then changes
nothing, and the states the events name satisfy the equation of the replay, each
following from the one before by the chain and the legal steps.

**Target handlers.**  That TargetJobs is JobLifecycle needs only that a request
read a status that was there (`ReqFits`): then every write of a target is a
`SetTarget`, or changes nothing.  `NoJobWithoutTarget` is proved of JobLifecycle
and carried over; it is inductive because of the foreign key.  For
`SerialClientsSettle`, `Calm` says what a client that waits may rely on: its
target request is alone with the service, but for the sweep it makes (`Alone`),
an active job of a target that is not active is of the target being swept
(`Settling`), and that sweep still has it to do (`Covered`).  `Faults = {}` is an
assumption of that theorem: a failed statement of a sweep is ignored and leaves
the job.

**Engine.**  `EndedPipelineEndedJob` is far from inductive: the report may be
refused.  `Strong` adds how far a job is when its pipeline exists (`Launched`),
that a verdict is an end a RUNNING job may take (`Verdicts`), that nothing runs
for an inactive target once it is swept (`SweptNothingRuns`), and that this
is so from the report on (`Reported`).  A report is refused only when the target
is not active; then the sweep has been, and the job had ended, or it is still
due, or it will never be (`unswept`), both of which the property allows, as it
allows a report that the store failed.  Reactivation cannot undo it, because a
job that has ended stays ended.

`RunRowSettles` needs the whole way of a pipeline (`RunFollowsPipeline`): no row
before it is created, RUNNING or refused while the stages work, and from the
report on what is reported.  `completeRun` writes under the context of the
pipeline, so PostgreSQL refuses it behind a cancellation, and it ignores every
error.  The row says what is reported unless PostgreSQL has none (the insert was
refused, or the target deleted), or it stayed RUNNING because the context was
cancelled or because the store failed the insert or the end of this very row.

That a job of the engine follows JobStateMachine (`EachJobFollowsItsMachine`)
ties the two models of a job together.  It is stated of one job at a time, since
a sweep moves several here in one step.  It needs that a verdict is an end a job
may take (`Verdicts`) and that only the request which was given an identifier
creates its row (`CreatedByStarter`).

**What the violated runs show, from the other side.**  Section 4 names
the causes; for three of the runs a theorem says that there is no other.
`PatientCancelsReachPipeline`: when CancelRecon waits for the answer of
StartRecon, whoever cancels finds a cancel function or a pipeline that is over
(`CancelledAreReached`).  `NoJobAssumption` tells the client that cancels
nothing from one that does.  `OnlyDeletionOrphans` and
`ConfirmedKeepsTarget`: a confirmation that is written has its target and takes
none away (`WriteKeepsTargets`), so only DeleteTarget does.
`SeedsApartAreCrawled`: `Apart` gives each seed a site, its pages and where they
lead within the scope, with no other seed in it and none listed.  The theorem is
for any such choice of sites.  A crawl then stays in its site, and as long as
nobody knows its seed has it before it (`Follows`); who makes the seed known is
therefore its own crawl, which fetches it (`SeenAreFetched`) and cannot return
before it has, since no other worker has the item (`OnePlace`).

**Stages.**  `Counted` ties the reports of a URL to the deduplicator: one if it
is known, none if not.  For completeness, `NothingLost` says that unless the run
is cancelled every item is handled, queued or with a worker, and `LeftEmpty` that
a worker that left, left an empty channel.  When the last worker of a pool has
left, nothing is queued and nobody holds an item, so all is handled.  `OnePool`
says that only the pool of the stage works, and `Verdict` that COMPLETED is
written at the end of a run that nobody cancelled.

The type invariant of a run is not a list of sets only.  That a crawl stays above
the depth limit and below its number of URLs (`Crawls`) is inductive only with
what a fetch is of: the first of its queue, in scope, known to the deduplicator
and above the limit (`FetchesInScope`), since its links go in one deeper.

The refinement of ScanRun goes step by step.  A worker that takes an item, waits
or looks something up stutters; a handler that returns is `Handle`, a worker that
leaves with an item is `Drop`, and `Advance` is `Submit` or `End`.  It needs that an
item is in one place, the channel, one worker or the handled (`OnePlace`), that a
stage that has not begun has handled nothing (`NotYet`), so that what is submitted
is new, that a run has its verdict exactly at its end (`Ended`), and `NothingLost`
and `LeftEmpty` from above for what waits at an end.

**Scope.**  `EditsGoOneWay` needs the shape of a target (its eight fields) and
that each check of `Evaluate` is monotone in the list it looks at.
For `ScopeFollowsFile`, a target that names its file is what `ImportTarget` made
of it (`Imported`), since every edit forgets the file; the rest is a fact about
`Evaluate`.  It promises less under PostgreSQL, which keeps no rules: only roots of
what the file includes are in scope, and what it excludes may be.  `ScopesTyped` says that sanitising invents nothing: a rule is that of
an entry, a domain that of a pattern or of a root the included entries name.

**Scope imports.**  `Inv` adds what a request may rely on from one step to the
next (`Requests`: its root is a candidate, the import it locked is not
confirmed, the identifier it inserted is free) and that a row lock and an
uncommitted identifier have one holder (`Exclusive`).  The refinement also needs
that nothing is recorded for an import that waits (`WaitingIsBlank`).

**Hypotheses.**  `StatusRequest` says what a request relies on at each place:
what it read allows what it wants; what it listed without an error, it saw, if
it was owed at its read and has been ever since.  What
the statements of a cycle are is left open, so the proof does not depend on the
order or the number of them.

**Plans, evidence, investigations, analyses.**  For approvals, the plans of the
service know exactly what was granted (`HeldApprovals`), and a plan whose id was
not given out is nowhere (`Unborn`), which is what makes a restart harmless.  For
evidence, a request carries a record that has one of the hashes of what it
holds, and the only one when its header names are unambiguous.  For investigations, the
only step that marks goes up and stays within the plan, and a copy that is saved
brings the list of the store back.  For analyses, a request
at work has stored exactly the candidates up to the one it has come to, and no
two work on the same run; a bijection then gives the cardinality.

**Intelligence.**  What two overlapping analyses of an asset leave behind is
promised by nobody, and neither is what one leaves whose statements were refused,
so the invariant speaks of the assets where neither ever happened.
At most one analysis is under way for such an asset, and what it read is still
there: the changes of a service end in its observation but between saving the
one and recording the other (`Told`); a technology is announced when it is stored
(`Announced`); the score of the cluster counts the signals of the asset but between
recording and scoring (`Covered`).  A change is appended to the list of its own
subject, so a chain is extended at its end.

**The compositions.**  In ScopeToScan and Research a behaviour of the
composition is a behaviour of each component (`EachScanPartBehaves`, `EachBehaves`):
the component of the focus takes its step, the others stutter.  Every theorem of
a component then carries over, and `ResearchTyped`, `ScansTyped`,
`ResearchKeepsItsPromises` and `ScansKeepTheirPromises` collect them.

**Bus and throttler.**  A closed channel is never listed again
(`ClosedAreUnlisted`), and what is in a channel has a smaller number than what is
published next.  `BreakerRemembers` compares the three counters with the whole
history, by a definition of its own: a failure counts until a row of successes
follows it (`Forgiven`).  The proof needs that the counters are the failures that
stand, up to their limits (`FailuresAreCounted`), and that the successes counted
are the row at the end of the history (`RowIsCounted`).  Three facts about
histories do the rest: a failure stands where it is appended
(`FailureStands`), a success that ends no full row makes nothing good
(`SuccessForgivesNothing`), and one that does makes all good (`RowForgivesAll`).

Every safety and action property and every refinement that a passing run checks
is stated by one of these theorems.  Only model-checked are the liveness
properties (`SweptTargetsJobsEnd`, `SweptJobsEnd`, `CreationsLand`, `LaunchedJobsEnd`,
`ScansEnd`, `RequestsEnd`), since fairness is out of the prover's reach.

## 6. What is not modelled

* Contents: payloads, wording, logging, timestamps other than those of audit
  events.  An import is its decision and, in ScopeEvaluation, its entries; an
  audit event is its two states and its time.
* Target handlers: statistics and assets created by hand.
* Job service and bus: streaming of events to clients.
* Stages: DNS records, services and counters; ports and the normalisation of
  URLs; subdomain discovery asks its scope by host only, so that a target with
  path patterns discovers nothing (`recon/subdomain.go:103`), which the constant
  `Hosts` (what is discovered, in scope) leaves to its instance.
* Scope: ports, regular expressions other than one host or all below one,
  corrupted files, notes of the reader.
* Reasoning: trust boundaries, authentication contexts, permission matrices,
  workflows and asset interest, which are single writes nobody decides on; the
  telemetry of runs; deletion of the target under a request.
* Evidence: outliers, research interest, the raw and semantic levels of a diff
  but for its security relevance, the event of a comparison, and the
  verification status, which PostgreSQL does not store.
* Analysis: the evidence handed to the engine, the retries of its client, its
  events.
* Intelligence: page assets, response times, temporal changes, research memory,
  filters of lists, controlled validation.  What fingerprints and invariants find
  in a probe is an input.
* WAF: signatures; the throttler has no caller in the server.
* JavaScript and cloud references, safe dialling: functions of texts and
  addresses that keep no state, well served by unit tests.
* The Python engine, the dashboard and the development mock: stateless or
  presentation.

## 7. What could come next

1. ReconStages with two runs over one table of assets: the status one run writes
   may be taken back by the other (`pipeline.go`, `UpdateAssetStatus`).
2. The engine of ReconEngine composed with the stages of ReconStages, the end of
   a stage being the end of a pool; with ScanRun in place of the stages it would
   stay small.
3. The safety half of the liveness properties: rank functions that no step of
   the service raises, to go with the fairness TLC checks.
