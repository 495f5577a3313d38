# Verification of KU-BO's coordination and evidence protocols

KU-BO is a Python package (`src/kubo`) with a handful of scripts and GitHub
workflows that collect and check Kuwait market evidence.  Most of its code
validates one document at a time.  The parts where several processes meet, where
calls overtake each other and where a crash leaves something half done are few,
and they are what these TLA+ modules are about: who may work, what has been done,
what is retried, and what a ledger still says after a failure.

Paths below are relative to the repository root (`src/kubo/...`,
`scripts/...`, `docs/...`).

Contents: [components](#components) · [modules](#modules) ·
[runs](#runs-and-what-they-show) · [bounds](#bounds) · [fairness](#fairness) ·
[proofs](#proofs) · [findings](#findings) · [limits](#only-model-checked-and-not-modelled) ·
[plan](#plan) · [running](#running)

## Components

### Priority checkpoint store: `src/kubo/priority_runtime.py` (modelled)

- *State*: one JSON file per workload: status, generation, owner and fencing
  token, `updated_at`, and for every shard its status, attempt count, times and
  output.
- *Operations*: `create`, `claim_resume`, `start_shard`, `complete_shard`,
  `block_shard`, `preempt`, `finish`, `load` of `AtomicCheckpointStore`.
- *Interaction*: market runs preempt and resume each other.  A caller keeps the
  generation and the token that its last call returned; every mutation takes a
  flock, rereads the file, compares them and replaces the file.
- *Hard*: the caller reads its clock, and hashes its output, before it waits for
  the lock; a worker that has been replaced goes on calling; a write may land
  although the caller sees an exception; an owner may die.
- *Correct when*: work is fenced by generation, an attempt is never lost or
  charged twice, a completed shard and a finished checkpoint never change, and no
  sequence of accepted calls writes a row that the validator of the next read
  refuses, which would block the workload for ever.

### Recovery lease: `src/kubo/recovery.py` (modelled)

- *State*: one lease file per failure fingerprint: holder, generation, priority,
  heartbeat, expiry, preemption request.
- *Operations*: `acquire_recovery_lease`, `heartbeat_recovery_lease`,
  `request_recovery_lease_preemption`, `release_recovery_lease`,
  `read_recovery_lease`.
- *Interaction*: used by the dry run and the recovery tools; whether the owner of
  an expired lease still works is asked of the process table of the host and of a
  probe that the caller passes.
- *Hard*: an expired lease whose owner is slow, not dead; calls that wait for
  the guard with an old clock; an acquire that lands and raises; a heartbeat that
  meets a preemption request; a generation that begins again after a release.
- *Correct when*: one process works at a time, a lease is replaced only if it was
  abandoned and with a larger generation, requests are not lost, nobody releases
  the lease of another, and the lease of a dead process is recovered.

### Recovery controller: `scripts/recovery_controller.py` with the incidents of `recovery.py` and the `recovery-controller` and `kuwait-market-pipeline` workflows (modelled)

- *State*: GitHub's runs and attempts, uploaded incident artifacts, success
  receipts, issues; nothing of its own between two passes.
- *Operations*: a pass (for a failed pipeline run, by schedule, on request, for a
  failed CI run) reads the newest incident of each fingerprint, resolves, reruns,
  resumes or alerts, and at the very end uploads the incidents it changed.
- *Interaction*: the pipeline and the controller share a concurrency group, so no
  pipeline run is active during a pass, but runs may be queued in it.
- *Hard*: events lost, late or delivered twice; a pass that dies after GitHub has
  done what it asked and before the incident is uploaded; a rerun that fails and
  uploads an incident for the same fingerprint; state read once before a loop.
- *Correct when*: no run gets more than its retries, the count never falls, a
  resolved incident stays resolved until a run fails, every uploaded incident is
  valid, exhausted incidents are alerted for, missed events are made up for.

### Forecast ledger: `src/kubo/ledger.py` (modelled)

- *State*: a JSONL file of hash-chained events, a lock file, a seal file.
- *Operations*: `append`, `events`, `verify`, `seal`, `verify_seal`.
- *Hard*: a short write, a failed fsync, a failed roll-back, a death in between;
  a seal and its verification, which read the events and the bytes in several
  steps that no common lock protects; a wall clock that is set back.
- *Correct when*: what `append` returned stays, a roll-back takes only its own
  bytes, whatever was appended passes `verify`, and an accepted seal is true.

### Live dry run: `src/kubo/live_dry_run.py` (modelled)

- *State*: a directory with a contract, ten stage receipts chained by hash, a
  sealed output that stage 7 writes, a report; the recovery lease of the run.
- *Operations*: `run_daily_dry_run` starts or resumes, `validate_live_dry_run`
  reads everything back.
- *Interaction*: any process that binds the same inputs may resume the run; the
  lease keeps them apart.
- *Hard*: a death between two files that are created exclusively, in the middle
  of one, a stage that outlasts the lease, a call that binds other inputs.
- *Correct when*: the directory is always an initial part of one run, only the
  holder writes, what is reported validates, and a run is finished in the end.

### Source search: `src/kubo/source_orchestrator.py`, `source_resilience.py` (modelled)

- *State*: the plan of sources by wave, the attempt ledger on disk and its rows in
  memory, open circuits, used domains, elapsed time, the report.
- *Operations*: `SourceSearchOrchestrator.run` with its planning, routes,
  strategies and attempts; `validate_source_search_run`, which recomputes the
  report from the ledger.
- *Interaction*: the connector is injected; its answers pass
  `_validate_connector_result` before they are recorded.
- *Hard*: any answer that passes, times four strategies times two attempts; a
  budget that ends between any two of them, or while the connector is at work; a
  row that is half written; a sleeper that raises.
- *Correct when*: the validator accepts the report that a run makes, unless an
  answer contradicts itself or an attempt outlasts the time of the whole run; a
  failed source is left for good; the plan keeps the reserves of later waves.

### Atomic output: `src/kubo/atomic_output.py` (modelled)

- *State*: the parent directory behind a path, a hidden staging directory per
  call, the output name.
- *Operations*: `run_atomic_output`.
- *Interaction*: every tool that publishes a directory goes through it; calls for
  one name race, and others may move the parent, remove the staging directory or
  take the name.
- *Correct when*: what holds the name is never replaced, a call publishes only
  whole outputs, and what it answers is true.

### Research integration: `src/kubo/kuwait_research_pipeline.py` (partly)

- `build_integrated_research_bundle` validates a source search and publishes a
  bundle through the atomic output.  The checks of the parsed inputs only refuse a
  call and are left out.

### Research decision ledger: `src/kubo/research_ledger.py` (modelled)

- *State*: a chained stream of decisions and one of outcomes, a lock for each, a
  seal over both.
- *Operations*: `record_report`, `append_outcome`, `verify`, `seal`,
  `verify_seal`.
- *Hard*: outcomes are checked against decisions, so calls need both locks; short
  writes, failed roll-backs, deaths; a clock that is set back.
- *Correct when*: a seal covers one state of both streams that stays, each
  outcome follows its one decision, and calls return.

### Components that are not modelled

| Component | State, operations, interactions | Hard | Correct when |
| --- | --- | --- | --- |
| Issuer sequential collection, `issuer_sequential_collection.py` | A queue of issuers and sources worked off in order | a budget that ends in the middle | no issuer is begun before the previous one has its end |
| Source fallback, evidence lifecycle, source quality | Pure decisions over lists of observations | ties, order of the input, conflicting observations | the result does not depend on the order; a conflict is never a fact |
| Backfill, replay, evaluation, `temporal_validation.py` | Batch computations and packages | time boundaries | a training sample never overlaps a test sample |
| Automation schedule and workflow definitions | Time tables and their validators | day and zone boundaries | each occurrence resolves to one run |

The remaining components listed in `PROJECT.json` (network capture, official and
benchmark imports, status and corporate imports, the tri-security pilot, the data
foundation gate, research and ranking, market data validation, the command line,
repository checks) read documents, check their shape, compute and write once.
They share no state between calls; what could be said about them is a statement
about parsing or arithmetic, which the repository's tests cover better than a
model would.  Together they are most of the code.

## Modules

| Module | Models |
| --- | --- |
| `ShardWork` | Abstract: what a checkpoint promises a reader, without runs, generations or calls |
| `PriorityCheckpoint` | `AtomicCheckpointStore`, shown to implement `ShardWork` |
| `PriorityCheckpoint_proof` | its theorems |
| `LeaseService` | Abstract: what the holder of a lease may rely on, without clocks, calls or generations |
| `RecoveryLease` | the lease of one fingerprint, shown to implement `LeaseService` |
| `RecoveryLease_proof` | its theorems |
| `RecoveryController` | pipeline runs, events, incidents, issues and the controller's passes |
| `RecoveryController_proof` | its theorems |
| `LiveDryRun` | `run_daily_dry_run` on top of `LeaseService` |
| `LiveDryRun_proof` | its theorems |
| `ForecastLedger` | one ledger file, appends, seals and their verification |
| `ForecastLedger_proof` | its theorems |
| `ResearchLedger` | the two streams, their locks and the seal over both |
| `ResearchLedger_proof` | its theorems |
| `SourceAttempt` | the answers of a connector and what becomes of each: operators |
| `SourceReport` | the validator of a finished search: operators on rows and report |
| `SourceSearch` | the orchestrator's run, with `SourceAttempt` and `SourceReport` |
| `OutputEntries` | the parameters of `AtomicOutput` and what an output name may hold |
| `AtomicOutput` | concurrent calls of `run_atomic_output` for one name |
| `AtomicOutput_proof` | its theorems |
| `ResearchBundle` | `SourceSearch` followed by calls of the integration, through `AtomicOutput` |
| `ResearchBundle_proof` | its theorems: the plan, the run of the search, its report, and the publication from those of `AtomicOutput_proof` |
| `MC...` | the model values, symmetries and function constants of the runs |

What composes what: `LiveDryRun` uses `LeaseService`, which `RecoveryLease`
implements; `ResearchBundle` runs `SourceSearch` and `AtomicOutput` side by side.

Definitions whose comment begins with "Mutant" or "Slips" are plausible mistakes,
defined before the operator they stand in for and used by nothing else: they show
that a property can fail.

### How state and actions correspond to the code

**Two-step calls.** In `PriorityCheckpoint` and `RecoveryLease` a call has two
steps.  `Invoke...` records what the method reads before it holds the lock (the
caller's handle, its clock, the bytes of its output); the action named after the
method is the critical section.  Any other process may act between the two.  The
critical section is one step because the code holds the flock from its read to
its `os.replace`; a write that lands although the call raises (the directory fsync
fails, or the process dies after the replace) is a disjunct of the step: the file
changes and the caller learns nothing.  A death before the replace leaves the old
file, as in `Crash`.

**PriorityCheckpoint.** `status`, `generation`, `owner`, `updatedAt`, `finishedAt`
and `shard` are the row (`file`).  A fencing token hashes checkpoint, generation
and owner, so `handle[r]`, a pair, stands for the expected generation and the
token.  `startGen` and `settleGen` are history: the generations that last started
and settled each shard.  `Refuse` is a call that a check turns away.

**RecoveryLease.** `lease` is the file or `NoLease`; `working[p]` says that `p` was
told that it owns the lease and has not begun to release it.  `LocalProcessActive`
is the comparison with the process table, which sees processes of its own host
that have a local identity; `ProbeAnswers` is the caller's `active_run_probe`.  It
may fail, and may report a run that has ended, but it does see a run that is at
work: that is what a caller promises who passes one.  Without a probe an expired
lease is not taken over.

**RecoveryController.** A fault stands for a fingerprint and its incident.
`run[r]` is GitHub's run with its attempt; `events` are completions that may be
delivered, any number of times, or never; `record[f]` is what `_latest_incidents`
makes of all uploaded artifacts; `pass` is the pass under way with the faults it
still has to decide (`todo`), the incidents it has changed but not uploaded
(`out`) and what it read once at its start (`active`).  Each step of the decision
loop is an action, and `AbortPass` may end the pass before any of them.

**ForecastLedger.** `file.log` holds the lines, `file.open` says that the last of
them lacks its newline and still reads, and `file.torn` is the number of the write
that made the file unreadable: a part of a line, or a line behind an open one.  `Write` reads, checks and writes, all
under the lock; `inflight` keeps the lock until the append is acknowledged
(`Acknowledge`), cut back (`RollBack`) or abandoned with its bytes in the file
(`LeaveBehind`: the process dies, or `ftruncate` fails too).  A loss of power while
an append is under way leaves what one of those leaves.  The steps of `seal` and
`verify_seal` that hash bytes do not wait for the lock and see the file in
between, as `sha256_file` does.  A hash is a number that is new for every write,
so two contents are equal only if they are the same writes.

**LiveDryRun.** `dir` holds the files of the run: a file is `Absent`, `Torn` or
its content, and `_write_exclusive` (`O_EXCL`) makes only absent ones.  `job[p]`
is the program counter of the call of `p` with its local variables: contract,
stage, hash of the last receipt, first blocked stage.  A receipt is known by its
writer, since the time of writing stands in its hash.  The stages' verdicts on
their inputs are a constant of the contract (`BlockedAt`).  `CutShort` is a write
that fails or is torn, `Crash` the death of a process anywhere, `RunOut` the clock
passing the end of the lease.

**ResearchLedger.** `stream[s]` is a file with its whole lines and whether a part
of a line follows them; `lock` the flocks; `proc[p]` the call under way, with the
locks it holds in the order in which it took them.  A line without its newline is
refused by every reader of the stream, unlike in `ForecastLedger`.  The seal is
replaced in one step.

**Source search.** A state of `SourceSearch` is a place between two rows of the
ledger: `at` holds wave, sources to come, route, strategy, attempt and delay.
`Attempt` is the part of the loop body of `_run_route` from the budget checks to
what follows the row's append, for any answer of the catalog's connector and any
time that it takes; `rows` is memory and `file` the disk.  `Answers` are the results
that `CaptureResult` and the connector boundary accept: every state with every
status, code and flags, with bytes or without; codes and flags stand for the classes
that `classify_source_result` and the validator tell apart.  A row has the
time at which its attempt began and the time at which it was complete, both read
from the clock of the run.  `SourceReport` recomputes what
`validate_source_search_run` recomputes and compares every field of the report
that the model has: what a row may say of its answer (`DispositionFits`), times
(`TimesFit`), order, routes, sources, waves, stop and status.  The plan is made first, for one of a set of catalogs: `Choose`
decides one source after another in the order of waves and names, below the ceiling
that keeps the domains of the later waves (`LaterReserve`), `Fill` gives what they
leave to the deferred sources, `BeginRun` begins with the first wave.

**AtomicOutput.** A directory is an inode, numbered in the order in which
directories stood behind the path of the parent; `call[c].parent` is the one that
`c` has opened.  Rename and cleaning work through the opened directory, the worker
by path: `Unmoved(c)` is what the worker needs and what `_recheck_parent` checks.
"dirty" is a call that raised because it could not clean up.

## Runs and what they show

| Run | Question |
| --- | --- |
| `checkpoint` | Do delayed calls, preemption, old clocks and lost answers ever break the row, the fencing, the attempt count, an outcome or the promise of `ShardWork`? |
| `checkpoint_fair` | Does a workload with a cooperating caller finish?  Yes, unless a shard is interrupted on its last attempt: such a shard is `PENDING` with no attempt left, and nothing can settle it. |
| `lease` | Do a slow owner, delayed calls, a probe that fails, a crash ever give the lease to two workers, lose a request or break the promise of `LeaseService`, and is the lease of a dead process taken over? |
| `lease_preempt` (violated) | Does a preemption request mark the lease that its author read? |
| `controller` | Do lost, late and repeated events and passes that die ever let a count fall, an incident say what did not happen, a third failure be rerun or a resolved incident come back? |
| `controller_fair` | Are used-up retries alerted for, and missed events made up for? |
| `controller_security` (violated) | Does a security failure stop the reruns of its run? |
| `controller_dispatch` (violated) | Does the controller hold back while a run is queued? |
| `ledger` | Do failing appends, crashes and seals that race with them lose an acknowledged event, break `verify`, or make `verify_seal` accept an untrue seal? |
| `live_dry_run` | Do crashes, torn writes, late stages and calls with other inputs ever leave a directory that is no part of one run, let two processes write, or a report that does not validate?  Is the run finished? |
| `research_ledger` | Does a seal ever cover what did not stay, or an outcome without its decision, and can the two locks make calls wait for ever? |
| `source_search` | Does the validator accept the report of every run whose answers are coherent and whose attempts keep within its time, and of no other; are failed sources left, does the plan keep the reserves; and do two racing integrations of one search publish once, whole, and answer truly? |

`PROJECT.json` names for every property of a passing run the mutated definition
that breaks it.

The properties worth reading first:

- `WorkIsFenced` and `KeepsPromise` (checkpoint): a result computed by a run that
  was preempted and replaced never lands on its successor's attempt, even though
  no method looks at the checkpoint's status before it settles a shard.
- `MutualExclusion` (lease): time alone never takes a lease from a live worker.
- `NothingIsForgotten` and `ThirdFailureIsFinal` (controller): retries stay
  bounded although passes forget what they did.
- `AcceptedSealIsTrue` (ledger): `seal` may well write a seal of two different
  states, because it reads the events and hashes the bytes in separate steps;
  `verify_seal`, which does the same, still never accepts one.  The reason is that
  the bytes of a failed append never come back.
- `WithdrawnIsFinal` (ledger): no check says that an amended claim must be open.
  It holds because the evidence mode of a withdrawal is `None`, which is no mode.
- `ReportReconciles` (source search): run and validator are written separately
  and count waves, sources, routes, zero results and budgets each in its own way;
  the property says exactly when they disagree: when an answer in the ledger is not
  `Coherent`, or an attempt took longer than the run may.  No budget, sleeper, disk
  or order of answers does it.  `BundleReconciles` says so for any waves, catalogs,
  connectors and limits.
- `FinishedOrCut` (live dry run): any call with a probe finishes a run, however
  it was interrupted, except at the two places named in `Cut`.  This bounds what
  the docstring of `run_daily_dry_run` ("safely resume") can mean.
- `KeepsService` (lease): what `LiveDryRun` assumes of the lease, `RecoveryLease`
  does; `OnlyTheHolderWrites` rests on it although no write checks the lease.
- `SealIsTrue` (research ledger): both locks are needed for the whole of `seal`,
  and the order in which they are taken for `CallsReturn`.

## Bounds

- Checkpoint: two runs, one shard, two outputs, three generations, two times, one
  crash; two shards in `checkpoint_fair`.
  Three generations are needed for a shard to be interrupted twice, and so to use
  up its two attempts, with somebody left to try again, and for a run to come back
  as owner while an old call of its own still waits; two outputs for a second
  completion to differ from the first; two times for stale and fresh calls.
  `checkpoint_fair` has one run and two shards, so that a finish meets a mixed
  workload, and the theorems have any number of each.
- Lease: two processes of one host, of which one has a local identity, so that one
  is found in the process table and the other only by the probe, with two
  priorities; `lease_preempt` has two hosts; a duration of one tick and a clock
  that goes on until the lease has expired; two tenures, so that a lease is
  replaced, or released and acquired again.
- Controller: two runs and two faults, a transient one and one that alerts at
  once; at most four attempts granted by GitHub, of which a run may take three.
  The window is over within the clock.  The violation runs use the classes that
  the documents speak about.
- Ledger: one claim and three writes, enough for create, withdraw, amend, for an
  append that fails between two that do not, and for one that begins while a seal
  of another is being made; two readings of the clock.  One ledger id: another id
  is refused before anything else and changes nothing.
- Live dry run: two processes, a contract that passes and one that blocks at
  stage 4, two mishaps: a crash of the run and one of its resumption, or a crash
  and a call with other inputs.
- Research ledger: two processes, two decisions, one outcome, five calls, one
  mishap: enough for an outcome between two decisions, a seal before and after,
  and an append that is cut short while the other process waits for its lock.
- Source search: three sources in two waves, two domains, so that a source may not
  fit.  The connector `any` gives answers of every class, coherent and
  not, in runs of three attempts; `regular`, which keeps to the shapes of
  `ingestion.py`, also takes its time, up to one unit of a time of two; `slow` takes
  up to three, so that one attempt can outlast the run; `pages` and `failing` give a
  few classes in runs of six and five attempts, which is what it takes to leave all
  four strategies of a route without results and to go on with another source.  The
  theorems have any subset of `Answers` and any times.  Calls of the integration
  follow the runs of one catalog, two calls of one file each with two mishaps: the
  bundle depends on the search through `Integrable` alone.

`MaxTime`, `MaxGeneration`, `MaxCrashes`, `MaxTenures`, `MaxGranted`, `MaxWrites`,
`MaxCalls`, `MaxMishaps`, `Integrated` and the `longest` of a connector (the time
from one attempt to the next) are the only bounds that the code does not have; `MaxAttempts` is the
code's own, as are the limits of a search (`requests`, `MaxDomains`, `MaxWall`).
Symmetry is used only for runs and claims, which the actions compare
for equality alone, and never in a run with a liveness property.

`CHECK_DEADLOCK FALSE` is set where the system may really stop: all processes of
the lease are dead, a ledger has an unfinished line, which every later append
refuses and no code repairs, a search or all calls have ended.

## Fairness

- `checkpoint_fair`: every call returns (the flock is released when its holder
  dies), and a cooperating run reloads the row and goes on calling what serves
  progress.  Strong fairness is needed where a crash or another call of the same
  run can disable the next one.  Nobody is obliged to create, preempt or crash.
- `lease`: time passes, calls of live processes return, a live process keeps
  asking for the lease; strong fairness on `Acquire` says that a probe does not
  report a run that has ended for ever.
- `controller_fair`: GitHub starts queued runs, runs end, the schedule of the
  watchdog workflow is served, and a pass that is about to do something is not
  always the one that dies.  Strong fairness on the watchdog's steps says so,
  since any single pass may abort.  Time stops during a pass, because the code
  reads `now` once, so `Tick` is enabled again and again and not continuously: it
  needs strong fairness too.  No event is assumed to be delivered.
- `live_dry_run`: a process that runs goes on, leases run out, and somebody
  repeats the call of the run with a probe.  Strong fairness on taking the lease:
  it may be held by a call that is refused, but not whenever anybody asks.  The
  probe is the caller's: the command line (`cli_v3.py:847`) passes none, so through
  it the expired lease of a process on another host is never taken over.
- `research_ledger`: weak fairness of the steps of a call; the calls are finitely
  many, and a lock that is free stays so until someone takes it.

## Proofs

TLAPS proves the following for all values of the constants that satisfy the named
assumptions of the modules (the "none" values are distinct from the real ones,
bounds are naturals, priorities are 0 to 100).

**`PriorityCheckpoint_proof`.** `Invariance` is `Spec => []IInv`.  Neither
`RowValid` nor `WorkIsFenced` is inductive.  A row in `RowValid` may carry a start
in the future, after which a completion would end before it began: `Chronology`
says that no time in the row or in a waiting call is later than the clock.  A row
in `WorkIsFenced` may hold a pending shard that the present generation has started
before; `GenerationsAreOrdered` excludes it.  `CallsAreWellFormed` bounds what a
waiting call carries, `FinishedStatus` ties the status of a finished checkpoint to
its shards.  From the invariant follow `TypeCorrectness`, `RowValidity`,
`Fencing`, the action properties `Immutability`, `Counting` and `Finality`, and
`Refinement`: the initial state maps to one of `ShardWork`, and every step to a
try, a settlement, a closing or a stutter.  The proof has one step per action;
what an action does to the row is a lemma of its own (`StartEffect`,
`CompleteEffect`, `BlockEffect`).

**`RecoveryLease_proof`.** `IInv` adds to the types and `LeaseValid` that a worker
is alive and owns the lease as it stands (`WorkersOwn`).  The core is
`AcquireFindsNoWorker`: an acquire that is admitted finds no worker, because an
owner that is at work is seen by the process table or by the probe.  From it follow
`Exclusion`, `Replacement`, `Preemption` and `Ownership`.

`Implementation` shows that `RecoveryLease` implements `LeaseService` with the
holder and the freshness read off the lease file.

**`AtomicOutput_proof`.** `IInv` follows a call through `run_atomic_output`: until
it has renamed it has published nothing, then its entry stands in the directory it
opened, and it cleans up with an entry published only if it was interrupted
between the rename and `committed = True`.  `AnswersAreTrue` alone is not
inductive, since it says nothing of the calls on their way.  From it follow
`TypeCorrectness`, `TrueAnswers` and `FinalOutput`, for any number of calls, files
and mishaps.

**`ResearchBundle_proof`.** Every step of the composition is a step of
`AtomicOutput` or leaves the publication alone (`PublicationSteps`); so the
invariant and both properties carry over to the calls of the integration
(`BundleAnswers`, `BundleIsFinal`), whatever the search does.

The rest of the module is about the search; every step of the composition is also a
step of the search or leaves it alone.  `SearchInvariance` is `[]SearchInv`, which
has four parts.

`PlanInv` is kept by the steps that make the plan.  A source stands at most once in
the plan, in its own wave, and is planned, deferred or undecided (`PlanOnce`);
`PlanFits` says that the domains used so far stay below the ceiling of every wave
that still has undecided sources, and that a deferred source would make its own
wave use more domains than the wave's reserve.  A source is deferred because it
would pass the ceiling of its wave; since the ceilings of successive waves differ by
exactly one reserve, it would then pass the reserve as well.  `BundleKeepsReserves` follows.  No cardinality is computed: the proof
needs that unions grow and that a part of a finite set is no larger.

`RunInv` is kept by the run.  `SourcesFailOver` is not inductive: that no row of a
source follows a row that opened its circuit needs to know where the run stands.
`Places` says where in its plan the run stands, `Behind` that the source of every
row has been reached and that the row's attempt lies before the next one,
`Follows` that rows of a closed source belong to the current one and that nothing
more comes of it.  `Counted` and `Within` bound rows and domains by the budgets; a
row that the sleeper's failure adds is charged to the attempt before it, so there
are at most two rows for each request.  `BundleFailsOver` and, with the types of
the publication, `BundleTypes` follow, for any catalogs, reserves and limits.

`ReportInv` follows the report while it comes about; from it and the others follows
`BundleReconciles`, that `ReportReconciles` holds.  The property speaks of a run that
is done, and so says nothing of the steps on the way.  `LedgerOK` says that the rows
are in order and every route in them is, `Latest` and `Continued` that those of the
current source and route are the last ones and how the next attempt follows them.
`Pages` ties the proofs in `zeros` to the empty pages of the route: the run counts
proofs, the validator looks for four pages in four strategies, and `FourPages` shows
that it comes to the same: a proof is known by the strategy that first drew it, so
only strategy 4 can bring proof 4, then only strategy 3 proof 3, and so on.  `Outcomes` and `Tally` say that the outcomes of the
routes so far, and the attempts counted since source and wave began, are what the
validator would recompute from the rows.  `SourcesOK`, `WavesOK` and
`StopOK` say the same of what has been reported: no later row touches a source or a
wave in the report, and a stop cuts one source at most and every wave after it.  The
steps that write a row share one argument (`Recorded`, and the lemmas named after
it).

`RowsInv` speaks of the rows one by one: each says of its answer what `Disposition`
or the budget of retries makes of it (`Judged`), and no two of them overlap in time
(`Timely`).  The lemma `DispositionsFit` then shows, over all answers, that the
validator takes such a row if and only if its answer is `Coherent`, and
`TimesFitIs` that it takes the times if and only if no attempt is longer than the
run may be.  These are the two ways in which a report can fail; that it can fail
in no other way is `ReportInv`.  TLC checked both on the `source_search` instance
before they were proved.

**`ForecastLedger_proof`.** `NothingAcknowledgedIsLost` is `AcknowledgedStays`.  The
invariant says what the append that holds the lock has done: what it would cut back
to is a beginning of the lines, which are longer by its own event at most, and that
event is numbered by its place; every event that append returned stands at its
place among the committed lines.  Seals, and what stands in an event, do not matter
for it: the lines may be any sequence, so no type invariant is needed.
`TypeCorrectness` adds the types, for which a seal that is being made must have read
a line (`SealerReady`).

`Verification` and `Finality` rest on `LogsAreSound`: the lines, and those that the
append under way would go back to, pass every check of `verify` and are amended
after no end.  `WithdrawnIsFinal` is not inductive without `ModesFit`, which says
that exactly the forecasts have a mode: an amendment would need one to compare
with, and this is all that protects an ended claim.  That
`verify` goes on to accept old lines behind which another stands is a lemma
(`VerifiedStays`).

`AcceptedSeals` rests on `SealsHold`, which follows a seal from its reading over the
hash and the file to its verification.  A seal may be of committed events behind which the hashed
bytes had something more (`SealHolds`); what was cut back has a hash of its own and
never comes again (`Compared`), so a seal that is accepted is `Exact`.

**`ResearchLedger_proof`.** `IInv` says that a call holds its locks in the one order
and writes with all of them, that a lock belongs to the process whose call has it,
and that what a call may take back is the last line of its stream.  `CommittedLasts`
and `SealsAreTrue` follow: with both locks `seal` sees no line that could be cut
back.

**`LiveDryRun_proof`.** `IInv` says who works has the lease (`LeaseOK`), that the
files are an initial part of a run of the contract (`DirOK`), and what each process
knows: of the stages that it passed it has the last receipt and the first blocked
stage as they stand in the files (`Knows`).  `DirectoryIsAPrefix` alone is not
inductive, since a process writes a receipt from what it remembers.  That others do
not disturb what it remembers follows from the lease (`OnlyOneWorks`).  From `IInv`
come `OneRun`, `ReportsLast` and `HolderWrites`.  `LeaseIsUsed` joins the two
modules about the lease: a dry run takes no step that is not one of `LeaseService`,
which `RecoveryLease` implements (`Implementation`), and whoever calls heartbeat
works under the lease, whoever calls release no longer does, so that the guards of
the service hide nothing that the code would do.

**`RecoveryController_proof`.** `IInv` says that every uploaded incident is in order
(`RowOK`), and of a pass that the incidents it will upload are in order and say no
less than those it read (`SaysMore`), that its event is about an attempt that was
made, and that no run runs.  The last is what the concurrency group of the two
workflows provides; without it a run could upload an incident that the pass
overwrites when it ends, and `NothingIsForgotten` would fail.  `TrueIncidents`,
`CountsLast` and `RetriesEnd` follow, for any classes, windows and grants.

Only the safety part rests on no bound: `MaxTime`, `MaxTenures` and the others
occur in the theorems as arbitrary naturals.

## Findings

- `lease_preempt`: `request_recovery_lease_preemption` is documented to "CAS-mark"
  a lease, but compares the generation alone, and a release removes the file, so
  that the next lease has generation 1 again.  A request can mark a lease whose
  author never read it.
- `controller_security`: `docs/RECOVERY_AND_RESUME_AR.md` says that a security
  failure stops automatic reruns.  Incidents are decided one by one: a transient
  incident of the same run still reruns it.
- `controller_dispatch`: the same document says that nothing is dispatched while a
  run is queued.  The active runs are read once, before the loop, and two
  incidents of one pass dispatch two runs.

Seen while modelling and not yet the subject of a run: an owner that dies
`RUNNING` cannot be replaced through `claim_resume` (only a preempted or blocked
checkpoint can be claimed); the forecast ledger reads a last line without its
newline, and the next append is acknowledged and makes the file unreadable, while
the research ledger refuses such a file; a dry run that dies between two of its
exclusive writes cannot be resumed.  They are listed among the hazards.

The source search accepts answers of a connector whose report its own validator
then refuses: an `ERROR` with `HTTP_RATE_LIMITED` or with a hard block outside the six
codes that the validator knows (`HTTP_FORBIDDEN`, `ROBOTS_DISALLOWED`, ...), a
`BLOCKED` with bytes, a transient error with bytes, the code `PARSER_DRIFT` without a
status or a flag that names the parser.  `_validate_connector_result` looks at the
identity of an answer and not at its shape.  The answers of the connector in
`ingestion.py` are coherent (the connector `regular` of the run lists their shapes);
another one that is injected need not be.  Likewise, an attempt that is longer than
`max_wall_seconds` ends the run in `WALL`, with a row that the validator refuses:
nothing limits how long a capture may take.  `ReportReconciles` states both
as the exact exceptions that they are, and no document of the repository promises
more.

## Only model-checked, and not modelled

- Liveness (`FinishedOrExhausted`, `DeadLeaseIsRecovered`, `ExhaustedIsAlerted`,
  `MissedEventIsRecovered`, `FinishedOrCut`, `CallsReturn`) is out of the prover's
  reach and is checked by TLC on small instances only.
- `PriorityCheckpoint`: `verify_completed_outputs`, which changes nothing, and
  `require_production_checkpoint_store`, which always refuses.  Failure codes are
  left out; a shard has one exactly when it is blocked.  The code also validates the
  changed row before it writes it (lines 645, 678, 715), and the model does not: so
  `RowValid` shows that the check never turns away a call that the others admitted.
- `RecoveryLease`: symlink and path checks; one fingerprint, since leases of
  different fingerprints share nothing.  As above, the new lease is validated before
  it is written (lines 1204, 1241, 1284), which the model leaves out and `LeaseValid`
  shows to be idle.  A process whose entry in the process table cannot be read, or
  whose start is recorded as unknown, is one without a local identity.
- `RecoveryController`: the text of issues and reports, sanitising, the outliving
  of artifacts, the second issue that a lost answer to the creation of one may
  leave.
- `ForecastLedger`: validation of payloads, artifact hashes and the times of issue
  and effect, which look at one event alone; the directory entry of a new file, which is not synced.
- `LiveDryRun`: the five validators of the inputs (a contract says which stage
  they block), the content of the receipts beyond status and chain.
- `ResearchLedger`: the validity of reports, payloads and evidence packets, which
  is checked on each alone and assumed to stay as it is; the readers' results.
  `record_report` names its lock after the path as given (line 766), the other calls
  after the resolved one (line 506).  The two differ if a stream is a symbolic
  link; the model has one lock for each stream.
- `SourceSearch`: texts, limitation lists and hashes; the connector itself, and the
  shapes of flags that the validator refuses as text (empty or repeated ones, lines
  676 to 680; flags in lower case).  The clock is monotone and the same for the
  connector, the rows and the elapsed time, as it is by default; the jitter is
  valid.  Whether two final addresses differ is merged with the proof of a page
  without results.  The check that no attempt is more than 120 days before the
  decision (line 1190) is left out: it bites only for a decision in the far future.
- `AtomicOutput`: the `before_commit` hook, the fallbacks for platforms without
  directory descriptors, a staging directory that is replaced rather than removed.
  If the parent is moved after the last check, the output is published in the
  moved directory and the call returns: the model keeps this, and the properties
  speak of the directory that the call opened.
- All other components: see the table above and `PROJECT.json`.  What could still
  be modelled is in the plan.

## Plan

Done: `ShardWork`, `PriorityCheckpoint`, `LeaseService`, `RecoveryLease`,
`RecoveryController`, `ForecastLedger`, `LiveDryRun`, `ResearchLedger`,
`AtomicOutput`, `SourceAttempt`, `SourceReport`, `SourceSearch` and
`ResearchBundle`, with proofs of every safety property that the runs check.

Next:

1. `SequentialCollection`: the order of issuers under a budget.
2. Operators with a reference definition: `reconcile_source_evidence`,
   `plan_source_fallback`, the intervals of `status_history`, the purge of
   `temporal_validation`.

## Running

    tlc -config PriorityCheckpoint.cfg MCPriorityCheckpoint
    tlapm PriorityCheckpoint_proof.tla
    tlapm RecoveryLease_proof.tla
    tlapm RecoveryController_proof.tla
    tlapm ForecastLedger_proof.tla
    tlapm LiveDryRun_proof.tla
    tlapm ResearchLedger_proof.tla
    tlapm AtomicOutput_proof.tla
    tlapm ResearchBundle_proof.tla

Each entry of `runs` in `PROJECT.json` names the module and the configuration of a
run.
