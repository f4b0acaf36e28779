# Verification of registry-cache-doctor

`rcd` diagnoses and repairs the Redis blob descriptor cache of distribution
registries. This directory holds TLA+ models of it, the TLC configurations
that check them, and proofs checked by TLAPS. Paths below are relative to the
repository.

## The system

| Component | State | Operations | Talks to |
|---|---|---|---|
| `src/rcd/models.py` | `RedisSnapshot`, `FsSnapshot` | none | everything |
| `src/rcd/scan/redis_scan.py` | the keys found so far | two SCAN passes, then HMGET, HGET and SMEMBERS in one pipeline each | Redis |
| `src/rcd/scan/fs_scan.py` | the blobs found so far | walk of the storage tree, one stat per digest | file system |
| `src/rcd/classifier.py` | none (pure) | `classify`: pairs, then global hashes, then files | snapshots |
| `src/rcd/orchestrator.py` | semaphore, task and two threads per registry | `scan_one_registry`, `scan_registries` | both scans, classifier |
| `src/rcd/clean.py` | plan, chunk, attempts, counters | `plan_clean`, `execute_clean`, `clean_registry` | Redis, through non-transactional pipelines |
| `src/rcd/cli.py` | reports, totals, exit code | `scan`, `clean`, `inspect`, `version` | orchestrator, clean, output |
| `src/rcd/config.py` | none | choose a file, convert, check | TOML |
| `src/rcd/output/`, `report.py` | none | one NDJSON line per event; log | stdout, stderr |
| `src/rcd/redis_client.py` | options | builds a client with socket timeouts | redis-py |
| `entrypoint.sh`, `scripts/rcd-cron-exec.sh` | crontab | start `scan` and `clean --apply` again and again, translate exit codes | cli |

External, and modelled from the way the code uses them: Redis (single commands
are atomic, a pipeline is not), the registry (the commands of its
`SetDescriptor`, its `Clear`, the order of checks in its `Stat`), the storage
tree, asyncio and the thread pool.

What is hard here:

* the two halves of a scan run in two threads and read a live system: SCAN,
  fetch and stat look at a key at different moments;
* the plan is as old as the scan, and the registry writes the same keys;
* a pipeline can fail after any prefix of its commands, is then sent again as
  a whole, and after a timeout its old commands may still arrive;
* the global hash belongs to all repositories that share the digest;
* `asyncio.gather` raises at the first failure and leaves the other thread;
* runs are repeated by cron, killed anywhere, and two lines of the crontab
  share a schedule;
* `inspect --with-refs` scans twice, and joins the verdicts of the first scan
  with the references of the second;
* a storage tree that is not mounted looks like an empty one.

What makes each component correct:

| Component | Correct when |
|---|---|
| classifier | its verdict on a pair is what the registry's read path would do; its passes leave nothing out |
| scan | what stood throughout is found; what is found stood at some moment |
| clean | the report is true and complete; only condemned entries are evicted; partial effects are harmless |
| repeated runs | drift goes away once disturbances cease |
| orchestrator | failures stay with their registry; the cap holds; the run returns |
| cli | no registry is cleaned while it is scanned, or forgotten; the exit code says what the events say, through `rcd-cron-exec` too; `inspect` contradicts itself only where the registry has changed |
| config | a command that goes on has settings in range, from the file the user named, and one client per scanned registry |

The hazards, each at its line and with the properties that would catch it, are
in `PROJECT.json`.

## Modules

| Module | What it is | Code |
|---|---|---|
| `BlobCache` | the three key shapes, the storage tree, Redis commands, `Stat` and a pull | `models.py`; external |
| `Classifier` | `classify` as operators, one per pass | `classifier.py` |
| `Classification` | one call of `classify` on arbitrary snapshots, and its properties | `classifier.py` |
| `Clean` | one call of `clean_registry`, command by command, beside a registry that writes | `clean.py` |
| `DescriptorCache` | abstract: a table of served sizes from which condemned digests may be evicted | |
| `CleanProperties` | properties of `Clean`, the refinement, the inductive invariant | `clean.py` |
| `RedisScan` | `scan_redis` as actions on any Redis that somebody else changes | `scan/redis_scan.py` |
| `Scan` | one scan: `RedisScan` and the walk of the tree in two threads, requests, losses, another clean | `scan/*.py`, `orchestrator.py:69-73` |
| `Inspect` | `rcd inspect`: composes two scans of `Scan` with the join and the output | `cli.py`, `_cmd_inspect` |
| `Doctor` | `Clean` run after run | `entrypoint.sh`, `clean.py:12-16` |
| `Overlap` | two calls of `Clean` on one Redis, and the scan of the second by `RedisScan` | `clean.py`, `redis_scan.py`, `cli.py:289-308` |
| `Orchestrator` | semaphore, gather, thread pool and end of `asyncio.run` | `orchestrator.py` |
| `Command` | `rcd scan`, `clean` and `version`: composes `Orchestrator` with the loop of `clean`, the exit codes and the cron wrapper | `cli.py`, `output/ndjson.py`, `rcd-cron-exec.sh` |
| `Config` | search order, options, registries, and the flags on top | `config.py` |
| `ClassifierFacts` | lemmas about `classify`, used by all proofs about verdicts | |
| `ClassifierProofs`, `CleanProofs`, `DoctorProofs`, `OverlapProofs`, `CommandProofs`, `ConfigProofs` | theorems about the module they are named for; `CommandProofs` also holds those of `Orchestrator` | |
| `ScanProofs` | theorems about `Scan` and `Inspect` | |
| `MC*` | constants and symmetry for TLC; `MCClean` also picks one initial state of those that differ in names alone | |

`Classifier` extends `BlobCache`; `Classification`, `Clean` and `RedisScan`
extend `Classifier`; `Scan` extends `RedisScan`; `Inspect` extends `Scan`; `CleanProperties` and `Doctor` extend
`Clean`; `Overlap` extends `CleanProperties` for the first call,
and instantiates `RedisScan` and `CleanProperties` for the second; `Command` extends `Orchestrator`;
`CleanProperties` instantiates `DescriptorCache`, the abstract specification.
The proofs follow: `DoctorProofs` and `OverlapProofs` extend `CleanProofs`, and
`OverlapProofs` instantiates it for the second call.

A definition introduced by a comment that begins with "Slip" is not part of
the model. It is a plausible mistake in the definition that follows, and a
property finds it when the two are exchanged (`PROJECT.json`, `mutants`).

### How state and actions correspond to the code

*`BlobCache`.* A Redis state and a snapshot have the same shape: for each
digest a size, a hash without size (`None`) or no hash (`NoKey`); the digests
whose hash has the field `digest`; the set of set members; the set of
repository hashes. `Stat` needs `digest` and size (models.py:27-32), `classify`
looks at the size alone (classifier.py:102-113), and the fetch of a scan drops
`digest`, so that a snapshot never has it. `CacheState` is the states Redis can
be in: a field needs a hash. Media types are left out: no verdict reads them.

*`Clean`.* `Plan` is `clean_registry` up to `execute_clean`, with the order of
the plan that of a Python set; `Send` is the head of the `while` loop and the
filling of a pipeline; `Serve(n)` is one command of the n-th pipeline in Redis;
`ExecuteOk`, `ExecuteErrorRetry` and `ExecuteErrorGiveUp` are the outcomes of
`pipe.execute()` together with what the code does next. A pipeline stays in
`wire` after its attempt has failed, so its commands may still be executed at
any later time, in order: this is the TCP stream that a client with a socket
timeout has given up. redis-py's own reconnects are not modelled apart: they
look like one more attempt. `Abort` is a kill or any other exception.
Registry commands come singly and in any order, which includes any number of
concurrent requests and any request that dies halfway; that is also why the
call may start from every state of Redis. `RegistryClear` is the commands of
the registry's Clear, SREM, DEL and HDEL, one at a time. Of an attempt that
fails, a prefix of the commands has been executed; that Redis answers one
command with an error and executes those behind it is left out.

*`RedisScan`, `Scan`.* A key is looked at by `ScanKey` at some moment of its pass and
fetched by `FetchGlobal`, `FetchRepoHash` or `FetchRepoSet` at some moment of a
later one; that SCAN returns at least the keys that exist throughout the pass
is Redis' guarantee. `ScanError` and `WalkError` are errors of either half. A
request stores the blob before it announces it. Files
may be lost at any moment, and `ForeignClean` executes any removal. A global
hash of the initial state has `digest` exactly when it has a size, as
SetDescriptor and HDEL leave it; the others are `Classification`'s. `mounted`
is FALSE when the storage root has no blobs directory, which `scan_fs` takes
for an empty tree.

*`Inspect`.* A scan of `Scan`, `ScanReturns` (classify and, with
`--with-refs`, start over in Redis alone with nothing found), the second pass,
`Filter` by category and one `EmitInspect` per event. The history of facts runs
from the beginning of the first scan to the end of the second, so "throughout"
and "at some moment" refer, for the second scan, to both.

*`Doctor`.* Adds the storage tree, which a run may find unmounted, a new run
after a finished one and the bookkeeping of undisturbed runs: a run is
disturbed by a write, an op given up, a kill or a scan of an unmounted tree,
but not by an attempt that is repeated (`FailedAttempt`). Two abstractions:
the scan of a run is taken as exact (`UndisturbedIsExact` of `Scan` is that
claim, and a run with a disturbance counts as disturbed), and no command of a
previous process is on its way when the next one starts.

*`Overlap`.* The second process has its own variables. Its two SCAN passes and
three fetches (`SecondScans`) run key by key amid the commands of the first
call, so its snapshot may mix what they had not yet removed with what they had:
a state that Redis was never in. `SecondCleans` is the call of `clean_registry`
with it; a step of either call is a step of `Clean`, retries, late commands,
aborts and writes of the registry included. The first call's own snapshot is
the state at its start: of two processes the first is the one whose first
command comes first, so its scan was over before either had removed anything,
and is exact while the registry is quiet. The tree is the same for both. What holds only while the registry
is quiet says so by `writes = 0`.

*`Orchestrator`.* A task is waiting, scanning or reported; a half of a scan is
queued, running, ok or failed; `GatherRaises` does not ask for the other half.
The end of the event loop drops queued halves and waits for running ones, but
gives up after five minutes (Python 3.12 and later; the image runs 3.13), so
`LoopCloses` does not ask for them.

*`Command`.* Of a report, only whether the counts of C1/C2/C3/C6, of C4/C5 and
of C7 are zero is kept, of a clean only how it ended: this is what the exit
codes depend on. stdout is the sequence of the events; writing may raise, and
an interrupt may come, at any of them. `_write` does not flush: `FlushFails`
is the interpreter failing to flush the rest at its exit, which leaves an
initial part of the events and the status 120. `ScanRaises` is the `except
Exception` around `asyncio.run`, before any task has begun. `UsageError` is
argparse ending the process. `CronStatus` is `rcd-cron-exec`.

*`Config`.* A TOML value is its type and what `int()` makes of it. One action
per section; every failing check is `Fail`, a tool error. The order among the
checks of a section, which only decides the message, is left out. Socket
timeouts, ports and database numbers, which are converted and not checked, are
left out as well. The name of a
registry and whether it is enabled are kept, its URL and paths are not.

## Runs

| Run | Instance | Shows |
|---|---|---|
| `classifier` | 2 repositories, 2 digests, 2 sizes | every state Redis can be in, and every tree: verdicts match pulls but for hashes with a size and no `digest`; passes are complete and count nothing twice |
| `clean` | 2 repositories, 1 digest, 2 sizes, `Batch` 2, `Retry` 1, `MaxWrites` 1 | `ReportAddsUp`, `AppliedIsGone`, `HalfAppliedDegrades`, `NoCollateral`, refinement of `DescriptorCache`, termination |
| `inspect` | 1 repository, 1 digest, 2 sizes, `MaxFaults` 1 | what a scan of a live system, and a second one after it, may conclude; termination |
| `scan_failure` | the same, one scan | violated: see findings |
| `doctor` | as `clean`, `MaxFailures` 1 | one quiet run removes C4 and C5, two remove all drift, and it stays away |
| `overlap` | as `clean`, two calls, `Retry` 0, `MaxWrites` 0 | with the second plan from a torn snapshot: both reports true, harmless verdicts harmless, nothing evicted but what the first scan condemned, what two calls leave behind |
| `command` | 2 registries, cap 1, 2 threads | containment of failures, the cap, the loop of `clean`, completeness of the output, what success under `--strict` means to cron, termination |
| `orchestrator_cap` | 3 registries, cap 1, 3 threads | violated: see findings |
| `command_all_failed`, `command_lenient`, `command_usage` | 2 registries, cap "auto" | violated: see findings |
| `config` | 3 names, up to 3 tables | `scan_count`, `pipeline_batch` and `retry` in range, one client per scanned registry, no other file |

*Why these bounds.* A verdict reads one pair, one global hash and one file, so
classification needs two repositories (a shared hash) and two digests (no
interference). A clean call with two repositories on one digest has up to
three ops, hence a full chunk and a short one with `Batch` 2; `Retry` 1 gives
an attempt, a retry and a lost pipeline of each. One registry command is
enough to undo a removal and to make a plan stale; the theorems have no such
bound. Two overlapping calls are run without retries and writes: a retry sends
the same removals as the other call does, and the theorems cover both. The keys of a scan are independent but for the
shared hash and the order of passes, so one of each kind has every
interleaving; beside one fault, the request of the pair runs. Two registries
under a cap of one have one that waits, and two threads are taken by the halves
of one that has failed. A duplicate name needs two tables, and a third shows
that only the last of a name counts. The largest runs are `inspect` (1.9
million distinct states), `overlap` (1.1), `doctor` (0.9) and `clean` (0.5, with
liveness): two minutes each or less; `config` has 2.0 million small ones.
Everything but liveness that they check is also proved for all values of
the constants.

Symmetry is declared where no property is a liveness property. `clean` has one,
for which TLC's symmetry is unsound, so `MCClean` keeps of the initial states
that differ in the names of repositories or sizes only one; what follows from
the others differs in names alone. Deadlock checking is off where the system
may stop: a call, a scan or a command that has ended.

*Fairness.* `Clean` assumes that planning and sending go on and that an
attempt ends: `socket_timeout` (`redis_client.py`) turns silence into an
error. No command of an abandoned pipeline, no registry command and no abort
is owed. `Inspect` assumes that the two threads of a scan go on, if only to an
error, each for itself, and that the command does after them. `Doctor` assumes that supercronic starts runs again and again and that, apart
from `MaxFailures` failures, Redis serves pipelines. `Command` assumes that the main
thread and the event loop run what is ready, that a free thread takes queued
work and that both halves end.

## Proofs

Every theorem holds for all values of the constants, under the assumptions
stated in the modules and nothing else: `SpecialValues` (`None` and `NoKey` are
not data), `KeyShapes` (a repository, a digest and a pair are never the same
key), `CleanAssumption` (`Batch` positive, `Retry` and `MaxWrites`
natural, finitely many repositories and digests), `ClassificationAssumption`
(the same finiteness), `DoctorAssumption` (`MaxFailures` natural),
`ScanAssumption`, `OrchestratorAssumption`, `ConfigAssumption`. In each module one lemma per
action shows that the inductive invariant is kept, and one combines them.

| Module | Theorems | Inductive invariant |
|---|---|---|
| `ClassifierProofs` | `ClassificationTypeCorrect`, `VerdictIsExact`, `PassesAreComplete` | the issues are those of `Classify` |
| `CleanProofs` | `TypeCorrect`, `AppliedIsEffective`, `ReportIsComplete`, `NothingElseIsRemoved`, `CallIsEvictions` (refinement), `HalfAppliedIsHarmless` | `IInv`, and `QuietInv` for the last |
| `DoctorProofs` | `DoctorTypeCorrect`, `OneRunSuffices`, `OneRunLeavesLittle`, `TwoRunsSuffice` | `DInv` |
| `OverlapProofs` | `OverlapTypeCorrect`, `BothReportsAreEffective`, `OverlapIsHarmless`, `TwoCallsAreEvictions` (refinement), `TwoCallsLeaveSharedC2` | `BothInv`, and `SharedInv` for the last three |
| `ScanProofs` | `ScanIsSound`; of inspect, one for each safety property of the run `inspect` | `SInv`, `InspectInv` |
| `CommandProofs` | `OrchestratorCorrect`, and one for each safety property of the run `command` | `OInv`, `CInv`, and `OutputInv` for `ExitCodeVouchesForOutput` |
| `ConfigProofs` | one for each property of the run `config` | its own `CInv` |

*The classifier.* `IssuesOfPair` (in `ClassifierFacts`) shows that the orphan
and leftover passes never speak of a pair, so its issues are its one verdict;
`CategoryMeaning` reads the if/elif chain against the registry's `Stat`.
`IssuesAreLocal` says that the issues of a digest depend on nothing but its own
keys and file, which is why a scan may be exact about one digest while others
change. Where a hash has a size and no `digest`, `Stat` misses and the chain
takes it for a hit: such a pair may be C4, C5 or unreported though its pull
goes to the backend, never the other way round (`VerdictMatchesPull` names it
`Undigested`). `PassesAreComplete` counts, C1 included: the issues of a pass are in bijection with
the pairs or digests it reports, and the sets of the passes are disjoint.

*One clean call.* `AppliedIsGone` is not inductive. `IInv` (in
`CleanProperties`) adds what it rests on: the plan holds nothing but eligible
issues (`PlanInv`); every pipeline, lost ones too, carries ops of the plan and
stands before a command (`WireInv`), so that any command that reaches Redis is
a removal; while an attempt waits, the current pipeline carries the chunk and
has executed what lies before its next command (`CurrentInv`), so that a
drained pipeline makes the whole chunk effective; and the counters match the
position of the loop (`LoopInv`). `ServeKeeps` is the heart: a removal never
undoes a removal, so neither retries nor late commands can spoil an op that has
taken effect; `RegistryKeeps` says that a registry command records what it
undoes. From `IInv`, a step of a pipeline is the command of an op, an op is an
issue (`OpHasIssue`), and its command removes what the issue names and only
that (`RedisChanges`): this is `NoCollateral`, and, read through `Stat`, the
step of the abstract cache that evicts a condemned digest. For
`HalfAppliedDegrades` the order of an op's commands counts: `ShrinkInv` says
that while the registry is quiet Redis is the snapshot minus removals, and that
a repository hash has gone only after its set member; `PrefixInv`, that each
pipeline has removed what the commands before its next one name.

*Run after run.* `DInv` adds to `IInv` what an undisturbed run may rely on. It
works on what it has scanned (`FreshInv`: Redis is the snapshot minus removals,
each for an op of the plan); its plan misses no eligible issue (`CompleteInv`,
which rests on `SetToSeqsRange`: a sequence as long as a set and without
repetition names all of it); and `SettledInv` carries from run to run what the
earlier ones have left. When the loop ends, `LoopInv` and `AppliedIsGone` say
that every command of every planned op has taken effect (`AllGone`), so no pair
is a failure. A healthy pair can only have become C2, because its digest's
global hash went for the same digest in another repository; the next run finds
that hash missing, so its ops for the digest cannot take anything from a healthy
pair, and it ends with no drift. An attempt that fails and is repeated does not
matter: the commands it leaves on the wire are those of ops of the plan
(`FreshCall`). After any other disturbance `settled` starts again from 0, and
the theorems hold from whatever state is left.

*Two calls at once.* Each call is shown to keep its invariant beside whatever
else happens to the world. `WorldKeeps` says what a call needs of that: no
command that has taken effect is undone but in `rewritten`; `BesideStep`, that
`IInv` then holds on; `CallKeeps`, that a call itself does nothing worse. So
`BothInv` is `IInv` twice: for the first call from `CleanProofs`, for the second
from its instance, whose lemmas are the same with that call's variables
(`SameCommands` and its neighbours say that what both share means the same to
both). The second snapshot need not be a state of Redis. What holds of its scan at
each of its steps, while the registry is quiet: whatever it has found is in the
first snapshot (`Seen`), and whatever still stands in Redis is still to be
looked at, has been found or is in the second snapshot, by the pass the scan is
in (`Covered`). What the two leave of a quiet registry needs more than
each call's own invariant: `QuietlyShared` says that Redis is what removals have left of
either scan, that no digest has been touched that the first scan does not
condemn, and that a set member has gone only for the verdict of one of the
scans. The second scan may have seen each key at another stage of the first
call; since each lies between the first scan and now (`SeenAndCovered`), a pair
it condemns was condemned before, or was healthy and has lost its global hash
to the first call. From `QuietlyShared` the verdicts follow (`OverlapDegrades`),
the steps of the abstract cache of the first scan (`OverlapEvictsOnly`), and,
when both have returned, that nothing is left but C2 of digests that the first
call has removed.

*Scan and inspect.* `SInv` keeps, for each key, what the thread knows of it at
its place in the passes: a key not yet looked at may still be found, one that
stood throughout and has been passed is found, and what the snapshot says of a
fetched key held at some moment. The four properties are read off at the end.
`InspectInv` carries the conclusions of the first scan, as facts about its
issues, through the second one, where `SInv` holds again from the start.

*Command.* `OInv` ties the queue, the halves and the reports together: a half
is queued once; a registry reported whole has two finished halves, one reported
as an error has a failed half or no client, and a half that has ended stays as
it is. The cap then follows from the semaphore's count (`SemaphoreInv`). `CInv`
adds that a command has results only after `asyncio.run` has returned, that the
registry being cleaned is reported whole, and which outcomes a report allows.
For the output, `OutputInv` says where the loops are: the reports written are
an initial part of them (`EmitOrder`); the loop of `clean` has dealt with an
initial part of the registries, and the one in hand is the next (`CleanOrder`);
stdout is in order and holds the events of what they have come past. An event
may then be appended because it comes after all others (`AppendInOrder`), and
when the loop ends no event is due.

*Configuration.* Its `CInv` keeps that the path is the first candidate of the
search order, and that every option is in range from its default on.

Model-checked only: liveness (`Terminates`, `EventuallyConverges`,
`InspectReturns`, `CommandReturns`), which is out of the prover's reach. Every
invariant and action property of a run is a theorem. No module uses a RECURSIVE
operator of its own.

## Findings

* `RealFailureIsReal`: a C4 need not be a failure. A digest's global hash and
  repository hash are cached, its file and its set member are gone. The storage
  thread looks and finds no file; the registry stores the blob and adds the
  repository to the set; the Redis thread looks and finds all three keys. A pull
  was broken at no moment. (The fault matrix, README.md:67.)
* `Capped`: a failed half frees the semaphore while the other half runs, so
  more registries than `--parallel` are scanned at once.
* `AllFailedIsToolError`: `rcd clean` exits with 0 when every registry failed.
* `LenientIgnoresFailures`: without `--strict`, permanent failures make
  `clean --apply` exit with 2. (`rcd-cron-exec` then turns it into 0.)
* `RefusedIsSeen`: a command line that argparse refuses exits with 2, the code
  of drift, and `rcd-cron-exec` turns it into success.

Differences between text and code that no run is about:

* cli.py:31 and README.md:151-152, 221 say that `clean --strict` exits with 4
  when an operation or entry could not be removed. It does when a report counts
  a failed operation. When `clean_registry` raises (cli.py:309-311) or the
  client cannot be built a second time (cli.py:294-298), entries stay and the
  code is 0. `CronSeesStrictFailures` names these two outcomes (`LoggedOnly`)
  as what success leaves open.
* models.py:31-32 and classifier.py:105-106 say that `Stat` misses when
  `digest` is absent; `classify` does not look at it, and says so.

* README.md:64 says of C1 that only the global hash exists; a digest whose
  only other keys are repository hashes is reported as C1, and its pairs as C6.
  Cleaning both is harmless.
* `load_config` is documented to raise `ConfigError` for any kind of
  validation failure; `int()` raises a plain `ValueError`, which `main` catches
  as an unexpected error. The exit code is the same, and `Fail` of `Config`
  stands for both.
* An unmounted storage root makes every cached pair C4 and `clean --apply`
  empties the cache. Nothing is lost but time: a miss is refilled from the
  backend, which is why `Doctor` still converges after it.

## Not modelled

The text of events, log and progress display (nothing calls the latter), media
types, a command of a pipeline that alone answers with an error, the keyword arguments of the client
factory beyond the possibility of its failure and its timeout, the shape
filters on key names and directories, symbolic links, `schema_version` and the
other checks of `Open` one by one, the cron expression (supercronic's), the
entry point and the version number.

## State of the plan

Done, in this order: classifier, one clean call, its proofs, scan, repeated
runs, orchestrator, command, inspect, overlapping cleans, cron status,
configuration, proofs of the refinement, of the scan, of inspect, of the
command, of the configuration, of convergence, of overlapping calls and of the
output. Open:

1. A scan that is not exact feeding `Doctor`: convergence needs only the
   undisturbed runs, which `UndisturbedIsExact` covers, so the gain is small
   and the state space large.
2. The commands of a killed process that reach Redis during the next run:
   `Overlap` has them, with two calls instead of two runs in a row.
