# A formal model of emulator-service

TLA+ specifications of the parts of emulator-service whose correctness depends on
order, concurrency, failure or rounding: the retrain pipeline that writes the model
registry, the workflow that runs it on a pull request, the service that reads the
registry when it starts, the prediction API behind it, and the client that measures it.
TLC checks small instances; TLAPS proves the safety properties, and four refinements,
for every value of the constants.

Paths are relative to the repository root, as in `training/retrain.py:558`.

## The system

| Component | State it keeps | Operations | Modelled in |
|---|---|---|---|
| Retrain pipeline, `training/retrain.py` | the directories and files of `registry/<id>/`; its incumbent, candidate version, score | list and load the incumbent, train, decide, make the directory, save, rename, hash, write the manifest | `Retrain` |
| Versions, `retrain.py:185-215`, `registry_loader.py:43,112-118` | none | order, highest, next | `Semver` |
| Manifest, `src/api/manifest.py` | a `manifest.json` per version | `load_manifest`, `write_manifest`, `sha256_file`, schema validation | steps of `Retrain` and `RegistryLoader` (partly: the single schema rules are not) |
| Tracker, `retrain.py:231-327` | a client or none, an experiment run | connect, start a run, log, attach, end | `RetrainJob` |
| `retrain.yaml` | a job per push: its queue, runner, scratch registry, reports, comment | queue, cancel, time out, select configs, retrain each, comment, upload | `RetrainJob` (partly: the manual trigger is not); of promotion, the rollback in `Service` |
| Registry loader and startup, `src/api/registry_loader.py`, `main.py:61-90` | `ModelRegistry.models`, `.failures`, compiled row models | discover, `load_entry`, quarantine or die, compile, restart | `RegistryLoader` |
| The two over one tree | nothing but the files | | `Service` |
| Row validation, `src/api/schemas.py` | none | bounds, missing and extra keys, non-finite guard, matrix, tensor, example request | `RowValidation` |
| Prediction API, `src/api/main.py` | a request id per task, the request's progress | middleware, parse, resolve, validate, predict, respond, fail | `PredictApi` (partly: of the GET endpoints, a model's example request; `/health` is an operator of `RegistryLoader`) |
| Load-test client, `scripts/loadtest.py` | a pooled connection, its samples | request with one retry, warm up, time, percentile | `LoadClient` |
| Report and JSON summary | files of a run | | `RetrainJob` (partly: when they are written and what they recommend, not their wording) |
| Dataset loading, stand-in generator | none that outlives a call | | not modelled |
| Dockerfile, CI, DVC | build configuration | | only compose's restart policy and volume |

The registry tree is the one thing the training side and the serving side share. The
retrain pipeline (or a person with git) changes it; the loader reads it once per start
of the service; the API reads only the loader's result, which never changes while the
service is up. What makes this hard:

- **crashes**: the write of a version is eight file operations, none of them undone;
- **concurrency**: a training takes minutes between reading the incumbent and acting
  on it; another run may publish meanwhile. The repository says it gives no
  multi-writer promotion (`README.md:533`); what the code does give, through
  `exists()` and `mkdir`, is what `Retrain` establishes;
- **reading what changes**: the loader opens a manifest once and an artifact three
  times, in a tree a retrain may be half way through writing to;
- **errors of two kinds**: `RegistryError` is handled, everything else is not;
- **a helper that may fail anywhere**: every call of the tracking server, and jobs that
  a newer push, a timeout or a failing step cuts off in the middle;
- **requests beside one another** in tasks and worker threads, with failures in every
  layer, that must each be validated, answered and logged as themselves;
- **a connection that may be dead**, and a request that may have been served already
  when it is sent again.

What makes each component correct: of the registry, that a complete version is true,
unique and permanent and descends from the one it beat; of the loader, that it serves
only what it verified and accounts for everything it found; of both together, that
clients get the best version there was and never an older one than before; of the
workflow, that its comment is the whole and newest report and that nothing the tracker
does costs a training run; of the API, that an emulator sees only its domain, a batch is
served whole or not at all, a client gets the version it asked for, and every request is
answered and traceable; of the client, that it reports what it measured.

## Modules

| Module | What it is |
|---|---|
| `Semver` | versions as triples of integers; no state |
| `VersionedRegistry` | abstract specification of one model's registry |
| `Retrain` | the pipeline on one model's directory; EXTENDS `Semver`, instantiates `VersionedRegistry` |
| `RegistryLoader` | startup of the service over a whole tree; EXTENDS `Semver` |
| `Service` | the two composed; EXTENDS `Retrain`, instantiates `RegistryLoader` |
| `RetrainJob` | the workflow on one pull request, and `main()` through its tracker calls |
| `RowValidation` | what a batch is validated to, its tensor, a model's example; no state |
| `PredictContract` | abstract specification of what a predict request is answered |
| `PredictApi` | concurrent predict requests; EXTENDS `RowValidation`, `Semver`, instantiates `PredictContract` |
| `LoadClient` | the load-test client, and `percentile()` |
| `RetrainProofs`, `RetrainOrderProofs`, `RegistryLoaderProofs`, `ServiceProofs`, `ServiceLatestProofs`, `RetrainJobProofs`, `PredictApiProofs`, `LoadClientProofs` | theorems about the module they are named after |
| `MCRetrain`, `MCRegistryLoader`, `MCService`, `MCRetrainJob`, `MCPredictApi` | constants of the TLC instances |

Operators whose comment begins with "Mutant:" are plausible mistakes in the code. No
specification uses them; each is put in the place of the definition that follows it to
make sure that the properties notice.

### Retrain

`dirs`, `saved`, `artifact` and `manifest` are the disk, by version: the directory
exists, the file `AutoEmulate.save` wrote, `model.joblib`, `manifest.json` (absent,
torn, or complete). Per process there are its place `pc`, its configuration, and the
local variables of `main()`: the incumbent's manifest, the candidate version, score,
trained model and checksum. One action stands for each operation on the disk between
which another process or a death can come: `Start`, `ListVersions`, `LoadIncumbent`,
`Evaluate` (training, metric, decision), `CheckAbsent`, `MakeVersionDir`, `SaveModel`,
`RenameArtifact`, `HashArtifact`, `CheckManifestAbsent`, `OpenManifest`,
`FlushManifest`. `Die` takes any of them away: a kill, or a call that raises (an
unreadable dataset, a metric that was not evaluated, an emulator that cannot be
probed). `path.write_text` is two steps because `open(path, "w")` truncates before
the text is flushed. A directory listing is not a snapshot: it contains all that was
there when it began and possibly what came since. Scores are integers or `NaN`, which
compares false; a trained model is the number of its run, and so is its SHA-256.
Training is a free choice of a score. `model_metadata.csv`, which nothing reads, is
left out.

### VersionedRegistry and the refinement

The abstract registry has one variable, `published`, and one action: a version
appears, complete and for good; the first is 1.0.0, every later one the next version
of a published one, which it beats. `Retrain`'s `ReaderView` maps a version to the
score in its complete manifest and the artifact beside it. Every file operation but
`FlushManifest` is then a stutter, and `FlushManifest` is `Publish`. That "beats"
means what the metric means is stated apart from the code (`SmallerIsBetter`), so the
refinement fails if the code has the direction of a metric wrong. `WSpec` is the same
registry with withdrawals; `Service`'s `RollbackSpec` is mapped to it
(`RefinesWithRollbacks`).

### RegistryLoader

The tree is `disk`, a record of manifest and artifact per directory. Artifacts are
members of `Content`; the constant function `Emulator` says what each deserializes to:
whether it loads, whether its `eval()` raises, the dtypes it accepts, whether its mean can
be reshaped, its inputs, its width, whether it has a variance. `Contents` is what each directory may hold, at first and later. `phase` is the
service's life, `scan`/`found`/`todo` the progress of `load_registry`,
`entry`/`stage`/`manifest`/`emulator` the one of `load_entry`, and each access to the
disk is a step of its own. `RegistryError(d)` is the `except` branch of `load_registry`;
`OtherError` is any other exception. The walk lists the model directories first and the
versions of each when it gets there; one that is gone by then (`ModelWithdrawn`) ends the
start. The loader takes the entries in any order; the code
sorts them, which nothing here depends on. The choice between manifests is by the
outcome of `load_manifest`: a `Manifest`, `Malformed` (JSON or schema error, thus
`RegistryError`) or `Undecodable` (not UTF-8, which raises `UnicodeDecodeError`).

The environment's one action, `Change`, turns a directory into anything else it may
hold: a retrain writes a file of it, a person repairs, reverts or copies. It keeps the
registry's own rule, that a version is immutable, in its weakest form: once a directory
held an artifact that was put there, or that its manifest vouches for, it holds that
artifact or none (`origin` is the history variable that remembers it). `steady` is the
other history variable: directories that were valid at boot (`Valid`: the five checks of
the README) and untouched since.

### Service

`Service` has the variables of `Retrain` and of the loader, and composes them through
the files only: the loader's `disk` is `Tree`, a function of `dirs`, `artifact` and
`manifest`, so a loader step sees a half-written version exactly as it is on the disk.
A step is one of the writers' (`WriterStep`) or one of the loader's (`LoaderStep`).
`ImplementsLoader` says that the loader's specification, with its environment, describes
this system: what `Change` is free to do, the writers do. `Stages` lists what a version
directory goes through. `latest` is a history variable, the version an unpinned request
last got. `Rollback` is the revert of a promotion by a person, and only
`RollbackSpec` has it. A rollback happens between retrains, and at any place of the
service.

### RetrainJob

One pull request. `Push` queues a job and, as `cancel-in-progress` does, stops those of
its group; `Begin` is the runner taking it; `Fetch` everything up to the datasets and
the selection of configs (`Affected`); `NextConfig` and `Collect` the shell loop under
`set -e`; `Explain`, `Post` and `Upload` the last steps, of which the upload runs
always. `Timeout` and `StepFails` may end any earlier step. `main` follows the process
of the loop through `main()`: `Connect`, `StartRun`, the calls through
`Tracker._safe()` (`Call`), each of which may fail without `main()` noticing or may hang
(nothing is assumed of them), the steps between them, any of which may raise
(`OwnStepFails`), and `Leave`, which is `Tracker.__exit__`. The write of the candidate,
whose steps are `Retrain`'s, is one step here. `runs` is what the tracking server holds;
`disk` the runner's disk; `broke` a history variable, jobs of which a step of their own
failed.

### RowValidation and PredictApi

Numbers are counted in units of a double's spacing, so that a float32 is a multiple of
`SingleStep` and six decimals a multiple of `ExampleStep`; `NaN` and the infinities are
values beside them, and `Text` is whatever Pydantic reads as no number, null among it:
the example of a parameter with an infinite bound (`ExampleRequest`), which the GET page
turns into null. A violation names its parameter's bounds; JSON has no infinity, so a
rejection that names such a parameter is not `Renderable`, and its handler raises. Whether
Pydantic's bound check stops a `NaN` depends on how its core writes the comparison;
`nanPasses` is chosen at the start and the properties hold either way. `PredictApi`
follows each request through `stage`: the middleware (`Receive`), `PredictRequest`
(`Parse`), `_resolve`, `validate_batch`, `LoadedModel.predict`, the response (`Serve`),
and the middleware's end (`Respond`, `Fail`; the latter with the server's own line,
`asgi_exception`, which the same handler writes after the id was reset). A client sends a batch of its own or the
example that `GET /models/{id}` handed out (`page` remembers of which model). A
prediction is the pair of model and row it was made for, which makes a mixed-up or
shifted answer visible. `mayRaise` marks an emulator that can raise, or return what JSON
cannot carry. `ModelsAssumption`, that a model's variance agrees with its manifest, is
what `RegistryLoader`'s `ServedIsVerified` guarantees. `calls` and `lines` are history
variables.

### PredictContract and the refinement

The contract has one variable: of each request nothing, its question, or question and
answer. `Answers` says what a question may be told: 422 for a batch of the wrong size,
404 for a model nobody serves, a rejection if a row does not have exactly the
manifest's parameters, each finite and inside its bounds (`Fits`, written from the README
without the two stages of `validate_batch`), and otherwise every row's prediction, in
order, by the version that was pinned or the highest one. A rejection is a 422; where a
row is wrong in a parameter with an infinite bound (`WrongBeyondJson`) it may be the 500
it becomes when that bound cannot be rendered, and which of the two depends only on
which offence is named first. Every answer carries the request's id, but a 500, of such
a rejection or of an emulator that fails, which carries none. `ClientView` maps the
middleware, the stages, the context variable and the shared history of `PredictApi` to
that. So a response that depends on another request, on the order they ran in, or on
`nanPasses` is a violation, wherever it is introduced.

### LoadClient

`connection` is the client's: none, open, or closed by the service without its noticing.
`Break` is a connection refused, broken or timed out, before or after the service served
the request, and the one retry; `Health`, `Detail`, `Warm` and `Time` are the answers
`main()` gets; `NotJson`, `Summarise` and the exits are the rest of its ways to end.
`served` counts how often the service computed the request under way. `RoundedRank` is
`percentile()` in exact arithmetic.

## What TLC checks

| Run | Instance | Properties |
|---|---|---|
| `retrain_concurrent` | 2 processes, 3 starts, 1 death, r2, margin 1, minor and patch bumps mixed, dry runs too | `TypeOK`, `PublishedIntact`, `OneWriterPerVersion`, `RefusalIsJustified`, `IInv`, `RefinesRegistry` |
| `service_publish` | 2 processes, 2 starts from an empty registry or from 1.0.0, 1 death, crps, margin 0, minor bumps, 2 versions, a service strict or not that is redeployed at will; fair | `LatestIsBest`, `ServedIsRegistered`, `ServedIsBest`, `PromotedOverLatest`, `PromotionCompletes`, `ImplementsLoader`, `NeverBackwards`, `CrashNeedsUnfinishedWrite`, `PromotionReachesClients` |
| `retrain_job` | 2 configs, 2 pushes, a tracking server that fails or hangs anywhere; fair | `TypeOK`, `OnlyOwnStepsFail`, `CommentIsWhole`, `CommentIsNewest`, `EvidenceIsKept`, `RecommendationHasCandidate`, `RunsAreClosed`, `JobEnds` |
| `loader_startup` | 2 models, 2 versions, one directory with 16 kinds of oddity, two others malformed or without manifest, changes at any time; strict or not, mounted or not; fair | `TypeOK`, `ServedIsVerified`, `EveryEntryAccounted`, `SteadyIsServed`, `EventuallyUp`, no deadlock |
| `predict_concurrent` | 2 requests, 2 ids, 4 batches and each model's own example, every target, 3 models (one with an infinite bound, one single-precision); fair | `TypeOK`, `EmulatorSeesDomain`, `AllOrNothing`, `AnsweredByAsked`, `ExampleIsAccepted`, `LogLinesJoin`, `EveryRequestAnswered`, `ImplementsContract` |
| `loadtest` | up to 3 requests and 2 of warmup; samples of up to 400 | `TypeOK`, `ReportsWhatItMeasured`, `GivesUpOnFreshConnection`, `PercentileIsRounded` |

What they show, beyond the sentence at each property:

- `PublishedIntact`, `OneWriterPerVersion`: the artifact is saved, renamed and hashed
  before the manifest is opened, and `mkdir` without `exist_ok` lets one run in. The
  check of line 576 is a courtesy; `mkdir` is the lock. With `exist_ok=True` both fail.
- `PromotedOverLatest`: a decision against a superseded incumbent is never written when
  all configs bump the same part, because its candidate directory is then taken. With
  different bumps it can be; `RefinesRegistry` says what remains true then.
- `LatestIsBest` needs runs that bump the same part. Two concurrent runs with different
  bumps may leave the better model under the lower version.
- `RefusalIsJustified` and `PromotionCompletes` except killed runs; see the first
  divergence below.
- `ServedIsVerified`: the file is hashed and opened again to be deserialized; that this
  is the same file rests on versions being immutable, which `ImplementsLoader` shows of
  the retrains. It is not true with rollbacks: under `RollbackSpec` TLC finds a start
  that hashes an artifact, a revert and a promotion under the same number, and the
  deserialization of the new file under the old checksum.
- `SteadyIsServed`: neither a bad neighbour nor a concurrent publication hides a good
  version from a service that is up.
- `NeverBackwards`, `ServedIsBest`: a service that starts while a version is being
  written, or after a killed run has left half of one, resolves an unpinned request to
  the best version that was complete, and never to an older one than before. Both need
  that nothing is rolled back.
- `CrashNeedsUnfinishedWrite`: nothing a retrain does makes a starting service raise what
  it does not catch, and nothing a retrain finished is refused: a start only ends beside
  an unfinished manifest, and only with `strict=True`.
- `PromotionReachesClients`: a version is served after the next restart that finds it;
  a *strict* service never starts beside a torn manifest, so the property excepts
  strict services once a run was killed.
- `OnlyOwnStepsFail`, `RunsAreClosed`: a tracker that fails at any call, in `__enter__`
  and `__exit__` too, changes neither the outcome of a run nor leaves open what it could
  have closed. `JobEnds`: one that never answers is cut off by `timeout-minutes`.
- `CommentIsWhole`, `CommentIsNewest`: `set -e` keeps a partial report from being
  posted, and the concurrency group keeps an older job from overwriting a newer comment;
  keyed by commit instead of by ref, it would not.
- `EmulatorSeesDomain` includes the order of columns and rows. In double precision, the
  loader's first choice, the emulator gets exactly the numbers that were checked; in
  single precision each is at most half a `SingleStep` away from one that was, which
  bounds what `predict_single` finds.
- `ImplementsContract`: requests have nothing to do with one another; see above.
- `ExampleIsAccepted`: the midpoint rounded to six decimals stays inside any finite
  domain at least one unit of the last decimal wide; then the example is answered by 200,
  or by the 500 of an emulator that fails. It can leave a narrower domain, and for an
  infinite one it is null; see `predict_500`.
- `LogLinesJoin`: every line of the application carries the id of its own request; the
  server's line about an exception comes after the reset and carries none.
- `ReportsWhatItMeasured`: a retried request may have been computed twice, and its time
  includes the reconnection, but nothing unanswered is ever averaged in.
- `PercentileIsRounded`: rounding half to even after adding 0.5 (`scripts/loadtest.py:97`)
  is the nearest rank, except where `fraction * n` is an odd whole number: there, and
  only there, it is the next one. The docstring promises the nearest rank; see below.

**Bounds.** `MaxStarts`, `MaxDeaths`, `MaxPushes`, `MaxRequests`, `MaxWarmup`,
`MaxSamples` and `MaxRollbacks` bound the behaviours, `Version` the versions (it
contains all that the starts can reach). Two processes and three starts are enough for a
run to be overtaken, to be refused, and for a third to meet what they left; one death
leaves every half-written state to a survivor. Three scores give worse, equal and
better, and with margin 1 a tie and the smallest sufficient gain. In `service_publish`
two starts fit one publication with its competitor, both on the same incumbent, or a
killed run with its successor, between any two reads of the loader; more starts of one
kind of bump are left to the theorems. In `loader_startup` changes are not bounded: any
directory may turn into anything it may hold between any two reads. Two pushes are one
job and one that comes while it is anywhere. Two requests are enough for one to see the
other's context. 400 samples contain every residue of `percent * n` modulo 100 several
times, and halves on even and odd sides. The runs of `retrain_*`, `service_*`,
`predict_*` and `loadtest` turn the deadlock check off, because starts, pushes and
requests are bounded and a behaviour ends when they are used up; the loader never stops.

**Fairness.** `Service` is weakly fair to each retrain's own steps: the operating system
schedules it, and starts and deaths are never forced. `RegistryLoader` is weakly fair
to the startup and to the restart of a crashed service, which is
`restart: unless-stopped` (`docker-compose.yaml:44`); the environment is not fair.
`Service` takes that over; a redeployment of a service that is up is never forced, and
`PromotionReachesClients` assumes it explicitly. `RetrainJob` is weakly fair to what
GitHub does, the start of a queued job, the timeout and the upload, and to nothing in
`main()`: a call of the tracking server may hang. `PredictApi` is weakly fair to each
request once it was received: worker threads are scheduled, and no step waits for
another request. `LoadClient` states no liveness.

### Where documentation and code differ

Each of these runs checks one sentence of the documentation and finds a behaviour of
the code against it; the behaviour of `predict_500` is against two more.

| Run | The sentence | What the code does |
|---|---|---|
| `retrain_wedged` | `README.md:389` "On a genuine improvement the same run writes `registry/<id>/1.1.0/`" | a run that dies after `mkdir` (`retrain.py:581`) leaves a directory without manifest; every later run chooses the same candidate and is refused at line 576, until someone removes it |
| `service_rollback` | `README.md:316` "A `<model_id>/<version>/` directory is **immutable**" | a promotion is rolled back by a revert (`retrain.yaml:140`), and `next_version()` counts from the highest version left (`retrain.py:207`): the next promotion writes another model under the same number |
| `loader_quarantine` | `docs/model_manifest_schema.md:180` "`strict=False` loads what it can and reports the failures on `/health`" | only `RegistryError` is quarantined (`registry_loader.py:291`); a manifest that is not UTF-8, an artifact that vanishes before it is hashed, an emulator whose `eval()` raises, or an input name `create_model` reserves ends the startup |
| `predict_single` | `README.md:13` "an out-of-domain input can never reach an emulator" | a value is checked as a double and then rounded to float32 (`registry_loader.py:69`), possibly past the bound, by at most one rounding |
| `predict_500` | `tests/test_api.py:29` `test_every_response_carries_a_request_id`, `tests/test_api.py:69` "The documented example must not be aspirational.", `README.md:172` "present on every log line for that request" | when a handler raises, the middleware resets the id and re-raises (`main.py:125`) before it has set the header; the server's 500 and its log line have no id. The run needs no failing emulator: a model with an infinite bound has a null example (`schemas.py:302`), predict refuses it, and the 422 raises in `_error` (`main.py:151`) because it would have to state that bound |
| `loadtest_percentile` | `scripts/loadtest.py:93` "Nearest-rank percentile. Explicit, so the reported number is unambiguous." | `round()` takes halves to the even side (`loadtest.py:97`), so where `fraction * n` is an odd whole number the next sample is reported: the p50 of two is the larger one |

## What is proved

All constants are arbitrary but for the named assumptions: any number of processes,
versions, artifacts, starts, deaths, configs, pushes, models, batches, requests. The
bounds of TLC's instances play no part.

| Theorem | Says |
|---|---|
| `RetrainProofs!Invariance` | `Spec => []IInv` |
| `RetrainProofs!TypeCorrect`, `Intact`, `OneWriter` | `[]TypeOK`, `[]PublishedIntact`, `[]OneWriterPerVersion` |
| `RetrainProofs!Refinement` | `Spec => RefinesRegistry` |
| `RetrainOrderProofs!RefusedForAReason` | `[]RefusalIsJustified` |
| `RetrainOrderProofs!OverLatest`, `LatestBest` | `PromotedOverLatest` and `[]LatestIsBest`, when all configs bump the same part (and the margin is not negative) |
| `RetrainOrderProofs!OverLatestAlone`, `LatestBestAlone`, `WrittenUnlessKilled` | the same two, and that no improvement is refused unless a process was killed, with any bumps, when no two runs overlap (`OneAtATime`) |
| `RegistryLoaderProofs!LoaderInvariance` | `Spec => []LoaderInv` |
| `RegistryLoaderProofs!LoaderTypes`, `Verified`, `Accounting`, `Kept` | `[]TypeOK`, `[]ServedIsVerified`, `[]EveryEntryAccounted`, `[]SteadyIsServed` |
| `ServiceProofs!WritersKeepOrder`, `Implements` | the directories are always at one of their stages; `ServiceSpec => ImplementsLoader` |
| `ServiceProofs!NeverStale`, `PromisesKept` | `[]ServedIsRegistered`; the loader's three promises hold beside any retrains |
| `ServiceLatestProofs!ServiceTypes`, `Forward`, `BestIsServed` | `[]ServiceTypeOK`, `NeverBackwards`, and (same bump, margin not negative) `[]ServedIsBest` |
| `ServiceLatestProofs!BestIsServedAlone` | `[]ServedIsBest` with any bumps, when no two runs overlap |
| `ServiceLatestProofs!SafeStarts`, `LenientStarts` | `CrashNeedsUnfinishedWrite`; a service that is not strict never fails to start beside retrains |
| `ServiceLatestProofs!Unchanging`, `PinnedForEver` | without rollbacks: `[]VersionsNeverChange`, and a version once served names that model for ever |
| `ServiceProofs!IntactAcrossRollbacks`, `RollbackRefinement` | with rollbacks: `[](PublishedIntact /\ OneWriterPerVersion)` and `RefinesWithRollbacks` |
| `RetrainJobProofs!JobInvariance` and seven corollaries | every safety property of `retrain_job` |
| `PredictApiProofs!PredictInvariance` and its corollaries | every safety property of `predict_concurrent`, `ExampleIsAccepted` among them (`ExampleTaken`) |
| `PredictApiProofs!PredictImplements` | `Spec => ImplementsContract` |
| `LoadClientProofs!ClientTypes`, `Honesty`, `FreshConnection`, `RoundedPercentiles` | every property of `loadtest`; the percentiles for samples of any size |

**Retrain.** `PublishedIntact` is not inductive: when the manifest is flushed one has to
know that the checksum in memory is that of the file on the disk. `OwnFiles` says what a
process inside its directory knows of its files, stage by stage. It is only stable
because no other process is inside (`OneWriterPerVersion`), and that is stable because
the directory exists (`ManifestsInDirs`, `OwnFiles`), which `mkdir` refuses. For the
refinement `IncumbentIsPublished` adds that the incumbent a process at work remembers is
still what the disk says (versions are permanent while it works), `CandidateDescends`
that a process that writes was promoted against that incumbent and writes its successor,
and `Rooted` that 1.0.0 is there as soon as anything is, and lowest. Then
`FlushManifest` is a `Publish` of the abstract registry and every other step leaves
`ReaderView` alone. The assumptions are those of the module: scores and margin are
integers, the marks are distinct from each other and from manifests.

**Order.** With one kind of bump `b` the published versions are a chain, 1.0.0 and its
successors without a gap (`Unbroken(b)`): a run writes the successor of a version that is
published, and into a directory that was not there. So what it writes comes after the
whole chain, its incumbent is the last element, and that is `PromotedOverLatest`.
`NoWorse` carries the scores along the chain. A refusal is justified because every
directory is complete, occupied by a run, or left by a dead one (`DirsAccounted`).

With mixed bumps the chain has gaps, and `PromotedOverLatest` and `LatestIsBest` hold
only when no two runs overlap: `[]OneAtATime` is a hypothesis of those theorems, and
what the repository asks for (`README.md:533`, no multi-writer promotion).
`ReadIsCurrent` then says that what the one run at work has read of the registry is all
there is, and that its incumbent is the highest version; its candidate is higher than
all of them, so its directory is there only if a killed run left it.

**RegistryLoader.** The key is `Immutable`: a directory's artifact is the one it is
remembered to hold (`origin`) or none. When the checksum matches, the manifest vouches
for that file, and from then on the directory holds it or nothing (`EntryChecked`), so
that what is deserialized is what was hashed. `Accounted` partitions the directories
found into waiting, served and quarantined; `SteadyKept` follows a directory nobody
touches through the scan, the list and the registry, and says that what the loader holds
of it is what is there. `FilesAssumption` and `EmulatorAssumption` give the constants
their types.

**Service.** `WriterInv` adds to `IInv` that a directory is empty until its artifact is
renamed, that its manifest is opened after that (`DirectoryInOrder`), and that its
artifact is the one it first held (`OriginIsArtifact`); so it is always at one of
`Stages` (`AtAStage`). A writer's step is then `Change` of the
candidate's directory, or invisible, which is `Implements`. `PromisesKept` is the
composition: the loader's theorems, instantiated with the writers' files; the
assumptions they rest on are proved of the constants `Service` passes. For `Forward`
and `BestIsServed` one needs that `LatestVersion`, a CHOOSE, is the highest version
served; that a set of versions has a highest one is an induction, which is avoided by
keeping `HasHighest` as an invariant of the steps that add to it. `LatestKnown` says
that the version last resolved is complete, and steady while a service starts, and so
is served again by `SteadyIsServed`. For `SafeStarts` the exits of a start are gone
through one by one: a model directory that was listed is still there and a version
directory that was found still has a manifest (`FoundStays`),
whatever is complete passes every check of `load_entry`, and what is not is `Torn`,
whose writer is at work or dead (`DirsAccounted`). `PinnedForEver` follows a served
model through all steps: its version stays complete and unchanged (`IsModelOf`).

**Rollbacks.** `IInv` does not speak of runs that have ended, and a rollback waits for
them to end; what remains to be shown is `Rooted`: the version reverted is not 1.0.0,
because 1.0.0 is the lowest and a rollback leaves a lower one. A rollback is then
`Withdraw` of the abstract registry. TLC has checked `IInv` and `RefinesWithRollbacks`
under `RollbackSpec` with two processes, two starts, a death and a rollback; it is not
one of the runs above. What does not survive a rollback is `VersionsNeverChange`, and
with it what the loader assumes of its environment.

**RetrainJob.** `JobInv` adds to the properties what a job relies on: only the last push
has a job that is queued or at its steps (`LastPushRuns`, hence `CommentIsNewest`); the
report consists of the configs that are neither to do nor being retrained (`Reported`,
hence `CommentIsWhole`); an exception is `main()`'s own (`RaisedItself`); an open run has
a client that can close it (`OpenHasClient`); a candidate is written before its report
(`WrittenBefore`).

**PredictApi.** `PredictInv` says what a request holds at each stage (`InOrder`), that
every call of an emulator was made by a request that still holds what was accepted
(`CalledByAccepted`), and that a request's context is its own (`OwnId`). The lemma
`WholeMatrix` shows that the matrix of a batch without violations is the batch, row by
row, and `RowIsInDomain` that such a row is finite and in its bounds whichever way `NaN`
is treated. `ExampleIsAccepted`, whose precondition names the models it is about, needs that a request resolves to one model
(`ResolvesToOne`: the order of versions is total) and the arithmetic of two roundings
(`MidpointIsInside`): half a step off a midpoint that is itself half a unit off is still
inside.

For the contract, `ValidBatchFits` shows that `BatchViolations` is empty exactly if every
row `Fits`, so that the two stages of validation, their sets of offenders and `nanPasses`
cancel out, and `UnrenderableIsBeyond` that a rejection which cannot be rendered is one
the contract allows a 500 for; `NamedResolves` that `_resolve` finds a model exactly if one is `Named`, and
that one; and `PredictedIsPrediction` that what was computed is the row-wise prediction
of what was asked. `Accepted` and the rest of `PredictInv` carry the question from the
stage where it is decided to the one where it is answered. Then `Receive` is `Ask`,
`Respond` and `Fail` are `Tell` with an answer the question allows (`AnswerableStep`),
and all else a stutter (`StepIsExchange`).

**LoadClient.** The percentile is linear arithmetic with a case split over the three
percentages and at the half; the retry needs that a second attempt has no connection and follows one that was served at
most once (`SecondIsFresh`).

**Only model-checked**: liveness (`PromotionCompletes`, `EventuallyUp`,
`EveryRequestAnswered`, `PromotionReachesClients`, `JobEnds`), which is out of the
prover's reach. Every other property of a passing run is proved; `LoaderInv` and
`ServiceTypeOK`, which no run lists, are proved too. No module declares a
RECURSIVE operator, and no proof needs an induction over data.

## What is not modelled

- Directory names that are not versions, manifests whose version differs from their
  directory when a retrain starts from them, leading zeros in versions: a tree edited by
  hand, to which `Retrain` gives no promise. `RegistryLoader` allows for such trees as
  far as its versions are integers.
- The individual schema rules of the manifest: pure predicates, covered by unit tests.
- The promotion of a tie under the default margin 0.0 (`retrain.py:558`, against
  `README.md:387` "A candidate that ties the incumbent is not an improvement") is part of
  the model, and `LatestIsBest` is worded so that it holds; the committed configs ask
  for 0.001.
- Dataset loading: each failure there ends the process before it touches anything
  (`Die`, `Prepare`); the arithmetic of bounds is pandas'. The stand-in generator is a
  seeded numerical function.
- `workflow_dispatch`, which runs the same steps with other inputs; a promotion by hand,
  which is a run of `Retrain` on `main`.
- Wording of errors, reports and log lines, with what the report advises when it was
  made on a scratch registry; `model_metadata.csv`; what is logged to MLflow.
- `GET /models`, which lists what `Versions` and `LatestVersion` say.
- `build_batch`'s random rows, and the floating-point error of `fraction * n` in
  `percentile()`.
- Whether one emulator object may be used by several threads: a property of AutoEmulate.

## Plan

In the order of their weight; the first three stages are done.

1. `Semver`, `VersionedRegistry`, `Retrain`, its proofs; `RegistryLoader`, its proofs;
   `RowValidation`, `PredictApi`.
2. `Service`, the writers and the loader over one tree; `RetrainJob`, the tracker inside
   `main()` inside the workflow; `LoadClient`.
3. Proofs of the safety properties of all of them: the refinement of the loader's
   environment, the order of versions, the invariant of a request, of a job, of the
   client; the predict contract and its refinement; runs that follow one another; starts
   beside retrains; rollbacks.
4. Left: an abstract specification of the loader; what of `LatestIsBest` survives
   rollbacks; a tree edited by hand under `Retrain` (a manifest that disagrees with its
   directory), and the manifest's schema as an operator with the consistency between its
   rules.
