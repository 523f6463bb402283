# Verification of shmtu-cas-ocr

shmtu-cas-ocr recognises the arithmetic captchas of a university login page. The repository
holds an inference library, a server (HTTP and TCP), a model downloader, a desktop, a
terminal and a command line client, and the container images that start the server. This
directory holds TLA+ models of the parts whose behaviour is hard to test, TLC
configurations that check them on small instances, and proofs that TLAPS checks for all
values of the constants. Paths below are relative to `ocr/` unless they say otherwise.

To check a model: `tlc -workers 2 -config MCWorkerPool.cfg WorkerPool`.
To check a proof: `tlapm WorkerPoolProofs.tla`.

## Inventory

| Component | State it keeps | Operations | What makes it correct |
|---|---|---|---|
| worker pool (`shmtu-cas-ocr-server/src/server_worker_pool.cpp`) | task queue under a mutex, counting semaphore, two atomic counters, `accepting`, one thread per worker | `submit`, worker loop, `stop_all` | no lost wakeup, no task lost or run twice, bounded queue, shutdown that returns and is quiet |
| HTTP front end (`server_http.cpp`) | pending response callbacks, three counters | two POST handlers, completion callback, two GET handlers | each request answered once, with its own outcome, and counted once |
| TCP front end (`server_tcp.cpp`) | a buffer per connection, an event loop thread with queued functors | connect, chunk, disconnect, completion callback, response functor, stop | one response per connection, no buffer without a connection, no use of a destroyed loop |
| server lifecycle (`server.cpp`, `main.cpp`, `server_startup.cpp`) | `running`, `stopping`, the signal target, threads of every component | `run`, `stop`, signal handler, destructor | nothing serves before it is ready, nothing outlives the server, signals end it |
| server configuration (`server_config.cpp`) | none after start | parse, merge, auto-tune | a usable configuration or a refusal, threads that fit the machine |
| server logging (`logging.cpp`) | log files, a cleanup thread | set-up, deletion of old files | keeps the configured days |
| recognition engine (`shmtu-cas-ocr-lib/src/cas_ocr.cpp`) | two engine pointers, `is_init`, the loaded configuration, a status | `load_model`, `release`, three `predict`s, queries | flags agree with the engine, only complete models load, documented layouts load |
| V1/V2 inference (`v1_engine.cpp`, `v2_engine.cpp`) | ncnn networks | `load`, `predict` | numerical |
| release manifest (`manifest.cpp`) | none | parse, list, find an artifact | the artifact asked for |
| base64 and curl helpers | none | encode, decode, fetch | inverse of each other |
| model download (`shmtu-cas-ocr-gui/src/model_download.cpp`) | the model directory, sources, attempts, digests | `downloadModelFiles`, `downloadV2Artifact`, `fetchV2ReleaseTags` | success means files, rejected files are gone, bounded retries, the highest V2 tag first |
| terminal interface (`shmtu-cas-ocr-tui/src/app.cpp`, `screens/`, `github/`) | the screens, three worker threads, the guards they share | keys, the events the workers post, joins | no event lost, no guard that outlives its worker, no end under a running worker, honest downloads |
| desktop interface (`shmtu-cas-ocr-gui/src/main_window.cpp`) | one OCR object, the controls, tags, a manifest, a batch | slots, `processEvents()` inside the slots that wait | one download at a time, no button lost, an engine with the version, precision and device shown |
| command line client (`shmtu-cas-ocr-cli/src/`) | files only; within a run the images and results | `list-tags`, `list-models`, `download`, `ocr` | the highest V2 tag, downloads that load, reports that add up |
| container bootstrap (`scripts/docker_download_models.sh`, `scripts/docker_runtime_entrypoint.sh`) | `${MODEL_DIR}/v1`, `${MODEL_DIR}/v2` on a volume | download, verify, start the server, restart | the server is started only on a complete model, and serves once the network is back |

How they interact. Drogon threads (HTTP) and one trantor loop (TCP) call
`OcrWorkerPool::submit`, which fails at a full or closed pool. A worker thread owns one
`CasOcr` object, runs a task and calls its completion callback on its own thread: for HTTP
that is the drogon callback, for TCP a functor queued into the loop of the connection.
`OcrServer::stop()` runs on the main thread, from the signal handler, an exception handler
or the destructor, and takes drogon, the TCP loop, the pool and the log cleanup down in
that order. `CasOcr::load_model` reads a directory that the downloaders, the bootstrap
script and people write. The container runs the bootstrap script before the server and is
restarted when either ends.

The desktop program has one thread and re-enters its own slots; the terminal program has an
event loop and three workers that write the screens the loop draws; the command line client is a
new process each time and meets what the last one left on disk.

What is hard to test here: the window between the mutex and the semaphore in `submit`;
functors and callbacks that run after their connection or loop is gone; signals during the
start; counters updated on seven paths by three kinds of threads; the many ways an attempt of a
download can end, over two sources and three attempts; a kill between two steps on files that
survive it; the sequences of loads, failed loads and releases over incomplete directories; slots
that run inside other slots; a worker that starts another worker while the program quits; a
setting that comes from the environment, the command line and the machine at once.
`PROJECT.json` lists each of these at its line.

## Modules

| Module | Models | Uses |
|---|---|---|
| `TaskPool` | what a pool promises: accept up to the capacity, start tasks in order on free workers, finish, close, halt | abstract |
| `WorkerPool` | `server_worker_pool.cpp`, one action per stretch between two points where another thread can intervene | refines `TaskPool` |
| `OcrService` | both front ends, the completion callbacks, the counters, and `stop()` as it takes loop and pool away | instantiates `TaskPool` as its pool |
| `ServerConfig` | `parse_server_config()` and the GPU check: precedence, refusals, tuning (no state) | |
| `ServerLifecycle` | `main()`, `run()` with its model check and automatic download, `stop()`, signals and destructor on the one main thread | `ServerConfig` |
| `ModelDownload` | the two downloaders and the directory they write to, with crashes | |
| `ReleaseTags` | semantic versions, the two tag orders and filters, both release listings (no state) | |
| `ModelBootstrap` | the download script, its entrypoint, the server it starts, the restart of the container, kills, a network that comes and goes | |
| `CasOcr` | one `CasOcr` object on a directory that others write | |
| `TuiApp` | the event loop of the terminal program and its three workers | `ReleaseTags` |
| `MainWindow` | the slots of the desktop program as a stack of frames | |
| `Base64` | both directions of `base64.cpp` (no state) | |
| `CliRun` | invocations of the command line client on one model directory | extends `CasOcr` (its engine), `ReleaseTags`, `Base64` |
| `MCOcrService`, `MCServerLifecycle`, `MCTuiApp`, `MCMainWindow`, `MCCliRun` | symmetry sets and small worlds for TLC | |
| `WorkerPoolProofs`, `OcrServiceProofs`, `ServerLifecycleProofs`, `ModelDownloadProofs`, `ModelBootstrapProofs`, `CliRunProofs`, `TuiAppProofs`, `MainWindowProofs` | theorems | the module of the same name; `CliRunProofs` also has those of `CasOcr`, `Base64` and `FetchV2ReleaseTags`, `TuiAppProofs` those of `ListReleases` |

Every module's variables carry the names of the code's where the code has one. Variables
marked `history` record what a property speaks about, variables marked `bound` keep a
counter finite. Definitions headed "Mutant:" are deliberate slips of the definition that
follows; no specification uses them, they show that a property can fail.

### WorkerPool and TaskPool

`submit()` is `SubmitRefused` (an early return under the mutex), `SubmitChecked` (both tests
passed, the mutex is held), `SubmitPush` and `SubmitRelease` (the semaphore, after the mutex).
A worker goes through `CheckStop`, then `Timeout` or `Acquire`, then `Pop` or `PopEmpty`, and
runs the task. `stop_all()` is `StopAccepting` (without the mutex, which is why the mutex is a
variable), `RequestStop` for each worker, `ReleaseAll` and `JoinAll`. The exceptions a task may
throw are swallowed by the worker loop, so a throwing task ends like any other; what its client
sees of that is in `OcrService`.

Refinement: a task counts as queued from the moment its tests passed, so the abstract queue is
the code's queue with the task in the hand of the mutex owner at its end (`Linearized`).

### OcrService

A request has a `phase`, one per point in its handler at which other threads can intervene, and
a `verdict` from the moment its outcome is decided. The pool is `TaskPool`; `WorkerPool` shows
that the code's pool may be put there. A TCP chunk completes a payload (`TcpAccepted`,
`TcpOverloaded`) or does not (`TcpPartial`). `StopTcp`, `StopPool` and `PoolStopped` follow the
order of `OcrServer::stop()`; a task whose callback would use the destroyed loop gets the phase
`dangling`. An HTTP request that was counted is refused (`HttpBadRequest`), submitted, or ends in
an exception of the handler (`HttpThrows`: `isMember` on a body that is no object,
`server_http.cpp:54`), which drogon answers with a 500. Such a request is in neither counter for
ever, like one whose `predict()` throws; these are the two terms of `Uncounted`, and
`CountersAddUp` says that nothing else makes `/api/status` drift.

### ServerConfig and ServerLifecycle

An environment and a command line are functions from settings to values, `Unset` where nothing is
said, `Malformed` where something does not parse. `Refused` collects the error returns of
`apply_env_overrides()`, of CLI11 and of the last tests of `parse_server_config()`; `Merged` is the
overlay, `Tuned` is `resolve_auto_tuning()`, and `Inspected` switches the GPU off afterwards. The
configuration decides how many workers load, whether a V2 model is checked for, and whether there
is a log cleanup thread.

`main` says where `main()` is. A signal handler is a frame on the same thread: while `frame` is
not `none`, `run()` does not move. `stop()` is one step per component it takes down, and begins
with the exchange on `stopping`. `early` remembers that a signal spent the one-shot `stop()`
outside the loop, which is what most promises of the shutdown are conditional on. What the
automatic download (`server.cpp:61-115`) leaves is one of `absent`, `unusable` and `loadable`;
which it is depends on the manifest and on what else lies in the directory, as `CasOcr` has it.

### ModelDownload

One file after the other; `Open` truncates the destination, `Receive` closes it with good or bad
bytes, `TransferFails` removes it, `Accept` and `Reject` decide on the digest, `TryNext` counts
attempts and sources. Which file comes next makes no difference to any property, so `Current`
chooses one. `Crash` may fall anywhere in a call and leaves the disk as it is.

### ModelBootstrap

`download_v2` always asks for the manifest first. When the manifest yields a file, the
assignment to `V2_EXPECTED_HASHES` abandons the enclosing command and the script goes on behind
it (`AfterV2`), so what follows in that function is not part of the model. `download_v1` is
`ScanV1`, then per file `DownloadFails`, `DownloadOne` (the move into place) and `VerifySha256`,
then `FinalCheck`. `Network` turns the release server on and off; while it is off a transfer may
fail, or deliver anything. When the script succeeds the entrypoint starts the server
(`StartServer`), which serves, or ends and is restarted: files as they were published load, a
damaged one may load or not. So a V1 container comes to serve once the network is back, with one
exception that `ServesOnceOnline` names (`Trapped`): a damaged file that no start verifies, left by
a kill between the move and the verification or by a release without a checksum, has a size and
is never looked at again.

### CasOcr

`Resolve` is the choice of a directory by version and precision, `EngineLoads` whether all its
networks load, `LoadModel` the four ways of `load_model()`. `WriteWeight` is the rest of the
world. One caller at a time: every server worker has an object of its own, and the clients use
theirs from one thread.

### TuiApp and ReleaseTags

`ui` is the place of the event loop, `rw`, `mw` and `dw` those of the refresh, manifest and
download workers. Starting a worker is two steps: the guard is taken, then the previous worker of
the kind is joined, which is where the loop may stand still. `~App()` is `QuitJoins`. The screens
are written by the workers without a lock, so a step of the loop that may meet such a write, and
any use of a manifest that has died, may also be `Crash`. The menus get no events from `App`, so
the first release and the first model are always selected.

A tag in `ReleaseTags` is its first three characters, the `int`s its client reads from it, its
pre-release segments and the rank of its text (`Tags`); parsing the text into these is left out,
what the parsed values are is not. `parseInt` has no test for overflow, so the numbers of a tag
with too many digits are any `int`s; a numeric segment that `stoll()` does not take is `huge`, and is
compared by its text (`SegmentLess`), which is no order any more: 9 precedes 10 as a number, while
a 1 with nineteen zeros precedes 9 and follows 10 as a text. `ListReleases` is the terminal program's lists: `Listed` filters, and `StableSort`
has one arrangement when the tags are `Sortable`, that is, no subtraction overflows and the
comparator is a strict weak order, and every arrangement when they are not, for then the sort is
undefined. `FetchV2ReleaseTags` is that of the other clients, a set of lists where `std::sort`
leaves the order of equal tags open. `IsV2Tag` is `isV2Tag()`: `v` or `V`, then `2`, then one character more,
whatever it is.

### MainWindow

A slot that calls `processEvents()` while it waits for the network is a frame; any slot may start
while frames wait, and only the top frame goes on, as C++ calls nest. A slot without such a call
is one action. The model of a download is that it ends well or badly (`ModelDownload` has the
rest), that of a load that it succeeds or not (`CasOcr`). A load takes `settings` (version, precision,
GPU) and `model_dir` as they are when it happens. While a model is loaded the first are locked, or
release it when they change; the edit of the directory stays open (`EditModelDir`), and the V2 label
(`v2_tag`, `v2_backbone`) is changed by a double click and never asked for by a load. So
`EngineIsCurrent` is about the settings, and cannot be about the directory or the label. A frame of `onTagSelected` knows whether
the list its tag refers into is still the one it was called with.

### CliRun and Base64

A new invocation (`Start`) keeps the files and nothing else. `ParseArgs` is the parser's verdict
and the dispatch, then come tag, manifest and download, or engine, images and the loop of one of
the three modes. `CliRun` extends `CasOcr`, so the variables of the OCR object are those of
`CasOcr` and `LoadForOcr` is its `LoadModel`, on a directory that downloads fill with whole,
damaged or absent weights; the specification of the client is `CliSpec`. A request carries the
bytes of the file through `Encode` and `Decode`. `Decode` is the loop of `base64_decode()` as a
recursive function over the characters read; the `int` of the code keeps bits that have already
been given away, and may overflow into them, so only the others are in `Held`.

`CliAssumption` says what the arguments are: `parse_args()` takes no version or precision but the
known ones, a folder has finitely many entries, and a file is a sequence of bytes.

## Runs

| Run | Question | Bounds | Result |
|---|---|---|---|
| `pool` | Is the pool safe, does it implement `TaskPool`, are accepted tasks executed, does `stop_all()` return? | 2 submitters, 2 workers, 4 tasks, capacity 2, one `stop_all` | holds |
| `service` | Are requests counted, answered and dropped as they should be, and is every request answered? | 1 HTTP request, 2 payloads, 2 connections, 2 workers, capacity 1 | holds |
| `service_shutdown` | Does a graceful shutdown leave callbacks for a destroyed loop? | as `service`, 2 HTTP requests | violated |
| `lifecycle` | What becomes of a configuration, and do start, stop and signals leave anything behind? | 6 environments, 6 command lines, 3 machines, 3 signals | holds |
| `download` | Does a download keep its promises over failures and crashes? | 2 files, 3 attempts, 1 crash | holds |
| `bootstrap` | Is the server started only on sound files, and does it come to serve? | 2 files, 3 attempts, 2 kills, every choice of versions | holds |
| `bootstrap_v2` | Does a successful bootstrap have the V2 model? | 2 files, no kill | violated |
| `tui` | Do guards, lists, downloads and the end of the program survive any interleaving? | 2 choices, 2 files, 2 pairs of listings | holds |
| `tui_order` | Is the list of releases newest first? | one listing of 4 tags | violated |
| `tui_pointers` | Does the list of models point into a manifest that lives? | as `tui` | violated |
| `gui` | Do nested slots leave the window consistent? | 2 frames, 1 batch item, 2 directories, 2 listings of up to 1 tag | holds |
| `cli` | Do object and directory agree after any calls, and do reports, requests, choices of release and downloads hold over several invocations? | object: 2 V1 stems, 2 V2 stems, 2 precisions, 3 weights at once, 1 of them damaged and 1 in the second precision; client: 18 argument lists, 3 invocations, 5 files, 4 manifests, 3 leftovers | holds |

Why the bounds are enough. The pool needs two workers for one to take the permit of another's
task, more tasks than places in the queue for one to be refused (two may wait, four are offered),
and two submitters to race for the last place. The service needs two payloads on one connection,
two connections, and a full queue; the proofs then lift the safety properties to any number.
The environments and command lines contain each kind of value a setting may have: silent, zero, in
range, too large, malformed, and a command line that overrides each; the machines have fewer, as
many and more threads than the defaults of the tuning ask for. Three signals are one before the
start resets `stopping`, one during the start and one in the loop. One crash leaves each kind of
file a later call can find; two files are the least for one to fail and the other to succeed. Two
kills put a second one into the start that cleans up after the first. Three weights at once are
one more than a V1 model of two networks, so a complete model, an incomplete one elsewhere and a
stray precision occur together; two stems make the first and the last network different.

In `tui` every worker may overlap every other any number of times; the listings differ between
sources and contain a version that is filtered and two whose numbers overflow one another, so that
the list may come in either order; `tui_order` has a pre-release with its release, an older version
and a tag that is no semantic version. An artifact of two files has one fail and one succeed, and the other choice has
no artifact. In `gui` two frames give every pair of slots that can be inside one another; a third
adds only what the middle one already does to the outer. Which tag a frame carries decides nothing
there, so one tag, listed or not, is enough. Three invocations of `cli` are a
download, something that damages or refuses it, and one that uses what is left; the files have
the three lengths modulo 3 that base64 distinguishes, and none; the tags have a pre-release with its
release, `v2`, which `isV2Tag()` refuses, and `v20.1.0`, which it takes. The same run has a second
kind of initial state, a `CasOcr` object on its own (`LibraryInit`), so that the engine is also
called in orders the client never calls it in. Of three weights one precision has at
most one, so it is the second that has (`MaxStray`); one damaged weight is enough for any network
of a model to be the one that does not load (`MaxDamaged`).

Where runs check no deadlock: the pool and the service end when every task is done and nobody
stops them, or after shutdown; the process of `ServerLifecycle` ends with `exited`. The clients'
modules have a step that stays where the program has ended, so that TLC finds any other halt.

Fairness, and why the code justifies it:

- `WorkerPool`: a started thread runs on; a permit that is available again and again is taken
  by some worker (`SF` of `Acquire`), since workers poll `try_acquire_for` for 100 ms in a loop.
  Nobody has to submit or to stop.
- `OcrService`: handlers that have begun, workers, the loop and a shutdown that has begun go on.
  No client has to send, read or disconnect.
- `ServerLifecycle`: the main thread runs. No signal has to come, nothing has to fail.
- `TuiApp`: every worker ends by itself, since each of its transfers has a timeout, and a loop that
  waits in a join leaves it when the thread has ended. Nobody has to press a key. `UiComesBack`
  then says that no join waits for ever, in whatever order workers start one another.
- `ModelDownload`: the downloading thread is never blocked for ever, because every transfer has
  a connect timeout and a total timeout (`curl_util.cpp:70-71`).
- `ModelBootstrap`: the script goes on while the release server answers (its curl has no total
  timeout, so nothing is assumed without), the entrypoint starts the server, and the container is
  restarted after a failure (`docker-compose.yml`, `restart: unless-stopped`).

## Proofs

TLAPS proves, for every value of the constants that satisfies the `ASSUME`s of the modules:

`WorkerPoolProofs`. Seven theorems: types, `NoLostWakeup`, `PermitsMatchTasks`, `QueueBounded`,
`ExactlyOnce`, `Quiescence` and the refinement of `TaskPool`. None of the safety properties is
inductive alone. `TypedControl` adds who owns the mutex, what is in whose hand and what the
phases of `stop_all()` imply: without it an append could exceed the bound. `Counting`
strengthens "no more tasks than wakeups" to equality before shutdown: with the inequality alone,
a permit taken from an empty queue could have belonged to a task that is about to be pushed.
`Places` adds the task in a submitter's hand. The refinement uses both: each step of the code is
one step of `TaskPool` or a stutter. Workers and submitters are finite sets of any size.

`OcrServiceProofs`. Types; `CountersAddUp`, through `VerdictFits` (a request has a verdict
exactly when its outcome is known) and a count of the requests that are open or were taken by an
exception; the three connection
properties together, through what a step may do to a request and to a connection
(`RequestsMoveOn`, `ConnsMoveOn`, `DropsHaveCause`) and the invariants `Owned`, `Exhausted` and
`Spent`; and `AnswersMatchExecution`, through `Ledger`, which relates the phase and the verdict
of a request to its place in the pool. `ServiceKeepsToPool` is the composition: every behaviour of
the service is one of `TaskPool`'s for the pool's variables (`UsesPool`, step by step), so that
with `PoolImplementsTaskPool` the code's pool may stand where `OcrService` has the abstract one.
`BacklogIsBounded` counts the requests in hand, through `Backlog`: what is in hand is queued or
running, a queue of bounded length, and a worker runs one task.

`ServerLifecycleProofs`. `LifecycleInv` is `Configured` (whoever is past the configuration has one
that fits), `Loading` (as many models as workers, and none before the check), `Standing` (what is
up while `main` is where it is) and `TornDown` (what `stop()` has taken down at each of its steps).
The last two hold with `early` as the exception, since a signal in the start spends `stop()`.
`ServesWhenReady`, `NothingOutlivesServer` and the types follow, for any number of signals.
`AutoTuningFits` is arithmetic over `Tuned` and `Merged`, for any settings that are integers,
missing or no number, and any machine with a thread.

`ModelDownloadProofs`. The inductive invariant `DownloadInv` is types, `Decided` (the return
value says what has been decided), `OneOpen` (at most the current file is opened and undecided),
`PartialOnlyInTransfer` and `CleanSoFar`. Five safety properties and the action property
`NeverRefetched` follow, for any files, attempts and crashes.

`ModelBootstrapProofs`. `BootstrapInv` is types, `ToFetch` (what is still to be fetched is not
good, the file in verification apart), `Suspect` (without a kill, what is bad is in verification
or had no checksum) and `Complete`. Without `ToFetch` a download could replace a good file.
`VerifiedModel` and the action property `GoodFilesStay` follow, for any files, attempts and kills.

`CliRunProofs`, the engine. `EngineInv` is types, `EngineMatchesState`, `ReplyIsHonest` and the
fact that an object without a directory never loads. `OnlyWholeModels` is an action property of
`LoadModel`. `DocumentedLayoutsLoad` is proved from the choice of directories alone, for any
lists of networks and any directory. The steps are lemmas over `LoadModel`, so that
`CommandsObjectIsThere` has them once more for the object of each command, and adds that the loop
over the images is entered with a model of the version asked for.

`CliRunProofs`, the client. Four invariants, one for each of the things a run is about.
`FilesInv`: with sha256sum, what a download reported as complete is whole on disk, through later
downloads, kills and refusals; `DownloadedModelLoads` is this and what `resolve_v2_dir()` finds.
`TagsInv`: the tag and the answers it was chosen from; `NewestFirst` may return any sort, so the
proof needs that its head is below no other member, and that the order is irreflexive.
The property is about the tags `isV2Tag()` accepts and the numbers `compareV2Tags()` reads, not about
what is newest: between a release and its candidates nothing is promised. `BatchInv`: while the loop runs there is a row for each image before the current one, with the
fields of its mode, and each request names an image of the run and what the server read of it;
at the end the summary is that of these rows. `ReportAddsUp` follows from `SummaryCounts`, which
counts the four groups of any number of rows (`FourGroups`: the groups are disjoint and cover).
`ObjectInv` is `EngineInv` and the model in the loop.

`DecodeOfEncode` is the round trip of base64 for every sequence of bytes. It is an induction on
the groups of four characters: after `4 * k` of them the decoder holds no bits and has the first
`3 * k` bytes, and the last group ends in as many `=` as it lacks bytes. `NumbersByInduction`
makes this possible without the library's induction theorems: a set of numbers that lacks one lacks
a least one (`LeastNumber`, from the well-foundedness of `<`). `ServerReadsTheFile` needs it,
for files of any length.

`TuiAppProofs`. Each of five properties has its own invariant: `Joined` (which worker may still
run when `~App()` has passed which join), `Guarded` (for each guard and each place of its worker,
which of the two holds), `Selected` (which tag the list, the guard and the worker agree on),
`Honest` (what the files tried so far have left) and `ListsInOrder` (the list to deliver and the
list on the screen are filtered, and no version comes before an older one). `ReleasesAreOldestFirst`
follows from the last: it shows that the finding of `tui_order` is no accident of one listing. It
assumes `PlainReplies`, that the digits of every tag fit, and needs `PlainTagsAreSortable`, that on
such tags the comparator is defined and a strict weak order, as `std::stable_sort` demands; of other
tags nothing is claimed. `ListIsTheFirstAnswer` holds of any tags and says what `listReleases()`
returns: all the releases of the first source that lists any its filter keeps, none of another
source, in whatever order. Assumed of the inputs: an artifact names a file once, no release has an
empty tag, and the tags are tags.

`MainWindowProofs`. A step matters to the flags only by what it does to the stack: it grows,
shrinks, changes its top or is replaced above a refresh (`StackMoves`). `StackInv` says that nothing
above a transfer is another one or will become one, that at most one refresh is under way, and
that flag and buttons say which. `OneDownloadAtATime` and `ButtonsComeBack` follow for slots
nested to any depth, where the run goes two deep; `EngineIsCurrent` is inductive as it stands, for
every slot that changes `settings` releases or loads in the same step.

Five of the properties proved are too close to single guards for a run of their own and are left
to the proofs: `PermitsMatchTasks`, `QueueBounded`, `ReplyIsHonest`, `PartialOnlyInTransfer` and
`NeverRefetched`; so are the type invariants.

Every safety property that a run checks and that holds is a theorem as well. Only model-checked:
liveness under fairness (`AcceptedIsExecuted`, `StopAllReturns`, `HttpIsAnswered`,
`TcpIsAnswered`, `SignalInLoopExits`, `DownloadReturns`, `ServesOnceOnline`, `UiComesBack`),
which this prover does not reach. Not proved either: what `Decode` does with text that `Encode`
did not make (white space, characters outside the alphabet).

## Findings

Each of these is a run that TLC violates; `PROJECT.json` quotes the lines.

1. `service_shutdown`: `stop()` destroys the TCP loop before it drains the pool, so a TCP request
   still in the pool completes into a loop that is gone.
2. `bootstrap_v2`: the V2 download of the container script never takes place, and the script
   reports success.
3. `tui_order`: the terminal program lists releases oldest first, though the screen's header
   (`screens/tag_list.cpp:82`), the comment on the function (`github/github_client.h:49`) and the one above the
   sort (`github_client.cpp:195`) say newest first. The oldest is selected after every refresh, so
   its models are the ones offered for download. `sortTagsDescending` (`semver.h:43`, "largest
   first") has the same comparator.
4. `tui_pointers`: the list of models keeps pointers into a manifest that is a local variable of
   the worker that fetched it; drawing the list and starting a download follow them afterwards.

Met while modelling, visible in the definitions and without a run of their own:

Server

- A signal during the start spends the one-shot `stop()` and leaves a server that no later signal
  ends; one before `run()` resets `stopping` is undone (`early` in `ServerLifecycle`; the handler
  at `server_startup.cpp:14` announces "shutting down gracefully").
- `SHMTU_MODEL_VERSION` never has an effect: `server_config.cpp:316` overwrites it with the option or
  its default, though the help text at 212-213 promises "defaults -> environment variables -> CLI
  options" (`Merged`).
- A port above 65535 is refused on the command line and accepted from the environment, then cut to
  16 bits (`server_http.cpp:158`, `server_tcp.cpp:50`).
- A JSON body that is no object makes `isMember` throw (`server_http.cpp:54`) after the request was
  counted: the client gets a 500 and the request is in neither counter (`HttpThrows`).
- Tasks that are queued when the workers stop are abandoned (`server_worker_pool.cpp:21`): their HTTP
  callbacks are never called. No line promises otherwise; the liveness properties except a server
  that stops.
- The tuning of workers and threads for a GPU happens before it is known whether there is one
  (`Inspected` after `Tuned`); the fallback keeps the small numbers.
- `24 * days` at `logging.cpp:82` overflows for a large retention.
- `README.md` of the repository shows a field `version` in the body of `POST /api/ocr`; the
  handlers never read it, the model version is that of the server.

Library and downloads

- A failed `load_model()` leaves no model loaded, also when one was loaded before (`Released` in
  `LoadModel`); `release()` keeps the loaded version.
- `predict()` is documented as thread-safe and tests `is_loaded()` outside the mutex
  (`cas_ocr.cpp:301`); no program of the repository shares an object between threads.
- The comment at `cas_ocr.cpp:82` says all known V2 stems are scanned; the first stem found in
  any precision is the only one tested for the precision asked for (`ResolveV2`).
- V2 digests are verified "when present" (`model_download.h:66`), but an absent digest makes a good
  file fail and removes it (`model_download.cpp:491`, `Reject` in `ModelDownload`).
- `fetchV2ReleaseTags` never returns an empty list, unlike its header says. The header
  (`model_download.h:92-93`) also says "newest-first" and tags "matching v2.*": `isV2Tag` takes
  `v20.1.0`, `v200.x` and `v2beta`, and refuses `v2`; a pre-release and its release come in either
  order, so a release candidate may be the latest (`IsV2Tag`, `NewestFirst`).

Terminal program

- `v2.0` is not a semantic version here, so it comes last and is not subject to the filter.
- Too many digits in a tag overflow an `int` (`semver.cpp:90`, 188), or make the comparator of the
  sort contradict itself (165-173); either leaves the list in any order (`Sortable`).
- Nobody creates the cache directory the downloads go to (its `README.md:13-16` names it), so on a
  fresh machine each file fails to open.
- The guard against a double download is set before the previous worker is joined, which clears it
  (`app.h:51`, `StartDownloadWorker`).
- `ok = file_ok || ok` at `app.cpp:386`: a download of which one file arrived is reported as a
  success (`NextFile`; `DownloadIsHonest` states what is true of it).
- Quitting in a download truncates each remaining file of the artifact.

Desktop program

- A table may show an older selection: when `onTagSelected` runs inside another one, the outer one
  finishes last (`main_window.cpp:1126`); a refresh inside it leaves its `tag` reference dangling
  (1098, 1137; `Stale`, `crashed`).
- After a download the current controls are loaded, not what was downloaded (1045, 1490); the
  directory may have been edited meanwhile (1502).
- While "model ready" is shown the directory can be edited and a double click changes the V2 label
  (613-617), also when its download is then refused; neither releases the model (1568-1577), so both
  may name another model than the one in memory (`EditModelDir`, `OnTableDoubleClick`).
- A row of the local table with another backbone loads whatever the resolution finds first
  (`OnLoadLocalModel` sets version and precision only).
- A second batch run reports no successes: it counts only items that still wait.

Command line client

- "Backbone not specified" is also printed when the backbone was given and not found
  (`cli_runner.cpp:315-319`, `Target`).
- An OCR run exits with 0 when every image failed (`FinishImages`).

Container

- The script verifies a V1 file after it has moved it into place and asks only for a size at the
  next start: killed in between, the container starts its server with an unverified file for ever
  (`unchecked` in `VerifiedModel`, `Trapped` in `ServesOnceOnline`).
- `Documents/docs/guide/model-management.md:137` says the download is skipped when all files
  exist; `download_v2` needs the manifest all the same (`DownloadV2`).
- The guide (line 139) describes a fallback source; the script reads neither
  `SHMTU_MODEL_FALLBACK_BASE_URL` nor uses `SHMTU_MODEL_SOURCE`.
- `python3`, which the script needs for the manifest, is not installed in the runtime images, so
  a V2 container fails and is restarted for ever (`HasPython`).

## Not modelled

| Part | Why |
|---|---|
| numerical inference, OpenCV, ncnn | out of a model checker's reach; loading is in `CasOcr` |
| GET handlers, server logging, formatting | no state a property speaks about; the thread of the log cleanup is in `ServerLifecycle` |
| JSON and multipart parsing | one nondeterministic outcome where it is used |
| text of tags and versions | `ReleaseTags` starts from the numbers and segments it splits into |
| the thread a signal interrupts | the kernel's choice; taken to be the main thread |
| two threads on one `CasOcr` object | no program of the repository does so |
| widgets, layout and drawing | no behaviour of the program's own, except what drawing reads |
| terminal menus | `App` passes them no events |
| vendored code, packaging, workflows | third party or build time |

## Plan

Done: the pool and the services, the lifecycle with its configuration, the downloads, the
bootstrap, the engine, the three clients, and proofs of every safety property that holds.

Next: `ModelDownload` as what `Download` of `CliRun` and the transfers of `MainWindow` summarise;
what `Decode` skips and where it stops, for any text.
