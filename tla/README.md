# VikingVision in TLA+

VikingVision runs vision pipelines for FRC robots: camera threads load frames and hand them
to a `PipelineRunner`, which executes a graph of components on a rayon thread pool; results go
to NetworkTables or into recordings, and a playground shows cameras and filters in windows. The
specifications here model its control: the graph and its compilation, the runner, the admission
of runs, the components that keep state, the devices and connections at both ends, the threads
of the playground, and the index arithmetic of the image algorithms. They are written from the
source under `src/`; line numbers in this file and in `PROJECT.json` refer to it.

Contents: [system](#the-system) · [modules](#the-modules) ·
[runs](#what-the-runs-check-and-show) · [fairness](#fairness) · [proofs](#what-is-proved) ·
[divergences](#where-the-code-does-not-do-what-it-says) ·
[limits](#abstractions-bounds-and-what-is-not-modelled) · [plan](#plan)

## The system

| Component | State | Operations | Interacts with | Modules |
|---|---|---|---|---|
| Run lifecycle (`runner/run.rs`, `runner/context.rs`) | atomics `running`, `run_id`; one `Arc<CallbackInner>` per run, cloned into every context | `run`, `spawn`, `defer`, `finish`, `Drop` | camera threads, rayon | `RunLifecycle`, `RunAdmission` |
| Pipeline runner (same files) | per component a mutex over a forest of partial input trees (`MutableData`) | `submit`, `insert_arg`, `pre_propagate`, `finish`, `post_propagate`, `get` | executes the compiled graph | `PipelineRunner`, `Dataflow`, `EntrySlots` |
| Input access (`runner/input.rs`) | none | packing of arguments, building and walking of trees | caller → component | `RunArguments`, `InputTrees` |
| Pipeline graph (`graph.rs`) | vector of components with holes, `first_free`, `lookup`; each edge recorded at both ends | add, connect, detach, remove, clear | filled by the configuration, consumed by the compiler | `GraphData`, `PipelineGraph` |
| Graph compiler (`graph.rs: compile`) | none | sort, branch check, wiring | produces the runner's table | `GraphCompile` |
| Serialized pipelines, command line | none; camera threads | build, wire, compile, resolve outputs, start threads | drives the graph, the cameras, the runner | `StartUp`, `Camera` |
| Group (`components/group.rs`) | listeners' maps, a flag per sub-run | runs a sub-run, polls its end | calls the runner from inside a run | `Group` |
| Collecting components | none | `run` over a tree | runner | `InputTrees` |
| One-time configuration (`configure.rs`) | a `Once` and a union of configuration and state | `init`, `get_state`, `get_config`, `drop` | graph builder → pool | `Configurable` |
| ffmpeg component | a map of child processes behind a read-write lock | start, write, stop | encoders | `Ffmpeg` |
| ntable component | none (a walk) | `run` | client | `NtPublish` |
| Network tables client (`vv-ntable`) | channel, table of numbers, types, caches | `set`, the task, reconnecting | publishers → server | `NtClient`, `ValueFeed` |
| Camera (`vv-camera`) | `fail_count`, `backoff`, stream | `load_frame`, `reload` | V4L2, camera threads | `Camera` |
| Playground daemon (`vv-pg/daemon.rs`) | a state byte and a parked thread | start, pause, shutdown | handles → worker | `Daemon` |
| Playground (`vv-pg`) | windows, shared options, derived frames, saved lists | buttons, sliders, work, save, restart | interface ↔ workers | `Playground`, `CaptureOptions` |
| Vision components, vision library | images; the queue of open blobs | filters, conversions, blobs | called by components | `Images`, `Colors`, `Blobs` |
| AprilTag, utilities, debug windows, lazy maps | none of interest | bindings, small types, I/O | called by components | – |

What is hard, and what correctness means, part by part:

- **Run lifecycle.** The limit on concurrent runs is an increment, a comparison and a
  decrement; calls with different limits interleave. The end of a run is whatever context
  drops the last reference to the callback. Correct: limits hold, the callback comes once and
  last, `running` is what it says, ids of runs under way differ, every call settles.
- **Pipeline runner.** A component with several inputs has no thread of its own: values of
  several runs meet in its tree in any order, contexts are *announced* to the trees they may
  reach before they are spawned and *counted down* when they finish, and each of the three is a
  separate critical section. Correct: a component runs once for each set of values that belong
  together and never with others; nothing is left behind; nothing is taken from a context that
  still reads it; no count wraps; no lock is waited for in a circle. The slots that runs with
  several arguments take are found from a cached index. Correct: no slot is given out twice.
- **Pipeline graph.** Ids are indices and holes are reused; an edge lives in `inputs`,
  `outputs` and `input_count`, with two encodings of an id. Correct: both ends agree after any
  sequence of edits, ids stay valid, names resolve.
- **Graph compiler.** It sorts by `input_count`, checks branches from the outputs and wires
  from the inputs. Correct: it rejects what it must and nothing else, the table is in order,
  every edge leads to the slot its component reads, trees are rooted at the right depth.
- **Start.** The file is a hash table that is walked twice, and clones and groups look at what
  has been built so far. Correct: in any order, what runs is what is written down.
- **Group.** Several sub-runs share the listeners; a callback and a polling task race. Correct:
  a run passes on its own values only, and the listeners are emptied.
- **Configuration.** Configuration and state share memory, the closure may panic. Correct: the
  slot is never read as what it is not.
- **Camera.** Devices vanish and come back, and a retry policy counts failures. Correct: the
  thread survives and the retries reach the device.
- **Client.** Numbers of topics are cached in publishers across connections. Correct: the
  server has been told of every number in this connection before it is used; values arrive in
  order; nothing is lost unless the connection breaks.
- **ffmpeg.** Frames of one recording are written by several threads; the child is looked up
  under one lock and made under another. Correct: frames are whole, there is one encoder.
- **Playground.** The look of a camera is kept in three places; wakeups rest on the token of
  `thread::park`. Correct: the copies agree, also after a restart, and no wakeup is lost.
- **Vision.** Edges of images, formats with different strides, blobs that merge. Correct: sizes
  and bounds are kept and no pixel is lost.

## The modules

```
RunAdmission <--refines-- RunLifecycle <-- RunLifecycle_proofs
                               ^-- MCRunLifecycle

GraphData <-- GraphCompile <-- PipelineGraph <-- MCPipelineGraph
                               PipelineGraph <-- PipelineGraph_proofs <-- Wiring_proofs
                   ^---- StartUp <------------------- MCPipelineGraph
                   ^---- Dataflow <-- PipelineRunner <-- MCPipelineRunner

Daemon <-- Playground <-- MCPlayground          Playground <-- Playground_proofs

ValueFeed <--refines-- NtClient   <-- NtClient_proofs
Camera, CaptureOptions, NtPublish, Ffmpeg <-- Devices_proofs
Camera, CaptureOptions, NtClient, NtPublish, Ffmpeg <-- MCDevices

Group, Configurable, EntrySlots, InputTrees, RunArguments <-- Components_proofs
Group, Configurable, EntrySlots, InputTrees, RunArguments, Blobs, Images <-- MCComponents
Colors <-- Images
```

An arrow leads to the module that EXTENDS the other. Depths, input slots and branch numbers
count from 0 as in the code; component ids and positions in vectors count from 1.

### Runs

**`RunLifecycle`** models `run_impl` (run.rs:778-877) and the contexts (context.rs) of several
callers. `running` and `nextId` are the atomics; `run[x]` is how far call `x` has come,
`task[x][k]` how far context `k` of its run has. `FetchAdd`, `Refuse`, `Reject`, `Admit`,
`PanicOnLock` and `Launch` are the steps of `run_impl` between accesses to shared state;
`StartBody`, `Defer`, `Submit`, `BeginFinish`, `Release`, `CallbackReturns`, `FetchSub` and
`DropContext` are those of a context. The references to the callback are not a counter: the
contexts in `Holders(x)` hold one each, and `Arc::into_inner` succeeds for the one that is left.
The constant `Misuse` lets components do what the types permit and the code must survive:
submit after `finish()`, drop a context that was taken apart, panic in the callback.
**`RunAdmission`** is what a caller may rely on: a run begins in one step and only below the
limit, and ends in one step, once.

### Graphs and the runner

**`GraphData`** holds the data of a `PipelineGraph` and its operations as operators
(`AddComponent`, `Connect`, `Detach`, `RemoveComponent`), with the flag bits of ids, the named,
primary, shared and optional inputs, and the search for the next free slot. **`PipelineGraph`**
makes them actions of a caller that holds ids, and states the properties of the graph and of
what compiling it gives. A component type is what a `Component` answers about its channels.

**`GraphCompile`** is `compile()`: `Rounds` is the sort, `Branches` the propagation of branch
points and the check (`Reach`), `WireSingle` and `WireMulti` the edges and slots, `Finished` the
cumulative tree shapes.

**`StartUp`** is the command line program from the file to the camera threads: the two walks
over the table of components in an order that the hash table chooses, clones and groups that
resolve names on the way, `compile`, and the outputs of every camera.

**`Dataflow`** is the reference for the runner: which calls with which inputs a graph leads to,
given what each component submits (`Script`), without trees, counters, threads or order.
**`PipelineRunner`** is the runner. A context is a task with the list of operations its calls
expand to, one per critical section: `Arrive` (`submit_impl` and `insert_arg`), `Announce`
(`pre_propagate`), `ReleaseInputs` (the cleanup in `finish`), `SignalFinish`
(`post_propagate`), `Spawn`, `Read` (`get`) and `Unlock`. `trees[n]` is the forest of component
`n`; a node has `id`, `vals`, `next`, and the two counts `ri` and `rf` (`remaining_inputs`,
`remaining_finish`). `ran` records what every call of a component has read.

**`EntrySlots`** is the forest of a component that runs with several arguments are started with:
the slots, the cached index `first`, and the runs that take and return them. Its `Feed`, in
`FedSpec` only, is the insertion of another component's value.

**`RunArguments`** takes the arguments of a call from the form they are given in to what the
component's `get` returns; **`InputTrees`** is the iterators with their stack over a tree with
holes, `first` and `last`, and collect-vec and select-last on top of them.

### Components

**`Group`**: `BeginGroup` is `run`, `Listen` a listener in a sub-run, `SubRunEnds` the callback,
`PollEarly` and `PollLate` the two outcomes of the polling task, which acts on the opposite of
what its name says; `FailToBegin` is a group that is not configured or whose sub-run is refused.
**`Configurable`**: the closure of `call_once` in two steps, with `configure` between them, which
may panic (`Unwind`); `Viewers` call `get_config`, which reads the union as the configuration once
the `Once` is completed.

**`Blobs`** is `BlobsIterator`, a row per step, with the queue of open blobs as the ring buffer
it is: `queue_front` works on the two slices of a `VecDeque`. **`Colors`** has the pixel formats
and conversions with their integer widths, **`Images`** the operations on a buffer as index
arithmetic; its state machine puts components in a row.

### Devices and connections

**`Camera`**: a thread per camera, a step is one `load_frame` with the reload it may contain, or
one call of `run`. `Pull` and `PlugIn` are the device's. **`NtClient`**: `SetLoad` and `SetSend`
are the two halves of `set` (the cache is read before the message is sent); `Connect`,
`Announce`, `Receive`, `Ping`, `Drain` and `Flush` the task between awaits; `Break` cuts the
connection and loses a suffix of what is under way. **`ValueFeed`** is what a publisher may
expect: values are seen in the order they were set, none twice. **`NtPublish`** is the walk of the
ntable component over its tree. **`Ffmpeg`** is the child per pipeline, its pipe of `Pipe` pieces,
the write of a frame in two pieces, and `stop_all`.

### The playground

**`Daemon`** is a worker thread and its handle: `Load`, `Unparked`, `SpuriousWakeup`, `Work`,
`Panic`, `Cleanup`, and `Start`, `Pause`, `Shutdown` with the `Unpark` that may follow as a step
of its own. **`Playground`** extends it with windows: the buttons, the sliders, the step of work
that takes options over under the lock, the saved lists and a restart at any moment.
**`CaptureOptions`** is the format, size and interval of a V4L2 device, picked in the window by
an index into lists that the worker replaces.

### The MC modules

Parts of the program that share no state are checked in one run: `scope` is the part that moves,
chosen at the start from `Parts`, while the variables of the others keep a state in which nothing
is left to do (`CameraRests`, `TreesRest`, ...). The state space is the union of theirs, not the
product, and a smaller `Parts` selects some of them.

## What the runs check and show

All runs use two workers. Every property of a passing run has a mutant, a plausible bug in a
mapped definition (kept beside it under the comment "Mutated form"), that breaks it.

| Run | Instance | Shows |
|---|---|---|
| `run_limit` | 4 calls with limits 1, 1, none, 2; the second meets a poisoned lock, the last is invalid; 2 contexts per run; 2 ids, so that `run_id` comes round; all misuse | `TypeOK`, `RunningCoversLive`, `LimitRespected`, `CallbackIsLast`, `RunIdsDistinct` (runs under way share an id only if all ids were taken in between), and the refinement `AdmissionIsAtomic` |
| `run_settles` | 2 calls with limits 1 and 2, 2 contexts, no misuse, fairness | `RunningExact`, `EveryCallSettles` |
| `pipelines` | elements of 2 concurrent runs collected; a whole paired with each of 2 elements; one element paired in 2 runs | `CallsAreExpected`: each call has exactly the values that belong together; `RunsComplete`: no panic, no deadlock, every call is made; `TreesCleared`; `InputsStay` |
| `graph_build`, `graph` | every way to give a splitter, another one, a pair and a collector up to 5 edges | `OrderIsReal`: rejected exactly if cyclic, else sources first; `BroadcastUnambiguous`, `WiredAsConnected`, `RootedAtEarlier` (depths and roots, while no collector has a third source) |
| `graph_build`, `start` | 315 files of three or four components, right and wrong ones, each in every order of its table | `StartedAsWritten`: what runs has the components and connections of the file, and a wrong file is refused |
| `graph_build`, `edit` | a splitter, an echo and a pair, 3 edges, shared inputs; detach, remove up to two at a time, replace, clear | `EditsKeepTables`: an edit of a graph whose records agree leaves both ends of every edge, the ids and the names in agreement |
| `playground` | 2 windows, 2 ids, 2 looks, 1 derived frame, restart at any time | `NoLostWakeup`, `MonosRemembered`, `RestartKeeps`, `StaysClosed` |
| `playground_settles` | the same with one saved id, fairness | `ClosedGoesAway`, `ChoiceArrives` |
| `devices`, `cameras` | 2 cameras, 1 run at a time, 3 losses | `RetriesGoOn` (the thread survives losses; a reload waits for at least twice the failures of the one before), `FirstFrameComes` |
| `devices`, `options` | 3 devices, one of which refuses its lists | `NobodyPanics`, of the devices that give lists that fit each other |
| `devices`, `client` | 3 publishers of 2 topics (two of different types), batches of 2, 2 broken connections | `SetsAreDelivered` (understood by the server, unique numbers, nothing lost without a break), the refinement `MovesForward`, `QueuedArrives` |
| `devices`, `publish` | 6 layouts of inputs, 3 kinds of values, 2 nodes, any order of the inputs | `OneListSent` |
| `devices`, `ffmpeg` | 3 frames of one recording and one of another, a pipe of one piece; crashes, drop | `RecordingsWhole` (no torn frames, one encoder, everything up to the last frame) |
| `components`, `group` | 2 runs of a group with 2 outputs of 2 values | `PassesOwnValues` (its own values, each once and to their channel; a list is complete or empty), `ListenersEmptied` |
| `components`, `configuration` | 2 threads that initialise, 2 that ask for the state, 1 for the configuration | `StateKnown` |
| `components`, `slots` | 4 runs | `ArgumentsStay` |
| `components`, `trees` | all trees of 2 levels below the root, up to 2 slots per node, holes anywhere | `TreesRead` (the values collected, each once; first and last) |
| `components`, `arguments` | 7 components, all arguments by list and by name | `ArgumentsArrive` |
| `components`, `blobs` | images of 7 by 4, any last row below 11 beginnings (arches, combs, stairs, rings) | `BlobsKept` (exact if no blob reaches into another's box; every pixel in one blob) |
| `components`, `images` | 36 small images, every pair of components | `ImagesKept` (sizes, opening and closing, bounds of blurs, grey stays grey but for the last of an odd number of pixels under YUYV, YCC round trips, lines complete) |
| `run_leak`, `graph_rooted`, `camera_reload`, `images_hsv` | the smallest instance each needs | a violation each, see below |

A property with a name like `RecordingsWhole` is a conjunction; its parts have definitions and
comments of their own in the module, and can be given to TLC one by one.
One more holds in `devices` with `Parts = {"ffmpeg"}` and `FramesSettle` as its only property (20,469
states): every frame of a recording is written or given up if the encoders read or exit.

Why the bounds are enough for the cases that matter. In `run_limit` four calls are the fewest
with which two calls compete for a limit, a third one runs beside them without one, and both
failures of `run_impl` happen meanwhile; with two ids the third run takes the id of the first anew; two contexts are the fewest of which one can be the last
while the other lets go. In the runner two elements race each other into one tree and two runs
share one forest, which makes trees of one run be inserted, completed, popped and reused while
those of another exist. In `graph_build` five edges over four components are enough for a cycle
through three of them, for a diamond of branches and for a component with all its inputs
connected; in its `edit` part three edges give a channel two targets and a pair of components two
edges, and two slots that are open at a time are what the search for the next one goes wrong with. Two
windows are the fewest with which one can be confused with the other; the second id lets one be
freed and given out anew. For cameras three losses allow a device to be pulled, come back, fail
while it is configured, and be pulled again; `MaxCount` lets five reloads follow each other. In the
client two breaks put a message that was numbered in one connection into the next but one, and
batches of two leave a message behind in the channel. Four entry slots let runs return the first, a middle and the last slot. Images are
larger than every window in one direction and smaller in another, so that windows are cut off on
one side and on both.

Deadlock is not checked, because a program whose calls have returned, or a graph at its bounds,
rightly does nothing more. `SomeoneCanStep`, a part of `RunsComplete`, takes its place for the
runner: while a context is left, one of them is not waiting for a mutex. As scripts are finite
and every operation is one step, it gives termination without a fairness assumption.

## Fairness

- `run_settles`: a caller inside `run_impl` takes its next step (weak fairness of `CallStep`): it
  is a thread in straight-line code. A spawned closure is executed, and a context moves on through
  `finish` (weak fairness of `Progress`): rayon executes every closure before the scope returns. A
  body ends (strong fairness of `BeginFinish`, because a body may defer itself and leave the state
  in between): a component that defers itself for ever does not finish in the program either.
- `playground_settles`: worker threads are scheduled, an `unpark` that is due follows, and the
  interface comes to the end of its loop over the windows (strong fairness of `Reap`, because the
  user's clicks may come between). Nobody has to click.
- `devices`: camera threads are scheduled, runs end, and somebody plugs a device in again, without
  which no policy could help; a publisher that has read its cache sends, the client's task is
  polled (a connection that can be made is made), and frames under way arrive; component runs of
  ffmpeg are scheduled, and encoders read or exit.
- `components`: the pool runs every task that was spawned (weak fairness of `GroupRun`, `SubRun`
  and `Poll`).

`devices` and `components` state the fairness of a part with its `scope`, so that a part at rest
owes no step.

## What is proved

Every theorem holds for every value of the constants; TLAPS checks it from the named assumptions
on them alone.

| Module, theorem | Statement |
|---|---|
| `RunLifecycle_proofs`, `TypeCorrect` | `Spec => []TypeOK`; `running` is never negative, so `fetch_sub` never wraps |
| `CallbackOnceAndLast` | `Spec => []CallbackIsLast` |
| `RunningNeverBelowLive` | `Spec => []RunningCoversLive` |
| `LimitsHold` | `Spec => []LimitRespected` |
| `RunningIsExact` | `Spec => []RunningExact`, if no call is invalid, no lock poisoned and no misuse happens |
| `ImplementsRunAdmission` | `Spec => AdmissionIsAtomic`, the refinement |
| `IdsDistinctAcrossTheWrap` | `Spec => []RunIdsDistinct`, for any width of the counter and any number of times it comes round |
| `PipelineGraph_proofs`, `BuiltTablesAgree` | `Start = EmptyGraph /\ ~Edits /\ ~Unknown /\ Spec => []TablesAgree`, for any component types and any number of components and connections, shared inputs included |
| `BuiltOrderIsReal` | the same hypotheses `=> []OrderIsReal`: `compile()` reports exactly the cycles, and puts sources first |
| `Wiring_proofs`, `BuiltWiredAsConnected` | `Start = EmptyGraph /\ ~Edits /\ ~Unknown /\ ~Shared /\ Spec => []WiredAsConnected`: the edges that `compile()` makes are those of the graph, for any types and any size |
| `Playground_proofs`, `DaemonWakes` | `Spec => []NoLostWakeup` of the daemons alone, for any number of workers and of threads with handles |
| `WindowsWake` | `PlaygroundSpec => []NoLostWakeup`, of the threads behind windows that are opened, reaped and started again |
| `ChoicesRemembered` | `PlaygroundSpec => []MonosRemembered` |
| `RestartBringsBack` | `PlaygroundSpec => RestartKeeps` (an action property) |
| `ClosingStaysClosed` | `PlaygroundSpec => StaysClosed` (an action property) |
| `Components_proofs`, `OwnValuesPassed` | `GroupSpec => []PassesOwnValues`, for any finite number of runs |
| `ArgumentsAlwaysStay` | `SlotsSpec => []ArgumentsStay`, for any number of runs |
| `FirstAlwaysOpen` | `SlotsSpec => []FirstIsOpen` |
| `StateAlwaysKnown` | `ConfigurableSpec => []StateKnown`, for any number of threads, whether or not the closure panics |
| `SlotAlwaysKnown` | `Viewers = {} /\ ConfigurableSpec => []SlotKnown`: with `get_config`, which is a public function, it is false |
| `ListsArrive` | `ArgsSpec => [](form = "list" => InputsAsGiven)`, for any components that `compile()` can make |
| `ArgumentsReachInputs` | `NoLevelSkipped /\ ArgsSpec => []ArgumentsArrive`, for those in which no level without inputs is followed by one with inputs (`args_sparse` shows why) |
| `TreesAreRead` | `TreesSpec => []TreesRead`, for trees of any depth, with any branches and holes |
| `NtClient_proofs`, `SetsDelivered` | `NtSpec => []SetsAreDelivered`: understood, unique numbers, and nothing lost without a break |
| `ServerUnderstands` | `NtSpec => [](Understood /\ NumbersAreUnique)`, the two parts that broken connections do not affect |
| `ValuesMoveForward` | `NtSpec => MovesForward`: the client implements `ValueFeed`, for any number of publishers and of broken connections |
| `Devices_proofs`, `NobodyEverPanics` | `OptionsSpec => []NobodyPanics` |
| `LossesNeverEndACamera` | `CameraSpec => []RetriesGoOn`, for any cameras, outputs and number of losses |
| `OneListArrives` | `PublishSpec => []OneListSent`, for any inputs at different places and a tree of any size |
| `RecordingsStayWhole` | `FfmpegSpec => []RecordingsWhole`, for any number of frames and pipelines and pipes of any size |

**`RunLifecycle`.** None of these invariants is inductive. The invariant that is, `IInv`, has
three layers. *Local*: the types, and the shape of a run: contexts hold the callback only while
the run is active and the callback uncalled, and at most one context is past it. *Counting*:
`running` is the number of calls whose `fetch_add` has not been undone. *Quota*: for every `m`, at
most `m` of the counted calls have a limit of at most `m` and saw a value below it. The last is
the heart of the matter: `seen` is fixed at the `fetch_add`, a call that sees `s` was preceded by
`s` counted calls, so at most `m` counted calls with such limits can have seen less than `m`. It
holds from the increment on, not from the comparison, so the window between the two needs no case
of its own. `LimitRespected` follows because every run under way is counted and has passed, and
the refinement follows because the quota counts the call that is being admitted. Exactness needs
one more layer (`Alive`): an active run has a context that will give its share back. That run ids
differ needs another (`Ids`), which speaks of the order in which ids were taken (`taken`, a history
variable): from a run to one that took its id `d` runs later the counter went up by `d`, or by
`d - RunIdMod` where it came round, and the same from each run to the next id; so two runs closer
than `RunIdMod` differ, runs that are over included. A run that lasts while `RunIdMod` others begin does
meet its own id again.

**`PipelineGraph`.** Both theorems are about a graph while it is built: components are added and
connected in any order, none is detached or removed (`~Edits`; the runs `graph_detach_branch`,
`graph_stale_id` and `graph_phantom_cycle` show why), and connections are asked for to channels that
the component has or takes (`~Unknown`; see `EdgesMirrored`, `CycleIsReal` in the tables below). The invariant is `Built`:
the vector has no holes, a component's `input_count` names exactly the components it is fed from
(`EndsKnown`), each end of a connection records it as often as the other (`Mirrored`), and `lookup`
and the names are inverse (`NamesKept`). How often is a cardinality of a set of places in a
sequence; the lemmas `HitsAppend`, `HitsPut` and `HitsSwapRemove` say how the operations on vectors
change it, and `InputTaken` brings the ways in which a component takes a source (one more input, an
open one, an optional one, the second and later ones of a shared one) to one statement, `Gains`. For
the order, `SortEnds` says of any graph that the rounds of `compile()` end with nothing ready, and
with every component behind all that its `input_count` names; that needs induction over the
rounds, which is done by a least counterexample. If components are left, each waits for one of them;
if none is left, the first component of a cycle in the order would come before itself.

**`Wiring`.** The loops of `compile()` are recursive functions; `LoopRuns` says of any such loop that
it has its rounds, and `Upwards` is induction over them, so that each loop can be followed by
what it keeps. The loop over the inputs keeps `Fits`: the edges to a component, counted by where they
come from and which slot they go to, are its inputs, and its lookup has a slot of its own for each of
them. `Fits` of a component is about the edges to it only, so wiring the others leaves it alone
(`EdgeElsewhere`). The theorem needs that no input has a second source, which is what `~Shared` says
of the caller's steps; that the graph then has none (`NoneShared`) is part of the invariant. Without
it the statement is false, see `graph_shared` below.

**`Playground`.** Of the daemons: a worker that is at `park` read `PAUSED`; whoever swapped it away
since owes an `unpark` or has given one, and a token that was there is not lost to a spurious wakeup.
That is inductive with the types, and stays so when windows come and go, because `Reap` waits for the
worker to end. That choices are remembered needs more (`MonoInv`): the number that the next camera
gets is nobody's (`CountIsFree`), which holds because it is looked for among the entries *after* the
one before was made, so it must stay free from one camera to the next; slots without a window are as
in the beginning; and what is not pending in the shared options was taken over by the worker
(`OptionsSettled`), or an exchange could write an old look into the list. `RestartKeeps` and
`StaysClosed` follow from these step by step.

**`Group`.** The listeners are shared, so everything hangs on the base ids: those of runs that have
begun differ, since they are counted up (`IdsOwn`). Under each, a listener holds values of that
sub-run which are not pending any more, each once, and all of them as long as the run polls
(`ListenersOwn`); as a sub-run sets its flag only when nothing is pending (`EndIsLast`), a list is
complete when it is taken, which is when the flag is set.

**`EntrySlots`.** The cached index is the first open slot, the slots at and beyond `len` are open,
and the slots of active runs differ because each holds its run. Each needs the others: a run that
finishes cuts open slots off the end, and the index is right after that only because no slot below
it was open.

**`Configurable`.** What the union holds is written nowhere: it is inferred from the `Once`. The
invariant says that the two agree while the `Once` is new and when it is done, that a caller is
inside the closure only while it is running, and that at most one caller is or was. A closure that
panics leaves the configuration moved out, and the `Once` poisoned, so that nobody looks. `get_config`
asks the `Once` the same question as `get_state` and takes the answer for the opposite: each of its
answers is the state read as the configuration, which `StateKnown` says of it, and `SlotKnown` forbids.

**`RunArguments`.** By list: what the levels before one have taken telescopes, because each takes the
difference of two sums, so a level begins behind all of them (`Taken`), the places of the inputs are
in the order of level and column and without gaps, and there are as many as the shape's first number. A list
in that order is then the list by places. By name: `pack_args` puts an input `tree_shape[level - 1]`
places behind the beginning, which is past the last one for an input right below the first level, so that
`pack_args` panics and nothing arrives wrong; only if a level is skipped does the sum shrink enough
to leave room, and then it is somebody else's (`args_sparse`). Hence the hypothesis `NoLevelSkipped`.

**`InputTrees`.** The stack leads to a node, and records on each level the slot that was taken
(`LeadsTo`). A value has been passed if on some level the walk is in a later slot than the one that leads to
it (`HasPassed`), and what was found is what was passed, each value once (`FoundPassed`). Going down passes
nothing, neither does moving past a hole, and leaving a node passes what is under it: the value itself on
the level that is collected, nothing new above it. With an empty stack everything has been passed. For `first` and
`last` the induction goes from the level of the values upwards: the value found below the foremost
branch that has one differs from those of other branches first at that branch.

**`NtClient`.** Three layers again. *Numbering*: a number that is anywhere, in a cache, in a call
between its two halves, in a message, is 0 or the one its topic has in the table, and no two topics
have the same. *Server*: everything the server is or will be told is what the table says
(`Truthful`), a value is preceded by the announcement it needs, and, while the connection holds,
every topic with a number has been announced or is about to be (`InTime`); the last is needed
because a publisher's cache outlives the connection in which it was filled, and it is false without
a connection, which is why the announcements after connecting restore it. The argument counts the
frames of the batch (`outgoing`) as if they were under way already. *Order*: the wire and the batch's
frames, then the batch and the channel, hold the values of a publisher in the order of the calls,
later than the last that was seen. Steps leave frames out, or turn the first message into frames;
the lemmas `OrderOfSome`, `OrderOfDrained`, `OrderOfSent` and `OrderOfSeen` are about sequences
alone and the action lemmas reduce to them.

`NothingLost` adds that, while the first connection lasts, what was received of a publisher is
1, 2, ..., k and each later value is in the wire, the batch's frames, the batch or the channel. It is
stated without filtered sequences, by the places where a value is found (`OnTheWay`), and follows
from *Order* for the first half: a publisher's values are received in order, and none between two of
them can be elsewhere.

**`Ffmpeg`.** A frame that writes holds the stdin of its child, or the write lock and with it the
whole table (`StdinHeld`, `TableHeld`). So a stream has an odd number of pieces exactly while a frame
is half written, and its last piece is the first half of that frame (`CutByWriter`): the next piece
can only be the other half. `ExitsEmpty` says that an entry whose child is gone was read to the end,
or crashed, and keeps `stop_all` from cutting a recording short.

**`CaptureOptions`, `Camera`, `NtPublish`.** With a device whose lists fit each other, what the two
sides find under the lock is a format and a size that the device lists and an index that is in the
list shown (`Shown`), whichever list a pick was made from. A camera's device, when it can be read, sends
frames of the configured format unless it refused it in a reload (`Fitting`), so only that and
outputs without arguments end a thread; the backoff is twice the failures that the last reload waited
for, or 0 after a frame (`Backing`), and 0 is never reached again, so the waits at least double. The
walk of the ntable component has in the one slot of its list the values of the nodes visited so far,
of the first kind that can be sent, in order (`Filled`); the root's inputs are sent as they are
looked at.

The attempts changed the models in five places where they said too little. `PipelineGraph` had no
connections to channels that a component does not take, although the code accepts them. `Uniform` did not ask for
a non-empty list of intervals, which the window indexes unchecked (vv-pg/src/camera.rs:255); TLC had
no device without intervals. `NtPublish` did not say that no two inputs of the component are at the
same place. `RunArguments` took any record for a component: that `compile()` numbers inputs
without gaps (`AsCompiled`) had to be said, and the proof for arguments by name failed on a component
with an empty level, which TLC then showed to be an error of the code (`args_sparse`). And that any two runs under way have different ids does not follow: `RunIdsDistinct` says
which of them do.

Some assumptions are there for the proofs, and hold in the program: the runs of a group are finitely
many, and so are the names a caller may give and the ids of branches; the counts and bounds are natural
numbers, the lists of a device are sequences. Fairness is used
by no theorem.

Model-checked only:

- *Liveness* under fairness (`EveryCallSettles`, `ClosedGoesAway`, `ChoiceArrives`, `FirstFrameComes`,
  `QueuedArrives`, `ListenersEmptied`, `FramesSettle`), which is beyond the prover.
- *The runner* (`CallsAreExpected`, `RunsComplete`, `TreesCleared`, `InputsStay`): its operations on
  forests and the reference they are compared with are recursive operators, which the prover does not
  accept. Nor do they hold of every graph, see `runner_same_depth` and `runner_relay` below; a theorem would
  first need to say of which.
- *The branches of a graph* (`BroadcastUnambiguous`, `RootedAtEarlier`): they hold of the types
  in the runs and not of every graph. A component that should run once per pipeline run is rooted at
  a branch if two of its inputs are behind one (`graph_rooted`); if it has an output, what it
  feeds is then rejected for branch points that the value does not have, so that
  `BroadcastUnambiguous` fails as well.
- *Graphs that are edited* (`EditsKeepTables`): detaching folds over sequences that it changes. `TablesAgree`, which
  is proved of graphs that are built, does not hold of them.
- *The start*, *the blobs* and *the images* (`StartedAsWritten`, `BlobsKept`, `ImagesKept`), whose
  algorithms are recursive.

## Where the code does not do what it says

Four violations are runs of the project. Each property quotes a comment, a doc page or a test,
and its counterexample was followed through the source.

| Run, property | What happens |
|---|---|
| `run_leak`, `RunningIsRuns` | `run()` returns `NoComponent` or `ArgsMismatch` without decrementing `running` (run.rs:791-822); the limit is used up for ever |
| `graph_rooted`, `RootedAtEarliest` | the depth of the trees of a component is overwritten at every edge (graph.rs:950), so that a component that should run "once per pipeline run" (component/mod.rs:355) and is fed twice from a branching channel is rooted at the branch |
| `camera_reload`, `KeepsDelivering` | a good frame sets `backoff` to 0 and leaves `fail_count` (vv-camera/src/lib.rs:150), so the failures never equal the backoff again: a camera that has delivered a frame is never reloaded |
| `images_hsv`, `HsvRoundTrips` | `255 * delta` overflows `i16` for every delta above 128 (conv/mod.rs:52) |

The following can be repeated with the configuration named (`tlc -config X.cfg M`).

| Configuration (module), property | What happens |
|---|---|
| `run_spurious` (`MCRunLifecycle`), `RefusedOnlyWhenFull` | a call is refused because another call, itself about to be refused, is counted for a moment (run.rs:783) |
| `runner_same_depth` (`MCPipelineRunner`), `EveryCallMade` | the value that completes an existing node never runs the component, as `done` is computed before the value is counted (context.rs:410): a component with two inputs of the same depth is never run |
| `runner_relay`, `CallsAreExpected` | `pre_propagate` takes another run's tree for an empty slot and overwrites it (context.rs:786) |
| `graph_stale_id` (`MCPipelineGraph`), `IdsStayValid` | with two holes in a row the search for the next free slot returns the slot just filled (graph.rs:493); the next component overwrites it |
| `graph_shared`, `WiredAsConnected` | the sources of a shared input are wired to the component numbered like the source, not to the component (graph.rs:1049) |
| `graph_detach_branch`, `EdgesMirrored` | detaching does not remove edges from a branching channel: the ids compared differ in the flag bit (graph.rs:667) |
| `graph_phantom_cycle`, `CycleIsReal` | detaching keeps the component's `input_count`, and `compile` sees a cycle that is gone (graph.rs:627) |
| `entry_fed` (`EntrySlots`), `ArgumentsStay` | `insert_arg` fills slots without moving `first`, so a component that is both fed and started loses arguments (run.rs:849) |
| `args_sparse` (`MCComponents`), `ArgumentsArrive` | `pack_args` counts the places of a level from the number of inputs on the level above it and below (input.rs:172). If the level above is empty, the value lands on the place of another input, whose value is lost, and the run starts with a placeholder where the value belongs |

These need a small change to a listed configuration:

| Property | Configuration and change | What happens |
|---|---|---|
| `EveryCallMade` | `runner_same_depth`: `Graph <- NestGraph`, `Compiled <- NestTable`, `Script <- NestScript`, `Starts <- OneRun` | finish signals stop at a component that takes trees, so a collector fed by a collector never runs (context.rs:1085) |
| `CleanWhenIdle` | `pipelines`: `Starts <- PairStarts` | a component that finishes before the one that fed it leaves its tree behind (context.rs:972) |
| `ClonesListen` | `graph_build`: `Parts = {"start"}`, `Configs <- MadeFiles` | a clone that is built before its original has no inputs (graph.rs:443; docs clone.md "Same as the cloned component.") |
| `EdgesMirrored`, `CycleIsReal` | `graph_build`: `Parts = {"graph"}`, `Unknown = TRUE` | a connection to a channel that the component neither has nor takes is accepted: the source records it and `input_count` counts it, but there is no input (graph.rs:584-593; its comment at 500 has it check "that the requested components exist and have the necessary input and output channels") |
| `TargetsTakeAFrame` | `graph_build`: `Parts = {"start"}` | an output is accepted whose component expects more than the frame because its optional inputs are connected (vv-cli main.rs:290) |
| `EdgesMirrored` | `graph_shared`: `Edits = TRUE` | a component has one input with several sources and another one: when the source of the other is detached, it stays, because only the shared input is looked at (graph.rs:684) |
| `EdgesMirrored` | `graph_rooted`: `Edits = TRUE`, `Channels = {"", "ref"}` | the source of an optional input stays when it is detached: its id is flagged, and compared with one that is not (graph.rs:709) |
| `SlotKnown` | `components`: `Parts = {"configuration"}` | `get_config` reads the union as the configuration once the `Once` is completed, which is when it holds the state (configure.rs:48-52) |
| `NothingAfterFinish` (a temporal property) | `run_leak`: `Calls = {c1}`, `Invalid = {}`, `Misuse = {"submit_after_finish"}` | a submit after `finish()` is not a no-op: it spawns the dependents after the run's callback (context.rs:308) |
| `DetectorUpToDate` | `playground`: `Workers = {w1}`, `Sizes = {small}`, `Settings = {s1, s2}`, `MaxIds = 1`, no symmetry | every frame of the interface sets `changed` anew, so a change is forgotten when the next frame comes before the worker (derived.rs:822, 842) |
| `DerivedIdsDistinct` | `playground`: `Workers = {w1}`, `Sizes = {small}`, `MaxIds = 1`, `MaxDerived = 2`, no symmetry | two derived frames share a window id: their counter starts over in each process while the ids are saved (derived.rs:14) |
| `EveryInputSent` | `devices`: `Parts = {"publish"}`, `Layouts <- TwoLists` | lists of several columns or levels are lost or indexed past (components/ntable.rs:170; docs ntable.md) |
| `CompletesWithSubRun` | `components`: `Parts = {"group"}` | the group finishes at the first poll that finds its sub-run *not* ended (group.rs:196) |
| `SortedByRun` | `components`: `Parts = {"trees"}`, `Depth = 1` | the run ids on `sorted` skip holes and shift (run.rs:184; docs collect-vec.md:15) |
| `BlobsExact` | `components`: `Parts = {"blobs"}`, `Width = 5`, `Begun <- Ring` | a ring that closes around another blob is returned in two pieces (blobs.rs:295-349; docs blobs.md "A blob is an 8-connected component of non-black pixels") |
| `SizedCorrectly` | `components`: `Parts = {"images"}`, `Photos <- Frame`, `Filters <- YuyvFilter` | the filter of a YUYV image does not size its destination (vision/mod.rs:66-79; docs filter.md) |
| `CanForward` | `components`: `Parts = {"arguments"}` | `packed_args` indexes past the tree for some shapes (context.rs:256) |

Met on the way, in code that the models represent as it is, without a property of their own:

- `dilate` takes the smallest and `erode` the largest value of the window
  (components/vision.rs:470, 505), the opposite of docs percent-filter.md.
- `BlobsComponent` declares the channels `""` and `vec` and submits on `elem` and `""`
  (components/vision.rs:186-224); its fill bounds are compared with the aspect ratio's.
- `resize` of YUYV divides by the width in pixels, and `pixel` and `set_pixel` on YUYV use four
  bytes per pixel, so the lower half of an image is out of reach (`ResizeDefined`, `InRange`).
- `pack_args` of a component with inputs on two levels indexes past the end, since the numbers of
  `tree_shape` count the levels below as well (input.rs:172; `PackPanics`). Such inputs are
  usually fed by others, not by a caller.
- `FpsComponent::set_max_duration` stores nothing; a sigma that is not a number passes its check;
  `Blob::draw` takes the bottom edge from `max_y`.
- Conversions to and from YUYV take the pixels in pairs (conv/mod.rs:96-101), so the last of an odd
  number of pixels is lost (`GreyStays`).
- A camera's `last_frame` is set only if the thread slept (vv-camera/src/lib.rs:133-138).
- The client keeps a sender of its own channel, so that its task does not end with its handles.
- The listeners of a group take their kinds from the group's own name (group.rs:116).

## Abstractions, bounds, and what is not modelled

- *Values* are known by who sent them under which run id (`Val`); types of values and failed
  downcasts are left out, except in `NtPublish` and `NtClient`. What a component submits is
  `Script`, a finite list per component.
- *Order of dependents.* The channels of a compiled component are in a `HashMap`; one order of
  them, fixed for an instance, is explored. The order of the components of equal rank in
  `compile` is fixed too. `StartUp` explores every order of the file's table.
- *Arithmetic* on `remaining_*` is checked: a subtraction below zero is the panic of a debug
  build, and the first panic ends the behaviour (`failure`). `MaxU32` (1000) stands for
  `u32::MAX`, the count of a node that no finish brings down. `Colors` has the 16-bit
  multiplication of a build without overflow checks.
- *`defer`* is in `RunLifecycle`, where it matters for the callback, and not in
  `PipelineRunner`, where it changes nothing but the thread.
- *A run in `PipelineRunner` has one argument*; `EntrySlots` and `RunArguments` have several, each
  apart from the rest of the runner.
- *Bounds of `PipelineGraph`*: `MaxComponents`, `MaxEdges` and `MaxHoles`. `graph_build` has
  `Shared = FALSE` because of `graph_shared`, `Edits = FALSE` because of `graph_phantom_cycle`, and
  `Unknown = FALSE` because connections to channels that a component does not take are recorded at
  one end only. Its `edit` part has none of these limits but the last, and a graph whose records
  have come to disagree is not edited further. `EditsKeepTables` names what goes wrong there: an
  addition that fills one of several open slots (`FillsOneOfMany`, see `graph_stale_id`), detaching a
  source of shared and of optional inputs (`PlainInputs`), and edges from branching channels, of
  which more may be left than there are sources (`TablesKept`, see `graph_detach_branch`). The
  `input_count` is not among the records it compares (`graph_phantom_cycle`).
- *Bounds of `RunLifecycle`*: `Calls`, `Tasks` and `RunIdMod`, the width of `run_id`.
- *`Playground`*: `MaxIds`, `MaxDerived` and `MaxCounter`; looks are a size and a color. Saving is
  taken to happen right after the last change, since the model's restart may come after any step.
- *`Camera`*: `MaxFails` (failures before a device that is away comes back), `MaxCount` (where
  failures stop being counted) and `MaxLosses`. Throttling to a frame rate needs a clock.
- *`NtClient`*: `MaxSets` and `MaxBreaks`; the encoding of values, the timestamps and the server's
  own announcements are left out. *`NtPublish`*: `MaxNodes`. *`Ffmpeg`*: a frame is two pieces.
- *`InputTrees`*: `MaxKids` and `Depth`, one column per level. *`Images`*: `MaxSteps` components in
  a row; the coefficients of a Gaussian blur are given, their computation in floats is not
  modelled.
- *Not modelled*: debug windows (an event loop of the window system), the AprilTag wrapper and
  bindings (a C library), utilities (geometry, small types), lazy maps (views without state), the
  parsing and schema of configuration files, unpack, wrap-mutex, fps and debug components
  (stateless, or one value behind one lock), the drawing of blobs, decoding of JPEG, and the
  layout of the playground's widgets.

## Plan

Done: the lifecycle of runs, the graph and its compiler, the runner, the start of the program, the
components with state, the devices and connections, the playground, the vision library.

What is left, in this order:

1. `PipelineRunner` and `EntrySlots` in one state space: runs with several arguments of a component
   that others feed as well; a deeper tree (a splitter of a splitter) once collectors of collectors
   work.
2. Proofs about graphs that are edited, one `Detach` at a time, once the ids of branching channels
   can be detached (`graph_detach_branch`): `EdgesMirrored` needs a lemma per fold of `Detach`.
3. Frame rates (`vv-camera`'s throttle and the fps component), with a clock.

The list of runs is kept short: parts that share no state share a run, and a run that only repeats
what another one shows is replaced when a new module needs its place.
