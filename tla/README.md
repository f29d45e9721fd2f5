# isula-transform: TLA+ models, model checking and proofs

`isula-transform` turns running docker containers into iSulad containers. For
every container it pauses docker's, creates a bundle directory, converts three
configuration files, generates a rootfs in iSulad's storage, mounts a tmpfs,
copies the read-write layer and calls lcr. Each step has an effect on the host;
a failure at any of them, or a signal at any moment, has to undo the steps
before it. Containers are transformed concurrently, and for each of them two
goroutines may execute the same undo functions.

## Inventory

| Component | Source | State | Operations | What makes it correct |
|---|---|---|---|---|
| rollback | `transform/docker/rollback.go` | the slice of undo functions, `st`, `closed`, `closeCh`; the shared context and WaitGroup | `wait`, `register`, `run`, `close` | what is registered is undone once it must be, downwards, by whichever goroutine; nobody waits for ever |
| pipeline of one container | `docker.go` `transform()` and its helpers | the host: bundle, files, tmpfs, rootfs, layer, docker's pause | thirteen steps, three undo functions | a failure is undone, a success is complete and stays so, what others made is not touched, a second try can succeed |
| one invocation | `docker.go` `Init`, `Transform`, `matchID`, `handleSignal` | client, driver, the container map, two WaitGroups, the result channel | the initialization, one worker per ID or per container, the collector | each piece is made after what it keeps; one result per ID, no container taken twice, orderly shutdown |
| command line | `main.go`, `flags.go` | the exit code | `transformInit`, `doTransform` with its receive loop | the exit code tells of every failure |
| isulad tool | `pkg/isulad/isulad.go` | the global `commonTool`; the host | `InitIsuladTool`, `PrepareBundleDir`, `SaveConfig`, `PrepareShm`, `Cleanup`, `LcrCreate` | refuses a container that is there |
| storage drivers | `overlay2.go`, `devicemapper.go`, `pkg/isulad/storage.go`, with the binding `isuladimg` | the rootfs, its mount | `GenerateRootFs`, `TransformRWLayer`, `Cleanup`; devicemapper filters the changes docker reports | the new rootfs has the old one's changes and is not left mounted |
| reconciliation | `reconcile.go` | none (rewrites data) | three `reconcile*Config` functions and their options | config.json says what config.v2.json says, what it mounts is there, the container is in iSulad's cgroup or the user's |
| bindings, registry, types, utils | `isuladimg`, `lcr.go`, `transformer.go`, `types/`, `utils/` | none, or filled once before `main` | wrappers, a lookup, JSON types, one `stat` | part of the components that call them |

How they interact: `main` reads iSulad's `daemon.json`, initializes the isulad tool
and the image library with it, looks the transformer up and initializes it. It
starts `Transform` in a goroutine and receives its results until the channel is
closed. `Transform` starts one goroutine per ID,
which calls `matchID` on the shared map and `transform` with a rollback instance
of its own. `rb.wait()` starts the waiter goroutine of that instance; the signal
handler cancels the one context all waiters select on. `transform` calls the
isulad tool and the storage driver, which act on the host through system
calls, `cp` and two C libraries.

The hard behaviours, each listed with its line under `hazards` in
`PROJECT.json`: the lock-free sharing of a rollback instance by two goroutines;
the race of `select` between close and cancel; a signal that `transform()` itself
never sees; steps that check and then act (`matchID`, `PrepareBundleDir`);
several effects behind one error; undo functions that fail; remains of
invocations that died; the order in which WaitGroups and channel are shut down.

## Modules

| Module | Models | Lines it stands for |
|---|---|---|
| `UndoLog` | what a rollback promises: functions are registered, the log is sealed once, then undone downwards from the seal | the contract of `rollback.go` |
| `Rollback` | `rollback.go`, owner and waiter of any number of instances | all of it, and the deferred function of `transform()` |
| `Pipeline` | `transform()` on one container and the host it changes | `docker.go`, `isulad.go`, `storage.go`, the drivers, the bindings |
| `Invocations` | any number of processes, one after the other, on that host | `main.go`; extends `Pipeline` |
| `Startup` | from the start of the process to the first container | `transformInit`, `InitIsuladTool`, `GetTransformer`, `Init` |
| `Transform` | one invocation from command line to exit code | `Transform`, `matchID`, `doTransform`; composes `Startup` and `Rollback` |
| `DeviceMapper` | `TransformRWLayer` of devicemapper with the trie that filters docker's changes | `devicemapper.go` |
| `Reconcile` | how the three configuration files are computed | `reconcile.go`, the data of `docker.go` |
| `MCTransform`, `MCDeviceMapper`, `MCReconcile` | values of the constants for TLC | |
| `RollbackProofs`, `PipelineProofs`, `InvocationsProofs`, `TransformProofs`, `DeviceMapperProofs`, `ReconcileProofs` | the inductive invariant of each and the theorems that follow from it | |

`Pipeline` and `Transform` both INSTANCE `Rollback` on their own variables;
`Transform` also takes the steps of `Startup`. In
`Pipeline` the owner's `register` and the end of `transform()` are tied to the
steps, and every call of an undo function has its effect on the host. In
`Transform` the owner does what it likes between `wait()` and the end: it
registers some undo functions and leaves with or without an error, which covers
every pipeline.

### Rollback

One action per atomic step of the Go code. `run()` is four: the check of `closed`
and `st` (`RunCheck`), the store of `st` (`RunStore`), the evaluation of
`len(rb.rbFuncs)` (`RunLen`), and a call (`RunCall`). `register` is an append without a lock: `RegisterLen`
writes the length and `RegisterElem` the element, in the order the compiler
emits for an append in place; a waiter that reads between them calls a nil
function (`RunCallNil`) and the process dies. An append that
has to grow the slice first publishes the copied array with the old length and
then does the same two writes. Apart from this the model is sequentially
consistent; in the code at least one system call separates an owner's `register`
from its `run`.

`pc[r][g]` is where goroutine `g` ("owner" or "waiter") of instance `r` is;
`length`, `stored`, `executed`, `closed`, `closeCh`, `wg`, `cancelled` are the
code's state. `from`, `called` and `atCancel` are history and occur in no guard.
The check of `closed` in `run()` is a read of a variable only the waiter writes,
on its way out.

### Pipeline

`next[w]` is the step worker `w` executes next; the function `After` is the
order of the steps in `transform()`. A step that fails calls `Fail`, which is the
deferred function with `retErr # nil`. Steps that act on the host may fail
before or after their effect, as a `cp`, a write or a remote call may. The undo
functions are numbered in the order of their `register` calls (`UndoName`), and
each may fail and log (`undoErr` records which did). `RemoveAll` on a bundle with
a mounted tmpfs empties the directory and leaves it (`RemoveBundle`). The host is
abstracted to what exists.

`driver` is the storage driver. overlay2 copies the layer in one step
(`CopyLayer`); devicemapper mounts the rootfs (`MountRootFs`), applies the changes
(`CopyChanges`) and unmounts in a deferred function, whose error is only logged,
whether the changes could be applied (`Umount`) or not (`UmountAfterError`).
`SwitchOperation` is what the image library has done when it answers 0.

The effects inside the lcr and iSulad image libraries are those the code relies
on: they do what they are called for, or fail; `lcr_create` may leave its files
and fail; generating a rootfs has no effect if it fails.

### Invocations

`Pipeline` with one more action, `NewInvocation`: a process ended, or was killed
at any step, and another one starts. What a process keeps in memory is as
`Init` says, the disk is what the last one left. A calm invocation, chosen when
it starts, is one in which no signal comes, no kill, and no call to docker, the
libraries or the system fails (`Undisturbed`); it can still be refused by what
is there. Success is remembered in `transformed`.

### Startup

`phase` is the step `start()` takes next. `tool` is the global `commonTool`, `sd`
what the transformer's driver was made with: a `base` that is there, a client
that is not nil. A step fails because a library or the system says so or because
what was asked for is not supported (`Refused`).

### Transform

`worker[w]` follows the goroutine in `Transform` for one ID, `collector` the two
`Wait`s and the `close`, `received` and `exitCode` are main's. `Start` takes the steps
of `Startup`; when the last is taken, `matches[w]`, the set of containers of which
w's ID is a prefix, is chosen among `Lookups`, or is one container per worker
with `--all` (`AllIDs`).
`matchID` is two steps, `MatchLoad` and `MatchStore`, as `Range` loads a value
and `Store` writes it. `ret` of the code is `status` and `retErr`: the results on
the channel are identified by their worker.

### DeviceMapper

A file system is a function from the paths that exist to "dir" or the contents of
a file; `image` and `container` are any two on `Paths` (initially all pairs),
`newFs` is the rootfs under construction. `Listed` is what docker reports, parents
before children (the order of the example in `devicemapper_test.go`; the report
itself is docker's and external). One `Insert` is one iteration of
`changesFilter`, one `VisitNode` one of `filter()`, whose queue takes the children
of a node in any order since they come out of a Go map, one `ApplyChange` one
`cp` or `RemoveAll`. `Target` and `CanCopy` are what `cp -ra src Dir(dest)` does:
copy into the directory, merge with what is there, take `Dir(dest)` as the name of
the copy if it does not exist, refuse to replace a directory by a file or the
reverse.

### Reconcile

`docker` is what docker's files say of a container, `hostCfg`, `v2` and `oci` are
iSulad's three files in the making, `copied` and `tmpfs` what the steps between
them put on the host. One `ApplyOpt` is one of the options `transform()` collects,
in their order. A Go map is a function; since the maps of annotations are omitted
from JSON when they are empty, an empty one is nil after it was read, and every
write to it is a panic (`NilAnnotations`, `NilOciAnnotations`, like
`NilRestartPolicy` for the pointer). A path on the host is a pair of who owns it
and its name. A cgroup path is the sequence of its parts, what lies between the
"/" of the string: the prefix and suffix tests of `v2ConfigWithCgroupParent` are
`InDockers` and `EndsWithID`, `TrimSuffix` is `DirOf`, and `Join` is what
`filepath.Join` makes of a directory that may be the empty string.

## Runs

| Run | Instance | Shows |
|---|---|---|
| `rollback` | 1 instance, 4 undo functions | the eight properties of `Rollback` in every interleaving |
| `rollback_close` | 1 instance, 2 functions | **violated**: after `close()` a cancel can still undo everything |
| `invocations` | 1 worker per process, both drivers, any number of processes | what a failure, a signal, a kill leave; that a success lasts and a calm retry succeeds |
| `invocations_refused` | the same | **violated**: a bundle that is not a transformed container is refused as one |
| `pipeline_storage` | 1 worker | **violated**: the rootfs stays if `config.v2.json` cannot be saved |
| `pipeline_ok` | 1 worker, devicemapper | **violated**: "success" for a container a signal has undone |
| `pipeline_exclusive` | 2 workers of one container | **violated**: both pass `PrepareBundleDir` |
| `transform` | 2 IDs or `--all`, 2 containers, 6 set-ups, channel of 1 | start, results, exit code, order of shutdown, and that the invocation ends |
| `transform_twice` | the same, one set-up | **violated**: two workers are told to transform one container |
| `devicemapper` | 5 paths on 3 levels, 2 contents | which changes are applied, and that the new rootfs equals docker's if the image has the directories they are in |
| `devicemapper_layer` | the same | **violated**: a directory the container added becomes a file |
| `reconcile` | 82944 docker containers | `config.json` agrees with `config.v2.json` and with the host; the cgroup; only incomplete containers panic |

Bounds, and why they are enough. Instances of `Rollback` share only the context
and the WaitGroup, so one instance shows every interleaving of owner and waiter;
the theorems cover any finite number. Four functions are one more than
`transform()` registers. In `Pipeline` the number of functions is the code's,
three, and the tmpfs can be mounted once per worker and once before
(`MaxMounts`). In `invocations` one worker per process is enough for one
container unless it is given twice (`pipeline_exclusive`); the number of
processes has no bound, since what they leave repeats. In `Transform` two IDs
with overlapping prefixes are the smallest number for which `matchID` races, and
a channel of one result is full when the second worker sends, as the channel of
128 is with more IDs. `Transform` is checked without undo functions (`MaxFuncs =
0`): the loop of `run()` is the subject of the `rollback` run and only adds
steps between the two places where the collector and the exit look at a waiter.
The safety properties were also checked with one function (2.7 million states),
which is too many for liveness. The six set-ups are the default, devicemapper
with `--all`, and one for each refusal. In `DeviceMapper` a node of the trie is
treated by whether something is beneath it and a copy by whether its directory
and that directory's parent exist: two branches of three levels under one root
have every combination, with two siblings whose order matters.
`MCDockerContainers` has values on both sides of each condition of
`reconcile.go` that a property depends on, in every combination: a cgroup path
in docker's directory, in one beneath it, in the user's, a relative one, one in
the root, one without the ID, and one of systemd's; and in either file the
user's own annotations under keys that iSulad writes too. It does not have
everything the code branches on: there is one set of devices and of device
rules, and the modes of the pid and network namespaces are equal, since no
property reads what becomes of them.

Fairness. `SignalReleasesWaiters` assumes only that the Go scheduler runs a
waiter that can run, and that the undo functions it calls return, which unmount,
remove a directory and call the image library: the owner may hang in an external
command for ever.
`Termination` of `Transform` assumes it of every goroutine, which includes that
the commands and libraries a worker calls return: `exec.Command(...).Run()` and
the C calls have no timeout in the code. `RetryCompletes` of `Invocations` assumes
that a process that lives takes steps (`WF` of `Work`) and nothing of other
invocations: the calm one itself has to succeed, provided the rollback before it
left neither bundle nor rootfs; what the image library answers when it has a
rootfs already is not known. No run assumes that a signal comes, that `select` is
fair, or that a transformation that is not calm succeeds.

What the violated runs mean is told in `findings`, with the line of the test,
comment or message that says otherwise. Most are consequences of four
decisions in the code: the signal is not passed on to `transform()`, `select` does
not prefer the close, marks are read and written in two steps, and a directory
that exists is taken for a container that was transformed.

Some properties have an exception in their statement because the code has one:
`FailureIsUndone` says what becomes of each part of the host. Two things stay
because no undo function is registered for them: the rootfs, if `config.v2.json`
cannot be saved (the subject of `pipeline_storage`), and docker's pause, which
nothing ever takes back. An undo function that fails is excused for its own part
only: if the tmpfs cannot be unmounted, the tmpfs and the directory it is in
stay, but the files in the bundle and the storage must still go.
`FailureIsUndone` and `SuccessIsComplete` are said of invocations without a
signal, since with one the owner and the waiter work against each other
(`pipeline_ok`). `MountIsReleased` and `RemovedUnmounted` except an unmount that
failed. `LateSignalIsAllOrNothing` says what remains true when the signal comes
after `close()`. `FilesAgree` does not say that the two files have the same
annotations: `reconcileOciConfig` adds those of `config.v2.json` to docker's and
removes none, so a key that only docker's `config.json` had survives there, for
instance a `log.console.file` beside the syslog driver, which writes none. It
says that such a key is unchanged and never one that iSulad decides for this
container. `LeavesDockersCgroup` excepts a user's cgroup in the root of the
hierarchy, which the code does not keep: of "/ID" the empty string is left
without the ID, and joined with it again the relative path "ID"
(`reconcile.go:57`, `205`; the test "user CgroupParent" of
`reconcile_test.go:103` does not try it). And `FilterKeepsLeaves` is about
reports that list a directory before what is in it.

## Proofs

Every safety and action property that a passing run checks is also proved, for
every value of the constants. Each proof module has an inductive invariant, one lemma per action or part of it,
and the theorems; TLC checked the invariant on the module's run first. The assumptions on the constants, which TLC evaluates on every run:

| Assumption | Says | Why the code justifies it |
|---|---|---|
| `RbsAssumption`, `WorkersAssumption` | the workers are a finite set | they are goroutines of one process |
| `MaxFuncsAssumption` | the number of undo functions is a natural | it is the length of a slice |
| `DriversAssumption` (`Pipeline`) | the drivers are among the two there are | `docker.go` knows no third |
| `LookupsAssumption`, `SetupsAssumption`, `CtrsAssumption`, `NamesAssumption` (`Transform`) | what may be chosen has its type; nobody is no container; the names include the ones the code itself uses | types |
| `RetCapAssumption` | the result channel has a buffer | `make(chan ..., 128)` |
| `PathsAssumption` | a finite set of sequences of names, with the root and every directory on the way | what is in a file system |
| `ContainersAssumption` (`Reconcile`) | `cgroupParent` is a path of at least one part, none of them empty, `.` or `..` beyond the first | docker joins it with `path.Join`, which cleans it |

One more hypothesis is stated in the theorems themselves. `OneWorker` says that
one goroutine of a process transforms the container. The code means that to be
so but does not ensure it (`transform_twice`, `pipeline_exclusive`), and with two the
rollback of one takes away what the other made: TLC finds `FailureIsUndone`
and `UnmountedBeforeRemoved` false then. `PriorBundleIsUntouched` and
`WorkersRollBack` need no such hypothesis.

### Rollback

| Theorem | Statement |
|---|---|
| `InductiveInvariant` | `Spec => []IInv` |
| `TypeCorrect` | `[]TypeOK`, with `wg` in `0..Cardinality(Rbs)` |
| `DoubleRunIsHarmless` | `[]DoubleRunAgrees` |
| `UnsignalledRollbackIsExact` | `[]UnsignalledIsExact` |
| `NoUndoIsLost` | `[]AbortUndoesRegistered` |
| `CrashNeedsTornRegister` | `[]CrashOnlyInTornRegister` |
| `WaitGroupCoversUndo` | `[]WaitCoversUndo` |
| `RunUndoesDownward` | `UndoesDownward`, an action property |
| `RollbackImplementsUndoLog` | every instance refines `UndoLog` |

The properties are not inductive: that both runs start from the same length says
nothing about why. `IInv` adds, for each instance, what the owner's slice is
(`SliceInv`: complete except between the two writes of an append), what a run has
done (`RunInv`: it has called exactly the functions above `idx` up to where it
started), what the owner's place says (`OwnerInv`: it starts a run only after
its last register, so at the full length; and if the waiter's run is there as well
it started there too or the owner's check would have stopped it), and what the
waiter's place says (`WaiterInv`: it runs only when cancelled and from at least
what was registered then). The heart is the step of the owner from its check to
its store: the owner stops if `executed` is set, so a waiter's run that the owner
does not see has not read the length yet, and when it does the length is final.

`RbStep` proves the per-instance invariant action by action, `Frame` being the
case of the other instances; `CrashStep` treats the only conjunct that speaks of
all instances. The WaitGroup is treated separately: `WgCounts` says that it is the
number of live waiters, and `FiniteSetTheorems` gives the counting. `LogSteps`,
`CallFacts` and `LenSeals` say what each step does to the undo log, and the
refinement follows from them.

### Pipeline and Invocations

| Theorem | Statement |
|---|---|
| `WorkersRollBack` (`PipelineProofs`) | `Spec` implements `Rollback`, and so `UndoLog`, for any number of workers |
| `InductiveInvariant` (`PipelineProofs`) | `OneWorker`: `Spec => []IInv` |
| `HostInvariant` | `OneWorker`: `SpecI => []HostInv`, through any number of processes |
| `TypeCorrect` | `[]TypeOK` |
| `FailedIsUndone` | `[]FailureIsUndone` |
| `SucceededIsComplete` | `[]SuccessIsComplete` |
| `LateSignal` | `[]LateSignalIsAllOrNothing` |
| `MountReleased` | `[]MountIsReleased` |
| `SuccessStays` | `[]SuccessIsForever` |
| `UnmountsFirst`, `RemovesUnmounted` | `UnmountedBeforeRemoved`, `RemovedUnmounted`, action properties |
| `PriorBundleIsUntouched` | `PriorBundleUntouched`, for any number of workers |

`PipelineProofs` takes the invariant of `Rollback` as it is, through an INSTANCE of
`RollbackProofs`: every step of `Pipeline` is one of the rollback or leaves it alone
(`RollbackNext`). Its own `IInv` ties the host to it. `Rank` numbers the steps, and
`Place` says that how far a worker got is how many functions are registered;
`Building` says what is on the host on the way up, `Unwinding` what is gone on the
way down after an error, `Dismantling` the same for the waiter after a late signal, `Built` what a
success is. `PausedInv` says that whoever is past the first step has left docker's
container paused. They start from any host (`prior`), not from an untouched one, so
`HostInvariant` needs only that a new process starts from the host the last
one left, and that a complete host has a bundle and is therefore refused at
`statBundle` (`StaysComplete`). `PriorInv` is that refusal alone: nobody gets past
`statBundle`, so nothing is registered and nothing can be undone.

### Transform

| Theorem | Statement |
|---|---|
| `InductiveInvariant` | `Spec => []IInv` |
| `TypeCorrect` | `[]TypeOK` |
| `WorkersRollBack` | `Spec` implements `Rollback`, and so `UndoLog` |
| `DriverReady` | `[]DriverIsReady` |
| `SkippedTakenOn`, `AllTakenOnce` | `[]SkippedIsTakenOn`, `[]AllTakesEachOnce` |
| `NeverSendsOnClosed`, `NoRollbackCutOff` | `[]NoSendOnClosed`, `[]ExitWaitsForRollback` |
| `EveryIDIsAnswered` | `[]ExitAnswersEveryID` |
| `NeverAddsAfterWait` | `NoAddAfterWait`, an action property |

For any finite set of IDs, any containers they match, any capacity of the channel
and any number of undo functions (the run has none). `Made` says what `start()` has
made by each phase, `WorkerInv` where a worker and its rollback instance are,
`MarkInv` that behind each mark is a worker that takes the container on. `ChanInv`
counts: results received and results in the channel are as many as were sent, and
each that was sent is in one of the two, so at the end each was received once.
`CloseInv` is the order of the two WaitGroups; that a WaitGroup at zero means no
waiter is left is `WgCounts` of `RollbackProofs`.

### DeviceMapper

| Theorem | Statement |
|---|---|
| `InductiveInvariant` | `Spec => []IInv` |
| `TypeCorrect` | `[]TypeOK`: the new rootfs is a tree at every moment |
| `KeepsLeaves` | `[]FilterKeepsLeaves` |
| `KeepsUnchanged` | `[]UnchangedSurvives` |
| `MigratesWhereItCan` | `[]MigratedWhereParentsExist` |

For any finite set of paths, so trees of any depth and breadth. `TrieExact` is what
the trie holds while it is built: the paths inserted so far, ignored exactly if
another is beneath. It needs that docker reports a directory before what is in
it. `FilterInv` is the breadth-first walk: no node of the queue is beneath another,
and a node is not yet visited exactly if it is beneath one of the queue; so
every node is visited once. `MigratedSoFar` is the copying: beneath a change
that is still to come the new rootfs is as the image, anywhere else as the
container. It holds in any order since no leaf is beneath another
(`LeavesApart`), and since what no leaf covers did not change (`NoLeafSame`).
`CopyKeepsUnchanged` shows why even a misplaced copy harms nothing unchanged: if the
directory of a change is not in the new rootfs, nothing unchanged is in it.

Induction on paths is replaced by two arguments that need no induction
theorem: the longest prefix of a path with a property (`LongestPrefix`), and a path
with the least beneath it, which is there since strict inclusion of finite
sets is well-founded (`LeafBeneath`).

### Reconcile

| Theorem | Statement |
|---|---|
| `InductiveInvariant` | `Spec => []IInv` |
| `TypeCorrect` | `[]TypeOK` |
| `TheFilesAgree` | `[]FilesAgree` |
| `MountSourcesExist` | `[]MountsAreThere` |
| `CgroupIsIsuladsOrUsers` | `[]LeavesDockersCgroup` |
| `OnlyIncompletePanics` | `[]CompleteDoesNotPanic` |

For any annotations, log options, mounts, devices and device rules. The
options still to be applied are always an end of one of four lists (`Suffixes`),
and which end says what `config.v2.json` has by then: the log settings agree with
the annotations once the log option is applied, and the options after it leave
them alone (`LogSame`). `PathsInv` is the same for the steps after the options.
What the cgroup properties need of paths is in four lemmas: a path is its
directory and its last part (`DirAndID`), only the root has the empty string for
a directory (`RootPath`), the default joined with the ID has iSulad's directory
for its first (`DefaultPath`), and a path with the ID that is not in docker's
directory does not begin with it either (`NotInDockers`).

### Only model-checked

The three liveness properties: `SignalReleasesWaiters`, `Termination` and
`RetryCompletes`. Liveness under fairness is out of the prover's reach. That the
seven violated properties are violated is shown by TLC's traces.

## Not modelled

File attributes, symbolic links and paths that change from file to directory or
back (`DeviceMapper`); time formats, the prefix of the name, state flags and
mount options, pointers other than `RestartPolicy` that might be nil, cgroup
paths that are not clean (`Reconcile`; it carries device rules, namespaces and
the user namespace mode through `reconcileOciConfig` and `reconcileHostConfig`,
but no property reads them); errors of `os.Stat` other than that nothing is
there, which `PrepareBundleDir` takes for that (`StatBundle` is exact); the
error return of `json.Marshal` on a value that has just been unmarshalled
(`docker.go:277-281`), which cannot happen and would return without a rollback,
as `retErr` is not set; what overlay2's one `cp` copies; logging and the texts
of messages (the refusal of a storage driver, `isulad.go:129`, prints the
runtime); the conversion to C strings, the callbacks of the image library and
what the two libraries do inside; the paths that the flags and the getters
compute; processes that run at the same time, and what a user or a reboot does
to the host between two invocations; vendored code; memory-model effects beyond
the torn append.

Three hazards have no property: an ID that is a prefix of several containers',
of which the repository does not say that it is refused (the model lets it match
any of them, and the properties hold whichever it is); `/dev/shm` of a container
that shares its IPC namespace, about which the repository promises nothing, and
a call that hangs after the one signal the handler takes, where nothing would
stop the process.

## Plan

1. For `DeviceMapper`, what a `TransformRWLayer` leaves where the directory of a
   leaf is not in the image (`devicemapper_layer`), stated exactly.
2. For `Startup`, the order of the steps as an action property.
3. For two workers of one container, what does remain true: which of them may
   take away what, and when.
