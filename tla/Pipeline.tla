------------------------------ MODULE Pipeline ------------------------------
(***************************************************************************)
(* dockerTransformer.transform(): the steps that turn one docker container *)
(* into an iSulad one, and what they leave on the host.  Every worker here *)
(* transforms the same container, as two do when Transform() is given its  *)
(* ID twice.  Each worker owns an instance of Rollback; the actions below  *)
(* are the owner's steps and the undo functions with their effect on the   *)
(* host.  Data is abstracted to what exists: a file is there or it is not. *)
(***************************************************************************)
EXTENDS Integers, FiniteSets

CONSTANTS
  Workers,          \* the goroutines that transform this container
  StorageDrivers    \* the storage drivers iSulad may be configured with

Drivers == {"overlay2", "devicemapper"}
ASSUME DriversAssumption == StorageDrivers \subseteq Drivers
ASSUME WorkersAssumption == IsFiniteSet(Workers)

\* The files of the bundle; hostconfig.json, config.v2.json, config.json,
\* "network" for hostname, hosts and resolv.conf, "lcr" for what lcr_create
\* writes.
Files == {"hostconfig", "v2config", "network", "ociconfig", "lcr"}
MaxMounts == 2      \* bound: mounts of the tmpfs, one per worker

Disks == [bundle  : BOOLEAN,       \* the bundle directory exists
          files   : SUBSET Files,
          shm     : 0..MaxMounts,  \* tmpfs mounts stacked on mounts/shm
          rootfs  : BOOLEAN,       \* iSulad's storage has a rootfs for it
          rw      : BOOLEAN,       \* and the read-write layer is copied there
          mounted : BOOLEAN,       \* and the image library has it mounted
          paused  : BOOLEAN]       \* the docker container is paused

Untouched == [bundle |-> FALSE, files |-> {}, shm |-> 0, rootfs |-> FALSE,
              rw |-> FALSE, mounted |-> FALSE, paused |-> FALSE]

VARIABLES
  cancelled, wg, executed, closed, closeCh, length, stored, retErr, pc, idx,
  crashed, from, called, atCancel,     \* those of Rollback
  driver,        \* the storage driver, fixed by iSulad's daemon.json
  disk,
  next,          \* next[w]: the step of transform() worker w executes next
  \* History, for the properties only.
  prior,         \* the disk the invocation started with
  failedAt,      \* failedAt[w]: the step whose error w returned, or "none"
  undoErr        \* the undo functions, and the umount, that failed themselves

rbVars == <<cancelled, wg, executed, closed, closeCh, length, stored, retErr,
            pc, idx, crashed, from, called, atCancel>>
given == <<driver, prior>>
vars == <<rbVars, given, disk, next, failedAt, undoErr>>

R == INSTANCE Rollback WITH Rbs <- Workers, MaxFuncs <- 3

\* The undo functions, in the order transform() registers them.  (Operators
\* with _ in their name are mutants: bugs a change could introduce, each shown
\* to break a property.)
UndoName_BundleLast == <<"storage", "shm", "bundle">>
UndoName == <<"bundle", "storage", "shm">>

\* Each step of transform() and the one after it.  "rwlayer" is overlay2's
\* copy; devicemapper mounts there, then copies and unmounts.
After ==
  [ pause       |-> "statBundle",  statBundle  |-> "mkBundle",
    mkBundle    |-> "regBundle",   regBundle   |-> "statHostCfg",
    statHostCfg |-> "saveHostCfg", saveHostCfg |-> "rootfs",
    rootfs      |-> "statV2Cfg",   statV2Cfg   |-> "saveV2Cfg",
    saveV2Cfg   |-> "regStorage",  regStorage  |-> "shm",
    shm         |-> "regShm",      regShm      |-> "network",
    network     |-> "statOciCfg",  statOciCfg  |-> "saveOciCfg",
    saveOciCfg  |-> "rwlayer",     rwlayer     |-> "lcr",
    umount      |-> "lcr",         lcr         |-> "end" ]
Steps == DOMAIN After \cup {"copy", "umountErr", "end"}

\* The file a step is about.
FileOf == [ statHostCfg |-> "hostconfig", saveHostCfg |-> "hostconfig",
            statV2Cfg   |-> "v2config",   saveV2Cfg   |-> "v2config",
            statOciCfg  |-> "ociconfig",  saveOciCfg  |-> "ociconfig",
            network     |-> "network" ]

TypeOK ==
  /\ R!TypeOK
  /\ driver \in StorageDrivers
  /\ {disk, prior} \subseteq Disks
  /\ next \in [Workers -> Steps]
  /\ failedAt \in [Workers -> Steps \cup {"none"}]
  /\ undoErr \subseteq {"bundle", "storage", "shm", "umount"}

\* A container iSulad knows nothing of, which its user may have paused.
Init ==
  /\ R!Init
  /\ next = [w \in Workers |-> "pause"]
  /\ failedAt = [w \in Workers |-> "none"]
  /\ undoErr = {}
  /\ driver \in StorageDrivers
  /\ \E paused \in BOOLEAN : disk = [Untouched EXCEPT !.paused = paused]
  /\ prior = disk

OnStep(w, step) == R!At(w, "owner", "open") /\ next[w] = step

\* The ways a step ends: another one follows, or its error is returned.
Goto(w, step) ==
  /\ next' = [next EXCEPT ![w] = step]
  /\ UNCHANGED <<rbVars, given, failedAt>>

Proceed(w) == Goto(w, After[next[w]]) /\ UNCHANGED undoErr

Leave(w, failed) ==
  /\ R!Leave(w, failed)
  /\ UNCHANGED <<next, given>>

Fail_ErrorShadowed(w) ==
  /\ Leave(w, FALSE)
  /\ failedAt' = [failedAt EXCEPT ![w] = next[w]]
  /\ UNCHANGED undoErr

Fail(w) ==
  /\ Leave(w, TRUE)
  /\ failedAt' = [failedAt EXCEPT ![w] = next[w]]
  /\ UNCHANGED undoErr
-----------------------------------------------------------------------------
(* The steps.                                                              *)

Pause_MustTake(w) ==
  /\ OnStep(w, "pause")
  /\ \/ ~disk.paused /\ disk' = [disk EXCEPT !.paused = TRUE] /\ Proceed(w)
     \/ \E took \in BOOLEAN :
          disk' = [disk EXCEPT !.paused = @ \/ took] /\ Fail(w)

\* "Already paused" is no error.  Any other fails the transformation although
\* the pause may have taken effect, as when the client times out.
Pause(w) ==
  /\ OnStep(w, "pause")
  /\ \/ disk' = [disk EXCEPT !.paused = TRUE] /\ Proceed(w)
     \/ \E took \in BOOLEAN :
          disk' = [disk EXCEPT !.paused = @ \/ took] /\ Fail(w)

StatBundle_Ignored(w) ==
  /\ OnStep(w, "statBundle")
  /\ Proceed(w)
  /\ UNCHANGED disk

StatBundle(w) ==
  /\ OnStep(w, "statBundle")
  /\ IF disk.bundle THEN Fail(w) ELSE Proceed(w)
  /\ UNCHANGED disk

MkBundle(w) ==
  /\ OnStep(w, "mkBundle")
  /\ \/ disk' = [disk EXCEPT !.bundle = TRUE] /\ Proceed(w)
     \/ UNCHANGED disk /\ Fail(w)

\* register(): the two writes of the append.
RegisterLen(w) ==
  /\ next[w] \in {"regBundle", "regStorage", "regShm"}
  /\ R!RegisterLen(w)
  /\ UNCHANGED <<disk, next, given, failedAt, undoErr>>

RegisterElem(w) ==
  /\ R!RegisterElem(w)
  /\ next' = [next EXCEPT ![w] = After[@]]
  /\ UNCHANGED <<disk, given, failedAt, undoErr>>

\* SaveConfig stats the path it is about to write.
StatPath(w) ==
  /\ IF FileOf[next[w]] \in disk.files THEN Fail(w) ELSE Proceed(w)
  /\ UNCHANGED disk

\* Docker's own file is read and converted first, and may be no good.
StatHostCfg(w) ==
  /\ OnStep(w, "statHostCfg")
  /\ StatPath(w) \/ (Fail(w) /\ UNCHANGED disk)

StatV2Cfg(w) ==
  /\ OnStep(w, "statV2Cfg")
  /\ StatPath(w)

StatOciCfg(w) ==
  /\ OnStep(w, "statOciCfg")
  /\ StatPath(w) \/ (Fail(w) /\ UNCHANGED disk)

\* A write needs the directory, and may fail after it created the file.
WriteFile(w) ==
  \/ /\ disk.bundle
     /\ disk' = [disk EXCEPT !.files = @ \cup {FileOf[next[w]]}]
     /\ Proceed(w) \/ Fail(w)
  \/ UNCHANGED disk /\ Fail(w)

SaveConfig(w) ==
  /\ \E s \in {"saveHostCfg", "saveV2Cfg", "saveOciCfg"} : OnStep(w, s)
  /\ WriteFile(w)

CopyNetworkFiles(w) ==
  /\ OnStep(w, "network")
  /\ WriteFile(w)

\* What iSulad's image library has done when it answers without an error.
SwitchOperation(op) ==
  CASE op = "Remove" -> [disk EXCEPT !.rootfs = FALSE, !.rw = FALSE,
                                     !.mounted = FALSE]
    [] op = "Mount"  -> [disk EXCEPT !.mounted = TRUE]
    [] op = "Umount" -> [disk EXCEPT !.mounted = FALSE]

PrepareRootfs == [disk EXCEPT !.rootfs = TRUE]

\* Fails too when docker's config.v2.json cannot be read or converted.  What
\* the image library does when there is a rootfs already is left open.
GenerateRootFs(w) ==
  /\ OnStep(w, "rootfs")
  /\ \/ disk' = PrepareRootfs /\ Proceed(w)
     \/ UNCHANGED disk /\ Fail(w)

\* MkdirAll makes the bundle directory again if it is gone.
PrepareShm(w) ==
  /\ OnStep(w, "shm")
  /\ \/ disk' = [disk EXCEPT !.bundle = TRUE, !.shm = @ + 1] /\ Proceed(w)
     \/ disk' = [disk EXCEPT !.bundle = TRUE] /\ Fail(w)
     \/ UNCHANGED disk /\ Fail(w)

\* overlay2: cp makes the layer's directory again if it is gone.  A copy that
\* fails leaves what it had copied.
CopyLayer(w) ==
  /\ driver = "overlay2" /\ OnStep(w, "rwlayer")
  /\ \/ disk' = [disk EXCEPT !.rw = TRUE] /\ (Proceed(w) \/ Fail(w))
     \/ UNCHANGED disk /\ Fail(w)

\* devicemapper: the rootfs is mounted, the changes are applied, and the
\* deferred function unmounts whether or not that succeeded.
MountRootFs(w) ==
  /\ driver = "devicemapper" /\ OnStep(w, "rwlayer")
  /\ \/ /\ disk.rootfs
        /\ disk' = SwitchOperation("Mount")
        /\ Goto(w, "copy") /\ UNCHANGED undoErr
     \/ UNCHANGED disk /\ Fail(w)

CopyChanges_NoDefer(w) ==
  /\ OnStep(w, "copy")
  /\ \E ok, some \in BOOLEAN :
       /\ ok => some
       /\ disk' = [disk EXCEPT !.rw = @ \/ (some /\ disk.mounted)]
       /\ IF ok THEN Goto(w, "umount") /\ UNCHANGED undoErr ELSE Fail(w)

CopyChanges(w) ==
  /\ OnStep(w, "copy")
  /\ \E ok, some \in BOOLEAN :
       /\ ok => some
       /\ disk' = [disk EXCEPT !.rw = @ \/ (some /\ disk.mounted)]
       /\ Goto(w, IF ok THEN "umount" ELSE "umountErr")
  /\ UNCHANGED undoErr

\* Its error is logged and changes nothing.
UmountRootFs ==
  \/ /\ disk.mounted
     /\ disk' = SwitchOperation("Umount")
     /\ UNCHANGED undoErr
  \/ UNCHANGED disk /\ undoErr' = undoErr \cup {"umount"}

Umount(w) ==
  /\ OnStep(w, "umount")
  /\ UmountRootFs
  /\ Goto(w, "lcr")

UmountAfterError(w) ==
  /\ OnStep(w, "umountErr")
  /\ UmountRootFs
  /\ Leave(w, TRUE)
  /\ failedAt' = [failedAt EXCEPT ![w] = "rwlayer"]

TransformRWLayer(w) ==
  CopyLayer(w) \/ MountRootFs(w) \/ CopyChanges(w) \/ Umount(w)
               \/ UmountAfterError(w)

\* What the lcr library does without the directory is left open.
LcrCreate(w) ==
  /\ OnStep(w, "lcr")
  /\ \/ /\ disk' = [disk EXCEPT !.bundle = TRUE, !.files = @ \cup {"lcr"}]
        /\ Proceed(w) \/ Fail(w)
     \/ UNCHANGED disk /\ Fail(w)

Succeed(w) ==
  /\ OnStep(w, "end")
  /\ Leave(w, FALSE)
  /\ UNCHANGED <<disk, failedAt, undoErr>>
-----------------------------------------------------------------------------
(* The undo functions.  They log their errors and return nothing.          *)

\* RemoveAll empties the directory but cannot remove a mount point.
RemoveBundle ==
  IF disk.shm = 0 THEN [disk EXCEPT !.bundle = FALSE, !.files = {}]
                  ELSE [disk EXCEPT !.files = {}]

\* What the image library does with a rootfs that is mounted is left open: see
\* Undo, which may always fail.
CleanupRootFs == IF disk.rootfs THEN SwitchOperation("Remove") ELSE disk

UnmountShm_Unchecked == [disk EXCEPT !.shm = @ - 1]
UnmountShm == IF disk.shm > 0 THEN [disk EXCEPT !.shm = @ - 1] ELSE disk

Effect(name) == CASE name = "bundle"  -> RemoveBundle
                  [] name = "storage" -> CleanupRootFs
                  [] name = "shm"     -> UnmountShm

\* They fail if what they are for is not there; the mount point that RemoveAll
\* cannot remove is a failure of the unmount.
Fails(name) == CASE name = "bundle"  -> FALSE
                 [] name = "storage" -> ~disk.rootfs
                 [] name = "shm"     -> disk.shm = 0

Undo(w, g) ==
  /\ R!RunCall(w, g)
  /\ LET name == UndoName[idx[w][g]] IN
       \/ /\ disk' = Effect(name)
          /\ undoErr' = undoErr \cup (IF Fails(name) THEN {name} ELSE {})
       \/ /\ UNCHANGED disk
          /\ undoErr' = undoErr \cup {name}
  /\ UNCHANGED <<next, given, failedAt>>
-----------------------------------------------------------------------------
\* The steps of Rollback that touch nothing else.
RollbackStep(w) ==
  /\ \/ R!Wait(w) \/ R!Close(w)
     \/ R!SelectCancel(w) \/ R!SelectClose(w) \/ R!WgDone(w)
     \/ \E g \in R!Goroutines :
          \/ R!RunCheck(w, g) \/ R!RunStore(w, g) \/ R!RunLen(w, g)
          \/ R!RunCallNil(w, g)
  /\ UNCHANGED <<disk, next, given, failedAt, undoErr>>

Transform(w) ==
  \/ Pause(w) \/ StatBundle(w) \/ MkBundle(w)
  \/ RegisterLen(w) \/ RegisterElem(w)
  \/ StatHostCfg(w) \/ StatV2Cfg(w) \/ StatOciCfg(w) \/ SaveConfig(w)
  \/ CopyNetworkFiles(w) \/ GenerateRootFs(w)
  \/ PrepareShm(w) \/ TransformRWLayer(w) \/ LcrCreate(w) \/ Succeed(w)

Next ==
  \/ R!Cancel /\ UNCHANGED <<disk, next, given, failedAt, undoErr>>
  \/ \E w \in Workers : \/ Transform(w)
                        \/ RollbackStep(w)
                        \/ \E g \in R!Goroutines : Undo(w, g)
  \/ R!Terminated /\ UNCHANGED vars

Spec == Init /\ [][Next]_vars
-----------------------------------------------------------------------------
Complete(d) == /\ d.bundle /\ d.files = Files /\ d.shm > 0
               /\ d.rootfs /\ d.rw

\* Nothing but what earlier invocations left is there.
BundleAsBefore == /\ disk.bundle = prior.bundle
                  /\ disk.files = prior.files
                  /\ disk.shm = prior.shm
StorageAsBefore == (disk.rootfs => prior.rootfs) /\ (disk.rw => prior.rw)

(* A failed transformation that no signal disturbs is undone, whatever     *)
(* step failed. An undo function that fails is only logged, and must cost  *)
(* its own part alone: without the unmount the tmpfs and the directory it  *)
(* is in stay, but no file does, and the storage is cleaned. Two things    *)
(* have no undo function and stay: the rootfs, when config.v2.json cannot  *)
(* be saved (docker.go:414-418), and docker's pause (docker.go:196).       *)
FailureIsUndone ==
  \A w \in Workers : (~cancelled /\ R!Finished /\ retErr[w]) =>
    /\ "shm" \in undoErr \/ disk.shm = prior.shm
    /\ "bundle" \in undoErr \/ disk.files = prior.files
    /\ {"bundle", "shm"} \cap undoErr = {} => disk.bundle = prior.bundle
    /\ \/ "storage" \in undoErr
       \/ failedAt[w] = "saveV2Cfg" /\ disk.rw = prior.rw
       \/ StorageAsBefore
    /\ prior.paused \/ failedAt[w] # "pause" => disk.paused

(* A transformation reported as a success, without a signal, is complete:  *)
(* every file, the mount, the rootfs and the layer are there.              *)
SuccessIsComplete ==
  \A w \in Workers :
    (~cancelled /\ R!OwnerDone(w) /\ ~retErr[w]) => Complete(disk)

(* A signal after the last step is all or nothing: the waiter, whichever   *)
(* case its select takes, leaves a complete container or none.             *)
LateSignalIsAllOrNothing ==
  \A w \in Workers :
    (atCancel[w].closed /\ R!Finished /\ ~retErr[w] /\ undoErr = {}) =>
      \/ Complete(disk)
      \/ BundleAsBefore /\ ~disk.rootfs /\ ~disk.rw

(* devicemapper.go:118: however transform() ends, and whatever a signal    *)
(* undoes in the meantime, it does not leave the rootfs mounted, unless    *)
(* the umount itself failed, which is only logged.                         *)
MountIsReleased ==
  \A w \in Workers :
    (R!OwnerDone(w) /\ "umount" \notin undoErr) =>
      (disk.mounted => prior.mounted)

(* A bundle an earlier invocation left, complete or not, is never written, *)
(* mounted over or removed, signal or not: the error precedes the first    *)
(* register().                                                             *)
PriorBundleUntouched ==
  [][prior.bundle => disk' = [disk EXCEPT !.paused = disk'.paused]]_vars

(* Without a signal the bundle is never emptied while this invocation's    *)
(* tmpfs is mounted in it, unless the unmount was tried and failed.        *)
UnmountedBeforeRemoved ==
  [][(~cancelled /\ disk.files # {} /\ disk'.files = {}) =>
       disk.shm = prior.shm \/ "shm" \in undoErr]_vars

(* A signal apart, the rootfs is never removed under a mount: the defer in *)
(* TransformRWLayer comes before the one in transform().                   *)
RemovedUnmounted ==
  [][(disk.mounted /\ disk.rootfs /\ ~disk'.rootfs) =>
       cancelled \/ prior.mounted \/ "umount" \in undoErr]_vars

(* transform/storage.go:34: Cleanup rolls back the image operation when    *)
(* the transformation fails.                                               *)
StorageCleanedOnFailure ==
  \A w \in Workers :
    (~cancelled /\ R!Finished /\ retErr[w] /\ undoErr = {}) => StorageAsBefore

(* transform/transformer.go:48: the result contains the success of the     *)
(* transformation.  Said here of every result, signal or not.              *)
OkMeansTransformed ==
  \A w \in Workers : (R!Finished /\ ~retErr[w]) => Complete(disk)

(* pkg/isulad/isulad.go:159: a container that is being transformed is      *)
(* refused, so two workers are never both past PrepareBundleDir.           *)
Owns(w) == /\ R!At(w, "owner", "open") \/ R!At(w, "owner", "torn")
           /\ next[w] \notin {"pause", "statBundle", "mkBundle"}
BundleIsExclusive ==
  \A w1, w2 \in Workers : (Owns(w1) /\ Owns(w2)) => w1 = w2
=============================================================================
