--------------------------- MODULE PipelineProofs ---------------------------
(***************************************************************************)
(* Proofs about Pipeline: what transform() leaves on the host, for every   *)
(* choice of storage drivers and every interleaving of the owner, the      *)
(* waiter and the signal.  Except where it says otherwise one worker       *)
(* transforms the container; the invariant starts from any host an earlier *)
(* invocation may have left, as Invocations needs it.                      *)
(***************************************************************************)
EXTENDS Pipeline, FiniteSetTheorems, TLAPS

\* The rollback part of the state is an instance of Rollback, and what is
\* proved of Rollback holds of it.
P == INSTANCE RollbackProofs WITH Rbs <- Workers, MaxFuncs <- 3

OneWorker == \E w : Workers = {w}

\* The steps in their order.
Rank ==
  [ pause       |-> 0,  statBundle  |-> 1,  mkBundle   |-> 2,
    regBundle   |-> 3,  statHostCfg |-> 4,  saveHostCfg |-> 5,
    rootfs      |-> 6,  statV2Cfg   |-> 7,  saveV2Cfg  |-> 8,
    regStorage  |-> 9,  shm         |-> 10, regShm     |-> 11,
    network     |-> 12, statOciCfg  |-> 13, saveOciCfg |-> 14,
    rwlayer     |-> 15, copy        |-> 16, umountErr  |-> 16,
    umount      |-> 17, lcr         |-> 18, end        |-> 19 ]
Past(w, step) == Rank[next[w]] > Rank[step]

SavedBy == [ hostconfig |-> "saveHostCfg", v2config |-> "saveV2Cfg",
             network |-> "network", ociconfig |-> "saveOciCfg",
             lcr |-> "lcr" ]

\* The files that were written by the steps so far.
Saved(w) == {f \in Files : Past(w, SavedBy[f])}

Registered(w) == IF ~Past(w, "regBundle")  THEN 0
            ELSE IF ~Past(w, "regStorage") THEN 1
            ELSE IF ~Past(w, "regShm")     THEN 2 ELSE 3

Owner(w) == pc[w]["owner"]
Forward(w) == Owner(w) \in {"new", "open", "torn"}

HostTyped ==
  /\ driver \in StorageDrivers
  /\ disk \in Disks /\ prior \in Disks
  /\ next \in [Workers -> Steps]
  /\ failedAt \in [Workers -> Steps \cup {"none"}]
  /\ undoErr \subseteq {"bundle", "storage", "shm", "umount"}

(* Files and mounts are in a bundle directory. *)
WellFormed(d) == ~d.bundle => d.files = {} /\ d.shm = 0

(* How far transform() got, and so how many undo functions there are.      *)
Place(w) ==
  /\ stored[w] = Registered(w)
  /\ Owner(w) = "new" => next[w] = "pause"
  /\ Owner(w) = "torn" => next[w] \in {"regBundle", "regStorage", "regShm"}
  /\ (Owner(w) \in {"exit", "done"} /\ ~retErr[w]) => next[w] = "end"
  /\ retErr[w] => /\ next[w] \notin {"regBundle", "regStorage", "regShm",
                                     "copy", "umount", "end"}
                  /\ failedAt[w] = IF next[w] = "umountErr" THEN "rwlayer"
                                                            ELSE next[w]
  /\ atCancel[w].closed => cancelled /\ Owner(w) = "done"

(* Nothing is touched before PrepareBundleDir found no bundle.             *)
Entry(w) ==
  /\ ~Past(w, "statBundle") => disk = [prior EXCEPT !.paused = disk.paused]
  /\ Past(w, "statBundle") => /\ ~prior.bundle
                              /\ disk.shm <= IF Past(w, "shm") THEN 1 ELSE 0

(* The rootfs is mounted only while the deferred umount is still to come.  *)
MountInv(w) ==
  disk.mounted => \/ prior.mounted
                  \/ "umount" \in undoErr
                  \/ /\ Owner(w) = "open"
                     /\ next[w] \in {"copy", "umount", "umountErr"}

(* No signal and no error so far: what the steps before have made is there.*)
Building(w) ==
  (~cancelled /\ Forward(w) /\ Past(w, "statBundle")) =>
    /\ disk.bundle = Past(w, "mkBundle")
    /\ disk.files = Saved(w)
    /\ disk.shm = IF Past(w, "shm") THEN 1 ELSE 0
    /\ disk.rootfs = (prior.rootfs \/ Past(w, "rootfs"))
    /\ ~Past(w, "rwlayer") => disk.rw = prior.rw
    /\ next[w] \in {"copy", "umount", "umountErr"} => disk.mounted
    /\ Past(w, "copy") => disk.rw

(* No signal and an error: what has been undone is gone, and what has no   *)
(* undo function was never made.                                           *)
Left(w) == IF Owner(w) \in {"check", "store", "len"} THEN length[w]
                                                     ELSE idx[w]["owner"]
NoBundle == ~disk.bundle /\ disk.files = {} /\ disk.shm = 0
Unwinding(w) ==
  (~cancelled /\ retErr[w] /\ Past(w, "statBundle")) =>
    /\ (stored[w] < 3 \/ Left(w) < 3) => disk.shm = 0 \/ "shm" \in undoErr
    /\ stored[w] < 2 =>
         /\ disk.rw = prior.rw
         /\ next[w] = "saveV2Cfg" \/ disk.rootfs = prior.rootfs
    /\ (stored[w] >= 2 /\ Left(w) < 2) =>
         (~disk.rootfs /\ ~disk.rw) \/ "storage" \in undoErr
    /\ stored[w] = 0 => NoBundle
    /\ (stored[w] >= 1 /\ Left(w) < 1) =>
         \/ "bundle" \in undoErr
         \/ disk.files = {} /\ (disk.shm = 0 => ~disk.bundle)

(* No signal and success. *)
Built(w) ==
  (~cancelled /\ ~retErr[w] /\ Owner(w) \in {"exit", "done"}) =>
    Complete(disk) /\ disk.shm = 1

(* A signal after the success: the waiter takes it apart from the top.     *)
Kept(w) == IF from[w]["waiter"] = R!NoRun THEN 3 ELSE idx[w]["waiter"]
Dismantling(w) ==
  (atCancel[w].closed /\ ~retErr[w] /\ undoErr = {}) =>
    /\ disk.bundle <=> Kept(w) >= 1
    /\ disk.files = IF Kept(w) >= 1 THEN Files ELSE {}
    /\ disk.rootfs <=> Kept(w) >= 2
    /\ disk.rw <=> Kept(w) >= 2
    /\ disk.shm = IF Kept(w) = 3 THEN 1 ELSE 0

WorkerInv(w) == /\ Place(w) /\ Entry(w) /\ MountInv(w) /\ Building(w)
                /\ Unwinding(w) /\ Built(w) /\ Dismantling(w)

IInv == /\ P!IInv
        /\ HostTyped
        /\ WellFormed(disk) /\ WellFormed(prior)
        /\ \A w \in Workers : WorkerInv(w)
-----------------------------------------------------------------------------
(* The rollback part.                                                      *)

LEMMA FiniteWorkers == P!IsFiniteSet(Workers)
  BY WorkersAssumption DEF IsFiniteSet, P!IsFiniteSet

LEMMA RollbackInit == ASSUME R!Init PROVE P!IInv
<1>1. P!Init
  BY DEF R!Init, P!Init, R!NoRun, P!NoRun, R!Goroutines, P!Goroutines
<1> QED
  BY <1>1, FiniteWorkers, P!InitInv

LEMMA RollbackNext == Next => P!Next \/ UNCHANGED P!vars
<1> USE DEF R!At, P!At, R!Goto, P!Goto, R!Goroutines, P!Goroutines
<1> SUFFICES ASSUME Next PROVE P!Next \/ UNCHANGED P!vars
  OBVIOUS
<1>1. CASE UNCHANGED rbVars
  BY <1>1 DEF rbVars, P!vars, P!progVars
<1>2. CASE R!Cancel
  BY <1>2 DEF R!Cancel, P!Cancel, P!Next
<1>3. ASSUME NEW w \in Workers, NEW failed \in BOOLEAN, R!Leave(w, failed)
      PROVE  P!Next
  BY <1>3 DEF R!Leave, P!Leave, P!Owner, P!Next
<1>4. ASSUME NEW w \in Workers, R!RegisterLen(w) PROVE P!Next
  BY <1>4 DEF R!RegisterLen, P!RegisterLen, P!Owner, P!Next
<1>5. ASSUME NEW w \in Workers, R!RegisterElem(w) PROVE P!Next
  BY <1>5 DEF R!RegisterElem, P!RegisterElem, P!Owner, P!Next
<1>6. ASSUME NEW w \in Workers, NEW g \in R!Goroutines, Undo(w, g)
      PROVE  P!Next
  BY <1>6 DEF Undo, R!RunCall, P!RunCall, R!NextCall, P!NextCall,
     P!Run, P!Owner, P!Waiter, P!Next
<1>7. ASSUME NEW w \in Workers, R!Wait(w) \/ R!Close(w) PROVE P!Next
  BY <1>7 DEF R!Wait, P!Wait, R!Close, P!Close, P!Owner, P!Next
<1>8. ASSUME NEW w \in Workers,
             R!SelectCancel(w) \/ R!SelectClose(w) \/ R!WgDone(w)
      PROVE  P!Next
  BY <1>8 DEF R!SelectCancel, P!SelectCancel, R!SelectClose, P!SelectClose,
     R!WgDone, P!WgDone, P!Waiter, P!Next
<1>9. ASSUME NEW w \in Workers, NEW g \in R!Goroutines, R!RunCheck(w, g)
      PROVE  P!Next
  BY <1>9 DEF R!RunCheck, P!RunCheck, R!MustNotRun, P!MustNotRun,
     P!Run, P!Owner, P!Waiter, P!Next
<1>10. ASSUME NEW w \in Workers, NEW g \in R!Goroutines, R!RunStore(w, g)
       PROVE  P!Next
  BY <1>10 DEF R!RunStore, P!RunStore, P!Run, P!Owner, P!Waiter, P!Next
<1>11. ASSUME NEW w \in Workers, NEW g \in R!Goroutines, R!RunLen(w, g)
       PROVE  P!Next
  BY <1>11 DEF R!RunLen, P!RunLen, R!FirstCall, P!FirstCall,
     P!Run, P!Owner, P!Waiter, P!Next
<1>12. ASSUME NEW w \in Workers, NEW g \in R!Goroutines, R!RunCallNil(w, g)
       PROVE  P!Next
  BY <1>12 DEF R!RunCallNil, P!RunCallNil, P!Run, P!Owner, P!Waiter, P!Next
<1>13. ASSUME NEW w \in Workers, Transform(w)
       PROVE  \/ UNCHANGED rbVars
              \/ \E failed \in BOOLEAN : R!Leave(w, failed)
              \/ R!RegisterLen(w) \/ R!RegisterElem(w)
  <2>0. PrepareShm(w) => Proceed(w) \/ Fail(w)
    BY Zenon DEF PrepareShm
  <2> USE DEF Proceed, Goto, Fail, Leave
  <2>1. CASE Pause(w) \/ StatBundle(w) \/ MkBundle(w)
    BY <2>1 DEF Pause, StatBundle, MkBundle
  <2>2. CASE RegisterLen(w) \/ RegisterElem(w)
    BY <2>2 DEF RegisterLen, RegisterElem
  <2>3. CASE StatHostCfg(w) \/ StatV2Cfg(w) \/ StatOciCfg(w)
    BY <2>3 DEF StatHostCfg, StatV2Cfg, StatOciCfg, StatPath
  <2>4. CASE SaveConfig(w) \/ CopyNetworkFiles(w)
    BY <2>4 DEF SaveConfig, CopyNetworkFiles, WriteFile
  <2>5. CASE GenerateRootFs(w)
    BY <2>5 DEF GenerateRootFs
  <2>5a. CASE PrepareShm(w)
    BY <2>0, <2>5a
  <2>5b. CASE LcrCreate(w)
    BY <2>5b DEF LcrCreate
  <2>6. CASE TransformRWLayer(w)
    BY <2>6 DEF TransformRWLayer, CopyLayer, MountRootFs, CopyChanges, Umount,
       UmountAfterError
  <2>7. CASE Succeed(w)
    BY <2>7 DEF Succeed
  <2> QED
    BY <1>13, <2>1, <2>2, <2>3, <2>4, <2>5, <2>5a, <2>5b, <2>6, <2>7
       DEF Transform
<1> HIDE DEF R!At, P!At, R!Goto, P!Goto, R!Goroutines, P!Goroutines
<1> QED
  BY <1>1, <1>2, <1>3, <1>4, <1>5, <1>6, <1>7, <1>8, <1>9, <1>10, <1>11,
     <1>12, <1>13 DEF Next, RollbackStep, vars

LEMMA RollbackStepInv ==
  ASSUME P!IInv, [Next]_vars PROVE P!IInv'
<1>1. P!Next \/ UNCHANGED P!vars
  BY RollbackNext DEF vars, rbVars, P!vars, P!progVars
<1> QED
  BY <1>1, FiniteWorkers, P!InvStep
-----------------------------------------------------------------------------
(* The host.                                                               *)

LEMMA FreshWorker ==
  ASSUME HostTyped, WellFormed(disk), prior = disk, NEW w \in Workers,
         Owner(w) = "new", next[w] = "pause", stored[w] = 0, ~retErr[w],
         ~atCancel[w].closed
  PROVE  WorkerInv(w)
<1>1. disk = [prior EXCEPT !.paused = disk.paused]
  BY DEF HostTyped, Disks
<1>2. \A step \in {"statBundle", "regBundle"} : ~Past(w, step)
  BY DEF Past, Rank
<1> QED
  BY <1>1, <1>2 DEF WorkerInv, Place, Entry, MountInv, Building, Unwinding,
     Built, Dismantling, Owner, Registered

LEMMA InitInv == ASSUME OneWorker, Init PROVE IInv
<1> USE DEF Init
<1>1. P!IInv
  BY RollbackInit
<1>2. HostTyped
  <2>1. disk \in Disks /\ prior \in Disks
    <3>1. Untouched \in Disks
      BY DEF Disks, Untouched, MaxMounts
    <3>2. PICK paused \in BOOLEAN : disk = [Untouched EXCEPT !.paused = paused]
      OBVIOUS
    <3> QED
      BY <3>1, <3>2 DEF Disks
  <2>2. next \in [Workers -> Steps]
    BY DEF Steps, After
  <2> QED
    BY <2>1, <2>2 DEF HostTyped
<1>3. WellFormed(disk) /\ prior = disk
  BY DEF WellFormed, Untouched
<1>4. ASSUME NEW w \in Workers PROVE WorkerInv(w)
  <2>1. /\ Owner(w) = "new" /\ next[w] = "pause" /\ stored[w] = 0
        /\ ~retErr[w] /\ ~atCancel[w].closed
    BY DEF R!Init, R!Goroutines, Owner
  <2> QED
    BY <1>2, <1>3, <2>1, FreshWorker
<1> QED
  BY <1>1, <1>2, <1>3, <1>4 DEF IInv

Labels == P!OwnerPC \cup P!WaiterPC

(* What is known of a worker that is inside transform(). *)
LEMMA OpenFacts ==
  ASSUME NEW w \in Workers, IInv, Owner(w) = "open"
  PROVE  /\ retErr \in [Workers -> BOOLEAN] /\ cancelled \in BOOLEAN
         /\ retErr[w] = FALSE /\ atCancel[w].closed = FALSE
         /\ length[w] = stored[w] /\ stored[w] = Registered(w)
         /\ stored[w] \in 0..3
         /\ pc \in [Workers -> [{"owner", "waiter"} -> Labels]]
         /\ next \in [Workers -> Steps]
         /\ failedAt \in [Workers -> Steps \cup {"none"}]
<1>1. P!Typed /\ P!RbInv(w) /\ Place(w) /\ HostTyped
  BY DEF IInv, P!IInv, WorkerInv
<1>2. /\ retErr \in [Workers -> BOOLEAN] /\ cancelled \in BOOLEAN
      /\ pc \in [Workers -> [{"owner", "waiter"} -> Labels]]
      /\ atCancel[w].closed \in BOOLEAN /\ stored[w] \in 0..3
  BY <1>1 DEF P!Typed, P!Goroutines, Labels
<1> QED
  BY <1>1, <1>2 DEF P!RbInv, P!OwnerInv, P!SliceInv, Place, Owner, HostTyped

(* A step that goes on with the next one. *)
LEMMA GotoWorker ==
  ASSUME NEW w \in Workers, IInv, Owner(w) = "open", NEW step \in Steps,
         Goto(w, step), Registered(w)' = Registered(w),
         Entry(w)', MountInv(w)', Building(w)'
  PROVE  WorkerInv(w)'
<1>1. /\ UNCHANGED <<pc, retErr, stored, length, cancelled, atCancel, failedAt>>
      /\ next'[w] = step
  BY OpenFacts DEF Goto, rbVars
<1>2. Place(w)'
  BY <1>1, OpenFacts DEF Place, Owner
<1>3. Unwinding(w)' /\ Built(w)' /\ Dismantling(w)'
  BY <1>1, OpenFacts DEF Unwinding, Built, Dismantling, Owner
<1> QED
  BY <1>2, <1>3 DEF WorkerInv

(* A step whose error is returned. *)
LEMMA FailWorker ==
  ASSUME NEW w \in Workers, IInv, Owner(w) = "open", Leave(w, TRUE),
         failedAt' = [failedAt EXCEPT ![w] =
                        IF next[w] = "umountErr" THEN "rwlayer" ELSE next[w]],
         next[w] \notin {"regBundle", "regStorage", "regShm", "copy",
                         "umount", "end"},
         Entry(w)', MountInv(w)',
         (~cancelled /\ Past(w, "statBundle")) =>
            /\ stored[w] < 3 => (disk.shm = 0)'
            /\ stored[w] < 2 =>
                 /\ (disk.rw = prior.rw)'
                 /\ next[w] = "saveV2Cfg" \/ (disk.rootfs = prior.rootfs)'
            /\ stored[w] = 0 => NoBundle'
  PROVE  WorkerInv(w)'
<1>1. /\ UNCHANGED <<stored, length, cancelled, atCancel, next, prior>>
      /\ retErr'[w] = TRUE /\ Owner(w)' = "check"
      /\ failedAt'[w] = IF next[w] = "umountErr" THEN "rwlayer" ELSE next[w]
  BY OpenFacts DEF Leave, R!Leave, R!Goto, Owner, given
<1>2. Place(w)'
  BY <1>1, OpenFacts DEF Place, Registered, Past
<1>3. Building(w)' /\ Built(w)' /\ Dismantling(w)'
  BY <1>1 DEF Building, Forward, Built, Dismantling
<1>4. Unwinding(w)'
  <2>1. Left(w)' = stored[w]
    BY <1>1, OpenFacts DEF Left
  <2>2. stored[w] \in 0..3
    BY OpenFacts
  <2>3. Past(w, "statBundle")' = Past(w, "statBundle")
    BY <1>1 DEF Past
  <2> QED
    BY <1>1, <2>1, <2>2, <2>3 DEF Unwinding
<1> QED
  BY <1>2, <1>3, <1>4 DEF WorkerInv

(* Once the first function is registered, a step that fails leaves its own *)
(* part of the host as the undo functions expect it.                       *)
LEMMA LateFail ==
  ASSUME NEW w \in Workers, IInv, Owner(w) = "open", Leave(w, TRUE),
         failedAt' = [failedAt EXCEPT ![w] =
                        IF next[w] = "umountErr" THEN "rwlayer" ELSE next[w]],
         Past(w, "regBundle"),
         next[w] \notin {"statV2Cfg", "regStorage", "regShm", "copy", "umount",
                         "end"},
         disk'.shm = disk.shm, disk'.rootfs = disk.rootfs,
         disk'.rw = disk.rw \/ Past(w, "regShm"),
         MountInv(w)'
  PROVE  WorkerInv(w)'
<1>1. /\ next[w] \in Steps
      /\ disk \in Disks /\ prior \in Disks /\ Entry(w) /\ Building(w)
  BY DEF IInv, HostTyped, WorkerInv
<1>2. UNCHANGED <<prior, next>>
  BY DEF Leave, given
<1>3. /\ Past(w, "statBundle") /\ Past(w, "mkBundle")
      /\ next[w] # "regBundle"
  BY <1>1 DEF Past, Rank, Steps, After
<1>4. Entry(w)'
  BY <1>1, <1>2, <1>3 DEF Entry, Past
<1>5. ASSUME ~cancelled
      PROVE  /\ stored[w] < 3 => disk'.shm = 0
             /\ stored[w] < 2 =>
                  /\ disk'.rw = prior.rw
                  /\ next[w] = "saveV2Cfg" \/ disk'.rootfs = prior.rootfs
             /\ stored[w] # 0
  <2>1. /\ disk.shm = IF Past(w, "shm") THEN 1 ELSE 0
        /\ disk.rootfs = (prior.rootfs \/ Past(w, "rootfs"))
        /\ ~Past(w, "rwlayer") => disk.rw = prior.rw
        /\ disk.rootfs \in BOOLEAN /\ prior.rootfs \in BOOLEAN
    BY <1>1, <1>3, <1>5 DEF Building, Forward, Disks
  <2>2. stored[w] = Registered(w)
    BY <1>1, OpenFacts
  <2> QED
    BY <1>1, <2>1, <2>2 DEF Registered, Past, Rank, Steps, After
<1> QED
  BY <1>2, <1>3, <1>4, <1>5, FailWorker

(* The steps that write a file. *)
LEMMA WriteStep ==
  ASSUME NEW w \in Workers, IInv, SaveConfig(w) \/ CopyNetworkFiles(w)
  PROVE  WorkerInv(w)'
<1> DEFINE new == FileOf[next[w]]
<1>1. /\ next[w] \in {"saveHostCfg", "saveV2Cfg", "network", "saveOciCfg"}
      /\ Owner(w) = "open" /\ WriteFile(w)
      /\ disk \in Disks /\ next \in [Workers -> Steps]
      /\ Entry(w) /\ MountInv(w) /\ Building(w)
  BY DEF SaveConfig, CopyNetworkFiles, OnStep, R!At, Owner, IInv, HostTyped,
     WorkerInv
<1>2. /\ UNCHANGED <<prior, cancelled, undoErr>>
      /\ disk' \in {disk, [disk EXCEPT !.files = @ \cup {new}]}
      /\ Proceed(w) \/ Fail(w)
  BY <1>1 DEF WriteFile, Proceed, Goto, Fail, Leave, R!Leave, given, rbVars
<1>3. /\ disk'.shm = disk.shm /\ disk'.rootfs = disk.rootfs
      /\ disk'.rw = disk.rw /\ disk'.mounted = disk.mounted
      /\ disk'.bundle = disk.bundle
      /\ disk.rw \in BOOLEAN
  BY <1>1, <1>2 DEF Disks
<1>4. Past(w, "statBundle") /\ Past(w, "mkBundle") /\ Past(w, "regBundle")
  BY <1>1 DEF Past, Rank
<1>5. CASE Proceed(w)
  <2>1. /\ next'[w] = After[next[w]] /\ Goto(w, After[next[w]])
        /\ After[next[w]] \in Steps
        /\ disk'.files = disk.files \cup {new}
    BY <1>1, <1>5 DEF Proceed, Goto, Steps, After, WriteFile, Disks, Fail,
       Leave, R!Leave, R!Goto, rbVars, Owner
  <2>2. Registered(w)' = Registered(w)
    BY <1>1, <2>1 DEF Registered, Past, Rank, After
  <2>3. Entry(w)'
    BY <1>1, <1>2, <1>3, <1>4, <2>1 DEF Entry, Past, Rank, After
  <2>4. MountInv(w)'
    BY <1>1, <1>2, <1>3, <2>1 DEF MountInv, Owner, Goto, rbVars
  <2>5. Building(w)'
    BY <1>1, <1>2, <1>3, <1>4, <2>1
       DEF Building, Forward, Past, Rank, After, Files, Saved, SavedBy, FileOf
  <2> QED
    BY <1>1, <2>1, <2>2, <2>3, <2>4, <2>5, GotoWorker
<1>6. CASE Fail(w)
  <2>1. MountInv(w)'
    BY <1>1, <1>2, <1>3 DEF MountInv
  <2>2. disk'.rw = disk.rw \/ Past(w, "regShm")
    BY <1>3
  <2> QED
    BY <1>1, <1>3, <1>4, <1>6, <2>1, <2>2, LateFail DEF Fail
<1> QED
  BY <1>2, <1>5, <1>6

(* The steps before the bundle directory is there. *)
LEMMA EntryStep ==
  ASSUME NEW w \in Workers, IInv, Pause(w) \/ StatBundle(w)
  PROVE  WorkerInv(w)'
<1>1. /\ next[w] \in {"pause", "statBundle"} /\ Owner(w) = "open"
      /\ disk \in Disks /\ prior \in Disks /\ next \in [Workers -> Steps]
      /\ Entry(w) /\ MountInv(w)
  BY DEF Pause, StatBundle, OnStep, R!At, Owner, IInv, HostTyped, WorkerInv
<1>2. /\ UNCHANGED <<prior, undoErr>>
      /\ disk' = [disk EXCEPT !.paused = disk'.paused]
      /\ Proceed(w) \/ Fail(w)
  <2>1. CASE Pause(w)
    BY <1>1, <2>1 DEF Pause, Proceed, Goto, Fail, Leave, R!Leave, given, Disks
  <2>2. CASE StatBundle(w)
    BY <1>1, <2>2 DEF StatBundle, Proceed, Goto, Fail, Leave, R!Leave, given,
       Disks
  <2> QED
    BY <2>1, <2>2
<1>3. ~Past(w, "statBundle")
  BY <1>1 DEF Past, Rank
<1>4. /\ disk' = [prior EXCEPT !.paused = disk'.paused]
      /\ disk'.mounted = disk.mounted /\ disk'.shm = disk.shm
      /\ disk.bundle = prior.bundle
  BY <1>1, <1>2, <1>3 DEF Entry, Disks
<1>5. CASE Proceed(w)
  <2>1. /\ next'[w] = After[next[w]] /\ Goto(w, After[next[w]])
        /\ After[next[w]] \in Steps
    BY <1>1, <1>5 DEF Proceed, Goto, Steps, After
  <2>2. Registered(w)' = Registered(w)
    BY <1>1, <2>1 DEF Registered, Past, Rank, After
  <2>3. MountInv(w)'
    BY <1>1, <1>2, <1>4, <2>1 DEF MountInv, Owner, Goto, rbVars
  <2>4. CASE Pause(w)
    <3>1. ~Past(w, "statBundle")'
      BY <2>1, <2>4 DEF Pause, OnStep, Past, Rank, After
    <3>2. Entry(w)' /\ Building(w)'
      BY <1>2, <1>4, <3>1 DEF Entry, Building
    <3> QED
      BY <1>1, <2>1, <2>2, <2>3, <3>2, GotoWorker
  <2>5. CASE StatBundle(w)
    <3>1. next[w] = "statBundle" /\ next'[w] = "mkBundle" /\ ~disk.bundle
          /\ disk' = disk
      BY <1>1, <1>5, <2>1, <2>5 DEF StatBundle, OnStep, After, Fail, Leave,
         R!Leave, R!Goto, Proceed, Goto, rbVars, Owner
    <3>2. Entry(w)' /\ Building(w)'
      <4>1. ~prior.bundle /\ disk.shm = 0 /\ disk.files = {}
            /\ disk.rootfs = prior.rootfs /\ disk.rw = prior.rw
        BY <1>1, <1>3, <3>1 DEF IInv, WellFormed, Entry, Disks
      <4> QED
        BY <1>1, <1>2, <3>1, <4>1
           DEF Entry, Building, Past, Rank, Saved, SavedBy, Files, Disks
    <3> QED
      BY <1>1, <2>1, <2>2, <2>3, <3>2, GotoWorker
  <2> QED
    BY <2>4, <2>5
<1>6. CASE Fail(w)
  <2>1. Entry(w)'
    BY <1>2, <1>3, <1>4, <1>6 DEF Entry, Past, Fail, Leave
  <2>2. MountInv(w)'
    BY <1>1, <1>2, <1>4 DEF MountInv
  <2> QED
    BY <1>1, <1>3, <1>6, <2>1, <2>2, FailWorker DEF Fail
<1> QED
  BY <1>2, <1>5, <1>6

LEMMA MkBundleStep ==
  ASSUME NEW w \in Workers, IInv, MkBundle(w) PROVE WorkerInv(w)'
<1>1. /\ next[w] = "mkBundle" /\ Owner(w) = "open"
      /\ disk \in Disks /\ prior \in Disks /\ next \in [Workers -> Steps]
      /\ Entry(w) /\ MountInv(w) /\ Building(w)
  BY DEF MkBundle, OnStep, R!At, Owner, IInv, HostTyped, WorkerInv
<1>2. /\ Past(w, "statBundle") /\ ~Past(w, "mkBundle")
      /\ ~prior.bundle /\ prior.files = {} /\ prior.shm = 0
  BY <1>1 DEF Past, Rank, Entry, IInv, WellFormed
<1>2a. ~cancelled =>
         /\ ~disk.bundle /\ disk.files = {} /\ disk.shm = 0
         /\ disk.rootfs = prior.rootfs /\ disk.rw = prior.rw
  <2> SUFFICES ASSUME ~cancelled
               PROVE  /\ ~disk.bundle /\ disk.files = {} /\ disk.shm = 0
                      /\ disk.rootfs = prior.rootfs /\ disk.rw = prior.rw
    OBVIOUS
  <2>1. /\ disk.bundle = Past(w, "mkBundle")
        /\ disk.files = Saved(w)
        /\ disk.shm = IF Past(w, "shm") THEN 1 ELSE 0
        /\ disk.rootfs = (prior.rootfs \/ Past(w, "rootfs"))
        /\ ~Past(w, "rwlayer") => disk.rw = prior.rw
        /\ disk.rootfs \in BOOLEAN /\ prior.rootfs \in BOOLEAN
    BY <1>1, <1>2 DEF Building, Forward, Disks
  <2>2. Saved(w) = {}
    BY <1>1 DEF Past, Rank, Saved, SavedBy, Files
  <2>3. \A s \in {"shm", "rootfs", "rwlayer"} : ~Past(w, s)
    BY <1>1 DEF Past, Rank
  <2> QED
    BY <1>2, <2>1, <2>2, <2>3
<1>3. CASE disk' = [disk EXCEPT !.bundle = TRUE] /\ Proceed(w)
  <2>1. /\ next'[w] = "regBundle" /\ Goto(w, "regBundle")
        /\ "regBundle" \in Steps
        /\ UNCHANGED <<prior, undoErr, cancelled>>
    BY <1>1, <1>3 DEF Proceed, Goto, Steps, After, given, rbVars
  <2>2. /\ disk'.bundle /\ disk'.files = disk.files /\ disk'.shm = disk.shm
        /\ disk'.rootfs = disk.rootfs /\ disk'.rw = disk.rw
        /\ disk'.mounted = disk.mounted
    BY <1>1, <1>3 DEF Disks
  <2>3. Registered(w)' = Registered(w)
    BY <1>1, <2>1 DEF Registered, Past, Rank
  <2>4. Entry(w)'
    BY <1>1, <1>2, <2>1, <2>2 DEF Entry, Past, Rank
  <2>5. MountInv(w)'
    BY <1>1, <2>1, <2>2 DEF MountInv, Owner, Goto, rbVars
  <2>6. Building(w)'
    <3>1. /\ Saved(w)' = {}
          /\ \A s \in {"shm", "rootfs", "rwlayer", "copy"} : ~Past(w, s)'
          /\ Past(w, "mkBundle")'
          /\ disk.rootfs \in BOOLEAN /\ prior.rootfs \in BOOLEAN
          /\ disk'.bundle = TRUE
      BY <1>1, <1>3, <2>1 DEF Past, Rank, Saved, SavedBy, Files, Disks
    <3> QED
      BY <1>2a, <2>1, <2>2, <3>1 DEF Building
  <2> QED
    BY <1>1, <2>1, <2>3, <2>4, <2>5, <2>6, GotoWorker
<1>4. CASE UNCHANGED disk /\ Fail(w)
  <2>1. Entry(w)'
    BY <1>1, <1>4 DEF Entry, Past, Fail, Leave, given
  <2>2. MountInv(w)'
    BY <1>1, <1>4 DEF MountInv, Fail, Leave, given
  <2> QED
    BY <1>1, <1>2, <1>2a, <1>4, <2>1, <2>2, FailWorker
       DEF Fail, Leave, given, NoBundle
<1> QED
  BY <1>3, <1>4 DEF MkBundle

(* SaveConfig's stat finds nothing: what could be there was just made.     *)
LEMMA StatStep ==
  ASSUME NEW w \in Workers, IInv,
         StatHostCfg(w) \/ StatV2Cfg(w) \/ StatOciCfg(w)
  PROVE  WorkerInv(w)'
<1>1. /\ next[w] \in {"statHostCfg", "statV2Cfg", "statOciCfg"}
      /\ Owner(w) = "open"
      /\ Proceed(w) \/ Fail(w)
      /\ disk' = disk
      /\ (next[w] = "statV2Cfg" /\ Fail(w)) => "v2config" \in disk.files
      /\ disk \in Disks /\ prior \in Disks /\ next \in [Workers -> Steps]
      /\ Entry(w) /\ MountInv(w) /\ Building(w)
  <2>1. ASSUME StatPath(w), next[w] = "statV2Cfg", Owner(w) = "open", Fail(w)
        PROVE  "v2config" \in disk.files
    <3>1. ~Proceed(w)
      BY <2>1, OpenFacts DEF Proceed, Goto, Fail, Leave, R!Leave, rbVars
    <3> QED
      BY <2>1, <3>1 DEF StatPath, FileOf
  <2> QED
    BY <2>1 DEF StatHostCfg, StatV2Cfg, StatOciCfg, StatPath, OnStep, R!At,
       Owner, IInv, HostTyped, WorkerInv
<1>2. /\ UNCHANGED <<prior, cancelled, undoErr>>
  BY <1>1 DEF Proceed, Goto, Fail, Leave, R!Leave, given, rbVars
<1>3. Past(w, "statBundle") /\ Past(w, "mkBundle") /\ Past(w, "regBundle")
  BY <1>1 DEF Past, Rank
<1>4. CASE Proceed(w)
  <2>1. /\ next'[w] = After[next[w]] /\ Goto(w, After[next[w]])
        /\ After[next[w]] \in Steps
    BY <1>1, <1>4 DEF Proceed, Goto, Steps, After
  <2>2. Registered(w)' = Registered(w)
    BY <1>1, <2>1 DEF Registered, Past, Rank, After
  <2>3. Entry(w)'
    BY <1>1, <1>2, <1>3, <2>1 DEF Entry, Past, Rank, After
  <2>4. MountInv(w)'
    BY <1>1, <1>2, <2>1 DEF MountInv, Owner, Goto, rbVars
  <2>5. Building(w)'
    BY <1>1, <1>2, <1>3, <2>1
       DEF Building, Forward, Past, Rank, After, Files, Saved, SavedBy
  <2> QED
    BY <1>1, <2>1, <2>2, <2>3, <2>4, <2>5, GotoWorker
<1>5. CASE Fail(w)
  <2>1. MountInv(w)'
    BY <1>1, <1>2 DEF MountInv
  <2>2. CASE next[w] # "statV2Cfg"
    BY <1>1, <1>3, <1>5, <2>1, <2>2, LateFail DEF Fail, Disks
  <2>3. CASE next[w] = "statV2Cfg"
    <3>1. cancelled
      <4>1. disk.files = Saved(w) \/ cancelled
        BY <1>1, <1>3 DEF Building, Forward
      <4>2. "v2config" \notin Saved(w)
        BY <2>3 DEF Past, Rank, Saved, SavedBy
      <4> QED
        BY <1>1, <1>5, <2>3, <4>1, <4>2
    <3>2. Entry(w)'
      BY <1>1, <1>2, <1>5 DEF Entry, Past, Fail, Leave
    <3> QED
      BY <1>1, <1>5, <2>1, <2>3, <3>1, <3>2, FailWorker DEF Fail
  <2> QED
    BY <2>2, <2>3
<1> QED
  BY <1>1, <1>4, <1>5

LEMMA RootFsStep ==
  ASSUME NEW w \in Workers, IInv, GenerateRootFs(w) PROVE WorkerInv(w)'
<1>1. /\ next[w] = "rootfs" /\ Owner(w) = "open"
      /\ disk \in Disks /\ prior \in Disks /\ next \in [Workers -> Steps]
      /\ Entry(w) /\ MountInv(w) /\ Building(w)
  BY DEF GenerateRootFs, OnStep, R!At, Owner, IInv, HostTyped, WorkerInv
<1>2. Past(w, "statBundle") /\ Past(w, "mkBundle") /\ Past(w, "regBundle")
  BY <1>1 DEF Past, Rank
<1>3. CASE disk' = PrepareRootfs /\ Proceed(w)
  <2>1. /\ next'[w] = "statV2Cfg" /\ Goto(w, "statV2Cfg")
        /\ "statV2Cfg" \in Steps
        /\ UNCHANGED <<prior, undoErr, cancelled>>
    BY <1>1, <1>3 DEF Proceed, Goto, Steps, After, given, rbVars
  <2>2. /\ disk'.bundle = disk.bundle /\ disk'.files = disk.files
        /\ disk'.shm = disk.shm /\ disk'.rootfs = TRUE
        /\ disk'.rw = disk.rw /\ disk'.mounted = disk.mounted
    BY <1>1, <1>3 DEF Disks, PrepareRootfs
  <2>3. Registered(w)' = Registered(w)
    BY <1>1, <2>1 DEF Registered, Past, Rank
  <2>4. Entry(w)'
    BY <1>1, <1>2, <2>1, <2>2 DEF Entry, Past, Rank
  <2>5. MountInv(w)'
    BY <1>1, <2>1, <2>2 DEF MountInv, Owner, Goto, rbVars
  <2>6. Building(w)'
    <3>1. /\ Saved(w)' = Saved(w)
          /\ Past(w, "mkBundle")' /\ ~Past(w, "rwlayer")'
          /\ ~Past(w, "copy")' /\ ~Past(w, "rwlayer")
          /\ Past(w, "shm")' <=> Past(w, "shm")
          /\ Past(w, "rootfs")'
      BY <1>1, <2>1 DEF Past, Rank, Saved, SavedBy, Files
    <3>2. Forward(w) /\ next'[w] \notin {"copy", "umount", "umountErr"}
      BY <1>1, <2>1 DEF Forward
    <3> QED
      BY <1>1, <1>2, <2>1, <2>2, <3>1, <3>2 DEF Building, Disks
  <2> QED
    BY <1>1, <2>1, <2>3, <2>4, <2>5, <2>6, GotoWorker
<1>4. CASE UNCHANGED disk /\ Fail(w)
  <2>1. MountInv(w)'
    BY <1>1, <1>4 DEF MountInv, Fail, Leave, given
  <2> QED
    BY <1>1, <1>2, <1>4, <2>1, LateFail DEF Fail, Disks
<1> QED
  BY <1>3, <1>4 DEF GenerateRootFs

LEMMA ShmStep ==
  ASSUME NEW w \in Workers, IInv, PrepareShm(w) PROVE WorkerInv(w)'
<1>1. /\ next[w] = "shm" /\ Owner(w) = "open"
      /\ disk \in Disks /\ prior \in Disks /\ next \in [Workers -> Steps]
      /\ Entry(w) /\ MountInv(w) /\ Building(w)
  BY DEF PrepareShm, OnStep, R!At, Owner, IInv, HostTyped, WorkerInv
<1>2. Past(w, "statBundle") /\ Past(w, "mkBundle") /\ Past(w, "regBundle")
  BY <1>1 DEF Past, Rank
<1>3. disk.shm = 0
  BY <1>1, <1>2 DEF Entry, Past, Rank, Disks, MaxMounts
<1>4. CASE disk' = [disk EXCEPT !.bundle = TRUE, !.shm = @ + 1] /\ Proceed(w)
  <2>1. /\ next'[w] = "regShm" /\ Goto(w, "regShm") /\ "regShm" \in Steps
        /\ UNCHANGED <<prior, undoErr, cancelled>>
    BY <1>1, <1>4 DEF Proceed, Goto, Steps, After, given, rbVars
  <2>2. /\ disk'.bundle = TRUE /\ disk'.files = disk.files
        /\ disk'.shm = 1 /\ disk'.rootfs = disk.rootfs
        /\ disk'.rw = disk.rw /\ disk'.mounted = disk.mounted
    BY <1>1, <1>3, <1>4 DEF Disks
  <2>3. Registered(w)' = Registered(w)
    BY <1>1, <2>1 DEF Registered, Past, Rank
  <2>4. Entry(w)'
    BY <1>1, <1>2, <2>1, <2>2 DEF Entry, Past, Rank
  <2>5. MountInv(w)'
    BY <1>1, <2>1, <2>2 DEF MountInv, Owner, Goto, rbVars
  <2>6. Building(w)'
    <3>1. /\ Saved(w)' = Saved(w)
          /\ Past(w, "mkBundle")' /\ ~Past(w, "rwlayer")'
          /\ ~Past(w, "copy")' /\ ~Past(w, "rwlayer")
          /\ Past(w, "shm")' <=> TRUE
          /\ Past(w, "rootfs")' /\ Past(w, "rootfs")
      BY <1>1, <2>1 DEF Past, Rank, Saved, SavedBy, Files
    <3>2. Forward(w) /\ next'[w] \notin {"copy", "umount", "umountErr"}
      BY <1>1, <2>1 DEF Forward
    <3> QED
      BY <1>1, <1>2, <2>1, <2>2, <3>1, <3>2 DEF Building, Disks
  <2> QED
    BY <1>1, <2>1, <2>3, <2>4, <2>5, <2>6, GotoWorker
<1>5. CASE disk' \in {disk, [disk EXCEPT !.bundle = TRUE]} /\ Fail(w)
  <2>1. /\ disk'.shm = disk.shm /\ disk'.rootfs = disk.rootfs
        /\ disk'.rw = disk.rw /\ disk'.mounted = disk.mounted
    BY <1>1, <1>5 DEF Disks
  <2>2. MountInv(w)'
    BY <1>1, <1>5, <2>1 DEF MountInv, Fail, Leave, given
  <2> QED
    BY <1>1, <1>2, <1>5, <2>1, <2>2, LateFail DEF Fail, Disks
<1> QED
  <2> USE <1>1 DEF Disks
  <2> QED
    BY <1>4, <1>5 DEF PrepareShm

(* The read-write layer: nothing but rw and the mount changes, and the     *)
(* place only moves on towards "lcr".                                      *)
LEMMA LayerGoto ==
  ASSUME NEW w \in Workers, IInv, Owner(w) = "open",
         next[w] \in {"rwlayer", "copy", "umount"},
         NEW step \in {"copy", "umount", "umountErr", "lcr"}, Goto(w, step),
         disk'.bundle = disk.bundle, disk'.files = disk.files,
         disk'.shm = disk.shm, disk'.rootfs = disk.rootfs,
         (~cancelled /\ step \in {"umount", "lcr"}) => disk'.rw = TRUE,
         (~cancelled /\ step # "lcr") => disk'.mounted = TRUE,
         MountInv(w)'
  PROVE  WorkerInv(w)'
<1>1. /\ disk \in Disks /\ prior \in Disks /\ next \in [Workers -> Steps]
      /\ Entry(w) /\ Building(w)
  BY DEF IInv, HostTyped, WorkerInv
<1>2. /\ next'[w] = step /\ step \in Steps
      /\ UNCHANGED <<prior, cancelled>>
  BY <1>1 DEF Goto, Steps, After, given, rbVars
<1>3. /\ Saved(w)' = Saved(w)
      /\ \A s \in {"statBundle", "mkBundle", "rootfs", "shm"} :
           Past(w, s) /\ Past(w, s)'
      /\ Past(w, "rwlayer")'
      /\ Past(w, "copy")' => step \in {"umount", "lcr"}
  BY <1>2 DEF Past, Rank, Saved, SavedBy, Files
<1>4. Registered(w)' = Registered(w)
  BY <1>2 DEF Registered, Past, Rank
<1>5. Entry(w)'
  BY <1>1, <1>2, <1>3 DEF Entry
<1>6. Building(w)'
  <2>1. Forward(w)
    BY DEF Forward
  <2> QED
    BY <1>1, <1>2, <1>3, <2>1 DEF Building, Disks
<1> QED
  BY <1>2, <1>4, <1>5, <1>6, GotoWorker

LEMMA LayerStep ==
  ASSUME NEW w \in Workers, IInv, TransformRWLayer(w) PROVE WorkerInv(w)'
<1>1. /\ disk \in Disks /\ prior \in Disks /\ next \in [Workers -> Steps]
      /\ Entry(w) /\ MountInv(w) /\ Building(w)
  BY DEF IInv, HostTyped, WorkerInv
<1>2. CASE CopyLayer(w)
  <2>1. /\ next[w] = "rwlayer" /\ Owner(w) = "open"
        /\ disk' \in {disk, [disk EXCEPT !.rw = TRUE]}
        /\ \/ Goto(w, "lcr") /\ UNCHANGED undoErr /\ disk'.rw = TRUE
           \/ Fail(w)
    BY <1>1, <1>2 DEF CopyLayer, OnStep, R!At, Owner, Proceed, After, Disks
  <2>2. /\ UNCHANGED <<prior, undoErr>>
        /\ disk'.bundle = disk.bundle /\ disk'.files = disk.files
        /\ disk'.shm = disk.shm /\ disk'.rootfs = disk.rootfs
        /\ disk'.mounted = disk.mounted
    BY <1>1, <2>1 DEF Goto, Fail, Leave, given, Disks
  <2>3. Past(w, "regBundle") /\ Past(w, "regShm")
    BY <2>1 DEF Past, Rank
  <2>4. MountInv(w)'
    BY <1>1, <2>1, <2>2 DEF MountInv
  <2> QED
    BY <2>1, <2>2, <2>3, <2>4, LayerGoto, LateFail DEF Fail
<1>3. CASE MountRootFs(w)
  <2>1. /\ next[w] = "rwlayer" /\ Owner(w) = "open"
        /\ \/ Goto(w, "copy") /\ disk' = [disk EXCEPT !.mounted = TRUE]
           \/ Fail(w) /\ disk' = disk
    BY <1>1, <1>3
       DEF MountRootFs, OnStep, R!At, Owner, SwitchOperation
  <2>2. /\ UNCHANGED prior
        /\ disk'.bundle = disk.bundle /\ disk'.files = disk.files
        /\ disk'.shm = disk.shm /\ disk'.rootfs = disk.rootfs
        /\ disk'.rw = disk.rw
    BY <1>1, <2>1 DEF Goto, Fail, Leave, given, Disks
  <2>2a. Past(w, "regBundle") /\ Past(w, "regShm")
    BY <2>1 DEF Past, Rank
  <2>3. CASE Goto(w, "copy") /\ disk' = [disk EXCEPT !.mounted = TRUE]
    <3>1. disk'.mounted = TRUE
      BY <1>1, <2>3 DEF Disks
    <3>2. MountInv(w)'
      BY <1>1, <2>1, <2>3 DEF MountInv, Owner, Goto, rbVars
    <3> QED
      BY <2>1, <2>2, <2>3, <3>1, <3>2, LayerGoto
  <2>4. CASE Fail(w) /\ disk' = disk
    <3>1. MountInv(w)'
      BY <1>1, <2>1, <2>4 DEF MountInv, Fail, Leave, given
    <3> QED
      BY <2>1, <2>2, <2>2a, <2>4, <3>1, LateFail DEF Fail
  <2> QED
    BY <2>1, <2>3, <2>4
<1>4. CASE CopyChanges(w)
  <2>1. PICK ok \in BOOLEAN, some \in BOOLEAN :
          /\ ok => some
          /\ disk' = [disk EXCEPT !.rw = @ \/ (some /\ disk.mounted)]
          /\ Goto(w, IF ok THEN "umount" ELSE "umountErr")
    BY <1>4 DEF CopyChanges
  <2>2. /\ next[w] = "copy" /\ Owner(w) = "open"
        /\ UNCHANGED <<prior, undoErr>>
    BY <1>4 DEF CopyChanges, OnStep, R!At, Owner, Goto, given
  <2>3. /\ disk'.bundle = disk.bundle /\ disk'.files = disk.files
        /\ disk'.shm = disk.shm /\ disk'.rootfs = disk.rootfs
        /\ disk'.rw = (disk.rw \/ (some /\ disk.mounted))
        /\ disk'.mounted = disk.mounted /\ disk.mounted \in BOOLEAN
    BY <1>1, <2>1 DEF Disks
  <2>4. ~cancelled => disk.mounted = TRUE
    <3>1. Past(w, "statBundle") /\ Forward(w)
      BY <2>2 DEF Past, Rank, Forward
    <3> QED
      BY <1>1, <2>2, <2>3, <3>1 DEF Building
  <2>5. MountInv(w)'
    BY <1>1, <2>1, <2>2, <2>3 DEF MountInv, Owner, Goto, rbVars
  <2> QED
    BY <2>1, <2>2, <2>3, <2>4, <2>5, LayerGoto
<1>5. UmountRootFs => /\ disk' \in {disk, [disk EXCEPT !.mounted = FALSE]}
                      /\ disk'.mounted => "umount" \in undoErr'
                      /\ disk'.bundle = disk.bundle
                      /\ disk'.files = disk.files
                      /\ disk'.shm = disk.shm /\ disk'.rootfs = disk.rootfs
                      /\ disk'.rw = disk.rw /\ disk.rw \in BOOLEAN
  BY <1>1 DEF UmountRootFs, SwitchOperation, Disks
<1>6. CASE Umount(w)
  <2>1. next[w] = "umount" /\ Owner(w) = "open" /\ Goto(w, "lcr")
    BY <1>6 DEF Umount, OnStep, R!At, Owner
  <2>2. ~cancelled => disk.rw = TRUE
    <3>1. Past(w, "statBundle") /\ Past(w, "copy") /\ Forward(w)
      BY <2>1 DEF Past, Rank, Forward
    <3> QED
      BY <1>1, <1>5, <1>6, <3>1 DEF Building, Umount
  <2>3. MountInv(w)'
    BY <1>5, <1>6 DEF MountInv, Umount
  <2> QED
    BY <1>5, <1>6, <2>1, <2>2, <2>3, LayerGoto DEF Umount
<1>7. CASE UmountAfterError(w)
  <2>1. /\ next[w] = "umountErr" /\ Owner(w) = "open"
        /\ Past(w, "regBundle") /\ Past(w, "regShm")
    BY <1>7 DEF UmountAfterError, OnStep, R!At, Owner, Past, Rank
  <2>2. MountInv(w)'
    BY <1>5, <1>7 DEF MountInv, UmountAfterError
  <2> QED
    BY <1>5, <1>7, <2>1, <2>2, LateFail DEF UmountAfterError
<1> QED
  BY <1>2, <1>3, <1>4, <1>6, <1>7 DEF TransformRWLayer

LEMMA LcrStep ==
  ASSUME NEW w \in Workers, IInv, LcrCreate(w) PROVE WorkerInv(w)'
<1>1. /\ next[w] = "lcr" /\ Owner(w) = "open"
      /\ disk \in Disks /\ prior \in Disks /\ next \in [Workers -> Steps]
      /\ Entry(w) /\ MountInv(w) /\ Building(w)
  BY DEF LcrCreate, OnStep, R!At, Owner, IInv, HostTyped, WorkerInv
<1>2. /\ \A s \in {"statBundle", "mkBundle", "regBundle", "rootfs", "shm"} :
           Past(w, s)
      /\ Past(w, "regShm") /\ Past(w, "copy")
      /\ Saved(w) = Files \ {"lcr"}
  BY <1>1 DEF Past, Rank, Saved, SavedBy, Files
<1>3. /\ \/ disk' = [disk EXCEPT !.bundle = TRUE, !.files = @ \cup {"lcr"}]
         \/ Fail(w) /\ disk' = disk
      /\ Proceed(w) \/ Fail(w)
  BY <1>1 DEF LcrCreate
<1>4. /\ UNCHANGED <<prior, cancelled, undoErr>>
      /\ disk'.shm = disk.shm /\ disk'.rootfs = disk.rootfs
      /\ disk'.rw = disk.rw /\ disk'.mounted = disk.mounted
  BY <1>1, <1>3 DEF Proceed, Goto, Fail, Leave, R!Leave, given, rbVars, Disks
<1>5. CASE Fail(w)
  <2>1. MountInv(w)'
    BY <1>1, <1>4 DEF MountInv
  <2> QED
    BY <1>1, <1>2, <1>4, <1>5, <2>1, LateFail DEF Fail
<1>6. CASE ~Fail(w)
  <2>0. disk'.bundle = TRUE /\ disk'.files = disk.files \cup {"lcr"}
    BY <1>1, <1>3, <1>6 DEF Disks
  <2>1. next'[w] = "end" /\ Goto(w, "end") /\ "end" \in Steps
    BY <1>1, <1>3, <1>6 DEF Proceed, Goto, Steps, After
  <2>2. Registered(w)' = Registered(w)
    BY <1>1, <2>1 DEF Registered, Past, Rank
  <2>3. /\ \A s \in {"statBundle", "mkBundle", "rootfs", "shm", "rwlayer",
                     "copy"} : Past(w, s)'
        /\ Saved(w)' = Files
    BY <2>1 DEF Past, Rank, Saved, SavedBy, Files
  <2>4. Entry(w)'
    BY <1>1, <1>2, <1>4, <2>3 DEF Entry
  <2>5. MountInv(w)'
    BY <1>1, <1>4, <2>1 DEF MountInv, Owner, Goto, rbVars
  <2>6. Building(w)'
    <3>1. Forward(w)
      BY <1>1 DEF Forward
    <3>2. Saved(w) \cup {"lcr"} = Files
      BY <1>2 DEF Files
    <3> QED
      BY <1>1, <1>2, <1>4, <2>0, <2>1, <2>3, <3>1, <3>2
         DEF Building, Disks
  <2> QED
    BY <1>1, <2>1, <2>2, <2>4, <2>5, <2>6, GotoWorker
<1> QED
  BY <1>5, <1>6

LEMMA SucceedStep ==
  ASSUME NEW w \in Workers, IInv, Succeed(w) PROVE WorkerInv(w)'
<1>1. /\ next[w] = "end" /\ Owner(w) = "open"
      /\ disk \in Disks /\ prior \in Disks
      /\ Entry(w) /\ MountInv(w) /\ Building(w) /\ Place(w)
  BY DEF Succeed, OnStep, R!At, Owner, IInv, HostTyped, WorkerInv
<1>2. /\ UNCHANGED <<disk, prior, cancelled, undoErr, next, failedAt, stored,
                     atCancel>>
      /\ Owner(w)' = "exit" /\ retErr'[w] = FALSE
  BY <1>1, OpenFacts DEF Succeed, Leave, R!Leave, R!Goto, given, Owner
<1>3. Place(w)' /\ Entry(w)'
  BY <1>1, <1>2, OpenFacts DEF Place, Entry, Registered, Past
<1>4. MountInv(w)'
  BY <1>1, <1>2 DEF MountInv
<1>5. Building(w)' /\ Unwinding(w)' /\ Dismantling(w)'
  BY <1>2, OpenFacts, <1>1 DEF Building, Forward, Unwinding, Dismantling
<1>6. Built(w)'
  <2>1. /\ \A s \in {"statBundle", "mkBundle", "rootfs", "shm", "copy"} :
             Past(w, s)
        /\ Saved(w) = Files
        /\ Forward(w)
    BY <1>1 DEF Past, Rank, Saved, SavedBy, Files, Forward
  <2>3. CASE ~cancelled
    <3>1. /\ disk.bundle /\ disk.rootfs /\ disk.rw
          /\ disk.files = Files /\ disk.shm = 1
      BY <1>1, <2>1, <2>3 DEF Building, Disks
    <3> QED
      BY <1>2, <3>1 DEF Built, Complete
  <2> QED
    BY <1>2, <2>3 DEF Built
<1> QED
  BY <1>3, <1>4, <1>5, <1>6 DEF WorkerInv

(* Steps of Rollback alone.  They change nothing the invariant speaks of,  *)
(* or move the owner on its way out.                                       *)
LEMMA WorkerFrame ==
  ASSUME NEW w \in Workers, WorkerInv(w), Owner(w)' = Owner(w),
         UNCHANGED <<disk, prior, undoErr, cancelled>>,
         UNCHANGED <<next[w], failedAt[w], stored[w], length[w], retErr[w],
                     atCancel[w], idx[w]["owner"]>>,
         Dismantling(w)'
  PROVE  WorkerInv(w)'
<1>1. \A s : Past(w, s)' <=> Past(w, s)
  BY DEF Past
<1>2. Place(w)'
  BY <1>1 DEF WorkerInv, Place, Registered
<1>3. Entry(w)' /\ MountInv(w)'
  BY <1>1 DEF WorkerInv, Entry, MountInv
<1>4. Building(w)'
  <2>1. Saved(w)' = Saved(w)
    BY <1>1 DEF Saved
  <2>2. /\ Past(w, "statBundle")' = Past(w, "statBundle")
        /\ Past(w, "mkBundle")' = Past(w, "mkBundle")
        /\ Past(w, "shm")' = Past(w, "shm")
        /\ Past(w, "rootfs")' = Past(w, "rootfs")
        /\ Past(w, "rwlayer")' = Past(w, "rwlayer")
        /\ Past(w, "copy")' = Past(w, "copy")
    BY DEF Past
  <2>3. Building(w) /\ Forward(w)' = Forward(w)
    BY DEF WorkerInv, Forward
  <2> QED
    BY <2>1, <2>2, <2>3 DEF Building
<1>5. Unwinding(w)' /\ Built(w)'
  <2>1. Left(w)' = Left(w)
    BY DEF Left
  <2> QED
    BY <1>1, <2>1 DEF WorkerInv, Unwinding, NoBundle, Built, Complete
<1> QED
  BY <1>2, <1>3, <1>4, <1>5 DEF WorkerInv

LEMMA OwnerLeaves ==
  ASSUME NEW w \in Workers, WorkerInv(w), Place(w)',
         Owner(w) \in {"check", "store", "len", "loop", "exit"},
         Owner(w)' \in {"store", "len", "loop", "exit", "done"},
         retErr[w] \/ Owner(w) = "exit",
         UNCHANGED <<disk, prior, undoErr, cancelled>>,
         UNCHANGED <<next[w], stored[w], retErr[w], atCancel[w]>>,
         ~cancelled /\ retErr[w] => Left(w)' = Left(w)
  PROVE  WorkerInv(w)'
<1>1. \A s : Past(w, s)' <=> Past(w, s)
  BY DEF Past
<1>2. Entry(w)' /\ MountInv(w)'
  BY <1>1 DEF WorkerInv, Entry, MountInv
<1>3. Building(w)' /\ Dismantling(w)'
  BY DEF Building, Forward, WorkerInv, Place, Dismantling
<1>4. Unwinding(w)' /\ Built(w)'
  BY <1>1 DEF WorkerInv, Unwinding, NoBundle, Built, Complete
<1> QED
  BY <1>2, <1>3, <1>4 DEF WorkerInv

(* What the invariant of Rollback says here of one worker. *)
LEMMA RollbackFacts ==
  ASSUME NEW w \in Workers, IInv
  PROVE  /\ P!SliceInv(w) /\ P!OwnerInv(w) /\ P!WaiterInv(w)
         /\ \A g \in {"owner", "waiter"} : P!RunInv(w, g)
         /\ cancelled \in BOOLEAN
         /\ length \in [Workers -> 0..3] /\ stored \in [Workers -> 0..3]
         /\ retErr \in [Workers -> BOOLEAN]
         /\ pc \in [Workers -> [{"owner", "waiter"} -> Labels]]
         /\ idx \in [Workers -> [{"owner", "waiter"} -> 0..3]]
         /\ from \in [Workers -> [{"owner", "waiter"} -> {-1} \cup 0..3]]
         /\ next \in [Workers -> Steps]
         /\ disk \in Disks /\ prior \in Disks
         /\ WorkerInv(w) /\ Place(w)
<1>1. P!Typed /\ P!RbInv(w) /\ HostTyped /\ WorkerInv(w) /\ Place(w)
  BY DEF IInv, P!IInv, WorkerInv
<1>2. /\ P!SliceInv(w) /\ P!OwnerInv(w) /\ P!WaiterInv(w)
      /\ \A g \in {"owner", "waiter"} : P!RunInv(w, g)
  BY <1>1 DEF P!RbInv, P!Goroutines
<1> QED
  BY <1>1, <1>2 DEF P!Typed, P!Goroutines, P!NoRun, Labels, HostTyped

LEMMA WaitStep ==
  ASSUME NEW w \in Workers, IInv, R!Wait(w),
         UNCHANGED <<disk, next, given, failedAt, undoErr>>
  PROVE  WorkerInv(w)'
<1>1. /\ Owner(w) = "new" /\ Owner(w)' = "open" /\ retErr[w] = FALSE
      /\ next[w] = "pause" /\ atCancel[w].closed = FALSE
      /\ UNCHANGED <<disk, prior, undoErr, cancelled, next, failedAt, stored,
                     retErr, atCancel>>
  <2>1. atCancel[w].closed \in BOOLEAN
    BY DEF IInv, P!IInv, P!Typed
  <2> QED
    BY <2>1, RollbackFacts DEF R!Wait, R!At, Owner, given, Place, P!OwnerInv
<1>2. ~Past(w, "statBundle") /\ ~Past(w, "statBundle")'
  BY <1>1 DEF Past, Rank
<1>3. Place(w)' /\ Entry(w)'
  BY <1>1, <1>2, RollbackFacts
     DEF Place, Entry, Registered, Past, WorkerInv
<1>4. MountInv(w)'
  BY <1>1, RollbackFacts DEF MountInv, WorkerInv
<1> QED
  BY <1>1, <1>2, <1>3, <1>4
     DEF WorkerInv, Building, Unwinding, Built, Dismantling

LEMMA RegisterStep ==
  ASSUME NEW w \in Workers, IInv, RegisterLen(w) \/ RegisterElem(w)
  PROVE  WorkerInv(w)'
<1>1. /\ retErr[w] = FALSE /\ atCancel[w].closed = FALSE
      /\ Owner(w) \in {"open", "torn"} /\ Owner(w)' \in {"open", "torn"}
      /\ next[w] \in {"regBundle", "regStorage", "regShm"}
      /\ UNCHANGED <<disk, prior, undoErr, cancelled, retErr, atCancel>>
  <2>1. atCancel[w].closed \in BOOLEAN
    BY DEF IInv, P!IInv, P!Typed
  <2>2. CASE RegisterLen(w)
    BY <2>1, <2>2, RollbackFacts DEF RegisterLen, R!RegisterLen, R!At, R!Goto,
       Owner, given, Place, P!OwnerInv
  <2>3. CASE RegisterElem(w)
    BY <2>1, <2>3, RollbackFacts DEF RegisterElem, R!RegisterElem, R!At,
       R!Goto, Owner, given, Place, P!OwnerInv
  <2> QED
    BY <2>2, <2>3
<1>2. /\ next'[w] \in Steps
      /\ \A f \in Files : Past(w, SavedBy[f])' <=> Past(w, SavedBy[f])
      /\ Past(w, "statBundle")' = Past(w, "statBundle")
      /\ Past(w, "mkBundle")' = Past(w, "mkBundle")
      /\ Past(w, "shm")' = Past(w, "shm")
      /\ Past(w, "rootfs")' = Past(w, "rootfs")
      /\ Past(w, "rwlayer")' = Past(w, "rwlayer")
      /\ Past(w, "copy")' = Past(w, "copy")
      /\ next'[w] \notin {"copy", "umount", "umountErr"}
  <2>1. next'[w] \in {next[w], After[next[w]]}
    BY <1>1, RollbackFacts DEF RegisterLen, RegisterElem
  <2>2. \A f \in Files : SavedBy[f] \in {"saveHostCfg", "saveV2Cfg", "network",
                                          "saveOciCfg", "lcr"}
    BY DEF Files, SavedBy
  <2>3. \A s \in {"statBundle", "mkBundle", "rootfs", "shm", "rwlayer", "copy",
                  "saveHostCfg", "saveV2Cfg", "network", "saveOciCfg", "lcr"} :
           Past(w, s)' = Past(w, s)
    BY <1>1, <2>1 DEF Past, Rank, After
  <2> QED
    BY <1>1, <2>1, <2>2, <2>3 DEF Steps, After
<1>3. Place(w)'
  <2>1. CASE RegisterLen(w)
    BY <1>1, <2>1, RollbackFacts
       DEF RegisterLen, R!RegisterLen, Place, Registered, Past
  <2>2. CASE RegisterElem(w)
    <3>1. /\ next'[w] = After[next[w]] /\ stored'[w] = stored[w] + 1
          /\ Owner(w)' = "open"
      BY <2>2, RollbackFacts DEF RegisterElem, R!RegisterElem, R!At, R!Goto,
         P!SliceInv, Owner
    <3>2. stored'[w] = Registered(w)'
      BY <1>1, <3>1, RollbackFacts DEF Registered, Past, Rank, After, Place
    <3> QED
      BY <1>1, <3>1, <3>2 DEF Place
  <2> QED
    BY <2>1, <2>2
<1>4. Entry(w)' /\ MountInv(w)'
  BY <1>1, <1>2, RollbackFacts DEF Entry, MountInv, WorkerInv
<1>5. Building(w)'
  <2>1. Saved(w)' = Saved(w)
    BY <1>2 DEF Saved
  <2>2. Building(w) /\ (Forward(w)' => Forward(w))
    BY <1>1, RollbackFacts DEF WorkerInv, Forward
  <2> QED
    BY <1>1, <1>2, <2>1, <2>2 DEF Building
<1> QED
  BY <1>1, <1>3, <1>4, <1>5
     DEF WorkerInv, Unwinding, Built, Dismantling

LEMMA CloseStep ==
  ASSUME NEW w \in Workers, IInv, R!Close(w),
         UNCHANGED <<disk, next, given, failedAt, undoErr>>
  PROVE  WorkerInv(w)'
<1>1. /\ Owner(w) = "exit" /\ Owner(w)' = "done"
      /\ UNCHANGED <<prior, cancelled, stored, retErr, atCancel, idx>>
  BY RollbackFacts DEF R!Close, R!At, R!Goto, Owner, given
<1>2. Place(w)'
  BY <1>1, RollbackFacts DEF Place, Registered, Past
<1>3. Left(w)' = Left(w)
  BY <1>1 DEF Left
<1> QED
  BY <1>1, <1>2, <1>3, RollbackFacts, OwnerLeaves

LEMMA CancelStep ==
  ASSUME NEW w \in Workers, IInv, R!Cancel,
         UNCHANGED <<disk, next, given, failedAt, undoErr>>
  PROVE  WorkerInv(w)'
<1>1. /\ cancelled' /\ ~cancelled
      /\ atCancel'[w].closed = (Owner(w) = "done")
      /\ UNCHANGED <<prior, pc, stored, retErr, idx, from>>
  BY DEF R!Cancel, Owner, given
<1>2. Place(w)' /\ Entry(w)' /\ MountInv(w)'
  BY <1>1, RollbackFacts
     DEF Place, Registered, Past, Owner, Entry, MountInv, WorkerInv
<1>3. Dismantling(w)'
  <2>1. Kept(w)' = 3
    BY <1>1, RollbackFacts DEF P!WaiterInv, P!NoRun, R!NoRun, Kept
  <2>2. CASE Owner(w) = "done" /\ ~retErr[w]
    <3>1. /\ disk.bundle = TRUE /\ disk.files = Files
          /\ disk.rootfs = TRUE /\ disk.rw = TRUE /\ disk.shm = 1
      BY <1>1, <2>2, RollbackFacts DEF WorkerInv, Built, Complete, Disks
    <3>2. Kept(w)' >= 1 /\ Kept(w)' >= 2 /\ disk' = disk
      BY <2>1
    <3> QED
      BY <2>1, <3>1, <3>2 DEF Dismantling
  <2>3. CASE ~(Owner(w) = "done" /\ ~retErr[w])
    BY <1>1, <2>3 DEF Dismantling
  <2> QED
    BY <2>2, <2>3
<1> QED
  BY <1>1, <1>2, <1>3 DEF WorkerInv, Building, Unwinding, Built

LEMMA WaiterStep ==
  ASSUME NEW w \in Workers, IInv,
         R!SelectCancel(w) \/ R!SelectClose(w) \/ R!WgDone(w),
         UNCHANGED <<disk, next, given, failedAt, undoErr>>
  PROVE  WorkerInv(w)'
<1>1. /\ Owner(w)' = Owner(w)
      /\ UNCHANGED <<prior, cancelled, stored, length, retErr, atCancel, idx,
                     from>>
  BY RollbackFacts DEF R!SelectCancel, R!SelectClose, R!WgDone, R!Goto, Owner,
     given
<1>2. Dismantling(w)'
  BY <1>1, RollbackFacts DEF Dismantling, Kept, WorkerInv
<1> QED
  BY <1>1, <1>2, RollbackFacts, WorkerFrame

(* The steps of run() that call nothing. *)
LEMMA RunStep ==
  ASSUME NEW w \in Workers, IInv, NEW g \in {"owner", "waiter"},
         R!RunCheck(w, g) \/ R!RunStore(w, g) \/ R!RunLen(w, g)
           \/ R!RunCallNil(w, g),
         UNCHANGED <<disk, next, given, failedAt, undoErr>>
  PROVE  WorkerInv(w)'
<1>1. UNCHANGED <<prior, cancelled, stored, length, retErr, atCancel>>
  BY DEF R!RunCheck, R!RunStore, R!RunLen, R!RunCallNil, given
<1>2. CASE R!RunCallNil(w, g)
  <2>1. UNCHANGED <<pc, idx, from>>
    BY <1>2 DEF R!RunCallNil
  <2>2. Dismantling(w)'
    BY <1>1, <2>1, RollbackFacts DEF Dismantling, Kept, WorkerInv
  <2> QED
    BY <1>1, <2>1, <2>2, RollbackFacts, WorkerFrame DEF Owner
<1>3. CASE g = "waiter" /\ ~R!RunCallNil(w, g)
  <2>1. /\ Owner(w)' = Owner(w) /\ idx'[w]["owner"] = idx[w]["owner"]
    BY <1>3, RollbackFacts DEF R!RunCheck, R!RunStore, R!RunLen, R!Goto, Owner
  <2>2. Kept(w)' = Kept(w) \/ ~atCancel[w].closed \/ retErr[w]
    <3>1. CASE R!RunLen(w, g)
      <4>0. from[w]["waiter"] = R!NoRun
        BY <1>3, <3>1, RollbackFacts
           DEF R!RunLen, R!At, R!NoRun, P!RunInv, P!NoRun
      <4>1. /\ from'[w]["waiter"] = length[w] /\ idx'[w]["waiter"] = length[w]
            /\ length[w] # R!NoRun
        <5>1. /\ from' = [from EXCEPT ![w]["waiter"] = length[w]]
              /\ idx' = [idx EXCEPT ![w]["waiter"] = length[w]]
          BY <1>3, <3>1 DEF R!RunLen, R!FirstCall
        <5>2. from'[w]["waiter"] = length[w] /\ idx'[w]["waiter"] = length[w]
          BY <5>1, RollbackFacts
        <5>3. length[w] # R!NoRun
          BY RollbackFacts DEF R!NoRun
        <5> QED
          BY <5>2, <5>3
      <4>2. (atCancel[w].closed /\ ~retErr[w]) => length[w] = 3
        <5> SUFFICES ASSUME atCancel[w].closed, ~retErr[w] PROVE length[w] = 3
          OBVIOUS
        <5>1. Owner(w) = "done" /\ next[w] = "end" /\ stored[w] = Registered(w)
          BY RollbackFacts DEF Place
        <5>2. length[w] = stored[w]
          BY <5>1, RollbackFacts DEF P!SliceInv, Owner
        <5> QED
          BY <5>1, <5>2 DEF Registered, Past, Rank
      <4> QED
        BY <4>0, <4>1, <4>2 DEF Kept
    <3>2. CASE R!RunCheck(w, g) \/ R!RunStore(w, g)
      BY <3>2 DEF R!RunCheck, R!RunStore, Kept
    <3> QED
      BY <1>3, <3>1, <3>2
  <2>3. Dismantling(w)'
    BY <1>1, <2>2, RollbackFacts DEF Dismantling, WorkerInv
  <2> QED
    BY <1>1, <2>1, <2>3, RollbackFacts, WorkerFrame
<1>4. CASE g = "owner" /\ ~R!RunCallNil(w, g)
  <2>1. /\ Owner(w) \in {"check", "store", "len"}
        /\ Owner(w)' \in {"store", "len", "loop", "exit"}
    BY <1>4, RollbackFacts DEF R!RunCheck, R!RunStore, R!RunLen, R!Goto, R!At,
       Owner
  <2>2. retErr[w]
    BY <2>1, RollbackFacts DEF P!OwnerInv, Owner
  <2>3. Place(w)'
    BY <1>1, <2>1, <2>2, RollbackFacts DEF Place, Registered, Past
  <2>4. ~cancelled => Left(w)' = Left(w)
    <3>1. CASE R!RunCheck(w, g)
      <4>1. ~cancelled => ~R!MustNotRun(w)
        BY <1>4, <3>1, RollbackFacts
           DEF R!MustNotRun, R!RunCheck, R!At, P!OwnerInv, P!WaiterInv,
               P!RunInv, P!Goroutines
      <4>2. ~cancelled => Owner(w)' = "store"
        BY <1>4, <3>1, <4>1, RollbackFacts DEF R!RunCheck, R!Goto, Owner
      <4> QED
        BY <1>1, <2>1, <4>2 DEF Left
    <3>2. CASE R!RunStore(w, g)
      <4>1. Owner(w)' = "len"
        BY <1>4, <3>2, RollbackFacts DEF R!RunStore, R!Goto, Owner
      <4> QED
        BY <1>1, <2>1, <4>1 DEF Left
    <3>3. CASE R!RunLen(w, g)
      <4>1. Owner(w)' \in {"loop", "exit"} /\ idx'[w]["owner"] = length[w]
        BY <1>4, <3>3, RollbackFacts DEF R!RunLen, R!Goto, R!FirstCall, Owner
      <4> QED
        BY <1>1, <2>1, <4>1 DEF Left
    <3> QED
      BY <1>4, <3>1, <3>2, <3>3
  <2> QED
    BY <1>1, <2>1, <2>2, <2>3, <2>4, RollbackFacts, OwnerLeaves
<1> QED
  BY <1>2, <1>3, <1>4

(* A function that is called: which one, and what it does.                 *)
LEMMA UndoFacts ==
  ASSUME NEW w \in Workers, IInv, NEW g \in {"owner", "waiter"}, Undo(w, g)
  PROVE  /\ idx[w][g] \in 1..3 /\ idx[w][g] <= stored[w]
         /\ from[w][g] # R!NoRun
         /\ idx'[w][g] = idx[w][g] - 1
         /\ g = "owner"  => /\ retErr[w] /\ Owner(w) = "loop"
                            /\ Owner(w)' \in {"loop", "exit"}
         /\ g = "waiter" => /\ cancelled /\ Owner(w)' = Owner(w)
         /\ UNCHANGED <<prior, next, failedAt, cancelled, stored, length,
                        retErr, atCancel, from>>
<1>1. /\ pc[w][g] = "loop" /\ idx[w][g] <= stored[w]
      /\ idx' = [idx EXCEPT ![w][g] = @ - 1]
      /\ pc' \in {[pc EXCEPT ![w][g] = "loop"], [pc EXCEPT ![w][g] = "exit"]}
      /\ UNCHANGED <<prior, next, failedAt, cancelled, stored, length, retErr,
                     atCancel, from>>
  BY DEF Undo, R!RunCall, R!At, R!Goto, R!NextCall, given
<1>2. idx[w][g] \in 1..3 /\ from[w][g] # R!NoRun
  BY <1>1, RollbackFacts DEF P!RunInv, P!NoRun, R!NoRun
<1>3. idx'[w][g] = idx[w][g] - 1
  BY <1>1, RollbackFacts
<1>4. g = "owner"  => /\ retErr[w] /\ Owner(w) = "loop"
                      /\ Owner(w)' \in {"loop", "exit"}
  BY <1>1, RollbackFacts DEF P!OwnerInv, Owner
<1>5. g = "waiter" => cancelled /\ Owner(w)' = Owner(w)
  BY <1>1, RollbackFacts DEF P!WaiterInv, Owner
<1> QED
  BY <1>1, <1>2, <1>3, <1>4, <1>5

(* What each of the three functions does to the host, unless it failed.    *)
LEMMA UndoShm ==
  ASSUME NEW w \in Workers, IInv, NEW g \in {"owner", "waiter"}, Undo(w, g),
         idx[w][g] = 3
  PROVE  /\ undoErr \subseteq undoErr'
         /\ disk'.bundle = disk.bundle /\ disk'.files = disk.files
         /\ disk'.rootfs = disk.rootfs /\ disk'.rw = disk.rw
         /\ disk'.mounted = disk.mounted /\ disk'.shm <= disk.shm
         /\ "shm" \in undoErr' \/ (disk.shm > 0 /\ disk'.shm = disk.shm - 1)
<1>1. disk \in Disks /\ disk.shm \in Nat
  BY DEF IInv, HostTyped, Disks, MaxMounts
<1>2. UndoName[idx[w][g]] = "shm"
  BY DEF UndoName
<1>3. \/ /\ disk' = UnmountShm
         /\ undoErr' = undoErr \cup (IF disk.shm = 0 THEN {"shm"} ELSE {})
      \/ disk' = disk /\ undoErr' = undoErr \cup {"shm"}
  BY <1>2 DEF Undo, Effect, Fails
<1> QED
  BY <1>1, <1>3 DEF UnmountShm, Disks

LEMMA UndoStorage ==
  ASSUME NEW w \in Workers, IInv, NEW g \in {"owner", "waiter"}, Undo(w, g),
         idx[w][g] = 2
  PROVE  /\ undoErr \subseteq undoErr'
         /\ disk'.bundle = disk.bundle /\ disk'.files = disk.files
         /\ disk'.mounted => disk.mounted
         /\ disk'.shm = disk.shm
         /\ \/ "storage" \in undoErr'
            \/ disk'.rootfs = FALSE /\ disk'.rw = FALSE
<1>1. disk \in Disks /\ disk.rootfs \in BOOLEAN
  BY DEF IInv, HostTyped, Disks
<1>2. UndoName[idx[w][g]] = "storage"
  BY DEF UndoName
<1>3. \/ /\ disk' = CleanupRootFs
         /\ undoErr' = undoErr \cup (IF ~disk.rootfs THEN {"storage"} ELSE {})
      \/ disk' = disk /\ undoErr' = undoErr \cup {"storage"}
  BY <1>2 DEF Undo, Effect, Fails
<1>4. CASE disk' = disk /\ undoErr' = undoErr \cup {"storage"}
  BY <1>4
<1>5. CASE /\ disk' = CleanupRootFs
           /\ undoErr' = undoErr \cup (IF ~disk.rootfs THEN {"storage"} ELSE {})
  <2>1. CASE disk.rootfs
    <3>1. disk' = [disk EXCEPT !.rootfs = FALSE, !.rw = FALSE,
                               !.mounted = FALSE]
      BY <1>5, <2>1 DEF CleanupRootFs, SwitchOperation
    <3>2. undoErr \subseteq undoErr'
      BY <1>5
    <3> QED
      BY <1>1, <3>1, <3>2 DEF Disks
  <2>2. CASE ~disk.rootfs
    BY <1>5, <2>2 DEF CleanupRootFs
  <2> QED
    BY <2>1, <2>2
<1> QED
  BY <1>3, <1>4, <1>5

LEMMA UndoBundle ==
  ASSUME NEW w \in Workers, IInv, NEW g \in {"owner", "waiter"}, Undo(w, g),
         idx[w][g] = 1
  PROVE  /\ undoErr \subseteq undoErr'
         /\ disk'.rootfs = disk.rootfs /\ disk'.rw = disk.rw
         /\ disk'.mounted = disk.mounted /\ disk'.shm = disk.shm
         /\ \/ "bundle" \in undoErr'
            \/ disk'.files = {} /\ (disk.shm = 0 => disk'.bundle = FALSE)
<1>1. disk \in Disks /\ disk.shm \in Nat
  BY DEF IInv, HostTyped, Disks, MaxMounts
<1>2. UndoName[idx[w][g]] = "bundle"
  BY DEF UndoName
<1>3. \/ /\ disk' = RemoveBundle
         /\ undoErr' = undoErr
      \/ disk' = disk /\ undoErr' = undoErr \cup {"bundle"}
  BY <1>2 DEF Undo, Effect, Fails
<1>4. CASE disk' = disk /\ undoErr' = undoErr \cup {"bundle"}
  BY <1>4
<1>5. CASE disk' = RemoveBundle /\ undoErr' = undoErr
  <2>1. CASE disk.shm = 0
    <3>1. disk' = [disk EXCEPT !.bundle = FALSE, !.files = {}]
      BY <1>5, <2>1 DEF RemoveBundle
    <3>2. undoErr \subseteq undoErr'
      BY <1>5
    <3> QED
      BY <1>1, <2>1, <3>1, <3>2 DEF Disks
  <2>2. CASE disk.shm # 0
    <3>1. disk' = [disk EXCEPT !.files = {}]
      BY <1>1, <1>5, <2>2 DEF RemoveBundle
    <3>2. undoErr \subseteq undoErr'
      BY <1>5
    <3> QED
      BY <1>1, <2>2, <3>1, <3>2 DEF Disks
  <2> QED
    BY <2>1, <2>2
<1> QED
  BY <1>3, <1>4, <1>5

LEMMA UndoShrinks ==
  ASSUME NEW w \in Workers, IInv, NEW g \in {"owner", "waiter"}, Undo(w, g)
  PROVE  /\ undoErr \subseteq undoErr'
         /\ disk'.mounted => disk.mounted
         /\ disk.shm \in Nat /\ disk'.shm \in Nat /\ disk'.shm <= disk.shm
<1>1. disk.shm \in Nat
  BY DEF IInv, HostTyped, Disks, MaxMounts
<1>2. idx[w][g] = 1 \/ idx[w][g] = 2 \/ idx[w][g] = 3
  BY UndoFacts
<1>3. CASE idx[w][g] = 1
  <2>1. disk'.shm = disk.shm
    BY <1>3, UndoBundle
  <2>2. undoErr \subseteq undoErr' /\ (disk'.mounted => disk.mounted)
    BY <1>3, UndoBundle
  <2> QED
    BY <1>1, <2>1, <2>2
<1>4. CASE idx[w][g] = 2
  <2>1. disk'.shm = disk.shm
    BY <1>4, UndoStorage
  <2>2. undoErr \subseteq undoErr' /\ (disk'.mounted => disk.mounted)
    BY <1>4, UndoStorage
  <2> QED
    BY <1>1, <2>1, <2>2
<1>5. CASE idx[w][g] = 3
  <2>1. disk'.shm \in Nat
    <3>1. disk \in Disks /\ UndoName[idx[w][g]] = "shm"
      BY <1>5 DEF UndoName, IInv, HostTyped
    <3>2. disk' = UnmountShm \/ disk' = disk
      BY <3>1 DEF Undo, Effect
    <3> QED
      BY <1>1, <3>1, <3>2 DEF UnmountShm, Disks
  <2> QED
    BY <1>1, <1>5, <2>1, UndoShm
<1> QED
  BY <1>2, <1>3, <1>4, <1>5

LEMMA UndoStep ==
  ASSUME NEW w \in Workers, IInv, NEW g \in {"owner", "waiter"}, Undo(w, g)
  PROVE  WorkerInv(w)'
<1>1. /\ idx[w][g] \in 1..3 /\ idx[w][g] <= stored[w]
      /\ idx'[w][g] = idx[w][g] - 1
      /\ UNCHANGED <<prior, next, failedAt, cancelled, stored, length, retErr,
                     atCancel, from>>
  BY UndoFacts
<1>2. /\ disk.shm \in Nat /\ disk'.shm \in Nat /\ disk'.shm <= disk.shm
      /\ undoErr \subseteq undoErr' /\ (disk'.mounted => disk.mounted)
  BY UndoShrinks
<1>3. Past(w, "statBundle")
  <2>1. Registered(w) # 0
    BY <1>1, RollbackFacts DEF Place
  <2>2. Past(w, "regBundle") /\ next[w] \in Steps
    BY <2>1, RollbackFacts DEF Registered
  <2> QED
    BY <2>2 DEF Past, Rank, Steps, After
<1>4. Place(w)'
  <2>1. CASE g = "owner"
    BY <1>1, <2>1, UndoFacts, RollbackFacts DEF Place, Registered, Past
  <2>2. CASE g = "waiter"
    BY <1>1, <2>2, UndoFacts, RollbackFacts DEF Place, Registered, Past
  <2> QED
    BY <2>1, <2>2
<1>5. Entry(w)'
  <2>1. /\ Past(w, "statBundle")' /\ ~prior.bundle
        /\ disk.shm <= IF Past(w, "shm") THEN 1 ELSE 0
        /\ Past(w, "shm")' = Past(w, "shm")
    BY <1>1, <1>3, RollbackFacts DEF Entry, Past, WorkerInv
  <2> QED
    BY <1>1, <1>2, <2>1 DEF Entry
<1>6. MountInv(w)'
  BY <1>1, <1>2, UndoFacts, RollbackFacts DEF MountInv, WorkerInv
<1>7. CASE g = "owner"
  <2>1. Building(w)' /\ Built(w)' /\ Dismantling(w)'
    BY <1>1, <1>7, UndoFacts DEF Building, Forward, Built, Dismantling
  <2>2. Unwinding(w)'
    <3> SUFFICES ASSUME ~cancelled PROVE Unwinding(w)'
      BY <1>1 DEF Unwinding
    <3> DEFINE i == idx[w]["owner"]
    <3>1. /\ Left(w) = i /\ Left(w)' = i - 1 /\ i \in 1..3 /\ i <= stored[w]
          /\ stored[w] \in 0..3 /\ retErr[w] /\ Past(w, "statBundle")'
      BY <1>1, <1>3, <1>7, UndoFacts, RollbackFacts DEF Left, Past
    <3>2. Unwinding(w) /\ Entry(w)
      BY RollbackFacts DEF WorkerInv
    <3>2a. disk.shm = 0 \/ disk.shm = 1
      BY <1>2, <1>3, <3>2 DEF Entry
    <3>3. CASE i = 3
      BY <1>1, <1>2, <1>3, <1>7, <3>1, <3>2, <3>2a, <3>3, UndoShm
         DEF Unwinding
    <3>4. CASE i = 2
      <4>1. /\ disk'.shm = disk.shm
            /\ \/ "storage" \in undoErr'
               \/ disk'.rootfs = FALSE /\ disk'.rw = FALSE
        BY <1>7, <3>4, UndoStorage
      <4>2. disk.shm = 0 \/ "shm" \in undoErr
        BY <1>3, <3>1, <3>2, <3>4 DEF Unwinding
      <4> HIDE DEF i
      <4> QED
        BY <1>1, <1>2, <3>1, <3>4, <4>1, <4>2 DEF Unwinding
    <3>5. CASE i = 1
      <4>1. /\ disk'.rootfs = disk.rootfs /\ disk'.rw = disk.rw
            /\ disk'.shm = disk.shm
            /\ \/ "bundle" \in undoErr'
               \/ disk'.files = {} /\ (disk.shm = 0 => disk'.bundle = FALSE)
        BY <1>7, <3>5, UndoBundle
      <4>2. /\ disk.shm = 0 \/ "shm" \in undoErr
            /\ stored[w] < 2 =>
                 /\ disk.rw = prior.rw
                 /\ next[w] = "saveV2Cfg" \/ disk.rootfs = prior.rootfs
            /\ stored[w] >= 2 =>
                 (~disk.rootfs /\ ~disk.rw) \/ "storage" \in undoErr
        BY <1>3, <3>1, <3>2, <3>5 DEF Unwinding
      <4> HIDE DEF i
      <4> QED
        BY <1>1, <1>2, <3>1, <3>5, <4>1, <4>2 DEF Unwinding
    <3> QED
      BY <3>1, <3>3, <3>4, <3>5
  <2> QED
    BY <1>4, <1>5, <1>6, <2>1, <2>2 DEF WorkerInv
<1>8. CASE g = "waiter"
  <2>1. Building(w)' /\ Unwinding(w)' /\ Built(w)'
    BY <1>1, <1>8, UndoFacts DEF Building, Unwinding, Built
  <2>2. Dismantling(w)'
    <3> SUFFICES ASSUME atCancel[w].closed, ~retErr[w], undoErr' = {}
                 PROVE  Dismantling(w)'
      BY <1>1 DEF Dismantling
    <3> DEFINE i == idx[w]["waiter"]
    <3>1. Kept(w) = i /\ Kept(w)' = i - 1 /\ i \in 1..3
      BY <1>1, <1>8, UndoFacts DEF Kept
    <3>2. undoErr = {} /\ disk.shm \in Nat
      BY <1>2
    <3>3. /\ disk.bundle /\ disk.files = Files
          /\ disk.rootfs <=> i >= 2
          /\ disk.rw <=> i >= 2
          /\ disk.shm = IF i = 3 THEN 1 ELSE 0
      <4>1. Dismantling(w) /\ i >= 1
        BY <3>1, RollbackFacts DEF WorkerInv
      <4> HIDE DEF i
      <4> QED
        BY <3>1, <3>2, <4>1 DEF Dismantling
    <3>4. CASE i = 3
      <4>1. /\ disk'.bundle = disk.bundle /\ disk'.files = disk.files
            /\ disk'.rootfs = disk.rootfs /\ disk'.rw = disk.rw
            /\ disk'.shm = disk.shm - 1
        BY <1>8, <3>2, <3>4, UndoShm
      <4>2. Kept(w)' = 2 /\ disk'.shm = 0
        BY <3>1, <3>3, <3>4, <4>1
      <4> QED
        BY <3>3, <3>4, <4>1, <4>2 DEF Dismantling
    <3>5. CASE i = 2
      <4>1. /\ disk'.bundle = disk.bundle /\ disk'.files = disk.files
            /\ disk'.rootfs = FALSE /\ disk'.rw = FALSE
            /\ disk'.shm = disk.shm
        BY <1>8, <3>2, <3>5, UndoStorage
      <4>2. Kept(w)' = 1 /\ disk'.shm = 0
        BY <3>1, <3>3, <3>5, <4>1
      <4> QED
        BY <3>3, <3>5, <4>1, <4>2 DEF Dismantling
    <3>6. CASE i = 1
      <4>1. /\ disk'.rootfs = disk.rootfs /\ disk'.rw = disk.rw
            /\ disk'.bundle = FALSE /\ disk'.files = {} /\ disk'.shm = 0
        <5>1. disk.shm = 0 /\ "bundle" \notin undoErr'
          BY <1>8, <3>2, <3>3, <3>6
        <5> QED
          BY <1>8, <3>6, <5>1, UndoBundle
      <4>2. Kept(w)' = 0
        BY <3>1, <3>6
      <4> QED
        BY <3>3, <3>6, <4>1, <4>2 DEF Dismantling
    <3> QED
      BY <3>1, <3>4, <3>5, <3>6
  <2> QED
    BY <1>4, <1>5, <1>6, <2>1, <2>2 DEF WorkerInv
<1> QED
  BY <1>7, <1>8

LEMMA UndoTyped ==
  ASSUME NEW w \in Workers, IInv, NEW g \in {"owner", "waiter"}, Undo(w, g)
  PROVE  HostTyped' /\ WellFormed(disk)'
<1>1. /\ disk \in Disks /\ disk.shm \in Nat /\ disk.shm <= MaxMounts
      /\ WellFormed(disk)
  BY DEF IInv, HostTyped, Disks, MaxMounts
<1>2. UndoName[idx[w][g]] \in {"bundle", "storage", "shm"}
  <2>1. idx[w][g] = 1 \/ idx[w][g] = 2 \/ idx[w][g] = 3
    BY UndoFacts
  <2> QED
    BY <2>1 DEF UndoName
<1>3. disk' \in {disk, RemoveBundle, CleanupRootFs, UnmountShm}
  BY <1>2 DEF Undo, Effect
<1>4. undoErr' \subseteq {"bundle", "storage", "shm", "umount"}
  BY <1>2 DEF Undo, IInv, HostTyped
<1>5. /\ RemoveBundle \in Disks /\ WellFormed(RemoveBundle)
  BY <1>1 DEF RemoveBundle, WellFormed, Disks
<1>6. /\ CleanupRootFs \in Disks /\ WellFormed(CleanupRootFs)
  <2>1. CleanupRootFs \in {disk, [disk EXCEPT !.rootfs = FALSE, !.rw = FALSE,
                                              !.mounted = FALSE]}
    BY DEF CleanupRootFs, SwitchOperation
  <2> QED
    BY <1>1, <2>1 DEF WellFormed, Disks
<1>7. /\ UnmountShm \in Disks /\ WellFormed(UnmountShm)
  BY <1>1 DEF UnmountShm, WellFormed, Disks, MaxMounts
<1> QED
  BY <1>1, <1>3, <1>4, <1>5, <1>6, <1>7
     DEF Undo, given, IInv, HostTyped, WellFormed

(* The driver and the host an invocation started from do not change in it. *)
LEMMA GivenKept == Next => UNCHANGED given
  BY DEF Next, R!Cancel, Transform, RollbackStep, Undo, vars, Pause,
     StatBundle, MkBundle, RegisterLen, RegisterElem, StatHostCfg, StatV2Cfg,
     StatOciCfg, StatPath, SaveConfig, CopyNetworkFiles, WriteFile,
     GenerateRootFs, PrepareShm, TransformRWLayer, CopyLayer, MountRootFs,
     CopyChanges, Umount, UmountAfterError, LcrCreate, Succeed, Proceed, Goto,
     Fail, Leave

LEMMA HostStep ==
  ASSUME OneWorker, IInv, Next
  PROVE  HostTyped' /\ WellFormed(disk)' /\ WellFormed(prior)'
<1> USE DEF IInv
<1>1. /\ HostTyped /\ WellFormed(disk)
      /\ UNCHANGED <<driver, prior>>
  <2>1. UNCHANGED given
    BY GivenKept
  <2> QED
    BY <2>1 DEF given
<1> DEFINE Good == HostTyped' /\ WellFormed(disk)'
<1>2. ASSUME NEW w \in Workers, Transform(w) PROVE Good
  <2> USE DEF HostTyped, OnStep
  <2>1. ASSUME disk' \in Disks, WellFormed(disk)', Proceed(w),
               next[w] \in DOMAIN After
        PROVE  Good
    BY <1>1, <2>1 DEF Proceed, Goto, Steps, After
  <2>2. ASSUME disk' \in Disks, WellFormed(disk)', Fail(w) PROVE Good
    BY <1>1, <2>2 DEF Fail, Leave
  <2>3. CASE Pause(w)
    BY <1>1, <2>1, <2>2, <2>3 DEF Pause, Disks, WellFormed, After
  <2>4. CASE StatBundle(w)
    BY <1>1, <2>1, <2>2, <2>4 DEF StatBundle, After
  <2>5. CASE MkBundle(w)
    BY <1>1, <2>1, <2>2, <2>5 DEF MkBundle, Disks, WellFormed, After
  <2>6. CASE StatHostCfg(w) \/ StatV2Cfg(w) \/ StatOciCfg(w)
    BY <1>1, <2>1, <2>2, <2>6
       DEF StatHostCfg, StatV2Cfg, StatOciCfg, StatPath, After
  <2>7. CASE SaveConfig(w) \/ CopyNetworkFiles(w)
    <3>1. next[w] \in {"saveHostCfg", "saveV2Cfg", "network", "saveOciCfg"}
          /\ WriteFile(w)
      BY <2>7 DEF SaveConfig, CopyNetworkFiles
    <3>2. FileOf[next[w]] \in Files /\ next[w] \in DOMAIN After
      BY <3>1 DEF FileOf, Files, After
    <3>3. disk' \in Disks /\ WellFormed(disk)'
      BY <1>1, <3>1, <3>2 DEF WriteFile, Disks, WellFormed
    <3> QED
      BY <2>1, <2>2, <3>1, <3>2, <3>3 DEF WriteFile
  <2>8. CASE GenerateRootFs(w)
    BY <1>1, <2>1, <2>2, <2>8
       DEF GenerateRootFs, PrepareRootfs, Disks, WellFormed, After
  <2>9. CASE PrepareShm(w)
    <3>1. next[w] = "shm" /\ disk.shm = 0
      BY <1>1, <2>9
         DEF PrepareShm, WorkerInv, Entry, Past, Rank, Disks, MaxMounts
    <3> DEFINE b == [disk EXCEPT !.bundle = TRUE]
               m == [disk EXCEPT !.bundle = TRUE, !.shm = @ + 1]
    <3>a. disk' = disk \/ disk' = b \/ disk' = m
      BY <2>9, Zenon DEF PrepareShm
    <3>b. b \in Disks /\ b.bundle
      BY <1>1 DEF Disks
    <3>c. m = [disk EXCEPT !.bundle = TRUE, !.shm = 1]
      BY <1>1, <3>1 DEF Disks
    <3>d. [disk EXCEPT !.bundle = TRUE, !.shm = 1] \in Disks
      <4>1. 1 \in 0..MaxMounts
        BY DEF MaxMounts
      <4>2. disk \in Disks
        BY <1>1 DEF HostTyped
      <4> QED
        BY <4>1, <4>2, Zenon DEF Disks
    <3>e. [disk EXCEPT !.bundle = TRUE, !.shm = 1].bundle
      BY <1>1 DEF Disks
    <3> HIDE DEF b, m
    <3>2. disk' \in Disks /\ WellFormed(disk)'
      BY <1>1, <3>a, <3>b, <3>c, <3>d, <3>e DEF WellFormed
    <3> QED
      BY <2>1, <2>2, <2>9, <3>1, <3>2 DEF PrepareShm, After
  <2>10. CASE CopyLayer(w)
    BY <1>1, <2>1, <2>2, <2>10 DEF CopyLayer, Disks, WellFormed, After
  <2>11. CASE MountRootFs(w)
    <3>1. disk' \in Disks /\ WellFormed(disk)'
      BY <1>1, <2>11 DEF MountRootFs, SwitchOperation, Disks, WellFormed
    <3> QED
      BY <1>1, <2>2, <2>11, <3>1 DEF MountRootFs, Goto, Steps
  <2>12. CASE CopyChanges(w)
    <3>1. disk' \in Disks /\ WellFormed(disk)'
      BY <1>1, <2>12 DEF CopyChanges, Disks, WellFormed
    <3> QED
      BY <1>1, <2>12, <3>1 DEF CopyChanges, Goto, Steps, After
  <2>13. ASSUME UmountRootFs
         PROVE  /\ disk' \in Disks /\ WellFormed(disk)'
                /\ undoErr' \subseteq {"bundle", "storage", "shm", "umount"}
    BY <1>1, <2>13 DEF UmountRootFs, SwitchOperation, Disks, WellFormed
  <2>14. CASE Umount(w)
    BY <1>1, <2>13, <2>14 DEF Umount, Goto, Steps, After
  <2>15. CASE UmountAfterError(w)
    BY <1>1, <2>13, <2>15 DEF UmountAfterError, Leave, Steps, After
  <2>16. CASE LcrCreate(w)
    <3> DEFINE l == [disk EXCEPT !.bundle = TRUE, !.files = @ \cup {"lcr"}]
    <3>a. disk' = disk \/ disk' = l
      BY <2>16, Zenon DEF LcrCreate
    <3>b. l \in Disks /\ l.bundle
      BY <1>1 DEF Disks, Files
    <3> HIDE DEF l
    <3>1. disk' \in Disks /\ WellFormed(disk)'
      BY <1>1, <3>a, <3>b DEF WellFormed
    <3> QED
      BY <2>1, <2>2, <2>16, <3>1 DEF LcrCreate, After
  <2>17. CASE Succeed(w)
    BY <1>1, <2>17 DEF Succeed, Leave
  <2>18. CASE RegisterLen(w)
    BY <1>1, <2>18 DEF RegisterLen
  <2>19. CASE RegisterElem(w)
    <3>1. next[w] \in {"regBundle", "regStorage", "regShm"}
      BY <2>19, RollbackFacts
         DEF RegisterElem, R!RegisterElem, R!At, Place, Owner
    <3>2. After[next[w]] \in Steps
      BY <3>1 DEF Steps, After
    <3> QED
      BY <1>1, <2>19, <3>2 DEF RegisterElem
  <2> QED
    BY <1>2, <2>3, <2>4, <2>5, <2>6, <2>7, <2>8, <2>9, <2>10, <2>11, <2>12,
       <2>14, <2>15, <2>16, <2>17, <2>18, <2>19 DEF Transform, TransformRWLayer
<1>3. ASSUME NEW w \in Workers, NEW g \in R!Goroutines, Undo(w, g) PROVE Good
  BY <1>3, UndoTyped DEF R!Goroutines
<1>4. CASE UNCHANGED <<disk, next, given, failedAt, undoErr>>
  BY <1>1, <1>4 DEF HostTyped, WellFormed
<1>5. Good
  BY <1>2, <1>3, <1>4 DEF Next, RollbackStep, vars
<1> QED
  BY <1>1, <1>5 DEF WellFormed

LEMMA WorkerStep ==
  ASSUME IInv, Next, NEW w \in Workers, Workers = {w}
  PROVE  WorkerInv(w)'
<1>1. CASE Transform(w)
  BY <1>1, EntryStep, MkBundleStep, RegisterStep, StatStep, WriteStep,
     RootFsStep, ShmStep, LayerStep, LcrStep, SucceedStep DEF Transform
<1>2. CASE RollbackStep(w)
  BY <1>2, WaitStep, CloseStep, WaiterStep, RunStep
     DEF RollbackStep, R!Goroutines
<1>3. ASSUME NEW g \in R!Goroutines, Undo(w, g) PROVE WorkerInv(w)'
  BY <1>3, UndoStep DEF R!Goroutines
<1>4. CASE R!Cancel /\ UNCHANGED <<disk, next, given, failedAt, undoErr>>
  BY <1>4, CancelStep
<1>5. CASE UNCHANGED vars
  <2>1. Dismantling(w)'
    BY <1>5, RollbackFacts
       DEF vars, rbVars, given, Dismantling, Kept, WorkerInv
  <2> QED
    BY <1>5, <2>1, RollbackFacts, WorkerFrame
       DEF vars, rbVars, given, Owner
<1> QED
  BY <1>1, <1>2, <1>3, <1>4, <1>5 DEF Next

LEMMA InvStep == ASSUME OneWorker, IInv, [Next]_vars PROVE IInv'
<1>1. CASE Next
  <2>1. PICK w : Workers = {w}
    BY DEF OneWorker
  <2>2. WorkerInv(w)'
    BY <1>1, <2>1, WorkerStep
  <2>3. P!IInv'
    BY <1>1, RollbackStepInv DEF IInv
  <2> QED
    BY <1>1, <2>1, <2>2, <2>3, HostStep DEF IInv
<1>2. CASE UNCHANGED vars
  <2>1. P!IInv'
    BY RollbackStepInv DEF IInv
  <2>2. HostTyped' /\ WellFormed(disk)' /\ WellFormed(prior)'
    BY <1>2 DEF vars, given, IInv, HostTyped, WellFormed
  <2>3. ASSUME NEW w \in Workers PROVE WorkerInv(w)'
    <3>1. Dismantling(w)'
      BY <1>2, RollbackFacts
         DEF vars, rbVars, given, Dismantling, Kept, WorkerInv
    <3> QED
      BY <1>2, <3>1, RollbackFacts, WorkerFrame
         DEF vars, rbVars, given, Owner
  <2> QED
    BY <2>1, <2>2, <2>3 DEF IInv
<1> QED
  BY <1>1, <1>2

(* For any number of workers: what transform() does to its rollback        *)
(* instance is what Rollback lets an owner do, so every worker implements  *)
(* the undo log, with the steps and failures of the pipeline in place of   *)
(* Rollback's free choice of them (docker.go:185-281).                     *)
THEOREM WorkersRollBack == Spec => P!Spec /\ P!ImplementsUndoLog
<1>1. Init => P!Init
  BY DEF Init, R!Init, P!Init, R!NoRun, P!NoRun, R!Goroutines, P!Goroutines
<1>2. [Next]_vars => [P!Next]_(P!vars)
  <2> SUFFICES ASSUME [Next]_vars PROVE P!Next \/ UNCHANGED P!vars
    OBVIOUS
  <2>1. CASE UNCHANGED vars
    BY <2>1 DEF vars, rbVars, P!vars, P!progVars
  <2> QED
    BY <2>1, RollbackNext
<1>3. Spec => P!Spec
  BY <1>1, <1>2, PTL DEF Spec, P!Spec
<1>4. P!Spec => P!ImplementsUndoLog
  BY FiniteWorkers, P!RollbackImplementsUndoLog
<1> QED
  BY <1>3, <1>4, PTL

(* The invariant of one process on the given host, whose one worker        *)
(* transforms the container: transform() with its deferred function, the   *)
(* waiter of its rollback and the signal, interleaved in every way         *)
(* (docker.go:173).                                                        *)
THEOREM InductiveInvariant == ASSUME OneWorker PROVE Spec => []IInv
<1>1. Init => IInv
  BY InitInv
<1>2. IInv /\ [Next]_vars => IInv'
  BY InvStep
<1> QED
  BY <1>1, <1>2, PTL DEF Spec
-----------------------------------------------------------------------------
(* What the invariant says of the properties of the pipeline.              *)

LEMMA AtEnd ==
  ASSUME NEW w \in Workers, IInv, R!Finished
  PROVE  /\ Owner(w) = "done" /\ pc[w]["waiter"] = "done"
         /\ (~cancelled /\ retErr[w]) => Left(w) = 0
         /\ from[w]["waiter"] # R!NoRun => idx[w]["waiter"] = 0
<1>1. Owner(w) = "done" /\ pc[w]["waiter"] = "done"
  BY DEF R!Finished, R!OwnerDone, R!WaiterDone, Owner
<1>2. from[w]["waiter"] # R!NoRun => idx[w]["waiter"] = 0
  BY <1>1, RollbackFacts DEF P!RunInv, P!NoRun, R!NoRun
<1>3. ASSUME ~cancelled, retErr[w] PROVE Left(w) = 0
  <2>1. from[w]["owner"] # P!NoRun
    BY <1>1, <1>3, RollbackFacts
       DEF P!OwnerInv, P!WaiterInv, P!Goroutines, Owner
  <2> QED
    BY <1>1, <2>1, RollbackFacts DEF P!RunInv, Left, Owner
<1> QED
  BY <1>1, <1>2, <1>3

(* Nothing resumes docker's container once it is paused.                  *)
PausedInv ==
  /\ prior.paused => disk.paused
  /\ \A w \in Workers : next[w] # "pause" => disk.paused

LEMMA PausedStep ==
  ASSUME IInv, PausedInv, [Next]_vars PROVE PausedInv'
<1>1. disk \in Disks /\ next \in [Workers -> Steps] /\ prior' = prior
  BY GivenKept DEF IInv, HostTyped, vars, given
<1>2. CASE UNCHANGED <<disk, next>>
  BY <1>1, <1>2 DEF PausedInv
<1>3. ASSUME NEW w \in Workers, Pause(w) PROVE PausedInv'
  <2>1. disk'.paused \/ (~disk.paused /\ Fail(w))
    <3>1. \/ disk' = [disk EXCEPT !.paused = TRUE]
          \/ \E took \in BOOLEAN :
               disk' = [disk EXCEPT !.paused = @ \/ took] /\ Fail(w)
      BY <1>3 DEF Pause
    <3>2. ASSUME disk' = [disk EXCEPT !.paused = TRUE] PROVE disk'.paused
      BY <1>1, <3>2 DEF Disks
    <3>3. ASSUME NEW took \in BOOLEAN, Fail(w),
                 disk' = [disk EXCEPT !.paused = @ \/ took]
          PROVE  disk'.paused \/ ~disk.paused
      BY <1>1, <3>3 DEF Disks
    <3> QED
      BY <3>1, <3>2, <3>3
  <2>2. Fail(w) => next' = next
    BY DEF Fail, Leave
  <2>3. disk.paused => disk'.paused
    BY <1>1, <1>3 DEF Pause, Disks
  <2> QED
    BY <1>1, <2>1, <2>2, <2>3 DEF PausedInv
<1>4. ASSUME NEW w \in Workers, Transform(w), ~Pause(w) PROVE PausedInv'
  <2>1. disk'.paused = disk.paused
    <3>1. CASE StatBundle(w) \/ MkBundle(w)
      BY <1>1, <3>1 DEF StatBundle, MkBundle, Disks
    <3>2. CASE SaveConfig(w) \/ CopyNetworkFiles(w)
      BY <1>1, <3>2 DEF SaveConfig, CopyNetworkFiles, WriteFile, Disks
    <3>3. CASE GenerateRootFs(w)
      BY <1>1, <3>3 DEF GenerateRootFs, PrepareRootfs, Disks
    <3>4. CASE PrepareShm(w)
      <4>1. \/ disk' = [disk EXCEPT !.bundle = TRUE, !.shm = @ + 1]
            \/ disk' = [disk EXCEPT !.bundle = TRUE] \/ disk' = disk
        BY <3>4, Zenon DEF PrepareShm
      <4> QED
        BY <1>1, <4>1 DEF Disks
    <3>5. CASE TransformRWLayer(w)
      BY <1>1, <3>5 DEF TransformRWLayer, CopyLayer, MountRootFs, CopyChanges,
         Umount, UmountAfterError, UmountRootFs, SwitchOperation, Disks
    <3>6. CASE LcrCreate(w)
      <4>1. \/ disk' = [disk EXCEPT !.bundle = TRUE, !.files = @ \cup {"lcr"}]
            \/ disk' = disk
        BY <3>6, Zenon DEF LcrCreate
      <4> QED
        BY <1>1, <4>1 DEF Disks
    <3>7. CASE RegisterLen(w) \/ RegisterElem(w) \/ Succeed(w)
      BY <3>7 DEF RegisterLen, RegisterElem, Succeed
    <3>8. CASE StatHostCfg(w) \/ StatV2Cfg(w) \/ StatOciCfg(w)
      BY <3>8 DEF StatHostCfg, StatV2Cfg, StatOciCfg, StatPath
    <3> QED
      BY <1>4, <3>1, <3>2, <3>3, <3>4, <3>5, <3>6, <3>7, <3>8 DEF Transform
  <2>2. \A x \in Workers : next[x] = "pause" => next'[x] = "pause"
    <3>1. CASE UNCHANGED next
      BY <3>1
    <3>2. ASSUME next[w] # "pause", NEW step, next' = [next EXCEPT ![w] = step]
          PROVE  \A x \in Workers : next[x] = "pause" => next'[x] = "pause"
      BY <1>1, <3>2
    <3>3. CASE StatBundle(w) \/ MkBundle(w)
      BY <3>1, <3>2, <3>3 DEF StatBundle, MkBundle, OnStep, Proceed, Goto,
         Fail, Leave
    <3>4. CASE SaveConfig(w) \/ CopyNetworkFiles(w)
      BY <3>1, <3>2, <3>4 DEF SaveConfig, CopyNetworkFiles, WriteFile, OnStep,
         Proceed, Goto, Fail, Leave
    <3>5. CASE GenerateRootFs(w) \/ PrepareShm(w) \/ LcrCreate(w)
      <4>1. next[w] # "pause" /\ (Proceed(w) \/ Fail(w))
        BY <3>5, Zenon DEF GenerateRootFs, PrepareShm, LcrCreate, OnStep
      <4> QED
        BY <3>1, <3>2, <4>1 DEF Proceed, Goto, Fail, Leave
    <3>6. CASE CopyLayer(w) \/ MountRootFs(w)
      BY <3>1, <3>2, <3>6 DEF CopyLayer, MountRootFs, OnStep,
         Proceed, Goto, Fail, Leave
    <3>7. CASE CopyChanges(w) \/ Umount(w) \/ UmountAfterError(w)
      BY <3>1, <3>2, <3>7 DEF CopyChanges, Umount, UmountAfterError, OnStep,
         Goto, Leave
    <3>8. CASE RegisterElem(w)
      <4>1. next[w] \in {"regBundle", "regStorage", "regShm"}
        BY <3>8, RollbackFacts DEF RegisterElem, R!RegisterElem, R!At, Owner,
           Place
      <4> QED
        BY <3>2, <3>8, <4>1 DEF RegisterElem
    <3>9. CASE RegisterLen(w) \/ Succeed(w)
      BY <3>1, <3>9 DEF RegisterLen, Succeed, Leave
    <3>10. CASE StatHostCfg(w) \/ StatV2Cfg(w) \/ StatOciCfg(w)
      BY <3>1, <3>2, <3>10 DEF StatHostCfg, StatV2Cfg, StatOciCfg, StatPath,
         OnStep, Proceed, Goto, Fail, Leave
    <3> QED
      BY <1>4, <3>3, <3>4, <3>5, <3>6, <3>7, <3>8, <3>9, <3>10
         DEF Transform, TransformRWLayer
  <2> QED
    BY <1>1, <2>1, <2>2 DEF PausedInv
<1>5. ASSUME NEW w \in Workers, NEW g \in {"owner", "waiter"}, Undo(w, g)
      PROVE  disk'.paused = disk.paused /\ next' = next
  <2>1. UndoName[idx[w][g]] \in {"bundle", "storage", "shm"} /\ next' = next
    <3>1. idx[w][g] \in 1..3
      BY <1>5, UndoFacts
    <3> QED
      BY <1>5, <3>1 DEF UndoName, Undo
  <2>2. disk' \in {disk, RemoveBundle, CleanupRootFs, UnmountShm}
    BY <1>5, <2>1 DEF Undo, Effect
  <2>3. /\ RemoveBundle.paused = disk.paused
        /\ UnmountShm.paused = disk.paused
    BY <1>1 DEF RemoveBundle, UnmountShm, Disks
  <2>4. CleanupRootFs.paused = disk.paused
    BY <1>1 DEF CleanupRootFs, SwitchOperation, Disks
  <2> QED
    BY <2>1, <2>2, <2>3, <2>4
<1>6. ASSUME NEW w \in Workers, NEW g \in {"owner", "waiter"}, Undo(w, g)
      PROVE  PausedInv'
  BY <1>1, <1>5, <1>6 DEF PausedInv
<1> QED
  BY <1>2, <1>3, <1>4, <1>6 DEF Next, RollbackStep, R!Goroutines, vars

LEMMA FailureFacts == ASSUME IInv, PausedInv PROVE FailureIsUndone
<1> SUFFICES ASSUME NEW w \in Workers, ~cancelled, R!Finished, retErr[w]
             PROVE  /\ "shm" \in undoErr \/ disk.shm = prior.shm
                    /\ "bundle" \in undoErr \/ disk.files = prior.files
                    /\ {"bundle", "shm"} \cap undoErr = {}
                         => disk.bundle = prior.bundle
                    /\ \/ "storage" \in undoErr
                       \/ failedAt[w] = "saveV2Cfg" /\ disk.rw = prior.rw
                       \/ StorageAsBefore
                    /\ prior.paused \/ failedAt[w] # "pause" => disk.paused
  BY DEF FailureIsUndone
<1>1. Left(w) = 0
  BY AtEnd
<1>2. /\ disk \in Disks /\ prior \in Disks /\ stored[w] \in 0..3
      /\ Place(w) /\ Entry(w) /\ Unwinding(w) /\ WellFormed(prior)
  BY RollbackFacts DEF WorkerInv, IInv
<1>3. prior.paused \/ failedAt[w] # "pause" => disk.paused
  <2>1. failedAt[w] # "pause" => next[w] # "pause"
    BY <1>2 DEF Place
  <2> QED
    BY <2>1 DEF PausedInv
<1>4. CASE ~Past(w, "statBundle")
  BY <1>2, <1>3, <1>4 DEF Entry, StorageAsBefore, Disks
<1>5. CASE Past(w, "statBundle")
  <2>1. ~prior.bundle /\ prior.files = {} /\ prior.shm = 0
    BY <1>2, <1>5 DEF Entry, WellFormed
  <2>2. disk.shm = 0 \/ "shm" \in undoErr
    BY <1>1, <1>2, <1>5 DEF Unwinding
  <2>3. \/ "bundle" \in undoErr
        \/ disk.files = {} /\ (disk.shm = 0 => ~disk.bundle)
    BY <1>1, <1>2, <1>5 DEF Unwinding, NoBundle
  <2>4. {"bundle", "shm"} \cap undoErr = {} => disk.bundle = prior.bundle
    BY <1>2, <2>1, <2>2, <2>3 DEF Disks
  <2>5. CASE stored[w] < 2
    BY <1>2, <1>3, <1>5, <2>1, <2>2, <2>3, <2>4, <2>5
       DEF Unwinding, StorageAsBefore, Place
  <2>6. CASE stored[w] >= 2
    BY <1>1, <1>2, <1>3, <1>5, <2>1, <2>2, <2>3, <2>4, <2>6
       DEF Unwinding, StorageAsBefore
  <2> QED
    BY <1>2, <2>5, <2>6
<1> QED
  BY <1>4, <1>5

LEMMA SuccessFacts == ASSUME IInv PROVE SuccessIsComplete
  BY RollbackFacts DEF SuccessIsComplete, WorkerInv, Built, R!OwnerDone, Owner

LEMMA LateSignalFacts == ASSUME IInv PROVE LateSignalIsAllOrNothing
<1> SUFFICES ASSUME NEW w \in Workers, atCancel[w].closed, R!Finished,
                    ~retErr[w], undoErr = {}
             PROVE  \/ Complete(disk)
                    \/ BundleAsBefore /\ ~disk.rootfs /\ ~disk.rw
  BY DEF LateSignalIsAllOrNothing
<1>1. /\ disk \in Disks /\ prior \in Disks
      /\ Place(w) /\ Entry(w) /\ Dismantling(w) /\ WellFormed(prior)
  BY RollbackFacts DEF WorkerInv, IInv
<1>2. Owner(w) = "done" /\ Kept(w) \in {0, 3}
  BY AtEnd DEF Kept
<1>3. CASE Kept(w) = 3
  BY <1>1, <1>3 DEF Dismantling, Complete
<1>4. CASE Kept(w) = 0
  <2>1. next[w] = "end"
    BY <1>1, <1>2 DEF Place
  <2>2. Past(w, "statBundle")
    BY <2>1 DEF Past, Rank
  <2>3. ~prior.bundle /\ prior.files = {} /\ prior.shm = 0
    BY <1>1, <2>2 DEF Entry, WellFormed
  <2>4. /\ ~disk.bundle /\ disk.files = {} /\ disk.shm = 0
        /\ ~disk.rootfs /\ ~disk.rw
    BY <1>1, <1>4 DEF Dismantling
  <2> QED
    BY <1>1, <2>3, <2>4 DEF BundleAsBefore, Disks
<1> QED
  BY <1>2, <1>3, <1>4

LEMMA MountFacts == ASSUME IInv PROVE MountIsReleased
  BY RollbackFacts DEF MountIsReleased, WorkerInv, MountInv, R!OwnerDone, Owner

LEMMA TypeFacts == ASSUME OneWorker, IInv, P!WgCounts PROVE TypeOK
<1>1. P!TypeOK
  BY FiniteWorkers, P!LiveFinite
     DEF IInv, P!IInv, P!Typed, P!WgCounts, P!TypeOK
<1>2. R!Cardinality(Workers) = P!Cardinality(Workers)
  BY Zenon DEF R!Cardinality, P!Cardinality
<1>3. R!TypeOK
  BY <1>1, <1>2 DEF R!TypeOK, P!TypeOK, R!Goroutines, P!Goroutines, R!NoRun,
     P!NoRun, R!OwnerPC, P!OwnerPC, R!WaiterPC, P!WaiterPC
<1> QED
  BY <1>3 DEF TypeOK, IInv, HostTyped
-----------------------------------------------------------------------------
(* What a step may not do to the host.                                     *)

\* Only an undo function removes anything.
LEMMA ForwardKeeps ==
  ASSUME IInv, Next,
         \A w \in Workers : \A g \in {"owner", "waiter"} : ~Undo(w, g)
  PROVE  disk.files \subseteq disk'.files /\ (disk.rootfs => disk'.rootfs)
<1>1. disk \in Disks
  BY DEF IInv, HostTyped
<1> DEFINE Kept1 == /\ disk.files \subseteq disk'.files
                    /\ disk.rootfs => disk'.rootfs
<1>2. CASE UNCHANGED disk
  BY <1>2
<1>3. ASSUME NEW w \in Workers, Transform(w) PROVE Kept1
  <2>1. CASE Pause(w) \/ StatBundle(w) \/ MkBundle(w)
    BY <1>1, <2>1 DEF Pause, StatBundle, MkBundle, Disks
  <2>2. CASE SaveConfig(w) \/ CopyNetworkFiles(w)
    BY <1>1, <2>2 DEF SaveConfig, CopyNetworkFiles, WriteFile, Disks
  <2>3. CASE GenerateRootFs(w)
    BY <1>1, <2>3 DEF GenerateRootFs, PrepareRootfs, Disks
  <2>4. CASE PrepareShm(w)
    <3>1. \/ disk' = [disk EXCEPT !.bundle = TRUE, !.shm = @ + 1]
          \/ disk' = [disk EXCEPT !.bundle = TRUE] \/ disk' = disk
      BY <2>4, Zenon DEF PrepareShm
    <3> QED
      BY <1>1, <3>1 DEF Disks
  <2>5. CASE TransformRWLayer(w)
    BY <1>1, <2>5 DEF TransformRWLayer, CopyLayer, MountRootFs, CopyChanges,
       Umount, UmountAfterError, UmountRootFs, SwitchOperation, Disks
  <2>6. CASE LcrCreate(w)
    <3>1. \/ disk' = [disk EXCEPT !.bundle = TRUE, !.files = @ \cup {"lcr"}]
          \/ disk' = disk
      BY <2>6, Zenon DEF LcrCreate
    <3> QED
      BY <1>1, <3>1 DEF Disks
  <2>7. CASE RegisterLen(w) \/ RegisterElem(w) \/ Succeed(w)
    BY <2>7 DEF RegisterLen, RegisterElem, Succeed
  <2>8. CASE StatHostCfg(w) \/ StatV2Cfg(w) \/ StatOciCfg(w)
    BY <2>8 DEF StatHostCfg, StatV2Cfg, StatOciCfg, StatPath
  <2> QED
    BY <1>3, <2>1, <2>2, <2>3, <2>4, <2>5, <2>6, <2>7, <2>8 DEF Transform
<1> QED
  BY <1>2, <1>3 DEF Next, RollbackStep, R!Goroutines, vars

LEMMA RemovesOnlyUnmounted ==
  ASSUME OneWorker, IInv, [Next]_vars, ~cancelled,
         disk.files # {}, disk'.files = {}
  PROVE  disk.shm = prior.shm \/ "shm" \in undoErr
<1>1. PICK w \in Workers, g \in {"owner", "waiter"} : Undo(w, g)
  BY ForwardKeeps DEF vars
<1>2. /\ idx[w][g] \in 1..3 /\ idx[w][g] <= stored[w]
      /\ g = "owner" /\ retErr[w] /\ Owner(w) = "loop"
  BY <1>1, UndoFacts
<1>3. /\ disk \in Disks /\ prior \in Disks /\ stored[w] \in 0..3
      /\ Place(w) /\ Entry(w) /\ Unwinding(w) /\ WellFormed(prior)
  BY RollbackFacts DEF WorkerInv, IInv
<1>4. Past(w, "statBundle")
  <2>1. Registered(w) >= 1
    BY <1>2, <1>3 DEF Place
  <2>2. Rank[next[w]] > 3
    BY <2>1 DEF Registered, Past, Rank
  <2>3. Rank[next[w]] \in Nat
    BY RollbackFacts DEF Rank, Steps, After
  <2> QED
    BY <2>2, <2>3 DEF Past, Rank
<1>5. prior.shm = 0
  BY <1>3, <1>4 DEF Entry, WellFormed
<1>6. idx[w][g] = 1
  <2>1. idx[w][g] # 3
    BY <1>1, UndoShm
  <2>2. idx[w][g] # 2
    BY <1>1, UndoStorage
  <2> QED
    BY <1>2, <2>1, <2>2
<1>7. Left(w) = 1
  BY <1>2, <1>6 DEF Left
<1> QED
  BY <1>2, <1>3, <1>4, <1>5, <1>7 DEF Unwinding

LEMMA RemovesRootFsUnmounted ==
  ASSUME OneWorker, IInv, [Next]_vars,
         disk.mounted, disk.rootfs, ~disk'.rootfs
  PROVE  cancelled \/ prior.mounted \/ "umount" \in undoErr
<1>1. PICK w \in Workers, g \in {"owner", "waiter"} : Undo(w, g)
  BY ForwardKeeps DEF vars
<1>2. cancelled \/ Owner(w) = "loop"
  BY <1>1, UndoFacts
<1>3. MountInv(w)
  BY RollbackFacts DEF WorkerInv
<1> QED
  BY <1>2, <1>3 DEF MountInv
=============================================================================
