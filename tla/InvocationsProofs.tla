------------------------- MODULE InvocationsProofs -------------------------
(***************************************************************************)
(* Proofs about Invocations: what holds of the container's host however    *)
(* often isula-transform is run, killed and run again.                     *)
(***************************************************************************)
EXTENDS Invocations, PipelineProofs

(* The invariant of the pipeline; docker's pause stays; the waiters are    *)
(* counted; and a container that was transformed was complete when this    *)
(* invocation started.                                                     *)
HostInv == /\ IInv
           /\ PausedInv
           /\ P!WgCounts
           /\ transformed => Complete(prior)
-----------------------------------------------------------------------------
(* A new process.                                                          *)

LEMMA NewProcessInit == NewProcess => R!Init'
<1> SUFFICES ASSUME NewProcess PROVE R!Init'
  OBVIOUS
<1> USE DEF NewProcess, All, R!Goroutines, R!NoRun
<1>1. pc' = [r \in Workers |-> [g \in R!Goroutines |->
                                 IF g = "owner" THEN "new" ELSE "none"]]
  OBVIOUS
<1>2. idx' = [r \in Workers |-> [g \in R!Goroutines |-> 0]]
  OBVIOUS
<1>3. from' = [r \in Workers |-> [g \in R!Goroutines |-> R!NoRun]]
  OBVIOUS
<1>4. called' = [r \in Workers |-> [g \in R!Goroutines |-> {}]]
  OBVIOUS
<1> QED
  BY <1>1, <1>2, <1>3, <1>4 DEF R!Init

LEMMA RollbackStarts == R!Init => P!IInv /\ P!WgCounts
<1> SUFFICES ASSUME R!Init PROVE P!IInv /\ P!WgCounts
  OBVIOUS
<1>1. P!Init
  BY DEF R!Init, P!Init, R!NoRun, P!NoRun, R!Goroutines, P!Goroutines
<1> QED
  BY <1>1, RollbackInit, FiniteWorkers, P!WgInit

LEMMA NewRollback == NewProcess => P!IInv' /\ P!WgCounts'
<1>1. (R!Init => P!IInv /\ P!WgCounts)'
  BY RollbackStarts, PTL
<1> QED
  BY <1>1, NewProcessInit

(* FreshWorker of every worker, as one formula that can be primed. *)
FreshHost == /\ HostTyped /\ WellFormed(disk) /\ prior = disk
             /\ \A w \in Workers : /\ Owner(w) = "new" /\ next[w] = "pause"
                                   /\ stored[w] = 0 /\ ~retErr[w]
                                   /\ ~atCancel[w].closed

LEMMA FreshInv == FreshHost => \A w \in Workers : WorkerInv(w)
  BY FreshWorker DEF FreshHost

(* A bundle that was there at the start is not touched, so a host that was *)
(* complete stays so.                                                      *)
LEMMA StaysComplete ==
  ASSUME OneWorker, IInv, Complete(prior) PROVE Complete(disk)
<1>1. PICK w : Workers = {w}
  BY DEF OneWorker
<1>2. Entry(w) /\ prior \in Disks /\ disk \in Disks
  BY <1>1, RollbackFacts DEF WorkerInv
<1>3. ~Past(w, "statBundle")
  BY <1>2 DEF Entry, Complete
<1> QED
  BY <1>2, <1>3 DEF Entry, Complete, Disks

LEMMA NewInvocationStep ==
  ASSUME OneWorker, HostInv, NewInvocation PROVE HostInv'
<1>1. FreshHost'
  <2>1. HostTyped'
    <3>1. disk' \in Disks /\ prior' \in Disks /\ driver' \in StorageDrivers
      BY DEF NewInvocation, HostInv, IInv, HostTyped
    <3>2. /\ next' \in [Workers -> Steps]
          /\ failedAt' \in [Workers -> Steps \cup {"none"}]
          /\ undoErr' = {}
      BY DEF NewInvocation, NewProcess, All, Steps, After
    <3> QED
      BY <3>1, <3>2 DEF HostTyped
  <2>2. WellFormed(disk)' /\ (prior = disk)'
    BY DEF NewInvocation, HostInv, IInv, WellFormed
  <2>3. ASSUME NEW w \in Workers
        PROVE  (/\ Owner(w) = "new" /\ next[w] = "pause"
                /\ stored[w] = 0 /\ ~retErr[w] /\ ~atCancel[w].closed)'
    BY DEF NewInvocation, NewProcess, All, Owner
  <2> QED
    BY <2>1, <2>2, <2>3 DEF FreshHost
<1>2. \A w \in Workers : WorkerInv(w)'
  <2>1. (FreshHost => \A w \in Workers : WorkerInv(w))'
    BY FreshInv, PTL
  <2> QED
    BY <1>1, <2>1
<1>3. WellFormed(prior)'
  BY <1>1 DEF FreshHost
<1>4. P!IInv' /\ P!WgCounts'
  BY NewRollback DEF NewInvocation
<1>5. transformed' => Complete(prior)'
  <2>1. Complete(prior)' <=> Complete(disk)
    BY DEF NewInvocation, Complete
  <2>2. ASSUME NEW w \in Workers, R!Finished, ~cancelled, ~retErr[w]
        PROVE  Complete(disk)
    BY <2>2, SuccessFacts DEF HostInv, SuccessIsComplete, R!Finished
  <2>3. transformed => Complete(disk)
    BY StaysComplete DEF HostInv
  <2> QED
    BY <2>1, <2>2, <2>3 DEF NewInvocation, Succeeded
<1>6. PausedInv'
  BY <1>1 DEF FreshHost, PausedInv
<1> QED
  BY <1>1, <1>2, <1>3, <1>4, <1>5, <1>6 DEF HostInv, IInv, FreshHost

LEMMA WorkStep == ASSUME OneWorker, HostInv, [Work]_varsI PROVE HostInv'
<1>1. [Next]_vars /\ (prior' = prior) /\ (transformed' = transformed)
  <2>1. [Next]_vars /\ UNCHANGED transformed
    BY DEF Work, varsI
  <2> QED
    BY <2>1, GivenKept DEF vars, given
<1>2. IInv'
  BY <1>1, InvStep DEF HostInv
<1>3. P!WgCounts'
  <2>1. P!Next \/ UNCHANGED P!vars
    BY <1>1, RollbackNext DEF vars, rbVars, P!vars, P!progVars
  <2> QED
    BY <1>2, <2>1, FiniteWorkers, P!WgStep DEF HostInv, IInv, P!IInv
<1>4. transformed' => Complete(prior)'
  BY <1>1 DEF HostInv, Complete
<1>5. PausedInv'
  BY <1>1, PausedStep DEF HostInv
<1> QED
  BY <1>2, <1>3, <1>4, <1>5 DEF HostInv

(* HostInv holds in every state of every sequence of invocations: a new    *)
(* process starts from any host, so any host satisfies what IInv asks of   *)
(* the first state.                                                        *)
THEOREM HostInvariant == ASSUME OneWorker PROVE SpecI => []HostInv
<1>1. InitI => HostInv
  <2> SUFFICES ASSUME InitI PROVE HostInv
    OBVIOUS
  <2>1. IInv /\ P!WgCounts
    BY InitInv, RollbackStarts DEF InitI, Init
  <2>2. PausedInv
    BY DEF InitI, Init, PausedInv
  <2> QED
    BY <2>1, <2>2 DEF InitI, HostInv
<1>2. HostInv /\ [NextI]_varsI => HostInv'
  BY NewInvocationStep, WorkStep DEF NextI
<1> QED
  BY <1>1, <1>2, PTL DEF SpecI
-----------------------------------------------------------------------------
(* TypeOK of the run.  Beyond the types: signalWg stays between 0 and the  *)
(* number of waiters, and no invocation stacks a second tmpfs on the first,*)
(* both of which rest on HostInv.                                          *)
THEOREM TypeCorrect == ASSUME OneWorker PROVE SpecI => []TypeOK
<1>1. HostInv => TypeOK
  BY TypeFacts DEF HostInv
<1> QED
  BY <1>1, HostInvariant, PTL

(* transform(): whatever step failed, the undo functions its deferred      *)
(* function runs undo what the steps before had made (docker.go:221-281),  *)
(* in every invocation and from whatever host it starts, but for the two   *)
(* things the property names, which have no undo function; and one that    *)
(* fails itself does not keep the others from undoing their parts.         *)
THEOREM FailedIsUndone ==
  ASSUME OneWorker PROVE SpecI => []FailureIsUndone
<1>1. HostInv => FailureIsUndone
  BY FailureFacts DEF HostInv
<1> QED
  BY <1>1, HostInvariant, PTL

(* transform() returns nil only for a complete container (docker.go:281).  *)
THEOREM SucceededIsComplete ==
  ASSUME OneWorker PROVE SpecI => []SuccessIsComplete
<1>1. HostInv => SuccessIsComplete
  BY SuccessFacts DEF HostInv
<1> QED
  BY <1>1, HostInvariant, PTL

(* A signal between the success and the close of the channel: the waiter's *)
(* select takes one case, and run() undoes all or nothing (rollback.go:46).*)
THEOREM LateSignal ==
  ASSUME OneWorker PROVE SpecI => []LateSignalIsAllOrNothing
<1>1. HostInv => LateSignalIsAllOrNothing
  BY LateSignalFacts DEF HostInv
<1> QED
  BY <1>1, HostInvariant, PTL

(* devicemapper.go:118: the deferred umount, on both ways out.             *)
THEOREM MountReleased == ASSUME OneWorker PROVE SpecI => []MountIsReleased
<1>1. HostInv => MountIsReleased
  BY MountFacts DEF HostInv
<1> QED
  BY <1>1, HostInvariant, PTL

(* A container once transformed is not harmed by any later invocation.     *)
THEOREM SuccessStays == ASSUME OneWorker PROVE SpecI => []SuccessIsForever
<1>1. HostInv => SuccessIsForever
  BY StaysComplete DEF HostInv, SuccessIsForever
<1> QED
  BY <1>1, HostInvariant, PTL

(* The undo functions run from the last registered one down, so the tmpfs  *)
(* is unmounted before the directory it is mounted in is emptied.          *)
THEOREM UnmountsFirst == ASSUME OneWorker PROVE SpecI => UnmountedBeforeRemoved
<1>1. HostInv /\ [NextI]_varsI =>
        [(~cancelled /\ disk.files # {} /\ disk'.files = {}) =>
           disk.shm = prior.shm \/ "shm" \in undoErr]_vars
  <2> SUFFICES ASSUME HostInv, [NextI]_varsI, ~cancelled, disk.files # {},
                      disk'.files = {}
               PROVE  disk.shm = prior.shm \/ "shm" \in undoErr
    OBVIOUS
  <2>1. [Next]_vars
    BY DEF NextI, Work, NewInvocation, varsI
  <2> QED
    BY <2>1, RemovesOnlyUnmounted DEF HostInv
<1> QED
  BY <1>1, HostInvariant, PTL DEF SpecI, UnmountedBeforeRemoved

(* Without a signal the rootfs is removed only after its umount.           *)
THEOREM RemovesUnmounted == ASSUME OneWorker PROVE SpecI => RemovedUnmounted
<1>1. HostInv /\ [NextI]_varsI =>
        [(disk.mounted /\ disk.rootfs /\ ~disk'.rootfs) =>
           cancelled \/ prior.mounted \/ "umount" \in undoErr]_vars
  <2> SUFFICES ASSUME HostInv, [NextI]_varsI, disk.mounted, disk.rootfs,
                      ~disk'.rootfs
               PROVE  cancelled \/ prior.mounted \/ "umount" \in undoErr
    OBVIOUS
  <2>1. [Next]_vars
    BY DEF NextI, Work, NewInvocation, varsI
  <2> QED
    BY <2>1, RemovesRootFsUnmounted DEF HostInv
<1> QED
  BY <1>1, HostInvariant, PTL DEF SpecI, RemovedUnmounted
-----------------------------------------------------------------------------
(* A bundle left by an earlier invocation, for any number of workers.      *)

Hosts == [bundle : BOOLEAN, files : SUBSET Files, shm : Int, rootfs : BOOLEAN,
          rw : BOOLEAN, mounted : BOOLEAN, paused : BOOLEAN]

(* No worker gets past PrepareBundleDir, so there is nothing to undo.      *)
PriorInv == /\ P!IInv
            /\ disk \in Hosts /\ prior \in Hosts /\ DOMAIN next = Workers
            /\ prior.bundle =>
                 /\ disk.bundle
                 /\ \A w \in Workers : /\ next[w] \in {"pause", "statBundle"}
                                       /\ length[w] = 0

LEMMA NothingRegistered ==
  ASSUME PriorInv, prior.bundle, NEW w \in Workers
  PROVE  /\ next[w] \in {"pause", "statBundle"} /\ pc[w]["owner"] # "torn"
         /\ \A g \in {"owner", "waiter"} : ~Undo(w, g)
<1>1. /\ P!SliceInv(w) /\ length[w] = 0 /\ stored[w] \in 0..3
      /\ next[w] \in {"pause", "statBundle"}
      /\ \A g \in {"owner", "waiter"} : P!RunInv(w, g)
  BY DEF PriorInv, P!IInv, P!RbInv, P!Typed, P!Goroutines
<1>2. pc[w]["owner"] # "torn"
  BY <1>1 DEF P!SliceInv
<1>3. ASSUME NEW g \in {"owner", "waiter"}, Undo(w, g) PROVE FALSE
  <2>1. pc[w][g] = "loop" /\ idx[w][g] \in 0..3 /\ from[w][g] \in {-1} \cup 0..3
    BY <1>3 DEF Undo, R!RunCall, R!At, PriorInv, P!IInv, P!Typed,
       P!Goroutines, P!NoRun
  <2> QED
    BY <1>1, <2>1 DEF P!RunInv, P!NoRun
<1> QED
  BY <1>1, <1>2, <1>3

LEMMA PriorTyped ==
  ASSUME PriorInv, Next PROVE disk' \in Hosts /\ DOMAIN next' = Workers
<1>1. disk \in Hosts /\ DOMAIN next = Workers
  BY DEF PriorInv
<1>2. CASE UNCHANGED <<disk, next>>
  BY <1>1, <1>2
<1>3. ASSUME NEW w \in Workers, Transform(w)
      PROVE  disk' \in Hosts /\ DOMAIN next' = Workers
  <2>1. DOMAIN next' = Workers
    <3>1. PrepareShm(w) => Proceed(w) \/ Fail(w)
      BY Zenon DEF PrepareShm
    <3>2. LcrCreate(w) => Proceed(w) \/ Fail(w)
      BY Zenon DEF LcrCreate
    <3> USE <1>1 DEF Proceed, Goto, Fail, Leave
    <3>3. CASE Pause(w) \/ StatBundle(w) \/ MkBundle(w)
      BY <3>3 DEF Pause, StatBundle, MkBundle
    <3>4. CASE RegisterLen(w) \/ RegisterElem(w) \/ Succeed(w)
      BY <3>4 DEF RegisterLen, RegisterElem, Succeed
    <3>5. CASE StatHostCfg(w) \/ StatV2Cfg(w) \/ StatOciCfg(w)
      BY <3>5 DEF StatHostCfg, StatV2Cfg, StatOciCfg, StatPath
    <3>6. CASE SaveConfig(w) \/ CopyNetworkFiles(w) \/ GenerateRootFs(w)
      BY <3>6 DEF SaveConfig, CopyNetworkFiles, WriteFile, GenerateRootFs
    <3>7. CASE TransformRWLayer(w)
      BY <3>7 DEF TransformRWLayer, CopyLayer, MountRootFs, CopyChanges,
         Umount, UmountAfterError
    <3> QED
      BY <1>3, <3>1, <3>2, <3>3, <3>4, <3>5, <3>6, <3>7 DEF Transform
  <2>2. disk' \in Hosts
    <3>1. CASE Pause(w) \/ StatBundle(w) \/ MkBundle(w)
      BY <1>1, <3>1 DEF Pause, StatBundle, MkBundle, Hosts
    <3>2. CASE SaveConfig(w) \/ CopyNetworkFiles(w)
      BY <1>1, <3>2 DEF SaveConfig, CopyNetworkFiles, WriteFile, OnStep,
         FileOf, Files, Hosts
    <3>3. CASE GenerateRootFs(w)
      BY <1>1, <3>3 DEF GenerateRootFs, PrepareRootfs, Hosts
    <3>4. CASE PrepareShm(w)
      <4>1. \/ disk' = [disk EXCEPT !.bundle = TRUE, !.shm = @ + 1]
            \/ disk' = [disk EXCEPT !.bundle = TRUE] \/ disk' = disk
        BY <3>4, Zenon DEF PrepareShm
      <4>2. disk.shm + 1 \in Int
        BY <1>1 DEF Hosts
      <4>3. ASSUME NEW n \in Int
            PROVE  [disk EXCEPT !.bundle = TRUE, !.shm = n] \in Hosts
        BY <1>1, Zenon DEF Hosts
      <4>4. [disk EXCEPT !.bundle = TRUE, !.shm = @ + 1]
              = [disk EXCEPT !.bundle = TRUE, !.shm = disk.shm + 1]
        BY <1>1 DEF Hosts
      <4>5. [disk EXCEPT !.bundle = TRUE] \in Hosts
        BY <1>1 DEF Hosts
      <4> QED
        BY <1>1, <4>1, <4>2, <4>3, <4>4, <4>5
    <3>5. CASE TransformRWLayer(w)
      BY <1>1, <3>5 DEF TransformRWLayer, CopyLayer, MountRootFs, CopyChanges,
         Umount, UmountAfterError, UmountRootFs, SwitchOperation, Hosts
    <3>6. CASE LcrCreate(w)
      <4>1. \/ disk' = [disk EXCEPT !.bundle = TRUE, !.files = @ \cup {"lcr"}]
            \/ disk' = disk
        BY <3>6, Zenon DEF LcrCreate
      <4> QED
        BY <1>1, <4>1 DEF Hosts, Files
    <3>7. CASE RegisterLen(w) \/ RegisterElem(w) \/ Succeed(w)
      BY <1>1, <3>7 DEF RegisterLen, RegisterElem, Succeed
    <3>8. CASE StatHostCfg(w) \/ StatV2Cfg(w) \/ StatOciCfg(w)
      BY <1>1, <3>8 DEF StatHostCfg, StatV2Cfg, StatOciCfg, StatPath
    <3> QED
      BY <1>3, <3>1, <3>2, <3>3, <3>4, <3>5, <3>6, <3>7, <3>8 DEF Transform
  <2> QED
    BY <2>1, <2>2
<1>4. ASSUME NEW w \in Workers, NEW g \in {"owner", "waiter"}, Undo(w, g)
      PROVE  disk' \in Hosts /\ next' = next
  <2>1. idx[w][g] \in 1..3
    BY <1>4 DEF Undo, R!RunCall, R!At, PriorInv, P!IInv, P!RbInv, P!RunInv,
       P!Typed, P!Goroutines
  <2>2. UndoName[idx[w][g]] \in {"bundle", "storage", "shm"}
    BY <2>1 DEF UndoName
  <2>3. disk' \in {disk, RemoveBundle, CleanupRootFs, UnmountShm} /\ next' = next
    BY <1>4, <2>2 DEF Undo, Effect
  <2>4. RemoveBundle \in Hosts
    BY <1>1 DEF RemoveBundle, Hosts
  <2>5. CleanupRootFs \in Hosts
    BY <1>1 DEF CleanupRootFs, SwitchOperation, Hosts
  <2>6. UnmountShm \in Hosts
    <3>1. disk.shm - 1 \in Int
      BY <1>1 DEF Hosts
    <3>2. ASSUME NEW n \in Int PROVE [disk EXCEPT !.shm = n] \in Hosts
      BY <1>1, Zenon DEF Hosts
    <3>3. [disk EXCEPT !.shm = @ - 1] = [disk EXCEPT !.shm = disk.shm - 1]
      BY <1>1 DEF Hosts
    <3> QED
      BY <1>1, <3>1, <3>2, <3>3 DEF UnmountShm
  <2> QED
    BY <1>1, <2>3, <2>4, <2>5, <2>6
<1> QED
  BY <1>1, <1>2, <1>3, <1>4 DEF Next, RollbackStep, R!Goroutines, vars

(* With a bundle there the one thing a step does to the host is a pause.   *)
LEMMA RefusedStep ==
  ASSUME PriorInv, Next, prior.bundle
  PROVE  /\ disk' = disk \/ disk' = [disk EXCEPT !.paused = TRUE]
                         \/ \E took \in BOOLEAN :
                              disk' = [disk EXCEPT !.paused = @ \/ took]
         /\ \A w \in Workers : /\ next'[w] \in {"pause", "statBundle"}
                               /\ length'[w] = 0
<1> DEFINE Host == \/ disk' = disk \/ disk' = [disk EXCEPT !.paused = TRUE]
                   \/ \E took \in BOOLEAN :
                        disk' = [disk EXCEPT !.paused = @ \/ took]
           Stuck == \A w \in Workers : /\ next'[w] \in {"pause", "statBundle"}
                                       /\ length'[w] = 0
<1>1. /\ DOMAIN next = Workers /\ disk.bundle
      /\ \A w \in Workers : /\ next[w] \in {"pause", "statBundle"}
                            /\ length[w] = 0
  BY DEF PriorInv
<1>2. CASE UNCHANGED <<disk, next, length>>
  BY <1>1, <1>2
<1>3. ASSUME NEW w \in Workers, Transform(w) PROVE Host /\ Stuck
  <2>1. next[w] \in {"pause", "statBundle"} /\ pc[w]["owner"] # "torn"
    BY NothingRegistered
  <2>2. Pause(w) \/ StatBundle(w)
    BY <1>3, <2>1
       DEF Transform, MkBundle, RegisterLen, RegisterElem, R!RegisterElem, R!At,
       StatHostCfg, StatV2Cfg, StatOciCfg, SaveConfig, CopyNetworkFiles,
       GenerateRootFs, PrepareShm, TransformRWLayer, CopyLayer, MountRootFs,
       CopyChanges, Umount, UmountAfterError, LcrCreate, Succeed, OnStep
  <2>3. CASE Pause(w)
    BY <1>1, <2>3 DEF Pause, OnStep, Proceed, Goto, Fail, Leave, R!Leave,
       After, rbVars
  <2>4. CASE StatBundle(w)
    BY <1>1, <2>4 DEF StatBundle, OnStep, Fail, Leave, R!Leave
  <2> QED
    BY <2>2, <2>3, <2>4
<1>4. ASSUME NEW w \in Workers, RollbackStep(w)
      PROVE  UNCHANGED <<disk, next, length>>
  BY <1>4 DEF RollbackStep, R!Wait, R!Close, R!SelectCancel, R!SelectClose,
     R!WgDone, R!RunCheck, R!RunStore, R!RunLen, R!RunCallNil
<1> QED
  BY <1>2, <1>3, <1>4, NothingRegistered
     DEF Next, R!Goroutines, vars, rbVars, R!Cancel

LEMMA PriorStep == ASSUME PriorInv, [NextI]_varsI PROVE PriorInv'
<1>1. CASE [Next]_vars /\ ~NewInvocation
  <2>1. P!IInv'
    BY <1>1, RollbackStepInv DEF PriorInv
  <2>2. CASE Next
    <3>1. prior' = prior
      BY <2>2, GivenKept DEF given
    <3>2. ASSUME prior.bundle
          PROVE  /\ disk'.bundle
                 /\ \A w \in Workers : /\ next'[w] \in {"pause", "statBundle"}
                                       /\ length'[w] = 0
      <4>1. disk \in Hosts /\ disk.bundle
        BY <3>2 DEF PriorInv
      <4> QED
        BY <2>2, <3>2, <4>1, RefusedStep DEF Hosts
    <3> QED
      BY <2>1, <2>2, <3>1, <3>2, PriorTyped DEF PriorInv
  <2>3. CASE UNCHANGED vars
    BY <2>1, <2>3 DEF PriorInv, vars, given, rbVars
  <2> QED
    BY <1>1, <2>2, <2>3
<1>2. CASE NewInvocation
  <2>1. P!IInv'
    BY <1>2, NewRollback DEF NewInvocation
  <2>2. /\ disk' \in Hosts /\ prior' = disk' /\ DOMAIN next' = Workers
        /\ \A w \in Workers : next'[w] = "pause" /\ length'[w] = 0
    BY <1>2 DEF NewInvocation, NewProcess, All, PriorInv
  <2> QED
    BY <2>1, <2>2 DEF PriorInv
<1> QED
  BY <1>1, <1>2 DEF NextI, Work, varsI

(* PriorBundleUntouched, however many goroutines transform the container   *)
(* at a time: what SkipTransformed and the check in PrepareBundleDir are   *)
(* relied on for (isulad.go:159).                                          *)
THEOREM PriorBundleIsUntouched == SpecI => PriorBundleUntouched
<1>1. InitI => PriorInv
  <2> SUFFICES ASSUME InitI PROVE PriorInv
    OBVIOUS
  <2>1. P!IInv /\ DOMAIN next = Workers
    BY RollbackStarts DEF InitI, Init
  <2>2. disk \in Hosts /\ prior = disk /\ ~prior.bundle
    <3>1. Untouched \in Hosts
      BY DEF Untouched, Hosts
    <3>2. PICK paused \in BOOLEAN : disk = [Untouched EXCEPT !.paused = paused]
      BY DEF InitI, Init
    <3>3. ~Untouched.bundle
      BY DEF Untouched
    <3> QED
      BY <3>1, <3>2, <3>3 DEF InitI, Init, Hosts
  <2> QED
    BY <2>1, <2>2 DEF PriorInv
<1>2. PriorInv /\ [NextI]_varsI =>
        [prior.bundle => disk' = [disk EXCEPT !.paused = disk'.paused]]_vars
  <2> SUFFICES ASSUME PriorInv, [NextI]_varsI, prior.bundle
               PROVE  disk' = [disk EXCEPT !.paused = disk'.paused]
    OBVIOUS
  <2>1. disk \in Hosts
    BY DEF PriorInv
  <2>2. CASE disk' = disk
    BY <2>1, <2>2 DEF Hosts
  <2>3. CASE Next
    <3>1. CASE disk' = [disk EXCEPT !.paused = TRUE]
      BY <2>1, <3>1 DEF Hosts
    <3>2. ASSUME NEW took \in BOOLEAN, disk' = [disk EXCEPT !.paused = @ \/ took]
          PROVE  disk' = [disk EXCEPT !.paused = disk'.paused]
      BY <2>1, <3>2 DEF Hosts
    <3> QED
      BY <2>2, <2>3, <3>1, <3>2, RefusedStep
  <2> QED
    BY <2>2, <2>3 DEF NextI, Work, NewInvocation, varsI, vars
<1> QED
  BY <1>1, <1>2, PriorStep, PTL DEF SpecI, PriorBundleUntouched
=============================================================================
