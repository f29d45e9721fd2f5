------------------------------ MODULE Rollback ------------------------------
(***************************************************************************)
(* transform/docker/rollback.go: one rollback instance per container that  *)
(* is transformed.  Two goroutines share an instance without a lock:       *)
(*   - the owner, which runs transform(): it calls wait(), registers undo  *)
(*     functions as it goes, and on its way out calls run() if it failed,  *)
(*     then close();                                                       *)
(*   - the waiter, which wait() starts: it selects between the context a   *)
(*     signal cancels, where it calls run() itself, and the close channel. *)
(* All instances share the context and the WaitGroup.                      *)
(*                                                                         *)
(* Operators with _ in their name are mutants: bugs a change to this code  *)
(* could introduce, each shown to break a property.                        *)
(***************************************************************************)
EXTENDS Integers, FiniteSets

CONSTANTS
  Rbs,             \* the rollback instances
  MaxFuncs         \* bound: functions one instance registers (3 in docker.go)

ASSUME RbsAssumption == IsFiniteSet(Rbs)
ASSUME MaxFuncsAssumption == MaxFuncs \in Nat

Goroutines == {"owner", "waiter"}
NoRun == -1

VARIABLES
  cancelled,       \* ctx.Done() is closed
  wg,              \* the counter of the shared sync.WaitGroup
  executed,        \* executed[r]: *rb.st == executed
  closed,          \* closed[r]: rb.closed
  closeCh,         \* closeCh[r]: the channel holds the value close() sent
  length,          \* length[r]: len(rb.rbFuncs)
  stored,          \* stored[r]: how many elements of rb.rbFuncs are written
  retErr,          \* retErr[r]: the owner leaves transform() with an error
  pc,              \* pc[r][g]: where goroutine g of r is
  idx,             \* idx[r][g]: number of the function its run() calls next
  crashed,         \* a nil function was called: the process has panicked
  \* History, for the properties only.
  from,            \* from[r][g]: the length its run() started at, or NoRun
  called,          \* called[r][g]: the functions its run() has called
  atCancel         \* atCancel[r]: functions registered when ctx was cancelled,
                   \* and whether the owner had returned from close()

progVars == <<cancelled, wg, executed, closed, closeCh, length, stored,
              retErr, pc, idx, crashed>>
vars == <<progVars, from, called, atCancel>>

OwnerPC == {"new", "open", "torn", "check", "store", "len", "loop",
            "exit", "done"}
WaiterPC == {"none", "select", "check", "store", "len", "loop", "exit", "done"}

TypeOK ==
  /\ cancelled \in BOOLEAN
  /\ wg \in 0..Cardinality(Rbs)
  /\ executed \in [Rbs -> BOOLEAN]
  /\ closed \in [Rbs -> BOOLEAN]
  /\ closeCh \in [Rbs -> BOOLEAN]
  /\ length \in [Rbs -> 0..MaxFuncs]
  /\ stored \in [Rbs -> 0..MaxFuncs]
  /\ retErr \in [Rbs -> BOOLEAN]
  /\ pc \in [Rbs -> [Goroutines -> OwnerPC \cup WaiterPC]]
  /\ \A r \in Rbs : pc[r]["owner"] \in OwnerPC /\ pc[r]["waiter"] \in WaiterPC
  /\ idx \in [Rbs -> [Goroutines -> 0..MaxFuncs]]
  /\ crashed \in BOOLEAN
  /\ from \in [Rbs -> [Goroutines -> {NoRun} \cup 0..MaxFuncs]]
  /\ called \in [Rbs -> [Goroutines -> SUBSET (1..MaxFuncs)]]
  /\ atCancel \in [Rbs -> [registered : 0..MaxFuncs, closed : BOOLEAN]]

Init ==
  /\ cancelled = FALSE
  /\ wg = 0
  /\ executed = [r \in Rbs |-> FALSE]
  /\ closed = [r \in Rbs |-> FALSE]
  /\ closeCh = [r \in Rbs |-> FALSE]
  /\ length = [r \in Rbs |-> 0]
  /\ stored = [r \in Rbs |-> 0]
  /\ retErr = [r \in Rbs |-> FALSE]
  /\ pc = [r \in Rbs |-> [g \in Goroutines |->
                            IF g = "owner" THEN "new" ELSE "none"]]
  /\ idx = [r \in Rbs |-> [g \in Goroutines |-> 0]]
  /\ crashed = FALSE
  /\ from = [r \in Rbs |-> [g \in Goroutines |-> NoRun]]
  /\ called = [r \in Rbs |-> [g \in Goroutines |-> {}]]
  /\ atCancel = [r \in Rbs |-> [registered |-> 0, closed |-> FALSE]]

At(r, g, label) == ~crashed /\ pc[r][g] = label
Goto(r, g, label) == pc' = [pc EXCEPT ![r][g] = label]
-----------------------------------------------------------------------------
(* The context.  Only the first signal is received, once.                  *)

Cancel ==
  /\ ~crashed
  /\ ~cancelled
  /\ cancelled' = TRUE
  /\ atCancel' = [r \in Rbs |-> [registered |-> stored[r],
                                 closed |-> pc[r]["owner"] = "done"]]
  /\ UNCHANGED <<wg, executed, closed, closeCh, length, stored, retErr, pc,
                 idx, crashed, from, called>>
-----------------------------------------------------------------------------
(* The owner.                                                              *)

Wait_NoAdd(r) ==
  /\ At(r, "owner", "new")
  /\ pc' = [pc EXCEPT ![r]["owner"] = "open", ![r]["waiter"] = "select"]
  /\ UNCHANGED <<cancelled, wg, executed, closed, closeCh, length, stored,
                 retErr, idx, crashed, from, called, atCancel>>

Wait(r) ==
  /\ At(r, "owner", "new")
  /\ wg' = wg + 1
  /\ pc' = [pc EXCEPT ![r]["owner"] = "open", ![r]["waiter"] = "select"]
  /\ UNCHANGED <<cancelled, executed, closed, closeCh, length, stored, retErr,
                 idx, crashed, from, called, atCancel>>

\* append(rb.rbFuncs, f) is compiled in place: the new length is written
\* before the element, so a concurrent run() can find a nil function there.
RegisterLen(r) ==
  /\ At(r, "owner", "open")
  /\ length[r] < MaxFuncs
  /\ length' = [length EXCEPT ![r] = @ + 1]
  /\ Goto(r, "owner", "torn")
  /\ UNCHANGED <<cancelled, wg, executed, closed, closeCh, stored, retErr,
                 idx, crashed, from, called, atCancel>>

RegisterElem(r) ==
  /\ At(r, "owner", "torn")
  /\ stored' = [stored EXCEPT ![r] = length[r]]
  /\ Goto(r, "owner", "open")
  /\ UNCHANGED <<cancelled, wg, executed, closed, closeCh, length, retErr,
                 idx, crashed, from, called, atCancel>>

\* The deferred function of transform(): run() only if there is an error.
Leave(r, failed) ==
  /\ At(r, "owner", "open")
  /\ retErr' = [retErr EXCEPT ![r] = failed]
  /\ Goto(r, "owner", IF failed THEN "check" ELSE "exit")
  /\ UNCHANGED <<cancelled, wg, executed, closed, closeCh, length, stored,
                 idx, crashed, from, called, atCancel>>

\* The send never blocks (capacity 1, one send).  Closing the channel after
\* it only changes what a second receive would return, and there is none.
Close(r) ==
  /\ At(r, "owner", "exit")
  /\ closeCh' = [closeCh EXCEPT ![r] = TRUE]
  /\ Goto(r, "owner", "done")
  /\ UNCHANGED <<cancelled, wg, executed, closed, length, stored, retErr,
                 idx, crashed, from, called, atCancel>>
-----------------------------------------------------------------------------
(* run(), by either goroutine.  The state is checked, then stored, then    *)
(* the length is read, which is fixed for this run from there on.  Only    *)
(* the waiter writes "closed", on its way out, so the check is one step.   *)

MustNotRun_Unguarded(r) == FALSE
MustNotRun(r) == closed[r] \/ executed[r]

FirstCall_SkipsLast(r) == length[r] - 1
FirstCall_PastEnd(r) == length[r] + 1
FirstCall(r) == length[r]

NextCall_Twice(i) == i - 2
NextCall(i) == i - 1

RunCheck(r, g) ==
  /\ At(r, g, "check")
  /\ Goto(r, g, IF MustNotRun(r) THEN "exit" ELSE "store")
  /\ UNCHANGED <<cancelled, wg, executed, closed, closeCh, length, stored,
                 retErr, idx, crashed, from, called, atCancel>>

RunStore(r, g) ==
  /\ At(r, g, "store")
  /\ executed' = [executed EXCEPT ![r] = TRUE]
  /\ Goto(r, g, "len")
  /\ UNCHANGED <<cancelled, wg, closed, closeCh, length, stored, retErr, idx,
                 crashed, from, called, atCancel>>

RunLen(r, g) ==
  /\ At(r, g, "len")
  /\ idx' = [idx EXCEPT ![r][g] = FirstCall(r)]
  /\ from' = [from EXCEPT ![r][g] = length[r]]
  /\ Goto(r, g, IF FirstCall(r) <= 0 THEN "exit" ELSE "loop")
  /\ UNCHANGED <<cancelled, wg, executed, closed, closeCh, length, stored,
                 retErr, crashed, called, atCancel>>

RunCall(r, g) ==
  /\ At(r, g, "loop")
  /\ idx[r][g] <= stored[r]
  /\ called' = [called EXCEPT ![r][g] = @ \cup {idx[r][g]}]
  /\ idx' = [idx EXCEPT ![r][g] = NextCall(@)]
  /\ Goto(r, g, IF NextCall(idx[r][g]) <= 0 THEN "exit" ELSE "loop")
  /\ UNCHANGED <<cancelled, wg, executed, closed, closeCh, length, stored,
                 retErr, crashed, from, atCancel>>

RunCallNil(r, g) ==
  /\ At(r, g, "loop")
  /\ idx[r][g] > stored[r]
  /\ crashed' = TRUE
  /\ UNCHANGED <<cancelled, wg, executed, closed, closeCh, length, stored,
                 retErr, pc, idx, from, called, atCancel>>

Run(r, g) ==
  \/ RunCheck(r, g) \/ RunStore(r, g) \/ RunLen(r, g)
  \/ RunCall(r, g) \/ RunCallNil(r, g)
-----------------------------------------------------------------------------
(* The waiter.  With both channels ready, select takes either.             *)

SelectCancel_AfterClose(r) ==
  /\ At(r, "waiter", "select")
  /\ cancelled /\ closeCh[r]
  /\ Goto(r, "waiter", "check")
  /\ UNCHANGED <<cancelled, wg, executed, closed, closeCh, length, stored,
                 retErr, idx, crashed, from, called, atCancel>>

SelectCancel(r) ==
  /\ At(r, "waiter", "select")
  /\ cancelled
  /\ Goto(r, "waiter", "check")
  /\ UNCHANGED <<cancelled, wg, executed, closed, closeCh, length, stored,
                 retErr, idx, crashed, from, called, atCancel>>

SelectClose(r) ==
  /\ At(r, "waiter", "select")
  /\ closeCh[r]
  /\ closeCh' = [closeCh EXCEPT ![r] = FALSE]
  /\ closed' = [closed EXCEPT ![r] = TRUE]
  /\ Goto(r, "waiter", "exit")
  /\ UNCHANGED <<cancelled, wg, executed, length, stored, retErr, idx,
                 crashed, from, called, atCancel>>

WgDone(r) ==
  /\ At(r, "waiter", "exit")
  /\ wg' = wg - 1
  /\ Goto(r, "waiter", "done")
  /\ UNCHANGED <<cancelled, executed, closed, closeCh, length, stored, retErr,
                 idx, crashed, from, called, atCancel>>
-----------------------------------------------------------------------------
Owner(r) ==
  \/ Wait(r)
  \/ RegisterLen(r)
  \/ RegisterElem(r)
  \/ \E failed \in BOOLEAN : Leave(r, failed)
  \/ Run(r, "owner")
  \/ Close(r)

Waiter(r) ==
  \/ SelectCancel(r)
  \/ SelectClose(r)
  \/ Run(r, "waiter")
  \/ WgDone(r)

OwnerDone(r) == pc[r]["owner"] = "done"
WaiterDone(r) == pc[r]["waiter"] = "done"
Finished == \A r \in Rbs : OwnerDone(r) /\ WaiterDone(r)

\* Both goroutines of every instance have returned, or the process is gone.
Terminated == (crashed \/ Finished) /\ UNCHANGED vars

Next ==
  \/ Cancel
  \/ \E r \in Rbs : Owner(r) \/ Waiter(r)
  \/ Terminated

Spec == Init /\ [][Next]_vars

\* The Go scheduler runs every goroutine that can run.  No signal need come.
Fairness == \A r \in Rbs : WF_vars(Owner(r)) /\ WF_vars(Waiter(r))
FairSpec == Spec /\ Fairness

\* The same without assuming that transform() ever gets any further: the
\* container engine and the external commands it calls may hang.
WaiterFairSpec == Spec /\ \A r \in Rbs : WF_vars(Waiter(r))
-----------------------------------------------------------------------------
Undone(r) == called[r]["owner"] \cup called[r]["waiter"]

(* Check-then-store lets owner and waiter both get into run().  It is      *)
(* harmless only because both then start from the complete function list,  *)
(* and so undo the same things: the owner reaches its check after its last *)
(* register.                                                               *)
DoubleRunAgrees ==
  \A r \in Rbs :
    (\A g \in Goroutines : from[r][g] # NoRun)
      => \A g \in Goroutines : from[r][g] = length[r]

(* Without a signal rollback is exact: the owner that failed has undone    *)
(* everything it registered, the owner that succeeded nothing, and the     *)
(* waiter never undoes anything.                                           *)
UnsignalledIsExact ==
  \A r \in Rbs : (~cancelled /\ OwnerDone(r)) =>
    /\ called[r]["waiter"] = {}
    /\ called[r]["owner"] = IF retErr[r] THEN 1..length[r] ELSE {}

(* No undo is lost: once both goroutines of an instance are gone, if its   *)
(* transformation failed or the waiter saw the signal, everything that was *)
(* registered by then is undone -- by the time of the signal if there was  *)
(* one, else at all.                                                       *)
AbortUndoesRegistered ==
  \A r \in Rbs :
    (OwnerDone(r) /\ WaiterDone(r) /\ (retErr[r] \/ ~closed[r])) =>
      1..(IF cancelled THEN atCancel[r].registered ELSE length[r])
        \subseteq Undone(r)

(* What Transform() relies on when it calls signalWg.Wait() after every    *)
(* owner has returned: at zero no waiter is left that could undo anything. *)
WaitCoversUndo ==
  ((\A r \in Rbs : OwnerDone(r)) /\ wg = 0) => \A r \in Rbs : WaiterDone(r)

(* The nil call needs three parties: a signal, a waiter that is in run(),  *)
(* and an owner between the two writes of the append it caught.            *)
CrashOnlyInTornRegister ==
  crashed => /\ cancelled
             /\ \E r \in Rbs : /\ pc[r]["owner"] = "torn"
                               /\ from[r]["waiter"] = length[r]
                               /\ called[r]["waiter"] = {}

(* A run, once started, never restarts and never skips a function: what a  *)
(* step undoes is the function right below the one undone before.          *)
UndoesDownward ==
  [][\A r \in Rbs : \A g \in Goroutines :
       called'[r][g] # called[r][g] =>
         called'[r][g] \ called[r][g]
           = {from[r][g] - Cardinality(called[r][g])}]_vars

(* rollback_test.go, "Test rollback with close": after close() a cancel    *)
(* runs nothing.                                                           *)
CloseThenCancelRunsNothing ==
  \A r \in Rbs :
    (atCancel[r].closed /\ ~retErr[r]) => Undone(r) = {}

(* Every goroutine returns in the end: no waiter is left on its select and *)
(* no owner on the close channel.                                          *)
Termination == <>(crashed \/ Finished)

(* A signal gets every waiter out of its select and through its undo       *)
(* functions, whether or not the owner ever moves again.                   *)
SignalReleasesWaiters ==
  \A r \in Rbs : (cancelled /\ pc[r]["waiter"] = "select")
                   ~> (crashed \/ WaiterDone(r))

(* Each instance implements the undo log, whoever executes it and however  *)
(* many times.                                                             *)
Sealed(r) == IF from[r]["owner"] >= from[r]["waiter"] THEN from[r]["owner"]
                                                      ELSE from[r]["waiter"]
U(r) == INSTANCE UndoLog WITH registered <- length[r],
                              sealed <- Sealed(r),
                              undone <- Undone(r)
ImplementsUndoLog ==
  /\ \A r \in Rbs : U(r)!Init
  /\ [][\A r \in Rbs : [U(r)!Next]_(U(r)!vars)]_vars
=============================================================================
