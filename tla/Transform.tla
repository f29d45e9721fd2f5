----------------------------- MODULE Transform -----------------------------
(***************************************************************************)
(* One invocation, from the command line to the exit code: main.go, and    *)
(* dockerTransformer.Transform() and matchID() in docker.go.  After        *)
(* Startup, a worker goroutine per ID looks its container up, transforms   *)
(* it and sends one result on a bounded channel; main receives until the   *)
(* channel is closed.  What transform() does with its rollback instance is *)
(* Rollback's owner, at its coarsest: it registers some undo functions and *)
(* leaves with or without an error.                                        *)
(*                                                                         *)
(* Operators with _ in their name are mutants: bugs a change to this code  *)
(* could introduce, each shown to break a property.                        *)
(***************************************************************************)
EXTENDS Integers, FiniteSets, Sequences, Functions

CONSTANTS
  Names, Setups,   \* daemon.json and command lines, see Startup
  Workers,         \* one per ID; with --all, one per container
  Ctrs,            \* the containers found by Init(): sync.Map's keys
  Lookups,         \* what the given IDs can match, see "matches"
  MaxFuncs,        \* bound: undo functions registered by one transform()
  RetCap           \* capacity of retCh (maxConcurrentTransform)

ASSUME WorkersAssumption == IsFiniteSet(Workers)
ASSUME MaxFuncsAssumption == MaxFuncs \in Nat
ASSUME LookupsAssumption == Lookups \subseteq [Workers -> SUBSET Ctrs]
ASSUME RetCapAssumption == RetCap \in Nat \ {0}

Nobody == "nobody"
Statuses == {"notExist", "hasBeenTransformed", "needTransform"}
ASSUME CtrsAssumption == Nobody \notin Ctrs

VARIABLES
  cancelled, wg, executed, closed, closeCh, length, stored, retErr, pc, idx,
  crashed, from, called, atCancel,     \* those of Rollback; wg is signalWg
  setup, phase, tool, client, sd,      \* those of Startup
  matches,         \* matches[w]: containers whose ID has w's as a prefix
  marked,          \* marked[c]: the value of t.ctrs at c
  worker,          \* worker[w]: where the worker is
  found,           \* found[w]: the container matchID() stopped at, or Nobody
  status,          \* status[w]: the status matchID() returned
  retCh,           \* the results in the channel, by worker
  collector,       \* where Transform() is: "wg", "signalWg" or "closed"
  received,        \* the results main has received, by worker, in order
  exitCode         \* "none" until main returns

rbVars == <<cancelled, wg, executed, closed, closeCh, length, stored, retErr,
            pc, idx, crashed, from, called, atCancel>>
startVars == <<setup, phase, tool, client, sd>>
lookupVars == <<matches, marked, found, status>>
chanVars == <<retCh, received>>
ownVars == <<startVars, lookupVars, worker, chanVars, collector, exitCode>>
vars == <<rbVars, ownVars>>

R == INSTANCE Rollback WITH Rbs <- Workers
S == INSTANCE Startup

ASSUME NamesAssumption == {"", "lcr", "overlay2"} \subseteq Names
ASSUME SetupsAssumption == Setups \subseteq S!SetupTypes

TypeOK ==
  /\ R!TypeOK /\ S!TypeOK
  /\ matches \in [Workers -> SUBSET Ctrs]
  /\ marked \in [Ctrs -> BOOLEAN]
  /\ worker \in [Workers -> {"match", "store", "transform",
                           "send", "sent", "done"}]
  /\ found \in [Workers -> Ctrs \cup {Nobody}]
  /\ status \in [Workers -> Statuses]
  /\ retCh \in Seq(Workers) /\ Len(retCh) <= RetCap
  /\ collector \in {"wg", "signalWg", "closed"}
  /\ received \in Seq(Workers)
  /\ exitCode \in {"none", "exitNormal", "exitInitErr", "exitTransformErr"}

Init ==
  /\ R!Init /\ S!Init
  /\ matches = [w \in Workers |-> {}]
  /\ marked = [c \in Ctrs |-> FALSE]
  /\ worker = [w \in Workers |-> "match"]
  /\ found = [w \in Workers |-> Nobody]
  /\ status = [w \in Workers |-> "notExist"]
  /\ retCh = <<>>
  /\ collector = "wg"
  /\ received = <<>>
  /\ exitCode = "none"

Running == exitCode = "none" /\ ~crashed
On(w, label) == Running /\ phase = "running" /\ worker[w] = label
Goto(w, label) == worker' = [worker EXCEPT ![w] = label]
-----------------------------------------------------------------------------
(* main, before the transformation.                                        *)

\* The IDs of all containers, in the unspecified order of Range.
AllIDs == {[w \in Workers |-> {f[w]}] : f \in Bijection(Workers, Ctrs)}

Start ==
  /\ Running
  /\ S!Next
  /\ IF phase' = "running"
     THEN matches' \in IF setup.args = "all" THEN AllIDs ELSE Lookups
     ELSE UNCHANGED matches
  /\ exitCode' = IF phase' = "failed" THEN "exitInitErr" ELSE "none"
  /\ UNCHANGED <<rbVars, marked, found, status, worker, chanVars, collector>>
-----------------------------------------------------------------------------
(* A worker.                                                               *)

\* matchID(): Range visits the containers in an unspecified order and stops
\* at the first that matches.  Its value is loaded here and stored in a step
\* of its own.
MatchNone(w) ==
  /\ On(w, "match")
  /\ matches[w] = {}
  /\ Goto(w, "send")
  /\ UNCHANGED <<rbVars, startVars, lookupVars, collector, exitCode, chanVars>>

MatchLoad_Inverted(w) ==
  /\ On(w, "match")
  /\ \E c \in matches[w] :
       /\ found' = [found EXCEPT ![w] = c]
       /\ status' = [status EXCEPT ![w] = IF marked[c] THEN "needTransform"
                                                      ELSE "hasBeenTransformed"]
       /\ Goto(w, IF marked[c] THEN "store" ELSE "send")
  /\ UNCHANGED <<rbVars, startVars, matches, marked, collector, exitCode, chanVars>>

MatchLoad(w) ==
  /\ On(w, "match")
  /\ \E c \in matches[w] :
       /\ found' = [found EXCEPT ![w] = c]
       /\ \/ /\ marked[c]
             /\ status' = [status EXCEPT ![w] = "hasBeenTransformed"]
             /\ Goto(w, "send")
          \/ /\ ~marked[c]
             /\ status' = [status EXCEPT ![w] = "needTransform"]
             /\ Goto(w, "store")
  /\ UNCHANGED <<rbVars, startVars, matches, marked, collector, exitCode, chanVars>>

MatchStore(w) ==
  /\ On(w, "store")
  /\ marked' = [marked EXCEPT ![found[w]] = TRUE]
  /\ Goto(w, "transform")
  /\ UNCHANGED <<rbVars, startVars, matches, found, status, collector, exitCode, chanVars>>

\* transform(), to the end of its deferred function.
TransformStep(w) ==
  /\ On(w, "transform")
  /\ R!Owner(w)
  /\ UNCHANGED ownVars

TransformReturn(w) ==
  /\ On(w, "transform")
  /\ R!OwnerDone(w)
  /\ Goto(w, "send")
  /\ UNCHANGED <<rbVars, startVars, lookupVars, collector, exitCode, chanVars>>

\* The send blocks while the channel is full.
Send(w) ==
  /\ On(w, "send")
  /\ Len(retCh) < RetCap
  /\ retCh' = Append(retCh, w)
  /\ Goto(w, "sent")
  /\ UNCHANGED <<rbVars, startVars, lookupVars, collector, received, exitCode>>

WgDone(w) ==
  /\ On(w, "sent")
  /\ Goto(w, "done")
  /\ UNCHANGED <<rbVars, startVars, lookupVars, collector, exitCode, chanVars>>

Worker(w) ==
  \/ MatchNone(w) \/ MatchLoad(w) \/ MatchStore(w)
  \/ TransformStep(w) \/ TransformReturn(w) \/ Send(w) \/ WgDone(w)

\* The waiter of the worker's rollback instance, and the signal handler.
Waiter(w) == Running /\ R!Waiter(w) /\ UNCHANGED ownVars
Signal == Running /\ phase = "running" /\ R!Cancel /\ UNCHANGED ownVars
-----------------------------------------------------------------------------
(* Transform() itself: wg.Wait(), signalWg.Wait(), close(retCh).           *)

WgWait_Skipped ==
  /\ Running /\ phase = "running"
  /\ collector = "wg"
  /\ collector' = "signalWg"
  /\ UNCHANGED <<rbVars, startVars, lookupVars, worker, exitCode, chanVars>>

WgWait_DoneBeforeSend ==
  /\ \A w \in Workers : worker[w] \in {"send", "sent", "done"}
  /\ WgWait_Skipped

WgWait ==
  /\ Running /\ phase = "running"
  /\ collector = "wg"
  /\ \A w \in Workers : worker[w] = "done"
  /\ collector' = "signalWg"
  /\ UNCHANGED <<rbVars, startVars, lookupVars, worker, exitCode, chanVars>>

SignalWgWait_Skipped ==
  /\ Running /\ phase = "running"
  /\ collector = "signalWg"
  /\ collector' = "closed"
  /\ UNCHANGED <<rbVars, startVars, lookupVars, worker, exitCode, chanVars>>

SignalWgWait ==
  /\ Running /\ phase = "running"
  /\ collector = "signalWg"
  /\ wg = 0
  /\ collector' = "closed"
  /\ UNCHANGED <<rbVars, startVars, lookupVars, worker, exitCode, chanVars>>

Collector == WgWait \/ SignalWgWait
-----------------------------------------------------------------------------
(* main: receive until the channel is closed and empty, then exit.         *)

Ok(w) == CASE status[w] = "notExist"           -> FALSE
           [] status[w] = "hasBeenTransformed" -> TRUE
           [] status[w] = "needTransform"      -> ~retErr[w]

Receive_OnceClosed ==
  /\ Running
  /\ retCh # <<>> /\ collector = "closed"
  /\ received' = Append(received, Head(retCh))
  /\ retCh' = Tail(retCh)
  /\ UNCHANGED <<rbVars, startVars, lookupVars, worker, collector, exitCode>>

Receive ==
  /\ Running
  /\ retCh # <<>>
  /\ received' = Append(received, Head(retCh))
  /\ retCh' = Tail(retCh)
  /\ UNCHANGED <<rbVars, startVars, lookupVars, worker, collector, exitCode>>

Exit_Undrained ==
  /\ Running /\ phase = "running"
  /\ collector = "closed"
  /\ exitCode' = IF \A i \in DOMAIN received : Ok(received[i])
                 THEN "exitNormal" ELSE "exitTransformErr"
  /\ UNCHANGED <<rbVars, startVars, lookupVars, worker, collector, chanVars>>

Exit ==
  /\ Running
  /\ retCh = <<>>
  /\ collector = "closed"
  /\ exitCode' = IF \A i \in DOMAIN received : Ok(received[i])
                 THEN "exitNormal" ELSE "exitTransformErr"
  /\ UNCHANGED <<rbVars, startVars, lookupVars, worker, collector, chanVars>>

Main == Receive \/ Exit
-----------------------------------------------------------------------------
Terminated == ~Running /\ UNCHANGED vars

Next ==
  \/ Start
  \/ \E w \in Workers : Worker(w) \/ Waiter(w)
  \/ Signal
  \/ Collector
  \/ Main
  \/ Terminated

Spec == Init /\ [][Next]_vars

\* Every goroutine that can run does: the workers, which assumes the commands
\* and libraries they call return, the waiters, Transform() and main.
Fairness ==
  /\ \A w \in Workers : WF_vars(Worker(w)) /\ WF_vars(Waiter(w))
  /\ WF_vars(Start) /\ WF_vars(Collector) /\ WF_vars(Main)
FairSpec == Spec /\ Fairness
-----------------------------------------------------------------------------
(* Main exits with one result per ID, and with success only if each of     *)
(* them is one; its exit code tells of every container that was            *)
(* transformed and failed, even where another ID for the same container    *)
(* was answered "has been transformed", a success.                         *)
ExitAnswersEveryID ==
  exitCode \in {"exitNormal", "exitTransformErr"} =>
    /\ Len(received) = Cardinality(Workers)
    /\ \A w \in Workers : \E i \in DOMAIN received : received[i] = w
    /\ (exitCode = "exitNormal") <=> \A w \in Workers : Ok(w)

(* With --all every container Init() found is transformed, by one worker:  *)
(* matchID() of its whole ID never says "has been transformed".            *)
AllTakesEachOnce ==
  (setup.args = "all" /\ exitCode \notin {"none", "exitInitErr"}) =>
    \A c \in Ctrs : \E w \in Workers :
      /\ found[w] = c /\ status[w] = "needTransform"
      /\ \A v \in Workers \ {w} : found[v] # c

(* What a worker finds when it starts to transform a container was made in *)
(* the right order, see Startup.                                           *)
DriverIsReady == S!SdIsReady

(* An ID is answered "has been transformed" only if some other worker      *)
(* took the container on, so that its outcome is reported.                 *)
SkippedIsTakenOn ==
  \A w \in Workers : status[w] = "hasBeenTransformed" =>
    \E v \in Workers \ {w} : found[v] = found[w] /\ status[v] = "needTransform"

(* retCh is closed only after the last send: a later one would panic.      *)
NoSendOnClosed ==
  collector = "closed" => \A w \in Workers : worker[w] \in {"sent", "done"}

(* When the process exits no waiter is left in the middle of its undo      *)
(* functions: a rollback is never cut off by the exit.                     *)
ExitWaitsForRollback ==
  exitCode # "none" =>
    \A w \in Workers : pc[w]["waiter"] \in {"none", "done"}

(* signalWg is never added to once Transform() waits on it, the misuse     *)
(* that makes a WaitGroup miss a goroutine.                                *)
NoAddAfterWait == [][collector # "wg" => wg' <= wg]_vars

(* The invocation ends, whatever fails, whenever a signal comes and        *)
(* however small the channel is.                                           *)
Termination == <>~Running

(* docker_test.go, "update transform status": once an ID of a container    *)
(* was matched, the next match of it says it has been transformed, so no   *)
(* two workers take the same container on.                                 *)
TakenOnOnce ==
  \A v, w \in Workers :
    (v # w /\ status[v] = "needTransform" /\ status[w] = "needTransform")
      => found[v] # found[w]
=============================================================================
