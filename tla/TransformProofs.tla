-------------------------- MODULE TransformProofs --------------------------
(***************************************************************************)
(* Proofs about Transform: one invocation, for any finite set of IDs, any  *)
(* containers they match, any capacity of the channel and any daemon.json. *)
(***************************************************************************)
EXTENDS Transform, FiniteSetTheorems, SequenceTheorems, TLAPS

\* The rollback part of the state is an instance of Rollback, and what is
\* proved of Rollback holds of it.
P == INSTANCE RollbackProofs WITH Rbs <- Workers

Owner(w) == pc[w]["owner"]

OwnTyped ==
  /\ matches \in [Workers -> SUBSET Ctrs]
  /\ marked \in [Ctrs -> BOOLEAN]
  /\ worker \in [Workers -> {"match", "store", "transform",
                             "send", "sent", "done"}]
  /\ found \in [Workers -> Ctrs \cup {Nobody}]
  /\ status \in [Workers -> Statuses]
  /\ retCh \in Seq(Workers) /\ Len(retCh) <= RetCap
  /\ collector \in {"wg", "signalWg", "closed"}
  /\ received \in Seq(Workers)
  /\ exitCode \in {"none", "exitNormal", "exitInitErr", "exitTransformErr"}

(* What start() has made by each of its phases.                            *)
Made ==
  /\ phase \in {"check", "image", "engine", "client", "driver", "containers",
                "args", "running"}
       => tool.storage = S!Default(setup.storage, "overlay2")
  /\ phase \in {"engine", "client", "driver", "containers", "args", "running"}
       => tool.base
  /\ phase \in {"driver", "containers", "args", "running"} => client
  /\ phase \in {"containers", "args", "running"} =>
       /\ sd.type = tool.storage /\ sd.base
       /\ sd.type = "devicemapper" => sd.client

(* No goroutine is started before the phase "running".                     *)
StartInv ==
  /\ S!TypeOK /\ Made
  /\ phase # "running" => /\ \A w \in Workers : worker[w] = "match"
                          /\ collector = "wg"
  /\ exitCode = "exitInitErr" => phase # "running"
  /\ (setup.args = "all" /\ phase = "running") => matches \in AllIDs

(* Where a worker is says what matchID() answered and where its rollback   *)
(* instance is.                                                            *)
WorkerInv(w) ==
  /\ worker[w] = "match" => status[w] = "notExist"
  /\ worker[w] \in {"store", "transform"} => status[w] = "needTransform"
  /\ status[w] = "notExist" => worker[w] = "match" \/ matches[w] = {}
  /\ status[w] # "notExist" => found[w] \in matches[w]
  /\ status[w] = "notExist" => found[w] = Nobody
  /\ status[w] # "needTransform" \/ worker[w] = "store" => Owner(w) = "new"
  /\ (status[w] = "needTransform" /\ worker[w] \in {"send", "sent", "done"})
       => Owner(w) = "done"

TakesOn(v, c) == found[v] = c /\ status[v] = "needTransform"

(* Who marked a container has taken it on; who was refused, found it       *)
(* marked.                                                                 *)
MarkInv ==
  /\ \A c \in Ctrs : marked[c] => \E v \in Workers : TakesOn(v, c)
  /\ \A w \in Workers : status[w] = "hasBeenTransformed" =>
       \E v \in Workers \ {w} : TakesOn(v, found[w])

(* Each result that was sent is in the channel or received, once.          *)
Sent == {w \in Workers : worker[w] \in {"sent", "done"}}
In(seq, w) == \E i \in 1..Len(seq) : seq[i] = w
ChanInv ==
  /\ \A w \in Sent : In(received, w) \/ In(retCh, w)
  /\ Len(received) + Len(retCh) = Cardinality(Sent)

(* Transform() waits for the workers, then for the waiters.                *)
CloseInv ==
  /\ collector # "wg" => \A w \in Workers : worker[w] = "done"
  /\ collector = "closed" =>
       \A w \in Workers : pc[w]["waiter"] \in {"none", "done"}

ExitInv ==
  exitCode \in {"exitNormal", "exitTransformErr"} =>
    /\ phase = "running" /\ collector = "closed" /\ retCh = <<>>
    /\ (exitCode = "exitNormal") <=> \A i \in DOMAIN received : Ok(received[i])

IInv == /\ P!IInv /\ P!WgCounts
        /\ OwnTyped /\ StartInv
        /\ \A w \in Workers : WorkerInv(w)
        /\ MarkInv /\ ChanInv /\ CloseInv /\ ExitInv
-----------------------------------------------------------------------------
(* The rollback part.                                                      *)

LEMMA FiniteWorkers == P!IsFiniteSet(Workers)
  BY WorkersAssumption DEF IsFiniteSet, P!IsFiniteSet

LEMMA RollbackInit == ASSUME R!Init PROVE P!IInv /\ P!WgCounts
<1>1. P!Init
  BY DEF R!Init, P!Init, R!NoRun, P!NoRun, R!Goroutines, P!Goroutines
<1> QED
  BY <1>1, FiniteWorkers, MaxFuncsAssumption, P!InitInv, P!WgInit

LEMMA RollbackNext ==
  ASSUME \/ R!Cancel
         \/ \E w \in Workers : R!Owner(w) \/ R!Waiter(w)
  PROVE  P!Next
<1> USE DEF R!At, P!At, R!Goto, P!Goto, R!Goroutines, P!Goroutines
<1>1. CASE R!Cancel
  BY <1>1 DEF R!Cancel, P!Cancel, P!Next
<1>2. ASSUME NEW w \in Workers, NEW g \in R!Goroutines, R!Run(w, g)
      PROVE  P!Run(w, g)
  BY <1>2 DEF R!Run, P!Run, R!RunCheck, P!RunCheck, R!RunStore, P!RunStore,
     R!RunLen, P!RunLen, R!RunCall, P!RunCall, R!RunCallNil, P!RunCallNil,
     R!MustNotRun, P!MustNotRun, R!FirstCall, P!FirstCall, R!NextCall,
     P!NextCall
<1>3. ASSUME NEW w \in Workers, R!Owner(w) PROVE P!Owner(w)
  BY <1>2, <1>3 DEF R!Owner, P!Owner, R!Wait, P!Wait, R!Close, P!Close,
     R!RegisterLen, P!RegisterLen, R!RegisterElem, P!RegisterElem, R!Leave,
     P!Leave
<1>4. ASSUME NEW w \in Workers, R!Waiter(w) PROVE P!Waiter(w)
  BY <1>2, <1>4 DEF R!Waiter, P!Waiter, R!SelectCancel, P!SelectCancel,
     R!SelectClose, P!SelectClose, R!WgDone, P!WgDone
<1> QED
  BY <1>1, <1>3, <1>4 DEF P!Next

LEMMA RollbackSteps ==
  ASSUME [Next]_vars PROVE P!Next \/ UNCHANGED P!vars
<1>1. CASE UNCHANGED rbVars
  BY <1>1 DEF rbVars, P!vars, P!progVars
<1>2. CASE ~UNCHANGED rbVars
  BY <1>2, RollbackNext
     DEF Next, Start, Worker, MatchNone, MatchLoad, MatchStore, TransformStep,
     TransformReturn, Send, WgDone, Waiter, Signal, Collector, WgWait,
     SignalWgWait, Main, Receive, Exit, Terminated, vars
<1> QED
  BY <1>1, <1>2

LEMMA RollbackStepInv ==
  ASSUME IInv, [Next]_vars PROVE P!IInv' /\ P!WgCounts'
<1>1. P!Next \/ UNCHANGED P!vars
  BY RollbackSteps
<1> QED
  BY <1>1, FiniteWorkers, MaxFuncsAssumption, P!InvStep, P!WgStep
     DEF IInv, P!IInv

(* Among the matching of IDs, the channel and the WaitGroups, every worker *)
(* and its waiter do to their rollback instance what Rollback lets them,   *)
(* so each worker implements the undo log (docker.go:131-171).             *)
THEOREM WorkersRollBack == Spec => P!Spec /\ P!ImplementsUndoLog
<1>1. Init => P!Init
  BY DEF Init, R!Init, P!Init, R!NoRun, P!NoRun, R!Goroutines, P!Goroutines
<1>2. [Next]_vars => [P!Next]_(P!vars)
  BY RollbackSteps
<1>3. Spec => P!Spec
  BY <1>1, <1>2, PTL DEF Spec, P!Spec
<1>4. P!Spec => P!ImplementsUndoLog
  BY FiniteWorkers, MaxFuncsAssumption, P!RollbackImplementsUndoLog
<1> QED
  BY <1>3, <1>4, PTL
-----------------------------------------------------------------------------
(* Facts about the steps of the rollback instances.                        *)

Labels == P!OwnerPC \cup P!WaiterPC

LEMMA PcFacts ==
  ASSUME IInv, NEW w \in Workers
  PROVE  /\ pc \in [Workers -> [{"owner", "waiter"} -> Labels]]
         /\ Owner(w) = "new" <=> pc[w]["waiter"] = "none"
         /\ WorkerInv(w)
<1>1. /\ pc \in [Workers -> [{"owner", "waiter"} -> Labels]]
      /\ P!WaiterInv(w) /\ WorkerInv(w)
  BY DEF IInv, P!IInv, P!Typed, P!RbInv, P!Goroutines,
     Labels
<1> QED
  BY <1>1 DEF P!WaiterInv, Owner

LEMMA OwnerMoves ==
  ASSUME IInv, NEW w \in Workers, R!Owner(w)
  PROVE  \A v \in Workers \ {w} : pc'[v] = pc[v]
<1>1. pc' = pc \/ \E x : pc' = [pc EXCEPT ![w] = x]
  BY DEF R!Owner, R!Wait, R!RegisterLen, R!RegisterElem, R!Leave, R!Close,
     R!Run, R!RunCheck, R!RunStore, R!RunLen, R!RunCall, R!RunCallNil, R!Goto
<1> QED
  BY <1>1, PcFacts

LEMMA WaiterMoves ==
  ASSUME IInv, NEW w \in Workers, R!Waiter(w)
  PROVE  /\ \A v \in Workers : Owner(v)' = Owner(v)
         /\ \A v \in Workers \ {w} : pc'[v] = pc[v]
         /\ pc[w]["waiter"] \notin {"none", "done"}
         /\ wg' <= wg
<1>1. /\ pc' = pc \/ \E label : pc' = [pc EXCEPT ![w]["waiter"] = label]
      /\ pc[w]["waiter"] \notin {"none", "done"}
      /\ wg' = wg \/ wg' = wg - 1
  BY DEF R!Waiter, R!SelectCancel, R!SelectClose, R!WgDone, R!Run,
     R!RunCheck, R!RunStore, R!RunLen, R!RunCall, R!RunCallNil, R!Goto, R!At
<1>2. wg \in Int
  BY DEF IInv, P!IInv, P!Typed
<1> QED
  BY <1>1, <1>2, PcFacts DEF Owner
-----------------------------------------------------------------------------
(* Every part of the invariant but the rollback's.                         *)
OwnInv == /\ OwnTyped /\ StartInv
          /\ \A w \in Workers : WorkerInv(w)
          /\ MarkInv /\ ChanInv /\ CloseInv /\ ExitInv

(* start(), piece by piece.                                                *)
LEMMA StartTyped ==
  ASSUME S!TypeOK, Made, S!Next PROVE S!TypeOK' /\ Made'
<1> USE DEF S!TypeOK, Made, S!Continue, S!After
<1>1. setup.runtime \in Names /\ setup.storage \in Names
  BY SetupsAssumption DEF S!SetupTypes
<1>2. CASE S!ReadDaemonConfig \/ S!CheckToolConfig \/ S!GetTransformer
             \/ S!InitContainers \/ S!CheckArgs \/ S!Fail
  BY <1>2 DEF S!ReadDaemonConfig, S!CheckToolConfig, S!GetTransformer,
     S!InitContainers, S!CheckArgs, S!Fail
<1>3. CASE S!InitIsuladTool
  <2>1. ASSUME NEW value \in Names, NEW default \in Names
        PROVE  S!Default(value, default) \in Names
    BY DEF S!Default
  <2>2. "lcr" \in Names /\ "overlay2" \in Names
    BY NamesAssumption
  <2> QED
    BY <1>1, <1>3, <2>1, <2>2 DEF S!InitIsuladTool
<1>4. CASE S!InitLib
  BY <1>4 DEF S!InitLib
<1>5. CASE S!NewClient
  BY <1>5 DEF S!NewClient
<1>6. CASE S!InitStorageDriver
  BY <1>6 DEF S!InitStorageDriver
<1> QED
  BY <1>2, <1>3, <1>4, <1>5, <1>6 DEF S!Next

(* start().                                                                *)
LEMMA StartStep == ASSUME IInv, Start PROVE OwnInv'
<1> USE DEF IInv
<1>1. /\ Running /\ S!Next
      /\ UNCHANGED <<rbVars, marked, found, status, worker, chanVars,
                     collector>>
      /\ exitCode' \in {"none", "exitInitErr"}
      /\ exitCode' = "exitInitErr" => phase' = "failed"
      /\ phase' # "running" => UNCHANGED matches
      /\ phase' = "running" => matches' \in IF setup.args = "all" THEN AllIDs
                                                               ELSE Lookups
  BY DEF Start
<1>2. /\ phase # "running" /\ setup' = setup
      /\ phase' \in DOMAIN S!After \cup {"running", "failed"}
  BY <1>1 DEF S!Next, S!ReadDaemonConfig, S!InitIsuladTool, S!CheckToolConfig,
     S!InitLib, S!GetTransformer, S!NewClient, S!InitStorageDriver,
     S!InitContainers, S!CheckArgs, S!Fail, S!Continue, S!Refused, S!After
<1>3. \A w \in Workers : worker[w] = "match" /\ status[w] = "notExist"
  BY <1>2 DEF StartInv, WorkerInv
<1>4. OwnTyped'
  <2>1. matches' \in [Workers -> SUBSET Ctrs]
    <3>1. AllIDs \subseteq [Workers -> SUBSET Ctrs]
      BY DEF AllIDs, Bijection, Injection
    <3> QED
      BY <1>1, <3>1, LookupsAssumption DEF OwnTyped
  <2> QED
    BY <1>1, <2>1 DEF OwnTyped, chanVars
<1>5. S!TypeOK' /\ Made'
  BY <1>1, StartTyped DEF StartInv
<1>7. StartInv'
  BY <1>1, <1>2, <1>3, <1>5 DEF StartInv, AllIDs
<1>8. ASSUME NEW w \in Workers PROVE WorkerInv(w)'
  BY <1>1, <1>3 DEF WorkerInv, Owner, rbVars
<1>9. MarkInv' /\ ChanInv' /\ CloseInv' /\ ExitInv'
  BY <1>1 DEF MarkInv, TakesOn, ChanInv, Sent, In, CloseInv, ExitInv, chanVars,
     rbVars
<1> QED
  BY <1>4, <1>7, <1>8, <1>9 DEF OwnInv
-----------------------------------------------------------------------------
(* What a step leaves alone.                                               *)
LEMMA StartFrame ==
  ASSUME StartInv, phase = "running", UNCHANGED <<startVars, matches>>,
         exitCode' # "exitInitErr"
  PROVE  StartInv'
  BY DEF StartInv, startVars, S!TypeOK, Made, AllIDs

LEMMA WorkerFrame ==
  ASSUME NEW v \in Workers, WorkerInv(v), Owner(v)' = Owner(v),
         UNCHANGED <<worker[v], status[v], found[v], matches[v]>>
  PROVE  WorkerInv(v)'
  BY DEF WorkerInv

\* A worker goes on, and nothing but its own entries changes.
LEMMA OnFacts ==
  ASSUME IInv, NEW w \in Workers, NEW label, On(w, label)
  PROVE  /\ phase = "running" /\ exitCode = "none" /\ worker[w] = label
         /\ StartInv /\ OwnTyped /\ WorkerInv(w)
         /\ label # "done" => collector = "wg"
  BY DEF On, Running, IInv, CloseInv, OwnTyped

LEMMA MatchStep ==
  ASSUME IInv, NEW w \in Workers, MatchNone(w) \/ MatchLoad(w)
  PROVE  OwnInv'
<1>1. /\ On(w, "match")
      /\ UNCHANGED <<rbVars, startVars, matches, marked, collector, exitCode,
                     chanVars>>
  BY DEF MatchNone, MatchLoad, lookupVars
<1>2. /\ phase = "running" /\ exitCode = "none" /\ worker[w] = "match"
      /\ StartInv /\ OwnTyped /\ WorkerInv(w) /\ collector = "wg"
  BY <1>1, OnFacts
<1>3. PICK label \in {"send", "store"} : worker' = [worker EXCEPT ![w] = label]
  BY DEF MatchNone, MatchLoad, Goto
<1>4. /\ \A v \in Workers \ {w} : UNCHANGED <<worker[v], status[v], found[v]>>
      /\ found' \in [Workers -> Ctrs \cup {Nobody}]
      /\ status' \in [Workers -> Statuses]
  BY <1>2, <1>3 DEF MatchNone, MatchLoad, OwnTyped, lookupVars, Statuses
<1>5. OwnTyped'
  BY <1>1, <1>2, <1>3, <1>4 DEF OwnTyped, chanVars
<1>6. StartInv'
  BY <1>1, <1>2, StartFrame
<1>7. /\ status[w] = "notExist" /\ found[w] = Nobody
      /\ \/ /\ matches[w] = {} /\ label = "send"
            /\ status'[w] = "notExist" /\ found'[w] = found[w]
         \/ /\ found'[w] \in matches[w] /\ marked[found'[w]] /\ label = "send"
            /\ status'[w] = "hasBeenTransformed"
         \/ /\ found'[w] \in matches[w] /\ label = "store"
            /\ status'[w] = "needTransform"
  BY <1>2, <1>3 DEF WorkerInv, MatchNone, MatchLoad, OwnTyped, lookupVars, Goto
<1>8. ASSUME NEW v \in Workers PROVE WorkerInv(v)'
  <2>1. Owner(v)' = Owner(v) /\ matches' = matches
    BY <1>1 DEF Owner, rbVars
  <2>2. CASE v = w
    BY <1>2, <1>3, <1>7, <2>1, <2>2 DEF WorkerInv, OwnTyped
  <2>3. CASE v # w
    BY <1>4, <2>1, <2>3, WorkerFrame DEF IInv
  <2> QED
    BY <2>2, <2>3
<1>9. MarkInv'
  <2>1. MarkInv
    BY DEF IInv
  <2>2. ASSUME NEW v \in Workers, NEW c, TakesOn(v, c)
        PROVE  found'[v] = c /\ status'[v] = "needTransform" /\ v # w
    BY <1>4, <1>7, <2>2 DEF TakesOn
  <2>3. ASSUME NEW c \in Ctrs, marked'[c]
        PROVE  \E v \in Workers : found'[v] = c /\ status'[v] = "needTransform"
    BY <1>1, <2>1, <2>2, <2>3 DEF MarkInv
  <2>4. ASSUME NEW v \in Workers, status'[v] = "hasBeenTransformed"
        PROVE  \E u \in Workers \ {v} :
                 found'[u] = found'[v] /\ status'[u] = "needTransform"
    <3>1. CASE v = w
      <4>1. found'[w] \in Ctrs /\ marked[found'[w]]
        BY <1>2, <1>7, <2>4, <3>1 DEF OwnTyped
      <4> QED
        BY <2>1, <2>2, <3>1, <4>1 DEF MarkInv
    <3>2. CASE v # w
      <4>1. PICK u \in Workers \ {v} : TakesOn(u, found[v])
        BY <1>4, <2>1, <2>4, <3>2 DEF MarkInv
      <4> QED
        BY <1>4, <2>2, <3>2, <4>1
    <3> QED
      BY <3>1, <3>2
  <2> QED
    BY <2>3, <2>4 DEF MarkInv, TakesOn
<1>10. Sent' = Sent
  BY <1>2, <1>3 DEF Sent, OwnTyped
<1>11. ChanInv' /\ CloseInv' /\ ExitInv'
  BY <1>1, <1>2, <1>10 DEF IInv, ChanInv, In, CloseInv, ExitInv, chanVars
<1> QED
  BY <1>5, <1>6, <1>8, <1>9, <1>11 DEF OwnInv

LEMMA MatchStoreStep ==
  ASSUME IInv, NEW w \in Workers, MatchStore(w) PROVE OwnInv'
<1>1. /\ On(w, "store") /\ worker' = [worker EXCEPT ![w] = "transform"]
      /\ marked' = [marked EXCEPT ![found[w]] = TRUE]
      /\ UNCHANGED <<rbVars, startVars, matches, found, status, collector,
                     exitCode, chanVars>>
  BY DEF MatchStore, Goto
<1>2. /\ phase = "running" /\ exitCode = "none" /\ worker[w] = "store"
      /\ StartInv /\ OwnTyped /\ WorkerInv(w) /\ collector = "wg"
  BY <1>1, OnFacts
<1>3. found[w] \in Ctrs /\ status[w] = "needTransform"
  BY <1>2 DEF WorkerInv, OwnTyped
<1>4. OwnTyped'
  BY <1>1, <1>2, <1>3 DEF OwnTyped, chanVars
<1>5. StartInv'
  BY <1>1, <1>2, StartFrame
<1>6. ASSUME NEW v \in Workers PROVE WorkerInv(v)'
  <2>1. Owner(v)' = Owner(v)
    BY <1>1 DEF Owner, rbVars
  <2>2. CASE v = w
    BY <1>1, <1>2, <1>3, <2>1, <2>2 DEF WorkerInv, OwnTyped
  <2>3. CASE v # w
    BY <1>1, <1>2, <2>1, <2>3, WorkerFrame DEF IInv, OwnTyped
  <2> QED
    BY <2>2, <2>3
<1>7. MarkInv'
  BY <1>1, <1>2, <1>3 DEF IInv, MarkInv, TakesOn, OwnTyped
<1>8. Sent' = Sent
  BY <1>1, <1>2 DEF Sent, OwnTyped
<1>9. ChanInv' /\ CloseInv' /\ ExitInv'
  BY <1>1, <1>2, <1>8 DEF IInv, ChanInv, In, CloseInv, ExitInv, chanVars
<1> QED
  BY <1>4, <1>5, <1>6, <1>7, <1>9 DEF OwnInv

LEMMA TransformOwnerStep ==
  ASSUME IInv, NEW w \in Workers, TransformStep(w) PROVE OwnInv'
<1>1. On(w, "transform") /\ R!Owner(w) /\ UNCHANGED ownVars
  BY DEF TransformStep
<1>2. /\ phase = "running" /\ exitCode = "none" /\ worker[w] = "transform"
      /\ StartInv /\ OwnTyped /\ WorkerInv(w) /\ collector = "wg"
  BY <1>1, OnFacts
<1>3. UNCHANGED <<startVars, matches, marked, found, status, worker, retCh,
                  received, collector, exitCode>>
  BY <1>1 DEF ownVars, lookupVars, chanVars
<1>4. OwnTyped' /\ MarkInv' /\ ChanInv'
  BY <1>3 DEF IInv, OwnTyped, MarkInv, TakesOn, ChanInv, Sent, In
<1>5. StartInv' /\ CloseInv' /\ ExitInv'
  BY <1>2, <1>3, StartFrame DEF CloseInv, ExitInv
<1>6. ASSUME NEW v \in Workers PROVE WorkerInv(v)'
  <2>1. CASE v = w
    BY <1>2, <1>3, <2>1 DEF WorkerInv
  <2>2. CASE v # w
    BY <1>1, <1>3, <2>2, OwnerMoves, WorkerFrame DEF Owner, IInv
  <2> QED
    BY <2>1, <2>2
<1> QED
  BY <1>4, <1>5, <1>6 DEF OwnInv

LEMMA ReturnStep ==
  ASSUME IInv, NEW w \in Workers, TransformReturn(w) PROVE OwnInv'
<1>1. /\ On(w, "transform") /\ worker' = [worker EXCEPT ![w] = "send"]
      /\ Owner(w) = "done"
      /\ UNCHANGED <<rbVars, startVars, matches, marked, found, status,
                     collector, exitCode, chanVars>>
  BY DEF TransformReturn, Goto, R!OwnerDone, Owner, lookupVars
<1>2. /\ phase = "running" /\ exitCode = "none" /\ worker[w] = "transform"
      /\ StartInv /\ OwnTyped /\ WorkerInv(w) /\ collector = "wg"
  BY <1>1, OnFacts
<1>3. OwnTyped'
  BY <1>1, <1>2 DEF OwnTyped, chanVars
<1>4. StartInv'
  BY <1>1, <1>2, StartFrame
<1>5. ASSUME NEW v \in Workers PROVE WorkerInv(v)'
  <2>1. Owner(v)' = Owner(v)
    BY <1>1 DEF Owner, rbVars
  <2>2. CASE v = w
    BY <1>1, <1>2, <2>1, <2>2 DEF WorkerInv, OwnTyped
  <2>3. CASE v # w
    BY <1>1, <1>2, <2>1, <2>3, WorkerFrame DEF IInv, OwnTyped
  <2> QED
    BY <2>2, <2>3
<1>6. Sent' = Sent
  BY <1>1, <1>2 DEF Sent, OwnTyped
<1>7. MarkInv' /\ ChanInv' /\ CloseInv' /\ ExitInv'
  BY <1>1, <1>2, <1>6 DEF IInv, MarkInv, TakesOn, ChanInv, In, CloseInv,
     ExitInv, chanVars
<1> QED
  BY <1>3, <1>4, <1>5, <1>7 DEF OwnInv
-----------------------------------------------------------------------------
(* The channel.                                                            *)
LEMMA InAppend ==
  ASSUME NEW S0, NEW seq \in Seq(S0), NEW e \in S0, NEW v
  PROVE  In(Append(seq, e), v) <=> In(seq, v) \/ v = e
<1>1. /\ Append(seq, e) \in Seq(S0) /\ Len(Append(seq, e)) = Len(seq) + 1
      /\ \A i \in 1..Len(seq) : Append(seq, e)[i] = seq[i]
      /\ Append(seq, e)[Len(seq) + 1] = e
  BY AppendProperties
<1>2. Len(seq) \in Nat
  BY LenProperties
<1> QED
  BY <1>1, <1>2 DEF In

LEMMA InTail ==
  ASSUME NEW S0, NEW seq \in Seq(S0), seq # <<>>, NEW v, In(seq, v)
  PROVE  v = Head(seq) \/ In(Tail(seq), v)
<1>1. /\ Len(Tail(seq)) = Len(seq) - 1 /\ Head(seq) = seq[1]
      /\ \A i \in 1..Len(Tail(seq)) : Tail(seq)[i] = seq[i + 1]
      /\ Len(seq) \in Nat
  BY HeadTailProperties, LenProperties
<1>2. PICK i \in 1..Len(seq) : seq[i] = v
  BY DEF In
<1>3. CASE i = 1
  BY <1>1, <1>2, <1>3
<1>4. CASE i > 1
  <2>1. i - 1 \in 1..Len(Tail(seq)) /\ Tail(seq)[i - 1] = v
    BY <1>1, <1>2, <1>4
  <2> QED
    BY <2>1 DEF In
<1> QED
  BY <1>2, <1>3, <1>4

LEMMA SentFinite ==
  /\ IsFiniteSet(Sent) /\ Cardinality(Sent) \in Nat
  /\ Cardinality(Workers) \in Nat
<1>1. Sent \subseteq Workers
  BY DEF Sent
<1> QED
  BY <1>1, WorkersAssumption, FS_Subset, FS_CardinalityType

LEMMA SendStep ==
  ASSUME IInv, NEW w \in Workers, Send(w) PROVE OwnInv'
<1>1. /\ On(w, "send") /\ worker' = [worker EXCEPT ![w] = "sent"]
      /\ Len(retCh) < RetCap /\ retCh' = Append(retCh, w)
      /\ UNCHANGED <<rbVars, startVars, matches, marked, found, status,
                     collector, exitCode, received>>
  BY DEF Send, Goto, lookupVars
<1>2. /\ phase = "running" /\ exitCode = "none" /\ worker[w] = "send"
      /\ StartInv /\ OwnTyped /\ WorkerInv(w) /\ collector = "wg"
  BY <1>1, OnFacts
<1>3. /\ retCh \in Seq(Workers) /\ received \in Seq(Workers)
      /\ retCh' \in Seq(Workers) /\ Len(retCh') = Len(retCh) + 1
      /\ Len(retCh) \in Nat /\ Len(received) \in Nat
  BY <1>1, <1>2, AppendProperties, LenProperties DEF OwnTyped
<1>4. OwnTyped'
  BY <1>1, <1>2, <1>3, RetCapAssumption DEF OwnTyped
<1>5. StartInv'
  BY <1>1, <1>2, StartFrame
<1>6. ASSUME NEW v \in Workers PROVE WorkerInv(v)'
  <2>1. Owner(v)' = Owner(v)
    BY <1>1 DEF Owner, rbVars
  <2>2. CASE v = w
    BY <1>1, <1>2, <2>1, <2>2 DEF WorkerInv, OwnTyped
  <2>3. CASE v # w
    BY <1>1, <1>2, <2>1, <2>3, WorkerFrame DEF IInv, OwnTyped
  <2> QED
    BY <2>2, <2>3
<1>7. Sent' = Sent \cup {w} /\ w \notin Sent
  BY <1>1, <1>2 DEF Sent, OwnTyped
<1>8. ChanInv'
  <2>1. ASSUME NEW v \in Sent'
        PROVE  In(received', v) \/ In(retCh', v)
    BY <1>1, <1>3, <1>7, <2>1, InAppend DEF IInv, ChanInv
  <2>2. Cardinality(Sent') = Cardinality(Sent) + 1
    BY <1>7, SentFinite, FS_AddElement
  <2>3. Len(received') + Len(retCh') = Cardinality(Sent')
    BY <1>1, <1>3, <2>2, SentFinite DEF IInv, ChanInv
  <2> QED
    BY <2>1, <2>3 DEF ChanInv, In
<1>9. MarkInv' /\ CloseInv' /\ ExitInv'
  BY <1>1, <1>2 DEF IInv, MarkInv, TakesOn, CloseInv, ExitInv
<1> QED
  BY <1>4, <1>5, <1>6, <1>8, <1>9 DEF OwnInv

LEMMA WgDoneStep ==
  ASSUME IInv, NEW w \in Workers, WgDone(w) PROVE OwnInv'
<1>1. /\ On(w, "sent") /\ worker' = [worker EXCEPT ![w] = "done"]
      /\ UNCHANGED <<rbVars, startVars, matches, marked, found, status,
                     collector, exitCode, chanVars>>
  BY DEF WgDone, Goto, lookupVars
<1>2. /\ phase = "running" /\ exitCode = "none" /\ worker[w] = "sent"
      /\ StartInv /\ OwnTyped /\ WorkerInv(w) /\ collector = "wg"
  BY <1>1, OnFacts
<1>3. OwnTyped'
  BY <1>1, <1>2 DEF OwnTyped, chanVars
<1>4. StartInv'
  BY <1>1, <1>2, StartFrame
<1>5. ASSUME NEW v \in Workers PROVE WorkerInv(v)'
  <2>1. Owner(v)' = Owner(v)
    BY <1>1 DEF Owner, rbVars
  <2>2. CASE v = w
    BY <1>1, <1>2, <2>1, <2>2 DEF WorkerInv, OwnTyped
  <2>3. CASE v # w
    BY <1>1, <1>2, <2>1, <2>3, WorkerFrame DEF IInv, OwnTyped
  <2> QED
    BY <2>2, <2>3
<1>6. Sent' = Sent
  BY <1>1, <1>2 DEF Sent, OwnTyped
<1>7. MarkInv' /\ ChanInv' /\ CloseInv' /\ ExitInv'
  BY <1>1, <1>2, <1>6 DEF IInv, MarkInv, TakesOn, ChanInv, In, CloseInv,
     ExitInv, chanVars
<1> QED
  BY <1>3, <1>4, <1>5, <1>7 DEF OwnInv

LEMMA WaiterStep ==
  ASSUME IInv, NEW w \in Workers, Waiter(w) PROVE OwnInv'
<1>1. exitCode = "none" /\ R!Waiter(w)
  BY DEF Waiter, Running
<1>2. UNCHANGED <<startVars, matches, marked, found, status, worker, retCh,
                  received, collector, exitCode>>
  BY DEF Waiter, ownVars, lookupVars, chanVars
<1>3. OwnTyped' /\ StartInv' /\ MarkInv' /\ ChanInv'
  BY <1>2 DEF IInv, OwnTyped, StartInv, startVars, S!TypeOK, Made, AllIDs,
     MarkInv, TakesOn, ChanInv, Sent, In
<1>4. ASSUME NEW v \in Workers PROVE WorkerInv(v)'
  BY <1>1, <1>2, WaiterMoves, WorkerFrame DEF IInv
<1>5. CloseInv' /\ ExitInv'
  BY <1>1, <1>2, WaiterMoves DEF IInv, CloseInv, ExitInv
<1> QED
  BY <1>3, <1>4, <1>5 DEF OwnInv

(* The signal, and the steps of Transform() and main().                    *)
LEMMA CommonStep ==
  ASSUME IInv,
         UNCHANGED <<startVars, matches, marked, found, status, worker, pc>>
  PROVE  /\ \A v \in Workers : WorkerInv(v)'
         /\ MarkInv' /\ Sent' = Sent
<1>1. \A v \in Workers : WorkerInv(v)'
  BY WorkerFrame DEF IInv, Owner
<1>2. MarkInv' /\ Sent' = Sent
  BY DEF IInv, MarkInv, TakesOn, Sent
<1> QED
  BY <1>1, <1>2

LEMMA SignalStep == ASSUME IInv, Signal PROVE OwnInv'
<1>1. /\ exitCode = "none"
      /\ UNCHANGED <<startVars, matches, marked, found, status, worker, retCh,
                     received, collector, exitCode, pc>>
  BY DEF Signal, Running, R!Cancel, ownVars, lookupVars, chanVars
<1>2. OwnTyped' /\ StartInv' /\ CloseInv' /\ ExitInv'
  BY <1>1 DEF IInv, OwnTyped, StartInv, startVars, S!TypeOK, Made, AllIDs,
     CloseInv, ExitInv
<1>3. ChanInv'
  BY <1>1, CommonStep DEF IInv, ChanInv, In
<1> QED
  BY <1>1, <1>2, <1>3, CommonStep DEF OwnInv

LEMMA ZeroMeansNone ==
  ASSUME P!WgCounts, wg = 0
  PROVE  \A w \in Workers : pc[w]["waiter"] \in {"none", "done"}
<1>1. IsFiniteSet(P!Live)
  <2>1. P!IsFiniteSet(P!Live)
    BY FiniteWorkers, MaxFuncsAssumption, P!LiveFinite
  <2> QED
    BY <2>1 DEF IsFiniteSet, P!IsFiniteSet
<1>2. Cardinality(P!Live) = 0
  BY Zenon DEF P!WgCounts, Cardinality, P!Cardinality
<1>3. P!Live = {}
  BY <1>1, <1>2, FS_EmptySet
<1> QED
  BY <1>3 DEF P!Live

LEMMA CollectorStep == ASSUME IInv, Collector PROVE OwnInv'
<1>1. /\ exitCode = "none" /\ phase = "running"
      /\ UNCHANGED <<startVars, matches, marked, found, status, worker, retCh,
                     received, exitCode, pc>>
  BY DEF Collector, WgWait, SignalWgWait, Running, rbVars, lookupVars, chanVars
<1>2. OwnTyped'
  BY <1>1 DEF IInv, OwnTyped, Collector, WgWait, SignalWgWait
<1>3. StartInv' /\ ExitInv'
  BY <1>1, StartFrame DEF IInv, ExitInv
<1>4. ChanInv'
  BY <1>1, CommonStep DEF IInv, ChanInv, In
<1>5. CloseInv'
  <2>1. CASE WgWait
    BY <1>1, <2>1 DEF WgWait, CloseInv
  <2>2. CASE SignalWgWait
    <3>1. \A w \in Workers : pc[w]["waiter"] \in {"none", "done"}
      BY <2>2, ZeroMeansNone DEF SignalWgWait, IInv
    <3> QED
      BY <1>1, <2>2, <3>1 DEF CloseInv, IInv, SignalWgWait
  <2> QED
    BY <2>1, <2>2 DEF Collector
<1> QED
  BY <1>1, <1>2, <1>3, <1>4, <1>5, CommonStep DEF OwnInv

LEMMA ReceiveStep == ASSUME IInv, Receive PROVE OwnInv'
<1>1. /\ exitCode = "none" /\ retCh # <<>>
      /\ received' = Append(received, Head(retCh)) /\ retCh' = Tail(retCh)
      /\ UNCHANGED <<startVars, matches, marked, found, status, worker,
                     collector, exitCode, pc>>
  BY DEF Receive, Running, rbVars, lookupVars
<1>2. /\ retCh \in Seq(Workers) /\ received \in Seq(Workers)
      /\ Len(retCh) <= RetCap /\ RetCap \in Nat
  BY RetCapAssumption DEF IInv, OwnTyped
<1>3. /\ Head(retCh) \in Workers /\ Tail(retCh) \in Seq(Workers)
      /\ Len(Tail(retCh)) = Len(retCh) - 1
      /\ Len(retCh) \in Nat /\ Len(received) \in Nat
  BY <1>1, <1>2, HeadTailProperties, LenProperties
<1>4. received' \in Seq(Workers) /\ Len(received') = Len(received) + 1
  BY <1>1, <1>2, <1>3, AppendProperties
<1>5. OwnTyped'
  BY <1>1, <1>2, <1>3, <1>4 DEF IInv, OwnTyped
<1>6. StartInv' /\ CloseInv' /\ ExitInv'
  BY <1>1 DEF IInv, StartInv, startVars, S!TypeOK, Made, AllIDs, CloseInv,
     ExitInv
<1>7. ChanInv'
  <2>1. Sent' = Sent
    BY <1>1, CommonStep
  <2>2. ASSUME NEW v \in Sent PROVE In(received', v) \/ In(retCh', v)
    <3>1. In(received, v) \/ In(retCh, v)
      BY <2>2 DEF IInv, ChanInv
    <3>2. In(retCh, v) => v = Head(retCh) \/ In(Tail(retCh), v)
      BY <1>1, <1>2, InTail
    <3> QED
      BY <1>1, <1>2, <1>3, <3>1, <3>2, InAppend
  <2>3. Len(received') + Len(retCh') = Cardinality(Sent)
    BY <1>1, <1>3, <1>4 DEF IInv, ChanInv
  <2> QED
    BY <2>1, <2>2, <2>3 DEF ChanInv, In
<1> QED
  BY <1>1, <1>5, <1>6, <1>7, CommonStep DEF OwnInv

LEMMA ExitStep == ASSUME IInv, Exit PROVE OwnInv'
<1>1. /\ exitCode = "none" /\ retCh = <<>> /\ collector = "closed"
      /\ exitCode' = IF \A i \in DOMAIN received : Ok(received[i])
                     THEN "exitNormal" ELSE "exitTransformErr"
      /\ UNCHANGED <<startVars, matches, marked, found, status, worker, retCh,
                     received, collector, pc, retErr>>
  BY DEF Exit, Running, rbVars, lookupVars, chanVars
<1>2. phase = "running"
  BY <1>1 DEF IInv, StartInv
<1>3. OwnTyped' /\ StartInv' /\ CloseInv'
  BY <1>1, <1>2, StartFrame DEF IInv, OwnTyped, CloseInv
<1>4. ChanInv'
  BY <1>1, CommonStep DEF IInv, ChanInv, In
<1>5. ExitInv'
  <2>1. (\A i \in DOMAIN received : Ok(received[i]))'
          <=> \A i \in DOMAIN received : Ok(received[i])
    BY <1>1 DEF Ok
  <2> QED
    BY <1>1, <1>2, <2>1 DEF ExitInv, startVars
<1> QED
  BY <1>1, <1>3, <1>4, <1>5, CommonStep DEF OwnInv
-----------------------------------------------------------------------------
LEMMA InitInv == ASSUME Init PROVE IInv
<1>1. P!IInv /\ P!WgCounts
  BY RollbackInit DEF Init
<1>2. OwnTyped
  <2>1. <<>> \in Seq(Workers) /\ Len(<<>>) = 0
    OBVIOUS
  <2> QED
    BY <2>1, RetCapAssumption DEF Init, OwnTyped, Statuses
<1>3. StartInv
  BY NamesAssumption
     DEF Init, S!Init, StartInv, S!TypeOK, Made, S!NoTool, S!NoDriver, S!After
<1>4. ASSUME NEW w \in Workers PROVE WorkerInv(w)
  BY DEF Init, R!Init, R!Goroutines, WorkerInv, Owner
<1>5. MarkInv /\ CloseInv /\ ExitInv
  BY DEF Init, MarkInv, CloseInv, ExitInv
<1>6. ChanInv
  <2>1. Sent = {}
    BY DEF Init, Sent
  <2> QED
    BY <2>1, FS_EmptySet DEF Init, ChanInv
<1> QED
  BY <1>1, <1>2, <1>3, <1>4, <1>5, <1>6 DEF IInv

LEMMA InvStep == ASSUME IInv, [Next]_vars PROVE IInv'
<1>1. OwnInv'
  <2>1. CASE UNCHANGED vars
    <3>1. UNCHANGED <<startVars, matches, marked, found, status, worker, retCh,
                      received, collector, exitCode, pc, retErr>>
      BY <2>1 DEF vars, ownVars, rbVars, lookupVars, chanVars
    <3>2. OwnTyped' /\ StartInv' /\ CloseInv' /\ ChanInv'
      BY <3>1, CommonStep DEF IInv, OwnTyped, StartInv, startVars, S!TypeOK,
         Made, AllIDs, CloseInv, ChanInv, In
    <3>3. ExitInv'
      BY <3>1 DEF IInv, ExitInv, Ok, startVars
    <3> QED
      BY <3>1, <3>2, <3>3, CommonStep DEF OwnInv
  <2> QED
    BY <2>1, StartStep, MatchStep, MatchStoreStep, TransformOwnerStep,
       ReturnStep, SendStep, WgDoneStep, WaiterStep, SignalStep, CollectorStep,
       ReceiveStep, ExitStep DEF Next, Worker, Main, Terminated
<1> QED
  BY <1>1, RollbackStepInv DEF OwnInv, IInv

(* The invariant of an invocation, for any IDs and whatever each of them   *)
(* matches.                                                                *)
THEOREM InductiveInvariant == Spec => []IInv
<1>1. Init => IInv
  BY InitInv
<1>2. IInv /\ [Next]_vars => IInv'
  BY InvStep
<1> QED
  BY <1>1, <1>2, PTL DEF Spec
-----------------------------------------------------------------------------
(* Every state is well typed: retCh is never over its capacity, signalWg   *)
(* never negative.                                                         *)
THEOREM TypeCorrect == Spec => []TypeOK
<1>1. ASSUME IInv PROVE TypeOK
  <2>1. P!TypeOK
    BY <1>1, FiniteWorkers, MaxFuncsAssumption, P!LiveFinite
       DEF IInv, P!IInv, P!Typed, P!WgCounts, P!TypeOK
  <2>2. R!Cardinality(Workers) = P!Cardinality(Workers)
    BY Zenon DEF R!Cardinality, P!Cardinality
  <2>3. R!TypeOK
    BY <2>1, <2>2 DEF R!TypeOK, P!TypeOK, R!Goroutines, P!Goroutines, R!NoRun,
       P!NoRun, R!OwnerPC, P!OwnerPC, R!WaiterPC, P!WaiterPC
  <2> QED
    BY <1>1, <2>3 DEF TypeOK, IInv, OwnTyped, StartInv
<1> QED
  BY <1>1, InductiveInvariant, PTL

(* The driver a worker uses was made in the right order (docker.go:118).   *)
THEOREM DriverReady == Spec => []DriverIsReady
<1>1. IInv => DriverIsReady
  BY DEF IInv, StartInv, Made, DriverIsReady, S!SdIsReady
<1> QED
  BY <1>1, InductiveInvariant, PTL

(* matchID() answers "has been transformed" only where another worker      *)
(* loads and stores the mark.                                              *)
THEOREM SkippedTakenOn == Spec => []SkippedIsTakenOn
<1>1. IInv => SkippedIsTakenOn
  BY DEF IInv, MarkInv, TakesOn, SkippedIsTakenOn
<1> QED
  BY <1>1, InductiveInvariant, PTL

(* Transform() closes retCh after wg.Wait(), so no send panics.            *)
THEOREM NeverSendsOnClosed == Spec => []NoSendOnClosed
<1>1. IInv => NoSendOnClosed
  BY DEF IInv, CloseInv, NoSendOnClosed
<1> QED
  BY <1>1, InductiveInvariant, PTL

(* main() returns after Transform() closed retCh, which is after           *)
(* signalWg.Wait(): no exit cuts a rollback off.                           *)
THEOREM NoRollbackCutOff == Spec => []ExitWaitsForRollback
<1>1. ASSUME IInv, exitCode # "none", NEW w \in Workers
      PROVE  pc[w]["waiter"] \in {"none", "done"}
  <2>1. CASE exitCode = "exitInitErr"
    <3>1. worker[w] = "match" /\ WorkerInv(w)
      BY <1>1, <2>1 DEF IInv, StartInv
    <3>2. Owner(w) = "new"
      BY <3>1 DEF WorkerInv
    <3> QED
      BY <1>1, <3>2, PcFacts
  <2>2. CASE exitCode # "exitInitErr"
    BY <1>1, <2>2 DEF IInv, OwnTyped, ExitInv, CloseInv
  <2> QED
    BY <2>1, <2>2
<1>2. IInv => ExitWaitsForRollback
  BY <1>1 DEF ExitWaitsForRollback
<1> QED
  BY <1>2, InductiveInvariant, PTL

(* Nothing is sent twice, lost in the channel or left there: main()'s exit *)
(* code answers for each ID.                                               *)
THEOREM EveryIDIsAnswered == Spec => []ExitAnswersEveryID
<1>1. ASSUME IInv, exitCode \in {"exitNormal", "exitTransformErr"}
      PROVE  /\ Len(received) = Cardinality(Workers)
             /\ \A w \in Workers : \E i \in DOMAIN received : received[i] = w
             /\ (exitCode = "exitNormal") <=> \A w \in Workers : Ok(w)
  <2>1. /\ retCh = <<>> /\ collector = "closed"
        /\ (exitCode = "exitNormal")
             <=> \A i \in DOMAIN received : Ok(received[i])
        /\ received \in Seq(Workers)
    BY <1>1 DEF IInv, ExitInv, OwnTyped
  <2>2. Sent = Workers
    BY <1>1, <2>1 DEF IInv, CloseInv, Sent
  <2>3. DOMAIN received = 1..Len(received) /\ Len(received) \in Nat
        /\ \A i \in DOMAIN received : received[i] \in Workers
    BY <2>1, LenProperties, ElementOfSeq
  <2>4. Len(received) = Cardinality(Workers)
    BY <1>1, <2>1, <2>2, <2>3, SentFinite DEF IInv, ChanInv
  <2>5. \A w \in Workers : \E i \in DOMAIN received : received[i] = w
    BY <1>1, <2>1, <2>2, <2>3 DEF IInv, ChanInv, In
  <2> QED
    BY <2>1, <2>3, <2>4, <2>5
<1>2. IInv => ExitAnswersEveryID
  BY <1>1 DEF ExitAnswersEveryID
<1> QED
  BY <1>2, InductiveInvariant, PTL

(* With --all every worker has an ID of its own, so none is refused.       *)
THEOREM AllTakenOnce == Spec => []AllTakesEachOnce
<1>1. ASSUME IInv, setup.args = "all", exitCode \notin {"none", "exitInitErr"},
             NEW c \in Ctrs
      PROVE  \E w \in Workers : /\ found[w] = c /\ status[w] = "needTransform"
                                /\ \A v \in Workers \ {w} : found[v] # c
  <2>1. phase = "running" /\ \A w \in Workers : worker[w] = "done"
    BY <1>1 DEF IInv, OwnTyped, ExitInv, CloseInv
  <2>2. PICK f \in Bijection(Workers, Ctrs) :
          matches = [w \in Workers |-> {f[w]}]
    BY <1>1, <2>1 DEF IInv, StartInv, AllIDs
  <2>3. /\ f \in [Workers -> Ctrs]
        /\ \A v, w \in Workers : f[v] = f[w] => v = w
        /\ \E w \in Workers : f[w] = c
    BY DEF Bijection, Injection, Surjection, IsInjective
  <2>4. ASSUME NEW w \in Workers
        PROVE  found[w] = f[w] /\ status[w] # "notExist"
    BY <1>1, <2>1, <2>2 DEF IInv, WorkerInv
  <2>5. ASSUME NEW w \in Workers PROVE status[w] = "needTransform"
    BY <1>1, <2>3, <2>4 DEF IInv, MarkInv, TakesOn, OwnTyped, Statuses
  <2> QED
    BY <2>3, <2>4, <2>5
<1>2. IInv => AllTakesEachOnce
  BY <1>1 DEF AllTakesEachOnce
<1> QED
  BY <1>2, InductiveInvariant, PTL

(* signalWg.Add() is called by transform(), which wg.Wait() waited for.    *)
THEOREM NeverAddsAfterWait == Spec => NoAddAfterWait
<1>1. ASSUME IInv, [Next]_vars, collector # "wg" PROVE wg' <= wg
  <2>1. wg \in Int
    BY <1>1 DEF IInv, P!IInv, P!Typed
  <2>2. CASE UNCHANGED wg
    BY <2>1, <2>2
  <2>3. ASSUME NEW w \in Workers, Worker(w) PROVE UNCHANGED wg
    <3>1. worker[w] = "done"
      BY <1>1 DEF IInv, CloseInv
    <3> QED
      BY <2>3, <3>1 DEF Worker, MatchNone, MatchLoad, MatchStore,
         TransformStep, TransformReturn, Send, WgDone, On
  <2>4. ASSUME NEW w \in Workers, Waiter(w) PROVE wg' <= wg
    BY <1>1, <2>4, WaiterMoves DEF Waiter
  <2>5. Start \/ Signal \/ Collector \/ Main \/ Terminated \/ UNCHANGED vars
          => UNCHANGED wg
    BY DEF Start, Signal, R!Cancel, Collector, WgWait, SignalWgWait, Main,
       Receive, Exit, Terminated, vars, rbVars
  <2> QED
    BY <1>1, <2>2, <2>3, <2>4, <2>5 DEF Next
<1>2. IInv /\ [Next]_vars => [collector # "wg" => wg' <= wg]_vars
  BY <1>1
<1> QED
  BY <1>2, InductiveInvariant, PTL DEF Spec, NoAddAfterWait
=============================================================================
