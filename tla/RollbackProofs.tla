--------------------------- MODULE RollbackProofs ---------------------------
(***************************************************************************)
(* Proofs about Rollback, for any finite set of instances and any number   *)
(* of undo functions.                                                      *)
(***************************************************************************)
EXTENDS Rollback, FiniteSetTheorems, TLAPS

(* Type correctness without the bound on wg, which needs the counting      *)
(* argument of WgCounts.                                                   *)
Typed ==
  /\ cancelled \in BOOLEAN
  /\ wg \in Int
  /\ executed \in [Rbs -> BOOLEAN]
  /\ closed \in [Rbs -> BOOLEAN]
  /\ closeCh \in [Rbs -> BOOLEAN]
  /\ length \in [Rbs -> 0..MaxFuncs]
  /\ stored \in [Rbs -> 0..MaxFuncs]
  /\ retErr \in [Rbs -> BOOLEAN]
  /\ pc \in [Rbs -> [Goroutines -> OwnerPC \cup WaiterPC]]
  /\ \A r \in Rbs : pc[r]["owner"] \in OwnerPC /\ pc[r]["waiter"] \in WaiterPC
  /\ idx \in [Rbs -> [Goroutines -> 0..MaxFuncs]]
  /\ crashed \in BOOLEAN
  /\ from \in [Rbs -> [Goroutines -> {NoRun} \cup 0..MaxFuncs]]
  /\ called \in [Rbs -> [Goroutines -> SUBSET (1..MaxFuncs)]]
  /\ atCancel \in [Rbs -> [registered : 0..MaxFuncs, closed : BOOLEAN]]

(* The owner's slice: complete except between the two writes of append.    *)
SliceInv(r) ==
  /\ pc[r]["owner"] = "new" => length[r] = 0
  /\ pc[r]["owner"] = "torn" => length[r] = stored[r] + 1
  /\ pc[r]["owner"] # "torn" => length[r] = stored[r]

(* A run has called everything from where it started down to idx + 1.      *)
RunInv(r, g) ==
  /\ pc[r][g] \in {"new", "open", "torn", "none", "select", "check", "store",
                   "len"}
       => from[r][g] = NoRun
  /\ from[r][g] = NoRun => called[r][g] = {}
  /\ from[r][g] # NoRun => /\ from[r][g] <= length[r]
                           /\ idx[r][g] <= from[r][g]
                           /\ called[r][g] = (idx[r][g] + 1)..from[r][g]
                           /\ executed[r]
  /\ pc[r][g] = "len" => executed[r]
  /\ pc[r][g] = "loop" => from[r][g] # NoRun /\ idx[r][g] >= 1
  /\ pc[r][g] \in {"exit", "done"} /\ from[r][g] # NoRun => idx[r][g] = 0

(* What the owner's place says of its error and of its run.                *)
OwnerInv(r) ==
  /\ executed[r] => \E g \in Goroutines : from[r][g] # NoRun \/ pc[r][g] = "len"
  /\ from[r]["owner"] # NoRun => retErr[r] /\ from[r]["owner"] = length[r]
  /\ pc[r]["owner"] \in {"check", "store", "len", "loop"} => retErr[r]
  /\ pc[r]["owner"] \in {"exit", "done"} /\ retErr[r] => executed[r]
  /\ pc[r]["owner"] \in {"new", "open", "torn"} => ~retErr[r]
  /\ pc[r]["owner"] \in {"store", "len", "loop"} \/ from[r]["owner"] # NoRun
       => from[r]["waiter"] \in {NoRun, length[r]}
  /\ closeCh[r] \/ closed[r] => pc[r]["owner"] = "done"

(* What the waiter's place says of the signal and of its run.              *)
WaiterInv(r) ==
  /\ pc[r]["owner"] = "new" <=> pc[r]["waiter"] = "none"
  /\ closed[r] => from[r]["waiter"] = NoRun /\ pc[r]["waiter"] \in {"exit", "done"}
  /\ pc[r]["waiter"] \in {"check", "store", "len", "loop"} => cancelled
  /\ from[r]["waiter"] # NoRun => cancelled /\ from[r]["waiter"] >= atCancel[r].registered
  /\ pc[r]["waiter"] \in {"exit", "done"} /\ ~closed[r] => cancelled /\ executed[r]
  /\ cancelled => atCancel[r].registered <= stored[r]

RbInv(r) ==
  /\ SliceInv(r)
  /\ \A g \in Goroutines : RunInv(r, g)
  /\ OwnerInv(r)
  /\ WaiterInv(r)

IInv ==
  /\ Typed
  /\ \A r \in Rbs : RbInv(r)
  /\ CrashOnlyInTornRegister

USE DEF At, Goto, NoRun
-----------------------------------------------------------------------------
(* The typing facts and the invariant, action by action.                   *)

LEMMA InitInv == Init => IInv
<1> SUFFICES ASSUME Init PROVE IInv
  OBVIOUS
<1> USE DEF Init, Goroutines
<1>1. Typed
  <2>1. /\ pc \in [Rbs -> [Goroutines -> OwnerPC \cup WaiterPC]]
        /\ \A r \in Rbs : /\ pc[r]["owner"] \in OwnerPC
                          /\ pc[r]["waiter"] \in WaiterPC
    BY DEF OwnerPC, WaiterPC
  <2>2. /\ length \in [Rbs -> 0..MaxFuncs]
        /\ stored \in [Rbs -> 0..MaxFuncs]
        /\ idx \in [Rbs -> [Goroutines -> 0..MaxFuncs]]
        /\ from \in [Rbs -> [Goroutines -> {NoRun} \cup 0..MaxFuncs]]
        /\ atCancel \in [Rbs -> [registered : 0..MaxFuncs, closed : BOOLEAN]]
    BY MaxFuncsAssumption
  <2>3. called \in [Rbs -> [Goroutines -> SUBSET (1..MaxFuncs)]]
    OBVIOUS
  <2>4. /\ executed \in [Rbs -> BOOLEAN]
        /\ closed \in [Rbs -> BOOLEAN]
        /\ closeCh \in [Rbs -> BOOLEAN]
        /\ retErr \in [Rbs -> BOOLEAN]
        /\ cancelled \in BOOLEAN /\ crashed \in BOOLEAN
    BY Zenon
  <2>5. wg \in Int
    OBVIOUS
  <2> HIDE DEF Init, Goroutines
  <2> QED
    BY <2>1, <2>2, <2>3, <2>4, <2>5 DEF Typed
<1>2. ASSUME NEW r \in Rbs PROVE SliceInv(r) /\ OwnerInv(r) /\ WaiterInv(r)
  BY DEF SliceInv, OwnerInv, WaiterInv
<1>3. ASSUME NEW r \in Rbs, NEW g \in Goroutines PROVE RunInv(r, g)
  BY DEF RunInv
<1> QED
  BY <1>1, <1>2, <1>3 DEF IInv, RbInv, CrashOnlyInTornRegister

LEMMA TypedStep == IInv /\ [Next]_vars => Typed'
<1> SUFFICES ASSUME IInv, [Next]_vars PROVE Typed'
  OBVIOUS
<1> Typed
  BY DEF IInv
<1> USE MaxFuncsAssumption DEF Typed, Goroutines, OwnerPC, WaiterPC
<1>1. CASE Cancel
  BY <1>1 DEF Cancel
<1>2. ASSUME NEW r \in Rbs, Wait(r) PROVE Typed'
  BY <1>2 DEF Wait
<1>3. ASSUME NEW r \in Rbs, RegisterLen(r) PROVE Typed'
  BY <1>3 DEF RegisterLen
<1>4. ASSUME NEW r \in Rbs, RegisterElem(r) PROVE Typed'
  BY <1>4 DEF RegisterElem
<1>5. ASSUME NEW r \in Rbs, NEW failed \in BOOLEAN, Leave(r, failed) PROVE Typed'
  BY <1>5 DEF Leave
<1>6. ASSUME NEW r \in Rbs, Close(r) PROVE Typed'
  BY <1>6 DEF Close
<1>7. ASSUME NEW r \in Rbs, NEW g \in Goroutines, RunCheck(r, g) PROVE Typed'
  BY <1>7 DEF RunCheck
<1>8. ASSUME NEW r \in Rbs, NEW g \in Goroutines, RunStore(r, g) PROVE Typed'
  BY <1>8 DEF RunStore
<1>8a. ASSUME NEW r \in Rbs, NEW g \in Goroutines, RunLen(r, g) PROVE Typed'
  BY <1>8a DEF RunLen, FirstCall
<1>9. ASSUME NEW r \in Rbs, NEW g \in Goroutines, RunCall(r, g) PROVE Typed'
  <2>1. idx[r][g] \in 1..MaxFuncs
    BY <1>9 DEF IInv, RbInv, RunInv, RunCall
  <2> QED
    BY <1>9, <2>1 DEF RunCall, NextCall
<1>10. ASSUME NEW r \in Rbs, NEW g \in Goroutines, RunCallNil(r, g) PROVE Typed'
  BY <1>10 DEF RunCallNil
<1>11. ASSUME NEW r \in Rbs, SelectCancel(r) PROVE Typed'
  BY <1>11 DEF SelectCancel
<1>12. ASSUME NEW r \in Rbs, SelectClose(r) PROVE Typed'
  BY <1>12 DEF SelectClose
<1>13. ASSUME NEW r \in Rbs, WgDone(r) PROVE Typed'
  BY <1>13 DEF WgDone
<1>14. CASE UNCHANGED vars
  BY <1>14 DEF vars, progVars
<1> QED
  BY <1>1, <1>2, <1>3, <1>4, <1>5, <1>6, <1>7, <1>8, <1>9, <1>10, <1>11,
     <1>12, <1>13, <1>14, <1>8a DEF Next, Owner, Waiter, Run, Terminated

LEMMA StoredWithin ==
  ASSUME Typed, NEW q \in Rbs, SliceInv(q)
  PROVE  length[q] \in Nat /\ stored[q] \in Nat /\ stored[q] <= length[q]
  BY MaxFuncsAssumption DEF Typed, SliceInv

(* What one instance knows is about itself and the context only.           *)
SameRb(q) ==
  /\ UNCHANGED <<executed[q], closed[q], closeCh[q], length[q], stored[q],
                 retErr[q], pc[q], idx[q], from[q], called[q], atCancel[q]>>
  /\ UNCHANGED cancelled

LEMMA Frame == ASSUME NEW q \in Rbs, RbInv(q), SameRb(q) PROVE RbInv(q)'
  BY DEF SameRb, RbInv, SliceInv, RunInv, OwnerInv, WaiterInv

(* The same for one run. *)
LEMMA RunFrame ==
  ASSUME NEW q \in Rbs, NEW h \in Goroutines, RunInv(q, h),
         pc'[q][h] = pc[q][h], idx'[q][h] = idx[q][h],
         from'[q][h] = from[q][h], called'[q][h] = called[q][h],
         length'[q] = length[q], executed'[q] = executed[q]
  PROVE  RunInv(q, h)'
  BY DEF RunInv

LEMMA RbStep ==
  ASSUME IInv, Next, Typed', NEW q \in Rbs
  PROVE  RbInv(q)'
<1> USE DEF IInv, RbInv, Typed, Goroutines
<1>1. CASE Cancel
  BY <1>1 DEF Cancel, SliceInv, RunInv, OwnerInv, WaiterInv
<1>2. ASSUME NEW r \in Rbs, Wait(r) PROVE RbInv(q)'
  <2> USE <1>2 DEF Wait
  <2>1. CASE q # r
    BY <2>1, Frame DEF SameRb
  <2>2. CASE q = r
    BY <2>2 DEF SliceInv, RunInv, OwnerInv, WaiterInv
  <2> QED
    BY <2>1, <2>2
<1>3. ASSUME NEW r \in Rbs, RegisterLen(r) PROVE RbInv(q)'
  <2> USE <1>3 DEF RegisterLen
  <2>1. CASE q # r
    BY <2>1, Frame DEF SameRb
  <2>2. CASE q = r
    BY <2>2 DEF SliceInv, RunInv, OwnerInv, WaiterInv
  <2> QED
    BY <2>1, <2>2
<1>4. ASSUME NEW r \in Rbs, RegisterElem(r) PROVE RbInv(q)'
  <2> USE <1>4 DEF RegisterElem
  <2>1. CASE q # r
    BY <2>1, Frame DEF SameRb
  <2>2. CASE q = r
    BY <2>2 DEF SliceInv, RunInv, OwnerInv, WaiterInv
  <2> QED
    BY <2>1, <2>2
<1>5. ASSUME NEW r \in Rbs, NEW failed \in BOOLEAN, Leave(r, failed) PROVE RbInv(q)'
  <2> USE <1>5 DEF Leave
  <2>1. CASE q # r
    BY <2>1, Frame DEF SameRb
  <2>2. CASE q = r
    BY <2>2 DEF SliceInv, RunInv, OwnerInv, WaiterInv
  <2> QED
    BY <2>1, <2>2
<1>6. ASSUME NEW r \in Rbs, Close(r) PROVE RbInv(q)'
  <2> USE <1>6 DEF Close
  <2>1. CASE q # r
    BY <2>1, Frame DEF SameRb
  <2>2. CASE q = r
    BY <2>2 DEF SliceInv, RunInv, OwnerInv, WaiterInv
  <2> QED
    BY <2>1, <2>2
<1>7. ASSUME NEW r \in Rbs, NEW g \in Goroutines, RunCheck(r, g) PROVE RbInv(q)'
  <2> USE <1>7 DEF RunCheck, MustNotRun
  <2>1. CASE q # r
    BY <2>1, Frame DEF SameRb
  <2>2. CASE q = r
    BY <2>2 DEF SliceInv, RunInv, OwnerInv, WaiterInv
  <2> QED
    BY <2>1, <2>2
<1>8. ASSUME NEW r \in Rbs, NEW g \in Goroutines, RunStore(r, g) PROVE RbInv(q)'
  <2> USE <1>8 DEF RunStore
  <2>1. CASE q # r
    BY <2>1, Frame DEF SameRb
  <2>2. CASE q = r
    BY <2>2 DEF SliceInv, RunInv, OwnerInv, WaiterInv
  <2> QED
    BY <2>1, <2>2
<1>8a. ASSUME NEW r \in Rbs, NEW g \in Goroutines, RunLen(r, g) PROVE RbInv(q)'
  <2> USE <1>8a DEF RunLen, FirstCall
  <2>1. CASE q # r
    BY <2>1, Frame DEF SameRb
  <2>2. CASE q = r
    <3> USE <2>2
    <3>1. SliceInv(q)'
      BY DEF SliceInv
    <3>2. ASSUME NEW h \in Goroutines PROVE RunInv(q, h)'
      <4>1. CASE h = g
        <5>1. called[q][g] = {}
          BY DEF RunInv
        <5>2. length[q] \in Nat /\ (length[q] + 1)..length[q] = {}
          OBVIOUS
        <5> QED
          BY <4>1, <5>1, <5>2 DEF RunInv
      <4>2. CASE h # g
        BY <4>2 DEF RunInv
      <4> QED
        BY <4>1, <4>2
    <3>3. OwnerInv(q)'
      BY DEF OwnerInv, SliceInv, RunInv
    <3>4. WaiterInv(q)'
      <4>1. length[q] \in Nat /\ stored[q] \in Nat /\ stored[q] <= length[q]
        BY StoredWithin
      <4>2. atCancel[q].registered \in Nat
        OBVIOUS
      <4>3. CASE g = "owner"
        BY <4>3 DEF WaiterInv, RunInv, OwnerInv
      <4>4. CASE g = "waiter"
        BY <4>1, <4>2, <4>4 DEF WaiterInv, RunInv, OwnerInv
      <4> QED
        BY <4>3, <4>4
    <3> QED
      BY <3>1, <3>2, <3>3, <3>4
  <2> QED
    BY <2>1, <2>2
<1>9. ASSUME NEW r \in Rbs, NEW g \in Goroutines, RunCall(r, g) PROVE RbInv(q)'
  <2> USE <1>9 DEF RunCall, NextCall
  <2>1. CASE q # r
    BY <2>1, Frame DEF SameRb
  <2>2. CASE q = r
    <3> USE <2>2
    <3>1. SliceInv(q)'
      BY DEF SliceInv
    <3>2. ASSUME NEW h \in Goroutines PROVE RunInv(q, h)'
      <4>1. CASE h = g
        <5> DEFINE i == idx[q][g]
        <5>1. /\ i \in Nat /\ i >= 1 /\ i <= from[q][g]
              /\ from[q][g] \in Nat /\ from[q][g] <= length[q]
              /\ called[q][g] = (i + 1)..from[q][g]
              /\ executed[q]
          BY DEF RunInv
        <5>2. called'[q][g] = i..from[q][g]
          <6>1. called'[q][g] = called[q][g] \cup {i}
            OBVIOUS
          <6>2. ((i + 1)..from[q][g]) \cup {i} = i..from[q][g]
            BY <5>1 DEF i
          <6> QED
            BY <5>1, <6>1, <6>2
        <5>3. idx'[q][g] = i - 1 /\ from'[q][g] = from[q][g]
          OBVIOUS
        <5>4. pc'[q][g] = IF i - 1 <= 0 THEN "exit" ELSE "loop"
          OBVIOUS
        <5>5. UNCHANGED <<length[q], executed[q]>>
          OBVIOUS
        <5> HIDE <1>9, <2>2 DEF i, IInv, RbInv, Typed, RunCall, NextCall
        <5>6. CASE i = 1
          BY <4>1, <5>1, <5>2, <5>3, <5>4, <5>5, <5>6 DEF RunInv
        <5>7. CASE i > 1
          BY <4>1, <5>1, <5>2, <5>3, <5>4, <5>5, <5>7 DEF RunInv
        <5> QED
          BY <5>1, <5>6, <5>7
      <4>2. CASE h # g
        <5>1. /\ RunInv(q, h)
              /\ length'[q] = length[q] /\ executed'[q] = executed[q]
              /\ from'[q][h] = from[q][h] /\ called'[q][h] = called[q][h]
          BY <4>2
        <5>2. pc'[q][h] = pc[q][h] /\ idx'[q][h] = idx[q][h]
          BY <4>2
        <5> HIDE <1>9, <2>2, <4>2 DEF IInv, RbInv, Typed, RunCall, NextCall
        <5> QED
          BY <5>1, <5>2, RunFrame
      <4> QED
        BY <4>1, <4>2
    <3>3. OwnerInv(q)'
      BY DEF OwnerInv, SliceInv, RunInv
    <3>4. WaiterInv(q)'
      BY DEF WaiterInv, SliceInv, RunInv, OwnerInv
    <3> QED
      BY <3>1, <3>2, <3>3, <3>4
  <2> QED
    BY <2>1, <2>2
<1>10. ASSUME NEW r \in Rbs, NEW g \in Goroutines, RunCallNil(r, g) PROVE RbInv(q)'
  BY <1>10, Frame DEF RunCallNil, SameRb
<1>11. ASSUME NEW r \in Rbs, SelectCancel(r) PROVE RbInv(q)'
  <2> USE <1>11 DEF SelectCancel
  <2>1. CASE q # r
    BY <2>1, Frame DEF SameRb
  <2>2. CASE q = r
    <3> USE <2>2
    <3>1. SliceInv(q)' /\ OwnerInv(q)'
      BY DEF SliceInv, OwnerInv, WaiterInv
    <3>2. ASSUME NEW h \in Goroutines PROVE RunInv(q, h)'
      BY DEF RunInv
    <3>3. /\ WaiterInv(q) /\ from[q]["waiter"] = NoRun /\ cancelled
          /\ pc[q]["waiter"] = "select"
      BY DEF RunInv
    <3>4. /\ pc'[q]["waiter"] = "check" /\ pc'[q]["owner"] = pc[q]["owner"]
          /\ UNCHANGED <<cancelled, closed, from, executed, atCancel, stored>>
      OBVIOUS
    <3>5. WaiterInv(q)'
      <4> HIDE <1>11, <2>2 DEF IInv, RbInv, Typed, SelectCancel
      <4> QED
        BY <3>3, <3>4 DEF WaiterInv
    <3> QED
      BY <3>1, <3>2, <3>5
  <2> QED
    BY <2>1, <2>2
<1>12. ASSUME NEW r \in Rbs, SelectClose(r) PROVE RbInv(q)'
  <2> USE <1>12 DEF SelectClose
  <2>1. CASE q # r
    BY <2>1, Frame DEF SameRb
  <2>2. CASE q = r
    <3> USE <2>2
    <3>1. SliceInv(q)' /\ OwnerInv(q)'
      BY DEF SliceInv, OwnerInv, WaiterInv
    <3>2. ASSUME NEW h \in Goroutines PROVE RunInv(q, h)'
      BY DEF RunInv
    <3>3. from[q]["waiter"] = NoRun
      BY DEF RunInv
    <3>4. WaiterInv(q)'
      BY <3>3 DEF WaiterInv
    <3> QED
      BY <3>1, <3>2, <3>4
  <2> QED
    BY <2>1, <2>2
<1>13. ASSUME NEW r \in Rbs, WgDone(r) PROVE RbInv(q)'
  <2> USE <1>13 DEF WgDone
  <2>1. CASE q # r
    BY <2>1, Frame DEF SameRb
  <2>2. CASE q = r
    BY <2>2 DEF SliceInv, RunInv, OwnerInv, WaiterInv
  <2> QED
    BY <2>1, <2>2
<1>14. CASE UNCHANGED vars
  BY <1>14, Frame DEF vars, progVars, SameRb
<1> QED
  BY <1>1, <1>2, <1>3, <1>4, <1>5, <1>6, <1>7, <1>8, <1>9, <1>10, <1>11,
     <1>12, <1>13, <1>14, <1>8a DEF Next, Owner, Waiter, Run, Terminated

LEMMA CrashStep ==
  ASSUME IInv, Next PROVE CrashOnlyInTornRegister'
<1> USE DEF IInv, CrashOnlyInTornRegister
<1>1. CASE crashed
  <2>1. UNCHANGED vars
    BY <1>1 DEF Next, Cancel, Owner, Waiter, Wait, RegisterLen, RegisterElem,
       Leave, Close, Run, RunCheck, RunStore, RunLen, RunCall, RunCallNil,
       SelectCancel, SelectClose, WgDone, Terminated
  <2> QED
    BY <2>1 DEF vars, progVars
<1>2. CASE ~crashed /\ crashed'
  <2>1. PICK r \in Rbs, g \in Goroutines : RunCallNil(r, g)
    BY <1>2 DEF Next, Cancel, Owner, Waiter, Wait, RegisterLen, RegisterElem,
       Leave, Close, Run, RunCheck, RunStore, RunLen, RunCall,
       SelectCancel, SelectClose, WgDone, Terminated, Goroutines, vars, progVars
  <2>2. /\ RbInv(r) /\ pc[r][g] = "loop" /\ idx[r][g] > stored[r]
        /\ UNCHANGED <<cancelled, pc, from, length, called>>
    BY <2>1 DEF RunCallNil
  <2>3. /\ length[r] \in Nat /\ stored[r] \in Nat /\ idx[r][g] \in Nat
        /\ from[r][g] \in Nat
        /\ from[r][g] <= length[r] /\ idx[r][g] <= from[r][g]
        /\ called[r][g] = (idx[r][g] + 1)..from[r][g]
    BY <2>2, MaxFuncsAssumption DEF Typed, RbInv, RunInv
  <2>4. pc[r]["owner"] = "torn" /\ length[r] = stored[r] + 1
    BY <2>2, <2>3 DEF RbInv, SliceInv
  <2>5. g = "waiter"
    BY <2>2, <2>4 DEF Goroutines
  <2>6. from[r][g] = length[r] /\ called[r][g] = {}
    BY <2>2, <2>3, <2>4
  <2>7. cancelled
    BY <2>2, <2>5 DEF RbInv, WaiterInv
  <2> QED
    BY <2>2, <2>4, <2>5, <2>6, <2>7
<1> QED
  BY <1>1, <1>2 DEF Next

LEMMA InvStep == IInv /\ [Next]_vars => IInv'
<1> SUFFICES ASSUME IInv, [Next]_vars PROVE IInv'
  OBVIOUS
<1>1. CASE Next
  BY <1>1, TypedStep, RbStep, CrashStep DEF IInv
<1>2. CASE UNCHANGED vars
  BY <1>2 DEF vars, progVars, IInv, Typed, RbInv, SliceInv, RunInv, OwnerInv,
     WaiterInv, CrashOnlyInTornRegister
<1> QED
  BY <1>1, <1>2

(* The inductive invariant holds of every reachable state.                 *)
THEOREM InductiveInvariant == Spec => []IInv
  BY InitInv, InvStep, PTL DEF Spec
-----------------------------------------------------------------------------
(* What the invariant implies.                                             *)

(* When owner and waiter both get into run(), both undo everything         *)
(* (rollback.go:74-82).                                                    *)
THEOREM DoubleRunIsHarmless == Spec => []DoubleRunAgrees
<1>1. IInv => DoubleRunAgrees
  BY DEF IInv, RbInv, OwnerInv, DoubleRunAgrees, Goroutines
<1> QED
  BY <1>1, InductiveInvariant, PTL

(* Without a signal a failed transformation undoes exactly what it         *)
(* registered, a successful one nothing (docker.go:185-191).               *)
THEOREM UnsignalledRollbackIsExact == Spec => []UnsignalledIsExact
<1>1. IInv => UnsignalledIsExact
  <2> SUFFICES ASSUME IInv, NEW r \in Rbs, ~cancelled, OwnerDone(r)
               PROVE  /\ called[r]["waiter"] = {}
                      /\ called[r]["owner"] = IF retErr[r] THEN 1..length[r] ELSE {}
    BY DEF UnsignalledIsExact
  <2> USE DEF IInv, RbInv, Goroutines, OwnerDone
  <2>1. called[r]["waiter"] = {}
    BY DEF RunInv, WaiterInv
  <2>2. CASE ~retErr[r]
    BY <2>1, <2>2 DEF RunInv, OwnerInv
  <2>3. CASE retErr[r]
    <3>1. from[r]["owner"] # NoRun
      BY <2>3 DEF OwnerInv, WaiterInv
    <3>2. from[r]["owner"] = length[r] /\ idx[r]["owner"] = 0
      BY <3>1 DEF OwnerInv, RunInv
    <3> QED
      BY <2>1, <2>3, <3>1, <3>2 DEF RunInv
  <2> QED
    BY <2>2, <2>3
<1> QED
  BY <1>1, InductiveInvariant, PTL

(* No undo function registered by the time of the signal, or of the end    *)
(* without one, is lost (rollback.go:55-57, 74-82).                        *)
THEOREM NoUndoIsLost == Spec => []AbortUndoesRegistered
<1>1. IInv => AbortUndoesRegistered
  <2> SUFFICES ASSUME IInv, NEW r \in Rbs, OwnerDone(r), WaiterDone(r),
                      retErr[r] \/ ~closed[r]
               PROVE  1..(IF cancelled THEN atCancel[r].registered ELSE length[r])
                        \subseteq Undone(r)
    BY DEF AbortUndoesRegistered
  <2> USE DEF IInv, RbInv, Goroutines, OwnerDone, WaiterDone
  <2>1. length[r] \in Nat /\ stored[r] \in Nat /\ stored[r] <= length[r]
    BY StoredWithin
  <2>2. atCancel[r].registered \in Nat
    BY MaxFuncsAssumption DEF Typed
  <2>3. executed[r]
    BY DEF OwnerInv, WaiterInv
  <2>4. PICK g \in Goroutines : from[r][g] # NoRun
    BY <2>3 DEF OwnerInv
  <2>5. called[r][g] = 1..from[r][g] /\ from[r][g] \in Nat
    BY <2>4, MaxFuncsAssumption DEF RunInv, Typed
  <2>6. cancelled => atCancel[r].registered <= from[r][g]
    BY <2>1, <2>2, <2>4 DEF OwnerInv, WaiterInv
  <2>7. ~cancelled => from[r][g] = length[r]
    BY <2>4 DEF OwnerInv, WaiterInv
  <2>8. called[r][g] \subseteq Undone(r)
    BY DEF Undone
  <2> QED
    BY <2>1, <2>2, <2>5, <2>6, <2>7, <2>8
<1> QED
  BY <1>1, InductiveInvariant, PTL

(* A nil function is only ever called by a waiter that caught its owner    *)
(* between the two writes of an append (rollback.go:71).                   *)
THEOREM CrashNeedsTornRegister == Spec => []CrashOnlyInTornRegister
  BY InductiveInvariant, PTL DEF IInv
-----------------------------------------------------------------------------
(* The WaitGroup counts the waiters that wait() has started and that have  *)
(* not returned.                                                           *)
Live == {r \in Rbs : pc[r]["waiter"] \notin {"none", "done"}}
WgCounts == wg = Cardinality(Live)

LEMMA LiveFinite == IsFiniteSet(Live) /\ Cardinality(Live) \in 0..Cardinality(Rbs)
<1>1. Live \in SUBSET Rbs
  BY DEF Live
<1> QED
  BY <1>1, RbsAssumption, FS_Subset, FS_CardinalityType

LEMMA WgStep == IInv /\ Typed' /\ WgCounts /\ [Next]_vars => WgCounts'
<1> SUFFICES ASSUME IInv, Typed', WgCounts, [Next]_vars PROVE WgCounts'
  OBVIOUS
<1> USE DEF IInv, Typed, Goroutines
<1>1. ASSUME wg' = wg,
             \A r \in Rbs : (pc'[r]["waiter"] \in {"none", "done"})
                              <=> (pc[r]["waiter"] \in {"none", "done"})
      PROVE  WgCounts'
  BY <1>1 DEF WgCounts, Live
<1>2. ASSUME NEW r \in Rbs, Wait(r) PROVE WgCounts'
  <2>1. r \notin Live
    BY <1>2 DEF Wait, Live, RbInv, WaiterInv
  <2>2. Live' = Live \cup {r}
    BY <1>2 DEF Wait, Live
  <2> QED
    BY <1>2, <2>1, <2>2, LiveFinite, FS_AddElement DEF Wait, WgCounts
<1>3. ASSUME NEW r \in Rbs, WgDone(r) PROVE WgCounts'
  <2>1. r \in Live
    BY <1>3 DEF WgDone, Live
  <2>2. Live' = Live \ {r}
    BY <1>3 DEF WgDone, Live
  <2> QED
    BY <1>3, <2>1, <2>2, LiveFinite, FS_RemoveElement DEF WgDone, WgCounts
<1>4. CASE Cancel \/ UNCHANGED vars
  BY <1>1, <1>4 DEF Cancel, vars, progVars
<1>5. ASSUME wg' = wg, NEW r \in Rbs, NEW g \in Goroutines, NEW label,
             Goto(r, g, label),
             g = "waiter" => /\ label \notin {"none", "done"}
                             /\ pc[r]["waiter"] \notin {"none", "done"}
      PROVE  WgCounts'
  <2>1. ASSUME NEW q \in Rbs
        PROVE  (pc'[q]["waiter"] \in {"none", "done"})
                 <=> (pc[q]["waiter"] \in {"none", "done"})
    <3>1. CASE q = r /\ g = "waiter"
      BY <1>5, <3>1
    <3>2. CASE q # r \/ g # "waiter"
      BY <1>5, <3>2
    <3> QED
      BY <3>1, <3>2
  <2> QED
    BY <1>1, <1>5, <2>1
<1>6. ASSUME NEW r \in Rbs, RegisterLen(r) \/ RegisterElem(r) PROVE WgCounts'
  BY <1>5, <1>6 DEF RegisterLen, RegisterElem
<1>7. ASSUME NEW r \in Rbs, NEW failed \in BOOLEAN, Leave(r, failed)
      PROVE  WgCounts'
  BY <1>5, <1>7 DEF Leave
<1>8. ASSUME NEW r \in Rbs, Close(r) PROVE WgCounts'
  BY <1>5, <1>8 DEF Close
<1>9. ASSUME NEW r \in Rbs, NEW g \in Goroutines, RunCheck(r, g) PROVE WgCounts'
  BY <1>5, <1>9 DEF RunCheck
<1>10. ASSUME NEW r \in Rbs, NEW g \in Goroutines, RunStore(r, g) PROVE WgCounts'
  BY <1>5, <1>10 DEF RunStore
<1>10a. ASSUME NEW r \in Rbs, NEW g \in Goroutines, RunLen(r, g) PROVE WgCounts'
  BY <1>5, <1>10a DEF RunLen
<1>11. ASSUME NEW r \in Rbs, NEW g \in Goroutines, RunCall(r, g) PROVE WgCounts'
  BY <1>5, <1>11 DEF RunCall
<1>12. ASSUME NEW r \in Rbs, NEW g \in Goroutines, RunCallNil(r, g) PROVE WgCounts'
  BY <1>1, <1>12 DEF RunCallNil
<1>13. ASSUME NEW r \in Rbs, SelectCancel(r) PROVE WgCounts'
  BY <1>5, <1>13 DEF SelectCancel
<1>14. ASSUME NEW r \in Rbs, SelectClose(r) PROVE WgCounts'
  BY <1>5, <1>14 DEF SelectClose
<1> QED
  BY <1>2, <1>3, <1>4, <1>6, <1>7, <1>8, <1>9, <1>10, <1>10a, <1>11,
     <1>12, <1>13, <1>14 DEF Next, Owner, Waiter, Run, Terminated

LEMMA WgInit == Init => WgCounts
<1> SUFFICES ASSUME Init PROVE WgCounts
  OBVIOUS
<1>1. Live = {}
  BY DEF Init, Live, Goroutines
<1> QED
  BY <1>1, FS_EmptySet DEF Init, WgCounts

LEMMA WgAlwaysCounts == Spec => []WgCounts
  BY WgInit, WgStep, TypedStep, InductiveInvariant, PTL DEF Spec

(* Every reachable state is well typed; in particular signalWg never goes  *)
(* negative, which panics, and never exceeds the number of instances.      *)
THEOREM TypeCorrect == Spec => []TypeOK
<1>1. IInv /\ WgCounts => TypeOK
  BY LiveFinite DEF IInv, Typed, WgCounts, TypeOK
<1> QED
  BY <1>1, InductiveInvariant, WgAlwaysCounts, PTL

(* Once every owner has returned and signalWg is at zero, no waiter can    *)
(* undo anything any more (docker.go:168-169).                             *)
THEOREM WaitGroupCoversUndo == Spec => []WaitCoversUndo
<1>1. IInv /\ WgCounts => WaitCoversUndo
  <2> SUFFICES ASSUME IInv, WgCounts, \A r \in Rbs : OwnerDone(r), wg = 0,
                      NEW r \in Rbs
               PROVE  WaiterDone(r)
    BY DEF WaitCoversUndo
  <2>1. Live = {}
    BY LiveFinite, FS_EmptySet DEF WgCounts
  <2>2. pc[r]["waiter"] \in {"none", "done"}
    BY <2>1 DEF Live
  <2> QED
    BY <2>2 DEF IInv, RbInv, WaiterInv, OwnerDone, WaiterDone
<1> QED
  BY <1>1, InductiveInvariant, WgAlwaysCounts, PTL
-----------------------------------------------------------------------------
(* What a step does to the undo log of an instance: nothing, unless it is  *)
(* a register, the start of a run or a call.                               *)
SameLog(q) == UNCHANGED <<length[q], from[q], called[q]>>

LEMMA LogSteps ==
  ASSUME IInv, [Next]_vars, NEW q \in Rbs
  PROVE  \/ SameLog(q)
         \/ RegisterLen(q)
         \/ \E g \in Goroutines : RunLen(q, g) \/ RunCall(q, g)
<1> USE DEF IInv, Typed, SameLog
<1>1. CASE Cancel \/ UNCHANGED vars
  BY <1>1 DEF Cancel, vars, progVars
<1>2. ASSUME NEW r \in Rbs, NEW failed \in BOOLEAN,
             Wait(r) \/ RegisterElem(r) \/ Leave(r, failed) \/ Close(r)
      PROVE  SameLog(q)
  BY <1>2 DEF Wait, RegisterElem, Leave, Close
<1>3. ASSUME NEW r \in Rbs, SelectCancel(r) \/ SelectClose(r) \/ WgDone(r)
      PROVE  SameLog(q)
  BY <1>3 DEF SelectCancel, SelectClose, WgDone
<1>4. ASSUME NEW r \in Rbs, NEW g \in Goroutines,
             RunCheck(r, g) \/ RunStore(r, g) \/ RunCallNil(r, g)
      PROVE  SameLog(q)
  BY <1>4 DEF RunCheck, RunStore, RunCallNil
<1>5. ASSUME NEW r \in Rbs, r # q, RegisterLen(r)
      PROVE  SameLog(q)
  BY <1>5 DEF RegisterLen
<1>6. ASSUME NEW r \in Rbs, r # q, NEW g \in Goroutines, RunLen(r, g) \/ RunCall(r, g)
      PROVE  SameLog(q)
  BY <1>6 DEF RunLen, RunCall
<1> HIDE DEF IInv, Typed, SameLog
<1> QED
  BY <1>1, <1>2, <1>3, <1>4, <1>5, <1>6
     DEF Next, Owner, Waiter, Run, Terminated, Goroutines

(* A run that calls function i has called all from i + 1 to its start, and *)
(* the other goroutine's run, if there is one, started there too.          *)
LEMMA CallFacts ==
  ASSUME IInv, NEW r \in Rbs, NEW g \in Goroutines, RunCall(r, g)
  PROVE  /\ idx[r][g] \in 1..from[r][g]
         /\ from[r][g] \in Nat /\ from[r][g] <= MaxFuncs
         /\ called[r][g] = (idx[r][g] + 1)..from[r][g]
         /\ called' = [called EXCEPT ![r][g] = @ \cup {idx[r][g]}]
         /\ Sealed(r) = from[r][g]
         /\ UNCHANGED <<from, length>>
<1> USE DEF IInv, Typed, Goroutines
<1>1. RbInv(r) /\ pc[r][g] = "loop"
  BY DEF RunCall
<1>2. /\ idx[r][g] \in 1..from[r][g]
      /\ from[r][g] \in Nat /\ from[r][g] <= MaxFuncs /\ from[r][g] # NoRun
      /\ called[r][g] = (idx[r][g] + 1)..from[r][g]
  BY <1>1, MaxFuncsAssumption DEF RbInv, RunInv
<1>3. from[r]["owner"] # NoRun => /\ from[r]["owner"] = length[r]
                                  /\ from[r]["waiter"] \in {NoRun, length[r]}
  BY <1>1 DEF RbInv, OwnerInv
<1>4. Sealed(r) = from[r][g]
  <2>1. from[r]["owner"] \in Int /\ from[r]["waiter"] \in Int /\ length[r] \in Nat
        /\ from[r]["owner"] >= -1 /\ from[r]["waiter"] >= -1
    BY MaxFuncsAssumption
  <2> QED
    BY <1>2, <1>3, <2>1 DEF Sealed
<1> QED
  BY <1>2, <1>4 DEF RunCall

(* Each step of run() undoes the function right below the one it undid     *)
(* before (rollback.go:79-81).                                             *)
THEOREM RunUndoesDownward == Spec => UndoesDownward
<1> DEFINE Downward ==
      \A r \in Rbs : \A g \in Goroutines :
        called'[r][g] # called[r][g] =>
          called'[r][g] \ called[r][g] = {from[r][g] - Cardinality(called[r][g])}
<1>1. IInv /\ [Next]_vars => Downward
  <2> SUFFICES ASSUME IInv, [Next]_vars, NEW r \in Rbs, NEW g \in Goroutines,
                      called'[r][g] # called[r][g]
               PROVE  called'[r][g] \ called[r][g]
                        = {from[r][g] - Cardinality(called[r][g])}
    OBVIOUS
  <2>1. RunCall(r, g)
    <3>1. PICK h \in Goroutines : RunCall(r, h)
      BY LogSteps DEF SameLog, RegisterLen, RunLen
    <3> QED
      BY <3>1 DEF RunCall, IInv, Typed, Goroutines
  <2> DEFINE i == idx[r][g]
             n == from[r][g]
  <2>2. /\ i \in 1..n /\ n \in Nat
        /\ called[r][g] = (i + 1)..n
        /\ called'[r][g] = called[r][g] \cup {i}
    BY <2>1, CallFacts DEF IInv, Typed
  <2> HIDE DEF i, n
  <2>3. Cardinality((i + 1)..n) = n - i
    BY <2>2, FS_Interval
  <2>4. called'[r][g] \ called[r][g] = {i} /\ n - (n - i) = i
    BY <2>2
  <2> QED
    BY <2>2, <2>3, <2>4 DEF n
<1> QED
  BY <1>1, InductiveInvariant, PTL DEF Spec, UndoesDownward
-----------------------------------------------------------------------------
(* A run of one instance either seals its undo log or, the other goroutine *)
(* having sealed it, starts at the same length.                            *)
LEMMA LenSeals ==
  ASSUME IInv, IInv', NEW r \in Rbs, NEW g \in Goroutines, RunLen(r, g)
  PROVE  /\ UNCHANGED <<length, called>>
         /\ \/ Sealed(r) = NoRun /\ Sealed(r)' = length[r]
            \/ Sealed(r)' = Sealed(r)
<1> USE DEF IInv, Typed, Goroutines
<1>1. /\ from[r][g] = NoRun
      /\ from' = [from EXCEPT ![r][g] = length[r]]
      /\ UNCHANGED <<length, called>>
  BY DEF RunLen, RbInv, RunInv
<1>2. from'[r]["owner"] # NoRun => /\ from'[r]["owner"] = length[r]
                                   /\ from'[r]["waiter"] \in {NoRun, length[r]}
  BY <1>1 DEF RbInv, OwnerInv
<1>3. /\ length[r] \in Nat
      /\ \A h \in Goroutines : from[r][h] \in Nat \cup {-1}
      /\ from'[r][g] = length[r]
      /\ \A h \in Goroutines : h # g => from'[r][h] = from[r][h]
  BY <1>1, MaxFuncsAssumption DEF NoRun
<1>4. CASE g = "owner"
  BY <1>1, <1>2, <1>3, <1>4 DEF Sealed, NoRun
<1>5. CASE g = "waiter"
  BY <1>1, <1>2, <1>3, <1>5 DEF Sealed, NoRun
<1> QED
  BY <1>1, <1>4, <1>5

(* Every instance implements the undo log: functions are undone in reverse *)
(* order, from a length that is fixed once, whichever goroutine runs them  *)
(* and even when both do (rollback.go:39-82).                              *)
THEOREM RollbackImplementsUndoLog == Spec => ImplementsUndoLog
<1> DEFINE LogInit == \A r \in Rbs : U(r)!Init
           LogNext == \A r \in Rbs : [U(r)!Next]_(U(r)!vars)
<1>1. Init => LogInit
  <2> SUFFICES ASSUME Init, NEW r \in Rbs PROVE U(r)!Init
    OBVIOUS
  <2> QED
    BY DEF Init, Goroutines, NoRun, Sealed, Undone, U!Init, U!NotSealed
<1>2. IInv /\ IInv' /\ [Next]_vars => LogNext
  <2> SUFFICES ASSUME IInv, IInv', [Next]_vars, NEW r \in Rbs
               PROVE  [U(r)!Next]_(U(r)!vars)
    OBVIOUS
  <2>1. CASE SameLog(r)
    BY <2>1 DEF SameLog, Sealed, Undone, U!vars
  <2>2. CASE RegisterLen(r)
    <3>1. U(r)!Register
      BY <2>2 DEF RegisterLen, IInv, Typed, Sealed, Undone, U!Register
    <3> QED
      BY <3>1 DEF U!Next
  <2>3. ASSUME NEW g \in Goroutines, RunLen(r, g)
        PROVE  [U(r)!Next]_(U(r)!vars)
    <3>1. Undone(r)' = Undone(r) /\ length'[r] = length[r]
      BY <2>3 DEF RunLen, Undone
    <3>2. CASE Sealed(r) = NoRun /\ Sealed(r)' = length[r]
      BY <3>1, <3>2 DEF U!Next, U!Seal, U!NotSealed, NoRun
    <3>3. CASE Sealed(r)' = Sealed(r)
      BY <3>1, <3>3 DEF U!vars
    <3> QED
      BY <2>3, <3>2, <3>3, LenSeals
  <2>4. ASSUME NEW g \in Goroutines, RunCall(r, g)
        PROVE  [U(r)!Next]_(U(r)!vars)
    <3> DEFINE i == idx[r][g]
               n == from[r][g]
    <3>1. /\ i \in 1..n /\ n \in Nat /\ n <= MaxFuncs
          /\ called[r][g] = (i + 1)..n
          /\ called' = [called EXCEPT ![r][g] = @ \cup {i}]
          /\ Sealed(r) = n
          /\ UNCHANGED <<from, length>>
      BY <2>4, CallFacts
    <3>2. Sealed(r)' = Sealed(r)
      BY <3>1 DEF Sealed
    <3>3. Undone(r)' = Undone(r) \cup {i}
      <4>1. called'[r][g] = called[r][g] \cup {i}
        BY <3>1 DEF IInv, Typed
      <4>2. \A h \in Goroutines : h # g => called'[r][h] = called[r][h]
        BY <3>1 DEF IInv, Typed
      <4> HIDE DEF i
      <4> QED
        BY <4>1, <4>2 DEF Undone, Goroutines
    <3>4. (i + 1)..n \subseteq Undone(r)
      BY <3>1 DEF Undone, Goroutines
    <3>5. i \in 1..MaxFuncs
      BY <3>1, MaxFuncsAssumption
    <3> HIDE DEF i, n
    <3>6. U(r)!Undo(i)
      BY <3>1, <3>2, <3>3, <3>4 DEF U!Undo
    <3> QED
      BY <3>5, <3>6 DEF U!Next
  <2> QED
    BY <2>1, <2>2, <2>3, <2>4, LogSteps
<1> QED
  BY <1>1, <1>2, InductiveInvariant, PTL DEF Spec, ImplementsUndoLog
=============================================================================
