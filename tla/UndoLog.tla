------------------------------- MODULE UndoLog -------------------------------
(***************************************************************************)
(* What the rollback of one container's transformation promises to the     *)
(* code that uses it, whoever executes it: undo functions are registered   *)
(* one after another; at some moment the log is sealed, which fixes how    *)
(* many of the functions will be undone; from then on they are undone in   *)
(* the reverse order of registration, and never a function beyond the      *)
(* seal.  Undoing a function again is a stutter: an undo is idempotent.    *)
(***************************************************************************)
EXTENDS Integers

CONSTANT MaxFuncs      \* bound on the number of registered undo functions

NotSealed == -1

VARIABLES
  registered,          \* how many undo functions have been registered
  sealed,              \* NotSealed, or how many of them will be undone
  undone               \* the functions undone, numbered by registration

vars == <<registered, sealed, undone>>

TypeOK ==
  /\ registered \in 0..MaxFuncs
  /\ sealed \in {NotSealed} \cup 0..MaxFuncs
  /\ undone \subseteq 1..MaxFuncs

Init ==
  /\ registered = 0
  /\ sealed = NotSealed
  /\ undone = {}

Register ==
  /\ registered < MaxFuncs
  /\ registered' = registered + 1
  /\ UNCHANGED <<sealed, undone>>

Seal ==
  /\ sealed = NotSealed
  /\ sealed' = registered
  /\ UNCHANGED <<registered, undone>>

Undo(i) ==
  /\ i \in 1..sealed
  /\ (i + 1)..sealed \subseteq undone
  /\ undone' = undone \cup {i}
  /\ UNCHANGED <<registered, sealed>>

Next == Register \/ Seal \/ \E i \in 1..MaxFuncs : Undo(i)

Spec == Init /\ [][Next]_vars
==============================================================================
