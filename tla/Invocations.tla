---------------------------- MODULE Invocations ----------------------------
(***************************************************************************)
(* isula-transform run again and again on one container: an invocation     *)
(* ends, is killed or panics at any moment, and the next one starts from   *)
(* the host it left.  All a process keeps in memory is lost, the disk      *)
(* stays.  A calm invocation is one nothing disturbs: no signal, no kill,  *)
(* and no call to docker, the libraries or the system fails.               *)
(***************************************************************************)
EXTENDS Pipeline

VARIABLES
  calm,            \* this invocation is calm, fixed when it starts
  \* History, for the properties only.
  transformed      \* an invocation no signal disturbed reported a success

varsI == <<vars, calm, transformed>>

InitI ==
  /\ Init
  /\ calm \in BOOLEAN
  /\ transformed = FALSE

\* What the library answers when its storage has the container's rootfs
\* already is not known, and a bundle that is there is refused.
OwnFailures == {"none", "statBundle"}
                 \cup IF prior.rootfs THEN {"rootfs"} ELSE {}

Undisturbed ==
  /\ ~cancelled'
  /\ undoErr' = {}
  /\ \A w \in Workers : failedAt'[w] \in OwnFailures /\ next'[w] # "umountErr"

Work ==
  /\ Next
  /\ calm => Undisturbed
  /\ UNCHANGED <<calm, transformed>>

\* All a new process has in memory: the next state is as Init says of the first.
All(x) == [w \in Workers |-> x]
NewProcess ==
  /\ cancelled' = FALSE /\ wg' = 0 /\ crashed' = FALSE
  /\ executed' = All(FALSE) /\ closed' = All(FALSE) /\ closeCh' = All(FALSE)
  /\ length' = All(0) /\ stored' = All(0) /\ retErr' = All(FALSE)
  /\ pc' = All([owner |-> "new", waiter |-> "none"])
  /\ idx' = All([owner |-> 0, waiter |-> 0])
  /\ from' = All([owner |-> R!NoRun, waiter |-> R!NoRun])
  /\ called' = All([owner |-> {}, waiter |-> {}])
  /\ atCancel' = All([registered |-> 0, closed |-> FALSE])
  /\ next' = All("pause") /\ failedAt' = All("none") /\ undoErr' = {}

Succeeded == /\ R!Finished /\ ~cancelled
             /\ \E w \in Workers : ~retErr[w]

NewInvocation ==
  /\ R!Finished \/ ~calm
  /\ NewProcess
  /\ prior' = disk
  /\ UNCHANGED <<driver, disk>>
  /\ calm' \in BOOLEAN
  /\ transformed' = (transformed \/ Succeeded)

NextI == Work \/ NewInvocation

SpecI == InitI /\ [][NextI]_varsI

\* The goroutines of a process that lives run, and the commands and libraries
\* they call return.  Nobody need ever start another invocation.
FairSpecI == SpecI /\ WF_varsI(Work)
-----------------------------------------------------------------------------
(* Once a container was transformed it stays complete, whatever the        *)
(* invocations after that are given and however they end.                  *)
SuccessIsForever == transformed => Complete(disk)

(* A calm invocation makes good what failed before it, if the rollback     *)
(* left no bundle and no rootfs: that the container is paused already, by  *)
(* a pause whose answer was lost or by an invocation that was killed, does *)
(* not keep it from being transformed.                                     *)
RetryCompletes ==
  (calm /\ ~prior.bundle /\ ~prior.rootfs) ~> Complete(disk)

(* pkg/isulad/isulad.go:159: a container whose directory is there "has     *)
(* been or is being transformed".  This process is the only one.           *)
RefusedMeansTransformed ==
  \A w \in Workers : failedAt[w] = "statBundle" => Complete(prior)
=============================================================================
