------------------------------ MODULE Startup ------------------------------
(***************************************************************************)
(* What happens before the first container is looked at: start() in        *)
(* main.go reads iSulad's daemon.json, initializes the tool for iSulad and *)
(* with it the image library, gets the transformer of the container type,  *)
(* whose Init() makes the docker client, the storage driver and the map of *)
(* containers, and looks at the arguments.  Each piece keeps what it was   *)
(* given when it was made, so the order matters.                           *)
(***************************************************************************)
EXTENDS Integers

CONSTANTS
  Names,           \* what daemon.json and the command line may say
  Setups           \* daemon.json and command lines, all in SetupTypes

SetupTypes == [runtime : Names, storage : Names,     \* "" if not given
               type : Names,                         \* --container-type
               args : {"all", "ids", "none"}]

VARIABLES
  setup,           \* the invocation's setup
  phase,           \* what start() does next
  tool,            \* commonTool, its storageDriver as "has a base"
  client,          \* t.client is not nil
  sd               \* t.sd: its type and what it was made with

vars == <<setup, phase, tool, client, sd>>

\* The steps in their order.  (Operators with _ in their name are mutants.)
After_DriverFirst ==
  [daemon |-> "tool", tool |-> "check", check |-> "image", image |-> "engine",
   engine |-> "driver", driver |-> "client", client |-> "containers",
   containers |-> "args", args |-> "running"]
After ==
  [daemon |-> "tool", tool |-> "check", check |-> "image", image |-> "engine",
   engine |-> "client", client |-> "driver", driver |-> "containers",
   containers |-> "args", args |-> "running"]

NoTool == [runtime |-> "", storage |-> "", base |-> FALSE]
NoDriver == [type |-> "", base |-> FALSE, client |-> FALSE]

\* transform.Register: the types whose package main imports.
Transformers == {"docker"}
StorageTypes == {"overlay2", "devicemapper"}

TypeOK ==
  /\ setup \in Setups
  /\ phase \in DOMAIN After \cup {"running", "failed"}
  /\ tool \in [runtime : Names, storage : Names, base : BOOLEAN]
  /\ client \in BOOLEAN
  /\ sd \in [type : Names, base : BOOLEAN, client : BOOLEAN]

Init ==
  /\ setup \in Setups
  /\ phase = "daemon"
  /\ tool = NoTool
  /\ client = FALSE
  /\ sd = NoDriver

Continue(step) == phase = step /\ phase' = After[step] /\ UNCHANGED setup
Default(value, default) == IF value = "" THEN default ELSE value
-----------------------------------------------------------------------------
ReadDaemonConfig ==
  /\ Continue("daemon")
  /\ UNCHANGED <<tool, client, sd>>

\* The global is set before it is checked.
InitIsuladTool ==
  /\ Continue("tool")
  /\ tool' = [runtime |-> Default(setup.runtime, "lcr"),
              storage |-> Default(setup.storage, "overlay2"),
              base    |-> FALSE]
  /\ UNCHANGED <<client, sd>>

ToolConfigValid == tool.runtime = "lcr" /\ tool.storage \in StorageTypes

CheckToolConfig ==
  /\ ToolConfigValid
  /\ Continue("check")
  /\ UNCHANGED <<tool, client, sd>>

\* init_isulad_image_module, then the base storage driver.
InitLib ==
  /\ Continue("image")
  /\ tool' = [tool EXCEPT !.base = TRUE]
  /\ UNCHANGED <<client, sd>>

GetTransformer ==
  /\ setup.type \in Transformers
  /\ Continue("engine")
  /\ UNCHANGED <<tool, client, sd>>

NewClient ==
  /\ Continue("client")
  /\ client' = TRUE
  /\ UNCHANGED <<tool, sd>>

\* The client is that of devicemapper, the only one that keeps it.
InitStorageDriver ==
  /\ tool.storage \in StorageTypes
  /\ Continue("driver")
  /\ sd' = [type |-> tool.storage, base |-> tool.base,
            client |-> client /\ tool.storage = "devicemapper"]
  /\ UNCHANGED <<tool, client>>

InitContainers ==
  /\ Continue("containers")
  /\ UNCHANGED <<tool, client, sd>>

CheckArgs ==
  /\ setup.args # "none"
  /\ Continue("args")
  /\ UNCHANGED <<tool, client, sd>>

\* The reasons to give up: the system or a library answers with an error, or
\* what was asked for is not supported.
Refused ==
  (IF ToolConfigValid THEN {} ELSE {"check", "driver"})
    \cup (IF setup.type \in Transformers THEN {} ELSE {"engine"})
    \cup (IF setup.args = "none" THEN {"args"} ELSE {})

Fail ==
  /\ phase \in {"daemon", "image", "client", "containers"} \cup Refused
  /\ phase' = "failed"
  /\ UNCHANGED <<setup, tool, client, sd>>

Next ==
  \/ ReadDaemonConfig \/ InitIsuladTool \/ CheckToolConfig \/ InitLib
  \/ GetTransformer \/ NewClient \/ InitStorageDriver \/ InitContainers
  \/ CheckArgs \/ Fail
-----------------------------------------------------------------------------
(* Whatever the daemon.json, what transform() will call is there: the      *)
(* driver is of the configured or the default type, and was made after the *)
(* base driver and the docker client it keeps (docker.go:118, 123).        *)
SdIsReady ==
  phase = "running" =>
    /\ sd.type = Default(setup.storage, "overlay2")
    /\ client /\ sd.base /\ (sd.type = "devicemapper" => sd.client)
=============================================================================
