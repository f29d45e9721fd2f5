------------------------------ MODULE Reconcile ------------------------------
(***************************************************************************)
(* What transform() makes of the three files docker keeps of a container:  *)
(* hostconfig.json, config.v2.json and config.json (the OCI spec). The     *)
(* steps are those of Pipeline that compute data; that they can fail is    *)
(* modelled there.                                                         *)
(*                                                                         *)
(* A Go map is a function. The maps of annotations are omitted from the    *)
(* JSON when they are empty, so that an empty one is nil when it has been  *)
(* read back, and a write to it panics.                                    *)
(***************************************************************************)
EXTENDS Integers, Sequences

CONSTANTS
  DockerContainers   \* the records docker may hold (see MCReconcile)

\* A cgroup path is the sequence of its parts, what strings.Split makes of it
\* at "/": "/docker/id" is <<Root, "docker", "id">>, and <<Root>> is the empty
\* string. CgroupParent is a path that docker has joined, and so is clean.
Root == ""
IsClean(path) ==
  /\ path[1] # "."
  /\ \A i \in 2..Len(path) : path[i] \notin {"", ".", ".."}

ASSUME ContainersAssumption ==
  \A c \in DockerContainers :
    /\ c.cgroupParent \in Seq(STRING) \ {<<>>}
    /\ IsClean(c.cgroupParent)

VARIABLES
  docker,    \* what docker's files say of the container
  hostCfg,   \* iSulad's hostconfig.json
  v2,        \* iSulad's config.v2.json
  oci,       \* iSulad's config.json
  opts,      \* the v2ConfigReconcileOpts still to be applied
  copied,    \* path on the host -> the file of docker's it was copied from
  tmpfs,     \* the paths where a tmpfs is mounted
  pc

vars == <<docker, hostCfg, v2, oci, opts, copied, tmpfs, pc>>

NetworkFiles == {"hostname", "hosts", "resolv.conf"}
Docker(f) == <<"docker", f>>
Isulad(f) == <<"isulad", f>>
ShmOnHost == Isulad("mounts/shm")

\* annotations[key] = value
Put(annotations, key, value) ==
  [k \in DOMAIN annotations \cup {key} |->
     IF k = key THEN value ELSE annotations[k]]

\* The same for each key of new.
Annotate(annotations, new) ==
  [k \in DOMAIN annotations \cup DOMAIN new |->
     IF k \in DOMAIN new THEN new[k] ELSE annotations[k]]

IsNil(annotations) == DOMAIN annotations = {}

-----------------------------------------------------------------------------
\* The configurations as they are unmarshalled, before any option is applied.
Init ==
  /\ docker \in DockerContainers
  /\ hostCfg = [runtime |-> "", restart |-> docker.restart,
                userns |-> docker.userns]
  /\ v2 = [annotations |-> docker.annotations,
           image |-> "", logDriver |-> "", logPath |-> Docker("log"),
           files |-> [f \in NetworkFiles |-> Docker(f)],
           origin |-> [f \in NetworkFiles |-> ""],
           shm |-> Docker("mounts/shm"), baseFs |-> ""]
  /\ oci = [annotations |-> docker.ociAnnotations,
            root |-> Docker("rootfs"), cgroupsPath |-> docker.cgroupParent,
            nsPath |-> docker.nsPath, mounts |-> docker.mounts,
            rules |-> docker.rules, devices |-> docker.devices]
  /\ opts = <<>>
  /\ copied = <<>>
  /\ tmpfs = {}
  /\ pc = "hostconfig"

Panic == /\ pc' = "panic"
         /\ UNCHANGED <<docker, hostCfg, v2, oci, opts, copied, tmpfs>>

(***************************************************************************)
(* transformHostConfig, and the options transform() derives from its       *)
(* result. RestartPolicy is a pointer, nil if docker's file has none.      *)
(***************************************************************************)
OptsFromHostCfg ==
  (IF docker.oomScoreAdj THEN <<"oom">> ELSE <<>>)
    \o (IF docker.filesLimit THEN <<"files">> ELSE <<>>)

ReconcileHostConfig ==
  /\ pc = "hostconfig"
  /\ docker.restart # "nil"
  /\ hostCfg' = [runtime |-> "lcr",
                 restart |-> IF docker.restart = "unless-stopped"
                             THEN "always" ELSE docker.restart,
                 userns |-> ""]
  /\ opts' = OptsFromHostCfg \o <<"log", "image", "cgroup">>
  /\ pc' = "opts"
  /\ UNCHANGED <<docker, v2, oci, copied, tmpfs>>

NilRestartPolicy ==
  /\ pc = "hostconfig"
  /\ docker.restart = "nil"
  /\ Panic

-----------------------------------------------------------------------------
(***************************************************************************)
(* The options of reconcileV2Config.                                       *)
(***************************************************************************)
PutOption(annotations, key, option) ==
  IF option \in docker.logOptions THEN Put(annotations, key, "user's")
  ELSE annotations

LogOptionOr(option, default) ==
  IF option \in docker.logOptions THEN "user's" ELSE default

WithConsoleFile(path, rotate, size) ==
  [v2 EXCEPT !.logDriver = "json-file",
             !.logPath = path,
             !.annotations =
               Put(Put(Put(Put(@, "log.console.driver", "json-file"),
                           "log.console.file", path),
                       "log.console.filerotate", rotate),
                   "log.console.filesize", size)]

WithSyslog ==
  [v2 EXCEPT !.logDriver = "syslog",
             !.annotations =
               PutOption(PutOption(Put(@, "log.console.driver", "syslog"),
                                   "log.console.tag", "tag"),
                         "log.console.facility", "syslog-facility")]

WithLogConfig ==
  CASE docker.logType = "json-file" ->
         WithConsoleFile(Isulad("console.log"), LogOptionOr("max-file", "7"),
                         LogOptionOr("max-size", "30KB"))
    [] docker.logType = "syslog" -> WithSyslog
    [] OTHER -> WithConsoleFile(<<"none">>, "7", "30KB")

DefaultCgroupDir == <<Root, "isulad">>

\* The path starts with "/docker/".
InDockers(path) == Len(path) > 2 /\ path[1] = Root /\ path[2] = "docker"

\* It ends with "/" and the container's ID, which is cut off.
EndsWithID(path) == Len(path) > 1 /\ path[Len(path)] = "id"
DirOf(path) == SubSeq(path, 1, Len(path) - 1)

\* Only docker's default directory, none below it, counts as docker's.
CgroupDir_DefaultOnly ==
  LET path == docker.cgroupParent IN
    IF ~EndsWithID(path) \/ DirOf(path) = <<Root, "docker">>
    THEN DefaultCgroupDir ELSE DirOf(path)

CgroupDir ==
  LET path == docker.cgroupParent IN
    IF InDockers(path) \/ ~EndsWithID(path) THEN DefaultCgroupDir
                                            ELSE DirOf(path)

\* The image option replaces the whole Config.
With_NewConfig(o) ==
  CASE o = "image" -> [v2 EXCEPT !.image = "without digest", !.annotations = <<>>]
    [] o = "log"   -> WithLogConfig
    [] OTHER       -> [v2 EXCEPT !.annotations = Put(@, o, "user's")]

PutAnnotation(key, value) == [v2 EXCEPT !.annotations = Put(@, key, value)]

With(o) ==
  CASE o = "oom"    -> PutAnnotation("proc.oom_score_adj", "user's")
    [] o = "files"  -> PutAnnotation("files.limit", "user's")
    [] o = "log"    -> WithLogConfig
    [] o = "image"  -> [v2 EXCEPT !.image = "without digest"]
    [] o = "cgroup" -> PutAnnotation("cgroup.dir", CgroupDir)

NeedsMap(o) == o # "image"

ApplyOpt ==
  /\ pc = "opts"
  /\ opts # <<>>
  /\ NeedsMap(Head(opts)) => ~IsNil(v2.annotations)
  /\ v2' = With(Head(opts))
  /\ opts' = Tail(opts)
  /\ UNCHANGED <<docker, hostCfg, oci, copied, tmpfs, pc>>

NilAnnotations ==
  /\ pc = "opts"
  /\ opts # <<>>
  /\ NeedsMap(Head(opts)) /\ IsNil(v2.annotations)
  /\ Panic

\* The tmpfs for /dev/shm stays where docker's is.
MovePaths_DockersShm(cfg) ==
  [cfg EXCEPT !.files = [f \in NetworkFiles |-> Isulad(f)],
              !.origin = cfg.files]

\* The old path is overwritten before it is kept.
MovePaths_KeepsNew(cfg) ==
  [cfg EXCEPT !.files = [f \in NetworkFiles |-> Isulad(f)],
              !.origin = [f \in NetworkFiles |-> Isulad(f)],
              !.shm = ShmOnHost]

MovePaths(cfg) ==
  [cfg EXCEPT !.files = [f \in NetworkFiles |-> Isulad(f)],
              !.origin = cfg.files,
              !.shm = ShmOnHost]

\* The rest of reconcileV2Config, after the options.
ReconcileV2Config ==
  /\ pc = "opts"
  /\ opts = <<>>
  /\ v2' = [MovePaths(v2) EXCEPT !.annotations =
              Put(@, "rootfs.mount", "/var/lib/isulad/mnt/rootfs")]
  /\ pc' = "rootfs"
  /\ UNCHANGED <<docker, hostCfg, oci, opts, copied, tmpfs>>

GenerateRootFs ==
  /\ pc = "rootfs"
  /\ v2' = [v2 EXCEPT !.baseFs = Isulad("rootfs")]
  /\ pc' = "shm"
  /\ UNCHANGED <<docker, hostCfg, oci, opts, copied, tmpfs>>

PrepareShm ==
  /\ pc = "shm"
  /\ tmpfs' = tmpfs \cup {v2.shm}
  /\ pc' = "network"
  /\ UNCHANGED <<docker, hostCfg, v2, oci, opts, copied>>

\* The copies go where GetNetworkFilePath says, which does not look at v2.
GetOriginNetworkFile(name) == v2.origin[name]
GetNetworkFilePath(file) == Isulad(file)

CopyNetworkFiles ==
  /\ pc = "network"
  /\ copied' = [p \in {GetNetworkFilePath(f) : f \in NetworkFiles} |->
                  GetOriginNetworkFile(p[2])]
  /\ pc' = "oci"
  /\ UNCHANGED <<docker, hostCfg, v2, oci, opts, tmpfs>>

-----------------------------------------------------------------------------
(***************************************************************************)
(* reconcileOciConfig.                                                     *)
(***************************************************************************)
\* Docker's own annotations win over iSulad's.
Synced_DockerWins == Annotate(v2.annotations, oci.annotations)
Synced == Annotate(oci.annotations, v2.annotations)

WithCgroupDir(annotations) ==
  IF "cgroup.dir" \in DOMAIN annotations THEN annotations
  ELSE Put(annotations, "cgroup.dir", DefaultCgroupDir)

\* filepath.Join drops an empty directory, and with it the "/".
Join(dir, name) == IF dir = <<Root>> THEN <<name>> ELSE Append(dir, name)

\* The namespaces of another container are given by that container's ID.
SharedNamespace(ns) ==
  IF ns \in {"ipc", "pid", "network"} THEN docker.mode[ns] ELSE ""

MountSource(dest) ==
  CASE dest \in NetworkFiles -> v2.files[dest]
    [] dest = "shm"          -> v2.shm
    [] OTHER                 -> oci.mounts[dest]

MustDevices == {<<5, 2>>, <<136, -1>>}

ReconcileOciConfig ==
  /\ pc = "oci"
  /\ ~IsNil(oci.annotations)
  /\ oci' = [annotations |-> WithCgroupDir(Synced),
             root |-> v2.baseFs,
             cgroupsPath |-> Join(WithCgroupDir(Synced)["cgroup.dir"], "id"),
             nsPath |-> [ns \in DOMAIN oci.nsPath |-> SharedNamespace(ns)],
             mounts |-> [dest \in DOMAIN oci.mounts |-> MountSource(dest)],
             rules |-> IF docker.privileged THEN oci.rules
                       ELSE oci.rules \cup MustDevices,
             devices |-> oci.devices \ {"with colon"}]
  /\ pc' = "done"
  /\ UNCHANGED <<docker, hostCfg, v2, opts, copied, tmpfs>>

NilOciAnnotations ==
  /\ pc = "oci"
  /\ IsNil(oci.annotations)
  /\ Panic

Next == \/ ReconcileHostConfig \/ NilRestartPolicy
        \/ ApplyOpt \/ NilAnnotations \/ ReconcileV2Config
        \/ GenerateRootFs \/ PrepareShm \/ CopyNetworkFiles
        \/ ReconcileOciConfig \/ NilOciAnnotations

Spec == Init /\ [][Next]_vars

-----------------------------------------------------------------------------
Names == NetworkFiles \cup {"mounts/shm", "rootfs", "console.log", "log"}
Paths == {Docker(n) : n \in Names} \cup {Isulad(n) : n \in Names}

\* Types; and of the paths on the host only iSulad's are written or mounted on.
TypeOK ==
  /\ v2.files \in [NetworkFiles -> Paths]
  /\ v2.shm \in Paths /\ oci.root \in Paths
  /\ opts \in Seq({"oom", "files", "log", "image", "cgroup"})
  /\ DOMAIN copied \subseteq {Isulad(n) : n \in NetworkFiles}
  /\ tmpfs \subseteq {ShmOnHost}
  /\ pc \in {"hostconfig", "opts", "rootfs", "shm", "network", "oci", "done",
             "panic"}

\* The annotations that iSulad writes into the config.v2.json of every
\* container with that log driver.
IsuladsKeys(driver) ==
  {"cgroup.dir", "rootfs.mount", "log.console.driver"} \cup
  (IF driver = "json-file"
   THEN {"log.console.file", "log.console.filerotate", "log.console.filesize"}
   ELSE {})

\* iSulad starts the container from config.json and reports and restarts it
\* from config.v2.json. The two say the same of the rootfs, of the cgroup and
\* of every annotation that config.v2.json has, and its two accounts of the
\* log agree. An annotation that only config.json has is one docker's had, as
\* it was; it stays, even if it is a log.console.file beside a driver that
\* writes none, but it is never one that iSulad decides for this container.
FilesAgree ==
  pc = "done" =>
    /\ \A k \in DOMAIN v2.annotations : /\ k \in DOMAIN oci.annotations
                                        /\ oci.annotations[k] = v2.annotations[k]
    /\ \A k \in DOMAIN oci.annotations \ DOMAIN v2.annotations :
         /\ k \in DOMAIN docker.ociAnnotations
         /\ oci.annotations[k] = docker.ociAnnotations[k]
         /\ k \notin IsuladsKeys(v2.logDriver)
    /\ oci.root = v2.baseFs
    /\ oci.cgroupsPath = Join(v2.annotations["cgroup.dir"], "id")
    /\ v2.logDriver = v2.annotations["log.console.driver"]
    /\ v2.logDriver = "json-file" =>
         v2.logPath = v2.annotations["log.console.file"]

\* Whatever config.json mounts of the container's own files is there: the
\* three network files are at the mounted paths, copied from the ones docker
\* mounted, and a tmpfs is at the source of /dev/shm. Three steps of
\* transform() and two naming schemes (basePath in reconcile.go,
\* GetNetworkFilePath in isulad.go) have to agree on it.
MountsAreThere ==
  pc = "done" =>
    \A dest \in DOMAIN docker.mounts :
      /\ dest \in NetworkFiles => /\ oci.mounts[dest] \in DOMAIN copied
                                  /\ copied[oci.mounts[dest]] = Docker(dest)
      /\ dest = "shm" => oci.mounts[dest] \in tmpfs

\* The container is never put anywhere below /docker in the cgroup hierarchy,
\* where docker would clean it up; a cgroup the user chose stays the
\* container's, to the last part of the path; and no path becomes relative
\* that was not, which would put the container below the cgroup of whatever
\* starts it. The exception is a cgroup in the root: what is left of it
\* without the ID is the empty string, and the path becomes relative.
UsersCgroup == /\ EndsWithID(docker.cgroupParent)
               /\ ~InDockers(docker.cgroupParent)
InRootCgroup == docker.cgroupParent = <<Root, "id">>
LeavesDockersCgroup ==
  pc = "done" =>
    /\ ~(oci.cgroupsPath[1] = Root /\ oci.cgroupsPath[2] = "docker")
    /\ UsersCgroup /\ ~InRootCgroup => oci.cgroupsPath = docker.cgroupParent
    /\ oci.cgroupsPath[1] # Root =>
         UsersCgroup /\ (docker.cgroupParent[1] # Root \/ InRootCgroup)

\* A container lacks what the options rely on: an annotation in each of its
\* files, a restart policy.
Incomplete == \/ IsNil(docker.annotations)
              \/ IsNil(docker.ociAnnotations)
              \/ docker.restart = "nil"

\* A container that has them is transformed without a panic, which would end
\* the process and with it the rollbacks of all other containers: no step
\* leaves a map nil that a later one writes to.
CompleteDoesNotPanic == pc = "panic" => Incomplete
=============================================================================
