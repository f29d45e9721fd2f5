----------------------------- MODULE MCReconcile -----------------------------
(* Reconcile on the containers that differ in what its options look at.    *)
EXTENDS Reconcile, TLC

NoMap == [k \in {} |-> ""]
UserMap == "user" :> "user's"
\* Annotations under keys that iSulad writes as well.
UserKeys == UserMap @@ ("cgroup.dir" :> <<Root, "user">>)
                    @@ ("log.console.file" :> <<"user's">>)
                    @@ ("log.console.driver" :> "user's")

\* Docker's directory and one in it, the user's own, the same with a part of
\* docker's name, a relative one, the root, a path without the ID and one of
\* systemd's.
CgroupParents ==
  {<<Root, "docker", "id">>, <<Root, "docker", "sub", "id">>,
   <<Root, "own", "id">>, <<Root, "own", "docker", "id">>,
   <<"own", "id">>, <<Root, "id">>, <<Root, "own">>, <<"system.slice:docker:id">>}

Mounts == [d \in NetworkFiles \cup {"shm", "data"} |-> Docker(d)]
Modes == [{"ipc", "pid", "network"} -> {"", "other"}]

MCDockerContainers ==
  [annotations : {NoMap, UserMap, UserKeys},
   ociAnnotations : {NoMap, UserMap, UserKeys},
   cgroupParent : CgroupParents,
   logType : {"json-file", "syslog", ""},
   logOptions : {{}, {"max-file", "tag"}},
   oomScoreAdj : BOOLEAN,
   filesLimit : BOOLEAN,
   restart : {"nil", "unless-stopped", "always"},
   userns : {"host"},
   mode : {m \in Modes : m["pid"] = m["network"]},
   nsPath : {[ns \in {"ipc", "network", "mount"} |-> "/proc"]},
   mounts : {Mounts, [d \in {"hosts", "data"} |-> Docker(d)]},
   privileged : BOOLEAN,
   rules : {{<<5, 2>>}},
   devices : {{"plain", "with colon"}}]
==============================================================================
