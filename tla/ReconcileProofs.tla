---------------------------- MODULE ReconcileProofs ----------------------------
(***************************************************************************)
(* Proofs for module Reconcile, of every container docker may hold: with   *)
(* any annotations, log options, mounts, devices and device rules.         *)
(*                                                                         *)
(* What each option writes survives only because of the order of the       *)
(* options and of the steps after them, so the invariant says at each      *)
(* point of that order what has been written by then. The options still    *)
(* to be applied are always an end of one of four lists, and which end     *)
(* tells what config.v2.json already has.                                  *)
(***************************************************************************)
EXTENDS Reconcile, SequenceTheorems, TLAPS

Options == {"oom", "files", "log", "image", "cgroup"}

\* The options left when the log, image and cgroup option have been applied.
AfterLog == <<"image", "cgroup">>
AfterImage == <<"cgroup">>
BeforeLog == <<"log", "image", "cgroup">>

Suffixes == {<<>>, AfterImage, AfterLog, BeforeLog,
             <<"files", "log", "image", "cgroup">>,
             <<"oom", "log", "image", "cgroup">>,
             <<"oom", "files", "log", "image", "cgroup">>}

LEMMA SuffixesAreOptions == Suffixes \subseteq Seq(Options)
  BY DEF Suffixes, AfterImage, AfterLog, BeforeLog, Options

(* Applying an option leaves an end of the list again, of an end without   *)
(* the log option one without it.                                          *)
LEMMA SuffixSteps ==
  ASSUME NEW s \in Suffixes, s # <<>>
  PROVE  /\ Tail(s) \in Suffixes
         /\ Tail(s) = <<>> <=> s = AfterImage
         /\ s = AfterImage => Head(s) = "cgroup"
         /\ s = AfterLog => Head(s) = "image" /\ Tail(s) = AfterImage
         /\ s = BeforeLog => Head(s) = "log" /\ Tail(s) = AfterLog
         /\ s \notin {AfterImage, AfterLog, BeforeLog}
              => /\ Head(s) \in {"oom", "files"}
                 /\ Tail(s) \notin {<<>>, AfterImage, AfterLog}
<1>1. CASE s = AfterImage
  <2>1. s = <<"cgroup">>
    BY <1>1 DEF AfterImage
  <2>2. Head(s) = "cgroup" /\ Tail(s) = <<>>
    BY <2>1
  <2> QED
    BY <1>1, <2>1, <2>2 DEF Suffixes, AfterImage, AfterLog, BeforeLog
<1>2. CASE s = AfterLog
  <2>1. Head(s) = "image" /\ Tail(s) = <<"cgroup">>
    BY <1>2 DEF AfterLog
  <2> QED
    BY <1>2, <2>1 DEF Suffixes, AfterImage, AfterLog, BeforeLog
<1>3. CASE s = BeforeLog
  <2>1. Head(s) = "log" /\ Tail(s) = <<"image", "cgroup">>
    BY <1>3 DEF BeforeLog
  <2> QED
    BY <1>3, <2>1 DEF Suffixes, AfterImage, AfterLog, BeforeLog
<1>4. CASE s = <<"files", "log", "image", "cgroup">>
  <2>1. Head(s) = "files" /\ Tail(s) = BeforeLog
    BY <1>4 DEF BeforeLog
  <2> QED
    BY <1>4, <2>1 DEF Suffixes, AfterImage, AfterLog, BeforeLog
<1>5. CASE s = <<"oom", "log", "image", "cgroup">>
  <2>1. Head(s) = "oom" /\ Tail(s) = BeforeLog
    BY <1>5 DEF BeforeLog
  <2> QED
    BY <1>5, <2>1 DEF Suffixes, AfterImage, AfterLog, BeforeLog
<1>6. CASE s = <<"oom", "files", "log", "image", "cgroup">>
  <2>1. Head(s) = "oom" /\ Tail(s) = <<"files", "log", "image", "cgroup">>
    BY <1>6
  <2> QED
    BY <1>6, <2>1 DEF Suffixes, AfterImage, AfterLog, BeforeLog
<1> QED
  BY <1>1, <1>2, <1>3, <1>4, <1>5, <1>6 DEF Suffixes

LEMMA InitialOptions ==
  OptsFromHostCfg \o <<"log", "image", "cgroup">>
    \in Suffixes \ {<<>>, AfterImage, AfterLog}
<1> DEFINE oom == IF docker.oomScoreAdj THEN <<"oom">> ELSE <<>>
           files == IF docker.filesLimit THEN <<"files">> ELSE <<>>
           all == (oom \o files) \o BeforeLog
<1>1. /\ oom \in Seq(Options)
      /\ files \in Seq(Options)
      /\ BeforeLog \in Seq(Options)
  <2>1. /\ <<"oom">> \in Seq(Options)
        /\ <<"files">> \in Seq(Options)
        /\ <<>> \in Seq(Options)
        /\ BeforeLog \in Seq(Options)
    BY DEF Options, BeforeLog
  <2> QED
    BY <2>1
<1>2. /\ oom \o files \in Seq(Options)
      /\ Len(oom \o files) = Len(oom) + Len(files)
      /\ \A i \in 1..Len(oom) + Len(files) :
           (oom \o files)[i] = IF i <= Len(oom) THEN oom[i]
                               ELSE files[i - Len(oom)]
  BY <1>1, ConcatProperties
<1>3. /\ all \in Seq(Options)
      /\ Len(all) = Len(oom \o files) + Len(BeforeLog)
      /\ \A i \in 1..Len(oom \o files) + Len(BeforeLog) :
           all[i] = IF i <= Len(oom \o files) THEN (oom \o files)[i]
                    ELSE BeforeLog[i - Len(oom \o files)]
  BY <1>1, <1>2, ConcatProperties
<1>4. CASE docker.oomScoreAdj /\ docker.filesLimit
  <2> DEFINE t == <<"oom", "files", "log", "image", "cgroup">>
  <2>1. oom = <<"oom">> /\ files = <<"files">>
    BY <1>4
  <2>2. t \in Seq(Options) /\ Len(t) = Len(all)
        /\ \A i \in 1..Len(all) : all[i] = t[i]
    BY <2>1, <1>2, <1>3 DEF BeforeLog, Options
  <2>3. all = t
    BY <1>3, <2>2, SeqEqual
  <2> QED
    BY <2>3 DEF OptsFromHostCfg, BeforeLog, Suffixes, AfterImage, AfterLog
<1>5. CASE docker.oomScoreAdj /\ ~docker.filesLimit
  <2> DEFINE t == <<"oom", "log", "image", "cgroup">>
  <2>1. oom = <<"oom">> /\ files = <<>>
    BY <1>5
  <2>2. t \in Seq(Options) /\ Len(t) = Len(all)
        /\ \A i \in 1..Len(all) : all[i] = t[i]
    BY <2>1, <1>2, <1>3 DEF BeforeLog, Options
  <2>3. all = t
    BY <1>3, <2>2, SeqEqual
  <2> QED
    BY <2>3 DEF OptsFromHostCfg, BeforeLog, Suffixes, AfterImage, AfterLog
<1>6. CASE ~docker.oomScoreAdj /\ docker.filesLimit
  <2> DEFINE t == <<"files", "log", "image", "cgroup">>
  <2>1. oom = <<>> /\ files = <<"files">>
    BY <1>6
  <2>2. t \in Seq(Options) /\ Len(t) = Len(all)
        /\ \A i \in 1..Len(all) : all[i] = t[i]
    BY <2>1, <1>2, <1>3 DEF BeforeLog, Options
  <2>3. all = t
    BY <1>3, <2>2, SeqEqual
  <2> QED
    BY <2>3 DEF OptsFromHostCfg, BeforeLog, Suffixes, AfterImage, AfterLog
<1>7. CASE ~docker.oomScoreAdj /\ ~docker.filesLimit
  <2> DEFINE t == BeforeLog
  <2>1. oom = <<>> /\ files = <<>>
    BY <1>7
  <2>2. t \in Seq(Options) /\ Len(t) = Len(all)
        /\ \A i \in 1..Len(all) : all[i] = t[i]
    BY <2>1, <1>2, <1>3 DEF BeforeLog, Options
  <2>3. all = t
    BY <1>3, <2>2, SeqEqual
  <2> QED
    BY <2>3 DEF OptsFromHostCfg, BeforeLog, Suffixes, AfterImage, AfterLog
<1> QED
  BY <1>4, <1>5, <1>6, <1>7
-----------------------------------------------------------------------------
(* The inductive invariant.                                                *)

Fields == {"annotations", "image", "logDriver", "logPath", "files", "origin",
           "shm", "baseFs"}

FileKeys == {"log.console.file", "log.console.filerotate",
             "log.console.filesize"}

LogSame ==
  /\ "log.console.driver" \in DOMAIN v2.annotations
  /\ v2.logDriver = v2.annotations["log.console.driver"]
  /\ v2.logDriver = "json-file" =>
       /\ FileKeys \subseteq DOMAIN v2.annotations
       /\ v2.logPath = v2.annotations["log.console.file"]

CgroupSet == /\ "cgroup.dir" \in DOMAIN v2.annotations
             /\ v2.annotations["cgroup.dir"] = CgroupDir

\* What the options have done, by the options that are left.
OptsInv ==
  /\ docker \in DockerContainers
  /\ DOMAIN v2 = Fields
  /\ opts \in Suffixes
  /\ pc \notin {"opts", "panic"} => opts = <<>>
  /\ pc = "opts" /\ opts \in {<<>>, AfterImage, AfterLog} => LogSame
  /\ pc = "opts" /\ opts = <<>> => CgroupSet
  /\ pc \in {"rootfs", "shm", "network", "oci", "done"} =>
       LogSame /\ CgroupSet /\ "rootfs.mount" \in DOMAIN v2.annotations
  /\ ~IsNil(docker.annotations) => ~IsNil(v2.annotations)

DockersFiles == [f \in NetworkFiles |-> Docker(f)]
IsuladsFiles == [f \in NetworkFiles |-> Isulad(f)]

\* Where the container's own files are, by the step transform() has reached.
PathsInv ==
  /\ v2.files \in {DockersFiles, IsuladsFiles}
  /\ v2.shm \in {Docker("mounts/shm"), ShmOnHost}
  /\ pc \in {"hostconfig", "opts"} => v2.files = DockersFiles
  /\ pc \in {"rootfs", "shm", "network", "oci", "done"} =>
       /\ v2.files = IsuladsFiles
       /\ v2.origin = DockersFiles
       /\ v2.shm = ShmOnHost
  /\ pc \in {"shm", "network", "oci", "done"} => v2.baseFs = Isulad("rootfs")
  /\ tmpfs \subseteq {ShmOnHost}
  /\ pc \in {"network", "oci", "done"} => ShmOnHost \in tmpfs
  /\ DOMAIN copied \subseteq {Isulad(f) : f \in NetworkFiles}
  /\ pc \in {"oci", "done"} =>
       \A f \in NetworkFiles : /\ Isulad(f) \in DOMAIN copied
                               /\ copied[Isulad(f)] = Docker(f)

\* config.json is docker's until the last step rewrites it as a whole.
OciInv ==
  /\ pc # "done" => /\ oci.annotations = docker.ociAnnotations
                    /\ oci.mounts = docker.mounts
  /\ oci.root \in {Docker("rootfs"), Isulad("rootfs")}
  /\ FilesAgree
  /\ MountsAreThere

PcInv == /\ pc \in {"hostconfig", "opts", "rootfs", "shm", "network", "oci",
                    "done", "panic"}
         /\ CompleteDoesNotPanic

IInv == OptsInv /\ PathsInv /\ OciInv /\ PcInv

-----------------------------------------------------------------------------
(* Lemmas about the options.                                               *)

(* Whichever type of log the container has, the log settings of its        *)
(* config.v2.json agree with its annotations.                              *)
LEMMA ConsoleFileFacts ==
  ASSUME DOMAIN v2 = Fields, NEW path, NEW rotate, NEW size,
         v2' = WithConsoleFile(path, rotate, size)
  PROVE  /\ DOMAIN v2' = Fields
         /\ v2'.files = v2.files /\ v2'.shm = v2.shm
         /\ LogSame'
         /\ ~IsNil(v2'.annotations)
<1> DEFINE a1 == Put(v2.annotations, "log.console.driver", "json-file")
           a2 == Put(a1, "log.console.file", path)
           a3 == Put(a2, "log.console.filerotate", rotate)
           a4 == Put(a3, "log.console.filesize", size)
<1>1. v2' = [v2 EXCEPT !.logDriver = "json-file", !.logPath = path,
                       !.annotations = a4]
  BY DEF WithConsoleFile
<1> HIDE DEF a4
<1>2. /\ v2'.annotations = a4 /\ v2'.logDriver = "json-file"
      /\ v2'.logPath = path /\ v2'.files = v2.files /\ v2'.shm = v2.shm
      /\ DOMAIN v2' = Fields
  BY <1>1 DEF Fields
<1>3. /\ "log.console.driver" \in DOMAIN a1
      /\ a1["log.console.driver"] = "json-file"
  BY DEF Put, IsNil
<1> HIDE DEF a1
<1>4. /\ {"log.console.driver", "log.console.file"} \subseteq DOMAIN a2
      /\ a2["log.console.driver"] = "json-file"
      /\ a2["log.console.file"] = path
  BY <1>3 DEF Put
<1> HIDE DEF a2
<1>5. /\ {"log.console.driver", "log.console.file",
          "log.console.filerotate"} \subseteq DOMAIN a3
      /\ a3["log.console.driver"] = "json-file"
      /\ a3["log.console.file"] = path
  BY <1>4 DEF Put
<1> HIDE DEF a3
<1>6. /\ {"log.console.driver"} \cup FileKeys \subseteq DOMAIN a4
      /\ a4["log.console.driver"] = "json-file"
      /\ a4["log.console.file"] = path
      /\ ~IsNil(a4)
  BY <1>5 DEF Put, IsNil, a4, FileKeys
<1> QED
  BY <1>2, <1>6 DEF LogSame

LEMMA SyslogFacts ==
  ASSUME DOMAIN v2 = Fields, v2' = WithSyslog
  PROVE  /\ DOMAIN v2' = Fields
         /\ v2'.files = v2.files /\ v2'.shm = v2.shm
         /\ LogSame'
         /\ ~IsNil(v2'.annotations)
<1> DEFINE a1 == Put(v2.annotations, "log.console.driver", "syslog")
           a2 == PutOption(a1, "log.console.tag", "tag")
           a3 == PutOption(a2, "log.console.facility", "syslog-facility")
<1>1. v2' = [v2 EXCEPT !.logDriver = "syslog", !.annotations = a3]
  BY DEF WithSyslog
<1> HIDE DEF a3
<1>2. /\ v2'.annotations = a3 /\ v2'.logDriver = "syslog"
      /\ v2'.files = v2.files /\ v2'.shm = v2.shm /\ DOMAIN v2' = Fields
  BY <1>1 DEF Fields
<1>3. /\ "log.console.driver" \in DOMAIN a1 /\ ~IsNil(a1)
      /\ a1["log.console.driver"] = "syslog"
  BY DEF Put, IsNil
<1> HIDE DEF a1
<1>4. /\ "log.console.driver" \in DOMAIN a2 /\ ~IsNil(a2)
      /\ a2["log.console.driver"] = "syslog"
  BY <1>3 DEF PutOption, Put, IsNil
<1> HIDE DEF a2
<1>5. /\ "log.console.driver" \in DOMAIN a3 /\ ~IsNil(a3)
      /\ a3["log.console.driver"] = "syslog"
  BY <1>4 DEF PutOption, Put, IsNil, a3
<1> QED
  BY <1>2, <1>5 DEF LogSame

LEMMA LogConfigFacts ==
  ASSUME DOMAIN v2 = Fields, v2' = WithLogConfig
  PROVE  /\ DOMAIN v2' = Fields
         /\ v2'.files = v2.files /\ v2'.shm = v2.shm
         /\ LogSame'
         /\ ~IsNil(v2'.annotations)
<1>1. CASE docker.logType = "json-file"
  BY <1>1, ConsoleFileFacts DEF WithLogConfig
<1>2. CASE docker.logType = "syslog"
  BY <1>2, SyslogFacts DEF WithLogConfig
<1>3. CASE docker.logType \notin {"json-file", "syslog"}
  BY <1>3, ConsoleFileFacts DEF WithLogConfig
<1> QED
  BY <1>1, <1>2, <1>3

(* A single annotation leaves the log settings alone, unless it is one.    *)
LEMMA PutAnnotationFacts ==
  ASSUME DOMAIN v2 = Fields, NEW key, NEW value,
         v2' = PutAnnotation(key, value)
  PROVE  /\ DOMAIN v2' = Fields
         /\ v2'.files = v2.files /\ v2'.shm = v2.shm
         /\ v2'.annotations = Put(v2.annotations, key, value)
         /\ v2'.logDriver = v2.logDriver /\ v2'.logPath = v2.logPath
  BY DEF PutAnnotation, Fields

LEMMA LogStays ==
  ASSUME LogSame, NEW key, NEW value,
         key \notin {"log.console.driver", "log.console.file"},
         v2'.annotations = Put(v2.annotations, key, value),
         v2'.logDriver = v2.logDriver, v2'.logPath = v2.logPath
  PROVE  LogSame'
  BY DEF LogSame, Put, FileKeys
-----------------------------------------------------------------------------
(* The invariant holds initially and every step keeps it.                  *)

LEMMA InitInv == Init => IInv
<1> SUFFICES ASSUME Init PROVE IInv
  OBVIOUS
<1>1. OptsInv
  <2>1. DOMAIN v2 = Fields /\ v2.annotations = docker.annotations
    BY DEF Init, Fields
  <2> QED
    BY <2>1 DEF Init, OptsInv, Suffixes
<1>2. PathsInv
  <2>1. v2.files = DockersFiles /\ v2.shm = Docker("mounts/shm")
    BY DEF Init, DockersFiles
  <2>2. DOMAIN copied = {}
    <3>1. <<>> \in Seq({}) /\ Len(<<>>) = 0
      OBVIOUS
    <3>2. DOMAIN <<>> = 1..0
      BY <3>1
    <3>3. copied = <<>>
      BY DEF Init
    <3> QED
      BY <3>2, <3>3
  <2> QED
    BY <2>1, <2>2 DEF Init, PathsInv
<1>3. OciInv /\ PcInv
  BY DEF Init, OciInv, PcInv, FilesAgree, MountsAreThere, CompleteDoesNotPanic
<1> QED
  BY <1>1, <1>2, <1>3 DEF IInv

(* The parts that a step which does not change what they speak of keeps.   *)
LEMMA UnfinishedStep ==
  ASSUME OciInv, pc # "done", pc' # "done", UNCHANGED <<docker, oci>>
  PROVE  OciInv'
  BY DEF OciInv, FilesAgree, MountsAreThere

LEMMA QuietStep ==
  ASSUME PcInv, pc' # "panic",
         pc' \in {"hostconfig", "opts", "rootfs", "shm", "network", "oci",
                  "done"}
  PROVE  PcInv'
  BY DEF PcInv, CompleteDoesNotPanic

(* A panic leaves everything as it is, for a container that lacks a map.   *)
LEMMA PanicStep ==
  ASSUME IInv, Panic, pc # "done", Incomplete
  PROVE  IInv'
<1> USE DEF Panic, IInv
<1>1. OptsInv'
  BY DEF OptsInv, LogSame, CgroupSet, CgroupDir, IsNil
<1>2. PathsInv'
  BY DEF PathsInv
<1>3. OciInv'
  BY UnfinishedStep
<1>4. PcInv'
  BY DEF PcInv, CompleteDoesNotPanic, Incomplete, IsNil
<1> QED
  BY <1>1, <1>2, <1>3, <1>4

LEMMA HostConfigStep ==
  ASSUME IInv, ReconcileHostConfig
  PROVE  IInv'
<1> USE DEF IInv
<1>1. OptsInv'
  BY InitialOptions DEF ReconcileHostConfig, OptsInv, IsNil
<1>2. PathsInv'
  BY DEF ReconcileHostConfig, PathsInv
<1>3. OciInv'
  BY UnfinishedStep DEF ReconcileHostConfig
<1>4. PcInv'
  BY QuietStep DEF ReconcileHostConfig
<1> QED
  BY <1>1, <1>2, <1>3, <1>4

(* Applying an option: the first of a list that tells what was applied.    *)
LEMMA ApplyOptStep ==
  ASSUME IInv, ApplyOpt
  PROVE  IInv'
<1> DEFINE o == Head(opts)
<1>0. /\ DOMAIN v2 = Fields /\ opts \in Suffixes /\ opts # <<>>
      /\ docker \in DockerContainers
      /\ pc = "opts" /\ pc' = "opts" /\ opts' = Tail(opts) /\ v2' = With(o)
      /\ UNCHANGED <<docker, hostCfg, oci, copied, tmpfs>>
      /\ ~IsNil(docker.annotations) => ~IsNil(v2.annotations)
      /\ opts \in {AfterImage, AfterLog} => LogSame
  BY DEF IInv, OptsInv, ApplyOpt
<1>1. /\ opts' \in Suffixes
      /\ opts' = <<>> <=> opts = AfterImage
      /\ opts = AfterImage => o = "cgroup"
      /\ opts = AfterLog => o = "image" /\ opts' = AfterImage
      /\ opts = BeforeLog => o = "log" /\ opts' = AfterLog
      /\ opts \notin {AfterImage, AfterLog, BeforeLog}
           => /\ o \in {"oom", "files"}
              /\ opts' \notin {<<>>, AfterImage, AfterLog}
  BY <1>0, SuffixSteps
<1> HIDE DEF o
<1>2. CASE opts = AfterImage
  <2>1. v2' = PutAnnotation("cgroup.dir", CgroupDir)
    BY <1>0, <1>1, <1>2 DEF With
  <2>2. /\ DOMAIN v2' = Fields
        /\ v2'.files = v2.files /\ v2'.shm = v2.shm
        /\ v2'.annotations = Put(v2.annotations, "cgroup.dir", CgroupDir)
        /\ v2'.logDriver = v2.logDriver /\ v2'.logPath = v2.logPath
    BY <1>0, <2>1, PutAnnotationFacts
  <2>3. LogSame'
    BY <1>0, <1>2, <2>2, LogStays
  <2>4. CgroupDir' = CgroupDir
    BY <1>0 DEF CgroupDir
  <2>5. CgroupSet' /\ ~IsNil(v2'.annotations)
    BY <2>2, <2>4 DEF CgroupSet, Put, IsNil
  <2>6. OptsInv'
    BY <1>0, <1>1, <2>2, <2>3, <2>5 DEF OptsInv
  <2> QED
    BY <1>0, <2>2, <2>6, UnfinishedStep, QuietStep DEF IInv, PathsInv
<1>3. CASE opts = AfterLog
  <2>1. v2' = [v2 EXCEPT !.image = "without digest"]
    BY <1>0, <1>1, <1>3 DEF With
  <2>2. /\ DOMAIN v2' = Fields
        /\ v2'.files = v2.files /\ v2'.shm = v2.shm
        /\ v2'.annotations = v2.annotations
        /\ v2'.logDriver = v2.logDriver /\ v2'.logPath = v2.logPath
    BY <1>0, <2>1 DEF Fields
  <2>3. LogSame'
    BY <1>0, <1>3, <2>2 DEF LogSame
  <2>4. OptsInv'
    <3>1. opts' # <<>>
      BY <1>1, <1>3 DEF AfterImage, AfterLog
    <3> QED
      BY <1>0, <1>1, <2>2, <2>3, <3>1 DEF OptsInv, IsNil
  <2> QED
    BY <1>0, <2>2, <2>4, UnfinishedStep, QuietStep DEF IInv, PathsInv
<1>4. CASE opts = BeforeLog
  <2>1. v2' = WithLogConfig
    BY <1>0, <1>1, <1>4 DEF With
  <2>2. /\ DOMAIN v2' = Fields
        /\ v2'.files = v2.files /\ v2'.shm = v2.shm
        /\ LogSame'
        /\ ~IsNil(v2'.annotations)
    BY <1>0, <2>1, LogConfigFacts
  <2>3. OptsInv'
    <3>1. opts' # <<>>
      BY <1>1, <1>4 DEF AfterImage, BeforeLog
    <3> QED
      BY <1>0, <1>1, <2>2, <3>1 DEF OptsInv
  <2> QED
    BY <1>0, <2>2, <2>3, UnfinishedStep, QuietStep DEF IInv, PathsInv
<1>5. CASE opts \notin {AfterImage, AfterLog, BeforeLog}
  <2>1. PICK key : v2' = PutAnnotation(key, "user's")
    BY <1>0, <1>1, <1>5 DEF With
  <2>2. /\ DOMAIN v2' = Fields
        /\ v2'.files = v2.files /\ v2'.shm = v2.shm
        /\ v2'.annotations = Put(v2.annotations, key, "user's")
    BY <1>0, <2>1, PutAnnotationFacts
  <2>3. ~IsNil(v2'.annotations)
    BY <2>2 DEF Put, IsNil
  <2>4. OptsInv'
    BY <1>0, <1>1, <1>5, <2>2, <2>3 DEF OptsInv
  <2> QED
    BY <1>0, <2>2, <2>4, UnfinishedStep, QuietStep DEF IInv, PathsInv
<1> QED
  BY <1>2, <1>3, <1>4, <1>5

(* The paths move to iSulad's directory, the old ones are kept.            *)
LEMMA V2ConfigStep ==
  ASSUME IInv, ReconcileV2Config
  PROVE  IInv'
<1>0. /\ DOMAIN v2 = Fields /\ docker \in DockerContainers
      /\ pc = "opts" /\ opts = <<>> /\ pc' = "rootfs"
      /\ LogSame /\ CgroupSet /\ v2.files = DockersFiles
      /\ UNCHANGED <<docker, hostCfg, oci, opts, copied, tmpfs>>
  BY DEF IInv, OptsInv, PathsInv, ReconcileV2Config
<1> DEFINE a == Put(v2.annotations, "rootfs.mount",
                    "/var/lib/isulad/mnt/rootfs")
<1>1. v2' = [MovePaths(v2) EXCEPT !.annotations =
               Put(@, "rootfs.mount", "/var/lib/isulad/mnt/rootfs")]
  BY DEF ReconcileV2Config
<1>2. /\ DOMAIN MovePaths(v2) = Fields
      /\ MovePaths(v2).annotations = v2.annotations
      /\ MovePaths(v2).logDriver = v2.logDriver
      /\ MovePaths(v2).logPath = v2.logPath
      /\ MovePaths(v2).files = IsuladsFiles
      /\ MovePaths(v2).origin = DockersFiles
      /\ MovePaths(v2).shm = ShmOnHost
  BY <1>0 DEF MovePaths, Fields, IsuladsFiles
<1>3. /\ DOMAIN v2' = Fields
      /\ v2'.annotations = a
      /\ v2'.logDriver = v2.logDriver
      /\ v2'.logPath = v2.logPath
      /\ v2'.files = IsuladsFiles
      /\ v2'.origin = DockersFiles
      /\ v2'.shm = ShmOnHost
  BY <1>1, <1>2 DEF Fields
<1>4. LogSame'
  BY <1>0, <1>3, LogStays
<1>5. /\ CgroupSet' /\ ~IsNil(v2'.annotations)
      /\ "rootfs.mount" \in DOMAIN v2'.annotations
  <2>1. CgroupDir' = CgroupDir
    BY <1>0 DEF CgroupDir
  <2> QED
    BY <1>0, <1>3, <2>1 DEF CgroupSet, Put, IsNil
<1>6. OptsInv'
  BY <1>0, <1>3, <1>4, <1>5 DEF OptsInv, Suffixes
<1>7. PathsInv'
  BY <1>0, <1>3 DEF IInv, PathsInv
<1> QED
  BY <1>0, <1>6, <1>7, UnfinishedStep, QuietStep DEF IInv

(* The three steps of transform() that make what the files refer to.       *)
LEMMA GenerateRootFsStep ==
  ASSUME IInv, GenerateRootFs
  PROVE  IInv'
<1>0. /\ DOMAIN v2 = Fields /\ pc = "rootfs" /\ pc' = "shm"
      /\ v2' = [v2 EXCEPT !.baseFs = Isulad("rootfs")]
      /\ UNCHANGED <<docker, hostCfg, oci, opts, copied, tmpfs>>
  BY DEF IInv, OptsInv, GenerateRootFs
<1>1. /\ DOMAIN v2' = Fields /\ v2'.annotations = v2.annotations
      /\ v2'.logDriver = v2.logDriver /\ v2'.logPath = v2.logPath
      /\ v2'.files = v2.files /\ v2'.origin = v2.origin
      /\ v2'.shm = v2.shm /\ v2'.baseFs = Isulad("rootfs")
  BY <1>0 DEF Fields
<1>2. OptsInv'
  BY <1>0, <1>1
     DEF IInv, OptsInv, LogSame, CgroupSet, CgroupDir, IsNil
<1>3. PathsInv'
  BY <1>0, <1>1 DEF IInv, PathsInv
<1> QED
  BY <1>0, <1>2, <1>3, UnfinishedStep, QuietStep DEF IInv

LEMMA PrepareShmStep ==
  ASSUME IInv, PrepareShm
  PROVE  IInv'
<1>1. OptsInv'
  BY DEF IInv, PrepareShm, OptsInv, LogSame, CgroupSet, CgroupDir, IsNil
<1>2. PathsInv'
  BY DEF IInv, PrepareShm, PathsInv
<1> QED
  BY <1>1, <1>2, UnfinishedStep, QuietStep DEF IInv, PrepareShm

LEMMA CopyStep ==
  ASSUME IInv, CopyNetworkFiles
  PROVE  IInv'
<1>1. OptsInv'
  BY DEF IInv, CopyNetworkFiles, OptsInv, LogSame, CgroupSet, CgroupDir, IsNil
<1>2. PathsInv'
  <2>1. /\ DOMAIN copied' = {Isulad(f) : f \in NetworkFiles}
        /\ \A f \in NetworkFiles : copied'[Isulad(f)] = v2.origin[f]
    BY DEF CopyNetworkFiles, GetNetworkFilePath, GetOriginNetworkFile, Isulad
  <2>2. \A f \in NetworkFiles : v2.origin[f] = Docker(f)
    BY DEF IInv, CopyNetworkFiles, PathsInv, DockersFiles
  <2> QED
    BY <2>1, <2>2 DEF IInv, CopyNetworkFiles, PathsInv
<1> QED
  BY <1>1, <1>2, UnfinishedStep, QuietStep DEF IInv, CopyNetworkFiles

(* config.json is rewritten from the finished config.v2.json.              *)
LEMMA OciConfigStep ==
  ASSUME IInv, ReconcileOciConfig
  PROVE  IInv'
<1>0. /\ pc = "oci" /\ pc' = "done" /\ LogSame /\ CgroupSet
      /\ "rootfs.mount" \in DOMAIN v2.annotations
      /\ v2.files = IsuladsFiles /\ v2.shm = ShmOnHost
      /\ v2.baseFs = Isulad("rootfs") /\ ShmOnHost \in tmpfs
      /\ oci.mounts = docker.mounts
      /\ oci.annotations = docker.ociAnnotations
      /\ \A f \in NetworkFiles : /\ Isulad(f) \in DOMAIN copied
                                 /\ copied[Isulad(f)] = Docker(f)
      /\ UNCHANGED <<docker, hostCfg, v2, opts, copied, tmpfs>>
  BY DEF IInv, OptsInv, PathsInv, OciInv, ReconcileOciConfig
<1>1. /\ oci'.annotations = WithCgroupDir(Synced)
      /\ oci'.root = v2.baseFs
      /\ oci'.cgroupsPath = Join(WithCgroupDir(Synced)["cgroup.dir"], "id")
      /\ oci'.mounts = [dest \in DOMAIN oci.mounts |-> MountSource(dest)]
  BY DEF ReconcileOciConfig
<1>2. /\ DOMAIN v2.annotations \subseteq DOMAIN Synced
      /\ \A k \in DOMAIN v2.annotations : Synced[k] = v2.annotations[k]
      /\ \A k \in DOMAIN Synced \ DOMAIN v2.annotations :
           k \in DOMAIN oci.annotations /\ Synced[k] = oci.annotations[k]
  BY DEF Synced, Annotate
<1>3. WithCgroupDir(Synced) = Synced
  BY <1>0, <1>2 DEF WithCgroupDir, CgroupSet
<1>4. FilesAgree'
  <2>1. Synced["cgroup.dir"] = v2.annotations["cgroup.dir"]
    BY <1>0, <1>2 DEF CgroupSet
  <2>2. /\ v2'.logDriver = v2'.annotations["log.console.driver"]
        /\ v2'.logDriver = "json-file" =>
             v2'.logPath = v2'.annotations["log.console.file"]
    BY <1>0 DEF LogSame
  <2>3. IsuladsKeys(v2.logDriver) \subseteq DOMAIN v2.annotations
    BY <1>0 DEF IsuladsKeys, LogSame, CgroupSet, FileKeys
  <2>4. /\ oci'.annotations = Synced
        /\ oci'.cgroupsPath = Join(v2.annotations["cgroup.dir"], "id")
    BY <1>1, <1>3, <2>1
  <2>5. \A k \in DOMAIN oci'.annotations \ DOMAIN v2.annotations :
          /\ k \in DOMAIN docker.ociAnnotations
          /\ oci'.annotations[k] = docker.ociAnnotations[k]
          /\ k \notin IsuladsKeys(v2.logDriver)
    BY <1>0, <1>2, <2>3, <2>4
  <2> HIDE DEF IsuladsKeys
  <2> QED
    BY <1>0, <1>1, <1>2, <2>2, <2>4, <2>5 DEF FilesAgree
<1>5. MountsAreThere'
  <2>1. ASSUME NEW dest \in DOMAIN docker.mounts, dest \in NetworkFiles
        PROVE  /\ oci'.mounts[dest] \in DOMAIN copied
               /\ copied[oci'.mounts[dest]] = Docker(dest)
    <3>1. oci'.mounts[dest] = Isulad(dest)
      BY <1>0, <1>1, <2>1 DEF MountSource, IsuladsFiles, NetworkFiles
    <3> QED
      BY <1>0, <2>1, <3>1
  <2>2. ASSUME NEW dest \in DOMAIN docker.mounts, dest = "shm"
        PROVE  oci'.mounts[dest] \in tmpfs
    BY <1>0, <1>1, <2>2 DEF MountSource, NetworkFiles
  <2> QED
    BY <1>0, <2>1, <2>2 DEF MountsAreThere
<1>6. OciInv'
  BY <1>0, <1>1, <1>4, <1>5 DEF OciInv
<1>7. OptsInv'
  BY <1>0 DEF IInv, OptsInv, LogSame, CgroupSet, CgroupDir, IsNil
<1>8. PathsInv'
  BY <1>0 DEF IInv, PathsInv
<1> QED
  BY <1>0, <1>6, <1>7, <1>8, QuietStep DEF IInv

LEMMA InvStep == ASSUME IInv, [Next]_vars PROVE IInv'
<1>1. CASE UNCHANGED vars
  <2>1. OptsInv'
    BY <1>1 DEF IInv, vars, OptsInv, LogSame, CgroupSet, CgroupDir, IsNil
  <2>2. PathsInv'
    BY <1>1 DEF IInv, vars, PathsInv
  <2>3. OciInv' /\ PcInv'
    BY <1>1 DEF IInv, vars, OciInv, PcInv, FilesAgree, MountsAreThere,
                CompleteDoesNotPanic, Incomplete, IsNil
  <2> QED
    BY <2>1, <2>2, <2>3 DEF IInv
<1>2. CASE NilRestartPolicy
  BY <1>2, PanicStep DEF NilRestartPolicy, Incomplete
<1>3. CASE NilAnnotations
  <2>1. IsNil(docker.annotations)
    BY <1>3 DEF NilAnnotations, IInv, OptsInv
  <2> QED
    BY <1>3, <2>1, PanicStep DEF NilAnnotations, Incomplete
<1>4. CASE NilOciAnnotations
  <2>1. IsNil(docker.ociAnnotations)
    BY <1>4 DEF NilOciAnnotations, IInv, OciInv
  <2> QED
    BY <1>4, <2>1, PanicStep DEF NilOciAnnotations, Incomplete
<1> QED
  BY <1>1, <1>2, <1>3, <1>4, HostConfigStep, ApplyOptStep, V2ConfigStep,
     GenerateRootFsStep, PrepareShmStep, CopyStep, OciConfigStep DEF Next

(* The invariant, for any set of containers.                               *)
THEOREM InductiveInvariant == Spec => []IInv
<1>1. Init => IInv
  BY InitInv
<1>2. IInv /\ [Next]_vars => IInv'
  BY InvStep
<1> QED
  BY <1>1, <1>2, PTL DEF Spec

-----------------------------------------------------------------------------
(* Types, and that on the host only iSulad's directory is written to: the  *)
(* tmpfs and the copies of transform() (docker.go:245-260).                *)
THEOREM TypeCorrect == Spec => []TypeOK
<1>1. IInv => TypeOK
  <2> SUFFICES ASSUME IInv PROVE TypeOK
    OBVIOUS
  <2>1. /\ \A f \in NetworkFiles : Docker(f) \in Paths /\ Isulad(f) \in Paths
        /\ Docker("mounts/shm") \in Paths /\ ShmOnHost \in Paths
        /\ Docker("rootfs") \in Paths /\ Isulad("rootfs") \in Paths
    BY DEF Paths, Names, ShmOnHost
  <2>2. v2.files \in [NetworkFiles -> Paths]
    <3>1. DockersFiles \in [NetworkFiles -> Paths]
      BY <2>1 DEF DockersFiles
    <3>2. IsuladsFiles \in [NetworkFiles -> Paths]
      BY <2>1 DEF IsuladsFiles
    <3> QED
      BY <3>1, <3>2 DEF IInv, PathsInv
  <2>3. v2.shm \in Paths /\ oci.root \in Paths
    BY <2>1 DEF IInv, PathsInv, OciInv
  <2>4. opts \in Seq({"oom", "files", "log", "image", "cgroup"})
    BY SuffixesAreOptions DEF IInv, OptsInv, Options
  <2> QED
    BY <2>2, <2>3, <2>4 DEF TypeOK, IInv, PathsInv, PcInv
<1> QED
  BY <1>1, InductiveInvariant, PTL

(* reconcileV2Config and reconcileOciConfig: config.json has every         *)
(* annotation of config.v2.json, besides these only docker's own, none of  *)
(* them one that iSulad decides, and the two agree on rootfs, cgroup and   *)
(* log.                                                                    *)
THEOREM TheFilesAgree == Spec => []FilesAgree
<1>1. IInv => FilesAgree
  BY DEF IInv, OciInv
<1> QED
  BY <1>1, InductiveInvariant, PTL

(* reconcileOciConfig mounts what PrepareShm and CopyFile have made.       *)
THEOREM MountSourcesExist == Spec => []MountsAreThere
<1>1. IInv => MountsAreThere
  BY DEF IInv, OciInv
<1> QED
  BY <1>1, InductiveInvariant, PTL

(* The parts of a path, with those that Reconcile writes. *)
Parts == STRING \cup {Root, "isulad", "id"}

LEMMA LongPath ==
  ASSUME NEW path \in Seq(Parts), EndsWithID(path)
  PROVE  /\ Len(path) \in Nat /\ Len(path) > 1
         /\ Len(path) # 2 => Len(path) > 2
<1>1. Len(path) > 1 /\ Len(path) \in Nat
  BY DEF EndsWithID
<1>2. \A n \in Nat : n > 1 /\ n # 2 => n > 2
  OBVIOUS
<1> QED
  BY <1>1, <1>2

(* Cutting the ID off a path and joining it again gives the path back,     *)
(* unless nothing but "/" was before the ID.                               *)
LEMMA DirAndID ==
  ASSUME NEW path \in Seq(Parts), EndsWithID(path)
  PROVE  Append(DirOf(path), "id") = path
<1>1. Len(path) \in Nat /\ Len(path) > 1 /\ path[Len(path)] = "id"
  BY DEF EndsWithID
<1>2. /\ DirOf(path) \in Seq(Parts)
      /\ Len(DirOf(path)) = Len(path) - 1
      /\ \A i \in 1..Len(path) - 1 : DirOf(path)[i] = path[i]
  BY <1>1 DEF DirOf
<1>3. /\ Append(DirOf(path), "id") \in Seq(Parts)
      /\ Len(Append(DirOf(path), "id")) = Len(path)
      /\ \A i \in 1..Len(path) : Append(DirOf(path), "id")[i] = path[i]
  <2>1. "id" \in Parts
    BY DEF Parts
  <2> QED
    BY <1>1, <1>2, <2>1
<1> QED
  BY <1>3, SeqEqual

LEMMA RootPath ==
  ASSUME NEW path \in Seq(Parts), EndsWithID(path), DirOf(path) = <<Root>>
  PROVE  path = <<Root, "id">>
<1> DEFINE root == <<Root, "id">>
<1>0. Root \in Parts /\ "id" \in Parts
  BY DEF Parts
<1>1. root \in Seq(Parts) /\ Len(root) = 2
  BY <1>0
<1>1a. root[1] = Root /\ root[2] = "id"
  OBVIOUS
<1>2. Len(path) = 2 /\ path[1] = Root
  <2>1. Len(<<Root>>) = 1 /\ <<Root>>[1] = Root
    OBVIOUS
  <2>2. Len(DirOf(path)) = 1 /\ DirOf(path)[1] = Root
    BY <2>1
  <2>3. /\ Len(DirOf(path)) = Len(path) - 1
        /\ \A i \in 1..Len(path) - 1 : DirOf(path)[i] = path[i]
    <3>1. Len(path) \in Nat /\ Len(path) > 1
      BY LongPath
    <3> QED
      BY <3>1 DEF DirOf
  <2>4. Len(path) \in Nat
    OBVIOUS
  <2>5. Len(path) = 2
    BY <2>2, <2>3, <2>4
  <2> QED
    BY <2>2, <2>3, <2>5
<1>3. path[2] = "id"
  BY <1>2 DEF EndsWithID
<1> HIDE DEF root
<1>4. \A i \in 1..Len(path) : path[i] = root[i]
  <2>1. \A i \in 1..2 : i = 1 \/ i = 2
    OBVIOUS
  <2> QED
    BY <1>1a, <1>2, <1>3, <2>1
<1>5. path = root
  BY <1>1, <1>2, <1>4, SeqEqual
<1> QED
  BY <1>5 DEF root

(* The default directory is in the root and is not docker's. *)
LEMMA DefaultPath ==
  ASSUME NEW path, path = Join(DefaultCgroupDir, "id")
  PROVE  path[1] = Root /\ path[2] = "isulad"
<1> DEFINE dir == <<Root, "isulad">>
<1>0. Root \in Parts /\ "isulad" \in Parts /\ "id" \in Parts
  BY DEF Parts
<1>1. dir \in Seq(Parts)
  BY <1>0
<1>1a. dir[1] = Root /\ dir[2] = "isulad" /\ Len(dir) = 2
  OBVIOUS
<1>2. dir # <<Root>>
  <2>1. Len(<<Root>>) = 1
    OBVIOUS
  <2> QED
    BY <1>1a, <2>1
<1>3. DefaultCgroupDir = dir
  BY DEF DefaultCgroupDir
<1> HIDE DEF dir
<1>4. path = Append(dir, "id")
  BY <1>2, <1>3, Zenon DEF Join
<1>5. \A i \in 1..Len(dir) : Append(dir, "id")[i] = dir[i]
  BY <1>0, <1>1, AppendProperties
<1>6. Append(dir, "id")[1] = dir[1] /\ Append(dir, "id")[2] = dir[2]
  BY <1>1a, <1>5
<1> QED
  BY <1>1a, <1>4, <1>6

LEMMA NotInDockers ==
  ASSUME NEW path \in Seq(Parts), EndsWithID(path), ~InDockers(path)
  PROVE  ~(path[1] = Root /\ path[2] = "docker")
<1>1. CASE Len(path) = 2
  <2>1. path[2] = "id"
    BY <1>1 DEF EndsWithID
  <2> QED
    BY <2>1
<1>2. CASE Len(path) > 2
  BY <1>2 DEF InDockers
<1> QED
  BY <1>1, <1>2, LongPath

(* v2ConfigWithCgroupParent decides the path that reconcileOciConfig gives *)
(* the container, and nothing between the two changes it: it is never      *)
(* below /docker, the user's own is kept to its last part, and none but    *)
(* one in the root becomes relative.                                       *)
THEOREM CgroupIsIsuladsOrUsers == Spec => []LeavesDockersCgroup
<1>1. IInv => LeavesDockersCgroup
  <2> SUFFICES ASSUME IInv, pc = "done" PROVE LeavesDockersCgroup
    BY DEF LeavesDockersCgroup
  <2> DEFINE path == docker.cgroupParent
  <2>1. oci.cgroupsPath = Join(CgroupDir, "id")
    BY DEF IInv, OciInv, OptsInv, FilesAgree, CgroupSet
  <2>2. path \in Seq(Parts)
    <3>1. path \in Seq(STRING)
      BY ContainersAssumption DEF IInv, OptsInv
    <3>2. STRING \subseteq Parts
      BY DEF Parts
    <3> QED
      BY <3>1, <3>2, SeqMonotonic
  <2>3. CASE InDockers(path) \/ ~EndsWithID(path)
    <3>1. CgroupDir = DefaultCgroupDir
      BY <2>3 DEF CgroupDir
    <3>2. oci.cgroupsPath[1] = Root /\ oci.cgroupsPath[2] # "docker"
      <4>1. oci.cgroupsPath[1] = Root /\ oci.cgroupsPath[2] = "isulad"
        BY <2>1, <3>1, DefaultPath
      <4> QED
        BY <4>1
    <3>3. ~UsersCgroup
      BY <2>3, Zenon DEF UsersCgroup
    <3> QED
      BY <3>2, <3>3, Zenon DEF LeavesDockersCgroup
  <2>4. CASE ~InDockers(path) /\ EndsWithID(path)
    <3>0. UsersCgroup
      BY <2>4, Zenon DEF UsersCgroup
    <3>1. CgroupDir = DirOf(path)
      BY <2>4 DEF CgroupDir
    <3>2. CASE DirOf(path) = <<Root>>
      <4>1. oci.cgroupsPath = <<"id">>
        BY <2>1, <3>1, <3>2 DEF Join
      <4>2. path = <<Root, "id">>
        BY <2>2, <2>4, <3>2, RootPath
      <4>3. oci.cgroupsPath[1] # Root
        <5>1. "id" # Root
          BY DEF Root
        <5> QED
          BY <4>1, <5>1
      <4> QED
        BY <3>0, <4>2, <4>3, Zenon DEF LeavesDockersCgroup, InRootCgroup
    <3>3. CASE DirOf(path) # <<Root>>
      <4>1. oci.cgroupsPath = Append(DirOf(path), "id")
        BY <2>1, <3>1, <3>3 DEF Join
      <4>2. oci.cgroupsPath = path
        BY <2>2, <2>4, <4>1, DirAndID
      <4>3. ~(path[1] = Root /\ path[2] = "docker")
        BY <2>2, <2>4, NotInDockers
      <4> QED
        BY <3>0, <4>2, <4>3, Zenon DEF LeavesDockersCgroup
    <3> QED
      BY <3>2, <3>3
  <2> QED
    BY <2>3, <2>4
<1> QED
  BY <1>1, InductiveInvariant, PTL

(* No option and no step leaves a map nil that a later one writes to.      *)
THEOREM OnlyIncompletePanics == Spec => []CompleteDoesNotPanic
<1>1. IInv => CompleteDoesNotPanic
  BY DEF IInv, PcInv
<1> QED
  BY <1>1, InductiveInvariant, PTL
=============================================================================
