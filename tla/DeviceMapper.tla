---------------------------- MODULE DeviceMapper ----------------------------
(***************************************************************************)
(* deviceMapperDriver.TransformRWLayer: the changes docker reports for a   *)
(* container are filtered through a trie and applied, one cp or RemoveAll  *)
(* each, to the rootfs iSulad made from the same image.                    *)
(*                                                                         *)
(* A file system is a function from the paths that exist to what is there: *)
(* "dir" or the contents of a file. A path is the sequence of its names;   *)
(* the root is <<>>.                                                       *)
(***************************************************************************)
EXTENDS Naturals, Sequences, FiniteSets, SequencesExt

CONSTANTS
  Names,       \* of files and directories
  Paths,       \* the paths that image and container may have
  Contents,    \* what a file may contain
  MountPaths   \* where bind mounts of the container may be

ASSUME PathsAssumption == /\ IsFiniteSet(Paths)
                          /\ Paths \subseteq Seq(Names)
                          /\ <<>> \in Paths
                          /\ \A p \in Paths \ {<<>>} : Front(p) \in Paths

VARIABLES
  image,       \* the rootfs of the image, docker's and iSulad's
  container,   \* docker's rootfs of the container (oldRootFs)
  mounts,      \* the keys of MountPoints
  newFs,       \* iSulad's rootfs of the container (BaseFs)
  pending,     \* the reported changes not yet looked at
  trie,        \* path of a node -> its operation
  queue,       \* nodes that filter() has yet to visit ("stack" in the code)
  changes,     \* the result of filter()
  idx,         \* the change that is applied next
  pc,
  retErr

vars == <<image, container, mounts, newFs, pending, trie, queue, changes, idx,
          pc, retErr>>
given == <<image, container, mounts>>

-----------------------------------------------------------------------------
IsDir(fs, p) == p \in DOMAIN fs /\ fs[p] = "dir"
Beneath(S, p) == {q \in S : IsStrictPrefix(p, q)}
Subtree(S, p) == {q \in S : IsPrefix(p, q)}

IsTree(fs) == /\ IsDir(fs, <<>>)
              /\ \A p \in DOMAIN fs \ {<<>>} : IsDir(fs, Front(p))

Trees == {fs \in UNION {[D -> Contents \cup {"dir"}] : D \in SUBSET Paths} :
             IsTree(fs)}

\* Nothing is a directory in one and a file in the other.
SameKinds(f, g) == \A p \in DOMAIN f \cap DOMAIN g : IsDir(f, p) <=> IsDir(g, p)

(***************************************************************************)
(* What docker reports: what was added, what was deleted (not what was     *)
(* beneath it), and what was modified, a directory being modified if       *)
(* anything in it was.                                                     *)
(***************************************************************************)
Added == DOMAIN container \ DOMAIN image
Deleted == {p \in DOMAIN image \ DOMAIN container : IsDir(container, Front(p))}
Modified == {p \in DOMAIN image \cap DOMAIN container :
               image[p] # container[p]}
EnclosingDirs == {p \in DOMAIN image \cap DOMAIN container :
                    Beneath(Added \cup Deleted \cup Modified, p) # {}} \ {<<>>}

Listed == [path : Added, kind : {"add"}]
            \cup [path : Deleted, kind : {"del"}]
            \cup [path : Modified \cup EnclosingDirs, kind : {"change"}]

ListedPaths == {c.path : c \in Listed}

-----------------------------------------------------------------------------
Init ==
  /\ image \in Trees
  /\ container \in {fs \in Trees : SameKinds(image, fs)}
  /\ mounts \in SUBSET (MountPaths \cap DOMAIN container)
  /\ \A m \in mounts : Beneath(ListedPaths, m) = {}
  /\ newFs = image
  /\ pending = {}
  /\ trie = [p \in {<<>>} |-> "ignore"]
  /\ queue = <<>>
  /\ changes = <<>>
  /\ idx = 1
  /\ pc = "mount"
  /\ retErr = FALSE

MountRootFs ==
  /\ pc = "mount"
  /\ \/ pc' = "diff" /\ UNCHANGED retErr
     \/ pc' = "done" /\ retErr' = TRUE
  /\ UNCHANGED <<given, newFs, pending, trie, queue, changes, idx>>

ContainerDiff ==
  /\ pc = "diff"
  /\ \/ pc' = "insert" /\ pending' = Listed /\ UNCHANGED retErr
     \/ pc' = "umount" /\ retErr' = TRUE /\ UNCHANGED pending
  /\ UNCHANGED <<given, newFs, trie, queue, changes, idx>>

InsertPath_KeepsParents(t, p, op) ==
  [q \in DOMAIN t \cup Prefixes(p) |-> IF q \in DOMAIN t THEN t[q] ELSE op]

\* diffTrie.insert: a node that is on the way to another is not applied.
InsertPath(t, p, op) ==
  [q \in DOMAIN t \cup Prefixes(p) |->
     IF q \notin DOMAIN t THEN op
     ELSE IF IsPrefix(q, p) THEN "ignore"
     ELSE t[q]]

\* One iteration over the reported changes; docker reports a directory before
\* what is in it, in no other order.
Insert(c) ==
  /\ pc = "insert"
  /\ c \in pending
  /\ ~ \E d \in pending : IsStrictPrefix(d.path, c.path)
  /\ pending' = pending \ {c}
  /\ trie' = IF c.path \in mounts THEN trie ELSE InsertPath(trie, c.path, c.kind)
  /\ UNCHANGED <<given, newFs, queue, changes, idx, pc, retErr>>

StartFilter ==
  /\ pc = "insert"
  /\ pending = {}
  /\ queue' = << <<>> >>
  /\ pc' = "filter"
  /\ UNCHANGED <<given, newFs, pending, trie, changes, idx, retErr>>

Children(p) == {q \in DOMAIN trie \ {<<>>} : Front(q) = p}

\* A node that filter() takes on as a change.
Kept(p) == trie[p] # "ignore"

\* One iteration of filter(): breadth first, siblings in the order of a Go map.
VisitNode ==
  /\ pc = "filter"
  /\ queue # <<>>
  /\ LET p == Head(queue)
     IN /\ changes' = IF Kept(p)
                      THEN Append(changes, [path |-> p, kind |-> trie[p]])
                      ELSE changes
        /\ \E siblings \in SetToSeqs(Children(p)) :
              queue' = Tail(queue) \o siblings
  /\ UNCHANGED <<given, newFs, pending, trie, idx, pc, retErr>>

StartApply ==
  /\ pc = "filter"
  /\ queue = <<>>
  /\ pc' = "apply"
  /\ UNCHANGED <<given, newFs, pending, trie, queue, changes, idx, retErr>>

(***************************************************************************)
(* cp -ra container/p newFs/Dir(p). If Dir(p) is a directory the copy goes *)
(* into it, and into a directory of its name that is already there; if     *)
(* not, Dir(p) is the name of the copy.                                    *)
(***************************************************************************)
DestRoot(p) == Front(p)

\* With dest instead of its directory as the second argument of cp.
Target_Dest(p) == IF IsDir(newFs, p) THEN Append(p, Last(p)) ELSE p

Target(p) == IF IsDir(newFs, DestRoot(p)) THEN p ELSE DestRoot(p)

\* Where the copy of p has what the container has at q.
Place(p, q) == Target(p) \o SubSeq(q, Len(p) + 1, Len(q))

CopyOf(p) ==
  LET source == Subtree(DOMAIN container, p)
  IN [t \in {Place(p, q) : q \in source} |->
        container[CHOOSE q \in source : Place(p, q) = t]]

CanCopy(p) == /\ IsDir(newFs, Front(Target(p)))
              /\ SameKinds(CopyOf(p), newFs)

Copy(p) == [q \in DOMAIN newFs \cup DOMAIN CopyOf(p) |->
              IF q \in DOMAIN CopyOf(p) THEN CopyOf(p)[q] ELSE newFs[q]]

\* The name only, what is in it stays.
RemoveAll_Shallow(p) == [q \in DOMAIN newFs \ {p} |-> newFs[q]]

RemoveAll_DestRoot(p) ==
  [q \in DOMAIN newFs \ Subtree(DOMAIN newFs, DestRoot(p)) |-> newFs[q]]

\* os.RemoveAll(dest)
RemoveAll(p) == [q \in DOMAIN newFs \ Subtree(DOMAIN newFs, p) |-> newFs[q]]

ApplyChange ==
  /\ pc = "apply"
  /\ idx <= Len(changes)
  /\ LET c == changes[idx]
     IN \/ /\ c.kind \in {"add", "change"}
           /\ CanCopy(c.path)
           /\ newFs' = Copy(c.path)
        \/ /\ c.kind = "del"
           /\ newFs' = RemoveAll(c.path)
  /\ idx' = idx + 1
  /\ UNCHANGED <<given, pending, trie, queue, changes, pc, retErr>>

\* cp or RemoveAll may fail for any reason, and cp fails if it cannot copy.
\* What a failing cp copied is not modelled: the caller removes the rootfs.
ApplyFails ==
  /\ pc = "apply"
  /\ idx <= Len(changes)
  /\ retErr' = TRUE
  /\ pc' = "umount"
  /\ UNCHANGED <<given, newFs, pending, trie, queue, changes, idx>>

EndApply ==
  /\ pc = "apply"
  /\ idx > Len(changes)
  /\ pc' = "umount"
  /\ UNCHANGED <<given, newFs, pending, trie, queue, changes, idx, retErr>>

\* Deferred. Whether it fails is only logged.
UmountRootFs ==
  /\ pc = "umount"
  /\ pc' = "done"
  /\ UNCHANGED <<given, newFs, pending, trie, queue, changes, idx, retErr>>

Next == \/ MountRootFs
        \/ ContainerDiff
        \/ \E c \in pending : Insert(c)
        \/ StartFilter
        \/ VisitNode
        \/ StartApply
        \/ ApplyChange
        \/ ApplyFails
        \/ EndApply
        \/ UmountRootFs

Spec == Init /\ [][Next]_vars

-----------------------------------------------------------------------------
\* The rootfs under construction is a file system at every moment: nothing
\* that cp or RemoveAll is called with cuts a path off from its directory.
TypeOK ==
  /\ IsTree(newFs)
  /\ pending \subseteq Listed
  /\ \A p \in DOMAIN trie : trie[p] \in {"add", "del", "change", "ignore"}
  /\ \A p \in DOMAIN trie \ {<<>>} : Front(p) \in DOMAIN trie
  /\ ToSet(queue) \subseteq DOMAIN trie
  /\ idx \in 1..Len(changes) + 1
  /\ pc \in {"mount", "diff", "insert", "filter", "apply", "umount", "done"}
  /\ retErr \in BOOLEAN

Leaves == {c \in Listed : /\ c.path \notin mounts
                          /\ Beneath(ListedPaths \ mounts, c.path) = {}}

\* The comment at changesFilter: "We only deal with leaf nodes". In whatever
\* order docker reports siblings (a directory comes before what is in it) and
\* the maps give children, filter() returns every reported change beneath
\* which nothing else changed, mounts aside, once, and no other.
FilterKeepsLeaves ==
  pc = "apply" => /\ ToSet(changes) = Leaves
                  /\ Len(changes) = Cardinality(Leaves)

\* What the container did not change is in the new rootfs as it is in the
\* image at every moment, whichever changes were applied, in whatever order,
\* to the right place or not.
UnchangedSurvives ==
  \A p \in DOMAIN image \cap DOMAIN container :
    image[p] = container[p] => /\ p \in DOMAIN newFs
                               /\ newFs[p] = image[p]

-----------------------------------------------------------------------------
\* Mounted by the container itself, when it starts.
UnderMount(p) == \E m \in mounts : IsPrefix(m, p)

Migrated == LET Own(fs) == {p \in DOMAIN fs : ~UnderMount(p)}
            IN /\ Own(newFs) = Own(container)
               /\ \A p \in Own(newFs) : newFs[p] = container[p]

\* If every change that is applied is in a directory the image has, then a
\* TransformRWLayer that returns without an error has made the new rootfs
\* equal to docker's, mounts aside, whatever the order of the maps.
MigratedWhereParentsExist ==
  /\ pc = "done" /\ ~retErr
  /\ \A c \in Leaves : IsDir(image, Front(c.path))
  => Migrated

\* "TransformRWLayer migrates container read-write layer data"
\* (transform/storage.go): if it returns without an error it has.
\* Violated: of a directory the container added only what is in it is copied,
\* and as the directory is not there, under the directory's name.
MigratesLayer == pc = "done" /\ ~retErr => Migrated

=============================================================================
