-------------------------- MODULE DeviceMapperProofs --------------------------
(***************************************************************************)
(* Proofs for module DeviceMapper: for any finite set of paths that is     *)
(* closed under directories, any contents and any mounts.                  *)
(*                                                                         *)
(* First the order of the paths, then the trees and the report docker      *)
(* makes of them, then one lemma per step.  An argument by induction on a  *)
(* path is one by its longest prefix that has a property (LongestPrefix),  *)
(* and one by induction on what is beneath a path is one by the paths with *)
(* the least beneath them (WFMin).                                         *)
(***************************************************************************)
EXTENDS DeviceMapper, FiniteSetTheorems, SequenceTheorems,
        WellFoundedInduction, TLAPS

-----------------------------------------------------------------------------
(* The order of the paths.                                                 *)

LEMMA LeastNat ==
  ASSUME NEW T, T \subseteq Nat, T # {}
  PROVE  \E x \in T : \A y \in T : x <= y
<1>1. PICK x \in T : \A y \in T : ~ (<<y, x>> \in OpToRel(<, Nat))
  BY NatLessThanWellFounded, WFMin
<1>2. ASSUME NEW y \in T PROVE ~(y < x)
  BY <1>1 DEF OpToRel
<1>3. ASSUME NEW y \in T PROVE x <= y
  <2>1. x \in Nat /\ y \in Nat
    OBVIOUS
  <2> QED
    BY <1>2, <2>1
<1> QED
  BY <1>3

LEMMA GreatestNat ==
  ASSUME NEW T, NEW n \in Nat, T \subseteq 0..n, T # {}
  PROVE  \E x \in T : \A y \in T : y <= x
<1> DEFINE S == {k \in 0..n : n - k \in T}
<1>1. S # {}
  <2>1. PICK x \in T : TRUE
    OBVIOUS
  <2>2. n - x \in 0..n /\ n - (n - x) = x
    BY <2>1
  <2> QED
    BY <2>1, <2>2
<1>2. S \subseteq Nat
  OBVIOUS
<1>3. PICK k \in S : \A l \in S : k <= l
  <2> HIDE DEF S
  <2> QED
    BY <1>1, <1>2, LeastNat
<1>4. ASSUME NEW y \in T PROVE y <= n - k
  <2>1. n - y \in 0..n /\ n - (n - y) = y
    OBVIOUS
  <2>2. k <= n - y
    BY <1>3, <2>1
  <2> QED
    BY <2>2
<1> QED
  BY <1>4

LEMMA SubSeqPath ==
  ASSUME NEW p \in Seq(Names), NEW n \in 0..Len(p)
  PROVE  /\ SubSeq(p, 1, n) \in Seq(Names)
         /\ Len(SubSeq(p, 1, n)) = n
         /\ \A i \in 1..n : SubSeq(p, 1, n)[i] = p[i]
<1>1. \A i \in 1..n : p[i] \in Names
  OBVIOUS
<1> QED
  BY <1>1, SubSeqProperties

(* IsPrefix by the names at each place.                                    *)
LEMMA PrefixByNames ==
  ASSUME NEW p \in Seq(Names), NEW q \in Seq(Names)
  PROVE  IsPrefix(p, q) <=> /\ Len(p) <= Len(q)
                            /\ \A i \in 1..Len(p) : p[i] = q[i]
<1>1. SubSeq(p, 1, Len(p)) = p
  BY SubSeqFull
<1>2. CASE Len(p) <= Len(q)
  <2>1. /\ SubSeq(q, 1, Len(p)) \in Seq(Names)
        /\ Len(SubSeq(q, 1, Len(p))) = Len(p)
        /\ \A i \in 1..Len(p) : SubSeq(q, 1, Len(p))[i] = q[i]
    BY <1>2, SubSeqPath
  <2>2. p = SubSeq(q, 1, Len(p)) <=> \A i \in 1..Len(p) : p[i] = q[i]
    <3>1. ASSUME \A i \in 1..Len(p) : p[i] = q[i]
          PROVE  p = SubSeq(q, 1, Len(p))
      BY <2>1, <3>1, SeqEqual
    <3> QED
      BY <2>1, <3>1
  <2> QED
    BY <1>1, <1>2, <2>2 DEF IsPrefix
<1>3. CASE ~(Len(p) <= Len(q))
  BY <1>3 DEF IsPrefix
<1> QED
  BY <1>2, <1>3

LEMMA PrefixReflexive ==
  ASSUME NEW p \in Seq(Names)
  PROVE  IsPrefix(p, p)
  BY PrefixByNames

LEMMA PrefixTransitive ==
  ASSUME NEW p \in Seq(Names), NEW q \in Seq(Names), NEW r \in Seq(Names),
         IsPrefix(p, q), IsPrefix(q, r)
  PROVE  IsPrefix(p, r)
<1>1. Len(p) \in Nat /\ Len(q) \in Nat /\ Len(r) \in Nat
  OBVIOUS
<1>2. Len(p) <= Len(q) /\ \A i \in 1..Len(p) : p[i] = q[i]
  BY PrefixByNames
<1>3. Len(q) <= Len(r) /\ \A i \in 1..Len(q) : q[i] = r[i]
  BY PrefixByNames
<1>4. Len(p) <= Len(r) /\ \A i \in 1..Len(p) : p[i] = r[i]
  BY <1>1, <1>2, <1>3
<1> QED
  BY <1>4, PrefixByNames

LEMMA PrefixAntisymmetric ==
  ASSUME NEW p \in Seq(Names), NEW q \in Seq(Names),
         IsPrefix(p, q), Len(q) <= Len(p)
  PROVE  p = q
<1>1. Len(p) \in Nat /\ Len(q) \in Nat
  OBVIOUS
<1>2. Len(p) <= Len(q) /\ \A i \in 1..Len(p) : p[i] = q[i]
  BY PrefixByNames
<1>3. Len(p) = Len(q)
  BY <1>1, <1>2
<1> QED
  BY <1>2, <1>3, SeqEqual

(* Two paths to the same place: one is on the way to the other.            *)
LEMMA PrefixesComparable ==
  ASSUME NEW p \in Seq(Names), NEW q \in Seq(Names), NEW r \in Seq(Names),
         IsPrefix(p, r), IsPrefix(q, r)
  PROVE  IsPrefix(p, q) \/ IsPrefix(q, p)
<1>1. Len(p) \in Nat /\ Len(q) \in Nat
  OBVIOUS
<1>2. /\ \A i \in 1..Len(p) : p[i] = r[i]
      /\ \A i \in 1..Len(q) : q[i] = r[i]
  BY PrefixByNames
<1>3. CASE Len(p) <= Len(q)
  <2>1. \A i \in 1..Len(p) : p[i] = q[i]
    BY <1>1, <1>2, <1>3
  <2> QED
    BY <1>3, <2>1, PrefixByNames
<1>4. CASE Len(q) <= Len(p)
  <2>1. \A i \in 1..Len(q) : q[i] = p[i]
    BY <1>1, <1>2, <1>4
  <2> QED
    BY <1>4, <2>1, PrefixByNames
<1> QED
  BY <1>1, <1>3, <1>4

LEMMA RootIsPrefix ==
  ASSUME NEW p \in Seq(Names)
  PROVE  /\ IsPrefix(<<>>, p)
         /\ IsPrefix(p, <<>>) => p = <<>>
<1>1. PICK root : root = <<>>
  OBVIOUS
<1>2. root \in Seq(Names) /\ Len(root) = 0
  BY <1>1
<1>3. IsPrefix(root, p)
  <2>1. Len(root) <= Len(p) /\ \A i \in 1..Len(root) : root[i] = p[i]
    BY <1>2
  <2> QED
    BY <1>2, <2>1, PrefixByNames
<1>4. ASSUME IsPrefix(p, root) PROVE p = root
  <2>1. Len(root) <= Len(p)
    BY <1>2
  <2> QED
    BY <1>2, <1>4, <2>1, PrefixAntisymmetric
<1> QED
  BY <1>1, <1>3, <1>4

LEMMA FrontFacts ==
  ASSUME NEW p \in Seq(Names), p # <<>>
  PROVE  /\ Front(p) \in Seq(Names)
         /\ Len(Front(p)) = Len(p) - 1
         /\ \A i \in 1..Len(p) - 1 : Front(p)[i] = p[i]
         /\ IsStrictPrefix(Front(p), p)
<1>1. Len(p) \in Nat \ {0}
  BY EmptySeq
<1>2. Front(p) = SubSeq(p, 1, Len(p) - 1) /\ Len(p) - 1 \in 0..Len(p)
  BY <1>1 DEF Front
<1>3. /\ Front(p) \in Seq(Names)
      /\ Len(Front(p)) = Len(p) - 1
      /\ \A i \in 1..Len(p) - 1 : Front(p)[i] = p[i]
  BY <1>2, SubSeqPath
<1>4. IsPrefix(Front(p), p) /\ Front(p) # p
  BY <1>1, <1>3, PrefixByNames
<1> QED
  BY <1>3, <1>4 DEF IsStrictPrefix

(* What is on the way to p and not p is on the way to p's directory.       *)
LEMMA StrictPrefixFacts ==
  ASSUME NEW p \in Seq(Names), NEW q \in Seq(Names), IsStrictPrefix(p, q)
  PROVE  /\ q # <<>>
         /\ Len(p) < Len(q)
         /\ IsPrefix(p, Front(q))
<1>1. IsPrefix(p, q) /\ p # q
  BY DEF IsStrictPrefix
<1>2. Len(p) \in Nat /\ Len(q) \in Nat
  OBVIOUS
<1>3. Len(p) < Len(q)
  BY <1>1, <1>2, PrefixAntisymmetric
<1>4. q # <<>>
  BY <1>2, <1>3
<1>5. IsPrefix(p, Front(q))
  <2>1. \A i \in 1..Len(p) : p[i] = q[i]
    BY <1>1, PrefixByNames
  <2>2. /\ Front(q) \in Seq(Names) /\ Len(Front(q)) = Len(q) - 1
        /\ \A i \in 1..Len(q) - 1 : Front(q)[i] = q[i]
    BY <1>4, FrontFacts
  <2>3. Len(p) <= Len(Front(q)) /\ \A i \in 1..Len(p) : p[i] = Front(q)[i]
    BY <1>2, <1>3, <2>1, <2>2
  <2> QED
    BY <2>2, <2>3, PrefixByNames
<1> QED
  BY <1>3, <1>4, <1>5

LEMMA StrictPrefixTransitive ==
  ASSUME NEW p \in Seq(Names), NEW q \in Seq(Names), NEW r \in Seq(Names),
         \/ IsPrefix(p, q) /\ IsStrictPrefix(q, r)
         \/ IsStrictPrefix(p, q) /\ IsPrefix(q, r)
  PROVE  IsStrictPrefix(p, r)
<1>1. IsPrefix(p, q) /\ IsPrefix(q, r)
  BY DEF IsStrictPrefix
<1>2. IsPrefix(p, r)
  BY <1>1, PrefixTransitive
<1>3. Len(p) <= Len(q) /\ Len(q) <= Len(r)
  BY <1>1, PrefixByNames
<1>4. Len(p) < Len(q) \/ Len(q) < Len(r)
  BY StrictPrefixFacts
<1>5. Len(p) \in Nat /\ Len(q) \in Nat /\ Len(r) \in Nat
  OBVIOUS
<1>6. p # r
  BY <1>3, <1>4, <1>5
<1> QED
  BY <1>2, <1>6 DEF IsStrictPrefix

LEMMA PrefixesFacts ==
  ASSUME NEW p \in Seq(Names)
  PROVE  Prefixes(p) = {q \in Seq(Names) : IsPrefix(q, p)}
<1>1. ASSUME NEW n \in 0..Len(p)
      PROVE  SubSeq(p, 1, n) \in Seq(Names) /\ IsPrefix(SubSeq(p, 1, n), p)
  <2>1. /\ SubSeq(p, 1, n) \in Seq(Names)
        /\ Len(SubSeq(p, 1, n)) = n
        /\ \A i \in 1..n : SubSeq(p, 1, n)[i] = p[i]
    BY SubSeqPath
  <2>2. n <= Len(p)
    OBVIOUS
  <2> QED
    BY <2>1, <2>2, PrefixByNames
<1>2. ASSUME NEW q \in Seq(Names), IsPrefix(q, p)
      PROVE  Len(q) \in 0..Len(p) /\ q = SubSeq(p, 1, Len(q))
  <2>1. SubSeq(q, 1, Len(q)) = q
    BY SubSeqFull
  <2> QED
    BY <1>2, <2>1 DEF IsPrefix
<1> QED
  BY <1>1, <1>2 DEF Prefixes
-----------------------------------------------------------------------------
(* Trees.                                                                  *)

LEMMA FrontOfSubSeq ==
  ASSUME NEW q \in Seq(Names), NEW k \in 0..Len(q) - 1
  PROVE  /\ SubSeq(q, 1, k + 1) # <<>>
         /\ Front(SubSeq(q, 1, k + 1)) = SubSeq(q, 1, k)
<1>1. Len(q) \in Nat
  OBVIOUS
<1>2. k \in 0..Len(q) /\ k + 1 \in 0..Len(q)
  BY <1>1
<1>3. /\ SubSeq(q, 1, k) \in Seq(Names)
      /\ Len(SubSeq(q, 1, k)) = k
      /\ \A i \in 1..k : SubSeq(q, 1, k)[i] = q[i]
  BY <1>2, SubSeqPath
<1>4. /\ SubSeq(q, 1, k + 1) \in Seq(Names)
      /\ Len(SubSeq(q, 1, k + 1)) = k + 1
      /\ \A i \in 1..k + 1 : SubSeq(q, 1, k + 1)[i] = q[i]
  BY <1>2, SubSeqPath
<1>5. SubSeq(q, 1, k + 1) # <<>>
  BY <1>2, <1>4
<1>6. /\ Front(SubSeq(q, 1, k + 1)) \in Seq(Names)
      /\ Len(Front(SubSeq(q, 1, k + 1))) = k
      /\ \A i \in 1..k : Front(SubSeq(q, 1, k + 1))[i] = q[i]
  <2> DEFINE s == SubSeq(q, 1, k + 1)
  <2> HIDE DEF s
  <2>1. /\ Front(s) \in Seq(Names) /\ Len(Front(s)) = Len(s) - 1
        /\ \A i \in 1..Len(s) - 1 : Front(s)[i] = s[i]
    BY <1>4, <1>5, FrontFacts DEF s
  <2> QED
    BY <1>2, <1>4, <2>1 DEF s
<1> QED
  BY <1>3, <1>5, <1>6, SeqEqual

(* Of the prefixes of q down to p that have a property S, the longest.     *)
LEMMA LongestPrefix ==
  ASSUME NEW q \in Seq(Names), NEW p \in Seq(Names), IsPrefix(p, q),
         NEW S, p \in S, q \notin S
  PROVE  \E r \in Seq(Names) : /\ IsPrefix(p, r) /\ IsStrictPrefix(r, q)
                               /\ r \in S
                               /\ \E t \in Seq(Names) :
                                    /\ t # <<>> /\ Front(t) = r
                                    /\ IsPrefix(t, q) /\ t \notin S
<1> DEFINE pre(k) == SubSeq(q, 1, k)
           T == {k \in 0..Len(q) : Len(p) <= k /\ pre(k) \in S}
<1>1. Len(q) \in Nat /\ Len(p) \in Nat /\ Len(p) <= Len(q)
  BY PrefixByNames
<1>2. \A k \in 0..Len(q) : /\ pre(k) \in Seq(Names) /\ Len(pre(k)) = k
                           /\ \A i \in 1..k : pre(k)[i] = q[i]
  BY SubSeqPath
<1>3. pre(Len(q)) = q
  BY SubSeqFull
<1>4. pre(Len(p)) = p
  <2>1. SubSeq(p, 1, Len(p)) = p
    BY SubSeqFull
  <2> QED
    BY <2>1 DEF IsPrefix
<1> HIDE DEF pre
<1>5. T # {} /\ T \subseteq 0..Len(q)
  BY <1>1, <1>4
<1>6. PICK k \in T : \A l \in T : l <= k
  <2> HIDE DEF T
  <2> QED
    BY <1>1, <1>5, GreatestNat
<1>7. k # Len(q)
  BY <1>3
<1>8. k \in 0..Len(q) - 1 /\ k + 1 \in 0..Len(q) /\ k \in 0..Len(q)
  BY <1>1, <1>7
<1>9. pre(k + 1) \notin S
  <2>1. k + 1 \notin T
    <3> HIDE DEF T
    <3>1. k \in Nat
      BY <1>5, <1>6
    <3> QED
      BY <1>6, <3>1
  <2> QED
    BY <1>1, <1>8, <2>1
<1>10. pre(k + 1) # <<>> /\ Front(pre(k + 1)) = pre(k)
  BY <1>8, FrontOfSubSeq DEF pre
<1>11. IsPrefix(pre(k + 1), q)
  BY <1>1, <1>2, <1>8, PrefixByNames
<1>12. IsPrefix(p, pre(k))
  <2>1. \A i \in 1..Len(p) : p[i] = q[i]
    BY PrefixByNames
  <2>2. Len(p) <= k
    OBVIOUS
  <2>3. \A i \in 1..Len(p) : p[i] = pre(k)[i]
    BY <1>1, <1>2, <1>8, <2>1, <2>2
  <2> QED
    BY <1>2, <1>8, <2>2, <2>3, PrefixByNames
<1>13. IsStrictPrefix(pre(k), q)
  <2>1. Len(pre(k)) # Len(q)
    BY <1>2, <1>7, <1>8
  <2>2. IsPrefix(pre(k), q)
    BY <1>1, <1>2, <1>8, PrefixByNames
  <2> QED
    BY <2>1, <2>2 DEF IsStrictPrefix
<1> QED
  BY <1>2, <1>8, <1>9, <1>10, <1>11, <1>12, <1>13

(* Everything on the way to a path of a tree is a directory.               *)
LEMMA Ancestors ==
  ASSUME NEW fs, IsTree(fs), DOMAIN fs \subseteq Seq(Names),
         NEW q \in DOMAIN fs, NEW p \in Seq(Names), IsStrictPrefix(p, q)
  PROVE  IsDir(fs, p)
<1> SUFFICES ASSUME ~IsDir(fs, p) PROVE FALSE
  OBVIOUS
<1> DEFINE S == {r \in Seq(Names) : r # q /\ ~IsDir(fs, r)}
<1>1. p \in S /\ q \notin S /\ IsPrefix(p, q) /\ q \in Seq(Names)
  BY DEF IsStrictPrefix
<1>2. PICK r \in Seq(Names) :
        /\ r \in S
        /\ \E t \in Seq(Names) : /\ t # <<>> /\ Front(t) = r
                                 /\ IsPrefix(t, q) /\ t \notin S
  <2> HIDE DEF S
  <2> QED
    BY <1>1, LongestPrefix
<1>3. PICK t \in Seq(Names) : t # <<>> /\ Front(t) = r /\ t \notin S
  BY <1>2
<1>4. t \in DOMAIN fs
  BY <1>3 DEF IsDir
<1>5. IsDir(fs, r)
  BY <1>3, <1>4 DEF IsTree
<1> QED
  BY <1>2, <1>5
-----------------------------------------------------------------------------
(* The inductive invariant.                                                *)

\* What the container is, which nothing changes.
GivenInv ==
  /\ image \in Trees
  /\ container \in Trees
  /\ SameKinds(image, container)
  /\ mounts \subseteq DOMAIN container
  /\ \A m \in mounts : Beneath(ListedPaths, m) = {}

\* The changes that have been put into the trie.
Done == Listed \ pending
Inserted == {c.path : c \in Done} \ mounts

\* What holds of the trie at all times, and, once the report is there, which
\* of the nodes are ignored.
TrieShape ==
  /\ pending \subseteq Listed
  /\ pc \in {"mount", "diff", "filter", "apply"} => pending = {}
  /\ DOMAIN trie \subseteq Paths
  /\ <<>> \in DOMAIN trie /\ trie[<<>>] = "ignore"
  /\ \A p \in DOMAIN trie \ {<<>>} : Front(p) \in DOMAIN trie
  /\ pc \in {"mount", "diff"} => DOMAIN trie = {<<>>}

TrieExact ==
  pc \in {"insert", "filter", "apply"} =>
    /\ DOMAIN trie = {<<>>} \cup Inserted
    /\ \A c \in Done : c.path \notin mounts =>
         trie[c.path] = IF Beneath(Inserted, c.path) # {} THEN "ignore"
                        ELSE c.kind
    /\ \A d \in pending, c \in Done : ~IsStrictPrefix(d.path, c.path)

NodeValues ==
  \A p \in DOMAIN trie : trie[p] \in {"add", "del", "change", "ignore"}

\* The nodes filter() has not come to: each is beneath one of the queue.
Unvisited == {p \in DOMAIN trie : \E i \in DOMAIN queue : IsPrefix(queue[i], p)}
KeptNodes == {p \in DOMAIN trie \ Unvisited : Kept(p)}

FilterInv ==
  /\ queue \in Seq(DOMAIN trie)
  /\ pc \in {"mount", "diff", "insert", "apply"} => queue = <<>>
  /\ changes \in Seq([path : Paths, kind : {"add", "del", "change"}])
  /\ pc \in {"mount", "diff", "insert"} => changes = <<>>
  /\ pc \in {"filter", "apply"} =>
       /\ \A i, j \in DOMAIN queue : i # j => ~IsPrefix(queue[i], queue[j])
       /\ ToSet(changes) = {[path |-> p, kind |-> trie[p]] : p \in KeptNodes}
       /\ \A i, j \in DOMAIN changes : i # j => changes[i] # changes[j]

ApplyInv ==
  /\ idx \in 1..Len(changes) + 1
  /\ pc \in {"mount", "diff", "insert", "filter"} => idx = 1 /\ newFs = image
  /\ DOMAIN newFs \subseteq Seq(Names)
  /\ IsTree(newFs)
  /\ UnchangedSurvives

\* Where every change is in a directory of the image: a path beneath a change
\* still to be applied is as in the image, any other as in the container.
Agree(f, g, p) == /\ p \in DOMAIN f <=> p \in DOMAIN g
                  /\ p \in DOMAIN f => f[p] = g[p]

ParentsExist == \A c \in Leaves : IsDir(image, Front(c.path))

Awaits(p) == \E i \in idx..Len(changes) : IsPrefix(changes[i].path, p)

MigratedSoFar ==
  ParentsExist /\ pc = "apply" =>
    \A p \in DOMAIN newFs \cup DOMAIN image \cup DOMAIN container :
      ~UnderMount(p) => /\ Awaits(p) => Agree(newFs, image, p)
                        /\ ~Awaits(p) => Agree(newFs, container, p)

PcInv ==
  /\ pc \in {"mount", "diff", "insert", "filter", "apply", "umount", "done"}
  /\ retErr \in BOOLEAN
  /\ pc \in {"umount", "done"} /\ ~retErr /\ ParentsExist => Migrated

IInv == /\ GivenInv /\ TrieShape /\ TrieExact /\ NodeValues /\ FilterInv
        /\ ApplyInv /\ MigratedSoFar /\ PcInv
-----------------------------------------------------------------------------
(* What docker reports.                                                    *)

LEMMA GivenFacts ==
  ASSUME GivenInv
  PROVE  /\ DOMAIN image \subseteq Paths /\ IsTree(image)
         /\ DOMAIN container \subseteq Paths /\ IsTree(container)
         /\ Paths \subseteq Seq(Names)
         /\ mounts \subseteq DOMAIN container
         /\ <<>> \in DOMAIN image \cap DOMAIN container
         /\ image[<<>>] = "dir" /\ container[<<>>] = "dir"
<1>1. ASSUME NEW fs \in Trees PROVE DOMAIN fs \subseteq Paths /\ IsTree(fs)
  BY DEF Trees
<1> QED
  BY <1>1, PathsAssumption DEF GivenInv, IsTree, IsDir

(* Only what is there before or after is reported, and in a directory that *)
(* is there after.                                                         *)
LEMMA ListedFacts ==
  ASSUME GivenInv, NEW c \in Listed
  PROVE  /\ c \in [path : Paths, kind : {"add", "del", "change"}]
         /\ c.path \in Paths /\ c.path \in Seq(Names) /\ c.path # <<>>
         /\ c.path \in ListedPaths
         /\ IsDir(container, Front(c.path))
         /\ c.kind \in {"add", "change"} => c.path \in DOMAIN container
         /\ c.kind = "del" => c.path \notin DOMAIN container
         /\ c.kind = "add" => c.path \notin DOMAIN image
         /\ c.kind \in {"del", "change"} => c.path \in DOMAIN image
         /\ c.kind \in {"add", "del", "change"}
<1>1. /\ DOMAIN image \subseteq Paths /\ IsTree(image)
      /\ DOMAIN container \subseteq Paths /\ IsTree(container)
      /\ Paths \subseteq Seq(Names)
      /\ <<>> \in DOMAIN image \cap DOMAIN container
      /\ image[<<>>] = "dir" /\ container[<<>>] = "dir"
  BY GivenFacts
<1>2. \/ c \in [path : Added, kind : {"add"}]
      \/ c \in [path : Deleted, kind : {"del"}]
      \/ c \in [path : Modified \cup EnclosingDirs, kind : {"change"}]
  BY DEF Listed
<1>3. c.path \in ListedPaths
  BY DEF ListedPaths
<1>4. CASE c \in [path : Added, kind : {"add"}]
  <2>1. c.path \in DOMAIN container \ DOMAIN image /\ c.kind = "add"
    BY <1>4 DEF Added
  <2>2. c.path # <<>>
    BY <1>1, <2>1
  <2>3. IsDir(container, Front(c.path))
    BY <1>1, <2>1, <2>2 DEF IsTree
  <2> QED
    BY <1>1, <1>3, <1>4, <2>1, <2>2, <2>3
<1>5. CASE c \in [path : Deleted, kind : {"del"}]
  <2>1. /\ c.path \in DOMAIN image \ DOMAIN container /\ c.kind = "del"
        /\ IsDir(container, Front(c.path))
    BY <1>5 DEF Deleted
  <2>2. c.path # <<>>
    BY <1>1, <2>1
  <2> QED
    BY <1>1, <1>3, <1>5, <2>1, <2>2
<1>6. CASE c \in [path : Modified \cup EnclosingDirs, kind : {"change"}]
  <2>1. /\ c.path \in DOMAIN image \cap DOMAIN container /\ c.kind = "change"
        /\ c.path # <<>>
    BY <1>1, <1>6 DEF Modified, EnclosingDirs
  <2>2. IsDir(container, Front(c.path))
    BY <1>1, <2>1 DEF IsTree
  <2> QED
    BY <1>1, <1>3, <1>6, <2>1, <2>2
<1> QED
  BY <1>2, <1>4, <1>5, <1>6

(* A path is reported once.                                                *)
LEMMA OneChangeAPath ==
  ASSUME GivenInv, NEW c \in Listed, NEW d \in Listed, c.path = d.path
  PROVE  c = d
<1>1. c.kind = d.kind
  BY ListedFacts
<1>2. /\ c \in [path : Paths, kind : {"add", "del", "change"}]
      /\ d \in [path : Paths, kind : {"add", "del", "change"}]
  BY ListedFacts
<1> QED
  BY <1>1, <1>2

(* The directories on the way to a reported path are reported too, and are *)
(* no mounts.                                                              *)
LEMMA ListedIsClosed ==
  ASSUME GivenInv, NEW c \in Listed, NEW q \in Seq(Names),
         IsStrictPrefix(q, c.path), q # <<>>
  PROVE  /\ q \in ListedPaths /\ q \notin mounts
         /\ IsDir(container, q)
<1>1. /\ c.path \in Seq(Names) /\ c.path # <<>>
      /\ IsDir(container, Front(c.path))
      /\ c.path \in ListedPaths
  BY ListedFacts
<1>2. /\ DOMAIN image \subseteq Seq(Names) /\ IsTree(image)
      /\ DOMAIN container \subseteq Seq(Names) /\ IsTree(container)
  BY GivenFacts
<1>3. Front(c.path) \in Seq(Names) /\ IsPrefix(q, Front(c.path))
  BY <1>1, FrontFacts, StrictPrefixFacts
<1>4. IsDir(container, q)
  <2>1. CASE q = Front(c.path)
    BY <1>1, <2>1
  <2>2. CASE q # Front(c.path)
    <3>1. IsStrictPrefix(q, Front(c.path)) /\ Front(c.path) \in DOMAIN container
      BY <1>1, <1>3, <2>2 DEF IsStrictPrefix, IsDir
    <3> QED
      BY <1>2, <3>1, Ancestors
  <2> QED
    BY <2>1, <2>2
<1>5. q \in ListedPaths
  <2>1. CASE q \in DOMAIN image
    <3>1. PICK x \in Added \cup Deleted \cup Modified :
            x = c.path \/ IsStrictPrefix(c.path, x)
      <4>1. CASE c.path \in EnclosingDirs
        BY <4>1 DEF EnclosingDirs, Beneath
      <4>2. CASE c.path \notin EnclosingDirs
        BY <4>2 DEF Listed
      <4> QED
        BY <4>1, <4>2
    <3>2. x \in Seq(Names)
      BY <1>2 DEF Added, Deleted, Modified
    <3>3. IsStrictPrefix(q, x)
      <4>1. CASE x = c.path
        BY <4>1
      <4>2. CASE IsStrictPrefix(c.path, x)
        <5>1. IsPrefix(c.path, x)
          BY <4>2 DEF IsStrictPrefix
        <5> QED
          BY <1>1, <3>2, <5>1, StrictPrefixTransitive
      <4> QED
        BY <3>1, <4>1, <4>2
    <3>4. q \in EnclosingDirs
      BY <1>4, <2>1, <3>3 DEF EnclosingDirs, Beneath, IsDir
    <3>5. [path |-> q, kind |-> "change"] \in Listed
      BY <3>4 DEF Listed
    <3> QED
      BY <3>5 DEF ListedPaths
  <2>2. CASE q \notin DOMAIN image
    <3>1. q \in Added
      BY <1>4, <2>2 DEF Added, IsDir
    <3>2. [path |-> q, kind |-> "add"] \in Listed
      BY <3>1 DEF Listed
    <3> QED
      BY <3>2 DEF ListedPaths
  <2> QED
    BY <2>1, <2>2
<1>6. q \notin mounts
  BY <1>1 DEF GivenInv, Beneath
<1> QED
  BY <1>4, <1>5, <1>6

(* Nothing is reported beneath a path the container does not have.         *)
LEMMA DeletedIsLeaf ==
  ASSUME GivenInv, NEW p \in Seq(Names), p \notin DOMAIN container, p # <<>>,
         NEW c \in Listed
  PROVE  ~IsStrictPrefix(p, c.path)
  BY ListedIsClosed DEF IsDir
-----------------------------------------------------------------------------
(* The initial states, and what a step that leaves something alone keeps.  *)

LEMMA InitInv == Init => IInv
<1> SUFFICES ASSUME Init PROVE IInv
  OBVIOUS
<1>1. GivenInv
  BY DEF Init, GivenInv
<1>2. /\ DOMAIN image \subseteq Paths /\ Paths \subseteq Seq(Names)
      /\ IsTree(image)
  BY <1>1, GivenFacts
<1>3. DOMAIN trie = {<<>>} /\ trie[<<>>] = "ignore"
  BY DEF Init
<1>4. TrieShape /\ TrieExact /\ NodeValues
  BY <1>3, PathsAssumption DEF Init, TrieShape, TrieExact, NodeValues
<1>5. FilterInv
  BY DEF Init, FilterInv
<1>6. ApplyInv
  <2>1. idx \in 1..Len(changes) + 1
    BY DEF Init
  <2>2. UnchangedSurvives
    BY DEF Init, UnchangedSurvives
  <2> QED
    BY <1>2, <2>1, <2>2 DEF Init, ApplyInv
<1>7. MigratedSoFar /\ PcInv
  BY DEF Init, MigratedSoFar, PcInv
<1> QED
  BY <1>1, <1>4, <1>5, <1>6, <1>7 DEF IInv

LEMMA GivenFrame ==
  ASSUME UNCHANGED given
  PROVE  /\ Listed' = Listed
         /\ ListedPaths' = ListedPaths
         /\ Leaves' = Leaves
         /\ ParentsExist' <=> ParentsExist
         /\ GivenInv' <=> GivenInv
<1>1. image' = image /\ container' = container /\ mounts' = mounts
  BY DEF given
<1>2. /\ Added' = Added /\ Deleted' = Deleted /\ Modified' = Modified
      /\ EnclosingDirs' = EnclosingDirs
  BY <1>1 DEF Added, Deleted, Modified, EnclosingDirs, IsDir
<1>3. Listed' = Listed
  BY <1>2 DEF Listed
<1>4. ListedPaths' = ListedPaths
  BY <1>3 DEF ListedPaths
<1>5. Leaves' = Leaves
  BY <1>1, <1>3, <1>4 DEF Leaves
<1>6. ParentsExist' <=> ParentsExist
  BY <1>1, <1>5 DEF ParentsExist, IsDir
<1>7. GivenInv' <=> GivenInv
  BY <1>1, <1>4 DEF GivenInv, SameKinds, IsDir
<1> QED
  BY <1>3, <1>4, <1>5, <1>6, <1>7

(* pc does not go back.                                                    *)
LEMMA TrieFrame ==
  ASSUME TrieShape, TrieExact, NodeValues,
         UNCHANGED <<given, pending, trie>>,
         \/ pc' \in {"umount", "done"}
         \/ pc = "mount" /\ pc' = "diff"
         \/ /\ pc' \in {"filter", "apply"} /\ pending = {}
            /\ pc \in {"insert", "filter", "apply"}
  PROVE  TrieShape' /\ TrieExact' /\ NodeValues'
<1>1. UNCHANGED given /\ mounts' = mounts
  BY DEF given
<1>2. Listed' = Listed
  BY <1>1, GivenFrame
<1>3. Done' = Done /\ Inserted' = Inserted
  BY <1>1, <1>2 DEF Done, Inserted
<1>4. TrieShape' /\ NodeValues'
  BY <1>2 DEF TrieShape, NodeValues
<1>5. TrieExact'
  BY <1>1, <1>3 DEF TrieExact
<1> QED
  BY <1>4, <1>5

LEMMA FilterFrame ==
  ASSUME FilterInv, UNCHANGED <<trie, queue, changes>>,
         \/ pc' \in {"umount", "done"}
         \/ pc = "mount" /\ pc' = "diff"
         \/ pc = "diff" /\ pc' = "insert"
         \/ pc = "filter" /\ pc' = "apply" /\ queue = <<>>
         \/ pc = "apply" /\ pc' = "apply"
  PROVE  FilterInv'
<1>1. KeptNodes' = KeptNodes /\ Unvisited' = Unvisited
  BY DEF KeptNodes, Unvisited, Kept
<1> QED
  BY <1>1 DEF FilterInv

LEMMA ApplyFrame ==
  ASSUME ApplyInv, UNCHANGED <<given, newFs, idx>>,
         changes' = changes \/ idx = 1,
         Len(changes') \in Nat,
         \/ pc' \in {"umount", "done"}
         \/ pc \in {"mount", "diff", "insert", "filter"}
  PROVE  ApplyInv'
<1>1. image' = image /\ container' = container
  BY DEF given
<1>2. IsTree(newFs)' /\ UnchangedSurvives'
  BY <1>1 DEF ApplyInv, IsTree, IsDir, UnchangedSurvives
<1>3. idx' \in 1..Len(changes') + 1
  BY DEF ApplyInv
<1>4. pc' \in {"mount", "diff", "insert", "filter"} =>
        idx' = 1 /\ newFs' = image'
  BY <1>1 DEF ApplyInv
<1> QED
  BY <1>2, <1>3, <1>4 DEF ApplyInv
-----------------------------------------------------------------------------
(* The steps before and after the trie is walked and the changes applied.  *)

LEMMA LenChanges == ASSUME FilterInv PROVE Len(changes) \in Nat
  BY DEF FilterInv

LEMMA MountStep == ASSUME IInv, MountRootFs PROVE IInv'
<1> USE DEF IInv, MountRootFs
<1>1. GivenInv' /\ TrieShape' /\ TrieExact' /\ NodeValues'
  BY GivenFrame, TrieFrame
<1>2. FilterInv'
  BY FilterFrame
<1>3. ApplyInv'
  BY LenChanges, ApplyFrame
<1>4. MigratedSoFar' /\ PcInv'
  BY DEF MigratedSoFar, PcInv
<1> QED
  BY <1>1, <1>2, <1>3, <1>4

LEMMA DiffStep == ASSUME IInv, ContainerDiff PROVE IInv'
<1> USE DEF IInv, ContainerDiff
<1>1. CASE pc' = "insert"
  <2>1. GivenInv' /\ Listed' = Listed
    BY GivenFrame
  <2>2. pending' = Listed /\ UNCHANGED trie /\ DOMAIN trie = {<<>>}
    BY <1>1 DEF TrieShape
  <2>3. Done' = {} /\ Inserted' = {}
    BY <2>1, <2>2 DEF Done, Inserted
  <2>4. TrieShape' /\ TrieExact' /\ NodeValues'
    BY <1>1, <2>1, <2>2, <2>3 DEF TrieShape, TrieExact, NodeValues
  <2>5. FilterInv' /\ ApplyInv'
    BY <1>1, LenChanges, FilterFrame, ApplyFrame
  <2> QED
    BY <1>1, <2>1, <2>4, <2>5 DEF MigratedSoFar, PcInv
<1>2. CASE pc' = "umount"
  <2>1. UNCHANGED pending /\ retErr' = TRUE
    BY <1>2
  <2>2. GivenInv' /\ TrieShape' /\ TrieExact' /\ NodeValues'
    BY <1>2, <2>1, GivenFrame, TrieFrame
  <2>3. FilterInv' /\ ApplyInv'
    BY <1>2, LenChanges, FilterFrame, ApplyFrame
  <2> QED
    BY <1>2, <2>1, <2>2, <2>3 DEF MigratedSoFar, PcInv
<1> QED
  BY <1>1, <1>2

LEMMA FailStep == ASSUME IInv, ApplyFails PROVE IInv'
<1> USE DEF IInv, ApplyFails
<1>1. GivenInv' /\ TrieShape' /\ TrieExact' /\ NodeValues'
  BY GivenFrame, TrieFrame
<1>2. FilterInv' /\ ApplyInv'
  BY LenChanges, FilterFrame, ApplyFrame
<1> QED
  BY <1>1, <1>2 DEF MigratedSoFar, PcInv

LEMMA MigratedFrame ==
  ASSUME UNCHANGED <<given, newFs>>
  PROVE  Migrated' <=> Migrated
  BY DEF given, Migrated, UnderMount

LEMMA UmountStep == ASSUME IInv, UmountRootFs PROVE IInv'
<1> USE DEF IInv, UmountRootFs
<1>1. GivenInv' /\ TrieShape' /\ TrieExact' /\ NodeValues'
  BY GivenFrame, TrieFrame
<1>2. FilterInv' /\ ApplyInv'
  BY LenChanges, FilterFrame, ApplyFrame
<1>3. PcInv'
  BY GivenFrame, MigratedFrame DEF PcInv
<1> QED
  BY <1>1, <1>2, <1>3 DEF MigratedSoFar

(* All changes applied, no path awaits one.                                *)
LEMMA EndStep == ASSUME IInv, EndApply PROVE IInv'
<1> USE DEF IInv, EndApply
<1>1. GivenInv' /\ TrieShape' /\ TrieExact' /\ NodeValues'
  BY GivenFrame, TrieFrame
<1>2. FilterInv' /\ ApplyInv'
  BY LenChanges, FilterFrame, ApplyFrame
<1>3. ASSUME ParentsExist PROVE Migrated
  <2>1. idx..Len(changes) = {}
    BY LenChanges DEF ApplyInv
  <2>2. \A p : ~Awaits(p)
    BY <2>1 DEF Awaits
  <2>3. \A p \in DOMAIN newFs \cup DOMAIN image \cup DOMAIN container :
          ~UnderMount(p) => Agree(newFs, container, p)
    BY <1>3, <2>2 DEF MigratedSoFar
  <2> QED
    BY <2>3 DEF Migrated, Agree
<1>4. PcInv'
  BY <1>3, GivenFrame, MigratedFrame DEF PcInv
<1> QED
  BY <1>1, <1>2, <1>4 DEF MigratedSoFar

-----------------------------------------------------------------------------
(* The trie.                                                               *)

(* With the directories of c in the trie and nothing beneath c, inserting  *)
(* c adds one node.                                                        *)
LEMMA InsertStep == ASSUME IInv, NEW c \in pending, Insert(c) PROVE IInv'
<1> USE DEF IInv
<1>0. /\ pc = "insert" /\ pc' = "insert" /\ c \in Listed
      /\ ~ \E d \in pending : IsStrictPrefix(d.path, c.path)
      /\ pending' = pending \ {c}
      /\ trie' = IF c.path \in mounts THEN trie
                 ELSE InsertPath(trie, c.path, c.kind)
      /\ UNCHANGED given /\ mounts' = mounts
      /\ UNCHANGED <<newFs, queue, changes, idx, retErr>>
  BY DEF Insert, TrieShape, given
<1>1. /\ c.path \in Paths /\ c.path \in Seq(Names) /\ c.path # <<>>
      /\ c.kind \in {"add", "del", "change"} /\ c.path \in ListedPaths
  BY <1>0, ListedFacts
<1>2. GivenInv' /\ Listed' = Listed
  BY <1>0, GivenFrame
<1>3. Done' = Done \cup {c} /\ c \notin Done
  BY <1>0, <1>2 DEF Done
<1>4. /\ DOMAIN trie = {<<>>} \cup Inserted
      /\ \A e \in Done : e.path \notin mounts =>
           trie[e.path] = IF Beneath(Inserted, e.path) # {} THEN "ignore"
                          ELSE e.kind
      /\ \A d \in pending, e \in Done : ~IsStrictPrefix(d.path, e.path)
      /\ trie[<<>>] = "ignore"
  BY <1>0 DEF TrieExact, TrieShape
<1>5. \A d \in pending', e \in Done' : ~IsStrictPrefix(d.path, e.path)
  BY <1>0, <1>3, <1>4
<1>6. ASSUME NEW e \in Done
      PROVE  e \in Listed /\ e.path \in Paths /\ e.path \in Seq(Names)
             /\ e.path # <<>>
  BY ListedFacts DEF Done
<1>7. FilterInv' /\ ApplyInv'
  <2>1. queue = <<>> /\ changes = <<>>
    BY <1>0 DEF FilterInv
  <2>2. FilterInv'
    <3>1. queue' \in Seq(DOMAIN trie')
      BY <1>0, <2>1
    <3> QED
      BY <1>0, <2>1, <3>1 DEF FilterInv
  <2> QED
    BY <1>0, <2>2, LenChanges, ApplyFrame
<1>8. CASE c.path \in mounts
  <2>1. Inserted' = Inserted
    BY <1>0, <1>3, <1>8 DEF Inserted
  <2>2. TrieExact'
    BY <1>0, <1>3, <1>4, <1>5, <1>8, <2>1 DEF TrieExact
  <2>3. TrieShape' /\ NodeValues'
    BY <1>0, <1>2, <1>8 DEF TrieShape, NodeValues
  <2> QED
    BY <1>0, <1>2, <1>7, <2>2, <2>3 DEF MigratedSoFar, PcInv
<1>9. CASE c.path \notin mounts
  <2>1. Inserted' = Inserted \cup {c.path}
    BY <1>0, <1>3, <1>9 DEF Inserted
  <2>2. c.path \notin DOMAIN trie
    <3>1. ASSUME NEW e \in Done, e.path = c.path PROVE FALSE
      BY <1>0, <1>3, <1>6, <3>1, OneChangeAPath
    <3> QED
      BY <1>1, <1>4, <3>1 DEF Inserted
  <2>3. ASSUME NEW q \in Seq(Names), IsStrictPrefix(q, c.path)
        PROVE  q \in DOMAIN trie
    <3>1. CASE q = <<>>
      BY <1>4, <3>1
    <3>2. CASE q # <<>>
      <4>1. q \in ListedPaths /\ q \notin mounts
        BY <1>0, <2>3, <3>2, ListedIsClosed
      <4>2. PICK d \in Listed : d.path = q
        BY <4>1 DEF ListedPaths
      <4>3. d \in Done
        BY <1>0, <2>3, <4>2 DEF Done
      <4> QED
        BY <1>4, <4>1, <4>2, <4>3 DEF Inserted
    <3> QED
      BY <3>1, <3>2
  <2>4. Prefixes(c.path) = {q \in Seq(Names) : IsPrefix(q, c.path)}
    BY <1>1, PrefixesFacts
  <2>5. DOMAIN trie' = DOMAIN trie \cup {c.path}
    <3>1. DOMAIN trie' = DOMAIN trie \cup Prefixes(c.path)
      BY <1>0, <1>9 DEF InsertPath
    <3>2. \A q \in Prefixes(c.path) : q = c.path \/ q \in DOMAIN trie
      BY <2>3, <2>4 DEF IsStrictPrefix
    <3>3. c.path \in Prefixes(c.path)
      BY <1>1, <2>4, PrefixReflexive
    <3> QED
      BY <3>1, <3>2, <3>3
  <2>6. /\ trie'[c.path] = c.kind
        /\ \A q \in DOMAIN trie :
             trie'[q] = IF IsPrefix(q, c.path) THEN "ignore" ELSE trie[q]
    <3>1. \A q \in DOMAIN trie' :
            trie'[q] = IF q \notin DOMAIN trie THEN c.kind
                       ELSE IF IsPrefix(q, c.path) THEN "ignore"
                       ELSE trie[q]
      BY <1>0, <1>9 DEF InsertPath
    <3> QED
      BY <2>2, <2>5, <3>1
  <2>7. Beneath(Inserted', c.path) = {}
    <3>1. \A e \in Done : ~IsStrictPrefix(c.path, e.path)
      BY <1>4
    <3>2. ~IsStrictPrefix(c.path, c.path)
      BY DEF IsStrictPrefix
    <3> QED
      BY <2>1, <3>1, <3>2 DEF Inserted, Beneath
  <2>8. ASSUME NEW e \in Done, e.path \notin mounts
        PROVE  trie'[e.path] = IF Beneath(Inserted', e.path) # {} THEN "ignore"
                               ELSE e.kind
    <3>1. e.path \in DOMAIN trie /\ e.path # c.path
      BY <1>4, <2>2, <2>8 DEF Inserted
    <3>2. CASE IsPrefix(e.path, c.path)
      <4>1. c.path \in Beneath(Inserted', e.path)
        BY <2>1, <3>1, <3>2 DEF Beneath, IsStrictPrefix
      <4> QED
        BY <2>6, <3>1, <3>2, <4>1
    <3>3. CASE ~IsPrefix(e.path, c.path)
      <4>1. Beneath(Inserted', e.path) = Beneath(Inserted, e.path)
        BY <2>1, <3>3 DEF Beneath, IsStrictPrefix
      <4>2. trie'[e.path] = trie[e.path]
        BY <2>6, <3>1, <3>3
      <4> QED
        BY <1>4, <2>8, <4>1, <4>2
    <3> QED
      BY <3>2, <3>3
  <2>9. TrieExact'
    <3>1. DOMAIN trie' = {<<>>} \cup Inserted'
      BY <1>4, <2>1, <2>5
    <3>2. ASSUME NEW e \in Done', e.path \notin mounts'
          PROVE  trie'[e.path] =
                   IF Beneath(Inserted', e.path) # {} THEN "ignore" ELSE e.kind
      BY <1>0, <1>3, <2>6, <2>7, <2>8, <3>2
    <3> QED
      BY <1>5, <3>1, <3>2 DEF TrieExact
  <2>10. TrieShape'
    <3>1. Front(c.path) \in DOMAIN trie
      BY <1>1, <2>3, FrontFacts
    <3>2. trie'[<<>>] = "ignore"
      BY <1>1, <1>4, <2>6, RootIsPrefix
    <3> QED
      BY <1>0, <1>1, <1>2, <2>5, <3>1, <3>2 DEF TrieShape
  <2>11. NodeValues'
    BY <1>1, <2>5, <2>6 DEF NodeValues
  <2> QED
    BY <1>0, <1>2, <1>7, <2>9, <2>10, <2>11 DEF MigratedSoFar, PcInv
<1> QED
  BY <1>8, <1>9
-----------------------------------------------------------------------------
(* The walk of the trie.                                                   *)

(* SetToSeqs lists every element once.                                     *)
LEMMA SetToSeqsFacts ==
  ASSUME NEW C, IsFiniteSet(C), NEW s \in SetToSeqs(C)
  PROVE  /\ s \in Seq(C)
         /\ \A x \in C : \E i \in 1..Len(s) : s[i] = x
         /\ \A i, j \in 1..Len(s) : i # j => s[i] # s[j]
<1> DEFINE n == Cardinality(C)
           D == 1..n
<1>1. n \in Nat
  BY FS_CardinalityType
<1>2. s \in [D -> C] /\ \A i, j \in D : i # j => s[i] # s[j]
  BY DEF SetToSeqs
<1>3. s \in Seq(C) /\ Len(s) = n
  <2> HIDE DEF n
  <2> QED
    BY <1>1, <1>2
<1>4. IsFiniteSet(D) /\ Cardinality(D) = n
  <2> HIDE DEF n
  <2>1. IsFiniteSet(1..n) /\ Cardinality(1..n) = IF 1 > n THEN 0 ELSE n - 1 + 1
    BY <1>1, FS_Interval
  <2> QED
    BY <1>1, <2>1
<1>5. s \in Injection(D, C)
  BY <1>2 DEF Injection, IsInjective
<1>6. s \in Surjection(D, C)
  BY <1>4, <1>5, FS_Injection
<1>7. \A x \in C : \E i \in D : s[i] = x
  BY <1>6 DEF Surjection
<1> QED
  BY <1>2, <1>3, <1>7

(* Every prefix of a node is a node.                                       *)
LEMMA TrieIsClosed ==
  ASSUME TrieShape, NEW q \in DOMAIN trie, NEW p \in Seq(Names),
         IsPrefix(p, q)
  PROVE  p \in DOMAIN trie
<1> SUFFICES ASSUME p \notin DOMAIN trie PROVE FALSE
  OBVIOUS
<1> DEFINE S == Seq(Names) \ DOMAIN trie
<1>1. p \in S /\ q \notin S /\ q \in Seq(Names)
  BY PathsAssumption DEF TrieShape
<1>2. PICK r \in Seq(Names) :
        /\ r \in S
        /\ \E t \in Seq(Names) : /\ t # <<>> /\ Front(t) = r
                                 /\ IsPrefix(t, q) /\ t \notin S
  <2> HIDE DEF S
  <2> QED
    BY <1>1, LongestPrefix
<1> QED
  BY <1>2 DEF TrieShape

LEMMA StartFilterStep == ASSUME IInv, StartFilter PROVE IInv'
<1> USE DEF IInv, StartFilter
<1>1. GivenInv' /\ TrieShape' /\ TrieExact' /\ NodeValues'
  BY GivenFrame, TrieFrame
<1>2. DOMAIN trie' \subseteq Seq(Names) /\ <<>> \in DOMAIN trie'
  BY <1>1, PathsAssumption DEF TrieShape
<1>3. /\ queue' \in Seq(DOMAIN trie') /\ Len(queue') = 1
      /\ DOMAIN queue' = {1} /\ queue'[1] = <<>>
  BY <1>2
<1>4. KeptNodes' = {}
  <2>1. \A q \in DOMAIN trie' : IsPrefix(queue'[1], q)
    BY <1>2, <1>3, RootIsPrefix
  <2> QED
    BY <1>3, <2>1 DEF KeptNodes, Unvisited
<1>5. FilterInv'
  <2>1. changes' = <<>> /\ changes' = changes
    BY DEF FilterInv
  <2>2. DOMAIN changes' = {}
    BY <2>1
  <2>3. ToSet(changes') = {}
    BY <2>2 DEF ToSet
  <2>4. ToSet(changes') =
          {[path |-> q, kind |-> trie'[q]] : q \in KeptNodes'}
    BY <1>4, <2>3
  <2> QED
    BY <1>3, <2>1, <2>2, <2>4 DEF FilterInv
<1>6. ApplyInv'
  BY LenChanges, ApplyFrame
<1> QED
  BY <1>1, <1>5, <1>6 DEF MigratedSoFar, PcInv

(* Visiting p replaces it in the queue by its children, which are all that *)
(* is left beneath it: breadth first or not, no node is visited twice, and *)
(* none is left out.                                                       *)
LEMMA VisitStep == ASSUME IInv, VisitNode PROVE IInv'
<1> USE DEF IInv
<1> DEFINE p == Head(queue)
           rest == Tail(queue)
           C == Children(p)
<1>0. /\ pc = "filter" /\ pc' = pc /\ queue # <<>> /\ UNCHANGED given
      /\ changes' = IF Kept(p)
                    THEN Append(changes, [path |-> p, kind |-> trie[p]])
                    ELSE changes
      /\ \E siblings \in SetToSeqs(C) : queue' = rest \o siblings
      /\ UNCHANGED <<newFs, pending, trie, idx, retErr>>
  BY DEF VisitNode
<1>1. PICK siblings \in SetToSeqs(C) : queue' = rest \o siblings
  BY <1>0
<1>2. /\ queue \in Seq(DOMAIN trie)
      /\ \A i, j \in DOMAIN queue : i # j => ~IsPrefix(queue[i], queue[j])
      /\ changes \in Seq([path : Paths, kind : {"add", "del", "change"}])
      /\ ToSet(changes) = {[path |-> q, kind |-> trie[q]] : q \in KeptNodes}
      /\ \A i, j \in DOMAIN changes : i # j => changes[i] # changes[j]
  BY <1>0 DEF FilterInv
<1>3. DOMAIN trie \subseteq Seq(Names) /\ DOMAIN trie \subseteq Paths
  BY PathsAssumption DEF TrieShape
<1>4. /\ p \in DOMAIN trie /\ rest \in Seq(DOMAIN trie)
      /\ Len(rest) = Len(queue) - 1 /\ p = queue[1]
      /\ \A i \in 1..Len(rest) : rest[i] = queue[i + 1]
  BY <1>0, <1>2, HeadTailProperties
<1>5. /\ IsFiniteSet(C) /\ C \subseteq DOMAIN trie
      /\ \A q \in C : /\ q \in Seq(Names) /\ q # <<>> /\ Front(q) = p
                      /\ Len(q) = Len(p) + 1
                      /\ IsStrictPrefix(p, q)
  <2>1. C \subseteq DOMAIN trie /\ \A q \in C : q # <<>> /\ Front(q) = p
    BY DEF Children
  <2>2. IsFiniteSet(C)
    BY <1>3, <2>1, PathsAssumption, FS_Subset
  <2>3. ASSUME NEW q \in C
        PROVE  /\ q \in Seq(Names) /\ Len(q) = Len(p) + 1
               /\ IsStrictPrefix(p, q)
    <3>1. q \in Seq(Names) /\ q # <<>> /\ Front(q) = p
      BY <1>3, <2>1
    <3>2. Len(p) = Len(q) - 1 /\ IsStrictPrefix(p, q)
      BY <3>1, FrontFacts
    <3>3. Len(q) \in Nat
      BY <3>1
    <3> QED
      BY <3>1, <3>2, <3>3
  <2> QED
    BY <2>1, <2>2, <2>3
<1>6. /\ siblings \in Seq(C)
      /\ \A x \in C : \E i \in 1..Len(siblings) : siblings[i] = x
      /\ \A i, j \in 1..Len(siblings) : i # j => siblings[i] # siblings[j]
  BY <1>1, <1>5, SetToSeqsFacts
<1> DEFINE m == Len(rest)
           k == Len(siblings)
<1>7. siblings \in Seq(DOMAIN trie) /\ m \in Nat /\ k \in Nat
  BY <1>4, <1>5, <1>6
<1>8. /\ queue' \in Seq(DOMAIN trie) /\ Len(queue') = m + k
      /\ \A i \in 1..m + k :
           queue'[i] = IF i <= m THEN rest[i] ELSE siblings[i - m]
  BY <1>1, <1>4, <1>7, ConcatProperties
<1>9. DOMAIN queue' = 1..m + k /\ DOMAIN queue = 1..m + 1
  <2>1. Len(queue) \in Nat
    BY <1>2
  <2> QED
    BY <1>2, <1>4, <1>8, <2>1
<1> HIDE DEF p, rest, C, m, k
<1>10. \A i \in 1..m : /\ rest[i] \in Seq(Names) /\ rest[i] \in DOMAIN trie
                       /\ ~IsPrefix(p, rest[i]) /\ ~IsPrefix(rest[i], p)
  <2> SUFFICES ASSUME NEW i \in 1..m
               PROVE  /\ rest[i] \in Seq(Names) /\ rest[i] \in DOMAIN trie
                      /\ ~IsPrefix(p, rest[i]) /\ ~IsPrefix(rest[i], p)
    OBVIOUS
  <2>1. 1 \in DOMAIN queue /\ i + 1 \in DOMAIN queue /\ 1 # i + 1
    BY <1>7, <1>9
  <2>2. rest[i] = queue[i + 1] /\ p = queue[1]
    BY <1>4 DEF m
  <2>3. queue[i + 1] \in DOMAIN trie
    BY <1>2, <2>1
  <2> QED
    BY <1>2, <1>3, <2>1, <2>2, <2>3
<1>11. \A i, j \in 1..m : i # j => ~IsPrefix(rest[i], rest[j])
  <2> SUFFICES ASSUME NEW i \in 1..m, NEW j \in 1..m, i # j
               PROVE  ~IsPrefix(rest[i], rest[j])
    OBVIOUS
  <2>1. i + 1 \in DOMAIN queue /\ j + 1 \in DOMAIN queue /\ i + 1 # j + 1
    BY <1>7, <1>9
  <2>2. rest[i] = queue[i + 1] /\ rest[j] = queue[j + 1]
    BY <1>4 DEF m
  <2> QED
    BY <1>2, <2>1, <2>2
<1>12. p \in Seq(Names)
  BY <1>3, <1>4
<1>13. ASSUME NEW i \in 1..m, NEW q \in C
       PROVE  ~IsPrefix(rest[i], q) /\ ~IsPrefix(q, rest[i])
  <2>1. /\ rest[i] \in Seq(Names)
        /\ ~IsPrefix(p, rest[i]) /\ ~IsPrefix(rest[i], p)
    BY <1>10
  <2>2. /\ q \in Seq(Names) /\ Front(q) = p /\ IsPrefix(p, q)
    BY <1>5 DEF IsStrictPrefix
  <2>3. ASSUME IsPrefix(rest[i], q) PROVE FALSE
    <3>1. IsStrictPrefix(rest[i], q)
      BY <2>1, <2>2, <2>3 DEF IsStrictPrefix
    <3> QED
      BY <2>1, <2>2, <3>1, StrictPrefixFacts
  <2>4. ASSUME IsPrefix(q, rest[i]) PROVE FALSE
    BY <1>12, <2>1, <2>2, <2>4, PrefixTransitive
  <2> QED
    BY <2>3, <2>4
<1>14. ASSUME NEW q \in C, NEW r \in C, IsPrefix(q, r) PROVE q = r
  <2>1. Len(q) <= Len(r) /\ Len(r) <= Len(q)
    <3>1. Len(q) = Len(r) /\ Len(q) \in Nat
      BY <1>5
    <3> QED
      BY <3>1
  <2> QED
    BY <1>5, <1>14, <2>1, PrefixAntisymmetric
<1>15. \A i, j \in DOMAIN queue' : i # j => ~IsPrefix(queue'[i], queue'[j])
  <2> SUFFICES ASSUME NEW i \in 1..m + k, NEW j \in 1..m + k, i # j
               PROVE  ~IsPrefix(queue'[i], queue'[j])
    BY <1>9
  <2>0. \A l \in 1..m + k : l > m => /\ l - m \in 1..k
                                     /\ siblings[l - m] \in C
    BY <1>6, <1>7 DEF k
  <2>1. CASE i <= m /\ j <= m
    BY <1>7, <1>8, <1>11, <2>1
  <2>2. CASE i <= m /\ j > m
    <3>1. /\ i \in 1..m /\ queue'[i] = rest[i]
          /\ queue'[j] = siblings[j - m] /\ siblings[j - m] \in C
      BY <1>7, <1>8, <2>0, <2>2
    <3> QED
      BY <1>13, <3>1
  <2>3. CASE i > m /\ j <= m
    <3>1. j \in 1..m /\ queue'[j] = rest[j]
      BY <1>7, <1>8, <2>3
    <3>2. queue'[i] = siblings[i - m] /\ siblings[i - m] \in C
      BY <1>7, <1>8, <2>0, <2>3
    <3> QED
      BY <1>13, <3>1, <3>2
  <2>4. CASE i > m /\ j > m
    <3>1. /\ queue'[i] = siblings[i - m] /\ siblings[i - m] \in C
          /\ i - m \in 1..k
      BY <1>7, <1>8, <2>0, <2>4
    <3>2. /\ queue'[j] = siblings[j - m] /\ siblings[j - m] \in C
          /\ j - m \in 1..k
      BY <1>7, <1>8, <2>0, <2>4
    <3>3. i - m # j - m
      BY <1>7
    <3>4. siblings[i - m] # siblings[j - m]
      BY <1>6, <3>1, <3>2, <3>3 DEF k
    <3> QED
      BY <1>14, <3>1, <3>2, <3>4
  <2> QED
    BY <1>7, <2>1, <2>2, <2>3, <2>4
<1>16. ASSUME NEW x \in DOMAIN trie
       PROVE  x \in Unvisited' <=> x \in Unvisited /\ x # p
  <2>1. x \in Seq(Names)
    BY <1>3
  <2>2. x \in Unvisited <=> \E i \in 1..m + 1 : IsPrefix(queue[i], x)
    BY <1>9 DEF Unvisited
  <2>3. x \in Unvisited' <=> \E i \in 1..m + k : IsPrefix(queue'[i], x)
    BY <1>0, <1>9 DEF Unvisited
  <2>4. ASSUME x \in Unvisited' PROVE x \in Unvisited /\ x # p
    <3>1. PICK i \in 1..m + k : IsPrefix(queue'[i], x)
      BY <2>3, <2>4
    <3>2. CASE i <= m
      <4>1. i \in 1..m /\ IsPrefix(rest[i], x)
        BY <1>7, <1>8, <3>1, <3>2
      <4>2. x # p
        BY <1>10, <4>1
      <4>3. i + 1 \in 1..m + 1 /\ queue[i + 1] = rest[i]
        BY <1>4, <1>7, <4>1 DEF m
      <4> QED
        BY <2>2, <4>1, <4>2, <4>3
    <3>3. CASE i > m
      <4>1. i - m \in 1..k /\ IsPrefix(siblings[i - m], x)
        BY <1>7, <1>8, <3>1, <3>3
      <4>2. siblings[i - m] \in C
        BY <1>6, <4>1 DEF k
      <4>3. PICK q \in C : IsPrefix(q, x)
        BY <4>1, <4>2
      <4>4. /\ q \in Seq(Names) /\ IsPrefix(p, q) /\ Len(q) = Len(p) + 1
        BY <1>5 DEF IsStrictPrefix
      <4>5. IsPrefix(p, x)
        BY <1>12, <2>1, <4>3, <4>4, PrefixTransitive
      <4>6. x # p
        <5>1. Len(q) <= Len(x)
          BY <2>1, <4>3, <4>4, PrefixByNames
        <5>2. Len(p) \in Nat
          BY <1>12
        <5> QED
          BY <4>4, <5>1, <5>2
      <4>7. 1 \in 1..m + 1 /\ queue[1] = p
        BY <1>4, <1>7
      <4> QED
        BY <2>2, <4>5, <4>6, <4>7
    <3> QED
      BY <1>7, <3>2, <3>3
  <2>5. ASSUME x \in Unvisited, x # p PROVE x \in Unvisited'
    <3>1. PICK i \in 1..m + 1 : IsPrefix(queue[i], x)
      BY <2>2, <2>5
    <3>2. CASE i = 1
      <4>1. IsPrefix(p, x) /\ IsStrictPrefix(p, x)
        BY <1>4, <2>5, <3>1, <3>2 DEF IsStrictPrefix
      <4>2. Len(p) < Len(x) /\ Len(p) \in Nat /\ Len(x) \in Nat
        BY <1>12, <2>1, <4>1, StrictPrefixFacts
      <4> DEFINE t == SubSeq(x, 1, Len(p) + 1)
      <4>3. t # <<>> /\ Front(t) = SubSeq(x, 1, Len(p))
        <5>1. Len(p) \in 0..Len(x) - 1
          BY <4>2
        <5> QED
          BY <2>1, <5>1, FrontOfSubSeq
      <4>4. SubSeq(x, 1, Len(p)) = p
        <5>1. SubSeq(p, 1, Len(p)) = p
          BY <1>12, SubSeqFull
        <5> QED
          BY <4>1, <5>1 DEF IsPrefix
      <4>5. t \in Seq(Names) /\ IsPrefix(t, x)
        <5>1. /\ t \in Seq(Names) /\ Len(t) = Len(p) + 1
              /\ \A j \in 1..Len(p) + 1 : t[j] = x[j]
          BY <2>1, <4>2, SubSeqPath
        <5>2. Len(t) <= Len(x) /\ \A j \in 1..Len(t) : t[j] = x[j]
          BY <4>2, <5>1
        <5> HIDE DEF t
        <5> QED
          BY <2>1, <5>1, <5>2, PrefixByNames
      <4> HIDE DEF t
      <4>6. t \in DOMAIN trie
        BY <4>5, TrieIsClosed
      <4>7. t \in C
        BY <4>3, <4>4, <4>6 DEF C, Children
      <4>8. PICK j \in 1..k : siblings[j] = t
        BY <1>6, <4>7 DEF k
      <4>9. m + j \in 1..m + k /\ queue'[m + j] = t
        BY <1>7, <1>8, <4>8
      <4> QED
        BY <2>3, <4>5, <4>9
    <3>3. CASE i # 1
      <4>1. i - 1 \in 1..m /\ i - 1 \in 1..m + k /\ (i - 1) + 1 = i
        BY <1>7, <3>3
      <4>2. rest[i - 1] = queue[i]
        BY <1>4, <4>1 DEF m
      <4>3. queue'[i - 1] = queue[i]
        BY <1>8, <4>1, <4>2
      <4> QED
        BY <2>3, <3>1, <4>1, <4>3
    <3> QED
      BY <3>2, <3>3
  <2> QED
    BY <2>4, <2>5
<1>17. p \in Unvisited
  <2>1. 1 \in DOMAIN queue /\ IsPrefix(queue[1], p)
    BY <1>4, <1>7, <1>9, <1>12, PrefixReflexive
  <2> QED
    BY <1>4, <2>1 DEF Unvisited
<1>18. KeptNodes' = IF Kept(p) THEN KeptNodes \cup {p} ELSE KeptNodes
  <2>1. KeptNodes' = {q \in DOMAIN trie \ Unvisited' : trie[q] # "ignore"}
    BY <1>0 DEF KeptNodes, Kept
  <2>2. KeptNodes = {q \in DOMAIN trie \ Unvisited : trie[q] # "ignore"}
    BY DEF KeptNodes, Kept
  <2>3. Kept(p) <=> trie[p] # "ignore"
    BY DEF Kept
  <2> QED
    BY <1>4, <1>16, <2>1, <2>2, <2>3
<1>19. ASSUME Kept(p)
       PROVE  [path |-> p, kind |-> trie[p]]
                \in [path : Paths, kind : {"add", "del", "change"}]
  <2>1. trie[p] \in {"add", "del", "change"}
    BY <1>4, <1>19 DEF Kept, NodeValues
  <2> QED
    BY <1>3, <1>4, <2>1
<1>20. ASSUME Kept(p)
       PROVE  /\ Len(changes') = Len(changes) + 1
              /\ Len(changes) \in Nat
              /\ \A i \in 1..Len(changes) : changes'[i] = changes[i]
              /\ changes'[Len(changes) + 1] = [path |-> p, kind |-> trie[p]]
              /\ DOMAIN changes' = 1..Len(changes) + 1
              /\ changes' \in
                   Seq([path : Paths, kind : {"add", "del", "change"}])
  <2>1. changes' = Append(changes, [path |-> p, kind |-> trie[p]])
    BY <1>0, <1>20
  <2> HIDE DEF IInv
  <2> DEFINE R == [path : Paths, kind : {"add", "del", "change"}]
             e == [path |-> p, kind |-> trie[p]]
  <2>2. e \in R /\ changes \in Seq(R) /\ changes' = Append(changes, e)
    BY <1>2, <1>19, <1>20, <2>1
  <2> HIDE DEF R, e
  <2>3. /\ changes' \in Seq(R) /\ Len(changes') = Len(changes) + 1
        /\ \A i \in 1..Len(changes) : changes'[i] = changes[i]
        /\ changes'[Len(changes) + 1] = e
    BY <2>2, AppendProperties
  <2>4. DOMAIN changes' = 1..Len(changes) + 1 /\ Len(changes) \in Nat
    BY <2>2, <2>3
  <2> QED
    BY <2>3, <2>4 DEF R, e
<1>21. ToSet(changes') =
         {[path |-> q, kind |-> trie'[q]] : q \in KeptNodes'}
  <2>1. CASE Kept(p)
    <3>1. DOMAIN changes = 1..Len(changes)
      BY <1>2
    <3>2. ToSet(changes') = ToSet(changes)
                              \cup {[path |-> p, kind |-> trie[p]]}
      BY <1>20, <2>1, <3>1 DEF ToSet
    <3> QED
      BY <1>0, <1>2, <1>18, <2>1, <3>2
  <2>2. CASE ~Kept(p)
    BY <1>0, <1>2, <1>18, <2>2
  <2> QED
    BY <2>1, <2>2
<1>22. \A i, j \in DOMAIN changes' : i # j => changes'[i] # changes'[j]
  <2>1. CASE Kept(p)
    <3>1. p \notin KeptNodes
      BY <1>17 DEF KeptNodes
    <3>2. ASSUME NEW i \in 1..Len(changes)
          PROVE  changes[i] # [path |-> p, kind |-> trie[p]]
      <4>1. changes[i] \in ToSet(changes)
        BY <1>2 DEF ToSet
      <4>2. PICK q \in KeptNodes : changes[i] = [path |-> q, kind |-> trie[q]]
        BY <1>2, <4>1
      <4> QED
        BY <3>1, <4>2
    <3>3. DOMAIN changes = 1..Len(changes)
      BY <1>2
    <3> QED
      BY <1>2, <1>20, <2>1, <3>2, <3>3
  <2>2. CASE ~Kept(p)
    BY <1>0, <1>2, <2>2
  <2> QED
    BY <2>1, <2>2
<1>23. changes' \in Seq([path : Paths, kind : {"add", "del", "change"}])
  BY <1>0, <1>2, <1>20
<1>24. FilterInv'
  BY <1>0, <1>8, <1>15, <1>21, <1>22, <1>23 DEF FilterInv
<1>25. GivenInv' /\ TrieShape' /\ TrieExact' /\ NodeValues'
  <2>1. pending = {}
    BY <1>0 DEF TrieShape
  <2> QED
    BY <1>0, <2>1, GivenFrame, TrieFrame
<1>26. ApplyInv'
  <2>1. Len(changes') \in Nat
    BY <1>23
  <2>2. idx = 1
    BY <1>0 DEF ApplyInv
  <2> QED
    BY <1>0, <2>1, <2>2, ApplyFrame
<1> QED
  BY <1>0, <1>24, <1>25, <1>26 DEF MigratedSoFar, PcInv

-----------------------------------------------------------------------------
(* What filter() returns.                                                  *)

LEMMA LeafFacts ==
  ASSUME GivenInv, NEW c \in Leaves
  PROVE  /\ c \in Listed /\ c.path \in Seq(Names) /\ c.path \notin mounts
         /\ \A d \in Listed : d.path \notin mounts =>
              ~IsStrictPrefix(c.path, d.path)
<1>1. /\ c \in Listed /\ c.path \notin mounts
      /\ Beneath(ListedPaths \ mounts, c.path) = {}
  BY DEF Leaves
<1>2. \A d \in Listed : d.path \notin mounts =>
        ~IsStrictPrefix(c.path, d.path)
  BY <1>1 DEF ListedPaths, Beneath
<1> QED
  BY <1>1, <1>2, ListedFacts

(* No leaf is beneath another.                                             *)
LEMMA LeavesApart ==
  ASSUME GivenInv, NEW c \in Leaves, NEW d \in Leaves,
         IsPrefix(c.path, d.path)
  PROVE  c = d
<1>1. c \in Listed /\ d \in Listed /\ c.path = d.path
  BY LeafFacts DEF IsStrictPrefix
<1> QED
  BY <1>1, OneChangeAPath

(* When the queue is empty every node has been visited, and the nodes that *)
(* are not ignored are the leaves of the report.                           *)
LEMMA FilterResult ==
  ASSUME IInv, pc \in {"filter", "apply"}, queue = <<>>
  PROVE  ToSet(changes) = Leaves
<1> USE DEF IInv
<1>1. KeptNodes = {p \in DOMAIN trie : trie[p] # "ignore"}
  <2>1. DOMAIN queue = {}
    BY DEF FilterInv
  <2> QED
    BY <2>1 DEF KeptNodes, Unvisited, Kept
<1>2. Done = Listed /\ Inserted = ListedPaths \ mounts
  BY DEF TrieShape, Done, Inserted, ListedPaths
<1>3. /\ DOMAIN trie = {<<>>} \cup (ListedPaths \ mounts)
      /\ trie[<<>>] = "ignore"
      /\ \A c \in Listed : c.path \notin mounts =>
           trie[c.path] = IF Beneath(ListedPaths \ mounts, c.path) # {}
                          THEN "ignore" ELSE c.kind
  BY <1>2 DEF TrieExact, TrieShape
<1>4. ToSet(changes) = {[path |-> p, kind |-> trie[p]] : p \in KeptNodes}
  BY DEF FilterInv
<1>5. ASSUME NEW c \in Leaves PROVE c \in ToSet(changes)
  <2>1. /\ c \in Listed /\ c.path \notin mounts
        /\ Beneath(ListedPaths \ mounts, c.path) = {}
    BY DEF Leaves
  <2>2. /\ c \in [path : Paths, kind : {"add", "del", "change"}]
        /\ c.path \in ListedPaths /\ c.kind # "ignore"
    BY <2>1, ListedFacts
  <2>3. c.path \in KeptNodes /\ trie[c.path] = c.kind
    BY <1>1, <1>3, <2>1, <2>2
  <2>4. c = [path |-> c.path, kind |-> trie[c.path]]
    BY <2>2, <2>3
  <2> QED
    BY <1>4, <2>3, <2>4
<1>6. ASSUME NEW p \in KeptNodes
      PROVE  [path |-> p, kind |-> trie[p]] \in Leaves
  <2>1. p \in ListedPaths \ mounts /\ trie[p] # "ignore"
    BY <1>1, <1>3
  <2>2. PICK c \in Listed : c.path = p
    BY <2>1 DEF ListedPaths
  <2>3. trie[p] = c.kind /\ Beneath(ListedPaths \ mounts, p) = {}
    BY <1>3, <2>1, <2>2
  <2>4. c \in Leaves
    BY <2>1, <2>2, <2>3 DEF Leaves
  <2>5. c = [path |-> p, kind |-> trie[p]]
    <3>1. c \in [path : Paths, kind : {"add", "del", "change"}]
      BY ListedFacts
    <3> QED
      BY <2>2, <2>3, <3>1
  <2> QED
    BY <2>4, <2>5
<1> QED
  BY <1>4, <1>5, <1>6

(* Each of them once.                                                      *)
LEMMA FilterCount ==
  ASSUME IInv, pc \in {"filter", "apply"}, queue = <<>>
  PROVE  Len(changes) = Cardinality(Leaves)
<1> DEFINE n == Len(changes)
<1>1. /\ changes \in Seq([path : Paths, kind : {"add", "del", "change"}])
      /\ \A i, j \in DOMAIN changes : i # j => changes[i] # changes[j]
  BY DEF IInv, FilterInv
<1>2. n \in Nat /\ DOMAIN changes = 1..n
  BY <1>1
<1>3. ToSet(changes) = Leaves
  BY FilterResult
<1>4. /\ \A i \in 1..n : changes[i] \in Leaves
      /\ \A c \in Leaves : \E i \in 1..n : changes[i] = c
  BY <1>2, <1>3 DEF ToSet
<1>5. changes \in [1..n -> Leaves]
  BY <1>1, <1>2, <1>4
<1>6. /\ changes \in Injection(1..n, Leaves)
      /\ changes \in Surjection(1..n, Leaves)
  BY <1>1, <1>2, <1>4, <1>5 DEF Injection, IsInjective, Surjection
<1>7. ExistsBijection(1..n, Leaves)
  BY <1>6 DEF ExistsBijection, Bijection
<1>8. IsFiniteSet(1..n) /\ Cardinality(1..n) = n
  <2> HIDE DEF n
  <2>1. IsFiniteSet(1..n) /\ Cardinality(1..n) = IF 1 > n THEN 0 ELSE n - 1 + 1
    BY <1>2, FS_Interval
  <2> QED
    BY <1>2, <2>1
<1> QED
  BY <1>7, <1>8, FS_Bijection

(* Beneath a reported directory that is not a leaf is a leaf: the one with *)
(* the least beneath it.                                                   *)
LEMMA LeafBeneath ==
  ASSUME GivenInv, NEW p \in Seq(Names),
         Beneath(ListedPaths \ mounts, p) # {}
  PROVE  \E l \in Leaves : IsStrictPrefix(p, l.path)
<1> DEFINE L == ListedPaths \ mounts
           B == {Beneath(L, q) : q \in Beneath(L, p)}
<1>1. L \subseteq Paths /\ L \subseteq Seq(Names)
  BY ListedFacts DEF ListedPaths
<1>2. B \subseteq FiniteSubsetsOf(Paths)
  <2>1. ASSUME NEW q PROVE Beneath(L, q) \in FiniteSubsetsOf(Paths)
    <3>1. Beneath(L, q) \in SUBSET Paths
      BY <1>1 DEF Beneath
    <3>2. IsFiniteSet(Beneath(L, q))
      BY <3>1, PathsAssumption, FS_Subset
    <3> QED
      BY <3>1, <3>2 DEF FiniteSubsetsOf
  <2> QED
    BY <2>1
<1>3. B # {}
  OBVIOUS
<1>4. IsWellFoundedOn(StrictSubsetOrdering(Paths), FiniteSubsetsOf(Paths))
  BY FS_StrictSubsetOrderingWellFounded
<1>5. PICK b \in B : \A a \in B : <<a, b>> \notin StrictSubsetOrdering(Paths)
  <2> HIDE DEF B
  <2> QED
    BY <1>2, <1>3, <1>4, WFMin
<1>6. PICK q \in Beneath(L, p) : b = Beneath(L, q)
  BY <1>5
<1>7. q \in L /\ q \in Seq(Names) /\ IsStrictPrefix(p, q)
  BY <1>1, <1>6 DEF Beneath
<1>8. Beneath(L, q) = {}
  <2> SUFFICES ASSUME NEW r \in Beneath(L, q) PROVE FALSE
    OBVIOUS
  <2>1. r \in L /\ r \in Seq(Names) /\ IsStrictPrefix(q, r)
    BY <1>1 DEF Beneath
  <2>2. ASSUME NEW x \in Seq(Names), IsStrictPrefix(r, x)
        PROVE  IsStrictPrefix(q, x)
    BY <1>7, <2>1, <2>2, StrictPrefixTransitive DEF IsStrictPrefix
  <2>3. Beneath(L, r) \subseteq Beneath(L, q)
    BY <1>1, <2>2 DEF Beneath
  <2>4. r \notin Beneath(L, r)
    BY DEF Beneath, IsStrictPrefix
  <2>5. r \in Beneath(L, p)
    BY <1>7, <2>1, StrictPrefixTransitive DEF Beneath, IsStrictPrefix
  <2>6. Beneath(L, r) \in B
    BY <2>5
  <2>7. Beneath(L, r) \in SUBSET Paths /\ Beneath(L, q) \in SUBSET Paths
    BY <1>1 DEF Beneath
  <2>8. <<Beneath(L, r), Beneath(L, q)>> \in StrictSubsetOrdering(Paths)
    <3>1. Beneath(L, r) # Beneath(L, q)
      BY <2>4
    <3> QED
      BY <2>3, <2>7, <3>1 DEF StrictSubsetOrdering
  <2> QED
    BY <1>5, <1>6, <2>6, <2>8
<1>9. PICK c \in Listed : c.path = q
  BY <1>7 DEF ListedPaths
<1>10. c \in Leaves
  BY <1>7, <1>8, <1>9 DEF Leaves
<1> QED
  BY <1>7, <1>9, <1>10

-----------------------------------------------------------------------------
(* cp and RemoveAll.                                                       *)

(* Where cp puts what is beneath p: beneath the target, by the same names. *)
LEMMA PlaceFacts ==
  ASSUME NEW p \in Seq(Names), Target(p) \in Seq(Names),
         NEW q \in Seq(Names), IsPrefix(p, q)
  PROVE  /\ Place(p, q) \in Seq(Names)
         /\ Len(Place(p, q)) = Len(Target(p)) + (Len(q) - Len(p))
         /\ \A i \in 1..Len(Target(p)) : Place(p, q)[i] = Target(p)[i]
         /\ \A i \in 1..Len(q) - Len(p) :
              Place(p, q)[Len(Target(p)) + i] = q[Len(p) + i]
<1> DEFINE T == Target(p)
           u == SubSeq(q, Len(p) + 1, Len(q))
<1>1. Len(p) \in Nat /\ Len(q) \in Nat /\ Len(T) \in Nat /\ Len(p) <= Len(q)
  BY PrefixByNames
<1>2. /\ u \in Seq(Names) /\ Len(u) = Len(q) - Len(p)
      /\ \A i \in 1..Len(q) - Len(p) : u[i] = q[Len(p) + i]
  <2>1. \A i \in Len(p) + 1..Len(q) : q[i] \in Names
    BY <1>1
  <2>2. Len(p) + 1 \in Int /\ Len(q) \in Int
    BY <1>1
  <2>3. /\ u \in Seq(Names)
        /\ Len(u) = IF Len(p) + 1 <= Len(q) THEN Len(q) - (Len(p) + 1) + 1
                    ELSE 0
        /\ \A i \in 1..Len(q) - (Len(p) + 1) + 1 :
             u[i] = q[(Len(p) + 1) + i - 1]
    BY <2>1, <2>2, SubSeqProperties
  <2> HIDE DEF u
  <2>4. Len(u) = Len(q) - Len(p)
    BY <1>1, <2>3
  <2>5. \A i \in 1..Len(q) - Len(p) : u[i] = q[Len(p) + i]
    BY <1>1, <2>3
  <2> QED
    BY <2>3, <2>4, <2>5
<1> HIDE DEF u
<1>3. Place(p, q) = T \o u
  BY DEF Place, u
<1> HIDE DEF T
<1>4. T \in Seq(Names)
  BY DEF T
<1>5. /\ T \o u \in Seq(Names) /\ Len(T \o u) = Len(T) + Len(u)
      /\ \A i \in 1..Len(T) + Len(u) :
           (T \o u)[i] = IF i <= Len(T) THEN T[i] ELSE u[i - Len(T)]
  BY <1>2, <1>4, ConcatProperties
<1>6. \A i \in 1..Len(T) : (T \o u)[i] = T[i]
  BY <1>1, <1>2, <1>5
<1>7. \A i \in 1..Len(q) - Len(p) : (T \o u)[Len(T) + i] = u[i]
  BY <1>1, <1>2, <1>5
<1> QED
  BY <1>2, <1>3, <1>5, <1>6, <1>7 DEF T

LEMMA PlaceInjective ==
  ASSUME NEW p \in Seq(Names), Target(p) \in Seq(Names),
         NEW q \in Seq(Names), IsPrefix(p, q),
         NEW r \in Seq(Names), IsPrefix(p, r),
         Place(p, q) = Place(p, r)
  PROVE  q = r
<1>1. /\ Len(p) \in Nat /\ Len(q) \in Nat /\ Len(r) \in Nat
      /\ Len(Target(p)) \in Nat
  OBVIOUS
<1>2. Len(q) = Len(r)
  <2>1. Len(Target(p)) + (Len(q) - Len(p)) = Len(Target(p)) + (Len(r) - Len(p))
    BY PlaceFacts
  <2> QED
    BY <1>1, <2>1
<1>3. /\ \A i \in 1..Len(p) : p[i] = q[i]
      /\ \A i \in 1..Len(p) : p[i] = r[i]
  BY PrefixByNames
<1>4. \A i \in 1..Len(q) - Len(p) : q[Len(p) + i] = r[Len(p) + i]
  <2>1. \A i \in 1..Len(q) - Len(p) :
          Place(p, q)[Len(Target(p)) + i] = q[Len(p) + i]
    BY PlaceFacts
  <2>2. \A i \in 1..Len(r) - Len(p) :
          Place(p, r)[Len(Target(p)) + i] = r[Len(p) + i]
    BY PlaceFacts
  <2> QED
    BY <1>2, <2>1, <2>2
<1>5. ASSUME NEW i \in 1..Len(q) PROVE q[i] = r[i]
  <2>1. CASE i <= Len(p)
    BY <1>1, <1>3, <2>1
  <2>2. CASE i > Len(p)
    <3>1. i - Len(p) \in 1..Len(q) - Len(p) /\ Len(p) + (i - Len(p)) = i
      BY <1>1, <2>2
    <3> QED
      BY <1>4, <3>1
  <2> QED
    BY <1>1, <2>1, <2>2
<1> QED
  BY <1>2, <1>5, SeqEqual

(* p itself becomes the target, a path beneath p stays in its directory.   *)
LEMMA PlaceKeepsTree ==
  ASSUME NEW p \in Seq(Names), Target(p) \in Seq(Names),
         NEW q \in Seq(Names), IsPrefix(p, q)
  PROVE  /\ IsPrefix(Target(p), Place(p, q))
         /\ q = p => Place(p, q) = Target(p)
         /\ q # p => /\ IsPrefix(p, Front(q)) /\ Place(p, q) # <<>>
                     /\ Front(Place(p, q)) = Place(p, Front(q))
         /\ Target(p) = p => Place(p, q) = q
<1> DEFINE T == Target(p)
<1>0. Len(p) \in Nat /\ Len(q) \in Nat /\ Len(T) \in Nat /\ Len(p) <= Len(q)
  BY PrefixByNames
<1>1. /\ Place(p, q) \in Seq(Names)
      /\ Len(Place(p, q)) = Len(T) + (Len(q) - Len(p))
      /\ \A i \in 1..Len(T) : Place(p, q)[i] = T[i]
      /\ \A i \in 1..Len(q) - Len(p) : Place(p, q)[Len(T) + i] = q[Len(p) + i]
  BY PlaceFacts
<1>2. T \in Seq(Names)
  OBVIOUS
<1>3. IsPrefix(T, Place(p, q))
  <2> HIDE DEF T
  <2>1. Len(T) <= Len(Place(p, q))
    BY <1>0, <1>1
  <2> QED
    BY <1>1, <1>2, <2>1, PrefixByNames
<1>4. ASSUME q = p PROVE Place(p, q) = T
  <2> HIDE DEF T
  <2>1. Len(Place(p, q)) <= Len(T)
    BY <1>0, <1>1, <1>4
  <2> QED
    BY <1>1, <1>2, <1>3, <2>1, PrefixAntisymmetric
<1>5. ASSUME q # p
      PROVE  /\ IsPrefix(p, Front(q)) /\ Place(p, q) # <<>>
             /\ Front(Place(p, q)) = Place(p, Front(q))
  <2>1. IsStrictPrefix(p, q)
    BY <1>5 DEF IsStrictPrefix
  <2>2. q # <<>> /\ Len(p) < Len(q) /\ IsPrefix(p, Front(q))
    BY <2>1, StrictPrefixFacts
  <2>3. /\ Front(q) \in Seq(Names) /\ Len(Front(q)) = Len(q) - 1
        /\ \A i \in 1..Len(q) - 1 : Front(q)[i] = q[i]
    BY <2>2, FrontFacts
  <2>4. /\ Place(p, Front(q)) \in Seq(Names)
        /\ Len(Place(p, Front(q))) = Len(T) + ((Len(q) - 1) - Len(p))
        /\ \A i \in 1..Len(T) : Place(p, Front(q))[i] = T[i]
        /\ \A i \in 1..(Len(q) - 1) - Len(p) :
             Place(p, Front(q))[Len(T) + i] = Front(q)[Len(p) + i]
    <3> DEFINE f == Front(q)
    <3>1. f \in Seq(Names) /\ IsPrefix(p, f) /\ Len(f) = Len(q) - 1
      BY <2>2, <2>3
    <3> HIDE DEF f
    <3>2. /\ Place(p, f) \in Seq(Names)
          /\ Len(Place(p, f)) = Len(T) + (Len(f) - Len(p))
          /\ \A i \in 1..Len(T) : Place(p, f)[i] = T[i]
          /\ \A i \in 1..Len(f) - Len(p) :
               Place(p, f)[Len(T) + i] = f[Len(p) + i]
      BY <3>1, PlaceFacts
    <3> QED
      BY <3>1, <3>2 DEF f
  <2> HIDE DEF T
  <2>5. Place(p, q) # <<>>
    BY <1>0, <1>1, <2>2
  <2>6. /\ Front(Place(p, q)) \in Seq(Names)
        /\ Len(Front(Place(p, q))) = Len(Place(p, q)) - 1
        /\ \A i \in 1..Len(Place(p, q)) - 1 :
             Front(Place(p, q))[i] = Place(p, q)[i]
    BY <1>1, <2>5, FrontFacts
  <2>7. Len(Front(Place(p, q))) = Len(Place(p, Front(q)))
    BY <1>0, <1>1, <2>4, <2>6
  <2>8. ASSUME NEW i \in 1..Len(Place(p, Front(q)))
        PROVE  Front(Place(p, q))[i] = Place(p, Front(q))[i]
    <3>1. i \in 1..Len(Place(p, q)) - 1
      BY <1>0, <1>1, <2>4
    <3>2. Front(Place(p, q))[i] = Place(p, q)[i]
      BY <2>6, <3>1
    <3>3. CASE i <= Len(T)
      BY <1>0, <1>1, <2>4, <3>1, <3>2, <3>3
    <3>4. CASE i > Len(T)
      <4>1. /\ i - Len(T) \in 1..(Len(q) - 1) - Len(p)
            /\ i - Len(T) \in 1..Len(q) - Len(p)
            /\ Len(T) + (i - Len(T)) = i
        BY <1>0, <1>1, <2>2, <3>1, <3>4
      <4>2. Place(p, q)[i] = q[Len(p) + (i - Len(T))]
        BY <1>1, <4>1
      <4>3. Place(p, Front(q))[i] = Front(q)[Len(p) + (i - Len(T))]
        BY <2>4, <4>1
      <4>4. Len(p) + (i - Len(T)) \in 1..Len(q) - 1
        BY <1>0, <4>1
      <4> QED
        BY <2>3, <3>2, <4>2, <4>3, <4>4
    <3> QED
      BY <1>0, <3>1, <3>3, <3>4
  <2> QED
    BY <2>2, <2>4, <2>5, <2>6, <2>7, <2>8, SeqEqual
<1>6. ASSUME T = p PROVE Place(p, q) = q
  <2>1. Len(Place(p, q)) = Len(q)
    BY <1>0, <1>1, <1>6
  <2>2. ASSUME NEW i \in 1..Len(q) PROVE Place(p, q)[i] = q[i]
    <3>1. \A j \in 1..Len(p) : p[j] = q[j]
      BY PrefixByNames
    <3>2. CASE i <= Len(p)
      BY <1>0, <1>1, <1>6, <3>1, <3>2
    <3>3. CASE i > Len(p)
      <4>1. i - Len(p) \in 1..Len(q) - Len(p) /\ Len(p) + (i - Len(p)) = i
        BY <1>0, <3>3
      <4> QED
        BY <1>1, <1>6, <4>1
    <3> QED
      BY <1>0, <3>2, <3>3
  <2> QED
    BY <1>1, <2>1, <2>2, SeqEqual
<1> QED
  BY <1>3, <1>4, <1>5, <1>6

(* cp never makes the root of the new rootfs its target.                   *)
LEMMA TargetFacts ==
  ASSUME GivenInv, ApplyInv, NEW c \in Listed
  PROVE  /\ Target(c.path) \in Seq(Names) /\ Target(c.path) # <<>>
         /\ IsDir(newFs, Front(c.path)) => Target(c.path) = c.path
         /\ ~IsDir(newFs, Front(c.path)) => Target(c.path) = Front(c.path)
<1>1. c.path \in Seq(Names) /\ c.path # <<>>
  BY ListedFacts
<1>2. Front(c.path) \in Seq(Names)
  BY <1>1, FrontFacts
<1>3. IsDir(newFs, <<>>)
  BY DEF ApplyInv, IsTree
<1> QED
  BY <1>1, <1>2, <1>3 DEF Target, DestRoot

LEMMA CopyFacts ==
  ASSUME GivenInv, ApplyInv, NEW c \in Listed
  PROVE  /\ DOMAIN CopyOf(c.path) =
              {Place(c.path, q) : q \in Subtree(DOMAIN container, c.path)}
         /\ \A q \in Subtree(DOMAIN container, c.path) :
              CopyOf(c.path)[Place(c.path, q)] = container[q]
         /\ DOMAIN Copy(c.path) = DOMAIN newFs \cup DOMAIN CopyOf(c.path)
         /\ \A t \in DOMAIN CopyOf(c.path) :
              Copy(c.path)[t] = CopyOf(c.path)[t]
         /\ \A t \in DOMAIN newFs : t \notin DOMAIN CopyOf(c.path) =>
              Copy(c.path)[t] = newFs[t]
<1> DEFINE p == c.path
           source == Subtree(DOMAIN container, p)
<1>1. p \in Seq(Names) /\ Target(p) \in Seq(Names)
  BY ListedFacts, TargetFacts
<1>2. \A q \in source : q \in Seq(Names) /\ IsPrefix(p, q)
  BY GivenFacts DEF Subtree
<1>3. CopyOf(p) = [t \in {Place(p, q) : q \in source} |->
                     container[CHOOSE q \in source : Place(p, q) = t]]
  BY DEF CopyOf
<1>4. ASSUME NEW q \in source
      PROVE  (CHOOSE r \in source : Place(p, r) = Place(p, q)) = q
  <2> DEFINE r == CHOOSE r \in source : Place(p, r) = Place(p, q)
  <2>1. r \in source /\ Place(p, r) = Place(p, q)
    OBVIOUS
  <2> HIDE DEF r
  <2>2. r = q
    BY <1>1, <1>2, <2>1, PlaceInjective
  <2> QED
    BY <2>2 DEF r
<1>5. Copy(p) = [t \in DOMAIN newFs \cup DOMAIN CopyOf(p) |->
                   IF t \in DOMAIN CopyOf(p) THEN CopyOf(p)[t] ELSE newFs[t]]
  BY DEF Copy
<1>6. /\ DOMAIN Copy(p) = DOMAIN newFs \cup DOMAIN CopyOf(p)
      /\ \A t \in DOMAIN CopyOf(p) : Copy(p)[t] = CopyOf(p)[t]
      /\ \A t \in DOMAIN newFs : t \notin DOMAIN CopyOf(p) =>
           Copy(p)[t] = newFs[t]
  BY <1>5
<1>7. /\ DOMAIN CopyOf(p) = {Place(p, q) : q \in source}
      /\ \A q \in source : CopyOf(p)[Place(p, q)] = container[q]
  <2> HIDE DEF source
  <2> QED
    BY <1>3, <1>4
<1> QED
  BY <1>6, <1>7

(* A copy into a tree is a tree, if nothing changes its kind.              *)
LEMMA CopyTree ==
  ASSUME GivenInv, ApplyInv, NEW c \in Listed,
         c.kind \in {"add", "change"}, CanCopy(c.path)
  PROVE  /\ IsTree(Copy(c.path))
         /\ DOMAIN Copy(c.path) \subseteq Seq(Names)
<1> DEFINE p == c.path
           source == Subtree(DOMAIN container, p)
           D == DOMAIN CopyOf(p)
           new == Copy(p)
<1>1. /\ p \in Seq(Names) /\ p # <<>> /\ p \in DOMAIN container
      /\ Target(p) \in Seq(Names) /\ Target(p) # <<>>
  BY ListedFacts, TargetFacts
<1>2. /\ D = {Place(p, q) : q \in source}
      /\ \A q \in source : CopyOf(p)[Place(p, q)] = container[q]
      /\ DOMAIN new = DOMAIN newFs \cup D
      /\ \A t \in D : new[t] = CopyOf(p)[t]
      /\ \A t \in DOMAIN newFs : t \notin D => new[t] = newFs[t]
  BY CopyFacts
<1>3. \A q \in source : /\ q \in Seq(Names) /\ IsPrefix(p, q)
                        /\ q \in DOMAIN container
  BY GivenFacts DEF Subtree
<1>4. IsDir(newFs, Front(Target(p)))
  BY DEF CanCopy
<1>5. \A t \in D \cap DOMAIN newFs : IsDir(CopyOf(p), t) <=> IsDir(newFs, t)
  BY DEF CanCopy, SameKinds
<1>6. DOMAIN newFs \subseteq Seq(Names) /\ IsTree(newFs)
  BY DEF ApplyInv
<1>7. D \subseteq Seq(Names)
  BY <1>1, <1>2, <1>3, PlaceFacts
<1> HIDE DEF D, new
<1>8. ASSUME NEW t, IsDir(newFs, t) PROVE IsDir(new, t)
  BY <1>2, <1>5, <1>8 DEF IsDir, D
<1>9. IsDir(new, <<>>)
  BY <1>6, <1>8 DEF IsTree
<1>10. ASSUME NEW t \in DOMAIN new, t # <<>> PROVE IsDir(new, Front(t))
  <2>1. CASE t \in D
    <3>1. PICK q \in source : t = Place(p, q)
      BY <1>2, <2>1
    <3>2. q \in Seq(Names) /\ IsPrefix(p, q) /\ q \in DOMAIN container
      BY <1>3
    <3>3. CASE q = p
      <4>1. t = Target(p)
        BY <1>1, <3>1, <3>2, <3>3, PlaceKeepsTree
      <4> QED
        BY <1>4, <1>8, <4>1
    <3>4. CASE q # p
      <4>1. IsPrefix(p, Front(q)) /\ Front(t) = Place(p, Front(q))
        BY <1>1, <3>1, <3>2, <3>4, PlaceKeepsTree
      <4>2. q # <<>>
        BY <1>1, <3>2, <3>4, StrictPrefixFacts DEF IsStrictPrefix
      <4>3. IsDir(container, Front(q))
        BY <3>2, <4>2, GivenFacts DEF IsTree
      <4>4. Front(q) \in source
        BY <4>1, <4>3 DEF Subtree, IsDir
      <4>5. Front(t) \in D /\ CopyOf(p)[Front(t)] = "dir"
        BY <1>2, <4>1, <4>3, <4>4 DEF IsDir
      <4> QED
        BY <1>2, <4>5 DEF IsDir
    <3> QED
      BY <3>3, <3>4
  <2>2. CASE t \notin D
    <3>1. t \in DOMAIN newFs
      BY <1>2, <1>10, <2>2
    <3>2. IsDir(newFs, Front(t))
      BY <1>6, <1>10, <3>1 DEF IsTree
    <3> QED
      BY <1>8, <3>2
  <2> QED
    BY <2>1, <2>2
<1>11. IsTree(new)
  BY <1>9, <1>10 DEF IsTree
<1> QED
  BY <1>2, <1>6, <1>7, <1>11 DEF new

(* A copy lands on what it is the copy of, unless its directory is not in  *)
(* the new rootfs; and then there is nothing unchanged beneath it.         *)
LEMMA CopyKeepsUnchanged ==
  ASSUME GivenInv, ApplyInv, NEW c \in Listed,
         c.kind \in {"add", "change"},
         NEW t \in DOMAIN image \cap DOMAIN container, image[t] = container[t]
  PROVE  t \in DOMAIN Copy(c.path) /\ Copy(c.path)[t] = image[t]
<1> DEFINE p == c.path
           source == Subtree(DOMAIN container, p)
           D == DOMAIN CopyOf(p)
           new == Copy(p)
<1>1. /\ p \in Seq(Names) /\ p # <<>> /\ p \in DOMAIN container
      /\ IsDir(container, Front(p))
      /\ Target(p) \in Seq(Names) /\ Target(p) # <<>>
  BY ListedFacts, TargetFacts
<1>2. /\ D = {Place(p, q) : q \in source}
      /\ \A q \in source : CopyOf(p)[Place(p, q)] = container[q]
      /\ DOMAIN new = DOMAIN newFs \cup D
      /\ \A x \in D : new[x] = CopyOf(p)[x]
      /\ \A x \in DOMAIN newFs : x \notin D => new[x] = newFs[x]
  BY CopyFacts
<1>3. t \in DOMAIN newFs /\ newFs[t] = image[t]
  BY DEF ApplyInv, UnchangedSurvives
<1> HIDE DEF D, new
<1>4. CASE t \notin D
  BY <1>2, <1>3, <1>4 DEF new
<1>5. CASE t \in D
  <2>1. PICK q \in source : t = Place(p, q)
    BY <1>2, <1>5
  <2>2. q \in Seq(Names) /\ IsPrefix(p, q) /\ q \in DOMAIN container
    BY GivenFacts DEF Subtree
  <2>3. CASE Target(p) = p
    <3>1. t = q
      BY <1>1, <2>1, <2>2, <2>3, PlaceKeepsTree
    <3> QED
      BY <1>2, <1>5, <2>1, <3>1 DEF new
  <2>4. CASE Target(p) # p
    <3> DEFINE d == Front(p)
    <3>1. Target(p) = d /\ ~IsDir(newFs, d)
      BY <2>4, TargetFacts
    <3>2. d \in Seq(Names) /\ IsPrefix(d, t) /\ t \in Seq(Names)
      BY <1>1, <2>1, <2>2, <3>1, PlaceKeepsTree, GivenFacts
    <3>3. IsDir(image, d)
      <4>1. CASE d = t
        <5>1. IsDir(container, d) /\ d \in DOMAIN image \cap DOMAIN container
          BY <1>1, <4>1
        <5> QED
          BY <5>1 DEF GivenInv, SameKinds
      <4>2. CASE d # t
        <5>1. IsStrictPrefix(d, t)
          BY <3>2, <4>2 DEF IsStrictPrefix
        <5>2. DOMAIN image \subseteq Seq(Names) /\ IsTree(image)
          BY GivenFacts
        <5> HIDE DEF d
        <5> QED
          BY <3>2, <5>1, <5>2, Ancestors
      <4> QED
        BY <4>1, <4>2
    <3>4. d \in DOMAIN image \cap DOMAIN container /\ image[d] = container[d]
      BY <1>1, <3>3 DEF IsDir
    <3>5. IsDir(newFs, d)
      BY <3>3, <3>4 DEF ApplyInv, UnchangedSurvives, IsDir
    <3> QED
      BY <3>1, <3>5
  <2> QED
    BY <2>3, <2>4
<1> QED
  BY <1>4, <1>5

LEMMA RemoveFacts ==
  ASSUME GivenInv, ApplyInv, NEW c \in Listed, c.kind = "del"
  PROVE  /\ IsTree(RemoveAll(c.path))
         /\ DOMAIN RemoveAll(c.path) =
              {q \in DOMAIN newFs : ~IsPrefix(c.path, q)}
         /\ \A q \in DOMAIN RemoveAll(c.path) :
              RemoveAll(c.path)[q] = newFs[q]
         /\ \A t \in DOMAIN image \cap DOMAIN container :
              image[t] = container[t] =>
                /\ t \in DOMAIN RemoveAll(c.path)
                /\ RemoveAll(c.path)[t] = image[t]
<1> DEFINE p == c.path
           new == RemoveAll(p)
<1>1. p \in Seq(Names) /\ p # <<>> /\ p \notin DOMAIN container
  BY ListedFacts
<1>2. /\ DOMAIN new = {q \in DOMAIN newFs : ~IsPrefix(p, q)}
      /\ \A q \in DOMAIN new : new[q] = newFs[q]
  BY DEF RemoveAll, Subtree
<1>3. DOMAIN newFs \subseteq Seq(Names) /\ IsTree(newFs)
  BY DEF ApplyInv
<1> HIDE DEF new
<1>4. IsDir(new, <<>>)
  <2>1. ~IsPrefix(p, <<>>)
    BY <1>1, RootIsPrefix
  <2> QED
    BY <1>2, <1>3, <2>1 DEF IsTree, IsDir
<1>5. ASSUME NEW t \in DOMAIN new, t # <<>> PROVE IsDir(new, Front(t))
  <2>1. /\ t \in DOMAIN newFs /\ ~IsPrefix(p, t) /\ t \in Seq(Names)
    BY <1>2, <1>3
  <2>2. /\ Front(t) \in Seq(Names) /\ IsPrefix(Front(t), t)
    BY <1>5, <2>1, FrontFacts DEF IsStrictPrefix
  <2>3. ~IsPrefix(p, Front(t))
    BY <1>1, <2>1, <2>2, PrefixTransitive
  <2>4. IsDir(newFs, Front(t))
    BY <1>3, <1>5, <2>1 DEF IsTree
  <2> QED
    BY <1>2, <2>3, <2>4 DEF IsDir
<1>6. ASSUME NEW t \in DOMAIN image \cap DOMAIN container,
             image[t] = container[t]
      PROVE  t \in DOMAIN new /\ new[t] = image[t]
  <2>1. t \in DOMAIN newFs /\ newFs[t] = image[t]
    BY <1>6 DEF ApplyInv, UnchangedSurvives
  <2>2. ASSUME IsPrefix(p, t) PROVE FALSE
    <3>1. IsStrictPrefix(p, t)
      BY <1>1, <2>2 DEF IsStrictPrefix
    <3>2. DOMAIN container \subseteq Seq(Names) /\ IsTree(container)
      BY GivenFacts
    <3>3. IsDir(container, p)
      BY <1>1, <3>1, <3>2, Ancestors
    <3> QED
      BY <1>1, <3>3 DEF IsDir
  <2> QED
    BY <1>2, <2>1, <2>2
<1>7. IsTree(new)
  BY <1>4, <1>5 DEF IsTree
<1> QED
  BY <1>2, <1>6, <1>7 DEF new

-----------------------------------------------------------------------------
(* The changes that are applied, and what is different.                    *)

(* What the container no longer has is beneath a path reported deleted.    *)
LEMMA DeletedAncestor ==
  ASSUME GivenInv, NEW p \in DOMAIN image, p \notin DOMAIN container
  PROVE  \E d \in Listed : d.kind = "del" /\ IsPrefix(d.path, p)
<1>1. /\ DOMAIN image \subseteq Paths /\ IsTree(image)
      /\ DOMAIN container \subseteq Paths /\ IsTree(container)
      /\ Paths \subseteq Seq(Names) /\ <<>> \in DOMAIN container
  BY GivenFacts
<1>2. PICK root \in Seq(Names) : root = <<>>
  BY <1>1
<1>3. p \in Seq(Names) /\ IsPrefix(root, p) /\ root \in DOMAIN container
  BY <1>1, <1>2, RootIsPrefix
<1>4. PICK r \in Seq(Names) :
        /\ r \in DOMAIN container
        /\ \E t \in Seq(Names) : /\ t # <<>> /\ Front(t) = r
                                 /\ IsPrefix(t, p) /\ t \notin DOMAIN container
  BY <1>3, LongestPrefix
<1>5. PICK t \in Seq(Names) : /\ t # <<>> /\ Front(t) = r
                              /\ IsPrefix(t, p) /\ t \notin DOMAIN container
  BY <1>4
<1>6. t \in DOMAIN image
  <2>1. CASE t = p
    BY <2>1
  <2>2. CASE t # p
    <3>1. IsStrictPrefix(t, p)
      BY <1>5, <2>2 DEF IsStrictPrefix
    <3>2. DOMAIN image \subseteq Seq(Names)
      BY <1>1
    <3> QED
      BY <1>1, <3>1, <3>2, Ancestors DEF IsDir
  <2> QED
    BY <2>1, <2>2
<1>7. IsDir(image, r)
  BY <1>1, <1>5, <1>6 DEF IsTree
<1>8. IsDir(container, r)
  BY <1>4, <1>7 DEF GivenInv, SameKinds, IsDir
<1>9. t \in Deleted
  BY <1>5, <1>6, <1>8 DEF Deleted
<1>10. [path |-> t, kind |-> "del"] \in Listed
  BY <1>9 DEF Listed
<1> QED
  BY <1>5, <1>10

(* A path that is not there any more is a leaf of the report, no mount.    *)
LEMMA DeletedLeaf ==
  ASSUME GivenInv, NEW d \in Listed, d.kind = "del"
  PROVE  d \in Leaves
<1>1. d.path \in Seq(Names) /\ d.path \notin DOMAIN container /\ d.path # <<>>
  BY ListedFacts
<1>2. d.path \notin mounts
  BY <1>1 DEF GivenInv
<1>3. \A e \in Listed : ~IsStrictPrefix(d.path, e.path)
  BY <1>1, DeletedIsLeaf
<1>4. Beneath(ListedPaths \ mounts, d.path) = {}
  BY <1>3 DEF Beneath, ListedPaths
<1> QED
  BY <1>2, <1>4 DEF Leaves

(* Of a reported path that is a mount or a leaf there is nothing to say.   *)
(* Any other has a leaf beneath it, and if leaves are in directories of    *)
(* the image it is a directory, before and after.                          *)
LEMMA OnTheWayToLeaf ==
  ASSUME GivenInv, ParentsExist, NEW c \in Listed,
         c.path \notin mounts, c \notin Leaves
  PROVE  IsDir(image, c.path) /\ IsDir(container, c.path)
<1> DEFINE p == c.path
<1>1. p \in Seq(Names)
  BY ListedFacts
<1>2. Beneath(ListedPaths \ mounts, p) # {}
  BY DEF Leaves
<1>3. PICK l \in Leaves : IsStrictPrefix(p, l.path)
  BY <1>1, <1>2, LeafBeneath
<1>4. l \in Listed /\ l.path \in Seq(Names)
  BY LeafFacts
<1>5. l.path # <<>> /\ IsDir(container, Front(l.path))
  BY <1>4, ListedFacts
<1>6. IsDir(image, Front(l.path))
  BY DEF ParentsExist
<1>7. Front(l.path) \in Seq(Names) /\ IsPrefix(p, Front(l.path))
  BY <1>1, <1>3, <1>4, <1>5, FrontFacts, StrictPrefixFacts
<1>8. CASE p = Front(l.path)
  BY <1>5, <1>6, <1>8
<1>9. CASE p # Front(l.path)
  <2>1. IsStrictPrefix(p, Front(l.path))
    BY <1>7, <1>9 DEF IsStrictPrefix
  <2>2. /\ DOMAIN image \subseteq Seq(Names) /\ IsTree(image)
        /\ DOMAIN container \subseteq Seq(Names) /\ IsTree(container)
    BY GivenFacts
  <2>3. Front(l.path) \in DOMAIN image /\ Front(l.path) \in DOMAIN container
    BY <1>5, <1>6 DEF IsDir
  <2>4. IsDir(image, p)
    BY <1>1, <2>1, <2>2, <2>3, Ancestors
  <2>5. IsDir(container, p)
    BY <1>1, <2>1, <2>2, <2>3, Ancestors
  <2> QED
    BY <2>4, <2>5
<1> QED
  BY <1>8, <1>9

(* What no leaf is on the way to did not change, mounts aside.             *)
LEMMA NoLeafSame ==
  ASSUME GivenInv, ParentsExist,
         NEW p \in DOMAIN image \cup DOMAIN container, ~UnderMount(p),
         \A c \in Leaves : ~IsPrefix(c.path, p)
  PROVE  Agree(image, container, p)
<1>1. p \in Seq(Names)
  BY GivenFacts
<1>2. p \notin mounts
  BY <1>1, PrefixReflexive DEF UnderMount
<1>3. \A c \in Leaves : c.path # p
  BY <1>1, PrefixReflexive
<1>4. CASE p \in DOMAIN image \ DOMAIN container
  <2>1. PICK d \in Listed : d.kind = "del" /\ IsPrefix(d.path, p)
    BY <1>4, DeletedAncestor
  <2> QED
    BY <2>1, DeletedLeaf
<1>5. CASE p \in DOMAIN container \ DOMAIN image
  <2> DEFINE c == [path |-> p, kind |-> "add"]
  <2>1. c \in Listed
    BY <1>5 DEF Added, Listed
  <2>2. IsDir(image, c.path)
    <3>1. c.path = p /\ c.path \notin mounts /\ c \notin Leaves
      BY <1>2, <1>3
    <3> HIDE DEF c
    <3> QED
      BY <2>1, <3>1, OnTheWayToLeaf
  <2> QED
    BY <1>5, <2>2 DEF IsDir
<1>6. CASE p \in DOMAIN image \cap DOMAIN container
  <2>1. ASSUME image[p] # container[p] PROVE FALSE
    <3> DEFINE c == [path |-> p, kind |-> "change"]
    <3>1. c \in Listed
      BY <1>6, <2>1 DEF Modified, Listed
    <3>2. IsDir(image, c.path) /\ IsDir(container, c.path)
      <4>1. c.path = p /\ c.path \notin mounts /\ c \notin Leaves
        BY <1>2, <1>3
      <4> HIDE DEF c
      <4> QED
        BY <3>1, <4>1, OnTheWayToLeaf
    <3> QED
      BY <2>1, <3>2 DEF IsDir
  <2> QED
    BY <1>6, <2>1 DEF Agree
<1> QED
  BY <1>4, <1>5, <1>6

(* What the container has of a leaf: nothing beneath it was deleted.       *)
LEMMA NothingDeletedInLeaf ==
  ASSUME GivenInv, NEW c \in Leaves, c.path \in DOMAIN container,
         NEW p \in DOMAIN image, IsPrefix(c.path, p)
  PROVE  p \in DOMAIN container
<1> SUFFICES ASSUME p \notin DOMAIN container PROVE FALSE
  OBVIOUS
<1>1. PICK d \in Listed : d.kind = "del" /\ IsPrefix(d.path, p)
  BY DeletedAncestor
<1>2. d \in Leaves /\ d.path \notin DOMAIN container /\ d.path \in Seq(Names)
  BY <1>1, DeletedLeaf, ListedFacts
<1>3. c \in Listed /\ c.path \in Seq(Names) /\ p \in Seq(Names)
  BY LeafFacts, GivenFacts
<1>4. IsPrefix(c.path, d.path) \/ IsPrefix(d.path, c.path)
  BY <1>1, <1>2, <1>3, PrefixesComparable
<1>5. c = d
  BY <1>2, <1>4, LeavesApart
<1> QED
  BY <1>2, <1>5

-----------------------------------------------------------------------------
(* The steps that apply the changes.                                       *)

LEMMA StartApplyStep == ASSUME IInv, StartApply PROVE IInv'
<1> USE DEF IInv
<1>0. /\ pc = "filter" /\ pc' = "apply" /\ queue = <<>>
      /\ UNCHANGED given /\ UNCHANGED <<pending, trie>>
      /\ UNCHANGED <<queue, changes>> /\ UNCHANGED <<newFs, idx>>
      /\ UNCHANGED retErr
  BY DEF StartApply
<1>1. GivenInv' /\ TrieShape' /\ TrieExact' /\ NodeValues'
  <2>1. pending = {}
    BY <1>0 DEF TrieShape
  <2> QED
    BY <1>0, <2>1, GivenFrame, TrieFrame
<1>2. FilterInv' /\ ApplyInv'
  <2>1. FilterInv'
    BY <1>0, FilterFrame
  <2>2. ApplyInv'
    BY <1>0, LenChanges, ApplyFrame
  <2> QED
    BY <2>1, <2>2
<1>3. idx = 1 /\ newFs = image
  BY <1>0 DEF ApplyInv
<1>4. changes \in Seq([path : Paths, kind : {"add", "del", "change"}])
  BY DEF FilterInv
<1>5. ToSet(changes) = Leaves
  BY <1>0, FilterResult
<1>6. \A c \in Leaves : \E i \in 1..Len(changes) : changes[i] = c
  BY <1>4, <1>5 DEF ToSet
<1>7. ASSUME ParentsExist,
             NEW p \in DOMAIN newFs \cup DOMAIN image \cup DOMAIN container,
             ~UnderMount(p)
      PROVE  /\ Awaits(p) => Agree(newFs, image, p)
             /\ ~Awaits(p) => Agree(newFs, container, p)
  <2>1. Agree(newFs, image, p)
    BY <1>3 DEF Agree
  <2>2. ASSUME ~Awaits(p) PROVE Agree(newFs, container, p)
    <3>1. \A c \in Leaves : ~IsPrefix(c.path, p)
      BY <1>3, <1>6, <2>2 DEF Awaits
    <3>2. p \in DOMAIN image \cup DOMAIN container
      BY <1>3
    <3> QED
      BY <1>3, <1>7, <3>1, <3>2, NoLeafSame
  <2> QED
    BY <2>1, <2>2
<1>8. MigratedSoFar'
  <2>1. /\ image' = image /\ container' = container /\ mounts' = mounts
        /\ ParentsExist' <=> ParentsExist
    BY <1>0, GivenFrame DEF given
  <2>2. \A p : UnderMount(p)' <=> UnderMount(p)
    BY <2>1 DEF UnderMount
  <2>3. \A p : Awaits(p)' <=> Awaits(p)
    BY <1>0 DEF Awaits
  <2>4. newFs' = newFs
    BY <1>0
  <2>5. /\ \A p : Agree(newFs, image, p)' <=> Agree(newFs, image, p)
        /\ \A p : Agree(newFs, container, p)' <=> Agree(newFs, container, p)
    BY <2>1, <2>4 DEF Agree
  <2> QED
    BY <1>7, <2>1, <2>2, <2>3, <2>4, <2>5 DEF MigratedSoFar
<1>9. PcInv'
  BY <1>0 DEF PcInv
<1> QED
  BY <1>1, <1>2, <1>8, <1>9

(* While changes are applied each of them is a leaf, and none comes twice. *)
LEMMA ChangesAreLeaves ==
  ASSUME IInv, pc = "apply"
  PROVE  /\ Len(changes) \in Nat /\ idx \in 1..Len(changes) + 1
         /\ \A i \in 1..Len(changes) : changes[i] \in Leaves
         /\ \A i, j \in 1..Len(changes) :
              IsPrefix(changes[i].path, changes[j].path) => i = j
<1>1. /\ changes \in Seq([path : Paths, kind : {"add", "del", "change"}])
      /\ \A i, j \in DOMAIN changes : i # j => changes[i] # changes[j]
      /\ queue = <<>>
  BY DEF IInv, FilterInv
<1>2. DOMAIN changes = 1..Len(changes)
  BY <1>1
<1>3. ToSet(changes) = Leaves
  BY <1>1, FilterResult
<1>4. \A i \in 1..Len(changes) : changes[i] \in Leaves
  BY <1>2, <1>3 DEF ToSet
<1>5. ASSUME NEW i \in 1..Len(changes), NEW j \in 1..Len(changes),
             IsPrefix(changes[i].path, changes[j].path)
      PROVE  i = j
  <2>1. changes[i] = changes[j]
    BY <1>4, <1>5, LeavesApart DEF IInv
  <2> QED
    BY <1>1, <1>2, <2>1
<1> QED
  BY <1>1, <1>4, <1>5 DEF IInv, ApplyInv

(* Applying a change keeps the new rootfs a tree, and what is unchanged.   *)
LEMMA ApplyChangeKeepsTree ==
  ASSUME IInv, ApplyChange
  PROVE  ApplyInv'
<1> DEFINE c == changes[idx]
<1>0. /\ pc = "apply" /\ pc' = "apply" /\ idx <= Len(changes)
      /\ \/ /\ c.kind \in {"add", "change"} /\ CanCopy(c.path)
            /\ newFs' = Copy(c.path)
         \/ c.kind = "del" /\ newFs' = RemoveAll(c.path)
      /\ idx' = idx + 1 /\ changes' = changes
      /\ image' = image /\ container' = container
  BY DEF ApplyChange, given
<1>1. /\ Len(changes) \in Nat /\ idx \in 1..Len(changes)
      /\ c \in Listed /\ GivenInv /\ ApplyInv
  <2>1. Len(changes) \in Nat /\ idx \in 1..Len(changes) + 1
    BY <1>0, ChangesAreLeaves
  <2>2. idx \in 1..Len(changes)
    BY <1>0, <2>1
  <2>3. c \in Leaves
    BY <1>0, <2>2, ChangesAreLeaves
  <2> QED
    BY <2>1, <2>2, <2>3 DEF IInv, Leaves
<1> HIDE DEF c
<1>2. /\ IsTree(newFs') /\ DOMAIN newFs' \subseteq Seq(Names)
      /\ \A t \in DOMAIN image \cap DOMAIN container :
           image[t] = container[t] =>
             t \in DOMAIN newFs' /\ newFs'[t] = image[t]
  <2>1. CASE /\ c.kind \in {"add", "change"} /\ CanCopy(c.path)
             /\ newFs' = Copy(c.path)
    <3>1. IsTree(Copy(c.path)) /\ DOMAIN Copy(c.path) \subseteq Seq(Names)
      BY <1>1, <2>1, CopyTree
    <3>2. \A t \in DOMAIN image \cap DOMAIN container :
            image[t] = container[t] =>
              t \in DOMAIN Copy(c.path) /\ Copy(c.path)[t] = image[t]
      BY <1>1, <2>1, CopyKeepsUnchanged
    <3> QED
      BY <2>1, <3>1, <3>2
  <2>2. CASE c.kind = "del" /\ newFs' = RemoveAll(c.path)
    <3>1. IsTree(RemoveAll(c.path))
      BY <1>1, <2>2, RemoveFacts
    <3>2. DOMAIN RemoveAll(c.path) \subseteq DOMAIN newFs
      BY DEF RemoveAll
    <3>3. \A t \in DOMAIN image \cap DOMAIN container :
            image[t] = container[t] =>
              t \in DOMAIN RemoveAll(c.path) /\ RemoveAll(c.path)[t] = image[t]
      BY <1>1, <2>2, RemoveFacts
    <3> QED
      BY <1>1, <2>2, <3>1, <3>2, <3>3 DEF ApplyInv
  <2> QED
    BY <1>0, <2>1, <2>2
<1>3. IsTree(newFs)'
  BY <1>2 DEF IsTree, IsDir
<1>4. UnchangedSurvives'
  BY <1>0, <1>2 DEF UnchangedSurvives
<1>5. idx' \in 1..Len(changes') + 1
  BY <1>0, <1>1
<1> QED
  BY <1>0, <1>2, <1>3, <1>4, <1>5 DEF ApplyInv

(* Where the directories of the leaves are in the image, applying one      *)
(* makes what is at it and beneath it as in the container, unless the      *)
(* container does not have it, and touches nothing else.                   *)
LEMMA ApplyEffect ==
  ASSUME IInv, ApplyChange, ParentsExist,
         NEW q \in Seq(Names)
  PROVE  /\ ~IsPrefix(changes[idx].path, q) =>
              /\ q \in DOMAIN newFs' <=> q \in DOMAIN newFs
              /\ q \in DOMAIN newFs => newFs'[q] = newFs[q]
         /\ IsPrefix(changes[idx].path, q) =>
              /\ q \in DOMAIN container =>
                   q \in DOMAIN newFs' /\ newFs'[q] = container[q]
              /\ q \in DOMAIN newFs' \ DOMAIN container =>
                   /\ q \in DOMAIN newFs
                   /\ changes[idx].path \in DOMAIN container
<1> DEFINE c == changes[idx]
           p == c.path
<1>0. /\ pc = "apply" /\ idx <= Len(changes)
      /\ \/ /\ c.kind \in {"add", "change"} /\ CanCopy(p)
            /\ newFs' = Copy(p)
         \/ c.kind = "del" /\ newFs' = RemoveAll(p)
  BY DEF ApplyChange
<1>1. c \in Leaves /\ c \in Listed /\ GivenInv /\ ApplyInv
  <2>1. Len(changes) \in Nat /\ idx \in 1..Len(changes) + 1
    BY <1>0, ChangesAreLeaves
  <2>2. idx \in 1..Len(changes)
    BY <1>0, <2>1
  <2>3. c \in Leaves
    BY <1>0, <2>2, ChangesAreLeaves
  <2> QED
    BY <2>3 DEF IInv, Leaves
<1> HIDE DEF c
<1>2. p \in Seq(Names) /\ p # <<>> /\ IsDir(container, Front(p))
  BY <1>1, ListedFacts
<1>3. CASE c.kind \in {"add", "change"} /\ newFs' = Copy(p)
  <2>1. p \in DOMAIN container
    BY <1>1, <1>3, ListedFacts
  <2>2. Target(p) = p
    <3>1. IsDir(image, Front(p))
      BY <1>1 DEF ParentsExist
    <3>2. IsDir(newFs, Front(p))
      BY <1>1, <1>2, <3>1 DEF ApplyInv, UnchangedSurvives, IsDir
    <3> QED
      BY <1>1, <3>2, TargetFacts
  <2>3. ASSUME NEW r \in Subtree(DOMAIN container, p) PROVE Place(p, r) = r
    <3>1. r \in Seq(Names) /\ IsPrefix(p, r)
      BY <1>1, GivenFacts DEF Subtree
    <3> QED
      BY <1>2, <2>2, <3>1, PlaceKeepsTree
  <2> DEFINE source == Subtree(DOMAIN container, p)
             of == CopyOf(p)
             new == Copy(p)
  <2>4. /\ DOMAIN of = {Place(p, r) : r \in source}
        /\ \A r \in source : of[Place(p, r)] = container[r]
        /\ DOMAIN new = DOMAIN newFs \cup DOMAIN of
        /\ \A t \in DOMAIN of : new[t] = of[t]
        /\ \A t \in DOMAIN newFs : t \notin DOMAIN of => new[t] = newFs[t]
    BY <1>1, CopyFacts
  <2> HIDE DEF of, new
  <2>5. DOMAIN of = source /\ \A r \in source : of[r] = container[r]
    <3> HIDE DEF source
    <3>1. \A r \in source : Place(p, r) = r
      BY <2>3 DEF source
    <3> QED
      BY <2>4, <3>1
  <2>6. newFs' = new
    BY <1>3 DEF new
  <2>7. q \in source <=> q \in DOMAIN container /\ IsPrefix(p, q)
    BY DEF Subtree
  <2> HIDE DEF source
  <2>8. ASSUME ~IsPrefix(p, q)
        PROVE  /\ q \in DOMAIN newFs' <=> q \in DOMAIN newFs
               /\ q \in DOMAIN newFs => newFs'[q] = newFs[q]
    BY <2>4, <2>5, <2>6, <2>7, <2>8
  <2>9. ASSUME IsPrefix(p, q)
        PROVE  /\ q \in DOMAIN container =>
                    q \in DOMAIN newFs' /\ newFs'[q] = container[q]
               /\ q \in DOMAIN newFs' \ DOMAIN container =>
                    q \in DOMAIN newFs /\ p \in DOMAIN container
    BY <2>1, <2>4, <2>5, <2>6, <2>7, <2>9
  <2> QED
    BY <2>8, <2>9 DEF c
<1>4. CASE c.kind = "del" /\ newFs' = RemoveAll(p)
  <2>1. /\ DOMAIN RemoveAll(p) = {r \in DOMAIN newFs : ~IsPrefix(p, r)}
        /\ \A r \in DOMAIN RemoveAll(p) : RemoveAll(p)[r] = newFs[r]
    BY <1>1, <1>4, RemoveFacts
  <2>2. ASSUME IsPrefix(p, q) PROVE q \notin DOMAIN container
    <3>1. p \notin DOMAIN container
      BY <1>1, <1>4, ListedFacts
    <3>2. CASE q = p
      BY <3>1, <3>2
    <3>3. CASE q # p
      <4>1. DOMAIN container \subseteq Seq(Names) /\ IsTree(container)
        BY <1>1, GivenFacts
      <4>2. IsStrictPrefix(p, q)
        BY <2>2, <3>3 DEF IsStrictPrefix
      <4>3. ASSUME q \in DOMAIN container PROVE IsDir(container, p)
        BY <1>2, <4>1, <4>2, <4>3, Ancestors
      <4> QED
        BY <3>1, <4>3 DEF IsDir
    <3> QED
      BY <3>2, <3>3
  <2>3. ASSUME ~IsPrefix(p, q)
        PROVE  /\ q \in DOMAIN newFs' <=> q \in DOMAIN newFs
               /\ q \in DOMAIN newFs => newFs'[q] = newFs[q]
    BY <1>4, <2>1, <2>3
  <2>4. ASSUME IsPrefix(p, q) PROVE q \notin DOMAIN newFs'
    BY <1>4, <2>1, <2>4
  <2> QED
    BY <2>2, <2>3, <2>4 DEF c
<1> QED
  BY <1>0, <1>3, <1>4

LEMMA ApplyStep == ASSUME IInv, ApplyChange PROVE IInv'
<1>0. /\ pc = "apply" /\ pc' = "apply" /\ idx <= Len(changes)
      /\ idx' = idx + 1 /\ UNCHANGED given
      /\ UNCHANGED <<pending, trie>> /\ UNCHANGED <<trie, queue, changes>>
      /\ retErr' = retErr /\ changes' = changes
      /\ image' = image /\ container' = container /\ mounts' = mounts
  BY DEF ApplyChange, given
<1>1. GivenInv' /\ TrieShape' /\ TrieExact' /\ NodeValues' /\ FilterInv'
  <2>1. pending = {}
    BY <1>0 DEF IInv, TrieShape
  <2>2. GivenInv'
    BY <1>0, GivenFrame DEF IInv
  <2>3. TrieShape' /\ TrieExact' /\ NodeValues'
    BY <1>0, <2>1, TrieFrame DEF IInv
  <2>4. FilterInv'
    BY <1>0, FilterFrame DEF IInv
  <2> QED
    BY <2>2, <2>3, <2>4
<1>2. ApplyInv'
  BY ApplyChangeKeepsTree
<1>3. /\ Len(changes) \in Nat /\ idx \in 1..Len(changes) + 1
      /\ \A i \in 1..Len(changes) : changes[i] \in Leaves
      /\ \A i, j \in 1..Len(changes) :
           IsPrefix(changes[i].path, changes[j].path) => i = j
  BY <1>0, ChangesAreLeaves
<1>4. idx \in 1..Len(changes) /\ GivenInv /\ ApplyInv
  BY <1>0, <1>3 DEF IInv
<1>5. ASSUME NEW i \in 1..Len(changes)
      PROVE  changes[i].path \in Seq(Names)
  BY <1>3, <1>4, LeafFacts
<1>6. ASSUME ParentsExist,
             NEW p \in DOMAIN newFs' \cup DOMAIN image \cup DOMAIN container,
             ~UnderMount(p)
      PROVE  /\ Awaits(p)' => Agree(newFs', image, p)
             /\ ~Awaits(p)' => Agree(newFs', container, p)
  <2>1. p \in Seq(Names)
    BY <1>2, <1>4, GivenFacts DEF ApplyInv
  <2>2. p \in DOMAIN newFs \cup DOMAIN image \cup DOMAIN container =>
          /\ Awaits(p) => Agree(newFs, image, p)
          /\ ~Awaits(p) => Agree(newFs, container, p)
    BY <1>0, <1>6 DEF IInv, MigratedSoFar
  <2>3. CASE IsPrefix(changes[idx].path, p)
    <3>1. Awaits(p)
      <4>1. idx \in idx..Len(changes)
        BY <1>4
      <4> QED
        BY <2>3, <4>1 DEF Awaits
    <3>2. ~Awaits(p)'
      <4> SUFFICES ASSUME NEW i \in idx + 1..Len(changes),
                          IsPrefix(changes[i].path, p)
                   PROVE  FALSE
        BY <1>0 DEF Awaits
      <4>1. i \in 1..Len(changes) /\ i # idx
        BY <1>4
      <4>2. \/ IsPrefix(changes[i].path, changes[idx].path)
            \/ IsPrefix(changes[idx].path, changes[i].path)
        BY <1>4, <1>5, <2>1, <2>3, <4>1, PrefixesComparable
      <4> QED
        BY <1>3, <1>4, <4>1, <4>2
    <3>3. /\ p \in DOMAIN container =>
               p \in DOMAIN newFs' /\ newFs'[p] = container[p]
          /\ p \in DOMAIN newFs' \ DOMAIN container =>
               p \in DOMAIN newFs /\ changes[idx].path \in DOMAIN container
      BY <1>6, <2>1, <2>3, ApplyEffect
    <3>4. ASSUME p \in DOMAIN newFs' \ DOMAIN container PROVE FALSE
      <4>1. p \in DOMAIN newFs /\ changes[idx].path \in DOMAIN container
        BY <3>3, <3>4
      <4>2. p \in DOMAIN image
        BY <2>2, <3>1, <4>1 DEF Agree
      <4>3. changes[idx] \in Leaves
        BY <1>3, <1>4
      <4> QED
        BY <1>4, <2>3, <3>4, <4>1, <4>2, <4>3, NothingDeletedInLeaf
    <3>5. Agree(newFs', container, p)
      BY <3>3, <3>4 DEF Agree
    <3> QED
      BY <3>2, <3>5
  <2>4. CASE ~IsPrefix(changes[idx].path, p)
    <3>1. /\ p \in DOMAIN newFs' <=> p \in DOMAIN newFs
          /\ p \in DOMAIN newFs => newFs'[p] = newFs[p]
      BY <1>6, <2>1, <2>4, ApplyEffect
    <3>2. Awaits(p)' <=> Awaits(p)
      <4>1. Awaits(p)' <=> \E i \in idx + 1..Len(changes) :
                             IsPrefix(changes[i].path, p)
        BY <1>0 DEF Awaits
      <4>2. \A i : i \in idx..Len(changes) <=>
                     i = idx \/ i \in idx + 1..Len(changes)
        BY <1>4
      <4> QED
        BY <2>4, <4>1, <4>2 DEF Awaits
    <3>3. p \in DOMAIN newFs \cup DOMAIN image \cup DOMAIN container
      BY <3>1
    <3>4. Awaits(p) => Agree(newFs', image, p)
      BY <2>2, <3>1, <3>3 DEF Agree
    <3>5. ~Awaits(p) => Agree(newFs', container, p)
      BY <2>2, <3>1, <3>3 DEF Agree
    <3> QED
      BY <3>2, <3>4, <3>5
  <2> QED
    BY <2>3, <2>4
<1>7. MigratedSoFar'
  <2>1. ParentsExist' <=> ParentsExist
    BY <1>0, GivenFrame
  <2>2. \A p : UnderMount(p)' <=> UnderMount(p)
    BY <1>0 DEF UnderMount
  <2>3. /\ \A p : Agree(newFs, image, p)' <=> Agree(newFs', image, p)
        /\ \A p : Agree(newFs, container, p)' <=> Agree(newFs', container, p)
    BY <1>0 DEF Agree
  <2> QED
    BY <1>0, <1>6, <2>1, <2>2, <2>3 DEF MigratedSoFar
<1>8. PcInv'
  BY <1>0 DEF IInv, PcInv
<1> QED
  BY <1>1, <1>2, <1>7, <1>8 DEF IInv

-----------------------------------------------------------------------------
(* The theorems.                                                           *)

LEMMA InvStep == ASSUME IInv, [Next]_vars PROVE IInv'
<1>1. CASE MountRootFs
  BY <1>1, MountStep
<1>2. CASE ContainerDiff
  BY <1>2, DiffStep
<1>3. ASSUME NEW c \in pending, Insert(c) PROVE IInv'
  BY <1>3, InsertStep
<1>4. CASE StartFilter
  BY <1>4, StartFilterStep
<1>5. CASE VisitNode
  BY <1>5, VisitStep
<1>6. CASE StartApply
  BY <1>6, StartApplyStep
<1>7. CASE ApplyChange
  BY <1>7, ApplyStep
<1>8. CASE ApplyFails
  BY <1>8, FailStep
<1>9. CASE EndApply
  BY <1>9, EndStep
<1>10. CASE UmountRootFs
  BY <1>10, UmountStep
<1>11. CASE UNCHANGED vars
  <2>1. /\ UNCHANGED given /\ UNCHANGED <<pending, trie>>
        /\ UNCHANGED <<queue, changes>> /\ UNCHANGED <<newFs, idx>>
        /\ UNCHANGED <<pc, retErr>>
        /\ image' = image /\ container' = container /\ mounts' = mounts
    BY <1>11 DEF vars, given
  <2>2. GivenInv' /\ Listed' = Listed /\ (ParentsExist' <=> ParentsExist)
    BY <2>1, GivenFrame DEF IInv
  <2>3. Done' = Done /\ Inserted' = Inserted
    BY <2>1, <2>2 DEF Done, Inserted
  <2>4. TrieShape' /\ NodeValues'
    BY <2>1, <2>2 DEF IInv, TrieShape, NodeValues
  <2>5. TrieExact'
    BY <2>1, <2>3 DEF IInv, TrieExact
  <2>6. KeptNodes' = KeptNodes
    BY <2>1 DEF KeptNodes, Unvisited, Kept
  <2>7. FilterInv'
    BY <2>1, <2>6 DEF IInv, FilterInv
  <2>8. ApplyInv'
    BY <2>1 DEF IInv, ApplyInv, IsTree, IsDir, UnchangedSurvives
  <2>9. MigratedSoFar'
    BY <2>1, <2>2 DEF IInv, MigratedSoFar, Awaits, UnderMount, Agree
  <2>10. Migrated' <=> Migrated
    BY <2>1, MigratedFrame
  <2>11. PcInv'
    BY <2>1, <2>2, <2>10 DEF IInv, PcInv
  <2> QED
    BY <2>2, <2>4, <2>5, <2>7, <2>8, <2>9, <2>11 DEF IInv
<1> QED
  BY <1>1, <1>2, <1>3, <1>4, <1>5, <1>6, <1>7, <1>8, <1>9, <1>10, <1>11
  DEF Next

(* At every moment of a TransformRWLayer the trie holds exactly the        *)
(* changes inserted so far, a node being ignored when another is beneath   *)
(* it; every node filter() has not visited is beneath one of its queue,    *)
(* none of which is beneath another; and if every leaf is in a directory   *)
(* of the image, then what awaits a change is as in the image, and all     *)
(* else as in the container.                                               *)
THEOREM InductiveInvariant == Spec => []IInv
<1>1. Init => IInv
  BY InitInv
<1>2. IInv /\ [Next]_vars => IInv'
  BY InvStep
<1> QED
  BY <1>1, <1>2, PTL DEF Spec

(* No cp and no RemoveAll of an applied change cuts a path of the new      *)
(* rootfs off from its directory, whatever image, container and mounts.    *)
THEOREM TypeCorrect == Spec => []TypeOK
<1>1. IInv => TypeOK
  <2> SUFFICES ASSUME IInv PROVE TypeOK
    OBVIOUS
  <2>1. ToSet(queue) \subseteq DOMAIN trie
    <3>1. queue \in Seq(DOMAIN trie)
      BY DEF IInv, FilterInv
    <3>2. \A i \in DOMAIN queue : queue[i] \in DOMAIN trie
      BY <3>1
    <3> QED
      BY <3>2 DEF ToSet
  <2>2. IsTree(newFs) /\ idx \in 1..Len(changes) + 1
    BY DEF IInv, ApplyInv
  <2>3. /\ pending \subseteq Listed
        /\ \A p \in DOMAIN trie \ {<<>>} : Front(p) \in DOMAIN trie
        /\ \A p \in DOMAIN trie : trie[p] \in {"add", "del", "change", "ignore"}
    BY DEF IInv, TrieShape, NodeValues
  <2>4. /\ pc \in {"mount", "diff", "insert", "filter", "apply", "umount",
                   "done"}
        /\ retErr \in BOOLEAN
    BY DEF IInv, PcInv
  <2> QED
    BY <2>1, <2>2, <2>3, <2>4 DEF TypeOK
<1> QED
  BY <1>1, InductiveInvariant, PTL

(* filter() returns the leaves of the report, mounts aside, each once, for *)
(* every report that lists a directory before what is in it and every      *)
(* order of the maps of children.                                          *)
THEOREM KeepsLeaves == Spec => []FilterKeepsLeaves
<1>1. IInv => FilterKeepsLeaves
  <2> SUFFICES ASSUME IInv, pc = "apply"
               PROVE  ToSet(changes) = Leaves
                      /\ Len(changes) = Cardinality(Leaves)
    BY DEF FilterKeepsLeaves
  <2>1. queue = <<>>
    BY DEF IInv, FilterInv
  <2> QED
    BY <2>1, FilterResult, FilterCount
<1> QED
  BY <1>1, InductiveInvariant, PTL

(* What the container did not change is in the new rootfs as it is in the  *)
(* image at every moment, also where cp puts a copy under another name.    *)
THEOREM KeepsUnchanged == Spec => []UnchangedSurvives
<1>1. IInv => UnchangedSurvives
  BY DEF IInv, ApplyInv
<1> QED
  BY <1>1, InductiveInvariant, PTL

(* If every leaf is in a directory of the image, a TransformRWLayer that   *)
(* returns without an error has made the new rootfs that of the container, *)
(* mounts aside, in whatever order the leaves were applied.                *)
THEOREM MigratesWhereItCan == Spec => []MigratedWhereParentsExist
<1>1. IInv => MigratedWhereParentsExist
  BY DEF IInv, PcInv, MigratedWhereParentsExist, ParentsExist
<1> QED
  BY <1>1, InductiveInvariant, PTL

=============================================================================
