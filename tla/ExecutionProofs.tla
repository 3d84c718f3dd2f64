--------------------------- MODULE ExecutionProofs ---------------------------
(***************************************************************************)
(* Proofs about generated test cases and their runs, for any tree, any     *)
(* number of descriptors and any limit on them.                            *)
(***************************************************************************)
EXTENDS Execution, FsStateStepProofs

(***************************************************************************)
(* The inductive invariant                                                 *)
(***************************************************************************)
\* The variables of the test case hold open descriptors, each its own.
FdsInv ==
  /\ fd_id_ \in Nat /\ fd_pool_ \subseteq 1..fd_id_ /\ fd_id_ <= MaxFd
  /\ open_ \subseteq 1..MaxOpen
  /\ fd_ \in [Declared -> 1..MaxOpen \cup {NotOpen}]
  /\ DescriptorsAreOwn

PoolSame == fd_pool_' = fd_pool_ /\ fd_id_' = fd_id_

\* What takes no new name for a descriptor leaves the pool alone, in each of its
\* outcomes.
LEMMA RaiseKeepsPool == Raise => fd_pool_' = fd_pool_
  BY DEF Raise, treeVars

LEMMA AddKeepsPool ==
  ASSUME NEW t, NEW kind, NEW dir, NEW nm, NEW target, AddNewNode(t, kind, dir, nm, target)
  PROVE  fd_pool_' = fd_pool_
  <1>1. CASE Raise
    BY <1>1, RaiseKeepsPool
  <1>2. CASE ~Raise
    BY <1>2 DEF AddNewNode
  <1> QED
    BY <1>1, <1>2

LEMMA NamesKeepPool ==
  ASSUME NEW dir, NEW nm, NEW old,
         \/ GenMkdir(dir, nm) \/ GenCreate(dir, nm) \/ GenSymlink(dir, nm, old)
         \/ GenHardlink(dir, nm, old) \/ GenRenameToFresh(dir, nm, old)
  PROVE  PoolSame
  <1>1. fd_id_' = fd_id_
    BY DEF GenMkdir, GenCreate, GenSymlink, GenHardlink, GenRenameToFresh, Issue
  <1>2. CASE TakeMkdir(dir, nm) \/ TakeCreate(dir, nm)
    BY <1>1, <1>2, AddKeepsPool DEF PoolSame, TakeMkdir, TakeCreate
  <1>3. CASE TakeSymlink(dir, nm, old)
    BY <1>1, <1>3, AddKeepsPool, RaiseKeepsPool DEF PoolSame, TakeSymlink
  <1>4. CASE TakeHardlink(dir, nm, old)
    BY <1>1, <1>4, RaiseKeepsPool DEF PoolSame, TakeHardlink, Relink
  <1>5. CASE TakeRename(dir, nm, old)
    BY <1>1, <1>5, RaiseKeepsPool DEF PoolSame, TakeRename, Relink
  <1> QED
    BY <1>1, <1>2, <1>3, <1>4, <1>5
       DEF GenMkdir, GenCreate, GenSymlink, GenHardlink, GenRenameToFresh

LEMMA PathsKeepPool ==
  ASSUME NEW ty, NEW path, NEW old,
         \/ GenRemove(path) \/ GenRenameOntoEmptyDir(old, path) \/ GenReduce(path)
         \/ GenTouch(ty, path) \/ GenPass(ty)
  PROVE  PoolSame
  <1> USE RaiseKeepsPool DEF PoolSame, NothingIssued, Relink
  <1>1. CASE GenRemove(path)
    BY <1>1 DEF GenRemove, TakeRemove
  <1>2. CASE GenRenameOntoEmptyDir(old, path)
    BY <1>2 DEF GenRenameOntoEmptyDir, TakeRename
  <1>3. CASE GenReduce(path)
    BY <1>3 DEF GenReduce, TakeReduce
  <1>4. CASE GenTouch(ty, path)
    BY <1>4 DEF GenTouch, TakeTouch
  <1>5. CASE GenPass(ty)
    BY <1>5 DEF GenPass
  <1> QED
    BY <1>1, <1>2, <1>3, <1>4, <1>5

(***************************************************************************)
(* Steps                                                                   *)
(***************************************************************************)
LEMMA SameFdsKeepInv ==
  ASSUME FdsInv, PoolSame, SameFds PROVE FdsInv'
  BY DEF FdsInv, PoolSame, SameFds, DescriptorsAreOwn

\* creat opens what nobody holds.
LEMMA CreateKeepsInv ==
  ASSUME FdsInv, PoolSame, NEW path, DoCreate(path) PROVE FdsInv'
  <1>1. open_ \subseteq open_' /\ open_' \subseteq 1..MaxOpen /\ fd_' = fd_
    BY DEF DoCreate, Lowest, Free, FdsInv
  <1> QED
    BY <1>1 DEF FdsInv, PoolSame, DescriptorsAreOwn

LEMMA OpenKeepsInv ==
  ASSUME FdsInv, ~raised', NEW path, NEW fd \in 1..MaxFd, GenOpen(path, fd), DoOpen(fd, path)
  PROVE  FdsInv'
  <1>1. /\ fd = fd_id_ + 1 /\ fd_id_' = fd
        /\ fd_pool_' = fd_pool_ \cup {fd}
    BY DEF GenOpen, TakeOpen, Raise
  <1>2. fd \in Declared
    BY DeclaredAssumption
  <1>3. \A k \in fd_pool_ : k # fd /\ k \in Declared
    BY <1>1, BoundsAssumption, DeclaredAssumption DEF FdsInv
  <1>4. CASE \E n \in Lowest : open_' = open_ \cup {n} /\ fd_' = [fd_ EXCEPT ![fd] = n]
    <2>1. PICK n \in Lowest : open_' = open_ \cup {n} /\ fd_' = [fd_ EXCEPT ![fd] = n]
      BY <1>4
    <2>2. n \in 1..MaxOpen /\ n \notin open_
      BY DEF Lowest, Free
    <2>3. \A k \in fd_pool_ : k # fd /\ k \in Declared /\ fd_'[k] = fd_[k]
      BY <1>3, <2>1 DEF FdsInv
    <2>4. fd_'[fd] = n
      BY <2>1, <1>2 DEF FdsInv
    <2> QED
      BY <1>1, <1>2, <2>1, <2>2, <2>3, <2>4 DEF FdsInv, DescriptorsAreOwn
  <1>5. CASE fd_' = [fd_ EXCEPT ![fd] = NotOpen] /\ open_' = open_
    <2>1. \A k \in fd_pool_ : k # fd /\ k \in Declared /\ fd_'[k] = fd_[k]
      BY <1>3, <1>5 DEF FdsInv
    <2>2. fd_'[fd] = NotOpen
      BY <1>5, <1>2 DEF FdsInv
    <2>3. NotOpen \notin open_
      BY OpenAssumption DEF FdsInv
    <2> QED
      BY <1>1, <1>2, <1>5, <2>1, <2>2, <2>3 DEF FdsInv, DescriptorsAreOwn
  <1> QED
    BY <1>4, <1>5 DEF DoOpen

\* What is closed leaves the pool with the one variable that held it.
LEMMA CloseKeepsInv ==
  ASSUME FdsInv, ~raised', NEW fd \in fd_pool_, GenClose(fd), DoClose(fd) PROVE FdsInv'
  <1>1. fd_pool_' = fd_pool_ \ {fd} /\ fd_id_' = fd_id_
    BY DEF GenClose, TakeClose, Raise, NothingIssued
  <1>2. open_' = open_ \ {fd_[fd]} /\ fd_' = fd_
    BY DEF DoClose
  <1> QED
    BY <1>1, <1>2 DEF FdsInv, DescriptorsAreOwn

LEMMA NextFdsInv == FdsInv /\ [RunNext]_runVars => FdsInv'
  <1> SUFFICES ASSUME FdsInv, [RunNext]_runVars PROVE FdsInv'
    OBVIOUS
  <1>1. ASSUME NEW nm, NEW dir, GenMkdir(dir, nm), DoMkdir(Append(dir, nm)) PROVE FdsInv'
    BY <1>1, NamesKeepPool, SameFdsKeepInv DEF DoMkdir, DoMake
  <1>2. ASSUME NEW nm, NEW dir, GenCreate(dir, nm), DoCreate(Append(dir, nm)) PROVE FdsInv'
    BY <1>2, NamesKeepPool, CreateKeepsInv
  <1>3. ASSUME NEW nm, NEW dir, NEW old, GenSymlink(dir, nm, old), DoSymlink(old, Append(dir, nm))
        PROVE  FdsInv'
    BY <1>3, NamesKeepPool, SameFdsKeepInv DEF DoSymlink, DoMake
  <1>4. ASSUME NEW nm, NEW dir, NEW old, GenHardlink(dir, nm, old), DoHardlink(old, Append(dir, nm))
        PROVE  FdsInv'
    BY <1>4, NamesKeepPool, SameFdsKeepInv DEF DoHardlink
  <1>5. ASSUME NEW nm, NEW dir, NEW old, GenRenameToFresh(dir, nm, old), DoRename(old, Append(dir, nm))
        PROVE  FdsInv'
    BY <1>5, NamesKeepPool, SameFdsKeepInv DEF DoRename
  <1>6. ASSUME NEW path, GenRemove(path), DoRemove(path) PROVE FdsInv'
    BY <1>6, PathsKeepPool, SameFdsKeepInv DEF DoRemove
  <1>7. ASSUME NEW old, NEW new, GenRenameOntoEmptyDir(old, new), DoRename(old, new) PROVE FdsInv'
    BY <1>7, PathsKeepPool, SameFdsKeepInv DEF DoRename
  <1>8. ASSUME NEW path, GenReduce(path), DoReduce(path) PROVE FdsInv'
    BY <1>8, PathsKeepPool, SameFdsKeepInv DEF DoReduce
  <1>9. ASSUME NEW ty, NEW path, GenTouch(ty, path), DoEnlarge(path) \/ DoDeepen(path)
        PROVE  FdsInv'
    BY <1>9, PathsKeepPool, SameFdsKeepInv DEF DoEnlarge, DoDeepen
  <1>10. ASSUME NEW ty, NEW cmd, NEW path, NEW fd,
                GenPass(ty), DoStatFs(path) \/ DoSync \/ DoUse(cmd, fd)
         PROVE  FdsInv'
    BY <1>10, PathsKeepPool, SameFdsKeepInv DEF DoStatFs, DoSync, DoUse
  <1>11. CASE RunNext
    <2>1. ~raised' /\ (RunNames \/ RunOnPath \/ RunOnFd)
      BY <1>11 DEF RunNext
    <2>2. CASE RunNames
      BY <2>2, <1>1, <1>2, <1>3, <1>4, <1>5 DEF RunNames
    <2>3. CASE RunOnPath
      BY <2>3, <1>6, <1>7, <1>8, <1>9, <1>10 DEF RunOnPath
    <2>4. CASE RunOnFd
      BY <2>4, <2>1, <1>10, OpenKeepsInv, CloseKeepsInv DEF RunOnFd
    <2> QED
      BY <2>1, <2>2, <2>3, <2>4
  <1>12. CASE UNCHANGED runVars
    BY <1>12, SameFdsKeepInv DEF runVars, vars, treeVars, execVars, PoolSame, SameFds
  <1> QED
    BY <1>11, <1>12

\* Whatever the commands, the descriptors that a test case counts as open are open,
\* and each is held by one variable (FileDescriptor.py, do_open and do_close of
\* syscall.cc).
THEOREM OwnDescriptors == RunSpec => []DescriptorsAreOwn
  <1>1. RunInit => FdsInv
    BY BoundsAssumption
       DEF RunInit, Init, TreeInit, ExecInit, FdsInv, DescriptorsAreOwn
  <1>2. FdsInv => DescriptorsAreOwn
    BY DEF FdsInv
  <1> QED
    BY <1>1, <1>2, NextFdsInv, PTL DEF RunSpec

(***************************************************************************)
(* A path keeps its kind                                                   *)
(***************************************************************************)
\* The name k was issued, and what the tree has under it is of that kind.
NameKind(ch, ty, foo, k, kind) ==
  /\ k \in Name /\ k <= foo
  /\ \A d, n \in Node : Has(ch, d, k, n) => ty[n] = kind

\* Inductive: every path on the disk ends in an issued name that stands for its kind,
\* in the tree or, after the two have parted, no longer in it.
DiskInv ==
  /\ PathInv
  /\ Paths \subseteq Seq(Name) /\ << >> \in Paths /\ disk_[<< >>].kind = "DIR"
  /\ \A p \in Paths, r \in Seq(Name) : IsPrefix(r, p) => r \in Paths
  /\ \A p \in Paths : p # << >> => NameKind(children_, type_, foo_id_, Last(p), disk_[p].kind)

KindsKept ==
  \A k, kind : NameKind(children_, type_, foo_id_, k, kind)
                 => NameKind(children_', type_', foo_id_', k, kind)

LEMMA NextKindsKept ==
  ASSUME PathInv, [Next]_vars
  PROVE  KindsKept
<1>1. OldNames /\ foo_id_ <= foo_id_' /\ SameKind
  BY NextOldNames, NextKeepsKind
<1>2. foo_id_ \in Nat /\ foo_id_' \in Nat
  <2>1. PathInv'
    BY NextPathInv
  <2> QED BY <2>1, PathInvTree, BoundsAssumption DEF PathInv
<1> SUFFICES ASSUME NEW k, NEW kind, NameKind(children_, type_, foo_id_, k, kind)
             PROVE  NameKind(children_', type_', foo_id_', k, kind)
  BY DEF KindsKept
<1>3. k \in Name /\ k <= foo_id_ /\ \A d, n \in Node : Has(children_, d, k, n) => type_[n] = kind
  BY DEF NameKind
<1>4. k <= foo_id_'
  BY <1>1, <1>2, <1>3 DEF Name
<1>5. \A d, n \in Node : Has(children_', d, k, n) => type_'[n] = kind
  BY <1>1, <1>3 DEF OldNames, SameKind
<1> QED BY <1>3, <1>4, <1>5 DEF NameKind

\* The name of a new jnode or link stands for its kind.
LEMMA AddedKind ==
  ASSUME PathInv, NEW nm, NewName(nm), NEW d \in Node, NEW n \in Node,
         Adds(children_, children_', d, nm, n), NEW kind, type_'[n] = kind
  PROVE  NameKind(children_', type_', foo_id_', nm, kind)
<1>1. nm \in Name /\ nm <= foo_id_' /\ \A x, y \in Node : ~Has(children_, x, nm, y)
  BY NoEdgeOfNewName DEF NewName
<1> QED BY <1>1 DEF NameKind, Adds

LEMMA UnusedNameKind ==
  ASSUME PathInv, NEW nm, NewName(nm), Stays
  PROVE  \A kind : NameKind(children_', type_', foo_id_', nm, kind)
<1>1. nm \in Name /\ nm <= foo_id_' /\ \A x, y \in Node : ~Has(children_, x, nm, y)
  BY NoEdgeOfNewName DEF NewName
<1> QED BY <1>1 DEF NameKind, Stays

LEMMA MadeKind ==
  ASSUME PathInv, NEW dir, NEW nm, NewName(nm), NEW kind, NEW target,
         Stays \/ Made(dir, nm, kind, target)
  PROVE  NameKind(children_', type_', foo_id_', nm, kind)
<1>1. ASSUME Made(dir, nm, kind, target)
      PROVE  NameKind(children_', type_', foo_id_', nm, kind)
  <2>1. /\ Walk(children_, dir) \in Node /\ id_count_ \in Node
        /\ Adds(children_, children_', Walk(children_, dir), nm, id_count_)
        /\ type_' = [type_ EXCEPT ![id_count_] = kind]
    BY <1>1 DEF Made
  <2>2. type_'[id_count_] = kind
    BY <2>1, PathInvTree
  <2> QED BY <2>1, <2>2, AddedKind
<1> QED BY <1>1, UnusedNameKind

LEMMA LinkedKind ==
  ASSUME PathInv, NEW dir, NEW nm, NewName(nm), NEW old, Stays \/ HardLinked(dir, nm, old)
  PROVE  NameKind(children_', type_', foo_id_', nm, "FILE")
<1>1. ASSUME HardLinked(dir, nm, old)
      PROVE  NameKind(children_', type_', foo_id_', nm, "FILE")
  BY <1>1, AddedKind DEF HardLinked
<1> QED BY <1>1, UnusedNameKind

\* A rename takes the kind of the old name to the new one.
LEMMA MovedKind ==
  ASSUME PathInv, PathInv', NEW from \in Seq(Name), NEW onm \in Name,
         NEW dir, NEW nm \in Name, NEW ch, MovedTo(from, onm, dir, nm, ch)
  PROVE  \A kind : NameKind(children_, type_, foo_id_, onm, kind)
                     => NameKind(children_', type_', foo_id_', nm, kind)
<1> DEFINE n == Walk(children_, Append(from, onm))
           d == Walk(children_, dir)
<1>1. /\ n \in Node /\ d \in Node /\ type_' = type_
      /\ Cuts(children_, ch, {}, {onm, nm})
      /\ Adds(ch, children_', d, nm, n)
  BY DEF MovedTo
<1>2. \E c \in Node : Has(children_, c, onm, n)
  <2>1. Dicts(children_)
    BY PathInvTree
  <2> QED BY <1>1, <2>1, WalkStep
<1> HIDE DEF n, d
<1>3. \A x, y \in Node : Has(children_', x, nm, y) => y = n
  BY <1>1 DEF Adds, Cuts
<1>4. nm <= foo_id_'
  BY <1>1 DEF PathInv, Adds
<1> QED BY <1>1, <1>2, <1>3, <1>4 DEF NameKind

(***************************************************************************)
(* What a step does to the disk                                            *)
(***************************************************************************)
LEMMA FewerPaths ==
  ASSUME DiskInv, PathInv', KindsKept, Paths' \subseteq Paths, << >> \in Paths',
         \A q \in Paths' : disk_'[q] = disk_[q],
         \A p \in Paths', r \in Paths : IsPrefix(r, p) => r \in Paths'
  PROVE  DiskInv'
<1>1. Paths' \subseteq Seq(Name) /\ disk_'[<< >>].kind = "DIR"
  BY DEF DiskInv
<1>2. \A p \in Paths', r \in Seq(Name) : IsPrefix(r, p) => r \in Paths'
  BY DEF DiskInv
<1>3. \A p \in Paths' : p # << >> =>
        NameKind(children_', type_', foo_id_', Last(p), disk_'[p].kind)
  BY DEF DiskInv, KindsKept
<1> QED BY <1>1, <1>2, <1>3 DEF DiskInv

LEMMA SameDisk ==
  ASSUME DiskInv, PathInv', KindsKept, disk_' = disk_
  PROVE  DiskInv'
<1>1. Paths' = Paths
  BY DEF Paths
<1>2. << >> \in Paths
  BY DEF DiskInv
<1> QED BY <1>1, <1>2, FewerPaths

LEMMA DropPaths ==
  ASSUME DiskInv, PathInv', KindsKept, NEW path \in Seq(Name),
         Drop(Under(path)) \/ (path # << >> /\ Drop(AtOrUnder(path)))
  PROVE  DiskInv'
<1> DEFINE Gone(S) == Drop(S) /\ << >> \notin S
                        /\ \A p \in S, q \in Paths : IsPrefix(p, q) => q \in S
<1>1. << >> \in Paths /\ Paths \subseteq Seq(Name)
  BY DEF DiskInv
<1>2. \A p \in Seq(Name) : IsPrefix(p, << >>) => p = << >>
  BY PrefixOfEmpty
<1>3. \A p, q \in Paths : IsPrefix(path, p) /\ IsPrefix(p, q) => IsPrefix(path, q)
  BY <1>1, PrefixTransitive
<1>4. ASSUME path # << >>, Drop(AtOrUnder(path)) PROVE Gone(AtOrUnder(path))
  BY <1>2, <1>3, <1>4 DEF AtOrUnder
<1>5. ASSUME Drop(Under(path)) PROVE Gone(Under(path))
  <2>1. << >> \notin Under(path)
    BY <1>2 DEF Under, IsStrictPrefix
  <2>2. ASSUME NEW p \in Paths, NEW q \in Paths, IsStrictPrefix(path, p), IsPrefix(p, q)
        PROVE  IsStrictPrefix(path, q)
    <3>1. IsPrefix(path, q) /\ IsPrefix(path, p) /\ path # p
      BY <1>3, <2>2 DEF IsStrictPrefix
    <3>2. Len(path) <= Len(p) /\ Len(p) <= Len(q)
      BY <2>2, <3>1 DEF IsPrefix
    <3>3. ASSUME q = path PROVE FALSE
      <4>1. PICK u \in Seq(Name) : p = path \o u
        BY <1>1, <3>1, PrefixIsConcat
      <4>2. PICK v \in Seq(Name) : path = p \o v
        BY <1>1, <2>2, <3>3, PrefixIsConcat
      <4>3. Len(p) = Len(path) + Len(u) /\ Len(path) = Len(p) + Len(v)
        BY <1>1, <4>1, <4>2, ConcatProperties
      <4>4. Len(u) = 0
        BY <1>1, <4>3
      <4>5. u = << >>
        BY <4>4, EmptySeq
      <4> QED BY <3>1, <4>1, <4>5, ConcatEmptySeq
    <3> QED BY <3>1, <3>3 DEF IsStrictPrefix
  <2> QED BY <1>5, <2>1, <2>2 DEF Under
<1>6. PICK S \in {Under(path), AtOrUnder(path)} : Gone(S)
  BY <1>4, <1>5
<1>7. /\ disk_' = [q \in Paths \ S |-> disk_[q]] /\ << >> \notin S
      /\ \A p \in S, q \in Paths : IsPrefix(p, q) => q \in S
  BY <1>6 DEF Drop
<1> HIDE DEF Gone
<1>8. Paths' = Paths \ S /\ \A q \in Paths' : disk_'[q] = disk_[q]
  BY <1>7 DEF Paths
<1> QED BY <1>1, <1>7, <1>8, FewerPaths

LEMMA PutPath ==
  ASSUME DiskInv, PathInv', KindsKept, NEW dir \in Seq(Name), NEW nm \in Name,
         NEW kind, NameKind(children_', type_', foo_id_', nm, kind),
         NEW ino, NEW target, HasPlace(Append(dir, nm)), Put(Append(dir, nm), kind, ino, target)
  PROVE  DiskInv'
<1> DEFINE p == Append(dir, nm)
<1>1. /\ p \in Seq(Name) /\ p # << >> /\ Front(p) = dir /\ Last(p) = nm
  BY AppendProperties, FrontLastOfAppend
<1>2. p \notin Paths /\ dir \in Paths
  BY <1>1 DEF HasPlace, IsDir
<1>3. disk_' = [q \in Paths \cup {p} |->
                  IF q = p THEN [kind |-> kind, ino |-> ino, target |-> target] ELSE disk_[q]]
  BY DEF Put
<1>4. \A r \in Seq(Name) : IsPrefix(r, p) => r = p \/ IsPrefix(r, dir)
  BY PrefixOfAppend
<1> HIDE DEF p
<1>5. /\ Paths' = Paths \cup {p} /\ disk_'[p].kind = kind
      /\ \A q \in Paths : disk_'[q] = disk_[q]
  BY <1>2, <1>3 DEF Paths
<1>6. Paths' \subseteq Seq(Name) /\ << >> \in Paths' /\ disk_'[<< >>].kind = "DIR"
  BY <1>1, <1>5 DEF DiskInv
<1>7. \A q \in Paths', r \in Seq(Name) : IsPrefix(r, q) => r \in Paths'
  BY <1>2, <1>4, <1>5 DEF DiskInv
<1>8. \A q \in Paths' : q # << >> =>
        NameKind(children_', type_', foo_id_', Last(q), disk_'[q].kind)
  BY <1>1, <1>5 DEF DiskInv, KindsKept
<1> QED BY <1>6, <1>7, <1>8 DEF DiskInv

LEMMA MovedIsConcat ==
  ASSUME NEW a \in Seq(Name), NEW b \in Seq(Name), NEW s \in Seq(Name)
  PROVE  Moved(a, b, a \o s) = b \o s /\ IsPrefix(a, a \o s) /\ a \o s \in Seq(Name)
<1>1. SubSeq(a \o s, Len(a) + 1, Len(a \o s)) = s
  BY AfterPrefix
<1>2. a \o s \in Seq(Name)
  BY ConcatProperties
<1> QED BY <1>1, <1>2, PrefixIsConcat DEF Moved

\* rename(2) takes what is below the old path to the new one, and nothing else: there
\* is nothing below the new path, for it is not there or empty.
LEMMA MovedDisk ==
  ASSUME DiskInv, NEW old \in Seq(Name), NEW new \in Seq(Name), MayMove(old, new),
         Unrelated(new, old), DoRename(old, new)
  PROVE  /\ \A q \in Paths' :
              \/ q \in Paths /\ ~IsPrefix(old, q) /\ ~IsPrefix(new, q) /\ disk_'[q] = disk_[q]
              \/ \E s \in Seq(Name) :
                   q = new \o s /\ old \o s \in Paths /\ disk_'[q] = disk_[old \o s]
         /\ \A q \in Paths : ~IsPrefix(old, q) /\ ~IsPrefix(new, q) => q \in Paths' /\ disk_'[q] = disk_[q]
         /\ \A s \in Seq(Name) : old \o s \in Paths => new \o s \in Paths'
<1> DEFINE stay == Paths \ (AtOrUnder(old) \cup {new})
           move == {Moved(old, new, p) : p \in AtOrUnder(old)}
<1>1. disk_' = [q \in stay \cup move |->
                  IF IsPrefix(new, q) THEN disk_[Moved(new, old, q)] ELSE disk_[q]]
  BY DEF DoRename
<1>2. Paths \subseteq Seq(Name) /\ \A p \in Paths, r \in Seq(Name) : IsPrefix(r, p) => r \in Paths
  BY DEF DiskInv
<1>3. ASSUME NEW q \in Paths, IsPrefix(new, q) PROVE q = new
  <2>1. new \in Paths
    BY <1>2, <1>3
  <2> QED BY <1>3, <2>1 DEF MayMove, IsEmpty, Under, IsStrictPrefix
<1>4. \A q : q \in stay <=> q \in Paths /\ ~IsPrefix(old, q) /\ q # new
  BY DEF AtOrUnder
<1>5. ASSUME NEW s \in Seq(Name), old \o s \in Paths PROVE new \o s \in move
  <2>1. Moved(old, new, old \o s) = new \o s /\ old \o s \in AtOrUnder(old)
    BY <1>5, MovedIsConcat DEF AtOrUnder
  <2> QED BY <2>1
<1>6. ASSUME NEW q \in move PROVE \E s \in Seq(Name) : q = new \o s /\ old \o s \in Paths
  <2>1. PICK p \in Paths : IsPrefix(old, p) /\ q = Moved(old, new, p)
    BY DEF AtOrUnder
  <2>2. PICK s \in Seq(Name) : p = old \o s
    BY <1>2, <2>1, PrefixIsConcat
  <2> QED BY <2>1, <2>2, MovedIsConcat
<1> HIDE DEF stay, move
<1>7. Paths' = stay \cup move
  BY <1>1 DEF Paths
<1>8. \A q \in Paths' :
        disk_'[q] = IF IsPrefix(new, q) THEN disk_[Moved(new, old, q)] ELSE disk_[q]
  BY <1>1, <1>7
<1>9. ASSUME NEW q \in stay PROVE q \in Paths /\ ~IsPrefix(old, q) /\ ~IsPrefix(new, q)
  BY <1>3, <1>4
<1>10. ASSUME NEW s \in Seq(Name), new \o s \in Paths'
       PROVE  disk_'[new \o s] = disk_[old \o s]
  <2>1. Moved(new, old, new \o s) = old \o s /\ IsPrefix(new, new \o s)
    BY MovedIsConcat
  <2> QED BY <1>8, <1>10, <2>1
<1>11. \A q \in Paths : ~IsPrefix(old, q) /\ ~IsPrefix(new, q) => q \in stay
  BY <1>2, <1>4, PrefixSelf
<1>12. ASSUME NEW q \in Paths'
       PROVE  \/ q \in Paths /\ ~IsPrefix(old, q) /\ ~IsPrefix(new, q) /\ disk_'[q] = disk_[q]
              \/ \E s \in Seq(Name) :
                   q = new \o s /\ old \o s \in Paths /\ disk_'[q] = disk_[old \o s]
  <2>1. ASSUME q \in stay PROVE q \in Paths /\ ~IsPrefix(old, q) /\ ~IsPrefix(new, q) /\ disk_'[q] = disk_[q]
    BY <1>8, <1>9, <2>1
  <2>2. ASSUME q \in move
        PROVE  \E s \in Seq(Name) : q = new \o s /\ old \o s \in Paths /\ disk_'[q] = disk_[old \o s]
    BY <1>6, <1>10, <2>2
  <2> QED BY <1>7, <2>1, <2>2
<1> QED BY <1>5, <1>7, <1>8, <1>11, <1>12

LEMMA RenamePath ==
  ASSUME DiskInv, PathInv', KindsKept, NEW old \in Seq(Name), NEW new \in Seq(Name),
         Unrelated(new, old), DoRename(old, new),
         \A kind : NameKind(children_, type_, foo_id_, Last(old), kind)
                     => NameKind(children_', type_', foo_id_', Last(new), kind)
  PROVE  DiskInv'
<1>1. CASE ~MayMove(old, new)
  <2>1. disk_' = disk_
    BY <1>1 DEF DoRename, Keep
  <2> QED BY <2>1, SameDisk
<1>2. CASE MayMove(old, new)
  <2>1. /\ \A q \in Paths' :
             \/ q \in Paths /\ ~IsPrefix(old, q) /\ ~IsPrefix(new, q) /\ disk_'[q] = disk_[q]
             \/ \E s \in Seq(Name) :
                  q = new \o s /\ old \o s \in Paths /\ disk_'[q] = disk_[old \o s]
        /\ \A q \in Paths : ~IsPrefix(old, q) /\ ~IsPrefix(new, q) => q \in Paths' /\ disk_'[q] = disk_[q]
        /\ \A s \in Seq(Name) : old \o s \in Paths => new \o s \in Paths'
    BY <1>2, MovedDisk
  <2>2. /\ Paths \subseteq Seq(Name) /\ << >> \in Paths /\ disk_[<< >>].kind = "DIR"
        /\ \A p \in Paths, r \in Seq(Name) : IsPrefix(r, p) => r \in Paths
        /\ \A p \in Paths : p # << >> =>
             NameKind(children_, type_, foo_id_, Last(p), disk_[p].kind)
    BY DEF DiskInv
  <2>3. /\ ~IsPrefix(new, old) /\ ~IsPrefix(old, new) /\ old # << >> /\ new # << >>
    BY PrefixSelf DEF Unrelated
  <2>4. old \in Paths /\ Front(new) \in Paths
    BY <1>2 DEF MayMove, IsDir
  <2>5. \A p \in Seq(Name) : IsPrefix(p, << >>) => p = << >>
    BY PrefixOfEmpty
  <2>6. << >> \in Paths' /\ disk_'[<< >>].kind = "DIR"
    BY <2>1, <2>2, <2>3, <2>5
  <2>7. Paths' \subseteq Seq(Name)
    <3>1. \A s \in Seq(Name) : new \o s \in Seq(Name)
      BY ConcatProperties
    <3> QED BY <2>1, <2>2, <3>1
  <2>8. ASSUME NEW r \in Seq(Name), r \in Paths, ~IsPrefix(old, r), ~IsPrefix(new, r)
        PROVE  r \in Paths'
    BY <2>1, <2>8
  <2>9. ASSUME NEW r \in Seq(Name), IsPrefix(r, new), r # new PROVE r \in Paths'
    <3>1. /\ Front(new) \in Seq(Name) /\ Last(new) \in Name
          /\ new = Append(Front(new), Last(new))
      BY <2>3, FrontLast
    <3>2. IsPrefix(r, Front(new))
      BY <2>9, <3>1, PrefixOfAppend
    <3>3. r \in Paths
      BY <2>2, <2>4, <3>2
    <3>4. ~IsPrefix(old, r)
      BY <2>3, <2>9, PrefixTransitive
    <3>5. ~IsPrefix(new, r)
      <4> SUFFICES ASSUME IsPrefix(new, r) PROVE FALSE
        OBVIOUS
      <4>1. IsPrefix(new, Front(new))
        BY <3>1, <3>2, PrefixTransitive
      <4>2. Len(new) <= Len(Front(new)) /\ Len(new) = Len(Front(new)) + 1 /\ Len(Front(new)) \in Nat
        BY <3>1, <4>1, AppendProperties DEF IsPrefix
      <4> QED BY <4>2
    <3> QED BY <2>8, <3>3, <3>4, <3>5
  <2>10. ASSUME NEW q \in Paths', NEW r \in Seq(Name), IsPrefix(r, q) PROVE r \in Paths'
    <3>1. ASSUME q \in Paths, ~IsPrefix(old, q), ~IsPrefix(new, q) PROVE r \in Paths'
      BY <2>2, <2>8, <2>10, <3>1, PrefixTransitive
    <3>2. ASSUME NEW s \in Seq(Name), q = new \o s, old \o s \in Paths PROVE r \in Paths'
      <4>1. IsPrefix(r, new) \/ \E u \in Seq(Name) : r = new \o u /\ IsPrefix(u, s)
        BY <2>10, <3>2, PrefixOfConcat
      <4>2. ASSUME NEW u \in Seq(Name), r = new \o u, IsPrefix(u, s) PROVE r \in Paths'
        <5>1. IsPrefix(old \o u, old \o s) /\ old \o u \in Seq(Name)
          BY <4>2, ConcatPrefix, ConcatProperties
        <5> QED BY <2>1, <2>2, <3>2, <4>2, <5>1
      <4>3. r = new => r \in Paths'
        <5>1. << >> \in Seq(Name) /\ IsPrefix(<< >>, s) /\ new \o << >> = new
          BY EmptySeq, PrefixSelf, ConcatEmptySeq
        <5> QED BY <4>2, <5>1
      <4> QED BY <2>9, <4>1, <4>2, <4>3
    <3> QED BY <2>1, <3>1, <3>2
  <2>11. ASSUME NEW q \in Paths', q # << >>
         PROVE  NameKind(children_', type_', foo_id_', Last(q), disk_'[q].kind)
    <3>1. ASSUME q \in Paths, disk_'[q] = disk_[q]
          PROVE  NameKind(children_', type_', foo_id_', Last(q), disk_'[q].kind)
      BY <2>2, <2>11, <3>1 DEF KindsKept
    <3>2. ASSUME NEW s \in Seq(Name), q = new \o s, old \o s \in Paths, disk_'[q] = disk_[old \o s]
          PROVE  NameKind(children_', type_', foo_id_', Last(q), disk_'[q].kind)
      <4>1. CASE s = << >>
        <5>1. q = new /\ disk_'[q] = disk_[old]
          BY <3>2, <4>1, ConcatEmptySeq
        <5> QED BY <2>2, <2>3, <2>4, <5>1
      <4>2. CASE s # << >>
        <5>1. old \o s # << >> /\ Last(old \o s) = Last(s) /\ Last(q) = Last(s)
          BY <3>2, <4>2, LastOfConcat
        <5> QED BY <2>2, <3>2, <5>1 DEF KindsKept
      <4> QED BY <4>1, <4>2
    <3> QED BY <2>1, <3>1, <3>2
  <2> QED BY <2>6, <2>7, <2>10, <2>11 DEF DiskInv
<1> QED BY <1>1, <1>2

(***************************************************************************)
(* Each command and its call                                               *)
(***************************************************************************)
LEMMA RunIsNext ==
  ASSUME PathInv, RunNext
  PROVE  [Next]_vars
<1>1. CASE RunNames
  <2>1. GenNames
    BY <1>1 DEF RunNames, GenNames
  <2> QED BY <2>1 DEF Next
<1>2. ASSUME NEW ty, GenPass(ty) PROVE UNCHANGED vars
  BY <1>2, TreeFields DEF GenPass, Relink, Become, NothingIssued, vars, treeVars
<1>3. CASE RunOnPath
  <2>1. GenOnPath \/ \E ty : GenPass(ty)
    <3>1. "ENLARGE" \in Touches /\ "DEEPEN" \in Touches
      BY DEF Touches
    <3>2. PickTouched("ENLARGE") = PickNonlink /\ PathsOf(PickTouched("DEEPEN")) = Dirs
      BY DEF PickTouched, Dirs
    <3> QED BY <1>3, <3>1, <3>2 DEF RunOnPath, GenOnPath
  <2> QED BY <1>2, <2>1 DEF Next
<1>4. CASE RunOnFd
  <2>1. GenOnFd \/ \E ty : GenPass(ty)
    BY <1>4 DEF RunOnFd, GenOnFd
  <2> QED BY <1>2, <2>1 DEF Next
<1> QED BY <1>1, <1>3, <1>4 DEF RunNext

LEMMA RunNamesDiskInv ==
  ASSUME DiskInv, PathInv', KindsKept, RunNames, ~raised'
  PROVE  DiskInv'
<1>1. PICK nm \in {n \in Numbers : FreshName(n)}, dir \in Dirs :
        \/ GenMkdir(dir, nm) /\ DoMkdir(Append(dir, nm))
        \/ GenCreate(dir, nm) /\ DoCreate(Append(dir, nm))
        \/ \E old \in PathsOf(PickAny) : GenSymlink(dir, nm, old) /\ DoSymlink(old, Append(dir, nm))
        \/ \E old \in PathsOf(PickFile) : GenHardlink(dir, nm, old) /\ DoHardlink(old, Append(dir, nm))
        \/ \E old \in PathsOf(PickAny \ {Root}) :
             GenRenameToFresh(dir, nm, old) /\ DoRename(old, Append(dir, nm))
  BY DEF RunNames
<1>2. PathInv
  BY DEF DiskInv
<1>3. dir \in Seq(Name) /\ nm \in Name
  BY <1>2, PickedPaths, BoundsAssumption DEF Dirs, PickDir, Numbers, Name
<1>4. Issue(nm) => NewName(nm)
  BY <1>2, <1>3, PathInvTree DEF Issue, FreshName, NewName
<1>5. /\ PickAny \subseteq Node /\ PickFile \subseteq Node
  BY <1>2, PickedPaths DEF PickAny, PickFile
<1>6. Append(dir, nm) \in Seq(Name) /\ Last(Append(dir, nm)) = nm
  BY <1>3, AppendProperties, FrontLastOfAppend
<1>7. ASSUME NEW kind, NEW ino, NEW target,
             NameKind(children_', type_', foo_id_', nm, kind),
             \/ disk_' = disk_
             \/ HasPlace(Append(dir, nm)) /\ Put(Append(dir, nm), kind, ino, target)
      PROVE  DiskInv'
  BY <1>3, <1>7, SameDisk, PutPath
<1>8. CASE GenMkdir(dir, nm) /\ DoMkdir(Append(dir, nm))
  <2>1. NewJnodeFits /\ NewName(nm) /\ AddNewNode(Tree, "DIR", dir, nm, << >>)
    BY <1>4, <1>8 DEF GenMkdir, TakeMkdir
  <2>2. Stays \/ Made(dir, nm, "DIR", << >>)
    BY <1>2, <1>3, <2>1, TreeFields, AddNewNodeEffect DEF Kind
  <2>3. NameKind(children_', type_', foo_id_', nm, "DIR")
    BY <1>2, <2>1, <2>2, MadeKind
  <2> QED BY <1>7, <1>8, <2>3 DEF DoMkdir, DoMake, Keep
<1>9. CASE GenCreate(dir, nm) /\ DoCreate(Append(dir, nm))
  <2>1. NewJnodeFits /\ NewName(nm) /\ AddNewNode(Tree, "FILE", dir, nm, << >>)
    BY <1>4, <1>9 DEF GenCreate, TakeCreate
  <2>2. Stays \/ Made(dir, nm, "FILE", << >>)
    BY <1>2, <1>3, <2>1, TreeFields, AddNewNodeEffect DEF Kind
  <2>3. NameKind(children_', type_', foo_id_', nm, "FILE")
    BY <1>2, <2>1, <2>2, MadeKind
  <2> QED BY <1>7, <1>9, <2>3 DEF DoCreate, Keep
<1>10. ASSUME NEW old \in PathsOf(PickAny), GenSymlink(dir, nm, old), DoSymlink(old, Append(dir, nm))
       PROVE  DiskInv'
  <2>1. NewJnodeFits /\ NewName(nm) /\ TakeSymlink(dir, nm, old)
    BY <1>4, <1>10 DEF GenSymlink
  <2>2. Stays \/ Made(dir, nm, "SYMLINK", old)
    BY <1>2, <1>3, <2>1, SymlinkEffect
  <2>3. NameKind(children_', type_', foo_id_', nm, "SYMLINK")
    BY <1>2, <2>1, <2>2, MadeKind
  <2> QED BY <1>7, <1>10, <2>3 DEF DoSymlink, DoMake, Keep
<1>11. ASSUME NEW old \in PathsOf(PickFile), GenHardlink(dir, nm, old), DoHardlink(old, Append(dir, nm))
       PROVE  DiskInv'
  <2>1. NewName(nm) /\ TakeHardlink(dir, nm, old)
    BY <1>4, <1>11 DEF GenHardlink
  <2>2. Stays \/ HardLinked(dir, nm, old)
    BY <1>2, <2>1, HardlinkEffect
  <2>3. NameKind(children_', type_', foo_id_', nm, "FILE")
    BY <1>2, <2>1, <2>2, LinkedKind
  <2>4. \/ disk_' = disk_
        \/ HasPlace(Append(dir, nm)) /\ \E ino : Put(Append(dir, nm), "FILE", ino, << >>)
    BY <1>11 DEF DoHardlink, Keep
  <2> QED BY <1>7, <2>3, <2>4
<1>12. ASSUME NEW old \in PathsOf(PickAny \ {Root}), GenRenameToFresh(dir, nm, old),
              DoRename(old, Append(dir, nm))
       PROVE  DiskInv'
  <2>1. NewName(nm) /\ TakeRename(dir, nm, old) /\ Unrelated(Append(dir, nm), old)
    BY <1>4, <1>12 DEF GenRenameToFresh
  <2>2. old \in Seq(Name)
    BY <1>2, <1>5, PickedPaths
  <2>3. old # << >>
    BY <1>6, <2>1, PrefixSelf DEF Unrelated
  <2>4. Front(old) \in Seq(Name) /\ Last(old) \in Name
    BY <2>2, <2>3, FrontLast
  <2>5. PICK ch : MovedTo(Front(old), Last(old), dir, nm, ch)
    BY <1>2, <1>3, <2>1, <2>2, <2>3, RenameEffect
  <2>6. \A kind : NameKind(children_, type_, foo_id_, Last(old), kind)
                    => NameKind(children_', type_', foo_id_', nm, kind)
    BY <1>2, <1>3, <2>4, <2>5, MovedKind
  <2> QED BY <1>6, <1>12, <2>1, <2>2, <2>6, RenamePath
<1> QED BY <1>1, <1>8, <1>9, <1>10, <1>11, <1>12

LEMMA OntoDiskInv ==
  ASSUME DiskInv, PathInv', KindsKept, NEW old, NEW new, <<old, new>> \in Replacements,
         GenRenameOntoEmptyDir(old, new), DoRename(old, new), ~raised'
  PROVE  DiskInv'
<1>1. PathInv
  BY DEF DiskInv
<1>2. /\ old \in Seq(Name) /\ old # << >> /\ Front(old) \in Seq(Name) /\ Last(old) \in Name
      /\ Front(new) \in Seq(Name) /\ Last(new) \in Name /\ new = Append(Front(new), Last(new))
      /\ Unrelated(new, old)
      /\ \E ch : MovedTo(Front(old), Last(old), Front(new), Last(new), ch)
  BY <1>1, OntoMoves
<1>3. \A kind : NameKind(children_, type_, foo_id_, Last(old), kind)
                  => NameKind(children_', type_', foo_id_', Last(new), kind)
  BY <1>1, <1>2, MovedKind
<1>4. new \in Seq(Name)
  BY <1>2, AppendProperties
<1> QED BY <1>2, <1>3, <1>4, RenamePath

LEMMA NextDiskInv == DiskInv /\ [RunNext]_runVars => DiskInv'
<1> SUFFICES ASSUME DiskInv, [RunNext]_runVars PROVE DiskInv'
  OBVIOUS
<1>1. PathInv
  BY DEF DiskInv
<1>2. [Next]_vars
  BY <1>1, RunIsNext DEF runVars
<1>3. PathInv' /\ KindsKept
  BY <1>1, <1>2, NextPathInv, NextKindsKept
<1>4. CASE UNCHANGED runVars
  BY <1>3, <1>4, SameDisk DEF runVars, execVars
<1>5. ASSUME ~raised', RunNames PROVE DiskInv'
  BY <1>3, <1>5, RunNamesDiskInv
<1>6. PickAny \subseteq Node /\ PickNonlink \subseteq Node
  BY <1>1, PickedPaths DEF PickAny, PickNonlink
<1>7. ASSUME ~raised', RunOnPath PROVE DiskInv'
  <2>1. ASSUME NEW path \in PathsOf(PickAny), GenRemove(path), DoRemove(path) PROVE DiskInv'
    <3>1. path \in Seq(Name) /\ path # << >>
      BY <1>1, <1>6, <2>1, PickedPaths DEF GenRemove
    <3> QED BY <1>3, <2>1, <3>1, DropPaths, SameDisk DEF DoRemove, Keep
  <2>2. ASSUME NEW r \in Replacements, GenRenameOntoEmptyDir(r[1], r[2]), DoRename(r[1], r[2])
        PROVE  DiskInv'
    <3>1. r = <<r[1], r[2]>>
      BY DEF Replacements
    <3> QED BY <1>3, <1>7, <2>2, <3>1, OntoDiskInv
  <2>3. ASSUME NEW path \in PathsOf(PickNonlink), GenReduce(path), DoReduce(path) PROVE DiskInv'
    <3>1. path \in Seq(Name)
      BY <1>1, <1>6, PickedPaths
    <3> QED BY <1>3, <2>3, <3>1, DropPaths, SameDisk DEF DoReduce, Keep
  <2>4. ASSUME NEW path, DoEnlarge(path) \/ DoDeepen(path) \/ DoStatFs(path) \/ DoSync
        PROVE  DiskInv'
    BY <1>3, <2>4, SameDisk DEF DoEnlarge, DoDeepen, DoStatFs, DoSync, Keep
  <2> QED BY <1>7, <2>1, <2>2, <2>3, <2>4 DEF RunOnPath
<1>8. ASSUME RunOnFd PROVE DiskInv'
  <2>1. disk_' = disk_
    BY <1>8 DEF RunOnFd, DoOpen, DoClose, DoUse, Keep
  <2> QED BY <1>3, <2>1, SameDisk
<1> QED BY <1>4, <1>5, <1>7, <1>8 DEF RunNext

LEMMA InitDiskInv == RunInit => DiskInv
<1> SUFFICES ASSUME RunInit PROVE DiskInv
  OBVIOUS
<1>1. PathInv
  BY InitPathInv DEF RunInit
<1>2. Paths = {<< >>} /\ disk_[<< >>].kind = "DIR"
  BY DEF RunInit, ExecInit, Paths
<1>3. \A r \in Seq(Name) : IsPrefix(r, << >>) => r = << >>
  BY PrefixOfEmpty
<1> QED BY <1>1, <1>2, <1>3, EmptySeq DEF DiskInv

LEMMA DiskInvKinds == DiskInv => SamePathSameKind
<1> SUFFICES ASSUME DiskInv, NEW p \in Paths \cap LivePaths PROVE disk_[p].kind = type_[At(p)]
  BY DEF SamePathSameKind
<1>1. Forest(children_, type_, {}) /\ Dicts(children_)
  BY DEF DiskInv, PathInv, Forest
<1>2. p \in Seq(Name) /\ Walk(children_, p) \in Node
  BY <1>1, LivePathsAre DEF PathsIn
<1>3. CASE p = << >>
  BY <1>1, <1>3, WalkRoot DEF Forest, At, DiskInv
<1>4. CASE p # << >>
  <2>1. Front(p) \in Seq(Name) /\ Last(p) \in Name /\ p = Append(Front(p), Last(p))
    BY <1>2, <1>4, FrontLast
  <2> DEFINE d == Walk(children_, Front(p))
             n == Walk(children_, p)
  <2>2. d \in Node /\ n \in Node /\ Has(children_, d, Last(p), n)
    BY <1>1, <1>2, <2>1, WalkStep
  <2> HIDE DEF d, n
  <2>3. type_[n] = disk_[p].kind
    BY <1>4, <2>2 DEF DiskInv, NameKind
  <2> QED BY <2>3 DEF n, At
<1> QED BY <1>3, <1>4

\* Whatever has been lost or left behind on the disk, a path that is there and in the
\* generator's tree is of the same kind in both (the modes that do_enlarge and do_reduce
\* of syscall.cc switch over): names are not used again for another kind, and both
\* sides move a name with what is under it.
THEOREM KindsAgree == RunSpec => []SamePathSameKind
BY InitDiskInv, NextDiskInv, DiskInvKinds, PTL DEF RunSpec

(***************************************************************************)
(* The tree predicts the disk                                              *)
(***************************************************************************)
\* Inductive: inodes are numbers of names that were issued, only a symlink holds a
\* path, and there are finitely many paths.
InodeInv ==
  /\ IsFiniteSet(Paths)
  /\ \A p \in Paths : /\ disk_[p].ino \in 0..foo_id_
                      /\ disk_[p].kind = "FILE" => disk_[p].target = << >>

\* InStep, with its two cardinalities as what they say: an inode for each jnode, and a
\* jnode for each inode.
Predicted ==
  /\ Paths = LivePaths
  /\ \A p \in Paths : /\ disk_[p].kind = type_[At(p)]
                      /\ disk_[p].target = target_path_[At(p)]
  /\ \A p, q \in Paths : disk_[p].ino = disk_[q].ino <=> At(p) = At(q)

LEMMA ImageCount ==
  ASSUME NEW T, IsFiniteSet(T), NEW f, NEW I,
         \A x \in T : f[x] \in I, \A y \in I : \E x \in T : y = f[x]
  PROVE  /\ IsFiniteSet(I)
         /\ Cardinality(T) = Cardinality(I) <=> \A x, y \in T : f[x] = f[y] => x = y
<1> DEFINE g == [x \in T |-> f[x]]
<1>1. g \in Surjection(T, I)
  BY DEF Surjection
<1>2. g \in Injection(T, I) <=> \A x, y \in T : f[x] = f[y] => x = y
  BY <1>1 DEF Injection, IsInjective, Surjection
<1> HIDE DEF g
<1>3. IsFiniteSet(I) /\ (Cardinality(I) = Cardinality(T) <=> g \in Injection(T, I))
  BY <1>1, FS_Surjection
<1> QED BY <1>2, <1>3

\* Pairs are as many as their first and as their second parts just when each part
\* determines the other.
LEMMA PairsCount ==
  ASSUME NEW S, IsFiniteSet(S), NEW f, NEW g, NEW T, T = {<<f[p], g[p]>> : p \in S}
  PROVE  (/\ Cardinality(T) = Cardinality({x[1] : x \in T})
          /\ Cardinality(T) = Cardinality({x[2] : x \in T}))
         <=> \A p, q \in S : f[p] = f[q] <=> g[p] = g[q]
<1> DEFINE pair == [p \in S |-> <<f[p], g[p]>>]
           one == [x \in T |-> x[1]]
           two == [x \in T |-> x[2]]
<1>1. (\A p \in S : pair[p] \in T) /\ \A x \in T : \E p \in S : x = pair[p]
  OBVIOUS
<1>2. IsFiniteSet(T)
  <2> HIDE DEF pair
  <2> QED BY <1>1, ImageCount
<1>3. \A x \in T : one[x] = x[1] /\ two[x] = x[2]
  OBVIOUS
<1>4. \A x, y \in T : (one[x] = one[y] <=> x[1] = y[1]) /\ (two[x] = two[y] <=> x[2] = y[2])
  OBVIOUS
<1> HIDE DEF one, two
<1>5. Cardinality(T) = Cardinality({x[1] : x \in T}) <=> \A x, y \in T : x[1] = y[1] => x = y
  <2> DEFINE I == {x[1] : x \in T}
  <2>1. (\A x \in T : one[x] \in I) /\ \A y \in I : \E x \in T : y = one[x]
    BY <1>3
  <2> HIDE DEF I
  <2>2. Cardinality(T) = Cardinality(I) <=> \A x, y \in T : one[x] = one[y] => x = y
    BY <1>2, <2>1, ImageCount
  <2> QED BY <1>4, <2>2 DEF I
<1>6. Cardinality(T) = Cardinality({x[2] : x \in T}) <=> \A x, y \in T : x[2] = y[2] => x = y
  <2> DEFINE I == {x[2] : x \in T}
  <2>1. (\A x \in T : two[x] \in I) /\ \A y \in I : \E x \in T : y = two[x]
    BY <1>3
  <2> HIDE DEF I
  <2>2. Cardinality(T) = Cardinality(I) <=> \A x, y \in T : two[x] = two[y] => x = y
    BY <1>2, <2>1, ImageCount
  <2> QED BY <1>4, <2>2 DEF I
<1>7. (\A x, y \in T : x[1] = y[1] => x = y) <=> \A p, q \in S : f[p] = f[q] => g[p] = g[q]
  <2>1. ASSUME \A x, y \in T : x[1] = y[1] => x = y, NEW p \in S, NEW q \in S, f[p] = f[q]
        PROVE  g[p] = g[q]
    <3>1. <<f[p], g[p]>> \in T /\ <<f[q], g[q]>> \in T
      OBVIOUS
    <3>2. <<f[p], g[p]>> = <<f[q], g[q]>>
      BY <2>1, <3>1
    <3> QED BY <3>2
  <2>2. ASSUME \A p, q \in S : f[p] = f[q] => g[p] = g[q], NEW x \in T, NEW y \in T, x[1] = y[1]
        PROVE  x = y
    <3>1. PICK p \in S, q \in S : x = <<f[p], g[p]>> /\ y = <<f[q], g[q]>>
      OBVIOUS
    <3> QED BY <2>2, <3>1
  <2> QED BY <2>1, <2>2
<1>8. (\A x, y \in T : x[2] = y[2] => x = y) <=> \A p, q \in S : g[p] = g[q] => f[p] = f[q]
  <2>1. ASSUME \A x, y \in T : x[2] = y[2] => x = y, NEW p \in S, NEW q \in S, g[p] = g[q]
        PROVE  f[p] = f[q]
    <3>1. <<f[p], g[p]>> \in T /\ <<f[q], g[q]>> \in T
      OBVIOUS
    <3>2. <<f[p], g[p]>> = <<f[q], g[q]>>
      BY <2>1, <3>1
    <3> QED BY <3>2
  <2>2. ASSUME \A p, q \in S : g[p] = g[q] => f[p] = f[q], NEW x \in T, NEW y \in T, x[2] = y[2]
        PROVE  x = y
    <3>1. PICK p \in S, q \in S : x = <<f[p], g[p]>> /\ y = <<f[q], g[q]>>
      OBVIOUS
    <3> QED BY <2>2, <3>1
  <2> QED BY <2>1, <2>2
<1>9. (\A p, q \in S : f[p] = f[q] => g[p] = g[q]) /\ (\A p, q \in S : g[p] = g[q] => f[p] = f[q])
      <=> \A p, q \in S : f[p] = f[q] <=> g[p] = g[q]
  OBVIOUS
<1> QED BY <1>5, <1>6, <1>7, <1>8, <1>9

LEMMA InStepIs ==
  /\ IsFiniteSet(Paths) => (InStep <=> Predicted)
  /\ IsFiniteSet(Paths') => (InStep' <=> Predicted')
<1>1. ASSUME IsFiniteSet(Paths) PROVE InStep <=> Predicted
  <2> DEFINE same == {<<disk_[p].ino, At(p)>> : p \in Paths}
             f == [p \in Paths |-> disk_[p].ino]
             g == [p \in Paths |-> At(p)]
  <2>1. same = {<<f[p], g[p]>> : p \in Paths}
    OBVIOUS
  <2>2. \A p \in Paths : f[p] = disk_[p].ino /\ g[p] = At(p)
    OBVIOUS
  <2> HIDE DEF same, f, g
  <2>3. (/\ Cardinality(same) = Cardinality({x[1] : x \in same})
         /\ Cardinality(same) = Cardinality({x[2] : x \in same}))
        <=> \A p, q \in Paths : f[p] = f[q] <=> g[p] = g[q]
    BY <1>1, <2>1, PairsCount
  <2>4. (\A p, q \in Paths : f[p] = f[q] <=> g[p] = g[q])
        <=> \A p, q \in Paths : disk_[p].ino = disk_[q].ino <=> At(p) = At(q)
    BY <2>2
  <2> QED BY <2>3, <2>4 DEF InStep, Predicted, same
<1>2. ASSUME IsFiniteSet(Paths') PROVE InStep' <=> Predicted'
  <2> DEFINE same == {<<disk_'[p].ino, At(p)'>> : p \in Paths'}
             f == [p \in Paths' |-> disk_'[p].ino]
             g == [p \in Paths' |-> At(p)']
  <2>1. same = {<<f[p], g[p]>> : p \in Paths'}
    OBVIOUS
  <2>2. \A p \in Paths' : f[p] = disk_'[p].ino /\ g[p] = At(p)'
    OBVIOUS
  <2> HIDE DEF same, f, g
  <2>3. (/\ Cardinality(same) = Cardinality({x[1] : x \in same})
         /\ Cardinality(same) = Cardinality({x[2] : x \in same}))
        <=> \A p, q \in Paths' : f[p] = f[q] <=> g[p] = g[q]
    BY <1>2, <2>1, PairsCount
  <2>4. (\A p, q \in Paths' : f[p] = f[q] <=> g[p] = g[q])
        <=> \A p, q \in Paths' : disk_'[p].ino = disk_'[q].ino <=> At(p)' = At(q)'
    BY <2>2
  <2> QED BY <2>3, <2>4 DEF InStep, Predicted, same
<1> QED BY <1>1, <1>2

LEMMA OldInodes ==
  ASSUME InodeInv, foo_id_ \in Nat, foo_id_' \in Nat, foo_id_ <= foo_id_', IsFiniteSet(Paths'),
         \A q \in Paths' :
           \/ \E p \in Paths : disk_'[q] = disk_[p]
           \/ /\ disk_'[q].ino \in 0..foo_id_'
              /\ disk_'[q].kind = "FILE" => disk_'[q].target = << >>
  PROVE  InodeInv'
<1>1. 0..foo_id_ \subseteq 0..foo_id_'
  OBVIOUS
<1>2. ASSUME NEW q \in Paths'
      PROVE  /\ disk_'[q].ino \in 0..foo_id_'
             /\ disk_'[q].kind = "FILE" => disk_'[q].target = << >>
  BY <1>1 DEF InodeInv
<1> QED BY <1>2 DEF InodeInv

\* A new path has its own inode, or that of a file.
LEMMA PutInode ==
  ASSUME InodeInv, foo_id_ \in Nat, foo_id_' \in Nat, foo_id_ <= foo_id_',
         NEW p, NEW kind, NEW target, kind = "FILE" => target = << >>,
         NEW ino, ino \in 0..foo_id_', Put(p, kind, ino, target)
  PROVE  InodeInv'
<1>1. disk_' = [q \in Paths \cup {p} |->
                  IF q = p THEN [kind |-> kind, ino |-> ino, target |-> target] ELSE disk_[q]]
  BY DEF Put
<1>2. Paths' = Paths \cup {p} /\ IsFiniteSet(Paths')
  BY <1>1, FS_AddElement DEF Paths, InodeInv
<1>3. ASSUME NEW q \in Paths'
      PROVE  \/ \E r \in Paths : disk_'[q] = disk_[r]
             \/ /\ disk_'[q].ino \in 0..foo_id_'
                /\ disk_'[q].kind = "FILE" => disk_'[q].target = << >>
  BY <1>1, <1>2
<1> QED BY <1>2, <1>3, OldInodes

LEMMA DropInode ==
  ASSUME InodeInv, foo_id_ \in Nat, foo_id_' \in Nat, foo_id_ <= foo_id_', NEW S,
         Drop(S) \/ disk_' = disk_
  PROVE  InodeInv'
<1>1. Paths' \subseteq Paths /\ \A q \in Paths' : disk_'[q] = disk_[q]
  BY DEF Drop, Paths
<1>2. IsFiniteSet(Paths')
  BY <1>1, FS_Subset DEF InodeInv
<1> QED BY <1>1, <1>2, OldInodes

LEMMA MoveInode ==
  ASSUME InodeInv, DiskInv, foo_id_ \in Nat, foo_id_' \in Nat, foo_id_ <= foo_id_',
         NEW old \in Seq(Name), NEW new \in Seq(Name), Unrelated(new, old), DoRename(old, new)
  PROVE  InodeInv'
<1>1. CASE ~MayMove(old, new)
  BY <1>1, DropInode DEF DoRename, Keep
<1>2. CASE MayMove(old, new)
  <2> DEFINE stay == Paths \ (AtOrUnder(old) \cup {new})
             move == {Moved(old, new, p) : p \in AtOrUnder(old)}
  <2>1. Paths' = stay \cup move
    BY <1>2 DEF DoRename, Paths
  <2>2. IsFiniteSet(stay)
    BY FS_Subset DEF InodeInv
  <2>3. IsFiniteSet(AtOrUnder(old))
    BY FS_Subset DEF InodeInv, AtOrUnder
  <2>4. IsFiniteSet(move)
    <3> HIDE DEF move
    <3> DEFINE M(p) == Moved(old, new, p)
               T == AtOrUnder(old)
               f == [p \in T |-> M(p)]
    <3>1. (\A p \in T : f[p] \in move) /\ \A y \in move : \E p \in T : y = f[p]
      BY DEF move
    <3> HIDE DEF f, T
    <3>2. IsFiniteSet(T)
      BY <2>3 DEF T
    <3> QED BY <3>1, <3>2, ImageCount
  <2>5. IsFiniteSet(Paths')
    <3> HIDE DEF stay, move
    <3> QED BY <2>1, <2>2, <2>4, FS_Union
  <2>6. ASSUME NEW q \in Paths' PROVE \E p \in Paths : disk_'[q] = disk_[p]
    BY <1>2, MovedDisk
  <2> QED BY <2>5, <2>6, OldInodes
<1> QED BY <1>1, <1>2

LEMMA NextInodeInv == DiskInv /\ InodeInv /\ [RunNext]_runVars => InodeInv'
<1> SUFFICES ASSUME DiskInv, InodeInv, [RunNext]_runVars PROVE InodeInv'
  OBVIOUS
<1>1. PathInv /\ PathInv'
  <2>1. DiskInv'
    BY NextDiskInv
  <2> QED BY <2>1 DEF DiskInv
<1>2. [Next]_vars
  BY <1>1, RunIsNext DEF runVars
<1>3. foo_id_ \in Nat /\ foo_id_' \in Nat /\ foo_id_ <= foo_id_'
  BY <1>1, <1>2, NextOldNames, BoundsAssumption DEF PathInv
<1>4. /\ PickAny \subseteq Node /\ PickFile \subseteq Node /\ PickAny \ {Root} \subseteq Node
      /\ \A p \in Dirs : p \in Seq(Name)
  BY <1>1, PickedPaths DEF PickAny, PickFile, Dirs, PickDir
<1>5. ASSUME \E S : Drop(S) \/ disk_' = disk_ PROVE InodeInv'
  BY <1>3, <1>5, DropInode
<1>6. CASE RunNames
  <2>1. PICK nm \in {n \in Numbers : FreshName(n)}, dir \in Dirs :
          \/ GenMkdir(dir, nm) /\ DoMkdir(Append(dir, nm))
          \/ GenCreate(dir, nm) /\ DoCreate(Append(dir, nm))
          \/ \E old \in PathsOf(PickAny) : GenSymlink(dir, nm, old) /\ DoSymlink(old, Append(dir, nm))
          \/ \E old \in PathsOf(PickFile) : GenHardlink(dir, nm, old) /\ DoHardlink(old, Append(dir, nm))
          \/ \E old \in PathsOf(PickAny \ {Root}) :
               GenRenameToFresh(dir, nm, old) /\ DoRename(old, Append(dir, nm))
    BY <1>6 DEF RunNames
  <2>2. dir \in Seq(Name) /\ nm \in Name /\ nm \in Nat
    BY <1>4, BoundsAssumption DEF Numbers, Name
  <2>3. Append(dir, nm) \in Seq(Name) /\ Last(Append(dir, nm)) = nm
    BY <2>2, AppendProperties, FrontLastOfAppend
  <2>4. ASSUME Issue(nm), NEW kind, NEW target, kind = "FILE" => target = << >>,
               \/ disk_' = disk_
               \/ Put(Append(dir, nm), kind, nm, target)
        PROVE  InodeInv'
    <3>1. foo_id_' = nm
      BY <2>4 DEF Issue
    <3> QED BY <1>3, <1>5, <2>2, <2>4, <3>1, PutInode
  <2>5. CASE GenMkdir(dir, nm) /\ DoMkdir(Append(dir, nm))
    BY <2>3, <2>4, <2>5 DEF GenMkdir, DoMkdir, DoMake, Keep
  <2>6. CASE GenCreate(dir, nm) /\ DoCreate(Append(dir, nm))
    BY <2>3, <2>4, <2>6 DEF GenCreate, DoCreate, Keep
  <2>7. ASSUME NEW old, GenSymlink(dir, nm, old), DoSymlink(old, Append(dir, nm)) PROVE InodeInv'
    BY <2>3, <2>4, <2>7 DEF GenSymlink, DoSymlink, DoMake, Keep
  <2>8. ASSUME NEW old, GenHardlink(dir, nm, old), DoHardlink(old, Append(dir, nm)) PROVE InodeInv'
    <3>1. CASE ~(IsFile(old) /\ HasPlace(Append(dir, nm)))
      BY <1>5, <2>8, <3>1 DEF DoHardlink, Keep
    <3>2. CASE IsFile(old) /\ HasPlace(Append(dir, nm))
      <4>1. disk_[old].ino \in 0..foo_id_'
        <5>1. 0..foo_id_ \subseteq 0..foo_id_'
          BY <1>3
        <5> QED BY <3>2, <5>1 DEF InodeInv, IsFile
      <4> QED BY <1>3, <2>8, <3>2, <4>1, PutInode DEF DoHardlink
    <3> QED BY <3>1, <3>2
  <2>9. ASSUME NEW old \in PathsOf(PickAny \ {Root}), GenRenameToFresh(dir, nm, old),
               DoRename(old, Append(dir, nm))
        PROVE  InodeInv'
    <3>1. old \in Seq(Name) /\ Unrelated(Append(dir, nm), old)
      BY <1>1, <1>4, <2>9, PickedPaths DEF GenRenameToFresh
    <3> QED BY <1>3, <2>3, <2>9, <3>1, MoveInode
  <2> QED BY <2>1, <2>5, <2>6, <2>7, <2>8, <2>9
<1>7. CASE RunOnPath
  <2>1. ASSUME NEW path, DoRemove(path) \/ DoReduce(path) PROVE InodeInv'
    BY <1>5, <2>1 DEF DoRemove, DoReduce, Keep
  <2>2. ASSUME NEW r \in Replacements, GenRenameOntoEmptyDir(r[1], r[2]), DoRename(r[1], r[2])
        PROVE  InodeInv'
    <3>1. PICK x \in (PickAny \ {Root}) \X PickDir : r \in GetPath(x[1]) \X GetPath(x[2])
      BY DEF Replacements
    <3>2. x[1] \in Node /\ x[2] \in Node /\ r[1] \in GetPath(x[1]) /\ r[2] \in GetPath(x[2])
      BY <1>1, <3>1, PickedPaths DEF PickAny, PickDir
    <3>3. r[1] \in Seq(Name) /\ r[2] \in Seq(Name)
      BY <1>1, <3>2, PickedResolves
    <3>4. Unrelated(r[2], r[1])
      BY <2>2 DEF GenRenameOntoEmptyDir
    <3> QED BY <1>3, <2>2, <3>3, <3>4, MoveInode
  <2>3. ASSUME NEW path, DoEnlarge(path) \/ DoDeepen(path) \/ DoStatFs(path) \/ DoSync
        PROVE  InodeInv'
    BY <1>5, <2>3 DEF DoEnlarge, DoDeepen, DoStatFs, DoSync, Keep
  <2> QED BY <1>7, <2>1, <2>2, <2>3 DEF RunOnPath
<1>8. CASE RunOnFd
  BY <1>5, <1>8 DEF RunOnFd, DoOpen, DoClose, DoUse, Keep
<1>9. CASE UNCHANGED runVars
  BY <1>5, <1>9 DEF runVars, execVars
<1> QED BY <1>6, <1>7, <1>8, <1>9 DEF RunNext

(***************************************************************************)
(* What a call does to a disk that the tree predicts                       *)
(***************************************************************************)
SameLabels == type_' = type_ /\ target_path_' = target_path_

\* Both sides take over what they had, path by path.
LEMMA SourcesPredicted ==
  ASSUME Predicted, Paths' = LivePaths', SameLabels,
         \A q \in Paths' : \E r \in Paths : disk_'[q] = disk_[r] /\ At(q)' = At(r)
  PROVE  Predicted'
<1>1. \A q \in Paths' : /\ disk_'[q].kind = type_'[At(q)']
                        /\ disk_'[q].target = target_path_'[At(q)']
  BY DEF Predicted, SameLabels
<1>2. ASSUME NEW p \in Paths', NEW q \in Paths'
      PROVE  disk_'[p].ino = disk_'[q].ino <=> At(p)' = At(q)'
  <2>1. PICK r \in Paths : disk_'[p] = disk_[r] /\ At(p)' = At(r)
    OBVIOUS
  <2>2. PICK s \in Paths : disk_'[q] = disk_[s] /\ At(q)' = At(s)
    OBVIOUS
  <2> QED BY <2>1, <2>2 DEF Predicted
<1> QED BY <1>1, <1>2 DEF Predicted

LEMMA FilesAt ==
  /\ DOMAIN Files = LivePaths /\ \A p \in LivePaths : Files[p] = At(p)
  /\ DOMAIN Files' = LivePaths' /\ \A p \in LivePaths' : Files'[p] = At(p)'
  /\ NameSpace!Paths = LivePaths
BY DEF Files, At, NameSpace!Paths

\* A new path on both sides, to the same inode on the one and to the same jnode on
\* the other.
LEMMA PutPredicted ==
  ASSUME Predicted, NEW p, p \notin Paths, NEW i, NEW kind, NEW ino, NEW target,
         Files' = [q \in Paths \cup {p} |-> IF q = p THEN i ELSE Files[q]],
         Put(p, kind, ino, target),
         type_'[i] = kind, target_path_'[i] = target,
         \A q \in Paths : /\ type_'[At(q)] = type_[At(q)]
                          /\ target_path_'[At(q)] = target_path_[At(q)]
                          /\ disk_[q].ino = ino <=> At(q) = i
  PROVE  Predicted'
<1>1. disk_' = [q \in Paths \cup {p} |->
                  IF q = p THEN [kind |-> kind, ino |-> ino, target |-> target] ELSE disk_[q]]
  BY DEF Put
<1>2. /\ Paths' = Paths \cup {p} /\ LivePaths' = Paths \cup {p}
      /\ disk_'[p] = [kind |-> kind, ino |-> ino, target |-> target] /\ At(p)' = i
      /\ \A q \in Paths : disk_'[q] = disk_[q] /\ At(q)' = At(q)
  <2>1. Paths' = Paths \cup {p} /\ disk_'[p] = [kind |-> kind, ino |-> ino, target |-> target]
    BY <1>1 DEF Paths
  <2>2. LivePaths' = Paths \cup {p} /\ \A q \in LivePaths' : Files'[q] = At(q)'
    BY FilesAt
  <2>3. \A q \in Paths : Files[q] = At(q)
    BY FilesAt DEF Predicted
  <2>4. At(p)' = i /\ \A q \in Paths : At(q)' = At(q)
    BY <2>2, <2>3
  <2> QED BY <1>1, <2>1, <2>2, <2>4
<1>3. \A q \in Paths' : /\ disk_'[q].kind = type_'[At(q)']
                        /\ disk_'[q].target = target_path_'[At(q)']
  BY <1>2 DEF Predicted
<1>4. \A q, r \in Paths' : disk_'[q].ino = disk_'[r].ino <=> At(q)' = At(r)'
  BY <1>2 DEF Predicted
<1> QED BY <1>2, <1>3, <1>4 DEF Predicted

LEMMA StaysPredicted ==
  ASSUME Predicted, Stays, disk_' = disk_ PROVE Predicted'
<1>1. SameLabels /\ children_' = children_
  BY DEF Stays, SameLabels
<1>2. Paths' = Paths /\ LivePaths' = LivePaths /\ \A q \in Paths' : At(q)' = At(q)
  BY <1>1 DEF Paths, LivePaths, At
<1>3. Paths' = LivePaths'
  BY <1>2 DEF Predicted
<1> QED BY <1>1, <1>2, <1>3, SourcesPredicted

LEMMA RemovePredicted ==
  ASSUME Predicted, SameLabels, NEW path, NameSpace!RemoveTree(path), Drop(AtOrUnder(path))
  PROVE  Predicted'
<1>1. NameSpace!At(path) = AtOrUnder(path) /\ NameSpace!Paths = Paths
  BY FilesAt, SpaceOperators DEF NameSpace!At, AtOrUnder, Predicted
<1> DEFINE P == Paths \ AtOrUnder(path)
<1>2. Files' = [q \in P |-> Files[q]] /\ disk_' = [q \in P |-> disk_[q]]
  BY <1>1 DEF NameSpace!RemoveTree, Drop
<1>3. P \subseteq Paths /\ \A q \in Paths : Files[q] = At(q)
  BY FilesAt DEF Predicted
<1> HIDE DEF P
<1>4. Paths' = P /\ LivePaths' = P
  BY <1>2, FilesAt DEF Paths
<1>5. \A q \in P : disk_'[q] = disk_[q] /\ At(q)' = At(q)
  BY <1>2, <1>3, <1>4, FilesAt
<1> QED BY <1>3, <1>4, <1>5, SourcesPredicted

\* rename(2) and _move_node take the same paths along.
LEMMA MovePredicted ==
  ASSUME Predicted, DiskInv, SameLabels, NEW old \in Seq(Name), NEW new \in Seq(Name),
         NameSpace!MovePath(old, new), MayMove(old, new), DoRename(old, new)
  PROVE  Predicted'
<1> DEFINE at == AtOrUnder(old)
           stay == Paths \ (at \cup {new})
           below(q) == old \o SubSeq(q, Len(new) + 1, Len(q))
           moved == {new \o SubSeq(q, Len(old) + 1, Len(q)) : q \in at}
<1>1. NameSpace!At(old) = at /\ NameSpace!Paths = Paths
  BY FilesAt, SpaceOperators DEF NameSpace!At, AtOrUnder, Predicted
<1>2. Files' = [q \in stay \cup moved |-> IF q \in moved THEN Files[below(q)] ELSE Files[q]]
  BY <1>1 DEF NameSpace!MovePath
<1>3. disk_' = [q \in stay \cup moved |->
                  IF IsPrefix(new, q) THEN disk_[Moved(new, old, q)] ELSE disk_[q]]
  BY DEF DoRename, Moved
<1>4. \A q \in moved : \E p \in at : q = new \o SubSeq(p, Len(old) + 1, Len(p))
  OBVIOUS
<1>5. \A q : q \in at <=> q \in Paths /\ IsPrefix(old, q)
  BY DEF AtOrUnder
<1>6. \A q \in stay : q \in Paths /\ q # new
  OBVIOUS
<1>7. Paths \subseteq Seq(Name) /\ \A p \in Paths, r \in Seq(Name) : IsPrefix(r, p) => r \in Paths
  BY DEF DiskInv
<1> HIDE DEF at, stay, moved
<1>8. Paths' = stay \cup moved /\ LivePaths' = stay \cup moved
  BY <1>2, <1>3, FilesAt DEF Paths
<1>9. \A q \in Paths : Files[q] = At(q)
  BY FilesAt DEF Predicted
<1>10. ASSUME NEW q \in moved
       PROVE  \E p \in Paths : disk_'[q] = disk_[p] /\ At(q)' = At(p)
  <2>1. PICK p \in at : q = new \o SubSeq(p, Len(old) + 1, Len(p))
    BY <1>4
  <2>2. PICK s \in Seq(Name) : p = old \o s
    BY <1>5, <1>7, <2>1, PrefixIsConcat
  <2>3. q = new \o s
    <3>1. SubSeq(old \o s, Len(old) + 1, Len(old \o s)) = s
      BY AfterPrefix
    <3> QED BY <2>1, <2>2, <3>1
  <2>4. IsPrefix(new, q) /\ Moved(new, old, q) = p
    BY <2>2, <2>3, MovedIsConcat
  <2>5. below(q) = p
    BY <2>4 DEF Moved
  <2>6. disk_'[q] = disk_[p]
    BY <1>3, <2>4
  <2>7. Files'[q] = Files[p]
    BY <1>2, <2>5
  <2>8. At(q)' = At(p) /\ p \in Paths
    BY <1>5, <1>8, <1>9, <2>1, <2>7, FilesAt
  <2> QED BY <2>6, <2>8
<1>11. ASSUME NEW q \in stay, q \notin moved
       PROVE  \E p \in Paths : disk_'[q] = disk_[p] /\ At(q)' = At(p)
  <2>1. ~IsPrefix(new, q)
    <3> SUFFICES ASSUME IsPrefix(new, q) PROVE FALSE
      OBVIOUS
    <3>1. new \in Paths /\ q \in Paths
      BY <1>6, <1>7
    <3> QED BY <1>6, <3>1 DEF MayMove, IsEmpty, Under, IsStrictPrefix
  <2>2. disk_'[q] = disk_[q]
    BY <1>3, <2>1
  <2>3. Files'[q] = Files[q]
    BY <1>2, <1>11
  <2>4. At(q)' = At(q) /\ q \in Paths
    BY <1>6, <1>8, <1>9, <2>3, FilesAt
  <2> QED BY <2>2, <2>4
<1> QED BY <1>8, <1>10, <1>11, SourcesPredicted

\* What a path leads to was created.
LEMMA LiveIsUsed ==
  ASSUME PathInv, NEW p \in LivePaths
  PROVE  At(p) \in Node /\ type_[At(p)] # "UNUSED"
<1>1. Forest(children_, type_, {}) /\ Dicts(children_)
  BY DEF PathInv, Forest
<1>2. p \in Seq(Name) /\ At(p) \in Node
  BY <1>1, LivePathsAre DEF PathsIn, At
<1>3. CASE p = << >>
  BY <1>1, <1>2, <1>3, WalkRoot DEF Forest, At
<1>4. CASE p # << >>
  <2>1. Front(p) \in Seq(Name) /\ Last(p) \in Name /\ p = Append(Front(p), Last(p))
    BY <1>2, <1>4, FrontLast
  <2>2. /\ Walk(children_, Front(p)) \in Node
        /\ Has(children_, Walk(children_, Front(p)), Last(p), At(p))
    BY <1>1, <1>2, <2>1, WalkStep DEF At
  <2> QED BY <1>2, <2>1, <2>2 DEF PathInv
<1> QED BY <1>2, <1>3, <1>4

\* A path made on both sides; the disk has a place for it whenever the tree has.
LEMMA MakePredicted ==
  ASSUME Predicted, PathInv, PathInv', InodeInv, HeldInv,
         NEW dir \in Seq(Name), NEW nm \in Name, NEW kind \in Kind, NEW target,
         Made(dir, nm, kind, target)
  PROVE  /\ HasPlace(Append(dir, nm))
         /\ Put(Append(dir, nm), kind, nm, target) => Predicted'
<1> DEFINE p == Append(dir, nm)
<1>1. NameSpace!Make(p, id_count_, kind)
  BY MadeIsMake
<1>2. NameSpace!Paths = Paths /\ \A q \in Paths : Files[q] = At(q)
  BY FilesAt DEF Predicted
<1>3. HasPlace(p)
  BY <1>1, <1>2, SpaceOperators
     DEF NameSpace!Make, NameSpace!IsDir, HasPlace, IsDir, Predicted
<1>4. /\ foo_id_ \in Nat /\ nm = foo_id_ + 1 /\ id_count_ \in Node
      /\ type_' = [type_ EXCEPT ![id_count_] = kind]
      /\ target_path_' = [target_path_ EXCEPT ![id_count_] = target]
      /\ type_ \in [Node -> Kind \cup {"UNUSED"}] /\ target_path_ \in [Node -> Seq(Name)]
  BY PathInvTree DEF Made, NewName, HeldInv
<1>5. type_[id_count_] = "UNUSED"
  BY <1>1 DEF NameSpace!Make
<1>6. \A q \in Paths : At(q) \in Node /\ At(q) # id_count_
  BY <1>5, LiveIsUsed DEF Predicted
<1>7. \A q \in Paths : disk_[q].ino # nm
  BY <1>4 DEF InodeInv
<1>8. ASSUME Put(p, kind, nm, target) PROVE Predicted'
  <2>1. p \notin Paths
    BY <1>3 DEF HasPlace
  <2>2. Files' = [q \in Paths \cup {p} |-> IF q = p THEN id_count_ ELSE Files[q]]
    BY <1>1, <1>2 DEF NameSpace!Make
  <2>3. type_'[id_count_] = kind /\ target_path_'[id_count_] = target
    BY <1>4
  <2>4. \A q \in Paths : /\ type_'[At(q)] = type_[At(q)]
                         /\ target_path_'[At(q)] = target_path_[At(q)]
                         /\ disk_[q].ino = nm <=> At(q) = id_count_
    BY <1>4, <1>6, <1>7
  <2> HIDE DEF p
  <2> QED BY <1>8, <2>1, <2>2, <2>3, <2>4, PutPredicted
<1> QED BY <1>3, <1>8

LEMMA LinkPredicted ==
  ASSUME Predicted, PathInv, PathInv', InodeInv,
         NEW dir \in Seq(Name), NEW nm \in Name, NEW old \in Seq(Name), HardLinked(dir, nm, old)
  PROVE  /\ HasPlace(Append(dir, nm)) /\ IsFile(old)
         /\ Put(Append(dir, nm), "FILE", disk_[old].ino, << >>) => Predicted'
<1> DEFINE p == Append(dir, nm)
<1>1. NameSpace!HardLink(p, old)
  BY HardLinkedIsHardLink
<1>2. NameSpace!Paths = Paths /\ \A q \in Paths : Files[q] = At(q)
  BY FilesAt DEF Predicted
<1>3. HasPlace(p)
  BY <1>1, <1>2, SpaceOperators
     DEF NameSpace!HardLink, NameSpace!IsDir, HasPlace, IsDir, Predicted
<1>4. IsFile(old) /\ type_[At(old)] = "FILE"
  BY <1>1, <1>2 DEF NameSpace!HardLink, IsFile, Predicted
<1>5. SameLabels
  BY DEF HardLinked, SameLabels
<1>6. ASSUME Put(p, "FILE", disk_[old].ino, << >>) PROVE Predicted'
  <2>1. p \notin Paths
    BY <1>3 DEF HasPlace
  <2>2. Files' = [q \in Paths \cup {p} |-> IF q = p THEN At(old) ELSE Files[q]]
    BY <1>1, <1>2, <1>4 DEF NameSpace!HardLink, IsFile
  <2>3. target_path_[At(old)] = << >>
    BY <1>4 DEF IsFile, InodeInv, Predicted
  <2>4. \A q \in Paths : disk_[q].ino = disk_[old].ino <=> At(q) = At(old)
    BY <1>4 DEF IsFile, Predicted
  <2> HIDE DEF p
  <2> QED BY <1>4, <1>5, <1>6, <2>1, <2>2, <2>3, <2>4, PutPredicted DEF SameLabels
<1> QED BY <1>3, <1>4, <1>6

\* rename(2) refuses what the tree has moved only where an empty directory is none.
LEMMA RenamePredicted ==
  ASSUME Predicted, DiskInv, PathInv', NEW old \in Seq(Name), NEW dir \in Seq(Name), NEW nm \in Name,
         old # << >>, NEW ch, MovedTo(Front(old), Last(old), dir, nm, ch),
         DoRename(old, Append(dir, nm))
  PROVE  /\ MayMove(old, Append(dir, nm)) => Predicted'
         /\ ~MayMove(old, Append(dir, nm)) => \E p \in Paths : Under(p) = {} /\ ~IsEmpty(p)
<1> DEFINE new == Append(dir, nm)
<1>1. Front(old) \in Seq(Name) /\ Last(old) \in Name /\ old = Append(Front(old), Last(old))
  BY FrontLast
<1>2. NameSpace!MovePath(old, new)
  <2>1. PathInv
    BY DEF DiskInv
  <2> QED BY <1>1, <2>1, MovedIsMovePath
<1>3. SameLabels
  BY DEF MovedTo, SameLabels
<1>4. new \in Seq(Name)
  BY AppendProperties
<1>5. /\ NameSpace!Paths = Paths /\ \A q \in Paths : Files[q] = At(q)
      /\ \A q : NameSpace!IsDir(q) <=> IsDir(q)
  <2>1. NameSpace!Paths = Paths /\ \A q \in Paths : Files[q] = At(q)
    BY FilesAt DEF Predicted
  <2> QED BY <2>1 DEF NameSpace!IsDir, IsDir, Predicted
<1> HIDE DEF new
<1>6. old \in Paths /\ IsDir(Front(new))
  BY <1>2, <1>5, SpaceOperators DEF NameSpace!MovePath
<1>7. new \in Paths => IsDir(old) /\ IsDir(new) /\ Under(new) = {}
  <2> SUFFICES ASSUME new \in Paths PROVE IsDir(old) /\ IsDir(new) /\ Under(new) = {}
    OBVIOUS
  <2>1. NameSpace!IsEmptyDir(new) /\ NameSpace!IsDir(old)
    BY <1>2, <1>5 DEF NameSpace!MovePath
  <2>2. \A q \in Paths : IsPrefix(new, q) => q = new
    BY <1>5, <2>1, SpaceOperators DEF NameSpace!IsEmptyDir, NameSpace!At
  <2>3. Under(new) = {}
    BY <2>2 DEF Under, IsStrictPrefix
  <2> QED BY <1>5, <2>1, <2>3 DEF NameSpace!IsEmptyDir
<1>8. ~MayMove(old, new) => new \in Paths /\ Under(new) = {} /\ ~IsEmpty(new)
  BY <1>6, <1>7 DEF MayMove
<1>9. MayMove(old, new) => Predicted'
  BY <1>2, <1>3, <1>4, MovePredicted DEF new
<1> QED BY <1>8, <1>9 DEF new

(***************************************************************************)
(* Each command and its call, on a disk that the tree predicts             *)
(***************************************************************************)
\* Inductive
StepInv == DiskInv /\ TakeInv /\ InodeInv /\ FdsInv

Parts ==
  \/ entry_'.cmd = "REDUCE" \/ aborted_'
  \/ entry_'.cmd \in {"RENAME", "CREATE"} /\ ~entry_'.ok

Explained ==
  CASE entry_'.cmd = "STATFS" -> \E p \in Paths : Resolved(p) \notin Paths
    [] entry_'.cmd = "RENAME" -> \E p \in Paths : Under(p) = {} /\ ~IsEmpty(p)
    [] entry_'.cmd = "MKDIR" -> \E f \in foreign_ : f[2] = "DEEPEN"
    [] entry_'.cmd \in {"CREATE", "OPEN"} -> Free = {}
    [] entry_'.cmd \in {"CLOSE", "READ", "WRITE", "FSYNC"} ->
         \E fd \in fd_pool_ : fd_[fd] = NotOpen
    [] OTHER -> FALSE

\* What both properties say of a step from a disk that the tree predicts
Foreseen == (Parts \/ Predicted') /\ (entry_'.ok \/ aborted_' \/ Explained)

LEMMA NamesForeseen ==
  ASSUME StepInv, PathInv', Predicted, ~raised', RunNames
  PROVE  Foreseen
<1>1. PICK nm \in {n \in Numbers : FreshName(n)}, dir \in Dirs :
        \/ GenMkdir(dir, nm) /\ DoMkdir(Append(dir, nm))
        \/ GenCreate(dir, nm) /\ DoCreate(Append(dir, nm))
        \/ \E old \in PathsOf(PickAny) : GenSymlink(dir, nm, old) /\ DoSymlink(old, Append(dir, nm))
        \/ \E old \in PathsOf(PickFile) : GenHardlink(dir, nm, old) /\ DoHardlink(old, Append(dir, nm))
        \/ \E old \in PathsOf(PickAny \ {Root}) :
             GenRenameToFresh(dir, nm, old) /\ DoRename(old, Append(dir, nm))
  BY DEF RunNames
<1>2. PathInv /\ DiskInv /\ InodeInv /\ HeldInv
  BY DEF StepInv, DiskInv, TakeInv
<1>3. dir \in Seq(Name) /\ nm \in Name
  BY <1>2, PickedPaths, BoundsAssumption DEF Dirs, PickDir, Numbers, Name
<1>4. Issue(nm) => NewName(nm)
  BY <1>2, <1>3, PathInvTree DEF Issue, FreshName, NewName
<1>5. /\ PickAny \subseteq Node /\ PickFile \subseteq Node
  BY <1>2, PickedPaths DEF PickAny, PickFile
<1>6. Append(dir, nm) \in Seq(Name) /\ Last(Append(dir, nm)) = nm
  BY <1>3, AppendProperties, FrontLastOfAppend
<1>7. ASSUME NEW kind \in Kind, NEW target, Made(dir, nm, kind, target)
      PROVE  /\ HasPlace(Append(dir, nm))
             /\ Put(Append(dir, nm), kind, nm, target) => Predicted'
  BY <1>2, <1>3, <1>7, MakePredicted
<1>8. CASE GenMkdir(dir, nm) /\ DoMkdir(Append(dir, nm))
  <2>1. NewJnodeFits /\ NewName(nm) /\ AddNewNode(Tree, "DIR", dir, nm, << >>)
    BY <1>4, <1>8 DEF GenMkdir, TakeMkdir
  <2>2. Made(dir, nm, "DIR", << >>) /\ "DIR" \in Kind
    BY <1>2, <1>3, <2>1, TreeFields, AddNewNodeEffect DEF Kind
  <2>3. HasPlace(Append(dir, nm)) /\ (Put(Append(dir, nm), "DIR", nm, << >>) => Predicted')
    BY <1>7, <2>2
  <2>4. Predicted' /\ entry_'.ok
    BY <1>6, <1>8, <2>3 DEF DoMkdir, DoMake, Report
  <2> QED BY <2>4 DEF Foreseen
<1>9. CASE GenCreate(dir, nm) /\ DoCreate(Append(dir, nm))
  <2>1. NewJnodeFits /\ NewName(nm) /\ AddNewNode(Tree, "FILE", dir, nm, << >>)
    BY <1>4, <1>9 DEF GenCreate, TakeCreate
  <2>2. Made(dir, nm, "FILE", << >>) /\ "FILE" \in Kind
    BY <1>2, <1>3, <2>1, TreeFields, AddNewNodeEffect DEF Kind
  <2>3. HasPlace(Append(dir, nm)) /\ (Put(Append(dir, nm), "FILE", nm, << >>) => Predicted')
    BY <1>7, <2>2
  <2>4. \/ Predicted' /\ entry_'.ok
        \/ entry_'.cmd = "CREATE" /\ ~entry_'.ok /\ Free = {}
    BY <1>6, <1>9, <2>3 DEF DoCreate, Report
  <2> QED BY <2>4 DEF Foreseen, Parts, Explained
<1>10. ASSUME NEW old \in PathsOf(PickAny), GenSymlink(dir, nm, old), DoSymlink(old, Append(dir, nm))
       PROVE  Foreseen
  <2>1. NewJnodeFits /\ NewName(nm) /\ TakeSymlink(dir, nm, old)
    BY <1>4, <1>10 DEF GenSymlink
  <2>2. Made(dir, nm, "SYMLINK", old) /\ "SYMLINK" \in Kind
    BY <1>2, <1>3, <2>1, SymlinkEffect DEF Kind
  <2>3. HasPlace(Append(dir, nm)) /\ (Put(Append(dir, nm), "SYMLINK", nm, old) => Predicted')
    BY <1>7, <2>2
  <2>4. Predicted' /\ entry_'.ok
    BY <1>6, <1>10, <2>3 DEF DoSymlink, DoMake, Report
  <2> QED BY <2>4 DEF Foreseen
<1>11. ASSUME NEW old \in PathsOf(PickFile), GenHardlink(dir, nm, old), DoHardlink(old, Append(dir, nm))
       PROVE  Foreseen
  <2>1. NewName(nm) /\ TakeHardlink(dir, nm, old)
    BY <1>4, <1>11 DEF GenHardlink
  <2>2. HardLinked(dir, nm, old) /\ old \in Seq(Name)
    BY <1>2, <1>3, <1>5, <2>1, HardlinkEffect, PickedPaths
  <2>3. /\ HasPlace(Append(dir, nm)) /\ IsFile(old)
        /\ Put(Append(dir, nm), "FILE", disk_[old].ino, << >>) => Predicted'
    BY <1>2, <1>3, <2>2, LinkPredicted
  <2>4. Predicted' /\ entry_'.ok
    BY <1>11, <2>3 DEF DoHardlink, Report
  <2> QED BY <2>4 DEF Foreseen
<1>12. ASSUME NEW old \in PathsOf(PickAny \ {Root}), GenRenameToFresh(dir, nm, old),
              DoRename(old, Append(dir, nm))
       PROVE  Foreseen
  <2>1. NewName(nm) /\ TakeRename(dir, nm, old) /\ Unrelated(Append(dir, nm), old)
    BY <1>4, <1>12 DEF GenRenameToFresh
  <2>2. old \in Seq(Name) /\ old # << >>
    BY <1>2, <1>5, <1>6, <2>1, PickedPaths, PrefixSelf DEF Unrelated
  <2>3. PICK ch : MovedTo(Front(old), Last(old), dir, nm, ch)
    BY <1>2, <1>3, <2>1, <2>2, RenameEffect
  <2>4. /\ MayMove(old, Append(dir, nm)) => Predicted'
        /\ ~MayMove(old, Append(dir, nm)) => \E p \in Paths : Under(p) = {} /\ ~IsEmpty(p)
    BY <1>2, <1>3, <1>12, <2>2, <2>3, RenamePredicted
  <2>5. entry_'.cmd = "RENAME" /\ entry_'.ok = MayMove(old, Append(dir, nm))
    BY <1>12 DEF DoRename, Report
  <2> QED BY <2>4, <2>5 DEF Foreseen, Parts, Explained
<1> QED BY <1>1, <1>8, <1>9, <1>10, <1>11, <1>12

LEMMA OntoForeseen ==
  ASSUME StepInv, PathInv', Predicted, ~raised', NEW old, NEW new, <<old, new>> \in Replacements,
         GenRenameOntoEmptyDir(old, new), DoRename(old, new)
  PROVE  Foreseen
<1>1. PathInv /\ DiskInv
  BY DEF StepInv, DiskInv
<1>2. /\ old \in Seq(Name) /\ old # << >>
      /\ Front(new) \in Seq(Name) /\ Last(new) \in Name /\ new = Append(Front(new), Last(new))
      /\ \E ch : MovedTo(Front(old), Last(old), Front(new), Last(new), ch)
  BY <1>1, OntoMoves
<1>3. /\ MayMove(old, new) => Predicted'
      /\ ~MayMove(old, new) => \E p \in Paths : Under(p) = {} /\ ~IsEmpty(p)
  BY <1>1, <1>2, RenamePredicted
<1>4. entry_'.cmd = "RENAME" /\ entry_'.ok = MayMove(old, new)
  BY DEF DoRename, Report
<1> QED BY <1>3, <1>4 DEF Foreseen, Parts, Explained

\* What is drawn for a command is on the disk, and is what the command is for.
LEMMA DrawnIsThere ==
  ASSUME Predicted, PathInv
  PROVE  /\ \A path \in PathsOf(PickAny) \cup PathsOf(PickNonlink) \cup PathsOf(PickFile) \cup Dirs :
              path \in Seq(Name) /\ path \in Paths
         /\ \A path \in PathsOf(PickNonlink) : IsDir(path) \/ IsFile(path)
         /\ \A path \in PathsOf(PickFile) : IsFile(path)
         /\ \A path \in Dirs : IsDir(path)
<1>1. /\ PickAny \in SUBSET Node /\ PickNonlink \in SUBSET Node /\ PickFile \in SUBSET Node
      /\ PickDir \in SUBSET Node /\ PickDir \subseteq PickDir /\ PickFile \subseteq PickFile
  BY PickedPaths DEF PickAny, PickNonlink, PickFile, PickDir
<1>2. \A path \in Seq(Name) : Walk(children_, path) \in Node => path \in Paths
  BY LivePathsAre DEF Predicted, PathInv, PathsIn
<1>3. \A path \in PathsOf(PickAny) \cup PathsOf(PickNonlink) \cup PathsOf(PickFile) \cup Dirs :
        path \in Seq(Name) /\ path \in Paths
  BY <1>1, <1>2, DrawnIsFound DEF Dirs
<1>4. \A path \in Paths : disk_[path].kind = type_[Walk(children_, path)]
  BY DEF Predicted, At
<1>5. /\ \A path \in PathsOf(PickFile) : IsFile(path)
      /\ \A path \in Dirs : IsDir(path)
  BY <1>1, <1>3, <1>4, DrawnIsFound DEF Dirs, IsFile, IsDir
<1>6. ASSUME NEW path \in PathsOf(PickNonlink) PROVE IsDir(path) \/ IsFile(path)
  <2>1. PICK n \in PickNonlink : path \in GetPath(n)
    BY DEF PathsOf
  <2>2. n \in Node /\ type_[n] \in {"DIR", "FILE"}
    BY <1>1 DEF PickNonlink, Pick, Visited
  <2>3. Walk(children_, path) = n \/ Walk(children_, path) = Root
    BY <2>1, <2>2, PickedResolves
  <2>4. type_[Walk(children_, path)] \in {"DIR", "FILE"}
    BY <2>2, <2>3 DEF PathInv, Forest
  <2> QED BY <1>3, <1>4, <2>4 DEF IsDir, IsFile
<1> QED BY <1>3, <1>5, <1>6

\* Commands that only look the tree up
LEMMA LookupStays ==
  ASSUME PathInv, NEW ty, NEW path, NEW fd,
         GenTouch(ty, path) \/ GenPass(ty) \/ GenOpen(path, fd) \/ GenClose(fd)
  PROVE  Stays
<1>0. foo_id_ \in foo_id_..MaxName
  BY PathInvTree DEF PathInv
<1>1. CASE GenTouch(ty, path)
  BY <1>0, <1>1, RaiseEffect, TreeFields, PathInvTree
     DEF GenTouch, TakeTouch, Relink, Become, Stays, PathInv, NothingIssued
<1>2. CASE GenPass(ty)
  BY <1>0, <1>2, TreeFields, PathInvTree DEF GenPass, Relink, Become, Stays, PathInv, NothingIssued
<1>3. CASE GenOpen(path, fd)
  BY <1>0, <1>3, RaiseEffect, TreeFields, PathInvTree DEF GenOpen, TakeOpen, Become, Stays, PathInv
<1>4. CASE GenClose(fd)
  BY <1>0, <1>4, RaiseEffect, TreeFields, PathInvTree
     DEF GenClose, TakeClose, Become, Stays, PathInv, NothingIssued
<1> QED BY <1>1, <1>2, <1>3, <1>4

LEMMA OnPathForeseen ==
  ASSUME StepInv, PathInv', Predicted, ~raised', RunOnPath
  PROVE  Foreseen
<1>1. PathInv /\ DiskInv
  BY DEF StepInv, DiskInv
<1>2. ASSUME NEW path \in PathsOf(PickAny), GenRemove(path), DoRemove(path) PROVE Foreseen
  <2>1. path \in Seq(Name) /\ path \in Paths /\ path # << >> /\ TakeRemove(path) /\ UNCHANGED foo_id_
    BY <1>1, <1>2, DrawnIsThere DEF GenRemove, NothingIssued
  <2>2. Removed(Front(path), Last(path))
    BY <1>1, <2>1, RemoveEffect
  <2>3. Front(path) \in Seq(Name) /\ Last(path) \in Name /\ path = Append(Front(path), Last(path))
    BY <2>1, FrontLast
  <2>4. NameSpace!RemoveTree(path) /\ SameLabels
    BY <1>1, <2>2, <2>3, RemovedIsRemoveTree DEF Removed, SameLabels
  <2>5. Drop(AtOrUnder(path)) /\ entry_'.ok
    BY <1>2, <2>1 DEF DoRemove, Report
  <2>6. Predicted'
    BY <2>4, <2>5, RemovePredicted
  <2> QED BY <2>5, <2>6 DEF Foreseen
<1>3. ASSUME NEW r \in Replacements, GenRenameOntoEmptyDir(r[1], r[2]), DoRename(r[1], r[2])
      PROVE  Foreseen
  <2>1. r = <<r[1], r[2]>>
    BY DEF Replacements
  <2> QED BY <1>3, <2>1, OntoForeseen
<1>4. ASSUME NEW path \in PathsOf(PickNonlink), GenReduce(path), DoReduce(path) PROVE Foreseen
  <2>1. path \in Seq(Name) /\ path \in Paths /\ (IsDir(path) \/ IsFile(path))
    BY <1>1, DrawnIsThere
  <2>2. CASE IsDir(path)
    <3>1. aborted_' \/ (entry_'.cmd = "REDUCE" /\ entry_'.ok)
      BY <1>4, <2>2 DEF DoReduce, Report
    <3> QED BY <3>1 DEF Foreseen, Parts
  <2>3. CASE ~IsDir(path)
    <3>1. type_[Walk(children_, path)] # "DIR"
      BY <2>1, <2>3 DEF IsDir, Predicted, At
    <3>2. TakeReduce(path) /\ UNCHANGED foo_id_
      BY <1>4 DEF GenReduce, NothingIssued
    <3>3. Stays
      BY <1>1, <2>1, <3>1, <3>2, ReduceEffect DEF Emptied
    <3>4. aborted_' \/ (disk_' = disk_ /\ entry_'.ok)
      BY <1>4, <2>1, <2>3 DEF DoReduce, Report, Keep
    <3> QED BY <3>3, <3>4, StaysPredicted DEF Foreseen, Parts
  <2> QED BY <2>2, <2>3
<1>5. ASSUME NEW path \in PathsOf(PickNonlink), GenTouch("ENLARGE", path), DoEnlarge(path)
      PROVE  Foreseen
  <2>1. disk_' = disk_ /\ entry_'.ok
    BY <1>1, <1>5, DrawnIsThere DEF DoEnlarge, Report
  <2> QED BY <1>1, <1>5, <2>1, LookupStays, StaysPredicted DEF Foreseen
<1>6. ASSUME NEW path \in Dirs, GenTouch("DEEPEN", path), DoDeepen(path) PROVE Foreseen
  <2>1. IsDir(path)
    BY <1>1, DrawnIsThere
  <2>2. /\ disk_' = disk_
        /\ entry_'.ok \/ (entry_'.cmd = "MKDIR" /\ <<disk_[path].ino, "DEEPEN">> \in foreign_)
    BY <1>6, <2>1 DEF DoDeepen, Report
  <2>3. <<disk_[path].ino, "DEEPEN">>[2] = "DEEPEN"
    OBVIOUS
  <2> QED BY <1>1, <1>6, <2>2, <2>3, LookupStays, StaysPredicted DEF Foreseen, Explained
<1>7. ASSUME NEW path \in PathsOf(PickAny), GenPass("STATFS"), DoStatFs(path) PROVE Foreseen
  <2>1. /\ path \in Paths /\ disk_' = disk_
        /\ entry_'.cmd = "STATFS" /\ entry_'.ok = (Resolved(path) \in Paths)
    BY <1>1, <1>7, DrawnIsThere DEF DoStatFs, Report, Keep
  <2> QED BY <1>1, <1>7, <2>1, LookupStays, StaysPredicted DEF Foreseen, Explained
<1>8. ASSUME GenPass("SYNC"), DoSync PROVE Foreseen
  <2>1. disk_' = disk_ /\ entry_'.ok
    BY <1>8 DEF DoSync, Report, Keep
  <2> QED BY <1>1, <1>8, <2>1, LookupStays, StaysPredicted DEF Foreseen
<1> QED BY <1>2, <1>3, <1>4, <1>5, <1>6, <1>7, <1>8 DEF RunOnPath

LEMMA OnFdForeseen ==
  ASSUME StepInv, Predicted, RunOnFd
  PROVE  Foreseen
<1>1. PathInv /\ \A fd \in fd_pool_ : fd_[fd] = NotOpen \/ fd_[fd] \in open_
  BY DEF StepInv, DiskInv, FdsInv, DescriptorsAreOwn
<1>2. Predicted'
  <2>1. disk_' = disk_
    BY DEF RunOnFd, DoOpen, DoClose, DoUse, Keep
  <2>2. Stays
    BY <1>1, LookupStays DEF RunOnFd
  <2> QED BY <2>1, <2>2, StaysPredicted
<1>3. ASSUME NEW fd, NEW path \in PathsOf(PickFile), DoOpen(fd, path)
      PROVE  entry_'.ok \/ Explained
  BY <1>1, <1>3, DrawnIsThere DEF DoOpen, Report, Explained
<1>4. ASSUME NEW fd \in fd_pool_, NEW ty \in {"READ", "WRITE", "FSYNC"}, DoClose(fd) \/ DoUse(ty, fd)
      PROVE  entry_'.ok \/ Explained
  <2>1. /\ entry_'.cmd \in {"CLOSE", "READ", "WRITE", "FSYNC"}
        /\ entry_'.ok = (fd_[fd] \in open_)
    BY <1>4 DEF DoClose, DoUse, Report
  <2> QED BY <1>1, <2>1 DEF Explained
<1> QED BY <1>2, <1>3, <1>4 DEF RunOnFd, Foreseen

LEMMA NextStepInv == StepInv /\ [RunNext]_runVars => StepInv'
<1> SUFFICES ASSUME StepInv, [RunNext]_runVars PROVE StepInv'
  OBVIOUS
<1>1. DiskInv' /\ InodeInv' /\ FdsInv'
  BY NextDiskInv, NextInodeInv, NextFdsInv DEF StepInv
<1>2. [Next]_vars
  BY RunIsNext DEF runVars, StepInv, DiskInv
<1> QED BY <1>1, <1>2, NextTakeInv DEF StepInv

LEMMA InitStepInv == RunInit => StepInv
<1> SUFFICES ASSUME RunInit PROVE StepInv
  OBVIOUS
<1>1. DiskInv /\ TakeInv
  BY InitDiskInv, InitTakeInv DEF RunInit
<1>2. FdsInv
  BY BoundsAssumption
     DEF RunInit, Init, TreeInit, ExecInit, FdsInv, DescriptorsAreOwn
<1>3. InodeInv
  <2>1. Paths = {<< >>} /\ disk_[<< >>] = [kind |-> "DIR", ino |-> 0, target |-> << >>]
    BY DEF RunInit, ExecInit, Paths
  <2>2. foo_id_ = 0
    BY DEF RunInit, Init
  <2> QED BY <2>1, <2>2, FS_Singleton DEF InodeInv
<1> QED BY <1>1, <1>2, <1>3 DEF StepInv

\* A step from a disk that the tree predicts
LEMMA StepForeseen ==
  ASSUME StepInv, StepInv', RunNext
  PROVE  /\ Parts \/ (InStep => InStep')
         /\ ~entry_'.ok /\ ~aborted_' /\ InStep => Explained
<1>1. InStep => Predicted
  BY InStepIs DEF StepInv, InodeInv
<1>2. Predicted' => InStep'
  BY InStepIs DEF StepInv, InodeInv
<1>3. Predicted => Foreseen
  BY NamesForeseen, OnPathForeseen, OnFdForeseen DEF RunNext, StepInv, DiskInv
<1> QED BY <1>1, <1>2, <1>3 DEF Foreseen

\* Only the reduction of a directory, a rename or a creat that fails part the
\* generator's tree and the file system that the test case makes (take_command of
\* FsTree.py against the system calls of syscall.cc): as long as none of these comes,
\* the same paths lead to the same kinds on both sides, and two of them to one inode
\* just when they lead to one jnode.
THEOREM TreePredictsDisk == RunSpec => StaysInStep
<1>1. StepInv /\ StepInv' /\ RunNext => Parts \/ (InStep => InStep')
  BY StepForeseen
<1>2. [RunNext]_runVars /\ StepInv /\ StepInv'
        => [\/ entry_'.cmd = "REDUCE" \/ aborted_'
            \/ entry_'.cmd \in {"RENAME", "CREATE"} /\ ~entry_'.ok
            \/ InStep => InStep']_runVars
  BY <1>1 DEF Parts
<1> QED BY <1>2, InitStepInv, NextStepInv, PTL DEF RunSpec, StaysInStep

\* On a file system that the tree predicts, a call of a test case fails only for what
\* the generator does not keep track of: a symlink that leads nowhere, entries with
\* random names in the way, or no descriptor left.
THEOREM FailuresHaveReasons == RunSpec => FailuresAreExplained
<1>1. StepInv /\ StepInv' /\ RunNext => (~entry_'.ok /\ ~aborted_' /\ InStep => Explained)
  BY StepForeseen
<1>2. [RunNext]_runVars /\ StepInv /\ StepInv'
        => [~entry_'.ok /\ ~aborted_' /\ InStep =>
              CASE entry_'.cmd = "STATFS" -> \E p \in Paths : Resolved(p) \notin Paths
                [] entry_'.cmd = "RENAME" -> \E p \in Paths : Under(p) = {} /\ ~IsEmpty(p)
                [] entry_'.cmd = "MKDIR" -> \E f \in foreign_ : f[2] = "DEEPEN"
                [] entry_'.cmd \in {"CREATE", "OPEN"} -> Free = {}
                [] entry_'.cmd \in {"CLOSE", "READ", "WRITE", "FSYNC"} ->
                     \E fd \in fd_pool_ : fd_[fd] = NotOpen
                [] OTHER -> FALSE]_runVars
  BY <1>1 DEF Explained
<1> QED BY <1>2, InitStepInv, NextStepInv, PTL DEF RunSpec, FailuresAreExplained
=============================================================================
