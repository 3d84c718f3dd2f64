------------------------------- MODULE FsState -------------------------------
(***************************************************************************)
(* The generator loop of py-code/FsState.py: rand_gen and kmeans_gen build *)
(* one command from the tree as it is (py-code/CommandBuilder.py, with the *)
(* pickers and the Visitor) and take it, again and again, until the wanted *)
(* length, or until an exception ends the program.                         *)
(*                                                                         *)
(* The random choices are nondeterministic ones.  Names and descriptors    *)
(* that a builder issues for candidates that are not chosen are skipped    *)
(* numbers, which no step can tell from numbers never issued; the model    *)
(* issues the chosen ones only.                                            *)
(***************************************************************************)
EXTENDS FsTree

CONSTANTS
  CommandTypes,   \* the commands whose configured probability is not 0
  SureTypes,      \* those whose probability is 100: sampled every time
  TreeMaxSize,    \* config TREE_MAX_SIZE
  MaxName,        \* bound: names 1..MaxName may be issued
  MaxFd           \* bound: descriptors 1..MaxFd may be opened

AllTypes == {"MKDIR", "CREATE", "SYMLINK", "HARDLINK", "REMOVE", "OPEN",
             "OPEN_TMPFILE", "CLOSE", "READ", "WRITE", "RENAME", "SYNC",
             "FSYNC", "XSYNC", "ENLARGE", "FALLOCATE", "REDUCE",
             "WRITE_XATTR", "READ_XATTR", "REMOUNT_ROOT", "STATFS", "DEEPEN",
             "MKNOD", "CHROOT"}

ASSUME TypesAssumption == SureTypes \subseteq CommandTypes /\ CommandTypes \subseteq AllTypes
ASSUME BoundsAssumption == MaxName \in Nat /\ MaxFd \in Nat /\ TreeMaxSize \in Nat

VARIABLES
  foo_id_,   \* NameSpace.foo_id_: the number of the last name issued
  fd_id_     \* FileDescriptor.id_count_: the last descriptor issued

vars == <<treeVars, raised, foo_id_, fd_id_>>

(***************************************************************************)
(* The pickers visit the tree from working_root_                           *)
(***************************************************************************)
\* What Visitor._visit reaches: it has no case for a SPECIAL node
Visited == {n \in Subtree(children_, working_root_) : type_[n] # "SPECIAL"}

\* RandomPicker returns one visited jnode of the types asked for, KmeansPicker one
\* of each cluster, of which the caller draws one: any may come out.
Pick(types) == {n \in Visited : type_[n] \in types}

PickDir == Pick({"DIR"})
PickFile == Pick({"FILE"})
PickAny == Pick({"DIR", "FILE", "SYMLINK", "SPECIAL"})
PickNonlink == Pick({"DIR", "FILE", "SPECIAL"})

\* Mutant: the limit is tested one too late
AvailableLate(ty) ==
  /\ ty \in CommandTypes
  /\ node_count_ > TreeMaxSize => ty \notin {"MKDIR", "CREATE", "SYMLINK", "HARDLINK"}

\* _random_available_types at its size limit: no command that adds a jnode,
\* of the four it knows
Available(ty) ==
  /\ ty \in CommandTypes
  /\ node_count_ >= TreeMaxSize => ty \notin {"MKDIR", "CREATE", "SYMLINK", "HARDLINK"}

\* The enabling part every builder shares; the generator must be alive.
Builds(ty) == ~raised /\ Available(ty)

\* Mutant: a random name, which may have been issued before
AnyName(nm) == foo_id_ < MaxName /\ nm <= foo_id_ + 1

\* NameSpace.unique_name for the chosen command
FreshName(nm) == foo_id_ < MaxName /\ nm = foo_id_ + 1

NewJnodeFits == id_count_ <= MaxJnode

(***************************************************************************)
(* One action per command type: build the command with these arguments,    *)
(* then take it                                                            *)
(***************************************************************************)
\* The paths that get_path may return for the jnodes in S
PathsOf(S) == UNION {GetPath(n) : n \in S}

Dirs == PathsOf(PickDir)

\* The new name of a command is the next one; other commands issue nothing.
Numbers == 1..MaxName
Issue(nm) == FreshName(nm) /\ foo_id_' = nm /\ UNCHANGED fd_id_
NothingIssued == UNCHANGED <<foo_id_, fd_id_>>

GenMkdir(dir, nm) ==
  Builds("MKDIR") /\ NewJnodeFits /\ Issue(nm) /\ TakeMkdir(dir, nm)

GenCreate(dir, nm) ==
  Builds("CREATE") /\ NewJnodeFits /\ Issue(nm) /\ TakeCreate(dir, nm)

GenMknod(dir, nm) ==
  Builds("MKNOD") /\ NewJnodeFits /\ Issue(nm) /\ TakeMknod(dir, nm)

GenSymlink(dir, nm, old) ==
  Builds("SYMLINK") /\ NewJnodeFits /\ Issue(nm) /\ TakeSymlink(dir, nm, old)

GenHardlink(dir, nm, old) ==
  Builds("HARDLINK") /\ Issue(nm) /\ TakeHardlink(dir, nm, old)

\* Whatever has no parents has the path '/' and is not removed.
GenRemove(path) ==
  Builds("REMOVE") /\ path # << >> /\ TakeRemove(path) /\ NothingIssued

\* Mutant: only the rename of '/a/b/c' to '/a' is forbidden
NotAbove(p, q) == ~IsPrefix(p, q)

\* Rename '/a/b/c' to '/a' or '/a/b/c/d' is forbidden
Unrelated(p, q) == ~IsPrefix(p, q) /\ ~IsPrefix(q, p)

GenRenameToFresh(dir, nm, old) ==
  /\ Builds("RENAME") /\ Unrelated(Append(dir, nm), old)
  /\ Issue(nm) /\ TakeRename(dir, nm, old)

\* Mutants: anything may take the place of an empty directory; a directory may
\* take the place of any
MayReplaceByAny(n, d) == children_[d] = << >>
MayReplaceAnyDir(n, d) == type_[n] = "DIR"

\* A directory may take the place of an empty one.
MayReplace(n, d) == children_[d] = << >> /\ type_[n] = "DIR"

\* What can replace what, and the paths drawn for both
Replacements ==
  UNION {GetPath(x[1]) \X GetPath(x[2]) :
           x \in {y \in (PickAny \ {Root}) \X PickDir : MayReplace(y[1], y[2])}}

GenRenameOntoEmptyDir(old, new) ==
  /\ Builds("RENAME") /\ Unrelated(new, old)
  /\ \E nm \in Numbers : nm = Last(new) /\ TakeRename(Front(new), nm, old)
  /\ NothingIssued

GenReduce(path) ==
  Builds("REDUCE") /\ TakeReduce(path) /\ NothingIssued

\* RandomPicker returns any one directory, KmeansPicker some of which the
\* deepest is taken: any directory may come out.
GenChroot(path) ==
  Builds("CHROOT") /\ TakeChroot(path) /\ NothingIssued

GenOpen(path, fd) ==
  /\ Builds("OPEN") /\ TakeOpen(path, fd)
  /\ fd = fd_id_ + 1 /\ fd_id_' = fd /\ UNCHANGED foo_id_

GenClose(fd) ==
  Builds("CLOSE") /\ TakeClose(fd) /\ NothingIssued

\* The commands that look a path up and leave the modelled tree alone
Touches == {"ENLARGE", "FALLOCATE", "DEEPEN", "WRITE_XATTR", "READ_XATTR"}

PickTouched(ty) ==
  CASE ty = "ENLARGE" -> PickNonlink
    [] ty = "FALLOCATE" -> PickFile
    [] ty = "DEEPEN" -> PickDir
    [] OTHER -> PickAny

GenTouch(ty, path) ==
  Builds(ty) /\ TakeTouch(path) /\ NothingIssued

(***************************************************************************)
(* random_command may find no command: take_command gets none, and the     *)
(* assert in rand_gen ends the program.                                    *)
(***************************************************************************)
\* With RandomPicker, some picks for ty give no candidate.
MayBeEmpty(ty) ==
  \/ ty \in {"HARDLINK", "OPEN", "FALLOCATE"} /\ PickFile = {}
  \/ ty \in {"CLOSE", "READ", "WRITE", "FSYNC"} /\ fd_pool_ = {}
  \/ /\ ty = "REMOVE"
     /\ \E n \in PickAny : parents_[n] = {}
  \/ ty = "READ_XATTR"
  \/ /\ ty = "RENAME"
     /\ \E n \in PickAny, d \in PickDir :
          \/ n = Root
          \/ \E old \in GetPath(n), dir \in GetPath(d) : IsPrefix(old, dir)

\* Every type that is sure to be sampled may come out empty, and the others
\* may not be sampled.
NoCommand ==
  /\ ~raised
  /\ \A ty \in SureTypes : Available(ty) => MayBeEmpty(ty)
  /\ Raise
  /\ UNCHANGED <<foo_id_, fd_id_>>

Init == TreeInit /\ foo_id_ = 0 /\ fd_id_ = 0

GenNames ==
  \E nm \in Numbers, dir \in Dirs :
    \/ GenMkdir(dir, nm) \/ GenCreate(dir, nm) \/ GenMknod(dir, nm)
    \/ \E old \in PathsOf(PickAny) : GenSymlink(dir, nm, old)
    \/ \E old \in PathsOf(PickFile) : GenHardlink(dir, nm, old)
    \/ \E old \in PathsOf(PickAny \ {Root}) : GenRenameToFresh(dir, nm, old)

GenOnPath ==
  \/ \E path \in PathsOf(PickAny) : GenRemove(path)
  \/ \E r \in Replacements : GenRenameOntoEmptyDir(r[1], r[2])
  \/ \E path \in PathsOf(PickNonlink) : GenReduce(path)
  \/ \E path \in Dirs : GenChroot(path)
  \/ \E ty \in Touches : \E path \in PathsOf(PickTouched(ty)) : GenTouch(ty, path)

GenOnFd ==
  \/ \E fd \in 1..MaxFd, path \in PathsOf(PickFile) : GenOpen(path, fd)
  \/ \E fd \in fd_pool_ : GenClose(fd)

Next == GenNames \/ GenOnPath \/ GenOnFd \/ NoCommand

Spec == Init /\ [][Next]_vars

(***************************************************************************)
(* Properties                                                              *)
(***************************************************************************)
Edges == EdgesOf(Tree, Node)
Attached == {n \in Node : n = Root \/ parents_[n] # {}}

\* The links between jnodes have their types: children_ and parents_ hold dicts
\* (no key twice) between jnodes, and a jnode is typed once it exists.
LinksTypeOK ==
  /\ id_count_ \in 1..(MaxJnode + 1)
  /\ type_ \in [Node -> Kind \cup {"UNUSED"}]
  /\ children_ \in [Node -> Seq(Entry)]
  /\ \A d \in Node : \A i, j \in DOMAIN children_[d] :
       children_[d][i].name = children_[d][j].name => i = j
  /\ parents_ \in [Node -> SUBSET Link]
  /\ \A n \in Node : \A l, m \in parents_[n] : l.name = m.name => l = m
  /\ working_root_ \in Node

\* Every variable has its type, and what is not created yet is untouched.
TypeOK ==
  /\ LinksTypeOK
  /\ \A n \in Node : type_[n] = "UNUSED" <=> n >= id_count_
  /\ num_symlinked_ \in [Node -> Nat]
  /\ target_path_ \in [Node -> Seq(Name)]
  /\ node_count_ \in Nat
  /\ foo_id_ \in 0..MaxName /\ fd_id_ \in 0..MaxFd /\ fd_pool_ \subseteq 1..fd_id_

\* children_ and parents_ are two copies of one relation: a directory has an
\* entry for a jnode exactly when the jnode has that directory as its parent
\* under that name (add_child and del_child change both; _del_subtree and
\* _move_node go through them one edge at a time).
EdgesMirrored ==
  /\ \A d \in Node : \A i \in DOMAIN children_[d] :
       [name |-> children_[d][i].name, parent |-> d] \in parents_[children_[d][i].node]
  /\ \A n \in Node : \A l \in parents_[n] :
       \E i \in DOMAIN children_[l.parent] :
         children_[l.parent][i] = [name |-> l.name, node |-> n]

\* "We use the name(edge) -> parent mapping to maintain the parent linking
\* correctly because name are uids" (Jnode.py:23): no name is on two edges, and
\* every name was issued.
NamesAreUids ==
  /\ \A d1, d2 \in Node :
       \A i \in DOMAIN children_[d1], j \in DOMAIN children_[d2] :
         children_[d1][i].name = children_[d2][j].name => d1 = d2 /\ i = j
  /\ \A d \in Node : \A i \in DOMAIN children_[d] : children_[d][i].name \in 1..foo_id_

\* The directories form a tree under root_: what has a parent is reached from
\* the root, no directory has two parents, the root has none, and only a
\* directory has children.  A rename into its own subtree would break it.
DirTree ==
  /\ parents_[Root] = {}
  /\ Attached \subseteq Subtree(children_, Root)
  /\ \A n \in Node : type_[n] = "DIR" => Cardinality(parents_[n]) <= 1
  /\ \A n \in Node : type_[n] # "DIR" => children_[n] = << >>

\* get_path promises "a valid path to the node": whichever parents it picks, the
\* path it returns leads back to the jnode, for all that is in the tree.
PathsResolve ==
  \A n \in Attached : \A p \in GetPath(n) :
    Found(children_, p) /\ Walk(children_, p) = n

\* Every command the builder makes can be taken: no lookup of take_command
\* fails and none of its asserts does, also those on the paths of symlinks made
\* long before and on edges that are already gone.
NoException == ~raised

\* _del_subtree deletes one edge at a time, children first; the model's closed
\* form of it (no edge inside the subtree, and none to it) is what that leaves.
DeletionIsStepwise ==
  \A e \in Edges :
    DelSubtree(Tree, e.dir, e.name) = Stepwise(Tree, Append(Below(children_, e.node), e))

\* node_count_, which the builder holds against TREE_MAX_SIZE, goes with the number
\* of entries that there are, but for a rename, which leaves it one higher for
\* good: it is never below the real size, also when a rename deletes what it
\* replaces or a subtree with hard links goes.
Drift == node_count_ - 1 - Cardinality(Edges)

CountDriftsByRenames ==
  [][LET moved == \E e \in Edges \ Edges', f \in Edges' \ Edges : e.node = f.node
     IN  Drift' - Drift = IF moved THEN 1 ELSE 0]_vars

\* A jnode that a name of the tree leads to keeps its kind: a name is never
\* taken over by a jnode of another kind, so a path held by a symlink never
\* descends into a file.
NamesKeepKind ==
  [][\A d1, d2 \in Node :
       \A i \in DOMAIN children_[d1], j \in DOMAIN children_'[d2] :
         children_[d1][i].name = children_'[d2][j].name
           => type_[children_[d1][i].node] = type_'[children_'[d2][j].node]]_vars

\* The symlinks in the tree whose path leads to n
SymlinksTo(n) ==
  {s \in Attached : type_[s] = "SYMLINK" /\ Walk(children_, target_path_[s]) = n}

\* num_symlinked_ of a jnode rises by the symlinks made to it, and falls by no more
\* than the symlinks that go, although _del_subtree looks each one's path up in a
\* tree that it has half deleted.
SymlinksAccounted ==
  [][\A n \in Node :
       LET made == Cardinality(SymlinksTo(n)' \ Attached)
           gone == Cardinality(SymlinksTo(n) \ Attached')
       IN  num_symlinked_'[n] - num_symlinked_[n] \in (made - gone)..made]_vars

\* The builder keeps the tree at TREE_MAX_SIZE when the types it holds back are
\* all that grow it.
SizeWithinLimit == Cardinality(Edges) < TreeMaxSize

\* "nodes are selected under working_root_" (FsTree.py:48): what a command adds
\* is added below the working root.
AddsUnderWorkingRoot ==
  [][\A e \in (EdgesOf(Tree, Node))' \ Edges : e.dir \in Subtree(children_, working_root_)]_vars
=============================================================================
