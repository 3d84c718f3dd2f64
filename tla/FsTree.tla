------------------------------- MODULE FsTree -------------------------------
(***************************************************************************)
(* The in-memory image of the file system that the test-case generator     *)
(* keeps (py-code/FsTree.py, py-code/Jnode.py): jnodes joined by named     *)
(* edges, kept twice, as children_ of the directory and as parents_ of the *)
(* child, a working root, a pool of open descriptors, and one take_<op>    *)
(* per command.  An exception (Nonexistent, FdException, a failed assert)  *)
(* ends the generator: raised says that one did.                           *)
(*                                                                         *)
(* A name is the number NameSpace.unique_name() issued it under (the       *)
(* random prefix tells no two names apart), a path the sequence of the     *)
(* names on it: << >> is '/'.  A jnode is its jnode_id_.                   *)
(*                                                                         *)
(* Times, sizes, extended attributes and sync_count_ only feed __hash__    *)
(* and get_vec() and are left out.                                         *)
(***************************************************************************)
EXTENDS Integers, FiniteSets, SequencesExt

CONSTANTS
  MaxJnode,     \* bound: jnodes 0..MaxJnode may be created
  NoNode        \* Python's None as the result of a lookup

ASSUME MaxJnodeAssumption == MaxJnode \in Nat
ASSUME NoNodeAssumption == NoNode \notin 0..MaxJnode

VARIABLES
  id_count_,       \* Jnode.id_count_: the jnode_id_ the next jnode gets
  type_,           \* jnode -> its type, "UNUSED" before it is created
  children_,       \* directory -> its dict name -> child, in insertion order
  parents_,        \* jnode -> its dict name -> parent
  num_symlinked_,  \* jnode -> count of the symlinks made to it
  target_path_,    \* symlink -> the path it holds
  node_count_,     \* FsTree.node_count_
  working_root_,   \* FsTree.working_root_, moved by CHROOT
  fd_pool_,        \* descriptors opened and not closed
  raised           \* an exception has ended the generator

treeVars == <<id_count_, type_, children_, parents_, num_symlinked_,
              target_path_, node_count_, working_root_, fd_pool_>>

Node == 0..MaxJnode
Root == 0
Kind == {"DIR", "FILE", "SYMLINK", "SPECIAL"}
Name == Nat \ {0}
Entry == [name : Name, node : Node]
Link == [name : Name, parent : Node]

(***************************************************************************)
(* The dict children_ and the walks along it                               *)
(***************************************************************************)
Names(dict) == {dict[i].name : i \in DOMAIN dict}

\* children_.pop(name)
Without(dict, nm) ==
  RemoveAt(dict, CHOOSE i \in DOMAIN dict : dict[i].name = nm)

\* lookup_child: children_.get(name, None)
Child(ch, d, nm) ==
  IF nm \in Names(ch[d])
  THEN ch[d][CHOOSE i \in DOMAIN ch[d] : ch[d][i].name = nm].node
  ELSE NoNode

\* Mutant: the first name in d, whatever it leads to
FirstName(ch, d, n) == ch[d][1].name

\* child_name: the first name, in insertion order, under which n is in d
ChildName(ch, d, n) ==
  ch[d][CHOOSE i \in DOMAIN ch[d] :
          /\ ch[d][i].node = n
          /\ \A j \in 1..(i - 1) : ch[d][j].node # n].name

\* _lookup_node: the jnode at path, NoNode when a name on the way is missing
Walk(ch, path) ==
  LET at[i \in 0..Len(path)] ==
        IF i = 0 THEN Root
        ELSE IF at[i - 1] \in Node THEN Child(ch, at[i - 1], path[i]) ELSE NoNode
  IN  at[Len(path)]

\* The assert of _lookup_node: what it descends from is a directory.
DirsOnTheWay(ch, path) ==
  \A i \in 0..(Len(path) - 1) :
    LET n == Walk(ch, SubSeq(path, 1, i)) IN n \in Node => type_[n] = "DIR"

\* _must_lookup_node(path) returns, and does not raise
Found(ch, path) == DirsOnTheWay(ch, path) /\ Walk(ch, path) \in Node

\* get_path: a jnode without parents is at '/'; otherwise any parent is picked,
\* and in it the first name that leads to the jnode.
GetPath(n) ==
  LET paths[x \in Node] ==
        IF parents_[x] = {} THEN {<< >>}
        ELSE UNION {{Append(p, ChildName(children_, l.parent, x)) :
                       p \in paths[l.parent]} : l \in parents_[x]}
  IN  paths[n]

\* The jnodes at or below n: the least set that holds n and is closed under children.
Subtree(ch, n) ==
  {x \in Node : \A S \in SUBSET Node :
     (n \in S /\ \A d \in S : \A i \in DOMAIN ch[d] : ch[d][i].node \in S)
       => x \in S}

(***************************************************************************)
(* The private helpers, on the tree as a record of what they change        *)
(***************************************************************************)
Tree == [ch |-> children_, pa |-> parents_, num |-> num_symlinked_,
         cnt |-> node_count_]

\* Mutant: _add_node does not count
AddNodeUncounted(t, d, nm, n) ==
  [t EXCEPT !.ch[d] = Append(@, [name |-> nm, node |-> n]),
            !.pa[n] = @ \cup {[name |-> nm, parent |-> d]}]

\* add_child of d under nm, which also adds the parent; node_count_ grows
AddNode(t, d, nm, n) ==
  [ch  |-> [t.ch EXCEPT ![d] = Append(@, [name |-> nm, node |-> n])],
   pa  |-> [t.pa EXCEPT ![n] = @ \cup {[name |-> nm, parent |-> d]}],
   num |-> t.num,
   cnt |-> t.cnt + 1]

\* _add_node(path_join(dir, nm), n) does not raise
CanAdd(t, dir, nm, n) ==
  /\ Found(t.ch, dir) /\ type_[Walk(t.ch, dir)] = "DIR"
  /\ nm \notin Names(t.ch[Walk(t.ch, dir)])
  /\ \A l \in t.pa[n] : l.name # nm

\* Mutant: del_child forgets the parent's side of the edge
DelNodeOneSided(t, d, nm) == [t EXCEPT !.ch[d] = Without(@, nm)]

\* _del_node: drops one edge and leaves node_count_ alone
DelNode(t, d, nm) ==
  [ch  |-> [t.ch EXCEPT ![d] = Without(@, nm)],
   pa  |-> [t.pa EXCEPT ![Child(t.ch, d, nm)] = {l \in @ : l.name # nm}],
   num |-> t.num,
   cnt |-> t.cnt]

\* The edges _del_subtree deletes below n, in its order: what is below a child
\* goes before the edge to that child.
Below(ch, n) ==
  LET below[x \in Node] ==
        FlattenSeq([i \in DOMAIN ch[x] |->
          Append(below[ch[x][i].node],
                 [dir |-> x, name |-> ch[x][i].name, node |-> ch[x][i].node])])
  IN  below[n]

\* Mutant: whatever is deleted counts as a symlink to what is at its target_path_
LinkTargetOfAny(ch, n) == Walk(ch, target_path_[n])

\* The jnode a symlink's path leads to by now
LinkTarget(ch, n) ==
  IF type_[n] = "SYMLINK" THEN Walk(ch, target_path_[n]) ELSE NoNode

\* Mutant: dec_num_symlinked without its test for zero
DelEdgeUnguarded(t, e) ==
  LET x == LinkTarget(t.ch, e.node) IN
  [DelNode(t, e.dir, e.name) EXCEPT
     !.num = IF x \in Node THEN [t.num EXCEPT ![x] = t.num[x] - 1] ELSE t.num,
     !.cnt = @ - 1]

\* One call of _del_subtree, after those on its children: the target of a symlink
\* loses one, if it has one, and the edge goes.
DelEdge(t, e) ==
  LET x == LinkTarget(t.ch, e.node) IN
  [DelNode(t, e.dir, e.name) EXCEPT
     !.num = IF x \in Node /\ t.num[x] > 0 THEN [t.num EXCEPT ![x] = t.num[x] - 1]
             ELSE t.num,
     !.cnt = @ - 1]

Stepwise(t, order) == FoldLeft(DelEdge, t, order)

\* The edges that go with the children of the jnodes in S
EdgesOf(t, S) ==
  UNION {{[dir |-> x, name |-> t.ch[x][i].name, node |-> t.ch[x][i].node] :
            i \in DOMAIN t.ch[x]} : x \in S}

\* Mutant: a jnode that loses one parent loses them all
DropAllParents(pa, gone) ==
  [x \in Node |-> IF \E e \in gone : e.node = x THEN {} ELSE pa[x]]

\* del_parent of every edge in gone: the dict is keyed by the name alone
DropParents(pa, gone) ==
  [x \in Node |-> {l \in pa[x] : \A e \in gone : ~(e.node = x /\ e.name = l.name)}]

\* The loop of _take_reduce: every child of n goes with its subtree
DelBelow(t, n) ==
  LET S    == Subtree(t.ch, n)
      gone == EdgesOf(t, S)
  IN  [ch  |-> [x \in Node |-> IF x \in S THEN << >> ELSE t.ch[x]],
       pa  |-> DropParents(t.pa, gone),
       num |-> Stepwise(t, Below(t.ch, n)).num,
       cnt |-> t.cnt - Cardinality(gone)]

\* _del_subtree: the edge nm of d goes after all that is below it
DelSubtree(t, d, nm) ==
  LET n    == Child(t.ch, d, nm)
      S    == Subtree(t.ch, n)
      top  == [dir |-> d, name |-> nm, node |-> n]
      gone == EdgesOf(t, S) \cup {top}
  IN  [ch  |-> [x \in Node |-> IF x \in S THEN << >>
                               ELSE IF x = d THEN Without(t.ch[d], nm)
                               ELSE t.ch[x]],
       pa  |-> DropParents(t.pa, gone),
       num |-> Stepwise(t, Append(Below(t.ch, n), top)).num,
       cnt |-> t.cnt - Cardinality(gone)]

\* The asserts of _lookup_node on the paths of the symlinks at or below n
LinksWalkDirs(t, n) ==
  \A x \in Subtree(t.ch, n) : type_[x] = "SYMLINK" => DirsOnTheWay(t.ch, target_path_[x])

\* _del_subtree(path) does not raise; on '/' its last del_child does.
CanDel(t, path) ==
  /\ Found(t.ch, path)
  /\ path # << >>
  /\ LinksWalkDirs(t, Walk(t.ch, path))
  /\ Found(t.ch, Front(path))
  /\ Last(path) \in Names(t.ch[Walk(t.ch, Front(path))])

(***************************************************************************)
(* take_command, one action per command that changes the tree              *)
(***************************************************************************)
Become(t) ==
  /\ children_' = t.ch
  /\ parents_' = t.pa
  /\ num_symlinked_' = t.num
  /\ node_count_' = t.cnt

Raise == raised' = TRUE /\ UNCHANGED treeVars

\* Mkdir, Create, Mknod and the end of Symlink: a new jnode under dir
AddNewNode(t, kind, dir, nm, target) ==
  IF CanAdd(t, dir, nm, id_count_)
  THEN /\ Become(AddNode(t, Walk(t.ch, dir), nm, id_count_))
       /\ type_' = [type_ EXCEPT ![id_count_] = kind]
       /\ target_path_' = [target_path_ EXCEPT ![id_count_] = target]
       /\ id_count_' = id_count_ + 1
       /\ UNCHANGED <<working_root_, fd_pool_, raised>>
  ELSE Raise

TakeMkdir(dir, nm) == AddNewNode(Tree, "DIR", dir, nm, << >>)
TakeCreate(dir, nm) == AddNewNode(Tree, "FILE", dir, nm, << >>)
TakeMknod(dir, nm) == AddNewNode(Tree, "SPECIAL", dir, nm, << >>)

TakeSymlink(dir, nm, old) ==
  IF Found(children_, old)
  THEN AddNewNode([Tree EXCEPT !.num[Walk(children_, old)] = @ + 1],
                  "SYMLINK", dir, nm, old)
  ELSE Raise

\* Become(t), with everything but the links between jnodes as it is
Relink(t) ==
  /\ Become(t)
  /\ UNCHANGED <<id_count_, type_, target_path_, working_root_, fd_pool_, raised>>

TakeHardlink(dir, nm, old) ==
  LET n == Walk(children_, old) IN
  IF Found(children_, old) /\ type_[n] = "FILE" /\ CanAdd(Tree, dir, nm, n)
  THEN Relink(AddNode(Tree, Walk(children_, dir), nm, n))
  ELSE Raise

TakeRemove(path) ==
  IF CanDel(Tree, path)
  THEN Relink(DelSubtree(Tree, Walk(children_, Front(path)), Last(path)))
  ELSE Raise

\* _move_node: the edge at old goes, what is at new goes with its subtree, and
\* the jnode is added at new = path_join(dir, nm).
TakeRename(dir, nm, old) ==
  LET od  == Walk(children_, Front(old))
      n   == Child(children_, od, Last(old))
      new == Append(dir, nm)
      t1  == DelNode(Tree, od, Last(old))
      t2  == IF Walk(t1.ch, new) \in Node
             THEN DelSubtree(t1, Walk(t1.ch, Front(new)), Last(new)) ELSE t1
  IN
  IF /\ old # << >> /\ Found(children_, Front(old)) /\ Last(old) \in Names(children_[od])
     /\ DirsOnTheWay(t1.ch, new)
     /\ Walk(t1.ch, new) \in Node => CanDel(t1, new)
     /\ CanAdd(t2, dir, nm, n)
  THEN Relink(AddNode(t2, Walk(t2.ch, dir), nm, n))
  ELSE Raise

\* REDUCE empties a directory and keeps it; on anything else only the times change.
TakeReduce(path) ==
  LET n == Walk(children_, path) IN
  IF Found(children_, path) /\ LinksWalkDirs(Tree, n)
  THEN Relink(IF type_[n] = "DIR" THEN DelBelow(Tree, n) ELSE Tree)
  ELSE Raise

TakeChroot(path) ==
  IF Found(children_, path)
  THEN /\ working_root_' = Walk(children_, path)
       /\ Become(Tree)
       /\ UNCHANGED <<id_count_, type_, target_path_, fd_pool_, raised>>
  ELSE Raise

\* OPEN: a new descriptor joins the pool, and its path must lead to a file.
TakeOpen(path, fd) ==
  IF fd \notin fd_pool_ /\ Found(children_, path) /\ type_[Walk(children_, path)] = "FILE"
  THEN /\ fd_pool_' = fd_pool_ \cup {fd}
       /\ Become(Tree)
       /\ UNCHANGED <<id_count_, type_, target_path_, working_root_, raised>>
  ELSE Raise

TakeClose(fd) ==
  IF fd \in fd_pool_
  THEN /\ fd_pool_' = fd_pool_ \ {fd}
       /\ Become(Tree)
       /\ UNCHANGED <<id_count_, type_, target_path_, working_root_, raised>>
  ELSE Raise

\* ENLARGE, FALLOCATE, DEEPEN, WRITE_XATTR, READ_XATTR: the path must lead
\* somewhere, and only its time or its attributes change.
TakeTouch(path) ==
  IF Found(children_, path) THEN Relink(Tree) ELSE Raise

TreeInit ==
  /\ id_count_ = 1
  /\ type_ = [n \in Node |-> IF n = Root THEN "DIR" ELSE "UNUSED"]
  /\ children_ = [n \in Node |-> << >>]
  /\ parents_ = [n \in Node |-> {}]
  /\ num_symlinked_ = [n \in Node |-> 0]
  /\ target_path_ = [n \in Node |-> << >>]
  /\ node_count_ = 1
  /\ working_root_ = Root
  /\ fd_pool_ = {}
  /\ raised = FALSE
=============================================================================
