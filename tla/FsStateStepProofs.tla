-------------------------- MODULE FsStateStepProofs ---------------------------
(***************************************************************************)
(* Proofs about the steps of the generator's tree: the kinds that names    *)
(* keep, how node_count_ goes with the edges, the name space of PathTree   *)
(* that the tree implements, that every command built can be taken, and    *)
(* what _del_subtree leaves, one edge at a time.                           *)
(***************************************************************************)
EXTENDS FsStateProofs

(***************************************************************************)
(* Names keep their kind                                                   *)
(***************************************************************************)
SameKind ==
  \A c, d, m, n \in Node, nm \in Name :
    Has(children_, c, nm, m) /\ Has(children_', d, nm, n) => type_[m] = type_'[n]

\* No edge of a step that only cuts or stays has a jnode that it did not have.
LEMMA WithinKeepsKind ==
  ASSUME PathInv, Within(children_', children_), UNCHANGED type_
  PROVE  SameKind
BY PathInvTree DEF Within, NamesOnce, SameKind

LEMMA AddedKeepsKind ==
  ASSUME PathInv, NEW nm, NewName(nm), NEW d \in Node, NEW n \in Node,
         Adds(children_, children_', d, nm, n),
         \A x \in Node : type_[x] # "UNUSED" => type_'[x] = type_[x]
  PROVE  SameKind
<1>1. nm \in Name /\ \A x, y \in Node : ~Has(children_, x, nm, y)
  BY NoEdgeOfNewName DEF NewName
<1>2. \A x, y \in Node, z \in Name : Has(children_, x, z, y) => type_[y] # "UNUSED"
  BY DEF PathInv
<1> QED BY <1>1, <1>2, PathInvTree DEF Adds, NamesOnce, SameKind

LEMMA MovedKeepsKind ==
  ASSUME PathInv, NEW from \in Seq(Name), NEW onm \in Name,
         NEW dir \in Seq(Name), NEW nm \in Name, NEW ch, MovedTo(from, onm, dir, nm, ch)
  PROVE  SameKind
<1> DEFINE n == Walk(children_, Append(from, onm))
           d == Walk(children_, dir)
           m == Walk(children_, Append(dir, nm))
<1>1. /\ n \in Node /\ d \in Node
      /\ NewName(nm) \/ Replaced(n, Append(dir, nm))
      /\ Cuts(children_, ch, {}, {onm, nm})
      /\ Adds(ch, children_', d, nm, n)
      /\ type_' = type_
  BY DEF MovedTo
<1>2. Dicts(children_) /\ NamesOnce(children_)
  BY PathInvTree
<1>3. \A x, y \in Node : Has(children_, x, nm, y) => type_[y] = type_[n]
  <2>1. CASE NewName(nm)
    BY <2>1, NoEdgeOfNewName
  <2>2. CASE Replaced(n, Append(dir, nm))
    <3>1. m \in Node /\ type_[m] = type_[n]
      BY <2>2 DEF Replaced
    <3>2. Has(children_, d, nm, m)
      BY <1>2, <3>1, WalkStep
    <3> QED BY <1>1, <1>2, <3>1, <3>2 DEF NamesOnce
  <2> QED BY <1>1, <2>1, <2>2
<1> HIDE DEF n, d, m
<1> QED BY <1>1, <1>2, <1>3 DEF Adds, Cuts, NamesOnce, SameKind

LEMMA NextKeepsKind ==
  ASSUME PathInv, [Next]_vars
  PROVE  SameKind
<1>1. StepEffect
  BY NextEffect
<1>2. ASSUME Stays PROVE SameKind
  BY <1>2, WithinKeepsKind DEF Stays, Within
<1>3. ASSUME NEW dir \in Seq(Name), NEW nm \in Name, NEW kind, NEW target,
             Made(dir, nm, kind, target)
      PROVE  SameKind
  <2>1. /\ NewName(nm) /\ Walk(children_, dir) \in Node /\ id_count_ \in Node
        /\ Adds(children_, children_', Walk(children_, dir), nm, id_count_)
        /\ type_' = [type_ EXCEPT ![id_count_] = kind]
    BY <1>3 DEF Made
  <2>2. type_[id_count_] = "UNUSED" /\ type_ \in [Node -> Kind \cup {"UNUSED"}]
    BY <2>1, PathInvTree DEF PathInv, Node
  <2>3. \A x \in Node : type_[x] # "UNUSED" => type_'[x] = type_[x]
    BY <2>1, <2>2
  <2> QED BY <2>1, <2>3, AddedKeepsKind
<1>4. ASSUME NEW dir \in Seq(Name), NEW old \in Seq(Name), NEW nm \in Name,
             HardLinked(dir, nm, old)
      PROVE  SameKind
  BY <1>4, AddedKeepsKind DEF HardLinked
<1>5. ASSUME NEW dir \in Seq(Name), NEW nm \in Name, Removed(dir, nm) PROVE SameKind
  BY <1>5, CutsWithin, WithinKeepsKind DEF Removed
<1>6. ASSUME NEW path \in Seq(Name), Emptied(path) PROVE SameKind
  BY <1>6, CutsWithin, WithinKeepsKind DEF Emptied
<1> QED BY <1>1, <1>2, <1>3, <1>4, <1>5, <1>6, MovedKeepsKind DEF StepEffect

\* Whatever commands are generated, a name of the tree is never taken over by a jnode
\* of another kind: a rename onto what exists only lets a directory take the place
\* of an empty one (CommandBuilder.py, FsTree.py:140-150).
THEOREM NamesAreForOneKind == Spec => NamesKeepKind
<1> DEFINE A == \A d1, d2 \in Node :
       \A i \in DOMAIN children_[d1], j \in DOMAIN children_'[d2] :
         children_[d1][i].name = children_'[d2][j].name
           => type_[children_[d1][i].node] = type_'[children_'[d2][j].node]
<1>1. PathInv /\ [Next]_vars => [A]_vars
  <2> SUFFICES ASSUME PathInv, [Next]_vars PROVE A
    OBVIOUS
  <2>1. Dicts(children_) /\ Dicts(children_')
    BY PathInvTree, NextIInv DEF PathInv, IInv, Linked, Dicts
  <2>2. SameKind
    BY NextKeepsKind
  <2> SUFFICES ASSUME NEW d1 \in Node, NEW d2 \in Node,
                      NEW i \in DOMAIN children_[d1], NEW j \in DOMAIN children_'[d2],
                      children_[d1][i].name = children_'[d2][j].name
               PROVE  type_[children_[d1][i].node] = type_'[children_'[d2][j].node]
    OBVIOUS
  <2>3. /\ children_[d1][i].name \in Name /\ children_[d1][i].node \in Node
        /\ Has(children_, d1, children_[d1][i].name, children_[d1][i].node)
        /\ children_'[d2][j].name \in Name /\ children_'[d2][j].node \in Node
        /\ Has(children_', d2, children_'[d2][j].name, children_'[d2][j].node)
    BY <2>1, EntryHas
  <2> QED BY <2>2, <2>3 DEF SameKind
<1> QED BY <1>1, InitPathInv, NextPathInv, PTL DEF Spec, NamesKeepKind

(***************************************************************************)
(* What a step does to node_count_ and to the number of edges              *)
(***************************************************************************)
Edge(d, nm, n) == [dir |-> d, name |-> nm, node |-> n]

\* E is the set of the edges of ch.
EdgeSet(E, ch) ==
  /\ \A d, n \in Node, nm \in Name : Edge(d, nm, n) \in E <=> Has(ch, d, nm, n)
  /\ \A e \in E : \E d, n \in Node, nm \in Name : e = Edge(d, nm, n)

LEMMA EdgeFields ==
  ASSUME NEW d, NEW nm, NEW n, NEW c, NEW k, NEW m
  PROVE  /\ Edge(d, nm, n).node = n
         /\ Edge(d, nm, n) = Edge(c, k, m) <=> d = c /\ nm = k /\ n = m
<1>1. /\ Edge(d, nm, n).dir = d /\ Edge(d, nm, n).name = nm /\ Edge(d, nm, n).node = n
      /\ Edge(c, k, m).dir = c /\ Edge(c, k, m).name = k /\ Edge(c, k, m).node = m
  BY DEF Edge
<1> QED BY <1>1

LEMMA EdgesAre ==
  ASSUME NEW t, Dicts(t.ch), NEW S \in SUBSET Node
  PROVE  /\ EdgeSet(EdgesOf(t, Node), t.ch)
         /\ \A d, n \in Node, nm \in Name :
              Edge(d, nm, n) \in EdgesOf(t, S) <=> d \in S /\ Has(t.ch, d, nm, n)
         /\ \A e \in EdgesOf(t, S) : \E d, n \in Node, nm \in Name : e = Edge(d, nm, n)
<1>1. t.ch \in [Node -> Seq(Entry)] /\ Node \in SUBSET Node
  BY DEF Dicts
<1>2. /\ \A d, n \in Node, nm \in Name :
           Edge(d, nm, n) \in EdgesOf(t, S) <=> d \in S /\ Has(t.ch, d, nm, n)
      /\ \A e \in EdgesOf(t, S) : \E d, n \in Node, nm \in Name : e = Edge(d, nm, n)
  BY <1>1, EdgesOfMember DEF Edge, Has
<1>3. /\ \A d, n \in Node, nm \in Name :
           Edge(d, nm, n) \in EdgesOf(t, Node) <=> d \in Node /\ Has(t.ch, d, nm, n)
      /\ \A e \in EdgesOf(t, Node) : \E d, n \in Node, nm \in Name : e = Edge(d, nm, n)
  BY <1>1, EdgesOfMember DEF Edge, Has
<1> QED BY <1>2, <1>3 DEF EdgeSet

\* Out of E goes what is in gone, in comes g.
LEMMA CountOut ==
  ASSUME NEW E, IsFiniteSet(E), NEW gone \in SUBSET E
  PROVE  /\ Cardinality(E) \in Nat /\ Cardinality(gone) \in Nat
         /\ IsFiniteSet(E \ gone) /\ Cardinality(E \ gone) = Cardinality(E) - Cardinality(gone)
<1>1. IsFiniteSet(gone) /\ E \cap gone = gone
  BY FS_Subset
<1> QED BY <1>1, FS_Difference, FS_CardinalityType

LEMMA CountIn ==
  ASSUME NEW E, IsFiniteSet(E), NEW g, g \notin E
  PROVE  /\ Cardinality(E) \in Nat
         /\ IsFiniteSet(E \cup {g}) /\ Cardinality(E \cup {g}) = Cardinality(E) + 1
BY FS_AddElement, FS_CardinalityType

\* An edge leaves and another one to the same jnode comes.
MovesOne == \E e \in Edges \ Edges', f \in Edges' \ Edges : e.node = f.node

Drifts == Drift' - Drift = IF MovesOne THEN 1 ELSE 0

LEMMA AddedNoDrift ==
  ASSUME EdgeSet(Edges, children_), EdgeSet(Edges', children_'), IsFiniteSet(Edges),
         node_count_ \in Int, NEW d \in Node, NEW nm \in Name, NEW n \in Node,
         Adds(children_, children_', d, nm, n), ~Has(children_, d, nm, n),
         node_count_' = node_count_ + 1
  PROVE  Drifts
<1> DEFINE g == Edge(d, nm, n)
<1>1. g \notin Edges
  BY DEF EdgeSet
<1>2. Edges' = Edges \cup {g}
  <2>1. ASSUME NEW x \in Node, NEW y \in Node, NEW z \in Name
        PROVE  Edge(x, z, y) \in Edges' <=> Edge(x, z, y) \in Edges \/ Edge(x, z, y) = g
    <3>1. Edge(x, z, y) = g <=> x = d /\ z = nm /\ y = n
      BY EdgeFields
    <3> QED BY <3>1 DEF EdgeSet, Adds
  <2>2. \A e \in Edges' : e \in Edges \/ e = g
    BY <2>1 DEF EdgeSet
  <2>3. \A e \in Edges : e \in Edges'
    BY <2>1 DEF EdgeSet
  <2>4. g \in Edges'
    BY <2>1
  <2> HIDE DEF g
  <2> QED BY <2>2, <2>3, <2>4
<1> HIDE DEF g
<1>3. Cardinality(Edges') = Cardinality(Edges) + 1 /\ Cardinality(Edges) \in Nat
  BY <1>1, <1>2, CountIn
<1>4. Edges \ Edges' = {}
  BY <1>2
<1>5. ~MovesOne
  BY <1>4 DEF MovesOne
<1>6. Drift = node_count_ - 1 - Cardinality(Edges) /\ Drift' = node_count_' - 1 - Cardinality(Edges')
  BY DEF Drift
<1>7. Drift' - Drift = 0
  BY <1>3, <1>6
<1> QED BY <1>5, <1>7 DEF Drifts

LEMMA CutNoDrift ==
  ASSUME EdgeSet(Edges, children_), EdgeSet(Edges', children_'), IsFiniteSet(Edges),
         node_count_ \in Int, NEW gone,
         \A e \in gone : \E d, n \in Node, nm \in Name : e = Edge(d, nm, n),
         \A d, n \in Node, nm \in Name :
           /\ Edge(d, nm, n) \in gone => Has(children_, d, nm, n)
           /\ Has(children_', d, nm, n) <=> Has(children_, d, nm, n) /\ Edge(d, nm, n) \notin gone,
         node_count_' = node_count_ - Cardinality(gone)
  PROVE  Drifts
<1>1. \A e \in gone : e \in Edges
  BY DEF EdgeSet
<1>2. \A e \in Edges' : e \in Edges /\ e \notin gone
  BY DEF EdgeSet
<1>3. \A e \in Edges : e \notin gone => e \in Edges'
  BY DEF EdgeSet
<1>4. gone \in SUBSET Edges /\ Edges' = Edges \ gone
  BY <1>1, <1>2, <1>3
<1>5. /\ Cardinality(Edges') = Cardinality(Edges) - Cardinality(gone)
      /\ Cardinality(Edges) \in Nat /\ Cardinality(gone) \in Nat
  BY <1>4, CountOut
<1>6. ~MovesOne
  BY <1>4 DEF MovesOne
<1>7. Drift = node_count_ - 1 - Cardinality(Edges) /\ Drift' = node_count_' - 1 - Cardinality(Edges')
  BY DEF Drift
<1>8. Drift' - Drift = 0
  BY <1>5, <1>7
<1> QED BY <1>6, <1>8 DEF Drifts

LEMMA RemovedNoDrift ==
  ASSUME PathInv, EdgeSet(Edges, children_), EdgeSet(Edges', children_'), IsFiniteSet(Edges),
         node_count_ \in Int, NEW dir \in Seq(Name), NEW nm \in Name, Removed(dir, nm)
  PROVE  Drifts
<1> DEFINE n == Walk(children_, Append(dir, nm))
           d == Walk(children_, dir)
           S == Subtree(children_, n)
           gone == GoneWith(Tree, d, nm)
<1>1. /\ n \in Node /\ Cuts(children_, children_', S, {nm})
      /\ node_count_' = node_count_ - Cardinality(gone)
  BY DEF Removed
<1>2. Dicts(children_) /\ NamesOnce(children_)
  BY PathInvTree
<1>3. d \in Node /\ Has(children_, d, nm, n)
  BY <1>1, <1>2, WalkStep
<1>4. Child(Tree.ch, d, nm) = n
  <2> HIDE DEF d, n
  <2> QED BY <1>1, <1>2, <1>3, TreeFields, ChildHas
<1>5. gone = EdgesOf(Tree, S) \cup {Edge(d, nm, n)}
  BY <1>4, TreeFields DEF GoneWith, Edge
<1>6. S \in SUBSET Node
  <2> HIDE DEF n
  <2> QED BY <1>1, <1>2, SubtreeClosed
<1>7. /\ \A x, y \in Node, z \in Name :
           Edge(x, z, y) \in EdgesOf(Tree, S) <=> x \in S /\ Has(children_, x, z, y)
      /\ \A e \in EdgesOf(Tree, S) : \E x, y \in Node, z \in Name : e = Edge(x, z, y)
  <2> HIDE DEF S
  <2> QED BY <1>2, <1>6, EdgesAre, TreeFields
<1> HIDE DEF n, d, S, gone
<1>8. ASSUME NEW x \in Node, NEW y \in Node, NEW z \in Name
      PROVE  /\ Edge(x, z, y) \in gone => Has(children_, x, z, y)
             /\ Has(children_', x, z, y) <=> Has(children_, x, z, y) /\ Edge(x, z, y) \notin gone
  <2>1. Edge(x, z, y) = Edge(d, nm, n) <=> x = d /\ z = nm /\ y = n
    BY EdgeFields
  <2>2. Edge(x, z, y) \in gone <=> (x \in S /\ Has(children_, x, z, y)) \/ (x = d /\ z = nm /\ y = n)
    BY <1>5, <1>7, <2>1
  <2>3. Has(children_, x, z, y) /\ z = nm => x = d /\ y = n
    BY <1>1, <1>2, <1>3 DEF NamesOnce
  <2>4. Has(children_', x, z, y) <=> Has(children_, x, z, y) /\ x \notin S /\ z # nm
    BY <1>1 DEF Cuts
  <2> QED BY <1>3, <2>2, <2>3, <2>4
<1>9. \A e \in gone : \E x, y \in Node, z \in Name : e = Edge(x, z, y)
  BY <1>1, <1>3, <1>5, <1>7
<1> QED BY <1>1, <1>8, <1>9, CutNoDrift

LEMMA EmptiedNoDrift ==
  ASSUME PathInv, EdgeSet(Edges, children_), EdgeSet(Edges', children_'), IsFiniteSet(Edges),
         node_count_ \in Int, NEW path \in Seq(Name), Emptied(path)
  PROVE  Drifts
<1> DEFINE n == Walk(children_, path)
           S == Subtree(children_, n)
           gone == EdgesOf(Tree, S)
<1>1. /\ n \in Node /\ Cuts(children_, children_', S, {})
      /\ node_count_' = node_count_ - Cardinality(gone)
  BY DEF Emptied
<1>2. Dicts(children_)
  BY PathInvTree
<1>3. S \in SUBSET Node
  <2> HIDE DEF n
  <2> QED BY <1>1, <1>2, SubtreeClosed
<1>4. /\ \A x, y \in Node, z \in Name :
           Edge(x, z, y) \in gone <=> x \in S /\ Has(children_, x, z, y)
      /\ \A e \in gone : \E x, y \in Node, z \in Name : e = Edge(x, z, y)
  <2> HIDE DEF S
  <2> QED BY <1>2, <1>3, EdgesAre, TreeFields
<1> HIDE DEF S, gone
<1> QED BY <1>1, <1>4, CutNoDrift DEF Cuts

\* What takes the place of an empty directory is counted as if it were one more.
LEMMA MovedDrifts ==
  ASSUME PathInv, EdgeSet(Edges, children_), EdgeSet(Edges', children_'), IsFiniteSet(Edges),
         node_count_ \in Int,
         NEW from \in Seq(Name), NEW onm \in Name, NEW dir \in Seq(Name), NEW nm \in Name,
         NEW ch, MovedTo(from, onm, dir, nm, ch)
  PROVE  Drifts
<1> DEFINE n == Walk(children_, Append(from, onm))
           d == Walk(children_, dir)
           m == Walk(children_, Append(dir, nm))
           od == Walk(children_, from)
           old == Edge(od, onm, n)
           new == Edge(d, nm, n)
           gone == IF NewName(nm) THEN {old} ELSE {old, Edge(d, nm, m)}
<1>1. /\ n \in Node /\ d \in Node /\ nm # onm
      /\ (NewName(nm) /\ node_count_' = node_count_ + 1) \/ Replaced(n, Append(dir, nm))
      /\ Cuts(children_, ch, {}, {onm, nm})
      /\ Adds(ch, children_', d, nm, n)
  BY DEF MovedTo
<1>2. Dicts(children_) /\ NamesOnce(children_) /\ DirsOnce(children_, type_)
  BY PathInvTree DEF PathInv, Forest
<1>3. od \in Node /\ Has(children_, od, onm, n)
  BY <1>1, <1>2, WalkStep
<1>4. ASSUME NewName(nm)
      PROVE  /\ \A x, y \in Node : ~Has(children_, x, nm, y)
             /\ node_count_' = node_count_ + 1
  <2>1. foo_id_' # foo_id_
    BY <1>4, PathInvTree DEF NewName
  <2> QED BY <1>1, <1>4, <2>1, NoEdgeOfNewName DEF Replaced
<1>5. ASSUME ~NewName(nm)
      PROVE  /\ m \in Node /\ Has(children_, d, nm, m) /\ m # n
             /\ node_count_' = (node_count_ - 1) + 1
             /\ \A x, y \in Node : Has(children_, x, nm, y) => x = d /\ y = m
  <2>1. m \in Node /\ type_[m] = "DIR" /\ node_count_' = (node_count_ - 1) + 1
    BY <1>1, <1>5 DEF Replaced
  <2>2. Has(children_, d, nm, m)
    BY <1>2, <2>1, WalkStep
  <2> HIDE DEF n, d, m, od
  <2>3. m # n
    BY <1>1, <1>2, <1>3, <2>1, <2>2 DEF DirsOnce
  <2>4. \A x, y \in Node : Has(children_, x, nm, y) => x = d /\ y = m
    BY <1>1, <1>2, <2>1, <2>2 DEF NamesOnce
  <2> QED BY <2>1, <2>2, <2>3, <2>4
<1> HIDE DEF n, d, m, od
<1>6. old \in Edges /\ new \notin Edges
  BY <1>1, <1>3, <1>4, <1>5 DEF EdgeSet
<1>7. gone \in SUBSET Edges
  BY <1>1, <1>5, <1>6 DEF EdgeSet
<1>8. ASSUME NEW x \in Node, NEW y \in Node, NEW z \in Name
      PROVE  Edge(x, z, y) \in Edges'
               <=> (Edge(x, z, y) \in Edges /\ Edge(x, z, y) \notin gone) \/ Edge(x, z, y) = new
  <2> DEFINE e == Edge(x, z, y)
  <2>1. /\ e = old <=> x = od /\ z = onm /\ y = n
        /\ e = new <=> x = d /\ z = nm /\ y = n
        /\ e = Edge(d, nm, m) <=> x = d /\ z = nm /\ y = m
    BY EdgeFields
  <2>2. e \in Edges' <=> (Has(children_, x, z, y) /\ z # onm /\ z # nm) \/ (x = d /\ z = nm /\ y = n)
    BY <1>1 DEF EdgeSet, Cuts, Adds
  <2>3. e \in Edges <=> Has(children_, x, z, y)
    BY DEF EdgeSet
  <2>4. Has(children_, x, z, y) /\ z = onm => x = od /\ y = n
    BY <1>1, <1>2, <1>3 DEF NamesOnce
  <2>5. CASE NewName(nm)
    <3> HIDE DEF old, new
    <3>1. e \in gone <=> e = old
      BY <2>5
    <3> QED BY <1>1, <1>4, <2>1, <2>2, <2>3, <2>4, <2>5, <3>1
  <2>6. CASE ~NewName(nm)
    <3> HIDE DEF old, new
    <3>1. e \in gone <=> e = old \/ e = Edge(d, nm, m)
      BY <2>6
    <3> QED BY <1>1, <1>5, <2>1, <2>2, <2>3, <2>4, <2>6, <3>1
  <2> QED BY <2>5, <2>6
<1> HIDE DEF gone, old, new
<1>9. Edges' = (Edges \ gone) \cup {new}
  <2>1. \A e \in Edges' : e \in Edges \ gone \/ e = new
    BY <1>8 DEF EdgeSet
  <2>2. \A e \in Edges \ gone : e \in Edges'
    BY <1>8 DEF EdgeSet
  <2>3. new \in Edges'
    BY <1>1, <1>8 DEF new
  <2> QED BY <2>1, <2>2, <2>3
<1>10. /\ Cardinality(Edges') = Cardinality(Edges) - Cardinality(gone) + 1
       /\ Cardinality(Edges) \in Nat /\ Cardinality(gone) \in Nat /\ IsFiniteSet(Edges')
  <2>1. /\ Cardinality(Edges) \in Nat /\ Cardinality(gone) \in Nat
        /\ IsFiniteSet(Edges \ gone)
        /\ Cardinality(Edges \ gone) = Cardinality(Edges) - Cardinality(gone)
    BY <1>7, CountOut
  <2>2. new \notin Edges \ gone
    BY <1>6
  <2>3. /\ Cardinality((Edges \ gone) \cup {new}) = Cardinality(Edges \ gone) + 1
        /\ IsFiniteSet((Edges \ gone) \cup {new})
    BY <2>1, <2>2, CountIn
  <2> QED BY <1>9, <2>1, <2>3
<1>11. node_count_' - node_count_ = 2 - Cardinality(gone)
  <2>1. CASE NewName(nm)
    <3>1. gone = {old}
      BY <2>1 DEF gone, old
    <3>2. Cardinality(gone) = 1
      BY <3>1, FS_Singleton
    <3> QED BY <1>4, <2>1, <3>2
  <2>2. CASE ~NewName(nm)
    <3>1. gone = {old, Edge(d, nm, m)} /\ old # Edge(d, nm, m)
      BY <1>1, <2>2, EdgeFields DEF gone, old
    <3>2. Cardinality(gone) = 2
      <4>1. Cardinality({old}) = 1 /\ IsFiniteSet({old})
        BY FS_Singleton
      <4>2. Edge(d, nm, m) \notin {old} /\ gone = {old} \cup {Edge(d, nm, m)}
        BY <3>1
      <4>3. Cardinality(gone) = Cardinality({old}) + 1
        BY <4>1, <4>2, CountIn
      <4> QED BY <4>1, <4>3
    <3> QED BY <1>5, <2>2, <3>2
  <2> QED BY <2>1, <2>2
<1>12. MovesOne
  <2>1. old \in gone /\ old # new /\ old.node = new.node
    BY <1>1, EdgeFields DEF gone, old, new
  <2>2. old \in Edges \ Edges' /\ new \in Edges' \ Edges
    BY <1>6, <1>9, <2>1
  <2> QED BY <2>1, <2>2 DEF MovesOne
<1>13. Drift = node_count_ - 1 - Cardinality(Edges) /\ Drift' = node_count_' - 1 - Cardinality(Edges')
  BY DEF Drift
<1>14. node_count_' \in Int
  BY <1>4, <1>5
<1>15. Drift' - Drift = 1
  <2>1. \A a, b, k \in Int, i, j \in Nat :
          b - a = 2 - k /\ j = i - k + 1 => (b - 1 - j) - (a - 1 - i) = 1
    OBVIOUS
  <2>2. Cardinality(Edges') \in Nat
    BY <1>10, FS_CardinalityType
  <2> DEFINE a == node_count_
             b == node_count_'
             i == Cardinality(Edges)
             j == Cardinality(Edges')
             k == Cardinality(gone)
  <2>3. a \in Int /\ b \in Int /\ i \in Nat /\ j \in Nat /\ k \in Int
    BY <1>10, <1>14, <2>2
  <2>4. b - a = 2 - k /\ j = i - k + 1
    BY <1>10, <1>11
  <2>5. Drift' - Drift = (b - 1 - j) - (a - 1 - i)
    BY <1>13
  <2> HIDE DEF a, b, i, j, k
  <2> QED BY <2>1, <2>3, <2>4, <2>5
<1> QED BY <1>12, <1>15 DEF Drifts

LEMMA NextDrifts ==
  ASSUME PathInv, CountInv, [Next]_vars
  PROVE  Drifts
<1>1. StepEffect /\ PathInv'
  BY NextEffect, NextPathInv
<1>2. IsFiniteSet(Edges) /\ node_count_ \in Int
  BY TreeFields DEF CountInv, Counted, Edges
<1>3. Dicts(children_) /\ Dicts(children_')
  BY <1>1, PathInvTree DEF PathInv, IInv, Linked, Dicts
<1>4. EdgeSet(Edges, children_) /\ EdgeSet(Edges', children_')
  <2>1. \A t : Dicts(t.ch) => EdgeSet(EdgesOf(t, Node), t.ch)
    BY EdgesAre
  <2>2. Tree.ch = children_ /\ (Tree').ch = children_' /\ Edges' = EdgesOf(Tree', Node)
    BY DEF Tree, Edges
  <2> QED BY <1>3, <2>1, <2>2 DEF Edges
<1>5. ASSUME Stays PROVE Drifts
  <2>1. Edges' = Edges /\ node_count_' = node_count_
    BY <1>5 DEF Stays, Edges, EdgesOf, Tree
  <2>2. Edges \ Edges' = {}
    BY <2>1
  <2>3. ~MovesOne
    BY <2>2 DEF MovesOne
  <2>4. Cardinality(Edges) \in Nat
    BY <1>2, FS_CardinalityType
  <2>5. Drift = node_count_ - 1 - Cardinality(Edges) /\ Drift' = node_count_' - 1 - Cardinality(Edges')
    BY DEF Drift
  <2>6. Drift' - Drift = 0
    BY <1>2, <2>1, <2>4, <2>5
  <2> QED BY <2>3, <2>6 DEF Drifts
<1>6. ASSUME NEW dir \in Seq(Name), NEW nm \in Name, NEW kind, NEW target,
             Made(dir, nm, kind, target)
      PROVE  Drifts
  BY <1>2, <1>4, <1>6, NoEdgeOfNewName, AddedNoDrift DEF Made
<1>7. ASSUME NEW dir \in Seq(Name), NEW old \in Seq(Name), NEW nm \in Name,
             HardLinked(dir, nm, old)
      PROVE  Drifts
  BY <1>2, <1>4, <1>7, NoEdgeOfNewName, AddedNoDrift DEF HardLinked
<1> QED BY <1>1, <1>2, <1>4, <1>5, <1>6, <1>7, RemovedNoDrift, EmptiedNoDrift, MovedDrifts
        DEF StepEffect

\* node_count_ goes with the number of entries, whatever subtrees and hard links go,
\* but for a rename: _move_node deletes an edge with _del_node, which does not count,
\* and adds one with _add_node, which does (FsTree.py:66-150).
THEOREM OnlyRenamesDrift == Spec => CountDriftsByRenames
<1>1. PathInv /\ CountInv /\ [Next]_vars
        => [LET moved == \E e \in Edges \ Edges', f \in Edges' \ Edges : e.node = f.node
            IN  Drift' - Drift = IF moved THEN 1 ELSE 0]_vars
  BY NextDrifts DEF Drifts, MovesOne
<1>2. Init => PathInv /\ CountInv
  BY InitPathInv, InitIInv, EmptyTree DEF CountInv
<1> QED BY <1>1, <1>2, NextPathInv, NextCountInv, PTL DEF Spec, CountDriftsByRenames

(***************************************************************************)
(* The paths that exist                                                    *)
(***************************************************************************)
PathsIn(ch) == {p \in Seq(Name) : Walk(ch, p) \in Node}

\* LivePaths, of any dicts
PathsUnder(ch) ==
  LET under[n \in Node] ==
        {<< >>} \cup UNION {{<<ch[n][i].name>> \o p : p \in under[ch[n][i].node]} :
                            i \in DOMAIN ch[n]}
  IN  under

\* The recursion of LivePaths ends, for what is below a jnode has a higher rank.
LEMMA PathsUnderStep ==
  ASSUME NEW ch, Dicts(ch), NEW rank, NEW m, Ranks(ch, rank, m), NEW n \in Node
  PROVE  PathsUnder(ch)[n] =
           {<< >>} \cup UNION {{<<ch[n][i].name>> \o p : p \in PathsUnder(ch)[ch[n][i].node]} :
                               i \in DOMAIN ch[n]}
<1> DEFINE Down(f, x) ==
             {<< >>} \cup UNION {{<<ch[x][i].name>> \o p : p \in f[ch[x][i].node]} :
                                 i \in DOMAIN ch[x]}
           S == {k \in Nat : \E f : /\ f = [x \in Node |-> f[x]]
                                    /\ \A x \in Node : m - rank[x] < k => f[x] = Down(f, x)}
<1>1. m \in Nat /\ \A x \in Node : rank[x] \in 0..m
  BY DEF Ranks
<1>2. ASSUME NEW x \in Node, NEW i \in DOMAIN ch[x]
      PROVE  ch[x][i].node \in Node /\ rank[x] < rank[ch[x][i].node]
  BY EntryHas DEF Ranks
<1>3. \A f, g, x : (\A i \in DOMAIN ch[x] : f[ch[x][i].node] = g[ch[x][i].node])
                     => Down(f, x) = Down(g, x)
  <2> SUFFICES ASSUME NEW f, NEW g, NEW x,
                      \A i \in DOMAIN ch[x] : f[ch[x][i].node] = g[ch[x][i].node]
               PROVE  Down(f, x) = Down(g, x)
    OBVIOUS
  <2> DEFINE F(i) == {<<ch[x][i].name>> \o p : p \in f[ch[x][i].node]}
             G(i) == {<<ch[x][i].name>> \o p : p \in g[ch[x][i].node]}
  <2>1. \A i \in DOMAIN ch[x] : F(i) = G(i)
    OBVIOUS
  <2>2. /\ Down(f, x) = {<< >>} \cup UNION {F(i) : i \in DOMAIN ch[x]}
        /\ Down(g, x) = {<< >>} \cup UNION {G(i) : i \in DOMAIN ch[x]}
    OBVIOUS
  <2> HIDE DEF F, G, Down
  <2>3. {F(i) : i \in DOMAIN ch[x]} = {G(i) : i \in DOMAIN ch[x]}
    BY <2>1
  <2> QED BY <2>2, <2>3
<1>4. 0 \in S
  <2>1. \A x \in Node : ~(m - rank[x] < 0)
    BY <1>1
  <2>2. [x \in Node |-> {}] = [y \in Node |-> [x \in Node |-> {}][y]]
    OBVIOUS
  <2> QED BY <2>1, <2>2
<1>5. ASSUME NEW k \in Nat, k \in S PROVE k + 1 \in S
  <2>1. PICK f : /\ f = [x \in Node |-> f[x]]
                 /\ \A x \in Node : m - rank[x] < k => f[x] = Down(f, x)
    BY <1>5
  <2> DEFINE g == [x \in Node |-> Down(f, x)]
  <2>2. ASSUME NEW x \in Node, m - rank[x] < k + 1 PROVE g[x] = Down(g, x)
    <3>1. ASSUME NEW i \in DOMAIN ch[x] PROVE f[ch[x][i].node] = g[ch[x][i].node]
      <4> DEFINE y == ch[x][i].node
      <4>1. y \in Node /\ rank[x] < rank[y]
        BY <1>2
      <4> HIDE DEF y
      <4>2. m - rank[y] < k
        BY <1>1, <2>2, <4>1
      <4>3. f[y] = Down(f, y)
        BY <2>1, <4>1, <4>2
      <4>4. g[y] = Down(f, y)
        BY <4>1
      <4> QED BY <4>3, <4>4 DEF y
    <3>2. Down(f, x) = Down(g, x)
      <4> HIDE DEF Down, g
      <4> QED BY <1>3, <3>1, Zenon
    <3> QED BY <3>2
  <2>3. g = [x \in Node |-> g[x]]
    OBVIOUS
  <2> HIDE DEF Down, g
  <2>4. k + 1 \in Nat
    OBVIOUS
  <2> QED BY <2>2, <2>3, <2>4, Zenon
<1>6. PICK f : /\ f = [x \in Node |-> f[x]]
               /\ \A x \in Node : m - rank[x] < m + 1 => f[x] = Down(f, x)
  <2>1. m + 1 \in S
    <3> HIDE DEF S
    <3>1. m + 1 \in Nat
      BY <1>1
    <3> QED BY <3>1, <1>4, <1>5, NatSetInduction
  <2> QED BY <2>1
<1>7. f = [x \in Node |-> Down(f, x)]
  <2> HIDE DEF Down
  <2>1. ASSUME NEW x \in Node PROVE f[x] = Down(f, x)
    <3>1. m - rank[x] < m + 1
      BY <1>1
    <3> QED BY <1>6, <3>1
  <2> QED BY <1>6, <2>1
<1> DEFINE c == CHOOSE h : h = [x \in Node |-> Down(h, x)]
<1>8. c = [x \in Node |-> Down(c, x)]
  BY <1>7
<1>9. PathsUnder(ch) = c
  BY DEF PathsUnder
<1> HIDE DEF c
<1>10. c[n] = Down(c, n)
  BY <1>8
<1> QED BY <1>9, <1>10

\* s goes from d to an entry of it, and on below that.
Continues(ch, d, s) ==
  \E n \in Node, nm \in Name :
    Has(ch, d, nm, n) /\ \E r \in PathsUnder(ch)[n] : s = <<nm>> \o r

LEMMA PathsUnderMember ==
  ASSUME NEW ch, Dicts(ch), NEW rank, NEW m, Ranks(ch, rank, m), NEW d \in Node
  PROVE  /\ << >> \in PathsUnder(ch)[d]
         /\ \A n \in Node, nm \in Name : Has(ch, d, nm, n) =>
              \A r \in PathsUnder(ch)[n] : <<nm>> \o r \in PathsUnder(ch)[d]
         /\ \A s \in PathsUnder(ch)[d] : s = << >> \/ Continues(ch, d, s)
<1> DEFINE U == PathsUnder(ch)
<1>1. U[d] = {<< >>} \cup UNION {{<<ch[d][i].name>> \o p : p \in U[ch[d][i].node]} :
                                 i \in DOMAIN ch[d]}
  BY PathsUnderStep
<1> HIDE DEF U
<1>2. << >> \in U[d]
  BY <1>1
<1>3. ASSUME NEW n \in Node, NEW nm \in Name, Has(ch, d, nm, n), NEW r \in U[n]
      PROVE  <<nm>> \o r \in U[d]
  <2>1. PICK i \in DOMAIN ch[d] : ch[d][i] = [name |-> nm, node |-> n]
    BY <1>3 DEF Has, ToSet
  <2>2. ch[d][i].name = nm /\ ch[d][i].node = n
    BY <2>1
  <2> QED BY <1>1, <2>2
<1>4. ASSUME NEW s \in U[d], s # << >> PROVE Continues(ch, d, s)
  <2>1. PICK i \in DOMAIN ch[d] : \E p \in U[ch[d][i].node] : s = <<ch[d][i].name>> \o p
    BY <1>1, <1>4
  <2> QED BY <2>1, EntryHas DEF Continues, U
<1> QED BY <1>2, <1>3, <1>4 DEF U

LEMMA ConcatHead ==
  ASSUME NEW S, NEW p \in Seq(S), NEW e \in S, NEW r \in Seq(S)
  PROVE  /\ <<e>> \o r \in Seq(S) /\ p \o (<<e>> \o r) \in Seq(S)
         /\ p \o (<<e>> \o r) = Append(p, e) \o r
<1>1. <<e>> \in Seq(S)
  OBVIOUS
<1>2. <<e>> \o r \in Seq(S) /\ p \o (<<e>> \o r) \in Seq(S)
  BY <1>1, ConcatProperties
<1>3. Append(p, e) = p \o <<e>>
  BY AppendIsConcat
<1> QED BY <1>1, <1>2, <1>3, ConcatAssociative

LEMMA UnderIsIn ==
  ASSUME NEW ch, Dicts(ch), NEW rank, NEW m, Ranks(ch, rank, m)
  PROVE  \A n \in Node : \A r \in PathsUnder(ch)[n] :
           /\ r \in Seq(Name)
           /\ \A p \in Seq(Name) : Walk(ch, p) = n => p \o r \in PathsIn(ch)
<1> DEFINE Good(n, r) == /\ r \in Seq(Name)
                         /\ \A p \in Seq(Name) : Walk(ch, p) = n => p \o r \in PathsIn(ch)
           Bad == {n \in Node : \E r \in PathsUnder(ch)[n] : ~Good(n, r)}
<1>0. \A d \in Node : \A s \in PathsUnder(ch)[d] :
        s = << >> \/ Continues(ch, d, s)
  BY PathsUnderMember
<1> DEFINE T == {m - rank[x] : x \in Bad}
<1>1. m \in Nat /\ \A x \in Node : rank[x] \in 0..m
  BY DEF Ranks
<1> SUFFICES ASSUME Bad # {} PROVE FALSE
  OBVIOUS
<1>2. T \subseteq Nat /\ T # {}
  BY <1>1
<1>3. \E k \in T : \A j \in T : k <= j
  <2> HIDE DEF T
  <2> QED BY <1>2, LeastNat
<1>4. PICK n \in Bad : \A k \in Bad : m - rank[n] <= m - rank[k]
  BY <1>3
<1>5. PICK r \in PathsUnder(ch)[n] : ~Good(n, r)
  BY <1>4
<1>6. r # << >>
  <2> SUFFICES ASSUME r = << >> PROVE FALSE
    OBVIOUS
  <2>1. r \in Seq(Name) /\ \A p \in Seq(Name) : p \o r = p
    BY EmptySeq, ConcatEmptySeq
  <2> QED BY <1>4, <1>5, <2>1 DEF PathsIn
<1>7. PICK y \in Node, nm \in Name :
        Has(ch, n, nm, y) /\ \E s \in PathsUnder(ch)[y] : r = <<nm>> \o s
  <2>1. n \in Node
    BY <1>4
  <2> HIDE DEF Bad, Good
  <2> QED BY <1>0, <1>5, <1>6, <2>1 DEF Continues
<1> PICK s \in PathsUnder(ch)[y] : r = <<nm>> \o s
  BY <1>7
<1>8. rank[n] < rank[y]
  BY <1>4, <1>7 DEF Ranks
<1>9. Good(y, s)
  BY <1>1, <1>4, <1>8
<1>10. s \in Seq(Name) /\ r \in Seq(Name)
  BY <1>7, <1>9, ConcatHead, EmptySeq
<1>11. ASSUME NEW p \in Seq(Name), Walk(ch, p) = n PROVE p \o r \in PathsIn(ch)
  <2>1. Append(p, nm) \in Seq(Name) /\ Walk(ch, Append(p, nm)) = y
    BY <1>4, <1>7, <1>11, WalkStep, AppendProperties
  <2>2. Append(p, nm) \o s \in PathsIn(ch)
    BY <1>9, <2>1
  <2>3. p \o r = Append(p, nm) \o s
    BY <1>7, <1>10, ConcatHead
  <2> QED BY <2>2, <2>3
<1> QED BY <1>5, <1>10, <1>11

LEMMA LivePathsExist ==
  ASSUME NEW ch, Dicts(ch), NEW rank, NEW m, Ranks(ch, rank, m)
  PROVE  PathsUnder(ch)[Root] = PathsIn(ch)
<1> DEFINE U == PathsUnder(ch)
           S == {p \in Seq(Name) : Walk(ch, p) \in Node =>
                   \A r \in U[Walk(ch, p)] : p \o r \in U[Root]}
<1>1. \A n \in Node : \A r \in U[n] :
        /\ r \in Seq(Name)
        /\ \A p \in Seq(Name) : Walk(ch, p) = n => p \o r \in PathsIn(ch)
  BY UnderIsIn
<1>2. /\ \A n \in Node : << >> \in U[n]
      /\ \A d, n \in Node, nm \in Name : Has(ch, d, nm, n) =>
           \A r \in U[n] : <<nm>> \o r \in U[d]
  BY PathsUnderMember
<1> HIDE DEF U
<1>3. \A r \in Seq(Name) : << >> \o r = r
  BY ConcatEmptySeq
<1>4. << >> \in Seq(Name) /\ Walk(ch, << >>) = Root /\ Root \in Node
  BY WalkRoot, EmptySeq, RootIsNode
<1>5. U[Root] \subseteq PathsIn(ch)
  <2> SUFFICES ASSUME NEW r \in U[Root] PROVE r \in PathsIn(ch)
    OBVIOUS
  <2>1. r \in Seq(Name)
    BY <1>1, <1>4
  <2>2. << >> \o r \in PathsIn(ch)
    BY <1>1, <1>4
  <2> QED BY <1>3, <2>1, <2>2
<1>6. << >> \in S
  BY <1>1, <1>3, <1>4
<1>7. ASSUME NEW p \in Seq(Name), NEW nm \in Name, p \in S PROVE Append(p, nm) \in S
  <2> DEFINE n == Walk(ch, Append(p, nm))
  <2> SUFFICES ASSUME n \in Node, NEW r \in U[n] PROVE Append(p, nm) \o r \in U[Root]
    BY AppendProperties
  <2>1. Walk(ch, p) \in Node /\ Has(ch, Walk(ch, p), nm, n)
    BY WalkStep
  <2> HIDE DEF n
  <2>2. <<nm>> \o r \in U[Walk(ch, p)] /\ r \in Seq(Name)
    BY <1>1, <1>2, <2>1
  <2>3. p \o (<<nm>> \o r) \in U[Root]
    BY <1>7, <2>1, <2>2
  <2>4. p \o (<<nm>> \o r) = Append(p, nm) \o r
    BY <2>2, ConcatHead
  <2> QED BY <2>3, <2>4
<1>8. Seq(Name) \subseteq S
  <2> HIDE DEF S
  <2> QED BY <1>6, <1>7, SeqSetInduction
<1>9. ASSUME NEW p \in PathsIn(ch) PROVE p \in U[Root]
  <2>1. p \in Seq(Name) /\ Walk(ch, p) \in Node /\ p \o << >> = p
    BY ConcatEmptySeq DEF PathsIn
  <2>2. << >> \in U[Walk(ch, p)]
    BY <1>2, <2>1
  <2> QED BY <1>8, <2>1, <2>2
<1> QED BY <1>5, <1>9 DEF U

LEMMA LivePathsAre ==
  /\ Forest(children_, type_, {}) => LivePaths = PathsIn(children_)
  /\ Forest(children_', type_', {}) => LivePaths' = PathsIn(children_')
<1>1. LivePaths = PathsUnder(children_)[Root] /\ LivePaths' = PathsUnder(children_')[Root]
  BY DEF LivePaths, PathsUnder
<1> QED BY <1>1, LivePathsExist DEF Forest

LEMMA InPaths ==
  ASSUME NEW ch, Dicts(ch)
  PROVE  /\ << >> \in PathsIn(ch)
         /\ \A q \in Seq(Name), k \in Name :
              /\ Append(q, k) \in Seq(Name)
              /\ Append(q, k) \in PathsIn(ch) =>
                   /\ q \in PathsIn(ch) /\ Walk(ch, q) \in Node
                   /\ Walk(ch, Append(q, k)) \in Node
                   /\ Has(ch, Walk(ch, q), k, Walk(ch, Append(q, k)))
              /\ \A y \in Node : q \in PathsIn(ch) /\ Has(ch, Walk(ch, q), k, y) =>
                   Append(q, k) \in PathsIn(ch) /\ Walk(ch, Append(q, k)) = y
<1>1. << >> \in PathsIn(ch)
  BY WalkRoot, RootIsNode, EmptySeq DEF PathsIn
<1>2. ASSUME NEW q \in Seq(Name), NEW k \in Name
      PROVE  /\ Append(q, k) \in Seq(Name)
             /\ Append(q, k) \in PathsIn(ch) =>
                  /\ q \in PathsIn(ch) /\ Walk(ch, q) \in Node
                  /\ Walk(ch, Append(q, k)) \in Node
                  /\ Has(ch, Walk(ch, q), k, Walk(ch, Append(q, k)))
             /\ \A y \in Node : q \in PathsIn(ch) /\ Has(ch, Walk(ch, q), k, y) =>
                  Append(q, k) \in PathsIn(ch) /\ Walk(ch, Append(q, k)) = y
  <2>1. Append(q, k) \in Seq(Name)
    BY AppendProperties
  <2> QED BY <2>1, WalkStep DEF PathsIn
<1> QED BY <1>1, <1>2

\* A directory at or below n has n's path before its own.
LEMMA BelowPath ==
  ASSUME NEW ch, NEW ty, NEW H, Forest(ch, ty, H), NEW p \in Seq(Name), Walk(ch, p) \in Node
  PROVE  \A x \in Subtree(ch, Walk(ch, p)), q \in Seq(Name) :
           ty[x] = "DIR" /\ Walk(ch, q) = x => IsPrefix(p, q)
<1> DEFINE n == Walk(ch, p)
           T == {x \in Node : ty[x] = "DIR" => \A q \in Seq(Name) : Walk(ch, q) = x => IsPrefix(p, q)}
<1>1. Dicts(ch)
  BY DEF Forest
<1>2. n \in T
  BY DirPathUnique, PrefixSelf
<1>3. ASSUME NEW x \in Node, NEW y \in Node, NEW nm \in Name, x \in T, Has(ch, x, nm, y)
      PROVE  y \in T
  <2> SUFFICES ASSUME ty[y] = "DIR", NEW q \in Seq(Name), Walk(ch, q) = y PROVE IsPrefix(p, q)
    OBVIOUS
  <2>1. ty[x] = "DIR" /\ y # Root
    BY <1>3 DEF Forest, DirsHold, Hangs
  <2>2. q # << >>
    BY <2>1, WalkRoot
  <2>3. PICK r \in Seq(Name), k \in Name : q = Append(r, k)
    BY <2>2, SequenceEmptyOrAppend
  <2>4. Walk(ch, r) \in Node /\ Has(ch, Walk(ch, r), k, y)
    BY <1>1, <2>3, WalkStep
  <2>5. Walk(ch, r) = x
    BY <1>3, <2>4 DEF Forest, DirsOnce
  <2>6. IsPrefix(p, r)
    BY <1>3, <2>1, <2>5
  <2> QED BY <2>3, <2>6, PrefixOfAppend
<1>4. T \in SUBSET Node /\ ClosedUnder(ch, T)
  <2> HIDE DEF T
  <2>1. T \in SUBSET Node
    BY DEF T
  <2> QED BY <1>3, <2>1 DEF ClosedUnder
<1>5. Subtree(ch, n) \subseteq T
  <2> HIDE DEF T, n
  <2>1. n \in Node
    BY DEF n
  <2> QED BY <1>1, <1>2, <1>4, <2>1, SubtreeLeast
<1> QED BY <1>5

\* No path is a prefix of the path of the directory it is in.
LEMMA PrefixShorter ==
  ASSUME NEW S, NEW p \in Seq(S), NEW e \in S
  PROVE  ~IsPrefix(Append(p, e), p) /\ ~IsPrefix(Append(p, e), << >>) /\ Append(p, e) # << >>
<1>1. Append(p, e) \in Seq(S) /\ Len(Append(p, e)) = Len(p) + 1 /\ Len(p) \in Nat
  BY AppendProperties
<1>2. \A r \in Seq(S) : Len(Append(p, e) \o r) = Len(p) + 1 + Len(r) /\ Len(r) \in Nat
  BY <1>1, ConcatProperties
<1>3. ASSUME NEW q \in Seq(S), Len(q) <= Len(p) PROVE ~IsPrefix(Append(p, e), q)
  <2> SUFFICES ASSUME IsPrefix(Append(p, e), q) PROVE FALSE
    OBVIOUS
  <2>1. PICK r \in Seq(S) : q = Append(p, e) \o r
    BY <1>1, PrefixIsConcat
  <2>2. Len(q) = Len(p) + 1 + Len(r) /\ Len(r) \in Nat
    BY <1>2, <2>1
  <2> QED BY <1>1, <1>3, <2>2
<1>4. << >> \in Seq(S) /\ Len(<< >>) = 0
  OBVIOUS
<1>5. Len(<< >>) <= Len(p) /\ Len(p) <= Len(p)
  BY <1>1, <1>4
<1>6. Append(p, e) # << >>
  BY <1>1, <1>4
<1> QED BY <1>3, <1>4, <1>5, <1>6

\* A new edge to what has no children makes one new path.
LEMMA AddedPaths ==
  ASSUME NEW ch, NEW ty, NEW H, Forest(ch, ty, H), NEW ch2, Dicts(ch2),
         NEW dir \in Seq(Name), NEW nm \in Name, NEW n \in Node,
         Walk(ch, dir) \in Node, ty[Walk(ch, dir)] = "DIR", n # Walk(ch, dir),
         Adds(ch, ch2, Walk(ch, dir), nm, n),
         \A x, y \in Node : ~Has(ch, x, nm, y),
         \A y \in Node, z \in Name : ~Has(ch, n, z, y)
  PROVE  /\ Append(dir, nm) \notin PathsIn(ch)
         /\ PathsIn(ch2) = PathsIn(ch) \cup {Append(dir, nm)}
         /\ \A q \in PathsIn(ch) : Walk(ch2, q) = Walk(ch, q)
         /\ Walk(ch2, Append(dir, nm)) = n
<1> DEFINE d == Walk(ch, dir)
           p == Append(dir, nm)
           S == {q \in Seq(Name) : q \in PathsIn(ch2) => q \in PathsIn(ch) \cup {p}}
<1>1. Dicts(ch) /\ Within(ch, ch2)
  BY DEF Forest, Within, Adds
<1>2. \A q \in PathsIn(ch) : q \in PathsIn(ch2) /\ Walk(ch2, q) = Walk(ch, q)
  BY <1>1, WalkKept DEF PathsIn
<1>3. dir \in PathsIn(ch) /\ p \in Seq(Name)
  BY AppendProperties DEF PathsIn
<1>4. p \notin PathsIn(ch)
  <2> SUFFICES ASSUME p \in PathsIn(ch) PROVE FALSE
    OBVIOUS
  <2>1. Walk(ch, dir) \in Node /\ Walk(ch, p) \in Node /\ Has(ch, Walk(ch, dir), nm, Walk(ch, p))
    BY <1>1, InPaths
  <2> QED BY <2>1
<1>5. p \in PathsIn(ch2) /\ Walk(ch2, p) = n
  <2>1. dir \in PathsIn(ch2) /\ Walk(ch2, dir) = d /\ Has(ch2, d, nm, n)
    BY <1>2, <1>3 DEF Adds
  <2> QED BY <2>1, InPaths
<1> HIDE DEF p, d
<1>6. << >> \in S
  BY <1>1, InPaths, EmptySeq
<1>7. ASSUME NEW q \in Seq(Name), NEW k \in Name, q \in S PROVE Append(q, k) \in S
  <2> SUFFICES ASSUME Append(q, k) \in PathsIn(ch2) PROVE Append(q, k) \in PathsIn(ch) \cup {p}
    BY AppendProperties
  <2> DEFINE x == Walk(ch2, q)
             y == Walk(ch2, Append(q, k))
  <2>1. q \in PathsIn(ch2) /\ x \in Node /\ y \in Node /\ Has(ch2, x, k, y)
    BY InPaths
  <2>2. q # p
    <3> SUFFICES ASSUME q = p PROVE FALSE
      OBVIOUS
    <3>1. x = n
      BY <1>5
    <3> HIDE DEF x, y
    <3> QED BY <2>1, <3>1 DEF Adds, d
  <2>3. q \in PathsIn(ch) /\ x = Walk(ch, q)
    BY <1>2, <1>7, <2>1, <2>2
  <2>4. Has(ch, x, k, y) \/ (x = d /\ k = nm)
    <3> HIDE DEF x, y
    <3> QED BY <2>1 DEF Adds, d
  <2>5. CASE Has(ch, x, k, y)
    <3> HIDE DEF y
    <3> QED BY <1>1, <2>1, <2>3, <2>5, InPaths
  <2>6. CASE x = d /\ k = nm
    <3>1. q = dir
      BY <2>1, <2>3, <2>6, DirPathUnique DEF d
    <3> QED BY <2>6, <3>1 DEF p
  <2> QED BY <2>4, <2>5, <2>6
<1>8. Seq(Name) \subseteq S
  <2> HIDE DEF S
  <2> QED BY <1>6, <1>7, SeqSetInduction
<1>9. PathsIn(ch2) = PathsIn(ch) \cup {p}
  BY <1>2, <1>5, <1>8 DEF PathsIn
<1> QED BY <1>2, <1>4, <1>5, <1>9 DEF p

\* An edge that goes with all below it takes the paths through it away.
LEMMA RemovedPaths ==
  ASSUME NEW ch, NEW ty, NEW H, Forest(ch, ty, H), NEW ch2, Dicts(ch2),
         NEW dir \in Seq(Name), NEW nm \in Name, Walk(ch, Append(dir, nm)) \in Node,
         Cuts(ch, ch2, Subtree(ch, Walk(ch, Append(dir, nm))), {nm})
  PROVE  /\ \A q \in Seq(Name) :
              q \in PathsIn(ch2) <=> q \in PathsIn(ch) /\ ~IsPrefix(Append(dir, nm), q)
         /\ \A q \in PathsIn(ch2) : Walk(ch2, q) = Walk(ch, q)
<1> DEFINE p == Append(dir, nm)
           n == Walk(ch, p)
           B == Subtree(ch, n)
           S == {q \in Seq(Name) : q \in PathsIn(ch2) <=> q \in PathsIn(ch) /\ ~IsPrefix(p, q)}
<1>1. Dicts(ch) /\ NamesOnce(ch) /\ DirsHold(ch, ty) /\ Within(ch2, ch)
  BY CutsWithin DEF Forest
<1>2. p \in Seq(Name) /\ p \in PathsIn(ch)
  BY AppendProperties DEF PathsIn
<1>3. Walk(ch, dir) \in Node /\ Has(ch, Walk(ch, dir), nm, n)
  BY <1>1, WalkStep
<1>4. \A q \in PathsIn(ch2) : q \in PathsIn(ch) /\ Walk(ch2, q) = Walk(ch, q)
  BY <1>1, WalkKept DEF PathsIn
<1>5. << >> \in S
  BY <1>1, InPaths, PrefixShorter, EmptySeq
<1>6. \A x \in B, q \in Seq(Name) : ty[x] = "DIR" /\ Walk(ch, q) = x => IsPrefix(p, q)
  BY <1>2, BelowPath
<1>7. n \in Node
  OBVIOUS
<1>8. \A x, y \in Node, z \in Name :
        Has(ch2, x, z, y) <=> Has(ch, x, z, y) /\ x \notin B /\ z # nm
  BY DEF Cuts
<1> HIDE DEF p, n, B
<1>9. ASSUME NEW q \in Seq(Name), NEW k \in Name, q \in S PROVE Append(q, k) \in S
  <2> DEFINE a == Append(q, k)
  <2>1. a \in Seq(Name)
    BY AppendProperties
  <2>2. IsPrefix(p, a) <=> IsPrefix(p, q) \/ p = a
    BY <1>2, PrefixOfAppend
  <2>3. ASSUME a \in PathsIn(ch2) PROVE a \in PathsIn(ch) /\ ~IsPrefix(p, a)
    <3>1. q \in PathsIn(ch2) /\ Has(ch2, Walk(ch2, q), k, Walk(ch2, a))
          /\ Walk(ch2, q) \in Node /\ Walk(ch2, a) \in Node
      BY <2>3, InPaths
    <3>2. k # nm
      BY <1>8, <3>1
    <3>3. p # a
      BY <3>2, FrontLastOfAppend DEF p
    <3> QED BY <1>4, <1>9, <2>2, <2>3, <3>1, <3>3
  <2>4. ASSUME a \in PathsIn(ch), ~IsPrefix(p, a) PROVE a \in PathsIn(ch2)
    <3> DEFINE x == Walk(ch, q)
               y == Walk(ch, a)
    <3>1. q \in PathsIn(ch) /\ Has(ch, x, k, y) /\ x \in Node /\ y \in Node
      BY <1>1, <2>4, InPaths
    <3>2. q \in PathsIn(ch2) /\ Walk(ch2, q) = x
      BY <1>4, <1>9, <2>2, <2>4, <3>1
    <3>3. ty[x] = "DIR"
      <4> HIDE DEF x, y
      <4> QED BY <1>1, <3>1 DEF DirsHold
    <3>4. x \notin B
      BY <1>6, <2>2, <2>4, <3>3
    <3>5. k # nm
      <4> SUFFICES ASSUME k = nm PROVE FALSE
        OBVIOUS
      <4>1. x = Walk(ch, dir)
        <5> HIDE DEF x, y
        <5> QED BY <1>1, <1>3, <1>7, <3>1 DEF NamesOnce
      <4>2. q = dir
        BY <3>1, <3>3, <4>1, DirPathUnique
      <4>3. p = a
        BY <4>2 DEF p
      <4> QED BY <2>2, <2>4, <4>3
    <3>6. Has(ch2, x, k, y)
      <4> HIDE DEF x, y
      <4> QED BY <1>8, <3>1, <3>4, <3>5
    <3> HIDE DEF y
    <3> QED BY <3>1, <3>2, <3>6, InPaths
  <2> QED BY <2>1, <2>3, <2>4
<1>10. Seq(Name) \subseteq S
  <2> HIDE DEF S
  <2> QED BY <1>5, <1>9, SeqSetInduction
<1> QED BY <1>4, <1>10 DEF p

\* What is below a directory goes with its paths, and the directory stays.
LEMMA EmptiedPaths ==
  ASSUME NEW ch, NEW ty, NEW H, Forest(ch, ty, H), NEW ch2, Dicts(ch2),
         NEW p \in Seq(Name), Walk(ch, p) \in Node,
         Cuts(ch, ch2, Subtree(ch, Walk(ch, p)), {})
  PROVE  /\ \A q \in Seq(Name) :
              q \in PathsIn(ch2) <=> q \in PathsIn(ch) /\ (IsPrefix(p, q) => q = p)
         /\ \A q \in PathsIn(ch2) : Walk(ch2, q) = Walk(ch, q)
<1> DEFINE n == Walk(ch, p)
           B == Subtree(ch, n)
           S == {q \in Seq(Name) :
                   q \in PathsIn(ch2) <=> q \in PathsIn(ch) /\ (IsPrefix(p, q) => q = p)}
<1>1. Dicts(ch) /\ DirsHold(ch, ty) /\ Within(ch2, ch)
  BY CutsWithin DEF Forest
<1>2. p \in PathsIn(ch)
  BY DEF PathsIn
<1>3. \A q \in PathsIn(ch2) : q \in PathsIn(ch) /\ Walk(ch2, q) = Walk(ch, q)
  BY <1>1, WalkKept DEF PathsIn
<1>4. << >> \in S
  <2>1. IsPrefix(p, << >>) => << >> = p
    <3> SUFFICES ASSUME p # << >> PROVE ~IsPrefix(p, << >>)
      OBVIOUS
    <3>1. PICK r \in Seq(Name), k \in Name : p = Append(r, k)
      BY SequenceEmptyOrAppend
    <3> QED BY <3>1, PrefixShorter
  <2> QED BY <1>1, <2>1, InPaths, EmptySeq
<1>5. \A x \in B, q \in Seq(Name) : ty[x] = "DIR" /\ Walk(ch, q) = x => IsPrefix(p, q)
  BY BelowPath
<1>6. n \in B
  <2>1. \A m \in Node : m \in Subtree(ch, m)
    BY <1>1, SubtreeClosed
  <2> QED BY <2>1
<1>7. \A x, y \in Node, z \in Name : Has(ch2, x, z, y) <=> Has(ch, x, z, y) /\ x \notin B
  BY DEF Cuts
<1> HIDE DEF B
<1>8. ASSUME NEW q \in Seq(Name), NEW k \in Name, q \in S PROVE Append(q, k) \in S
  <2> DEFINE a == Append(q, k)
  <2>1. a \in Seq(Name)
    BY AppendProperties
  <2>2. IsPrefix(p, a) <=> IsPrefix(p, q) \/ p = a
    BY PrefixOfAppend
  <2>3. ASSUME a \in PathsIn(ch2) PROVE a \in PathsIn(ch) /\ (IsPrefix(p, a) => a = p)
    <3> DEFINE x == Walk(ch2, q)
    <3>1. q \in PathsIn(ch2) /\ Has(ch2, x, k, Walk(ch2, a)) /\ x \in Node /\ Walk(ch2, a) \in Node
      BY <2>3, InPaths
    <3>2. x \notin B
      BY <1>7, <3>1
    <3>3. q # p
      BY <1>3, <1>6, <3>1, <3>2
    <3> QED BY <1>3, <1>8, <2>2, <2>3, <3>1, <3>3
  <2>4. ASSUME a \in PathsIn(ch), IsPrefix(p, a) => a = p PROVE a \in PathsIn(ch2)
    <3> DEFINE x == Walk(ch, q)
               y == Walk(ch, a)
    <3>1. q \in PathsIn(ch) /\ Has(ch, x, k, y) /\ x \in Node /\ y \in Node
      BY <1>1, <2>4, InPaths
    <3>2. ~IsPrefix(p, q)
      BY <2>2, <2>4, PrefixShorter
    <3>3. q \in PathsIn(ch2) /\ Walk(ch2, q) = x
      BY <1>3, <1>8, <3>1, <3>2
    <3>4. ty[x] = "DIR"
      <4> HIDE DEF x, y
      <4> QED BY <1>1, <3>1 DEF DirsHold
    <3>5. x \notin B
      BY <1>5, <3>2, <3>4
    <3>6. Has(ch2, x, k, y)
      <4> HIDE DEF x, y
      <4> QED BY <1>7, <3>1, <3>5
    <3> HIDE DEF y
    <3> QED BY <3>1, <3>3, <3>6, InPaths
  <2> QED BY <2>1, <2>3, <2>4
<1>9. Seq(Name) \subseteq S
  <2> HIDE DEF S
  <2> QED BY <1>4, <1>8, SeqSetInduction
<1> QED BY <1>3, <1>9

\* The paths that are left when the old edge is gone, and the new one if there was one.
LEMMA UnlinkedPaths ==
  ASSUME NEW ch, NEW ty, NEW H, Forest(ch, ty, H), NEW ch2, Dicts(ch2),
         NEW from \in Seq(Name), NEW onm \in Name, NEW dir \in Seq(Name), NEW nm \in Name,
         Walk(ch, Append(from, onm)) \in Node,
         Cuts(ch, ch2, {}, {onm, nm}),
         \A x, y \in Node : Has(ch, x, nm, y) =>
           /\ x = Walk(ch, dir) /\ y = Walk(ch, Append(dir, nm))
           /\ \A w \in Node, z \in Name : ~Has(ch, y, z, w)
  PROVE  /\ \A q \in Seq(Name) : q \in PathsIn(ch2) <=>
              q \in PathsIn(ch) /\ ~IsPrefix(Append(from, onm), q) /\ q # Append(dir, nm)
         /\ \A q \in PathsIn(ch2) : Walk(ch2, q) = Walk(ch, q)
<1> DEFINE old == Append(from, onm)
           new == Append(dir, nm)
           S == {q \in Seq(Name) :
                   q \in PathsIn(ch2) <=> q \in PathsIn(ch) /\ ~IsPrefix(old, q) /\ q # new}
<1>1. Dicts(ch) /\ NamesOnce(ch) /\ DirsHold(ch, ty) /\ Within(ch2, ch)
  BY CutsWithin DEF Forest
<1>2. /\ old \in Seq(Name) /\ old \in PathsIn(ch)
      /\ new \in Seq(Name) /\ new # << >>
  BY AppendProperties, PrefixShorter DEF PathsIn
<1>3. /\ Walk(ch, from) \in Node /\ Walk(ch, old) \in Node
      /\ Has(ch, Walk(ch, from), onm, Walk(ch, old))
  BY <1>1, WalkStep
<1>4. \A q \in PathsIn(ch2) : q \in PathsIn(ch) /\ Walk(ch2, q) = Walk(ch, q)
  BY <1>1, WalkKept DEF PathsIn
<1>5. << >> \in S
  BY <1>1, <1>2, InPaths, PrefixShorter, EmptySeq
<1>6. \A x, y \in Node, z \in Name :
        Has(ch2, x, z, y) <=> Has(ch, x, z, y) /\ z # onm /\ z # nm
  BY DEF Cuts
<1>7. ASSUME new \in PathsIn(ch)
      PROVE  \A w \in Node, z \in Name : ~Has(ch, Walk(ch, new), z, w)
  <2>1. Walk(ch, new) \in Node /\ Walk(ch, dir) \in Node /\ Has(ch, Walk(ch, dir), nm, Walk(ch, new))
    BY <1>1, <1>7, InPaths
  <2> QED BY <2>1
<1>8. \A q \in Seq(Name), k \in Name :
        /\ Append(q, k) = old => k = onm
        /\ Append(q, k) = new => k = nm
  BY FrontLastOfAppend
<1>9. \A x, y \in Node : Has(ch, x, nm, y) => x = Walk(ch, dir)
  OBVIOUS
<1>10. Append(from, onm) = old /\ Append(dir, nm) = new
  OBVIOUS
<1> HIDE DEF old, new
<1>11. ASSUME NEW q \in Seq(Name), NEW k \in Name, q \in S PROVE Append(q, k) \in S
  <2> DEFINE a == Append(q, k)
  <2>1. a \in Seq(Name)
    BY AppendProperties
  <2>2. IsPrefix(old, a) <=> IsPrefix(old, q) \/ old = a
    BY <1>2, PrefixOfAppend
  <2>3. ASSUME a \in PathsIn(ch2) PROVE a \in PathsIn(ch) /\ ~IsPrefix(old, a) /\ a # new
    <3>1. q \in PathsIn(ch2) /\ Has(ch2, Walk(ch2, q), k, Walk(ch2, a))
          /\ Walk(ch2, q) \in Node /\ Walk(ch2, a) \in Node
      BY <2>3, InPaths
    <3>2. k # onm /\ k # nm
      BY <1>6, <3>1
    <3>3. old # a /\ a # new
      BY <1>8, <3>2
    <3> QED BY <1>4, <1>11, <2>2, <2>3, <3>1, <3>3
  <2>4. ASSUME a \in PathsIn(ch), ~IsPrefix(old, a), a # new PROVE a \in PathsIn(ch2)
    <3> DEFINE x == Walk(ch, q)
               y == Walk(ch, a)
    <3>1. q \in PathsIn(ch) /\ Has(ch, x, k, y) /\ x \in Node /\ y \in Node
      BY <1>1, <2>4, InPaths
    <3>2. q # new
      <4> SUFFICES ASSUME q = new PROVE FALSE
        OBVIOUS
      <4>1. \A w \in Node, z \in Name : ~Has(ch, x, z, w)
        BY <1>7, <3>1
      <4> HIDE DEF x, y
      <4> QED BY <3>1, <4>1
    <3>3. q \in PathsIn(ch2) /\ Walk(ch2, q) = x
      BY <1>4, <1>11, <2>2, <2>4, <3>1, <3>2
    <3>4. ty[x] = "DIR"
      <4> HIDE DEF x, y
      <4> QED BY <1>1, <3>1 DEF DirsHold
    <3>5. k # onm
      <4> SUFFICES ASSUME k = onm PROVE FALSE
        OBVIOUS
      <4>1. x = Walk(ch, from)
        <5> HIDE DEF x, y
        <5> QED BY <1>1, <1>3, <3>1 DEF NamesOnce
      <4>2. q = from
        BY <3>1, <3>4, <4>1, DirPathUnique
      <4>3. old = a
        BY <1>10, <4>2
      <4> QED BY <2>2, <2>4, <4>3
    <3>6. k # nm
      <4> SUFFICES ASSUME k = nm PROVE FALSE
        OBVIOUS
      <4>1. x = Walk(ch, dir)
        <5> HIDE DEF x, y
        <5> QED BY <1>9, <3>1
      <4>2. q = dir
        BY <3>1, <3>4, <4>1, DirPathUnique
      <4> QED BY <1>10, <2>4, <4>2
    <3>7. Has(ch2, x, k, y)
      <4> HIDE DEF x, y
      <4> QED BY <1>6, <3>1, <3>5, <3>6
    <3> HIDE DEF y
    <3> QED BY <3>1, <3>3, <3>7, InPaths
  <2> QED BY <2>1, <2>3, <2>4
<1>12. Seq(Name) \subseteq S
  <2> HIDE DEF S
  <2> QED BY <1>5, <1>11, SeqSetInduction
<1> QED BY <1>4, <1>12 DEF old, new

\* Below the new path is what was below the old one, and the other paths are as before.
LEMMA RelinkedPaths ==
  ASSUME NEW ch, NEW ty, NEW H, Forest(ch, ty, H), NEW ch2, Dicts(ch2), NEW ch3, Dicts(ch3),
         NEW from \in Seq(Name), NEW onm \in Name, NEW dir \in Seq(Name), NEW nm \in Name,
         NEW n \in Node, Walk(ch, Append(from, onm)) = n,
         Walk(ch, dir) \in Node, ty[Walk(ch, dir)] = "DIR", Walk(ch2, dir) = Walk(ch, dir),
         ~IsPrefix(Append(from, onm), Append(dir, nm)),
         Cuts(ch, ch2, {}, {onm, nm}), Adds(ch2, ch3, Walk(ch, dir), nm, n),
         \A x, y \in Node : Has(ch, x, nm, y) => x = Walk(ch, dir)
  PROVE  /\ \A r \in Seq(Name) :
              /\ Append(dir, nm) \o r \in PathsIn(ch3) <=> Append(from, onm) \o r \in PathsIn(ch)
              /\ Append(dir, nm) \o r \in PathsIn(ch3) =>
                   Walk(ch3, Append(dir, nm) \o r) = Walk(ch, Append(from, onm) \o r)
         /\ \A q \in PathsIn(ch3) : q \in PathsIn(ch2) \/ IsPrefix(Append(dir, nm), q)
         /\ \A q \in PathsIn(ch2) : q \in PathsIn(ch3) /\ Walk(ch3, q) = Walk(ch2, q)
<1> DEFINE old == Append(from, onm)
           new == Append(dir, nm)
           d == Walk(ch, dir)
           T == {r \in Seq(Name) :
                   /\ new \o r \in PathsIn(ch3) <=> old \o r \in PathsIn(ch)
                   /\ new \o r \in PathsIn(ch3) => Walk(ch3, new \o r) = Walk(ch, old \o r)}
           U == {q \in Seq(Name) : q \in PathsIn(ch3) => q \in PathsIn(ch2) \/ IsPrefix(new, q)}
<1>1. Dicts(ch) /\ NamesOnce(ch) /\ DirsHold(ch, ty) /\ Within(ch2, ch) /\ Within(ch2, ch3)
  BY CutsWithin DEF Forest, Within, Adds
<1>2. /\ old \in Seq(Name) /\ new \in Seq(Name)
      /\ new \o << >> = new /\ old \o << >> = old
  BY AppendProperties, ConcatEmptySeq
<1>3. /\ Walk(ch, from) \in Node /\ Has(ch, Walk(ch, from), onm, n)
  BY <1>1, WalkStep
<1>4. \A q \in PathsIn(ch2) :
        /\ q \in PathsIn(ch3) /\ Walk(ch3, q) = Walk(ch2, q)
        /\ q \in PathsIn(ch) /\ Walk(ch, q) = Walk(ch2, q)
  BY <1>1, WalkKept DEF PathsIn
<1>5. d \in Node /\ ty[d] = "DIR" /\ \A q \in Seq(Name) : Walk(ch, q) = d => q = dir
  BY DirPathUnique
<1>6. \A q \in Seq(Name) :
        ty[Walk(ch, from)] = "DIR" /\ Walk(ch, q) = Walk(ch, from) => q = from
  BY <1>3, DirPathUnique
<1>7. \A x, y \in Node, z \in Name :
        /\ Has(ch2, x, z, y) <=> Has(ch, x, z, y) /\ z # onm /\ z # nm
        /\ Has(ch3, x, z, y) <=> Has(ch2, x, z, y) \/ (x = d /\ z = nm /\ y = n)
  BY DEF Cuts, Adds
<1>8. new \in PathsIn(ch3) /\ Walk(ch3, new) = n /\ old \in PathsIn(ch) /\ Walk(ch, old) = n
  <2>1. dir \in PathsIn(ch2)
    BY DEF PathsIn
  <2>2. dir \in PathsIn(ch3) /\ Walk(ch3, dir) = d
    BY <1>4, <2>1
  <2>3. Has(ch3, d, nm, n)
    <3> HIDE DEF d
    <3> QED BY <1>5, <1>7
  <2>4. new \in PathsIn(ch3) /\ Walk(ch3, new) = n
    BY <2>2, <2>3, InPaths
  <2> QED BY <1>2, <2>4 DEF PathsIn
<1>9. \A x, y \in Node : Has(ch, x, nm, y) => x = d
  OBVIOUS
<1>10. /\ ~IsPrefix(old, from) /\ ~IsPrefix(old, dir)
       /\ IsPrefix(new, new) /\ Append(dir, nm) = new
  BY <1>2, PrefixShorter, PrefixSelf, PrefixOfAppend
<1>11. /\ new \o << >> \in PathsIn(ch3) /\ old \o << >> \in PathsIn(ch)
       /\ Walk(ch3, new \o << >>) = n /\ Walk(ch, old \o << >>) = n
  BY <1>2, <1>8
<1>12. << >> \in T
  <2> HIDE DEF old, new
  <2> QED BY <1>11
<1>13. << >> \in U
  BY InPaths
<1> HIDE DEF old, new, d
<1>14. ASSUME NEW r \in Seq(Name), NEW k \in Name, r \in T PROVE Append(r, k) \in T
  <2> DEFINE N == new \o r
             O == old \o r
             x == Walk(ch, O)
  <2>1. /\ Append(r, k) \in Seq(Name) /\ N \in Seq(Name) /\ O \in Seq(Name)
        /\ new \o Append(r, k) = Append(N, k) /\ old \o Append(r, k) = Append(O, k)
    <3>1. Append(r, k) \in Seq(Name) /\ N \in Seq(Name) /\ O \in Seq(Name)
      BY <1>2, AppendProperties, ConcatProperties
    <3>2. new \o Append(r, k) = Append(new \o r, k) /\ old \o Append(r, k) = Append(old \o r, k)
      BY <1>2, ConcatAppend
    <3> QED BY <3>1, <3>2
  <2>2. IsPrefix(old, O)
    BY <1>2, <2>1, PrefixIsConcat
  <2>3. O # dir /\ O # from
    BY <1>10, <2>2
  <2>4. N \in PathsIn(ch3) <=> O \in PathsIn(ch)
    BY <1>14
  <2>5. N \in PathsIn(ch3) => Walk(ch3, N) = x
    BY <1>14
  <2> HIDE DEF N, O
  <2>6. x # d
    BY <1>5, <2>1, <2>3
  <2>7. ASSUME Append(N, k) \in PathsIn(ch3)
        PROVE  Append(O, k) \in PathsIn(ch) /\ Walk(ch3, Append(N, k)) = Walk(ch, Append(O, k))
    <3> DEFINE y == Walk(ch3, Append(N, k))
    <3>1. N \in PathsIn(ch3) /\ Walk(ch3, N) \in Node /\ y \in Node /\ Has(ch3, Walk(ch3, N), k, y)
      BY <2>1, <2>7, InPaths
    <3>2. x \in Node /\ Has(ch3, x, k, y)
      BY <2>5, <3>1
    <3>3. Has(ch, x, k, y)
      <4> HIDE DEF x, y
      <4> QED BY <1>7, <2>6, <3>1, <3>2
    <3> HIDE DEF y
    <3>4. Append(O, k) \in PathsIn(ch) /\ Walk(ch, Append(O, k)) = y
      BY <1>1, <2>1, <2>4, <3>1, <3>3, InPaths
    <3> QED BY <3>4 DEF y
  <2>8. ASSUME Append(O, k) \in PathsIn(ch) PROVE Append(N, k) \in PathsIn(ch3)
    <3> DEFINE y == Walk(ch, Append(O, k))
    <3>1. O \in PathsIn(ch) /\ x \in Node /\ y \in Node /\ Has(ch, x, k, y)
      BY <1>1, <2>1, <2>8, InPaths
    <3>2. ty[x] = "DIR"
      <4> HIDE DEF x, y
      <4> QED BY <1>1, <3>1 DEF DirsHold
    <3>3. k # onm
      <4> SUFFICES ASSUME k = onm PROVE FALSE
        OBVIOUS
      <4>1. x = Walk(ch, from)
        <5> HIDE DEF x, y
        <5> QED BY <1>1, <1>3, <3>1 DEF NamesOnce
      <4> QED BY <1>6, <2>1, <2>3, <3>2, <4>1
    <3>4. k # nm
      <4> HIDE DEF x, y
      <4> QED BY <1>9, <2>6, <3>1
    <3>5. Has(ch3, x, k, y)
      <4> HIDE DEF x, y
      <4> QED BY <1>7, <3>1, <3>3, <3>4
    <3>6. N \in PathsIn(ch3) /\ Walk(ch3, N) = x
      BY <2>4, <2>5, <3>1
    <3> HIDE DEF x, y
    <3> QED BY <2>1, <3>1, <3>5, <3>6, InPaths
  <2> QED BY <2>1, <2>7, <2>8
<1>15. ASSUME NEW q \in Seq(Name), NEW k \in Name, q \in U PROVE Append(q, k) \in U
  <2> DEFINE a == Append(q, k)
             x == Walk(ch3, q)
             y == Walk(ch3, a)
  <2> SUFFICES ASSUME a \in PathsIn(ch3), ~IsPrefix(new, a) PROVE a \in PathsIn(ch2)
    BY AppendProperties
  <2>1. q \in PathsIn(ch3) /\ x \in Node /\ y \in Node /\ Has(ch3, x, k, y)
    BY InPaths
  <2>2. ~IsPrefix(new, q) /\ a # new
    BY <1>2, PrefixOfAppend
  <2>3. q \in PathsIn(ch2) /\ Walk(ch2, q) = x /\ Walk(ch, q) = x
    BY <1>4, <1>15, <2>1, <2>2
  <2>4. ~(x = d /\ k = nm)
    BY <1>5, <1>10, <2>2, <2>3
  <2>5. Has(ch2, x, k, y)
    <3> HIDE DEF x, y
    <3> QED BY <1>7, <2>1, <2>4
  <2> HIDE DEF x, y
  <2> QED BY <2>1, <2>3, <2>5, InPaths
<1>16. Seq(Name) \subseteq T /\ Seq(Name) \subseteq U
  <2> HIDE DEF T, U
  <2> QED BY <1>12, <1>13, <1>14, <1>15, SeqSetInduction
<1>17. \A q \in PathsIn(ch3) : q \in PathsIn(ch2) \/ IsPrefix(new, q)
  BY <1>16 DEF PathsIn
<1> QED BY <1>4, <1>16, <1>17 DEF old, new

(***************************************************************************)
(* Each effect on the tree is an operation on the name space               *)
(***************************************************************************)
\* What Files is before and after a step, and what it means for the operations.
LEMMA FilesAre ==
  ASSUME PathInv
  PROVE  /\ NameSpace!Paths = PathsIn(children_)
         /\ \A p \in PathsIn(children_) : Files[p] = Walk(children_, p)
         /\ \A p \in Seq(Name) :
              NameSpace!IsDir(p) <=> Walk(children_, p) \in Node /\ type_[Walk(children_, p)] = "DIR"
<1>1. LivePaths = PathsIn(children_)
  BY LivePathsAre DEF PathInv
<1>2. NameSpace!Paths = PathsIn(children_)
  BY <1>1 DEF NameSpace!Paths, Files
<1>3. \A p \in PathsIn(children_) : Files[p] = Walk(children_, p)
  BY <1>1 DEF Files
<1> QED BY <1>2, <1>3 DEF NameSpace!IsDir, PathsIn

LEMMA FilesNextAre ==
  ASSUME PathInv'
  PROVE  Files' = [p \in PathsIn(children_') |-> Walk(children_', p)]
BY LivePathsAre DEF PathInv, Files

LEMMA SpaceOperators ==
  ASSUME NEW p, NEW q
  PROVE  (NameSpace!IsPrefix(p, q) <=> IsPrefix(p, q)) /\ NameSpace!Front(p) = Front(p)
BY DEF NameSpace!IsPrefix, IsPrefix, NameSpace!Front, Front

\* A path more, which leads to i.
LEMMA FilesGrow ==
  ASSUME PathInv, PathInv', NEW dir \in Seq(Name), NEW nm \in Name, NewName(nm),
         NEW i \in Node, i # Walk(children_, dir),
         Walk(children_, dir) \in Node, type_[Walk(children_, dir)] = "DIR",
         Adds(children_, children_', Walk(children_, dir), nm, i),
         \A y \in Node, z \in Name : ~Has(children_, i, z, y)
  PROVE  /\ NameSpace!IsDir(NameSpace!Front(Append(dir, nm)))
         /\ Append(dir, nm) \notin NameSpace!Paths
         /\ Files' = [q \in NameSpace!Paths \cup {Append(dir, nm)} |->
                        IF q = Append(dir, nm) THEN i ELSE Files[q]]
<1> DEFINE p == Append(dir, nm)
           P == PathsIn(children_)
<1>1. Forest(children_, type_, {}) /\ Dicts(children_')
  BY DEF PathInv, Forest
<1>2. \A x, y \in Node : ~Has(children_, x, nm, y)
  BY NoEdgeOfNewName
<1>3. /\ p \notin P /\ PathsIn(children_') = P \cup {p}
      /\ \A q \in P : Walk(children_', q) = Walk(children_, q)
      /\ Walk(children_', p) = i
  BY <1>1, <1>2, AddedPaths
<1>4. NameSpace!Front(p) = dir
  BY SpaceOperators, FrontLastOfAppend
<1>5. /\ NameSpace!IsDir(dir) /\ NameSpace!Paths = P
      /\ \A q \in P : Files[q] = Walk(children_, q)
  BY FilesAre
<1>6. Files' = [q \in PathsIn(children_') |-> Walk(children_', q)]
  BY FilesNextAre
<1> HIDE DEF p, P
<1>7. Files' = [q \in P \cup {p} |-> IF q = p THEN i ELSE Files[q]]
  BY <1>3, <1>5, <1>6
<1> QED BY <1>3, <1>4, <1>5, <1>7 DEF p

\* os.mkdir, os.mknod, os.symlink and their like make a path.
LEMMA MadeIsMake ==
  ASSUME PathInv, PathInv', NEW dir \in Seq(Name), NEW nm \in Name, NEW kind \in Kind, NEW target,
         Made(dir, nm, kind, target)
  PROVE  NameSpace!Make(Append(dir, nm), id_count_, kind)
<1>1. /\ NewName(nm) /\ id_count_ \in Node
      /\ Walk(children_, dir) \in Node /\ type_[Walk(children_, dir)] = "DIR"
      /\ Adds(children_, children_', Walk(children_, dir), nm, id_count_)
      /\ type_' = [type_ EXCEPT ![id_count_] = kind]
  BY DEF Made
<1>2. type_[id_count_] = "UNUSED"
  BY <1>1 DEF PathInv, Node
<1>3. \A y \in Node, z \in Name : ~Has(children_, id_count_, z, y)
  BY <1>1, <1>2, PathInvTree DEF DirsHold
<1>4. id_count_ # Walk(children_, dir)
  BY <1>1, <1>2
<1> QED BY <1>1, <1>2, <1>3, <1>4, FilesGrow DEF NameSpace!Make

\* os.link makes a second path.
LEMMA HardLinkedIsHardLink ==
  ASSUME PathInv, PathInv', NEW dir \in Seq(Name), NEW old \in Seq(Name), NEW nm \in Name,
         HardLinked(dir, nm, old)
  PROVE  NameSpace!HardLink(Append(dir, nm), old) /\ old \in NameSpace!Paths
<1> DEFINE i == Walk(children_, old)
<1>1. /\ NewName(nm) /\ i \in Node /\ type_[i] = "FILE"
      /\ Walk(children_, dir) \in Node /\ type_[Walk(children_, dir)] = "DIR"
      /\ Adds(children_, children_', Walk(children_, dir), nm, i)
      /\ type_' = type_
  BY DEF HardLinked
<1>2. old \in NameSpace!Paths /\ Files[old] = i
  BY <1>1, FilesAre DEF PathsIn
<1> HIDE DEF i
<1>3. \A y \in Node, z \in Name : ~Has(children_, i, z, y)
  BY <1>1, PathInvTree DEF DirsHold
<1>4. i # Walk(children_, dir)
  BY <1>1
<1> QED BY <1>1, <1>2, <1>3, <1>4, FilesGrow DEF NameSpace!HardLink

\* shutil.rmtree and os.remove take a path and all below it away.
LEMMA RemovedIsRemoveTree ==
  ASSUME PathInv, PathInv', NEW dir \in Seq(Name), NEW nm \in Name, Removed(dir, nm)
  PROVE  NameSpace!RemoveTree(Append(dir, nm)) /\ Append(dir, nm) \in NameSpace!Paths
<1> DEFINE p == Append(dir, nm)
           P == PathsIn(children_)
<1>1. Forest(children_, type_, {}) /\ Dicts(children_')
  BY DEF PathInv, Forest
<1>2. /\ Walk(children_, p) \in Node /\ type_' = type_
      /\ Cuts(children_, children_', Subtree(children_, Walk(children_, p)), {nm})
  BY DEF Removed
<1>3. /\ \A q \in Seq(Name) : q \in PathsIn(children_') <=> q \in P /\ ~IsPrefix(p, q)
      /\ \A q \in PathsIn(children_') : Walk(children_', q) = Walk(children_, q)
  BY <1>1, <1>2, RemovedPaths
<1>4. p \in Seq(Name) /\ p # << >>
  BY AppendProperties, PrefixShorter
<1>5. p \in P /\ P \subseteq Seq(Name) /\ PathsIn(children_') \subseteq Seq(Name)
  BY <1>2, <1>4 DEF PathsIn
<1>6. /\ NameSpace!Paths = P /\ \A q \in P : Files[q] = Walk(children_, q)
  BY FilesAre
<1>7. Files' = [q \in PathsIn(children_') |-> Walk(children_', q)]
  BY FilesNextAre
<1>8. NameSpace!At(p) = {q \in P : IsPrefix(p, q)}
  BY <1>6, SpaceOperators DEF NameSpace!At
<1> HIDE DEF p, P
<1>9. PathsIn(children_') = P \ NameSpace!At(p)
  BY <1>3, <1>5, <1>8
<1>10. Files' = [q \in P \ NameSpace!At(p) |-> Files[q]]
  BY <1>3, <1>5, <1>6, <1>7, <1>9
<1>11. NameSpace!RemoveTree(p) /\ p \in NameSpace!Paths
  BY <1>2, <1>4, <1>5, <1>6, <1>10 DEF NameSpace!RemoveTree
<1> QED BY <1>11 DEF p

\* REDUCE takes all below a directory away.
LEMMA EmptiedIsEmptyDir ==
  ASSUME PathInv, PathInv', NEW p \in Seq(Name), Emptied(p)
  PROVE  NameSpace!EmptyDir(p) /\ p \in NameSpace!Paths
<1> DEFINE P == PathsIn(children_)
<1>1. Forest(children_, type_, {}) /\ Dicts(children_')
  BY DEF PathInv, Forest
<1>2. /\ Walk(children_, p) \in Node /\ type_' = type_ /\ type_[Walk(children_, p)] = "DIR"
      /\ Cuts(children_, children_', Subtree(children_, Walk(children_, p)), {})
  BY DEF Emptied
<1>3. /\ \A q \in Seq(Name) : q \in PathsIn(children_') <=> q \in P /\ (IsPrefix(p, q) => q = p)
      /\ \A q \in PathsIn(children_') : Walk(children_', q) = Walk(children_, q)
  BY <1>1, <1>2, EmptiedPaths
<1>5. p \in P /\ P \subseteq Seq(Name) /\ PathsIn(children_') \subseteq Seq(Name)
  BY <1>2 DEF PathsIn
<1>6. /\ NameSpace!IsDir(p)
      /\ NameSpace!Paths = P /\ \A q \in P : Files[q] = Walk(children_, q)
  BY <1>2, FilesAre
<1>7. Files' = [q \in PathsIn(children_') |-> Walk(children_', q)]
  BY FilesNextAre
<1>8. NameSpace!At(p) = {q \in P : IsPrefix(p, q)}
  BY <1>6, SpaceOperators DEF NameSpace!At
<1> HIDE DEF P
<1>9. PathsIn(children_') = (P \ NameSpace!At(p)) \cup {p}
  BY <1>3, <1>5, <1>8
<1>10. Files' = [q \in (P \ NameSpace!At(p)) \cup {p} |-> Files[q]]
  BY <1>3, <1>5, <1>6, <1>7, <1>9
<1> QED BY <1>2, <1>5, <1>6, <1>10 DEF NameSpace!EmptyDir

\* Nothing is below a path that leads to what has no children.
LEMMA NothingBelowPath ==
  ASSUME NEW ch, Dicts(ch), NEW p \in Seq(Name),
         \A y \in Node, z \in Name : ~Has(ch, Walk(ch, p), z, y)
  PROVE  \A q \in PathsIn(ch) : IsPrefix(p, q) => q = p
<1> DEFINE S == {q \in Seq(Name) : q \in PathsIn(ch) /\ IsPrefix(p, q) => q = p}
<1>1. << >> \in S
  <2>1. IsPrefix(p, << >>) => << >> = p
    <3> SUFFICES ASSUME p # << >> PROVE ~IsPrefix(p, << >>)
      OBVIOUS
    <3>1. PICK r \in Seq(Name), k \in Name : p = Append(r, k)
      BY SequenceEmptyOrAppend
    <3> QED BY <3>1, PrefixShorter
  <2> QED BY <2>1
<1>2. ASSUME NEW q \in Seq(Name), NEW k \in Name, q \in S PROVE Append(q, k) \in S
  <2> DEFINE a == Append(q, k)
  <2> SUFFICES ASSUME a \in PathsIn(ch), IsPrefix(p, a), a # p PROVE FALSE
    BY AppendProperties
  <2>1. q \in PathsIn(ch) /\ Has(ch, Walk(ch, q), k, Walk(ch, a)) /\ Walk(ch, a) \in Node
    BY InPaths
  <2>2. IsPrefix(p, q)
    BY PrefixOfAppend
  <2>3. q = p
    BY <1>2, <2>1, <2>2
  <2> QED BY <2>1, <2>3
<1>3. Seq(Name) \subseteq S
  <2> HIDE DEF S
  <2> QED BY <1>1, <1>2, SeqSetInduction
<1> QED BY <1>3 DEF PathsIn

LEMMA PrefixHasRest ==
  \A S : \A p, q \in Seq(S) : IsPrefix(p, q) => \E r \in Seq(S) : q = p \o r
BY PrefixIsConcat

\* What MovePath says of the paths, one by one: P is before, Q after, R what stays.
MovesPaths(S, P, Q, R, old, new) ==
  LET at == {q \in P : IsPrefix(old, q)}
      moved == {new \o SubSeq(q, Len(old) + 1, Len(q)) : q \in at}
  IN  /\ Q = (P \ (at \cup {new})) \cup moved
      /\ R = P \ (at \cup {new})
      /\ \A q \in moved : \E r \in Seq(S) :
           /\ q = new \o r /\ q \in Q
           /\ old \o SubSeq(q, Len(new) + 1, Len(q)) = old \o r

LEMMA MovedPaths ==
  ASSUME NEW S, NEW P, NEW Q, NEW R, NEW old \in Seq(S), NEW new \in Seq(S),
         P \subseteq Seq(S), Q \subseteq Seq(S),
         \A q \in Seq(S) : q \in R <=> q \in P /\ ~IsPrefix(old, q) /\ q # new,
         \A r \in Seq(S) : new \o r \in Q <=> old \o r \in P,
         \A q \in Q : q \in R \/ IsPrefix(new, q),
         R \subseteq Q, R \subseteq P
  PROVE  MovesPaths(S, P, Q, R, old, new)
<1>0. \A p, q \in Seq(S) : IsPrefix(p, q) => \E r \in Seq(S) : q = p \o r
  BY PrefixHasRest
<1> DEFINE at == {q \in P : IsPrefix(old, q)}
           cut(q) == SubSeq(q, Len(old) + 1, Len(q))
           moved == {new \o cut(q) : q \in at}
<1>1. \A r \in Seq(S) :
        /\ cut(old \o r) = r
        /\ SubSeq(new \o r, Len(new) + 1, Len(new \o r)) = r
        /\ new \o r \in Seq(S) /\ old \o r \in Seq(S)
        /\ IsPrefix(old, old \o r)
  BY AfterPrefix, ConcatProperties, PrefixIsConcat
<1>2. \A q \in moved : \E r \in Seq(S) : q = new \o r /\ old \o r \in P
  <2> SUFFICES ASSUME NEW q \in at PROVE \E r \in Seq(S) : new \o cut(q) = new \o r /\ old \o r \in P
    OBVIOUS
  <2>1. PICK r \in Seq(S) : q = old \o r
    BY PrefixIsConcat
  <2>2. cut(q) = r
    BY <1>1, <2>1
  <2> QED BY <2>1, <2>2
<1>3. \A r \in Seq(S) : old \o r \in P => new \o r \in moved
  <2> SUFFICES ASSUME NEW r \in Seq(S), old \o r \in P PROVE new \o r \in moved
    OBVIOUS
  <2>1. old \o r \in at /\ cut(old \o r) = r
    BY <1>1
  <2> HIDE DEF cut, at
  <2> QED BY <2>1
<1>4. \A q \in Q : q \in R \/ q \in moved
  <2> SUFFICES ASSUME NEW q \in Q, IsPrefix(new, q) PROVE q \in moved
    OBVIOUS
  <2>1. q \in Seq(S)
    OBVIOUS
  <2>2. PICK r \in Seq(S) : q = new \o r
    BY <1>0, <2>1
  <2> HIDE DEF moved
  <2> QED BY <1>3, <2>2
<1>5. R = P \ (at \cup {new})
  OBVIOUS
<1>6. moved \subseteq Q
  <2> HIDE DEF moved
  <2> QED BY <1>2
<1>7. \A q \in moved : \E r \in Seq(S) :
        /\ q = new \o r /\ q \in Q
        /\ old \o SubSeq(q, Len(new) + 1, Len(q)) = old \o r
  <2> HIDE DEF moved
  <2> SUFFICES ASSUME NEW q \in moved
               PROVE  \E r \in Seq(S) : /\ q = new \o r /\ q \in Q
                                        /\ old \o SubSeq(q, Len(new) + 1, Len(q)) = old \o r
    OBVIOUS
  <2>1. PICK r \in Seq(S) : q = new \o r
    BY <1>2
  <2>2. SubSeq(q, Len(new) + 1, Len(q)) = r /\ q \in Q
    BY <1>1, <1>6, <2>1
  <2> QED BY <2>1, <2>2
<1>8. Q = (P \ (at \cup {new})) \cup moved
  <2> HIDE DEF at, moved
  <2> QED BY <1>4, <1>5, <1>6
<1> QED BY <1>5, <1>7, <1>8 DEF MovesPaths

\* os.rename takes all below the old path along, also onto an empty directory.
LEMMA MovedIsMovePath ==
  ASSUME PathInv, PathInv', NEW from \in Seq(Name), NEW onm \in Name,
         NEW dir \in Seq(Name), NEW nm \in Name, NEW ch, MovedTo(from, onm, dir, nm, ch)
  PROVE  NameSpace!MovePath(Append(from, onm), Append(dir, nm))
<1> DEFINE old == Append(from, onm)
           new == Append(dir, nm)
           n == Walk(children_, old)
           d == Walk(children_, dir)
           P == PathsIn(children_)
           Q == PathsIn(children_')
           R == PathsIn(ch)
<1>1. /\ Forest(children_, type_, {}) /\ Dicts(children_) /\ Dicts(children_')
      /\ NamesOnce(children_)
  BY DEF PathInv, Forest
<1>2. /\ n \in Node /\ d \in Node /\ type_[d] = "DIR" /\ Dicts(ch)
      /\ ~IsPrefix(old, new) /\ type_' = type_
      /\ NewName(nm) \/ Replaced(n, new)
      /\ Cuts(children_, ch, {}, {onm, nm}) /\ Walk(ch, dir) = d
      /\ Adds(ch, children_', d, nm, n)
  BY DEF MovedTo, Unrelated
<1>3. old \in Seq(Name) /\ new \in Seq(Name) /\ old # << >>
  BY AppendProperties, PrefixShorter
<1>4. ASSUME NEW x \in Node, NEW y \in Node, Has(children_, x, nm, y)
      PROVE  /\ Replaced(n, new) /\ x = d /\ y = Walk(children_, new)
             /\ \A w \in Node, z \in Name : ~Has(children_, y, z, w)
  <2>1. Replaced(n, new)
    BY <1>2, <1>4, NoEdgeOfNewName
  <2>2. Walk(children_, new) \in Node /\ Has(children_, d, nm, Walk(children_, new))
    BY <1>1, <2>1, WalkStep DEF Replaced
  <2>3. x = d /\ y = Walk(children_, new)
    <3> HIDE DEF new, d
    <3> QED BY <1>1, <1>2, <1>4, <2>2 DEF NamesOnce
  <2> QED BY <2>1, <2>3 DEF Replaced
<1>5. /\ \A q \in Seq(Name) : q \in R <=> q \in P /\ ~IsPrefix(old, q) /\ q # new
      /\ \A q \in R : Walk(ch, q) = Walk(children_, q)
  BY <1>1, <1>2, <1>4, UnlinkedPaths
<1>6. /\ \A r \in Seq(Name) :
           /\ new \o r \in Q <=> old \o r \in P
           /\ new \o r \in Q => Walk(children_', new \o r) = Walk(children_, old \o r)
      /\ \A q \in Q : q \in R \/ IsPrefix(new, q)
      /\ \A q \in R : q \in Q /\ Walk(children_', q) = Walk(ch, q)
  BY <1>1, <1>2, <1>4, RelinkedPaths
<1>7. P \subseteq Seq(Name) /\ Q \subseteq Seq(Name) /\ R \subseteq P /\ R \subseteq Q
  BY <1>5, <1>6 DEF PathsIn
<1>8. old \in P
  BY <1>2, <1>3 DEF PathsIn
<1>9. new \in P => Replaced(n, new) /\ \A q \in P : IsPrefix(new, q) => q = new
  <2> SUFFICES ASSUME new \in P PROVE Replaced(n, new) /\ \A q \in P : IsPrefix(new, q) => q = new
    OBVIOUS
  <2>1. Walk(children_, new) \in Node /\ Has(children_, d, nm, Walk(children_, new))
    BY <1>1, InPaths
  <2>2. Replaced(n, new)
    BY <1>2, <1>4, <2>1
  <2>3. \A y \in Node, z \in Name : ~Has(children_, Walk(children_, new), z, y)
    BY <2>2 DEF Replaced
  <2> QED BY <1>1, <1>3, <2>2, <2>3, NothingBelowPath
<1>10. NameSpace!Front(new) = dir
  BY SpaceOperators, FrontLastOfAppend
<1>11. \A q : NameSpace!At(q) = {p \in P : IsPrefix(q, p)}
  BY FilesAre, SpaceOperators DEF NameSpace!At
<1>12. /\ NameSpace!IsDir(dir) /\ NameSpace!Paths = P
       /\ \A q \in P : Files[q] = Walk(children_, q)
       /\ Files' = [q \in Q |-> Walk(children_', q)]
  BY <1>2, FilesAre, FilesNextAre
<1>13. new \in P => NameSpace!IsEmptyDir(new) /\ NameSpace!IsDir(old)
  <2> SUFFICES ASSUME new \in P PROVE NameSpace!IsEmptyDir(new) /\ NameSpace!IsDir(old)
    OBVIOUS
  <2>1. NameSpace!IsDir(new) /\ NameSpace!IsDir(old)
    BY <1>2, <1>3, <1>9, FilesAre DEF Replaced
  <2>2. NameSpace!At(new) = {new}
    BY <1>3, <1>9, <1>11, PrefixSelf
  <2> QED BY <2>1, <2>2 DEF NameSpace!IsEmptyDir
<1> DEFINE at == {q \in P : IsPrefix(old, q)}
           stay == P \ (at \cup {new})
           below(q) == old \o SubSeq(q, Len(new) + 1, Len(q))
           moved == {new \o SubSeq(q, Len(old) + 1, Len(q)) : q \in at}
<1> HIDE DEF old, new, n, d, P, Q, R
<1>14. /\ Q = stay \cup moved /\ R = stay
       /\ \A q \in moved : \E r \in Seq(Name) : q = new \o r /\ q \in Q /\ below(q) = old \o r
  <2>1. \A q \in Seq(Name) : q \in R <=> q \in P /\ ~IsPrefix(old, q) /\ q # new
    BY <1>5
  <2>2. \A r \in Seq(Name) : new \o r \in Q <=> old \o r \in P
    BY <1>6
  <2>3. \A q \in Q : q \in R \/ IsPrefix(new, q)
    BY <1>6
  <2>4. MovesPaths(Name, P, Q, R, old, new)
    BY <1>3, <1>7, <2>1, <2>2, <2>3, MovedPaths
  <2> QED BY <2>4 DEF MovesPaths
<1>18. at = NameSpace!At(old)
  BY <1>11
<1> HIDE DEF at, stay, moved, below
<1>15. ASSUME NEW q \in Q
       PROVE  Walk(children_', q) = IF q \in moved THEN Files[below(q)] ELSE Files[q]
  <2>1. ASSUME q \in moved PROVE Walk(children_', q) = Files[below(q)]
    <3>1. PICK r \in Seq(Name) : q = new \o r /\ q \in Q /\ below(q) = old \o r
      BY <1>14, <2>1
    <3>2. old \o r \in P /\ Walk(children_', q) = Walk(children_, old \o r)
      BY <1>6, <3>1
    <3> QED BY <1>12, <3>1, <3>2
  <2>2. ASSUME q \notin moved PROVE Walk(children_', q) = Files[q]
    BY <1>5, <1>6, <1>7, <1>12, <1>14, <2>2
  <2> QED BY <2>1, <2>2
<1>16. Files' = [q \in stay \cup moved |-> IF q \in moved THEN Files[below(q)] ELSE Files[q]]
  BY <1>12, <1>14, <1>15
<1>17. NameSpace!MovePath(old, new)
  <2>1. ~NameSpace!IsPrefix(old, new)
    BY <1>2, SpaceOperators
  <2> QED BY <1>2, <1>3, <1>8, <1>10, <1>12, <1>13, <1>16, <1>18, <2>1
          DEF NameSpace!MovePath, at, stay, moved, below
<1> QED BY <1>17 DEF old, new

LEMMA NameNumbers ==
  ASSUME PathInv, NEW nm \in Name
  PROVE  /\ NewName(nm) => nm \in 1..MaxName
         /\ \A d, n \in Node : Has(children_, d, nm, n) => nm \in 1..MaxName
BY PathInvTree DEF PathInv, NewName, Name

LEMMA InitIsInit == Init => NameSpace!Init
<1> SUFFICES ASSUME Init PROVE NameSpace!Init
  OBVIOUS
<1>1. PathInv
  BY InitPathInv
<1>2. /\ children_ = [n \in Node |-> << >>]
      /\ type_ = [n \in Node |-> IF n = Root THEN "DIR" ELSE "UNUSED"]
  BY DEF Init, TreeInit
<1>3. \A d, n \in Node, nm \in Name : ~Has(children_, d, nm, n)
  BY <1>2, EmptyDict DEF Has
<1>4. Dicts(children_)
  BY <1>1, PathInvTree
<1>5. \A q \in PathsIn(children_) : q = << >>
  <2> SUFFICES ASSUME NEW q \in PathsIn(children_), q # << >> PROVE FALSE
    OBVIOUS
  <2>1. q \in Seq(Name)
    BY DEF PathsIn
  <2>2. PICK r \in Seq(Name), k \in Name : q = Append(r, k)
    BY <2>1, SequenceEmptyOrAppend
  <2>3. /\ Walk(children_, r) \in Node /\ Walk(children_, q) \in Node
        /\ Has(children_, Walk(children_, r), k, Walk(children_, q))
    BY <1>4, <2>2, InPaths
  <2> QED BY <1>3, <2>3
<1>6. PathsIn(children_) = {<< >>} /\ Walk(children_, << >>) = Root
  BY <1>4, <1>5, InPaths, WalkRoot
<1>7. Files = [p \in {<< >>} |-> Root]
  BY <1>1, <1>6, LivePathsAre DEF PathInv, Files
<1> QED BY <1>2, <1>7 DEF NameSpace!Init

\* A step of the generator is a step of the name space, or leaves it alone.
LEMMA NextIsNext ==
  ASSUME PathInv, PathInv', [Next]_vars
  PROVE  [NameSpace!Next]_(NameSpace!ptVars)
<1>1. StepEffect
  BY NextEffect
<1>2. ASSUME Stays PROVE UNCHANGED NameSpace!ptVars
  BY <1>2 DEF Stays, NameSpace!ptVars, Files, LivePaths
<1>3. ASSUME NEW dir \in Seq(Name), NEW nm \in Name, NEW kind \in Kind, NEW target,
             Made(dir, nm, kind, target)
      PROVE  NameSpace!Next
  <2>1. NameSpace!Make(Append(dir, nm), id_count_, kind)
    BY <1>3, MadeIsMake
  <2>2. /\ nm \in 1..MaxName /\ id_count_ \in Node
        /\ NameSpace!IsDir(dir) /\ dir \in NameSpace!Paths
    BY <1>3, NameNumbers, FilesAre DEF Made, NameSpace!IsDir
  <2>3. kind \in {"DIR", "FILE", "SYMLINK", "SPECIAL"}
    BY DEF Kind
  <2> QED BY <2>1, <2>2, <2>3 DEF NameSpace!Next
<1>4. ASSUME NEW dir \in Seq(Name), NEW old \in Seq(Name), NEW nm \in Name,
             HardLinked(dir, nm, old)
      PROVE  NameSpace!Next
  <2>1. NameSpace!HardLink(Append(dir, nm), old) /\ old \in NameSpace!Paths
    BY <1>4, HardLinkedIsHardLink
  <2>2. /\ nm \in 1..MaxName
        /\ NameSpace!IsDir(dir) /\ dir \in NameSpace!Paths
    BY <1>4, NameNumbers, FilesAre DEF HardLinked, NameSpace!IsDir
  <2> QED BY <2>1, <2>2 DEF NameSpace!Next
<1>5. ASSUME NEW dir \in Seq(Name), NEW nm \in Name, Removed(dir, nm) PROVE NameSpace!Next
  BY <1>5, RemovedIsRemoveTree DEF NameSpace!Next
<1>6. ASSUME NEW path \in Seq(Name), Emptied(path) PROVE NameSpace!Next
  BY <1>6, EmptiedIsEmptyDir DEF NameSpace!Next
<1>7. ASSUME NEW from \in Seq(Name), NEW onm \in Name, NEW dir \in Seq(Name), NEW nm \in Name,
             NEW ch, MovedTo(from, onm, dir, nm, ch)
      PROVE  NameSpace!Next
  <2>1. NameSpace!MovePath(Append(from, onm), Append(dir, nm))
    BY <1>7, MovedIsMovePath
  <2>2. Append(from, onm) \in NameSpace!Paths
    BY <2>1 DEF NameSpace!MovePath
  <2>3. NameSpace!IsDir(dir) /\ dir \in NameSpace!Paths
    BY <1>7, FilesAre DEF MovedTo, NameSpace!IsDir
  <2>4. nm \in 1..MaxName
    <3>1. CASE NewName(nm)
      BY <3>1, NameNumbers
    <3>2. CASE ~NewName(nm)
      <4>1. Walk(children_, Append(dir, nm)) \in Node
        BY <1>7, <3>2 DEF MovedTo, Replaced
      <4>2. /\ Walk(children_, dir) \in Node
            /\ Has(children_, Walk(children_, dir), nm, Walk(children_, Append(dir, nm)))
        BY <4>1, PathInvTree, WalkStep
      <4> QED BY <4>1, <4>2, NameNumbers
    <3> QED BY <3>1, <3>2
  <2> QED BY <2>1, <2>2, <2>3, <2>4 DEF NameSpace!Next
<1> QED BY <1>1, <1>2, <1>3, <1>4, <1>5, <1>6, <1>7 DEF StepEffect

\* What _add_node, _del_subtree and _move_node (FsTree.py:40-66, 132-155) do to the
\* children dicts edge by edge is one operation on a file system's name space: whatever
\* commands are generated, the tree is what the kernel's would be.
THEOREM TreeIsANameSpace == Spec => ImplementsPathTree
<1>1. Init => NameSpace!Init
  BY InitIsInit
<1>2. PathInv /\ PathInv' /\ [Next]_vars => [NameSpace!Next]_(NameSpace!ptVars)
  BY NextIsNext
<1> QED BY <1>1, <1>2, PathInvAlways, PTL DEF Spec, ImplementsPathTree, NameSpace!Spec

(***************************************************************************)
(* The paths that symlinks hold                                            *)
(***************************************************************************)
\* A name that was issued, and leads to a directory if to anything.
DirName(k) ==
  /\ k <= foo_id_
  /\ \A d, n \in Node : Has(children_, d, k, n) => type_[n] = "DIR"

\* p was found once: its last name aside, it has only names of directories.
Through(p) ==
  \A q \in Seq(Name), k \in Name :
    IsPrefix(Append(q, k), p) /\ Append(q, k) # p => DirName(k)

LEMMA ThroughRoot == Through(<< >>)
BY PrefixShorter DEF Through

\* What is found goes through directories.
LEMMA FoundGoesThrough ==
  ASSUME PathInv
  PROVE  \A p \in Seq(Name) : Walk(children_, p) \in Node => Through(p)
<1> DEFINE S == {p \in Seq(Name) : Walk(children_, p) \in Node => Through(p)}
<1>1. << >> \in S
  BY ThroughRoot
<1>2. ASSUME NEW p \in Seq(Name), NEW nm \in Name, p \in S PROVE Append(p, nm) \in S
  <2> SUFFICES ASSUME Walk(children_, Append(p, nm)) \in Node PROVE Through(Append(p, nm))
    BY AppendProperties
  <2>1. /\ Walk(children_, p) \in Node
        /\ Has(children_, Walk(children_, p), nm, Walk(children_, Append(p, nm)))
    BY PathInvTree, WalkStep
  <2>2. Through(p) /\ type_[Walk(children_, p)] = "DIR"
    BY <1>2, <2>1, PathInvTree DEF DirsHold
  <2> SUFFICES ASSUME NEW q \in Seq(Name), NEW k \in Name,
                      IsPrefix(Append(q, k), Append(p, nm)), Append(q, k) # Append(p, nm)
               PROVE  DirName(k)
    BY DEF Through
  <2>3. Append(q, k) \in Seq(Name)
    BY AppendProperties
  <2>4. IsPrefix(Append(q, k), p)
    BY <2>3, PrefixOfAppend
  <2>5. CASE Append(q, k) # p
    BY <2>2, <2>4, <2>5 DEF Through
  <2>6. CASE Append(q, k) = p
    <3> DEFINE x == Walk(children_, q)
               y == Walk(children_, p)
    <3>1. x \in Node /\ y \in Node /\ Has(children_, x, k, y) /\ type_[y] = "DIR"
      BY <2>1, <2>2, <2>6, PathInvTree, WalkStep
    <3> HIDE DEF x, y
    <3> QED BY <3>1, PathInvTree DEF DirName, PathInv, NamesOnce
  <2> QED BY <2>5, <2>6
<1>3. Seq(Name) \subseteq S
  <2> HIDE DEF S
  <2> QED BY <1>1, <1>2, SeqSetInduction
<1> QED BY <1>3

\* What went through directories once passes the asserts of _lookup_node, found or not.
LEMMA ThroughPasses ==
  ASSUME PathInv
  PROVE  \A p \in Seq(Name) : Through(p) => DirsOnTheWay(children_, p)
<1> DEFINE S == {p \in Seq(Name) : Through(p) => DirsOnTheWay(children_, p)}
<1>1. << >> \in S
  <2>1. Len(<< >>) = 0 /\ << >> \in Seq(Name)
    OBVIOUS
  <2> QED BY <2>1 DEF DirsOnTheWay
<1>2. ASSUME NEW p \in Seq(Name), NEW nm \in Name, p \in S PROVE Append(p, nm) \in S
  <2> SUFFICES ASSUME Through(Append(p, nm)) PROVE DirsOnTheWay(children_, Append(p, nm))
    BY AppendProperties
  <2>1. Through(p)
    <3> SUFFICES ASSUME NEW q \in Seq(Name), NEW k \in Name, IsPrefix(Append(q, k), p), Append(q, k) # p
                 PROVE  DirName(k)
      BY DEF Through
    <3>1. Append(q, k) \in Seq(Name)
      BY AppendProperties
    <3>2. IsPrefix(Append(q, k), Append(p, nm))
      BY <3>1, PrefixOfAppend
    <3>3. Append(q, k) # Append(p, nm)
      BY PrefixShorter
    <3> QED BY <3>2, <3>3 DEF Through
  <2>2. Walk(children_, p) \in Node => type_[Walk(children_, p)] = "DIR"
    <3> SUFFICES ASSUME Walk(children_, p) \in Node PROVE type_[Walk(children_, p)] = "DIR"
      OBVIOUS
    <3>1. CASE p = << >>
      BY <3>1, WalkRoot DEF PathInv, Forest
    <3>2. CASE p # << >>
      <4>1. PICK q \in Seq(Name), k \in Name : p = Append(q, k)
        BY <3>2, SequenceEmptyOrAppend
      <4>2. DirName(k)
        <5>1. IsPrefix(Append(q, k), Append(p, nm))
          BY <4>1, PrefixOfAppend, PrefixSelf
        <5>2. Append(q, k) # Append(p, nm)
          BY <4>1, PrefixShorter, PrefixSelf
        <5> QED BY <5>1, <5>2 DEF Through
      <4>3. Walk(children_, q) \in Node /\ Has(children_, Walk(children_, q), k, Walk(children_, p))
        BY <4>1, PathInvTree, WalkStep
      <4> QED BY <4>2, <4>3 DEF DirName
    <3> QED BY <3>1, <3>2
  <2> QED BY <1>2, <2>1, <2>2, DirsOnShorterWay
<1>3. Seq(Name) \subseteq S
  <2> HIDE DEF S
  <2> QED BY <1>1, <1>2, SeqSetInduction
<1> QED BY <1>3

\* A step makes edges of new names, and of names that there are.
OldNames ==
  \A d, n \in Node, k \in Name :
    Has(children_', d, k, n) /\ k <= foo_id_ => \E c, m \in Node : Has(children_, c, k, m)

LEMMA NextOldNames ==
  ASSUME PathInv, [Next]_vars
  PROVE  OldNames /\ foo_id_ <= foo_id_'
<1>1. StepEffect /\ foo_id_ \in Nat /\ MaxName \in Nat
  BY NextEffect, PathInvTree
<1>2. ASSUME NEW nm, NewName(nm), NEW ch, Within(ch, children_),
             NEW d \in Node, NEW n \in Node, Adds(ch, children_', d, nm, n)
      PROVE  OldNames /\ foo_id_ <= foo_id_'
  <2>1. nm \in Nat /\ ~(nm <= foo_id_) /\ foo_id_ <= foo_id_'
    BY <1>1, <1>2 DEF NewName
  <2> QED BY <1>2, <2>1 DEF Within, Adds, OldNames
<1>3. Within(children_, children_)
  BY DEF Within
<1>4. ASSUME Stays PROVE OldNames /\ foo_id_ <= foo_id_'
  BY <1>1, <1>4 DEF Stays, OldNames
<1>5. ASSUME NEW dir \in Seq(Name), NEW nm \in Name, NEW kind, NEW target,
             Made(dir, nm, kind, target)
      PROVE  OldNames /\ foo_id_ <= foo_id_'
  BY <1>2, <1>3, <1>5 DEF Made
<1>6. ASSUME NEW dir \in Seq(Name), NEW old \in Seq(Name), NEW nm \in Name,
             HardLinked(dir, nm, old)
      PROVE  OldNames /\ foo_id_ <= foo_id_'
  BY <1>2, <1>3, <1>6 DEF HardLinked
<1>7. ASSUME NEW dir \in Seq(Name), NEW nm \in Name, Removed(dir, nm)
      PROVE  OldNames /\ foo_id_ <= foo_id_'
  BY <1>1, <1>7 DEF Removed, Cuts, OldNames
<1>8. ASSUME NEW path \in Seq(Name), Emptied(path) PROVE OldNames /\ foo_id_ <= foo_id_'
  BY <1>1, <1>8 DEF Emptied, Cuts, OldNames
<1>9. ASSUME NEW from \in Seq(Name), NEW onm \in Name, NEW dir \in Seq(Name), NEW nm \in Name,
             NEW ch, MovedTo(from, onm, dir, nm, ch)
      PROVE  OldNames /\ foo_id_ <= foo_id_'
  <2> DEFINE n == Walk(children_, Append(from, onm))
             d == Walk(children_, dir)
             m == Walk(children_, Append(dir, nm))
  <2>1. /\ n \in Node /\ d \in Node
        /\ NewName(nm) \/ Replaced(n, Append(dir, nm))
        /\ Cuts(children_, ch, {}, {onm, nm}) /\ Within(ch, children_)
        /\ Adds(ch, children_', d, nm, n)
    BY <1>9, CutsWithin DEF MovedTo
  <2>2. CASE NewName(nm)
    BY <1>2, <2>1, <2>2
  <2>3. CASE Replaced(n, Append(dir, nm))
    <3>1. m \in Node /\ Has(children_, d, nm, m) /\ foo_id_' = foo_id_
      BY <2>3, PathInvTree, WalkStep DEF Replaced
    <3> HIDE DEF n, d, m
    <3> QED BY <1>1, <2>1, <3>1 DEF Within, Adds, OldNames
  <2> QED BY <2>1, <2>2, <2>3
<1> QED BY <1>1, <1>4, <1>5, <1>6, <1>7, <1>8, <1>9 DEF StepEffect

LEMMA ThroughKept ==
  ASSUME PathInv, PathInv', [Next]_vars, NEW p, Through(p)
  PROVE  Through(p)'
<1>1. OldNames /\ foo_id_ <= foo_id_' /\ SameKind
  BY NextOldNames, NextKeepsKind
<1>2. foo_id_ \in Nat /\ foo_id_' \in Nat
  BY BoundsAssumption DEF PathInv
<1>3. ASSUME NEW k \in Name, DirName(k) PROVE DirName(k)'
  <2>1. k <= foo_id_ /\ k <= foo_id_'
    BY <1>1, <1>2, <1>3 DEF DirName, Name
  <2>2. ASSUME NEW d \in Node, NEW n \in Node, Has(children_', d, k, n)
        PROVE  type_'[n] = "DIR"
    <3>1. PICK c \in Node : \E m \in Node : Has(children_, c, k, m)
      BY <1>1, <2>1, <2>2 DEF OldNames
    <3>2. PICK m \in Node : Has(children_, c, k, m)
      BY <3>1
    <3> QED BY <1>1, <1>3, <2>2, <3>2 DEF DirName, SameKind
  <2> QED BY <2>1, <2>2 DEF DirName
<1> QED BY <1>3 DEF Through

(***************************************************************************)
(* What the other variables hold                                           *)
(***************************************************************************)
\* The paths of symlinks went through directories, and descriptors are numbered.
HeldInv ==
  /\ target_path_ \in [Node -> Seq(Name)]
  /\ \A x \in Node : Through(target_path_[x])
  /\ fd_id_ \in 0..MaxFd /\ fd_pool_ \subseteq 1..fd_id_

TakeInv == PathInv /\ Counted(Tree) /\ HeldInv

\* A step gives one jnode a path, if any, which is '/' or was just found.
NewTarget ==
  \/ target_path_' = target_path_
  \/ \E x \in Node, p \in Seq(Name) :
       /\ Walk(children_, p) \in Node
       /\ target_path_' = [target_path_ EXCEPT ![x] = p]

LEMMA AddedTarget ==
  ASSUME PathInv, NewJnodeFits, NEW t, NEW kind, NEW dir, NEW nm, NEW p \in Seq(Name),
         Walk(children_, p) \in Node, AddNewNode(t, kind, dir, nm, p)
  PROVE  NewTarget /\ fd_pool_' = fd_pool_
<1>1. id_count_ \in Node
  BY MaxJnodeAssumption DEF PathInv, IInv, LinksTypeOK, NewJnodeFits, Node
<1> QED BY <1>1 DEF AddNewNode, NewTarget, Raise, treeVars

LEMMA TargetKept ==
  ASSUME NEW dir, NEW nm, NEW path,
         \/ TakeHardlink(dir, nm, path) \/ TakeRemove(path) \/ TakeRename(dir, nm, path)
         \/ TakeReduce(path) \/ TakeChroot(path) \/ TakeTouch(path)
  PROVE  NewTarget /\ fd_pool_' = fd_pool_
BY DEF TakeHardlink, TakeRemove, TakeRename, TakeReduce, TakeChroot, TakeTouch, Relink,
       NewTarget, Raise, treeVars

LEMMA NextTarget ==
  ASSUME PathInv, HeldInv, [Next]_vars
  PROVE  /\ NewTarget
         /\ fd_id_' \in 0..MaxFd /\ fd_pool_' \subseteq 1..fd_id_'
<1> DEFINE Pool == fd_id_' \in 0..MaxFd /\ fd_pool_' \subseteq 1..fd_id_'
<1>1. fd_id_' = fd_id_ /\ fd_pool_' = fd_pool_ => Pool
  BY DEF HeldInv
<1>2. Walk(children_, << >>) \in Node /\ << >> \in Seq(Name)
  BY WalkRoot, RootIsNode
<1> HIDE DEF Pool
<1>3. CASE GenNames
  <2>1. PICK nm \in Numbers, dir \in Dirs :
          \/ GenMkdir(dir, nm) \/ GenCreate(dir, nm) \/ GenMknod(dir, nm)
          \/ \E old \in PathsOf(PickAny) : GenSymlink(dir, nm, old)
          \/ \E old \in PathsOf(PickFile) : GenHardlink(dir, nm, old)
          \/ \E old \in PathsOf(PickAny \ {Root}) : GenRenameToFresh(dir, nm, old)
    BY <1>3 DEF GenNames
  <2>2. CASE GenMkdir(dir, nm) \/ GenCreate(dir, nm) \/ GenMknod(dir, nm)
    <3>1. /\ NewJnodeFits /\ fd_id_' = fd_id_
          /\ \E kind : AddNewNode(Tree, kind, dir, nm, << >>)
      BY <2>2 DEF GenMkdir, GenCreate, GenMknod, TakeMkdir, TakeCreate, TakeMknod, Issue
    <3>2. NewTarget /\ fd_pool_' = fd_pool_
      BY <1>2, <3>1, AddedTarget
    <3> QED BY <1>1, <3>1, <3>2 DEF Pool
  <2>3. ASSUME NEW old \in PathsOf(PickAny), GenSymlink(dir, nm, old) PROVE NewTarget /\ Pool
    <3>1. NewJnodeFits /\ fd_id_' = fd_id_ /\ TakeSymlink(dir, nm, old)
      BY <2>3 DEF GenSymlink, Issue
    <3>2. old \in Seq(Name)
      BY PickedPaths DEF PickAny
    <3>3. CASE Found(children_, old)
      <4>1. \E t : AddNewNode(t, "SYMLINK", dir, nm, old)
        BY <3>1, <3>3 DEF TakeSymlink
      <4>2. Walk(children_, old) \in Node
        BY <3>3 DEF Found
      <4> QED BY <1>1, <3>1, <3>2, <4>1, <4>2, AddedTarget
    <3>4. CASE ~Found(children_, old)
      BY <1>1, <3>1, <3>4 DEF TakeSymlink, Raise, treeVars, NewTarget
    <3> QED BY <3>3, <3>4
  <2>4. ASSUME NEW old, GenHardlink(dir, nm, old) \/ GenRenameToFresh(dir, nm, old)
        PROVE  NewTarget /\ Pool
    BY <1>1, <2>4, TargetKept DEF GenHardlink, GenRenameToFresh, Issue
  <2> QED BY <2>1, <2>2, <2>3, <2>4 DEF Pool
<1>4. CASE GenOnPath
  <2>1. ASSUME NEW path,
               GenRemove(path) \/ GenReduce(path) \/ GenChroot(path) \/ \E ty : GenTouch(ty, path)
        PROVE  NewTarget /\ Pool
    BY <1>1, <2>1, TargetKept DEF GenRemove, GenReduce, GenChroot, GenTouch, NothingIssued
  <2>2. ASSUME NEW old, NEW new, GenRenameOntoEmptyDir(old, new) PROVE NewTarget /\ Pool
    BY <1>1, <2>2, TargetKept DEF GenRenameOntoEmptyDir, NothingIssued
  <2> QED BY <1>4, <2>1, <2>2 DEF GenOnPath, Pool
<1>5. CASE GenOnFd
  <2>1. ASSUME NEW fd \in 1..MaxFd, NEW path, GenOpen(path, fd) PROVE NewTarget /\ Pool
    <3>1. /\ fd_pool_' = fd_pool_ \/ fd_pool_' = fd_pool_ \cup {fd}
          /\ target_path_' = target_path_ /\ fd = fd_id_ + 1 /\ fd_id_' = fd
      BY <2>1 DEF GenOpen, TakeOpen, Raise, treeVars
    <3>2. fd_id_ \in 0..MaxFd /\ fd_pool_ \subseteq 1..fd_id_ /\ MaxFd \in Nat
      BY BoundsAssumption DEF HeldInv
    <3>3. fd_id_' \in 0..MaxFd /\ 1..fd_id_ \subseteq 1..fd_id_' /\ fd \in 1..fd_id_'
      BY <3>1, <3>2
    <3>4. fd_pool_' \subseteq 1..fd_id_'
      BY <3>1, <3>2, <3>3
    <3> QED BY <3>1, <3>3, <3>4 DEF NewTarget, Pool
  <2>2. ASSUME NEW fd \in fd_pool_, GenClose(fd) PROVE NewTarget /\ Pool
    <3>1. /\ fd_pool_' = fd_pool_ \/ fd_pool_' = fd_pool_ \ {fd}
          /\ target_path_' = target_path_ /\ fd_id_' = fd_id_
      BY <2>2 DEF GenClose, TakeClose, Raise, treeVars, NothingIssued
    <3>2. fd_id_ \in 0..MaxFd /\ fd_pool_ \subseteq 1..fd_id_ /\ MaxFd \in Nat
      BY BoundsAssumption DEF HeldInv
    <3> QED BY <3>1, <3>2 DEF NewTarget, Pool
  <2> QED BY <1>5, <2>1, <2>2 DEF GenOnFd, Pool
<1>6. CASE NoCommand \/ UNCHANGED vars
  BY <1>1, <1>6 DEF NoCommand, vars, Raise, treeVars, NewTarget, Pool
<1> QED BY <1>3, <1>4, <1>5, <1>6 DEF Next, Pool

LEMMA NextTakeInv == TakeInv /\ [Next]_vars => TakeInv'
<1> SUFFICES ASSUME TakeInv, [Next]_vars PROVE TakeInv'
  OBVIOUS
<1>1. PathInv /\ HeldInv /\ Counted(Tree) /\ CountInv
  BY DEF TakeInv, PathInv, CountInv
<1>2. PathInv' /\ Counted(Tree)'
  BY <1>1, NextPathInv, NextCountInv DEF CountInv
<1>3. NewTarget /\ fd_id_' \in 0..MaxFd /\ fd_pool_' \subseteq 1..fd_id_'
  BY <1>1, NextTarget
<1>4. \A p : Through(p) => Through(p)'
  BY <1>1, <1>2, ThroughKept
<1>5. target_path_ \in [Node -> Seq(Name)] /\ \A x \in Node : Through(target_path_[x])
  BY <1>1 DEF HeldInv
<1>6. target_path_' \in [Node -> Seq(Name)]
  BY <1>3, <1>5 DEF NewTarget
<1>7. ASSUME NEW x \in Node PROVE Through(target_path_'[x])
  <2>1. target_path_'[x] = target_path_[x]
        \/ (target_path_'[x] \in Seq(Name) /\ Walk(children_, target_path_'[x]) \in Node)
    BY <1>3, <1>5 DEF NewTarget
  <2> QED BY <1>1, <1>5, <2>1, FoundGoesThrough
<1>8. \A x \in Node : \E p : p = target_path_'[x] /\ Through(p)'
  BY <1>4, <1>7
<1>9. HeldInv'
  BY <1>3, <1>6, <1>8 DEF HeldInv, Through
<1> QED BY <1>2, <1>9 DEF TakeInv

LEMMA InitTakeInv == Init => TakeInv
<1> SUFFICES ASSUME Init PROVE TakeInv
  OBVIOUS
<1>1. PathInv /\ Counted(Tree)
  BY InitPathInv, EmptyTree
<1>2. /\ target_path_ = [n \in Node |-> << >>] /\ fd_pool_ = {} /\ fd_id_ = 0
  BY DEF Init, TreeInit
<1> QED BY <1>1, <1>2, ThroughRoot, BoundsAssumption DEF TakeInv, HeldInv

LEMMA TakeInvAlways == Spec => []TakeInv
BY InitTakeInv, NextTakeInv, PTL DEF Spec

(***************************************************************************)
(* Nothing that is built raises                                            *)
(***************************************************************************)
\* Two edges go: what is not below them is found where it was.
LEMMA CutKeepsWalk ==
  ASSUME NEW ch, NEW ty, NEW H, Forest(ch, ty, H), NEW ch2, Dicts(ch2),
         NEW from \in Seq(Name), NEW onm \in Name, NEW dir \in Seq(Name), NEW nm \in Name,
         Walk(ch, from) \in Node, Walk(ch, dir) \in Node,
         Cuts(ch, ch2, {}, {onm, nm}),
         \A x, y \in Node : Has(ch, x, onm, y) => x = Walk(ch, from),
         \A x, y \in Node : Has(ch, x, nm, y) => x = Walk(ch, dir),
         NEW r \in PathsIn(ch),
         ~IsPrefix(Append(from, onm), r), ~IsPrefix(Append(dir, nm), r)
  PROVE  Walk(ch2, r) = Walk(ch, r)
<1> DEFINE S == {p \in Seq(Name) :
                   p \in PathsIn(ch) /\ ~IsPrefix(Append(from, onm), p)
                     /\ ~IsPrefix(Append(dir, nm), p) => Walk(ch2, p) = Walk(ch, p)}
<1>1. Dicts(ch) /\ DirsHold(ch, ty)
  BY DEF Forest
<1>2. << >> \in S
  BY WalkRoot
<1>3. \A x, y \in Node, z \in Name :
        Has(ch2, x, z, y) <=> Has(ch, x, z, y) /\ z # onm /\ z # nm
  BY DEF Cuts
<1>4. \A q \in Seq(Name), x \in Node :
        /\ x = Walk(ch, from) /\ ty[x] = "DIR" /\ Walk(ch, q) = x => q = from
        /\ x = Walk(ch, dir) /\ ty[x] = "DIR" /\ Walk(ch, q) = x => q = dir
  BY DirPathUnique
<1>5. \A q \in Seq(Name), z \in Name, k \in Name :
        IsPrefix(Append(q, k), Append(q, k))
  BY PrefixSelf, AppendProperties
<1>6. ASSUME NEW q \in Seq(Name), NEW k \in Name, q \in S PROVE Append(q, k) \in S
  <2> DEFINE a == Append(q, k)
             x == Walk(ch, q)
             y == Walk(ch, a)
  <2> SUFFICES ASSUME a \in PathsIn(ch), ~IsPrefix(Append(from, onm), a),
                      ~IsPrefix(Append(dir, nm), a)
               PROVE  Walk(ch2, a) = y
    BY AppendProperties
  <2>1. q \in PathsIn(ch) /\ x \in Node /\ y \in Node /\ Has(ch, x, k, y)
    BY <1>1, InPaths
  <2>2. ~IsPrefix(Append(from, onm), q) /\ ~IsPrefix(Append(dir, nm), q)
    BY PrefixOfAppend, AppendProperties
  <2>3. Walk(ch2, q) = x
    BY <1>6, <2>1, <2>2
  <2>4. ty[x] = "DIR"
    <3> HIDE DEF x, y
    <3> QED BY <1>1, <2>1 DEF DirsHold
  <2>5. k # onm
    BY <1>4, <1>5, <2>1, <2>4
  <2>6. k # nm
    BY <1>4, <1>5, <2>1, <2>4
  <2>7. Has(ch2, x, k, y)
    <3> HIDE DEF x, y
    <3> QED BY <1>3, <2>1, <2>5, <2>6
  <2> HIDE DEF x, y
  <2> QED BY <2>1, <2>3, <2>7, WalkStep
<1>7. Seq(Name) \subseteq S
  <2> HIDE DEF S
  <2> QED BY <1>2, <1>6, SeqSetInduction
<1> QED BY <1>7 DEF PathsIn

LEMMA RenameTakes ==
  ASSUME PathInv, NEW dir \in Seq(Name), NEW nm \in Name, NEW old \in Seq(Name), old # << >>,
         Walk(children_, old) \in Node,
         Walk(children_, dir) \in Node, type_[Walk(children_, dir)] = "DIR",
         Unrelated(Append(dir, nm), old), TakeRename(dir, nm, old),
         NewName(nm) \/ Replaceable(Walk(children_, old), Append(dir, nm))
  PROVE  UNCHANGED raised
<1> DEFINE from == Front(old)
           onm == Last(old)
           od  == Walk(children_, from)
           n   == Child(children_, od, onm)
           new == Append(dir, nm)
           t1  == DelNode(Tree, od, onm)
           e   == Walk(t1.ch, Front(new))
           t2  == IF Walk(t1.ch, new) \in Node THEN DelSubtree(t1, e, Last(new)) ELSE t1
           D   == Walk(children_, dir)
           m   == Walk(children_, new)
           ok  == /\ old # << >> /\ Found(children_, from)
                  /\ onm \in Names(children_[od])
                  /\ DirsOnTheWay(t1.ch, new)
                  /\ Walk(t1.ch, new) \in Node => CanDel(t1, new)
                  /\ CanAdd(t2, dir, nm, n)
<1>1. /\ Dicts(children_) /\ DirsHold(children_, type_) /\ NamesOnce(children_)
      /\ Forest(children_, type_, {})
  BY PathInvTree DEF PathInv
<1>2. from \in Seq(Name) /\ onm \in Name /\ old = Append(from, onm)
  BY FrontLast
<1>3. od \in Node /\ Has(children_, od, onm, Walk(children_, old))
  BY <1>1, <1>2, WalkStep
<1>4. onm \in Names(children_[od]) /\ n = Walk(children_, old) /\ n \in Node
  BY <1>1, <1>2, <1>3, ChildHas
<1>5. Found(children_, from)
  BY <1>1, <1>2, <1>3, FoundIsWalk
<1>6. Front(new) = dir /\ Last(new) = nm /\ new \in Seq(Name) /\ new # << >>
  BY FrontLastOfAppend, AppendProperties, PrefixShorter
<1>7. Linked(t1.ch, t1.pa) /\ Cuts(children_, t1.ch, {}, {onm})
  <2> HIDE DEF od, onm
  <2> QED BY <1>3, <1>4, PathInvTree, TreeFields, DelNodeLinked, DelNodeCuts
<1>8. /\ ~IsPrefix(old, dir) /\ ~IsPrefix(new, dir) /\ ~IsPrefix(new, old)
  <2>1. ~IsPrefix(old, dir)
    BY PrefixOfAppend DEF Unrelated
  <2> QED BY <2>1, PrefixShorter DEF Unrelated
<1>9. D \in Node /\ type_[D] = "DIR" /\ dir \in PathsIn(children_)
  BY DEF PathsIn
<1> HIDE DEF t1, n, od, D
<1>10. /\ Dicts(t1.ch) /\ Within(t1.ch, children_) /\ NamesOnce(t1.ch) /\ DirsHold(t1.ch, type_)
  <2>1. Dicts(t1.ch) /\ Within(t1.ch, children_)
    BY <1>7, LinkedDicts, CutsWithin
  <2> QED BY <1>1, <2>1 DEF NamesOnce, DirsHold, Within
<1>11. \A x, y \in Node : Has(children_, x, onm, y) => x = od
  BY <1>1, <1>2, <1>3, <1>4 DEF NamesOnce
<1>12. Walk(t1.ch, dir) = D
  <2>1. Cuts(children_, t1.ch, {}, {onm, onm})
    BY <1>7 DEF Cuts
  <2>2. /\ Walk(children_, from) \in Node
        /\ \A x, y \in Node : Has(children_, x, onm, y) => x = Walk(children_, from)
        /\ ~IsPrefix(Append(from, onm), dir)
    BY <1>2, <1>3, <1>8, <1>11 DEF od
  <2>3. Walk(t1.ch, dir) = Walk(children_, dir)
    BY <1>1, <1>2, <1>9, <1>10, <2>1, <2>2, CutKeepsWalk
  <2> QED BY <2>3 DEF D
<1>13. Found(t1.ch, dir) /\ DirsOnTheWay(t1.ch, dir)
  BY <1>9, <1>10, <1>12, FoundIsWalk DEF Found
<1>14. DirsOnTheWay(t1.ch, new)
  <2> HIDE DEF new
  <2> QED BY <1>9, <1>12, <1>13, DirsOnShorterWay DEF new
<1> HIDE DEF new
<1>15. ASSUME NewName(nm)
       PROVE  /\ Walk(t1.ch, new) \notin Node /\ t2 = t1
              /\ Cuts(children_, t2.ch, {}, {onm, nm})
              /\ \A x, y \in Node : ~Has(children_, x, nm, y)
  <2>1. \A x, y \in Node : ~Has(children_, x, nm, y)
    BY <1>15, NoEdgeOfNewName
  <2>2. Walk(t1.ch, new) \notin Node
    BY <1>10, <2>1, WalkStep DEF Within, new
  <2>3. Cuts(children_, t1.ch, {}, {onm, nm})
    BY <1>7, <2>1 DEF Cuts
  <2> QED BY <2>1, <2>2, <2>3
<1>16. ASSUME Replaceable(n, new)
       PROVE  /\ CanDel(t1, new)
              /\ Linked(t2.ch, t2.pa)
              /\ Cuts(children_, t2.ch, {}, {onm, nm})
              /\ \A x, y \in Node : Has(children_, x, nm, y) => x = D
  <2>1. /\ m \in Node /\ type_[m] = "DIR" /\ type_[n] = "DIR"
        /\ \A y \in Node, z \in Name : ~Has(children_, m, z, y)
    BY <1>16 DEF Replaceable
  <2>2. Has(children_, D, nm, m)
    BY <1>1, <2>1, WalkStep DEF new, D
  <2>3. \A x, y \in Node : Has(children_, x, nm, y) => x = D
    BY <1>1, <1>9, <2>1, <2>2 DEF NamesOnce
  <2>4. nm # onm
    <3> SUFFICES ASSUME nm = onm PROVE FALSE
      OBVIOUS
    <3>1. n = m
      BY <1>1, <1>3, <1>4, <1>9, <2>1, <2>2 DEF NamesOnce
    <3>2. new = old
      BY <1>1, <1>4, <1>6, <2>1, <3>1, DirPathUnique
    <3> QED BY <1>8, <3>2, PrefixSelf
  <2>5. Has(t1.ch, D, nm, m)
    BY <1>7, <1>9, <2>1, <2>2, <2>4 DEF Cuts
  <2>6. Walk(t1.ch, new) = m
    BY <1>9, <1>10, <1>12, <2>1, <2>5, WalkStep DEF new
  <2>7. e = D /\ nm \in Names(t1.ch[D]) /\ Child(t1.ch, D, nm) = m
    BY <1>6, <1>9, <1>10, <1>12, <2>1, <2>5, ChildHas
  <2>8. Subtree(t1.ch, m) = {m}
    BY <1>10, <2>1, NothingBelow DEF Within
  <2>9. CanDel(t1, new)
    <3>1. Found(t1.ch, new)
      BY <1>6, <1>10, <2>1, <2>6, FoundIsWalk
    <3>2. LinksWalkDirs(t1, m)
      BY <2>1, <2>8 DEF LinksWalkDirs
    <3> HIDE DEF m
    <3> QED BY <1>6, <1>12, <1>13, <2>6, <2>7, <3>1, <3>2 DEF CanDel
  <2>10. t2 = DelSubtree(t1, D, nm)
    BY <1>6, <2>1, <2>6, <2>7
  <2> HIDE DEF t2, e, m
  <2>11. Linked(t2.ch, t2.pa) /\ Cuts(t1.ch, t2.ch, {m}, {nm})
    BY <1>7, <1>9, <1>10, <2>7, <2>8, <2>10, DelSubtreeLinked, DelSubtreeCuts
  <2>12. Cuts(children_, t2.ch, {}, {onm, nm})
    BY <1>7, <2>1, <2>11 DEF Cuts
  <2> QED BY <2>3, <2>9, <2>11, <2>12
<1>17. NewName(nm) \/ Replaceable(n, new)
  BY <1>4 DEF new
<1>18. /\ Walk(t1.ch, new) \in Node => CanDel(t1, new)
       /\ Linked(t2.ch, t2.pa)
       /\ Cuts(children_, t2.ch, {}, {onm, nm})
       /\ \A x, y \in Node : Has(children_, x, nm, y) => x = D
  <2> HIDE DEF t2
  <2> QED BY <1>7, <1>15, <1>16, <1>17
<1> HIDE DEF t2
<1>19. Dicts(t2.ch) /\ DirsHold(t2.ch, type_)
  <2>1. Dicts(t2.ch) /\ Within(t2.ch, children_)
    BY <1>18, LinkedDicts, CutsWithin
  <2> QED BY <1>1, <2>1 DEF DirsHold, Within
<1>20. Walk(t2.ch, dir) = D
  <2>1. /\ Walk(children_, from) \in Node /\ Walk(children_, dir) \in Node
        /\ \A x, y \in Node : Has(children_, x, onm, y) => x = Walk(children_, from)
        /\ \A x, y \in Node : Has(children_, x, nm, y) => x = Walk(children_, dir)
        /\ ~IsPrefix(Append(from, onm), dir) /\ ~IsPrefix(Append(dir, nm), dir)
    BY <1>2, <1>3, <1>8, <1>11, <1>18 DEF od, D, new
  <2>2. Walk(t2.ch, dir) = Walk(children_, dir)
    BY <1>1, <1>2, <1>9, <1>18, <1>19, <2>1, CutKeepsWalk
  <2> QED BY <2>2 DEF D
<1>21. \A x, y \in Node : ~Has(t2.ch, x, nm, y)
  BY <1>18 DEF Cuts
<1>22. CanAdd(t2, dir, nm, n)
  <2>1. Found(t2.ch, dir)
    BY <1>9, <1>19, <1>20, FoundIsWalk
  <2>2. nm \notin Names(t2.ch[D])
    BY <1>9, <1>19, <1>21, ChildHas
  <2>3. \A l \in t2.pa[n] : l.name # nm
    BY <1>4, <1>18, <1>21, LinkedDicts
  <2> QED BY <1>9, <1>20, <2>1, <2>2, <2>3 DEF CanAdd
<1>23. ok
  BY <1>4, <1>5, <1>14, <1>18, <1>22
<1>24. Relink(AddNode(t2, Walk(t2.ch, dir), nm, n))
  BY <1>23 DEF TakeRename, t1, t2, n, od, new
<1> QED BY <1>24 DEF Relink

\* Every path drawn is found; one drawn for what is no directory leads to it.
LEMMA DrawnIsFound ==
  ASSUME PathInv, NEW S \in SUBSET Node, NEW p \in PathsOf(S)
  PROVE  /\ p \in Seq(Name) /\ Walk(children_, p) \in Node /\ Found(children_, p)
         /\ S \subseteq PickDir => type_[Walk(children_, p)] = "DIR"
         /\ S \subseteq PickFile => type_[Walk(children_, p)] = "FILE"
<1>1. PICK n \in S : p \in GetPath(n)
  BY DEF PathsOf
<1>2. /\ p \in Seq(Name)
      /\ Walk(children_, p) = n \/ Walk(children_, p) = Root
  BY <1>1, PickedResolves
<1>3. Dicts(children_) /\ DirsHold(children_, type_) /\ working_root_ \in Node
  BY PathInvTree
<1>4. Walk(children_, p) \in Node /\ Found(children_, p)
  BY <1>2, <1>3, RootIsNode, FoundIsWalk
<1>5. S \subseteq PickDir => type_[Walk(children_, p)] = "DIR"
  BY <1>2 DEF PickDir, Pick, PathInv, Forest
<1>6. ASSUME S \subseteq PickFile PROVE type_[Walk(children_, p)] = "FILE"
  <2>1. n \in Subtree(children_, working_root_) /\ type_[n] = "FILE" /\ n # working_root_
    BY <1>6 DEF PickFile, Pick, Visited, PathInv
  <2>2. PICK x \in Subtree(children_, working_root_) : \E nm \in Name : Has(children_, x, nm, n)
    BY <1>3, <2>1, SubtreeParent
  <2>3. x \in Node
    BY <1>3, <2>2, SubtreeClosed
  <2>4. parents_[n] # {}
    BY <2>2, <2>3, PathInvTree, LinkedDicts DEF TreeOK
  <2>5. Walk(children_, p) = n
    BY <1>1, <2>4, PathInvTree, GetPathResolves DEF Attached
  <2> QED BY <2>1, <2>5
<1> QED BY <1>2, <1>4, <1>5, <1>6

LEMMA AddNewNodeTakes ==
  ASSUME PathInv, NewJnodeFits, NEW nm, NewName(nm), NEW dir \in Dirs,
         NEW t, t.ch = children_, t.pa = parents_, NEW kind, NEW target,
         AddNewNode(t, kind, dir, nm, target)
  PROVE  UNCHANGED raised
<1> DEFINE d == Walk(children_, dir)
<1>1. id_count_ \in Node
  BY MaxJnodeAssumption DEF PathInv, IInv, LinksTypeOK, NewJnodeFits, Node
<1>2. /\ nm \in Name /\ \A x, y \in Node : ~Has(children_, x, nm, y)
  BY NoEdgeOfNewName DEF NewName
<1>3. d \in Node /\ Found(children_, dir) /\ type_[d] = "DIR"
  <2>1. PickDir \in SUBSET Node
    BY PickedPaths DEF PickDir
  <2> QED BY <2>1, DrawnIsFound DEF Dirs
<1>4. nm \notin Names(children_[d])
  <2> HIDE DEF d
  <2> QED BY <1>2, <1>3, PathInvTree, ChildHas
<1>5. \A l \in parents_[id_count_] : l.name # nm
  BY <1>1, <1>2, PathInvTree, LinkedDicts DEF TreeOK
<1>6. CanAdd(t, dir, nm, id_count_)
  BY <1>3, <1>4, <1>5 DEF CanAdd
<1> QED BY <1>6 DEF AddNewNode

LEMMA RemoveTakes ==
  ASSUME PathInv, HeldInv, NEW path \in PathsOf(PickAny), path # << >>, TakeRemove(path)
  PROVE  UNCHANGED raised
<1>1. PickAny \in SUBSET Node
  BY PickedPaths DEF PickAny
<1>2. path \in Seq(Name) /\ Walk(children_, path) \in Node /\ Found(children_, path)
  BY <1>1, DrawnIsFound
<1>3. Front(path) \in Seq(Name) /\ Last(path) \in Name /\ path = Append(Front(path), Last(path))
  BY <1>2, FrontLast
<1>4. Dicts(children_) /\ DirsHold(children_, type_)
  BY PathInvTree
<1>5. /\ Walk(children_, Front(path)) \in Node
      /\ Has(children_, Walk(children_, Front(path)), Last(path), Walk(children_, path))
  BY <1>2, <1>3, <1>4, WalkStep
<1>6. Last(path) \in Names(children_[Walk(children_, Front(path))])
  BY <1>2, <1>3, <1>4, <1>5, ChildHas
<1>7. LinksWalkDirs(Tree, Walk(children_, path))
  <2>1. Subtree(children_, Walk(children_, path)) \subseteq Node
    BY <1>2, <1>4, SubtreeClosed
  <2> QED BY <2>1, ThroughPasses, TreeFields DEF LinksWalkDirs, HeldInv
<1>8. CanDel(Tree, path)
  BY <1>2, <1>3, <1>4, <1>5, <1>6, <1>7, FoundIsWalk, TreeFields DEF CanDel
<1> QED BY <1>8 DEF TakeRemove, Relink

LEMMA ReduceTakes ==
  ASSUME PathInv, HeldInv, NEW path \in PathsOf(PickNonlink), TakeReduce(path)
  PROVE  UNCHANGED raised
<1>1. PickNonlink \in SUBSET Node
  BY PickedPaths DEF PickNonlink
<1>2. path \in Seq(Name) /\ Walk(children_, path) \in Node /\ Found(children_, path)
  BY <1>1, DrawnIsFound
<1>3. LinksWalkDirs(Tree, Walk(children_, path))
  <2>1. Subtree(children_, Walk(children_, path)) \subseteq Node
    BY <1>2, PathInvTree, SubtreeClosed
  <2> QED BY <2>1, ThroughPasses, TreeFields DEF LinksWalkDirs, HeldInv
<1> QED BY <1>2, <1>3 DEF TakeReduce, Relink

LEMMA HardlinkTakes ==
  ASSUME PathInv, NEW nm, NewName(nm), NEW dir \in Dirs, NEW old \in PathsOf(PickFile),
         TakeHardlink(dir, nm, old)
  PROVE  UNCHANGED raised
<1> DEFINE d == Walk(children_, dir)
           n == Walk(children_, old)
<1>1. PickDir \in SUBSET Node /\ PickFile \in SUBSET Node
  BY PickedPaths DEF PickDir, PickFile
<1>2. d \in Node /\ Found(children_, dir) /\ type_[d] = "DIR"
  BY <1>1, DrawnIsFound DEF Dirs
<1>3. n \in Node /\ Found(children_, old) /\ type_[n] = "FILE"
  BY <1>1, DrawnIsFound
<1>4. nm \in Name /\ \A x, y \in Node : ~Has(children_, x, nm, y)
  BY NoEdgeOfNewName DEF NewName
<1>5. nm \notin Names(children_[d])
  <2> HIDE DEF d
  <2> QED BY <1>2, <1>4, PathInvTree, ChildHas
<1>6. \A l \in parents_[n] : l.name # nm
  <2> HIDE DEF n
  <2> QED BY <1>3, <1>4, PathInvTree, LinkedDicts DEF TreeOK
<1>7. CanAdd(Tree, dir, nm, n)
  BY <1>2, <1>5, <1>6, TreeFields DEF CanAdd
<1> QED BY <1>3, <1>7 DEF TakeHardlink, Relink

\* The one step that raises is that of a loop which finds no command to take.
LEMMA NextTakes ==
  ASSUME TakeInv, [Next]_vars, ~NoCommand
  PROVE  UNCHANGED raised
<1>1. PathInv /\ HeldInv
  BY DEF TakeInv
<1>2. /\ PickDir \in SUBSET Node /\ PickFile \in SUBSET Node
      /\ PickAny \in SUBSET Node /\ PickAny \ {Root} \in SUBSET Node
      /\ \A ty \in Touches : PickTouched(ty) \in SUBSET Node
  BY <1>1, PickedPaths DEF PickDir, PickFile, PickAny, PickTouched, PickNonlink
<1>3. CASE GenNames
  <2>1. PICK nm \in Numbers, dir \in Dirs :
          \/ GenMkdir(dir, nm) \/ GenCreate(dir, nm) \/ GenMknod(dir, nm)
          \/ \E old \in PathsOf(PickAny) : GenSymlink(dir, nm, old)
          \/ \E old \in PathsOf(PickFile) : GenHardlink(dir, nm, old)
          \/ \E old \in PathsOf(PickAny \ {Root}) : GenRenameToFresh(dir, nm, old)
    BY <1>3 DEF GenNames
  <2>2. /\ dir \in Seq(Name) /\ nm \in Name
        /\ Walk(children_, dir) \in Node /\ type_[Walk(children_, dir)] = "DIR"
    BY <1>1, <1>2, DrawnIsFound, BoundsAssumption DEF Dirs, Numbers, Name
  <2>3. Issue(nm) => NewName(nm)
    BY <1>1, <2>2, PathInvTree DEF Issue, FreshName, NewName
  <2>4. CASE GenMkdir(dir, nm) \/ GenCreate(dir, nm) \/ GenMknod(dir, nm)
    <3>1. NewJnodeFits /\ NewName(nm) /\ \E kind : AddNewNode(Tree, kind, dir, nm, << >>)
      BY <2>3, <2>4 DEF GenMkdir, GenCreate, GenMknod, TakeMkdir, TakeCreate, TakeMknod
    <3> QED BY <1>1, <3>1, TreeFields, AddNewNodeTakes
  <2>5. ASSUME NEW old \in PathsOf(PickAny), GenSymlink(dir, nm, old) PROVE UNCHANGED raised
    <3>1. NewJnodeFits /\ NewName(nm) /\ TakeSymlink(dir, nm, old)
      BY <2>3, <2>5 DEF GenSymlink
    <3> DEFINE t == [Tree EXCEPT !.num[Walk(children_, old)] = @ + 1]
    <3>2. Found(children_, old)
      BY <1>1, <1>2, DrawnIsFound
    <3>3. AddNewNode(t, "SYMLINK", dir, nm, old)
      BY <3>1, <3>2 DEF TakeSymlink
    <3>4. t.ch = children_ /\ t.pa = parents_
      BY DEF Tree
    <3> HIDE DEF t
    <3> QED BY <1>1, <3>1, <3>3, <3>4, AddNewNodeTakes
  <2>6. ASSUME NEW old \in PathsOf(PickFile), GenHardlink(dir, nm, old) PROVE UNCHANGED raised
    BY <1>1, <2>3, <2>6, HardlinkTakes DEF GenHardlink
  <2>7. ASSUME NEW old \in PathsOf(PickAny \ {Root}), GenRenameToFresh(dir, nm, old)
        PROVE  UNCHANGED raised
    <3>1. NewName(nm) /\ TakeRename(dir, nm, old) /\ Unrelated(Append(dir, nm), old)
      BY <2>3, <2>7 DEF GenRenameToFresh
    <3>2. old \in Seq(Name) /\ Walk(children_, old) \in Node
      BY <1>1, <1>2, DrawnIsFound
    <3>3. old # << >>
      BY <2>2, <3>1, PrefixSelf, AppendProperties DEF Unrelated
    <3> QED BY <1>1, <2>2, <3>1, <3>2, <3>3, RenameTakes
  <2> QED BY <2>1, <2>4, <2>5, <2>6, <2>7
<1>4. CASE GenOnPath
  <2>1. ASSUME NEW path \in PathsOf(PickAny), GenRemove(path) PROVE UNCHANGED raised
    BY <1>1, <2>1, RemoveTakes DEF GenRemove
  <2>2. ASSUME NEW old, NEW new, <<old, new>> \in Replacements, GenRenameOntoEmptyDir(old, new)
        PROVE  UNCHANGED raised
    <3>1. PICK x \in {y \in (PickAny \ {Root}) \X PickDir : MayReplace(y[1], y[2])} :
            old \in GetPath(x[1]) /\ new \in GetPath(x[2])
      BY <2>2 DEF Replacements
    <3> DEFINE n == x[1]
               m == x[2]
    <3>2. /\ n \in Node /\ m \in Node /\ children_[m] = << >>
          /\ type_[n] = "DIR" /\ type_[m] = "DIR"
      BY <1>2, <3>1 DEF MayReplace, PickDir, Pick
    <3>3. PICK nm \in Numbers : nm = Last(new) /\ TakeRename(Front(new), nm, old)
      BY <2>2 DEF GenRenameOntoEmptyDir
    <3>4. Unrelated(new, old) /\ UNCHANGED foo_id_
      BY <2>2 DEF GenRenameOntoEmptyDir, NothingIssued
    <3>5. old \in GetPath(n) /\ new \in GetPath(m)
      BY <3>1
    <3> HIDE DEF n, m
    <3>6. old \in Seq(Name) /\ new \in Seq(Name)
      BY <1>1, <3>2, <3>5, PickedResolves
    <3>7. old # << >> /\ new # << >>
      BY <3>4, <3>6, PrefixSelf DEF Unrelated
    <3>8. Walk(children_, old) = n /\ Walk(children_, new) = m
      BY <1>1, <3>2, <3>5, <3>7, PickedResolves
    <3>9. Front(new) \in Seq(Name) /\ nm \in Name /\ new = Append(Front(new), nm)
      BY <3>3, <3>6, <3>7, FrontLast
    <3>10. \A y \in Node, z \in Name : ~Has(children_, m, z, y)
      BY <3>2, EmptyDict DEF Has
    <3>11. Replaceable(Walk(children_, old), new)
      BY <3>2, <3>4, <3>8, <3>10 DEF Replaceable
    <3>12. /\ Walk(children_, Front(new)) \in Node
           /\ Has(children_, Walk(children_, Front(new)), nm, m)
      BY <1>1, <3>2, <3>8, <3>9, PathInvTree, WalkStep
    <3>13. type_[Walk(children_, Front(new))] = "DIR"
      BY <1>1, <3>2, <3>12, PathInvTree, <3>9 DEF DirsHold
    <3> QED BY <1>1, <3>2, <3>3, <3>4, <3>6, <3>7, <3>8, <3>9, <3>11, <3>12, <3>13, RenameTakes
  <2>3. ASSUME NEW r \in Replacements, GenRenameOntoEmptyDir(r[1], r[2]) PROVE UNCHANGED raised
    <3>1. r = <<r[1], r[2]>>
      BY DEF Replacements
    <3> QED BY <2>2, <2>3, <3>1
  <2>4. ASSUME NEW path \in PathsOf(PickNonlink), GenReduce(path) PROVE UNCHANGED raised
    BY <1>1, <2>4, ReduceTakes DEF GenReduce
  <2>5. ASSUME NEW path \in Dirs, GenChroot(path) PROVE UNCHANGED raised
    <3>1. Found(children_, path)
      BY <1>1, <1>2, DrawnIsFound DEF Dirs
    <3> QED BY <2>5, <3>1 DEF GenChroot, TakeChroot
  <2>6. ASSUME NEW ty \in Touches, NEW path \in PathsOf(PickTouched(ty)), GenTouch(ty, path)
        PROVE  UNCHANGED raised
    <3>1. Found(children_, path)
      BY <1>1, <1>2, DrawnIsFound
    <3> QED BY <2>6, <3>1 DEF GenTouch, TakeTouch, Relink
  <2> QED BY <1>4, <2>1, <2>3, <2>4, <2>5, <2>6 DEF GenOnPath
<1>5. CASE GenOnFd
  <2>1. ASSUME NEW fd \in 1..MaxFd, NEW path \in PathsOf(PickFile), GenOpen(path, fd)
        PROVE  UNCHANGED raised
    <3>1. Found(children_, path) /\ type_[Walk(children_, path)] = "FILE"
      BY <1>1, <1>2, DrawnIsFound
    <3>2. fd \notin fd_pool_
      <4>1. fd_id_ \in Nat /\ fd = fd_id_ + 1 /\ fd_pool_ \subseteq 1..fd_id_
        BY <1>1, <2>1, BoundsAssumption DEF HeldInv, GenOpen
      <4> QED BY <4>1
    <3> QED BY <2>1, <3>1, <3>2 DEF GenOpen, TakeOpen
  <2>2. ASSUME NEW fd \in fd_pool_, GenClose(fd) PROVE UNCHANGED raised
    BY <2>2 DEF GenClose, TakeClose
  <2> QED BY <1>5, <2>1, <2>2 DEF GenOnFd
<1>6. CASE UNCHANGED vars
  BY <1>6 DEF vars
<1> QED BY <1>3, <1>4, <1>5, <1>6 DEF Next

\* An exception ends the generator only where its loop has sampled no command.
RaisesOnlyWithoutCommand == [][raised' # raised => NoCommand]_vars

\* Whatever was built, take_command takes it: no lookup of a path fails, no assert of
\* _lookup_node on the paths that symlinks hold, none of add_child, del_child or
\* _move_node (FsTree.py:40-155, 170-311).
THEOREM CommandsAreTaken == Spec => RaisesOnlyWithoutCommand
<1>1. TakeInv /\ [Next]_vars => (raised' # raised => NoCommand)
  BY NextTakes
<1> QED BY <1>1, TakeInvAlways, PTL DEF Spec, RaisesOnlyWithoutCommand

(***************************************************************************)
(* There is a command, as long as a type that is always sampled has one    *)
(***************************************************************************)
\* Every step that adds to node_count_ uses a name up.
LEMMA NextCounts ==
  ASSUME PathInv, Counted(Tree), [Next]_vars, node_count_ <= foo_id_ + 1
  PROVE  node_count_' <= foo_id_' + 1
<1>1. StepEffect
  BY NextEffect
<1>2. /\ node_count_ \in Int /\ IsFiniteSet(EdgesOf(Tree, Node))
      /\ foo_id_ \in Nat /\ MaxName \in Nat
  BY PathInvTree, TreeFields DEF Counted
<1>3. \A S \in SUBSET Node : IsFiniteSet(EdgesOf(Tree, S))
  <2>1. \A S \in SUBSET Node : EdgesOf(Tree, S) \subseteq EdgesOf(Tree, Node)
    BY DEF EdgesOf
  <2> QED BY <1>2, <2>1, FS_Subset
<1>4. ASSUME NEW gone, IsFiniteSet(gone), node_count_' = node_count_ - Cardinality(gone),
             foo_id_' = foo_id_
      PROVE  node_count_' <= foo_id_' + 1
  <2>1. Cardinality(gone) \in Nat
    BY <1>4, FS_CardinalityType
  <2> QED BY <1>2, <1>4, <2>1
<1>5. ASSUME Stays PROVE node_count_' <= foo_id_' + 1
  <2>1. node_count_' = node_count_ /\ foo_id_' \in foo_id_..MaxName
    BY <1>5 DEF Stays
  <2>2. foo_id_' \in Int /\ foo_id_ <= foo_id_'
    BY <1>2, <2>1
  <2>3. \A a, b, c \in Int : a <= b + 1 /\ b <= c => a <= c + 1
    OBVIOUS
  <2>4. foo_id_ \in Int /\ node_count_ <= foo_id_ + 1
    BY <1>2
  <2>5. node_count_ <= foo_id_' + 1
    BY <1>2, <2>2, <2>3, <2>4, Zenon
  <2> QED BY <2>1, <2>5
<1>6. ASSUME NEW dir \in Seq(Name), NEW nm \in Name, NEW kind, NEW target,
             Made(dir, nm, kind, target)
      PROVE  node_count_' <= foo_id_' + 1
  BY <1>2, <1>6 DEF Made, NewName
<1>7. ASSUME NEW dir \in Seq(Name), NEW old \in Seq(Name), NEW nm \in Name,
             HardLinked(dir, nm, old)
      PROVE  node_count_' <= foo_id_' + 1
  BY <1>2, <1>7 DEF HardLinked, NewName
<1>8. ASSUME NEW dir \in Seq(Name), NEW nm \in Name, Removed(dir, nm)
      PROVE  node_count_' <= foo_id_' + 1
  <2> DEFINE n == Walk(children_, Append(dir, nm))
             d == Walk(children_, dir)
  <2>1. /\ n \in Node /\ foo_id_' = foo_id_
        /\ node_count_' = node_count_ - Cardinality(GoneWith(Tree, d, nm))
    BY <1>8 DEF Removed
  <2>2. d \in Node /\ Has(children_, d, nm, n)
    BY <2>1, PathInvTree, WalkStep
  <2>3. Child(Tree.ch, d, nm) = n
    <3> HIDE DEF d, n
    <3> QED BY <2>1, <2>2, PathInvTree, TreeFields, ChildHas
  <2>4. Subtree(Tree.ch, n) \in SUBSET Node
    <3> HIDE DEF n
    <3> QED BY <2>1, PathInvTree, SubtreeClosed, TreeFields
  <2>5. IsFiniteSet(GoneWith(Tree, d, nm))
    <3> HIDE DEF d, n
    <3> QED BY <1>3, <2>3, <2>4, FS_AddElement DEF GoneWith
  <2> QED BY <1>4, <2>1, <2>5
<1>9. ASSUME NEW path \in Seq(Name), Emptied(path) PROVE node_count_' <= foo_id_' + 1
  <2> DEFINE S == Subtree(children_, Walk(children_, path))
  <2>1. /\ Walk(children_, path) \in Node /\ foo_id_' = foo_id_
        /\ node_count_' = node_count_ - Cardinality(EdgesOf(Tree, S))
    BY <1>9 DEF Emptied
  <2>2. S \in SUBSET Node
    BY <2>1, PathInvTree, SubtreeClosed
  <2> HIDE DEF S
  <2> QED BY <1>3, <1>4, <2>1, <2>2
<1>10. ASSUME NEW from \in Seq(Name), NEW onm \in Name, NEW dir \in Seq(Name), NEW nm \in Name,
              NEW ch, MovedTo(from, onm, dir, nm, ch)
       PROVE  node_count_' <= foo_id_' + 1
  BY <1>2, <1>10 DEF MovedTo, NewName, Replaced
<1> QED BY <1>1, <1>5, <1>6, <1>7, <1>8, <1>9, <1>10 DEF StepEffect

\* A new name for something: these need no jnode but a directory to put it in, and
\* are held back at TREE_MAX_SIZE only.
Makers == {"MKDIR", "CREATE", "SYMLINK"}

\* TREE_MAX_SIZE is beyond what the run may add, and one of the makers is sampled every
\* time, as config.py has it: then every command is built and taken.
THEOREM NothingRaises ==
  ASSUME SureTypes \cap Makers # {}, MaxName + 1 < TreeMaxSize
  PROVE  Spec => []NoException
<1> DEFINE J == TakeInv /\ node_count_ <= foo_id_ + 1 /\ NoException
<1>1. Init => J
  <2> SUFFICES ASSUME Init PROVE node_count_ <= foo_id_ + 1 /\ NoException
    BY InitTakeInv
  <2> QED BY DEF Init, TreeInit, NoException
<1>2. J /\ [Next]_vars => J'
  <2> SUFFICES ASSUME J, [Next]_vars PROVE NoException'
    BY NextTakeInv, NextCounts DEF TakeInv
  <2>1. node_count_ < TreeMaxSize
    <3>1. /\ node_count_ \in Int /\ foo_id_ \in 0..MaxName /\ node_count_ <= foo_id_ + 1
      BY TreeFields DEF TakeInv, PathInv, Counted
    <3> QED BY <3>1, BoundsAssumption
  <2>2. PICK ty \in Makers : ty \in SureTypes
    OBVIOUS
  <2>3. Available(ty)
    <3>1. node_count_ \in Int
      BY TreeFields DEF TakeInv, Counted
    <3> QED BY <2>1, <2>2, <3>1, TypesAssumption, BoundsAssumption DEF Available
  <2>4. ~MayBeEmpty(ty)
    BY <2>2 DEF Makers, MayBeEmpty
  <2>5. ~NoCommand
    BY <2>2, <2>3, <2>4 DEF NoCommand
  <2> QED BY <2>5, NextTakes DEF NoException
<1>3. J => NoException
  OBVIOUS
<1> QED BY <1>1, <1>2, <1>3, PTL DEF Spec

(***************************************************************************)
(* Deleting a sequence of edges                                            *)
(***************************************************************************)
\* f is what FoldLeft goes through from t, by the set of the positions passed.
Folding(f, t, order, n) ==
  f = [S \in SUBSET (1..n) |->
         IF S = {} THEN t ELSE DelEdge(f[S \ {Max(S)}], order[Max(S)])]

LEMMA FoldingExists ==
  ASSUME NEW t, NEW order, NEW n \in Nat
  PROVE  \E f : Folding(f, t, order, n)
<1> DEFINE N == {k \in Nat : \E f : Folding(f, t, order, k)}
<1>1. 0 \in N
  <2> DEFINE f == [S \in SUBSET (1..0) |-> t]
  <2>1. \A S \in SUBSET (1..0) : S = {}
    OBVIOUS
  <2>2. Folding(f, t, order, 0)
    BY <2>1 DEF Folding
  <2> HIDE DEF f
  <2> QED BY <2>2
<1>2. ASSUME NEW k \in Nat, k \in N PROVE k + 1 \in N
  <2>1. PICK f : Folding(f, t, order, k)
    BY <1>2
  <2> DEFINE g == [S \in SUBSET (1..(k + 1)) |->
                     IF k + 1 \in S THEN DelEdge(f[S \ {k + 1}], order[k + 1]) ELSE f[S]]
             Step(h, S) == IF S = {} THEN t ELSE DelEdge(h[S \ {Max(S)}], order[Max(S)])
  <2>2. \A S \in SUBSET (1..(k + 1)) : k + 1 \notin S => S \in SUBSET (1..k)
    OBVIOUS
  <2>3. \A S \in SUBSET (1..k) : g[S] = f[S]
    OBVIOUS
  <2>4. \A S \in SUBSET (1..k) : f[S] = Step(f, S)
    BY <2>1 DEF Folding
  <2>5. ASSUME NEW S \in SUBSET (1..(k + 1)) PROVE g[S] = Step(g, S)
    <3>1. CASE k + 1 \in S
      <4>1. Max(S) = k + 1 /\ S # {}
        <5>1. k + 1 \in Nat
          OBVIOUS
        <5>2. S # {} /\ Max(S) \in S /\ \A y \in S : Max(S) >= y
          BY <3>1, <5>1, MaxIsIn
        <5>3. Max(S) \in 1..(k + 1) /\ Max(S) >= k + 1
          BY <3>1, <5>2
        <5> QED BY <5>2, <5>3
      <4>2. S \ {k + 1} \in SUBSET (1..k)
        BY <2>2
      <4>3. g[S \ {k + 1}] = f[S \ {k + 1}]
        BY <2>3, <4>2
      <4> QED BY <3>1, <4>1, <4>3
    <3>2. CASE k + 1 \notin S
      <4>1. S \in SUBSET (1..k) /\ S \ {Max(S)} \in SUBSET (1..k)
        BY <2>2, <3>2
      <4>2. g[S] = f[S] /\ g[S \ {Max(S)}] = f[S \ {Max(S)}]
        BY <2>3, <4>1
      <4> QED BY <2>4, <4>1, <4>2
    <3> QED BY <3>1, <3>2
  <2>6. g = [S \in SUBSET (1..(k + 1)) |-> Step(g, S)]
    BY <2>5
  <2> HIDE DEF g
  <2>7. Folding(g, t, order, k + 1)
    BY <2>6 DEF Folding
  <2> QED BY <2>7
<1>3. n \in N
  <2> HIDE DEF N
  <2> QED BY <1>1, <1>2, NatSetInduction
<1> QED BY <1>3

LEMMA FoldingAt ==
  ASSUME NEW f, NEW t, NEW order, NEW n \in Nat, Folding(f, t, order, n)
  PROVE  /\ f[1..0] = t
         /\ \A k \in 0..(n - 1) : f[1..(k + 1)] = DelEdge(f[1..k], order[k + 1])
<1>1. 1..0 = {} /\ 1..0 \in SUBSET (1..n)
  OBVIOUS
<1>2. f[1..0] = t
  BY <1>1 DEF Folding
<1>3. ASSUME NEW k \in 0..(n - 1) PROVE f[1..(k + 1)] = DelEdge(f[1..k], order[k + 1])
  <2>1. 1..(k + 1) \in SUBSET (1..n) /\ 1..(k + 1) # {} /\ k \in Nat
    OBVIOUS
  <2>2. Max(1..(k + 1)) = k + 1 /\ (1..(k + 1)) \ {k + 1} = 1..k
    BY <2>1, MaxOfUpTo
  <2> QED BY <2>1, <2>2 DEF Folding
<1> QED BY <1>2, <1>3

\* What Stepwise passes on its way, position by position
DeletesEach(f, t, order) ==
  /\ f[0] = t
  /\ \A k \in 0..(Len(order) - 1) : f[k + 1] = DelEdge(f[k], order[k + 1])

LEMMA StepwisePasses ==
  ASSUME NEW t, NEW X, NEW order \in Seq(X)
  PROVE  \E f : DeletesEach(f, t, order) /\ Stepwise(t, order) = f[Len(order)]
<1> DEFINE n == Len(order)
           c == CHOOSE f : f = [S \in SUBSET (1..n) |->
                  IF S = {} THEN t ELSE DelEdge(f[S \ {Max(S)}], order[Max(S)])]
<1>1. n \in Nat /\ DOMAIN order = 1..n
  OBVIOUS
<1>2. Stepwise(t, order) = c[1..n]
  BY <1>1 DEF Stepwise, FoldLeft, MapThenFoldSet
<1>3. Folding(c, t, order, n)
  <2>1. \E f : Folding(f, t, order, n)
    BY <1>1, FoldingExists
  <2>2. \E f : f = [S \in SUBSET (1..n) |->
                  IF S = {} THEN t ELSE DelEdge(f[S \ {Max(S)}], order[Max(S)])]
    BY <2>1 DEF Folding
  <2> HIDE DEF n
  <2> QED BY <2>2 DEF Folding
<1> HIDE DEF c
<1> DEFINE g == [k \in 0..n |-> c[1..k]]
<1>4. /\ c[1..0] = t
      /\ \A k \in 0..(n - 1) : c[1..(k + 1)] = DelEdge(c[1..k], order[k + 1])
  BY <1>1, <1>3, FoldingAt
<1>5. DeletesEach(g, t, order) /\ g[n] = c[1..n]
  BY <1>1, <1>4 DEF DeletesEach
<1> HIDE DEF g
<1> QED BY <1>2, <1>5

(***************************************************************************)
(* Subtrees                                                                *)
(***************************************************************************)
\* A jnode is below the jnodes its parents are below only.
LEMMA SubtreeSplit ==
  ASSUME NEW ch, Dicts(ch), NEW x \in Node
  PROVE  Subtree(ch, x) = {x} \cup UNION {Subtree(ch, ch[x][i].node) : i \in DOMAIN ch[x]}
<1> DEFINE U == UNION {Subtree(ch, ch[x][i].node) : i \in DOMAIN ch[x]}
           T == {x} \cup U
           S == Subtree(ch, x)
<1>1. S \in SUBSET Node /\ x \in S /\ ClosedUnder(ch, S)
  BY SubtreeClosed
<1>2. ASSUME NEW i \in DOMAIN ch[x]
      PROVE  /\ ch[x][i].node \in Node /\ ch[x][i].name \in Name
             /\ Has(ch, x, ch[x][i].name, ch[x][i].node)
  BY EntryHas
<1>3. \A i \in DOMAIN ch[x] : /\ Subtree(ch, ch[x][i].node) \in SUBSET Node
                              /\ ch[x][i].node \in Subtree(ch, ch[x][i].node)
                              /\ ClosedUnder(ch, Subtree(ch, ch[x][i].node))
  BY <1>2, SubtreeClosed
<1>4. \A i \in DOMAIN ch[x] : ch[x][i].node \in S
  BY <1>1, <1>2 DEF ClosedUnder
<1> HIDE DEF S
<1>5. ASSUME NEW i \in DOMAIN ch[x] PROVE Subtree(ch, ch[x][i].node) \subseteq S
  BY <1>1, <1>2, <1>4, <1>5, SubtreeLeast
<1>6. T \in SUBSET Node
  BY <1>3
<1>7. ClosedUnder(ch, T)
  <2> SUFFICES ASSUME NEW d \in Node, NEW n \in Node, NEW nm \in Name, d \in T, Has(ch, d, nm, n)
               PROVE  n \in T
    BY DEF ClosedUnder
  <2>1. CASE d = x
    <3>1. PICK i \in DOMAIN ch[x] : ch[x][i] = [name |-> nm, node |-> n]
      BY <2>1 DEF Has, ToSet
    <3>2. n \in Subtree(ch, ch[x][i].node)
      BY <1>3, <3>1
    <3> QED BY <3>2
  <2>2. CASE d # x
    <3>1. PICK i \in DOMAIN ch[x] : d \in Subtree(ch, ch[x][i].node)
      BY <2>2
    <3>2. n \in Subtree(ch, ch[x][i].node)
      BY <1>3, <3>1 DEF ClosedUnder
    <3> QED BY <3>2
  <2> QED BY <2>1, <2>2
<1>8. S \subseteq T
  <2> HIDE DEF T
  <2>1. x \in T
    BY DEF T
  <2> QED BY <1>6, <1>7, <2>1, SubtreeLeast DEF S
<1> QED BY <1>1, <1>5, <1>8 DEF S

LEMMA SubtreeRank ==
  ASSUME NEW ch, Dicts(ch), NEW rank, NEW m, Ranks(ch, rank, m), NEW x \in Node
  PROVE  \A y \in Subtree(ch, x) : rank[x] <= rank[y]
<1> DEFINE T == {y \in Node : rank[x] <= rank[y]}
<1>1. \A y \in Node : rank[y] \in Int
  BY DEF Ranks
<1>2. T \in SUBSET Node /\ x \in T
  BY <1>1
<1>3. ClosedUnder(ch, T)
  <2> SUFFICES ASSUME NEW d \in T, NEW n \in Node, NEW nm \in Name, Has(ch, d, nm, n)
               PROVE  n \in T
    BY DEF ClosedUnder
  <2>1. rank[d] < rank[n]
    BY DEF Ranks
  <2> QED BY <1>1, <2>1
<1>4. Subtree(ch, x) \subseteq T
  <2> HIDE DEF T
  <2> QED BY <1>2, <1>3, SubtreeLeast
<1> QED BY <1>4

\* No directory is below two entries of one directory.
LEMMA SubtreesApart ==
  ASSUME NEW ch, NEW ty, NEW H, Forest(ch, ty, H), NEW rank, NEW m, Ranks(ch, rank, m),
         NEW x \in Node, NEW b \in Node, NEW k \in Name, Has(ch, x, k, b),
         NEW c \in Node, NEW nm \in Name, Has(ch, x, nm, c), k # nm
  PROVE  \A y \in Subtree(ch, b) \cap Subtree(ch, c) : ty[y] # "DIR"
<1> DEFINE Both == {y \in Subtree(ch, b) \cap Subtree(ch, c) : ty[y] = "DIR"}
           R == {rank[y] : y \in Both}
<1>1. Dicts(ch) /\ DirsHold(ch, ty) /\ DirsOnce(ch, ty)
  BY DEF Forest
<1>2. \A y \in Node : rank[y] \in Nat
  BY DEF Ranks
<1>3. Subtree(ch, b) \in SUBSET Node /\ Subtree(ch, c) \in SUBSET Node
  BY <1>1, SubtreeClosed
<1>4. rank[x] < rank[b] /\ rank[x] < rank[c]
  BY DEF Ranks
<1>5. x \notin Subtree(ch, b) /\ x \notin Subtree(ch, c)
  <2>1. x \in Subtree(ch, b) => rank[b] <= rank[x]
    BY <1>1, SubtreeRank
  <2>2. x \in Subtree(ch, c) => rank[c] <= rank[x]
    BY <1>1, SubtreeRank
  <2> QED BY <1>2, <1>4, <2>1, <2>2
<1> SUFFICES ASSUME Both # {} PROVE FALSE
  OBVIOUS
<1>6. PICK y \in Both : \A z \in Both : rank[y] <= rank[z]
  <2>1. R \subseteq Nat /\ R # {}
    BY <1>2, <1>3
  <2>2. PICK r \in R : \A s \in R : r <= s
    <3> HIDE DEF R
    <3> QED BY <2>1, LeastNat
  <2> QED BY <2>2
<1>7. y \in Node /\ y \in Subtree(ch, b) /\ y \in Subtree(ch, c) /\ ty[y] = "DIR"
  BY <1>3, <1>6
<1>8. CASE y = b
  <2>1. y # c
    BY <1>1, <1>7, <1>8 DEF DirsOnce
  <2>2. PICK z \in Subtree(ch, c), h \in Name : Has(ch, z, h, y)
    BY <1>1, <1>7, <2>1, SubtreeParent
  <2>3. z = x
    BY <1>1, <1>3, <1>7, <1>8, <2>2 DEF DirsOnce
  <2> QED BY <1>5, <2>2, <2>3
<1>9. CASE y = c
  <2>1. y # b
    BY <1>1, <1>7, <1>9 DEF DirsOnce
  <2>2. PICK z \in Subtree(ch, b), h \in Name : Has(ch, z, h, y)
    BY <1>1, <1>7, <2>1, SubtreeParent
  <2>3. z = x
    BY <1>1, <1>3, <1>7, <1>9, <2>2 DEF DirsOnce
  <2> QED BY <1>5, <2>2, <2>3
<1>10. CASE y # b /\ y # c
  <2>1. PICK z \in Subtree(ch, b), h \in Name : Has(ch, z, h, y)
    BY <1>1, <1>7, <1>10, SubtreeParent
  <2>2. PICK w \in Subtree(ch, c), g \in Name : Has(ch, w, g, y)
    BY <1>1, <1>7, <1>10, SubtreeParent
  <2>3. z = w /\ z \in Node /\ ty[z] = "DIR"
    BY <1>1, <1>3, <1>7, <2>1, <2>2 DEF DirsOnce, DirsHold
  <2>4. z \in Both
    BY <2>1, <2>2, <2>3
  <2>5. rank[z] < rank[y]
    BY <1>7, <2>1, <2>3 DEF Ranks
  <2> QED BY <1>2, <1>6, <1>7, <2>3, <2>4, <2>5
<1> QED BY <1>8, <1>9, <1>10

(***************************************************************************)
(* The order of _del_subtree                                               *)
(***************************************************************************)
EntryEdge(ch, x, i) == Edge(x, ch[x][i].name, ch[x][i].node)

LEMMA InEdgesOf ==
  ASSUME NEW t, NEW S, NEW g
  PROVE  g \in EdgesOf(t, S) <=> \E y \in S : \E i \in DOMAIN t.ch[y] : g = EntryEdge(t.ch, y, i)
BY DEF EdgesOf, EntryEdge, Edge

\* What is below x, when b tells what is below its children
BelowFrom(ch, b, x) ==
  FlattenSeq([i \in DOMAIN ch[x] |-> Append(b[ch[x][i].node], EntryEdge(ch, x, i))])

LEMMA BelowStep ==
  ASSUME NEW ch, Dicts(ch), NEW rank, NEW m, Ranks(ch, rank, m), NEW n \in Node
  PROVE  Below(ch, n)
           = FlattenSeq([i \in DOMAIN ch[n] |->
                           Append(Below(ch, ch[n][i].node), EntryEdge(ch, n, i))])
<1> DEFINE S == {k \in Nat : \E f : /\ f = [x \in Node |-> f[x]]
                                    /\ \A x \in Node : m < rank[x] + k => f[x] = BelowFrom(ch, f, x)}
<1>1. /\ m \in Nat /\ \A x \in Node : rank[x] \in 0..m
      /\ \A x \in Node : \A i \in DOMAIN ch[x] : /\ ch[x][i].node \in Node
                                                 /\ rank[x] < rank[ch[x][i].node]
  BY EntryHas DEF Ranks
<1>2. ASSUME NEW f, NEW g, NEW x, \A i \in DOMAIN ch[x] : f[ch[x][i].node] = g[ch[x][i].node]
      PROVE  BelowFrom(ch, f, x) = BelowFrom(ch, g, x)
  <2>1. [i \in DOMAIN ch[x] |-> Append(f[ch[x][i].node], EntryEdge(ch, x, i))]
          = [i \in DOMAIN ch[x] |-> Append(g[ch[x][i].node], EntryEdge(ch, x, i))]
    BY <1>2
  <2> QED BY <2>1, Zenon DEF BelowFrom
<1>3. 0 \in S
  <2>1. \A x \in Node : ~(m < rank[x] + 0)
    BY <1>1
  <2>2. [x \in Node |-> {}] = [y \in Node |-> [x \in Node |-> {}][y]]
    OBVIOUS
  <2> QED BY <2>1, <2>2
<1>4. ASSUME NEW k \in Nat, k \in S PROVE k + 1 \in S
  <2>1. PICK f : /\ f = [x \in Node |-> f[x]]
                 /\ \A x \in Node : m < rank[x] + k => f[x] = BelowFrom(ch, f, x)
    BY <1>4
  <2> DEFINE g == [x \in Node |-> BelowFrom(ch, f, x)]
  <2>2. ASSUME NEW x \in Node, m < rank[x] + (k + 1) PROVE g[x] = BelowFrom(ch, g, x)
    <3>1. ASSUME NEW i \in DOMAIN ch[x] PROVE f[ch[x][i].node] = g[ch[x][i].node]
      <4>1. ch[x][i].node \in Node /\ m < rank[ch[x][i].node] + k
        BY <1>1, <2>2
      <4> QED BY <4>1, <2>1
    <3>2. BelowFrom(ch, f, x) = BelowFrom(ch, g, x)
      <4> HIDE DEF g
      <4> QED BY <1>2, <3>1
    <3> QED BY <3>2
  <2>3. g = [x \in Node |-> g[x]]
    OBVIOUS
  <2> HIDE DEF g
  <2>4. k + 1 \in Nat
    OBVIOUS
  <2> QED BY <2>2, <2>3, <2>4, Zenon
<1>5. PICK f : /\ f = [x \in Node |-> f[x]]
               /\ \A x \in Node : m < rank[x] + (m + 1) => f[x] = BelowFrom(ch, f, x)
  <2>1. m + 1 \in S
    <3> HIDE DEF S
    <3>1. m + 1 \in Nat
      BY <1>1
    <3> QED BY <3>1, <1>3, <1>4, NatSetInduction
  <2> QED BY <2>1
<1>6. f = [x \in Node |-> BelowFrom(ch, f, x)]
  <2>1. \A x \in Node : f[x] = BelowFrom(ch, f, x)
    BY <1>1, <1>5
  <2> QED BY <1>5, <2>1
<1> DEFINE c == CHOOSE h : h = [x \in Node |-> BelowFrom(ch, h, x)]
<1>7. c = [x \in Node |-> BelowFrom(ch, c, x)]
  BY <1>6
<1>8. \A x \in Node : Below(ch, x) = c[x]
  BY DEF Below, BelowFrom, EntryEdge, Edge
<1> HIDE DEF c
<1>9. c[n] = BelowFrom(ch, c, n)
  BY <1>7
<1>10. [i \in DOMAIN ch[n] |-> Append(c[ch[n][i].node], EntryEdge(ch, n, i))]
         = [i \in DOMAIN ch[n] |-> Append(Below(ch, ch[n][i].node), EntryEdge(ch, n, i))]
  BY <1>1, <1>8
<1> QED BY <1>8, <1>9, <1>10, Zenon DEF BelowFrom

\* _del_subtree goes through every edge below x, and through each one once.
LEMMA BelowIs ==
  ASSUME NEW t, NEW ty, NEW H, Forest(t.ch, ty, H)
  PROVE  \A x \in Node :
           /\ Below(t.ch, x) \in Seq(EdgesOf(t, Node))
           /\ ToSet(Below(t.ch, x)) = EdgesOf(t, Subtree(t.ch, x))
           /\ Distinct(Below(t.ch, x))
<1> DEFINE ch == t.ch
           E == EdgesOf(t, Node)
           Fine(x) == /\ Below(ch, x) \in Seq(E)
                      /\ ToSet(Below(ch, x)) = EdgesOf(t, Subtree(ch, x))
                      /\ Distinct(Below(ch, x))
<1>1. PICK m, rank : Ranks(ch, rank, m)
  BY DEF Forest
<1>2. Dicts(ch) /\ DirsHold(ch, ty) /\ Forest(ch, ty, H)
  BY DEF Forest
<1>3. m \in Nat /\ \A x \in Node : rank[x] \in 0..m
  BY <1>1 DEF Ranks
<1> DEFINE N == {k \in Nat : \A x \in Node : m < rank[x] + k => Fine(x)}
<1>4. 0 \in N
  <2>1. \A x \in Node : ~(m < rank[x] + 0)
    BY <1>3
  <2> QED BY <2>1
<1>5. ASSUME NEW k \in Nat, k \in N PROVE k + 1 \in N
  <2> SUFFICES ASSUME NEW x \in Node, m < rank[x] + (k + 1) PROVE Fine(x)
    OBVIOUS
  <2> DEFINE D == DOMAIN ch[x]
             c(i) == ch[x][i].node
             e(i) == EntryEdge(ch, x, i)
             ss == [i \in D |-> Append(Below(ch, c(i)), e(i))]
  <2>1. ASSUME NEW i \in D
        PROVE  /\ c(i) \in Node /\ ch[x][i].name \in Name /\ Has(ch, x, ch[x][i].name, c(i))
               /\ e(i) = Edge(x, ch[x][i].name, c(i)) /\ e(i) \in E
    <3>1. c(i) \in Node /\ ch[x][i].name \in Name /\ Has(ch, x, ch[x][i].name, c(i))
      BY <1>2, EntryHas
    <3>2. e(i) = Edge(x, ch[x][i].name, c(i))
      BY DEF EntryEdge
    <3>3. e(i) \in E
      BY <1>2, <3>1, <3>2, EdgesAre DEF EdgeSet
    <3> QED BY <3>1, <3>2, <3>3
  <2>2. ASSUME NEW i \in D PROVE rank[x] < rank[c(i)]
    BY <1>1, <2>1 DEF Ranks
  <2>3. ASSUME NEW i \in D PROVE Fine(c(i))
    <3>1. c(i) \in Node /\ m < rank[c(i)] + k
      BY <1>3, <2>1, <2>2
    <3> HIDE DEF Fine, c
    <3> QED BY <1>5, <3>1
  <2>4. ASSUME NEW i \in D, NEW y \in Node, NEW z \in Node, NEW nm \in Name
        PROVE  Edge(y, nm, z) \in EdgesOf(t, Subtree(ch, c(i)))
                 <=> y \in Subtree(ch, c(i)) /\ Has(ch, y, nm, z)
    <3>1. Subtree(ch, c(i)) \in SUBSET Node
      BY <1>2, <2>1, SubtreeClosed
    <3> HIDE DEF c
    <3> QED BY <1>2, <3>1, EdgesAre
  <2>5. ASSUME NEW i \in D, NEW g \in EdgesOf(t, Subtree(ch, c(i)))
        PROVE  \E y, z \in Node, nm \in Name : g = Edge(y, nm, z)
    <3>1. Subtree(ch, c(i)) \in SUBSET Node
      BY <1>2, <2>1, SubtreeClosed
    <3> HIDE DEF c
    <3> QED BY <1>2, <2>5, <3>1, EdgesAre
  <2>6. \A i \in D : x \notin Subtree(ch, c(i))
    <3> SUFFICES ASSUME NEW i \in D, x \in Subtree(ch, c(i)) PROVE FALSE
      OBVIOUS
    <3>1. rank[c(i)] <= rank[x]
      BY <1>1, <1>2, <2>1, SubtreeRank
    <3> QED BY <1>3, <2>1, <2>2, <3>1
  <2>7. \A i \in D : e(i) \notin EdgesOf(t, Subtree(ch, c(i)))
    BY <2>1, <2>4, <2>6
  <2>8. ASSUME NEW i \in D
        PROVE  /\ ss[i] \in Seq(E) /\ Distinct(ss[i])
               /\ ToSet(ss[i]) = EdgesOf(t, Subtree(ch, c(i))) \cup {e(i)}
    <3> DEFINE b == Below(ch, c(i))
               u == e(i)
    <3>1. /\ b \in Seq(E) /\ Distinct(b) /\ ToSet(b) = EdgesOf(t, Subtree(ch, c(i)))
          /\ u \in E /\ u \notin ToSet(b) /\ ss[i] = Append(b, u)
      BY <2>1, <2>3, <2>7
    <3> HIDE DEF b, u, ss
    <3>2. ToSet(ss[i]) = ToSet(b) \cup {u} /\ ss[i] \in Seq(E) /\ Distinct(ss[i])
      BY <3>1, AppendElements
    <3> QED BY <3>1, <3>2 DEF u
  <2>9. D = 1..Len(ch[x]) /\ Len(ch[x]) \in Nat
    BY <1>2 DEF Dicts
  <2>10. ss \in Seq(Seq(E)) /\ DOMAIN ss = D
    <3>1. ss \in [1..Len(ch[x]) -> Seq(E)]
      BY <2>8, <2>9
    <3> QED BY <2>9, <3>1
  <2>11. Below(ch, x) = FlattenSeq(ss)
    BY <1>1, <1>2, BelowStep
  <2>12. ASSUME NEW i \in D, NEW j \in D, i # j PROVE ToSet(ss[i]) \cap ToSet(ss[j]) = {}
    <3>1. ch[x][i].name # ch[x][j].name
      BY <1>2, <2>12 DEF Dicts, Keyed
    <3>2. e(i) # e(j)
      BY <2>1, <3>1, EdgeFields
    <3>3. e(i) \notin EdgesOf(t, Subtree(ch, c(j))) /\ e(j) \notin EdgesOf(t, Subtree(ch, c(i)))
      BY <2>1, <2>4, <2>6
    <3>4. EdgesOf(t, Subtree(ch, c(i))) \cap EdgesOf(t, Subtree(ch, c(j))) = {}
      <4> SUFFICES ASSUME NEW g, g \in EdgesOf(t, Subtree(ch, c(i))),
                          g \in EdgesOf(t, Subtree(ch, c(j)))
                   PROVE  FALSE
        OBVIOUS
      <4>1. PICK y \in Node, z \in Node, nm \in Name : g = Edge(y, nm, z)
        BY <2>5
      <4>2. y \in Subtree(ch, c(i)) /\ y \in Subtree(ch, c(j)) /\ Has(ch, y, nm, z)
        BY <2>4, <4>1
      <4>3. ty[y] = "DIR"
        BY <1>2, <4>2 DEF DirsHold
      <4>4. /\ c(i) \in Node /\ ch[x][i].name \in Name /\ Has(ch, x, ch[x][i].name, c(i))
            /\ c(j) \in Node /\ ch[x][j].name \in Name /\ Has(ch, x, ch[x][j].name, c(j))
        BY <2>1
      <4>5. \A w \in Subtree(ch, c(i)) \cap Subtree(ch, c(j)) : ty[w] # "DIR"
        <5> HIDE DEF c
        <5> QED BY <1>1, <1>2, <3>1, <4>4, SubtreesApart
      <4> QED BY <4>2, <4>3, <4>5
    <3> HIDE DEF ss, e, c
    <3> QED BY <2>8, <3>2, <3>3, <3>4
  <2>13. /\ FlattenSeq(ss) \in Seq(E) /\ Distinct(FlattenSeq(ss))
         /\ ToSet(FlattenSeq(ss)) = UNION {ToSet(ss[i]) : i \in D}
    <3> HIDE DEF ss, E
    <3> QED BY <2>8, <2>10, <2>12, FlattenElements
  <2>14. UNION {ToSet(ss[i]) : i \in D} = EdgesOf(t, Subtree(ch, x))
    <3>1. Subtree(ch, x) = {x} \cup UNION {Subtree(ch, c(i)) : i \in D}
      BY <1>2, SubtreeSplit
    <3>2. UNION {ToSet(ss[i]) : i \in D} = UNION {EdgesOf(t, Subtree(ch, c(i))) \cup {e(i)} : i \in D}
      <4> HIDE DEF ss, e, c
      <4> QED BY <2>8
    <3> DEFINE F(i) == EdgesOf(t, Subtree(ch, c(i)))
    <3>3. ASSUME NEW g PROVE g \in EdgesOf(t, Subtree(ch, x))
                               <=> (\E i \in D : g = e(i)) \/ (\E i \in D : g \in F(i))
      <4>1. g \in EdgesOf(t, Subtree(ch, x))
              <=> \E y \in Subtree(ch, x) : \E j \in DOMAIN ch[y] : g = EntryEdge(ch, y, j)
        BY InEdgesOf
      <4>2. \A i \in D : g \in F(i)
              <=> \E y \in Subtree(ch, c(i)) : \E j \in DOMAIN ch[y] : g = EntryEdge(ch, y, j)
        BY InEdgesOf
      <4> DEFINE T(i) == Subtree(ch, c(i))
                 Out(y) == \E j \in DOMAIN ch[y] : g = EntryEdge(ch, y, j)
      <4>3. Subtree(ch, x) = {x} \cup UNION {T(i) : i \in D}
        BY <3>1
      <4>4. /\ g \in EdgesOf(t, Subtree(ch, x)) <=> \E y \in Subtree(ch, x) : Out(y)
            /\ \A i \in D : g \in F(i) <=> \E y \in T(i) : Out(y)
            /\ Out(x) <=> \E i \in D : g = e(i)
        BY <4>1, <4>2
      <4> HIDE DEF T, Out, F, e, c
      <4>5. (\E y \in Subtree(ch, x) : Out(y)) <=> Out(x) \/ \E i \in D : \E y \in T(i) : Out(y)
        BY <4>3
      <4> QED BY <4>4, <4>5
    <3>4. EdgesOf(t, Subtree(ch, x)) = {e(i) : i \in D} \cup UNION {F(i) : i \in D}
      <4> HIDE DEF F, e
      <4> QED BY <3>3
    <3>5. /\ UNION {ToSet(ss[i]) : i \in D} = UNION {F(i) \cup {e(i)} : i \in D}
          /\ EdgesOf(t, Subtree(ch, x)) = {e(i) : i \in D} \cup UNION {F(i) : i \in D}
      BY <3>2, <3>4
    <3> HIDE DEF F, e, ss
    <3> QED BY <3>5
  <2> HIDE DEF ss, E
  <2> QED BY <2>11, <2>13, <2>14
<1>6. m + 1 \in N
  <2> HIDE DEF N
  <2>1. m + 1 \in Nat
    BY <1>3
  <2> QED BY <1>4, <1>5, <2>1, NatSetInduction
<1>7. \A x \in Node : m < rank[x] + (m + 1)
  BY <1>3
<1> QED BY <1>6, <1>7

(***************************************************************************)
(* What is left                                                            *)
(***************************************************************************)
IsTree(t) == t = [ch |-> t.ch, pa |-> t.pa, num |-> t.num, cnt |-> t.cnt]

\* One call of _del_subtree, on an edge that is there, leaves u.
EdgeGone(t, d, nm, u) ==
  /\ IsTree(u)
  /\ u.ch = DelNode(t, d, nm).ch /\ u.pa = DelNode(t, d, nm).pa
  /\ u.ch = [t.ch EXCEPT ![d] = Without(@, nm)]
  /\ u.cnt = t.cnt - 1
  /\ t.num \in [Node -> Nat] => u.num \in [Node -> Nat]

LEMMA DelEdgeIs ==
  ASSUME NEW t, NEW d, NEW nm, NEW n
  PROVE  EdgeGone(t, d, nm, DelEdge(t, Edge(d, nm, n)))
<1> DEFINE e == Edge(d, nm, n)
           u == DelEdge(t, e)
           x == LinkTarget(t.ch, e.node)
           num == IF x \in Node /\ t.num[x] > 0 THEN [t.num EXCEPT ![x] = @ - 1] ELSE t.num
           v == DelNode(t, d, nm)
<1>1. e.dir = d /\ e.name = nm
  BY DEF Edge
<1>2. v = [ch |-> v.ch, pa |-> v.pa, num |-> t.num, cnt |-> t.cnt]
  BY DEF DelNode
<1>3. u = [ch |-> v.ch, pa |-> v.pa, num |-> num, cnt |-> t.cnt - 1]
  <2>1. u = [DelNode(t, e.dir, e.name) EXCEPT !.num = num, !.cnt = v.cnt - 1]
    <3>1. DelNode(t, e.dir, e.name) = v
      BY <1>1
    <3> HIDE DEF v, e
    <3> QED BY <3>1 DEF DelEdge
  <2>2. DelNode(t, e.dir, e.name) = v /\ v.cnt = t.cnt
    BY <1>1, <1>2
  <2> HIDE DEF u, v, num, e
  <2> QED BY <1>2, <2>1, <2>2
<1>4. t.num \in [Node -> Nat] => num \in [Node -> Nat]
  OBVIOUS
<1>5. v.ch = [t.ch EXCEPT ![d] = Without(@, nm)]
  BY DEF DelNode
<1> HIDE DEF v, num, u
<1>6. /\ IsTree(u) /\ u.ch = v.ch /\ u.pa = v.pa /\ u.cnt = t.cnt - 1
      /\ t.num \in [Node -> Nat] => u.num \in [Node -> Nat]
  BY <1>3, <1>4 DEF IsTree
<1> QED BY <1>5, <1>6 DEF EdgeGone, u, v, e

\* No count of symlinks gets below zero, whatever is deleted.
LEMMA NumTyped ==
  ASSUME NEW t, t.num \in [Node -> Nat], NEW order \in Seq(EdgesOf(t, Node)), Dicts(t.ch)
  PROVE  Stepwise(t, order).num \in [Node -> Nat]
<1>1. PICK f : DeletesEach(f, t, order) /\ Stepwise(t, order) = f[Len(order)]
  BY StepwisePasses
<1> DEFINE N == {k \in Nat : k <= Len(order) => f[k].num \in [Node -> Nat]}
<1>2. Len(order) \in Nat /\ \A k \in 1..Len(order) : order[k] \in EdgesOf(t, Node)
  OBVIOUS
<1>3. 0 \in N
  BY <1>1 DEF DeletesEach
<1>4. ASSUME NEW k \in Nat, k \in N PROVE k + 1 \in N
  <2> SUFFICES ASSUME k + 1 <= Len(order) PROVE f[k + 1].num \in [Node -> Nat]
    OBVIOUS
  <2>1. k \in 0..(Len(order) - 1) /\ k + 1 \in 1..Len(order) /\ f[k].num \in [Node -> Nat]
    BY <1>2, <1>4
  <2>2. f[k + 1] = DelEdge(f[k], order[k + 1])
    BY <1>1, <2>1 DEF DeletesEach
  <2>3. PICK d \in Node, n \in Node, nm \in Name : order[k + 1] = Edge(d, nm, n)
    BY <1>2, <2>1, EdgesAre DEF EdgeSet
  <2>4. EdgeGone(f[k], d, nm, DelEdge(f[k], Edge(d, nm, n)))
    BY DelEdgeIs
  <2> QED BY <2>1, <2>2, <2>3, <2>4 DEF EdgeGone
<1>5. Len(order) \in N
  <2> HIDE DEF N
  <2> QED BY <1>2, <1>3, <1>4, NatSetInduction
<1> QED BY <1>1, <1>2, <1>5

\* The tree f after k edges of order are gone from t
DeletedTo(f, t, order, k) ==
  /\ IsTree(f) /\ Linked(f.ch, f.pa)
  /\ f.cnt = t.cnt - k
  /\ \A d, n \in Node, nm \in Name :
       Has(f.ch, d, nm, n) <=> Has(t.ch, d, nm, n) /\ \A i \in 1..k : order[i] # Edge(d, nm, n)
  /\ \A d \in Node : (\A i \in 1..k : order[i].dir # d) => f.ch[d] = t.ch[d]

LEMMA DeletesInOrder ==
  ASSUME NEW t, IsTree(t), Linked(t.ch, t.pa), t.cnt \in Int,
         NEW order \in Seq(EdgesOf(t, Node)), Distinct(order),
         NEW f, DeletesEach(f, t, order)
  PROVE  \A k \in 0..Len(order) : DeletedTo(f[k], t, order, k)
<1> DEFINE N == {k \in Nat : k <= Len(order) => DeletedTo(f[k], t, order, k)}
<1>1. /\ Len(order) \in Nat /\ DOMAIN order = 1..Len(order)
      /\ \A k \in 1..Len(order) : order[k] \in EdgesOf(t, Node)
      /\ Dicts(t.ch)
  BY LinkedDicts
<1>2. 0 \in N
  <2>1. f[0] = t /\ t.cnt - 0 = t.cnt /\ 1..0 = {}
    BY DEF DeletesEach
  <2> QED BY <2>1 DEF DeletedTo
<1>3. ASSUME NEW k \in Nat, k \in N PROVE k + 1 \in N
  <2> SUFFICES ASSUME k + 1 <= Len(order) PROVE DeletedTo(f[k + 1], t, order, k + 1)
    OBVIOUS
  <2>1. /\ k \in 0..(Len(order) - 1) /\ k + 1 \in 1..Len(order) /\ DeletedTo(f[k], t, order, k)
        /\ 1..(k + 1) = (1..k) \cup {k + 1} /\ 1..k \subseteq 1..Len(order) /\ k + 1 \notin 1..k
    BY <1>1, <1>3
  <2> DEFINE g == f[k]
             u == f[k + 1]
  <2>2. PICK d \in Node, n \in Node, nm \in Name : order[k + 1] = Edge(d, nm, n)
    BY <1>1, <2>1, EdgesAre DEF EdgeSet
  <2>3. u = DelEdge(g, Edge(d, nm, n))
    BY <2>1, <2>2 DEF DeletesEach
  <2>4. /\ IsTree(g) /\ Linked(g.ch, g.pa) /\ g.cnt = t.cnt - k
        /\ \A x, y \in Node, z \in Name :
             Has(g.ch, x, z, y) <=> Has(t.ch, x, z, y) /\ \A i \in 1..k : order[i] # Edge(x, z, y)
        /\ \A x \in Node : (\A i \in 1..k : order[i].dir # x) => g.ch[x] = t.ch[x]
    BY <2>1 DEF DeletedTo
  <2>5. \A i \in 1..k : order[i] # Edge(d, nm, n)
    BY <1>1, <2>1, <2>2 DEF Distinct
  <2>6. Has(t.ch, d, nm, n)
    BY <1>1, <2>1, <2>2, EdgesAre DEF EdgeSet
  <2>7. Has(g.ch, d, nm, n)
    BY <2>4, <2>5, <2>6
  <2>8. /\ IsTree(u) /\ u.ch = DelNode(g, d, nm).ch /\ u.pa = DelNode(g, d, nm).pa
        /\ u.ch = [g.ch EXCEPT ![d] = Without(@, nm)] /\ u.cnt = g.cnt - 1
    <3>1. EdgeGone(g, d, nm, DelEdge(g, Edge(d, nm, n)))
      BY DelEdgeIs
    <3> QED BY <2>3, <3>1 DEF EdgeGone
  <2> HIDE DEF g, u
  <2>9. Dicts(g.ch) /\ g.ch \in [Node -> Seq(Entry)]
    BY <2>4, LinkedDicts DEF Linked
  <2>10. nm \in Names(g.ch[d])
    BY <2>7, <2>9, ChildHas
  <2>11. Linked(u.ch, u.pa)
    <3>1. Linked(DelNode(g, d, nm).ch, DelNode(g, d, nm).pa)
      BY <2>4, <2>10, DelNodeLinked
    <3> QED BY <2>8, <3>1
  <2>12. ASSUME NEW x \in Node, NEW y \in Node, NEW z \in Name
         PROVE  Has(u.ch, x, z, y) <=> Has(g.ch, x, z, y) /\ Edge(d, nm, n) # Edge(x, z, y)
    <3>1. CASE x = d
      <4>1. u.ch[d] = Without(g.ch[d], nm)
        BY <2>8, <2>9
      <4>2. ToSet(Without(g.ch[d], nm)) = {v \in ToSet(g.ch[d]) : v.name # nm}
        BY <2>9, <2>10, WithoutEntry DEF Dicts
      <4>3. [name |-> z, node |-> y].name = z
        OBVIOUS
      <4>4. Has(u.ch, d, z, y) <=> Has(g.ch, d, z, y) /\ z # nm
        BY <4>1, <4>2, <4>3 DEF Has
      <4>5. Has(g.ch, d, nm, y) => y = n
        BY <2>7, <2>9, ChildHas
      <4>6. Edge(d, nm, n) = Edge(d, z, y) <=> nm = z /\ n = y
        BY EdgeFields
      <4> QED BY <2>7, <3>1, <4>4, <4>5, <4>6
    <3>2. CASE x # d
      <4>1. u.ch[x] = g.ch[x]
        BY <2>8, <2>9, <3>2
      <4>2. Edge(d, nm, n) # Edge(x, z, y)
        BY <3>2, EdgeFields
      <4> QED BY <4>1, <4>2 DEF Has
    <3> QED BY <3>1, <3>2
  <2>13. ASSUME NEW x \in Node, \A i \in 1..(k + 1) : order[i].dir # x
         PROVE  u.ch[x] = t.ch[x]
    <3>1. x # d
      <4>1. order[k + 1].dir # x /\ Edge(d, nm, n).dir = d
        BY <2>1, <2>13 DEF Edge
      <4> QED BY <2>2, <4>1
    <3>2. u.ch[x] = g.ch[x]
      BY <2>8, <2>9, <3>1
    <3> QED BY <2>1, <2>4, <2>13, <3>2
  <2>14. \A x, y \in Node, z \in Name :
           Has(u.ch, x, z, y) <=> Has(t.ch, x, z, y) /\ \A i \in 1..(k + 1) : order[i] # Edge(x, z, y)
    BY <2>1, <2>2, <2>4, <2>12
  <2>15. u.cnt = t.cnt - (k + 1)
    <3>1. \A a, b, c \in Int : b = a - k /\ c = b - 1 => c = a - (k + 1)
      OBVIOUS
    <3>2. t.cnt \in Int /\ g.cnt \in Int /\ u.cnt \in Int
      BY <2>4, <2>8
    <3> QED BY <2>4, <2>8, <3>1, <3>2
  <2>16. DeletedTo(u, t, order, k + 1)
    BY <2>8, <2>11, <2>13, <2>14, <2>15 DEF DeletedTo
  <2> QED BY <2>16 DEF u
<1>4. Nat \subseteq N
  <2> HIDE DEF N
  <2> QED BY <1>2, <1>3, NatSetInduction
<1> QED BY <1>1, <1>4

\* What _del_subtree deletes for one edge, in its order: that edge comes last.
Deletions(t, d, nm, n) == Append(Below(t.ch, n), Edge(d, nm, n))

LEMMA DeletionOrder ==
  ASSUME NEW t, NEW ty, NEW H, Forest(t.ch, ty, H),
         NEW d \in Node, NEW nm \in Name, NEW n \in Node, Has(t.ch, d, nm, n)
  PROVE  /\ Deletions(t, d, nm, n) \in Seq(EdgesOf(t, Node))
         /\ Distinct(Deletions(t, d, nm, n))
         /\ ToSet(Deletions(t, d, nm, n)) = EdgesOf(t, Subtree(t.ch, n)) \cup {Edge(d, nm, n)}
         /\ d \notin Subtree(t.ch, n)
<1> DEFINE b == Below(t.ch, n)
           e == Edge(d, nm, n)
           E == EdgesOf(t, Node)
           G == EdgesOf(t, Subtree(t.ch, n))
<1>1. Dicts(t.ch)
  BY DEF Forest
<1>2. PICK m, rank : Ranks(t.ch, rank, m)
  BY DEF Forest
<1>3. d \notin Subtree(t.ch, n)
  <2>1. rank[d] < rank[n] /\ rank[d] \in Nat /\ rank[n] \in Nat
    BY <1>2 DEF Ranks
  <2>2. d \in Subtree(t.ch, n) => rank[n] <= rank[d]
    BY <1>1, <1>2, SubtreeRank
  <2> QED BY <2>1, <2>2
<1>4. b \in Seq(E) /\ ToSet(b) = G /\ Distinct(b)
  BY BelowIs
<1>5. Subtree(t.ch, n) \in SUBSET Node
  BY <1>1, SubtreeClosed
<1>6. e \in E /\ e \notin G
  BY <1>1, <1>3, <1>5, EdgesAre DEF EdgeSet
<1> HIDE DEF b, e, E, G
<1>7. Append(b, e) \in Seq(E) /\ Distinct(Append(b, e)) /\ ToSet(Append(b, e)) = G \cup {e}
  BY <1>4, <1>6, AppendElements
<1> QED BY <1>3, <1>7 DEF Deletions, b, e, E, G

\* The closed form of _del_subtree is what its calls leave, one after the other.
LEMMA StepwiseDeletes ==
  ASSUME NEW t, IsTree(t), Linked(t.ch, t.pa), t.cnt \in Int,
         NEW ty, NEW H, Forest(t.ch, ty, H),
         NEW d \in Node, NEW nm \in Name, NEW n \in Node, Has(t.ch, d, nm, n)
  PROVE  DelSubtree(t, d, nm) = Stepwise(t, Deletions(t, d, nm, n))
<1> DEFINE e == Edge(d, nm, n)
           E == EdgesOf(t, Node)
           S == Subtree(t.ch, n)
           gone == EdgesOf(t, S) \cup {e}
           b == Below(t.ch, n)
           order == Append(b, e)
           k == Len(b)
           u == Stepwise(t, order)
           v == DelSubtree(t, d, nm)
<1>1. Dicts(t.ch) /\ t.ch \in [Node -> Seq(Entry)]
  BY LinkedDicts DEF Linked
<1>2. Child(t.ch, d, nm) = n
  BY <1>1, ChildHas
<1>3. S \in SUBSET Node
  BY <1>1, SubtreeClosed
<1>4. order \in Seq(E) /\ Distinct(order) /\ ToSet(order) = gone /\ d \notin S
  <2>1. Deletions(t, d, nm, n) = order
    BY DEF Deletions
  <2>2. /\ Deletions(t, d, nm, n) \in Seq(E) /\ Distinct(Deletions(t, d, nm, n))
        /\ ToSet(Deletions(t, d, nm, n)) = gone /\ d \notin S
    <3>1. /\ Deletions(t, d, nm, n) \in Seq(EdgesOf(t, Node))
          /\ Distinct(Deletions(t, d, nm, n))
          /\ ToSet(Deletions(t, d, nm, n)) = EdgesOf(t, Subtree(t.ch, n)) \cup {Edge(d, nm, n)}
          /\ d \notin Subtree(t.ch, n)
      <4> HIDE DEF order, gone, E, S, e, b, k, u, v
      <4> QED BY DeletionOrder
    <3> QED BY <3>1
  <2> HIDE DEF order, gone, E, S
  <2> QED BY <2>1, <2>2
<1>5. b \in Seq(E) /\ ToSet(b) = EdgesOf(t, S)
  BY BelowIs
<1>6. PICK f : DeletesEach(f, t, order) /\ u = f[Len(order)]
  BY <1>4, StepwisePasses
<1>7. /\ v = [ch |-> v.ch, pa |-> v.pa, num |-> u.num, cnt |-> t.cnt - Cardinality(gone)]
      /\ v.ch = [x \in Node |-> IF x \in S THEN << >>
                                ELSE IF x = d THEN Without(t.ch[d], nm) ELSE t.ch[x]]
      /\ v.pa = DropParents(t.pa, gone)
  BY <1>2, Zenon DEF DelSubtree, Edge
<1>8. /\ k \in Nat /\ Len(order) = k + 1 /\ order[k + 1] = e /\ k + 1 \in 1..(k + 1)
      /\ \A i \in 1..k : order[i] = b[i]
      /\ DOMAIN order = 1..(k + 1) /\ DOMAIN b = 1..k
  <2> HIDE DEF b, e, E
  <2> QED BY <1>5
<1> HIDE DEF u, v, gone, order, b, E
<1>9. /\ IsTree(u) /\ Linked(u.ch, u.pa) /\ u.cnt = t.cnt - (k + 1)
      /\ \A x, y \in Node, z \in Name :
           Has(u.ch, x, z, y) <=> Has(t.ch, x, z, y) /\ \A i \in 1..(k + 1) : order[i] # Edge(x, z, y)
      /\ \A x \in Node : (\A i \in 1..(k + 1) : order[i].dir # x) => u.ch[x] = t.ch[x]
  <2>1. DeletedTo(f[k + 1], t, order, k + 1)
    <3>1. \A j \in 0..Len(order) : DeletedTo(f[j], t, order, j)
      BY <1>4, <1>6, DeletesInOrder DEF E
    <3> QED BY <1>8, <3>1
  <2> QED BY <1>6, <1>8, <2>1 DEF DeletedTo
<1>10. \A x, y \in Node, z \in Name :
         Has(u.ch, x, z, y) <=> Has(t.ch, x, z, y) /\ Edge(x, z, y) \notin gone
  <2>1. \A g : g \in gone <=> \E i \in 1..(k + 1) : order[i] = g
    BY <1>4, <1>8 DEF ToSet
  <2> QED BY <1>9, <2>1
<1>11. ASSUME NEW g \in gone
       PROVE  \E x, y \in Node, z \in Name : g = Edge(x, z, y) /\ Has(t.ch, x, z, y) /\ (x \in S \/ x = d)
  <2>1. CASE g = e
    BY <2>1
  <2>2. CASE g # e
    <3>1. g \in EdgesOf(t, S)
      BY <2>2 DEF gone
    <3> QED BY <1>1, <1>3, <3>1, EdgesAre
  <2> QED BY <2>1, <2>2
<1>12. u.ch \in [Node -> Seq(Entry)] /\ Dicts(u.ch)
  BY <1>9, LinkedDicts DEF Linked
<1>13. ASSUME NEW x \in S PROVE u.ch[x] = << >>
  <2>1. \A y \in Node, z \in Name : ~Has(u.ch, x, z, y)
    <3> SUFFICES ASSUME NEW y \in Node, NEW z \in Name, Has(t.ch, x, z, y)
                 PROVE  Edge(x, z, y) \in gone
      BY <1>3, <1>10
    <3> QED BY <1>1, <1>3, EdgesAre DEF gone
  <2>2. u.ch[x] \in Seq(Entry)
    BY <1>3, <1>12
  <2>3. \A i \in DOMAIN u.ch[x] : FALSE
    BY <1>3, <1>12, <2>1, EntryHas
  <2>4. Len(u.ch[x]) = 0
    <3>1. Len(u.ch[x]) \in Nat /\ DOMAIN u.ch[x] = 1..Len(u.ch[x])
      BY <2>2
    <3>2. Len(u.ch[x]) # 0 => 1 \in 1..Len(u.ch[x])
      BY <3>1
    <3> QED BY <2>3, <3>1, <3>2
  <2> QED BY <2>2, <2>4, EmptySeq
<1>14. u.ch[d] = Without(t.ch[d], nm)
  <2> DEFINE g == f[k]
  <2>1. DeletedTo(g, t, order, k)
    <3>1. \A j \in 0..Len(order) : DeletedTo(f[j], t, order, j)
      BY <1>4, <1>6, DeletesInOrder DEF E
    <3>2. k \in 0..Len(order)
      BY <1>8
    <3> QED BY <3>1, <3>2
  <2>2. u = DelEdge(g, e)
    <3>1. k \in 0..(Len(order) - 1)
      BY <1>8
    <3> QED BY <1>6, <1>8, <3>1 DEF DeletesEach
  <2>3. u.ch = [g.ch EXCEPT ![d] = Without(@, nm)]
    <3>1. EdgeGone(g, d, nm, DelEdge(g, Edge(d, nm, n)))
      BY DelEdgeIs
    <3>2. EdgeGone(g, d, nm, u)
      BY <2>2, <3>1 DEF e
    <3> QED BY <3>2 DEF EdgeGone
  <2>4. \A i \in 1..k : order[i].dir # d
    <3> SUFFICES ASSUME NEW i \in 1..k PROVE order[i].dir # d
      OBVIOUS
    <3>1. order[i] \in EdgesOf(t, S)
      BY <1>5, <1>8 DEF ToSet
    <3>2. PICK x \in Node, y \in Node, z \in Name : order[i] = Edge(x, z, y)
      BY <1>1, <1>3, <3>1, EdgesAre
    <3>3. x \in S
      BY <1>1, <1>3, <3>1, <3>2, EdgesAre
    <3>4. Edge(x, z, y).dir = x
      BY DEF Edge
    <3> QED BY <1>4, <3>2, <3>3, <3>4
  <2>5. g.ch[d] = t.ch[d] /\ g.ch \in [Node -> Seq(Entry)]
    BY <2>1, <2>4 DEF DeletedTo, Linked
  <2> HIDE DEF g
  <2> QED BY <2>3, <2>5
<1>15. ASSUME NEW x \in Node, x \notin S, x # d PROVE u.ch[x] = t.ch[x]
  <2>1. \A i \in 1..(k + 1) : order[i].dir # x
    <3> SUFFICES ASSUME NEW i \in 1..(k + 1) PROVE order[i].dir # x
      OBVIOUS
    <3>1. order[i] \in gone
      BY <1>4, <1>8 DEF ToSet
    <3>2. PICK w \in Node, y \in Node, z \in Name : order[i] = Edge(w, z, y) /\ (w \in S \/ w = d)
      BY <1>11, <3>1
    <3>3. Edge(w, z, y).dir = w
      BY DEF Edge
    <3> QED BY <1>15, <3>2, <3>3
  <2> QED BY <1>9, <2>1
<1>16. u.ch = v.ch
  <2>1. \A x \in Node : u.ch[x] = v.ch[x]
    BY <1>4, <1>7, <1>13, <1>14, <1>15
  <2> QED BY <1>7, <1>12, <2>1
<1>17. u.pa = v.pa
  <2>1. u.pa \in [Node -> SUBSET Link] /\ t.pa \in [Node -> SUBSET Link]
    BY <1>9 DEF Linked
  <2>2. ASSUME NEW y \in Node, NEW l \in Link
        PROVE  l \in u.pa[y] <=> l \in t.pa[y] /\ \A g \in gone : ~(g.node = y /\ g.name = l.name)
    <3> DEFINE p == l.parent
               z == l.name
    <3>1. p \in Node /\ z \in Name /\ l = [name |-> z, parent |-> p]
      BY DEF Link
    <3> HIDE DEF p, z
    <3>2. /\ l \in u.pa[y] <=> Has(u.ch, p, z, y)
          /\ l \in t.pa[y] <=> Has(t.ch, p, z, y)
      BY <1>9, <3>1, LinkedDicts
    <3>3. ASSUME l \in u.pa[y], NEW g \in gone, g.node = y, g.name = z PROVE FALSE
      <4>1. PICK x \in Node, w \in Node, h \in Name : g = Edge(x, h, w) /\ Has(t.ch, x, h, w)
        BY <1>11
      <4>2. w = y /\ h = z
        BY <3>3, <4>1 DEF Edge
      <4>3. [name |-> z, parent |-> x] \in t.pa[y] /\ [name |-> z, parent |-> p] \in t.pa[y]
        BY <1>10, <3>1, <3>2, <3>3, <4>1, <4>2, LinkedDicts
      <4>4. [name |-> z, parent |-> x].name = [name |-> z, parent |-> p].name
        OBVIOUS
      <4>5. [name |-> z, parent |-> x] = [name |-> z, parent |-> p]
        BY <4>3, <4>4 DEF Linked
      <4>6. x = p
        <5>1. [name |-> z, parent |-> x].parent = x /\ [name |-> z, parent |-> p].parent = p
          OBVIOUS
        <5> QED BY <4>5, <5>1
      <4> QED BY <1>10, <3>1, <3>2, <3>3, <4>1, <4>2, <4>6
    <3>4. ASSUME l \in t.pa[y], \A g \in gone : ~(g.node = y /\ g.name = z)
          PROVE  l \in u.pa[y]
      <4>1. Edge(p, z, y).node = y /\ Edge(p, z, y).name = z
        BY DEF Edge
      <4>2. Edge(p, z, y) \notin gone
        BY <3>4, <4>1
      <4> QED BY <1>10, <3>1, <3>2, <3>4, <4>2
    <3>5. l \in u.pa[y] => l \in t.pa[y]
      BY <1>10, <3>1, <3>2
    <3> QED BY <3>3, <3>4, <3>5 DEF z
  <2>3. v.pa = [y \in Node |-> {l \in t.pa[y] : \A g \in gone : ~(g.node = y /\ g.name = l.name)}]
    BY <1>7 DEF DropParents
  <2>4. ASSUME NEW y \in Node PROVE u.pa[y] = v.pa[y]
    <3>1. u.pa[y] \subseteq Link /\ t.pa[y] \subseteq Link
      BY <2>1
    <3>2. v.pa[y] = {l \in t.pa[y] : \A g \in gone : ~(g.node = y /\ g.name = l.name)}
      BY <2>3
    <3> QED BY <2>2, <3>1, <3>2
  <2>5. u.pa = [y \in Node |-> u.pa[y]]
    BY <2>1
  <2>6. v.pa = [y \in Node |-> v.pa[y]]
    BY <2>3
  <2> QED BY <2>4, <2>5, <2>6
<1>18. u.cnt = v.cnt
  <2>1. Cardinality(gone) = k + 1
    BY <1>4, <1>8, DistinctCount
  <2> QED BY <1>7, <1>9, <2>1
<1>19. u = v
  <2>1. u = [ch |-> u.ch, pa |-> u.pa, num |-> u.num, cnt |-> u.cnt]
    BY <1>9 DEF IsTree
  <2>2. v = [ch |-> v.ch, pa |-> v.pa, num |-> u.num, cnt |-> v.cnt]
    BY <1>7
  <2> QED BY <1>16, <1>17, <1>18, <2>1, <2>2
<1> QED BY <1>19 DEF Deletions, u, v, order, b

\* Every deletion of an edge that the tree has goes as the calls go.
THEOREM DeletionsGoStepwise == Spec => []DeletionIsStepwise
<1>1. TakeInv => DeletionIsStepwise
  <2> SUFFICES ASSUME TakeInv, NEW e \in Edges
               PROVE  DelSubtree(Tree, e.dir, e.name)
                        = Stepwise(Tree, Append(Below(children_, e.node), e))
    BY DEF DeletionIsStepwise
  <2>1. Dicts(Tree.ch) /\ Linked(Tree.ch, Tree.pa) /\ Forest(Tree.ch, type_, {})
    BY PathInvTree, TreeFields DEF TakeInv, TreeOK
  <2>2. Tree.cnt \in Int
    BY DEF TakeInv, Counted
  <2>3. IsTree(Tree)
    BY DEF IsTree, Tree
  <2>4. PICK d \in Node, n \in Node, nm \in Name : e = Edge(d, nm, n) /\ Has(Tree.ch, d, nm, n)
    BY <2>1, EdgesAre DEF EdgeSet, Edges
  <2>5. e.dir = d /\ e.name = nm /\ e.node = n
    BY <2>4 DEF Edge
  <2>6. DelSubtree(Tree, d, nm) = Stepwise(Tree, Deletions(Tree, d, nm, n))
    BY <2>1, <2>2, <2>3, <2>4, StepwiseDeletes
  <2>7. Tree.ch = children_
    BY TreeFields
  <2> QED BY <2>4, <2>5, <2>6, <2>7 DEF Deletions
<1> QED BY <1>1, TakeInvAlways, PTL

(***************************************************************************)
(* The type invariant: what is left of it is num_symlinked_                *)
(***************************************************************************)
Counts == [Node -> Nat]

LEMMA DelSubtreeNum ==
  ASSUME NEW t, t.num \in Counts, NEW ty, NEW H, Forest(t.ch, ty, H),
         NEW d \in Node, NEW nm \in Names(t.ch[d])
  PROVE  DelSubtree(t, d, nm).num \in Counts
<1> DEFINE n == Child(t.ch, d, nm)
           order == Deletions(t, d, nm, n)
<1>1. Dicts(t.ch)
  BY DEF Forest
<1>2. n \in Node /\ nm \in Name /\ Has(t.ch, d, nm, n)
  BY <1>1, ChildIsEntry DEF Has, Dicts
<1>3. DelSubtree(t, d, nm).num = Stepwise(t, order).num
  BY DEF DelSubtree, Deletions, Edge
<1> HIDE DEF n
<1>4. order \in Seq(EdgesOf(t, Node))
  BY <1>2, DeletionOrder
<1> HIDE DEF order
<1> QED BY <1>1, <1>3, <1>4, NumTyped DEF Counts

LEMMA DelBelowNum ==
  ASSUME NEW t, t.num \in Counts, NEW ty, NEW H, Forest(t.ch, ty, H), NEW n \in Node
  PROVE  DelBelow(t, n).num \in Counts
<1>1. Dicts(t.ch)
  BY DEF Forest
<1>2. DelBelow(t, n).num = Stepwise(t, Below(t.ch, n)).num
  BY DEF DelBelow
<1>3. Below(t.ch, n) \in Seq(EdgesOf(t, Node))
  BY BelowIs
<1> QED BY <1>1, <1>2, <1>3, NumTyped DEF Counts

\* A command that raises leaves the counts alone; the others set them.
LEMMA NewNodeNum ==
  ASSUME num_symlinked_ \in Counts, NEW t, t.num \in Counts, NEW kind, NEW dir, NEW nm, NEW target,
         AddNewNode(t, kind, dir, nm, target)
  PROVE  num_symlinked_' \in Counts
BY DEF AddNewNode, AddNode, Become, Raise, treeVars

LEMMA SymlinkNum ==
  ASSUME num_symlinked_ \in Counts, NEW dir, NEW nm, NEW old, TakeSymlink(dir, nm, old)
  PROVE  num_symlinked_' \in Counts
<1> DEFINE n == Walk(children_, old)
           t == [Tree EXCEPT !.num[n] = @ + 1]
<1>1. t.num = [num_symlinked_ EXCEPT ![n] = @ + 1]
  BY DEF Tree
<1> HIDE DEF n, t
<1>2. t.num \in Counts
  <2>1. num_symlinked_ \in [Node -> Nat]
    BY DEF Counts
  <2>2. \A y \in Node : t.num[y] = IF y = n THEN num_symlinked_[y] + 1 ELSE num_symlinked_[y]
    BY <1>1, <2>1
  <2>3. t.num = [y \in Node |-> t.num[y]]
    BY <1>1, <2>1
  <2>4. \A y \in Node : t.num[y] \in Nat
    BY <2>1, <2>2
  <2> QED BY <2>3, <2>4 DEF Counts
<1> QED BY <1>2, NewNodeNum DEF TakeSymlink, Raise, treeVars, t, n

LEMMA RemoveNum ==
  ASSUME PathInv, num_symlinked_ \in Counts, NEW path \in Seq(Name), TakeRemove(path)
  PROVE  num_symlinked_' \in Counts
<1>1. CASE ~CanDel(Tree, path)
  BY <1>1 DEF TakeRemove, Raise, treeVars
<1>2. CASE CanDel(Tree, path)
  <2> DEFINE d == Walk(children_, Front(path))
             nm == Last(path)
  <2>1. Relink(DelSubtree(Tree, d, nm))
    BY <1>2 DEF TakeRemove
  <2>2. d \in Node /\ nm \in Names(Tree.ch[d])
    BY <1>2, TreeFields DEF CanDel, Found
  <2> HIDE DEF d, nm
  <2>3. DelSubtree(Tree, d, nm).num \in Counts
    BY <2>2, PathInvTree, TreeFields, DelSubtreeNum DEF TreeOK
  <2> QED BY <2>1, <2>3 DEF Relink, Become
<1> QED BY <1>1, <1>2

LEMMA ReduceNum ==
  ASSUME PathInv, num_symlinked_ \in Counts, NEW path, TakeReduce(path)
  PROVE  num_symlinked_' \in Counts
<1> DEFINE n == Walk(children_, path)
<1>1. ASSUME n \in Node PROVE DelBelow(Tree, n).num \in Counts
  <2> HIDE DEF n
  <2> QED BY <1>1, PathInvTree, TreeFields, DelBelowNum DEF TreeOK
<1>2. Found(children_, path) => n \in Node
  BY DEF Found
<1> HIDE DEF n
<1> QED BY <1>1, <1>2, TreeFields DEF TakeReduce, Raise, treeVars, Relink, Become, n

LEMMA RenameNum ==
  ASSUME PathInv, num_symlinked_ \in Counts, NEW dir, NEW nm, NEW old,
         TakeRename(dir, nm, old)
  PROVE  num_symlinked_' \in Counts
<1> DEFINE od  == Walk(children_, Front(old))
           onm == Last(old)
           n   == Child(children_, od, onm)
           new == Append(dir, nm)
           t1  == DelNode(Tree, od, onm)
           e   == Walk(t1.ch, Front(new))
           t2  == IF Walk(t1.ch, new) \in Node THEN DelSubtree(t1, e, Last(new)) ELSE t1
           d   == Walk(t2.ch, dir)
           ok  == /\ old # << >> /\ Found(children_, Front(old))
                  /\ onm \in Names(children_[od])
                  /\ DirsOnTheWay(t1.ch, new)
                  /\ Walk(t1.ch, new) \in Node => CanDel(t1, new)
                  /\ CanAdd(t2, dir, nm, n)
<1>1. CASE ~ok
  BY <1>1 DEF TakeRename, Raise, treeVars
<1>2. CASE ok
  <2>1. Relink(AddNode(t2, d, nm, n))
    BY <1>2 DEF TakeRename
  <2>2. od \in Node /\ onm \in Names(children_[od])
    BY <1>2 DEF Found
  <2>3. /\ Linked(t1.ch, t1.pa) /\ Cuts(children_, t1.ch, {}, {onm})
        /\ t1.num = num_symlinked_
    <3> HIDE DEF od, onm
    <3> QED BY <2>2, PathInvTree, TreeFields, DelNodeLinked, DelNodeCuts DEF DelNode
  <2>4. Walk(t1.ch, new) \in Node => e \in Node /\ Last(new) \in Names(t1.ch[e])
    BY <1>2 DEF CanDel, Found
  <2> HIDE DEF t1, od, onm
  <2>5. Forest(t1.ch, type_, {} \cup Node)
    <3>1. Dicts(t1.ch) /\ Within(t1.ch, children_)
      BY <2>3, LinkedDicts, CutsWithin
    <3> QED BY <3>1, ForestShrinks, PathInvTree DEF TreeOK
  <2>6. t2.num \in Counts
    <3> HIDE DEF e
    <3> QED BY <2>3, <2>4, <2>5, DelSubtreeNum
  <2> HIDE DEF t2
  <2> QED BY <2>1, <2>6 DEF Relink, Become, AddNode
<1> QED BY <1>1, <1>2

\* The other commands on a path
LEMMA LookupNum ==
  ASSUME num_symlinked_ \in Counts, NEW path, NEW dir, NEW nm,
         TakeHardlink(dir, nm, path) \/ TakeChroot(path) \/ TakeTouch(path)
  PROVE  num_symlinked_' \in Counts
BY TreeFields DEF TakeHardlink, TakeChroot, TakeTouch, Relink, Become, AddNode, Raise, treeVars

LEMMA NextNum ==
  ASSUME PathInv, num_symlinked_ \in Counts, [Next]_vars
  PROVE  num_symlinked_' \in Counts
<1>1. CASE GenNames
  <2>1. PICK nm \in Numbers, dir \in Dirs :
          \/ GenMkdir(dir, nm) \/ GenCreate(dir, nm) \/ GenMknod(dir, nm)
          \/ \E old \in PathsOf(PickAny) : GenSymlink(dir, nm, old)
          \/ \E old \in PathsOf(PickFile) : GenHardlink(dir, nm, old)
          \/ \E old \in PathsOf(PickAny \ {Root}) : GenRenameToFresh(dir, nm, old)
    BY <1>1 DEF GenNames
  <2>2. CASE GenMkdir(dir, nm) \/ GenCreate(dir, nm) \/ GenMknod(dir, nm)
    BY <2>2, NewNodeNum, TreeFields
       DEF GenMkdir, GenCreate, GenMknod, TakeMkdir, TakeCreate, TakeMknod
  <2>3. ASSUME NEW old, GenSymlink(dir, nm, old) PROVE num_symlinked_' \in Counts
    BY <2>3, SymlinkNum DEF GenSymlink
  <2>4. ASSUME NEW old, GenHardlink(dir, nm, old) PROVE num_symlinked_' \in Counts
    BY <2>4, LookupNum DEF GenHardlink
  <2>5. ASSUME NEW old, GenRenameToFresh(dir, nm, old) PROVE num_symlinked_' \in Counts
    BY <2>5, RenameNum DEF GenRenameToFresh
  <2> QED BY <2>1, <2>2, <2>3, <2>4, <2>5
<1>2. CASE GenOnPath
  <2>1. ASSUME NEW path \in PathsOf(PickAny), GenRemove(path) PROVE num_symlinked_' \in Counts
    <3>1. path \in Seq(Name)
      BY PickedPaths DEF PickAny
    <3> QED BY <2>1, <3>1, RemoveNum DEF GenRemove
  <2>2. ASSUME NEW old, NEW new, GenRenameOntoEmptyDir(old, new) PROVE num_symlinked_' \in Counts
    BY <2>2, RenameNum DEF GenRenameOntoEmptyDir
  <2>3. ASSUME NEW path, GenReduce(path) PROVE num_symlinked_' \in Counts
    BY <2>3, ReduceNum DEF GenReduce
  <2>4. ASSUME NEW path, GenChroot(path) \/ \E ty : GenTouch(ty, path)
        PROVE  num_symlinked_' \in Counts
    BY <2>4, LookupNum DEF GenChroot, GenTouch
  <2> QED BY <1>2, <2>1, <2>2, <2>3, <2>4 DEF GenOnPath
<1>3. CASE GenOnFd
  BY <1>3, TreeFields DEF GenOnFd, GenOpen, TakeOpen, GenClose, TakeClose, Become, Raise, treeVars
<1>4. CASE NoCommand \/ UNCHANGED vars
  BY <1>4 DEF NoCommand, vars, Raise, treeVars
<1> QED BY <1>1, <1>2, <1>3, <1>4 DEF Next

\* Every variable keeps its type, the counts of symlinks too, although _del_subtree takes
\* one from whatever a dying symlink's path leads to by then.
THEOREM TreeIsTyped == Spec => []TypeOK
<1> DEFINE J == TakeInv /\ num_symlinked_ \in Counts
<1>1. Init => J
  <2>1. Init => num_symlinked_ \in Counts
    BY DEF Init, TreeInit, Counts
  <2> QED BY <2>1, InitTakeInv
<1>2. J /\ [Next]_vars => J'
  BY NextTakeInv, NextNum DEF TakeInv, Counts, Node
<1>3. J => TypeOK
  <2> SUFFICES ASSUME J PROVE TypeOK
    OBVIOUS
  <2>1. /\ LinksTypeOK /\ \A n \in Node : type_[n] = "UNUSED" <=> n >= id_count_
        /\ foo_id_ \in 0..MaxName
    BY DEF TakeInv, PathInv, IInv
  <2>2. node_count_ \in Nat
    <3>1. /\ Cardinality(EdgesOf(Tree, Node)) \in Nat /\ node_count_ \in Int
          /\ Cardinality(EdgesOf(Tree, Node)) + 1 <= node_count_
      BY FS_CardinalityType, TreeFields DEF TakeInv, Counted
    <3> QED BY <3>1
  <2> QED BY <2>1, <2>2 DEF TypeOK, TakeInv, HeldInv, Counts
<1> QED BY <1>1, <1>2, <1>3, PTL DEF Spec
===============================================================================
