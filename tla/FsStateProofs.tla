---------------------------- MODULE FsStateProofs -----------------------------
(***************************************************************************)
(* Proofs about the generator's tree, for every bound and every choice of  *)
(* commands: the links of parents and children, what node_count_ says of   *)
(* the size, that the directories are a tree, that names are uids, and     *)
(* that the paths of get_path lead where they should.                      *)
(***************************************************************************)
EXTENDS FsStateRefinement, SequenceLemmas

(***************************************************************************)
(* Dicts as sequences                                                      *)
(***************************************************************************)
\* No key is in the dict twice.
Keyed(s) == \A i, j \in DOMAIN s : s[i].name = s[j].name => i = j

LEMMA AppendEntry ==
  ASSUME NEW s \in Seq(Entry), Keyed(s), NEW e \in Entry, e.name \notin Names(s)
  PROVE  /\ Append(s, e) \in Seq(Entry)
         /\ Keyed(Append(s, e))
         /\ ToSet(Append(s, e)) = ToSet(s) \cup {e}
<1> DEFINE a == Append(s, e)
<1>1. /\ a \in Seq(Entry)
      /\ DOMAIN a = 1..(Len(s) + 1)
      /\ DOMAIN s = 1..Len(s)
      /\ \A i \in 1..Len(s) : a[i] = s[i]
      /\ a[Len(s) + 1] = e
      /\ Len(s) \in Nat
  OBVIOUS
<1>2. \A i \in 1..Len(s) : s[i].name # e.name
  BY <1>1 DEF Names
<1>3. Keyed(a)
  <2> SUFFICES ASSUME NEW i \in 1..(Len(s) + 1), NEW j \in 1..(Len(s) + 1),
                      a[i].name = a[j].name
               PROVE  i = j
    BY <1>1 DEF Keyed
  <2>1. CASE i \in 1..Len(s) /\ j \in 1..Len(s)
    BY <2>1, <1>1 DEF Keyed
  <2>2. CASE i = Len(s) + 1 \/ j = Len(s) + 1
    BY <2>2, <1>1, <1>2
  <2> QED BY <2>1, <2>2, <1>1
<1>4. ToSet(a) = ToSet(s) \cup {e}
  <2> HIDE DEF a
  <2>1. 1..(Len(s) + 1) = (1..Len(s)) \cup {Len(s) + 1}
    BY <1>1
  <2>2. ToSet(a) = {a[i] : i \in (1..Len(s)) \cup {Len(s) + 1}}
    BY <1>1, <2>1 DEF ToSet
  <2>3. ToSet(s) = {s[i] : i \in 1..Len(s)}
    BY <1>1 DEF ToSet
  <2> QED BY <2>2, <2>3, <1>1
<1> QED BY <1>1, <1>3, <1>4

\* What is left when position k goes: its successors move up by one.
LEMMA RemoveAtElements ==
  ASSUME NEW S, NEW s \in Seq(S), NEW k \in 1..Len(s)
  PROVE  /\ RemoveAt(s, k) \in Seq(S)
         /\ Len(RemoveAt(s, k)) = Len(s) - 1
         /\ \A i \in 1..(Len(s) - 1) :
              RemoveAt(s, k)[i] = IF i < k THEN s[i] ELSE s[i + 1]
<1> DEFINE u == SubSeq(s, 1, k - 1)
           v == SubSeq(s, k + 1, Len(s))
<1>1. k \in Nat /\ 1 <= k /\ k <= Len(s) /\ Len(s) \in Nat
  OBVIOUS
<1>2. \A i \in 1..Len(s) : s[i] \in S
  OBVIOUS
<1>3. /\ u \in Seq(S)
      /\ Len(u) = k - 1
      /\ \A i \in 1..(k - 1) : u[i] = s[i]
  <2>1. \A i \in 1..(k - 1) : s[i] \in S
    BY <1>1, <1>2
  <2>2. /\ u \in Seq(S)
        /\ Len(u) = IF 1 <= k - 1 THEN (k - 1) - 1 + 1 ELSE 0
        /\ \A i \in 1..((k - 1) - 1 + 1) : u[i] = s[1 + i - 1]
    BY <1>1, <2>1, SubSeqProperties
  <2> HIDE DEF u
  <2> QED BY <1>1, <2>2
<1>4. /\ v \in Seq(S)
      /\ Len(v) = Len(s) - k
      /\ \A i \in 1..(Len(s) - k) : v[i] = s[k + i]
  <2>1. \A i \in (k + 1)..Len(s) : s[i] \in S
    BY <1>1, <1>2
  <2>2. /\ v \in Seq(S)
        /\ Len(v) = IF k + 1 <= Len(s) THEN Len(s) - (k + 1) + 1 ELSE 0
        /\ \A i \in 1..(Len(s) - (k + 1) + 1) : v[i] = s[(k + 1) + i - 1]
    BY <1>1, <2>1, SubSeqProperties
  <2> HIDE DEF v
  <2>3. \A i \in 1..(Len(s) - k) : (k + 1) + i - 1 = k + i
    BY <1>1
  <2> QED BY <1>1, <2>2, <2>3
<1>5. RemoveAt(s, k) = u \o v
  BY DEF RemoveAt
<1> HIDE DEF u, v
<1>6. /\ u \o v \in Seq(S)
      /\ Len(u \o v) = Len(s) - 1
      /\ \A i \in 1..(Len(s) - 1) : (u \o v)[i] = IF i <= k - 1 THEN u[i] ELSE v[i - (k - 1)]
  <2>1. /\ u \o v \in Seq(S)
        /\ Len(u \o v) = Len(u) + Len(v)
        /\ \A i \in 1..(Len(u) + Len(v)) :
             (u \o v)[i] = IF i <= Len(u) THEN u[i] ELSE v[i - Len(u)]
    BY <1>3, <1>4, ConcatProperties
  <2> QED BY <1>1, <1>3, <1>4, <2>1
<1>7. ASSUME NEW i \in 1..(Len(s) - 1)
      PROVE  (u \o v)[i] = IF i < k THEN s[i] ELSE s[i + 1]
  <2>1. CASE i < k
    BY <2>1, <1>1, <1>3, <1>6
  <2>2. CASE i >= k
    <3>1. i - (k - 1) \in 1..(Len(s) - k) /\ k + (i - (k - 1)) = i + 1
      BY <2>2, <1>1
    <3>2. v[i - (k - 1)] = s[i + 1]
      BY <3>1, <1>4
    <3>3. (u \o v)[i] = v[i - (k - 1)]
      BY <2>2, <1>1, <1>6
    <3>4. ~(i < k)
      BY <2>2, <1>1
    <3> QED BY <3>2, <3>3, <3>4, Zenon
  <2>3. i < k \/ i >= k
    BY <1>1
  <2> QED BY <2>1, <2>2, <2>3, Zenon
<1> QED BY <1>5, <1>6, <1>7

LEMMA WithoutEntry ==
  ASSUME NEW s \in Seq(Entry), Keyed(s), NEW nm \in Names(s)
  PROVE  /\ Without(s, nm) \in Seq(Entry)
         /\ Keyed(Without(s, nm))
         /\ ToSet(Without(s, nm)) = {e \in ToSet(s) : e.name # nm}
<1> DEFINE k == CHOOSE i \in DOMAIN s : s[i].name = nm
           w == RemoveAt(s, k)
<1>1. k \in 1..Len(s) /\ s[k].name = nm /\ DOMAIN s = 1..Len(s) /\ Len(s) \in Nat
  BY DEF Names
<1>2. Without(s, nm) = w
  BY DEF Without
<1> HIDE DEF k
<1>3. /\ w \in Seq(Entry)
      /\ Len(w) = Len(s) - 1
      /\ \A i \in 1..(Len(s) - 1) : w[i] = IF i < k THEN s[i] ELSE s[i + 1]
  BY <1>1, RemoveAtElements
<1> HIDE DEF w
<1>4. DOMAIN w = 1..(Len(s) - 1)
  BY <1>3
<1>5. Keyed(w)
  <2> SUFFICES ASSUME NEW i \in 1..(Len(s) - 1), NEW j \in 1..(Len(s) - 1),
                      w[i].name = w[j].name
               PROVE  i = j
    BY <1>4 DEF Keyed
  <2> DEFINE up(x) == IF x < k THEN x ELSE x + 1
  <2>1. /\ up(i) \in 1..Len(s) /\ up(j) \in 1..Len(s)
        /\ w[i] = s[up(i)] /\ w[j] = s[up(j)]
        /\ up(i) = up(j) => i = j
    BY <1>1, <1>3
  <2> HIDE DEF up
  <2> QED BY <2>1, <1>1 DEF Keyed
<1>6. ASSUME NEW i \in 1..(Len(s) - 1)
      PROVE  w[i] \in ToSet(s) /\ w[i].name # nm
  <2> DEFINE u == IF i < k THEN i ELSE i + 1
  <2>1. u \in 1..Len(s) /\ u # k /\ w[i] = s[u]
    BY <1>1, <1>3
  <2> HIDE DEF u
  <2> QED BY <2>1, <1>1 DEF Keyed, ToSet
<1>7. ASSUME NEW j \in 1..Len(s), s[j].name # nm
      PROVE  \E i \in 1..(Len(s) - 1) : w[i] = s[j]
  <2> DEFINE d == IF j < k THEN j ELSE j - 1
  <2>1. d \in 1..(Len(s) - 1) /\ w[d] = s[j]
    <3>1. j # k
      BY <1>1, <1>7
    <3> QED BY <3>1, <1>1, <1>3
  <2> HIDE DEF d
  <2> QED BY <2>1
<1>8. ToSet(w) = {e \in ToSet(s) : e.name # nm}
  <2>1. ToSet(w) = {w[i] : i \in 1..(Len(s) - 1)}
    BY <1>4 DEF ToSet
  <2>2. ToSet(s) = {s[i] : i \in 1..Len(s)}
    BY <1>1 DEF ToSet
  <2>3. \A e \in ToSet(w) : e \in ToSet(s) /\ e.name # nm
    BY <2>1, <1>6
  <2>4. \A e \in ToSet(s) : e.name # nm => e \in ToSet(w)
    BY <2>1, <2>2, <1>7
  <2> QED BY <2>3, <2>4
<1> QED BY <1>2, <1>3, <1>5, <1>8

(***************************************************************************)
(* The links between jnodes                                                *)
(***************************************************************************)
\* children_ and parents_ hold dicts, and each has the links the other has.
Linked(ch, pa) ==
  /\ ch \in [Node -> Seq(Entry)]
  /\ \A d \in Node : Keyed(ch[d])
  /\ pa \in [Node -> SUBSET Link]
  /\ \A n \in Node : \A l, m \in pa[n] : l.name = m.name => l = m
  /\ \A d, n \in Node, nm \in Name :
       [name |-> nm, node |-> n] \in ToSet(ch[d]) <=> [name |-> nm, parent |-> d] \in pa[n]

LEMMA NamesOfEntries ==
  ASSUME NEW s, NEW nm
  PROVE  nm \in Names(s) <=> \E e \in ToSet(s) : e.name = nm
BY DEF Names, ToSet

\* lookup_child finds the entry of that name.
LEMMA ChildIsEntry ==
  ASSUME NEW ch \in [Node -> Seq(Entry)], NEW d \in Node, NEW nm \in Names(ch[d])
  PROVE  /\ nm \in Name
         /\ Child(ch, d, nm) \in Node
         /\ [name |-> nm, node |-> Child(ch, d, nm)] \in ToSet(ch[d])
<1> DEFINE i == CHOOSE j \in DOMAIN ch[d] : ch[d][j].name = nm
<1>1. i \in DOMAIN ch[d] /\ ch[d][i].name = nm
  BY DEF Names
<1>2. Child(ch, d, nm) = ch[d][i].node
  BY DEF Child
<1> HIDE DEF i
<1>3. ch[d][i] \in Entry /\ ch[d][i] \in ToSet(ch[d])
  BY <1>1 DEF ToSet
<1>4. ch[d][i] = [name |-> nm, node |-> ch[d][i].node]
  BY <1>1, <1>3 DEF Entry
<1> QED BY <1>1, <1>2, <1>3, <1>4 DEF Entry

\* add_child under a name that neither dict has keeps the two in step.
LEMMA AddNodeLinked ==
  ASSUME NEW t, Linked(t.ch, t.pa),
         NEW d \in Node, NEW n \in Node, NEW nm \in Name,
         nm \notin Names(t.ch[d]), \A l \in t.pa[n] : l.name # nm
  PROVE  /\ Linked(AddNode(t, d, nm, n).ch, AddNode(t, d, nm, n).pa)
         /\ AddNode(t, d, nm, n).num = t.num
         /\ AddNode(t, d, nm, n).cnt = t.cnt + 1
<1> DEFINE e  == [name |-> nm, node |-> n]
           l  == [name |-> nm, parent |-> d]
           ch == [t.ch EXCEPT ![d] = Append(@, e)]
           pa == [t.pa EXCEPT ![n] = @ \cup {l}]
<1>1. AddNode(t, d, nm, n) = [ch |-> ch, pa |-> pa, num |-> t.num, cnt |-> t.cnt + 1]
  BY DEF AddNode
<1>2. e \in Entry /\ l \in Link /\ e.name = nm /\ l.name = nm
  BY DEF Entry, Link
<1>3. /\ t.ch \in [Node -> Seq(Entry)] /\ t.pa \in [Node -> SUBSET Link]
      /\ \A x \in Node : Keyed(t.ch[x])
      /\ \A x \in Node : \A k, m \in t.pa[x] : k.name = m.name => k = m
      /\ \A x, y \in Node, z \in Name :
           [name |-> z, node |-> y] \in ToSet(t.ch[x]) <=> [name |-> z, parent |-> x] \in t.pa[y]
  BY DEF Linked
<1>4. /\ Append(t.ch[d], e) \in Seq(Entry)
      /\ Keyed(Append(t.ch[d], e))
      /\ ToSet(Append(t.ch[d], e)) = ToSet(t.ch[d]) \cup {e}
  BY <1>2, <1>3, AppendEntry
<1>5. ch \in [Node -> Seq(Entry)] /\ pa \in [Node -> SUBSET Link]
  BY <1>2, <1>3, <1>4
<1>6. \A x \in Node : Keyed(ch[x])
  BY <1>3, <1>4
<1>7. \A x \in Node : \A k, m \in pa[x] : k.name = m.name => k = m
  BY <1>2, <1>3
<1>8. ASSUME NEW x \in Node, NEW y \in Node, NEW z \in Name
      PROVE  [name |-> z, node |-> y] \in ToSet(ch[x]) <=> [name |-> z, parent |-> x] \in pa[y]
  <2>1. ToSet(ch[x]) = IF x = d THEN ToSet(t.ch[d]) \cup {e} ELSE ToSet(t.ch[x])
    BY <1>3, <1>4
  <2>2. pa[y] = IF y = n THEN t.pa[n] \cup {l} ELSE t.pa[y]
    BY <1>3
  <2>3. [name |-> z, node |-> y] = e <=> z = nm /\ y = n
    OBVIOUS
  <2>4. [name |-> z, parent |-> x] = l <=> z = nm /\ x = d
    OBVIOUS
  <2> HIDE DEF e, l, ch, pa
  <2> QED BY <2>1, <2>2, <2>3, <2>4, <1>3
<1> HIDE DEF ch, pa
<1>9. Linked(ch, pa)
  BY <1>5, <1>6, <1>7, <1>8 DEF Linked
<1> QED BY <1>1, <1>9

\* del_child drops the one link that both dicts have under the name.
LEMMA DelNodeLinked ==
  ASSUME NEW t, Linked(t.ch, t.pa),
         NEW d \in Node, NEW nm \in Names(t.ch[d])
  PROVE  /\ Linked(DelNode(t, d, nm).ch, DelNode(t, d, nm).pa)
         /\ DelNode(t, d, nm).num = t.num
         /\ DelNode(t, d, nm).cnt = t.cnt
<1> DEFINE n  == Child(t.ch, d, nm)
           e  == [name |-> nm, node |-> n]
           l  == [name |-> nm, parent |-> d]
           ch == [t.ch EXCEPT ![d] = Without(@, nm)]
           pa == [t.pa EXCEPT ![n] = {m \in @ : m.name # nm}]
<1>1. DelNode(t, d, nm) = [ch |-> ch, pa |-> pa, num |-> t.num, cnt |-> t.cnt]
  BY DEF DelNode
<1>3. /\ t.ch \in [Node -> Seq(Entry)] /\ t.pa \in [Node -> SUBSET Link]
      /\ \A x \in Node : Keyed(t.ch[x])
      /\ \A x \in Node : \A k, m \in t.pa[x] : k.name = m.name => k = m
      /\ \A x, y \in Node, z \in Name :
           [name |-> z, node |-> y] \in ToSet(t.ch[x]) <=> [name |-> z, parent |-> x] \in t.pa[y]
  BY DEF Linked
<1>2. nm \in Name /\ n \in Node /\ e \in ToSet(t.ch[d])
  BY <1>3, ChildIsEntry
<1>4. /\ Without(t.ch[d], nm) \in Seq(Entry)
      /\ Keyed(Without(t.ch[d], nm))
      /\ ToSet(Without(t.ch[d], nm)) = {f \in ToSet(t.ch[d]) : f.name # nm}
  BY <1>3, WithoutEntry
<1> HIDE DEF n
<1>5. ch \in [Node -> Seq(Entry)] /\ pa \in [Node -> SUBSET Link]
  BY <1>2, <1>3, <1>4
<1>6. \A x \in Node : Keyed(ch[x])
  BY <1>3, <1>4
<1>7. \A x \in Node : \A k, m \in pa[x] : k.name = m.name => k = m
  BY <1>2, <1>3
<1>8. ASSUME NEW x \in Node, NEW y \in Node, NEW z \in Name
      PROVE  [name |-> z, node |-> y] \in ToSet(ch[x]) <=> [name |-> z, parent |-> x] \in pa[y]
  <2>1. ToSet(ch[x]) = IF x = d THEN {f \in ToSet(t.ch[d]) : f.name # nm} ELSE ToSet(t.ch[x])
    BY <1>3, <1>4
  <2>2. pa[y] = IF y = n THEN {m \in t.pa[n] : m.name # nm} ELSE t.pa[y]
    BY <1>2, <1>3
  <2>3. [name |-> z, node |-> y].name = z /\ [name |-> z, parent |-> x].name = z
    OBVIOUS
  <2>4. x = d /\ z = nm /\ [name |-> z, node |-> y] \in ToSet(t.ch[x]) => y = n
    <3>1. ASSUME NEW i \in DOMAIN t.ch[d], NEW j \in DOMAIN t.ch[d],
                 t.ch[d][i] = [name |-> nm, node |-> y], t.ch[d][j] = [name |-> nm, node |-> n]
          PROVE  y = n
      BY <3>1, <1>3 DEF Keyed
    <3> QED BY <3>1, <1>2 DEF ToSet
  <2>5. y = n /\ z = nm /\ [name |-> z, parent |-> x] \in t.pa[y] => x = d
    <3>1. l \in t.pa[n]
      BY <1>2, <1>3
    <3>2. [name |-> nm, parent |-> x] \in t.pa[n] => [name |-> nm, parent |-> x] = l
      BY <3>1, <1>2, <1>3
    <3> QED BY <3>2
  <2> HIDE DEF e, l, ch, pa
  <2> QED BY <2>1, <2>2, <2>3, <2>4, <2>5, <1>3
<1> HIDE DEF ch, pa
<1>9. Linked(ch, pa)
  BY <1>5, <1>6, <1>7, <1>8 DEF Linked
<1> QED BY <1>1, <1>9

(***************************************************************************)
(* Deleting a subtree                                                      *)
(***************************************************************************)
LEMMA EdgesOfMember ==
  ASSUME NEW t, t.ch \in [Node -> Seq(Entry)], NEW S \in SUBSET Node
  PROVE  /\ \A x \in Node, y \in Node, z \in Name :
              [dir |-> x, name |-> z, node |-> y] \in EdgesOf(t, S)
                <=> x \in S /\ [name |-> z, node |-> y] \in ToSet(t.ch[x])
         /\ \A g \in EdgesOf(t, S) : \E x \in Node, y \in Node, z \in Name :
              g = [dir |-> x, name |-> z, node |-> y]
<1>1. ASSUME NEW x \in Node, NEW i \in DOMAIN t.ch[x]
      PROVE  /\ t.ch[x][i] \in Entry /\ t.ch[x][i] \in ToSet(t.ch[x])
             /\ t.ch[x][i].name \in Name /\ t.ch[x][i].node \in Node
             /\ t.ch[x][i] = [name |-> t.ch[x][i].name, node |-> t.ch[x][i].node]
  <2>1. t.ch[x][i] \in Entry
    OBVIOUS
  <2> QED BY <2>1 DEF Entry, ToSet
<1>2. ASSUME NEW g \in EdgesOf(t, S)
      PROVE  \E x \in S : \E i \in DOMAIN t.ch[x] :
               g = [dir |-> x, name |-> t.ch[x][i].name, node |-> t.ch[x][i].node]
  BY DEF EdgesOf
<1>3. ASSUME NEW x \in S, NEW i \in DOMAIN t.ch[x]
      PROVE  [dir |-> x, name |-> t.ch[x][i].name, node |-> t.ch[x][i].node] \in EdgesOf(t, S)
  BY DEF EdgesOf
<1>4. ASSUME NEW x \in Node, NEW y \in Node, NEW z \in Name,
             [dir |-> x, name |-> z, node |-> y] \in EdgesOf(t, S)
      PROVE  x \in S /\ [name |-> z, node |-> y] \in ToSet(t.ch[x])
  <2>1. PICK u \in S : \E i \in DOMAIN t.ch[u] :
          [dir |-> x, name |-> z, node |-> y]
            = [dir |-> u, name |-> t.ch[u][i].name, node |-> t.ch[u][i].node]
    BY <1>2, <1>4
  <2>2. PICK i \in DOMAIN t.ch[u] :
          [dir |-> x, name |-> z, node |-> y]
            = [dir |-> u, name |-> t.ch[u][i].name, node |-> t.ch[u][i].node]
    BY <2>1
  <2>3. u = x /\ t.ch[u][i].name = z /\ t.ch[u][i].node = y
    BY <2>2
  <2> QED BY <2>3, <1>1
<1>5. ASSUME NEW x \in S, NEW y \in Node, NEW z \in Name,
             [name |-> z, node |-> y] \in ToSet(t.ch[x])
      PROVE  [dir |-> x, name |-> z, node |-> y] \in EdgesOf(t, S)
  <2>1. PICK i \in DOMAIN t.ch[x] : t.ch[x][i] = [name |-> z, node |-> y]
    BY <1>5 DEF ToSet
  <2>2. t.ch[x][i].name = z /\ t.ch[x][i].node = y
    BY <2>1
  <2> QED BY <2>2, <1>3
<1>6. ASSUME NEW g \in EdgesOf(t, S)
      PROVE  \E x \in Node, y \in Node, z \in Name : g = [dir |-> x, name |-> z, node |-> y]
  <2>1. PICK x \in S : \E i \in DOMAIN t.ch[x] :
          g = [dir |-> x, name |-> t.ch[x][i].name, node |-> t.ch[x][i].node]
    BY <1>2
  <2>2. PICK i \in DOMAIN t.ch[x] :
          g = [dir |-> x, name |-> t.ch[x][i].name, node |-> t.ch[x][i].node]
    BY <2>1
  <2>3. t.ch[x][i].name \in Name /\ t.ch[x][i].node \in Node
    BY <1>1
  <2> QED BY <2>2, <2>3
<1> QED BY <1>4, <1>5, <1>6

\* ch2 is ch without the edges in gone, all of which it has.
Drops(ch, gone, ch2) ==
  /\ ch2 \in [Node -> Seq(Entry)]
  /\ \A x \in Node : Keyed(ch2[x])
  /\ \A g \in gone : \E x \in Node, y \in Node, z \in Name :
       g = [dir |-> x, name |-> z, node |-> y]
  /\ \A x \in Node, y \in Node, z \in Name :
       [dir |-> x, name |-> z, node |-> y] \in gone => [name |-> z, node |-> y] \in ToSet(ch[x])
  /\ \A x \in Node, y \in Node, z \in Name :
       [name |-> z, node |-> y] \in ToSet(ch2[x])
         <=> /\ [name |-> z, node |-> y] \in ToSet(ch[x])
             /\ [dir |-> x, name |-> z, node |-> y] \notin gone

\* Taking a set of edges out of every children_ and, by name alone, out of every
\* parents_ keeps the two in step: no jnode has two parents under one name.
LEMMA DropLinked ==
  ASSUME NEW ch, NEW pa, Linked(ch, pa), NEW gone, NEW ch2, Drops(ch, gone, ch2)
  PROVE  Linked(ch2, DropParents(pa, gone))
<1> USE DEF Drops
<1> DEFINE pa2 == DropParents(pa, gone)
<1>1. /\ ch \in [Node -> Seq(Entry)] /\ pa \in [Node -> SUBSET Link]
      /\ \A x \in Node : \A k, m \in pa[x] : k.name = m.name => k = m
      /\ \A x, y \in Node, z \in Name :
           [name |-> z, node |-> y] \in ToSet(ch[x]) <=> [name |-> z, parent |-> x] \in pa[y]
  BY DEF Linked
<1>2. /\ pa2 \in [Node -> SUBSET Link]
      /\ \A y \in Node : \A l : l \in pa2[y] <=>
           l \in pa[y] /\ \A g \in gone : ~(g.node = y /\ g.name = l.name)
  BY <1>1 DEF DropParents
<1> HIDE DEF pa2
<1>3. \A x \in Node : \A k, m \in pa2[x] : k.name = m.name => k = m
  BY <1>1, <1>2
<1>4. ASSUME NEW x \in Node, NEW y \in Node, NEW z \in Name
      PROVE  [name |-> z, node |-> y] \in ToSet(ch2[x]) <=> [name |-> z, parent |-> x] \in pa2[y]
  <2> DEFINE g0 == [dir |-> x, name |-> z, node |-> y]
             l0 == [name |-> z, parent |-> x]
  <2>1. g0.node = y /\ g0.name = z /\ l0.name = z
    OBVIOUS
  <2>2. ASSUME l0 \in pa[y], NEW g \in gone, g.node = y, g.name = z
        PROVE  g0 \in gone
    <3>1. PICK u \in Node, v \in Node, w \in Name : g = [dir |-> u, name |-> w, node |-> v]
      OBVIOUS
    <3>2. v = y /\ w = z
      BY <3>1, <2>2
    <3>3. [name |-> z, node |-> y] \in ToSet(ch[u])
      BY <3>1, <3>2
    <3>4. [name |-> z, parent |-> u] \in pa[y]
      BY <3>3, <1>1
    <3>5. [name |-> z, parent |-> u] = l0
      BY <3>4, <2>2, <1>1
    <3>6. u = x
      BY <3>5
    <3> QED BY <3>1, <3>2, <3>6
  <2>3. l0 \in pa2[y] <=> l0 \in pa[y] /\ g0 \notin gone
    BY <1>2, <2>1, <2>2
  <2>4. l0 \in pa[y] <=> [name |-> z, node |-> y] \in ToSet(ch[x])
    BY <1>1
  <2> QED BY <2>3, <2>4
<1> QED BY <1>2, <1>3, <1>4 DEF Linked, pa2

LEMMA EmptyDict == << >> \in Seq(Entry) /\ Keyed(<< >>) /\ ToSet(<< >>) = {}
BY DEF Keyed, ToSet

\* The edges that go with the edge nm of d
GoneWith(t, d, nm) ==
  EdgesOf(t, Subtree(t.ch, Child(t.ch, d, nm)))
    \cup {[dir |-> d, name |-> nm, node |-> Child(t.ch, d, nm)]}

LEMMA DelSubtreeDrops ==
  ASSUME NEW t, Linked(t.ch, t.pa), NEW d \in Node, NEW nm \in Names(t.ch[d])
  PROVE  Drops(t.ch, GoneWith(t, d, nm), DelSubtree(t, d, nm).ch)
<1> DEFINE n    == Child(t.ch, d, nm)
           S    == Subtree(t.ch, n)
           top  == [dir |-> d, name |-> nm, node |-> n]
           gone == EdgesOf(t, S) \cup {top}
           ch2  == [x \in Node |-> IF x \in S THEN << >>
                                   ELSE IF x = d THEN Without(t.ch[d], nm) ELSE t.ch[x]]
<1>1. DelSubtree(t, d, nm).ch = ch2 /\ GoneWith(t, d, nm) = gone
  BY DEF DelSubtree, GoneWith
<1>2. t.ch \in [Node -> Seq(Entry)] /\ \A x \in Node : Keyed(t.ch[x])
  BY DEF Linked
<1>3. nm \in Name /\ n \in Node /\ [name |-> nm, node |-> n] \in ToSet(t.ch[d])
  BY <1>2, ChildIsEntry
<1>4. S \in SUBSET Node
  BY DEF Subtree
<1>5. /\ Without(t.ch[d], nm) \in Seq(Entry)
      /\ Keyed(Without(t.ch[d], nm))
      /\ ToSet(Without(t.ch[d], nm)) = {e \in ToSet(t.ch[d]) : e.name # nm}
  BY <1>2, WithoutEntry
<1> HIDE DEF n, S
<1>6. ch2 \in [Node -> Seq(Entry)] /\ \A x \in Node : Keyed(ch2[x])
  BY <1>2, <1>5, EmptyDict
<1>7. \A g \in gone : \E x \in Node, y \in Node, z \in Name :
        g = [dir |-> x, name |-> z, node |-> y]
  <2>1. \A g \in EdgesOf(t, S) : \E x \in Node, y \in Node, z \in Name :
          g = [dir |-> x, name |-> z, node |-> y]
    BY <1>2, <1>4, EdgesOfMember
  <2> QED BY <2>1, <1>3
<1>8. ASSUME NEW x \in Node, NEW y \in Node, NEW z \in Name
      PROVE  [dir |-> x, name |-> z, node |-> y] \in gone <=>
               \/ x \in S /\ [name |-> z, node |-> y] \in ToSet(t.ch[x])
               \/ x = d /\ z = nm /\ y = n
  BY <1>2, <1>3, <1>4, EdgesOfMember
<1>9. ASSUME NEW x \in Node, NEW y \in Node, NEW z \in Name
      PROVE  [name |-> z, node |-> y] \in ToSet(ch2[x])
               <=> /\ [name |-> z, node |-> y] \in ToSet(t.ch[x])
                   /\ [dir |-> x, name |-> z, node |-> y] \notin gone
  <2>1. ToSet(ch2[x]) = IF x \in S THEN {}
                        ELSE IF x = d THEN {e \in ToSet(t.ch[d]) : e.name # nm}
                        ELSE ToSet(t.ch[x])
    BY <1>5, EmptyDict
  <2>2. [name |-> z, node |-> y].name = z
    OBVIOUS
  <2>3. x = d /\ z = nm /\ [name |-> z, node |-> y] \in ToSet(t.ch[x]) => y = n
    <3>1. ASSUME NEW i \in DOMAIN t.ch[d], NEW j \in DOMAIN t.ch[d],
                 t.ch[d][i] = [name |-> nm, node |-> y], t.ch[d][j] = [name |-> nm, node |-> n]
          PROVE  y = n
      BY <3>1, <1>2 DEF Keyed
    <3> QED BY <3>1, <1>3 DEF ToSet
  <2> HIDE DEF gone, ch2
  <2> QED BY <2>1, <2>2, <2>3, <1>8
<1> HIDE DEF gone, ch2
<1>10. \A x \in Node, y \in Node, z \in Name :
         [dir |-> x, name |-> z, node |-> y] \in gone => [name |-> z, node |-> y] \in ToSet(t.ch[x])
  BY <1>3, <1>8
<1>11. Drops(t.ch, gone, ch2)
  BY <1>6, <1>7, <1>9, <1>10 DEF Drops
<1> QED BY <1>1, <1>11

LEMMA DelSubtreeLinked ==
  ASSUME NEW t, Linked(t.ch, t.pa), NEW d \in Node, NEW nm \in Names(t.ch[d])
  PROVE  Linked(DelSubtree(t, d, nm).ch, DelSubtree(t, d, nm).pa)
<1>1. DelSubtree(t, d, nm).pa = DropParents(t.pa, GoneWith(t, d, nm))
  BY DEF DelSubtree, GoneWith
<1> QED BY <1>1, DelSubtreeDrops, DropLinked

LEMMA DelBelowDrops ==
  ASSUME NEW t, Linked(t.ch, t.pa), NEW n \in Node
  PROVE  Drops(t.ch, EdgesOf(t, Subtree(t.ch, n)), DelBelow(t, n).ch)
<1> DEFINE S    == Subtree(t.ch, n)
           gone == EdgesOf(t, S)
           ch2  == [x \in Node |-> IF x \in S THEN << >> ELSE t.ch[x]]
<1>1. DelBelow(t, n).ch = ch2
  BY DEF DelBelow
<1>2. t.ch \in [Node -> Seq(Entry)] /\ \A x \in Node : Keyed(t.ch[x])
  BY DEF Linked
<1>3. S \in SUBSET Node
  BY DEF Subtree
<1> HIDE DEF S
<1>4. ch2 \in [Node -> Seq(Entry)] /\ \A x \in Node : Keyed(ch2[x])
  BY <1>2, EmptyDict
<1>5. /\ \A x \in Node, y \in Node, z \in Name :
           [dir |-> x, name |-> z, node |-> y] \in gone
             <=> x \in S /\ [name |-> z, node |-> y] \in ToSet(t.ch[x])
      /\ \A g \in gone : \E x \in Node, y \in Node, z \in Name :
           g = [dir |-> x, name |-> z, node |-> y]
  BY <1>2, <1>3, EdgesOfMember
<1>6. \A x \in Node : ToSet(ch2[x]) = IF x \in S THEN {} ELSE ToSet(t.ch[x])
  BY EmptyDict
<1> HIDE DEF gone, ch2
<1>7. /\ \A x \in Node, y \in Node, z \in Name :
           [dir |-> x, name |-> z, node |-> y] \in gone => [name |-> z, node |-> y] \in ToSet(t.ch[x])
      /\ \A x \in Node, y \in Node, z \in Name :
           [name |-> z, node |-> y] \in ToSet(ch2[x])
             <=> /\ [name |-> z, node |-> y] \in ToSet(t.ch[x])
                 /\ [dir |-> x, name |-> z, node |-> y] \notin gone
  BY <1>5, <1>6
<1>8. Drops(t.ch, gone, ch2)
  BY <1>4, <1>5, <1>7 DEF Drops
<1> QED BY <1>1, <1>8 DEF gone, S

LEMMA DelBelowLinked ==
  ASSUME NEW t, Linked(t.ch, t.pa), NEW n \in Node
  PROVE  Linked(DelBelow(t, n).ch, DelBelow(t, n).pa)
<1>1. DelBelow(t, n).pa = DropParents(t.pa, EdgesOf(t, Subtree(t.ch, n)))
  BY DEF DelBelow
<1> QED BY <1>1, DelBelowDrops, DropLinked

(***************************************************************************)
(* The generator                                                           *)
(***************************************************************************)
\* Inductive: what add_child and add_parent assert is what keeps both dicts keyed.
IInv == LinksTypeOK /\ Linked(children_, parents_)

LEMMA InitIInv == Init => IInv
<1> SUFFICES ASSUME Init PROVE IInv
  OBVIOUS
<1>1. Root \in Node /\ 1 \in 1..(MaxJnode + 1)
  BY MaxJnodeAssumption DEF Root, Node
<1>2. /\ children_ = [n \in Node |-> << >>] /\ parents_ = [n \in Node |-> {}]
      /\ type_ = [n \in Node |-> IF n = Root THEN "DIR" ELSE "UNUSED"]
      /\ id_count_ = 1 /\ working_root_ = Root
  BY DEF Init, TreeInit
<1>3. children_ \in [Node -> Seq(Entry)] /\ \A d \in Node : Keyed(children_[d])
  BY <1>2, EmptyDict
<1>4. parents_ \in [Node -> SUBSET Link]
  BY <1>2
<1>5. Linked(children_, parents_)
  BY <1>2, <1>3, <1>4, EmptyDict DEF Linked
<1>6. LinksTypeOK
  BY <1>1, <1>2, <1>3, <1>4 DEF LinksTypeOK, Kind, Keyed
<1> QED BY <1>5, <1>6 DEF IInv

\* A step that changes the links to linked ones, or nothing but what hangs on them
LEMMA RelinkStep ==
  ASSUME IInv, NEW t, Linked(t.ch, t.pa), Become(t),
         id_count_' \in 1..(MaxJnode + 1), type_' \in [Node -> Kind \cup {"UNUSED"}],
         working_root_' \in Node
  PROVE  IInv'
<1>1. children_' = t.ch /\ parents_' = t.pa
  BY DEF Become
<1>2. Linked(children_', parents_')
  BY <1>1
<1>3. LinksTypeOK'
  BY <1>2 DEF LinksTypeOK, Linked, Keyed
<1> QED BY <1>2, <1>3 DEF IInv

LEMMA TreeLinked == IInv => Linked(Tree.ch, Tree.pa)
BY DEF IInv, Tree

LEMMA RaiseStep == ASSUME IInv, Raise PROVE IInv'
BY DEF IInv, LinksTypeOK, Raise, treeVars

LEMMA Relinked ==
  ASSUME IInv, NEW t, Linked(t.ch, t.pa), Relink(t)
  PROVE  IInv'
<1>1. Become(t) /\ UNCHANGED <<id_count_, type_, working_root_>>
  BY DEF Relink
<1>2. /\ id_count_' \in 1..(MaxJnode + 1) /\ type_' \in [Node -> Kind \cup {"UNUSED"}]
      /\ working_root_' \in Node
  BY <1>1 DEF IInv, LinksTypeOK
<1> QED BY <1>1, <1>2, RelinkStep

LEMMA AddNewNodeStep ==
  ASSUME IInv, NewJnodeFits, NEW t, Linked(t.ch, t.pa), NEW kind \in Kind, NEW dir,
         NEW nm \in Name, NEW target, AddNewNode(t, kind, dir, nm, target)
  PROVE  IInv'
<1>1. CASE ~CanAdd(t, dir, nm, id_count_)
  BY <1>1, RaiseStep DEF AddNewNode
<1>2. CASE CanAdd(t, dir, nm, id_count_)
  <2> DEFINE d == Walk(t.ch, dir)
             u == AddNode(t, d, nm, id_count_)
  <2>1. /\ Become(u) /\ type_' = [type_ EXCEPT ![id_count_] = kind]
        /\ id_count_' = id_count_ + 1 /\ working_root_' = working_root_
    BY <1>2 DEF AddNewNode
  <2>2. /\ id_count_ \in Node /\ id_count_ \in Nat
        /\ type_ \in [Node -> Kind \cup {"UNUSED"}] /\ working_root_ \in Node
        /\ id_count_ + 1 \in 1..(MaxJnode + 1)
    BY MaxJnodeAssumption DEF IInv, LinksTypeOK, NewJnodeFits, Node
  <2>3. d \in Node /\ nm \notin Names(t.ch[d]) /\ \A l \in t.pa[id_count_] : l.name # nm
    BY <1>2 DEF CanAdd, Found
  <2> HIDE DEF d
  <2>4. Linked(u.ch, u.pa)
    BY <2>2, <2>3, AddNodeLinked
  <2> HIDE DEF u
  <2>5. type_' \in [Node -> Kind \cup {"UNUSED"}]
    BY <2>1, <2>2
  <2> QED BY <2>1, <2>2, <2>4, <2>5, RelinkStep
<1> QED BY <1>1, <1>2

LEMMA TreeFields ==
  /\ Tree.ch = children_ /\ Tree.pa = parents_
  /\ Tree.num = num_symlinked_ /\ Tree.cnt = node_count_
BY DEF Tree

LEMMA SymlinkStep ==
  ASSUME IInv, NewJnodeFits, NEW dir, NEW nm \in Name, NEW old, TakeSymlink(dir, nm, old)
  PROVE  IInv'
<1> DEFINE t == [Tree EXCEPT !.num[Walk(children_, old)] = @ + 1]
<1>1. CASE ~Found(children_, old)
  BY <1>1, RaiseStep DEF TakeSymlink
<1>2. CASE Found(children_, old)
  <2>1. AddNewNode(t, "SYMLINK", dir, nm, old)
    BY <1>2 DEF TakeSymlink
  <2>2. t.ch = children_ /\ t.pa = parents_
    BY DEF Tree
  <2>3. Linked(t.ch, t.pa)
    BY <2>2 DEF IInv
  <2>4. "SYMLINK" \in Kind
    BY DEF Kind
  <2> HIDE DEF t
  <2> QED BY <2>1, <2>3, <2>4, AddNewNodeStep
<1> QED BY <1>1, <1>2

LEMMA HardlinkStep ==
  ASSUME IInv, NEW dir, NEW nm \in Name, NEW old, TakeHardlink(dir, nm, old)
  PROVE  IInv'
<1> DEFINE n  == Walk(children_, old)
           d  == Walk(children_, dir)
           ok == Found(children_, old) /\ type_[n] = "FILE" /\ CanAdd(Tree, dir, nm, n)
<1>1. CASE ~ok
  BY <1>1, RaiseStep DEF TakeHardlink
<1>2. CASE ok
  <2>1. Relink(AddNode(Tree, d, nm, n))
    BY <1>2 DEF TakeHardlink
  <2>2. n \in Node /\ d \in Node /\ nm \notin Names(Tree.ch[d]) /\ \A l \in Tree.pa[n] : l.name # nm
    BY <1>2, TreeFields DEF CanAdd, Found
  <2> HIDE DEF n, d
  <2>3. Linked(AddNode(Tree, d, nm, n).ch, AddNode(Tree, d, nm, n).pa)
    BY <2>2, TreeLinked, AddNodeLinked
  <2> QED BY <2>1, <2>3, Relinked
<1> QED BY <1>1, <1>2

LEMMA RemoveStep ==
  ASSUME IInv, NEW path, TakeRemove(path)
  PROVE  IInv'
<1>1. CASE ~CanDel(Tree, path)
  BY <1>1, RaiseStep DEF TakeRemove
<1>2. CASE CanDel(Tree, path)
  <2> DEFINE d == Walk(children_, Front(path))
  <2>1. Relink(DelSubtree(Tree, d, Last(path)))
    BY <1>2 DEF TakeRemove
  <2>2. d \in Node /\ Last(path) \in Names(Tree.ch[d])
    BY <1>2, TreeFields DEF CanDel, Found
  <2> HIDE DEF d
  <2>3. Linked(DelSubtree(Tree, d, Last(path)).ch, DelSubtree(Tree, d, Last(path)).pa)
    BY <2>2, TreeLinked, DelSubtreeLinked
  <2> QED BY <2>1, <2>3, Relinked
<1> QED BY <1>1, <1>2

LEMMA RenameStep ==
  ASSUME IInv, NEW dir, NEW nm \in Name, NEW old, TakeRename(dir, nm, old)
  PROVE  IInv'
<1> DEFINE od  == Walk(children_, Front(old))
           n   == Child(children_, od, Last(old))
           new == Append(dir, nm)
           t1  == DelNode(Tree, od, Last(old))
           e   == Walk(t1.ch, Front(new))
           t2  == IF Walk(t1.ch, new) \in Node THEN DelSubtree(t1, e, Last(new)) ELSE t1
           d   == Walk(t2.ch, dir)
           ok  == /\ old # << >> /\ Found(children_, Front(old))
                  /\ Last(old) \in Names(children_[od])
                  /\ DirsOnTheWay(t1.ch, new)
                  /\ Walk(t1.ch, new) \in Node => CanDel(t1, new)
                  /\ CanAdd(t2, dir, nm, n)
<1>1. CASE ~ok
  BY <1>1, RaiseStep DEF TakeRename
<1>2. CASE ok
  <2>1. Relink(AddNode(t2, d, nm, n))
    BY <1>2 DEF TakeRename
  <2>2. od \in Node /\ Last(old) \in Names(Tree.ch[od])
    BY <1>2, TreeFields DEF Found
  <2>3. n \in Node
    BY <2>2, TreeFields, ChildIsEntry DEF IInv, LinksTypeOK
  <2>4. Linked(t1.ch, t1.pa)
    <3> HIDE DEF od
    <3> QED BY <2>2, TreeLinked, DelNodeLinked
  <2>5. Walk(t1.ch, new) \in Node => e \in Node /\ Last(new) \in Names(t1.ch[e])
    <3> HIDE DEF t1, new
    <3> QED BY <1>2 DEF CanDel, Found
  <2>6. d \in Node /\ nm \notin Names(t2.ch[d]) /\ \A l \in t2.pa[n] : l.name # nm
    <3> HIDE DEF t2
    <3> QED BY <1>2 DEF CanAdd, Found
  <2>7. Linked(t2.ch, t2.pa)
    <3> HIDE DEF t1, e, new
    <3> QED BY <2>4, <2>5, DelSubtreeLinked
  <2> HIDE DEF t2, d, n
  <2>8. Linked(AddNode(t2, d, nm, n).ch, AddNode(t2, d, nm, n).pa)
    BY <2>3, <2>6, <2>7, AddNodeLinked
  <2> QED BY <2>1, <2>8, Relinked
<1> QED BY <1>1, <1>2

LEMMA ReduceStep ==
  ASSUME IInv, NEW path, TakeReduce(path)
  PROVE  IInv'
<1> DEFINE n  == Walk(children_, path)
           ok == Found(children_, path) /\ LinksWalkDirs(Tree, n)
           t  == IF type_[n] = "DIR" THEN DelBelow(Tree, n) ELSE Tree
<1>1. CASE ~ok
  BY <1>1, RaiseStep DEF TakeReduce
<1>2. CASE ok
  <2>1. Relink(t)
    BY <1>2 DEF TakeReduce
  <2>2. n \in Node
    BY <1>2 DEF Found
  <2> HIDE DEF n
  <2>3. Linked(t.ch, t.pa)
    BY <2>2, TreeLinked, DelBelowLinked
  <2> HIDE DEF t
  <2> QED BY <2>1, <2>3, Relinked
<1> QED BY <1>1, <1>2

LEMMA ChrootStep ==
  ASSUME IInv, NEW path, TakeChroot(path)
  PROVE  IInv'
<1>1. CASE ~Found(children_, path)
  BY <1>1, RaiseStep DEF TakeChroot
<1>2. CASE Found(children_, path)
  <2>1. Become(Tree) /\ UNCHANGED <<id_count_, type_>> /\ working_root_' \in Node
    BY <1>2 DEF TakeChroot, Found
  <2>2. id_count_' \in 1..(MaxJnode + 1) /\ type_' \in [Node -> Kind \cup {"UNUSED"}]
    BY <2>1 DEF IInv, LinksTypeOK
  <2> QED BY <2>1, <2>2, TreeLinked, RelinkStep
<1> QED BY <1>1, <1>2

LEMMA PoolStep ==
  ASSUME IInv, NEW path, NEW fd, TakeOpen(path, fd) \/ TakeClose(fd)
  PROVE  IInv'
<1>1. CASE Raise
  BY <1>1, RaiseStep
<1>2. CASE Become(Tree) /\ UNCHANGED <<id_count_, type_, working_root_>>
  <2>1. /\ id_count_' \in 1..(MaxJnode + 1) /\ type_' \in [Node -> Kind \cup {"UNUSED"}]
        /\ working_root_' \in Node
    BY <1>2 DEF IInv, LinksTypeOK
  <2> QED BY <1>2, <2>1, TreeLinked, RelinkStep
<1> QED BY <1>1, <1>2 DEF TakeOpen, TakeClose

LEMMA TouchStep ==
  ASSUME IInv, NEW path, TakeTouch(path)
  PROVE  IInv'
BY TreeLinked, Relinked, RaiseStep DEF TakeTouch

LEMMA NextIInv == IInv /\ [Next]_vars => IInv'
<1> SUFFICES ASSUME IInv, [Next]_vars PROVE IInv'
  OBVIOUS
<1> USE DEF Name
<1>1. 1..MaxName \subseteq Name
  BY BoundsAssumption
<1>2. {"DIR", "FILE", "SPECIAL"} \subseteq Kind
  BY DEF Kind
<1>3. ASSUME NEW nm \in Numbers, NEW dir,
             GenMkdir(dir, nm) \/ GenCreate(dir, nm) \/ GenMknod(dir, nm)
      PROVE  IInv'
  BY <1>1, <1>2, <1>3, AddNewNodeStep, TreeLinked
     DEF Numbers, GenMkdir, GenCreate, GenMknod, TakeMkdir, TakeCreate, TakeMknod
<1>4. ASSUME NEW nm \in Numbers, NEW dir, NEW old, GenSymlink(dir, nm, old) PROVE IInv'
  BY <1>1, <1>4, SymlinkStep DEF GenSymlink, Numbers
<1>5. ASSUME NEW nm \in Numbers, NEW dir, NEW old, GenHardlink(dir, nm, old) PROVE IInv'
  BY <1>1, <1>5, HardlinkStep DEF GenHardlink, Numbers
<1>6. ASSUME NEW nm \in Numbers, NEW dir, NEW old, GenRenameToFresh(dir, nm, old)
      PROVE  IInv'
  BY <1>1, <1>6, RenameStep DEF GenRenameToFresh, Numbers
<1>7. CASE GenNames
  BY <1>3, <1>4, <1>5, <1>6, <1>7 DEF GenNames
<1>8. CASE GenOnPath
  <2>1. ASSUME NEW path, GenRemove(path) PROVE IInv'
    BY <2>1, RemoveStep DEF GenRemove
  <2>2. ASSUME NEW old, NEW new, GenRenameOntoEmptyDir(old, new) PROVE IInv'
    BY <1>1, <2>2, RenameStep DEF GenRenameOntoEmptyDir, Numbers
  <2>3. ASSUME NEW path, GenReduce(path) PROVE IInv'
    BY <2>3, ReduceStep DEF GenReduce
  <2>4. ASSUME NEW path, GenChroot(path) PROVE IInv'
    BY <2>4, ChrootStep DEF GenChroot
  <2>5. ASSUME NEW ty, NEW path, GenTouch(ty, path) PROVE IInv'
    BY <2>5, TouchStep DEF GenTouch
  <2> QED BY <1>8, <2>1, <2>2, <2>3, <2>4, <2>5 DEF GenOnPath
<1>9. CASE GenOnFd
  <2>1. ASSUME NEW path, NEW fd, GenOpen(path, fd) PROVE IInv'
    BY <2>1, PoolStep DEF GenOpen
  <2>2. ASSUME NEW fd, GenClose(fd) PROVE IInv'
    BY <2>2, PoolStep DEF GenClose
  <2> QED BY <1>9, <2>1, <2>2 DEF GenOnFd
<1>10. CASE NoCommand
  BY <1>10, RaiseStep DEF NoCommand
<1>11. CASE UNCHANGED vars
  BY <1>11 DEF vars, treeVars, IInv, LinksTypeOK
<1> QED
  BY <1>7, <1>8, <1>9, <1>10, <1>11 DEF Next

LEMMA LinkedMirrors == Linked(children_, parents_) => EdgesMirrored
<1> SUFFICES ASSUME Linked(children_, parents_) PROVE EdgesMirrored
  OBVIOUS
<1>1. /\ children_ \in [Node -> Seq(Entry)] /\ parents_ \in [Node -> SUBSET Link]
      /\ \A d, n \in Node, nm \in Name :
           [name |-> nm, node |-> n] \in ToSet(children_[d])
             <=> [name |-> nm, parent |-> d] \in parents_[n]
  BY DEF Linked
<1>2. ASSUME NEW d \in Node, NEW i \in DOMAIN children_[d]
      PROVE  [name |-> children_[d][i].name, parent |-> d] \in parents_[children_[d][i].node]
  <2>1. children_[d][i] \in Entry
    BY <1>1
  <2>2. /\ children_[d][i].name \in Name /\ children_[d][i].node \in Node
        /\ children_[d][i] = [name |-> children_[d][i].name, node |-> children_[d][i].node]
    BY <2>1 DEF Entry
  <2>3. children_[d][i] \in ToSet(children_[d])
    BY DEF ToSet
  <2> QED BY <1>1, <2>2, <2>3
<1>3. ASSUME NEW n \in Node, NEW l \in parents_[n]
      PROVE  \E i \in DOMAIN children_[l.parent] :
               children_[l.parent][i] = [name |-> l.name, node |-> n]
  <2>1. l \in Link
    BY <1>1
  <2>2. l.name \in Name /\ l.parent \in Node /\ l = [name |-> l.name, parent |-> l.parent]
    BY <2>1 DEF Link
  <2>3. [name |-> l.name, node |-> n] \in ToSet(children_[l.parent])
    BY <1>1, <2>2
  <2> QED BY <2>3 DEF ToSet
<1> QED BY <1>2, <1>3 DEF EdgesMirrored

\* children_ and parents_ always hold dicts between jnodes (Jnode.py:26, 101).
THEOREM LinksAreTyped == Spec => []LinksTypeOK
<1>1. IInv => LinksTypeOK
  BY DEF IInv
<1> QED BY InitIInv, NextIInv, <1>1, PTL DEF Spec

\* children_ and parents_ stay two copies of one relation, whatever commands are
\* generated: _add_node, _move_node and _del_subtree (FsTree.py:66-150) keep them
\* in step.
THEOREM EdgesAreMirrored == Spec => []EdgesMirrored
<1>1. IInv => EdgesMirrored
  BY LinkedMirrors DEF IInv
<1> QED BY InitIInv, NextIInv, <1>1, PTL DEF Spec

(***************************************************************************)
(* What the helpers do to the set of edges                                 *)
(***************************************************************************)
\* node_count_ is at least one for the root and one for each edge.
Counted(t) ==
  /\ IsFiniteSet(EdgesOf(t, Node))
  /\ t.cnt \in Int
  /\ Cardinality(EdgesOf(t, Node)) + 1 <= t.cnt

\* u counts what it has, which is at most k edges more than t has.
Grows(t, u, k) ==
  /\ Counted(u)
  /\ Cardinality(EdgesOf(u, Node)) <= Cardinality(EdgesOf(t, Node)) + k

LEMMA AddNodeGrows ==
  ASSUME NEW t, Linked(t.ch, t.pa), Counted(t),
         NEW d \in Node, NEW n \in Node, NEW nm \in Name,
         nm \notin Names(t.ch[d]), \A l \in t.pa[n] : l.name # nm
  PROVE  Grows(t, AddNode(t, d, nm, n), 1)
<1> DEFINE u == AddNode(t, d, nm, n)
           g == [dir |-> d, name |-> nm, node |-> n]
           E == EdgesOf(t, Node)
           F == EdgesOf(u, Node)
           e == [name |-> nm, node |-> n]
<1>1. t.ch \in [Node -> Seq(Entry)] /\ \A x \in Node : Keyed(t.ch[x])
  BY DEF Linked
<1>2. /\ u.ch = [t.ch EXCEPT ![d] = Append(@, e)]
      /\ u.cnt = t.cnt + 1
  BY DEF AddNode
<1>3. u.ch \in [Node -> Seq(Entry)]
  BY AddNodeLinked DEF Linked
<1>4. e \in Entry /\ e.name = nm
  BY DEF Entry
<1>5. ToSet(u.ch[d]) = ToSet(t.ch[d]) \cup {e}
  BY <1>1, <1>2, <1>4, AppendEntry
<1>6. \A x \in Node \ {d} : u.ch[x] = t.ch[x]
  BY <1>1, <1>2
<1> HIDE DEF u
<1>7. /\ \A x \in Node, y \in Node, z \in Name :
           [dir |-> x, name |-> z, node |-> y] \in E <=> [name |-> z, node |-> y] \in ToSet(t.ch[x])
      /\ \A h \in E : \E x \in Node, y \in Node, z \in Name :
           h = [dir |-> x, name |-> z, node |-> y]
  BY <1>1, EdgesOfMember
<1>8. /\ \A x \in Node, y \in Node, z \in Name :
           [dir |-> x, name |-> z, node |-> y] \in F <=> [name |-> z, node |-> y] \in ToSet(u.ch[x])
      /\ \A h \in F : \E x \in Node, y \in Node, z \in Name :
           h = [dir |-> x, name |-> z, node |-> y]
  BY <1>3, EdgesOfMember
<1>9. ASSUME NEW x \in Node, NEW y \in Node, NEW z \in Name
      PROVE  [dir |-> x, name |-> z, node |-> y] \in F
               <=> [dir |-> x, name |-> z, node |-> y] \in E \cup {g}
  <2>1. [name |-> z, node |-> y] = e <=> z = nm /\ y = n
    OBVIOUS
  <2>2. [dir |-> x, name |-> z, node |-> y] = g <=> x = d /\ z = nm /\ y = n
    OBVIOUS
  <2> HIDE DEF E, F, e, g
  <2> QED BY <2>1, <2>2, <1>5, <1>6, <1>7, <1>8
<1>10. F = E \cup {g}
  <2>1. \A h \in F : h \in E \cup {g}
    BY <1>8, <1>9
  <2>2. \A h \in E \cup {g} : h \in F
    BY <1>7, <1>9
  <2> QED BY <2>1, <2>2
<1>11. IsFiniteSet(E) /\ t.cnt \in Int /\ Cardinality(E) + 1 <= t.cnt
  BY DEF Counted
<1> HIDE DEF E, F, g
<1>12. Cardinality(E) \in Nat
  BY <1>11, FS_CardinalityType
<1>13. IsFiniteSet(F) /\ Cardinality(F) <= Cardinality(E) + 1
  <2>1. /\ IsFiniteSet(E \cup {g})
        /\ Cardinality(E \cup {g}) = IF g \in E THEN Cardinality(E) ELSE Cardinality(E) + 1
    BY <1>11, FS_AddElement
  <2> QED BY <2>1, <1>10, <1>12
<1>14. Cardinality(F) \in Nat
  BY <1>13, FS_CardinalityType
<1> QED BY <1>2, <1>11, <1>12, <1>13, <1>14 DEF Counted, Grows, E, F, u

\* Taking out k edges, all of them there, and no more than k off node_count_.
LEMMA DropsGrows ==
  ASSUME NEW t, Linked(t.ch, t.pa), Counted(t), NEW gone, NEW u,
         Drops(t.ch, gone, u.ch),
         u.cnt = t.cnt \/ u.cnt = t.cnt - Cardinality(gone)
  PROVE  Grows(t, u, 0) /\ Grows(t, u, 0 - Cardinality(gone))
<1> DEFINE E == EdgesOf(t, Node)
           F == EdgesOf(u, Node)
<1>1. t.ch \in [Node -> Seq(Entry)] /\ u.ch \in [Node -> Seq(Entry)]
  BY DEF Linked, Drops
<1>2. /\ \A x \in Node, y \in Node, z \in Name :
           [dir |-> x, name |-> z, node |-> y] \in E <=> [name |-> z, node |-> y] \in ToSet(t.ch[x])
      /\ \A h \in E : \E x \in Node, y \in Node, z \in Name :
           h = [dir |-> x, name |-> z, node |-> y]
  BY <1>1, EdgesOfMember
<1>3. /\ \A x \in Node, y \in Node, z \in Name :
           [dir |-> x, name |-> z, node |-> y] \in F <=> [name |-> z, node |-> y] \in ToSet(u.ch[x])
      /\ \A h \in F : \E x \in Node, y \in Node, z \in Name :
           h = [dir |-> x, name |-> z, node |-> y]
  BY <1>1, EdgesOfMember
<1>4. /\ IsFiniteSet(E) /\ t.cnt \in Int /\ Cardinality(E) + 1 <= t.cnt
  BY DEF Counted
<1> HIDE DEF E, F
<1>5. ASSUME NEW x \in Node, NEW y \in Node, NEW z \in Name
      PROVE  LET h == [dir |-> x, name |-> z, node |-> y]
             IN  (h \in gone => h \in E) /\ (h \in F <=> h \in E /\ h \notin gone)
  BY <1>2, <1>3 DEF Drops
<1>6. gone \subseteq E
  <2> SUFFICES ASSUME NEW h \in gone PROVE h \in E
    OBVIOUS
  <2>1. PICK x \in Node, y \in Node, z \in Name : h = [dir |-> x, name |-> z, node |-> y]
    BY DEF Drops
  <2> QED BY <2>1, <1>5
<1>7. F = E \ gone
  <2>1. ASSUME NEW h, h \in F \/ h \in E PROVE h \in F <=> h \in E \ gone
    <3>1. PICK x \in Node, y \in Node, z \in Name : h = [dir |-> x, name |-> z, node |-> y]
      BY <2>1, <1>2, <1>3
    <3> QED BY <3>1, <1>5
  <2> QED BY <2>1
<1>8. /\ IsFiniteSet(F)
      /\ Cardinality(F) = Cardinality(E) - Cardinality(E \cap gone)
  BY <1>4, <1>7, FS_Difference
<1>9. E \cap gone = gone /\ IsFiniteSet(gone)
  BY <1>4, <1>6, FS_Subset
<1>10. Cardinality(E) \in Nat /\ Cardinality(F) \in Nat /\ Cardinality(gone) \in Nat
  BY <1>4, <1>8, <1>9, FS_CardinalityType
<1>11. /\ u.cnt \in Int /\ Cardinality(F) + 1 <= u.cnt
       /\ Cardinality(F) <= Cardinality(E) + 0
       /\ Cardinality(F) <= Cardinality(E) + (0 - Cardinality(gone))
  <2>1. Cardinality(F) = Cardinality(E) - Cardinality(gone)
    BY <1>8, <1>9
  <2>2. CASE u.cnt = t.cnt
    BY <2>1, <2>2, <1>4, <1>10
  <2>3. CASE u.cnt = t.cnt - Cardinality(gone)
    BY <2>1, <2>3, <1>4, <1>10
  <2> QED BY <2>2, <2>3
<1> QED BY <1>8, <1>11 DEF Counted, Grows, E, F

LEMMA DelNodeGrows ==
  ASSUME NEW t, Linked(t.ch, t.pa), Counted(t), NEW d \in Node, NEW nm \in Names(t.ch[d])
  PROVE  Grows(t, DelNode(t, d, nm), 0 - 1)
<1> DEFINE n == Child(t.ch, d, nm)
           g == [dir |-> d, name |-> nm, node |-> n]
           u == DelNode(t, d, nm)
<1>1. t.ch \in [Node -> Seq(Entry)] /\ \A x \in Node : Keyed(t.ch[x])
  BY DEF Linked
<1>2. nm \in Name /\ n \in Node /\ [name |-> nm, node |-> n] \in ToSet(t.ch[d])
  BY <1>1, ChildIsEntry
<1>3. ToSet(Without(t.ch[d], nm)) = {e \in ToSet(t.ch[d]) : e.name # nm}
  BY <1>1, WithoutEntry
<1>4. u.ch = [t.ch EXCEPT ![d] = Without(@, nm)] /\ u.cnt = t.cnt
  BY DEF DelNode
<1>5. u.ch \in [Node -> Seq(Entry)] /\ \A x \in Node : Keyed(u.ch[x])
  BY DelNodeLinked DEF Linked
<1> HIDE DEF n, u
<1>6. ASSUME NEW x \in Node, NEW y \in Node, NEW z \in Name
      PROVE  [name |-> z, node |-> y] \in ToSet(u.ch[x])
               <=> /\ [name |-> z, node |-> y] \in ToSet(t.ch[x])
                   /\ [dir |-> x, name |-> z, node |-> y] \notin {g}
  <2>1. ToSet(u.ch[x]) = IF x = d THEN {e \in ToSet(t.ch[d]) : e.name # nm} ELSE ToSet(t.ch[x])
    BY <1>1, <1>3, <1>4
  <2>2. [name |-> z, node |-> y].name = z
    OBVIOUS
  <2>3. x = d /\ z = nm /\ [name |-> z, node |-> y] \in ToSet(t.ch[x]) => y = n
    <3>1. ASSUME NEW i \in DOMAIN t.ch[d], NEW j \in DOMAIN t.ch[d],
                 t.ch[d][i] = [name |-> nm, node |-> y], t.ch[d][j] = [name |-> nm, node |-> n]
          PROVE  y = n
      BY <3>1, <1>1 DEF Keyed
    <3> QED BY <3>1, <1>2 DEF ToSet
  <2>4. [dir |-> x, name |-> z, node |-> y] = g <=> x = d /\ z = nm /\ y = n
    OBVIOUS
  <2> HIDE DEF g
  <2> QED BY <2>1, <2>2, <2>3, <2>4
<1>7. ASSUME NEW x \in Node, NEW y \in Node, NEW z \in Name,
             [dir |-> x, name |-> z, node |-> y] \in {g}
      PROVE  [name |-> z, node |-> y] \in ToSet(t.ch[x])
  BY <1>2, <1>7
<1>8. Drops(t.ch, {g}, u.ch)
  BY <1>2, <1>5, <1>6, <1>7 DEF Drops
<1>9. Cardinality({g}) = 1
  BY FS_Singleton
<1>10. Grows(t, u, 0 - Cardinality({g}))
  BY <1>4, <1>8, DropsGrows
<1> QED BY <1>9, <1>10 DEF u

LEMMA DelSubtreeGrows ==
  ASSUME NEW t, Linked(t.ch, t.pa), Counted(t), NEW d \in Node, NEW nm \in Names(t.ch[d])
  PROVE  Grows(t, DelSubtree(t, d, nm), 0)
<1>1. DelSubtree(t, d, nm).cnt = t.cnt - Cardinality(GoneWith(t, d, nm))
  BY DEF DelSubtree, GoneWith
<1> QED BY <1>1, DelSubtreeDrops, DropsGrows

LEMMA DelBelowGrows ==
  ASSUME NEW t, Linked(t.ch, t.pa), Counted(t), NEW n \in Node
  PROVE  Grows(t, DelBelow(t, n), 0)
<1>1. DelBelow(t, n).cnt = t.cnt - Cardinality(EdgesOf(t, Subtree(t.ch, n)))
  BY DEF DelBelow
<1> QED BY <1>1, DelBelowDrops, DropsGrows

LEMMA GrowsInTurn ==
  ASSUME NEW t, NEW u, NEW v, NEW j \in Int, NEW k \in Int,
         Counted(t), Grows(t, u, j), Grows(u, v, k)
  PROVE  Grows(t, v, j + k)
<1>1. /\ Cardinality(EdgesOf(t, Node)) \in Nat
      /\ Cardinality(EdgesOf(u, Node)) \in Nat
      /\ Cardinality(EdgesOf(v, Node)) \in Nat
  BY FS_CardinalityType DEF Grows, Counted
<1> QED BY <1>1 DEF Grows

(***************************************************************************)
(* The generator                                                           *)
(***************************************************************************)
\* What a step does to the size, when it adds at most k edges
StepGrows(k) == Counted(Tree)' /\ Cardinality(Edges)' <= Cardinality(Edges) + k

\* The types of command that add a jnode or a name for one
Adding == {"MKDIR", "CREATE", "MKNOD", "SYMLINK", "HARDLINK"}

CountInv == IInv /\ Counted(Tree)

LEMMA BecomeGrows ==
  ASSUME NEW t, NEW k, Become(t), Grows(Tree, t, k)
  PROVE  StepGrows(k)
<1>1. Tree'.ch = t.ch /\ Tree'.cnt = t.cnt
  BY DEF Become, Tree
<1>2. EdgesOf(Tree, Node)' = EdgesOf(t, Node)
  BY <1>1 DEF EdgesOf
<1> QED BY <1>1, <1>2 DEF StepGrows, Grows, Counted, Edges

LEMMA KeptGrows ==
  ASSUME CountInv, UNCHANGED <<children_, node_count_>>
  PROVE  StepGrows(0)
<1>1. Tree'.ch = Tree.ch /\ Tree'.cnt = Tree.cnt
  BY DEF Tree
<1>2. EdgesOf(Tree, Node)' = EdgesOf(Tree, Node)
  BY <1>1 DEF EdgesOf
<1>3. Cardinality(EdgesOf(Tree, Node)) \in Nat
  BY FS_CardinalityType DEF CountInv, Counted
<1> QED BY <1>1, <1>2, <1>3 DEF StepGrows, CountInv, Counted, Edges

LEMMA RaiseGrows == ASSUME CountInv, Raise PROVE StepGrows(0)
BY KeptGrows DEF Raise, treeVars

LEMMA TreeKept == ASSUME CountInv, Become(Tree) PROVE StepGrows(0)
BY KeptGrows DEF Become, Tree

\* A new jnode adds one edge, whatever was done to num_symlinked_ before.
LEMMA AddNewNodeGrows ==
  ASSUME CountInv, NewJnodeFits, NEW t, t.ch = children_, t.pa = parents_, t.cnt = node_count_,
         NEW kind, NEW dir, NEW nm \in Name, NEW target, AddNewNode(t, kind, dir, nm, target)
  PROVE  StepGrows(0) \/ StepGrows(1)
<1>1. CASE ~CanAdd(t, dir, nm, id_count_)
  BY <1>1, RaiseGrows DEF AddNewNode
<1>2. CASE CanAdd(t, dir, nm, id_count_)
  <2> DEFINE d == Walk(t.ch, dir)
             u == AddNode(t, d, nm, id_count_)
  <2>1. Become(u)
    BY <1>2 DEF AddNewNode
  <2>2. id_count_ \in Node
    BY MaxJnodeAssumption DEF CountInv, IInv, LinksTypeOK, NewJnodeFits, Node
  <2>3. d \in Node /\ nm \notin Names(t.ch[d]) /\ \A l \in t.pa[id_count_] : l.name # nm
    BY <1>2 DEF CanAdd, Found
  <2>4. EdgesOf(t, Node) = EdgesOf(Tree, Node)
    BY TreeFields DEF EdgesOf
  <2>5. Linked(t.ch, t.pa) /\ Counted(t)
    BY <2>4, TreeFields DEF CountInv, IInv, Counted
  <2> HIDE DEF d
  <2>6. Grows(t, u, 1)
    BY <2>2, <2>3, <2>5, AddNodeGrows
  <2> HIDE DEF u
  <2>7. Grows(Tree, u, 1)
    BY <2>4, <2>6 DEF Grows
  <2> QED BY <2>1, <2>7, BecomeGrows
<1> QED BY <1>1, <1>2

LEMMA SymlinkGrows ==
  ASSUME CountInv, NewJnodeFits, NEW dir, NEW nm \in Name, NEW old, TakeSymlink(dir, nm, old)
  PROVE  StepGrows(0) \/ StepGrows(1)
<1> DEFINE t == [Tree EXCEPT !.num[Walk(children_, old)] = @ + 1]
<1>1. CASE ~Found(children_, old)
  BY <1>1, RaiseGrows DEF TakeSymlink
<1>2. CASE Found(children_, old)
  <2>1. AddNewNode(t, "SYMLINK", dir, nm, old)
    BY <1>2 DEF TakeSymlink
  <2>2. t.ch = children_ /\ t.pa = parents_ /\ t.cnt = node_count_
    BY DEF Tree
  <2> HIDE DEF t
  <2> QED BY <2>1, <2>2, AddNewNodeGrows
<1> QED BY <1>1, <1>2

LEMMA HardlinkGrows ==
  ASSUME CountInv, NEW dir, NEW nm \in Name, NEW old, TakeHardlink(dir, nm, old)
  PROVE  StepGrows(0) \/ StepGrows(1)
<1> DEFINE n  == Walk(children_, old)
           d  == Walk(children_, dir)
           ok == Found(children_, old) /\ type_[n] = "FILE" /\ CanAdd(Tree, dir, nm, n)
<1>1. CASE ~ok
  BY <1>1, RaiseGrows DEF TakeHardlink
<1>2. CASE ok
  <2>1. Become(AddNode(Tree, d, nm, n))
    BY <1>2 DEF TakeHardlink, Relink
  <2>2. n \in Node /\ d \in Node /\ nm \notin Names(Tree.ch[d]) /\ \A l \in Tree.pa[n] : l.name # nm
    BY <1>2, TreeFields DEF CanAdd, Found
  <2> HIDE DEF n, d
  <2>3. Grows(Tree, AddNode(Tree, d, nm, n), 1)
    BY <2>2, TreeLinked, AddNodeGrows DEF CountInv
  <2> QED BY <2>1, <2>3, BecomeGrows
<1> QED BY <1>1, <1>2

LEMMA RemoveGrows ==
  ASSUME CountInv, NEW path, TakeRemove(path)
  PROVE  StepGrows(0)
<1>1. CASE ~CanDel(Tree, path)
  BY <1>1, RaiseGrows DEF TakeRemove
<1>2. CASE CanDel(Tree, path)
  <2> DEFINE d == Walk(children_, Front(path))
  <2>1. Become(DelSubtree(Tree, d, Last(path)))
    BY <1>2 DEF TakeRemove, Relink
  <2>2. d \in Node /\ Last(path) \in Names(Tree.ch[d])
    BY <1>2, TreeFields DEF CanDel, Found
  <2> HIDE DEF d
  <2>3. Grows(Tree, DelSubtree(Tree, d, Last(path)), 0)
    BY <2>2, TreeLinked, DelSubtreeGrows DEF CountInv
  <2> QED BY <2>1, <2>3, BecomeGrows
<1> QED BY <1>1, <1>2

\* A rename takes one edge away and adds one; what it replaces goes besides.
LEMMA RenameGrows ==
  ASSUME CountInv, NEW dir, NEW nm \in Name, NEW old, TakeRename(dir, nm, old)
  PROVE  StepGrows(0)
<1> DEFINE od  == Walk(children_, Front(old))
           n   == Child(children_, od, Last(old))
           new == Append(dir, nm)
           t1  == DelNode(Tree, od, Last(old))
           e   == Walk(t1.ch, Front(new))
           t2  == IF Walk(t1.ch, new) \in Node THEN DelSubtree(t1, e, Last(new)) ELSE t1
           d   == Walk(t2.ch, dir)
           t3  == AddNode(t2, d, nm, n)
           ok  == /\ old # << >> /\ Found(children_, Front(old))
                  /\ Last(old) \in Names(children_[od])
                  /\ DirsOnTheWay(t1.ch, new)
                  /\ Walk(t1.ch, new) \in Node => CanDel(t1, new)
                  /\ CanAdd(t2, dir, nm, n)
<1>1. CASE ~ok
  BY <1>1, RaiseGrows DEF TakeRename
<1>2. CASE ok
  <2>1. Become(t3)
    BY <1>2 DEF TakeRename, Relink
  <2>2. od \in Node /\ Last(old) \in Names(Tree.ch[od])
    BY <1>2, TreeFields DEF Found
  <2>3. n \in Node
    BY <2>2, TreeFields, ChildIsEntry DEF CountInv, IInv, LinksTypeOK
  <2>4. Linked(t1.ch, t1.pa) /\ Grows(Tree, t1, 0 - 1)
    <3> HIDE DEF od
    <3> QED BY <2>2, TreeLinked, DelNodeLinked, DelNodeGrows DEF CountInv
  <2>5. Walk(t1.ch, new) \in Node => e \in Node /\ Last(new) \in Names(t1.ch[e])
    <3> HIDE DEF t1, new
    <3> QED BY <1>2 DEF CanDel, Found
  <2>6. d \in Node /\ nm \notin Names(t2.ch[d]) /\ \A l \in t2.pa[n] : l.name # nm
    <3> HIDE DEF t2
    <3> QED BY <1>2 DEF CanAdd, Found
  <2>7. Linked(t2.ch, t2.pa) /\ Grows(t1, t2, 0)
    <3> HIDE DEF t1, e, new
    <3>1. Counted(t1)
      BY <2>4 DEF Grows
    <3>2. CASE Walk(t1.ch, new) \in Node
      BY <3>1, <3>2, <2>4, <2>5, DelSubtreeLinked, DelSubtreeGrows
    <3>3. CASE Walk(t1.ch, new) \notin Node
      <4>1. Cardinality(EdgesOf(t1, Node)) \in Nat
        BY <3>1, FS_CardinalityType DEF Counted
      <4> QED BY <3>1, <3>3, <4>1, <2>4 DEF Grows
    <3> QED BY <3>2, <3>3
  <2> HIDE DEF t2, d, n, t1
  <2>8. Grows(t2, t3, 1)
    BY <2>3, <2>6, <2>7, AddNodeGrows DEF Grows
  <2> HIDE DEF t3
  <2>9. Grows(Tree, t2, (0 - 1) + 0)
    BY <2>4, <2>7, GrowsInTurn DEF CountInv
  <2>10. Grows(Tree, t3, ((0 - 1) + 0) + 1)
    BY <2>8, <2>9, GrowsInTurn DEF CountInv
  <2> QED BY <2>1, <2>10, BecomeGrows
<1> QED BY <1>1, <1>2

LEMMA ReduceGrows ==
  ASSUME CountInv, NEW path, TakeReduce(path)
  PROVE  StepGrows(0)
<1> DEFINE n  == Walk(children_, path)
           ok == Found(children_, path) /\ LinksWalkDirs(Tree, n)
<1>1. CASE ~ok
  BY <1>1, RaiseGrows DEF TakeReduce
<1>2. CASE ok /\ type_[n] = "DIR"
  <2>1. Become(DelBelow(Tree, n))
    BY <1>2 DEF TakeReduce, Relink
  <2>2. n \in Node
    BY <1>2 DEF Found
  <2> HIDE DEF n
  <2>3. Grows(Tree, DelBelow(Tree, n), 0)
    BY <2>2, TreeLinked, DelBelowGrows DEF CountInv
  <2> QED BY <2>1, <2>3, BecomeGrows
<1>3. CASE ok /\ type_[n] # "DIR"
  BY <1>3, TreeKept DEF TakeReduce, Relink
<1> QED BY <1>1, <1>2, <1>3

\* What CHROOT, OPEN, CLOSE and the commands that look a path up do
LEMMA OtherGrows ==
  ASSUME CountInv, NEW path, NEW fd,
         \/ TakeChroot(path) \/ TakeOpen(path, fd) \/ TakeClose(fd) \/ TakeTouch(path)
  PROVE  StepGrows(0)
BY TreeKept, RaiseGrows DEF TakeChroot, TakeOpen, TakeClose, TakeTouch, Relink

LEMMA NextGrows ==
  ASSUME CountInv, [Next]_vars
  PROVE  StepGrows(0) \/ (StepGrows(1) /\ \E ty \in Adding : Available(ty))
<1> DEFINE G == StepGrows(0) \/ (StepGrows(1) /\ \E ty \in Adding : Available(ty))
<1>1. 1..MaxName \subseteq Name
  BY BoundsAssumption DEF Name
<1>2. Tree.ch = children_ /\ Tree.pa = parents_ /\ Tree.cnt = node_count_
  BY TreeFields
<1>3. ASSUME NEW nm \in Numbers, NEW dir,
             GenMkdir(dir, nm) \/ GenCreate(dir, nm) \/ GenMknod(dir, nm)
      PROVE  G
  <2>1. StepGrows(0) \/ StepGrows(1)
    BY <1>1, <1>2, <1>3, AddNewNodeGrows
       DEF Numbers, GenMkdir, GenCreate, GenMknod, TakeMkdir, TakeCreate, TakeMknod
  <2>2. \E ty \in Adding : Available(ty)
    BY <1>3 DEF Adding, GenMkdir, GenCreate, GenMknod, Builds
  <2> QED BY <2>1, <2>2
<1>4. ASSUME NEW nm \in Numbers, NEW dir, NEW old, GenSymlink(dir, nm, old) PROVE G
  <2>1. StepGrows(0) \/ StepGrows(1)
    BY <1>1, <1>4, SymlinkGrows DEF GenSymlink, Numbers
  <2>2. \E ty \in Adding : Available(ty)
    BY <1>4 DEF Adding, GenSymlink, Builds
  <2> QED BY <2>1, <2>2
<1>5. ASSUME NEW nm \in Numbers, NEW dir, NEW old, GenHardlink(dir, nm, old) PROVE G
  <2>1. StepGrows(0) \/ StepGrows(1)
    BY <1>1, <1>5, HardlinkGrows DEF GenHardlink, Numbers
  <2>2. \E ty \in Adding : Available(ty)
    BY <1>5 DEF Adding, GenHardlink, Builds
  <2> QED BY <2>1, <2>2
<1>6. ASSUME NEW nm \in Numbers, NEW dir, NEW old, GenRenameToFresh(dir, nm, old)
      PROVE  StepGrows(0)
  BY <1>1, <1>6, RenameGrows DEF GenRenameToFresh, Numbers
<1>7. ASSUME GenNames PROVE G
  <2>1. ASSUME StepGrows(0) PROVE G
    BY <2>1
  <2> HIDE DEF G
  <2> QED BY <1>3, <1>4, <1>5, <1>6, <1>7, <2>1 DEF GenNames
<1>8. ASSUME GenOnPath PROVE StepGrows(0)
  <2>1. ASSUME NEW path, GenRemove(path)
        PROVE  StepGrows(0)
    BY <2>1, RemoveGrows DEF GenRemove
  <2>2. ASSUME NEW old, NEW new, GenRenameOntoEmptyDir(old, new)
        PROVE  StepGrows(0)
    BY <1>1, <2>2, RenameGrows DEF GenRenameOntoEmptyDir, Numbers
  <2>3. ASSUME NEW path, GenReduce(path)
        PROVE  StepGrows(0)
    BY <2>3, ReduceGrows DEF GenReduce
  <2>4. ASSUME NEW path, NEW ty, GenChroot(path) \/ GenTouch(ty, path)
        PROVE  StepGrows(0)
    BY <2>4, OtherGrows DEF GenChroot, GenTouch
  <2> QED BY <1>8, <2>1, <2>2, <2>3, <2>4 DEF GenOnPath
<1>9. ASSUME GenOnFd PROVE StepGrows(0)
  <2>1. ASSUME NEW path, NEW fd, GenOpen(path, fd) \/ GenClose(fd)
        PROVE  StepGrows(0)
    BY <2>1, OtherGrows DEF GenOpen, GenClose
  <2> QED BY <1>9, <2>1 DEF GenOnFd
<1>10. ASSUME NoCommand PROVE StepGrows(0)
  BY <1>10, RaiseGrows DEF NoCommand
<1>11. ASSUME UNCHANGED vars PROVE StepGrows(0)
  BY <1>11, KeptGrows DEF vars, treeVars
<1> QED BY <1>7, <1>8, <1>9, <1>10, <1>11 DEF Next

LEMMA EmptyTree == Init => Counted(Tree) /\ Cardinality(Edges) = 0
<1> SUFFICES ASSUME Init PROVE Counted(Tree) /\ Cardinality(Edges) = 0
  OBVIOUS
<1>1. Tree.ch = [n \in Node |-> << >>] /\ Tree.cnt = 1
  BY TreeFields DEF Init, TreeInit
<1>2. EdgesOf(Tree, Node) = {}
  BY <1>1 DEF EdgesOf
<1> QED BY <1>1, <1>2, FS_EmptySet DEF Counted, Edges

LEMMA NextCountInv == CountInv /\ [Next]_vars => CountInv'
BY NextGrows, NextIInv DEF CountInv, StepGrows

\* There are never more entries than node_count_ says.
CountCoversEdges == Cardinality(Edges) + 1 <= node_count_

\* node_count_ never falls below the size of the tree, whatever subtrees, hard
\* links and replaced directories go: _del_subtree (FsTree.py:94-116) takes one off
\* per edge that it drops, and a rename (_move_node, FsTree.py:140-150) only puts one
\* too many on.  So the assert that it is above zero (FsTree.py:115) never fails.
THEOREM CountCovers == Spec => []CountCoversEdges
<1>1. Init => CountInv
  BY InitIInv, EmptyTree DEF CountInv
<1>2. CountInv => CountCoversEdges
  BY TreeFields DEF CountInv, Counted, CountCoversEdges, Edges
<1> QED BY <1>1, <1>2, NextCountInv, PTL DEF Spec

\* MKNOD is the one command that adds a jnode and is not held back at the limit
\* (CommandBuilder.py:35-40); without it the tree never outgrows TREE_MAX_SIZE.
THEOREM SizeIsLimited ==
  ASSUME "MKNOD" \notin CommandTypes, TreeMaxSize > 0
  PROVE  Spec => []SizeWithinLimit
<1> DEFINE SizeInv == CountInv /\ SizeWithinLimit
<1>1. Init => SizeInv
  BY InitIInv, EmptyTree, BoundsAssumption DEF CountInv, SizeWithinLimit
<1>2. SizeInv /\ [Next]_vars => SizeInv'
  <2> SUFFICES ASSUME SizeInv, [Next]_vars PROVE SizeWithinLimit'
    BY NextCountInv
  <2>1. /\ Cardinality(Edges) \in Nat /\ Cardinality(Edges)' \in Nat
        /\ node_count_ \in Int /\ Cardinality(Edges) + 1 <= node_count_
    BY NextCountInv, TreeFields, FS_CardinalityType DEF CountInv, Counted, Edges
  <2>2. CASE StepGrows(0)
    BY <2>1, <2>2, BoundsAssumption DEF StepGrows, SizeWithinLimit
  <2>3. CASE StepGrows(1) /\ \E ty \in Adding : Available(ty)
    <3>1. node_count_ < TreeMaxSize
      BY <2>1, <2>3, BoundsAssumption DEF Adding, Available
    <3> QED BY <2>1, <2>3, <3>1, BoundsAssumption DEF StepGrows, SizeWithinLimit
  <2> QED BY <2>2, <2>3, NextGrows
<1>3. SizeInv => SizeWithinLimit
  OBVIOUS
<1> QED BY <1>1, <1>2, <1>3, PTL DEF Spec

(***************************************************************************)
(* Edges and lookups                                                       *)
(***************************************************************************)
\* The directory d has n under the name nm.
Has(ch, d, nm, n) == [name |-> nm, node |-> n] \in ToSet(ch[d])

\* children_ holds dicts of jnodes.
Dicts(ch) == ch \in [Node -> Seq(Entry)] /\ \A d \in Node : Keyed(ch[d])

\* lookup_child returns what the dict has under the name, and None otherwise.
LEMMA ChildHas ==
  ASSUME NEW ch, Dicts(ch), NEW d \in Node, NEW nm \in Name
  PROVE  /\ Child(ch, d, nm) \in Node \/ Child(ch, d, nm) = NoNode
         /\ \A n \in Node : Has(ch, d, nm, n) <=> Child(ch, d, nm) = n
         /\ nm \in Names(ch[d]) <=> Child(ch, d, nm) \in Node
<1>1. NoNode \notin Node
  BY NoNodeAssumption DEF Node
<1>2. CASE nm \in Names(ch[d])
  <2>1. Child(ch, d, nm) \in Node /\ Has(ch, d, nm, Child(ch, d, nm))
    BY <1>2, ChildIsEntry DEF Dicts, Has
  <2>2. ASSUME NEW n \in Node, NEW m \in Node, Has(ch, d, nm, n), Has(ch, d, nm, m) PROVE n = m
    <3>1. PICK i \in DOMAIN ch[d] : ch[d][i] = [name |-> nm, node |-> n]
      BY <2>2 DEF Has, ToSet
    <3>2. PICK j \in DOMAIN ch[d] : ch[d][j] = [name |-> nm, node |-> m]
      BY <2>2 DEF Has, ToSet
    <3>3. ch[d][i].name = nm /\ ch[d][j].name = nm /\ ch[d][i].node = n /\ ch[d][j].node = m
      BY <3>1, <3>2
    <3> QED BY <3>3 DEF Dicts, Keyed
  <2> QED BY <1>2, <2>1, <2>2
<1>3. CASE nm \notin Names(ch[d])
  <2>1. Child(ch, d, nm) = NoNode
    BY <1>3 DEF Child
  <2>2. ASSUME NEW n \in Node PROVE ~Has(ch, d, nm, n)
    <3>1. [name |-> nm, node |-> n].name = nm
      OBVIOUS
    <3> QED BY <1>3, <3>1, NamesOfEntries DEF Has
  <2> QED BY <1>1, <1>3, <2>1, <2>2
<1> QED BY <1>2, <1>3

\* The jnodes that _lookup_node passes on path
Lookups(ch, path, at) ==
  at = [i \in 0..Len(path) |->
          IF i = 0 THEN Root
          ELSE IF at[i - 1] \in Node THEN Child(ch, at[i - 1], path[i]) ELSE NoNode]

LEMMA LookupsExist ==
  ASSUME NEW ch, NEW path \in Seq(Name)
  PROVE  \E at : Lookups(ch, path, at) /\ Walk(ch, path) = at[Len(path)]
<1> DEFINE S == {n \in Nat : \E f : f = [i \in 0..n |->
                   IF i = 0 THEN Root
                   ELSE IF f[i - 1] \in Node THEN Child(ch, f[i - 1], path[i]) ELSE NoNode]}
<1>1. 0 \in S
  <2>1. [i \in 0..0 |-> Root] = [i \in 0..0 |->
          IF i = 0 THEN Root
          ELSE IF [k \in 0..0 |-> Root][i - 1] \in Node
               THEN Child(ch, [k \in 0..0 |-> Root][i - 1], path[i]) ELSE NoNode]
    OBVIOUS
  <2> QED BY <2>1
<1>2. ASSUME NEW n \in Nat, n \in S PROVE n + 1 \in S
  <2>1. PICK f : f = [i \in 0..n |->
          IF i = 0 THEN Root
          ELSE IF f[i - 1] \in Node THEN Child(ch, f[i - 1], path[i]) ELSE NoNode]
    BY <1>2
  <2> DEFINE v == IF f[n] \in Node THEN Child(ch, f[n], path[n + 1]) ELSE NoNode
             g == [i \in 0..(n + 1) |-> IF i = n + 1 THEN v ELSE f[i]]
  <2>2. g = [i \in 0..(n + 1) |->
          IF i = 0 THEN Root
          ELSE IF g[i - 1] \in Node THEN Child(ch, g[i - 1], path[i]) ELSE NoNode]
    <3>1. ASSUME NEW i \in 0..(n + 1)
          PROVE  g[i] = IF i = 0 THEN Root
                        ELSE IF g[i - 1] \in Node THEN Child(ch, g[i - 1], path[i]) ELSE NoNode
      <4>1. CASE i = 0
        BY <4>1, <2>1
      <4>2. CASE i = n + 1
        BY <4>2
      <4>3. CASE i \in 1..n
        BY <4>3, <2>1
      <4> QED BY <4>1, <4>2, <4>3
    <3> QED BY <3>1
  <2> HIDE DEF g
  <2> QED BY <2>2
<1>3. Len(path) \in S
  <2> HIDE DEF S
  <2> QED BY <1>1, <1>2, NatSetInduction
<1>4. PICK f : f = [i \in 0..Len(path) |->
        IF i = 0 THEN Root
        ELSE IF f[i - 1] \in Node THEN Child(ch, f[i - 1], path[i]) ELSE NoNode]
  BY <1>3
<1> QED BY <1>4 DEF Walk, Lookups

\* Two lookups agree as far as their paths do.
LEMMA LookupsAgree ==
  ASSUME NEW ch, NEW p \in Seq(Name), NEW q \in Seq(Name), NEW f, NEW g,
         Lookups(ch, p, f), Lookups(ch, q, g), Len(p) <= Len(q),
         \A i \in 1..Len(p) : p[i] = q[i]
  PROVE  f[Len(p)] = g[Len(p)]
<1> DEFINE S == {n \in Nat : n <= Len(p) => f[n] = g[n]}
<1>1. 0 \in S
  BY DEF Lookups
<1>2. ASSUME NEW n \in Nat, n \in S PROVE n + 1 \in S
  <2> SUFFICES ASSUME n + 1 <= Len(p) PROVE f[n + 1] = g[n + 1]
    OBVIOUS
  <2>1. /\ f[n] = g[n] /\ p[n + 1] = q[n + 1] /\ n + 1 # 0 /\ (n + 1) - 1 = n
        /\ n + 1 \in 0..Len(p) /\ n + 1 \in 0..Len(q)
    BY <1>2
  <2>2. f[n + 1] = IF f[n] \in Node THEN Child(ch, f[n], p[n + 1]) ELSE NoNode
    BY <2>1 DEF Lookups
  <2>3. g[n + 1] = IF g[n] \in Node THEN Child(ch, g[n], q[n + 1]) ELSE NoNode
    BY <2>1 DEF Lookups
  <2> QED BY <2>1, <2>2, <2>3
<1>3. Len(p) \in S
  <2> HIDE DEF S
  <2> QED BY <1>1, <1>2, NatSetInduction
<1> QED BY <1>3

\* _lookup_node of '/', and of a path one name longer
LEMMA WalkRoot ==
  ASSUME NEW ch
  PROVE  Walk(ch, << >>) = Root
<1>1. << >> \in Seq(Name) /\ Len(<< >>) = 0
  OBVIOUS
<1>2. PICK at : Lookups(ch, << >>, at) /\ Walk(ch, << >>) = at[0]
  BY <1>1, LookupsExist
<1> QED BY <1>1, <1>2 DEF Lookups

LEMMA WalkAppend ==
  ASSUME NEW ch, NEW p \in Seq(Name), NEW nm \in Name
  PROVE  Walk(ch, Append(p, nm))
           = IF Walk(ch, p) \in Node THEN Child(ch, Walk(ch, p), nm) ELSE NoNode
<1> DEFINE q == Append(p, nm)
<1>1. /\ q \in Seq(Name) /\ Len(q) = Len(p) + 1 /\ Len(p) \in Nat
      /\ \A i \in 1..Len(p) : p[i] = q[i]
      /\ q[Len(p) + 1] = nm
  OBVIOUS
<1> HIDE DEF q
<1>2. PICK f : Lookups(ch, p, f) /\ Walk(ch, p) = f[Len(p)]
  BY LookupsExist
<1>3. PICK g : Lookups(ch, q, g) /\ Walk(ch, q) = g[Len(p) + 1]
  BY <1>1, LookupsExist
<1>4. f[Len(p)] = g[Len(p)]
  BY <1>1, <1>2, <1>3, LookupsAgree
<1>5. g[Len(p) + 1] = IF g[Len(p)] \in Node THEN Child(ch, g[Len(p)], nm) ELSE NoNode
  <2>1. Len(p) + 1 \in 0..Len(q) /\ Len(p) + 1 # 0 /\ (Len(p) + 1) - 1 = Len(p)
    BY <1>1
  <2> QED BY <2>1, <1>1, <1>3 DEF Lookups
<1> QED BY <1>2, <1>3, <1>4, <1>5 DEF q

\* The lookup of a path ends in a jnode when the lookup of its directory does, and
\* that one has the last name.
LEMMA WalkStep ==
  ASSUME NEW ch, Dicts(ch), NEW p \in Seq(Name), NEW nm \in Name, NEW n \in Node
  PROVE  Walk(ch, Append(p, nm)) = n <=> Walk(ch, p) \in Node /\ Has(ch, Walk(ch, p), nm, n)
<1>1. NoNode \notin Node
  BY NoNodeAssumption DEF Node
<1> QED BY <1>1, WalkAppend, ChildHas

\* A walk does not leave a set that holds the root and is closed under children.
LEMMA WalkStaysIn ==
  ASSUME NEW ch, Dicts(ch), NEW T, Root \in T,
         \A d, n \in Node, nm \in Name : d \in T /\ Has(ch, d, nm, n) => n \in T
  PROVE  \A p \in Seq(Name) : Walk(ch, p) \in Node => Walk(ch, p) \in T
<1> DEFINE S == {p \in Seq(Name) : Walk(ch, p) \in Node => Walk(ch, p) \in T}
<1>1. << >> \in S
  BY WalkRoot
<1>2. ASSUME NEW p \in Seq(Name), NEW nm \in Name, p \in S PROVE Append(p, nm) \in S
  <2> SUFFICES ASSUME Walk(ch, Append(p, nm)) \in Node PROVE Walk(ch, Append(p, nm)) \in T
    BY AppendProperties
  <2>1. Walk(ch, p) \in Node /\ Has(ch, Walk(ch, p), nm, Walk(ch, Append(p, nm)))
    BY WalkStep
  <2> QED BY <1>2, <2>1
<1>3. Seq(Name) \subseteq S
  <2> HIDE DEF S
  <2> QED BY <1>1, <1>2, SeqSetInduction
<1> QED BY <1>3

\* Every entry of ch2 is one of ch.
Within(ch2, ch) == \A d, n \in Node, nm \in Name : Has(ch2, d, nm, n) => Has(ch, d, nm, n)

\* What is found with fewer edges is found with more.
LEMMA WalkKept ==
  ASSUME NEW ch, Dicts(ch), NEW ch2, Dicts(ch2), Within(ch2, ch)
  PROVE  \A p \in Seq(Name) : Walk(ch2, p) \in Node => Walk(ch, p) = Walk(ch2, p)
<1> DEFINE S == {p \in Seq(Name) : Walk(ch2, p) \in Node => Walk(ch, p) = Walk(ch2, p)}
<1>1. << >> \in S
  BY WalkRoot
<1>2. ASSUME NEW p \in Seq(Name), NEW nm \in Name, p \in S PROVE Append(p, nm) \in S
  <2> SUFFICES ASSUME Walk(ch2, Append(p, nm)) \in Node
               PROVE  Walk(ch, Append(p, nm)) = Walk(ch2, Append(p, nm))
    BY AppendProperties
  <2>1. /\ Walk(ch2, p) \in Node
        /\ Has(ch2, Walk(ch2, p), nm, Walk(ch2, Append(p, nm)))
    BY WalkStep
  <2>2. /\ Walk(ch, p) = Walk(ch2, p)
        /\ Has(ch, Walk(ch, p), nm, Walk(ch2, Append(p, nm)))
    BY <1>2, <2>1 DEF Within
  <2> QED BY <2>1, <2>2, WalkStep
<1>3. Seq(Name) \subseteq S
  <2> HIDE DEF S
  <2> QED BY <1>1, <1>2, SeqSetInduction
<1> QED BY <1>3

\* The asserts of _lookup_node, one name at a time
LEMMA DirsOnShorterWay ==
  ASSUME NEW ch, NEW p \in Seq(Name), NEW nm \in Name
  PROVE  DirsOnTheWay(ch, Append(p, nm))
           <=> DirsOnTheWay(ch, p) /\ (Walk(ch, p) \in Node => type_[Walk(ch, p)] = "DIR")
<1> DEFINE q == Append(p, nm)
<1>1. q \in Seq(Name) /\ Len(q) = Len(p) + 1 /\ Len(p) \in Nat /\ q = p \o <<nm>> /\ <<nm>> \in Seq(Name)
  BY AppendIsConcat
<1>2. ASSUME NEW i \in 0..Len(p) PROVE SubSeq(q, 1, i) = SubSeq(p, 1, i)
  <2>1. CASE i = 0
    BY <2>1, SubSeqEmpty
  <2>2. CASE i # 0
    <3>1. 1 \in 1..Len(p) /\ i \in 1..Len(p)
      BY <2>2, <1>1
    <3> QED BY <3>1, <1>1, SubSeqOfConcat1
  <2> QED BY <2>1, <2>2
<1>3. SubSeq(p, 1, Len(p)) = p
  BY SubSeqFull
<1> HIDE DEF q
<1> DEFINE Dir(i) == Walk(ch, SubSeq(q, 1, i)) \in Node => type_[Walk(ch, SubSeq(q, 1, i))] = "DIR"
<1>4. DirsOnTheWay(ch, q) <=> \A i \in 0..Len(p) : Dir(i)
  <2>1. Len(q) - 1 = Len(p)
    BY <1>1
  <2> QED BY <2>1 DEF DirsOnTheWay
<1>5. DirsOnTheWay(ch, p) <=> \A i \in 0..(Len(p) - 1) : Dir(i)
  <2>1. \A i \in 0..(Len(p) - 1) : SubSeq(q, 1, i) = SubSeq(p, 1, i)
    BY <1>1, <1>2
  <2> QED BY <2>1 DEF DirsOnTheWay
<1>6. Dir(Len(p)) <=> (Walk(ch, p) \in Node => type_[Walk(ch, p)] = "DIR")
  <2>1. SubSeq(q, 1, Len(p)) = p
    BY <1>1, <1>2, <1>3
  <2> QED BY <2>1
<1> HIDE DEF Dir
<1>7. 0..Len(p) = (0..(Len(p) - 1)) \cup {Len(p)}
  BY <1>1
<1> QED BY <1>4, <1>5, <1>6, <1>7 DEF q

\* Only a directory has children.
DirsHold(ch, ty) == \A d, n \in Node, nm \in Name : Has(ch, d, nm, n) => ty[d] = "DIR"

\* Then a path that leads somewhere passes the asserts on the way.
LEMMA FoundIsWalk ==
  ASSUME NEW ch, Dicts(ch), DirsHold(ch, type_)
  PROVE  \A p \in Seq(Name) : Found(ch, p) <=> Walk(ch, p) \in Node
<1> DEFINE S == {p \in Seq(Name) : Walk(ch, p) \in Node => DirsOnTheWay(ch, p)}
<1>1. << >> \in S
  <2>1. Len(<< >>) = 0 /\ << >> \in Seq(Name)
    OBVIOUS
  <2>2. DirsOnTheWay(ch, << >>)
    BY <2>1 DEF DirsOnTheWay
  <2> QED BY <2>1, <2>2
<1>2. ASSUME NEW p \in Seq(Name), NEW nm \in Name, p \in S PROVE Append(p, nm) \in S
  <2> SUFFICES ASSUME Walk(ch, Append(p, nm)) \in Node PROVE DirsOnTheWay(ch, Append(p, nm))
    BY AppendProperties
  <2>1. Walk(ch, p) \in Node /\ Has(ch, Walk(ch, p), nm, Walk(ch, Append(p, nm)))
    BY WalkStep
  <2>2. DirsOnTheWay(ch, p) /\ type_[Walk(ch, p)] = "DIR"
    BY <1>2, <2>1 DEF DirsHold
  <2> QED BY <2>2, DirsOnShorterWay
<1>3. Seq(Name) \subseteq S
  <2> HIDE DEF S
  <2> QED BY <1>1, <1>2, SeqSetInduction
<1> QED BY <1>3 DEF Found

(***************************************************************************)
(* What is at or below a jnode                                             *)
(***************************************************************************)
ClosedUnder(ch, T) == \A d, n \in Node, nm \in Name : d \in T /\ Has(ch, d, nm, n) => n \in T

LEMMA ClosedByEntries ==
  ASSUME NEW ch, Dicts(ch), NEW T \in SUBSET Node
  PROVE  ClosedUnder(ch, T) <=> \A d \in T : \A i \in DOMAIN ch[d] : ch[d][i].node \in T
<1>1. ASSUME ClosedUnder(ch, T), NEW d \in T, NEW i \in DOMAIN ch[d] PROVE ch[d][i].node \in T
  <2>1. ch[d][i] \in Entry /\ ch[d][i] \in ToSet(ch[d])
    BY DEF Dicts, ToSet
  <2>2. /\ ch[d][i].node \in Node /\ ch[d][i].name \in Name
        /\ ch[d][i] = [name |-> ch[d][i].name, node |-> ch[d][i].node]
    BY <2>1 DEF Entry
  <2>3. Has(ch, d, ch[d][i].name, ch[d][i].node)
    BY <2>1, <2>2 DEF Has
  <2> QED BY <1>1, <2>2, <2>3 DEF ClosedUnder
<1>2. ASSUME \A d \in T : \A i \in DOMAIN ch[d] : ch[d][i].node \in T,
             NEW d \in T, NEW n \in Node, NEW nm \in Name, Has(ch, d, nm, n)
      PROVE  n \in T
  <2>1. PICK i \in DOMAIN ch[d] : ch[d][i] = [name |-> nm, node |-> n]
    BY <1>2 DEF Has, ToSet
  <2>2. ch[d][i].node = n
    BY <2>1
  <2> QED BY <1>2, <2>2
<1> QED BY <1>1, <1>2 DEF ClosedUnder

LEMMA SubtreeClosed ==
  ASSUME NEW ch, Dicts(ch), NEW n \in Node
  PROVE  /\ Subtree(ch, n) \in SUBSET Node
         /\ n \in Subtree(ch, n)
         /\ ClosedUnder(ch, Subtree(ch, n))
<1> DEFINE Big(T) == n \in T /\ \A d \in T : \A i \in DOMAIN ch[d] : ch[d][i].node \in T
           S == Subtree(ch, n)
<1>1. S = {x \in Node : \A T \in SUBSET Node : Big(T) => x \in T}
  BY DEF Subtree
<1>2. \A T \in SUBSET Node : Big(T) => ClosedUnder(ch, T)
  BY ClosedByEntries
<1> HIDE DEF S
<1>3. S \in SUBSET Node
  BY <1>1
<1>4. n \in S
  BY <1>1
<1>5. ASSUME NEW d \in Node, NEW m \in Node, NEW nm \in Name, d \in S, Has(ch, d, nm, m)
      PROVE  m \in S
  <2> SUFFICES ASSUME NEW T \in SUBSET Node, Big(T) PROVE m \in T
    BY <1>1
  <2>1. ClosedUnder(ch, T) /\ d \in T
    BY <1>1, <1>2, <1>5
  <2> QED BY <2>1, <1>5 DEF ClosedUnder
<1> QED BY <1>3, <1>4, <1>5 DEF S, ClosedUnder

LEMMA SubtreeLeast ==
  ASSUME NEW ch, Dicts(ch), NEW n \in Node, NEW T \in SUBSET Node, n \in T, ClosedUnder(ch, T)
  PROVE  Subtree(ch, n) \subseteq T
<1>1. \A d \in T : \A i \in DOMAIN ch[d] : ch[d][i].node \in T
  BY ClosedByEntries
<1> QED BY <1>1 DEF Subtree

\* All that is below n has a parent at or below n.
LEMMA SubtreeParent ==
  ASSUME NEW ch, Dicts(ch), NEW n \in Node, NEW y \in Subtree(ch, n), y # n
  PROVE  \E x \in Subtree(ch, n), nm \in Name : Has(ch, x, nm, y)
<1> DEFINE S == Subtree(ch, n)
           T == {z \in S : z = n \/ \E x \in S, nm \in Name : Has(ch, x, nm, z)}
<1>1. S \in SUBSET Node /\ n \in S /\ ClosedUnder(ch, S)
  BY SubtreeClosed
<1> HIDE DEF S
<1>2. T \in SUBSET Node /\ n \in T /\ ClosedUnder(ch, T)
  BY <1>1 DEF ClosedUnder
<1>3. S \subseteq T
  <2> HIDE DEF T
  <2> QED BY <1>2, SubtreeLeast DEF S
<1> QED BY <1>3 DEF S

(***************************************************************************)
(* The shape of the tree                                                   *)
(***************************************************************************)
\* No name is on two edges.
NamesOnce(ch) ==
  \A c, d, m, n \in Node, nm \in Name :
    Has(ch, c, nm, m) /\ Has(ch, d, nm, n) => c = d /\ m = n

\* No directory is in two directories, or twice in one.
DirsOnce(ch, ty) ==
  \A c, d, n \in Node, k, nm \in Name :
    ty[n] = "DIR" /\ Has(ch, c, k, n) /\ Has(ch, d, nm, n) => c = d /\ k = nm

\* What has children is the root, or in H, or has a parent itself; nothing has
\* the root.
Hangs(ch, H) ==
  \A d, n \in Node, nm \in Name :
    Has(ch, d, nm, n) =>
      /\ n # Root
      /\ d = Root \/ d \in H \/ \E c \in Node, k \in Name : Has(ch, c, k, d)

\* rank grows along every edge, and not beyond m.
Ranks(ch, rank, m) ==
  /\ m \in Nat /\ rank \in [Node -> 0..m]
  /\ \A d, n \in Node, nm \in Name : Has(ch, d, nm, n) => rank[d] < rank[n]

\* A tree of directories from the root, and from the jnodes in H, which are being
\* moved; only what is not a directory may have several parents.
Forest(ch, ty, H) ==
  /\ Dicts(ch) /\ DirsHold(ch, ty) /\ ty[Root] = "DIR"
  /\ NamesOnce(ch) /\ DirsOnce(ch, ty) /\ Hangs(ch, H)
  /\ \E m, rank : Ranks(ch, rank, m)

\* ch2 is ch and the edge nm from d to n.
Adds(ch, ch2, d, nm, n) ==
  \A x, y \in Node, z \in Name :
    Has(ch2, x, z, y) <=> Has(ch, x, z, y) \/ (x = d /\ z = nm /\ y = n)

\* ch2 is ch without what is in the dicts of S, and without the names in tops.
Cuts(ch, ch2, S, tops) ==
  \A x, y \in Node, z \in Name :
    Has(ch2, x, z, y) <=> Has(ch, x, z, y) /\ x \notin S /\ z \notin tops

LEMMA RootIsNode == Root \in Node
BY MaxJnodeAssumption DEF Root, Node

\* A new edge from what hangs in the tree to what hangs outside of it.
LEMMA ForestGrows ==
  ASSUME NEW ch, NEW ty, NEW H, Forest(ch, ty, H), NEW ch2, Dicts(ch2),
         NEW d \in Node, NEW nm \in Name, NEW n \in Node, Adds(ch, ch2, d, nm, n),
         ty[d] = "DIR", n # Root,
         d = Root \/ \E c \in Node, k \in Name : Has(ch, c, k, d),
         \A x, y \in Node : ~Has(ch, x, nm, y),
         ty[n] = "DIR" => \A x \in Node, z \in Name : ~Has(ch, x, z, n),
         NEW B \in SUBSET Node, n \in B, d \notin B, ClosedUnder(ch, B)
  PROVE  Forest(ch2, ty, H \ {n})
<1> USE RootIsNode
<1>1. DirsHold(ch2, ty) /\ ty[Root] = "DIR"
  BY DEF Forest, DirsHold, Adds
<1>2. NamesOnce(ch2)
  BY DEF Forest, NamesOnce, Adds
<1>3. DirsOnce(ch2, ty)
  BY DEF Forest, DirsOnce, Adds
<1>4. Hangs(ch2, H \ {n})
  <2>1. Hangs(ch, H)
    BY DEF Forest
  <2> SUFFICES ASSUME NEW x \in Node, NEW y \in Node, NEW z \in Name, Has(ch2, x, z, y)
               PROVE  /\ y # Root
                      /\ x = Root \/ x \in H \ {n} \/ \E c \in Node, k \in Name : Has(ch2, c, k, x)
    BY DEF Hangs
  <2>2. Has(ch2, d, nm, n)
    BY DEF Adds
  <2>3. \A c, u \in Node, k \in Name : Has(ch, c, k, u) => Has(ch2, c, k, u)
    BY DEF Adds
  <2>4. CASE Has(ch, x, z, y)
    BY <2>1, <2>2, <2>3, <2>4 DEF Hangs
  <2>5. CASE x = d /\ z = nm /\ y = n
    BY <2>3, <2>5
  <2> QED BY <2>4, <2>5 DEF Adds
<1>5. \E m, rank : Ranks(ch2, rank, m)
  <2>1. PICK m, rank : Ranks(ch, rank, m)
    BY DEF Forest
  <2> DEFINE r2 == [x \in Node |-> IF x \in B THEN rank[x] + (m + 1) ELSE rank[x]]
  <2>2. m \in Nat /\ \A x \in Node : rank[x] \in 0..m
    BY <2>1 DEF Ranks
  <2>3. m + (m + 1) \in Nat /\ r2 \in [Node -> 0..(m + (m + 1))]
    <3>1. \A x \in Node : r2[x] \in 0..(m + (m + 1))
      BY <2>2
    <3> QED BY <2>2, <3>1
  <2>4. ASSUME NEW x \in Node, NEW y \in Node, NEW z \in Name, Has(ch2, x, z, y)
        PROVE  r2[x] < r2[y]
    <3>1. CASE Has(ch, x, z, y)
      <4>1. rank[x] < rank[y] /\ (x \in B => y \in B)
        BY <2>1, <3>1 DEF Ranks, ClosedUnder
      <4> QED BY <2>2, <4>1
    <3>2. CASE x = d /\ z = nm /\ y = n
      BY <2>2, <3>2
    <3> QED BY <2>4, <3>1, <3>2 DEF Adds
  <2> HIDE DEF r2
  <2>5. Ranks(ch2, r2, m + (m + 1))
    BY <2>3, <2>4 DEF Ranks
  <2> QED BY <2>5
<1> QED BY <1>1, <1>2, <1>3, <1>4, <1>5 DEF Forest

\* Whole subtrees go: what loses its last parent is in K or has no children left.
LEMMA ForestShrinks ==
  ASSUME NEW ch, NEW ty, NEW H, Forest(ch, ty, H), NEW ch2, Dicts(ch2), Within(ch2, ch),
         NEW K, \A x, y \in Node, z \in Name :
                  Has(ch, x, z, y) /\ ~Has(ch2, x, z, y)
                    => y \in K \/ \A w \in Node, k \in Name : ~Has(ch2, y, k, w)
  PROVE  Forest(ch2, ty, H \cup K)
<1>1. DirsHold(ch2, ty) /\ ty[Root] = "DIR"
  BY DEF Forest, DirsHold, Within
<1>2. NamesOnce(ch2)
  BY DEF Forest, NamesOnce, Within
<1>3. DirsOnce(ch2, ty)
  BY DEF Forest, DirsOnce, Within
<1>4. Hangs(ch2, H \cup K)
  <2> SUFFICES ASSUME NEW x \in Node, NEW y \in Node, NEW z \in Name, Has(ch2, x, z, y)
               PROVE  /\ y # Root
                      /\ \/ x = Root \/ x \in H \cup K
                         \/ \E c \in Node, k \in Name : Has(ch2, c, k, x)
    BY DEF Hangs
  <2>1. /\ y # Root
        /\ x = Root \/ x \in H \/ \E c \in Node, k \in Name : Has(ch, c, k, x)
    BY DEF Forest, Hangs, Within
  <2> QED BY <2>1
<1>5. \E m, rank : Ranks(ch2, rank, m)
  <2>1. PICK m, rank : Ranks(ch, rank, m)
    BY DEF Forest
  <2>2. Ranks(ch2, rank, m)
    BY <2>1 DEF Ranks, Within
  <2> QED BY <2>2
<1> QED BY <1>1, <1>2, <1>3, <1>4, <1>5 DEF Forest

\* Giving a type to what has no edges changes nothing.
LEMMA ForestTyped ==
  ASSUME NEW ch, NEW ty, NEW H, Forest(ch, ty, H), NEW n \in Node, n # Root, NEW kind,
         ty \in [Node -> Kind \cup {"UNUSED"}],
         \A x \in Node, z \in Name : ~Has(ch, x, z, n) /\ ~Has(ch, n, z, x)
  PROVE  Forest(ch, [ty EXCEPT ![n] = kind], H)
<1> DEFINE ty2 == [ty EXCEPT ![n] = kind]
<1>1. \A x \in Node : x # n => ty2[x] = ty[x]
  OBVIOUS
<1> HIDE DEF ty2
<1>2. DirsHold(ch, ty2) /\ ty2[Root] = "DIR"
  BY <1>1, RootIsNode DEF Forest, DirsHold
<1>3. DirsOnce(ch, ty2)
  BY <1>1 DEF Forest, DirsOnce
<1> QED BY <1>2, <1>3 DEF Forest, ty2

(***************************************************************************)
(* get_path                                                                *)
(***************************************************************************)
LEMMA LinkedDicts ==
  ASSUME NEW ch, NEW pa, Linked(ch, pa)
  PROVE  /\ Dicts(ch)
         /\ \A n \in Node : \A l \in pa[n] :
              /\ l.parent \in Node /\ l.name \in Name
              /\ l = [name |-> l.name, parent |-> l.parent]
              /\ Has(ch, l.parent, l.name, n)
         /\ \A d, n \in Node, nm \in Name :
              Has(ch, d, nm, n) <=> [name |-> nm, parent |-> d] \in pa[n]
<1>1. Dicts(ch)
  BY DEF Linked, Dicts
<1>2. \A d, n \in Node, nm \in Name :
        Has(ch, d, nm, n) <=> [name |-> nm, parent |-> d] \in pa[n]
  BY DEF Linked, Has
<1>3. ASSUME NEW n \in Node, NEW l \in pa[n]
      PROVE  /\ l.parent \in Node /\ l.name \in Name
             /\ l = [name |-> l.name, parent |-> l.parent]
  <2>1. l \in Link
    BY DEF Linked
  <2> QED BY <2>1 DEF Link
<1> QED BY <1>1, <1>2, <1>3

\* child_name finds a name of the child.
LEMMA ChildNameHas ==
  ASSUME NEW ch, Dicts(ch), NEW d \in Node, NEW nm \in Name, NEW n \in Node, Has(ch, d, nm, n)
  PROVE  ChildName(ch, d, n) \in Name /\ Has(ch, d, ChildName(ch, d, n), n)
<1> DEFINE T == {i \in DOMAIN ch[d] : ch[d][i].node = n}
<1>1. ch[d] \in Seq(Entry) /\ DOMAIN ch[d] = 1..Len(ch[d]) /\ Len(ch[d]) \in Nat
  BY DEF Dicts
<1>2. T \subseteq Nat /\ T # {}
  <2>1. PICK i \in DOMAIN ch[d] : ch[d][i] = [name |-> nm, node |-> n]
    BY DEF Has, ToSet
  <2>2. ch[d][i].node = n
    BY <2>1
  <2> QED BY <1>1, <2>2
<1>3. PICK m \in T : \A k \in T : m <= k
  <2> HIDE DEF T
  <2> QED BY <1>2, LeastNat
<1> DEFINE First(i) == ch[d][i].node = n /\ \A j \in 1..(i - 1) : ch[d][j].node # n
           c == CHOOSE i \in DOMAIN ch[d] : First(i)
<1>4. m \in DOMAIN ch[d] /\ First(m)
  <2>1. ASSUME NEW j \in 1..(m - 1) PROVE ch[d][j].node # n
    BY <1>1, <1>3
  <2> QED BY <1>3, <2>1
<1>5. c \in DOMAIN ch[d] /\ First(c)
  BY <1>4
<1>6. ChildName(ch, d, n) = ch[d][c].name
  BY DEF ChildName
<1> HIDE DEF c
<1>7. ch[d][c] \in Entry /\ ch[d][c] \in ToSet(ch[d])
  BY <1>1, <1>5 DEF ToSet
<1>8. ch[d][c].name \in Name /\ ch[d][c] = [name |-> ch[d][c].name, node |-> n]
  BY <1>5, <1>7 DEF Entry
<1> QED BY <1>6, <1>7, <1>8 DEF Has

\* The recursion of get_path ends, for what is above a jnode has a lower rank.
LEMMA GetPathStep ==
  ASSUME Linked(children_, parents_), NEW rank, NEW m, Ranks(children_, rank, m),
         NEW n \in Node
  PROVE  GetPath(n) =
           IF parents_[n] = {} THEN {<< >>}
           ELSE UNION {{Append(p, ChildName(children_, l.parent, n)) : p \in GetPath(l.parent)} :
                         l \in parents_[n]}
<1> DEFINE Up(f, x) ==
             IF parents_[x] = {} THEN {<< >>}
             ELSE UNION {{Append(p, ChildName(children_, l.parent, x)) : p \in f[l.parent]} :
                           l \in parents_[x]}
           S == {k \in Nat : \E f : /\ f = [x \in Node |-> f[x]]
                                    /\ \A x \in Node : rank[x] < k => f[x] = Up(f, x)}
<1>1. /\ m \in Nat /\ \A x \in Node : rank[x] \in 0..m
      /\ \A x \in Node : \A l \in parents_[x] : l.parent \in Node /\ rank[l.parent] < rank[x]
  BY LinkedDicts DEF Ranks
<1>2. \A f, g, x : (\A l \in parents_[x] : f[l.parent] = g[l.parent]) => Up(f, x) = Up(g, x)
  OBVIOUS
<1>3. 0 \in S
  <2>1. \A x \in Node : ~(rank[x] < 0)
    BY <1>1
  <2>2. [x \in Node |-> {}] = [y \in Node |-> [x \in Node |-> {}][y]]
    OBVIOUS
  <2> QED BY <2>1, <2>2
<1>4. ASSUME NEW k \in Nat, k \in S PROVE k + 1 \in S
  <2>1. PICK f : /\ f = [x \in Node |-> f[x]]
                 /\ \A x \in Node : rank[x] < k => f[x] = Up(f, x)
    BY <1>4
  <2> DEFINE g == [x \in Node |-> Up(f, x)]
  <2>2. ASSUME NEW x \in Node, rank[x] < k + 1 PROVE g[x] = Up(g, x)
    <3>1. ASSUME NEW l \in parents_[x] PROVE f[l.parent] = g[l.parent]
      <4>1. l.parent \in Node /\ rank[l.parent] < k
        BY <1>1, <2>2
      <4> QED BY <4>1, <2>1
    <3>2. Up(f, x) = Up(g, x)
      <4> HIDE DEF Up, g
      <4> QED BY <1>2, <3>1, Zenon
    <3> QED BY <3>2
  <2>3. g = [x \in Node |-> g[x]]
    OBVIOUS
  <2> HIDE DEF Up, g
  <2>4. k + 1 \in Nat
    OBVIOUS
  <2> QED BY <2>2, <2>3, <2>4, Zenon
<1>5. PICK f : /\ f = [x \in Node |-> f[x]]
               /\ \A x \in Node : rank[x] < m + 1 => f[x] = Up(f, x)
  <2>1. m + 1 \in S
    <3> HIDE DEF S
    <3>1. m + 1 \in Nat
      BY <1>1
    <3> QED BY <3>1, <1>3, <1>4, NatSetInduction
  <2> QED BY <2>1
<1>6. f = [x \in Node |-> Up(f, x)]
  <2>1. \A x \in Node : f[x] = Up(f, x)
    BY <1>1, <1>5
  <2> HIDE DEF Up
  <2> QED BY <1>5, <2>1
<1> DEFINE c == CHOOSE h : h = [x \in Node |-> Up(h, x)]
<1>7. c = [x \in Node |-> Up(c, x)]
  BY <1>6
<1>8. \A x \in Node : GetPath(x) = c[x]
  BY DEF GetPath
<1> HIDE DEF c
<1>9. c[n] = Up(c, n)
  BY <1>7
<1>10. \A l \in parents_[n] : c[l.parent] = GetPath(l.parent)
  BY <1>1, <1>8
<1> QED BY <1>8, <1>9, <1>10

\* The directories and what hangs below them, as the tree is between two commands
TreeOK == Linked(children_, parents_) /\ Forest(children_, type_, {})

LEMMA ParentAttached ==
  ASSUME TreeOK, NEW n \in Node, NEW l \in parents_[n]
  PROVE  l.parent \in Attached /\ n # Root /\ type_[l.parent] = "DIR"
<1>1. l.parent \in Node /\ l.name \in Name /\ Has(children_, l.parent, l.name, n)
  BY LinkedDicts DEF TreeOK
<1>2. /\ n # Root /\ type_[l.parent] = "DIR"
      /\ l.parent = Root \/ \E c \in Node, k \in Name : Has(children_, c, k, l.parent)
  BY <1>1 DEF TreeOK, Forest, Hangs, DirsHold
<1>3. \A c \in Node, k \in Name : Has(children_, c, k, l.parent) => parents_[l.parent] # {}
  BY <1>1, LinkedDicts DEF TreeOK
<1> QED BY <1>1, <1>2, <1>3 DEF Attached

\* get_path returns '/' for what has no parents, and else a path that leads to it.
LEMMA GetPathResolves ==
  ASSUME TreeOK
  PROVE  \A n \in Node : \A p \in GetPath(n) :
           /\ p \in Seq(Name)
           /\ parents_[n] = {} => p = << >>
           /\ n \in Attached => Walk(children_, p) = n
<1> DEFINE Good(n, p) == /\ p \in Seq(Name)
                         /\ parents_[n] = {} => p = << >>
                         /\ n \in Attached => Walk(children_, p) = n
           Bad == {n \in Node : \E p \in GetPath(n) : ~Good(n, p)}
           F == Forest(children_, type_, {})
<1>1. PICK m, rank : Ranks(children_, rank, m)
  BY DEF TreeOK, Forest
<1>2. /\ \A x \in Node : rank[x] \in Nat
      /\ \A x \in Node : \A l \in parents_[x] : l.parent \in Node /\ rank[l.parent] < rank[x]
  BY <1>1, LinkedDicts DEF Ranks, TreeOK
<1> SUFFICES ASSUME Bad # {} PROVE FALSE
  OBVIOUS
<1> DEFINE T == {rank[x] : x \in Bad}
<1>3. T \subseteq Nat /\ T # {}
  BY <1>2
<1>4. PICK n \in Bad : \A k \in Bad : rank[n] <= rank[k]
  <2>1. \E k \in T : \A j \in T : k <= j
    <3> HIDE DEF T
    <3> QED BY <1>3, LeastNat
  <2> QED BY <2>1
<1>5. PICK p \in GetPath(n) : ~Good(n, p)
  BY <1>4
<1>6. GetPath(n) =
        IF parents_[n] = {} THEN {<< >>}
        ELSE UNION {{Append(q, ChildName(children_, l.parent, n)) : q \in GetPath(l.parent)} :
                      l \in parents_[n]}
  BY <1>1, <1>4, GetPathStep DEF TreeOK
<1>7. CASE parents_[n] = {}
  <2>1. p = << >> /\ p \in Seq(Name)
    BY <1>5, <1>6, <1>7, EmptySeq
  <2>2. n \in Attached => n = Root
    BY <1>7 DEF Attached
  <2> QED BY <1>5, <2>1, <2>2, WalkRoot
<1>8. CASE parents_[n] # {}
  <2>1. PICK l \in parents_[n] : \E q \in GetPath(l.parent) : p = Append(q, ChildName(children_, l.parent, n))
    BY <1>5, <1>6, <1>8
  <2>2. PICK q \in GetPath(l.parent) : p = Append(q, ChildName(children_, l.parent, n))
    BY <2>1
  <2>3. l.parent \in Node /\ rank[l.parent] < rank[n] /\ rank[l.parent] \in Nat /\ rank[n] \in Nat
    BY <1>2, <1>4
  <2>4. l.parent \notin Bad
    BY <2>3, <1>4
  <2>5. Good(l.parent, q) /\ l.parent \in Attached
    BY <2>3, <2>4, <1>4, ParentAttached
  <2>6. /\ ChildName(children_, l.parent, n) \in Name
        /\ Has(children_, l.parent, ChildName(children_, l.parent, n), n)
    BY <2>3, <1>4, LinkedDicts, ChildNameHas DEF TreeOK
  <2>7. Walk(children_, p) = n
    BY <2>2, <2>5, <2>6, <2>3, <1>4, WalkStep, LinkedDicts DEF TreeOK
  <2>8. p \in Seq(Name)
    BY <2>2, <2>5, <2>6, AppendProperties
  <2> QED BY <1>5, <1>8, <2>7, <2>8
<1> QED BY <1>7, <1>8

\* What a walk ends at is attached.
LEMMA WalkEnds ==
  ASSUME NEW ch, Dicts(ch), NEW p \in Seq(Name), Walk(ch, p) \in Node
  PROVE  Walk(ch, p) = Root \/ \E c \in Node, k \in Name : Has(ch, c, k, Walk(ch, p))
<1>1. CASE p = << >>
  BY <1>1, WalkRoot
<1>2. CASE p # << >>
  <2>1. PICK q \in Seq(Name), nm \in Name : p = Append(q, nm)
    BY <1>2, SequenceEmptyOrAppend
  <2> QED BY <2>1, WalkStep
<1> QED BY <1>1, <1>2

\* A directory has one path.
LEMMA DirPathUnique ==
  ASSUME NEW ch, NEW ty, NEW H, Forest(ch, ty, H)
  PROVE  \A p, q \in Seq(Name) :
           Walk(ch, p) \in Node /\ ty[Walk(ch, p)] = "DIR" /\ Walk(ch, q) = Walk(ch, p) => p = q
<1> DEFINE Unique(p) == \A q \in Seq(Name) :
             Walk(ch, p) \in Node /\ ty[Walk(ch, p)] = "DIR" /\ Walk(ch, q) = Walk(ch, p) => p = q
           S == {p \in Seq(Name) : Unique(p)}
<1>0. Dicts(ch)
  BY DEF Forest
<1>1. ASSUME NEW p \in Seq(Name), NEW nm \in Name, Walk(ch, Append(p, nm)) \in Node
      PROVE  Walk(ch, Append(p, nm)) # Root
  BY <1>0, <1>1, WalkStep DEF Forest, Hangs
<1>2. << >> \in S
  <2> SUFFICES ASSUME NEW q \in Seq(Name), Walk(ch, q) = Root, q # << >> PROVE FALSE
    BY WalkRoot, EmptySeq
  <2>1. PICK r \in Seq(Name), nm \in Name : q = Append(r, nm)
    BY SequenceEmptyOrAppend
  <2> QED BY <2>1, <1>1, RootIsNode
<1>3. ASSUME NEW p \in Seq(Name), NEW nm \in Name, p \in S PROVE Append(p, nm) \in S
  <2> DEFINE n == Walk(ch, Append(p, nm))
  <2> SUFFICES ASSUME NEW q \in Seq(Name), n \in Node, ty[n] = "DIR", Walk(ch, q) = n
               PROVE  Append(p, nm) = q
    BY AppendProperties
  <2>1. n # Root
    BY <1>1
  <2>2. Walk(ch, p) \in Node /\ Has(ch, Walk(ch, p), nm, n)
    BY <1>0, WalkStep
  <2>3. q # << >>
    BY <2>1, WalkRoot
  <2>4. PICK r \in Seq(Name), k \in Name : q = Append(r, k)
    BY <2>3, SequenceEmptyOrAppend
  <2>5. Walk(ch, r) \in Node /\ Has(ch, Walk(ch, r), k, n)
    BY <1>0, <2>4, WalkStep
  <2> HIDE DEF n
  <2>6. Walk(ch, r) = Walk(ch, p) /\ k = nm
    BY <2>2, <2>5 DEF Forest, DirsOnce
  <2>7. ty[Walk(ch, p)] = "DIR"
    BY <2>2 DEF Forest, DirsHold
  <2>8. p = r
    BY <1>3, <2>2, <2>6, <2>7
  <2> QED BY <2>4, <2>6, <2>8
<1>4. Seq(Name) \subseteq S
  <2> HIDE DEF S
  <2> QED BY <1>2, <1>3, SeqSetInduction
<1> QED BY <1>4

(***************************************************************************)
(* What the helpers do to the edges                                        *)
(***************************************************************************)
LEMMA AddNodeAdds ==
  ASSUME NEW t, Linked(t.ch, t.pa),
         NEW d \in Node, NEW n \in Node, NEW nm \in Name,
         nm \notin Names(t.ch[d]), \A l \in t.pa[n] : l.name # nm
  PROVE  Adds(t.ch, AddNode(t, d, nm, n).ch, d, nm, n)
<1> DEFINE e == [name |-> nm, node |-> n]
           ch2 == AddNode(t, d, nm, n).ch
<1>1. Dicts(t.ch) /\ t.ch \in [Node -> Seq(Entry)]
  BY DEF Linked, Dicts
<1>2. ch2 = [t.ch EXCEPT ![d] = Append(@, e)]
  BY DEF AddNode
<1>3. e \in Entry /\ e.name = nm
  BY DEF Entry
<1>4. ToSet(ch2[d]) = ToSet(t.ch[d]) \cup {e}
  BY <1>1, <1>2, <1>3, AppendEntry DEF Dicts
<1>5. \A x \in Node \ {d} : ch2[x] = t.ch[x]
  BY <1>1, <1>2
<1> HIDE DEF ch2
<1>6. ASSUME NEW x \in Node, NEW y \in Node, NEW z \in Name
      PROVE  Has(ch2, x, z, y) <=> Has(t.ch, x, z, y) \/ (x = d /\ z = nm /\ y = n)
  <2>1. [name |-> z, node |-> y] = e <=> z = nm /\ y = n
    OBVIOUS
  <2> HIDE DEF e
  <2> QED BY <2>1, <1>4, <1>5 DEF Has
<1> QED BY <1>6 DEF Adds, ch2

\* Dropping the one edge of that name
LEMMA DelNodeCuts ==
  ASSUME NEW t, Linked(t.ch, t.pa), NamesOnce(t.ch), NEW d \in Node, NEW nm \in Names(t.ch[d])
  PROVE  Cuts(t.ch, DelNode(t, d, nm).ch, {}, {nm})
<1> DEFINE ch2 == DelNode(t, d, nm).ch
           n == Child(t.ch, d, nm)
<1>1. Dicts(t.ch) /\ t.ch \in [Node -> Seq(Entry)]
  BY DEF Linked, Dicts
<1>2. ch2 = [t.ch EXCEPT ![d] = Without(@, nm)]
  BY DEF DelNode
<1>3. ToSet(Without(t.ch[d], nm)) = {e \in ToSet(t.ch[d]) : e.name # nm}
  BY <1>1, WithoutEntry DEF Dicts
<1>4. n \in Node /\ nm \in Name /\ Has(t.ch, d, nm, n)
  BY <1>1, ChildIsEntry DEF Has
<1>5. ToSet(ch2[d]) = {e \in ToSet(t.ch[d]) : e.name # nm} /\ \A x \in Node \ {d} : ch2[x] = t.ch[x]
  BY <1>1, <1>2, <1>3
<1> HIDE DEF ch2, n
<1>6. ASSUME NEW x \in Node, NEW y \in Node, NEW z \in Name
      PROVE  Has(ch2, x, z, y) <=> Has(t.ch, x, z, y) /\ z # nm
  <2>1. [name |-> z, node |-> y].name = z
    OBVIOUS
  <2>2. CASE x = d
    BY <2>1, <2>2, <1>5 DEF Has
  <2>3. CASE x # d
    <3>1. Has(ch2, x, z, y) <=> Has(t.ch, x, z, y)
      BY <2>3, <1>5 DEF Has
    <3>2. Has(t.ch, x, z, y) => z # nm
      BY <1>4, <2>3 DEF NamesOnce
    <3> QED BY <3>1, <3>2
  <2> QED BY <2>2, <2>3
<1> QED BY <1>6 DEF Cuts, ch2

LEMMA DelSubtreeCuts ==
  ASSUME NEW t, Linked(t.ch, t.pa), NamesOnce(t.ch), NEW d \in Node, NEW nm \in Names(t.ch[d])
  PROVE  Cuts(t.ch, DelSubtree(t, d, nm).ch, Subtree(t.ch, Child(t.ch, d, nm)), {nm})
<1> DEFINE ch2 == DelSubtree(t, d, nm).ch
           n == Child(t.ch, d, nm)
           S == Subtree(t.ch, n)
           top == [dir |-> d, name |-> nm, node |-> n]
<1>1. Dicts(t.ch) /\ t.ch \in [Node -> Seq(Entry)]
  BY DEF Linked, Dicts
<1>2. n \in Node /\ nm \in Name /\ Has(t.ch, d, nm, n)
  BY <1>1, ChildIsEntry DEF Has
<1>3. S \in SUBSET Node
  BY <1>1, <1>2, SubtreeClosed
<1>4. GoneWith(t, d, nm) = EdgesOf(t, S) \cup {top}
  BY DEF GoneWith
<1> HIDE DEF n, S
<1>5. ASSUME NEW x \in Node, NEW y \in Node, NEW z \in Name
      PROVE  Has(ch2, x, z, y) <=> Has(t.ch, x, z, y) /\ x \notin S /\ z # nm
  <2> DEFINE g == [dir |-> x, name |-> z, node |-> y]
  <2>1. g \in EdgesOf(t, S) <=> x \in S /\ Has(t.ch, x, z, y)
    BY <1>1, <1>3, EdgesOfMember DEF Has
  <2>2. Has(ch2, x, z, y) <=> Has(t.ch, x, z, y) /\ g \notin GoneWith(t, d, nm)
    BY DelSubtreeDrops DEF Drops, Has
  <2>3. g = top <=> x = d /\ z = nm /\ y = n
    OBVIOUS
  <2>4. Has(t.ch, x, z, y) /\ z = nm => x = d /\ y = n
    BY <1>2 DEF NamesOnce
  <2> HIDE DEF g, top
  <2> QED BY <2>1, <2>2, <2>3, <2>4, <1>4
<1> QED BY <1>5 DEF Cuts, S, n

LEMMA DelBelowCuts ==
  ASSUME NEW t, Linked(t.ch, t.pa), NEW n \in Node
  PROVE  Cuts(t.ch, DelBelow(t, n).ch, Subtree(t.ch, n), {})
<1> DEFINE ch2 == DelBelow(t, n).ch
           S == Subtree(t.ch, n)
<1>1. Dicts(t.ch) /\ t.ch \in [Node -> Seq(Entry)]
  BY DEF Linked, Dicts
<1>2. S \in SUBSET Node
  BY <1>1, SubtreeClosed
<1> HIDE DEF S
<1>3. ASSUME NEW x \in Node, NEW y \in Node, NEW z \in Name
      PROVE  Has(ch2, x, z, y) <=> Has(t.ch, x, z, y) /\ x \notin S
  <2> DEFINE g == [dir |-> x, name |-> z, node |-> y]
  <2>1. g \in EdgesOf(t, S) <=> x \in S /\ Has(t.ch, x, z, y)
    BY <1>1, <1>2, EdgesOfMember DEF Has
  <2>2. Has(ch2, x, z, y) <=> Has(t.ch, x, z, y) /\ g \notin EdgesOf(t, S)
    BY DelBelowDrops DEF Drops, Has, S
  <2> QED BY <2>1, <2>2
<1> QED BY <1>3 DEF Cuts, S

\* A subtree goes: the tree is one without it.
LEMMA ForestCut ==
  ASSUME NEW ch, NEW ty, NEW H, Forest(ch, ty, H), NEW ch2, Dicts(ch2),
         NEW n \in Node, NEW tops, Cuts(ch, ch2, Subtree(ch, n), tops),
         \A x, y \in Node, z \in Name : Has(ch, x, z, y) /\ z \in tops => y = n
  PROVE  Forest(ch2, ty, H)
<1>1. Dicts(ch)
  BY DEF Forest
<1>2. n \in Subtree(ch, n) /\ ClosedUnder(ch, Subtree(ch, n))
  BY <1>1, SubtreeClosed
<1>3. Within(ch2, ch)
  BY DEF Within, Cuts
<1>4. ASSUME NEW x \in Node, NEW y \in Node, NEW z \in Name, Has(ch, x, z, y), ~Has(ch2, x, z, y)
      PROVE  \A w \in Node, k \in Name : ~Has(ch2, y, k, w)
  <2>1. y \in Subtree(ch, n)
    BY <1>2, <1>4 DEF Cuts, ClosedUnder
  <2> QED BY <2>1 DEF Cuts
<1>5. Forest(ch2, ty, H \cup {})
  BY <1>3, <1>4, ForestShrinks
<1>6. H \cup {} = H
  OBVIOUS
<1> QED BY <1>5, <1>6

\* What a directory is moved to is not below it: the way there from the root never
\* enters what hangs outside of the tree.
LEMMA NotBelowMoved ==
  ASSUME NEW ch, NEW ty, NEW H, Forest(ch, ty, H), NEW n \in Node, n # Root,
         ty[n] = "DIR" => \A x \in Node, z \in Name : ~Has(ch, x, z, n),
         NEW p \in Seq(Name), Walk(ch, p) \in Node, ty[Walk(ch, p)] = "DIR"
  PROVE  Walk(ch, p) \notin Subtree(ch, n)
<1> DEFINE S == Subtree(ch, n)
           T == Node \ {x \in S : ty[x] = "DIR"}
<1>1. Dicts(ch)
  BY DEF Forest
<1>2. S \in SUBSET Node /\ n \in S /\ ClosedUnder(ch, S)
  BY <1>1, SubtreeClosed
<1>3. \A y \in S : y # n => \E x \in S, nm \in Name : Has(ch, x, nm, y)
  BY <1>1, SubtreeParent
<1> HIDE DEF S
<1>4. Root \in T
  BY <1>2, <1>3, RootIsNode DEF Forest, Hangs
<1>5. ASSUME NEW x \in Node, NEW y \in Node, NEW nm \in Name, x \in T, Has(ch, x, nm, y)
      PROVE  y \in T
  <2> SUFFICES ASSUME y \in S, ty[y] = "DIR" PROVE FALSE
    OBVIOUS
  <2>1. y # n
    BY <1>5
  <2>2. PICK w \in S, k \in Name : Has(ch, w, k, y)
    BY <1>3, <2>1
  <2>3. w = x
    BY <1>2, <1>5, <2>2 DEF Forest, DirsOnce
  <2>4. ty[x] = "DIR"
    BY <1>5 DEF Forest, DirsHold
  <2> QED BY <1>5, <2>2, <2>3, <2>4
<1>6. Walk(ch, p) \in T
  <2> HIDE DEF T
  <2> QED BY <1>1, <1>4, <1>5, WalkStaysIn
<1> QED BY <1>6 DEF S

(***************************************************************************)
(* What a step does to the tree                                            *)
(***************************************************************************)
\* Inductive: besides the shape of the tree, only created jnodes are in it, under
\* issued names, and the working root is a directory, in the tree or not.
PathInv ==
  /\ IInv
  /\ Forest(children_, type_, {})
  /\ \A n \in Node : type_[n] = "UNUSED" <=> n >= id_count_
  /\ \A d, n \in Node, nm \in Name :
       Has(children_, d, nm, n) => type_[n] # "UNUSED" /\ nm <= foo_id_
  /\ foo_id_ \in 0..MaxName
  /\ type_[working_root_] = "DIR"

Stays ==
  /\ UNCHANGED <<id_count_, type_, children_, parents_, target_path_, node_count_>>
  /\ working_root_' \in Node /\ type_[working_root_'] = "DIR"
  /\ foo_id_' \in foo_id_..MaxName

NewName(nm) == nm \in Name /\ nm = foo_id_ + 1 /\ nm <= MaxName /\ foo_id_' = nm

Made(dir, nm, kind, target) ==
  /\ NewName(nm)
  /\ Walk(children_, dir) \in Node /\ type_[Walk(children_, dir)] = "DIR"
  /\ id_count_ \in Node /\ kind \in Kind
  /\ Adds(children_, children_', Walk(children_, dir), nm, id_count_)
  /\ type_' = [type_ EXCEPT ![id_count_] = kind]
  /\ target_path_' = [target_path_ EXCEPT ![id_count_] = target]
  /\ id_count_' = id_count_ + 1
  /\ node_count_' = node_count_ + 1
  /\ UNCHANGED working_root_

HardLinked(dir, nm, old) ==
  /\ NewName(nm)
  /\ Walk(children_, dir) \in Node /\ type_[Walk(children_, dir)] = "DIR"
  /\ Walk(children_, old) \in Node /\ type_[Walk(children_, old)] = "FILE"
  /\ Adds(children_, children_', Walk(children_, dir), nm, Walk(children_, old))
  /\ node_count_' = node_count_ + 1
  /\ UNCHANGED <<id_count_, type_, target_path_, working_root_>>

Removed(dir, nm) ==
  LET n == Walk(children_, Append(dir, nm)) IN
  /\ n \in Node
  /\ Cuts(children_, children_', Subtree(children_, n), {nm})
  /\ node_count_' = node_count_ - Cardinality(GoneWith(Tree, Walk(children_, dir), nm))
  /\ UNCHANGED <<id_count_, type_, target_path_, working_root_, foo_id_>>

Emptied(path) ==
  LET n == Walk(children_, path) IN
  /\ n \in Node /\ type_[n] = "DIR"
  /\ Cuts(children_, children_', Subtree(children_, n), {})
  /\ node_count_' = node_count_ - Cardinality(EdgesOf(Tree, Subtree(children_, n)))
  /\ UNCHANGED <<id_count_, type_, target_path_, working_root_, foo_id_>>

\* What is at new is an empty directory, which goes.
Replaced(n, new) ==
  /\ Walk(children_, new) \in Node /\ type_[Walk(children_, new)] = "DIR" /\ type_[n] = "DIR"
  /\ \A y \in Node, z \in Name : ~Has(children_, Walk(children_, new), z, y)
  /\ node_count_' = (node_count_ - 1) + 1
  /\ UNCHANGED foo_id_

\* ch is what children_ is when the old edge and what is at new are gone.
MovedTo(from, onm, dir, nm, ch) ==
  LET n == Walk(children_, Append(from, onm)) IN
  /\ n \in Node
  /\ Walk(children_, dir) \in Node /\ type_[Walk(children_, dir)] = "DIR"
  /\ Unrelated(Append(dir, nm), Append(from, onm)) /\ nm # onm
  /\ \/ NewName(nm) /\ node_count_' = node_count_ + 1
     \/ Replaced(n, Append(dir, nm))
  /\ Dicts(ch) /\ Cuts(children_, ch, {}, {onm, nm})
  /\ Walk(ch, dir) = Walk(children_, dir)
  /\ Adds(ch, children_', Walk(children_, dir), nm, n)
  /\ UNCHANGED <<id_count_, type_, target_path_, working_root_>>

StepEffect ==
  \/ Stays
  \/ \E dir \in Seq(Name), nm \in Name, kind \in Kind : \E target : Made(dir, nm, kind, target)
  \/ \E dir, old \in Seq(Name), nm \in Name : HardLinked(dir, nm, old)
  \/ \E dir \in Seq(Name), nm \in Name : Removed(dir, nm)
  \/ \E path \in Seq(Name) : Emptied(path)
  \/ \E from, dir \in Seq(Name), onm, nm \in Name : \E ch : MovedTo(from, onm, dir, nm, ch)

LEMMA PathInvTree ==
  ASSUME PathInv
  PROVE  /\ TreeOK /\ Dicts(children_) /\ NamesOnce(children_) /\ DirsHold(children_, type_)
         /\ Linked(Tree.ch, Tree.pa)
         /\ type_ \in [Node -> Kind \cup {"UNUSED"}] /\ working_root_ \in Node
         /\ foo_id_ \in Nat /\ MaxName \in Nat
<1>1. type_ \in [Node -> Kind \cup {"UNUSED"}] /\ working_root_ \in Node
  BY DEF PathInv, IInv, LinksTypeOK
<1> QED BY <1>1, TreeFields, BoundsAssumption DEF PathInv, IInv, TreeOK, Forest

LEMMA RaiseEffect ==
  ASSUME PathInv, Raise, foo_id_' \in foo_id_..MaxName
  PROVE  Stays
BY PathInvTree DEF Raise, Stays, PathInv, treeVars

LEMMA NewNameGrows ==
  ASSUME PathInv, NEW nm, NewName(nm)
  PROVE  foo_id_' \in foo_id_..MaxName
BY PathInvTree DEF NewName

LEMMA AddNewNodeEffect ==
  ASSUME PathInv, NewJnodeFits, NEW nm, NewName(nm),
         NEW t, t.ch = children_, t.pa = parents_, t.cnt = node_count_,
         NEW kind \in Kind, NEW dir \in Seq(Name), NEW target,
         AddNewNode(t, kind, dir, nm, target)
  PROVE  (Stays /\ raised') \/ Made(dir, nm, kind, target)
<1>1. CASE ~CanAdd(t, dir, nm, id_count_)
  BY <1>1, RaiseEffect, NewNameGrows DEF AddNewNode, Raise
<1>2. CASE CanAdd(t, dir, nm, id_count_)
  <2> DEFINE d == Walk(children_, dir)
             u == AddNode(t, d, nm, id_count_)
  <2>1. /\ Become(u) /\ type_' = [type_ EXCEPT ![id_count_] = kind]
        /\ target_path_' = [target_path_ EXCEPT ![id_count_] = target]
        /\ id_count_' = id_count_ + 1 /\ working_root_' = working_root_
    BY <1>2 DEF AddNewNode
  <2>2. id_count_ \in Node
    BY MaxJnodeAssumption DEF PathInv, IInv, LinksTypeOK, NewJnodeFits, Node
  <2>3. /\ d \in Node /\ nm \notin Names(t.ch[d]) /\ \A l \in t.pa[id_count_] : l.name # nm
        /\ type_[d] = "DIR"
    BY <1>2 DEF CanAdd, Found
  <2>4. Linked(t.ch, t.pa) /\ nm \in Name
    BY DEF PathInv, IInv, NewName
  <2> HIDE DEF d
  <2>5. Adds(t.ch, u.ch, d, nm, id_count_) /\ u.cnt = t.cnt + 1
    BY <2>2, <2>3, <2>4, AddNodeAdds, AddNodeLinked
  <2>6. children_' = u.ch /\ node_count_' = u.cnt
    BY <2>1 DEF Become
  <2> HIDE DEF u
  <2>7. Made(dir, nm, kind, target)
    BY <2>1, <2>2, <2>3, <2>5, <2>6 DEF Made, d
  <2> QED BY <2>7
<1> QED BY <1>1, <1>2

LEMMA SymlinkEffect ==
  ASSUME PathInv, NewJnodeFits, NEW nm, NewName(nm), NEW dir \in Seq(Name), NEW old,
         TakeSymlink(dir, nm, old)
  PROVE  (Stays /\ raised') \/ Made(dir, nm, "SYMLINK", old)
<1> DEFINE t == [Tree EXCEPT !.num[Walk(children_, old)] = @ + 1]
<1>1. CASE ~Found(children_, old)
  BY <1>1, RaiseEffect, NewNameGrows DEF TakeSymlink, Raise
<1>2. CASE Found(children_, old)
  <2>1. AddNewNode(t, "SYMLINK", dir, nm, old)
    BY <1>2 DEF TakeSymlink
  <2>2. t.ch = children_ /\ t.pa = parents_ /\ t.cnt = node_count_
    BY DEF Tree
  <2>3. "SYMLINK" \in Kind
    BY DEF Kind
  <2> HIDE DEF t
  <2> QED BY <2>1, <2>2, <2>3, AddNewNodeEffect
<1> QED BY <1>1, <1>2

LEMMA HardlinkEffect ==
  ASSUME PathInv, NEW nm, NewName(nm), NEW dir, NEW old, TakeHardlink(dir, nm, old)
  PROVE  (Stays /\ raised') \/ HardLinked(dir, nm, old)
<1> DEFINE n  == Walk(children_, old)
           d  == Walk(children_, dir)
           ok == Found(children_, old) /\ type_[n] = "FILE" /\ CanAdd(Tree, dir, nm, n)
<1>1. CASE ~ok
  BY <1>1, RaiseEffect, NewNameGrows DEF TakeHardlink, Raise
<1>2. CASE ok
  <2>1. Relink(AddNode(Tree, d, nm, n))
    BY <1>2 DEF TakeHardlink
  <2>2. /\ n \in Node /\ d \in Node /\ nm \notin Names(Tree.ch[d]) /\ \A l \in Tree.pa[n] : l.name # nm
        /\ type_[n] = "FILE" /\ type_[d] = "DIR"
    BY <1>2, TreeFields DEF CanAdd, Found
  <2>3. Linked(Tree.ch, Tree.pa) /\ nm \in Name
    BY PathInvTree DEF NewName
  <2> HIDE DEF n, d
  <2>4. /\ Adds(Tree.ch, AddNode(Tree, d, nm, n).ch, d, nm, n)
        /\ AddNode(Tree, d, nm, n).cnt = Tree.cnt + 1
    BY <2>2, <2>3, AddNodeAdds, AddNodeLinked
  <2>5. /\ Adds(children_, children_', d, nm, n) /\ node_count_' = node_count_ + 1
        /\ UNCHANGED <<id_count_, type_, target_path_, working_root_>>
    BY <2>1, <2>4, TreeFields DEF Relink, Become
  <2>6. HardLinked(dir, nm, old)
    BY <2>2, <2>5 DEF HardLinked, n, d
  <2> QED BY <2>6
<1> QED BY <1>1, <1>2

\* Where a path ends, from where its directory is
LEMMA WalkLast ==
  ASSUME NEW ch, Dicts(ch), NEW p \in Seq(Name), NEW nm \in Name, Walk(ch, p) \in Node,
         nm \in Names(ch[Walk(ch, p)])
  PROVE  /\ Child(ch, Walk(ch, p), nm) = Walk(ch, Append(p, nm))
         /\ Walk(ch, Append(p, nm)) \in Node
BY WalkAppend, ChildHas

LEMMA RemoveEffect ==
  ASSUME PathInv, NEW path \in Seq(Name), path # << >>, TakeRemove(path), UNCHANGED foo_id_
  PROVE  (Stays /\ raised') \/ Removed(Front(path), Last(path))
<1>1. CASE ~CanDel(Tree, path)
  <2>1. foo_id_' \in foo_id_..MaxName
    BY PathInvTree DEF PathInv
  <2> QED BY <1>1, <2>1, RaiseEffect DEF TakeRemove, Raise
<1>2. CASE CanDel(Tree, path)
  <2> DEFINE d == Walk(children_, Front(path))
             nm == Last(path)
             u == DelSubtree(Tree, d, nm)
             n == Walk(children_, path)
  <2>1. Relink(u)
    BY <1>2 DEF TakeRemove
  <2>2. d \in Node /\ nm \in Names(Tree.ch[d])
    BY <1>2, TreeFields DEF CanDel, Found
  <2>3. path = Append(Front(path), nm) /\ Front(path) \in Seq(Name) /\ nm \in Name
    BY FrontLast
  <2>4. Child(Tree.ch, d, nm) = n /\ n \in Node
    BY <2>2, <2>3, WalkLast, PathInvTree, TreeFields
  <2>5. Linked(Tree.ch, Tree.pa) /\ NamesOnce(Tree.ch)
    BY PathInvTree, TreeFields
  <2> HIDE DEF d, nm, n
  <2>6. Cuts(Tree.ch, u.ch, Subtree(Tree.ch, Child(Tree.ch, d, nm)), {nm})
    BY <2>2, <2>5, DelSubtreeCuts
  <2>7. u.cnt = Tree.cnt - Cardinality(GoneWith(Tree, d, nm))
    BY DEF DelSubtree, GoneWith
  <2>8. /\ Cuts(children_, children_', Subtree(children_, n), {nm})
        /\ node_count_' = node_count_ - Cardinality(GoneWith(Tree, d, nm))
        /\ UNCHANGED <<id_count_, type_, target_path_, working_root_>>
    BY <2>1, <2>4, <2>6, <2>7, TreeFields DEF Relink, Become
  <2>9. Removed(Front(path), Last(path))
    BY <2>3, <2>4, <2>8 DEF Removed, n, d, nm
  <2> QED BY <2>9
<1> QED BY <1>1, <1>2

LEMMA ReduceEffect ==
  ASSUME PathInv, NEW path \in Seq(Name), TakeReduce(path), UNCHANGED foo_id_
  PROVE  Stays \/ Emptied(path)
<1> DEFINE n  == Walk(children_, path)
           ok == Found(children_, path) /\ LinksWalkDirs(Tree, n)
           u  == DelBelow(Tree, n)
<1>0. foo_id_' \in foo_id_..MaxName
  BY PathInvTree DEF PathInv
<1>1. CASE ~ok
  BY <1>0, <1>1, RaiseEffect DEF TakeReduce
<1>2. CASE ok /\ type_[n] # "DIR"
  <2>1. Relink(Tree)
    BY <1>2 DEF TakeReduce
  <2> QED BY <1>0, <2>1, PathInvTree, TreeFields DEF Relink, Become, Stays, PathInv
<1>3. CASE ok /\ type_[n] = "DIR"
  <2>1. Relink(u)
    BY <1>3 DEF TakeReduce
  <2>2. n \in Node /\ type_[n] = "DIR"
    BY <1>3 DEF Found
  <2> HIDE DEF n
  <2>3. Cuts(Tree.ch, u.ch, Subtree(Tree.ch, n), {})
    BY <2>2, PathInvTree, DelBelowCuts
  <2>4. u.cnt = Tree.cnt - Cardinality(EdgesOf(Tree, Subtree(Tree.ch, n)))
    BY DEF DelBelow
  <2>5. /\ Cuts(children_, children_', Subtree(children_, n), {})
        /\ node_count_' = node_count_ - Cardinality(EdgesOf(Tree, Subtree(children_, n)))
        /\ UNCHANGED <<id_count_, type_, target_path_, working_root_>>
    BY <2>1, <2>3, <2>4, TreeFields DEF Relink, Become
  <2>6. Emptied(path)
    BY <2>2, <2>5 DEF Emptied, n
  <2> QED BY <2>6
<1> QED BY <1>1, <1>2, <1>3

LEMMA CutsWithin ==
  ASSUME NEW ch, NEW ch2, NEW S, NEW tops, Cuts(ch, ch2, S, tops)
  PROVE  Within(ch2, ch)
BY DEF Cuts, Within

\* Nothing else goes with an empty directory.
LEMMA NothingBelow ==
  ASSUME NEW ch, Dicts(ch), NEW m \in Node, \A y \in Node, z \in Name : ~Has(ch, m, z, y)
  PROVE  Subtree(ch, m) = {m}
<1>1. {m} \in SUBSET Node /\ ClosedUnder(ch, {m})
  BY DEF ClosedUnder
<1>2. Subtree(ch, m) \subseteq {m}
  BY <1>1, SubtreeLeast
<1> QED BY <1>2, SubtreeClosed

LEMMA GoneWithEmpty ==
  ASSUME NEW t, Linked(t.ch, t.pa), NEW d \in Node, NEW nm \in Name, NEW m \in Node,
         Has(t.ch, d, nm, m), \A y \in Node, z \in Name : ~Has(t.ch, m, z, y)
  PROVE  Cardinality(GoneWith(t, d, nm)) = 1
<1>1. Dicts(t.ch) /\ t.ch \in [Node -> Seq(Entry)]
  BY DEF Linked, Dicts
<1>2. Child(t.ch, d, nm) = m
  BY <1>1, ChildHas
<1>3. Subtree(t.ch, m) = {m}
  BY <1>1, NothingBelow
<1>4. EdgesOf(t, {m}) = {}
  <2> DEFINE S == {m}
             F == EdgesOf(t, S)
  <2>1. S \in SUBSET Node /\ \A x \in S : x = m
    OBVIOUS
  <2> HIDE DEF S
  <2>2. \A g \in F : \E x \in Node, y \in Node, z \in Name :
          g = [dir |-> x, name |-> z, node |-> y]
    BY <1>1, <2>1, EdgesOfMember
  <2>3. \A x \in Node, y \in Node, z \in Name :
          [dir |-> x, name |-> z, node |-> y] \in F
            <=> x \in S /\ [name |-> z, node |-> y] \in ToSet(t.ch[x])
    BY <1>1, <2>1, EdgesOfMember
  <2>4. \A x \in Node, y \in Node, z \in Name : [dir |-> x, name |-> z, node |-> y] \notin F
    BY <2>1, <2>3 DEF Has
  <2> HIDE DEF F
  <2>5. F = {}
    BY <2>2, <2>4
  <2> QED BY <2>5 DEF F, S
<1>5. GoneWith(t, d, nm) = {[dir |-> d, name |-> nm, node |-> m]}
  BY <1>2, <1>3, <1>4 DEF GoneWith
<1> QED BY <1>5, FS_Singleton

\* What stands at new may give way to n.
Replaceable(n, new) ==
  /\ Walk(children_, new) \in Node /\ type_[Walk(children_, new)] = "DIR" /\ type_[n] = "DIR"
  /\ \A y \in Node, z \in Name : ~Has(children_, Walk(children_, new), z, y)
  /\ UNCHANGED foo_id_

LEMMA RenameEffect ==
  ASSUME PathInv, NEW dir \in Seq(Name), NEW nm \in Name, NEW old \in Seq(Name), old # << >>,
         Unrelated(Append(dir, nm), old), TakeRename(dir, nm, old),
         NewName(nm) \/ Replaceable(Walk(children_, old), Append(dir, nm))
  PROVE  (Stays /\ raised') \/ \E ch : MovedTo(Front(old), Last(old), dir, nm, ch)
<1> DEFINE from == Front(old)
           onm == Last(old)
           od  == Walk(children_, from)
           n   == Child(children_, od, onm)
           new == Append(dir, nm)
           t1  == DelNode(Tree, od, onm)
           e   == Walk(t1.ch, Front(new))
           t2  == IF Walk(t1.ch, new) \in Node THEN DelSubtree(t1, e, Last(new)) ELSE t1
           d   == Walk(t2.ch, dir)
           ok  == /\ old # << >> /\ Found(children_, from)
                  /\ onm \in Names(children_[od])
                  /\ DirsOnTheWay(t1.ch, new)
                  /\ Walk(t1.ch, new) \in Node => CanDel(t1, new)
                  /\ CanAdd(t2, dir, nm, n)
<1>1. CASE ~ok
  <2>1. foo_id_' \in foo_id_..MaxName
    BY NewNameGrows, PathInvTree DEF Replaceable, PathInv
  <2>2. Raise
    BY <1>1 DEF TakeRename
  <2> QED BY <2>1, <2>2, RaiseEffect DEF Raise
<1>2. CASE ok
  <2>1. Relink(AddNode(t2, d, nm, n))
    BY <1>2 DEF TakeRename
  <2>2. from \in Seq(Name) /\ onm \in Name /\ old = Append(from, onm)
    BY FrontLast
  <2>3. od \in Node /\ onm \in Names(children_[od])
    BY <1>2 DEF Found
  <2>4. n = Walk(children_, old) /\ n \in Node /\ Has(children_, od, onm, n)
    <3>1. Dicts(children_)
      BY PathInvTree
    <3>2. n = Walk(children_, old) /\ n \in Node
      BY <2>2, <2>3, <3>1, WalkLast
    <3> HIDE DEF od
    <3> QED BY <2>2, <2>3, <3>1, <3>2, ChildHas
  <2>5. Linked(t1.ch, t1.pa) /\ Cuts(children_, t1.ch, {}, {onm}) /\ t1.cnt = node_count_
    <3> HIDE DEF od, onm
    <3> QED BY <2>3, PathInvTree, TreeFields, DelNodeLinked, DelNodeCuts
  <2>6. /\ d \in Node /\ type_[d] = "DIR" /\ nm \notin Names(t2.ch[d])
        /\ \A l \in t2.pa[n] : l.name # nm
    <3> HIDE DEF t2
    <3> QED BY <1>2 DEF CanAdd, Found
  <2>7. Front(new) = dir /\ Last(new) = nm /\ new \in Seq(Name)
    BY FrontLastOfAppend, AppendProperties
  <2> DEFINE D == Walk(children_, dir)
  <2>8. Dicts(t1.ch) /\ Within(t1.ch, children_) /\ Dicts(children_) /\ NamesOnce(children_)
    BY <2>5, LinkedDicts, CutsWithin, PathInvTree
  <2>9. NamesOnce(t1.ch)
    BY <2>8 DEF NamesOnce, Within
  <2> HIDE DEF t1, n, od, new
  \* t2 is t1 when new is free, and has nothing more where an empty directory was.
  <2>10. ASSUME NewName(nm)
         PROVE  /\ nm # onm /\ t2 = t1
                /\ Cuts(children_, t2.ch, {}, {onm, nm})
    <3>1. \A x, y \in Node : ~Has(children_, x, nm, y)
      BY <2>10, PathInvTree DEF PathInv, NewName
    <3>2. nm # onm
      BY <3>1, <2>3, <2>4
    <3>3. Walk(t1.ch, new) \notin Node
      BY <3>1, <2>8, WalkStep DEF Within, new
    <3>4. Cuts(children_, t1.ch, {}, {onm, nm})
      BY <3>1, <2>5 DEF Cuts
    <3> QED BY <3>2, <3>3, <3>4
  <2>11. ASSUME Replaceable(n, new)
         PROVE  /\ nm # onm
                /\ Linked(t2.ch, t2.pa)
                /\ Cuts(children_, t2.ch, {}, {onm, nm})
                /\ t2.cnt = node_count_ - 1
    <3> DEFINE m == Walk(children_, new)
    <3>1. /\ m \in Node /\ type_[m] = "DIR" /\ type_[n] = "DIR"
          /\ \A y \in Node, z \in Name : ~Has(children_, m, z, y)
      BY <2>11 DEF Replaceable
    <3>2. D \in Node /\ Has(children_, D, nm, m)
      BY <3>1, <2>8, WalkStep DEF new
    <3>3. nm # onm
      <4> SUFFICES ASSUME nm = onm PROVE FALSE
        OBVIOUS
      <4>1. n = m
        BY <2>3, <2>4, <2>8, <3>1, <3>2 DEF NamesOnce
      <4>2. new = old
        BY <4>1, <2>4, <2>7, <3>1, DirPathUnique DEF PathInv
      <4> QED BY <4>2, PrefixSelf DEF Unrelated, new
    <3>4. Has(t1.ch, D, nm, m)
      BY <2>5, <3>1, <3>2, <3>3 DEF Cuts
    <3>5. Walk(t1.ch, new) \in Node
      <4> SUFFICES ASSUME Walk(t1.ch, new) \notin Node PROVE FALSE
        OBVIOUS
      <4>1. t2 = t1
        OBVIOUS
      <4>2. d = D
        BY <4>1, <2>6, <2>8, WalkKept
      <4>3. nm \in Names(t1.ch[D])
        BY <3>1, <3>2, <3>4, <2>8, ChildHas
      <4> QED BY <4>1, <4>2, <4>3, <2>6
    <3>6. Walk(t1.ch, new) = m
      BY <3>5, <2>7, <2>8, WalkKept
    <3>7. e \in Node /\ Has(t1.ch, e, nm, m)
      BY <3>1, <3>6, <2>7, <2>8, WalkStep DEF new
    <3>8. t2 = DelSubtree(t1, e, nm)
      BY <3>5, <2>7
    <3>9. \A y \in Node, z \in Name : ~Has(t1.ch, m, z, y)
      BY <2>8, <3>1 DEF Within
    <3>10. nm \in Names(t1.ch[e]) /\ Child(t1.ch, e, nm) = m
      BY <3>1, <3>7, <2>8, ChildHas
    <3>11. Subtree(t1.ch, m) = {m}
      BY <3>1, <3>9, <2>8, NothingBelow
    <3> HIDE DEF e, m, t2
    <3>12. Linked(t2.ch, t2.pa) /\ Cuts(t1.ch, t2.ch, {m}, {nm})
      BY <3>7, <3>8, <3>10, <3>11, <2>5, <2>9, DelSubtreeLinked, DelSubtreeCuts
    <3>13. Cuts(children_, t2.ch, {}, {onm, nm})
      BY <3>1, <3>12, <2>5 DEF Cuts
    <3>14. t2.cnt = t1.cnt - Cardinality(GoneWith(t1, e, nm))
      BY <3>8 DEF DelSubtree, GoneWith
    <3>15. Cardinality(GoneWith(t1, e, nm)) = 1
      BY <3>1, <3>7, <3>9, <2>5, GoneWithEmpty
    <3> QED BY <3>3, <3>12, <3>13, <3>14, <3>15, <2>5
  <2>12. NewName(nm) \/ Replaceable(n, new)
    BY <2>4 DEF new
  <2>13. /\ nm # onm /\ Linked(t2.ch, t2.pa)
         /\ Cuts(children_, t2.ch, {}, {onm, nm})
    <3> HIDE DEF t2
    <3> QED BY <2>5, <2>10, <2>11, <2>12
  <2> HIDE DEF t2
  <2>14. Dicts(t2.ch) /\ Within(t2.ch, children_)
    BY <2>13, LinkedDicts, CutsWithin
  <2>15. d = D
    BY <2>6, <2>8, <2>14, WalkKept
  <2> HIDE DEF d
  <2>16. /\ Adds(t2.ch, AddNode(t2, d, nm, n).ch, d, nm, n)
         /\ AddNode(t2, d, nm, n).cnt = t2.cnt + 1
    BY <2>4, <2>6, <2>13, AddNodeAdds, AddNodeLinked
  <2>17. /\ Adds(t2.ch, children_', d, nm, n) /\ node_count_' = t2.cnt + 1
         /\ UNCHANGED <<id_count_, type_, target_path_, working_root_>>
    BY <2>1, <2>16 DEF Relink, Become
  <2>18. \/ NewName(nm) /\ node_count_' = node_count_ + 1
         \/ Replaced(n, new)
    <3>1. CASE NewName(nm)
      BY <3>1, <2>5, <2>10, <2>17
    <3>2. CASE Replaceable(n, new)
      BY <3>2, <2>11, <2>17 DEF Replaced, Replaceable
    <3> QED BY <3>1, <3>2, <2>12
  <2>19. MovedTo(from, onm, dir, nm, t2.ch)
    BY <2>2, <2>4, <2>6, <2>13, <2>14, <2>15, <2>17, <2>18 DEF MovedTo, d, new
  <2> QED BY <2>19
<1> QED BY <1>1, <1>2

LEMMA PickedPaths ==
  ASSUME PathInv
  PROVE  /\ \A types : Pick(types) \subseteq Node
         /\ \A S \in SUBSET Node : PathsOf(S) \subseteq Seq(Name)
<1>1. Dicts(children_) /\ working_root_ \in Node
  BY PathInvTree
<1>2. \A types : Pick(types) \subseteq Node
  BY <1>1, SubtreeClosed DEF Pick, Visited
<1>3. \A n \in Node : GetPath(n) \subseteq Seq(Name)
  BY PathInvTree, GetPathResolves
<1> QED BY <1>2, <1>3 DEF PathsOf

\* A path that is not '/' leads to the jnode that it was made for.
LEMMA PickedResolves ==
  ASSUME PathInv, NEW n \in Node, NEW p \in GetPath(n)
  PROVE  /\ p \in Seq(Name)
         /\ p # << >> => Walk(children_, p) = n
         /\ Walk(children_, p) = n \/ Walk(children_, p) = Root
<1>1. /\ p \in Seq(Name)
      /\ parents_[n] = {} => p = << >>
      /\ n \in Attached => Walk(children_, p) = n
  BY PathInvTree, GetPathResolves
<1>2. parents_[n] # {} => n \in Attached
  BY DEF Attached
<1> QED BY <1>1, <1>2, WalkRoot

\* What takes the place of an empty directory, and what becomes of both
LEMMA OntoMoves ==
  ASSUME PathInv, NEW old, NEW new, <<old, new>> \in Replacements,
         GenRenameOntoEmptyDir(old, new)
  PROVE  /\ old \in Seq(Name) /\ old # << >> /\ Front(old) \in Seq(Name) /\ Last(old) \in Name
         /\ Front(new) \in Seq(Name) /\ Last(new) \in Name /\ new = Append(Front(new), Last(new))
         /\ Unrelated(new, old)
         /\ \/ Stays /\ raised'
            \/ \E ch : MovedTo(Front(old), Last(old), Front(new), Last(new), ch)
<1>1. PICK x \in {y \in (PickAny \ {Root}) \X PickDir : MayReplace(y[1], y[2])} :
        old \in GetPath(x[1]) /\ new \in GetPath(x[2])
  BY DEF Replacements
<1> DEFINE n == x[1]
           m == x[2]
<1>2. n \in Node /\ m \in Node /\ children_[m] = << >> /\ type_[n] = "DIR" /\ type_[m] = "DIR"
  BY <1>1, PickedPaths DEF MayReplace, PickAny, PickDir, Pick
<1>3. TakeRename(Front(new), Last(new), old) /\ Unrelated(new, old) /\ UNCHANGED foo_id_
  BY DEF GenRenameOntoEmptyDir, NothingIssued
<1> HIDE DEF n, m
<1>4. old \in GetPath(n) /\ new \in GetPath(m)
  BY <1>1 DEF n, m
<1>5. old \in Seq(Name) /\ new \in Seq(Name)
  BY <1>2, <1>4, PickedResolves
<1>6. old # << >> /\ new # << >>
  BY <1>3, <1>5, PrefixSelf DEF Unrelated
<1>7. Walk(children_, old) = n /\ Walk(children_, new) = m
  BY <1>2, <1>4, <1>6, PickedResolves
<1>8. /\ Front(new) \in Seq(Name) /\ Last(new) \in Name /\ new = Append(Front(new), Last(new))
      /\ Front(old) \in Seq(Name) /\ Last(old) \in Name
  BY <1>5, <1>6, FrontLast
<1>9. \A y \in Node, z \in Name : ~Has(children_, m, z, y)
  BY <1>2, EmptyDict DEF Has
<1>10. Replaceable(Walk(children_, old), new)
  BY <1>2, <1>3, <1>7, <1>9 DEF Replaceable
<1>11. (Stays /\ raised') \/ \E ch : MovedTo(Front(old), Last(old), Front(new), Last(new), ch)
  BY <1>3, <1>5, <1>6, <1>8, <1>10, RenameEffect
<1> QED BY <1>3, <1>5, <1>6, <1>8, <1>11

LEMMA NamesEffect ==
  ASSUME PathInv, GenNames
  PROVE  StepEffect
<1>1. PICK nm \in Numbers, dir \in Dirs :
        \/ GenMkdir(dir, nm) \/ GenCreate(dir, nm) \/ GenMknod(dir, nm)
        \/ \E old \in PathsOf(PickAny) : GenSymlink(dir, nm, old)
        \/ \E old \in PathsOf(PickFile) : GenHardlink(dir, nm, old)
        \/ \E old \in PathsOf(PickAny \ {Root}) : GenRenameToFresh(dir, nm, old)
  BY DEF GenNames
<1>2. dir \in Seq(Name) /\ nm \in Name
  BY PickedPaths, BoundsAssumption DEF Dirs, PickDir, Numbers, Name
<1>3. Issue(nm) => NewName(nm)
  BY <1>2, PathInvTree DEF Issue, FreshName, NewName
<1>4. /\ PickAny \subseteq Node /\ PickFile \subseteq Node
  BY PickedPaths DEF PickAny, PickFile
<1>5. CASE GenMkdir(dir, nm) \/ GenCreate(dir, nm) \/ GenMknod(dir, nm)
  <2>1. /\ NewJnodeFits /\ NewName(nm)
        /\ \E kind \in {"DIR", "FILE", "SPECIAL"} : AddNewNode(Tree, kind, dir, nm, << >>)
    BY <1>3, <1>5 DEF GenMkdir, GenCreate, GenMknod, TakeMkdir, TakeCreate, TakeMknod
  <2>2. PICK kind \in {"DIR", "FILE", "SPECIAL"} : AddNewNode(Tree, kind, dir, nm, << >>)
    BY <2>1
  <2>3. kind \in Kind
    BY DEF Kind
  <2>4. Stays \/ Made(dir, nm, kind, << >>)
    BY <1>2, <2>1, <2>2, <2>3, TreeFields, AddNewNodeEffect
  <2> QED BY <1>2, <2>3, <2>4 DEF StepEffect
<1>6. ASSUME NEW old \in PathsOf(PickAny), GenSymlink(dir, nm, old) PROVE StepEffect
  <2>1. NewJnodeFits /\ NewName(nm) /\ TakeSymlink(dir, nm, old)
    BY <1>3, <1>6 DEF GenSymlink
  <2>2. Stays \/ Made(dir, nm, "SYMLINK", old)
    BY <1>2, <2>1, SymlinkEffect
  <2>3. "SYMLINK" \in Kind
    BY DEF Kind
  <2> QED BY <1>2, <2>2, <2>3 DEF StepEffect
<1>7. ASSUME NEW old \in PathsOf(PickFile), GenHardlink(dir, nm, old) PROVE StepEffect
  <2>1. NewName(nm) /\ TakeHardlink(dir, nm, old)
    BY <1>3, <1>7 DEF GenHardlink
  <2>2. Stays \/ HardLinked(dir, nm, old)
    BY <2>1, HardlinkEffect
  <2>3. old \in Seq(Name)
    BY <1>4, PickedPaths
  <2> QED BY <1>2, <2>2, <2>3 DEF StepEffect
<1>8. ASSUME NEW old \in PathsOf(PickAny \ {Root}), GenRenameToFresh(dir, nm, old) PROVE StepEffect
  <2>1. NewName(nm) /\ TakeRename(dir, nm, old) /\ Unrelated(Append(dir, nm), old)
    BY <1>3, <1>8 DEF GenRenameToFresh
  <2>2. old \in Seq(Name)
    BY <1>4, PickedPaths
  <2>3. old # << >>
    BY <1>2, <2>1, PrefixSelf, AppendProperties DEF Unrelated
  <2>4. Stays \/ \E ch : MovedTo(Front(old), Last(old), dir, nm, ch)
    BY <1>2, <2>1, <2>2, <2>3, RenameEffect
  <2>5. Front(old) \in Seq(Name) /\ Last(old) \in Name
    BY <2>2, <2>3, FrontLast
  <2> QED BY <1>2, <2>4, <2>5 DEF StepEffect
<1> QED BY <1>1, <1>5, <1>6, <1>7, <1>8

LEMMA OnPathEffect ==
  ASSUME PathInv, GenOnPath
  PROVE  StepEffect
<1>0. /\ PickAny \subseteq Node /\ PickNonlink \subseteq Node /\ PickDir \subseteq Node
      /\ foo_id_ \in foo_id_..MaxName
  BY PickedPaths, PathInvTree DEF PickAny, PickNonlink, PickDir, PathInv
<1>1. ASSUME NEW path \in PathsOf(PickAny), GenRemove(path) PROVE StepEffect
  <2>1. path # << >> /\ TakeRemove(path) /\ UNCHANGED foo_id_ /\ path \in Seq(Name)
    BY <1>0, <1>1, PickedPaths DEF GenRemove, NothingIssued
  <2>2. Stays \/ Removed(Front(path), Last(path))
    BY <2>1, RemoveEffect
  <2>3. Front(path) \in Seq(Name) /\ Last(path) \in Name
    BY <2>1, FrontLast
  <2> QED BY <2>2, <2>3 DEF StepEffect
<1>2. ASSUME NEW r \in Replacements, GenRenameOntoEmptyDir(r[1], r[2]) PROVE StepEffect
  <2>1. r = <<r[1], r[2]>>
    BY DEF Replacements
  <2> QED BY <1>2, <2>1, OntoMoves DEF StepEffect
<1>3. ASSUME NEW path \in PathsOf(PickNonlink), GenReduce(path) PROVE StepEffect
  <2>1. TakeReduce(path) /\ UNCHANGED foo_id_ /\ path \in Seq(Name)
    BY <1>0, <1>3, PickedPaths DEF GenReduce, NothingIssued
  <2> QED BY <2>1, ReduceEffect DEF StepEffect
<1>4. ASSUME NEW path \in Dirs, GenChroot(path) PROVE StepEffect
  <2>1. TakeChroot(path) /\ UNCHANGED foo_id_
    BY <1>4 DEF GenChroot, NothingIssued
  <2>2. PICK n \in PickDir : path \in GetPath(n)
    BY DEF Dirs, PathsOf
  <2>3. n \in Node /\ type_[n] = "DIR"
    BY <1>0 DEF PickDir, Pick
  <2>4. Walk(children_, path) \in Node /\ type_[Walk(children_, path)] = "DIR"
    BY <2>2, <2>3, PickedResolves, RootIsNode DEF PathInv, Forest
  <2>5. Stays
    BY <1>0, <2>1, <2>4, RaiseEffect, TreeFields DEF TakeChroot, Become, Stays
  <2> QED BY <2>5 DEF StepEffect
<1>5. ASSUME NEW ty, NEW path, GenTouch(ty, path) PROVE StepEffect
  <2>1. TakeTouch(path) /\ UNCHANGED foo_id_
    BY <1>5 DEF GenTouch, NothingIssued
  <2>2. Stays
    BY <1>0, <2>1, RaiseEffect, TreeFields, PathInvTree DEF TakeTouch, Relink, Become, Stays, PathInv
  <2> QED BY <2>2 DEF StepEffect
<1> QED BY <1>1, <1>2, <1>3, <1>4, <1>5 DEF GenOnPath

LEMMA NextEffect ==
  ASSUME PathInv, [Next]_vars
  PROVE  StepEffect
<1>0. foo_id_ \in foo_id_..MaxName
  BY PathInvTree DEF PathInv
<1>1. CASE GenOnFd
  <2>1. ASSUME NEW path, NEW fd, GenOpen(path, fd) PROVE Stays
    BY <1>0, <2>1, RaiseEffect, TreeFields, PathInvTree
       DEF GenOpen, TakeOpen, Become, Stays, PathInv
  <2>2. ASSUME NEW fd, GenClose(fd) PROVE Stays
    BY <1>0, <2>2, RaiseEffect, TreeFields, PathInvTree
       DEF GenClose, TakeClose, Become, Stays, PathInv, NothingIssued
  <2> QED BY <1>1, <2>1, <2>2 DEF GenOnFd, StepEffect
<1>2. CASE NoCommand
  BY <1>0, <1>2, RaiseEffect DEF NoCommand, StepEffect
<1>3. CASE UNCHANGED vars
  BY <1>0, <1>3, PathInvTree DEF vars, treeVars, Stays, PathInv, StepEffect
<1> QED BY <1>1, <1>2, <1>3, NamesEffect, OnPathEffect DEF Next

(***************************************************************************)
(* The invariant is inductive                                              *)
(***************************************************************************)
\* The part of PathInv that the edges and the types decide
Shape ==
  /\ Forest(children_, type_, {})
  /\ \A n \in Node : type_[n] = "UNUSED" <=> n >= id_count_
  /\ \A d, n \in Node, nm \in Name :
       Has(children_, d, nm, n) => type_[n] # "UNUSED" /\ nm <= foo_id_
  /\ foo_id_ \in 0..MaxName
  /\ type_[working_root_] = "DIR"

LEMMA NoEdgeOfNewName ==
  ASSUME PathInv, NEW nm, NewName(nm)
  PROVE  /\ \A x, y \in Node : ~Has(children_, x, nm, y)
         /\ foo_id_' \in 0..MaxName
         /\ \A k \in Name : k <= foo_id_ => k <= foo_id_'
         /\ nm <= foo_id_'
<1>1. nm \in Name /\ nm = foo_id_ + 1 /\ nm <= MaxName /\ foo_id_' = nm /\ foo_id_ \in Nat /\ MaxName \in Nat
  BY PathInvTree DEF NewName
<1> QED BY <1>1 DEF PathInv, Name

LEMMA MadeShape ==
  ASSUME PathInv, Dicts(children_'), NEW dir \in Seq(Name), NEW nm, NEW kind, NEW target,
         Made(dir, nm, kind, target)
  PROVE  Shape'
<1> DEFINE d == Walk(children_, dir)
           n == id_count_
           ty == [type_ EXCEPT ![n] = kind]
<1>1. /\ NewName(nm) /\ d \in Node /\ type_[d] = "DIR" /\ n \in Node /\ kind \in Kind
      /\ Adds(children_, children_', d, nm, n) /\ type_' = ty /\ id_count_' = n + 1
      /\ working_root_' = working_root_ /\ nm \in Name
  BY DEF Made, NewName
<1>2. /\ type_ \in [Node -> Kind \cup {"UNUSED"}] /\ Dicts(children_) /\ working_root_ \in Node
  BY PathInvTree
<1>3. type_[n] = "UNUSED" /\ kind # "UNUSED"
  BY <1>1 DEF PathInv, Node, Kind
<1>4. n # Root /\ d # n /\ working_root_ # n
  BY <1>1, <1>3 DEF PathInv, Forest
<1>5. \A x \in Node, z \in Name : ~Has(children_, x, z, n) /\ ~Has(children_, n, z, x)
  BY <1>1, <1>3 DEF PathInv, Forest, DirsHold
<1>6. d = Root \/ \E c \in Node, k \in Name : Has(children_, c, k, d)
  BY <1>1, <1>2, WalkEnds
<1>7. \A x \in Node : ty[x] = IF x = n THEN kind ELSE type_[x]
  BY <1>1, <1>2
<1> HIDE DEF n, d, ty
<1>8. Forest(children_, ty, {})
  BY <1>1, <1>2, <1>4, <1>5, ForestTyped DEF PathInv, ty
<1>9. {n} \in SUBSET Node /\ ClosedUnder(children_, {n})
  BY <1>1, <1>5 DEF ClosedUnder
<1>10. Forest(children_', ty, {} \ {n})
  <2>1. \A x, y \in Node : ~Has(children_, x, nm, y)
    BY <1>1, NoEdgeOfNewName
  <2>2. ty[d] = "DIR" /\ n \in {n} /\ d \notin {n}
    BY <1>1, <1>4, <1>7
  <2> QED BY <1>1, <1>4, <1>5, <1>6, <1>8, <1>9, <2>1, <2>2, ForestGrows
<1>11. {} \ {n} = {}
  OBVIOUS
<1>12. Forest(children_', type_', {})
  BY <1>1, <1>10, <1>11
<1>13. \A x \in Node : type_'[x] = "UNUSED" <=> x >= id_count_'
  BY <1>1, <1>3, <1>7 DEF PathInv, Node, n
<1>14. \A x, y \in Node, z \in Name :
         Has(children_', x, z, y) => type_'[y] # "UNUSED" /\ z <= foo_id_'
  BY <1>1, <1>3, <1>7, NoEdgeOfNewName DEF PathInv, Adds
<1>15. foo_id_' \in 0..MaxName /\ type_'[working_root_'] = "DIR"
  BY <1>1, <1>2, <1>4, <1>7, NoEdgeOfNewName DEF PathInv
<1> QED BY <1>12, <1>13, <1>14, <1>15 DEF Shape

LEMMA HardLinkedShape ==
  ASSUME PathInv, Dicts(children_'), NEW dir \in Seq(Name), NEW nm, NEW old \in Seq(Name),
         HardLinked(dir, nm, old)
  PROVE  Shape'
<1> DEFINE d == Walk(children_, dir)
           n == Walk(children_, old)
<1>1. /\ NewName(nm) /\ d \in Node /\ type_[d] = "DIR" /\ n \in Node /\ type_[n] = "FILE"
      /\ Adds(children_, children_', d, nm, n) /\ nm \in Name
      /\ UNCHANGED <<id_count_, type_, target_path_, working_root_>>
  BY DEF HardLinked, NewName
<1>2. Dicts(children_)
  BY PathInvTree
<1>3. d = Root \/ \E c \in Node, k \in Name : Has(children_, c, k, d)
  BY <1>1, <1>2, WalkEnds
<1> HIDE DEF n, d
<1>4. n # Root /\ d # n
  BY <1>1 DEF PathInv, Forest
<1>5. {n} \in SUBSET Node /\ ClosedUnder(children_, {n})
  BY <1>1 DEF ClosedUnder, PathInv, Forest, DirsHold
<1>6. Forest(children_', type_, {} \ {n})
  <2>1. \A x, y \in Node : ~Has(children_, x, nm, y)
    BY <1>1, NoEdgeOfNewName
  <2>2. type_[n] # "DIR" /\ n \in {n} /\ d \notin {n} /\ Forest(children_, type_, {})
    BY <1>1, <1>4 DEF PathInv
  <2> QED BY <1>1, <1>3, <1>4, <1>5, <2>1, <2>2, ForestGrows
<1>7. {} \ {n} = {}
  OBVIOUS
<1>8. \A x, y \in Node, z \in Name :
         Has(children_', x, z, y) => type_'[y] # "UNUSED" /\ z <= foo_id_'
  BY <1>1, NoEdgeOfNewName DEF PathInv, Adds
<1> QED BY <1>1, <1>6, <1>7, <1>8, NoEdgeOfNewName DEF Shape, PathInv

\* Fewer edges, the rest as it was
LEMMA CutShape ==
  ASSUME PathInv, Within(children_', children_), Forest(children_', type_, {}),
         UNCHANGED <<id_count_, type_, working_root_, foo_id_>>
  PROVE  Shape'
BY DEF Shape, PathInv, Within

LEMMA RemovedShape ==
  ASSUME PathInv, Dicts(children_'), NEW dir \in Seq(Name), NEW nm \in Name, Removed(dir, nm)
  PROVE  Shape'
<1> DEFINE n == Walk(children_, Append(dir, nm))
<1>1. /\ n \in Node /\ Cuts(children_, children_', Subtree(children_, n), {nm})
      /\ UNCHANGED <<id_count_, type_, working_root_, foo_id_>>
  BY DEF Removed
<1>2. Walk(children_, dir) \in Node /\ Has(children_, Walk(children_, dir), nm, n)
  BY <1>1, PathInvTree, WalkStep
<1> HIDE DEF n
<1>3. \A x, y \in Node, z \in Name : Has(children_, x, z, y) /\ z \in {nm} => y = n
  BY <1>1, <1>2, PathInvTree DEF NamesOnce
<1>4. Forest(children_', type_, {})
  BY <1>1, <1>3, ForestCut DEF PathInv
<1> QED BY <1>1, <1>4, CutsWithin, CutShape

LEMMA EmptiedShape ==
  ASSUME PathInv, Dicts(children_'), NEW path \in Seq(Name), Emptied(path)
  PROVE  Shape'
<1> DEFINE n == Walk(children_, path)
<1>1. /\ n \in Node /\ Cuts(children_, children_', Subtree(children_, n), {})
      /\ UNCHANGED <<id_count_, type_, working_root_, foo_id_>>
  BY DEF Emptied
<1> HIDE DEF n
<1>2. Forest(children_', type_, {})
  BY <1>1, ForestCut DEF PathInv
<1> QED BY <1>1, <1>2, CutsWithin, CutShape

\* The moved jnode hangs outside of the tree between the two halves of _move_node.
LEMMA MovedShape ==
  ASSUME PathInv, Dicts(children_'), NEW from \in Seq(Name), NEW onm \in Name,
         NEW dir \in Seq(Name), NEW nm \in Name, NEW ch, MovedTo(from, onm, dir, nm, ch)
  PROVE  Shape'
<1> DEFINE n == Walk(children_, Append(from, onm))
           d == Walk(children_, dir)
           m == Walk(children_, Append(dir, nm))
           od == Walk(children_, from)
<1>1. /\ n \in Node /\ d \in Node /\ type_[d] = "DIR"
      /\ NewName(nm) \/ Replaced(n, Append(dir, nm))
      /\ Dicts(ch) /\ Cuts(children_, ch, {}, {onm, nm}) /\ Walk(ch, dir) = d
      /\ Adds(ch, children_', d, nm, n)
      /\ UNCHANGED <<id_count_, type_, working_root_>>
  BY DEF MovedTo
<1>2. Dicts(children_) /\ NamesOnce(children_)
  BY PathInvTree
<1>3. od \in Node /\ Has(children_, od, onm, n)
  BY <1>1, <1>2, WalkStep
<1> DEFINE Ends == \A x, y \in Node : Has(children_, x, nm, y)
                     => \A w \in Node, k \in Name : ~Has(children_, y, k, w)
           Issued == /\ foo_id_' \in 0..MaxName /\ nm <= foo_id_'
                     /\ \A k \in Name : k <= foo_id_ => k <= foo_id_'
<1>4. ASSUME NewName(nm) PROVE Ends /\ Issued
  BY <1>4, NoEdgeOfNewName
<1>5. ASSUME Replaced(n, Append(dir, nm)) PROVE Ends /\ Issued
  <2>1. /\ m \in Node /\ \A y \in Node, z \in Name : ~Has(children_, m, z, y)
        /\ foo_id_' = foo_id_
    BY <1>5 DEF Replaced
  <2>2. Has(children_, d, nm, m)
    BY <1>2, <2>1, WalkStep
  <2>3. \A x, y \in Node : Has(children_, x, nm, y) => y = m
    BY <1>1, <1>2, <2>1, <2>2 DEF NamesOnce
  <2>4. nm <= foo_id_
    BY <1>1, <2>1, <2>2 DEF PathInv
  <2>5. Ends
    BY <2>1, <2>3
  <2>6. Issued
    BY <2>1, <2>4 DEF PathInv
  <2> QED BY <2>5, <2>6
<1>6. Ends /\ Issued
  BY <1>1, <1>4, <1>5
<1> HIDE DEF n, d, m, od, Issued
<1>7. n # Root
  BY <1>1, <1>3 DEF PathInv, Forest, Hangs
<1>8. Forest(ch, type_, {} \cup {n})
  <2>1. Within(ch, children_)
    BY <1>1, CutsWithin
  <2>2. ASSUME NEW x \in Node, NEW y \in Node, NEW z \in Name,
               Has(children_, x, z, y), ~Has(ch, x, z, y)
        PROVE  y \in {n} \/ \A w \in Node, k \in Name : ~Has(ch, y, k, w)
    <3>1. z = onm \/ z = nm
      BY <1>1, <2>2 DEF Cuts
    <3>2. z = onm => y = n
      BY <1>1, <1>2, <1>3, <2>2 DEF NamesOnce
    <3>3. z = nm => \A w \in Node, k \in Name : ~Has(ch, y, k, w)
      BY <1>6, <2>1, <2>2 DEF Within
    <3> QED BY <3>1, <3>2, <3>3
  <2>3. Forest(children_, type_, {})
    BY DEF PathInv
  <2> HIDE DEF Ends
  <2> QED BY <1>1, <2>1, <2>2, <2>3, ForestShrinks
<1> HIDE DEF Ends
<1>9. type_[n] = "DIR" => \A x \in Node, z \in Name : ~Has(ch, x, z, n)
  <2> SUFFICES ASSUME type_[n] = "DIR", NEW x \in Node, NEW z \in Name, Has(ch, x, z, n) PROVE FALSE
    OBVIOUS
  <2>1. Has(children_, x, z, n) /\ z # onm
    BY <1>1 DEF Cuts
  <2> QED BY <1>1, <1>3, <2>1 DEF PathInv, Forest, DirsOnce
<1> DEFINE B == Subtree(ch, n)
<1>10. B \in SUBSET Node /\ n \in B /\ ClosedUnder(ch, B)
  BY <1>1, SubtreeClosed
<1>11. d \notin B
  BY <1>1, <1>7, <1>8, <1>9, NotBelowMoved
<1>12. d = Root \/ \E c \in Node, k \in Name : Has(ch, c, k, d)
  BY <1>1, WalkEnds
<1> HIDE DEF B
<1>13. Forest(children_', type_, ({} \cup {n}) \ {n})
  <2>1. \A x, y \in Node : ~Has(ch, x, nm, y)
    BY <1>1 DEF Cuts
  <2> QED BY <1>1, <1>7, <1>8, <1>9, <1>10, <1>11, <1>12, <2>1, ForestGrows
<1>14. ({} \cup {n}) \ {n} = {}
  OBVIOUS
<1>15. \A x, y \in Node, z \in Name :
         Has(children_', x, z, y) => type_'[y] # "UNUSED" /\ z <= foo_id_'
  <2>1. type_[n] # "UNUSED"
    BY <1>1, <1>3 DEF PathInv
  <2> QED BY <1>1, <1>6, <2>1 DEF PathInv, Adds, Cuts, Issued
<1> QED BY <1>1, <1>6, <1>13, <1>14, <1>15 DEF Shape, PathInv, Issued

LEMMA NextPathInv == PathInv /\ [Next]_vars => PathInv'
<1> SUFFICES ASSUME PathInv, [Next]_vars PROVE PathInv'
  OBVIOUS
<1>1. IInv'
  BY NextIInv DEF PathInv
<1>2. Dicts(children_') 
  BY <1>1 DEF IInv, Linked, Dicts
<1>3. StepEffect
  BY NextEffect
<1>4. ASSUME Stays PROVE Shape'
  <2>1. /\ id_count_' = id_count_ /\ type_' = type_ /\ children_' = children_
        /\ type_[working_root_'] = "DIR" /\ foo_id_' \in foo_id_..MaxName
        /\ foo_id_ \in Nat /\ MaxName \in Nat
    BY <1>4, PathInvTree DEF Stays
  <2>2. foo_id_' \in 0..MaxName /\ \A k \in Name : k <= foo_id_ => k <= foo_id_'
    BY <2>1 DEF Name
  <2> QED BY <2>1, <2>2 DEF Shape, PathInv
<1>5. ASSUME NEW dir \in Seq(Name), NEW nm \in Name, NEW kind, NEW target,
             Made(dir, nm, kind, target)
      PROVE  Shape'
  BY <1>2, <1>5, MadeShape
<1>6. ASSUME NEW dir \in Seq(Name), NEW old \in Seq(Name), NEW nm, HardLinked(dir, nm, old)
      PROVE  Shape'
  BY <1>2, <1>6, HardLinkedShape
<1>7. ASSUME NEW dir \in Seq(Name), NEW nm \in Name, Removed(dir, nm) PROVE Shape'
  BY <1>2, <1>7, RemovedShape
<1>8. ASSUME NEW path \in Seq(Name), Emptied(path) PROVE Shape'
  BY <1>2, <1>8, EmptiedShape
<1>9. ASSUME NEW from \in Seq(Name), NEW onm \in Name, NEW dir \in Seq(Name), NEW nm \in Name,
             NEW ch, MovedTo(from, onm, dir, nm, ch)
      PROVE  Shape'
  BY <1>2, <1>9, MovedShape
<1>10. Shape'
  BY <1>3, <1>4, <1>5, <1>6, <1>7, <1>8, <1>9 DEF StepEffect
<1> QED BY <1>1, <1>10 DEF PathInv, Shape

LEMMA InitPathInv == Init => PathInv
<1> SUFFICES ASSUME Init PROVE PathInv
  OBVIOUS
<1>1. /\ children_ = [n \in Node |-> << >>]
      /\ type_ = [n \in Node |-> IF n = Root THEN "DIR" ELSE "UNUSED"]
      /\ id_count_ = 1 /\ working_root_ = Root /\ foo_id_ = 0
  BY DEF Init, TreeInit
<1>2. \A d, n \in Node, nm \in Name : ~Has(children_, d, nm, n)
  BY <1>1, EmptyDict DEF Has
<1>3. IInv
  BY InitIInv
<1>4. Dicts(children_)
  BY <1>3 DEF IInv, Linked, Dicts
<1>5. Ranks(children_, [n \in Node |-> 0], 0)
  BY <1>2 DEF Ranks
<1>6. Forest(children_, type_, {})
  BY <1>1, <1>2, <1>4, <1>5, RootIsNode DEF Forest, DirsHold, NamesOnce, DirsOnce, Hangs
<1>7. \A n \in Node : type_[n] = "UNUSED" <=> n >= id_count_
  BY <1>1 DEF Node, Root
<1> QED BY <1>1, <1>2, <1>3, <1>6, <1>7, RootIsNode, BoundsAssumption DEF PathInv

(***************************************************************************)
(* What the invariant says of the tree                                     *)
(***************************************************************************)
\* What has a parent is below the root: the ranks of the jnodes above it fall.
LEMMA AttachedBelowRoot == TreeOK => Attached \subseteq Subtree(children_, Root)
<1> SUFFICES ASSUME TreeOK PROVE Attached \subseteq Subtree(children_, Root)
  OBVIOUS
<1> DEFINE S == Subtree(children_, Root)
           Bad == Attached \ S
<1>1. Dicts(children_) /\ \E m, rank : Ranks(children_, rank, m)
  BY DEF TreeOK, Forest
<1>2. PICK m, rank : Ranks(children_, rank, m)
  BY <1>1
<1>3. S \in SUBSET Node /\ Root \in S /\ ClosedUnder(children_, S)
  BY <1>1, RootIsNode, SubtreeClosed
<1> HIDE DEF S
<1> SUFFICES ASSUME Bad # {} PROVE FALSE
  BY DEF S
<1> DEFINE T == {rank[x] : x \in Bad}
<1>4. T \subseteq Nat /\ T # {}
  BY <1>2 DEF Ranks, Attached
<1>5. \E k \in T : \A j \in T : k <= j
  <2> HIDE DEF T
  <2> QED BY <1>4, LeastNat
<1>6. PICK n \in Bad : \A k \in Bad : rank[n] <= rank[k]
  BY <1>5
<1>7. PICK l \in parents_[n] : TRUE
  BY <1>3, <1>6 DEF Attached
<1>8. n \in Node /\ l.parent \in Attached /\ l.parent \in Node
  BY <1>6, <1>7, ParentAttached DEF Attached
<1>9. l.name \in Name /\ Has(children_, l.parent, l.name, n)
  BY <1>7, <1>8, LinkedDicts DEF TreeOK
<1>10. rank[l.parent] < rank[n] /\ rank[l.parent] \in Nat /\ rank[n] \in Nat
  BY <1>2, <1>8, <1>9 DEF Ranks
<1>11. l.parent \in S
  BY <1>6, <1>8, <1>10
<1>12. n \in S
  BY <1>3, <1>8, <1>9, <1>11 DEF ClosedUnder
<1> QED BY <1>6, <1>12

LEMMA TreeIsDirTree == TreeOK => DirTree
<1> SUFFICES ASSUME TreeOK PROVE DirTree
  OBVIOUS
<1>1. /\ Dicts(children_) /\ DirsHold(children_, type_) /\ DirsOnce(children_, type_)
      /\ Hangs(children_, {})
  BY DEF TreeOK, Forest
<1>2. \A n \in Node : \A l \in parents_[n] :
        /\ l.parent \in Node /\ l.name \in Name
        /\ l = [name |-> l.name, parent |-> l.parent]
        /\ Has(children_, l.parent, l.name, n)
  BY LinkedDicts DEF TreeOK
<1>3. parents_[Root] = {}
  BY <1>1, <1>2, RootIsNode DEF Hangs
<1>4. ASSUME NEW n \in Node, type_[n] = "DIR" PROVE Cardinality(parents_[n]) <= 1
  <2>1. \A l, m \in parents_[n] : l = m
    BY <1>1, <1>2, <1>4 DEF DirsOnce
  <2>2. parents_[n] = {} \/ \E l : parents_[n] = {l}
    BY <2>1
  <2>3. ASSUME parents_[n] = {} PROVE Cardinality(parents_[n]) = 0
    BY <2>3, FS_EmptySet
  <2>4. ASSUME NEW l, parents_[n] = {l} PROVE Cardinality(parents_[n]) = 1
    BY <2>4, FS_Singleton
  <2>5. Cardinality(parents_[n]) = 0 \/ Cardinality(parents_[n]) = 1
    BY <2>2, <2>3, <2>4
  <2> QED BY <2>5
<1>5. ASSUME NEW n \in Node, type_[n] # "DIR" PROVE children_[n] = << >>
  <2>1. children_[n] \in Seq(Entry)
    BY <1>1 DEF Dicts
  <2> SUFFICES ASSUME children_[n] # << >> PROVE FALSE
    OBVIOUS
  <2>2. 1 \in DOMAIN children_[n] /\ children_[n][1] \in Entry
    BY <2>1, EmptySeq
  <2>3. /\ children_[n][1].name \in Name /\ children_[n][1].node \in Node
        /\ children_[n][1] = [name |-> children_[n][1].name, node |-> children_[n][1].node]
        /\ children_[n][1] \in ToSet(children_[n])
    BY <2>2 DEF Entry, ToSet
  <2>4. Has(children_, n, children_[n][1].name, children_[n][1].node)
    BY <2>3 DEF Has
  <2> QED BY <1>1, <1>5, <2>3, <2>4 DEF DirsHold
<1> QED BY <1>3, <1>4, <1>5, AttachedBelowRoot DEF DirTree

LEMMA EntryHas ==
  ASSUME NEW ch, Dicts(ch), NEW d \in Node, NEW i \in DOMAIN ch[d]
  PROVE  /\ ch[d][i].name \in Name /\ ch[d][i].node \in Node
         /\ Has(ch, d, ch[d][i].name, ch[d][i].node)
<1>1. ch[d][i] \in Entry /\ ch[d][i] \in ToSet(ch[d])
  BY DEF Dicts, ToSet
<1>2. /\ ch[d][i].name \in Name /\ ch[d][i].node \in Node
      /\ ch[d][i] = [name |-> ch[d][i].name, node |-> ch[d][i].node]
  BY <1>1 DEF Entry
<1> QED BY <1>1, <1>2 DEF Has

LEMMA PathInvNames == PathInv => NamesAreUids
<1> SUFFICES ASSUME PathInv PROVE NamesAreUids
  OBVIOUS
<1>1. Dicts(children_) /\ NamesOnce(children_) /\ foo_id_ \in Nat
  BY PathInvTree
<1>2. ASSUME NEW c \in Node, NEW d \in Node,
             NEW i \in DOMAIN children_[c], NEW j \in DOMAIN children_[d],
             children_[c][i].name = children_[d][j].name
      PROVE  c = d /\ i = j
  <2>1. c = d
    BY <1>1, <1>2, EntryHas DEF NamesOnce
  <2> QED BY <1>1, <1>2, <2>1 DEF Dicts, Keyed
<1>3. ASSUME NEW d \in Node, NEW i \in DOMAIN children_[d] PROVE children_[d][i].name \in 1..foo_id_
  <2>1. children_[d][i].name \in Name /\ children_[d][i].name <= foo_id_
    BY <1>1, EntryHas DEF PathInv
  <2> QED BY <1>1, <2>1 DEF Name
<1> QED BY <1>2, <1>3 DEF NamesAreUids

LEMMA PathInvResolves == PathInv => PathsResolve
<1> SUFFICES ASSUME PathInv, NEW n \in Attached, NEW p \in GetPath(n)
             PROVE  Found(children_, p) /\ Walk(children_, p) = n
  BY DEF PathsResolve
<1>1. n \in Node
  BY DEF Attached
<1>2. p \in Seq(Name) /\ Walk(children_, p) = n
  BY <1>1, PathInvTree, GetPathResolves
<1> QED BY <1>1, <1>2, PathInvTree, FoundIsWalk

LEMMA PathInvAlways == Spec => []PathInv
BY InitPathInv, NextPathInv, PTL DEF Spec

\* The directories stay a tree under root_, whatever is renamed, linked and removed
\* (_move_node, FsTree.py:140-150, detaches before it adds): nothing is cut off from
\* the root, and no directory gets two parents.
THEOREM DirsAreATree == Spec => []DirTree
<1>1. PathInv => DirTree
  BY TreeIsDirTree, PathInvTree
<1> QED BY <1>1, PathInvAlways, PTL

\* No two edges ever have one name (Jnode.py:23, "name are uids"), also where a rename
\* gives an edge the name of the directory it replaces.
THEOREM NamesStayUids == Spec => []NamesAreUids
BY PathInvNames, PathInvAlways, PTL

\* Whichever parents get_path (FsTree.py:313-326) picks, the path it returns is found
\* again and leads to the jnode.
THEOREM PathsAlwaysResolve == Spec => []PathsResolve
BY PathInvResolves, PathInvAlways, PTL
===============================================================================
