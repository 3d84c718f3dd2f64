---------------------------- MODULE CommandsProofs ----------------------------
(***************************************************************************)
(* Lemmas about sequences of commands: which commands are kept, what a     *)
(* sequence leaves of the file system, and what a reduction takes with it. *)
(***************************************************************************)
EXTENDS Commands, SequenceLemmas

(***************************************************************************)
(* Values                                                                  *)
(***************************************************************************)
Word == Nat \cup {"/"}
Path == {q \in Seq(Word) : q # << >> /\ q[1] = "/"}
FdKey == {Fd(n) : n \in Nat}

\* A command has the fields of its type.
Cmd ==
  [type_ : Makes \cup PathUses, path_ : Path]
  \cup [type_ : Links, old_path_ : Path, new_path_ : Path]
  \cup [type_ : Opens, path_ : Path, fd_ : FdKey]
  \cup [type_ : FdUses, fd_ : FdKey]
  \cup [type_ : Globals]

Space ==
  [dirs : SUBSET Path, files : SUBSET Path, others : SUBSET Path, open : SUBSET FdKey,
   names : Nat, fds : Nat]

(***************************************************************************)
(* The commands that are kept                                              *)
(***************************************************************************)
\* f goes through cmds and appends what is in S.
Keeps(f, cmds, S) ==
  /\ f[0] = << >>
  /\ \A k \in 0..(Len(cmds) - 1) :
       f[k + 1] = IF k + 1 \in S THEN Append(f[k], cmds[k + 1]) ELSE f[k]

LEMMA PositionsOf ==
  ASSUME NEW C, NEW cmds \in Seq(C)
  PROVE  LET order == [i \in DOMAIN cmds |-> i]
         IN  /\ DOMAIN cmds = 1..Len(cmds) /\ Len(cmds) \in Nat
             /\ order \in Seq(1..Len(cmds)) /\ Len(order) = Len(cmds)
             /\ DOMAIN order = 1..Len(cmds)
             /\ \A i \in 1..Len(cmds) : order[i] = i
<1> DEFINE n == Len(cmds)
<1>1. n \in Nat /\ DOMAIN cmds = 1..n
  OBVIOUS
<1>2. [i \in 1..n |-> i] \in Seq(1..n) /\ Len([i \in 1..n |-> i]) = n
  BY <1>1
<1> QED BY <1>1, <1>2

LEMMA KeptPasses ==
  ASSUME NEW C, NEW cmds \in Seq(C), NEW S
  PROVE  \E f \in [0..Len(cmds) -> Seq(C)] : Keeps(f, cmds, S) /\ Kept(cmds, S) = f[Len(cmds)]
<1> DEFINE n == Len(cmds)
           order == [i \in DOMAIN cmds |-> i]
           op(x, j) == IF j \in S THEN Append(x, cmds[j]) ELSE x
           st == [x \in Seq(C) |-> [j \in 1..n |-> op(x, j)]]
           c == CHOOSE g : g = [T \in SUBSET (1..n) |->
                   IF T = {} THEN << >> ELSE op(g[T \ {Max(T)}], order[Max(T)])]
<1>1. /\ n \in Nat /\ DOMAIN cmds = 1..n /\ order \in Seq(1..n) /\ Len(order) = n
      /\ DOMAIN order = 1..n /\ \A i \in 1..n : order[i] = i
  BY PositionsOf
<1> HIDE DEF n, order
<1>2. Kept(cmds, S) = c[1..n]
  BY <1>1 DEF Kept, FoldLeftDomain, FoldLeft, MapThenFoldSet, order
<1>3. \A x \in Seq(C), j \in 1..n : op(x, j) \in Seq(C) /\ st[x][j] = op(x, j)
  <2>1. \A j \in 1..n : cmds[j] \in C
    BY <1>1 DEF n
  <2> QED BY <2>1
<1>4. st \in [Seq(C) -> [1..n -> Seq(C)]]
  BY <1>3
<1>5. << >> \in Seq(C)
  BY EmptySeq
<1> HIDE DEF st, op
<1>6. PICK it \in [SUBSET (1..n) -> Seq(C)] : Iterates(it, st, << >>, order)
  BY <1>1, <1>4, <1>5, FoldIterates
<1>7. ASSUME NEW T \in SUBSET (1..n)
      PROVE  it[T] = IF T = {} THEN << >> ELSE op(it[T \ {Max(T)}], order[Max(T)])
  <2>1. it[T] = IF T = {} THEN << >> ELSE st[it[T \ {Max(T)}]][order[Max(T)]]
    BY <1>1, <1>6 DEF Iterates
  <2>2. ASSUME T # {} PROVE st[it[T \ {Max(T)}]][order[Max(T)]] = op(it[T \ {Max(T)}], order[Max(T)])
    <3>1. Max(T) \in T
      BY <1>1, <2>2, MaxIsIn
    <3>2. order[Max(T)] \in 1..n /\ it[T \ {Max(T)}] \in Seq(C)
      BY <1>1, <1>6, <3>1
    <3> QED BY <1>3, <3>2
  <2> QED BY <2>1, <2>2
<1>8. it = [T \in SUBSET (1..n) |-> IF T = {} THEN << >> ELSE op(it[T \ {Max(T)}], order[Max(T)])]
  <2>1. it = [T \in SUBSET (1..n) |-> it[T]]
    BY <1>6
  <2> QED BY <2>1, <1>7
<1>9. c = [T \in SUBSET (1..n) |-> IF T = {} THEN << >> ELSE op(c[T \ {Max(T)}], order[Max(T)])]
  BY <1>8
<1> HIDE DEF c
<1>10. c[{}] = << >>
  <2>1. {} \in SUBSET (1..n)
    OBVIOUS
  <2> QED BY <1>9, <2>1
<1>11. ASSUME NEW T \in SUBSET (1..n), T # {}, c[T \ {Max(T)}] \in Seq(C)
       PROVE  c[T] = st[c[T \ {Max(T)}]][order[Max(T)]]
  <2>1. Max(T) \in 1..n /\ order[Max(T)] \in 1..n
    BY <1>1, <1>11, MaxIsIn
  <2> QED BY <1>3, <1>9, <1>11, <2>1
<1>12. PICK f \in [0..n -> Seq(C)] : Passes(f, st, << >>, order) /\ c[1..n] = f[n]
  <2>1. Folds(c, Seq(C), st, << >>, order)
    BY <1>1, <1>10, <1>11 DEF Folds
  <2>2. order \in Seq(1..n) /\ Len(order) = n
    BY <1>1
  <2> DEFINE base == << >>
             X == Seq(C)
             Y == 1..n
  <2>3. base \in X /\ st \in [X -> [Y -> X]] /\ order \in Seq(Y) /\ Folds(c, X, st, base, order)
    BY <1>4, <1>5, <2>1, <2>2
  <2> HIDE DEF base, X, Y
  <2>4. \E f \in [0..Len(order) -> X] :
          Passes(f, st, base, order) /\ c[1..Len(order)] = f[Len(order)]
    BY <2>3, FoldPasses
  <2> QED BY <2>2, <2>4 DEF base, X
<1>13. ASSUME NEW k \in 0..(n - 1) PROVE f[k + 1] = op(f[k], k + 1)
  <2>1. k \in 0..n /\ k + 1 \in 1..n /\ f[k] \in Seq(C) /\ order[k + 1] = k + 1
    BY <1>1, <1>12
  <2>2. f[k + 1] = st[f[k]][order[k + 1]]
    BY <1>1, <1>12 DEF Passes
  <2> QED BY <1>3, <2>1, <2>2
<1>14. Keeps(f, cmds, S)
  BY <1>12, <1>13 DEF Keeps, op, n, Passes
<1> QED BY <1>2, <1>12, <1>14 DEF n

(***************************************************************************)
(* What a sequence does to a file system                                   *)
(***************************************************************************)
LEMMA CmdFields ==
  ASSUME NEW c \in Cmd
  PROVE  /\ c.type_ \in Makes \cup PathUses => c.path_ \in Path
         /\ c.type_ \in Links => c.old_path_ \in Path /\ c.new_path_ \in Path
         /\ c.type_ \in Opens => c.path_ \in Path /\ c.fd_ \in FdKey
         /\ c.type_ \in FdUses => c.fd_ \in FdKey
         /\ c.type_ \in Makes \cup PathUses \cup Links \cup Opens \cup FdUses \cup Globals
BY DEF Cmd, Makes, PathUses, Links, Opens, FdUses, Globals

LEMMA EmptyIsSpace == Empty \in Space
<1>1. Root \in Path
  <2>1. "/" \in Word
    BY DEF Word
  <2>2. Root \in Seq(Word) /\ Len(Root) = 1 /\ Root[1] = "/"
    BY <2>1 DEF Root
  <2> QED BY <2>2 DEF Path
<1> QED BY <1>1 DEF Empty, Space

LEMMA MovedIsPath ==
  ASSUME NEW p \in Path, NEW q \in Path, NEW r \in Path
  PROVE  p \o SubSeq(q, Len(r) + 1, Len(q)) \in Path
<1>1. /\ Len(q) \in Nat /\ Len(r) \in Nat /\ \A i \in 1..Len(q) : q[i] \in Word
      /\ p \in Seq(Word) /\ Len(p) \in Nat /\ Len(p) # 0 /\ p[1] = "/"
  BY EmptySeq DEF Path
<1>2. SubSeq(q, Len(r) + 1, Len(q)) \in Seq(Word)
  <2>1. \A i \in (Len(r) + 1)..Len(q) : q[i] \in Word
    BY <1>1
  <2> QED BY <1>1, <2>1, SubSeqProperties
<1> DEFINE w == SubSeq(q, Len(r) + 1, Len(q))
<1> HIDE DEF w
<1>3. p \o w \in Seq(Word) /\ Len(p \o w) = Len(p) + Len(w) /\ Len(w) \in Nat
  BY <1>1, <1>2, ConcatProperties DEF w
<1>4. p \o w # << >> /\ (p \o w)[1] = p[1]
  <2>1. 1 \in 1..Len(p)
    BY <1>1
  <2> QED BY <1>1, <1>2, <1>3, <2>1, EmptySeq, ConcatProperties DEF w
<1> QED BY <1>1, <1>3, <1>4 DEF Path, w

\* Where a rename moves what is in S
Moved(c, S) == {IF IsPrefix(c.old_path_, q)
                THEN c.new_path_ \o SubSeq(q, Len(c.old_path_) + 1, Len(q))
                ELSE q : q \in S}
Renamed(s, c) ==
  [s EXCEPT !.dirs = Moved(c, s.dirs), !.files = Moved(c, s.files), !.others = Moved(c, s.others)]

LEMMA AfterRename ==
  ASSUME NEW s, NEW c, c.type_ = "RENAME"
  PROVE  After(s, c) = Renamed(s, c)
BY SMTT(60) DEF After, Renamed, Moved, Opens

LEMMA RenamedIs ==
  ASSUME NEW s \in Space, NEW c
  PROVE  /\ Renamed(s, c).dirs = Moved(c, s.dirs) /\ Renamed(s, c).files = Moved(c, s.files)
         /\ Renamed(s, c).others = Moved(c, s.others) /\ Renamed(s, c).open = s.open
         /\ Renamed(s, c).names = s.names /\ Renamed(s, c).fds = s.fds
BY DEF Renamed, Space

LEMMA AfterIsSpace ==
  ASSUME NEW s \in Space, NEW c \in Cmd
  PROVE  After(s, c) \in Space
<1>1. /\ c.type_ \in Makes \cup PathUses => c.path_ \in Path
      /\ c.type_ \in Links => c.old_path_ \in Path /\ c.new_path_ \in Path
      /\ c.type_ \in Opens => c.path_ \in Path /\ c.fd_ \in FdKey
      /\ c.type_ \in FdUses => c.fd_ \in FdKey
  BY CmdFields
<1>2. \A P \in SUBSET Path : Without(s, P) \in Space
  BY DEF Space, Without
<1>3. \A p \in Path : At(s, p) \in SUBSET Path
  BY DEF Space, At, Nodes
<1>5. CASE c.type_ = "RENAME"
  <2>1. \A S \in SUBSET Path : Moved(c, S) \in SUBSET Path
    BY <1>1, <1>5, MovedIsPath DEF Moved, Links
  <2>2. Renamed(s, c) \in Space
    BY <2>1 DEF Space, Renamed
  <2> QED BY <1>5, <2>2, AfterRename
<1>6. CASE c.type_ = "MKDIR"
  BY <1>1, <1>6 DEF After, Space, Makes
<1>7. CASE c.type_ = "CREATE"
  BY <1>1, <1>7 DEF After, Space, Makes
<1>8. CASE c.type_ = "MKNOD"
  BY <1>1, <1>8 DEF After, Space, Makes
<1>9. CASE c.type_ = "SYMLINK"
  BY <1>1, <1>9 DEF After, Space, Links
<1>10. CASE c.type_ = "HARDLINK"
  BY <1>1, <1>10 DEF After, Space, Links
<1>11. CASE c.type_ \in Opens
  <2>1. After(s, c) = [s EXCEPT !.open = s.open \cup {c.fd_}]
    BY <1>11 DEF After, Opens
  <2> QED BY <1>1, <1>11, <2>1 DEF Space
<1>12. CASE c.type_ = "CLOSE"
  BY <1>1, <1>12 DEF After, Space, Opens
<1>13. CASE c.type_ = "REMOVE"
  BY <1>1, <1>2, <1>3, <1>13 DEF After, PathUses, Opens
<1>14. CASE c.type_ = "REDUCE"
  <2>1. After(s, c) = IF c.path_ \in s.files THEN s ELSE Without(s, At(s, c.path_))
    BY <1>14 DEF After, Opens
  <2>2. c.path_ \in Path
    BY <1>1, <1>14 DEF PathUses
  <2> QED BY <1>2, <1>3, <2>1, <2>2
<1> QED BY <1>5, <1>6, <1>7, <1>8, <1>9, <1>10, <1>11, <1>12, <1>13, <1>14 DEF After

\* g tells what there is after each of cmds, all of which succeed.
Runs(g, cmds) ==
  /\ g[0] = Empty
  /\ \A k \in 0..(Len(cmds) - 1) :
       Succeeds(g[k], cmds[k + 1]) /\ g[k + 1] = After(g[k], cmds[k + 1])

\* All of cmds succeed and leave s.
Leaves(cmds, s) ==
  \E g \in [0..Len(cmds) -> Space] : Runs(g, cmds) /\ g[Len(cmds)] = s

\* The fold of AllSucceed
Tries(f, cmds) ==
  /\ f[0] = [ok |-> TRUE, s |-> Empty]
  /\ \A k \in 0..(Len(cmds) - 1) :
       f[k + 1] = [ok |-> f[k].ok /\ Succeeds(f[k].s, cmds[k + 1]),
                   s |-> After(f[k].s, cmds[k + 1])]

LEMMA AllSucceedPasses ==
  ASSUME NEW cmds \in Seq(Cmd)
  PROVE  \E f \in [0..Len(cmds) -> [ok : BOOLEAN, s : Space]] :
           Tries(f, cmds) /\ AllSucceed(cmds) = f[Len(cmds)].ok
<1> DEFINE n == Len(cmds)
           X == [ok : BOOLEAN, s : Space]
           base == [ok |-> TRUE, s |-> Empty]
           op(run, c) == [ok |-> run.ok /\ Succeeds(run.s, c), s |-> After(run.s, c)]
           st == [x \in X |-> [y \in Cmd |-> op(x, y)]]
           c == CHOOSE g : g = [T \in SUBSET (1..n) |->
                   IF T = {} THEN base ELSE op(g[T \ {Max(T)}], cmds[Max(T)])]
<1>1. n \in Nat /\ DOMAIN cmds = 1..n /\ \A i \in 1..n : cmds[i] \in Cmd
  OBVIOUS
<1> HIDE DEF n
<1>2. AllSucceed(cmds) = c[1..n].ok
  BY <1>1 DEF AllSucceed, FoldLeft, MapThenFoldSet
<1>3. \A x \in X, y \in Cmd : op(x, y) \in X /\ st[x][y] = op(x, y)
  <2>1. \A x \in X, y \in Cmd : After(x.s, y) \in Space
    BY AfterIsSpace
  <2>2. \A s, y : Succeeds(s, y) \in BOOLEAN
    BY DEF Succeeds
  <2> QED BY <2>1, <2>2
<1>4. st \in [X -> [Cmd -> X]]
  <2> HIDE DEF X, op
  <2> QED BY <1>3
<1>5. base \in X
  BY EmptyIsSpace
<1> HIDE DEF st, op, X, base
<1>6. PICK it \in [SUBSET (1..n) -> X] : Iterates(it, st, base, cmds)
  BY <1>1, <1>4, <1>5, FoldIterates DEF n
<1>7. ASSUME NEW T \in SUBSET (1..n)
      PROVE  it[T] = IF T = {} THEN base ELSE op(it[T \ {Max(T)}], cmds[Max(T)])
  <2>1. it[T] = IF T = {} THEN base ELSE st[it[T \ {Max(T)}]][cmds[Max(T)]]
    BY <1>1, <1>6 DEF Iterates, n
  <2>2. ASSUME T # {} PROVE st[it[T \ {Max(T)}]][cmds[Max(T)]] = op(it[T \ {Max(T)}], cmds[Max(T)])
    <3>1. Max(T) \in T
      BY <1>1, <2>2, MaxIsIn
    <3>2. cmds[Max(T)] \in Cmd /\ it[T \ {Max(T)}] \in X
      BY <1>1, <1>6, <3>1
    <3> QED BY <1>3, <3>2
  <2> QED BY <2>1, <2>2
<1>8. it = [T \in SUBSET (1..n) |-> IF T = {} THEN base ELSE op(it[T \ {Max(T)}], cmds[Max(T)])]
  <2>1. it = [T \in SUBSET (1..n) |-> it[T]]
    BY <1>6
  <2> QED BY <2>1, <1>7
<1>9. c = [T \in SUBSET (1..n) |-> IF T = {} THEN base ELSE op(c[T \ {Max(T)}], cmds[Max(T)])]
  BY <1>8
<1> HIDE DEF c
<1>10. c[{}] = base
  <2>1. {} \in SUBSET (1..n)
    OBVIOUS
  <2> QED BY <1>9, <2>1
<1>11. ASSUME NEW T \in SUBSET (1..n), T # {}, c[T \ {Max(T)}] \in X
       PROVE  c[T] = st[c[T \ {Max(T)}]][cmds[Max(T)]]
  <2>1. Max(T) \in 1..n /\ cmds[Max(T)] \in Cmd
    BY <1>1, <1>11, MaxIsIn
  <2> QED BY <1>3, <1>9, <1>11, <2>1
<1>12. PICK f \in [0..n -> X] : Passes(f, st, base, cmds) /\ c[1..n] = f[n]
  <2>1. Folds(c, X, st, base, cmds)
    BY <1>10, <1>11 DEF Folds, n
  <2> QED BY <1>4, <1>5, <2>1, FoldPasses DEF n
<1>13. ASSUME NEW k \in 0..(n - 1) PROVE f[k + 1] = op(f[k], cmds[k + 1])
  <2>1. k \in 0..n /\ k + 1 \in 1..n
    BY <1>1
  <2> QED BY <1>1, <1>3, <1>12, <2>1 DEF Passes, n
<1>14. Tries(f, cmds)
  BY <1>12, <1>13 DEF Tries, op, base, n, Passes
<1> QED BY <1>2, <1>12, <1>14 DEF n, X

\* All commands succeed when there is a space that they leave.
LEMMA AllSucceedLeaves ==
  ASSUME NEW cmds \in Seq(Cmd)
  PROVE  AllSucceed(cmds) <=> \E s \in Space : Leaves(cmds, s)
<1> DEFINE n == Len(cmds)
<1>1. n \in Nat /\ \A i \in 1..n : cmds[i] \in Cmd
  OBVIOUS
<1>2. PICK f \in [0..n -> [ok : BOOLEAN, s : Space]] : Tries(f, cmds) /\ AllSucceed(cmds) = f[n].ok
  BY AllSucceedPasses
<1>3. /\ f[0] = [ok |-> TRUE, s |-> Empty]
      /\ \A k \in 0..(n - 1) :
           /\ f[k + 1].ok = (f[k].ok /\ Succeeds(f[k].s, cmds[k + 1]))
           /\ f[k + 1].s = After(f[k].s, cmds[k + 1])
  <2>1. \A a, b : [ok |-> a, s |-> b].ok = a /\ [ok |-> a, s |-> b].s = b
    OBVIOUS
  <2>2. \A k \in 0..(n - 1) : f[k + 1] = [ok |-> f[k].ok /\ Succeeds(f[k].s, cmds[k + 1]),
                                        s |-> After(f[k].s, cmds[k + 1])]
    BY <1>2 DEF Tries
  <2>3. f[0] = [ok |-> TRUE, s |-> Empty]
    BY <1>2 DEF Tries
  <2> HIDE DEF n
  <2>4. ASSUME NEW k \in 0..(n - 1)
        PROVE  /\ f[k + 1].ok = (f[k].ok /\ Succeeds(f[k].s, cmds[k + 1]))
               /\ f[k + 1].s = After(f[k].s, cmds[k + 1])
    <3> DEFINE a == f[k].ok /\ Succeeds(f[k].s, cmds[k + 1])
               b == After(f[k].s, cmds[k + 1])
    <3>1. f[k + 1] = [ok |-> a, s |-> b]
      BY <2>2
    <3> HIDE DEF a, b
    <3>2. f[k + 1].ok = a /\ f[k + 1].s = b
      BY <3>1
    <3> QED BY <3>2 DEF a, b
  <2> QED BY <2>3, <2>4
<1>4. \A k \in 0..n : f[k].ok \in BOOLEAN /\ f[k].s \in Space
  BY <1>2
<1>5. \A k \in 0..(n - 1) : n - (k + 1) \in 0..(n - 1) /\ (n - (k + 1)) + 1 = n - k /\ k + 1 \in 0..n
                            /\ n - (k + 1) \in 0..n /\ n - k \in 0..n
  BY <1>1
<1> HIDE DEF n
<1>6. ASSUME AllSucceed(cmds) PROVE \E s \in Space : Leaves(cmds, s)
  <2> DEFINE G == {k \in 0..n : f[n - k].ok}
  <2>1. 0 \in G
    <3>1. 0 \in 0..n /\ n - 0 = n
      BY <1>1
    <3> QED BY <1>2, <1>6, <3>1
  <2>2. \A k \in 0..(n - 1) : k \in G => k + 1 \in G
    <3> SUFFICES ASSUME NEW k \in 0..(n - 1), f[n - k].ok PROVE f[n - (k + 1)].ok
      BY <1>5
    <3>1. f[(n - (k + 1)) + 1].ok = (f[n - (k + 1)].ok /\ Succeeds(f[n - (k + 1)].s, cmds[(n - (k + 1)) + 1]))
      BY <1>3, <1>5
    <3>2. f[(n - (k + 1)) + 1].ok
      BY <1>5
    <3> QED BY <3>1, <3>2
  <2>3. 0..n \subseteq G
    <3> HIDE DEF G
    <3> QED BY <1>1, <2>1, <2>2, UpToInduction
  <2>4. \A k \in 0..n : f[k].ok
    <3> SUFFICES ASSUME NEW k \in 0..n PROVE f[k].ok
      OBVIOUS
    <3>1. n - k \in 0..n /\ n - (n - k) = k
      BY <1>1
    <3>2. n - k \in G
      BY <2>3, <3>1
    <3> QED BY <3>1, <3>2
  <2> DEFINE g == [k \in 0..n |-> f[k].s]
  <2>5. g \in [0..n -> Space]
    BY <1>4
  <2>6. \A k \in 0..(n - 1) : k \in 0..n /\ k + 1 \in 0..n
    BY <1>1
  <2>7. Runs(g, cmds)
    <3>1. g[0] = Empty
      <4>1. 0 \in 0..n
        BY <1>1
      <4> QED BY <1>3, <4>1
    <3>2. ASSUME NEW k \in 0..(n - 1)
          PROVE  Succeeds(g[k], cmds[k + 1]) /\ g[k + 1] = After(g[k], cmds[k + 1])
      <4>1. f[k + 1].ok /\ g[k] = f[k].s /\ g[k + 1] = f[k + 1].s
        BY <2>4, <2>6
      <4>2. f[k + 1].ok = (f[k].ok /\ Succeeds(f[k].s, cmds[k + 1]))
        BY <1>3
      <4>3. f[k + 1].s = After(f[k].s, cmds[k + 1])
        BY <1>3
      <4>4. Succeeds(f[k].s, cmds[k + 1])
        BY <4>1, <4>2
      <4> QED BY <4>1, <4>3, <4>4
    <3> HIDE DEF g
    <3> QED BY <3>1, <3>2 DEF Runs, n
  <2>8. g[n] \in Space
    <3>1. n \in 0..n
      BY <1>1
    <3> QED BY <2>5, <3>1
  <2> HIDE DEF g
  <2> QED BY <2>5, <2>7, <2>8 DEF Leaves, n
<1>7. ASSUME NEW s \in Space, Leaves(cmds, s) PROVE AllSucceed(cmds)
  <2>1. PICK g \in [0..n -> Space] : Runs(g, cmds)
    BY <1>7 DEF Leaves, n
  <2> DEFINE G == {k \in 0..n : f[k].ok /\ f[k].s = g[k]}
  <2>2. 0 \in G
    <3>1. 0 \in 0..n
      BY <1>1
    <3> QED BY <1>3, <2>1, <3>1 DEF Runs
  <2>3. \A k \in 0..(n - 1) : k \in G => k + 1 \in G
    <3> SUFFICES ASSUME NEW k \in 0..(n - 1), f[k].ok, f[k].s = g[k]
                 PROVE  f[k + 1].ok /\ f[k + 1].s = g[k + 1]
      BY <1>5
    <3>1. Succeeds(g[k], cmds[k + 1]) /\ g[k + 1] = After(g[k], cmds[k + 1])
      BY <2>1 DEF Runs, n
    <3>2. f[k + 1].ok = (f[k].ok /\ Succeeds(f[k].s, cmds[k + 1]))
      BY <1>3
    <3>3. f[k + 1].s = After(f[k].s, cmds[k + 1])
      BY <1>3
    <3> QED BY <3>1, <3>2, <3>3
  <2>4. 0..n \subseteq G
    <3> HIDE DEF G
    <3> QED BY <1>1, <2>2, <2>3, UpToInduction
  <2>5. n \in G
    <3>1. n \in 0..n
      BY <1>1
    <3> QED BY <2>4, <3>1
  <2> QED BY <1>2, <2>5
<1> QED BY <1>6, <1>7

LEMMA LeavesEmpty == Leaves(<< >>, Empty)
<1> DEFINE g == [k \in 0..Len(<< >>) |-> Empty]
<1>1. Len(<< >>) = 0 /\ 0..0 = {0} /\ 0..(0 - 1) = {}
  OBVIOUS
<1>2. g \in [0..Len(<< >>) -> Space] /\ g[0] = Empty /\ g[Len(<< >>)] = Empty
  BY <1>1, EmptyIsSpace
<1> HIDE DEF g
<1>3. Runs(g, << >>)
  BY <1>1, <1>2 DEF Runs
<1> QED BY <1>2, <1>3 DEF Leaves

LEMMA LeavesAppend ==
  ASSUME NEW cmds \in Seq(Cmd), NEW s \in Space, Leaves(cmds, s), NEW c \in Cmd, Succeeds(s, c)
  PROVE  Append(cmds, c) \in Seq(Cmd) /\ Leaves(Append(cmds, c), After(s, c))
<1> DEFINE n == Len(cmds)
           a == Append(cmds, c)
<1>1. /\ a \in Seq(Cmd) /\ Len(a) = n + 1 /\ n \in Nat
      /\ a[n + 1] = c /\ \A i \in 1..n : a[i] = cmds[i]
  OBVIOUS
<1>2. PICK g \in [0..n -> Space] : Runs(g, cmds) /\ g[n] = s
  BY DEF Leaves
<1>3. /\ g[0] = Empty
      /\ \A k \in 0..(n - 1) : Succeeds(g[k], cmds[k + 1]) /\ g[k + 1] = After(g[k], cmds[k + 1])
  BY <1>2 DEF Runs
<1> HIDE DEF n, a
<1> DEFINE h == [k \in 0..(n + 1) |-> IF k = n + 1 THEN After(s, c) ELSE g[k]]
<1>4. h \in [0..(n + 1) -> Space]
  <2>1. After(s, c) \in Space
    BY AfterIsSpace
  <2>2. \A k \in 0..(n + 1) : k # n + 1 => k \in 0..n
    BY <1>1
  <2> QED BY <1>2, <2>1, <2>2
<1>5. h[n + 1] = After(s, c) /\ \A k \in 0..n : h[k] = g[k]
  BY <1>1
<1> HIDE DEF h
<1>6. Runs(h, a)
  <2>1. h[0] = Empty
    BY <1>1, <1>3, <1>5
  <2>2. ASSUME NEW k \in 0..n
        PROVE  Succeeds(h[k], a[k + 1]) /\ h[k + 1] = After(h[k], a[k + 1])
    <3>1. CASE k = n
      BY <1>1, <1>2, <1>5, <3>1
    <3>2. CASE k # n
      <4>1. k \in 0..(n - 1) /\ k + 1 \in 1..n /\ k + 1 \in 0..n
        BY <1>1, <3>2
      <4>2. h[k] = g[k] /\ h[k + 1] = g[k + 1] /\ a[k + 1] = cmds[k + 1]
        BY <1>1, <1>5, <4>1
      <4> QED BY <1>3, <4>1, <4>2
    <3> QED BY <3>1, <3>2
  <2>3. 0..(Len(a) - 1) = 0..n
    BY <1>1
  <2> QED BY <2>1, <2>2, <2>3 DEF Runs
<1>7. a \in Seq(Cmd) /\ Leaves(a, After(s, c))
  BY <1>1, <1>4, <1>5, <1>6 DEF Leaves
<1> QED BY <1>7 DEF a

\* What runs to its end can be cut off anywhere.
LEMMA LeavesPrefix ==
  ASSUME NEW cmds \in Seq(Cmd), AllSucceed(cmds), NEW m \in 0..Len(cmds)
  PROVE  SubSeq(cmds, 1, m) \in Seq(Cmd) /\ AllSucceed(SubSeq(cmds, 1, m))
<1> DEFINE a == SubSeq(cmds, 1, m)
           n == Len(cmds)
<1>1. n \in Nat /\ m \in Nat /\ m <= n
  OBVIOUS
<1>2. a \in Seq(Cmd) /\ Len(a) = m /\ \A i \in 1..m : a[i] = cmds[i]
  <2>1. \A i \in 1..m : cmds[i] \in Cmd
    OBVIOUS
  <2>2. /\ a \in Seq(Cmd) /\ Len(a) = IF 1 <= m THEN m - 1 + 1 ELSE 0
        /\ \A i \in 1..(m - 1 + 1) : a[i] = cmds[1 + i - 1]
    BY <1>1, <2>1, SubSeqProperties
  <2>3. m - 1 + 1 = m /\ (~(1 <= m) => m = 0) /\ \A i \in 1..m : 1 + i - 1 = i
    BY <1>1
  <2> HIDE DEF a
  <2> QED BY <2>2, <2>3
<1>3. PICK s \in Space : Leaves(cmds, s)
  BY AllSucceedLeaves
<1>4. PICK g \in [0..n -> Space] : Runs(g, cmds)
  BY <1>3 DEF Leaves
<1> HIDE DEF a, n
<1> DEFINE h == [k \in 0..m |-> g[k]]
<1>5. h \in [0..m -> Space] /\ h[m] \in Space /\ h[0] = g[0]
  BY <1>1, <1>4
<1>6. Runs(h, a)
  <2>1. ASSUME NEW k \in 0..(m - 1)
        PROVE  Succeeds(h[k], a[k + 1]) /\ h[k + 1] = After(h[k], a[k + 1])
    <3>1. k \in 0..m /\ k + 1 \in 0..m /\ k + 1 \in 1..m /\ k \in 0..(n - 1)
      BY <1>1
    <3>2. h[k] = g[k] /\ h[k + 1] = g[k + 1] /\ a[k + 1] = cmds[k + 1]
      BY <1>2, <3>1
    <3>3. Succeeds(g[k], cmds[k + 1]) /\ g[k + 1] = After(g[k], cmds[k + 1])
      BY <1>4, <3>1 DEF Runs, n
    <3> HIDE DEF h
    <3> QED BY <3>2, <3>3
  <2> HIDE DEF h
  <2> QED BY <1>2, <1>4, <1>5, <2>1 DEF Runs
<1> HIDE DEF h
<1>7. Leaves(a, h[m])
  BY <1>2, <1>5, <1>6 DEF Leaves
<1>8. AllSucceed(a)
  BY <1>2, <1>5, <1>7, AllSucceedLeaves
<1> QED BY <1>2, <1>8 DEF a

(***************************************************************************)
(* What the generator pushes                                               *)
(***************************************************************************)
\* A space apart from what has been issued
Bare(s) == [s EXCEPT !.names = 0, !.fds = 0]

LEMMA BareSpace ==
  ASSUME NEW s \in Space
  PROVE  /\ Bare(s) \in Space
         /\ Bare(s).dirs = s.dirs /\ Bare(s).files = s.files /\ Bare(s).others = s.others
         /\ Bare(s).open = s.open /\ Bare(s).names = 0 /\ Bare(s).fds = 0
         /\ Nodes(Bare(s)) = Nodes(s) /\ \A p : At(Bare(s), p) = At(s, p)
BY DEF Bare, Space, Nodes, At

LEMMA OfferedCmd ==
  ASSUME NEW s \in Space, NEW c \in Offered(s)
  PROVE  c \in Cmd
<1> DEFINE fresh == {Append(d, s.names + 1) : d \in IF s.names < MaxNames THEN s.dirs ELSE {}}
           new(t) == IF t = "RENAME" THEN fresh \cup s.dirs ELSE fresh
<1>1. s.dirs \subseteq Path /\ Nodes(s) \subseteq Path /\ s.open \subseteq FdKey
      /\ s.names + 1 \in Word /\ Fd(s.fds + 1) \in FdKey
  BY DEF Space, Nodes, Word, FdKey
<1>2. fresh \subseteq Path
  <2>1. ASSUME NEW d \in Path PROVE Append(d, s.names + 1) \in Path
    <3>1. d \in Seq(Word) /\ Len(d) \in Nat /\ Len(d) # 0 /\ d[1] = "/"
      BY EmptySeq DEF Path
    <3>2. 1 \in 1..Len(d)
      BY <3>1
    <3> DEFINE x == s.names + 1
               a == Append(d, x)
    <3>3. x \in Word
      BY <1>1
    <3> HIDE DEF x
    <3>4. a \in Seq(Word) /\ Len(a) = Len(d) + 1 /\ a[1] = d[1]
      BY <3>1, <3>2, <3>3, AppendProperties
    <3> HIDE DEF a
    <3>5. a # << >>
      BY <3>1, <3>4, EmptySeq
    <3> QED BY <3>1, <3>4, <3>5 DEF Path, a, x
  <2> QED BY <1>1, <2>1
<1>3. \A t : new(t) \subseteq Path
  <2> HIDE DEF fresh
  <2> QED BY <1>1, <1>2
<1> HIDE DEF fresh, new
<1>4. CASE c \in {[type_ |-> t, path_ |-> p] : t \in Types \cap Makes, p \in fresh}
  BY <1>2, <1>4 DEF Cmd
<1>5. CASE c \in UNION {{[type_ |-> t, old_path_ |-> p, new_path_ |-> q] :
                         p \in Nodes(s), q \in new(t)} : t \in Types \cap Links}
  BY <1>1, <1>3, <1>5 DEF Cmd
<1>6. CASE c \in {[type_ |-> t, path_ |-> p, fd_ |-> Fd(s.fds + 1)] :
                  t \in Types \cap Opens, p \in IF s.fds < MaxFds THEN Nodes(s) ELSE {}}
  <2>1. PICK t \in Opens, p \in Path : c = [type_ |-> t, path_ |-> p, fd_ |-> Fd(s.fds + 1)]
    <3> DEFINE P == IF s.fds < MaxFds THEN Nodes(s) ELSE {}
    <3>1. P \subseteq Path
      BY <1>1
    <3> HIDE DEF P
    <3> QED BY <1>6, <3>1 DEF P
  <2> QED BY <1>1, <2>1 DEF Cmd, Opens
<1>7. CASE c \in {[type_ |-> t, fd_ |-> f] : t \in Types \cap FdUses, f \in s.open}
  BY <1>1, <1>7 DEF Cmd
<1>8. CASE c \in {[type_ |-> t] : t \in Types \cap Globals}
  BY <1>8 DEF Cmd
<1>9. CASE c \in {[type_ |-> t, path_ |-> p] : t \in Types \cap PathUses, p \in Nodes(s)}
  BY <1>1, <1>9 DEF Cmd
<1> DEFINE A == {[type_ |-> t, path_ |-> p] : t \in Types \cap Makes, p \in fresh}
           B == UNION {{[type_ |-> t, old_path_ |-> p, new_path_ |-> q] :
                        p \in Nodes(s), q \in new(t)} : t \in Types \cap Links}
           C == {[type_ |-> t, path_ |-> p, fd_ |-> Fd(s.fds + 1)] :
                 t \in Types \cap Opens, p \in IF s.fds < MaxFds THEN Nodes(s) ELSE {}}
           D == {[type_ |-> t, fd_ |-> f] : t \in Types \cap FdUses, f \in s.open}
           E == {[type_ |-> t] : t \in Types \cap Globals}
           F == {[type_ |-> t, path_ |-> p] : t \in Types \cap PathUses, p \in Nodes(s)}
<1>10. Offered(s) = A \cup B \cup C \cup D \cup E \cup F
  BY DEF Offered, fresh, new
<1>11. (c \in A => c \in Cmd) /\ (c \in B => c \in Cmd) /\ (c \in C => c \in Cmd)
       /\ (c \in D => c \in Cmd) /\ (c \in E => c \in Cmd) /\ (c \in F => c \in Cmd)
  BY <1>4, <1>5, <1>6, <1>7, <1>8, <1>9
<1> HIDE DEF A, B, C, D, E, F
<1> QED BY <1>10, <1>11

LEMMA BareIs ==
  ASSUME NEW s \in Space
  PROVE  Bare(s) = [dirs |-> s.dirs, files |-> s.files, others |-> s.others, open |-> s.open,
                    names |-> 0, fds |-> 0]
<1> DEFINE u == [s EXCEPT !.names = 0]
<1>1. u \in Space /\ u.dirs = s.dirs /\ u.files = s.files /\ u.others = s.others
      /\ u.open = s.open /\ u.names = 0
  BY DEF Space
<1> HIDE DEF u
<1> DEFINE v == [u EXCEPT !.fds = 0]
<1>2. v \in Space /\ v.dirs = u.dirs /\ v.files = u.files /\ v.others = u.others
      /\ v.open = u.open /\ v.names = u.names /\ v.fds = 0
  BY <1>1 DEF Space
<1>3. Bare(s) = v
  BY DEF Bare, u, v
<1> HIDE DEF v
<1>4. v = [dirs |-> v.dirs, files |-> v.files, others |-> v.others, open |-> v.open,
           names |-> v.names, fds |-> v.fds]
  BY <1>2 DEF Space
<1> QED BY <1>1, <1>2, <1>3, <1>4

\* Two spaces that are alike are alike after a command, and agree on its success.
Alike(s, u) ==
  s.dirs = u.dirs /\ s.files = u.files /\ s.others = u.others /\ s.open = u.open

LEMMA AlikeSucceeds ==
  ASSUME NEW s \in Space, NEW u \in Space, Alike(s, u), NEW c \in Cmd
  PROVE  Succeeds(s, c) <=> Succeeds(u, c)
<1>1. Nodes(s) = Nodes(u)
  BY DEF Alike, Nodes
<1>2. \A p : At(s, p) = At(u, p)
  BY <1>1 DEF At
<1> QED BY <1>1, <1>2 DEF Alike, Succeeds

LEMMA AlikeAfter ==
  ASSUME NEW s \in Space, NEW u \in Space, Alike(s, u), NEW c \in Cmd
  PROVE  Alike(After(s, c), After(u, c))
<1>1. Nodes(s) = Nodes(u)
  BY DEF Alike, Nodes
<1>2. \A p : At(s, p) = At(u, p)
  BY <1>1 DEF At
<1>4. \A g : Alike(Without(s, g), Without(u, g))
  BY DEF Alike, Without, Space
<1>5. CASE c.type_ = "RENAME"
  BY <1>5, AfterRename, RenamedIs DEF Alike
<1>6. CASE c.type_ = "MKDIR"
  BY <1>6 DEF After, Alike, Space
<1>7. CASE c.type_ = "CREATE"
  BY <1>7 DEF After, Alike, Space
<1>8. CASE c.type_ = "MKNOD"
  BY <1>8 DEF After, Alike, Space
<1>9. CASE c.type_ = "SYMLINK"
  BY <1>9 DEF After, Alike, Space
<1>10. CASE c.type_ = "HARDLINK"
  BY <1>10 DEF After, Alike, Space
<1>11. CASE c.type_ \in Opens
  <2>1. /\ After(s, c) = [s EXCEPT !.open = s.open \cup {c.fd_}]
        /\ After(u, c) = [u EXCEPT !.open = u.open \cup {c.fd_}]
    BY <1>11 DEF After, Opens
  <2> QED BY <2>1 DEF Alike, Space
<1>12. CASE c.type_ = "CLOSE"
  BY <1>12 DEF After, Alike, Space, Opens
<1>13. CASE c.type_ = "REMOVE"
  <2>1. After(s, c) = Without(s, At(s, c.path_)) /\ After(u, c) = Without(u, At(u, c.path_))
    BY <1>13 DEF After, Opens
  <2> QED BY <1>2, <1>4, <2>1
<1>14. CASE c.type_ = "REDUCE"
  <2>1. /\ After(s, c) = IF c.path_ \in s.files THEN s ELSE Without(s, At(s, c.path_))
        /\ After(u, c) = IF c.path_ \in u.files THEN u ELSE Without(u, At(u, c.path_))
    BY <1>14 DEF After, Opens
  <2>2. s.files = u.files
    BY DEF Alike
  <2> QED BY <1>2, <1>4, <2>1, <2>2
<1> QED BY <1>5, <1>6, <1>7, <1>8, <1>9, <1>10, <1>11, <1>12, <1>13, <1>14 DEF After

LEMMA BareOfAlike ==
  ASSUME NEW s \in Space, NEW u \in Space, Alike(s, u), u.names = 0, u.fds = 0
  PROVE  Bare(s) = u
<1>1. u = [dirs |-> u.dirs, files |-> u.files, others |-> u.others, open |-> u.open,
           names |-> u.names, fds |-> u.fds]
  BY DEF Space
<1> QED BY <1>1, BareIs DEF Alike

LEMMA AfterKeepsIssued ==
  ASSUME NEW s \in Space, NEW c \in Cmd
  PROVE  After(s, c).names = s.names /\ After(s, c).fds = s.fds
<1>1. CASE c.type_ = "RENAME"
  BY <1>1, AfterRename, RenamedIs
<1>2. \A P : Without(s, P).names = s.names /\ Without(s, P).fds = s.fds
  BY DEF Without, Space
<1>3. \A P : [s EXCEPT !.dirs = P].names = s.names /\ [s EXCEPT !.dirs = P].fds = s.fds
  BY DEF Space
<1>4. \A P : [s EXCEPT !.files = P].names = s.names /\ [s EXCEPT !.files = P].fds = s.fds
  BY DEF Space
<1>5. \A P : [s EXCEPT !.others = P].names = s.names /\ [s EXCEPT !.others = P].fds = s.fds
  BY DEF Space
<1>6. \A P : [s EXCEPT !.open = P].names = s.names /\ [s EXCEPT !.open = P].fds = s.fds
  BY DEF Space
<1>7. CASE c.type_ # "RENAME"
  <2> USE DEF After
  <2>1. CASE c.type_ = "MKDIR"
    BY <1>3, <2>1
  <2>2. CASE c.type_ \in {"CREATE", "HARDLINK"}
    BY <1>4, <2>2
  <2>3. CASE c.type_ \in {"MKNOD", "SYMLINK"}
    BY <1>5, <2>3
  <2>4. CASE c.type_ \in Opens
    BY <1>6, <2>4 DEF Opens
  <2>5. CASE c.type_ = "CLOSE"
    BY <1>6, <2>5 DEF Opens
  <2>6. CASE c.type_ = "REMOVE"
    BY <1>2, <2>6 DEF Opens
  <2>7. CASE c.type_ = "REDUCE"
    BY <1>2, <2>7 DEF Opens
  <2> QED BY <1>7, <2>1, <2>2, <2>3, <2>4, <2>5, <2>6, <2>7
<1> QED BY <1>1, <1>7

LEMMA IssueIs ==
  ASSUME NEW s \in Space, NEW c
  PROVE  Issue(s, c) \in Space /\ Alike(Issue(s, c), s)
<1>1. CASE c.type_ \in Makes
  BY <1>1 DEF Issue, Space, Alike
<1>2. CASE c.type_ \notin Makes /\ c.type_ \in Links /\ c.new_path_ \notin s.dirs
  <2>1. Issue(s, c) = [s EXCEPT !.names = s.names + 1]
    BY <1>2 DEF Issue, Links, Opens, Makes
  <2> QED BY <2>1 DEF Space, Alike
<1>3. CASE c.type_ \in Opens
  <2>1. Issue(s, c) = [s EXCEPT !.fds = s.fds + 1]
    BY <1>3 DEF Issue, Links, Opens, Makes
  <2> QED BY <2>1 DEF Space, Alike
<1>4. CASE c.type_ \notin Makes /\ ~(c.type_ \in Links /\ c.new_path_ \notin s.dirs)
           /\ c.type_ \notin Opens
  BY <1>4 DEF Issue, Alike
<1> QED BY <1>1, <1>2, <1>3, <1>4

\* A command that may be pushed succeeds, and leaves what the generator counts on.
LEMMA PushedIs ==
  ASSUME NEW s \in Space, NEW c \in Pushes(s)
  PROVE  /\ c \in Cmd /\ Pushed(s, c) \in Space
         /\ Succeeds(Bare(s), c) /\ Bare(Pushed(s, c)) = After(Bare(s), c)
<1>1. c \in Cmd /\ Succeeds(s, c)
  BY OfferedCmd DEF Pushes
<1>2. Bare(s) \in Space /\ Alike(s, Bare(s)) /\ Bare(s).names = 0 /\ Bare(s).fds = 0
  BY BareSpace DEF Alike
<1>3. Issue(s, c) \in Space /\ Alike(Issue(s, c), Bare(s))
  BY <1>2, IssueIs DEF Alike
<1>4. Pushed(s, c) \in Space /\ Alike(Pushed(s, c), After(Bare(s), c))
  BY <1>1, <1>2, <1>3, AfterIsSpace, AlikeAfter DEF Pushed
<1>5. Succeeds(Bare(s), c)
  BY <1>1, <1>2, AlikeSucceeds
<1>6. After(Bare(s), c) \in Space /\ After(Bare(s), c).names = 0 /\ After(Bare(s), c).fds = 0
  BY <1>1, <1>2, AfterIsSpace, AfterKeepsIssued
<1>7. Bare(Pushed(s, c)) = After(Bare(s), c)
  BY <1>4, <1>6, BareOfAlike
<1> QED BY <1>1, <1>4, <1>5, <1>7

LEMMA AppendToSet ==
  ASSUME NEW C, NEW s \in Seq(C), NEW e \in C
  PROVE  ToSet(Append(s, e)) = ToSet(s) \cup {e}
<1> DEFINE r == Append(s, e)
           n == Len(s)
<1>1. /\ n \in Nat /\ DOMAIN s = 1..n /\ DOMAIN r = 1..(n + 1) /\ r[n + 1] = e
      /\ \A i \in 1..n : r[i] = s[i] /\ i \in 1..(n + 1)
      /\ \A i \in 1..(n + 1) : i \in 1..n \/ i = n + 1
      /\ n + 1 \in 1..(n + 1)
  OBVIOUS
<1> HIDE DEF r, n
<1>2. ToSet(r) = {r[i] : i \in 1..(n + 1)} /\ ToSet(s) = {s[i] : i \in 1..n}
  BY <1>1 DEF ToSet
<1>3. {r[i] : i \in 1..(n + 1)} \subseteq {s[i] : i \in 1..n} \cup {e}
  BY <1>1
<1>4. {s[i] : i \in 1..n} \cup {e} \subseteq {r[i] : i \in 1..(n + 1)}
  BY <1>1
<1> QED BY <1>2, <1>3, <1>4 DEF r

(***************************************************************************)
(* What is left when commands are taken out                                *)
(***************************************************************************)
LEMMA KeptElements ==
  ASSUME NEW C, NEW cmds \in Seq(C), NEW S
  PROVE  /\ Kept(cmds, S) \in Seq(C)
         /\ ToSet(Kept(cmds, S)) = {cmds[j] : j \in S \cap DOMAIN cmds}
<1> DEFINE n == Len(cmds)
<1>1. n \in Nat /\ DOMAIN cmds = 1..n /\ \A j \in 1..n : cmds[j] \in C
  OBVIOUS
<1>2. PICK f \in [0..n -> Seq(C)] : Keeps(f, cmds, S) /\ Kept(cmds, S) = f[n]
  BY KeptPasses
<1>3. /\ f[0] = << >>
      /\ \A k \in 0..(n - 1) :
           f[k + 1] = IF k + 1 \in S THEN Append(f[k], cmds[k + 1]) ELSE f[k]
  BY <1>2 DEF Keeps
<1> HIDE DEF n
<1> DEFINE G == {k \in 0..n : ToSet(f[k]) = {cmds[j] : j \in S \cap (1..k)}}
<1>4. 0 \in G
  <2>1. 0 \in 0..n /\ S \cap (1..0) = {}
    BY <1>1
  <2>2. DOMAIN << >> = {} /\ ToSet(<< >>) = {}
    BY DEF ToSet
  <2> QED BY <1>3, <2>1, <2>2
<1>5. ASSUME NEW k \in 0..(n - 1), k \in G PROVE k + 1 \in G
  <2>1. k + 1 \in 0..n /\ k + 1 \in 1..n /\ k \in 0..n /\ f[k] \in Seq(C) /\ cmds[k + 1] \in C
    BY <1>1, <1>2
  <2>2. ToSet(f[k]) = {cmds[j] : j \in S \cap (1..k)}
    BY <1>5
  <2>3. 1..(k + 1) = (1..k) \cup {k + 1}
    BY <2>1
  <2>4. CASE k + 1 \in S
    <3>1. f[k + 1] = Append(f[k], cmds[k + 1])
      BY <1>3, <2>4
    <3>2. ToSet(Append(f[k], cmds[k + 1])) = ToSet(f[k]) \cup {cmds[k + 1]}
      BY <2>1, AppendToSet
    <3>3. S \cap (1..(k + 1)) = (S \cap (1..k)) \cup {k + 1}
      BY <2>3, <2>4
    <3> QED BY <2>1, <2>2, <3>1, <3>2, <3>3
  <2>5. CASE k + 1 \notin S
    <3>1. f[k + 1] = f[k] /\ S \cap (1..(k + 1)) = S \cap (1..k)
      BY <1>3, <2>3, <2>5
    <3> QED BY <2>1, <2>2, <3>1
  <2> QED BY <2>4, <2>5
<1>6. n \in G
  <2>1. 0..n \subseteq G
    <3> HIDE DEF G
    <3> QED BY <1>1, <1>4, <1>5, UpToInduction
  <2>2. n \in 0..n
    BY <1>1
  <2> QED BY <2>1, <2>2
<1>7. f[n] \in Seq(C)
  <2>1. n \in 0..n
    BY <1>1
  <2> QED BY <1>2, <2>1
<1> QED BY <1>1, <1>2, <1>6, <1>7

\* h says where in cmds the commands are that have been kept in x.
Places(h, x, cmds, T) ==
  /\ h \in [1..Len(x) -> T]
  /\ \A i \in 1..Len(x) : x[i] = cmds[h[i]]
  /\ \A i, m \in 1..Len(x) : i < m => h[i] < h[m]
  /\ \A j \in T : \E i \in 1..Len(x) : h[i] = j

LEMMA KeptPlaces ==
  ASSUME NEW C, NEW cmds \in Seq(C), NEW S
  PROVE  \E h : Places(h, Kept(cmds, S), cmds, S \cap (1..Len(cmds)))
<1> DEFINE n == Len(cmds)
<1>1. n \in Nat /\ DOMAIN cmds = 1..n /\ \A j \in 1..n : cmds[j] \in C
  OBVIOUS
<1>2. PICK f \in [0..n -> Seq(C)] : Keeps(f, cmds, S) /\ Kept(cmds, S) = f[n]
  BY KeptPasses
<1>3. /\ f[0] = << >>
      /\ \A k \in 0..(n - 1) :
           f[k + 1] = IF k + 1 \in S THEN Append(f[k], cmds[k + 1]) ELSE f[k]
  BY <1>2 DEF Keeps
<1> HIDE DEF n
<1> DEFINE G == {k \in 0..n : \E h : Places(h, f[k], cmds, S \cap (1..k))}
<1>4. 0 \in G
  <2>1. 0 \in 0..n /\ S \cap (1..0) = {} /\ f[0] = << >> /\ Len(f[0]) = 0 /\ 1..0 = {}
    BY <1>1, <1>3
  <2> DEFINE h == [i \in {} |-> i]
  <2>2. h \in [{} -> {}]
    OBVIOUS
  <2> HIDE DEF h
  <2>3. Places(h, f[0], cmds, S \cap (1..0))
    BY <2>1, <2>2 DEF Places
  <2> QED BY <2>1, <2>3
<1>5. ASSUME NEW k \in 0..(n - 1), k \in G PROVE k + 1 \in G
  <2>1. k + 1 \in 0..n /\ k + 1 \in 1..n /\ k \in 0..n /\ f[k] \in Seq(C) /\ cmds[k + 1] \in C
    BY <1>1, <1>2
  <2>2. PICK h : Places(h, f[k], cmds, S \cap (1..k))
    BY <1>5
  <2>3. 1..(k + 1) = (1..k) \cup {k + 1}
    BY <2>1
  <2>4. CASE k + 1 \in S
    <3> DEFINE l == Len(f[k])
               g == [i \in 1..(l + 1) |-> IF i = l + 1 THEN k + 1 ELSE h[i]]
               T == S \cap (1..k)
               U == S \cap (1..(k + 1))
    <3>1. f[k + 1] = Append(f[k], cmds[k + 1])
      BY <1>3, <2>4
    <3>2. /\ l \in Nat /\ Len(f[k + 1]) = l + 1 /\ f[k + 1][l + 1] = cmds[k + 1]
          /\ \A i \in 1..l : f[k + 1][i] = f[k][i]
      BY <2>1, <3>1
    <3>3. /\ h \in [1..l -> T] /\ \A i \in 1..l : f[k][i] = cmds[h[i]]
          /\ \A i, m \in 1..l : i < m => h[i] < h[m]
          /\ \A j \in T : \E i \in 1..l : h[i] = j
      BY <2>2 DEF Places
    <3> HIDE DEF l
    <3>4. /\ \A i \in 1..(l + 1) : i \in 1..l \/ i = l + 1
          /\ l + 1 \in 1..(l + 1) /\ l + 1 \notin 1..l /\ \A i \in 1..l : i \in 1..(l + 1)
          /\ \A i, m \in 1..(l + 1) : i < m => i \in 1..l
      BY <3>2
    <3>5. U = T \cup {k + 1} /\ \A j \in T : j < k + 1
      BY <2>1, <2>3, <2>4
    <3> HIDE DEF T, U
    <3>6. /\ \A i \in 1..l : g[i] = h[i] /\ g[i] \in T
          /\ g[l + 1] = k + 1
      BY <3>3, <3>4
    <3>7. g \in [1..(l + 1) -> U]
      BY <3>3, <3>4, <3>5
    <3> HIDE DEF g
    <3>8. \A i \in 1..(l + 1) : f[k + 1][i] = cmds[g[i]]
      BY <3>2, <3>3, <3>4, <3>6
    <3>9. \A i, m \in 1..(l + 1) : i < m => g[i] < g[m]
      BY <3>3, <3>4, <3>5, <3>6
    <3>10. \A j \in U : \E i \in 1..(l + 1) : g[i] = j
      BY <3>3, <3>4, <3>5, <3>6
    <3>11. Places(g, f[k + 1], cmds, U)
      BY <3>2, <3>7, <3>8, <3>9, <3>10 DEF Places
    <3> QED BY <2>1, <3>11 DEF U
  <2>5. CASE k + 1 \notin S
    <3>1. f[k + 1] = f[k] /\ S \cap (1..(k + 1)) = S \cap (1..k)
      BY <1>3, <2>3, <2>5
    <3> QED BY <2>1, <2>2, <3>1
  <2> QED BY <2>4, <2>5
<1>6. n \in G
  <2>1. 0..n \subseteq G
    <3> HIDE DEF G
    <3> QED BY <1>1, <1>4, <1>5, UpToInduction
  <2>2. n \in 0..n
    BY <1>1
  <2> QED BY <2>1, <2>2
<1> QED BY <1>2, <1>6 DEF n

(***************************************************************************)
(* A command that renames nothing adds what it defines and takes out what  *)
(* its own arguments say.                                                  *)
(***************************************************************************)
Created == Makes \cup {"SYMLINK", "HARDLINK"}
MadeBy(c, T) == IF c.type_ \in T THEN {Def(c)} ELSE {}
Gone(s, c) ==
  CASE c.type_ = "REMOVE" -> {q \in Path : IsPrefix(c.path_, q)}
    [] c.type_ = "REDUCE" /\ c.path_ \notin s.files -> {q \in Path : IsPrefix(c.path_, q)}
    [] OTHER -> {}
Closed(c) == IF c.type_ = "CLOSE" THEN {c.fd_} ELSE {}

LEMMA AfterFields ==
  ASSUME NEW s \in Space, NEW c \in Cmd, c.type_ # "RENAME"
  PROVE  /\ After(s, c).dirs = (s.dirs \ Gone(s, c)) \cup MadeBy(c, {"MKDIR"})
         /\ After(s, c).files = (s.files \ Gone(s, c)) \cup MadeBy(c, {"CREATE", "HARDLINK"})
         /\ After(s, c).others = (s.others \ Gone(s, c)) \cup MadeBy(c, {"MKNOD", "SYMLINK"})
         /\ After(s, c).open = (s.open \ Closed(c)) \cup MadeBy(c, Opens)
<1>1. s.dirs \subseteq Path /\ s.files \subseteq Path /\ s.others \subseteq Path
  BY DEF Space
<1>2. \A P : /\ Without(s, P).dirs = s.dirs \ P /\ Without(s, P).files = s.files \ P
             /\ Without(s, P).others = s.others \ P /\ Without(s, P).open = s.open
  BY DEF Without, Space
<1>3. \A p : /\ s.dirs \ At(s, p) = s.dirs \ {q \in Path : IsPrefix(p, q)}
             /\ s.files \ At(s, p) = s.files \ {q \in Path : IsPrefix(p, q)}
             /\ s.others \ At(s, p) = s.others \ {q \in Path : IsPrefix(p, q)}
  BY <1>1 DEF At, Nodes
<1>4. CASE c.type_ = "MKDIR"
  BY <1>4 DEF After, Space, MadeBy, Gone, Closed, Opens, Def, Makes, Links
<1>5. CASE c.type_ = "CREATE"
  BY <1>5 DEF After, Space, MadeBy, Gone, Closed, Opens, Def, Makes, Links
<1>6. CASE c.type_ = "MKNOD"
  BY <1>6 DEF After, Space, MadeBy, Gone, Closed, Opens, Def, Makes, Links
<1>7. CASE c.type_ = "SYMLINK"
  BY <1>7 DEF After, Space, MadeBy, Gone, Closed, Opens, Def, Makes, Links
<1>8. CASE c.type_ = "HARDLINK"
  BY <1>8 DEF After, Space, MadeBy, Gone, Closed, Opens, Def, Makes, Links
<1>9. CASE c.type_ \in Opens
  <2>1. After(s, c) = [s EXCEPT !.open = s.open \cup {c.fd_}]
    BY <1>9 DEF After, Opens
  <2>2. Gone(s, c) = {} /\ Closed(c) = {} /\ MadeBy(c, Opens) = {c.fd_}
    BY <1>9 DEF Gone, Closed, Opens, MadeBy, Def, Makes, Links
  <2>3. /\ MadeBy(c, {"MKDIR"}) = {} /\ MadeBy(c, {"CREATE", "HARDLINK"}) = {}
        /\ MadeBy(c, {"MKNOD", "SYMLINK"}) = {}
    BY <1>9 DEF MadeBy, Opens
  <2> QED BY <2>1, <2>2, <2>3 DEF Space
<1>10. CASE c.type_ = "CLOSE"
  BY <1>10 DEF After, Space, MadeBy, Gone, Closed, Opens, Def, Makes, Links
<1>11. CASE c.type_ = "REMOVE"
  <2>1. After(s, c) = Without(s, At(s, c.path_))
    BY <1>11 DEF After, Opens
  <2>2. Gone(s, c) = {q \in Path : IsPrefix(c.path_, q)} /\ Closed(c) = {}
    BY <1>11 DEF Gone, Closed
  <2> QED BY <1>2, <1>3, <1>11, <2>1, <2>2 DEF MadeBy, Opens
<1>12. CASE c.type_ = "REDUCE"
  <2>1. /\ Closed(c) = {} /\ MadeBy(c, Opens) = {} /\ MadeBy(c, {"MKDIR"}) = {}
        /\ MadeBy(c, {"CREATE", "HARDLINK"}) = {} /\ MadeBy(c, {"MKNOD", "SYMLINK"}) = {}
    BY <1>12 DEF Closed, MadeBy, Opens
  <2>2. CASE c.path_ \in s.files
    <3>1. After(s, c) = s
      BY <1>12, <2>2 DEF After, Opens
    <3>2. Gone(s, c) = {}
      BY <1>12, <2>2 DEF Gone
    <3> QED BY <2>1, <3>1, <3>2
  <2>3. CASE c.path_ \notin s.files
    <3>1. After(s, c) = Without(s, At(s, c.path_))
      BY <1>12, <2>3 DEF After, Opens
    <3>2. Gone(s, c) = {q \in Path : IsPrefix(c.path_, q)}
      BY <1>12, <2>3 DEF Gone
    <3> QED BY <1>2, <1>3, <2>1, <3>1, <3>2
  <2> QED BY <2>2, <2>3
<1>13. CASE c.type_ \notin {"MKDIR", "CREATE", "MKNOD", "SYMLINK", "HARDLINK", "CLOSE", "REMOVE", "REDUCE"} \cup Opens
  <2>1. After(s, c) = s
    BY <1>13 DEF After
  <2>2. Gone(s, c) = {} /\ Closed(c) = {}
    BY <1>13 DEF Gone, Closed
  <2> QED BY <1>13, <2>1, <2>2 DEF MadeBy
<1> QED BY <1>4, <1>5, <1>6, <1>7, <1>8, <1>9, <1>10, <1>11, <1>12, <1>13

\* What c uses is there in t, as in s, and what it makes is not.
LEMMA SucceedsToo ==
  ASSUME NEW s \in Space, NEW t \in Space, NEW c \in Cmd, c.type_ # "RENAME", Succeeds(s, c),
         Use(c) \cap s.dirs \subseteq t.dirs, Use(c) \cap s.files \subseteq t.files,
         Use(c) \cap s.others \subseteq t.others, Use(c) \cap s.open \subseteq t.open,
         c.type_ \in Created => Def(c) \notin Nodes(t)
  PROVE  Succeeds(t, c)
<1>1. \A p \in Use(c) : p \in Nodes(s) => p \in Nodes(t)
  BY DEF Nodes
<1>2. CASE c.type_ \in Makes
  <2>1. Use(c) = {ParentDir(c.path_)} /\ Def(c) = c.path_
    BY <1>2 DEF Use, Def, Makes, Links, Opens, FdUses, Globals
  <2>2. ParentDir(c.path_) \in s.dirs
    BY <1>2 DEF Succeeds, Makes, Opens, FdUses, Globals, PathUses
  <2> QED BY <1>2, <2>1, <2>2 DEF Succeeds, Created
<1>3. CASE c.type_ \in {"SYMLINK", "HARDLINK"}
  <2>1. Use(c) = {c.old_path_, ParentDir(c.new_path_)} /\ Def(c) = c.new_path_
    BY <1>3 DEF Use, Def, Makes, Links, Opens, FdUses, Globals
  <2>2. ParentDir(c.new_path_) \in s.dirs /\ (c.type_ = "HARDLINK" => c.old_path_ \in s.files)
    BY <1>3 DEF Succeeds, Makes, Opens, FdUses, Globals, PathUses
  <2> QED BY <1>3, <2>1, <2>2 DEF Succeeds, Created
<1>4. CASE c.type_ \in Opens
  <2>1. Use(c) = {c.path_}
    BY <1>4 DEF Use, Opens, Makes, Links, FdUses, Globals
  <2>2. (c.type_ = "OPEN" /\ c.path_ \in s.files) \/ (c.type_ = "OPEN_TMPFILE" /\ c.path_ \in s.dirs)
    BY <1>4 DEF Succeeds, Makes, Opens, FdUses, Globals, PathUses
  <2> QED BY <2>1, <2>2 DEF Succeeds
<1>5. CASE c.type_ \in FdUses
  <2>1. Use(c) = {c.fd_}
    BY <1>5 DEF Use, Makes, Links, FdUses, Globals
  <2>2. c.fd_ \in s.open
    BY <1>5 DEF Succeeds, Makes, Opens, FdUses, Globals, PathUses
  <2> QED BY <1>5, <2>1, <2>2 DEF Succeeds
<1>6. CASE c.type_ \in Globals
  <2>1. c.type_ \notin Untracked
    BY <1>6 DEF Succeeds, Makes, Opens, FdUses, Globals, PathUses, Untracked
  <2> QED BY <1>6, <2>1 DEF Succeeds
<1>7. CASE c.type_ \in PathUses
  <2>1. Use(c) = {c.path_}
    BY <1>7 DEF Use, Makes, Links, FdUses, Globals, PathUses
  <2>2. /\ c.type_ \notin Untracked /\ c.path_ \in Nodes(s)
        /\ c.type_ \in {"REMOVE", "REDUCE"} => c.path_ # Root
        /\ c.type_ # "REMOVE" => c.path_ \in s.dirs \cup s.files
        /\ c.type_ \in {"DEEPEN", "CHROOT"} => c.path_ \in s.dirs
    BY <1>7 DEF Succeeds, Makes, Opens, FdUses, Globals, PathUses, Untracked
  <2> QED BY <1>1, <1>7, <2>1, <2>2 DEF Succeeds
<1>8. c.type_ \in Makes \cup PathUses \cup {"SYMLINK", "HARDLINK"} \cup Opens \cup FdUses \cup Globals
  BY CmdFields DEF Links
<1> QED BY <1>2, <1>3, <1>4, <1>5, <1>6, <1>7, <1>8

\* Nothing is renamed, and each name is made once.
PlainNames(cmds) ==
  /\ \A m \in 1..Len(cmds) :
       cmds[m].type_ # "RENAME" /\ (cmds[m].type_ \in Created => Def(cmds[m]) # Root)
  /\ \A m, k \in 1..Len(cmds) :
       m < k /\ cmds[m].type_ \in Created /\ cmds[k].type_ \in Created
         => Def(cmds[m]) # Def(cmds[k])

\* No command that is kept uses what one before it defines that is not.
KeptUseKept(cmds, S) ==
  \A j \in S \cap (1..Len(cmds)), m \in 1..Len(cmds) :
    m < j /\ m \notin S => Def(cmds[m]) \notin Use(cmds[j])

\* What is left runs when no command in it uses what one that is not defines: it leaves
\* all that the whole sequence does, but for what has not been defined.
LEMMA KeptRuns ==
  ASSUME NEW cmds \in Seq(Cmd), AllSucceed(cmds), PlainNames(cmds), NEW S, KeptUseKept(cmds, S)
  PROVE  Kept(cmds, S) \in Seq(Cmd) /\ AllSucceed(Kept(cmds, S))
<1> DEFINE n == Len(cmds)
<1>1. n \in Nat /\ DOMAIN cmds = 1..n /\ \A j \in 1..n : cmds[j] \in Cmd
  OBVIOUS
<1>2. PICK f \in [0..n -> Seq(Cmd)] : Keeps(f, cmds, S) /\ Kept(cmds, S) = f[n]
  BY KeptPasses
<1>3. PICK g \in [0..n -> Space] : Runs(g, cmds)
  BY AllSucceedLeaves DEF Leaves
<1>4. /\ f[0] = << >> /\ g[0] = Empty
      /\ \A k \in 0..(n - 1) :
           /\ f[k + 1] = IF k + 1 \in S THEN Append(f[k], cmds[k + 1]) ELSE f[k]
           /\ Succeeds(g[k], cmds[k + 1]) /\ g[k + 1] = After(g[k], cmds[k + 1])
  BY <1>2, <1>3 DEF Keeps, Runs
<1>5. \A j \in 1..n : cmds[j].type_ # "RENAME" /\ (cmds[j].type_ \in Created => Def(cmds[j]) # Root)
  BY DEF PlainNames
<1>6. \A m, k \in 1..n : m < k /\ cmds[m].type_ \in Created /\ cmds[k].type_ \in Created
                           => Def(cmds[m]) # Def(cmds[k])
  BY DEF PlainNames
<1>7. \A j \in S \cap (1..n), m \in 1..n : m < j /\ m \notin S => Def(cmds[m]) \notin Use(cmds[j])
  BY DEF KeptUseKept
<1> HIDE DEF n
<1> DEFINE D(m) == Def(cmds[m])
           Here(k, p) == \A m \in 1..k : m \notin S => D(m) # p
           Made(k) == {D(m) : m \in {j \in 1..k : cmds[j].type_ \in Created}}
           Follows(t, k) ==
             /\ Leaves(f[k], t)
             /\ Nodes(t) \subseteq {Root} \cup Made(k)
             /\ \A p \in g[k].dirs : Here(k, p) => p \in t.dirs
             /\ \A p \in g[k].files : Here(k, p) => p \in t.files
             /\ \A p \in g[k].others : Here(k, p) => p \in t.others
             /\ \A p \in g[k].open : Here(k, p) => p \in t.open
           G == {k \in 0..n : \E t \in Space : Follows(t, k)}
<1>8. 0 \in G
  <2>1. 0 \in 0..n
    BY <1>1
  <2>2. Nodes(Empty) = {Root}
    BY DEF Nodes, Empty
  <2>3. Follows(Empty, 0)
    BY <1>4, <2>2, LeavesEmpty
  <2> HIDE DEF Follows
  <2> QED BY <2>1, <2>3, EmptyIsSpace
<1>9. ASSUME NEW k \in 0..(n - 1), k \in G PROVE k + 1 \in G
  <2>1. k + 1 \in 0..n /\ k + 1 \in 1..n /\ k \in 0..n /\ \A m \in 1..k : m \in 1..n /\ m < k + 1
    BY <1>1
  <2>2. PICK t \in Space : Follows(t, k)
    BY <1>9
  <2> DEFINE c == cmds[k + 1]
  <2>3. /\ c \in Cmd /\ c.type_ # "RENAME" /\ Succeeds(g[k], c) /\ g[k + 1] = After(g[k], c)
        /\ g[k] \in Space /\ f[k] \in Seq(Cmd)
    BY <1>1, <1>2, <1>3, <1>4, <1>5, <2>1
  <2>4. 1..(k + 1) = (1..k) \cup {k + 1}
    BY <2>1
  <2>5. \A p : Here(k + 1, p) <=> Here(k, p) /\ (k + 1 \notin S => Def(c) # p)
    BY <2>4
  <2>6. /\ g[k + 1].dirs = (g[k].dirs \ Gone(g[k], c)) \cup MadeBy(c, {"MKDIR"})
        /\ g[k + 1].files = (g[k].files \ Gone(g[k], c)) \cup MadeBy(c, {"CREATE", "HARDLINK"})
        /\ g[k + 1].others = (g[k].others \ Gone(g[k], c)) \cup MadeBy(c, {"MKNOD", "SYMLINK"})
        /\ g[k + 1].open = (g[k].open \ Closed(c)) \cup MadeBy(c, Opens)
    BY <2>3, AfterFields
  <2>7. \A T : MadeBy(c, T) \subseteq {Def(c)}
    BY DEF MadeBy
  <2>8. Made(k) \subseteq Made(k + 1) /\ (c.type_ \in Created => Def(c) \in Made(k + 1))
    BY <2>4
  <2>9. /\ Leaves(f[k], t)
        /\ Nodes(t) \subseteq {Root} \cup Made(k)
        /\ \A p \in g[k].dirs : Here(k, p) => p \in t.dirs
        /\ \A p \in g[k].files : Here(k, p) => p \in t.files
        /\ \A p \in g[k].others : Here(k, p) => p \in t.others
        /\ \A p \in g[k].open : Here(k, p) => p \in t.open
    BY <2>2
  <2>10. CASE k + 1 \notin S
    <3>1. f[k + 1] = f[k]
      BY <1>4, <2>10
    <3>2. \A p : Here(k + 1, p) => Here(k, p) /\ p # Def(c)
      BY <2>5, <2>10
    <3> HIDE DEF Here, Made, c
    <3>3. Follows(t, k + 1)
      BY <2>6, <2>7, <2>8, <2>9, <3>1, <3>2
    <3> HIDE DEF Follows
    <3> QED BY <2>1, <3>3
  <2>11. CASE k + 1 \in S
    <3>1. f[k + 1] = Append(f[k], c)
      BY <1>4, <2>11
    <3>2. \A p : Here(k + 1, p) <=> Here(k, p)
      BY <2>5, <2>11
    <3>3. \A p \in Use(c) : Here(k, p)
      BY <1>7, <2>1, <2>11
    <3>4. c.type_ \in Created => Def(c) \notin Nodes(t)
      <4>1. c.type_ \in Created => Def(c) # Root /\ \A m \in 1..k : cmds[m].type_ \in Created => D(m) # Def(c)
        BY <1>5, <1>6, <2>1
      <4> QED BY <2>9, <4>1
    <3> HIDE DEF Here, Made, c
    <3>5. Succeeds(t, c)
      BY <2>3, <2>9, <3>3, <3>4, SucceedsToo
    <3> DEFINE u == After(t, c)
    <3>6. u \in Space /\ Leaves(f[k + 1], u)
      BY <2>3, <2>9, <3>1, <3>5, AfterIsSpace, LeavesAppend
    <3>7. /\ u.dirs = (t.dirs \ Gone(t, c)) \cup MadeBy(c, {"MKDIR"})
          /\ u.files = (t.files \ Gone(t, c)) \cup MadeBy(c, {"CREATE", "HARDLINK"})
          /\ u.others = (t.others \ Gone(t, c)) \cup MadeBy(c, {"MKNOD", "SYMLINK"})
          /\ u.open = (t.open \ Closed(c)) \cup MadeBy(c, Opens)
      BY <2>3, AfterFields
    <3>10. Gone(t, c) \subseteq Gone(g[k], c)
      <4>1. c.type_ = "REDUCE" /\ c.path_ \in g[k].files => c.path_ \in t.files
        <5>1. c.type_ = "REDUCE" => c.path_ \in Use(c)
          BY DEF Use, Makes, Links, FdUses, Globals
        <5> QED BY <2>9, <3>3, <5>1
      <4> QED BY <4>1 DEF Gone
    <3> HIDE DEF u
    <3>8. Nodes(u) \subseteq {Root} \cup Made(k + 1)
      <4>1. /\ MadeBy(c, {"MKDIR"}) \subseteq Made(k + 1)
            /\ MadeBy(c, {"CREATE", "HARDLINK"}) \subseteq Made(k + 1)
            /\ MadeBy(c, {"MKNOD", "SYMLINK"}) \subseteq Made(k + 1)
        BY <2>8 DEF MadeBy, Created, Makes
      <4>2. t.dirs \cup t.files \cup t.others \subseteq {Root} \cup Made(k)
        BY <2>9 DEF Nodes
      <4> QED BY <2>8, <3>7, <4>1, <4>2 DEF Nodes
    <3>9. Follows(u, k + 1)
      BY <2>6, <2>9, <3>2, <3>6, <3>7, <3>8, <3>10
    <3> HIDE DEF Follows
    <3> QED BY <2>1, <3>6, <3>9
  <2> QED BY <2>10, <2>11
<1>10. n \in G
  <2>1. 0..n \subseteq G
    <3> HIDE DEF G
    <3> QED BY <1>1, <1>8, <1>9, UpToInduction
  <2>2. n \in 0..n
    BY <1>1
  <2> QED BY <2>1, <2>2
<1>11. PICK t \in Space : Leaves(f[n], t)
  BY <1>10
<1>12. f[n] \in Seq(Cmd)
  <2>1. n \in 0..n
    BY <1>1
  <2> QED BY <1>2, <2>1
<1> QED BY <1>2, <1>11, <1>12, AllSucceedLeaves

\* Each name is still made once.
LEMMA KeptPlain ==
  ASSUME NEW cmds \in Seq(Cmd), PlainNames(cmds), NEW S
  PROVE  PlainNames(Kept(cmds, S))
<1> DEFINE x == Kept(cmds, S)
           T == S \cap (1..Len(cmds))
<1>1. PICK h : Places(h, x, cmds, T)
  BY KeptPlaces
<1> HIDE DEF x
<1>2. /\ \A i \in 1..Len(x) : x[i] = cmds[h[i]] /\ h[i] \in 1..Len(cmds)
      /\ \A i, m \in 1..Len(x) : i < m => h[i] < h[m]
  BY <1>1 DEF Places
<1>3. PlainNames(x)
  BY <1>2 DEF PlainNames
<1> QED BY <1>3 DEF x

(***************************************************************************)
(* Names and descriptors are issued once                                   *)
(***************************************************************************)
\* The names in cmds have been issued in s, each once.
IssuedNames(cmds, s) ==
  /\ \A m \in 1..Len(cmds) : cmds[m].type_ \in Created =>
       \E d \in Path, x \in 1..s.names : Def(cmds[m]) = Append(d, x)
  /\ \A m, k \in 1..Len(cmds) :
       m < k /\ cmds[m].type_ \in Created /\ cmds[k].type_ \in Created
         => Def(cmds[m]) # Def(cmds[k])

\* A command that makes a name is offered with the next one to be issued.
LEMMA CreatedIsFresh ==
  ASSUME NEW s \in Space, NEW c \in Offered(s), c.type_ \in Created
  PROVE  \E d \in s.dirs : Def(c) = Append(d, s.names + 1)
<1> DEFINE fresh == {Append(d, s.names + 1) : d \in IF s.names < MaxNames THEN s.dirs ELSE {}}
           new(t) == IF t = "RENAME" THEN fresh \cup s.dirs ELSE fresh
           A == {[type_ |-> t, path_ |-> p] : t \in Types \cap Makes, p \in fresh}
           B == UNION {{[type_ |-> t, old_path_ |-> p, new_path_ |-> q] :
                        p \in Nodes(s), q \in new(t)} : t \in Types \cap Links}
           C == {[type_ |-> t, path_ |-> p, fd_ |-> Fd(s.fds + 1)] :
                 t \in Types \cap Opens, p \in IF s.fds < MaxFds THEN Nodes(s) ELSE {}}
           D == {[type_ |-> t, fd_ |-> f] : t \in Types \cap FdUses, f \in s.open}
           E == {[type_ |-> t] : t \in Types \cap Globals}
           F == {[type_ |-> t, path_ |-> p] : t \in Types \cap PathUses, p \in Nodes(s)}
<1>1. Offered(s) = A \cup B \cup C \cup D \cup E \cup F
  BY DEF Offered, fresh, new
<1>2. c \notin C /\ c \notin D /\ c \notin E /\ c \notin F
  BY DEF Created, Makes, Opens, FdUses, Globals, PathUses
<1>3. fresh \subseteq {Append(d, s.names + 1) : d \in s.dirs}
  OBVIOUS
<1> HIDE DEF fresh
<1>4. CASE c \in A
  <2>1. c.type_ \in Makes /\ c.path_ \in fresh
    BY <1>4
  <2>2. Def(c) = c.path_
    BY <2>1 DEF Def, Makes, Links, Opens
  <2> QED BY <1>3, <2>1, <2>2
<1>5. CASE c \in B
  <2>1. c.type_ \in Links /\ c.new_path_ \in new(c.type_)
    BY <1>5
  <2>2. c.new_path_ \in fresh /\ Def(c) = c.new_path_
    BY <2>1 DEF Def, Makes, Links, Opens, Created
  <2> QED BY <1>3, <2>2
<1> HIDE DEF A, B, C, D, E, F
<1> QED BY <1>1, <1>2, <1>4, <1>5

LEMMA IssueCounts ==
  ASSUME NEW s \in Space, NEW c \in Cmd, Succeeds(s, c)
  PROVE  /\ Issue(s, c).names \in {s.names, s.names + 1}
         /\ c.type_ \in Created => Issue(s, c).names = s.names + 1
<1>1. CASE c.type_ \in Makes
  <2>1. Issue(s, c) = [s EXCEPT !.names = s.names + 1]
    BY <1>1 DEF Issue, Links, Opens, Makes
  <2> QED BY <2>1 DEF Space
<1>2. CASE c.type_ \notin Makes /\ c.type_ \in Links /\ c.new_path_ \notin s.dirs
  <2>1. Issue(s, c) = [s EXCEPT !.names = s.names + 1]
    BY <1>2 DEF Issue, Links, Opens, Makes
  <2> QED BY <2>1 DEF Space
<1>3. CASE c.type_ \in Opens
  <2>1. Issue(s, c) = [s EXCEPT !.fds = s.fds + 1]
    BY <1>3 DEF Issue, Links, Opens, Makes
  <2> QED BY <1>3, <2>1 DEF Space, Opens, Created, Makes
<1>4. CASE c.type_ \notin Makes /\ ~(c.type_ \in Links /\ c.new_path_ \notin s.dirs)
           /\ c.type_ \notin Opens
  <2>1. Issue(s, c) = s
    BY <1>4 DEF Issue
  <2>2. c.type_ \notin Created
    <3>1. c.type_ \in {"SYMLINK", "HARDLINK"} => c.new_path_ \notin s.dirs
      BY DEF Succeeds, Makes, Opens, FdUses, Globals, PathUses, Nodes
    <3> QED BY <1>4, <3>1 DEF Created, Links
  <2> QED BY <2>1, <2>2
<1> QED BY <1>1, <1>2, <1>3, <1>4

LEMMA PushedNames ==
  ASSUME NEW cmds \in Seq(Cmd), NEW s \in Space, IssuedNames(cmds, s), NEW c \in Pushes(s)
  PROVE  IssuedNames(Append(cmds, c), Pushed(s, c))
<1> DEFINE n == Len(cmds)
           a == Append(cmds, c)
           u == Pushed(s, c)
<1>1. c \in Cmd /\ c \in Offered(s) /\ Succeeds(s, c)
  BY PushedIs DEF Pushes
<1>2. /\ n \in Nat /\ Len(a) = n + 1 /\ a[n + 1] = c
      /\ \A i \in 1..n : a[i] = cmds[i]
      /\ \A i \in 1..(n + 1) : i \in 1..n \/ i = n + 1
      /\ \A i, m \in 1..(n + 1) : i < m => i \in 1..n
  BY <1>1
<1>3. Issue(s, c) \in Space /\ u.names = Issue(s, c).names
  BY <1>1, IssueIs, AfterKeepsIssued DEF Pushed
<1>4. s.names \in Nat
  BY DEF Space
<1>5. /\ u.names \in {s.names, s.names + 1}
      /\ c.type_ \in Created => u.names = s.names + 1
  BY <1>1, <1>3, IssueCounts
<1>6. ASSUME c.type_ \in Created PROVE \E d \in Path : Def(c) = Append(d, s.names + 1)
  <2>1. s.dirs \subseteq Path
    BY DEF Space
  <2> QED BY <1>1, <1>6, <2>1, CreatedIsFresh
<1>7. /\ \A m \in 1..n : cmds[m].type_ \in Created =>
           \E d \in Path, x \in 1..s.names : Def(cmds[m]) = Append(d, x)
      /\ \A m, k \in 1..n :
           m < k /\ cmds[m].type_ \in Created /\ cmds[k].type_ \in Created
             => Def(cmds[m]) # Def(cmds[k])
  BY DEF IssuedNames
<1>8. ASSUME NEW m \in 1..n, cmds[m].type_ \in Created, c.type_ \in Created
      PROVE  Def(cmds[m]) # Def(c)
  <2>1. PICK d \in Path, x \in 1..s.names : Def(cmds[m]) = Append(d, x)
    BY <1>7, <1>8
  <2>2. PICK e \in Path : Def(c) = Append(e, s.names + 1)
    BY <1>6, <1>8
  <2>3. d \in Seq(Word) /\ e \in Seq(Word) /\ x \in Word /\ s.names + 1 \in Word
    BY <1>4 DEF Path, Word
  <2>4. Append(d, x) = Append(e, s.names + 1) => x = s.names + 1
    BY <2>3, AppendInjective
  <2>5. x # s.names + 1
    BY <1>4
  <2> QED BY <2>1, <2>2, <2>4, <2>5
<1> HIDE DEF a, u, n
<1>9. \A m \in 1..(n + 1) : a[m].type_ \in Created =>
        \E d \in Path, x \in 1..u.names : Def(a[m]) = Append(d, x)
  <2>1. 1..s.names \subseteq 1..u.names
    BY <1>4, <1>5
  <2>2. c.type_ \in Created => s.names + 1 \in 1..u.names
    BY <1>4, <1>5
  <2> QED BY <1>2, <1>6, <1>7, <2>1, <2>2
<1>10. \A m, k \in 1..(n + 1) :
         m < k /\ a[m].type_ \in Created /\ a[k].type_ \in Created => Def(a[m]) # Def(a[k])
  BY <1>2, <1>7, <1>8
<1> QED BY <1>2, <1>9, <1>10 DEF IssuedNames, a, u

LEMMA IssuedArePlain ==
  ASSUME NEW cmds \in Seq(Cmd), NEW s \in Space, IssuedNames(cmds, s),
         \A j \in 1..Len(cmds) : cmds[j].type_ # "RENAME"
  PROVE  PlainNames(cmds)
<1>1. ASSUME NEW m \in 1..Len(cmds), cmds[m].type_ \in Created PROVE Def(cmds[m]) # Root
  <2>1. PICK d \in Path, x \in 1..s.names : Def(cmds[m]) = Append(d, x)
    BY <1>1 DEF IssuedNames
  <2>2. d \in Seq(Word) /\ Len(d) \in Nat /\ Len(d) # 0
    BY EmptySeq DEF Path
  <2>3. x \in Word
    BY DEF Word, Space
  <2>4. Len(Append(d, x)) = Len(d) + 1
    BY <2>2, <2>3, AppendProperties
  <2>5. Len(Root) = 1
    BY DEF Root
  <2> DEFINE a == Append(d, x)
  <2> HIDE DEF a
  <2>6. Len(a) # Len(Root)
    BY <2>2, <2>4, <2>5 DEF a
  <2> QED BY <2>1, <2>6 DEF a
<1> QED BY <1>1 DEF PlainNames, IssuedNames

(***************************************************************************)
(* What is used has been issued                                            *)
(***************************************************************************)
LEMMA OfferedArgs ==
  ASSUME NEW s, NEW c \in Offered(s)
  PROVE  /\ c.type_ \in Types
         /\ c.type_ \in Links => c.old_path_ \in Nodes(s)
         /\ c.type_ \in Opens => c.path_ \in Nodes(s) /\ c.fd_ = Fd(s.fds + 1)
         /\ c.type_ \in FdUses => c.fd_ \in s.open
         /\ c.type_ \in PathUses => c.path_ \in Nodes(s)
<1> DEFINE fresh == {Append(d, s.names + 1) : d \in IF s.names < MaxNames THEN s.dirs ELSE {}}
           new(t) == IF t = "RENAME" THEN fresh \cup s.dirs ELSE fresh
           A == {[type_ |-> t, path_ |-> p] : t \in Types \cap Makes, p \in fresh}
           B == UNION {{[type_ |-> t, old_path_ |-> p, new_path_ |-> q] :
                        p \in Nodes(s), q \in new(t)} : t \in Types \cap Links}
           C == {[type_ |-> t, path_ |-> p, fd_ |-> Fd(s.fds + 1)] :
                 t \in Types \cap Opens, p \in IF s.fds < MaxFds THEN Nodes(s) ELSE {}}
           D == {[type_ |-> t, fd_ |-> f] : t \in Types \cap FdUses, f \in s.open}
           E == {[type_ |-> t] : t \in Types \cap Globals}
           F == {[type_ |-> t, path_ |-> p] : t \in Types \cap PathUses, p \in Nodes(s)}
<1>1. c \in A \cup B \cup C \cup D \cup E \cup F
  BY DEF Offered, fresh, new
<1> USE DEF Makes, Links, Opens, FdUses, Globals, PathUses
<1>2. CASE c \in A BY <1>2
<1>3. CASE c \in B
  <2>1. PICK t \in Types \cap Links :
          c \in {[type_ |-> t, old_path_ |-> p, new_path_ |-> q] : p \in Nodes(s), q \in new(t)}
    BY <1>3
  <2>2. c.type_ = t /\ c.old_path_ \in Nodes(s)
    <3> HIDE DEF new
    <3> QED BY <2>1
  <2> QED BY <2>1, <2>2
<1>4. CASE c \in C
  <2> DEFINE P == IF s.fds < MaxFds THEN Nodes(s) ELSE {}
  <2>1. P \subseteq Nodes(s)
    OBVIOUS
  <2> HIDE DEF P
  <2>2. c \in {[type_ |-> t, path_ |-> p, fd_ |-> Fd(s.fds + 1)] : t \in Types \cap Opens, p \in P}
    BY <1>4 DEF P
  <2> QED BY <2>1, <2>2
<1>5. CASE c \in D BY <1>5
<1>6. CASE c \in E BY <1>6
<1>7. CASE c \in F BY <1>7
<1> HIDE DEF A, B, C, D, E, F
<1> QED BY <1>1, <1>2, <1>3, <1>4, <1>5, <1>6, <1>7

\* The paths and descriptors that can be spoken of when s has been reached
Issued(s) ==
  {Root} \cup {Append(d, x) : d \in Path, x \in 1..s.names} \cup {Fd(x) : x \in 1..s.fds}

\* No command uses what only a later one defines.
InOrder(cmds) ==
  \A k, r \in 1..Len(cmds) : Def(cmds[r]) \in Use(cmds[k]) => r <= k

UsesIssued(cmds, s) ==
  /\ Nodes(s) \cup s.open \subseteq Issued(s)
  /\ \A k \in 1..Len(cmds) : Use(cmds[k]) \subseteq Issued(s)

\* A path that is issued next has not been spoken of, nor has a descriptor.
LEMMA NextIsNew ==
  ASSUME NEW s \in Space
  PROVE  /\ \A d \in Path : Append(d, s.names + 1) \notin Issued(s)
         /\ Fd(s.fds + 1) \notin Issued(s)
         /\ None \notin Issued(s)
<1>1. s.names \in Nat /\ s.fds \in Nat /\ \A x \in 1..(s.names + 1) : x \in Word
  BY DEF Space, Word
<1>2. ASSUME NEW d \in Path, NEW x \in Word
      PROVE  /\ Append(d, x) \in Seq(Word) /\ Len(Append(d, x)) = Len(d) + 1
             /\ Append(d, x)[1] = "/" /\ Len(Append(d, x)) \in Nat \ {0, 1}
  <2>1. d \in Seq(Word) /\ Len(d) \in Nat /\ Len(d) # 0 /\ d[1] = "/" /\ 1 \in 1..Len(d)
    BY EmptySeq DEF Path
  <2> DEFINE a == Append(d, x)
  <2>2. a \in Seq(Word) /\ Len(a) = Len(d) + 1 /\ a[1] = d[1]
    BY <2>1, AppendProperties
  <2> HIDE DEF a
  <2>3. Len(a) \in Nat \ {0, 1}
    BY <2>1, <2>2
  <2> QED BY <2>1, <2>2, <2>3 DEF a
<1>3. \A y : Fd(y)[1] = "fd" /\ Fd(y)[2] = y /\ Len(Fd(y)) = 2
  BY DEF Fd
<1>4. Root[1] = "/" /\ Len(Root) = 1 /\ None[1] = "None" /\ Len(None) = 1
  BY DEF Root, None
<1>5. ASSUME NEW d \in Path, Append(d, s.names + 1) \in Issued(s) PROVE FALSE
  <2>1. s.names + 1 \in Word
    BY <1>1
  <2> DEFINE a == Append(d, s.names + 1)
  <2>2. Len(a) \in Nat \ {0, 1} /\ a[1] = "/"
    BY <1>2, <2>1
  <2>3. a # Root
    <3> HIDE DEF a
    <3> QED BY <1>4, <2>2
  <2>4. \A y : a # Fd(y)
    <3> HIDE DEF a
    <3> QED BY <1>3, <2>2
  <2>5. \A e \in Path, x \in 1..s.names : a # Append(e, x)
    <3> SUFFICES ASSUME NEW e \in Path, NEW x \in 1..s.names, a = Append(e, x) PROVE FALSE
      OBVIOUS
    <3>1. d \in Seq(Word) /\ e \in Seq(Word) /\ x \in Word
      BY <1>1 DEF Path
    <3>2. x = s.names + 1
      BY <2>1, <3>1, AppendInjective
    <3> QED BY <1>1, <3>2
  <2> QED BY <1>5, <2>3, <2>4, <2>5 DEF Issued
<1>6. ASSUME Fd(s.fds + 1) \in Issued(s) PROVE FALSE
  <2>1. Fd(s.fds + 1) # Root
    BY <1>3, <1>4
  <2>2. \A e \in Path, x \in 1..s.names : Fd(s.fds + 1) # Append(e, x)
    BY <1>1, <1>2, <1>3
  <2>3. \A x \in 1..s.fds : Fd(s.fds + 1) # Fd(x)
    <3> SUFFICES ASSUME NEW x \in 1..s.fds, Fd(s.fds + 1) = Fd(x) PROVE FALSE
      OBVIOUS
    <3>1. s.fds + 1 = x
      BY <1>3
    <3> QED BY <1>1, <3>1
  <2> QED BY <1>6, <2>1, <2>2, <2>3 DEF Issued
<1>7. ASSUME None \in Issued(s) PROVE FALSE
  <2>1. None # Root
    BY <1>4
  <2>2. \A e \in Path, x \in 1..s.names : None # Append(e, x)
    BY <1>1, <1>2, <1>4
  <2>3. \A x : None # Fd(x)
    BY <1>3, <1>4
  <2> QED BY <1>7, <2>1, <2>2, <2>3 DEF Issued
<1> QED BY <1>5, <1>6, <1>7

\* What a command that may be pushed uses is there.
LEMMA UsesAreThere ==
  ASSUME NEW s \in Space, NEW c \in Pushes(s), c.type_ # "RENAME"
  PROVE  Use(c) \subseteq Nodes(s) \cup s.open
<1>1. c \in Cmd /\ c \in Offered(s) /\ Succeeds(s, c)
  BY PushedIs DEF Pushes
<1>2. /\ c.type_ \in Links => c.old_path_ \in Nodes(s)
      /\ c.type_ \in Opens => c.path_ \in Nodes(s)
      /\ c.type_ \in FdUses => c.fd_ \in s.open
      /\ c.type_ \in PathUses => c.path_ \in Nodes(s)
  BY <1>1, OfferedArgs
<1>3. s.dirs \subseteq Nodes(s)
  BY DEF Nodes
<1>4. CASE c.type_ \in Makes
  <2>1. Use(c) = {ParentDir(c.path_)}
    BY <1>4 DEF Use, Makes, Links, Opens, FdUses, Globals
  <2>2. ParentDir(c.path_) \in s.dirs
    BY <1>1, <1>4 DEF Succeeds, Makes, Opens, FdUses, Globals, PathUses
  <2> QED BY <1>3, <2>1, <2>2
<1>5. CASE c.type_ \in Links
  <2>1. Use(c) = {c.old_path_, ParentDir(c.new_path_)}
    BY <1>5 DEF Use, Makes, Links, Opens, FdUses, Globals
  <2>2. ParentDir(c.new_path_) \in s.dirs
    BY <1>1, <1>5 DEF Succeeds, Makes, Links, Opens, FdUses, Globals, PathUses
  <2> QED BY <1>2, <1>3, <1>5, <2>1, <2>2
<1>6. CASE c.type_ \in Opens \cup PathUses
  <2>1. Use(c) = {c.path_}
    BY <1>6 DEF Use, Makes, Links, Opens, FdUses, Globals, PathUses
  <2> QED BY <1>2, <1>6, <2>1
<1>7. CASE c.type_ \in FdUses
  <2>1. Use(c) = {c.fd_}
    BY <1>7 DEF Use, Makes, Links, FdUses, Globals
  <2> QED BY <1>2, <1>7, <2>1
<1>8. CASE c.type_ \in Globals
  BY <1>8 DEF Use, Makes, Links, FdUses, Globals
<1>9. c.type_ \in Makes \cup PathUses \cup Links \cup Opens \cup FdUses \cup Globals
  BY <1>1, CmdFields
<1> QED BY <1>4, <1>5, <1>6, <1>7, <1>8, <1>9

\* What a command that is pushed defines is new, and issued from then on.
LEMMA DefIsIssued ==
  ASSUME NEW s \in Space, NEW c \in Pushes(s), c.type_ # "RENAME"
  PROVE  /\ Def(c) \notin Issued(s) /\ Issued(s) \subseteq Issued(Pushed(s, c))
         /\ c.type_ \in Created \cup Opens => Def(c) \in Issued(Pushed(s, c))
<1> DEFINE u == Pushed(s, c)
<1>1. c \in Cmd /\ c \in Offered(s) /\ Succeeds(s, c) /\ u \in Space
  BY PushedIs DEF Pushes
<1>2. Issue(s, c) \in Space /\ u.names = Issue(s, c).names /\ u.fds = Issue(s, c).fds
  BY <1>1, IssueIs, AfterKeepsIssued DEF Pushed
<1>3. /\ u.names \in {s.names, s.names + 1}
      /\ c.type_ \in Created => u.names = s.names + 1
  BY <1>1, <1>2, IssueCounts
<1>4. /\ u.fds \in {s.fds, s.fds + 1}
      /\ c.type_ \in Opens => u.fds = s.fds + 1
  BY <1>2 DEF Issue, Space, Makes, Links, Opens
<1>5. s.names \in Nat /\ s.fds \in Nat
  BY DEF Space
<1> HIDE DEF u
<1>6. 1..s.names \subseteq 1..u.names /\ 1..s.fds \subseteq 1..u.fds
  BY <1>3, <1>4, <1>5
<1>7. Issued(s) \subseteq Issued(u)
  BY <1>6 DEF Issued
<1>8. CASE c.type_ \in Created
  <2>1. PICK d \in s.dirs : Def(c) = Append(d, s.names + 1)
    BY <1>1, <1>8, CreatedIsFresh
  <2>2. d \in Path
    BY DEF Space
  <2>3. s.names + 1 \in 1..u.names
    BY <1>3, <1>5, <1>8
  <2>4. Def(c) \in Issued(u)
    BY <2>1, <2>2, <2>3 DEF Issued
  <2> QED BY <1>7, <2>1, <2>2, <2>4, NextIsNew DEF u
<1>9. CASE c.type_ \in Opens
  <2>1. Def(c) = Fd(s.fds + 1)
    <3>1. c.fd_ = Fd(s.fds + 1)
      BY <1>1, <1>9, OfferedArgs
    <3> QED BY <1>9, <3>1 DEF Def, Makes, Links, Opens
  <2>2. s.fds + 1 \in 1..u.fds
    BY <1>4, <1>5, <1>9
  <2>3. Def(c) \in Issued(u)
    BY <2>1, <2>2 DEF Issued
  <2> QED BY <1>7, <2>1, <2>3, NextIsNew DEF u
<1>10. CASE c.type_ \notin Created \cup Opens
  <2>1. c.type_ \notin Makes \cup Links \cup Opens
    BY <1>10 DEF Created, Makes, Links
  <2>2. Def(c) = None
    BY <2>1 DEF Def
  <2> QED BY <1>7, <1>10, <2>2, NextIsNew DEF u
<1> QED BY <1>8, <1>9, <1>10

\* The uses stay behind the definitions.
LEMMA PushedInOrder ==
  ASSUME NEW cmds \in Seq(Cmd), NEW s \in Space, UsesIssued(cmds, s), InOrder(cmds),
         NEW c \in Pushes(s), c.type_ # "RENAME"
  PROVE  UsesIssued(Append(cmds, c), Pushed(s, c)) /\ InOrder(Append(cmds, c))
<1> DEFINE n == Len(cmds)
           a == Append(cmds, c)
           u == Pushed(s, c)
<1>1. c \in Cmd /\ u \in Space
  BY PushedIs DEF Pushes
<1>2. /\ n \in Nat /\ Len(a) = n + 1 /\ a[n + 1] = c
      /\ \A i \in 1..n : a[i] = cmds[i]
      /\ \A i \in 1..(n + 1) : i \in 1..n \/ i = n + 1
  BY <1>1
<1>3. /\ Nodes(s) \cup s.open \subseteq Issued(s)
      /\ \A k \in 1..n : Use(cmds[k]) \subseteq Issued(s)
  BY DEF UsesIssued
<1>4. Use(c) \subseteq Nodes(s) \cup s.open
  BY UsesAreThere
<1>5. /\ Def(c) \notin Issued(s) /\ Issued(s) \subseteq Issued(u)
      /\ c.type_ \in Created \cup Opens => Def(c) \in Issued(u)
  BY DefIsIssued
<1>6. Nodes(u) \cup u.open \subseteq Issued(u)
  <2> DEFINE t == Issue(s, c)
  <2>1. t \in Space /\ Alike(t, s) /\ u = After(t, c)
    BY IssueIs DEF Pushed
  <2>2. t.dirs = s.dirs /\ t.files = s.files /\ t.others = s.others /\ t.open = s.open
    BY <2>1 DEF Alike
  <2> HIDE DEF t, u
  <2>3. \A T \in {{"MKDIR"}, {"CREATE", "HARDLINK"}, {"MKNOD", "SYMLINK"}, Opens} :
          MadeBy(c, T) \subseteq Issued(u)
    BY <1>5 DEF MadeBy, Created, Makes
  <2>4. /\ u.dirs = (s.dirs \ Gone(t, c)) \cup MadeBy(c, {"MKDIR"})
        /\ u.files = (s.files \ Gone(t, c)) \cup MadeBy(c, {"CREATE", "HARDLINK"})
        /\ u.others = (s.others \ Gone(t, c)) \cup MadeBy(c, {"MKNOD", "SYMLINK"})
        /\ u.open = (s.open \ Closed(c)) \cup MadeBy(c, Opens)
    BY <1>1, <2>1, <2>2, AfterFields
  <2>5. Nodes(s) \cup s.open \subseteq Issued(u)
    BY <1>3, <1>5
  <2> QED BY <2>3, <2>4, <2>5 DEF Nodes
<1> HIDE DEF a, u, n
<1>7. \A k \in 1..(n + 1) : Use(a[k]) \subseteq Issued(u)
  BY <1>2, <1>3, <1>4, <1>5
<1>8. ASSUME NEW k \in 1..(n + 1), NEW r \in 1..(n + 1), Def(a[r]) \in Use(a[k])
      PROVE  r <= k
  <2>1. CASE k = n + 1
    BY <1>2, <2>1
  <2>2. CASE k \in 1..n /\ r = n + 1
    <3>1. Def(c) \in Use(cmds[k])
      BY <1>2, <1>8, <2>2
    <3> QED BY <1>3, <1>5, <2>2, <3>1
  <2>3. CASE k \in 1..n /\ r \in 1..n
    <3>1. Def(cmds[r]) \in Use(cmds[k])
      BY <1>2, <1>8, <2>3
    <3> QED BY <2>3, <3>1 DEF InOrder, n
  <2> QED BY <1>2, <2>1, <2>2, <2>3
<1> QED BY <1>2, <1>6, <1>7, <1>8 DEF UsesIssued, InOrder, a, u

\* Taking commands out keeps the order.
LEMMA KeptInOrder ==
  ASSUME NEW C, NEW cmds \in Seq(C), InOrder(cmds), NEW S
  PROVE  InOrder(Kept(cmds, S))
<1> DEFINE x == Kept(cmds, S)
           T == S \cap (1..Len(cmds))
<1>1. PICK h : Places(h, x, cmds, T)
  BY KeptPlaces
<1>2. x \in Seq(C)
  BY KeptElements
<1> HIDE DEF x
<1>3. /\ \A i \in 1..Len(x) : x[i] = cmds[h[i]] /\ h[i] \in 1..Len(cmds)
      /\ \A i, m \in 1..Len(x) : i < m => h[i] < h[m]
  BY <1>1 DEF Places
<1>4. ASSUME NEW k \in 1..Len(x), NEW r \in 1..Len(x), Def(x[r]) \in Use(x[k]) PROVE r <= k
  <2>1. h[r] <= h[k]
    BY <1>3, <1>4 DEF InOrder
  <2>2. ~(h[k] < h[r])
    <3>1. h[k] \in 1..Len(cmds) /\ h[r] \in 1..Len(cmds)
      BY <1>3
    <3> QED BY <2>1, <3>1
  <2>3. ~(k < r)
    BY <1>3, <2>2
  <2> QED BY <1>2, <2>3
<1>5. InOrder(x)
  BY <1>4 DEF InOrder
<1> QED BY <1>5 DEF x

(***************************************************************************)
(* Descriptors                                                             *)
(***************************************************************************)
\* A descriptor is used after it has been opened.
LEMMA OpenedBefore ==
  ASSUME NEW cmds \in Seq(Cmd), AllSucceed(cmds),
         NEW j \in 1..Len(cmds), cmds[j].type_ \in FdUses
  PROVE  \E m \in 1..Len(cmds) : /\ m < j /\ cmds[m].type_ \in Opens
                                /\ cmds[m].fd_ = cmds[j].fd_
<1> DEFINE n == Len(cmds)
<1>1. n \in Nat /\ \A i \in 1..n : cmds[i] \in Cmd
  OBVIOUS
<1>2. PICK g \in [0..n -> Space] : Runs(g, cmds)
  BY AllSucceedLeaves DEF Leaves
<1>3. /\ g[0] = Empty
      /\ \A k \in 0..(n - 1) : Succeeds(g[k], cmds[k + 1]) /\ g[k + 1] = After(g[k], cmds[k + 1])
  BY <1>2 DEF Runs
<1>4. j \in 1..n
  OBVIOUS
<1> HIDE DEF n
<1> DEFINE Opened(k) == {cmds[m].fd_ : m \in {i \in 1..k : cmds[i].type_ \in Opens}}
           G == {k \in 0..n : g[k].open \subseteq Opened(k)}
<1>5. 0 \in G
  <2>1. 0 \in 0..n
    BY <1>1
  <2> QED BY <1>3, <2>1 DEF Empty
<1>6. ASSUME NEW k \in 0..(n - 1), k \in G PROVE k + 1 \in G
  <2> DEFINE c == cmds[k + 1]
  <2>1. /\ k + 1 \in 0..n /\ k \in 0..n /\ k + 1 \in 1..n /\ 1..(k + 1) = (1..k) \cup {k + 1}
        /\ c \in Cmd /\ g[k] \in Space /\ g[k + 1] = After(g[k], c) /\ g[k].open \subseteq Opened(k)
    <3>1. k + 1 \in 0..n /\ k \in 0..n /\ k + 1 \in 1..n /\ 1..(k + 1) = (1..k) \cup {k + 1}
      BY <1>1
    <3> QED BY <1>1, <1>2, <1>3, <1>6, <3>1
  <2>2. Opened(k) \subseteq Opened(k + 1) /\ (c.type_ \in Opens => c.fd_ \in Opened(k + 1))
    BY <2>1
  <2>3. CASE c.type_ = "RENAME"
    <3>1. g[k + 1].open = g[k].open
      BY <2>1, <2>3, AfterRename, RenamedIs
    <3> HIDE DEF Opened
    <3> QED BY <2>1, <2>2, <3>1
  <2>4. CASE c.type_ # "RENAME"
    <3>1. g[k + 1].open = (g[k].open \ Closed(c)) \cup MadeBy(c, Opens)
      BY <2>1, <2>4, AfterFields
    <3>2. MadeBy(c, Opens) \subseteq Opened(k + 1)
      <4>1. c.type_ \in Opens => Def(c) = c.fd_
        BY DEF Def, Opens, Makes, Links
      <4> HIDE DEF c, Opened
      <4> QED BY <2>2, <4>1 DEF MadeBy
    <3> HIDE DEF Opened
    <3> QED BY <2>1, <2>2, <3>1, <3>2
  <2> QED BY <2>3, <2>4
<1>7. j - 1 \in G /\ j - 1 \in 0..(n - 1) /\ j = (j - 1) + 1
  <2>1. 0..n \subseteq G
    <3> HIDE DEF G
    <3> QED BY <1>1, <1>5, <1>6, UpToInduction
  <2>2. j - 1 \in 0..n /\ j - 1 \in 0..(n - 1) /\ j = (j - 1) + 1
    BY <1>1, <1>4
  <2> QED BY <2>1, <2>2
<1>8. cmds[j].fd_ \in g[j - 1].open
  <2>1. Succeeds(g[j - 1], cmds[j])
    BY <1>3, <1>7
  <2> QED BY <2>1 DEF Succeeds, Makes, Opens, FdUses, Globals, PathUses
<1>9. cmds[j].fd_ \in Opened(j - 1)
  BY <1>7, <1>8
<1>10. PICK m \in 1..(j - 1) : cmds[m].type_ \in Opens /\ cmds[m].fd_ = cmds[j].fd_
  BY <1>9
<1>11. m \in 1..n /\ m < j
  BY <1>1, <1>4
<1> QED BY <1>10, <1>11 DEF n

(***************************************************************************)
(* The users of a command, their users, and so on                          *)
(***************************************************************************)
LEMMA DependentsPasses ==
  ASSUME NEW C, NEW cmds \in Seq(C), NEW i \in 1..Len(cmds)
  PROVE  \E f \in [0..Len(cmds) -> SUBSET (i..Len(cmds))] :
           /\ f[0] = {i}
           /\ \A k \in 0..(Len(cmds) - 1) : f[k + 1] = f[k] \cup Users(cmds, i, f[k])
           /\ Dependents(cmds, i) = f[Len(cmds)]
<1> DEFINE n == Len(cmds)
           X == SUBSET (i..n)
           Y == 1..n
           base == {i}
           order == [j \in DOMAIN cmds |-> j]
           op(S) == UNION {T \cup Users(cmds, i, T) : T \in {S}}
           st == [x \in X |-> [j \in Y |-> op(x)]]
           c == CHOOSE g : g = [T \in SUBSET (1..n) |->
                   IF T = {} THEN base ELSE op(g[T \ {Max(T)}])]
<1>1. /\ n \in Nat /\ DOMAIN cmds = 1..n /\ order \in Seq(1..n) /\ Len(order) = n
      /\ DOMAIN order = 1..n
  BY PositionsOf
<1>2. base \in X
  OBVIOUS
<1>3. \A x : op(x) = x \cup Users(cmds, i, x)
  OBVIOUS
<1> HIDE DEF order, op
<1>4. Dependents(cmds, i) = c[1..n]
  <2> USE DEF op
  <2> QED BY <1>1 DEF Dependents, FoldLeftDomain, FoldLeft, MapThenFoldSet, order
<1>5. \A x \in X : op(x) \in X
  BY <1>3 DEF Users
<1> HIDE DEF n, X, Y, base
<1>6. st \in [X -> [Y -> X]] /\ \A x \in X, j \in Y : st[x][j] = op(x)
  BY <1>5
<1> HIDE DEF st
<1>7. order \in Seq(Y) /\ \A j \in 1..n : order[j] \in Y
  BY <1>1 DEF Y
<1>8. PICK it \in [SUBSET (1..n) -> X] : Iterates(it, st, base, order)
  <2>1. \E it \in [SUBSET (1..Len(order)) -> X] : Iterates(it, st, base, order)
    BY <1>2, <1>6, <1>7, FoldIterates
  <2> QED BY <1>1, <2>1
<1>9. ASSUME NEW T \in SUBSET (1..n)
      PROVE  it[T] = IF T = {} THEN base ELSE op(it[T \ {Max(T)}])
  <2>1. it[T] = IF T = {} THEN base ELSE st[it[T \ {Max(T)}]][order[Max(T)]]
    BY <1>1, <1>8 DEF Iterates
  <2>2. ASSUME T # {} PROVE st[it[T \ {Max(T)}]][order[Max(T)]] = op(it[T \ {Max(T)}])
    <3>1. Max(T) \in T
      BY <1>1, <2>2, MaxIsIn
    <3>2. order[Max(T)] \in Y /\ it[T \ {Max(T)}] \in X
      BY <1>1, <1>7, <1>8, <3>1
    <3> QED BY <1>6, <3>2
  <2> QED BY <2>1, <2>2
<1>10. it = [T \in SUBSET (1..n) |-> IF T = {} THEN base ELSE op(it[T \ {Max(T)}])]
  <2>1. it = [T \in SUBSET (1..n) |-> it[T]]
    BY <1>8
  <2> QED BY <2>1, <1>9
<1>11. c = [T \in SUBSET (1..n) |-> IF T = {} THEN base ELSE op(c[T \ {Max(T)}])]
  BY <1>10
<1> HIDE DEF c
<1>12. Folds(c, X, st, base, order)
  <2>1. c[{}] = base
    <3>1. {} \in SUBSET (1..n)
      OBVIOUS
    <3> QED BY <1>11, <3>1
  <2>2. ASSUME NEW T \in SUBSET (1..n), T # {}, c[T \ {Max(T)}] \in X
        PROVE  c[T] = st[c[T \ {Max(T)}]][order[Max(T)]]
    <3>1. Max(T) \in 1..n /\ order[Max(T)] \in Y
      BY <1>1, <1>7, <2>2, MaxIsIn
    <3> QED BY <1>6, <1>11, <2>2, <3>1
  <2> QED BY <1>1, <2>1, <2>2 DEF Folds
<1>13. \E f \in [0..Len(order) -> X] :
         Passes(f, st, base, order) /\ c[1..Len(order)] = f[Len(order)]
  <2>1. order \in Seq(Y) /\ st \in [X -> [Y -> X]]
    BY <1>6, <1>7
  <2> QED BY <1>2, <1>12, <2>1, FoldPasses
<1>14. PICK f \in [0..n -> X] : Passes(f, st, base, order) /\ c[1..n] = f[n]
  BY <1>1, <1>13
<1>15. ASSUME NEW k \in 0..(n - 1) PROVE f[k + 1] = f[k] \cup Users(cmds, i, f[k])
  <2>1. k \in 0..n /\ k + 1 \in 1..n
    BY <1>1
  <2>2. f[k + 1] = st[f[k]][order[k + 1]] /\ f[k] \in X /\ order[k + 1] \in Y
    BY <1>1, <1>7, <1>14, <2>1 DEF Passes
  <2> QED BY <1>3, <1>6, <2>2
<1>16. f[0] = {i}
  BY <1>14 DEF Passes, base
<1> QED BY <1>4, <1>14, <1>15, <1>16 DEF n, X

\* Dependents is the least set that i is in and with each command its users: each round
\* adds one at least, or there is none to add, and there are no more than Len(cmds).
LEMMA DependentsLeast ==
  ASSUME NEW C, NEW cmds \in Seq(C), NEW i \in 1..Len(cmds)
  PROVE  /\ Dependents(cmds, i) \subseteq i..Len(cmds) /\ i \in Dependents(cmds, i)
         /\ Users(cmds, i, Dependents(cmds, i)) \subseteq Dependents(cmds, i)
         /\ \A E \in SUBSET (i..Len(cmds)) :
              i \in E /\ Users(cmds, i, E) \subseteq E => Dependents(cmds, i) \subseteq E
<1> DEFINE n == Len(cmds)
           U(S) == Users(cmds, i, S)
<1>1. n \in Nat /\ i \in 1..n
  OBVIOUS
<1>2. PICK f \in [0..n -> SUBSET (i..n)] :
        /\ f[0] = {i}
        /\ \A k \in 0..(n - 1) : f[k + 1] = f[k] \cup U(f[k])
        /\ Dependents(cmds, i) = f[n]
  BY DependentsPasses
<1>3. \A S, T : S \subseteq T => U(S) \subseteq U(T)
  BY DEF Users
<1> HIDE DEF n, U
<1>4. /\ 0 \in 0..n /\ n \in 0..n
      /\ \A k \in 0..(n - 1) : k \in 0..n /\ k + 1 \in 0..n
  BY <1>1
<1>5. \A k \in 0..n : i \in f[k]
  <2> DEFINE G == {k \in 0..n : i \in f[k]}
  <2>1. 0 \in G /\ \A k \in 0..(n - 1) : k \in G => k + 1 \in G
    BY <1>2, <1>4
  <2>2. 0..n \subseteq G
    <3> HIDE DEF G
    <3> QED BY <1>1, <2>1, UpToInduction
  <2> QED BY <2>2
<1>6. \A k \in 0..n : IsFiniteSet(f[k]) /\ Cardinality(f[k]) \in Nat
  <2>1. IsFiniteSet(i..n)
    BY <1>1, FS_Interval
  <2> QED BY <1>2, <2>1, FS_Subset, FS_CardinalityType
<1>7. \A k \in 0..n : U(f[k]) \subseteq f[k] \/ Cardinality(f[k]) >= k + 1
  <2> DEFINE G == {k \in 0..n : U(f[k]) \subseteq f[k] \/ Cardinality(f[k]) >= k + 1}
  <2>1. 0 \in G
    <3>1. Cardinality(f[0]) = 1
      BY <1>2, FS_Singleton
    <3>2. Cardinality(f[0]) >= 0 + 1
      BY <3>1
    <3> QED BY <1>4, <3>2
  <2>2. ASSUME NEW k \in 0..(n - 1), k \in G PROVE k + 1 \in G
    <3>1. f[k + 1] = f[k] \cup U(f[k]) /\ k \in 0..n /\ k + 1 \in 0..n
      BY <1>2, <1>4
    <3>2. CASE U(f[k]) \subseteq f[k]
      <4>1. f[k + 1] = f[k]
        BY <3>1, <3>2
      <4> QED BY <3>1, <3>2, <4>1
    <3>3. CASE ~(U(f[k]) \subseteq f[k])
      <4>1. f[k] \subseteq f[k + 1] /\ f[k] # f[k + 1]
        BY <3>1, <3>3
      <4>2. IsFiniteSet(f[k + 1]) /\ Cardinality(f[k + 1]) \in Nat /\ Cardinality(f[k]) \in Nat
        BY <1>6, <3>1
      <4>3. Cardinality(f[k]) < Cardinality(f[k + 1])
        BY <4>1, <4>2, FS_Subset
      <4>4. Cardinality(f[k]) >= k + 1
        BY <2>2, <3>3
      <4>5. Cardinality(f[k + 1]) >= (k + 1) + 1
        BY <4>2, <4>3, <4>4
      <4> QED BY <3>1, <4>5
    <3> QED BY <3>2, <3>3
  <2>3. 0..n \subseteq G
    <3> HIDE DEF G
    <3> QED BY <1>1, <2>1, <2>2, UpToInduction
  <2> QED BY <2>3
<1>8. U(f[n]) \subseteq f[n]
  <2>1. f[n] \subseteq i..n /\ IsFiniteSet(i..n) /\ Cardinality(i..n) = n - i + 1
    <3>1. i \in Int /\ n \in Int /\ ~(i > n)
      BY <1>1
    <3>2. IsFiniteSet(i..n) /\ Cardinality(i..n) = IF i > n THEN 0 ELSE n - i + 1
      BY <3>1, FS_Interval
    <3> QED BY <1>2, <1>4, <3>1, <3>2
  <2>2. Cardinality(f[n]) <= n - i + 1
    <3> DEFINE I == i..n
    <3> HIDE DEF I
    <3>1. IsFiniteSet(I) /\ f[n] \in SUBSET I /\ Cardinality(I) = n - i + 1
      BY <2>1 DEF I
    <3>2. Cardinality(f[n]) <= Cardinality(I)
      BY <3>1, FS_Subset
    <3> QED BY <3>1, <3>2
  <2>3. ~(Cardinality(f[n]) >= n + 1)
    BY <1>1, <1>4, <1>6, <2>2
  <2> QED BY <1>4, <1>7, <2>3
<1>9. ASSUME NEW E \in SUBSET (i..n), i \in E, U(E) \subseteq E PROVE f[n] \subseteq E
  <2> DEFINE G == {k \in 0..n : f[k] \subseteq E}
  <2>1. 0 \in G
    BY <1>2, <1>4, <1>9
  <2>2. \A k \in 0..(n - 1) : k \in G => k + 1 \in G
    BY <1>2, <1>3, <1>4, <1>9
  <2>3. 0..n \subseteq G
    <3> HIDE DEF G
    <3> QED BY <1>1, <2>1, <2>2, UpToInduction
  <2> QED BY <1>4, <2>3
<1>10. f[n] \subseteq i..n /\ i \in f[n]
  BY <1>2, <1>4, <1>5
<1> QED BY <1>2, <1>8, <1>9, <1>10 DEF n, U

\* What filter_out takes out leaves no command that uses what it has taken out.
LEMMA UsersGo ==
  ASSUME NEW C, NEW cmds \in Seq(C), NEW i \in 1..Len(cmds), NEW D \in SUBSET (i..Len(cmds)),
         Users(cmds, i, D) \subseteq D
  PROVE  KeptUseKept(cmds, (DOMAIN cmds) \ D)
<1>1. DOMAIN cmds = 1..Len(cmds) /\ Len(cmds) \in Nat
  OBVIOUS
<1> SUFFICES ASSUME NEW j \in 1..Len(cmds), j \notin D, NEW m \in 1..Len(cmds), m < j, m \in D,
                    Def(cmds[m]) \in Use(cmds[j])
             PROVE  FALSE
  BY <1>1 DEF KeptUseKept
<1>2. j \in i..Len(cmds)
  BY <1>1
<1>3. j \in Users(cmds, i, D)
  BY <1>2 DEF Users
<1> QED BY <1>3

=============================================================================
