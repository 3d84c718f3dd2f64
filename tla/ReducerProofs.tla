---------------------------- MODULE ReducerProofs ----------------------------
(***************************************************************************)
(* What the reducer leaves on disk still has the bug, for cases of any     *)
(* length, any commands and any outcome of the runs.                       *)
(***************************************************************************)
EXTENDS Reducer, CommandsProofs

\* bingo_c is overwritten with candidates that may not have the bug, so the claim is
\* about the test case in memory until the last save.
IInv ==
  /\ pc \in {"push", "binary", "prefix", "single", "done"}
  /\ pc \in {"binary", "prefix", "single"} => Manifests(test_case_)
  /\ pc = "done" => Manifests(bingo_c)

LEMMA InitIInv == Init => IInv
  BY DEF Init, IInv

\* Only what has shown the bug is kept.
LEMMA SingleStepKeeps ==
  ASSUME IInv, SingleStep PROVE IInv'
<1>1. /\ pc = "single" /\ pc' = "single" /\ bug' = bug /\ Occurs(bug, test_case_)
  BY DEF IInv, SingleStep, Manifests
<1>2. PICK candidate \in {FilteredOut(test_case_, idx + 1)}, shows \in BOOLEAN :
        Try(candidate, shows) /\ Advance(shows, candidate)
  BY DEF SingleStep
<1>3. CASE shows
  <2>1. test_case_' = candidate /\ Occurs(bug, candidate)
    BY <1>2, <1>3 DEF Try, Advance, Manifests
  <2>. QED BY <1>1, <2>1 DEF IInv, Manifests
<1>4. CASE ~shows
  <2>1. test_case_' = test_case_
    BY <1>2, <1>4 DEF Advance
  <2>. QED BY <1>1, <2>1 DEF IInv, Manifests
<1>. QED BY <1>3, <1>4

\* Every other step leaves the test case alone, reads it, or saves it.
LEMMA NextIInv == IInv /\ [Next]_vars => IInv'
<1>. SUFFICES ASSUME IInv, [Next]_vars PROVE IInv'
  OBVIOUS
<1>1. CASE Push
  BY <1>1 DEF Push, IInv
<1>2. CASE FromFile
  BY <1>2 DEF FromFile, IInv, Manifests
<1>3. CASE BinaryStep
  BY <1>3 DEF BinaryStep, IInv, Manifests
<1>4. CASE BinaryEnd
  BY <1>4 DEF BinaryEnd, IInv, Manifests
<1>5. CASE SingleStart
  BY <1>5 DEF SingleStart, IInv, Manifests
<1>6. CASE SingleStep
  BY <1>6, SingleStepKeeps
<1>7. CASE SingleEnd
  BY <1>7 DEF SingleEnd, Saved, IInv, Manifests
<1>8. CASE UNCHANGED vars
  BY <1>8 DEF vars, IInv, Manifests
<1>. QED BY <1>1, <1>2, <1>3, <1>4, <1>5, <1>6, <1>7, <1>8 DEF Next, Reduce

\* At the end the file has the bug that the case it was made from had, however many
\* runs missed it on the way (reducer.py:52-74).
THEOREM ReducedManifests == Spec => []ResultManifests
<1>1. Spec => []IInv
  BY InitIInv, NextIInv, PTL DEF Spec
<1>2. IInv => ResultManifests
  BY DEF IInv, ResultManifests
<1>. QED BY <1>1, <1>2, PTL

-----------------------------------------------------------------------------
(***************************************************************************)
(* Occurrence: a sequence that has the commands of another one in their    *)
(* order shows every bug that the other one shows.                         *)
(***************************************************************************)
\* f counts the commands of b that have been seen in cmds.
Sees(f, b, cmds) ==
  /\ f[0] = 0
  /\ \A k \in 0..(Len(cmds) - 1) :
       f[k + 1] = IF f[k] < Len(b) /\ cmds[k + 1] = b[f[k] + 1] THEN f[k] + 1 ELSE f[k]

LEMMA OccursPasses ==
  ASSUME NEW C, NEW cmds \in Seq(C), NEW b, Len(b) \in Nat
  PROVE  \E f \in [0..Len(cmds) -> 0..Len(b)] :
           Sees(f, b, cmds) /\ (Occurs(b, cmds) <=> f[Len(cmds)] = Len(b))
<1> DEFINE n == Len(cmds)
           X == 0..Len(b)
           op(m, c) == IF m < Len(b) /\ c = b[m + 1] THEN m + 1 ELSE m
           st == [m \in X |-> [c \in C |-> op(m, c)]]
           c == CHOOSE g : g = [T \in SUBSET (1..n) |->
                   IF T = {} THEN 0 ELSE op(g[T \ {Max(T)}], cmds[Max(T)])]
<1>1. n \in Nat /\ DOMAIN cmds = 1..n /\ \A i \in 1..n : cmds[i] \in C
  OBVIOUS
<1> HIDE DEF n
<1>2. Occurs(b, cmds) <=> c[1..n] = Len(b)
  BY <1>1 DEF Occurs, FoldLeft, MapThenFoldSet
<1>3. \A m \in X, d \in C : op(m, d) \in X /\ st[m][d] = op(m, d)
  OBVIOUS
<1>4. st \in [X -> [C -> X]] /\ 0 \in X
  BY <1>3
<1> HIDE DEF st, op, X
<1>6. PICK it \in [SUBSET (1..n) -> X] : Iterates(it, st, 0, cmds)
  BY <1>1, <1>4, FoldIterates DEF n
<1>7. ASSUME NEW T \in SUBSET (1..n)
      PROVE  it[T] = IF T = {} THEN 0 ELSE op(it[T \ {Max(T)}], cmds[Max(T)])
  <2>1. it[T] = IF T = {} THEN 0 ELSE st[it[T \ {Max(T)}]][cmds[Max(T)]]
    BY <1>1, <1>6 DEF Iterates, n
  <2>2. ASSUME T # {} PROVE st[it[T \ {Max(T)}]][cmds[Max(T)]] = op(it[T \ {Max(T)}], cmds[Max(T)])
    <3>1. Max(T) \in T
      BY <1>1, <2>2, MaxIsIn
    <3>2. cmds[Max(T)] \in C /\ it[T \ {Max(T)}] \in X
      BY <1>1, <1>6, <3>1
    <3> QED BY <1>3, <3>2
  <2> QED BY <2>1, <2>2
<1>8. it = [T \in SUBSET (1..n) |-> IF T = {} THEN 0 ELSE op(it[T \ {Max(T)}], cmds[Max(T)])]
  <2>1. it = [T \in SUBSET (1..n) |-> it[T]]
    BY <1>6
  <2> QED BY <2>1, <1>7
<1>9. c = [T \in SUBSET (1..n) |-> IF T = {} THEN 0 ELSE op(c[T \ {Max(T)}], cmds[Max(T)])]
  BY <1>8
<1> HIDE DEF c
<1>10. c[{}] = 0
  <2>1. {} \in SUBSET (1..n)
    OBVIOUS
  <2> QED BY <1>9, <2>1
<1>11. ASSUME NEW T \in SUBSET (1..n), T # {}, c[T \ {Max(T)}] \in X
       PROVE  c[T] = st[c[T \ {Max(T)}]][cmds[Max(T)]]
  <2>1. Max(T) \in 1..n /\ cmds[Max(T)] \in C
    BY <1>1, <1>11, MaxIsIn
  <2> QED BY <1>3, <1>9, <1>11, <2>1
<1>12. PICK f \in [0..n -> X] : Passes(f, st, 0, cmds) /\ c[1..n] = f[n]
  <2>1. Folds(c, X, st, 0, cmds)
    BY <1>10, <1>11 DEF Folds, n
  <2> QED BY <1>4, <2>1, FoldPasses DEF n
<1>13. ASSUME NEW k \in 0..(n - 1) PROVE f[k + 1] = op(f[k], cmds[k + 1])
  <2>1. k \in 0..n /\ k + 1 \in 1..n
    BY <1>1
  <2> QED BY <1>1, <1>3, <1>12, <2>1 DEF Passes, n
<1>14. Sees(f, b, cmds)
  BY <1>12, <1>13 DEF Sees, op, n, Passes
<1> QED BY <1>2, <1>12, <1>14 DEF n, X

\* h says where in y the commands of x are, in their order.
Embeds(h, x, y) ==
  /\ h \in [1..Len(x) -> 1..Len(y)]
  /\ \A k \in 1..Len(x) : x[k] = y[h[k]]
  /\ \A j, k \in 1..Len(x) : j < k => h[j] < h[k]

LEMMA OccursInMore ==
  ASSUME NEW C, NEW x \in Seq(C), NEW y \in Seq(C), NEW b, Len(b) \in Nat, Occurs(b, x),
         NEW h, Embeds(h, x, y)
  PROVE  Occurs(b, y)
<1> DEFINE l == Len(b)
           n == Len(x)
           m == Len(y)
<1>1. n \in Nat /\ m \in Nat /\ l \in Nat
  OBVIOUS
<1>2. PICK f \in [0..n -> 0..l] : Sees(f, b, x) /\ (Occurs(b, x) <=> f[n] = l)
  BY OccursPasses
<1>3. PICK g \in [0..m -> 0..l] : Sees(g, b, y) /\ (Occurs(b, y) <=> g[m] = l)
  BY OccursPasses
<1>4. \A k \in 0..(n - 1) :
        f[k + 1] = IF f[k] < l /\ x[k + 1] = b[f[k] + 1] THEN f[k] + 1 ELSE f[k]
  BY <1>2 DEF Sees
<1>5. \A k \in 0..(m - 1) :
        g[k + 1] = IF g[k] < l /\ y[k + 1] = b[g[k] + 1] THEN g[k] + 1 ELSE g[k]
  BY <1>3 DEF Sees
<1>6. /\ h \in [1..n -> 1..m] /\ \A k \in 1..n : x[k] = y[h[k]]
      /\ \A j, k \in 1..n : j < k => h[j] < h[k]
  BY DEF Embeds
<1>7. f[0] = 0 /\ g[0] = 0
  BY <1>2, <1>3 DEF Sees
<1> HIDE DEF l, n, m
<1>8. \A k \in 0..m : \A a \in 0..k : g[a] <= g[k]
  <2> DEFINE S == {k \in 0..m : \A a \in 0..k : g[a] <= g[k]}
  <2>1. 0 \in S
    BY <1>1, <1>3
  <2>2. ASSUME NEW k \in 0..(m - 1), k \in S PROVE k + 1 \in S
    <3>1. k \in 0..m /\ k + 1 \in 0..m /\ g[k] \in 0..l /\ g[k + 1] \in 0..l
      BY <1>1, <1>3
    <3>2. g[k] <= g[k + 1]
      <4>1. g[k + 1] = g[k] + 1 \/ g[k + 1] = g[k]
        BY <1>5
      <4>2. g[k] \in Int
        BY <3>1
      <4> QED BY <4>1, <4>2
    <3>3. ASSUME NEW a \in 0..(k + 1) PROVE g[a] <= g[k + 1]
      <4>1. CASE a = k + 1
        BY <1>1, <3>1, <4>1
      <4>2. CASE a \in 0..k
        <5>1. g[a] <= g[k] /\ g[a] \in 0..l
          BY <1>1, <1>3, <2>2, <4>2
        <5> QED BY <1>1, <3>1, <3>2, <5>1
      <4> QED BY <3>1, <4>1, <4>2
    <3> QED BY <3>1, <3>3
  <2> HIDE DEF S
  <2>3. 0..m \subseteq S
    BY <1>1, <2>1, <2>2, UpToInduction
  <2> QED BY <2>3 DEF S
\* After k commands of x, and in y past where the k-th of them is, y is not behind.
<1>9. \A k \in 0..n : \A e \in 0..m : (k = 0 \/ h[k] <= e) => f[k] <= g[e]
  <2> DEFINE S == {k \in 0..n : \A e \in 0..m : (k = 0 \/ h[k] <= e) => f[k] <= g[e]}
  <2>1. 0 \in S
    BY <1>1, <1>3, <1>7
  <2>2. ASSUME NEW k \in 0..(n - 1), k \in S PROVE k + 1 \in S
    <3>1. k \in 0..n /\ k + 1 \in 1..n /\ k + 1 \in 0..n /\ h[k + 1] \in 1..m
      BY <1>1, <1>6
    <3> DEFINE e == h[k + 1] - 1
    <3>2. e \in 0..(m - 1) /\ e \in 0..m /\ e + 1 = h[k + 1]
      <4>1. \A q \in 1..m : q - 1 \in 0..(m - 1) /\ q - 1 \in 0..m /\ q - 1 + 1 = q
        BY <1>1
      <4> QED BY <3>1, <4>1
    <3>3. k = 0 \/ h[k] <= e
      <4> SUFFICES ASSUME k # 0 PROVE h[k] <= e
        OBVIOUS
      <4>1. k \in 1..n /\ h[k] \in 1..m /\ k < k + 1
        BY <1>1, <1>6
      <4>2. h[k] < h[k + 1]
        BY <1>6, <3>1, <4>1
      <4> QED BY <3>1, <4>1, <4>2
    <3> HIDE DEF e
    <3>4. f[k] <= g[e] /\ f[k] \in 0..l /\ g[e] \in 0..l
      BY <1>2, <1>3, <2>2, <3>1, <3>2, <3>3
    <3>5. x[k + 1] = y[e + 1]
      BY <1>6, <3>1, <3>2
    <3>6. f[k + 1] <= g[e + 1]
      <4>1. f[k + 1] = IF f[k] < l /\ x[k + 1] = b[f[k] + 1] THEN f[k] + 1 ELSE f[k]
        BY <1>4
      <4>2. g[e + 1] = IF g[e] < l /\ y[e + 1] = b[g[e] + 1] THEN g[e] + 1 ELSE g[e]
        BY <1>5, <3>2
      <4>3. CASE f[k] = g[e]
        BY <1>1, <3>4, <3>5, <4>1, <4>2, <4>3
      <4>4. CASE f[k] < g[e]
        <5>1. f[k + 1] = f[k] + 1 \/ f[k + 1] = f[k]
          BY <4>1
        <5>2. g[e + 1] = g[e] + 1 \/ g[e + 1] = g[e]
          BY <4>2
        <5>3. f[k] \in Int /\ g[e] \in Int
          BY <3>4
        <5> QED BY <4>4, <5>1, <5>2, <5>3
      <4> QED BY <1>1, <3>4, <4>3, <4>4
    <3>7. ASSUME NEW a \in 0..m, h[k + 1] <= a PROVE f[k + 1] <= g[a]
      <4>1. e + 1 \in 0..a /\ e + 1 \in 0..m
        BY <1>1, <3>1, <3>2, <3>7
      <4>2. g[e + 1] <= g[a] /\ g[e + 1] \in 0..l /\ g[a] \in 0..l /\ f[k + 1] \in 0..l
        BY <1>2, <1>3, <1>8, <3>1, <4>1
      <4> QED BY <1>1, <3>6, <4>2
    <3>8. k + 1 # 0
      BY <1>1
    <3> QED BY <3>1, <3>7, <3>8
  <2> HIDE DEF S
  <2>3. 0..n \subseteq S
    BY <1>1, <2>1, <2>2, UpToInduction
  <2> QED BY <2>3 DEF S
<1>10. f[n] <= g[m]
  <2>1. n \in 0..n /\ m \in 0..m
    BY <1>1
  <2>2. n = 0 \/ h[n] <= m
    BY <1>1, <1>6
  <2> QED BY <1>9, <2>1, <2>2
<1>11. f[n] = l /\ g[m] \in 0..l
  BY <1>1, <1>2, <1>3
<1> QED BY <1>1, <1>3, <1>10, <1>11 DEF l

\* A prefix that shows the bug does so in every longer one.
LEMMA OccursInPrefix ==
  ASSUME NEW C, NEW cmds \in Seq(C), NEW b, Len(b) \in Nat,
         NEW m \in 0..Len(cmds), NEW k \in 0..m, Occurs(b, SubSeq(cmds, 1, k))
  PROVE  Occurs(b, SubSeq(cmds, 1, m))
<1> DEFINE x == SubSeq(cmds, 1, k)
           y == SubSeq(cmds, 1, m)
           h == [i \in 1..k |-> i]
<1>1. /\ x \in Seq(C) /\ y \in Seq(C) /\ Len(x) = k /\ Len(y) = m
      /\ \A i \in 1..k : x[i] = cmds[i] 
      /\ \A i \in 1..m : y[i] = cmds[i]
  OBVIOUS
<1>2. Embeds(h, x, y)
  BY <1>1 DEF Embeds
<1> HIDE DEF h, x, y
<1>3. Occurs(b, x)
  BY DEF x
<1>4. Occurs(b, y)
  BY <1>1, <1>2, <1>3, OccursInMore
<1> QED BY <1>4 DEF y

-----------------------------------------------------------------------------
(***************************************************************************)
(* The variables                                                           *)
(***************************************************************************)
Searching == pc \in {"binary", "prefix"}

Typed ==
  /\ pc \in {"push", "binary", "prefix", "single", "done"}
  /\ bingo_c \in Seq(Cmd) /\ test_case_ \in Seq(Cmd) /\ bug \in Seq(Cmd)
  /\ space \in Space
  /\ left \in Nat /\ right \in Int /\ idx \in Nat
  /\ Searching => /\ right < Len(test_case_) /\ -1 <= right
                  /\ right = -1 => Len(test_case_) = 0

LEMMA TruncateIs ==
  ASSUME NEW C, NEW cmds \in Seq(C), NEW m \in 0..Len(cmds)
  PROVE  Truncate(cmds, m) = SubSeq(cmds, 1, m)
<1>1. m \in Int /\ Len(cmds) \in Int /\ 0 <= m /\ m <= Len(cmds)
  OBVIOUS
<1>2. Min({m, Len(cmds)}) = m
  BY <1>1 DEF Min
<1> QED BY <1>1, <1>2 DEF Truncate

\* What is cut off at an end of the interval, also when there is nothing to search
LEMMA TruncateEnd ==
  ASSUME NEW C, NEW cmds \in Seq(C), NEW m \in Int, m < Len(cmds), -1 <= m,
         m = -1 => Len(cmds) = 0
  PROVE  \E k \in 0..Len(cmds) : Truncate(cmds, m) = SubSeq(cmds, 1, k) /\ (0 <= m => k = m)
<1>1. CASE m >= 0
  <2>1. m \in 0..Len(cmds)
    BY <1>1
  <2> QED BY <2>1, TruncateIs
<1>2. CASE m < 0
  <2>1. m = -1 /\ Len(cmds) = 0
    BY <1>2
  <2>2. Truncate(cmds, m) = SubSeq(cmds, 1, -1)
    BY <2>1 DEF Truncate
  <2>3. SubSeq(cmds, 1, -1) = << >> /\ SubSeq(cmds, 1, 0) = << >>
    BY SubSeqEmpty
  <2> QED BY <2>1, <2>2, <2>3
<1> QED BY <1>1, <1>2

\* What a bug is made of are commands of the case.
LEMMA BugIsSeq ==
  ASSUME NEW C, NEW cmds \in Seq(C), NEW b \in Bugs(cmds)
  PROVE  b \in Seq(C)
<1>1. PICK S : b = Kept(cmds, S)
  BY DEF Bugs
<1> QED BY <1>1, KeptElements

LEMMA InitTyped == Init => Typed
<1>1. << >> \in Seq(Cmd)
  OBVIOUS
<1> QED BY <1>1, EmptyIsSpace DEF Init, Typed, Searching

\* The tries cut off an end, or take out a command with its users.
LEMMA MidIs ==
  ASSUME Typed, pc = "binary", left + 3 < right
  PROVE  /\ Mid \in Nat /\ left + 2 <= Mid /\ Mid < right /\ right < Len(test_case_)
         /\ Mid - 1 \in 0..Len(test_case_)
<1>1. left \in Nat /\ right \in Int /\ Len(test_case_) \in Nat /\ right < Len(test_case_)
  BY DEF Typed, Searching
<1>2. \A l \in Nat, r \in Int : l + 3 < r => /\ l + ((r - l) \div 2) \in Int
                                             /\ l + 2 <= l + ((r - l) \div 2)
                                             /\ l + ((r - l) \div 2) < r
  OBVIOUS
<1>3. Mid \in Int /\ left + 2 <= Mid /\ Mid < right
  BY <1>1, <1>2 DEF Mid
<1> HIDE DEF Mid
<1> QED BY <1>1, <1>3

LEMMA SubSeqIsSeq ==
  ASSUME NEW C, NEW cmds \in Seq(C), NEW m \in 0..Len(cmds)
  PROVE  SubSeq(cmds, 1, m) \in Seq(C)
OBVIOUS

LEMMA NextTyped == Typed /\ [Next]_vars => Typed'
<1> SUFFICES ASSUME Typed, [Next]_vars PROVE Typed'
  OBVIOUS
<1>1. CASE Push
  <2>1. PICK c \in Pushes(space) : bingo_c' = Append(bingo_c, c) /\ space' = Pushed(space, c)
    BY <1>1 DEF Push
  <2>2. c \in Cmd /\ Pushed(space, c) \in Space
    BY PushedIs DEF Typed
  <2>3. bingo_c' \in Seq(Cmd) /\ space' \in Space
    BY <2>1, <2>2 DEF Typed
  <2> QED BY <1>1, <2>3 DEF Push, Typed, Searching
<1>2. CASE FromFile
  <2>1. bug' \in Seq(Cmd)
    BY <1>2, BugIsSeq DEF FromFile, Typed
  <2>2. Len(bingo_c) \in Nat
    BY DEF Typed
  <2> QED BY <1>2, <2>1, <2>2 DEF FromFile, Typed, Searching
<1>3. CASE BinaryStep
  <2>1. /\ pc = "binary" /\ left + 3 < right
        /\ \E candidate \in {Truncate(test_case_, Mid - 1)}, shows \in BOOLEAN :
             Try(candidate, shows) /\ Halve(shows)
        /\ UNCHANGED <<space, bug, pc, idx, test_case_>>
    BY <1>3 DEF BinaryStep
  <2>2. bingo_c' = Truncate(test_case_, Mid - 1) /\ (left' = left \/ left' = Mid)
        /\ (right' = right \/ right' = Mid)
    BY <2>1 DEF Try, Halve
  <2>3. /\ Mid \in Nat /\ Mid < right /\ right < Len(test_case_)
        /\ Mid - 1 \in 0..Len(test_case_)
    BY <2>1, MidIs
  <2>4. bingo_c' \in Seq(Cmd)
    BY <2>2, <2>3, TruncateIs, SubSeqIsSeq DEF Typed
  <2>5. left' \in Nat /\ right' \in Int /\ right' < Len(test_case_) /\ -1 <= right' /\ right' # -1
    <3>1. Len(test_case_) \in Nat /\ left \in Nat /\ right \in Int
      BY DEF Typed
    <3> HIDE DEF Mid
    <3> QED BY <2>1, <2>2, <2>3, <3>1
  <2> QED BY <2>1, <2>4, <2>5 DEF Typed, Searching
<1>4. CASE BinaryEnd
  <2>1. right \in Int /\ right < Len(test_case_) /\ -1 <= right /\ (right = -1 => Len(test_case_) = 0)
    BY <1>4 DEF BinaryEnd, Typed, Searching
  <2>2. PICK k \in 0..Len(test_case_) : Truncate(test_case_, right) = SubSeq(test_case_, 1, k)
    BY <2>1, TruncateEnd DEF Typed
  <2>3. bingo_c' \in Seq(Cmd)
    BY <1>4, <2>2, SubSeqIsSeq DEF BinaryEnd, Typed
  <2> QED BY <1>4, <2>3 DEF BinaryEnd, Typed, Searching
<1>5. CASE SingleStart
  BY <1>5 DEF SingleStart, Typed, Searching
<1>6. CASE SingleStep
  <2>1. /\ pc = "single" /\ idx < Len(test_case_)
        /\ \E candidate \in {FilteredOut(test_case_, idx + 1)}, shows \in BOOLEAN :
             Try(candidate, shows) /\ Advance(shows, candidate)
        /\ UNCHANGED <<space, bug, pc, left, right>>
    BY <1>6 DEF SingleStep
  <2>2. /\ bingo_c' = FilteredOut(test_case_, idx + 1)
        /\ test_case_' = FilteredOut(test_case_, idx + 1) \/ test_case_' = test_case_
        /\ idx' = idx \/ idx' = idx + 1
    BY <2>1 DEF Try, Advance
  <2>3. FilteredOut(test_case_, idx + 1) \in Seq(Cmd)
    BY KeptElements DEF FilteredOut, Typed
  <2> QED BY <2>1, <2>2, <2>3 DEF Typed, Searching
<1>7. CASE SingleEnd
  BY <1>7 DEF SingleEnd, Saved, Typed, Searching
<1>8. CASE UNCHANGED vars
  BY <1>8 DEF vars, Typed, Searching
<1>. QED BY <1>1, <1>2, <1>3, <1>4, <1>5, <1>6, <1>7, <1>8 DEF Next, Reduce

-----------------------------------------------------------------------------
(***************************************************************************)
(* The search for a prefix: the one at the right end has shown the bug,    *)
(* and the one at the left end, if every run told the truth, does not.     *)
(***************************************************************************)
SearchInv ==
  /\ Searching =>
       /\ right < Len(test_case_) - 1 =>
            2 <= right /\ Occurs(bug, Truncate(test_case_, right - 1))
       /\ ~missed /\ left > 0 =>
            left < Len(test_case_) /\ ~Occurs(bug, Truncate(test_case_, left - 1))
  /\ pc = "prefix" => left + 3 >= right /\ bingo_c = Truncate(test_case_, right)

LEMMA BinaryStepSearches ==
  ASSUME Typed, SearchInv, BinaryStep PROVE SearchInv'
<1>1. /\ pc = "binary" /\ left + 3 < right
      /\ \E candidate \in {Truncate(test_case_, Mid - 1)}, shows \in BOOLEAN :
           Try(candidate, shows) /\ Halve(shows)
      /\ bug' = bug /\ pc' = "binary" /\ test_case_' = test_case_
  BY DEF BinaryStep
<1>2. PICK shows \in BOOLEAN : Try(Truncate(test_case_, Mid - 1), shows) /\ Halve(shows)
  BY <1>1
<1>3. /\ Mid \in Nat /\ left + 2 <= Mid /\ Mid < right /\ right < Len(test_case_)
      /\ left \in Nat /\ right \in Int /\ Len(test_case_) \in Nat
  BY <1>1, MidIs DEF Typed
<1>4. /\ right < Len(test_case_) - 1 =>
           2 <= right /\ Occurs(bug, Truncate(test_case_, right - 1))
      /\ ~missed /\ left > 0 =>
           left < Len(test_case_) /\ ~Occurs(bug, Truncate(test_case_, left - 1))
  BY <1>1 DEF SearchInv, Searching
<1>5. /\ missed' = (missed \/ (Occurs(bug, Truncate(test_case_, Mid - 1)) /\ ~shows))
      /\ shows => Occurs(bug, Truncate(test_case_, Mid - 1))
  BY <1>2 DEF Try, Manifests
<1>6. CASE shows
  <2>1. left' = left /\ right' = Mid /\ Occurs(bug, Truncate(test_case_, Mid - 1))
    BY <1>2, <1>5, <1>6 DEF Halve
  <2>2. 2 <= Mid
    BY <1>3
  <2>3. missed' => missed' = missed
    BY <1>5, <1>6
  <2>4. ~missed' => ~missed
    BY <1>5
  <2> QED BY <1>1, <1>4, <2>1, <2>2, <2>4 DEF SearchInv, Searching
<1>7. CASE ~shows
  <2>1. left' = Mid /\ right' = right
    BY <1>2, <1>7 DEF Halve
  <2>2. ~missed' => ~Occurs(bug, Truncate(test_case_, Mid - 1))
    BY <1>5, <1>7
  <2>3. Mid < Len(test_case_)
    BY <1>3
  <2> QED BY <1>1, <1>4, <2>1, <2>2, <2>3 DEF SearchInv, Searching
<1> QED BY <1>6, <1>7

LEMMA NextSearches == Typed /\ SearchInv /\ [Next]_vars => SearchInv'
<1> SUFFICES ASSUME Typed, SearchInv, [Next]_vars PROVE SearchInv'
  OBVIOUS
<1>1. CASE Push
  BY <1>1 DEF Push, SearchInv, Searching
<1>2. CASE FromFile
  <2>1. /\ pc' = "binary" /\ left' = 0 /\ right' = Len(bingo_c) - 1 /\ test_case_' = bingo_c
        /\ Len(bingo_c) \in Nat
    BY <1>2 DEF FromFile, Typed
  <2> QED BY <2>1 DEF SearchInv, Searching
<1>3. CASE BinaryStep
  BY <1>3, BinaryStepSearches
<1>4. CASE BinaryEnd
  BY <1>4 DEF BinaryEnd, SearchInv, Searching
<1>5. CASE SingleStart
  BY <1>5 DEF SingleStart, SearchInv, Searching
<1>6. CASE SingleStep
  BY <1>6 DEF SingleStep, SearchInv, Searching
<1>7. CASE SingleEnd
  BY <1>7 DEF SingleEnd, SearchInv, Searching
<1>8. CASE UNCHANGED vars
  BY <1>8 DEF vars, SearchInv, Searching
<1>. QED BY <1>1, <1>2, <1>3, <1>4, <1>5, <1>6, <1>7, <1>8 DEF Next, Reduce

LEMMA SearchFinds == Typed /\ SearchInv => PrefixIsAlmostShortest
<1> SUFFICES ASSUME Typed, SearchInv, pc = "prefix"
             PROVE  /\ right < Len(test_case_) - 1 => Occurs(bug, bingo_c)
                    /\ ~missed => \A n \in 0..(right - 4) : ~Occurs(bug, Truncate(test_case_, n))
  BY DEF PrefixIsAlmostShortest, Manifests
<1>1. /\ test_case_ \in Seq(Cmd) /\ Len(test_case_) \in Nat /\ Len(bug) \in Nat
      /\ left \in Nat /\ right \in Int /\ right < Len(test_case_)
  BY DEF Typed, Searching
<1>2. /\ right < Len(test_case_) - 1 =>
           2 <= right /\ Occurs(bug, Truncate(test_case_, right - 1))
      /\ ~missed /\ left > 0 =>
           left < Len(test_case_) /\ ~Occurs(bug, Truncate(test_case_, left - 1))
      /\ left + 3 >= right /\ bingo_c = Truncate(test_case_, right)
  BY DEF SearchInv, Searching
<1>3. ASSUME NEW m \in 0..Len(test_case_), NEW k \in 0..m, Occurs(bug, Truncate(test_case_, k))
      PROVE  Occurs(bug, Truncate(test_case_, m))
  <2>1. k \in 0..Len(test_case_)
    BY <1>1
  <2>2. /\ Truncate(test_case_, k) = SubSeq(test_case_, 1, k)
        /\ Truncate(test_case_, m) = SubSeq(test_case_, 1, m)
    BY <1>1, <2>1, TruncateIs
  <2> QED BY <1>1, <1>3, <2>2, OccursInPrefix
<1>4. ASSUME right < Len(test_case_) - 1 PROVE Occurs(bug, bingo_c)
  <2>1. right \in 0..Len(test_case_) /\ right - 1 \in 0..right
    BY <1>1, <1>2, <1>4
  <2> QED BY <1>2, <1>3, <1>4, <2>1
<1>5. ASSUME ~missed, NEW n \in 0..(right - 4), Occurs(bug, Truncate(test_case_, n)) PROVE FALSE
  <2>1. left > 0 /\ n \in 0..(left - 1)
    BY <1>1, <1>2
  <2>2. left - 1 \in 0..Len(test_case_)
    BY <1>1, <1>2, <1>5, <2>1
  <2> QED BY <1>2, <1>3, <1>5, <2>1, <2>2
<1> QED BY <1>4, <1>5

\* The prefix that binary_reduce leaves has the bug, unless no prefix has shown it, and
\* when every run told the truth no prefix more than three commands shorter has it
\* (reducer.py:76-100).
THEOREM PrefixIsShort == Spec => []PrefixIsAlmostShortest
<1>1. Init => Typed /\ SearchInv
  BY InitTyped DEF Init, SearchInv, Searching
<1>2. Typed /\ SearchInv /\ [Next]_vars => (Typed /\ SearchInv)'
  BY NextTyped, NextSearches
<1> QED BY <1>1, <1>2, SearchFinds, PTL DEF Spec

-----------------------------------------------------------------------------
(***************************************************************************)
(* The candidates: when nothing is renamed, what is cut off or taken out   *)
(* leaves commands that succeed one after the other.                       *)
(***************************************************************************)
NoneRenames(cmds) == \A j \in 1..Len(cmds) : cmds[j].type_ # "RENAME"

SucceedInv ==
  /\ AllSucceed(bingo_c) /\ AllSucceed(test_case_) /\ PlainNames(test_case_)
  /\ pc = "push" => /\ Leaves(bingo_c, Bare(space)) /\ IssuedNames(bingo_c, space)
                    /\ NoneRenames(bingo_c)

LEMMA EmptySucceeds == AllSucceed(<< >>) /\ PlainNames(<< >>) /\ NoneRenames(<< >>)
<1>1. << >> \in Seq(Cmd) /\ Len(<< >>) = 0
  OBVIOUS
<1>2. AllSucceed(<< >>)
  BY <1>1, LeavesEmpty, EmptyIsSpace, AllSucceedLeaves
<1>3. PlainNames(<< >>)
  BY <1>1 DEF PlainNames
<1>4. NoneRenames(<< >>)
  BY <1>1 DEF NoneRenames
<1> QED BY <1>2, <1>3, <1>4

LEMMA InitSucceeds == Init => SucceedInv
<1> SUFFICES ASSUME Init PROVE SucceedInv
  OBVIOUS
<1>1. bingo_c = << >> /\ test_case_ = << >> /\ space = Empty
  BY DEF Init
<1>2. Bare(Empty) = Empty
  <2>1. Bare(Empty) = [dirs |-> Empty.dirs, files |-> Empty.files, others |-> Empty.others,
                       open |-> Empty.open, names |-> 0, fds |-> 0]
    BY EmptyIsSpace, BareIs
  <2> QED BY <2>1 DEF Empty
<1>3. IssuedNames(<< >>, Empty)
  <2>1. Len(<< >>) = 0
    OBVIOUS
  <2> QED BY <2>1 DEF IssuedNames
<1> QED BY <1>1, <1>2, <1>3, EmptySucceeds, LeavesEmpty DEF SucceedInv

LEMMA PushSucceeds ==
  ASSUME "RENAME" \notin Types, Typed, SucceedInv, Push PROVE SucceedInv'
<1>1. PICK c \in Pushes(space) : bingo_c' = Append(bingo_c, c) /\ space' = Pushed(space, c)
  BY DEF Push
<1>2. /\ bingo_c \in Seq(Cmd) /\ space \in Space /\ Leaves(bingo_c, Bare(space))
      /\ IssuedNames(bingo_c, space) /\ NoneRenames(bingo_c)
      /\ AllSucceed(test_case_) /\ PlainNames(test_case_) /\ test_case_' = test_case_
  BY DEF Typed, SucceedInv, Push
<1>3. /\ c \in Cmd /\ Pushed(space, c) \in Space /\ Succeeds(Bare(space), c)
      /\ Bare(Pushed(space, c)) = After(Bare(space), c)
  BY <1>2, PushedIs
<1>4. Bare(space) \in Space /\ After(Bare(space), c) \in Space
  BY <1>2, <1>3, BareSpace, AfterIsSpace
<1>5. /\ Append(bingo_c, c) \in Seq(Cmd)
      /\ Leaves(Append(bingo_c, c), After(Bare(space), c))
  BY <1>2, <1>3, <1>4, LeavesAppend
<1>6. IssuedNames(Append(bingo_c, c), Pushed(space, c))
  BY <1>2, PushedNames
<1>7. AllSucceed(Append(bingo_c, c))
  BY <1>4, <1>5, AllSucceedLeaves
<1>8. NoneRenames(Append(bingo_c, c))
  <2>1. c.type_ # "RENAME"
    <3>1. c \in Offered(space)
      BY DEF Pushes
    <3> QED BY <3>1, OfferedArgs
  <2>2. \A j \in 1..Len(Append(bingo_c, c)) :
          Append(bingo_c, c)[j] = IF j = Len(bingo_c) + 1 THEN c ELSE bingo_c[j]
    BY <1>2, <1>3
  <2>3. Len(Append(bingo_c, c)) = Len(bingo_c) + 1 /\ Len(bingo_c) \in Nat
    BY <1>2, <1>3
  <2> QED BY <1>2, <2>1, <2>2, <2>3 DEF NoneRenames
<1> QED BY <1>1, <1>2, <1>3, <1>5, <1>6, <1>7, <1>8 DEF SucceedInv

\* What is taken out of a case that runs leaves one.
LEMMA FilteredSucceeds ==
  ASSUME NEW cmds \in Seq(Cmd), AllSucceed(cmds), PlainNames(cmds), NEW i \in 1..Len(cmds)
  PROVE  /\ FilteredOut(cmds, i) \in Seq(Cmd) /\ AllSucceed(FilteredOut(cmds, i))
         /\ PlainNames(FilteredOut(cmds, i))
<1> DEFINE D == Dependents(cmds, i)
<1>1. D \in SUBSET (i..Len(cmds)) /\ Users(cmds, i, D) \subseteq D
  BY DependentsLeast
<1> HIDE DEF D
<1>2. KeptUseKept(cmds, DOMAIN cmds \ D)
  BY <1>1, UsersGo
<1> QED BY <1>2, KeptRuns, KeptPlain DEF FilteredOut, D

LEMMA NextSucceeds ==
  ASSUME "RENAME" \notin Types, Typed, SucceedInv, [Next]_vars PROVE SucceedInv'
<1>0. test_case_ \in Seq(Cmd) /\ AllSucceed(test_case_) /\ PlainNames(test_case_)
  BY DEF Typed, SucceedInv
<1>1. CASE Push
  BY <1>1, PushSucceeds
<1>2. CASE FromFile
  <2>1. PlainNames(bingo_c)
    BY <1>2, IssuedArePlain DEF FromFile, Typed, SucceedInv, NoneRenames
  <2> QED BY <1>2, <2>1 DEF FromFile, SucceedInv
<1>3. CASE BinaryStep
  <2>1. /\ pc = "binary" /\ left + 3 < right /\ pc' = pc /\ test_case_' = test_case_
        /\ bingo_c' = Truncate(test_case_, Mid - 1)
    BY <1>3 DEF BinaryStep, Try
  <2>2. Mid - 1 \in 0..Len(test_case_)
    BY <2>1, MidIs
  <2>3. AllSucceed(bingo_c')
    BY <1>0, <2>1, <2>2, TruncateIs, LeavesPrefix
  <2> QED BY <1>0, <2>1, <2>3 DEF SucceedInv
<1>4. CASE BinaryEnd
  <2>1. right \in Int /\ right < Len(test_case_) /\ -1 <= right /\ (right = -1 => Len(test_case_) = 0)
    BY <1>4 DEF BinaryEnd, Typed, Searching
  <2>2. PICK k \in 0..Len(test_case_) : Truncate(test_case_, right) = SubSeq(test_case_, 1, k)
    BY <1>0, <2>1, TruncateEnd
  <2>3. AllSucceed(bingo_c')
    BY <1>0, <1>4, <2>2, LeavesPrefix DEF BinaryEnd
  <2> QED BY <1>0, <1>4, <2>3 DEF BinaryEnd, SucceedInv
<1>5. CASE SingleStart
  BY <1>5 DEF SingleStart, SucceedInv
<1>6. CASE SingleStep
  <2>1. /\ pc = "single" /\ idx < Len(test_case_) /\ pc' = pc
        /\ bingo_c' = FilteredOut(test_case_, idx + 1)
        /\ test_case_' = FilteredOut(test_case_, idx + 1) \/ test_case_' = test_case_
    BY <1>6 DEF SingleStep, Try, Advance
  <2>2. idx + 1 \in 1..Len(test_case_)
    BY <2>1 DEF Typed
  <2>3. AllSucceed(FilteredOut(test_case_, idx + 1)) /\ PlainNames(FilteredOut(test_case_, idx + 1))
    BY <1>0, <2>2, FilteredSucceeds
  <2> QED BY <1>0, <2>1, <2>3 DEF SucceedInv
<1>7. CASE SingleEnd
  BY <1>0, <1>7 DEF SingleEnd, Saved, SucceedInv
<1>8. CASE UNCHANGED vars
  BY <1>8 DEF vars, SucceedInv
<1>. QED BY <1>1, <1>2, <1>3, <1>4, <1>5, <1>6, <1>7, <1>8 DEF Next, Reduce

\* Every test case that a reduction tries runs, as long as nothing is renamed
\* (reducer.py:59, 88).
THEOREM CandidatesRun ==
  ASSUME "RENAME" \notin Types
  PROVE  Spec => []CandidatesSucceed
<1>1. Init => Typed /\ SucceedInv
  BY InitTyped, InitSucceeds
<1>2. Typed /\ SucceedInv /\ [Next]_vars => (Typed /\ SucceedInv)'
  BY NextTyped, NextSucceeds
<1>3. SucceedInv => CandidatesSucceed
  BY DEF SucceedInv, CandidatesSucceed
<1> QED BY <1>1, <1>2, <1>3, PTL DEF Spec

-----------------------------------------------------------------------------
(***************************************************************************)
(* One pass is enough: what was not taken out because the bug was gone     *)
(* without it cannot be taken out later, when commands behind it are gone. *)
(***************************************************************************)
LEMMA LaterTakenOut ==
  ASSUME NEW cmds \in Seq(Cmd), InOrder(cmds), NEW p \in 1..Len(cmds),
         NEW i \in 1..Len(FilteredOut(cmds, p)), i < p
  PROVE  \E e : Embeds(e, FilteredOut(FilteredOut(cmds, p), i), FilteredOut(cmds, i))
<1> DEFINE n == Len(cmds)
           P == Dependents(cmds, p)
           T == (DOMAIN cmds \ P) \cap (1..n)
           x == FilteredOut(cmds, p)
           l == Len(x)
<1>1. n \in Nat /\ DOMAIN cmds = 1..n /\ x \in Seq(Cmd) /\ l \in Nat /\ DOMAIN x = 1..l
  BY KeptElements DEF FilteredOut
<1>2. i \in 1..n /\ i \in 1..l /\ i < p /\ p \in 1..n
  BY <1>1
<1>3. P \subseteq p..n /\ Users(cmds, p, P) \subseteq P
  BY DependentsLeast
<1>4. PICK h : Places(h, x, cmds, T)
  BY KeptPlaces DEF FilteredOut
<1>5. /\ h \in [1..l -> T] /\ \A k \in 1..l : x[k] = cmds[h[k]]
      /\ \A j, k \in 1..l : j < k => h[j] < h[k]
      /\ \A j \in T : \E k \in 1..l : h[k] = j
  BY <1>4 DEF Places
<1> DEFINE Q == Dependents(x, i)
<1>6. Q \subseteq i..l /\ i \in Q /\ Users(x, i, Q) \subseteq Q
  BY <1>1, <1>2, DependentsLeast
<1> DEFINE D == Dependents(cmds, i)
<1>7. \A E \in SUBSET (i..n) : i \in E /\ Users(cmds, i, E) \subseteq E => D \subseteq E
  BY <1>1, <1>2, DependentsLeast
<1> DEFINE y == FilteredOut(x, i)
           z == FilteredOut(cmds, i)
           V == (DOMAIN x \ Q) \cap (1..l)
           W == (DOMAIN cmds \ D) \cap (1..n)
<1>8. PICK g : Places(g, y, x, V)
  BY <1>1, KeptPlaces DEF FilteredOut
<1>9. PICK w : Places(w, z, cmds, W)
  BY KeptPlaces DEF FilteredOut
<1>10. y \in Seq(Cmd) /\ z \in Seq(Cmd)
  BY <1>1, KeptElements DEF FilteredOut
<1>11. T = (1..n) \ P /\ V = (1..l) \ Q /\ W = (1..n) \ D
  BY <1>1
<1> HIDE DEF n, P, T, x, l, Q, D, y, z, V, W
\* What is before p has stayed where it was.
<1>12. h[i] = i
  <2> DEFINE S == {k \in 0..i : \A j \in 1..k : h[j] = j}
  <2>1. 0 \in S
    BY <1>1, <1>2
  <2>2. ASSUME NEW k \in 0..(i - 1), k \in S PROVE k + 1 \in S
    <3>1. /\ k + 1 \in 1..l /\ k + 1 \in 1..n /\ k + 1 < p /\ k + 1 \in 0..i
          /\ \A j \in 1..k : h[j] = j /\ j \in 1..l
      BY <1>1, <1>2, <2>2
    <3>2. k + 1 \in T
      BY <1>1, <1>2, <1>3, <1>11, <3>1
    <3>3. PICK m \in 1..l : h[m] = k + 1
      BY <1>5, <3>2
    <3>4. h[k + 1] \in T /\ T \subseteq 1..n
      BY <1>5, <1>11, <3>1
    <3>5. m \notin 1..k
      BY <3>1, <3>3
    <3>6. ASSUME k + 1 < m PROVE FALSE
      <4> DEFINE q == h[k + 1]
      <4>1. q < k + 1
        BY <1>5, <3>1, <3>3, <3>6
      <4>2. q \in 1..n
        BY <3>4
      <4> HIDE DEF q
      <4>3. q \in 1..k
        BY <1>1, <3>1, <4>1, <4>2
      <4>4. h[q] = q /\ q \in 1..l
        BY <3>1, <4>3
      <4>5. h[q] < h[k + 1]
        BY <1>5, <3>1, <4>1, <4>4
      <4> QED BY <4>2, <4>4, <4>5 DEF q
    <3>7. m = k + 1
      BY <1>1, <3>1, <3>5, <3>6
    <3>8. \A j \in 1..(k + 1) : j \in 1..k \/ j = k + 1
      BY <3>1
    <3> QED BY <3>1, <3>3, <3>7, <3>8
  <2>3. 0..i \subseteq S
    <3> HIDE DEF S
    <3> QED BY <1>2, <2>1, <2>2, UpToInduction
  <2>4. i \in 0..i /\ i \in 1..i
    BY <1>2
  <2> QED BY <2>3, <2>4
\* With i goes no more than goes with p, and what goes with i when that is gone.
<1> DEFINE E == P \cup {h[r] : r \in Q}
<1>13. E \in SUBSET (i..n)
  <2>1. P \subseteq i..n
    BY <1>1, <1>2, <1>3
  <2>2. ASSUME NEW r \in Q PROVE h[r] \in i..n
    <3>1. r \in i..l /\ r \in 1..l
      BY <1>1, <1>2, <1>6
    <3>2. h[r] \in 1..n
      BY <1>5, <1>11, <3>1
    <3>3. CASE r = i
      BY <1>2, <1>12, <3>3
    <3>4. CASE r # i
      <4>1. i < r
        BY <1>1, <1>2, <3>1, <3>4
      <4>2. i < h[r]
        BY <1>2, <1>5, <1>12, <3>1, <4>1
      <4> QED BY <1>1, <1>2, <3>2, <4>2
    <3> QED BY <3>3, <3>4
  <2> QED BY <2>1, <2>2
<1>14. i \in E
  BY <1>6, <1>12
<1>15. Users(cmds, i, E) \subseteq E
  <2> SUFFICES ASSUME NEW k \in i..n, NEW r \in E, Def(cmds[r]) \in Use(cmds[k]) PROVE k \in E
    BY DEF Users, n
  <2>1. k \in 1..n /\ r \in 1..n
    BY <1>1, <1>2, <1>13
  <2>2. CASE r \in P
    <3>1. r <= k
      BY <2>1 DEF InOrder, n
    <3>2. k \in p..n
      BY <1>1, <1>2, <1>3, <2>1, <2>2, <3>1
    <3>3. k \in Users(cmds, p, P)
      BY <2>2, <3>2 DEF Users, n
    <3> QED BY <1>3, <3>3
  <2>3. CASE r \notin P /\ k \notin P
    <3>1. PICK q \in Q : r = h[q]
      BY <2>3
    <3>2. k \in T
      BY <1>11, <2>1, <2>3
    <3>3. PICK m \in 1..l : h[m] = k
      BY <1>5, <3>2
    <3>4. ~(m < i)
      <4>1. m < i => h[m] < i
        BY <1>2, <1>5, <1>12
      <4> QED BY <1>1, <1>2, <3>3, <4>1
    <3>5. m \in i..l /\ q \in 1..l
      BY <1>1, <1>2, <1>6, <3>4
    <3>6. Def(x[q]) \in Use(x[m])
      BY <1>5, <3>1, <3>3, <3>5
    <3>7. m \in Users(x, i, Q)
      BY <3>5, <3>6 DEF Users, l
    <3> QED BY <1>6, <3>3, <3>7
  <2> QED BY <2>2, <2>3
<1>16. D \subseteq E
  BY <1>7, <1>13, <1>14, <1>15
<1> DEFINE a == Len(y)
           b == Len(z)
<1>17. /\ g \in [1..a -> V] /\ \A k \in 1..a : y[k] = x[g[k]]
       /\ \A j, k \in 1..a : j < k => g[j] < g[k]
  BY <1>8 DEF Places
<1>18. /\ w \in [1..b -> W] /\ \A k \in 1..b : z[k] = cmds[w[k]]
       /\ \A j, k \in 1..b : j < k => w[j] < w[k]
       /\ \A j \in W : \E k \in 1..b : w[k] = j
  BY <1>9 DEF Places
<1>19. a \in Nat /\ b \in Nat
  BY <1>10
<1> HIDE DEF a, b, E
<1>20. ASSUME NEW k \in 1..a PROVE g[k] \in 1..l /\ h[g[k]] \in W
  <2>1. g[k] \in (1..l) \ Q
    BY <1>11, <1>17
  <2>2. h[g[k]] \in (1..n) \ P
    BY <1>5, <1>11, <2>1
  <2>3. \A r \in Q : h[r] # h[g[k]]
    <3> SUFFICES ASSUME NEW r \in Q, h[r] = h[g[k]] PROVE FALSE
      OBVIOUS
    <3>1. r \in 1..l /\ r # g[k]
      BY <1>1, <1>2, <1>6, <2>1
    <3>2. r < g[k] \/ g[k] < r
      BY <1>1, <2>1, <3>1
    <3>3. h[r] < h[g[k]] \/ h[g[k]] < h[r]
      BY <1>5, <2>1, <3>1, <3>2
    <3> QED BY <1>1, <2>2, <3>3
  <2>4. h[g[k]] \notin E
    BY <2>2, <2>3 DEF E
  <2> QED BY <1>11, <1>16, <2>1, <2>2, <2>4
<1> DEFINE e == [k \in 1..a |-> CHOOSE q \in 1..b : w[q] = h[g[k]]]
<1>21. \A k \in 1..a : e[k] \in 1..b /\ w[e[k]] = h[g[k]]
  BY <1>18, <1>20
<1>22. e \in [1..a -> 1..b]
  BY <1>21
<1> HIDE DEF e
<1>23. ASSUME NEW k \in 1..a PROVE y[k] = z[e[k]]
  BY <1>5, <1>17, <1>18, <1>20, <1>21
<1>24. ASSUME NEW j \in 1..a, NEW k \in 1..a, j < k PROVE e[j] < e[k]
  <2>1. g[j] < g[k]
    BY <1>17, <1>24
  <2>2. w[e[j]] < w[e[k]]
    BY <1>5, <1>20, <1>21, <2>1
  <2>3. e[j] \in 1..b /\ e[k] \in 1..b /\ w[e[j]] \in 1..n /\ w[e[k]] \in 1..n
    BY <1>11, <1>18, <1>21
  <2>4. ~(e[k] < e[j])
    <3>1. e[k] < e[j] => w[e[k]] < w[e[j]]
      BY <1>18, <2>3
    <3> QED BY <1>1, <2>2, <2>3, <3>1
  <2>5. e[k] # e[j]
    BY <1>1, <2>2, <2>3
  <2> QED BY <1>19, <2>3, <2>4, <2>5
<1>25. Embeds(e, y, z)
  BY <1>22, <1>23, <1>24 DEF Embeds, a, b
<1> QED BY <1>25 DEF y, z, x

OrderInv ==
  /\ InOrder(test_case_)
  /\ pc = "push" => UsesIssued(bingo_c, space) /\ InOrder(bingo_c)

TriedInv ==
  /\ pc = "single" /\ ~missed =>
       \A i \in 1..Len(test_case_) : i <= idx => ~Occurs(bug, FilteredOut(test_case_, i))
  /\ pc = "done" /\ ~missed =>
       \A i \in 1..Len(bingo_c) : ~Occurs(bug, FilteredOut(bingo_c, i))

LEMMA InitOrdered == Init => OrderInv /\ TriedInv
<1> SUFFICES ASSUME Init PROVE OrderInv /\ TriedInv
  OBVIOUS
<1>1. bingo_c = << >> /\ test_case_ = << >> /\ space = Empty /\ pc = "push"
  BY DEF Init
<1>2. Len(<< >>) = 0
  OBVIOUS
<1>3. InOrder(<< >>)
  BY <1>2 DEF InOrder
<1>4. Nodes(Empty) \cup Empty.open \subseteq Issued(Empty)
  BY DEF Nodes, Empty, Issued
<1>5. UsesIssued(<< >>, Empty)
  BY <1>2, <1>4 DEF UsesIssued
<1> QED BY <1>1, <1>3, <1>5 DEF OrderInv, TriedInv

LEMMA NextOrdered ==
  ASSUME "RENAME" \notin Types, Typed, OrderInv, [Next]_vars PROVE OrderInv'
<1>0. test_case_ \in Seq(Cmd) /\ InOrder(test_case_)
  BY DEF Typed, OrderInv
<1>1. CASE Push
  <2>1. PICK c \in Pushes(space) : bingo_c' = Append(bingo_c, c) /\ space' = Pushed(space, c)
    BY <1>1 DEF Push
  <2>2. c.type_ # "RENAME"
    <3>1. c \in Offered(space)
      BY DEF Pushes
    <3> QED BY <3>1, OfferedArgs
  <2>3. /\ bingo_c \in Seq(Cmd) /\ space \in Space /\ UsesIssued(bingo_c, space)
        /\ InOrder(bingo_c) /\ test_case_' = test_case_
    BY <1>1 DEF Push, Typed, OrderInv
  <2>4. UsesIssued(Append(bingo_c, c), Pushed(space, c)) /\ InOrder(Append(bingo_c, c))
    BY <2>2, <2>3, PushedInOrder
  <2> QED BY <1>0, <2>1, <2>3, <2>4 DEF OrderInv
<1>2. CASE FromFile
  BY <1>2 DEF FromFile, OrderInv
<1>3. CASE BinaryStep
  BY <1>3 DEF BinaryStep, OrderInv
<1>4. CASE BinaryEnd
  BY <1>4 DEF BinaryEnd, OrderInv
<1>5. CASE SingleStart
  BY <1>5 DEF SingleStart, OrderInv
<1>6. CASE SingleStep
  <2>1. /\ pc = "single" /\ pc' = pc
        /\ test_case_' = FilteredOut(test_case_, idx + 1) \/ test_case_' = test_case_
    BY <1>6 DEF SingleStep, Advance
  <2>2. InOrder(FilteredOut(test_case_, idx + 1))
    BY <1>0, KeptInOrder DEF FilteredOut
  <2> QED BY <1>0, <2>1, <2>2 DEF OrderInv
<1>7. CASE SingleEnd
  BY <1>7 DEF SingleEnd, OrderInv
<1>8. CASE UNCHANGED vars
  BY <1>8 DEF vars, OrderInv
<1>. QED BY <1>1, <1>2, <1>3, <1>4, <1>5, <1>6, <1>7, <1>8 DEF Next, Reduce

\* A try that fails settles the command at idx; one that succeeds leaves those before it
\* settled.
LEMMA SingleStepTries ==
  ASSUME Typed, OrderInv, TriedInv, SingleStep PROVE TriedInv'
<1> DEFINE p == idx + 1
           candidate == FilteredOut(test_case_, p)
<1>1. /\ pc = "single" /\ idx < Len(test_case_) /\ bug' = bug /\ pc' = pc
      /\ \E c \in {candidate}, shows \in BOOLEAN : Try(c, shows) /\ Advance(shows, c)
  BY DEF SingleStep
<1>2. PICK shows \in BOOLEAN : Try(candidate, shows) /\ Advance(shows, candidate)
  BY <1>1
<1>3. /\ test_case_ \in Seq(Cmd) /\ InOrder(test_case_) /\ idx \in Nat /\ bug \in Seq(Cmd)
      /\ Len(bug) \in Nat /\ Len(test_case_) \in Nat
  BY DEF Typed, OrderInv
<1>4. p \in 1..Len(test_case_)
  BY <1>1, <1>3
<1>5. missed' = (missed \/ (Occurs(bug, candidate) /\ ~shows))
  BY <1>2 DEF Try, Manifests
<1>6. CASE shows
  <2>1. test_case_' = candidate /\ idx' = idx
    BY <1>2, <1>6 DEF Advance
  <2>2. ASSUME ~missed, NEW i \in 1..Len(candidate), i <= idx,
               Occurs(bug, FilteredOut(candidate, i))
        PROVE  FALSE
    <3>1. i < p
      BY <1>3, <2>2
    <3>2. PICK e : Embeds(e, FilteredOut(candidate, i), FilteredOut(test_case_, i))
      BY <1>3, <1>4, <3>1, LaterTakenOut
    <3>3. FilteredOut(candidate, i) \in Seq(Cmd) /\ FilteredOut(test_case_, i) \in Seq(Cmd)
      <4>1. candidate \in Seq(Cmd)
        BY <1>3, KeptElements DEF FilteredOut
      <4> HIDE DEF candidate
      <4> QED BY <1>3, <4>1, KeptElements DEF FilteredOut
    <3>4. Occurs(bug, FilteredOut(test_case_, i))
      <4> HIDE DEF candidate
      <4> QED BY <1>3, <2>2, <3>2, <3>3, OccursInMore
    <3>5. i \in 1..Len(test_case_)
      BY <1>3, <1>4, <3>1
    <3> QED BY <1>1, <2>2, <3>4, <3>5 DEF TriedInv
  <2>3. ~missed' => ~missed
    BY <1>5
  <2> HIDE DEF candidate
  <2> QED BY <1>1, <2>1, <2>2, <2>3 DEF TriedInv
<1>7. CASE ~shows
  <2>1. test_case_' = test_case_ /\ idx' = p
    BY <1>2, <1>7 DEF Advance
  <2>2. ~missed' => ~missed /\ ~Occurs(bug, candidate)
    BY <1>5, <1>7
  <2>3. \A i \in 1..Len(test_case_) : i <= p => i <= idx \/ i = p
    BY <1>3
  <2>4. ~missed => \A i \in 1..Len(test_case_) : i <= idx => ~Occurs(bug, FilteredOut(test_case_, i))
    BY <1>1 DEF TriedInv
  <2>5. ~missed' => \A i \in 1..Len(test_case_) : i <= p => ~Occurs(bug, FilteredOut(test_case_, i))
    BY <2>2, <2>3, <2>4
  <2> HIDE DEF p
  <2> QED BY <1>1, <2>1, <2>5 DEF TriedInv
<1> QED BY <1>6, <1>7

LEMMA NextTried ==
  ASSUME Typed, OrderInv, TriedInv, [Next]_vars PROVE TriedInv'
<1>1. CASE Push
  BY <1>1 DEF Push, TriedInv
<1>2. CASE FromFile
  BY <1>2 DEF FromFile, TriedInv
<1>3. CASE BinaryStep
  BY <1>3 DEF BinaryStep, TriedInv
<1>4. CASE BinaryEnd
  BY <1>4 DEF BinaryEnd, TriedInv
<1>5. CASE SingleStart
  <2>1. pc' = "single" /\ idx' = 0
    BY <1>5 DEF SingleStart
  <2>2. \A i \in 1..Len(test_case_') : ~(i <= 0)
    OBVIOUS
  <2> QED BY <2>1, <2>2 DEF TriedInv
<1>6. CASE SingleStep
  BY <1>6, SingleStepTries
<1>7. CASE SingleEnd
  <2>1. /\ pc = "single" /\ idx >= Len(test_case_) /\ bingo_c' = test_case_ /\ pc' = "done"
        /\ bug' = bug /\ missed' = missed
    BY <1>7 DEF SingleEnd, Saved
  <2>2. \A i \in 1..Len(test_case_) : i <= idx
    BY <2>1 DEF Typed
  <2>3. ~missed => \A i \in 1..Len(test_case_) : ~Occurs(bug, FilteredOut(test_case_, i))
    BY <2>1, <2>2 DEF TriedInv
  <2> QED BY <2>1, <2>3 DEF TriedInv
<1>8. CASE UNCHANGED vars
  BY <1>8 DEF vars, TriedInv
<1>. QED BY <1>1, <1>2, <1>3, <1>4, <1>5, <1>6, <1>7, <1>8 DEF Next, Reduce

\* One pass over the commands is enough, as long as nothing is renamed: when no run has
\* missed the bug, no command of what is left can be taken out with the bug still there,
\* although none was tried again after those behind it had gone (reducer.py:54-73).
THEOREM OnePassIsEnough ==
  ASSUME "RENAME" \notin Types
  PROVE  Spec => []NothingMoreToTakeOut
<1>1. Init => Typed /\ OrderInv /\ TriedInv
  BY InitTyped, InitOrdered
<1>2. Typed /\ OrderInv /\ TriedInv /\ [Next]_vars => (Typed /\ OrderInv /\ TriedInv)'
  BY NextTyped, NextOrdered, NextTried
<1>3. TriedInv => NothingMoreToTakeOut
  BY DEF TriedInv, NothingMoreToTakeOut, Manifests
<1> QED BY <1>1, <1>2, <1>3, PTL DEF Spec
=============================================================================
