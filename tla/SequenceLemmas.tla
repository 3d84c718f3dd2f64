--------------------------- MODULE SequenceLemmas ----------------------------
(***************************************************************************)
(* Induction stated with sets: a set of numbers or of sequences that holds *)
(* the first one and with each one the next holds them all.  What is to be *)
(* proved for every n or for every sequence is written as such a set.      *)
(***************************************************************************)
EXTENDS Integers, SequencesExt, FiniteSetTheorems, SequenceTheorems, TLAPS

\* A set of numbers that is not empty has a least element.
LEMMA LeastNat ==
  ASSUME NEW T, T \subseteq Nat, T # {}
  PROVE  \E m \in T : \A k \in T : m <= k
<1> DEFINE U == {0..(n - 1) : n \in T}
           R == StrictSubsetOrdering(Nat)
<1>1. U \subseteq FiniteSubsetsOf(Nat) /\ U # {}
  <2>1. \A n \in T : IsFiniteSet(0..(n - 1)) /\ 0..(n - 1) \subseteq Nat
    BY FS_Interval
  <2> QED BY <2>1 DEF FiniteSubsetsOf
<1>2. IsWellFoundedOn(R, FiniteSubsetsOf(Nat))
  BY FS_StrictSubsetOrderingWellFounded
<1>3. \E x \in U : \A y \in U : ~ (<<y, x>> \in R)
  <2> HIDE DEF U, R
  <2> QED BY <1>1, <1>2, WFMin
<1>4. PICK m \in T : \A k \in T : ~ (<<0..(k - 1), 0..(m - 1)>> \in R)
  BY <1>3
<1>5. ASSUME NEW k \in T, k < m PROVE FALSE
  <2>1. 0..(k - 1) \subseteq 0..(m - 1) /\ k \in 0..(m - 1) /\ k \notin 0..(k - 1)
    BY <1>5
  <2>2. 0..(k - 1) \in SUBSET Nat /\ 0..(m - 1) \in SUBSET Nat
    OBVIOUS
  <2>3. <<0..(k - 1), 0..(m - 1)>> \in R
    BY <2>1, <2>2 DEF StrictSubsetOrdering
  <2> QED BY <2>3, <1>4
<1> QED BY <1>5

LEMMA NatSetInduction ==
  ASSUME NEW S, 0 \in S, \A n \in Nat : n \in S => n + 1 \in S
  PROVE  Nat \subseteq S
<1> DEFINE T == Nat \ S
<1> SUFFICES ASSUME T # {} PROVE FALSE
  OBVIOUS
<1>1. PICK m \in T : \A k \in T : m <= k
  <2> HIDE DEF T
  <2>1. T \subseteq Nat
    BY DEF T
  <2> QED BY <2>1, LeastNat
<1>2. m # 0 /\ m - 1 \in Nat
  BY <1>1
<1>3. m - 1 \notin T
  BY <1>1, <1>2
<1> QED BY <1>1, <1>2, <1>3

LEMMA SeqSetInduction ==
  ASSUME NEW S, NEW T, << >> \in T,
         \A s \in Seq(S), e \in S : s \in T => Append(s, e) \in T
  PROVE  Seq(S) \subseteq T
<1> DEFINE N == {n \in Nat : \A s \in Seq(S) : Len(s) = n => s \in T}
<1>1. 0 \in N
  <2>1. \A s \in Seq(S) : Len(s) = 0 => s = << >>
    BY EmptySeq
  <2> QED BY <2>1
<1>2. ASSUME NEW n \in Nat, n \in N PROVE n + 1 \in N
  <2> SUFFICES ASSUME NEW s \in Seq(S), Len(s) = n + 1 PROVE s \in T
    OBVIOUS
  <2>1. s # << >>
    OBVIOUS
  <2>2. PICK r \in Seq(S), e \in S : s = Append(r, e)
    BY <2>1, SequenceEmptyOrAppend
  <2>3. Len(s) = Len(r) + 1 /\ Len(r) \in Nat
    BY <2>2, AppendProperties
  <2>4. Len(r) = n
    BY <2>3
  <2>5. r \in T
    BY <2>4, <1>2
  <2> QED BY <2>2, <2>5
<1>3. Nat \subseteq N
  <2> HIDE DEF N
  <2> QED BY <1>1, <1>2, NatSetInduction
<1> SUFFICES ASSUME NEW s \in Seq(S) PROVE s \in T
  OBVIOUS
<1>4. Len(s) \in N
  BY <1>3
<1> QED BY <1>4

(***************************************************************************)
(* The ends and the prefixes of a sequence                                 *)
(***************************************************************************)
LEMMA FrontLast ==
  ASSUME NEW S, NEW s \in Seq(S), s # << >>
  PROVE  /\ Front(s) \in Seq(S) /\ Last(s) \in S
         /\ s = Append(Front(s), Last(s))
         /\ Len(Front(s)) = Len(s) - 1
<1>1. Len(s) \in Nat \ {0} /\ \A i \in 1..Len(s) : s[i] \in S
  BY EmptySeq
<1>2. /\ Front(s) \in Seq(S)
      /\ Len(Front(s)) = Len(s) - 1
      /\ \A i \in 1..(Len(s) - 1) : Front(s)[i] = s[i]
  <2>1. \A i \in 1..(Len(s) - 1) : s[i] \in S
    BY <1>1
  <2>2. /\ SubSeq(s, 1, Len(s) - 1) \in Seq(S)
        /\ Len(SubSeq(s, 1, Len(s) - 1)) = IF 1 <= Len(s) - 1 THEN (Len(s) - 1) - 1 + 1 ELSE 0
        /\ \A i \in 1..((Len(s) - 1) - 1 + 1) : SubSeq(s, 1, Len(s) - 1)[i] = s[1 + i - 1]
    BY <1>1, <2>1, SubSeqProperties
  <2>3. Front(s) = SubSeq(s, 1, Len(s) - 1)
    BY DEF Front
  <2> DEFINE f == SubSeq(s, 1, Len(s) - 1)
  <2> HIDE DEF f
  <2>4. /\ f \in Seq(S)
        /\ Len(f) = IF 1 <= Len(s) - 1 THEN (Len(s) - 1) - 1 + 1 ELSE 0
        /\ \A i \in 1..((Len(s) - 1) - 1 + 1) : f[i] = s[1 + i - 1]
    BY <2>2 DEF f
  <2>5. Len(f) = Len(s) - 1 /\ (Len(s) - 1) - 1 + 1 = Len(s) - 1
    <3>1. \A n \in Nat \ {0} : (n - 1) - 1 + 1 = n - 1 /\ (~(1 <= n - 1) => n - 1 = 0)
      OBVIOUS
    <3>2. Len(s) \in Nat \ {0}
      BY <1>1
    <3> QED BY <2>4, <3>1, <3>2, Zenon
  <2>6. \A i \in 1..(Len(s) - 1) : 1 + i - 1 = i
    BY <1>1
  <2>7. \A i \in 1..(Len(s) - 1) : f[i] = s[i]
    BY <2>4, <2>5, <2>6
  <2> QED BY <2>3, <2>4, <2>5, <2>7 DEF f
<1>3. Last(s) \in S /\ Last(s) = s[Len(s)]
  BY <1>1 DEF Last
<1>4. s = Append(Front(s), Last(s))
  <2>1. /\ Append(Front(s), Last(s)) \in Seq(S)
        /\ Len(Append(Front(s), Last(s))) = Len(s)
        /\ \A i \in 1..(Len(s) - 1) : Append(Front(s), Last(s))[i] = s[i]
        /\ Append(Front(s), Last(s))[Len(s)] = s[Len(s)]
    <3> DEFINE f == Front(s)
    <3> HIDE DEF f
    <3>1. f \in Seq(S) /\ Len(f) = Len(s) - 1 /\ \A i \in 1..(Len(s) - 1) : f[i] = s[i]
      BY <1>2 DEF f
    <3>2. /\ Append(f, Last(s)) \in Seq(S)
          /\ Len(Append(f, Last(s))) = Len(f) + 1
          /\ \A i \in 1..Len(f) : Append(f, Last(s))[i] = f[i]
          /\ Append(f, Last(s))[Len(f) + 1] = Last(s)
      BY <3>1, <1>3, AppendProperties
    <3>3. Len(f) + 1 = Len(s)
      BY <3>1, <1>1
    <3> QED BY <3>1, <3>2, <3>3, <1>3 DEF f
  <2>2. \A i \in 1..Len(s) : s[i] = Append(Front(s), Last(s))[i]
    BY <2>1, <1>1
  <2> QED BY <2>1, <2>2, SeqEqual
<1> QED BY <1>2, <1>3, <1>4

LEMMA FrontLastOfAppend ==
  ASSUME NEW S, NEW s \in Seq(S), NEW e \in S
  PROVE  Front(Append(s, e)) = s /\ Last(Append(s, e)) = e
<1> DEFINE a == Append(s, e)
<1>1. a \in Seq(S) /\ a # << >>
  BY AppendProperties
<1> HIDE DEF a
<1>2. /\ Front(a) \in Seq(S) /\ Last(a) \in S
      /\ a = Append(Front(a), Last(a))
  BY <1>1, FrontLast
<1> QED BY <1>2, AppendInjective DEF a

LEMMA PrefixIsConcat ==
  ASSUME NEW S, NEW p \in Seq(S), NEW q \in Seq(S)
  PROVE  IsPrefix(p, q) <=> \E r \in Seq(S) : q = p \o r
<1>1. SubSeq(p, 1, Len(p)) = p
  BY SubSeqFull
<1>2. Len(p) \in Nat /\ Len(q) \in Nat
  OBVIOUS
<1>3. ASSUME IsPrefix(p, q) PROVE \E r \in Seq(S) : q = p \o r
  <2>1. Len(p) <= Len(q) /\ SubSeq(q, 1, Len(p)) = p
    BY <1>1, <1>3 DEF IsPrefix
  <2>2. /\ 1 \in 1..(Len(q) + 1) /\ Len(p) \in (1 - 1)..Len(q) /\ Len(q) \in Len(p)..Len(q)
    BY <1>2, <2>1
  <2>3. SubSeq(q, 1, Len(p)) \o SubSeq(q, Len(p) + 1, Len(q)) = SubSeq(q, 1, Len(q))
    BY <2>2, ConcatAdjacentSubSeq
  <2>4. SubSeq(q, 1, Len(q)) = q
    BY SubSeqFull
  <2>5. SubSeq(q, Len(p) + 1, Len(q)) \in Seq(S)
    <3>1. \A i \in (Len(p) + 1)..Len(q) : q[i] \in S
      BY <1>2
    <3> QED BY <3>1, <1>2, SubSeqProperties
  <2> QED BY <2>1, <2>3, <2>4, <2>5
<1>4. ASSUME NEW r \in Seq(S), q = p \o r PROVE IsPrefix(p, q)
  <2>1. Len(q) = Len(p) + Len(r) /\ Len(r) \in Nat
    BY <1>4, ConcatProperties
  <2>2. CASE p = << >>
    <3>1. SubSeq(q, 1, 0) = << >>
      BY SubSeqEmpty
    <3>2. Len(p) = 0
      BY <2>2, EmptySeq
    <3> QED BY <1>1, <1>2, <2>1, <2>2, <3>1, <3>2 DEF IsPrefix
  <2>3. CASE p # << >>
    <3>1. 1 \in 1..Len(p) /\ Len(p) \in 1..Len(p)
      BY <2>3, <1>2, EmptySeq
    <3>2. SubSeq(p \o r, 1, Len(p)) = SubSeq(p, 1, Len(p))
      BY <3>1, SubSeqOfConcat1
    <3> QED BY <1>2, <1>4, <2>1, <3>2 DEF IsPrefix
  <2> QED BY <2>2, <2>3
<1> QED BY <1>3, <1>4

\* What comes after the prefix
LEMMA AfterPrefix ==
  ASSUME NEW S, NEW p \in Seq(S), NEW r \in Seq(S)
  PROVE  SubSeq(p \o r, Len(p) + 1, Len(p \o r)) = r
<1>1. /\ Len(p) \in Nat /\ Len(r) \in Nat /\ p \o r \in Seq(S)
      /\ Len(p \o r) = Len(p) + Len(r)
  BY ConcatProperties
<1>2. CASE r = << >>
  <2>1. Len(r) = 0
    BY <1>2, EmptySeq
  <2> QED BY <1>1, <1>2, <2>1, SubSeqEmpty
<1>3. CASE r # << >>
  <2>1. Len(r) # 0
    BY <1>3, EmptySeq
  <2>2. /\ Len(p) + 1 \in (Len(p) + 1)..(Len(p) + Len(r))
        /\ Len(p \o r) \in (Len(p) + 1)..(Len(p) + Len(r))
    BY <1>1, <2>1
  <2>3. SubSeq(p \o r, Len(p) + 1, Len(p \o r))
          = SubSeq(r, (Len(p) + 1) - Len(p), Len(p \o r) - Len(p))
    BY <2>2, SubSeqOfConcat2
  <2>4. (Len(p) + 1) - Len(p) = 1 /\ Len(p \o r) - Len(p) = Len(r)
    BY <1>1
  <2> QED BY <2>3, <2>4, SubSeqFull
<1> QED BY <1>2, <1>3

LEMMA ConcatAppend ==
  ASSUME NEW S, NEW p \in Seq(S), NEW r \in Seq(S), NEW e \in S
  PROVE  p \o Append(r, e) = Append(p \o r, e)
<1>1. <<e>> \in Seq(S)
  OBVIOUS
<1>2. Append(r, e) = r \o <<e>> /\ p \o r \in Seq(S)
  BY AppendIsConcat, ConcatProperties
<1>3. Append(p \o r, e) = (p \o r) \o <<e>>
  BY <1>2, AppendIsConcat
<1> QED BY <1>1, <1>2, <1>3, ConcatAssociative

LEMMA PrefixSelf ==
  ASSUME NEW S, NEW p \in Seq(S)
  PROVE  IsPrefix(p, p) /\ IsPrefix(<< >>, p)
<1>1. << >> \in Seq(S) /\ p \o << >> = p /\ << >> \o p = p
  BY EmptySeq, ConcatEmptySeq
<1> QED BY <1>1, PrefixIsConcat

\* A prefix of Append(q, e) is that, or a prefix of q.
LEMMA PrefixOfAppend ==
  ASSUME NEW S, NEW p \in Seq(S), NEW q \in Seq(S), NEW e \in S
  PROVE  IsPrefix(p, Append(q, e)) <=> IsPrefix(p, q) \/ p = Append(q, e)
<1>1. Append(q, e) \in Seq(S)
  BY AppendProperties
<1>2. ASSUME IsPrefix(p, Append(q, e)), p # Append(q, e) PROVE IsPrefix(p, q)
  <2>1. PICK r \in Seq(S) : Append(q, e) = p \o r
    BY <1>1, <1>2, PrefixIsConcat
  <2>2. r # << >>
    BY <2>1, <1>2, ConcatEmptySeq
  <2>3. PICK u \in Seq(S), f \in S : r = Append(u, f)
    BY <2>2, SequenceEmptyOrAppend
  <2>4. Append(q, e) = Append(p \o u, f) /\ p \o u \in Seq(S)
    BY <2>1, <2>3, ConcatAppend, ConcatProperties
  <2>5. q = p \o u
    <3> DEFINE pu == p \o u
    <3> HIDE DEF pu
    <3>1. pu \in Seq(S) /\ Append(q, e) = Append(pu, f)
      BY <2>4 DEF pu
    <3>2. q = pu
      BY <3>1, AppendInjective
    <3> QED BY <3>2 DEF pu
  <2> QED BY <2>5, PrefixIsConcat
<1>3. ASSUME IsPrefix(p, q) PROVE IsPrefix(p, Append(q, e))
  <2>1. PICK r \in Seq(S) : q = p \o r
    BY <1>3, PrefixIsConcat
  <2>2. Append(r, e) \in Seq(S)
    BY AppendProperties
  <2>3. p \o Append(r, e) = Append(p \o r, e)
    BY ConcatAppend
  <2>4. Append(q, e) = p \o Append(r, e)
    BY <2>1, <2>3, Zenon
  <2> QED BY <1>1, <2>2, <2>4, PrefixIsConcat
<1>4. IsPrefix(Append(q, e), Append(q, e))
  BY <1>1, PrefixSelf
<1> QED BY <1>2, <1>3, <1>4

LEMMA PrefixTransitive ==
  ASSUME NEW S, NEW p \in Seq(S), NEW q \in Seq(S), NEW r \in Seq(S),
         IsPrefix(p, q), IsPrefix(q, r)
  PROVE  IsPrefix(p, r)
<1>1. PICK u \in Seq(S) : q = p \o u
  BY PrefixIsConcat
<1>2. PICK v \in Seq(S) : r = q \o v
  BY PrefixIsConcat
<1>3. r = p \o (u \o v) /\ u \o v \in Seq(S)
  BY <1>1, <1>2, ConcatAssociative, ConcatProperties
<1> QED BY <1>3, PrefixIsConcat

LEMMA PrefixOfEmpty ==
  ASSUME NEW S, NEW p \in Seq(S), IsPrefix(p, << >>)
  PROVE  p = << >>
<1>1. Len(p) <= 0 /\ Len(p) \in Nat
  BY EmptySeq DEF IsPrefix
<1> QED BY <1>1, EmptySeq

LEMMA LastOfConcat ==
  ASSUME NEW S, NEW a \in Seq(S), NEW s \in Seq(S), s # << >>
  PROVE  a \o s # << >> /\ Last(a \o s) = Last(s)
<1>1. PICK u \in Seq(S), e \in S : s = Append(u, e)
  BY SequenceEmptyOrAppend
<1>2. a \o u \in Seq(S) /\ a \o s = Append(a \o u, e)
  BY <1>1, ConcatAppend, ConcatProperties
<1>3. Last(Append(u, e)) = e /\ Last(Append(a \o u, e)) = e
  BY <1>2, FrontLastOfAppend
<1>4. Append(a \o u, e) # << >>
  BY <1>2, AppendProperties
<1> QED BY <1>1, <1>2, <1>3, <1>4

LEMMA ConcatPrefix ==
  ASSUME NEW S, NEW a \in Seq(S), NEW u \in Seq(S), NEW s \in Seq(S), IsPrefix(u, s)
  PROVE  IsPrefix(a \o u, a \o s)
<1>1. PICK v \in Seq(S) : s = u \o v
  BY PrefixIsConcat
<1>2. a \o (u \o v) = (a \o u) \o v /\ a \o u \in Seq(S) /\ a \o s \in Seq(S)
  BY ConcatAssociative, ConcatProperties
<1>3. a \o s = (a \o u) \o v
  BY <1>1, <1>2, Zenon
<1> QED BY <1>2, <1>3, PrefixIsConcat

\* A prefix of two sequences one after the other ends in the first or in the second.
LEMMA PrefixOfConcat ==
  ASSUME NEW S, NEW a \in Seq(S), NEW s \in Seq(S), NEW r \in Seq(S), IsPrefix(r, a \o s)
  PROVE  IsPrefix(r, a) \/ \E u \in Seq(S) : r = a \o u /\ IsPrefix(u, s)
<1> DEFINE Splits(x) == IsPrefix(r, a) \/ \E u \in Seq(S) : r = a \o u /\ IsPrefix(u, x)
           T == {x \in Seq(S) : IsPrefix(r, a \o x) => Splits(x)}
<1>1. << >> \in T
  BY EmptySeq, ConcatEmptySeq
<1>2. ASSUME NEW x \in Seq(S), NEW e \in S, x \in T PROVE Append(x, e) \in T
  <2>1. Append(x, e) \in Seq(S) /\ a \o x \in Seq(S) /\ a \o Append(x, e) = Append(a \o x, e)
    BY AppendProperties, ConcatProperties, ConcatAppend
  <2> SUFFICES ASSUME IsPrefix(r, a \o Append(x, e)) PROVE Splits(Append(x, e))
    BY <2>1
  <2>2. IsPrefix(r, a \o x) \/ r = a \o Append(x, e)
    BY <2>1, PrefixOfAppend
  <2>3. ASSUME IsPrefix(r, a \o x) PROVE Splits(Append(x, e))
    <3>1. Splits(x)
      BY <1>2, <2>3
    <3>2. \A u \in Seq(S) : IsPrefix(u, x) => IsPrefix(u, Append(x, e))
      BY PrefixOfAppend
    <3> QED BY <3>1, <3>2
  <2>4. ASSUME r = a \o Append(x, e) PROVE Splits(Append(x, e))
    BY <2>1, <2>4, PrefixSelf
  <2> QED BY <2>2, <2>3, <2>4
<1>3. Seq(S) \subseteq T
  <2> HIDE DEF T
  <2> QED BY <1>1, <1>2, SeqSetInduction
<1> QED BY <1>3

(***************************************************************************)
(* Sequences one after the other                                           *)
(***************************************************************************)
\* Nothing is in s twice.
Distinct(s) == \A i, j \in DOMAIN s : s[i] = s[j] => i = j

LEMMA ConcatElements ==
  ASSUME NEW S, NEW p \in Seq(S), NEW q \in Seq(S)
  PROVE  /\ p \o q \in Seq(S)
         /\ ToSet(p \o q) = ToSet(p) \cup ToSet(q)
         /\ Distinct(p) /\ Distinct(q) /\ ToSet(p) \cap ToSet(q) = {} => Distinct(p \o q)
<1> DEFINE r == p \o q
<1>1. /\ r \in Seq(S) /\ Len(r) = Len(p) + Len(q)
      /\ \A i \in 1..(Len(p) + Len(q)) : r[i] = IF i <= Len(p) THEN p[i] ELSE q[i - Len(p)]
  BY ConcatProperties
<1> HIDE DEF r
<1>2. /\ Len(p) \in Nat /\ Len(q) \in Nat
      /\ DOMAIN p = 1..Len(p) /\ DOMAIN q = 1..Len(q) /\ DOMAIN r = 1..(Len(p) + Len(q))
  BY <1>1
<1>3. \A i \in 1..Len(p) : i \in 1..(Len(p) + Len(q)) /\ r[i] = p[i]
  BY <1>1, <1>2
<1>4. ASSUME NEW i \in 1..Len(q)
      PROVE  i + Len(p) \in 1..(Len(p) + Len(q)) /\ r[i + Len(p)] = q[i]
  <2>1. i + Len(p) \in 1..(Len(p) + Len(q)) /\ ~(i + Len(p) <= Len(p)) /\ (i + Len(p)) - Len(p) = i
    BY <1>2
  <2> QED BY <1>1, <2>1
<1>5. ASSUME NEW i \in 1..(Len(p) + Len(q)), i \notin 1..Len(p)
      PROVE  i - Len(p) \in 1..Len(q) /\ r[i] = q[i - Len(p)]
  <2>1. ~(i <= Len(p)) /\ i - Len(p) \in 1..Len(q)
    BY <1>2, <1>5
  <2> QED BY <1>1, <2>1
<1>6. ToSet(r) = ToSet(p) \cup ToSet(q)
  <2>1. \A x \in ToSet(p) : x \in ToSet(r)
    BY <1>2, <1>3 DEF ToSet
  <2>2. \A x \in ToSet(q) : x \in ToSet(r)
    BY <1>2, <1>4 DEF ToSet
  <2>3. \A x \in ToSet(r) : x \in ToSet(p) \/ x \in ToSet(q)
    <3> SUFFICES ASSUME NEW i \in 1..(Len(p) + Len(q)) PROVE r[i] \in ToSet(p) \/ r[i] \in ToSet(q)
      BY <1>2 DEF ToSet
    <3>1. CASE i \in 1..Len(p)
      BY <3>1, <1>2, <1>3 DEF ToSet
    <3>2. CASE i \notin 1..Len(p)
      BY <3>2, <1>2, <1>5 DEF ToSet
    <3> QED BY <3>1, <3>2
  <2> QED BY <2>1, <2>2, <2>3
<1>7. ASSUME Distinct(p), Distinct(q), ToSet(p) \cap ToSet(q) = {},
             NEW i \in 1..(Len(p) + Len(q)), NEW j \in 1..(Len(p) + Len(q)), r[i] = r[j]
      PROVE  i = j
  <2>1. \A k \in 1..Len(p), m \in 1..Len(q) : p[k] # q[m]
    BY <1>2, <1>7 DEF ToSet
  <2>2. CASE i \in 1..Len(p) /\ j \in 1..Len(p)
    BY <2>2, <1>2, <1>3, <1>7 DEF Distinct
  <2>3. CASE i \notin 1..Len(p) /\ j \notin 1..Len(p)
    <3>1. i - Len(p) = j - Len(p)
      BY <2>3, <1>2, <1>5, <1>7 DEF Distinct
    <3> QED BY <3>1, <1>2
  <2>4. CASE i \in 1..Len(p) /\ j \notin 1..Len(p)
    BY <2>1, <2>4, <1>3, <1>5, <1>7
  <2>5. CASE i \notin 1..Len(p) /\ j \in 1..Len(p)
    BY <2>1, <2>5, <1>3, <1>5, <1>7
  <2> QED BY <2>2, <2>3, <2>4, <2>5
<1> QED BY <1>1, <1>2, <1>6, <1>7 DEF r, Distinct

\* What FlattenSeq passes, one sequence after the other
Flattening(f, ss) ==
  /\ f[0] = << >>
  /\ \A k \in 0..(Len(ss) - 1) : f[k + 1] = f[k] \o ss[k + 1]

LEMMA FlattenPasses ==
  ASSUME NEW X, NEW ss \in Seq(Seq(X))
  PROVE  \E f : Flattening(f, ss) /\ FlattenSeq(ss) = f[Len(ss)]
<1> DEFINE Step(h, i) == IF i = 1 THEN ss[i] ELSE h[i - 1] \o ss[i]
           N == {k \in Nat : \E h : h = [i \in 1..k |-> Step(h, i)]}
<1>1. 0 \in N
  <2> DEFINE h == [i \in 1..0 |-> i]
  <2>1. 1..0 = {}
    OBVIOUS
  <2>2. h = [i \in 1..0 |-> Step(h, i)]
    BY <2>1
  <2> HIDE DEF h
  <2> QED BY <2>2
<1>2. ASSUME NEW k \in Nat, k \in N PROVE k + 1 \in N
  <2>1. PICK h : h = [i \in 1..k |-> Step(h, i)]
    BY <1>2
  <2> DEFINE g == [i \in 1..(k + 1) |-> Step(h, i)]
  <2>2. ASSUME NEW i \in 1..(k + 1) PROVE g[i] = Step(g, i)
    <3>1. CASE i = 1
      BY <3>1
    <3>2. CASE i # 1
      <4>1. i - 1 \in 1..k /\ i - 1 \in 1..(k + 1)
        BY <3>2
      <4>2. g[i - 1] = h[i - 1]
        BY <2>1, <4>1
      <4> QED BY <3>2, <4>2
    <3> QED BY <3>1, <3>2
  <2>3. g = [i \in 1..(k + 1) |-> Step(g, i)]
    BY <2>2
  <2> HIDE DEF g
  <2>4. k + 1 \in Nat /\ \E h2 : h2 = [i \in 1..(k + 1) |-> Step(h2, i)]
    <3>1. \E h2 : h2 = [i \in 1..(k + 1) |-> Step(h2, i)]
      <4> HIDE DEF Step
      <4> WITNESS g
      <4> QED BY <2>3
    <3>2. k + 1 \in Nat
      BY <1>2
    <3> HIDE DEF Step
    <3> QED BY <3>1, <3>2, Zenon
  <2> HIDE DEF Step
  <2> QED BY <2>4
<1>3. Nat \subseteq N
  <2> HIDE DEF N
  <2> QED BY <1>1, <1>2, NatSetInduction
<1>4. CASE Len(ss) = 0
  <2> DEFINE f == [k \in 0..0 |-> << >>]
  <2>1. ss = << >> /\ FlattenSeq(ss) = ss
    BY <1>4, EmptySeq DEF FlattenSeq
  <2>2. Flattening(f, ss) /\ f[0] = << >>
    BY <1>4 DEF Flattening
  <2> HIDE DEF f
  <2> QED BY <1>4, <2>1, <2>2
<1>5. CASE Len(ss) # 0
  <2> DEFINE n == Len(ss)
             c == CHOOSE h : h = [i \in 1..n |-> Step(h, i)]
             f == [k \in 0..n |-> IF k = 0 THEN << >> ELSE c[k]]
  <2>1. n \in Nat /\ n # 0 /\ \A i \in 1..n : ss[i] \in Seq(X)
    BY <1>5
  <2>2. c = [i \in 1..n |-> Step(c, i)]
    <3>1. \E h : h = [i \in 1..n |-> Step(h, i)]
      BY <2>1, <1>3
    <3> HIDE DEF n, Step
    <3> QED BY <3>1
  <2>3. FlattenSeq(ss) = c[n]
    BY <2>1 DEF FlattenSeq
  <2> HIDE DEF c
  <2>4. ASSUME NEW k \in 0..(n - 1) PROVE f[k + 1] = f[k] \o ss[k + 1]
    <3>1. k + 1 \in 1..n /\ k + 1 \in 0..n /\ k \in 0..n /\ k + 1 # 0 /\ (k + 1) - 1 = k
      BY <2>1
    <3>2. c[k + 1] = IF k + 1 = 1 THEN ss[k + 1] ELSE c[k] \o ss[k + 1]
      BY <2>2, <3>1
    <3>3. k = 0 => << >> \o ss[k + 1] = ss[k + 1]
      BY <2>1, <3>1, ConcatEmptySeq
    <3>4. k # 0 => k + 1 # 1
      OBVIOUS
    <3>5. f[k + 1] = c[k + 1]
      BY <3>1
    <3>6. f[k] = IF k = 0 THEN << >> ELSE c[k]
      BY <3>1
    <3>7. k = 0 => k + 1 = 1
      OBVIOUS
    <3> HIDE DEF f
    <3> QED BY <3>2, <3>3, <3>4, <3>5, <3>6, <3>7
  <2>5. f[0] = << >> /\ f[n] = c[n]
    BY <2>1
  <2> HIDE DEF f
  <2>6. Flattening(f, ss)
    BY <2>4, <2>5 DEF Flattening
  <2> QED BY <2>3, <2>5, <2>6
<1> QED BY <1>4, <1>5

\* FlattenSeq holds what its sequences hold, once when each holds it once and no two
\* hold the same.
LEMMA FlattenElements ==
  ASSUME NEW X, NEW ss \in Seq(Seq(X))
  PROVE  /\ FlattenSeq(ss) \in Seq(X)
         /\ ToSet(FlattenSeq(ss)) = UNION {ToSet(ss[i]) : i \in DOMAIN ss}
         /\ (/\ \A i \in DOMAIN ss : Distinct(ss[i])
             /\ \A i, j \in DOMAIN ss : i # j => ToSet(ss[i]) \cap ToSet(ss[j]) = {})
            => Distinct(FlattenSeq(ss))
<1>1. PICK f : Flattening(f, ss) /\ FlattenSeq(ss) = f[Len(ss)]
  BY FlattenPasses
<1> DEFINE n == Len(ss)
           Apart == /\ \A i \in DOMAIN ss : Distinct(ss[i])
                    /\ \A i, j \in DOMAIN ss : i # j => ToSet(ss[i]) \cap ToSet(ss[j]) = {}
           N == {k \in Nat : k <= n =>
                   /\ f[k] \in Seq(X)
                   /\ ToSet(f[k]) = UNION {ToSet(ss[i]) : i \in 1..k}
                   /\ Apart => Distinct(f[k])}
<1>2. n \in Nat /\ DOMAIN ss = 1..n /\ \A i \in 1..n : ss[i] \in Seq(X)
  OBVIOUS
<1>3. 0 \in N
  <2>1. f[0] = << >> /\ << >> \in Seq(X) /\ 1..0 = {} /\ DOMAIN << >> = {}
    BY <1>1 DEF Flattening
  <2>2. ToSet(<< >>) = {} /\ Distinct(<< >>)
    BY <2>1 DEF ToSet, Distinct
  <2> QED BY <2>1, <2>2
<1>4. ASSUME NEW k \in Nat, k \in N PROVE k + 1 \in N
  <2> SUFFICES ASSUME k + 1 <= n
               PROVE  /\ f[k + 1] \in Seq(X)
                      /\ ToSet(f[k + 1]) = UNION {ToSet(ss[i]) : i \in 1..(k + 1)}
                      /\ Apart => Distinct(f[k + 1])
    OBVIOUS
  <2>1. /\ f[k] \in Seq(X) /\ ToSet(f[k]) = UNION {ToSet(ss[i]) : i \in 1..k}
        /\ Apart => Distinct(f[k])
        /\ k \in 0..(n - 1) /\ k + 1 \in 1..n /\ 1..k \subseteq 1..n
    BY <1>2, <1>4
  <2>2. f[k + 1] = f[k] \o ss[k + 1] /\ ss[k + 1] \in Seq(X)
    BY <1>1, <1>2, <2>1 DEF Flattening
  <2>3. /\ f[k + 1] \in Seq(X)
        /\ ToSet(f[k + 1]) = ToSet(f[k]) \cup ToSet(ss[k + 1])
        /\ Distinct(f[k]) /\ Distinct(ss[k + 1]) /\ ToSet(f[k]) \cap ToSet(ss[k + 1]) = {}
             => Distinct(f[k + 1])
    BY <2>1, <2>2, ConcatElements
  <2>4. ToSet(f[k + 1]) = UNION {ToSet(ss[i]) : i \in 1..(k + 1)}
    <3>1. 1..(k + 1) = (1..k) \cup {k + 1}
      OBVIOUS
    <3> QED BY <2>1, <2>3, <3>1
  <2>5. ASSUME Apart PROVE Distinct(f[k + 1])
    <3>1. \A i \in 1..k : i # k + 1 /\ i \in 1..n
      BY <2>1
    <3>2. \A i \in 1..k : ToSet(ss[i]) \cap ToSet(ss[k + 1]) = {}
      BY <1>2, <2>1, <2>5, <3>1
    <3>3. ToSet(f[k]) \cap ToSet(ss[k + 1]) = {}
      BY <2>1, <3>2
    <3> QED BY <1>2, <2>1, <2>3, <2>5, <3>3
  <2> HIDE DEF Apart
  <2> QED BY <2>3, <2>4, <2>5
<1>5. n \in N
  <2> HIDE DEF N
  <2> QED BY <1>2, <1>3, <1>4, NatSetInduction
<1> QED BY <1>1, <1>2, <1>5

LEMMA DistinctCount ==
  ASSUME NEW S, NEW s \in Seq(S), Distinct(s)
  PROVE  IsFiniteSet(ToSet(s)) /\ Cardinality(ToSet(s)) = Len(s)
<1>1. Len(s) \in Nat /\ DOMAIN s = 1..Len(s) /\ s = [i \in 1..Len(s) |-> s[i]]
  OBVIOUS
<1>2. IsFiniteSet(1..Len(s)) /\ Cardinality(1..Len(s)) = Len(s)
  <2>1. \A n \in Nat : (IF 1 > n THEN 0 ELSE n - 1 + 1) = n
    OBVIOUS
  <2>2. 1 \in Int /\ Len(s) \in Int
    BY <1>1
  <2>3. /\ IsFiniteSet(1..Len(s))
        /\ Cardinality(1..Len(s)) = IF 1 > Len(s) THEN 0 ELSE Len(s) - 1 + 1
    BY <2>2, FS_Interval
  <2> QED BY <1>1, <2>1, <2>3
<1>3. s \in [1..Len(s) -> ToSet(s)]
  BY <1>1 DEF ToSet
<1>4. s \in Surjection(1..Len(s), ToSet(s)) /\ s \in Injection(1..Len(s), ToSet(s))
  BY <1>1, <1>3 DEF Surjection, Injection, IsInjective, ToSet, Distinct
<1> QED BY <1>2, <1>4, FS_Surjection

LEMMA AppendElements ==
  ASSUME NEW S, NEW p \in Seq(S), NEW x \in S, Distinct(p), x \notin ToSet(p)
  PROVE  /\ Append(p, x) \in Seq(S)
         /\ Distinct(Append(p, x))
         /\ ToSet(Append(p, x)) = ToSet(p) \cup {x}
<1> DEFINE r == Append(p, x)
           n == Len(p)
<1>1. /\ n \in Nat /\ DOMAIN p = 1..n /\ r \in Seq(S)
      /\ DOMAIN r = 1..(n + 1) /\ r[n + 1] = x
      /\ \A i \in 1..n : r[i] = p[i] /\ i \in 1..(n + 1) /\ i # n + 1
      /\ \A i \in 1..(n + 1) : i \in 1..n \/ i = n + 1
      /\ n + 1 \in 1..(n + 1)
  OBVIOUS
<1> HIDE DEF r, n
<1>2. \A i \in 1..n : p[i] # x
  BY <1>1 DEF ToSet
<1>3. ASSUME NEW i \in 1..(n + 1), NEW j \in 1..(n + 1), i # j PROVE r[i] # r[j]
  <2>1. CASE i \in 1..n /\ j \in 1..n
    BY <1>1, <1>3, <2>1 DEF Distinct
  <2>2. CASE i = n + 1
    BY <1>1, <1>2, <1>3, <2>2
  <2>3. CASE j = n + 1
    BY <1>1, <1>2, <1>3, <2>3
  <2> QED BY <1>1, <2>1, <2>2, <2>3
<1>4. ToSet(r) = ToSet(p) \cup {x}
  <2>1. ToSet(r) = {r[i] : i \in 1..(n + 1)} /\ ToSet(p) = {p[i] : i \in 1..n}
    BY <1>1 DEF ToSet
  <2>2. {r[i] : i \in 1..(n + 1)} \subseteq {p[i] : i \in 1..n} \cup {x}
    BY <1>1
  <2>3. {p[i] : i \in 1..n} \cup {x} \subseteq {r[i] : i \in 1..(n + 1)}
    BY <1>1
  <2> QED BY <2>1, <2>2, <2>3
<1>5. Distinct(r)
  BY <1>1, <1>3 DEF Distinct
<1> QED BY <1>1, <1>4, <1>5 DEF r

(***************************************************************************)
(* Folds.  it[S] is what the fold has come to after the positions in S;    *)
(* st, which is the operator that is folded as a function, is applied to   *)
(* that and to the next element.                                           *)
(***************************************************************************)
LEMMA MaxOfUpTo ==
  ASSUME NEW n \in Nat
  PROVE  Max(1..(n + 1)) = n + 1 /\ (1..(n + 1)) \ {n + 1} = 1..n
<1>1. n + 1 \in 1..(n + 1) /\ \A y \in 1..(n + 1) : n + 1 >= y
  OBVIOUS
<1>2. \A x \in 1..(n + 1) : (\A y \in 1..(n + 1) : x >= y) => x = n + 1
  OBVIOUS
<1> QED BY <1>1, <1>2 DEF Max

LEMMA MaxIsIn ==
  ASSUME NEW n \in Nat, NEW S \in SUBSET (1..n), S # {}
  PROVE  Max(S) \in S /\ \A y \in S : Max(S) >= y
<1> DEFINE T == {k \in Nat : \A R \in SUBSET (1..k) : R # {} => \E x \in R : \A y \in R : x >= y}
<1>1. 0 \in T
  <2>1. 1..0 = {}
    OBVIOUS
  <2> QED BY <2>1
<1>2. ASSUME NEW k \in Nat, k \in T PROVE k + 1 \in T
  <2> SUFFICES ASSUME NEW R \in SUBSET (1..(k + 1)), R # {}
               PROVE  \E x \in R : \A y \in R : x >= y
    OBVIOUS
  <2>1. CASE k + 1 \in R
    BY <2>1
  <2>2. CASE k + 1 \notin R
    <3>1. R \in SUBSET (1..k)
      BY <2>2
    <3> QED BY <3>1, <1>2
  <2> QED BY <2>1, <2>2
<1>3. n \in T
  <2> HIDE DEF T
  <2> QED BY <1>1, <1>2, NatSetInduction
<1>4. \E x \in S : \A y \in S : x >= y
  BY <1>3
<1> QED BY <1>4 DEF Max

Iterates(it, st, base, order) ==
  it = [S \in SUBSET (1..Len(order)) |->
          IF S = {} THEN base ELSE st[it[S \ {Max(S)}]][order[Max(S)]]]

LEMMA FoldIterates ==
  ASSUME NEW X, NEW Y, NEW st \in [X -> [Y -> X]], NEW base \in X, NEW order \in Seq(Y)
  PROVE  \E it \in [SUBSET (1..Len(order)) -> X] : Iterates(it, st, base, order)
<1> DEFINE Step(h, S) == IF S = {} THEN base ELSE st[h[S \ {Max(S)}]][order[Max(S)]]
           Good(h, k) == h \in [SUBSET (1..k) -> X] /\ \A S \in SUBSET (1..k) : h[S] = Step(h, S)
           N == {k \in Nat : k <= Len(order) => \E h : Good(h, k)}
<1>1. 0 \in N
  <2> DEFINE h == [S \in SUBSET (1..0) |-> base]
  <2>1. \A S \in SUBSET (1..0) : S = {}
    OBVIOUS
  <2>2. Good(h, 0)
    BY <2>1
  <2> HIDE DEF h, Good
  <2> QED BY <2>2
<1>2. ASSUME NEW k \in Nat, k \in N PROVE k + 1 \in N
  <2> HIDE DEF Good
  <2> SUFFICES ASSUME k + 1 <= Len(order) PROVE \E h : Good(h, k + 1)
    OBVIOUS
  <2> USE DEF Good
  <2>1. PICK f : Good(f, k)
    <3>1. k <= Len(order)
      OBVIOUS
    <3> QED BY <3>1, <1>2
  <2> DEFINE g == [S \in SUBSET (1..(k + 1)) |->
                     IF k + 1 \in S THEN st[f[S \ {k + 1}]][order[k + 1]] ELSE f[S]]
  <2>2. \A S \in SUBSET (1..(k + 1)) : k + 1 \notin S => S \in SUBSET (1..k)
    OBVIOUS
  <2>3. \A S \in SUBSET (1..k) : g[S] = f[S]
    OBVIOUS
  <2>4. order[k + 1] \in Y
    <3>1. k + 1 \in 1..Len(order)
      OBVIOUS
    <3> QED BY <3>1
  <2>5. ASSUME NEW S \in SUBSET (1..(k + 1)) PROVE g[S] \in X /\ g[S] = Step(g, S)
    <3>1. CASE k + 1 \in S
      <4>1. Max(S) = k + 1 /\ S # {}
        <5>1. k + 1 \in Nat
          OBVIOUS
        <5>2. S # {} /\ Max(S) \in S /\ \A y \in S : Max(S) >= y
          BY <3>1, <5>1, MaxIsIn
        <5>3. Max(S) \in 1..(k + 1) /\ Max(S) >= k + 1
          BY <3>1, <5>2
        <5> QED BY <5>2, <5>3
      <4>2. S \ {k + 1} \in SUBSET (1..k)
        BY <2>2
      <4>3. g[S \ {k + 1}] = f[S \ {k + 1}] /\ f[S \ {k + 1}] \in X
        BY <2>1, <2>3, <4>2
      <4>4. g[S] = st[f[S \ {k + 1}]][order[k + 1]]
        BY <3>1
      <4>5. g[S] \in X
        BY <2>4, <4>3, <4>4
      <4> QED BY <4>1, <4>3, <4>4, <4>5
    <3>2. CASE k + 1 \notin S
      <4>1. S \in SUBSET (1..k) /\ S \ {Max(S)} \in SUBSET (1..k)
        BY <2>2, <3>2
      <4>2. g[S] = f[S] /\ g[S \ {Max(S)}] = f[S \ {Max(S)}] /\ f[S] \in X
        BY <2>1, <2>3, <4>1
      <4>3. f[S] = Step(f, S)
        BY <2>1, <4>1
      <4> QED BY <4>2, <4>3
    <3> QED BY <3>1, <3>2
  <2>6. g = [S \in SUBSET (1..(k + 1)) |-> g[S]]
    OBVIOUS
  <2> HIDE DEF g, Step
  <2>7. Good(g, k + 1)
    BY <2>5, <2>6
  <2> QED BY <2>7
<1>3. Len(order) \in N
  <2> HIDE DEF N
  <2>1. Nat \subseteq N
    BY <1>1, <1>2, NatSetInduction
  <2> QED BY <2>1
<1>4. PICK h : Good(h, Len(order))
  <2> HIDE DEF Good
  <2> QED BY <1>3
<1>5. h = [S \in SUBSET (1..Len(order)) |-> h[S]]
  BY <1>4
<1>6. Iterates(h, st, base, order)
  BY <1>4, <1>5 DEF Iterates
<1> QED BY <1>4, <1>6

LEMMA UpToInduction ==
  ASSUME NEW n \in Nat, NEW S, 0 \in S, \A k \in 0..(n - 1) : k \in S => k + 1 \in S
  PROVE  0..n \subseteq S
<1> DEFINE N == {k \in Nat : k <= n => k \in S}
<1>1. 0 \in N
  OBVIOUS
<1>2. \A k \in Nat : k \in N => k + 1 \in N
  <2> SUFFICES ASSUME NEW k \in Nat, k \in N, k + 1 <= n PROVE k + 1 \in S
    OBVIOUS
  <2>1. k \in 0..(n - 1) /\ k \in S
    OBVIOUS
  <2> QED BY <2>1
<1>3. Nat \subseteq N
  <2> HIDE DEF N
  <2> QED BY <1>1, <1>2, NatSetInduction
<1> QED BY <1>3

\* f is what the fold passes on its way, position by position.
Passes(f, st, base, order) ==
  /\ f[0] = base
  /\ \A k \in 0..(Len(order) - 1) : f[k + 1] = st[f[k]][order[k + 1]]

\* c is the fold, as long as its values are in X.
Folds(c, X, st, base, order) ==
  /\ c[{}] = base
  /\ \A T \in SUBSET (1..Len(order)) :
       T # {} /\ c[T \ {Max(T)}] \in X => c[T] = st[c[T \ {Max(T)}]][order[Max(T)]]

LEMMA FoldPasses ==
  ASSUME NEW X, NEW Y, NEW st \in [X -> [Y -> X]], NEW base \in X, NEW order \in Seq(Y),
         NEW c, Folds(c, X, st, base, order)
  PROVE  \E f \in [0..Len(order) -> X] : Passes(f, st, base, order) /\ c[1..Len(order)] = f[Len(order)]
<1> DEFINE n == Len(order)
<1>1. n \in Nat /\ \A i \in 1..n : order[i] \in Y
  OBVIOUS
<1>2. c[1..0] = base
  <2>1. 1..0 = {}
    OBVIOUS
  <2> QED BY <2>1 DEF Folds
<1>3. ASSUME NEW k \in 0..(n - 1), c[1..k] \in X PROVE c[1..(k + 1)] = st[c[1..k]][order[k + 1]]
  <2>1. k \in Nat /\ k + 1 \in 1..(k + 1) /\ k + 1 <= n
    BY <1>1
  <2>2. 1..(k + 1) \in SUBSET (1..n) /\ 1..(k + 1) # {}
    <3>1. \A j \in 1..(k + 1) : j \in 1..n
      BY <1>1, <2>1
    <3> QED BY <2>1, <3>1
  <2>3. Max(1..(k + 1)) = k + 1 /\ (1..(k + 1)) \ {k + 1} = 1..k
    BY <2>1, MaxOfUpTo
  <2> HIDE DEF n
  <2>4. \A T \in SUBSET (1..n) :
          T # {} /\ c[T \ {Max(T)}] \in X => c[T] = st[c[T \ {Max(T)}]][order[Max(T)]]
    BY DEF n, Folds
  <2> QED BY <1>3, <2>2, <2>3, <2>4
<1> HIDE DEF n
<1> DEFINE G == {k \in 0..n : c[1..k] \in X}
<1>4. 0 \in G
  <2>1. 0 \in 0..n
    BY <1>1
  <2> QED BY <1>2, <2>1
<1>5. \A k \in 0..(n - 1) : k \in G => k + 1 \in G
  <2> SUFFICES ASSUME NEW k \in 0..(n - 1), c[1..k] \in X PROVE k + 1 \in 0..n /\ c[1..(k + 1)] \in X
    OBVIOUS
  <2>1. k + 1 \in 0..n /\ k + 1 \in 1..n
    BY <1>1
  <2>2. c[1..(k + 1)] = st[c[1..k]][order[k + 1]]
    BY <1>3
  <2>3. st[c[1..k]] \in [Y -> X] /\ order[k + 1] \in Y
    BY <1>1, <2>1
  <2> HIDE DEF n
  <2> QED BY <2>1, <2>2, <2>3
<1>6. \A k \in 0..n : c[1..k] \in X
  <2>1. 0..n \subseteq G
    <3> HIDE DEF G
    <3> QED BY <1>1, <1>4, <1>5, UpToInduction
  <2> QED BY <2>1
<1> DEFINE f == [k \in 0..n |-> c[1..k]]
<1>7. f \in [0..n -> X] /\ f[n] = c[1..n] /\ f[0] = base
  <2>1. n \in 0..n /\ 0 \in 0..n
    BY <1>1
  <2> QED BY <1>2, <1>6, <2>1
<1>8. \A k \in 0..(n - 1) : f[k + 1] = st[f[k]][order[k + 1]]
  <2> SUFFICES ASSUME NEW k \in 0..(n - 1) PROVE f[k + 1] = st[f[k]][order[k + 1]]
    OBVIOUS
  <2>1. k + 1 \in 0..n /\ k \in 0..n
    BY <1>1
  <2> QED BY <1>3, <1>6, <2>1
<1> HIDE DEF f
<1>9. Passes(f, st, base, order)
  BY <1>7, <1>8 DEF Passes, n
<1> QED BY <1>7, <1>9 DEF n
=============================================================================
