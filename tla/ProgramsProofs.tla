--------------------------- MODULE ProgramsProofs ----------------------------
(***************************************************************************)
(* Proofs about the programs that run the test cases: the runner, for any  *)
(* number of systems, test cases, starts and faults, and then the batch    *)
(* drivers, for any number of packages and of cases and any time that a    *)
(* case is given.                                                          *)
(***************************************************************************)
EXTENDS Runner, Drivers, SequenceLemmas

(***************************************************************************)
(* What each place of run_testcases may rely on.  Whether the host is clean *)
(* when a start begins is not known, so nothing is said of it until mkfs   *)
(* has shown that nothing was mounted.                                     *)
(***************************************************************************)
SetupInv ==
  pc = "setup" =>
    /\ step \in 1..4
    /\ workspace = {}
    /\ step \in {3, 4} => loaded
    /\ step = 4 => mounted = {} /\ FreshDisk

TeardownInv ==
  pc = "teardown" =>
    /\ step \in 1..3
    /\ workspace = {fs}
    /\ step = 1 => mounted = {fs}
    /\ step \in {2, 3} => mounted = {}
    /\ step = 3 => ~loaded /\ disk = Blank

\* Only a runner with something to run touches the host.
BusyInv ==
  /\ Running => ~(1 > Len(selected))
  /\ pc \in {"setup", "run", "teardown"} => NSystems # 0
  /\ 1 > Len(selected) \/ NSystems = 0 => CleanHost

\* An exception of run() waits in the teardown only, and then leaves.
EndInv ==
  /\ Running \/ pc = "new" => ended = "no"
  /\ pc = "done" => ended = "done"

IInv == SetupInv /\ TeardownInv /\ FreshAtRun /\ CleanBetweenRuns /\ BusyInv /\ EndInv

\* A script's position is told by the command that is next.
LEMMA Positions ==
  /\ \A k \in 1..4 :
       /\ SetupCommands[k] = "mkdir" => k = 1
       /\ SetupCommands[k] = "modprobe" => k = 2
       /\ SetupCommands[k] = "mkfs" => k = 3
       /\ SetupCommands[k] = "mount" => k = 4
  /\ \A k \in 1..3 :
       /\ TeardownCommands[k] = "umount" => k = 1
       /\ TeardownCommands[k] = "rmmod" => k = 2
       /\ TeardownCommands[k] = "rm" => k = 3
<1>1. \A k \in 1..4 : k = 1 \/ k = 2 \/ k = 3 \/ k = 4
  OBVIOUS
<1>2. \A k \in 1..3 : k = 1 \/ k = 2 \/ k = 3
  OBVIOUS
<1> QED BY <1>1, <1>2 DEF SetupCommands, TeardownCommands

LEMMA InitIInv == Init => IInv
<1> SUFFICES ASSUME Init PROVE IInv
  OBVIOUS
<1> QED
  BY DEF Init, IInv, SetupInv, TeardownInv, FreshAtRun, CleanBetweenRuns, BusyInv,
         EndInv, CleanHost, Running

\* The commands of setup-<fs>
LEMMA SetupSteps ==
  ASSUME IInv, Mkdir \/ Modprobe \/ Mkfs \/ MkfsRefused \/ Mount \/ SetupFails
  PROVE  IInv'
<1> USE DEF IInv, SetupInv, TeardownInv, FreshAtRun, CleanBetweenRuns, BusyInv, EndInv,
            CleanHost, Running, FreshDisk, hostVars, resultVars, InSetup, NextCommand
<1>1. CASE Mkdir
  <2>1. pc = "setup" /\ step = 1
    BY <1>1, Positions DEF Mkdir
  <2> QED BY <1>1, <2>1 DEF Mkdir
<1>2. CASE Modprobe
  <2>1. pc = "setup" /\ step = 2
    BY <1>2, Positions DEF Modprobe
  <2> QED BY <1>2, <2>1 DEF Modprobe
<1>3. CASE Mkfs
  <2>1. pc = "setup" /\ step = 3
    BY <1>3, Positions DEF Mkfs
  <2> QED BY <1>3, <2>1 DEF Mkfs, MkfsAccepts
<1>4. CASE MkfsRefused
  BY <1>4 DEF MkfsRefused, Fail
<1>5. CASE Mount
  <2>1. pc = "setup" /\ step = 4
    BY <1>5, Positions DEF Mount
  <2> QED BY <1>5, <2>1 DEF Mount
<1>6. CASE SetupFails
  BY <1>6 DEF SetupFails, Fail, Fault
<1> QED BY <1>1, <1>2, <1>3, <1>4, <1>5, <1>6

\* The executor uses the disk and leaves the mount alone.
LEMMA RunSteps ==
  ASSUME IInv, RunCompletes \/ RunCrashes \/ TraceUnread \/ RunRaises
  PROVE  IInv'
<1>1. /\ pc = "run" /\ pc' = "teardown" /\ step' = 1
      /\ UNCHANGED <<loaded, mounted, workspace, fs, selected, index, ended>>
  BY DEF RunCompletes, RunCrashes, TraceUnread, RunRaises, Ran, resultVars
<1> QED
  BY <1>1 DEF IInv, SetupInv, TeardownInv, FreshAtRun, CleanBetweenRuns, BusyInv,
              EndInv, CleanHost, Running, FreshDisk

\* The commands of teardown-<fs>
LEMMA TeardownSteps ==
  ASSUME IInv, Umount \/ Rmmod \/ Rm \/ TeardownFails
  PROVE  IInv'
<1> USE DEF IInv, SetupInv, TeardownInv, FreshAtRun, CleanBetweenRuns, BusyInv, EndInv,
            CleanHost, Running, FreshDisk, hostVars, resultVars, InTeardown, NextCommand
<1>1. CASE Umount
  <2>1. pc = "teardown" /\ step = 1
    BY <1>1, Positions DEF Umount
  <2> QED BY <1>1, <2>1 DEF Umount
<1>2. CASE Rmmod
  <2>1. pc = "teardown" /\ step = 2
    BY <1>2, Positions DEF Rmmod
  <2> QED BY <1>2, <2>1 DEF Rmmod
<1>3. CASE Rm
  <2>1. pc = "teardown" /\ step = 3
    BY <1>3, Positions DEF Rm
  <2>2. CleanHost'
    BY <1>3, <2>1 DEF Rm
  <2>3. CASE raising
    BY <1>3, <2>1, <2>2, <2>3 DEF Rm, Fail
  <2>4. CASE ~raising
    BY <1>3, <2>1, <2>2, <2>4 DEF Rm
  <2> QED BY <2>3, <2>4
<1>4. CASE TeardownFails
  BY <1>4 DEF TeardownFails, Fail, Fault
<1> QED BY <1>1, <1>2, <1>3, <1>4

LEMMA ProcessSteps ==
  ASSUME IInv, Compare \/ Interrupt \/ Start
  PROVE  IInv'
<1> USE DEF IInv, SetupInv, TeardownInv, FreshAtRun, CleanBetweenRuns, BusyInv, EndInv,
            CleanHost, Running, FreshDisk, hostVars, resultVars
<1>1. CASE Compare
  BY <1>1 DEF Compare, Begin
<1>2. CASE Interrupt
  BY <1>2 DEF Interrupt, Fail, Fault
<1>3. CASE Start
  BY <1>3 DEF Start, Begin
<1> QED BY <1>1, <1>2, <1>3

LEMMA NextIInv == IInv /\ [Next]_vars => IInv'
<1> SUFFICES ASSUME IInv, [Next]_vars PROVE IInv'
  OBVIOUS
<1>1. CASE Mkdir \/ Modprobe \/ Mkfs \/ MkfsRefused \/ Mount \/ SetupFails
  BY <1>1, SetupSteps
<1>2. CASE RunCompletes \/ RunCrashes \/ TraceUnread \/ RunRaises
  BY <1>2, RunSteps
<1>3. CASE Umount \/ Rmmod \/ Rm \/ TeardownFails
  BY <1>3, TeardownSteps
<1>4. CASE Compare \/ Interrupt \/ Start
  BY <1>4, ProcessSteps
<1>5. CASE UNCHANGED vars
  BY <1>5 DEF vars, hostVars, resultVars, IInv, SetupInv, TeardownInv, FreshAtRun,
              CleanBetweenRuns, BusyInv, EndInv, CleanHost, Running, FreshDisk
<1> QED BY <1>1, <1>2, <1>3, <1>4, <1>5 DEF Next, Progress

\* A test case runs only on a fresh file system of its own, whatever failed
\* before (run.py:185-193, wrappers/setup-*).
THEOREM RunsAreFresh == Spec => []FreshAtRun
<1>1. IInv => FreshAtRun
  BY DEF IInv
<1> QED BY InitIInv, NextIInv, <1>1, PTL DEF Spec

\* Between two systems, after the last one, and when run() raised, nothing of
\* what setup made is left (run.py:187-193, wrappers/teardown-*).
THEOREM RunsLeaveNothing == Spec => []CleanBetweenRuns
<1>1. IInv => CleanBetweenRuns
  BY DEF IInv
<1> QED BY InitIInv, NextIInv, <1>1, PTL DEF Spec

(***************************************************************************)
(* The selection: the test cases in order, each once                       *)
(***************************************************************************)
InOrder(s) == \A i, j \in DOMAIN s : i < j => Before(s[i], s[j])

\* compare orders any two test cases, in one way only.
LEMMA BeforeIsAnOrder ==
  ASSUME NEW a \in TestCase, NEW b \in TestCase, NEW c \in TestCase
  PROVE  /\ a = b \/ Before(a, b) \/ Before(b, a)
         /\ ~Before(a, a)
         /\ Before(a, b) /\ Before(b, c) => Before(a, c)
<1>1. ASSUME NEW t \in TestCase
      PROVE  t.numeric \in BOOLEAN /\ t.key \in Nat /\ t = [numeric |-> t.numeric, key |-> t.key]
  BY <1>1, TestsAssumption DEF TestCase
<1>2. /\ a.key \in Nat /\ b.key \in Nat /\ c.key \in Nat
      /\ a.numeric \in BOOLEAN /\ b.numeric \in BOOLEAN /\ c.numeric \in BOOLEAN
  BY <1>1
<1>3. a.numeric = b.numeric /\ a.key = b.key => a = b
  BY <1>1
<1> QED BY <1>2, <1>3 DEF Before

\* A finite set of test cases has a last one.
LEMMA LastOfSet ==
  ASSUME NEW n \in Nat, NEW S \in SUBSET TestCase, IsFiniteSet(S), Cardinality(S) = n + 1
  PROVE  \E m \in S : \A x \in S \ {m} : Before(x, m)
<1> DEFINE HasLast(T) == \E m \in T : \A x \in T \ {m} : Before(x, m)
           N == {k \in Nat : \A T \in SUBSET TestCase :
                   IsFiniteSet(T) /\ Cardinality(T) = k + 1 => HasLast(T)}
<1>1. 0 \in N
  <2> SUFFICES ASSUME NEW T \in SUBSET TestCase, IsFiniteSet(T), Cardinality(T) = 1
               PROVE  HasLast(T)
    OBVIOUS
  <2>1. \E x : T = {x}
    BY FS_Singleton
  <2> QED BY <2>1
<1>2. ASSUME NEW k \in Nat, k \in N PROVE k + 1 \in N
  <2> SUFFICES ASSUME NEW T \in SUBSET TestCase, IsFiniteSet(T), Cardinality(T) = (k + 1) + 1
               PROVE  HasLast(T)
    OBVIOUS
  <2>1. T # {}
    BY FS_EmptySet
  <2>2. PICK y \in T : TRUE
    BY <2>1
  <2>3. IsFiniteSet(T \ {y}) /\ Cardinality(T \ {y}) = k + 1
    BY FS_RemoveElement
  <2>4. PICK m \in T \ {y} : \A x \in (T \ {y}) \ {m} : Before(x, m)
    BY <1>2, <2>3
  <2>5. y \in TestCase /\ m \in TestCase
    OBVIOUS
  <2>6. CASE Before(y, m)
    BY <2>4, <2>6
  <2>7. CASE Before(m, y)
    <3>1. \A x \in T \ {y} : x # m => Before(x, y)
      BY <2>4, <2>5, <2>7, BeforeIsAnOrder
    <3> QED BY <2>7, <3>1
  <2> QED BY <2>4, <2>5, <2>6, <2>7, BeforeIsAnOrder
<1>3. n \in N
  <2> HIDE DEF N
  <2> QED BY <1>1, <1>2, NatSetInduction
<1> QED BY <1>3

LEMMA SortingExists ==
  ASSUME NEW S \in SUBSET TestCase, IsFiniteSet(S)
  PROVE  \E s \in SetToSeqs(S) : InOrder(s)
<1> DEFINE Sortable(T) == \E s \in SetToSeqs(T) : InOrder(s)
           N == {k \in Nat : \A T \in SUBSET TestCase :
                   IsFiniteSet(T) /\ Cardinality(T) = k => Sortable(T)}
<1>1. 0 \in N
  <2> SUFFICES ASSUME NEW T \in SUBSET TestCase, IsFiniteSet(T), Cardinality(T) = 0
               PROVE  Sortable(T)
    OBVIOUS
  <2> DEFINE s == [i \in 1..0 |-> i]
  <2>1. T = {} /\ 1..0 = {}
    BY FS_EmptySet
  <2>2. s \in SetToSeqs(T) /\ InOrder(s)
    BY <2>1 DEF SetToSeqs, InOrder
  <2> HIDE DEF s
  <2> QED BY <2>2
<1>2. ASSUME NEW k \in Nat, k \in N PROVE k + 1 \in N
  <2> SUFFICES ASSUME NEW T \in SUBSET TestCase, IsFiniteSet(T), Cardinality(T) = k + 1
               PROVE  Sortable(T)
    OBVIOUS
  <2>1. PICK m \in T : \A x \in T \ {m} : Before(x, m)
    BY LastOfSet
  <2>2. IsFiniteSet(T \ {m}) /\ Cardinality(T \ {m}) = k
    <3>1. IsFiniteSet(T \ {m}) /\ Cardinality(T \ {m}) = Cardinality(T) - 1
      BY <2>1, FS_RemoveElement
    <3> QED BY <3>1
  <2>3. PICK r \in SetToSeqs(T \ {m}) : InOrder(r)
    BY <1>2, <2>2
  <2>4. /\ r \in [1..k -> T \ {m}]
        /\ \A i, j \in 1..k : i # j => r[i] # r[j]
        /\ \A i, j \in 1..k : i < j => Before(r[i], r[j])
    BY <2>2, <2>3 DEF SetToSeqs, InOrder
  <2> DEFINE s == [i \in 1..(k + 1) |-> IF i = k + 1 THEN m ELSE r[i]]
  <2>5. /\ DOMAIN s = 1..(k + 1)
        /\ \A i \in 1..k : s[i] = r[i]
        /\ s[k + 1] = m
        /\ s \in [1..(k + 1) -> T]
    BY <2>4
  <2> HIDE DEF s
  <2>6. \A i \in 1..(k + 1) : i \in 1..k \/ i = k + 1
    OBVIOUS
  <2>7. \A i, j \in 1..(k + 1) : i # j => s[i] # s[j]
    BY <2>4, <2>5, <2>6
  <2>8. \A i, j \in 1..(k + 1) : i < j => i \in 1..k
    OBVIOUS
  <2>9. InOrder(s)
    <3> SUFFICES ASSUME NEW i \in 1..(k + 1), NEW j \in 1..(k + 1), i < j
                 PROVE  Before(s[i], s[j])
      BY <2>5 DEF InOrder
    <3>1. i \in 1..k
      BY <2>8
    <3>2. CASE j \in 1..k
      BY <2>4, <2>5, <3>1, <3>2
    <3>3. CASE j = k + 1
      BY <2>1, <2>4, <2>5, <3>1, <3>3
    <3> QED BY <2>6, <3>2, <3>3
  <2> QED BY <2>5, <2>7, <2>9 DEF SetToSeqs
<1>3. Cardinality(S) \in N
  <2>1. Nat \subseteq N
    <3> HIDE DEF N
    <3> QED BY <1>1, <1>2, NatSetInduction
  <2> QED BY <2>1, FS_CardinalityType
<1> QED BY <1>3

\* run_testcases takes the test cases that the limits select, each once and in the
\* order of compare (run.py:162-181).
LEMMA SelectionInOrder ==
  ASSUME NEW first, NEW last
  PROVE  /\ Selection(first, last) \in Seq(TestCase)
         /\ InOrder(Selection(first, last))
         /\ {Selection(first, last)[i] : i \in DOMAIN Selection(first, last)}
              = {tc \in TestCase : Selects(tc, first, last)}
<1> DEFINE S == {tc \in TestCase : Selects(tc, first, last)}
           s == Selection(first, last)
<1>1. IsFiniteSet(TestCase)
  <2>1. IsFiniteSet([numeric : {TRUE}, key : Numbered]) /\ IsFiniteSet([numeric : {FALSE}, key : Named])
    <3>1. ASSUME NEW b \in BOOLEAN, NEW K, IsFiniteSet(K)
          PROVE  IsFiniteSet([numeric : {b}, key : K])
      <4> DEFINE f == [x \in K |-> [numeric |-> b, key |-> x]]
      <4>1. f \in Surjection(K, [numeric : {b}, key : K])
        BY DEF Surjection
      <4> HIDE DEF f
      <4> QED BY <3>1, <4>1, FS_Surjection
    <3> QED BY <3>1, TestsAssumption
  <2> QED BY <2>1, FS_Union DEF TestCase
<1>2. S \subseteq TestCase /\ IsFiniteSet(S)
  BY <1>1, FS_Subset
<1>3. s \in SetToSeqs(S) /\ InOrder(s)
  <2>1. \E t \in SetToSeqs(S) : InOrder(t)
    <3> HIDE DEF S
    <3> QED BY <1>2, SortingExists
  <2> QED BY <2>1 DEF Selection, InOrder
<1> HIDE DEF s, S
<1>4. /\ s \in [1..Cardinality(S) -> S] /\ Cardinality(S) \in Nat
      /\ \A i, j \in 1..Cardinality(S) : i # j => s[i] # s[j]
  BY <1>2, <1>3, FS_CardinalityType DEF SetToSeqs
<1>5. s \in Seq(TestCase)
  BY <1>2, <1>4
<1>6. {s[i] : i \in DOMAIN s} = S
  <2> DEFINE n == Cardinality(S)
  <2>1. IsFiniteSet(1..n) /\ Cardinality(1..n) = n
    BY <1>4, FS_Interval
  <2>2. s \in Injection(1..n, S)
    BY <1>4 DEF Injection, IsInjective
  <2>3. s \in Surjection(1..n, S)
    BY <1>2, <2>1, <2>2, FS_Injection
  <2> QED BY <1>4, <2>3 DEF Surjection
<1> QED BY <1>3, <1>5, <1>6 DEF s, S

(***************************************************************************)
(* What has been gathered for a test case, and what it has cost            *)
(***************************************************************************)
\* The loops are where their indices are, and each test case before this one gave
\* two issues at most.
LoopInv ==
  /\ Running => index \in DOMAIN selected /\ issues_found <= 2 * (index - 1)
  /\ pc \in {"setup", "run", "teardown"} => fs \in Systems

\* An exception of run() waits in its teardown only.
RaisingInv == raising => pc \in {"teardown", "failed"}

\* run() has returned for f in this test case.
HasRun(f) ==
  \/ pc = "compare"
  \/ pc = "teardown" /\ ~raising /\ f = fs
  \/ pc \in {"setup", "run", "teardown"} /\ f < fs

Whole(f) == outputs[f] \in Lines /\ (ran[f] # NoTrace => traces[f] \in {ran[f], NoTrace})

WholeSoFar == \A f \in Systems : HasRun(f) => Whole(f)

GatherInv == TypeOK /\ LoopInv /\ RaisingInv /\ WholeSoFar

\* The parts of TypeOK
HostTyped ==
  /\ loaded \in BOOLEAN /\ disk \in [fs : 0..NSystems, used : BOOLEAN]
  /\ mounted \subseteq Systems /\ workspace \subseteq Systems
  /\ refusing \subseteq Systems
LoopTyped ==
  /\ raising \in BOOLEAN /\ selected \in Seq(TestCase)
  /\ pc \in {"new", "setup", "run", "teardown", "compare", "done", "failed"}
  /\ ended \in {"no", "done", "run", "setup", "teardown", "interrupt"}
  /\ pc \in {"setup", "run", "teardown"} => fs \in Systems /\ index \in DOMAIN selected
  /\ pc = "setup" => step \in 1..4
  /\ pc = "teardown" => step \in 1..3
ResultTyped ==
  /\ outputs \in [Systems -> {0} \cup Lines]
  /\ DOMAIN traces = Systems /\ DOMAIN ran = Systems
  /\ issues_found \in 0..(2 * Len(selected))
CountTyped == faults \in 0..MaxFaults /\ starts \in 0..MaxStarts

LEMMA TypeParts ==
  /\ TypeOK <=> HostTyped /\ LoopTyped /\ ResultTyped /\ CountTyped
  /\ TypeOK' <=> HostTyped' /\ LoopTyped' /\ ResultTyped' /\ CountTyped'
<1>1. DOMAIN SetupCommands = 1..4 /\ DOMAIN TeardownCommands = 1..3
  BY DEF SetupCommands, TeardownCommands
<1> QED BY <1>1, Zenon DEF TypeOK, HostTyped, LoopTyped, ResultTyped, CountTyped

\* Nothing is gathered in these steps: what has been stays, and nothing new is asked for.
LEMMA GatheredStays ==
  ASSUME GatherInv, UNCHANGED <<outputs, traces, ran>>,
         \A f \in Systems : HasRun(f)' => HasRun(f)
  PROVE  WholeSoFar'
BY DEF GatherInv, WholeSoFar, Whole

LEMMA InitGather == Init => GatherInv
<1> SUFFICES ASSUME Init PROVE GatherInv
  OBVIOUS
<1>1. PICK first, last \in Limits \cup {NoLimit} : selected = Selection(first, last)
  BY DEF Init
<1>2. selected \in Seq(TestCase)
  BY <1>1, SelectionInOrder
<1>3. TypeOK
  <2>1. Len(selected) \in Nat
    BY <1>2
  <2>2. disk \in [fs : 0..NSystems, used : BOOLEAN]
    BY SystemsAssumption DEF Init, Blank
  <2>3. outputs \in [Systems -> {0} \cup Lines]
    BY DEF Init
  <2>4. HostTyped
    BY <2>2 DEF Init, HostTyped
  <2>5. LoopTyped
    BY <1>2 DEF Init, LoopTyped
  <2>6. ResultTyped
    BY <2>1, <2>3 DEF Init, ResultTyped
  <2>7. CountTyped
    BY BoundsAssumption DEF Init, CountTyped
  <2> QED BY <2>4, <2>5, <2>6, <2>7, TypeParts
<1> QED BY <1>3 DEF Init, GatherInv, LoopInv, RaisingInv, WholeSoFar, HasRun, Running

\* Where Begin(i) leads, when i is the first index or the next one
LEMMA BeginsWithin ==
  ASSUME NEW i \in Nat \ {0}, i <= Len(selected) + 1, selected \in Seq(TestCase),
         selected' = selected, Begin(i)
  PROVE  /\ pc' \in {"done", "compare", "setup"} /\ ended' \in {"done", "no"}
         /\ pc' = "done" \/ i \in DOMAIN selected
         /\ index' = i /\ fs' = 1 /\ step' = 1
         /\ pc' = "setup" => 1 \in Systems
         /\ pc' = "compare" => NSystems = 0
<1>1. Len(selected) \in Nat /\ DOMAIN selected = 1..Len(selected)
  OBVIOUS
<1>2. CASE i > Len(selected)
  BY <1>2 DEF Begin
<1>3. CASE ~(i > Len(selected))
  <2>1. i \in DOMAIN selected
    BY <1>1, <1>3
  <2>2. NSystems # 0 => 1 \in Systems
    BY SystemsAssumption DEF Systems
  <2> QED BY <1>3, <2>1, <2>2 DEF Begin
<1> QED BY <1>2, <1>3

LEMMA GatherSetup ==
  ASSUME GatherInv, Mkdir \/ Modprobe \/ Mkfs \/ MkfsRefused \/ Mount \/ SetupFails
  PROVE  GatherInv'
<1>1. pc = "setup" /\ TypeOK /\ step \in 1..4
  BY DEF GatherInv, TypeOK, Mkdir, Modprobe, Mkfs, MkfsRefused, Mount, SetupFails, InSetup,
         SetupCommands
<1>2. /\ UNCHANGED <<trace_csv, resultVars, raising, selected, index, fs, starts>>
      /\ \/ pc' = "setup" /\ ended' = ended
         \/ pc' = "run" /\ ended' = ended
         \/ pc' = "failed" /\ ended' = "setup"
  <2>1. CASE Mkdir
    BY <1>1, <2>1 DEF Mkdir, NextCommand
  <2>2. CASE Modprobe
    BY <1>1, <2>2 DEF Modprobe, NextCommand
  <2>3. CASE Mkfs
    BY <1>1, <2>3 DEF Mkfs, NextCommand
  <2>4. CASE MkfsRefused
    BY <2>4 DEF MkfsRefused, Fail, hostVars
  <2>5. CASE Mount
    BY <2>5 DEF Mount
  <2>6. CASE SetupFails
    BY <2>6 DEF SetupFails, Fail, hostVars
  <2> QED BY <2>1, <2>2, <2>3, <2>4, <2>5, <2>6
<1>3. WholeSoFar'
  BY <1>1, <1>2, GatheredStays DEF HasRun, resultVars
<1>4. LoopInv' /\ RaisingInv'
  BY <1>1, <1>2 DEF GatherInv, LoopInv, RaisingInv, Running, resultVars
<1>5. pc' = "setup" => step' \in 1..4
  <2>1. CASE Mkdir \/ Modprobe \/ Mkfs
    <3>1. step # 4
      BY <1>1, <2>1, Positions DEF Mkdir, Modprobe, Mkfs, InSetup, SetupCommands
    <3>2. step' = step + 1
      BY <2>1 DEF Mkdir, Modprobe, Mkfs, NextCommand
    <3> QED BY <1>1, <3>1, <3>2
  <2>2. CASE ~(Mkdir \/ Modprobe \/ Mkfs)
    BY <1>1, <2>2 DEF MkfsRefused, SetupFails, Mount, Fail
  <2> QED BY <2>1, <2>2
<1>6. fs \in Systems
  BY <1>1 DEF GatherInv, LoopInv
<1>7. /\ loaded' \in BOOLEAN /\ disk' \in [fs : 0..NSystems, used : BOOLEAN]
      /\ mounted' \subseteq Systems /\ workspace' \subseteq Systems
      /\ refusing' \subseteq Systems
  <2>1. HostTyped /\ [fs |-> fs, used |-> FALSE] \in [fs : 0..NSystems, used : BOOLEAN]
    BY <1>1, <1>6, TypeParts, SystemsAssumption DEF Systems
  <2>2. CASE Mkdir
    BY <2>1, <2>2 DEF Mkdir, NextCommand, HostTyped
  <2>3. CASE Modprobe
    BY <2>1, <2>3 DEF Modprobe, NextCommand, HostTyped
  <2>4. CASE Mkfs
    BY <2>1, <2>4 DEF Mkfs, NextCommand, HostTyped
  <2>5. CASE Mount
    BY <1>6, <2>1, <2>5 DEF Mount, HostTyped
  <2>6. CASE MkfsRefused \/ SetupFails
    BY <2>1, <2>6 DEF MkfsRefused, SetupFails, HostTyped, hostVars
  <2> QED BY <2>2, <2>3, <2>4, <2>5, <2>6
<1>8. faults' \in 0..MaxFaults
  <2>1. faults' = faults \/ (faults < MaxFaults /\ faults' = faults + 1)
    BY DEF Mkdir, Modprobe, Mkfs, MkfsRefused, Mount, SetupFails, NextCommand, Fault
  <2> QED BY <1>1, <2>1, BoundsAssumption DEF TypeOK
<1>9. TypeOK'
  <2>1. HostTyped /\ LoopTyped /\ ResultTyped /\ CountTyped
    BY <1>1, TypeParts
  <2>2. LoopTyped'
    BY <1>1, <1>2, <1>5, <1>6, <2>1 DEF LoopTyped
  <2>3. HostTyped' /\ ResultTyped' /\ CountTyped'
    BY <1>2, <1>7, <1>8, <2>1 DEF HostTyped, ResultTyped, CountTyped, resultVars
  <2> QED BY <2>2, <2>3, TypeParts
<1> QED BY <1>3, <1>4, <1>9 DEF GatherInv

\* run() returned with what it read, and the executor did what own tells.
Gathers(own, read, lines) ==
  /\ raising' = raising /\ lines \in Lines
  /\ read \in {own, NoTrace} \/ own = NoTrace
  /\ outputs' = [outputs EXCEPT ![fs] = lines]
  /\ ran' = [ran EXCEPT ![fs] = own]
  /\ traces' = [traces EXCEPT ![fs] = read]

LEMMA GatherRun ==
  ASSUME GatherInv, RunCompletes \/ RunCrashes \/ TraceUnread \/ RunRaises
  PROVE  GatherInv'
<1>1. pc = "run" /\ TypeOK /\ fs \in Systems /\ ~raising
  BY DEF GatherInv, LoopInv, RaisingInv, RunCompletes, RunCrashes, TraceUnread, RunRaises
<1>2. /\ pc' = "teardown" /\ step' = 1 /\ disk' = [disk EXCEPT !.used = TRUE]
      /\ UNCHANGED <<loaded, mounted, refusing, issues_found, selected, index, fs, workspace,
                     ended, starts>>
  BY DEF RunCompletes, RunCrashes, TraceUnread, RunRaises, Ran, resultVars
<1>3. LoopInv'
  BY <1>1, <1>2 DEF GatherInv, LoopInv, Running
<1>4. faults' \in 0..MaxFaults
  <2>1. faults' = faults \/ (faults < MaxFaults /\ faults' = faults + 1)
    BY DEF RunCompletes, RunCrashes, TraceUnread, RunRaises, Fault
  <2> QED BY <1>1, <2>1, BoundsAssumption DEF TypeOK
<1>5. \/ raising' = TRUE /\ UNCHANGED <<outputs, traces, ran>>
      \/ \E own, read, lines : Gathers(own, read, lines)
  <2>1. CASE RunCompletes
    <3>1. PICK text \in Texts, lines \in Lines :
            Ran(OwnTrace(text), OwnTrace(text), OwnTrace(text), lines)
      BY <2>1 DEF RunCompletes
    <3>2. Gathers(OwnTrace(text), OwnTrace(text), lines)
      BY <1>1, <3>1 DEF Ran, Gathers
    <3> QED BY <3>2
  <2>2. CASE RunCrashes
    <3>1. PICK lines \in Lines : Ran(trace_csv, NoTrace, trace_csv, lines)
      BY <2>2 DEF RunCrashes
    <3>2. Gathers(NoTrace, trace_csv, lines)
      BY <1>1, <3>1 DEF Ran, Gathers
    <3> QED BY <3>2
  <2>3. CASE TraceUnread
    <3>1. PICK text \in Texts, lines \in Lines :
            Ran(OwnTrace(text), OwnTrace(text), NoTrace, lines)
      BY <2>3 DEF TraceUnread
    <3>2. Gathers(OwnTrace(text), NoTrace, lines)
      BY <1>1, <3>1 DEF Ran, Gathers
    <3> QED BY <3>2
  <2>4. CASE RunRaises
    BY <2>4 DEF RunRaises, resultVars
  <2> QED BY <2>1, <2>2, <2>3, <2>4
<1>6. raising' \in BOOLEAN => HostTyped' /\ LoopTyped' /\ CountTyped'
  <2>1. HostTyped /\ LoopTyped /\ CountTyped
    BY <1>1, TypeParts
  <2>2. HostTyped'
    BY <1>2, <2>1 DEF HostTyped
  <2>3. raising' \in BOOLEAN => LoopTyped'
    BY <1>1, <1>2, <2>1 DEF LoopTyped
  <2>4. CountTyped'
    BY <1>2, <1>4, <2>1 DEF CountTyped
  <2> QED BY <2>2, <2>3, <2>4
<1>7. CASE raising' = TRUE /\ UNCHANGED <<outputs, traces, ran>>
  <2>1. WholeSoFar'
    BY <1>1, <1>2, <1>7, GatheredStays DEF HasRun
  <2>2. TypeOK'
    <3>1. HostTyped' /\ LoopTyped' /\ CountTyped'
      BY <1>7, <1>6
    <3>2. ResultTyped'
      BY <1>1, <1>2, <1>7, TypeParts DEF ResultTyped
    <3> QED BY <3>1, <3>2, TypeParts
  <2>3. RaisingInv'
    BY <1>2 DEF RaisingInv
  <2> QED BY <1>3, <2>1, <2>2, <2>3 DEF GatherInv
<1>8. ASSUME NEW own, NEW read, NEW lines, Gathers(own, read, lines)
      PROVE  GatherInv'
  <2>0. /\ raising' = FALSE /\ lines \in Lines
        /\ read \in {own, NoTrace} \/ own = NoTrace
        /\ outputs' = [outputs EXCEPT ![fs] = lines]
        /\ ran' = [ran EXCEPT ![fs] = own]
        /\ traces' = [traces EXCEPT ![fs] = read]
    BY <1>1, <1>8, TypeParts DEF Gathers, LoopTyped
  <2>1. DOMAIN outputs = Systems /\ DOMAIN ran = Systems /\ DOMAIN traces = Systems
    BY <1>1 DEF TypeOK
  <2>2. outputs'[fs] = lines /\ ran'[fs] = own /\ traces'[fs] = read
    BY <1>1, <2>0, <2>1
  <2>3. \A f \in Systems : f # fs => /\ outputs'[f] = outputs[f] /\ ran'[f] = ran[f]
                                     /\ traces'[f] = traces[f]
    BY <2>0, <2>1
  <2>4. Whole(fs)'
    BY <1>2, <2>0, <2>2 DEF Whole
  <2>5. \A f \in Systems : f # fs /\ HasRun(f)' => HasRun(f)
    BY <1>1, <1>2 DEF HasRun
  <2>6. \A f \in Systems : f # fs /\ HasRun(f)' => Whole(f)'
    BY <2>3, <2>5 DEF GatherInv, WholeSoFar, Whole
  <2>7. WholeSoFar'
    BY <1>2, <2>4, <2>6 DEF WholeSoFar
  <2>8. TypeOK'
    <3>1. outputs' \in [Systems -> {0} \cup Lines]
      BY <1>1, <2>0 DEF TypeOK
    <3>2. DOMAIN traces' = Systems /\ DOMAIN ran' = Systems
      BY <2>0, <2>1
    <3>3. ResultTyped'
      BY <1>1, <1>2, <3>1, <3>2, TypeParts DEF ResultTyped
    <3> QED BY <1>6, <2>0, <3>3, TypeParts
  <2>9. RaisingInv'
    BY <2>0 DEF RaisingInv
  <2> QED BY <1>3, <2>7, <2>8, <2>9 DEF GatherInv
<1> QED BY <1>5, <1>7, <1>8

LEMMA GatherTeardown ==
  ASSUME GatherInv, Umount \/ Rmmod \/ Rm \/ TeardownFails
  PROVE  GatherInv'
<1>1. pc = "teardown" /\ TypeOK /\ step \in 1..3 /\ fs \in Systems
  BY DEF GatherInv, LoopInv, TypeOK, Umount, Rmmod, Rm, TeardownFails, InTeardown, TeardownCommands
<1>2. UNCHANGED <<trace_csv, resultVars, raising, selected, index, starts>>
  BY DEF Umount, Rmmod, Rm, TeardownFails, NextCommand, Fail, hostVars
<1>3. \/ pc' = "teardown" /\ fs' = fs /\ ended' = ended
      \/ pc' = "failed" /\ ended' \in {"run", "teardown"} /\ fs' = fs
      \/ ~raising /\ pc' = "compare" /\ IsLast(fs) /\ ended' = ended
      \/ ~raising /\ pc' = "setup" /\ ~IsLast(fs) /\ fs' = fs + 1 /\ step' = 1 /\ ended' = ended
  BY <1>1 DEF Umount, Rmmod, Rm, TeardownFails, NextCommand, Fail, Following
<1>4. WholeSoFar'
  <2>1. \A f \in Systems : f \in Int /\ fs \in Int /\ (f < fs + 1 => f = fs \/ f < fs)
    BY <1>1, SystemsAssumption DEF Systems
  <2>2. \A f \in Systems : IsLast(fs) => f = fs \/ f < fs
    BY <1>1, SystemsAssumption DEF Systems, IsLast
  <2>3. \A f \in Systems : HasRun(f)' => HasRun(f)
    BY <1>1, <1>2, <1>3, <2>1, <2>2 DEF HasRun
  <2> QED BY <1>2, <2>3, GatheredStays DEF resultVars
<1>5. pc' \in {"setup", "teardown"} => fs' \in Systems
  <2>1. ~IsLast(fs) => fs + 1 \in Systems
    BY <1>1, SystemsAssumption DEF Systems, IsLast
  <2> QED BY <1>1, <1>3, <2>1
<1>6. LoopInv' /\ RaisingInv'
  BY <1>1, <1>2, <1>3, <1>5 DEF GatherInv, LoopInv, RaisingInv, Running, resultVars
<1>7. pc' = "teardown" => step' \in 1..3
  <2>1. CASE Umount \/ Rmmod
    <3>1. step # 3
      BY <1>1, <2>1, Positions DEF Umount, Rmmod, InTeardown, TeardownCommands
    <3>2. step' = step + 1
      BY <2>1 DEF Umount, Rmmod, NextCommand
    <3> QED BY <1>1, <3>1, <3>2
  <2>2. CASE ~(Umount \/ Rmmod)
    BY <1>1, <2>2 DEF Rm, TeardownFails, Fail
  <2> QED BY <2>1, <2>2
<1>8. /\ loaded' \in BOOLEAN /\ disk' \in [fs : 0..NSystems, used : BOOLEAN]
      /\ mounted' \subseteq Systems /\ workspace' \subseteq Systems
      /\ refusing' \subseteq Systems
  <2>1. Blank \in [fs : 0..NSystems, used : BOOLEAN]
    BY SystemsAssumption DEF Blank
  <2> QED BY <1>1, <2>1 DEF TypeOK, Umount, Rmmod, Rm, TeardownFails, NextCommand, hostVars
<1>9. faults' \in 0..MaxFaults
  <2>1. faults' = faults \/ (faults < MaxFaults /\ faults' = faults + 1)
    BY DEF Umount, Rmmod, Rm, TeardownFails, NextCommand, Fault
  <2> QED BY <1>1, <2>1, BoundsAssumption DEF TypeOK
<1>10. pc' = "setup" => step' \in 1..4
  BY <1>1, <1>3
<1>11. TypeOK'
  BY <1>1, <1>2, <1>3, <1>6, <1>7, <1>8, <1>9, <1>10
     DEF TypeOK, LoopInv, Running, SetupCommands, TeardownCommands, resultVars
<1> QED BY <1>4, <1>6, <1>11 DEF GatherInv

\* What Compare counts
LEMMA CompareCounts ==
  ASSUME Compare
  PROVE  \E a \in 0..1, b \in 0..1 :
           /\ issues_found' = issues_found + a + b
           /\ (\E f, g \in Systems : traces[f].text # traces[g].text) => b = 1
<1> DEFINE lines == {outputs[f] : f \in Systems}
           texts == {traces[f].text : f \in Systems}
           a == IF Differ(lines) THEN 1 ELSE 0
           b == IF Differ(texts) THEN 1 ELSE 0
<1>1. issues_found' = issues_found + a + b
  BY DEF Compare
<1>2. ASSUME NEW f \in Systems, NEW g \in Systems, traces[f].text # traces[g].text
      PROVE  b = 1
  <2>1. IsFiniteSet(texts)
    <3>1. IsFiniteSet(Systems)
      BY SystemsAssumption, FS_Interval DEF Systems
    <3> DEFINE h == [x \in Systems |-> traces[x].text]
    <3>2. h \in Surjection(Systems, texts)
      BY DEF Surjection
    <3> HIDE DEF h, texts
    <3> QED BY <3>1, <3>2, FS_Surjection
  <2> DEFINE x == traces[f].text
             y == traces[g].text
  <2>2. {x} \cup {y} \subseteq texts /\ x # y
    BY <1>2
  <2> HIDE DEF texts, x, y
  <2>3. IsFiniteSet({x}) /\ Cardinality({x}) = 1
    BY FS_Singleton
  <2>4. Cardinality({x} \cup {y}) = 2
    BY <2>2, <2>3, FS_AddElement
  <2>5. Cardinality({x} \cup {y}) <= Cardinality(texts) /\ Cardinality(texts) \in Nat
    BY <2>1, <2>2, FS_Subset, FS_CardinalityType
  <2> QED BY <2>4, <2>5 DEF Differ
<1>3. a \in 0..1 /\ b \in 0..1
  OBVIOUS
<1> HIDE DEF a, b
<1> QED BY <1>1, <1>2, <1>3

LEMMA GatherProcess ==
  ASSUME GatherInv, Compare \/ Interrupt \/ Start
  PROVE  GatherInv'
<1>1. TypeOK /\ Len(selected) \in Nat
  BY DEF GatherInv, TypeOK
<1>2. ASSUME Compare PROVE GatherInv'
  <2>1. /\ pc = "compare" /\ selected' = selected
        /\ index \in DOMAIN selected /\ index \in Nat /\ index + 1 \in Nat \ {0}
        /\ index + 1 <= Len(selected) + 1
        /\ issues_found <= 2 * (index - 1) /\ issues_found \in Nat
    BY <1>1, <1>2 DEF GatherInv, LoopInv, Running, Compare, TypeOK
  <2>2. Begin(index + 1)
    BY <1>2 DEF Compare
  <2>3. /\ pc' \in {"done", "compare", "setup"} /\ ended' \in {"done", "no"}
        /\ pc' = "done" \/ index + 1 \in DOMAIN selected
        /\ index' = index + 1 /\ fs' = 1 /\ step' = 1
        /\ pc' = "setup" => 1 \in Systems
        /\ pc' = "compare" => NSystems = 0
    BY <1>1, <2>1, <2>2, BeginsWithin DEF TypeOK
  <2>4. issues_found' \in Nat /\ issues_found' <= 2 * ((index + 1) - 1)
    BY <1>2, <2>1, CompareCounts
  <2>5. issues_found' \in 0..(2 * Len(selected))
    BY <1>1, <2>1, <2>4
  <2>6. LoopInv'
    BY <2>1, <2>3, <2>4 DEF LoopInv, Running
  <2>7. RaisingInv'
    BY <1>2, <2>1 DEF GatherInv, RaisingInv, Compare
  <2>8. WholeSoFar'
    <3>1. \A f \in Systems : f # 0 /\ ~(f < 1)
      BY SystemsAssumption DEF Systems
    <3>2. NSystems = 0 => Systems = {}
      BY DEF Systems
    <3> QED BY <2>3, <3>1, <3>2 DEF WholeSoFar, HasRun
  <2>9. TypeOK'
    <3>1. HostTyped /\ LoopTyped /\ CountTyped
      BY <1>1, TypeParts
    <3>2. HostTyped' /\ CountTyped'
      BY <1>2, <3>1 DEF HostTyped, CountTyped, Compare, hostVars
    <3>3. raising' = raising /\ 1 \in 1..4
      BY <1>2 DEF Compare
    <3>4. LoopTyped'
      BY <2>1, <2>3, <3>1, <3>3 DEF LoopTyped
    <3>5. /\ outputs' = [f \in Systems |-> 0]
          /\ traces' = [f \in Systems |-> NoTrace] /\ ran' = [f \in Systems |-> NoTrace]
      BY <1>2 DEF Compare
    <3>6. ResultTyped'
      BY <2>1, <2>5, <3>5 DEF ResultTyped
    <3> QED BY <3>2, <3>4, <3>6, TypeParts
  <2> QED BY <2>6, <2>7, <2>8, <2>9 DEF GatherInv
<1>3. ASSUME Interrupt PROVE GatherInv'
  <2>1. /\ pc' = "failed" /\ ended' = "interrupt"
        /\ UNCHANGED <<hostVars, resultVars, step, raising, selected, index, fs, workspace, starts>>
    BY <1>3 DEF Interrupt, Fail
  <2>2. faults' \in 0..MaxFaults
    <3>1. faults < MaxFaults /\ faults' = faults + 1
      BY <1>3 DEF Interrupt, Fault
    <3> QED BY <1>1, <3>1, BoundsAssumption DEF TypeOK
  <2>3. WholeSoFar'
    BY <2>1, GatheredStays DEF HasRun, resultVars
  <2>4. TypeOK' /\ LoopInv' /\ RaisingInv'
    BY <1>1, <2>1, <2>2 DEF TypeOK, LoopInv, RaisingInv, Running, hostVars, resultVars
  <2> QED BY <2>3, <2>4 DEF GatherInv
<1>4. ASSUME Start PROVE GatherInv'
  <2>1. selected' = selected /\ Begin(1) /\ 1 <= Len(selected) + 1 /\ 1 \in Nat \ {0}
    BY <1>1, <1>4 DEF Start
  <2>2. /\ pc' \in {"done", "compare", "setup"} /\ ended' \in {"done", "no"}
        /\ pc' = "done" \/ 1 \in DOMAIN selected
        /\ index' = 1 /\ fs' = 1 /\ step' = 1
        /\ pc' = "setup" => 1 \in Systems
        /\ pc' = "compare" => NSystems = 0
    BY <1>1, <2>1, BeginsWithin DEF TypeOK
  <2>3. starts' \in 0..MaxStarts
    BY <1>1, <1>4, BoundsAssumption DEF Start, TypeOK
  <2>4. LoopInv' /\ RaisingInv'
    BY <1>4, <2>1, <2>2 DEF LoopInv, RaisingInv, Running, Start
  <2>5. WholeSoFar'
    <3>1. \A f \in Systems : f # 0 /\ ~(f < 1)
      BY SystemsAssumption DEF Systems
    <3>2. NSystems = 0 => Systems = {}
      BY DEF Systems
    <3> QED BY <2>2, <3>1, <3>2 DEF WholeSoFar, HasRun
  <2>6. TypeOK'
    <3>1. HostTyped /\ LoopTyped /\ CountTyped
      BY <1>1, TypeParts
    <3>2. HostTyped' /\ CountTyped'
      BY <1>4, <2>3, <3>1 DEF HostTyped, CountTyped, Start, hostVars
    <3>3. raising' = FALSE /\ 1 \in 1..4
      BY <1>4 DEF Start
    <3>4. LoopTyped'
      BY <2>1, <2>2, <3>1, <3>3 DEF LoopTyped
    <3>5. /\ outputs' = [f \in Systems |-> 0] /\ issues_found' = 0
          /\ traces' = [f \in Systems |-> NoTrace] /\ ran' = [f \in Systems |-> NoTrace]
      BY <1>4 DEF Start
    <3>6. ResultTyped'
      BY <1>1, <2>1, <3>5 DEF ResultTyped
    <3> QED BY <3>2, <3>4, <3>6, TypeParts
  <2> QED BY <2>4, <2>5, <2>6 DEF GatherInv
<1> QED BY <1>2, <1>3, <1>4

LEMMA NextGather == GatherInv /\ [Next]_vars => GatherInv'
<1> SUFFICES ASSUME GatherInv, [Next]_vars PROVE GatherInv'
  OBVIOUS
<1>1. CASE Mkdir \/ Modprobe \/ Mkfs \/ MkfsRefused \/ Mount \/ SetupFails
  BY <1>1, GatherSetup
<1>2. CASE RunCompletes \/ RunCrashes \/ TraceUnread \/ RunRaises
  BY <1>2, GatherRun
<1>3. CASE Umount \/ Rmmod \/ Rm \/ TeardownFails
  BY <1>3, GatherTeardown
<1>4. CASE Compare \/ Interrupt \/ Start
  BY <1>4, GatherProcess
<1>5. CASE UNCHANGED vars
  BY <1>5 DEF vars, hostVars, resultVars, GatherInv, TypeOK, LoopInv, RaisingInv, WholeSoFar,
              HasRun, Whole, Running
<1> QED BY <1>1, <1>2, <1>3, <1>4, <1>5 DEF Next, Progress

\* The state of the runner has its types, the indices of its loops are in range
\* and a test case costs two issues at most (run.py:42-69, 162-199).
THEOREM RunnerIsTyped == Spec => []TypeOK
<1>1. GatherInv => TypeOK
  BY DEF GatherInv
<1> QED BY InitGather, NextGather, <1>1, PTL DEF Spec

\* compare_and_clear gets an output of every system, and of each executor that
\* dumped its trace that very trace or none (run.py:184-195).
THEOREM ComparisonsAreWhole == Spec => []WholeTestCompared
<1>1. GatherInv => WholeTestCompared
  BY DEF GatherInv, WholeSoFar, WholeTestCompared, HasRun, Whole
<1> QED BY InitGather, NextGather, <1>1, PTL DEF Spec

\* A step that leaves the comparison without failing is compare_and_clear, and it
\* counts an issue when two traces differ.
LEMMA DifferenceCounts ==
  ASSUME GatherInv, [Next]_vars
  PROVE  [pc = "compare" /\ pc' # "failed"
            /\ (\E f, g \in Systems : /\ NoTrace \notin {traces[f], ran[f], traces[g], ran[g]}
                                      /\ ran[f].text # ran[g].text)
          => issues_found' > issues_found]_vars
<1> SUFFICES ASSUME Next, pc = "compare", pc' # "failed",
                    NEW f \in Systems, NEW g \in Systems,
                    NoTrace \notin {traces[f], ran[f], traces[g], ran[g]},
                    ran[f].text # ran[g].text
             PROVE  issues_found' > issues_found
  OBVIOUS
<1>1. Compare
  BY DEF Next, Progress, Running, Mkdir, Modprobe, Mkfs, MkfsRefused, Mount, SetupFails,
         RunCompletes, RunCrashes, TraceUnread, RunRaises, Umount, Rmmod, Rm, TeardownFails,
         Interrupt, Fail, Start, InSetup, InTeardown
<1>2. traces[f] = ran[f] /\ traces[g] = ran[g]
  BY DEF GatherInv, WholeSoFar, HasRun, Whole
<1>3. traces[f].text # traces[g].text
  BY <1>2
<1>4. issues_found \in Nat
  <2>1. selected \in Seq(TestCase) /\ issues_found \in 0..(2 * Len(selected))
    BY DEF GatherInv, TypeOK
  <2> QED BY <2>1
<1> QED BY <1>1, <1>3, <1>4, CompareCounts

\* No difference between two traces that were dumped and read goes uncounted
\* (run.py:42-69).
THEOREM DifferencesAreCounted == Spec => DifferencesCounted
BY InitGather, NextGather, DifferenceCounts, PTL DEF Spec, DifferencesCounted


-----------------------------------------------------------------------------
(***************************************************************************)
(* The inductive invariant of the drivers                                  *)
(***************************************************************************)
\* Where the counters stand at each place
CountersInv ==
  /\ at_ \in {"disk", "cases", "run", "wait"} => cnt_ < NrPackage
  /\ at_ \in {"run", "wait"} => file_id_ > 1
  /\ worker_ # "none" => at_ = "wait"
  /\ at_ \notin {"build", "add", "exit", "ended"} => built_ = {}
  /\ at_ \in {"build", "add"} => program_.name = "GenSeq" /\ ~program_.qemu

\* build_testcases goes back to py-code only when all is built.
BuildInv ==
  /\ at_ \in {"build", "add"} => saved_ = 1..NrCase
  /\ at_ = "build" => cwd_ = "package"
  /\ at_ = "add" /\ cwd_ = "py-code" => built_ = saved_ /\ ~sources_
  /\ runner_ => at_ \in {"exit", "ended"} /\ saved_ = 1..NrCase /\ built_ = saved_ /\ ~sources_

\* Cases are started one by one, each once, ...
PastInv ==
  /\ \A c \in cases_ : c.pkg < cnt_ \/ (c.pkg = cnt_ /\ c.no < file_id_)
  /\ at_ = "packages" => \A c \in cases_ : c.pkg < cnt_
  /\ at_ \in {"start", "booting", "init", "unbooted"} => cases_ = {}
  /\ at_ = "run" \/ worker_ = "starting" => \A c \in cases_ : <<c.pkg, c.no>> # Current
  /\ \A c, d \in cases_ : c.pkg = d.pkg /\ c.no = d.no => c = d

\* ... and one that was started at once is watched until it is due.
WatchInv ==
  \A c \in cases_ :
    \/ at_ = "wait" /\ c \in Watched /\ clock_ < Timeout
    \/ c.start > 0
    \/ interrupt_ # "none"

\* QEMU has a worker that waits for it, but for an interrupt where it is not stopped.
MachineInv ==
  /\ vm_ => program_.qemu
  /\ at_ = "stop" => interrupt_ # "none"
  /\ at_ = "ended" => ~qemu_thread_
  /\ at_ = "start" => ~vm_
  /\ vm_ => qemu_thread_ \/ at_ = "stop" \/ interrupt_ \in {"booting", "init", "unbooted", "exit"}

DriverInv == DriverTypeOK /\ CountersInv /\ BuildInv /\ PastInv /\ WatchInv /\ MachineInv

LEMMA InitInv == DriverInit => DriverInv
  <1> SUFFICES ASSUME DriverInit PROVE DriverInv
    OBVIOUS
  <1> USE DEF DriverInit
  <1>1. at_ \in {"start", "packages"}
    OBVIOUS
  <1>2. DriverTypeOK
    <2>1. saved_ = 1..(file_id_ - 1)
      OBVIOUS
    <2>2. vm_ \in BOOLEAN /\ qemu_thread_ \in BOOLEAN
      OBVIOUS
    <2>3. kills_ \subseteq (0..(NrPackage - 1)) \X (1..NrCase)
      OBVIOUS
    <2>4. cases_ \subseteq Case /\ removed_ \subseteq 0..(NrPackage - 1)
      OBVIOUS
    <2>5. program_ \in Started /\ at_ \in Places /\ interrupt_ \in Places \cup {"none"}
      BY <1>1 DEF Places
    <2>6. built_ \subseteq saved_ /\ sources_ \in BOOLEAN /\ runner_ \in BOOLEAN
      OBVIOUS
    <2>7. cnt_ \in 0..NrPackage /\ file_id_ \in 1..(NrCase + 1) /\ clock_ \in 0..Timeout
      BY NumbersAssumption
    <2> QED
      BY <2>1, <2>2, <2>3, <2>4, <2>5, <2>6, <2>7 DEF DriverTypeOK
  <1>3. CountersInv /\ BuildInv
    BY <1>1 DEF CountersInv, BuildInv
  <1>4. PastInv /\ WatchInv /\ MachineInv
    BY DEF PastInv, WatchInv, MachineInv
  <1> QED
    BY <1>2, <1>3, <1>4 DEF DriverInv

\* Every step keeps the types.
LEMMA NextTypeOK == DriverInv /\ [DriverNext]_driverVars => DriverTypeOK' /\ CountersInv'
  <1> SUFFICES ASSUME DriverInv, [DriverNext]_driverVars PROVE DriverTypeOK' /\ CountersInv'
    OBVIOUS
  <1> USE NumbersAssumption DEF DriverInv, DriverTypeOK, CountersInv, Goto, package, testing,
                                machine, Started, Places, Current
  <1>1. CASE NewPackage BY <1>1 DEF NewPackage
  <1>2. CASE GenerateCase BY <1>2 DEF GenerateCase
  <1>3. CASE GeneratorFails BY <1>3 DEF GeneratorFails
  <1>4. CASE PackageDone BY <1>4 DEF PackageDone
  <1>5. CASE AllDone BY <1>5 DEF AllDone
  <1>6. CASE CopySources BY <1>6 DEF CopySources
  <1>7. ASSUME NEW no \in saved_, BuildCase(no) PROVE DriverTypeOK' /\ CountersInv'
    BY <1>7 DEF BuildCase, Unbuilt
  <1>8. CASE BuildError BY <1>8 DEF BuildError
  <1>9. CASE BuildDone BY <1>9 DEF BuildDone
  <1>10. CASE AddRunner BY <1>10 DEF AddRunner
  <1>11. CASE StartWorker BY <1>11 DEF StartWorker
  <1>12. CASE WorkerSpawns BY <1>12 DEF WorkerSpawns, Case
  <1>13. ASSUME NEW c \in cases_, CaseEnds(c) PROVE DriverTypeOK' /\ CountersInv'
    BY <1>13 DEF CaseEnds
  <1>14. CASE Tick BY <1>14 DEF Tick
  <1>15. CASE Wake BY <1>15 DEF Wake
  <1>16. ASSUME NEW k \in kills_, KillEnds(k) PROVE DriverTypeOK' /\ CountersInv'
    BY <1>16 DEF KillEnds
  <1>17. CASE Boot
    <2>1. vm_' \in BOOLEAN /\ qemu_thread_' \in BOOLEAN
      BY <1>17, Zenon DEF Boot, StartQemu, SeesLogin, SeesNoLogin, NoLog
    <2> QED
      BY <1>17, <2>1 DEF Boot, StartQemu, SeesLogin, SeesNoLogin, NoLog
  <1>18. CASE Ctrl
    <2>1. vm_' \in BOOLEAN /\ qemu_thread_' \in BOOLEAN
      BY <1>18, Zenon DEF Ctrl, MakeDisk, DiskRaises, QemuReady, QemuGivenUp, StopQemu
    <2>2. CASE MakeDisk BY <2>1, <2>2 DEF MakeDisk
    <2>3. CASE DiskRaises BY <2>1, <2>3 DEF DiskRaises
    <2>4. CASE QemuReady BY <2>1, <2>4 DEF QemuReady
    <2>5. CASE QemuGivenUp BY <2>1, <2>5 DEF QemuGivenUp
    <2>6. CASE StopQemu BY <2>1, <2>6 DEF StopQemu
    <2> QED
      BY <1>18, <2>2, <2>3, <2>4, <2>5, <2>6 DEF Ctrl
  <1>19. CASE Exit BY <1>19 DEF Exit
  <1>20. CASE VmEnds
    <2>1. vm_' \in BOOLEAN /\ qemu_thread_' \in BOOLEAN
      BY <1>20, Zenon DEF VmEnds
    <2> QED
      BY <1>20, <2>1 DEF VmEnds
  <1>21. CASE DriverInterrupt BY <1>21 DEF DriverInterrupt, InMain
  <1>22. CASE UNCHANGED driverVars BY <1>22 DEF driverVars
  <1> QED
    BY <1>1, <1>2, <1>3, <1>4, <1>5, <1>6, <1>7, <1>8, <1>9, <1>10, <1>11, <1>12, <1>13,
       <1>14, <1>15, <1>16, <1>17, <1>18, <1>19, <1>20, <1>21, <1>22
       DEF DriverNext, Main, Build, Test, WorkerKills, Watched
\* Nothing but a build of every case lets run.py in.
LEMMA NextBuildInv == DriverInv /\ [DriverNext]_driverVars => BuildInv'
  <1> SUFFICES ASSUME DriverInv, [DriverNext]_driverVars PROVE BuildInv'
    OBVIOUS
  <1> USE NumbersAssumption DEF DriverInv, DriverTypeOK, CountersInv, Goto, package, testing, machine, BuildInv
  <1>1. CASE NewPackage BY <1>1 DEF NewPackage
  <1>2. CASE GenerateCase BY <1>2 DEF GenerateCase
  <1>3. CASE GeneratorFails BY <1>3 DEF GeneratorFails
  <1>4. CASE PackageDone BY <1>4 DEF PackageDone
  <1>5. CASE AllDone BY <1>5 DEF AllDone
  <1>6. CASE CopySources BY <1>6 DEF CopySources
  <1>7. ASSUME NEW no \in saved_, BuildCase(no) PROVE BuildInv'
    BY <1>7 DEF BuildCase, Unbuilt
  <1>8. CASE BuildError BY <1>8 DEF BuildError
  <1>9. CASE BuildDone
    <2>1. built_ = saved_
      BY <1>9 DEF BuildDone, Unbuilt
    <2> QED
      BY <1>9, <2>1 DEF BuildDone
  <1>10. CASE AddRunner BY <1>10 DEF AddRunner
  <1>11. CASE StartWorker BY <1>11 DEF StartWorker
  <1>12. CASE WorkerSpawns BY <1>12 DEF WorkerSpawns
  <1>13. ASSUME NEW c \in cases_, CaseEnds(c) PROVE BuildInv'
    BY <1>13 DEF CaseEnds
  <1>14. CASE Tick BY <1>14 DEF Tick
  <1>15. CASE Wake BY <1>15 DEF Wake
  <1>16. ASSUME NEW k \in kills_, KillEnds(k) PROVE BuildInv'
    BY <1>16 DEF KillEnds
  <1>17. CASE Boot BY <1>17 DEF Boot, StartQemu, SeesLogin, SeesNoLogin, NoLog
  <1>18. CASE Ctrl
    BY <1>18 DEF Ctrl, MakeDisk, DiskRaises, QemuReady, QemuGivenUp, StopQemu
  <1>19. CASE Exit BY <1>19 DEF Exit
  <1>20. CASE VmEnds BY <1>20 DEF VmEnds
  <1>21. CASE DriverInterrupt BY <1>21 DEF DriverInterrupt, InMain
  <1>22. CASE UNCHANGED driverVars BY <1>22 DEF driverVars
  <1> QED
    BY <1>1, <1>2, <1>3, <1>4, <1>5, <1>6, <1>7, <1>8, <1>9, <1>10, <1>11, <1>12, <1>13,
       <1>14, <1>15, <1>16, <1>17, <1>18, <1>19, <1>20, <1>21, <1>22
       DEF DriverNext, Main, Build, Test, WorkerKills, Watched

\* A case is started once, and not before its turn.
LEMMA NextPastInv == DriverInv /\ [DriverNext]_driverVars => PastInv'
  <1> SUFFICES ASSUME DriverInv, [DriverNext]_driverVars PROVE PastInv'
    OBVIOUS
  <1> USE NumbersAssumption DEF DriverInv, DriverTypeOK, CountersInv, Goto, package, testing, machine, PastInv, Current, Case
  <1>1. CASE NewPackage
    <2>1. /\ at_ = "packages" /\ at_' \in {"disk", "cases"} /\ cnt_' = cnt_ /\ cases_' = cases_
          /\ worker_' = worker_ /\ worker_ = "none" /\ file_id_' = 1
      BY <1>1 DEF NewPackage
    <2>2. \A c \in cases_ : c.pkg < cnt_
      BY <2>1
    <2>3. \A c, d \in cases_ : c.pkg = d.pkg /\ c.no = d.no => c = d
      OBVIOUS
    <2> HIDE DEF DriverInv, DriverTypeOK, CountersInv, Current, Case
    <2> QED
      BY <2>1, <2>2, <2>3
  <1>2. CASE GenerateCase BY <1>2 DEF GenerateCase
  <1>3. CASE GeneratorFails BY <1>3 DEF GeneratorFails
  <1>4. CASE PackageDone BY <1>4 DEF PackageDone
  <1>5. CASE AllDone BY <1>5 DEF AllDone
  <1>6. CASE CopySources BY <1>6 DEF CopySources
  <1>7. ASSUME NEW no \in saved_, BuildCase(no) PROVE PastInv'
    BY <1>7 DEF BuildCase, Unbuilt
  <1>8. CASE BuildError BY <1>8 DEF BuildError
  <1>9. CASE BuildDone BY <1>9 DEF BuildDone
  <1>10. CASE AddRunner BY <1>10 DEF AddRunner
  <1>11. CASE StartWorker BY <1>11 DEF StartWorker
  <1>12. CASE WorkerSpawns BY <1>12 DEF WorkerSpawns
  <1>13. ASSUME NEW c \in cases_, CaseEnds(c) PROVE PastInv'
    BY <1>13 DEF CaseEnds
  <1>14. CASE Tick BY <1>14 DEF Tick
  <1>15. CASE Wake BY <1>15 DEF Wake
  <1>16. ASSUME NEW k \in kills_, KillEnds(k) PROVE PastInv'
    BY <1>16 DEF KillEnds
  <1>17. CASE Boot BY <1>17 DEF Boot, StartQemu, SeesLogin, SeesNoLogin, NoLog
  <1>18. CASE Ctrl
    BY <1>18 DEF Ctrl, MakeDisk, DiskRaises, QemuReady, QemuGivenUp, StopQemu
  <1>19. CASE Exit BY <1>19 DEF Exit
  <1>20. CASE VmEnds BY <1>20 DEF VmEnds
  <1>21. CASE DriverInterrupt BY <1>21 DEF DriverInterrupt, InMain
  <1>22. CASE UNCHANGED driverVars BY <1>22 DEF driverVars
  <1> QED
    BY <1>1, <1>2, <1>3, <1>4, <1>5, <1>6, <1>7, <1>8, <1>9, <1>10, <1>11, <1>12, <1>13,
       <1>14, <1>15, <1>16, <1>17, <1>18, <1>19, <1>20, <1>21, <1>22
       DEF DriverNext, Main, Build, Test, WorkerKills, Watched

\* The worker of a case that was started at once does not outlast the wait.
LEMMA NextWatchInv == DriverInv /\ [DriverNext]_driverVars => WatchInv'
  <1> SUFFICES ASSUME DriverInv, [DriverNext]_driverVars PROVE WatchInv'
    OBVIOUS
  <1> USE NumbersAssumption DEF DriverInv, DriverTypeOK, CountersInv, Goto, package, testing, machine, PastInv, WatchInv, Current, Case, Watched, Due
  <1>1. CASE NewPackage BY <1>1 DEF NewPackage
  <1>2. CASE GenerateCase BY <1>2 DEF GenerateCase
  <1>3. CASE GeneratorFails BY <1>3 DEF GeneratorFails
  <1>4. CASE PackageDone BY <1>4 DEF PackageDone
  <1>5. CASE AllDone BY <1>5 DEF AllDone
  <1>6. CASE CopySources BY <1>6 DEF CopySources
  <1>7. ASSUME NEW no \in saved_, BuildCase(no) PROVE WatchInv'
    BY <1>7 DEF BuildCase, Unbuilt
  <1>8. CASE BuildError BY <1>8 DEF BuildError
  <1>9. CASE BuildDone BY <1>9 DEF BuildDone
  <1>10. CASE AddRunner BY <1>10 DEF AddRunner
  <1>11. CASE StartWorker BY <1>11 DEF StartWorker
  <1>12. CASE WorkerSpawns BY <1>12 DEF WorkerSpawns
  <1>13. ASSUME NEW c \in cases_, CaseEnds(c) PROVE WatchInv'
    BY <1>13 DEF CaseEnds
  <1>14. CASE Tick BY <1>14 DEF Tick
  <1>15. CASE Wake BY <1>15 DEF Wake
  <1>16. ASSUME NEW k \in kills_, KillEnds(k) PROVE WatchInv'
    BY <1>16 DEF KillEnds
  <1>17. CASE Boot BY <1>17 DEF Boot, StartQemu, SeesLogin, SeesNoLogin, NoLog
  <1>18. CASE Ctrl
    BY <1>18 DEF Ctrl, MakeDisk, DiskRaises, QemuReady, QemuGivenUp, StopQemu
  <1>19. CASE Exit BY <1>19 DEF Exit
  <1>20. CASE VmEnds BY <1>20 DEF VmEnds
  <1>21. CASE DriverInterrupt BY <1>21 DEF DriverInterrupt, InMain
  <1>22. CASE UNCHANGED driverVars BY <1>22 DEF driverVars
  <1> QED
    BY <1>1, <1>2, <1>3, <1>4, <1>5, <1>6, <1>7, <1>8, <1>9, <1>10, <1>11, <1>12, <1>13,
       <1>14, <1>15, <1>16, <1>17, <1>18, <1>19, <1>20, <1>21, <1>22
       DEF DriverNext, Main, Build, Test, WorkerKills, Watched

\* QEMU and the worker that waits for it end together, but for an interrupt.
LEMMA NextMachineInv == DriverInv /\ [DriverNext]_driverVars => MachineInv'
  <1> SUFFICES ASSUME DriverInv, [DriverNext]_driverVars PROVE MachineInv'
    OBVIOUS
  <1> USE NumbersAssumption DEF DriverInv, DriverTypeOK, CountersInv, Goto, package, testing, machine, MachineInv
  <1>1. CASE NewPackage BY <1>1 DEF NewPackage
  <1>2. CASE GenerateCase BY <1>2 DEF GenerateCase
  <1>3. CASE GeneratorFails BY <1>3 DEF GeneratorFails
  <1>4. CASE PackageDone BY <1>4 DEF PackageDone
  <1>5. CASE AllDone BY <1>5 DEF AllDone
  <1>6. CASE CopySources BY <1>6 DEF CopySources
  <1>7. ASSUME NEW no \in saved_, BuildCase(no) PROVE MachineInv'
    BY <1>7 DEF BuildCase, Unbuilt
  <1>8. CASE BuildError BY <1>8 DEF BuildError
  <1>9. CASE BuildDone BY <1>9 DEF BuildDone
  <1>10. CASE AddRunner BY <1>10 DEF AddRunner
  <1>11. CASE StartWorker BY <1>11 DEF StartWorker
  <1>12. CASE WorkerSpawns BY <1>12 DEF WorkerSpawns
  <1>13. ASSUME NEW c \in cases_, CaseEnds(c) PROVE MachineInv'
    BY <1>13 DEF CaseEnds
  <1>14. CASE Tick BY <1>14 DEF Tick
  <1>15. CASE Wake BY <1>15 DEF Wake
  <1>16. ASSUME NEW k \in kills_, KillEnds(k) PROVE MachineInv'
    BY <1>16 DEF KillEnds
  <1>17. CASE Boot BY <1>17 DEF Boot, StartQemu, SeesLogin, SeesNoLogin, NoLog
  <1>18. CASE Ctrl
    BY <1>18 DEF Ctrl, MakeDisk, DiskRaises, QemuReady, QemuGivenUp, StopQemu
  <1>19. CASE Exit BY <1>19 DEF Exit, Joined
  <1>20. CASE VmEnds BY <1>20 DEF VmEnds
  <1>21. CASE DriverInterrupt
    <2>1. /\ vm_' => vm_
          /\ interrupt_' = at_ /\ interrupt_ = "none" /\ program_' = program_
      <3>1. vm_' \in {vm_, FALSE}
        BY <1>21, Zenon DEF DriverInterrupt
      <3>2. vm_' => vm_
        BY <3>1
      <3> QED
        BY <1>21, <3>2 DEF DriverInterrupt
    <2>2. (at_ # "start" /\ at_ # "stop" /\ at_ # "ended") \/ ~vm_'
      BY <1>21, <2>1 DEF DriverInterrupt
    <2>3. ASSUME vm_' PROVE at_ \notin {"build", "add"} /\ program_.qemu
      BY <2>1, <2>3
    <2>4. vm_' => at_' = "stop" \/ at_ \in {"booting", "init", "unbooted", "exit"}
      BY <1>21, <2>1, <2>2, <2>3 DEF DriverInterrupt, InMain, Places
    <2>5. at_' # "start" /\ ~qemu_thread_'
      BY <1>21 DEF DriverInterrupt
    <2> QED
      BY <2>1, <2>3, <2>4, <2>5 DEF Places
  <1>22. CASE UNCHANGED driverVars BY <1>22 DEF driverVars
  <1> QED
    BY <1>1, <1>2, <1>3, <1>4, <1>5, <1>6, <1>7, <1>8, <1>9, <1>10, <1>11, <1>12, <1>13,
       <1>14, <1>15, <1>16, <1>17, <1>18, <1>19, <1>20, <1>21, <1>22
       DEF DriverNext, Main, Build, Test, WorkerKills, Watched

(***************************************************************************)
(* Theorems                                                                *)
(***************************************************************************)
LEMMA AlwaysInv == DriverSpec => []DriverInv
  <1>1. DriverInv /\ [DriverNext]_driverVars => DriverInv'
    BY NextTypeOK, NextBuildInv, NextPastInv, NextWatchInv, NextMachineInv DEF DriverInv
  <1> QED
    BY InitInv, <1>1, PTL DEF DriverSpec

\* The variables of the drivers have their types (food.py, GenSeq.py, M4.py).
THEOREM DriverTypeCorrect == DriverSpec => []DriverTypeOK
  <1>1. DriverInv => DriverTypeOK
    BY DEF DriverInv
  <1> QED
    BY AlwaysInv, <1>1, PTL

\* Whatever number of seconds a case is given: no case that was started at once is
\* alive when the next one is (process_exec of M4.py).
THEOREM OneCase == DriverSpec => []OneCaseAtATime
  <1>1. DriverInv => OneCaseAtATime
    BY DEF DriverInv, WatchInv, OneCaseAtATime, Watched
  <1> QED
    BY AlwaysInv, <1>1, PTL

\* For packages of any size, run.py is only ever added to a package that is built
\* (build_testcases and add_runner of GenSeq.py).
THEOREM RunnerAfterBuild == DriverSpec => []RunnerOnlyWhenBuilt
  <1>1. DriverInv => RunnerOnlyWhenBuilt
    BY DEF DriverInv, BuildInv, RunnerOnlyWhenBuilt
  <1> QED
    BY AlwaysInv, <1>1, PTL

\* QEMU is left running only by an interrupt before or after main() (food.py).
THEOREM QemuIsStopped == DriverSpec => []QemuStopped
  <1>1. DriverInv => QemuStopped
    BY DEF DriverInv, MachineInv, QemuStopped
  <1> QED
    BY AlwaysInv, <1>1, PTL
=============================================================================
