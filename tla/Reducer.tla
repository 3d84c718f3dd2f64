------------------------------ MODULE Reducer -------------------------------
(***************************************************************************)
(* py-code/reducer.py: a test case that makes a kernel fail is made        *)
(* shorter, first by cutting its end off (binary_reduce), then by taking   *)
(* its commands out one by one, each with the commands that depend on it   *)
(* (single_reduce, with filter_out of module Sequence).  Every candidate   *)
(* is saved over bingo.c and run in a fresh QEMU, whose log tells whether  *)
(* the bug showed.                                                         *)
(*                                                                         *)
(* The bug is a sequence of commands: a test case has it when these occur  *)
(* in it in this order.  A run may miss it (QEMU does not start, or the    *)
(* log is read too early), but never shows what is not there.              *)
(***************************************************************************)
EXTENDS Commands

VARIABLES
  bingo_c,    \* the commands in the file case_dir/bingo.c
  space,      \* what they leave, while the file is still being made
  bug,        \* commands that make the bug show
  pc,         \* "push", "binary", "prefix", "single", "done"
  left, right,
  idx,
  test_case_, \* the commands of self.test_case_
  missed      \* history: some run did not show the bug of its test case

vars == <<bingo_c, space, bug, pc, left, right, idx, test_case_, missed>>

(***************************************************************************)
(* The case to reduce                                                      *)
(***************************************************************************)
Push ==
  /\ pc = "push" /\ Len(bingo_c) < MaxLen
  /\ \E c \in Pushes(space) :
       /\ bingo_c' = Append(bingo_c, c)
       /\ space' = Pushed(space, c)
  /\ UNCHANGED <<bug, pc, left, right, idx, test_case_, missed>>

\* The commands at the positions in S, for at most two positions.
Bugs(cmds) ==
  {Kept(cmds, S) : S \in {T \in SUBSET (1..Len(cmds)) : Cardinality(T) <= 2}}

\* The commands of b occur in cmds, with others before, after and in between.
Occurs(b, cmds) ==
  LET seen(n, c) == IF n < Len(b) /\ c = b[n + 1] THEN n + 1 ELSE n
  IN  FoldLeft(seen, 0, cmds) = Len(b)

Manifests(cmds) == Occurs(bug, cmds)

\* Reducer(case_dir), for a case that has the bug, and the start of binary_reduce
FromFile ==
  /\ pc = "push"
  /\ bug' \in Bugs(bingo_c) /\ Occurs(bug', bingo_c)
  /\ test_case_' = bingo_c
  /\ left' = 0 /\ right' = Len(bingo_c) - 1
  /\ pc' = "binary"
  /\ UNCHANGED <<bingo_c, space, idx, missed>>

(***************************************************************************)
(* One candidate: save it, start QEMU, run the trigger, read the log       *)
(***************************************************************************)
Try(cmds, shows) ==
  /\ bingo_c' = cmds
  /\ shows => Manifests(cmds)
  /\ missed' = (missed \/ (Manifests(cmds) /\ ~shows))

(***************************************************************************)
(* binary_reduce                                                           *)
(***************************************************************************)
Mid == left + (right - left) \div 2

\* Mutant: the wrong end moves
HalveWrongEnd(shows) ==
  IF shows THEN left' = Mid /\ right' = right
           ELSE left' = left /\ right' = Mid

\* The ends of the interval after the first mid - 1 commands have been tried
Halve(shows) ==
  IF shows THEN left' = left /\ right' = Mid
           ELSE left' = Mid /\ right' = right

BinaryStep ==
  /\ pc = "binary" /\ left + 3 < right
  /\ \E candidate \in {Truncate(test_case_, Mid - 1)}, shows \in BOOLEAN :
       Try(candidate, shows) /\ Halve(shows)
  /\ UNCHANGED <<space, bug, pc, idx, test_case_>>

\* The prefix is saved, and self.test_case_ left as it was.
BinaryEnd ==
  /\ pc = "binary" /\ left + 3 >= right
  /\ bingo_c' = Truncate(test_case_, right)
  /\ pc' = "prefix"
  /\ UNCHANGED <<space, bug, left, right, idx, test_case_, missed>>

(***************************************************************************)
(* single_reduce                                                           *)
(***************************************************************************)
SingleStart ==
  /\ pc = "prefix"
  /\ idx' = 0
  /\ pc' = "single"
  /\ UNCHANGED <<bingo_c, space, bug, left, right, test_case_, missed>>

\* Mutant: idx moves on after a success, too
AdvanceAlways(shows, candidate) ==
  /\ test_case_' = IF shows THEN candidate ELSE test_case_
  /\ idx' = idx + 1

\* Mutant: idx never moves
AdvanceNever(shows, candidate) ==
  /\ test_case_' = IF shows THEN candidate ELSE test_case_
  /\ idx' = idx

\* After a success the next command has moved to idx.
Advance(shows, candidate) ==
  IF shows THEN test_case_' = candidate /\ idx' = idx
           ELSE test_case_' = test_case_ /\ idx' = idx + 1

SingleStep ==
  /\ pc = "single" /\ idx < Len(test_case_)
  /\ \E candidate \in {FilteredOut(test_case_, idx + 1)}, shows \in BOOLEAN :
       Try(candidate, shows) /\ Advance(shows, candidate)
  /\ UNCHANGED <<space, bug, pc, left, right>>

\* Mutant: the last candidate stays on disk
NotSaved(kept, candidate) == candidate

\* self.test_case_.save() after the loop
Saved(kept, candidate) == kept

SingleEnd ==
  /\ pc = "single" /\ idx >= Len(test_case_)
  /\ bingo_c' = Saved(test_case_, bingo_c)
  /\ pc' = "done"
  /\ UNCHANGED <<space, bug, left, right, idx, test_case_, missed>>

Init ==
  /\ bingo_c = << >> /\ space = Empty /\ bug = << >>
  /\ pc = "push" /\ left = 0 /\ right = 0 /\ idx = 0
  /\ test_case_ = << >> /\ missed = FALSE

Reduce == BinaryStep \/ BinaryEnd \/ SingleStart \/ SingleStep \/ SingleEnd
Next == Push \/ FromFile \/ Reduce

Spec == Init /\ [][Next]_vars

\* One process that waits for the sleeps and commands it starts.
FairSpec == Spec /\ WF_vars(Reduce)

-----------------------------------------------------------------------------
(***************************************************************************)
(* Properties                                                              *)
(***************************************************************************)
\* What the reducer leaves in bingo.c still has the bug, whatever runs missed it: a
\* candidate that failed is not what is on disk at the end (reducer.py:61-74).
ResultManifests == pc = "done" => Manifests(bingo_c)

\* When no run missed the bug, nothing more can be taken out: one pass is enough,
\* although a command is not tried again after commands behind it have gone
\* (reducer.py:54-73).  True as long as nothing is renamed.
NothingMoreToTakeOut ==
  pc = "done" /\ ~missed =>
    \A i \in 1..Len(bingo_c) : ~Manifests(FilteredOut(bingo_c, i))

\* Every candidate runs: no command in it fails for want of one that was cut off or
\* taken out, so that its result says something about the bug (reducer.py:59, 88).
CandidatesSucceed == AllSucceed(bingo_c)

\* Once some prefix has shown the bug, the prefix saved has it, and it is at most
\* three commands longer than the shortest one that has (reducer.py:76-100).
PrefixIsAlmostShortest ==
  pc = "prefix" =>
    /\ right < Len(test_case_) - 1 => Manifests(bingo_c)
    /\ ~missed => \A n \in 0..(right - 4) : ~Manifests(Truncate(test_case_, n))

\* reducer.py:44-45: binary reduction finds a "prefix of sequence that still manifest
\* the bug".
PrefixManifests == pc = "prefix" /\ ~missed => Manifests(bingo_c)

\* Both passes end: the interval shrinks until its ends are close, and each try either
\* shortens the test case or moves on (reducer.py:54-73, 81-97).
Terminates == (pc = "binary") ~> (pc = "done")
=============================================================================
