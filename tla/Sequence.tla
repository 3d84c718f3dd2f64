------------------------------ MODULE Sequence ------------------------------
(***************************************************************************)
(* How one command is taken out of a sequence: Sequence.filter_out of      *)
(* py-code/Sequence.py.  It follows definitions and uses by name: a path   *)
(* or a descriptor that a removed command defines takes its users with it. *)
(*                                                                         *)
(* A sequence is first pushed together, command by command, as the         *)
(* generator does: each command would succeed after those before it.  Then *)
(* filter_out runs, one step for each test of its inner loop.              *)
(***************************************************************************)
EXTENDS CodeText

VARIABLES
  cmd_list_,  \* the commands
  space,      \* the name space and the descriptors when they have all run
  pc,         \* "push", "get", "scan", "end"
  idx,        \* the command to take out
  flags,      \* which commands stay
  worklist,   \* definitions whose users are still to be removed
  cmd_def,    \* the one whose users are being removed
  at          \* the command the inner loop looks at

vars == <<cmd_list_, space, pc, idx, flags, worklist, cmd_def, at>>

Push ==
  /\ pc = "push" /\ Len(cmd_list_) < MaxLen
  /\ \E c \in Pushes(space) :
       /\ cmd_list_' = Append(cmd_list_, c)
       /\ space' = Pushed(space, c)
  /\ UNCHANGED <<pc, idx, flags, worklist, cmd_def, at>>

(***************************************************************************)
(* filter_out                                                              *)
(***************************************************************************)
\* Mutant: the command itself stays
FilterOutUsers(i) ==
  /\ pc = "push" /\ i \in 1..Len(cmd_list_)
  /\ idx' = i
  /\ flags' = [j \in 1..Len(cmd_list_) |-> TRUE]
  /\ worklist' = <<Def(cmd_list_[i])>>
  /\ pc' = "get"
  /\ UNCHANGED <<cmd_list_, space, cmd_def, at>>

\* flags[idx] = False, and the definition of that command on the worklist
FilterOut(i) ==
  /\ pc = "push" /\ i \in 1..Len(cmd_list_)
  /\ idx' = i
  /\ flags' = [j \in 1..Len(cmd_list_) |-> j # i]
  /\ worklist' = <<Def(cmd_list_[i])>>
  /\ pc' = "get"
  /\ UNCHANGED <<cmd_list_, space, cmd_def, at>>

\* Mutant: the definition stays on the worklist
Peek ==
  /\ pc = "get" /\ worklist # << >>
  /\ cmd_def' = Head(worklist)
  /\ at' = idx
  /\ pc' = "scan"
  /\ UNCHANGED <<cmd_list_, space, idx, flags, worklist>>

\* worklist.get()
Get ==
  /\ pc = "get" /\ worklist # << >>
  /\ cmd_def' = Head(worklist)
  /\ worklist' = Tail(worklist)
  /\ at' = idx
  /\ pc' = "scan"
  /\ UNCHANGED <<cmd_list_, space, idx, flags>>

\* The command that the inner loop looks at goes with the definition it uses.
Depends(j) == flags[j] /\ cmd_def \in Use(cmd_list_[j])

\* Mutant: what a removed command defines is not followed
ScanUsersOnly ==
  /\ pc = "scan" /\ at <= Len(cmd_list_)
  /\ at' = at + 1
  /\ flags' = [flags EXCEPT ![at] = @ /\ ~Depends(at)]
  /\ UNCHANGED <<cmd_list_, space, pc, idx, worklist, cmd_def>>

Scan ==
  /\ pc = "scan" /\ at <= Len(cmd_list_)
  /\ at' = at + 1
  /\ IF Depends(at)
     THEN /\ flags' = [flags EXCEPT ![at] = FALSE]
          /\ worklist' = Append(worklist, Def(cmd_list_[at]))
     ELSE UNCHANGED <<flags, worklist>>
  /\ UNCHANGED <<cmd_list_, space, pc, idx, cmd_def>>

Scanned ==
  /\ pc = "scan" /\ at > Len(cmd_list_)
  /\ pc' = "get"
  /\ UNCHANGED <<cmd_list_, space, idx, flags, worklist, cmd_def, at>>

Return ==
  /\ pc = "get" /\ worklist = << >>
  /\ pc' = "end"
  /\ UNCHANGED <<cmd_list_, space, idx, flags, worklist, cmd_def, at>>

Removed == {j \in DOMAIN flags : ~flags[j]}
new_seq == Kept(cmd_list_, DOMAIN flags \ Removed)

Init ==
  /\ cmd_list_ = << >> /\ space = Empty
  /\ pc = "push" /\ idx = 1
  /\ flags = << >> /\ worklist = << >>
  /\ cmd_def = None /\ at = 1

Next ==
  \/ Push
  \/ \E i \in 1..MaxLen : FilterOut(i)
  \/ Get \/ Scan \/ Scanned \/ Return

Spec == Init /\ [][Next]_vars

\* filter_out is plain code: once called it runs to its end.
FairSpec == Spec /\ WF_vars(Get \/ Scan \/ Scanned \/ Return)

-----------------------------------------------------------------------------
(***************************************************************************)
(* Properties                                                              *)
(***************************************************************************)
\* From the position i on, C holds every user of what a command in C defines.
ClosedFrom(cmds, i, C) ==
  \A r \in C, k \in i..Len(cmds) : Def(cmds[r]) \in Use(cmds[k]) => k \in C

\* The least such set with i in it.
LeastClosed(cmds, i) ==
  {j \in i..Len(cmds) : \A C \in SUBSET (i..Len(cmds)) :
                           i \in C /\ ClosedFrom(cmds, i, C) => j \in C}

\* The loop's variables have the types of Sequence.py; flags and idx are about
\* commands of the list, and what is on the worklist was defined by a removed one.
TypeOK ==
  /\ pc \in {"push", "get", "scan", "end"}
  /\ Len(cmd_list_) <= MaxLen
  /\ AllSucceed(cmd_list_)
  /\ pc # "push" =>
       /\ idx \in 1..Len(cmd_list_)
       /\ DOMAIN flags = 1..Len(cmd_list_)
       /\ \A k \in 1..Len(worklist) : \E r \in Removed : worklist[k] = Def(cmd_list_[r])
       /\ at \in 1..(Len(cmd_list_) + 1)

\* The worklist of filter_out, whatever the order it is worked off in, removes the
\* least set of commands with idx that is closed under uses: none too few, none
\* that no chain of definitions leads to (Sequence.py:46-54).
RemovesTheLeastClosedSet == pc = "end" => Removed = LeastClosed(cmd_list_, idx)

\* What the callers of filter_out see of it, the users taken in rounds, is what the
\* worklist comes to (Sequence.py:37-60, used in reducer.py:58).
CallersSeeTheWorklist == pc = "end" => new_seq = FilteredOut(cmd_list_, idx)

\* A descriptor that the new sequence uses is still opened, and so declared, in it:
\* TestCase declares the descriptors of its open commands only, and a C file that
\* uses another one does not compile (Sequence.py:23-30, TestCase.py:38-48).
DescriptorsStayDeclared == pc = "end" => Compiles(Saved(new_seq))

\* The file that a reduction leaves is the sequence it was saved from when it is
\* reduced again: CodeParser.py takes the arguments as CodeWriter.py puts them, where
\* the constructors of Symlink, Hardlink and Rename want them the other way round.
\* Only a SYNC that expand_param has marked as the last one comes back without its
\* mark (CodeParser.py:97-99), as no FSYNC does.
SavedTextReadsBack ==
  pc = "end" =>
    LET saved == Kept(LastMarked(cmd_list_), DOMAIN flags \ Removed)
        read  == ReadBack(Saved(saved))
    IN  /\ Len(read) = Len(saved)
        /\ \A i \in DOMAIN saved :
             read[i] = IF saved[i].type_ = "SYNC" THEN [type_ |-> "SYNC"] ELSE saved[i]

\* Without renames, what is left is a test case that runs: every command in it
\* succeeds, as it did in the whole sequence (Sequence.py:37-60).
WhatIsLeftSucceeds ==
  pc = "end" /\ (\A j \in 1..Len(cmd_list_) : cmd_list_[j].type_ # "RENAME") =>
    AllSucceed(new_seq)

\* reducer.py:46 says that a pass removes a "syscall and its dependencies": with
\* renames too, nothing that is left would depend on what was removed.
NothingDangles == pc = "end" => AllSucceed(new_seq)

\* filter_out returns: a command is put on the worklist once at most.
FilterOutReturns == (pc = "get") ~> (pc = "end")
=============================================================================
