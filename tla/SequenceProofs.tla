--------------------------- MODULE SequenceProofs ---------------------------
(***************************************************************************)
(* filter_out computes the least set closed under uses, for sequences of   *)
(* any length and any commands: the order of the worklist does not matter. *)
(* What is left compiles, runs when nothing is renamed, and reads back.    *)
(***************************************************************************)
EXTENDS Sequence, CommandsProofs

(***************************************************************************)
(* Commands and the lines they are written as                              *)
(***************************************************************************)
LEMMA MarkedIs ==
  ASSUME NEW c
  PROVE  /\ DOMAIN Marked(c) = {"is_last_"} \cup DOMAIN c
         /\ \A x \in DOMAIN c : x # "is_last_" => Marked(c)[x] = c[x]
BY DEF Marked

\* A command has the fields of its type, and no others.
LEMMA CmdShape ==
  ASSUME NEW c \in Cmd
  PROVE  /\ c.type_ \in Makes \cup PathUses => c = [type_ |-> c.type_, path_ |-> c.path_]
         /\ c.type_ \in Links =>
              c = [type_ |-> c.type_, old_path_ |-> c.old_path_, new_path_ |-> c.new_path_]
         /\ c.type_ \in Opens => c = [type_ |-> c.type_, fd_ |-> c.fd_, path_ |-> c.path_]
         /\ c.type_ \in FdUses => c = [type_ |-> c.type_, fd_ |-> c.fd_]
         /\ c.type_ \in Globals => c = [type_ |-> c.type_]
<1> DEFINE A == [type_ : Makes \cup PathUses, path_ : Path]
           B == [type_ : Links, old_path_ : Path, new_path_ : Path]
           C == [type_ : Opens, path_ : Path, fd_ : FdKey]
           D == [type_ : FdUses, fd_ : FdKey]
           E == [type_ : Globals]
<1>1. CASE c \in A
  BY <1>1 DEF Makes, PathUses, Links, Opens, FdUses, Globals
<1>2. CASE c \in B
  BY <1>2 DEF Makes, PathUses, Links, Opens, FdUses, Globals
<1>3. CASE c \in C
  BY <1>3 DEF Makes, PathUses, Links, Opens, FdUses, Globals
<1>4. CASE c \in D
  BY <1>4 DEF Makes, PathUses, Links, Opens, FdUses, Globals
<1>5. CASE c \in E
  BY <1>5 DEF Makes, PathUses, Links, Opens, FdUses, Globals
<1> QED BY <1>1, <1>2, <1>3, <1>4, <1>5 DEF Cmd

\* A line calls for the command that it was written for.
LEMMA CalledIsWritten ==
  ASSUME NEW c \in Cmd, NEW line, line.fun = c.type_, line.args = ArgsOf(c)
  PROVE  Called(line) = c
<1>1. /\ c.type_ \in Makes \cup PathUses => c = [type_ |-> c.type_, path_ |-> c.path_]
      /\ c.type_ \in Links =>
           c = [type_ |-> c.type_, old_path_ |-> c.old_path_, new_path_ |-> c.new_path_]
      /\ c.type_ \in Opens => c = [type_ |-> c.type_, fd_ |-> c.fd_, path_ |-> c.path_]
      /\ c.type_ \in FdUses => c = [type_ |-> c.type_, fd_ |-> c.fd_]
      /\ c.type_ \in Globals => c = [type_ |-> c.type_]
  BY CmdShape
<1> USE DEF Makes, PathUses, Links, Opens, FdUses, Globals
<1>2. CASE c.type_ \in Makes \cup PathUses
  <2>1. line.args = <<c.path_>>
    BY <1>2 DEF ArgsOf
  <2>2. Called(line) = [type_ |-> line.fun, path_ |-> line.args[1]]
    BY <1>2 DEF Called
  <2> QED BY <1>1, <1>2, <2>1, <2>2
<1>3. CASE c.type_ \in Links
  <2>1. line.args = <<c.old_path_, c.new_path_>>
    BY <1>3 DEF ArgsOf
  <2>2. Called(line) = [type_ |-> line.fun, old_path_ |-> line.args[1], new_path_ |-> line.args[2]]
    BY <1>3 DEF Called
  <2>3. line.args[1] = c.old_path_ /\ line.args[2] = c.new_path_
    BY <2>1
  <2> QED BY <1>1, <1>3, <2>2, <2>3
<1>4. CASE c.type_ \in Opens
  <2>1. line.args = <<c.fd_, c.path_>>
    BY <1>4 DEF ArgsOf
  <2>2. Called(line) = [type_ |-> line.fun, fd_ |-> line.args[1], path_ |-> line.args[2]]
    BY <1>4 DEF Called
  <2>3. line.args[1] = c.fd_ /\ line.args[2] = c.path_
    BY <2>1
  <2> QED BY <1>1, <1>4, <2>2, <2>3
<1>5. CASE c.type_ \in FdUses
  <2>1. line.args = <<c.fd_>>
    BY <1>5 DEF ArgsOf
  <2>2. Called(line) = [type_ |-> line.fun, fd_ |-> line.args[1]]
    BY <1>5 DEF Called
  <2> QED BY <1>1, <1>5, <2>1, <2>2
<1>6. CASE c.type_ \in Globals
  <2>1. Called(line) = [type_ |-> line.fun]
    BY <1>6 DEF Called
  <2> QED BY <1>1, <1>6, <2>1
<1>7. c.type_ \in Makes \cup PathUses \cup Links \cup Opens \cup FdUses \cup Globals
  BY CmdFields
<1> QED BY <1>2, <1>3, <1>4, <1>5, <1>6, <1>7

\* The commands of a sequence as it is saved: a sync may be marked as the last one.
SavedCmd == Cmd \cup {Marked(c) : c \in {d \in Cmd : d.type_ \in Syncs}}

LEMMA LineReadsBack ==
  ASSUME NEW c \in SavedCmd
  PROVE  Parsed(Written(c)) = IF c.type_ = "SYNC" THEN [type_ |-> "SYNC"] ELSE c
<1> DEFINE w == Written(c)
<1>1. w.fun = c.type_ /\ w.args = ArgsOf(c) /\ w.is_last = ("is_last_" \in DOMAIN c)
  BY DEF Written
<1> HIDE DEF w
<1>2. CASE c \in Cmd
  <2>1. "is_last_" \notin DOMAIN c
    BY <1>2 DEF Cmd
  <2>2. Called(w) = c
    BY <1>1, <1>2, CalledIsWritten
  <2>3. Parsed(w) = c
    BY <1>1, <2>1, <2>2 DEF Parsed
  <2>4. c.type_ = "SYNC" => c = [type_ |-> "SYNC"]
    BY <1>2, CmdShape DEF Globals
  <2> QED BY <2>3, <2>4 DEF w
<1>3. ASSUME NEW d \in Cmd, d.type_ \in Syncs, c = Marked(d)
      PROVE  Parsed(Written(c)) = IF c.type_ = "SYNC" THEN [type_ |-> "SYNC"] ELSE c
  <2>1. "type_" \in DOMAIN d /\ (d.type_ = "FSYNC" => "fd_" \in DOMAIN d)
        /\ (d.type_ = "XSYNC" => "path_" \in DOMAIN d)
    BY <1>3 DEF Cmd, Makes, PathUses, Links, Opens, FdUses, Globals
  <2>2. c.type_ = d.type_ /\ (d.type_ = "FSYNC" => c.fd_ = d.fd_)
        /\ (d.type_ = "XSYNC" => c.path_ = d.path_) /\ "is_last_" \in DOMAIN c
    BY <1>3, <2>1, MarkedIs
  <2>3. ArgsOf(c) = ArgsOf(d)
    BY <1>3, <2>2 DEF ArgsOf, Syncs, Makes, PathUses, Links, Opens, FdUses, Globals
  <2>4. Called(w) = d
    BY <1>1, <1>3, <2>2, <2>3, CalledIsWritten
  <2>5. CASE d.type_ = "SYNC"
    <3>1. Parsed(w) = d
      BY <1>1, <2>2, <2>4, <2>5 DEF Parsed
    <3>2. d = [type_ |-> "SYNC"]
      BY <2>5, CmdShape DEF Globals
    <3> QED BY <2>2, <2>5, <3>1, <3>2 DEF w
  <2>6. CASE d.type_ # "SYNC"
    <3>1. Parsed(w) = Marked(d)
      BY <1>1, <2>2, <2>4, <2>6 DEF Parsed
    <3> QED BY <1>3, <2>2, <2>6, <3>1 DEF w
  <2> QED BY <2>5, <2>6
<1> QED BY <1>2, <1>3 DEF SavedCmd

\* What is saved of a sequence, whatever has been taken out, reads back.
LEMMA KeptReadsBack ==
  ASSUME NEW cmds \in Seq(Cmd), NEW S
  PROVE  LET saved == Kept(LastMarked(cmds), S)
             read  == ReadBack(Saved(saved))
         IN  /\ Len(read) = Len(saved)
             /\ \A i \in DOMAIN saved :
                  read[i] = IF saved[i].type_ = "SYNC" THEN [type_ |-> "SYNC"] ELSE saved[i]
<1> DEFINE marked == LastMarked(cmds)
           saved == Kept(marked, S)
           calls == [i \in 1..Len(saved) |-> Written(saved[i])]
           read == [i \in 1..Len(saved) |-> Parsed(calls[i])]
<1>1. marked \in Seq(SavedCmd)
  <2>1. DOMAIN cmds = 1..Len(cmds) /\ Len(cmds) \in Nat /\ \A i \in 1..Len(cmds) : cmds[i] \in Cmd
    OBVIOUS
  <2>2. \A i \in 1..Len(cmds) : marked[i] \in SavedCmd
    BY <2>1 DEF LastMarked, SavedCmd
  <2>3. marked = [i \in 1..Len(cmds) |-> marked[i]]
    BY <2>1 DEF LastMarked
  <2> HIDE DEF marked
  <2> QED BY <2>1, <2>2, <2>3, SeqDef
<1> HIDE DEF marked
<1>2. saved \in Seq(SavedCmd)
  BY <1>1, KeptElements
<1> HIDE DEF saved
<1>3. Len(saved) \in Nat /\ DOMAIN saved = 1..Len(saved) /\ \A i \in 1..Len(saved) : saved[i] \in SavedCmd
  BY <1>2
<1>4. Len(calls) = Len(saved) /\ ReadBack(Saved(saved)) = read
  <2>1. Len(calls) = Len(saved)
    BY <1>3
  <2>2. Saved(saved).calls = calls
    BY DEF Saved
  <2> HIDE DEF calls
  <2> QED BY <2>1, <2>2 DEF ReadBack
<1>5. Len(read) = Len(saved) /\ \A i \in 1..Len(saved) : read[i] = Parsed(Written(saved[i]))
  BY <1>3
<1> HIDE DEF calls, read
<1> QED BY <1>3, <1>4, <1>5, LineReadsBack DEF saved, marked

\* What is left declares the descriptors that it uses.
LEMMA KeptCompiles ==
  ASSUME NEW cmds \in Seq(Cmd), AllSucceed(cmds), NEW S, KeptUseKept(cmds, S)
  PROVE  Compiles(Saved(Kept(cmds, S)))
<1> DEFINE n == Len(cmds)
           x == Kept(cmds, S)
           calls == [i \in 1..Len(x) |-> Written(x[i])]
<1>1. /\ x \in Seq(Cmd) /\ ToSet(x) = {cmds[j] : j \in S \cap (1..n)}
  BY KeptElements
<1>2. DOMAIN x = 1..Len(x) /\ ToSet(x) = {x[i] : i \in 1..Len(x)}
  BY <1>1 DEF ToSet
<1>3. Saved(x).declared = AllFdKeys(x) /\ Saved(x).calls = calls
  BY DEF Saved
<1> HIDE DEF x, n
<1>4. ASSUME NEW i \in 1..Len(x), x[i].type_ \in Opens \cup FdUses
      PROVE  x[i].fd_ \in AllFdKeys(x)
  <2>1. x[i] \in ToSet(x)
    BY <1>2
  <2>2. CASE x[i].type_ \in Opens
    BY <2>1, <2>2 DEF AllFdKeys
  <2>3. CASE x[i].type_ \in FdUses
    <3>1. PICK j \in S \cap (1..n) : x[i] = cmds[j]
      BY <1>1, <2>1
    <3>2. PICK m \in 1..n : m < j /\ cmds[m].type_ \in Opens /\ cmds[m].fd_ = cmds[j].fd_
      BY <2>3, <3>1, OpenedBefore DEF n
    <3>3. Def(cmds[m]) = cmds[j].fd_ /\ Use(cmds[j]) = {cmds[j].fd_}
      <4>1. cmds[j].type_ \in FdUses
        BY <2>3, <3>1
      <4> QED BY <3>2, <4>1 DEF Def, Use, Makes, Links, Opens, FdUses, Globals
    <3>4. m \in S
      BY <3>1, <3>2, <3>3 DEF KeptUseKept, n
    <3>5. cmds[m] \in ToSet(x)
      BY <1>1, <3>4
    <3> QED BY <3>1, <3>2, <3>5 DEF AllFdKeys
  <2> QED BY <1>4, <2>2, <2>3
<1>5. ASSUME NEW i \in 1..Len(x), ~calls[i].comment, calls[i].fun \in Opens \cup FdUses
      PROVE  calls[i].args[1] \in AllFdKeys(x)
  <2>1. calls[i].fun = x[i].type_ /\ calls[i].args = ArgsOf(x[i])
    BY DEF Written
  <2>2. ArgsOf(x[i])[1] = x[i].fd_
    <3>1. x[i].type_ \in Opens \cup FdUses
      BY <1>5, <2>1
    <3>2. CASE x[i].type_ \in Opens
      <4>1. ArgsOf(x[i]) = <<x[i].fd_, x[i].path_>>
        BY <3>2 DEF ArgsOf, Makes, PathUses, Links, Opens, FdUses, Globals
      <4> QED BY <4>1
    <3>3. CASE x[i].type_ \in FdUses
      <4>1. ArgsOf(x[i]) = <<x[i].fd_>>
        BY <3>3 DEF ArgsOf, Makes, PathUses, Links, Opens, FdUses, Globals
      <4> QED BY <4>1
    <3> QED BY <3>1, <3>2, <3>3
  <2> QED BY <1>4, <1>5, <2>1, <2>2
<1>6. DOMAIN calls = 1..Len(x)
  OBVIOUS
<1> HIDE DEF calls
<1> QED BY <1>3, <1>5, <1>6 DEF Compiles, x

(***************************************************************************)
(* The worklist                                                            *)
(***************************************************************************)
Positions == idx..Len(cmd_list_)

\* The users of r have all been removed.
UsersRemoved(r) ==
  \A k \in Positions : Def(cmd_list_[r]) \in Use(cmd_list_[k]) => k \in Removed

\* The inner loop is at the users of r and has removed those it has passed.
UsersBeingRemoved(r) ==
  /\ pc = "scan" /\ cmd_def = Def(cmd_list_[r])
  /\ \A k \in idx..(at - 1) : cmd_def \in Use(cmd_list_[k]) => k \in Removed

Waits(r) == \E m \in 1..Len(worklist) : worklist[m] = Def(cmd_list_[r])

RemovedDefs == {Def(cmd_list_[r]) : r \in Removed}

\* The loop variables.
LoopInv ==
  /\ pc \in {"get", "scan", "end"}
  /\ Len(cmd_list_) \in Nat
  /\ idx \in 1..Len(cmd_list_)
  /\ flags \in [1..Len(cmd_list_) -> BOOLEAN]
  /\ worklist \in Seq(RemovedDefs)
  /\ pc = "scan" => at \in idx..(Len(cmd_list_) + 1) /\ cmd_def \in RemovedDefs
  /\ pc = "end" => worklist = << >>

\* No command too many: what is removed is in every closed set.
NoneTooMany ==
  /\ idx \in Removed /\ Removed \subseteq Positions
  /\ \A C \in SUBSET Positions :
       idx \in C /\ ClosedFrom(cmd_list_, idx, C) => Removed \subseteq C

\* No command is forgotten: its users are removed, or will be.
NoneForgotten ==
  \A r \in Removed : UsersRemoved(r) \/ UsersBeingRemoved(r) \/ Waits(r)

IInv ==
  \/ pc = "push" /\ cmd_list_ \in Seq(ToSet(cmd_list_))
  \/ LoopInv /\ NoneTooMany /\ NoneForgotten

-----------------------------------------------------------------------------
\* At the end nothing waits: what is removed is closed, and so the least closed set.
LEMMA IInvImplies == IInv => RemovesTheLeastClosedSet
<1>. SUFFICES ASSUME IInv, pc = "end" PROVE Removed = LeastClosed(cmd_list_, idx)
  BY DEF RemovesTheLeastClosedSet
<1>1. LoopInv /\ NoneTooMany /\ NoneForgotten
  BY DEF IInv
<1>2. ClosedFrom(cmd_list_, idx, Removed)
  <2>1. \A r \in Removed : ~UsersBeingRemoved(r) /\ ~Waits(r)
    BY <1>1 DEF LoopInv, UsersBeingRemoved, Waits
  <2>. QED BY <1>1, <2>1 DEF NoneForgotten, UsersRemoved, ClosedFrom, Positions
<1>3. LeastClosed(cmd_list_, idx) \subseteq Removed
  BY <1>1, <1>2 DEF NoneTooMany, LeastClosed, Positions
<1>4. Removed \subseteq LeastClosed(cmd_list_, idx)
  BY <1>1 DEF NoneTooMany, LeastClosed, Positions
<1>. QED BY <1>3, <1>4

\* The first thing filter_out does is to remove idx and put its definition on the list.
LEMMA FilterOutKeeps ==
  ASSUME IInv, NEW i \in 1..MaxLen, FilterOut(i) PROVE IInv'
<1>. USE DEF FilterOut
<1>1. pc = "push" /\ cmd_list_ \in Seq(ToSet(cmd_list_))
  BY DEF IInv, LoopInv
<1>2. Len(cmd_list_) \in Nat /\ cmd_list_' = cmd_list_ /\ idx' = i /\ i \in 1..Len(cmd_list_)
  BY <1>1, LenProperties
<1>3. flags' \in [1..Len(cmd_list_) -> BOOLEAN] /\ Removed' = {i}
  BY <1>2 DEF Removed
<1>4. worklist' = <<Def(cmd_list_[i])>> /\ RemovedDefs' = {Def(cmd_list_[i])}
  BY <1>2, <1>3 DEF RemovedDefs
<1>5. LoopInv'
  BY <1>2, <1>3, <1>4 DEF LoopInv
<1>6. NoneTooMany'
  BY <1>2, <1>3 DEF NoneTooMany, Positions
<1>7. NoneForgotten'
  <2>1. Len(worklist') = 1 /\ worklist'[1] = Def(cmd_list_'[i])
    BY <1>2, <1>4
  <2>. QED BY <1>3, <2>1 DEF NoneForgotten, Waits
<1>. QED BY <1>5, <1>6, <1>7 DEF IInv

\* The head of the worklist becomes the definition whose users are being removed.
LEMMA GetKeeps ==
  ASSUME IInv, Get PROVE IInv'
<1>. USE DEF Get
<1>1. LoopInv /\ NoneTooMany /\ NoneForgotten
  BY DEF IInv
<1>2. /\ Removed' = Removed /\ RemovedDefs' = RemovedDefs /\ Positions' = Positions
      /\ cmd_list_' = cmd_list_ /\ idx' = idx /\ flags' = flags
  BY DEF Removed, RemovedDefs, Positions
<1>3. /\ Head(worklist) \in RemovedDefs /\ Tail(worklist) \in Seq(RemovedDefs)
      /\ Len(worklist) \in Nat \ {0} /\ Head(worklist) = worklist[1]
      /\ Len(Tail(worklist)) = Len(worklist) - 1
      /\ \A m \in 1..(Len(worklist) - 1) : Tail(worklist)[m] = worklist[m + 1]
  BY <1>1, HeadTailProperties, EmptySeq DEF LoopInv
<1>4. LoopInv'
  BY <1>1, <1>2, <1>3 DEF LoopInv
<1>5. NoneTooMany'
  BY <1>1, <1>2 DEF NoneTooMany
<1>6. NoneForgotten'
  <2>. SUFFICES ASSUME NEW r \in Removed
                PROVE  (UsersRemoved(r) \/ UsersBeingRemoved(r) \/ Waits(r))'
    BY <1>2 DEF NoneForgotten
  <2>1. CASE UsersRemoved(r)
    BY <1>2, <2>1 DEF UsersRemoved
  <2>2. CASE Waits(r)
    <3>1. PICK m \in 1..Len(worklist) : worklist[m] = Def(cmd_list_[r])
      BY <2>2 DEF Waits
    <3>2. CASE m = 1
      <4>1. cmd_def' = Def(cmd_list_'[r]) /\ at' = idx /\ pc' = "scan"
        BY <1>2, <1>3, <3>1, <3>2
      <4>2. UsersBeingRemoved(r)'
        BY <1>1, <1>2, <4>1 DEF UsersBeingRemoved, LoopInv
      <4>. QED BY <4>2
    <3>3. CASE m # 1
      <4>1. m - 1 \in 1..Len(worklist') /\ worklist'[m - 1] = Def(cmd_list_'[r])
        BY <1>2, <1>3, <3>1, <3>3
      <4>. QED BY <4>1 DEF Waits
    <3>. QED BY <3>2, <3>3
  <2>3. ~UsersBeingRemoved(r)
    BY DEF UsersBeingRemoved
  <2>. QED BY <1>1, <2>1, <2>2, <2>3 DEF NoneForgotten
<1>. QED BY <1>4, <1>5, <1>6 DEF IInv

\* A command that stays does not use the definition; one that goes is in every closed
\* set, for some removed command defines what it uses.
LEMMA ScanKeeps ==
  ASSUME IInv, Scan PROVE IInv'
<1>. USE DEF Scan
<1>1. LoopInv /\ NoneTooMany /\ NoneForgotten
  BY DEF IInv
<1>2. /\ pc = "scan" /\ pc' = "scan" /\ cmd_list_' = cmd_list_ /\ idx' = idx
      /\ cmd_def' = cmd_def /\ at' = at + 1 /\ Positions' = Positions
      /\ at \in Positions /\ at \in 1..Len(cmd_list_) /\ at \in Int /\ idx \in Int
  BY <1>1 DEF LoopInv, Positions
<1>3. /\ Removed \subseteq Removed'
      /\ Removed' \subseteq Removed \cup {at}
      /\ at \in Removed' \ Removed => Depends(at) /\ worklist' = Append(worklist, Def(cmd_list_[at]))
      /\ cmd_def \in Use(cmd_list_[at]) => at \in Removed'
      /\ flags' \in [1..Len(cmd_list_) -> BOOLEAN]
      /\ Removed' = Removed => worklist' = worklist
  BY <1>1, <1>2 DEF LoopInv, Removed, Depends
<1>4. RemovedDefs \subseteq RemovedDefs'
  BY <1>2, <1>3 DEF RemovedDefs
<1>5. worklist \in Seq(RemovedDefs')
  BY <1>1, <1>4, SeqMonotonic DEF LoopInv
<1>6. CASE Removed' = Removed
  <2>1. LoopInv'
    BY <1>1, <1>2, <1>3, <1>4, <1>5, <1>6 DEF LoopInv
  <2>2. NoneTooMany'
    BY <1>1, <1>2, <1>6 DEF NoneTooMany
  <2>3. NoneForgotten'
    <3>. SUFFICES ASSUME NEW r \in Removed
                  PROVE  (UsersRemoved(r) \/ UsersBeingRemoved(r) \/ Waits(r))'
      BY <1>6 DEF NoneForgotten
    <3>1. UsersRemoved(r) => UsersRemoved(r)'
      BY <1>2, <1>6 DEF UsersRemoved
    <3>2. UsersBeingRemoved(r) => UsersBeingRemoved(r)'
      BY <1>2, <1>3, <1>6 DEF UsersBeingRemoved
    <3>3. Waits(r) => Waits(r)'
      BY <1>2, <1>3, <1>6 DEF Waits
    <3>. QED BY <1>1, <3>1, <3>2, <3>3 DEF NoneForgotten
  <2>. QED BY <2>1, <2>2, <2>3 DEF IInv
<1>7. CASE Removed' # Removed
  <2>1. /\ at \in Removed' /\ Removed' = Removed \cup {at}
        /\ worklist' = Append(worklist, Def(cmd_list_[at]))
        /\ cmd_def \in Use(cmd_list_[at])
    BY <1>3, <1>7 DEF Depends
  <2>2. Def(cmd_list_[at]) \in RemovedDefs'
    BY <1>2, <2>1 DEF RemovedDefs
  <2>3. /\ worklist' \in Seq(RemovedDefs') /\ Len(worklist) \in Nat
        /\ Len(worklist') = Len(worklist) + 1
        /\ \A m \in 1..Len(worklist) : worklist'[m] = worklist[m]
        /\ worklist'[Len(worklist) + 1] = Def(cmd_list_[at])
    BY <1>5, <2>1, <2>2
  <2>4. LoopInv'
    BY <1>1, <1>2, <1>3, <1>4, <2>3 DEF LoopInv
  <2>5. NoneTooMany'
    <3>1. PICK q \in Removed : cmd_def = Def(cmd_list_[q])
      BY <1>1, <1>2 DEF LoopInv, RemovedDefs
    <3>2. ASSUME NEW C \in SUBSET Positions, idx \in C, ClosedFrom(cmd_list_, idx, C)
          PROVE  Removed' \subseteq C
      <4>1. Removed \subseteq C
        BY <1>1, <3>2 DEF NoneTooMany
      <4>2. at \in C
        BY <1>2, <2>1, <3>1, <3>2, <4>1 DEF ClosedFrom, Positions
      <4>. QED BY <2>1, <4>1, <4>2
    <3>. QED BY <1>1, <1>2, <2>1, <3>2 DEF NoneTooMany
  <2>6. NoneForgotten'
    <3>. SUFFICES ASSUME NEW r \in Removed'
                  PROVE  (UsersRemoved(r) \/ UsersBeingRemoved(r) \/ Waits(r))'
      BY DEF NoneForgotten
    <3>1. CASE r = at
      <4>1. Len(worklist) + 1 \in 1..Len(worklist')
        BY <2>3
      <4>. QED BY <1>2, <2>3, <3>1, <4>1 DEF Waits
    <3>2. CASE r \in Removed
      <4>1. UsersRemoved(r) => UsersRemoved(r)'
        BY <1>2, <1>3 DEF UsersRemoved
      <4>2. UsersBeingRemoved(r) => UsersBeingRemoved(r)'
        BY <1>2, <1>3 DEF UsersBeingRemoved
      <4>3. Waits(r) => Waits(r)'
        BY <1>2, <2>3 DEF Waits
      <4>. QED BY <1>1, <3>2, <4>1, <4>2, <4>3 DEF NoneForgotten
    <3>. QED BY <2>1, <3>1, <3>2
  <2>. QED BY <2>4, <2>5, <2>6 DEF IInv
<1>. QED BY <1>6, <1>7

\* The inner loop has passed the last command: the users of cmd_def are gone.
LEMMA ScannedKeeps ==
  ASSUME IInv, Scanned PROVE IInv'
<1>. USE DEF Scanned
<1>1. LoopInv /\ NoneTooMany /\ NoneForgotten
  BY DEF IInv
<1>2. /\ Removed' = Removed /\ RemovedDefs' = RemovedDefs /\ Positions' = Positions
      /\ cmd_list_' = cmd_list_ /\ idx' = idx /\ flags' = flags /\ worklist' = worklist
  BY DEF Removed, RemovedDefs, Positions
<1>3. LoopInv' /\ NoneTooMany'
  BY <1>1, <1>2 DEF LoopInv, NoneTooMany
<1>4. NoneForgotten'
  <2>. SUFFICES ASSUME NEW r \in Removed
                PROVE  (UsersRemoved(r) \/ UsersBeingRemoved(r) \/ Waits(r))'
    BY <1>2 DEF NoneForgotten
  <2>1. UsersBeingRemoved(r) => UsersRemoved(r)
    BY <1>1 DEF UsersBeingRemoved, UsersRemoved, LoopInv, Positions
  <2>2. UsersRemoved(r) => UsersRemoved(r)'
    BY <1>2 DEF UsersRemoved
  <2>3. Waits(r) => Waits(r)'
    BY <1>2 DEF Waits
  <2>. QED BY <1>1, <2>1, <2>2, <2>3 DEF NoneForgotten
<1>. QED BY <1>3, <1>4 DEF IInv

\* With the worklist empty the loop ends.
LEMMA ReturnKeeps ==
  ASSUME IInv, Return PROVE IInv'
<1>. USE DEF Return
<1>1. LoopInv /\ NoneTooMany /\ NoneForgotten
  BY DEF IInv
<1>2. /\ Removed' = Removed /\ RemovedDefs' = RemovedDefs /\ Positions' = Positions
      /\ cmd_list_' = cmd_list_ /\ idx' = idx /\ flags' = flags /\ worklist' = worklist
  BY DEF Removed, RemovedDefs, Positions
<1>3. LoopInv' /\ NoneTooMany'
  BY <1>1, <1>2 DEF LoopInv, NoneTooMany
<1>4. \A r \in Removed : UsersRemoved(r)
  BY <1>1 DEF NoneForgotten, UsersBeingRemoved, Waits, LoopInv
<1>5. NoneForgotten'
  BY <1>2, <1>4 DEF NoneForgotten, UsersRemoved
<1>. QED BY <1>3, <1>5 DEF IInv

\* Pushing a command leaves a sequence.
LEMMA PushKeeps ==
  ASSUME IInv, Push PROVE IInv'
<1>1. pc = "push" /\ pc' = "push" /\ cmd_list_ \in Seq(ToSet(cmd_list_))
  BY DEF IInv, LoopInv, Push
<1>2. PICK c : cmd_list_' = Append(cmd_list_, c)
  BY DEF Push
<1>3. cmd_list_ \in Seq(ToSet(cmd_list_) \cup {c})
  BY <1>1, SeqMonotonic
<1>4. /\ cmd_list_' \in Seq(ToSet(cmd_list_) \cup {c})
  BY <1>2, <1>3
<1>5. /\ Len(cmd_list_') \in Nat /\ DOMAIN cmd_list_' = 1..Len(cmd_list_')
      /\ cmd_list_' \in [1..Len(cmd_list_') -> ToSet(cmd_list_')]
  BY <1>4, LenProperties DEF ToSet
<1>6. cmd_list_' \in Seq(ToSet(cmd_list_'))
  BY <1>5, SeqDef
<1>. QED BY <1>1, <1>6 DEF IInv, ToSet

LEMMA InitIInv == Init => IInv
  BY EmptySeq DEF Init, IInv

LEMMA NextIInv == IInv /\ [Next]_vars => IInv'
<1>. SUFFICES ASSUME IInv, [Next]_vars PROVE IInv'
  OBVIOUS
<1>1. CASE Push BY <1>1, PushKeeps
<1>2. ASSUME NEW i \in 1..MaxLen, FilterOut(i) PROVE IInv'
  BY <1>2, FilterOutKeeps
<1>3. CASE Get BY <1>3, GetKeeps
<1>4. CASE Scan BY <1>4, ScanKeeps
<1>5. CASE Scanned BY <1>5, ScannedKeeps
<1>6. CASE Return BY <1>6, ReturnKeeps
<1>7. CASE UNCHANGED vars
  BY <1>7 DEF vars, IInv, LoopInv, NoneTooMany, NoneForgotten, UsersRemoved,
              UsersBeingRemoved, Waits, Positions, Removed, RemovedDefs, ToSet
<1>. QED BY <1>1, <1>2, <1>3, <1>4, <1>5, <1>6, <1>7 DEF Next

\* filter_out removes the least set of commands that contains idx and, from idx on,
\* every user of what a command in it defines: none too few and none too many, in
\* whatever order its worklist is worked off (Sequence.py:37-60).
THEOREM FilterOutIsLeast == Spec => []RemovesTheLeastClosedSet
<1>1. Spec => []IInv
  BY InitIInv, NextIInv, PTL DEF Spec
<1>. QED BY <1>1, IInvImplies, PTL

-----------------------------------------------------------------------------
(***************************************************************************)
(* What is left.  The sequence is one that the generator has pushed        *)
(* together: its commands succeed one after the other, and every name in   *)
(* it was issued once.                                                     *)
(***************************************************************************)
Generated ==
  /\ cmd_list_ \in Seq(Cmd) /\ Len(cmd_list_) <= MaxLen
  /\ space \in Space /\ Leaves(cmd_list_, Bare(space))
  /\ IssuedNames(cmd_list_, space)
  /\ at \in 1..(Len(cmd_list_) + 1)

LEMMA InitGenerated == Init => Generated
<1> SUFFICES ASSUME Init PROVE Generated
  OBVIOUS
<1>1. cmd_list_ = << >> /\ space = Empty /\ at = 1
  BY DEF Init
<1>2. << >> \in Seq(Cmd) /\ Len(<< >>) = 0 /\ 0 <= MaxLen
  BY LenAssumption
<1>3. Empty \in Space
  BY EmptyIsSpace
<1>4. Bare(Empty) = Empty
  <2>1. Bare(Empty) = [dirs |-> Empty.dirs, files |-> Empty.files, others |-> Empty.others,
                       open |-> Empty.open, names |-> 0, fds |-> 0]
    BY <1>3, BareIs
  <2> QED BY <2>1 DEF Empty
<1>5. IssuedNames(<< >>, Empty)
  BY <1>2 DEF IssuedNames
<1> QED BY <1>1, <1>2, <1>3, <1>4, <1>5, LeavesEmpty DEF Generated

LEMMA NextGenerated == IInv /\ Generated /\ [Next]_vars => Generated'
<1> SUFFICES ASSUME IInv, Generated, [Next]_vars PROVE Generated'
  OBVIOUS
<1>1. /\ cmd_list_ \in Seq(Cmd) /\ Len(cmd_list_) <= MaxLen /\ Len(cmd_list_) \in Nat
      /\ space \in Space /\ Leaves(cmd_list_, Bare(space)) /\ IssuedNames(cmd_list_, space)
      /\ at \in 1..(Len(cmd_list_) + 1)
  BY DEF Generated
<1>2. CASE Push
  <2>1. /\ Len(cmd_list_) < MaxLen /\ at' = at
        /\ \E c \in Pushes(space) : /\ cmd_list_' = Append(cmd_list_, c)
                                    /\ space' = Pushed(space, c)
    BY <1>2 DEF Push
  <2>2. PICK c \in Pushes(space) : cmd_list_' = Append(cmd_list_, c) /\ space' = Pushed(space, c)
    BY <2>1
  <2>3. /\ c \in Cmd /\ Pushed(space, c) \in Space /\ Succeeds(Bare(space), c)
        /\ Bare(Pushed(space, c)) = After(Bare(space), c)
    BY <1>1, PushedIs
  <2>4. Bare(space) \in Space
    BY <1>1, BareSpace
  <2>5. /\ Append(cmd_list_, c) \in Seq(Cmd)
        /\ Leaves(Append(cmd_list_, c), After(Bare(space), c))
    BY <1>1, <2>3, <2>4, LeavesAppend
  <2>6. IssuedNames(Append(cmd_list_, c), Pushed(space, c))
    BY <1>1, PushedNames
  <2>7. Len(Append(cmd_list_, c)) = Len(cmd_list_) + 1
    BY <1>1
  <2>8. Len(cmd_list_') = Len(cmd_list_) + 1 /\ MaxLen \in Nat
    BY <2>2, <2>7, LenAssumption
  <2>9. at' \in 1..(Len(cmd_list_') + 1) /\ Len(cmd_list_') <= MaxLen
    BY <1>1, <2>1, <2>8
  <2> QED BY <2>2, <2>3, <2>5, <2>6, <2>9 DEF Generated
<1>3. ASSUME NEW i \in 1..MaxLen, FilterOut(i) PROVE Generated'
  BY <1>1, <1>3 DEF FilterOut, Generated
<1>4. CASE Get
  <2>1. LoopInv
    BY <1>4 DEF IInv, Get
  <2> QED BY <1>1, <1>4, <2>1 DEF Get, Generated, LoopInv
<1>5. CASE Scan
  <2>1. at' = at + 1 /\ at <= Len(cmd_list_) /\ cmd_list_' = cmd_list_ /\ space' = space
    BY <1>5 DEF Scan
  <2>2. at' \in 1..(Len(cmd_list_) + 1)
    BY <1>1, <2>1
  <2> QED BY <1>1, <2>1, <2>2 DEF Generated
<1>6. CASE Scanned
  BY <1>1, <1>6 DEF Scanned, Generated
<1>7. CASE Return
  BY <1>1, <1>7 DEF Return, Generated
<1>8. CASE UNCHANGED vars
  BY <1>1, <1>8 DEF vars, Generated
<1> QED BY <1>2, <1>3, <1>4, <1>5, <1>6, <1>7, <1>8 DEF Next

LEMMA SpecGenerates == Spec => [](IInv /\ Generated)
<1>1. Init => IInv /\ Generated
  BY InitIInv, InitGenerated
<1>2. IInv /\ Generated /\ [Next]_vars => (IInv /\ Generated)'
  BY NextIInv, NextGenerated
<1> QED BY <1>1, <1>2, PTL DEF Spec

\* The users taken in rounds are the least closed set, too.
LEMMA RoundsAreLeast ==
  ASSUME NEW C, NEW cmds \in Seq(C), NEW i \in 1..Len(cmds)
  PROVE  Dependents(cmds, i) = LeastClosed(cmds, i)
<1> DEFINE n == Len(cmds)
           D == Dependents(cmds, i)
<1>1. /\ D \subseteq i..n /\ i \in D /\ Users(cmds, i, D) \subseteq D
      /\ \A E \in SUBSET (i..n) : i \in E /\ Users(cmds, i, E) \subseteq E => D \subseteq E
  BY DependentsLeast
<1> HIDE DEF D
<1>2. \A E \in SUBSET (i..n) : ClosedFrom(cmds, i, E) <=> Users(cmds, i, E) \subseteq E
  BY DEF ClosedFrom, Users
<1> QED BY <1>1, <1>2 DEF LeastClosed, D

\* At the end, what is removed and what is left.
LEMMA WhatIsLeft ==
  ASSUME IInv, Generated, pc = "end"
  PROVE  /\ Removed = Dependents(cmd_list_, idx)
         /\ DOMAIN flags = DOMAIN cmd_list_ /\ AllSucceed(cmd_list_)
         /\ KeptUseKept(cmd_list_, DOMAIN flags \ Removed)
<1>1. cmd_list_ \in Seq(Cmd) /\ space \in Space /\ Leaves(cmd_list_, Bare(space))
  BY DEF Generated
<1>2. idx \in 1..Len(cmd_list_) /\ DOMAIN flags = 1..Len(cmd_list_)
  BY DEF IInv, LoopInv
<1>3. Removed = LeastClosed(cmd_list_, idx)
  BY IInvImplies DEF RemovesTheLeastClosedSet
<1>4. LeastClosed(cmd_list_, idx) = Dependents(cmd_list_, idx)
  BY <1>1, <1>2, RoundsAreLeast
<1>5. /\ Dependents(cmd_list_, idx) \subseteq idx..Len(cmd_list_)
      /\ Users(cmd_list_, idx, Dependents(cmd_list_, idx)) \subseteq Dependents(cmd_list_, idx)
  BY <1>1, <1>2, DependentsLeast
<1>6. KeptUseKept(cmd_list_, (DOMAIN cmd_list_) \ Removed)
  BY <1>1, <1>2, <1>3, <1>4, <1>5, UsersGo
<1>7. DOMAIN cmd_list_ = 1..Len(cmd_list_)
  BY <1>1
<1>8. Bare(space) \in Space
  BY <1>1, BareSpace
<1>9. AllSucceed(cmd_list_)
  BY <1>1, <1>8, AllSucceedLeaves
<1> QED BY <1>2, <1>3, <1>4, <1>6, <1>7, <1>9

\* The loop variables have their types, and the sequence is one that succeeds.
THEOREM LoopIsTyped == Spec => []TypeOK
<1>1. IInv /\ Generated => TypeOK
  <2> SUFFICES ASSUME IInv, Generated PROVE TypeOK
    OBVIOUS
  <2>1. /\ cmd_list_ \in Seq(Cmd) /\ Len(cmd_list_) <= MaxLen /\ space \in Space
        /\ Leaves(cmd_list_, Bare(space)) /\ at \in 1..(Len(cmd_list_) + 1)
    BY DEF Generated
  <2>2. Bare(space) \in Space
    BY <2>1, BareSpace
  <2>3. AllSucceed(cmd_list_)
    BY <2>1, <2>2, AllSucceedLeaves
  <2>4. pc \in {"push", "get", "scan", "end"}
    BY DEF IInv, LoopInv
  <2>5. ASSUME pc # "push"
        PROVE  /\ idx \in 1..Len(cmd_list_) /\ DOMAIN flags = 1..Len(cmd_list_)
               /\ \A k \in 1..Len(worklist) :
                    \E r \in Removed : worklist[k] = Def(cmd_list_[r])
    <3>1. LoopInv
      BY <2>5 DEF IInv
    <3>2. ASSUME NEW k \in 1..Len(worklist)
          PROVE  \E r \in Removed : worklist[k] = Def(cmd_list_[r])
      <4>1. worklist \in Seq(RemovedDefs)
        BY <3>1 DEF LoopInv
      <4>2. worklist[k] \in RemovedDefs
        BY <4>1
      <4> QED BY <4>2 DEF RemovedDefs
    <3> QED BY <3>1, <3>2 DEF LoopInv
  <2> QED BY <2>1, <2>3, <2>4, <2>5 DEF TypeOK
<1> QED BY <1>1, SpecGenerates, PTL

\* The callers of filter_out may read it as the users of a command taken in rounds,
\* as module Reducer does: the worklist comes to the same (Sequence.py:37-60).
THEOREM WorklistIsRounds == Spec => []CallersSeeTheWorklist
<1>1. IInv /\ Generated => CallersSeeTheWorklist
  BY WhatIsLeft DEF CallersSeeTheWorklist, new_seq, FilteredOut
<1> QED BY <1>1, SpecGenerates, PTL

\* Whatever command is taken out of a sequence that ran, what is left uses no descriptor
\* that it does not declare (Sequence.py:23-30, TestCase.py:38-48).
THEOREM WhatIsLeftCompiles == Spec => []DescriptorsStayDeclared
<1>1. IInv /\ Generated => DescriptorsStayDeclared
  BY WhatIsLeft, KeptCompiles DEF DescriptorsStayDeclared, new_seq, Generated
<1> QED BY <1>1, SpecGenerates, PTL

\* What is left is read from its file as it was saved, but for the mark of a SYNC
\* (CodeWriter.py, CodeParser.py:97-99).
THEOREM WhatIsLeftReadsBack == Spec => []SavedTextReadsBack
<1>1. IInv /\ Generated => SavedTextReadsBack
  BY KeptReadsBack DEF SavedTextReadsBack, Generated
<1> QED BY <1>1, SpecGenerates, PTL

\* Without renames, whatever command is taken out of a sequence that ran, what is left
\* runs, too (Sequence.py:37-60).
THEOREM WhatIsLeftRuns == Spec => []WhatIsLeftSucceeds
<1>1. IInv /\ Generated => WhatIsLeftSucceeds
  <2> SUFFICES ASSUME IInv, Generated, pc = "end",
                      \A j \in 1..Len(cmd_list_) : cmd_list_[j].type_ # "RENAME"
               PROVE  AllSucceed(new_seq)
    BY DEF WhatIsLeftSucceeds
  <2>1. cmd_list_ \in Seq(Cmd) /\ space \in Space /\ IssuedNames(cmd_list_, space)
    BY DEF Generated
  <2>2. PlainNames(cmd_list_)
    BY <2>1, IssuedArePlain
  <2>3. AllSucceed(cmd_list_) /\ KeptUseKept(cmd_list_, DOMAIN flags \ Removed)
    BY WhatIsLeft
  <2> QED BY <2>1, <2>2, <2>3, KeptRuns DEF new_seq
<1> QED BY <1>1, SpecGenerates, PTL
=============================================================================
