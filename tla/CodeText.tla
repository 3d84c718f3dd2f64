------------------------------ MODULE CodeText ------------------------------
(***************************************************************************)
(* A sequence as the C file it is saved in and read from: TestCase.py,     *)
(* with py-code/CodeWriter.py and py-code/CodeParser.py, which know the    *)
(* order of each function's arguments separately.                          *)
(*                                                                         *)
(* A line is the function that it calls and the arguments that a reduction *)
(* reads; the other parameters are words that pass through as they are.    *)
(***************************************************************************)
EXTENDS Commands

\* Executor functions, by the shape of their arguments: do_<fun> is written for
\* the type of that name.
ArgsOf(c) ==
  CASE c.type_ \in Makes \cup PathUses -> <<c.path_>>
    [] c.type_ \in Links -> <<c.old_path_, c.new_path_>>
    [] c.type_ \in Opens -> <<c.fd_, c.path_>>
    [] c.type_ \in FdUses -> <<c.fd_>>
    [] c.type_ \in Globals -> << >>

Syncs == {"SYNC", "FSYNC", "XSYNC"}
Marked(c) == [x \in {"is_last_"} \cup DOMAIN c |-> IF x = "is_last_" THEN TRUE ELSE c[x]]

\* expand_param: the last sync of a generated sequence is marked as such.
LastMarked(cmds) ==
  [i \in DOMAIN cmds |->
     IF /\ cmds[i].type_ \in Syncs
        /\ \A j \in (i + 1)..Len(cmds) : cmds[j].type_ \notin Syncs
     THEN Marked(cmds[i]) ELSE cmds[i]]

\* write_command: the executor has no chroot, its call is written as a comment.
Written(c) ==
  [fun |-> c.type_, args |-> ArgsOf(c), is_last |-> "is_last_" \in DOMAIN c,
   comment |-> c.type_ = "CHROOT"]

\* Mutant: the paths in the order of the constructors, new before old
CalledAsConstructed(line) ==
  CASE line.fun \in Makes \cup PathUses -> [type_ |-> line.fun, path_ |-> line.args[1]]
    [] line.fun \in Links ->
         [type_ |-> line.fun, new_path_ |-> line.args[1], old_path_ |-> line.args[2]]
    [] line.fun \in Opens -> [type_ |-> line.fun, fd_ |-> line.args[1], path_ |-> line.args[2]]
    [] line.fun \in FdUses -> [type_ |-> line.fun, fd_ |-> line.args[1]]
    [] line.fun \in Globals -> [type_ |-> line.fun]

\* The command that a line calls for, one parser for each shape of arguments
Called(line) ==
  CASE line.fun \in Makes \cup PathUses -> [type_ |-> line.fun, path_ |-> line.args[1]]
    [] line.fun \in Links ->
         [type_ |-> line.fun, old_path_ |-> line.args[1], new_path_ |-> line.args[2]]
    [] line.fun \in Opens -> [type_ |-> line.fun, fd_ |-> line.args[1], path_ |-> line.args[2]]
    [] line.fun \in FdUses -> [type_ |-> line.fun, fd_ |-> line.args[1]]
    [] line.fun \in Globals -> [type_ |-> line.fun]

\* parse_command finds the call in a comment, too; the parser of sync does not look
\* at the argument.
Parsed(line) ==
  IF line.is_last /\ line.fun # "SYNC" THEN Marked(Called(line)) ELSE Called(line)

\* all_fd_keys: those of the commands in the sequence that open one
AllFdKeys(cmds) == {c.fd_ : c \in {d \in ToSet(cmds) : d.type_ \in Opens}}

\* save_as: the declarations, and then the calls
Saved(cmds) ==
  [declared |-> AllFdKeys(cmds), calls |-> [i \in 1..Len(cmds) |-> Written(cmds[i])]]

\* from_file
ReadBack(file) == [i \in 1..Len(file.calls) |-> Parsed(file.calls[i])]

\* Every variable that a call which is no comment mentions is declared.
Compiles(file) ==
  \A i \in DOMAIN file.calls :
    LET call == file.calls[i]
    IN  ~call.comment /\ call.fun \in Opens \cup FdUses => call.args[1] \in file.declared
=============================================================================
