------------------------------ MODULE Commands ------------------------------
(***************************************************************************)
(* Commands and sequences of them as values: the fields of                 *)
(* py-code/Command.py that a reduction reads, what py-code/Sequence.py     *)
(* takes for the definition and the uses of a command, and what a sequence *)
(* does to a file system, so that it can be said which sequences run.      *)
(***************************************************************************)
EXTENDS Integers, FiniteSets, SequencesExt

CONSTANTS
  Types,    \* command types the sequences are made of
  MaxLen,   \* bound: commands in a sequence
  MaxNames, \* bound: names issued
  MaxFds    \* bound: descriptors issued

ASSUME LenAssumption == MaxLen \in Nat

(***************************************************************************)
(* Paths, descriptors and the name space.  A path is "/" and its names; a  *)
(* name is the number it was issued under.                                 *)
(***************************************************************************)
Root == <<"/">>
None == <<"None">>
Fd(n) == <<"fd", n>>
ParentDir(path) == IF path = Root THEN Root ELSE Front(path)

Empty == [dirs |-> {Root}, files |-> {}, others |-> {}, open |-> {}, names |-> 0, fds |-> 0]
Nodes(s) == s.dirs \cup s.files \cup s.others
At(s, path) == {q \in Nodes(s) : IsPrefix(path, q)}

Makes == {"MKDIR", "CREATE", "MKNOD"}
Links == {"SYMLINK", "HARDLINK", "RENAME"}
Opens == {"OPEN", "OPEN_TMPFILE"}
FdUses == {"CLOSE", "READ", "WRITE", "FSYNC"}
Globals == {"SYNC", "REMOUNT_ROOT"}
PathUses == {"REMOVE", "REDUCE", "XSYNC", "ENLARGE", "FALLOCATE", "WRITE_XATTR",
             "READ_XATTR", "STATFS", "DEEPEN", "CHROOT"}

\* Extended attributes are not followed here, and for the other three the executor has
\* no function: no case with one of these is built.
Untracked == {"WRITE_XATTR", "READ_XATTR", "XSYNC", "FALLOCATE", "REMOUNT_ROOT"}

\* The do_ function of c succeeds in the name space s, as far as paths and descriptors
\* go: the modes of an open file, and that the random names of ENLARGE or DEEPEN meet,
\* are left out.
Succeeds(s, c) ==
  \/ /\ c.type_ \in Makes
     /\ ParentDir(c.path_) \in s.dirs /\ c.path_ \notin Nodes(s)
  \/ /\ c.type_ \in {"SYMLINK", "HARDLINK"}
     /\ ParentDir(c.new_path_) \in s.dirs /\ c.new_path_ \notin Nodes(s)
     /\ c.type_ = "HARDLINK" => c.old_path_ \in s.files
  \/ /\ c.type_ = "RENAME"
     /\ c.old_path_ \in Nodes(s) \ {Root} /\ ParentDir(c.new_path_) \in s.dirs
     /\ ~IsPrefix(c.old_path_, c.new_path_)
     /\ c.new_path_ \in Nodes(s) =>
          {c.old_path_, c.new_path_} \subseteq s.dirs /\ At(s, c.new_path_) = {c.new_path_}
  \/ c.type_ = "OPEN" /\ c.path_ \in s.files
  \/ c.type_ = "OPEN_TMPFILE" /\ c.path_ \in s.dirs
  \/ c.type_ \in FdUses /\ c.fd_ \in s.open
  \/ c.type_ \in Globals \ Untracked
  \/ /\ c.type_ \in PathUses \ Untracked /\ c.path_ \in Nodes(s)
     /\ c.type_ \in {"REMOVE", "REDUCE"} => c.path_ # Root
     /\ c.type_ # "REMOVE" => c.path_ \in s.dirs \cup s.files
     /\ c.type_ \in {"DEEPEN", "CHROOT"} => c.path_ \in s.dirs

Without(s, gone) ==
  [s EXCEPT !.dirs = @ \ gone, !.files = @ \ gone, !.others = @ \ gone]

\* The name space after c has succeeded in s.  A file that is reduced is truncated; a
\* directory goes with all that is in it.
After(s, c) ==
  CASE c.type_ = "MKDIR" -> [s EXCEPT !.dirs = @ \cup {c.path_}]
    [] c.type_ = "CREATE" -> [s EXCEPT !.files = @ \cup {c.path_}]
    [] c.type_ = "MKNOD" -> [s EXCEPT !.others = @ \cup {c.path_}]
    [] c.type_ = "SYMLINK" -> [s EXCEPT !.others = @ \cup {c.new_path_}]
    [] c.type_ = "HARDLINK" -> [s EXCEPT !.files = @ \cup {c.new_path_}]
    [] c.type_ = "RENAME" ->
         LET moved(S) == {IF IsPrefix(c.old_path_, q)
                          THEN c.new_path_ \o SubSeq(q, Len(c.old_path_) + 1, Len(q))
                          ELSE q : q \in S}
         IN  [s EXCEPT !.dirs = moved(@), !.files = moved(@), !.others = moved(@)]
    [] c.type_ \in Opens -> [s EXCEPT !.open = @ \cup {c.fd_}]
    [] c.type_ = "CLOSE" -> [s EXCEPT !.open = @ \ {c.fd_}]
    [] c.type_ = "REMOVE" -> Without(s, At(s, c.path_))
    [] c.type_ = "REDUCE" -> IF c.path_ \in s.files THEN s ELSE Without(s, At(s, c.path_))
    [] OTHER -> s

\* All commands succeed, run one after the other from an empty file system.
AllSucceed(cmds) ==
  FoldLeft(LAMBDA run, c : [ok |-> run.ok /\ Succeeds(run.s, c), s |-> After(run.s, c)],
           [ok |-> TRUE, s |-> Empty], cmds).ok

(***************************************************************************)
(* What the generator pushes                                               *)
(***************************************************************************)
\* The commands that the builders offer in s: new names and descriptors are fresh,
\* and a rename may also replace an empty directory.
Offered(s) ==
  LET fresh == {Append(d, s.names + 1) : d \in IF s.names < MaxNames THEN s.dirs ELSE {}}
      new(t) == IF t = "RENAME" THEN fresh \cup s.dirs ELSE fresh
  IN  {[type_ |-> t, path_ |-> p] : t \in Types \cap Makes, p \in fresh}
      \cup (UNION {{[type_ |-> t, old_path_ |-> p, new_path_ |-> q] :
                    p \in Nodes(s), q \in new(t)} : t \in Types \cap Links})
      \cup {[type_ |-> t, path_ |-> p, fd_ |-> Fd(s.fds + 1)] :
            t \in Types \cap Opens, p \in IF s.fds < MaxFds THEN Nodes(s) ELSE {}}
      \cup {[type_ |-> t, fd_ |-> f] : t \in Types \cap FdUses, f \in s.open}
      \cup {[type_ |-> t] : t \in Types \cap Globals}
      \cup {[type_ |-> t, path_ |-> p] : t \in Types \cap PathUses, p \in Nodes(s)}

\* Count the name or the descriptor that c has used up.
Issue(s, c) ==
  CASE c.type_ \in Makes -> [s EXCEPT !.names = @ + 1]
    [] c.type_ \in Links /\ c.new_path_ \notin s.dirs -> [s EXCEPT !.names = @ + 1]
    [] c.type_ \in Opens -> [s EXCEPT !.fds = @ + 1]
    [] OTHER -> s

\* The commands that may be pushed when the commands before them have left s.
Pushes(s) == {c \in Offered(s) : Succeeds(s, c)}
Pushed(s, c) == After(Issue(s, c), c)

(***************************************************************************)
(* Definitions and uses                                                    *)
(***************************************************************************)
\* Mutant: an open file defines its path
DefOfPath(c) ==
  CASE c.type_ \in Makes \cup Opens -> c.path_
    [] c.type_ \in Links -> c.new_path_
    [] OTHER -> None

Def(c) ==
  CASE c.type_ \in Makes -> c.path_
    [] c.type_ \in Links -> c.new_path_
    [] c.type_ \in Opens -> c.fd_
    [] OTHER -> None

\* Mutant: what a link or a rename starts from is not used
UseOfParent(c) ==
  CASE c.type_ \in Makes -> {ParentDir(c.path_)}
    [] c.type_ \in Links -> {ParentDir(c.new_path_)}
    [] c.type_ \in FdUses -> {c.fd_}
    [] c.type_ \in Globals -> {}
    [] OTHER -> {c.path_}

Use(c) ==
  CASE c.type_ \in Makes -> {ParentDir(c.path_)}
    [] c.type_ \in Links -> {c.old_path_, ParentDir(c.new_path_)}
    [] c.type_ \in FdUses -> {c.fd_}
    [] c.type_ \in Globals -> {}
    [] OTHER -> {c.path_}

\* cmd_list_[:length], where a negative length counts from the end
Truncate(cmds, length) ==
  SubSeq(cmds, 1, IF length >= 0 THEN Min({length, Len(cmds)}) ELSE Len(cmds) + length)

\* The commands of cmds at the positions in S, in their order.
Kept(cmds, S) ==
  FoldLeftDomain(LAMBDA kept, j : IF j \in S THEN Append(kept, cmds[j]) ELSE kept, << >>, cmds)

(***************************************************************************)
(* filter_out, as its callers see it.  The positions that go with i: those *)
(* of its users, of their users, and so on; none before i.                 *)
(***************************************************************************)
Users(cmds, i, S) == {k \in i..Len(cmds) : \E r \in S : Def(cmds[r]) \in Use(cmds[k])}

\* Mutant: the users of users stay
DirectUsers(cmds, i) == {i} \cup Users(cmds, i, {i})

\* A chain of users is no longer than cmds.  (T \in {S} lets TLC compute S once.)
Dependents(cmds, i) ==
  FoldLeftDomain(LAMBDA S, round : UNION {T \cup Users(cmds, i, T) : T \in {S}}, {i}, cmds)

FilteredOut(cmds, i) == Kept(cmds, DOMAIN cmds \ Dependents(cmds, i))
=============================================================================
