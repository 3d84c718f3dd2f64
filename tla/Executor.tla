------------------------------ MODULE Executor ------------------------------
(***************************************************************************)
(* The process that runs a test case (executor/executor.cc, syscall.cc,    *)
(* trace.cc): each do_<op> makes one or more system calls below            *)
(* g_workspace, reports one entry to the trace and returns.                *)
(*                                                                         *)
(* Paths and names are those of FsTree, and << >> is g_workspace, which    *)
(* run.py makes a mount point.  An inode is the number of the name it was  *)
(* made under.  Contents, modes and times of files are left out, and so    *)
(* are full disks: what matters is which paths and descriptors there are.  *)
(***************************************************************************)
EXTENDS Integers, FiniteSets, SequencesExt

CONSTANTS
  Declared,  \* the numbers k of the variables fd_k that the test case declares
  MaxOpen,   \* descriptors the process may have open, beside the standard ones
  NotOpen    \* -1: what the declaration and a failed open leave in a variable

ASSUME OpenAssumption == MaxOpen \in Nat /\ NotOpen \notin 1..MaxOpen

VARIABLES
  disk_,     \* path -> what is there
  foreign_,  \* <<inode of a directory, who put entries with random names there>>
  open_,     \* the descriptors that are open
  fd_,       \* fd_k -> the descriptor it holds
  entry_,    \* the last entry of the trace
  aborted_   \* an exception has ended the process

execVars == <<disk_, foreign_, open_, fd_, entry_, aborted_>>

\* append_trace: the name reported and whether the status is that of a success
Report(cmd, ok) == entry_' = [cmd |-> cmd, ok |-> ok]

(***************************************************************************)
(* The mounted file system                                                 *)
(***************************************************************************)
Paths == DOMAIN disk_
IsDir(path) == path \in Paths /\ disk_[path].kind = "DIR"
IsFile(path) == path \in Paths /\ disk_[path].kind = "FILE"
HasPlace(path) == path \notin Paths /\ IsDir(Front(path))
Under(path) == {q \in Paths : IsStrictPrefix(path, q)}
AtOrUnder(path) == {q \in Paths : IsPrefix(path, q)}
IsEmpty(path) == Under(path) = {} /\ \A f \in foreign_ : f[1] # disk_[path].ino

\* The paths in S go, with the foreign entries of the directories among them.
Drop(S) ==
  /\ disk_' = [q \in Paths \ S |-> disk_[q]]
  /\ foreign_' = {f \in foreign_ : \A q \in S : disk_[q].ino # f[1]}

Put(path, kind, ino, target) ==
  /\ disk_' = [q \in Paths \cup {path} |->
                 IF q = path THEN [kind |-> kind, ino |-> ino, target |-> target] ELSE disk_[q]]
  /\ UNCHANGED foreign_

Keep == UNCHANGED <<disk_, foreign_>>

\* Where path leads when symlinks are followed: a symlink to a symlink is longer
\* than the one it leads to was, so as many rounds as there are paths do.
Resolved(path) ==
  LET at[n \in 0..Cardinality(Paths)] ==
        IF n = 0 THEN path
        ELSE IF at[n - 1] \in Paths /\ disk_[at[n - 1]].kind = "SYMLINK"
             THEN disk_[at[n - 1]].target ELSE at[n - 1]
  IN  at[Cardinality(Paths)]

(***************************************************************************)
(* The descriptors of the process                                          *)
(***************************************************************************)
Free == (1..MaxOpen) \ open_
Lowest == {n \in Free : \A m \in Free : n <= m}
SameFds == UNCHANGED <<open_, fd_>>

(***************************************************************************)
(* The do_<op> functions                                                   *)
(***************************************************************************)
DoMake(cmd, path, kind, target) ==
  /\ IF HasPlace(path) THEN Put(path, kind, Last(path), target) ELSE Keep
  /\ Report(cmd, HasPlace(path))
  /\ SameFds /\ UNCHANGED aborted_

DoMkdir(path) == DoMake("MKDIR", path, "DIR", << >>)

\* Mutant: the paths change places
DoSymlinkSwapped(old, new) == DoMake("SYMLINK", old, "SYMLINK", new)

DoSymlink(old, new) == DoMake("SYMLINK", new, "SYMLINK", old)

\* creat opens the file that it makes; nothing closes it.
DoCreate(path) ==
  /\ \/ /\ HasPlace(path)
        /\ \E n \in Lowest : open_' = open_ \cup {n}
        /\ Put(path, "FILE", Last(path), << >>)
        /\ Report("CREATE", TRUE)
     \/ /\ ~HasPlace(path) \/ Free = {}
        /\ Report("CREATE", FALSE)
        /\ Keep /\ UNCHANGED open_
  /\ UNCHANGED <<fd_, aborted_>>

DoHardlink(old, new) ==
  LET ok == IsFile(old) /\ HasPlace(new) IN
  /\ IF ok THEN Put(new, "FILE", disk_[old].ino, << >>) ELSE Keep
  /\ Report("HARDLINK", ok)
  /\ SameFds /\ UNCHANGED aborted_

\* remove_dir goes through a directory by itself, whatever is in it.
DoRemove(path) ==
  /\ IF path \in Paths THEN Drop(AtOrUnder(path)) ELSE Keep
  /\ Report(IF path \notin Paths THEN "STAT" ELSE IF IsDir(path) THEN "RMDIR" ELSE "UNLINK",
            path \in Paths)
  /\ SameFds /\ UNCHANGED aborted_

\* rename(2): a directory may take the place of an empty one
MayMove(old, new) ==
  /\ old \in Paths /\ IsDir(Front(new))
  /\ new \in Paths => IsDir(old) /\ IsDir(new) /\ IsEmpty(new)

Moved(old, new, q) == new \o SubSeq(q, Len(old) + 1, Len(q))

DoRename(old, new) ==
  /\ IF MayMove(old, new)
     THEN /\ disk_' = [q \in (Paths \ (AtOrUnder(old) \cup {new}))
                               \cup {Moved(old, new, p) : p \in AtOrUnder(old)} |->
                         IF IsPrefix(new, q) THEN disk_[Moved(new, old, q)] ELSE disk_[q]]
          /\ UNCHANGED foreign_
     ELSE Keep
  /\ Report("RENAME", MayMove(old, new))
  /\ SameFds /\ UNCHANGED aborted_

DoOpen(fd, path) ==
  /\ \/ /\ IsFile(path)
        /\ \E n \in Lowest : open_' = open_ \cup {n} /\ fd_' = [fd_ EXCEPT ![fd] = n]
        /\ Report("OPEN", TRUE)
     \/ /\ ~IsFile(path) \/ Free = {}
        /\ fd_' = [fd_ EXCEPT ![fd] = NotOpen]
        /\ Report("OPEN", FALSE)
        /\ UNCHANGED open_
  /\ Keep /\ UNCHANGED aborted_

\* Mutant: the number of the variable is closed, and not what it holds
DoCloseNumber(fd) ==
  /\ open_' = open_ \ {fd}
  /\ Report("CLOSE", fd_[fd] \in open_)
  /\ Keep /\ UNCHANGED <<fd_, aborted_>>

DoClose(fd) ==
  /\ open_' = open_ \ {fd_[fd]}
  /\ Report("CLOSE", fd_[fd] \in open_)
  /\ Keep /\ UNCHANGED <<fd_, aborted_>>

\* do_read, do_write, do_fsync: every descriptor is opened O_RDWR.
DoUse(cmd, fd) ==
  Report(cmd, fd_[fd] \in open_) /\ Keep /\ SameFds /\ UNCHANGED aborted_

DoSync == Report("SYNC", TRUE) /\ Keep /\ SameFds /\ UNCHANGED aborted_

\* Directories with ten random characters for a name; in the root, which nothing
\* replaces, they are not counted.
DoEnlarge(path) ==
  /\ foreign_' = IF IsDir(path) /\ path # << >>
                 THEN foreign_ \cup {<<disk_[path].ino, "ENLARGE">>} ELSE foreign_
  /\ Report(IF path \notin Paths THEN "STAT" ELSE IF IsFile(path) THEN "TRUNCATE" ELSE "ENLARGE",
            path \in Paths)
  /\ UNCHANGED disk_ /\ SameFds /\ UNCHANGED aborted_

\* A chain of directories with one random character each: the first may be there
\* already from an earlier call.
DoDeepen(path) ==
  /\ \/ /\ IsDir(path)
        /\ foreign_' = foreign_ \cup {<<disk_[path].ino, "DEEPEN">>}
        /\ Report("DEEPEN", TRUE)
     \/ /\ IsDir(path) => <<disk_[path].ino, "DEEPEN">> \in foreign_
        /\ Report("MKDIR", FALSE)
        /\ UNCHANGED foreign_
  /\ UNCHANGED disk_ /\ SameFds /\ UNCHANGED aborted_

\* remove_all takes the directory itself, too; it throws when that is a mount point,
\* after what is in it has gone, and nothing catches it.
DoReduce(path) ==
  /\ \/ /\ IsDir(path) /\ path # << >>
        /\ Drop(AtOrUnder(path))
        /\ Report("REDUCE", TRUE)
        /\ UNCHANGED aborted_
     \/ /\ path = << >>
        /\ Drop(Under(path))
        /\ aborted_' = TRUE
        /\ UNCHANGED entry_
     \/ /\ ~IsDir(path)
        /\ Report(IF IsFile(path) THEN "TRUNCATE" ELSE "STAT", IsFile(path))
        /\ Keep /\ UNCHANGED aborted_
  /\ SameFds

DoStatFs(path) ==
  Report("STATFS", Resolved(path) \in Paths) /\ Keep /\ SameFds /\ UNCHANGED aborted_

ExecInit ==
  /\ disk_ = [q \in {<< >>} |-> [kind |-> "DIR", ino |-> 0, target |-> << >>]]
  /\ foreign_ = {} /\ open_ = {}
  /\ fd_ = [k \in Declared |-> NotOpen]
  /\ entry_ = [cmd |-> "none", ok |-> TRUE]
  /\ aborted_ = FALSE
=============================================================================
