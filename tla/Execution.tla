------------------------------ MODULE Execution ------------------------------
(***************************************************************************)
(* A generated test case and the run of it side by side: the generator     *)
(* takes a command into its tree, and the executor makes the call that     *)
(* CodeWriter writes for it.  The run does not feed back, so that it makes *)
(* no difference that the file is written, compiled and run after the last *)
(* command has been taken.                                                 *)
(*                                                                         *)
(* Only commands that executor.h declares and that config.py gives a       *)
(* probability under 'Seq', the configuration of GenSeq.py.                *)
(***************************************************************************)
EXTENDS FsStateRefinement, Executor

SeqTypes == {"MKDIR", "CREATE", "SYMLINK", "HARDLINK", "REMOVE", "OPEN", "CLOSE",
             "READ", "WRITE", "RENAME", "SYNC", "FSYNC", "ENLARGE", "REDUCE",
             "STATFS", "DEEPEN"}

\* What executor.h declares a do_<op> for; CHROOT is written as a comment.
Executable == SeqTypes \cup {"OPEN_TMPFILE", "WRITE_XATTR", "READ_XATTR", "MKNOD"}

ASSUME SeqAssumption == CommandTypes \subseteq SeqTypes /\ SeqTypes \subseteq Executable
ASSUME DeclaredAssumption == Declared = 1..MaxFd

runVars == <<vars, execVars>>

\* The commands that take_command passes over
GenPass(ty) == Builds(ty) /\ Relink(Tree) /\ NothingIssued

RunNames ==
  \E nm \in {n \in Numbers : FreshName(n)}, dir \in Dirs :
    \/ GenMkdir(dir, nm) /\ DoMkdir(Append(dir, nm))
    \/ GenCreate(dir, nm) /\ DoCreate(Append(dir, nm))
    \/ \E old \in PathsOf(PickAny) : GenSymlink(dir, nm, old) /\ DoSymlink(old, Append(dir, nm))
    \/ \E old \in PathsOf(PickFile) : GenHardlink(dir, nm, old) /\ DoHardlink(old, Append(dir, nm))
    \/ \E old \in PathsOf(PickAny \ {Root}) :
         GenRenameToFresh(dir, nm, old) /\ DoRename(old, Append(dir, nm))

RunOnPath ==
  \/ \E path \in PathsOf(PickAny) : GenRemove(path) /\ DoRemove(path)
  \/ \E r \in Replacements : GenRenameOntoEmptyDir(r[1], r[2]) /\ DoRename(r[1], r[2])
  \/ \E path \in PathsOf(PickNonlink) : GenReduce(path) /\ DoReduce(path)
  \/ \E path \in PathsOf(PickNonlink) : GenTouch("ENLARGE", path) /\ DoEnlarge(path)
  \/ \E path \in Dirs : GenTouch("DEEPEN", path) /\ DoDeepen(path)
  \/ \E path \in PathsOf(PickAny) : GenPass("STATFS") /\ DoStatFs(path)
  \/ GenPass("SYNC") /\ DoSync

RunOnFd ==
  \/ \E fd \in 1..MaxFd, path \in PathsOf(PickFile) : GenOpen(path, fd) /\ DoOpen(fd, path)
  \/ \E fd \in fd_pool_ : GenClose(fd) /\ DoClose(fd)
  \/ \E fd \in fd_pool_, ty \in {"READ", "WRITE", "FSYNC"} : GenPass(ty) /\ DoUse(ty, fd)

RunInit == Init /\ ExecInit
\* A test case is saved only if the generator lives.
RunNext == ~aborted_ /\ (RunNames \/ RunOnPath \/ RunOnFd) /\ ~raised'

RunSpec == RunInit /\ [][RunNext]_runVars

-----------------------------------------------------------------------------
(***************************************************************************)
(* Properties                                                              *)
(***************************************************************************)
At(path) == Walk(children_, path)

\* The file system under test is what the generator's tree says it is: the same
\* paths, and one inode for one jnode.
InStep ==
  /\ Paths = LivePaths
  /\ \A p \in Paths : /\ disk_[p].kind = type_[At(p)]
                      /\ disk_[p].target = target_path_[At(p)]
  /\ LET same == {<<disk_[p].ino, At(p)>> : p \in Paths}
     IN  /\ Cardinality(same) = Cardinality({x[1] : x \in same})
         /\ Cardinality(same) = Cardinality({x[2] : x \in same})

\* The tree predicts the file system: only the reduction of a directory, a rename
\* or a creat that fails part them (take_command of FsTree.py against the system
\* calls of syscall.cc, which were written apart).
StaysInStep ==
  [][\/ entry_'.cmd = "REDUCE" \/ aborted_'
     \/ entry_'.cmd \in {"RENAME", "CREATE"} /\ ~entry_'.ok
     \/ InStep => InStep']_runVars

\* While the tree is right no call fails but for a reason that the generator does
\* not keep track of: a symlink that leads nowhere, entries with random names, a
\* limit on descriptors.
FailuresAreExplained ==
  [][~entry_'.ok /\ ~aborted_' /\ InStep =>
       CASE entry_'.cmd = "STATFS" -> \E p \in Paths : Resolved(p) \notin Paths
         [] entry_'.cmd = "RENAME" -> \E p \in Paths : Under(p) = {} /\ ~IsEmpty(p)
         [] entry_'.cmd = "MKDIR" -> \E f \in foreign_ : f[2] = "DEEPEN"
         [] entry_'.cmd \in {"CREATE", "OPEN"} -> Free = {}
         [] entry_'.cmd \in {"CLOSE", "READ", "WRITE", "FSYNC"} ->
              \E fd \in fd_pool_ : fd_[fd] = NotOpen
         [] OTHER -> FALSE]_runVars

\* Each descriptor that the generator counts as open is held by one variable, and
\* is open in the process, unless its open failed: neither the descriptors that
\* do_create leaves open nor numbers used again after a close come between.
DescriptorsAreOwn ==
  \A k \in fd_pool_ :
    \/ fd_[k] = NotOpen
    \/ /\ fd_[k] \in open_
       /\ \A l \in fd_pool_ : fd_[l] = fd_[k] => l = k

\* A path keeps its kind even when tree and disk have parted: no call meets a
\* directory where a file was meant, or the "unknown file mode" of do_enlarge and
\* do_reduce, which would return without an entry in the trace.
SamePathSameKind ==
  \A p \in Paths \cap LivePaths : disk_[p].kind = type_[At(p)]

\* "For each filesystem test trace is generated in CSV format" (README.md:32): the
\* process gets to dump_trace.
TraceDumped == ~aborted_
=============================================================================
