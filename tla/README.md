# Dogfood: TLA+ models, checks and proofs

Dogfood tests file systems. A generator (`py-code/`) makes long sequences of file
system calls by growing an in-memory tree; the sequences are written as C files and
compiled with an executor (`executor/`); a runner (`executor/run.py`) runs each of
them on several file systems, which scripts (`wrappers/`) make and remove, and
compares what the executors report; a reducer shortens a test case that makes a kernel
fail. The modules here model the generator's tree, its test cases beside their execution,
the C text, the reducer, the runner and the programs that make packages of test cases. TLC
checks them on small instances, and TLAPS proves the central facts for all instances.

## 1. Inventory

| Component | State | Operations | Interacts with | Correct when |
|---|---|---|---|---|
| `FsTree`, `Jnode` (generator tree) | jnodes with type, `children_`, `parents_`, `num_symlinked_`; `node_count_`, `working_root_`, `fd_pool_` | `take_command`: one `_take_<op>` per command; `_add_node`, `_del_node`, `_del_subtree`, `_move_node`, lookups, `get_path` | built from and changed by `FsState` | both copies of the edges agree; directories form a tree; paths lead back; no command raises; counts go with what they count |
| `FsState`, `CommandBuilder`, pickers, `NameSpace`, `FileDescriptor` | sequence of commands, last name and descriptor issued | `rand_gen`, `kmeans_gen`: pick a type, pick jnodes below `working_root_`, build a command, take it | reads the tree, then changes it | every command built can be taken; there always is one; limits hold |
| `Sequence`, `Reducer` | list of commands; the test case that still reproduces a bug | `filter_out`, `truncate`, `binary_reduce`, `single_reduce` | test-case files, QEMU | what is left has no dangling uses, and still reproduces |
| `TestCase`, `CodeWriter`, `CodeParser`, `ConcatTestCase`, `B3TestCase`, `TestPackage` | files of C text, file number | save, parse | sequences | parsing gives back what was written |
| `ParamBuilder`, `Command`, `config` | none | fill parameters in | sequences | - |
| `food.py`, `b3Food.py`, `GenSeq.py` | package directory, loop counters | generate, build, run under `./ctrl` with a timeout | all of the above, child processes | one test at a time; a failed build is noticed |
| `M4`, `Qemu` | child processes | `process_exec` (timeout), start, stop | `./ctrl` (not in the repository) | a late child does not meet the next one |
| `executor.cc`, `syscall.cc`, `trace.cc` | open descriptors, trace, counters | `do_<op>`, `dump_trace` | the file system under test, `./trace.csv` | the tree predicts what happens; descriptors are not mixed up; the trace is dumped |
| `run.py` | host (below), results of the current test case, `issues_found` | `setup`, `run`, `teardown`, `compare_and_clear`, selection | wrapper scripts, executor, `./trace.csv` | every run on a fresh file system; nothing left behind; complete comparison; it ends |
| `wrappers/setup-*`, `teardown-*` | module `brd`, `/dev/ram0`, mount points | `mkdir`, `modprobe`, `mkfs`, `mount`; `umount`, `rmmod`, `rm` | the kernel | teardown undoes setup |
| `disk-cooker.py`, `FsOption.py` | none | random `mkfs` and `mount` options | - | - |

What is hard here: in the generator, long sequences of legal commands over doubly kept
edges (hard links, renames onto directories, removal of a directory that something
still refers to: a symlink's path, the working root); in the reducer, dependencies followed
by name and an answer that may be wrong one way; in the runner, scripts that fail
half-way, executors that crash, interrupts, a restart on the host as it was left, and
one `trace.csv` shared by all runs; between generator and executor, two descriptions of
each command that were written apart; in the drivers, two timeouts for one process and
workers that outlive what they watch. `PROJECT.json` lists each hazard at its line.

## 2. Modules

| Module | Models | Notes |
|---|---|---|
| `FsTree` | `FsTree.py`, `Jnode.py` | operators on the tree, one `Take<Op>` action per command |
| `FsState` | `FsState.py`, `CommandBuilder.py`, pickers, `NameSpace.py` | composes the builders with `FsTree`; the specification and its properties |
| `PathTree` | nothing in the code: the abstract name space | paths to jnodes; `Make`, `HardLink`, `RemoveTree`, `EmptyDir`, `MovePath` |
| `FsStateRefinement` | - | refinement mapping from the tree to `PathTree` |
| `MCFsState` | - | what TLC runs |
| `FsStateProofs`, `FsStateStepProofs` | - | theorems about `FsState`: its invariants, and what its steps do |
| `SequenceLemmas` | - | induction, prefixes, folds: what the proofs share |
| `Executor` | `executor.cc`, `syscall.cc` | one `Do<Op>` action for each `do_<op>` that GenSeq's configuration uses; the mounted file system as paths and inodes |
| `Execution` | the sequence of calls that `TestCase` saves | composes `FsState` and `Executor`, command by command |
| `MCExecution`, `ExecutionProofs` | - | TLC's module with its view, theorems |
| `Commands` | the fields of `Command.py`, definitions and uses in `Sequence.py`; the file system a sequence runs on | values only, no state |
| `CodeText` | `TestCase.py`, `CodeWriter.py`, `CodeParser.py` | a sequence as a C file and back; values only |
| `Sequence` | `Sequence.py` | `filter_out`, one step for each test of its inner loop |
| `Reducer` | `reducer.py`, `TestCase.py` as far as it is used there | both passes; uses `FilteredOut` of `Commands` for `filter_out` |
| `MCSequence`, `MCReducer` | - | TLC's modules |
| `CommandsProofs`, `SequenceProofs`, `ReducerProofs` | - | lemmas about sequences of commands, theorems about `Sequence` and `CodeText`, and about `Reducer` |
| `Runner` | `run.py`, `wrappers/*`, the executor as the runner sees it | its properties, and fairness |
| `MCRunner` | - | TLC's module |
| `Drivers` | `food.py`, `b3Food.py`, `GenSeq.py`, `TestPackage.py`, `Qemu.py`, `process_exec` of `M4.py` | one automaton that is told which program runs |
| `MCDrivers` | - | TLC's module |
| `ProgramsProofs` | - | theorems about the two kinds of programs that run processes, `Runner` and `Drivers` |

### The generator's tree

A jnode is its `jnode_id_`; `Jnode` objects are the indices of the functions `type_`,
`children_`, `parents_`, `num_symlinked_` and `target_path_`. `children_[d]` is a
sequence of entries, because Python dicts keep insertion order and both `child_name`
and the loops of `_del_subtree` depend on it; `parents_[n]` is a set, because its order
is used in random choices only. A name is the number that `unique_name` issued it under:
names differ in their suffix `foo_<n>`, and nothing depends on the random prefix but
one over-strict test (see below). A path is a sequence of names.

Each command type has one action in `FsState`, whose parameters are the arguments of the
command; `Next` quantifies over the visited jnodes and the paths `get_path` may return
for them, and the action takes the whole `_take_<op>` of `FsTree`. `RandomPicker` and `KmeansPicker` differ only in how likely a
pick is, so `rand_gen` and `kmeans_gen` are one loop. An exception (`Nonexistent`,
`FdException`, a failed `assert`, a missing dictionary key) is the branch `Raise` of the
action; it ends the generator, and `NoException` says that it is never taken.

`_del_subtree` recurses and deletes one edge at a time. `Stepwise` is a fold over its
edges in its order, with its lookups of symlink targets in the tree as it is by then;
`DelSubtree` is the closed form of what it leaves of the edges, which the proofs use.
`DeletionIsStepwise` checks that the two agree in every reachable tree.

Left out: `atime_`, `size_`, attributes, `sync_count_`, `get_vec` and `__hash__`
(they feed the clustering and hashing only); `READ`, `WRITE`, `SYNC`, `FSYNC`,
`XSYNC`, `STATFS`, `REMOUNT_ROOT` and `OPEN_TMPFILE`, which change nothing that is
modelled; numbers issued to candidates that are not chosen (no step can tell them from
numbers never issued). `_build_rename` compares paths as strings, so it also forbids
renames between names one of which is a string prefix of the other; the model compares
paths by components and so allows more.

### The execution of a test case

`Execution` takes each command twice: into the generator's tree (`Gen<Op>`) and, as the call
that `CodeWriter` writes for it, on the mounted file system (`Do<Op>`). In the code the run
comes after the whole generation; as it does not feed back, the order makes no difference.
Only the commands that `config.py` gives a probability under 'Seq' are in it: the others
need root, or are not declared in `executor.h`.

`disk_` maps each path to its kind, its inode and, for a symlink, its target; an inode is
the number of the name it was made under. `foreign_` says which directories hold entries with
random names, from `ENLARGE` or `DEEPEN`. `open_` is the process's table of descriptors, where
an open takes the lowest free number; `fd_` has the C variables, -1 being `NotOpen`. `creat`
opens, and nothing closes what it opened. `entry_` is the last entry of the trace: what the
properties compare is the command that was reported and whether it succeeded.
What the calls do is the part outside the repository: `rename(2)` puts a directory in the
place of an empty one only, a path that goes through no directory fails, `remove_all` on a
mount point throws when everything below it has gone.

`InStep` is the relation that matters: the paths, kinds, targets and hard links on the disk are
those of the tree. `StaysInStep` says which calls may break it, `FailuresAreExplained` which
calls may fail while it holds and why. Directories reduced by `do_reduce`, where the tree
keeps them, are the reason that it does not hold for good.

### The text of a test case

`Saved` is a file: the declared descriptors, and a line for each command with its arguments in
the order of the C function. `ReadBack` parses it. Parameters that a reduction does not look at
pass through both as words and are left out, but for the mark that `expand_param` puts on the
last sync, which does not pass: the parser of `sync` drops it.

### The reducer

A command is a record with the fields of its class that a reduction reads. Types with one
definition rule and one use rule form a group (`Makes`, `Links`, ...), as in
`_fetch_command_def` and `_fetch_command_use`. Sequences are pushed together the way the
generator does: names and descriptors are fresh, and each command succeeds after those
before it. `Succeeds` and `After` are the executor's `do_` functions on the file system under
test, reduced to which paths and descriptors there are; they say which sequences still run after
a reduction. `do_reduce` truncates a file and removes a directory with all that is in it, so a
REDUCE takes the directory away as a REMOVE does, although the generator's tree keeps it. Commands
in `Untracked` are in no sequence: the executor has no function for three of them, and extended
attributes are not followed. The modes of open files are left out, and that the random names of
`ENLARGE` and `DEEPEN` may meet.

In `Sequence` the worklist of `filter_out` is a variable and every turn of the inner loop a
step, so that what is on the list and what is removed can be related at each point. Its
callers need only the result: `FilteredOut` takes the users in rounds, and
`CallersSeeTheWorklist` checks that this comes to the same. `Reducer` is built on that.

`Reducer` starts with a case read from `bingo.c` that has the bug. A bug is a sequence of at
most two commands, and a test case has it when they occur in it in this order. `Try` is one
run of `_reproduce`: the file is overwritten, and the log shows the bug or not. It may
miss a bug (QEMU does not start and `_reproduce` goes on, or the log is read before the
bug shows), and never shows one that is not there. Positions in `left`, `right` and `idx`
count from 0 as in the code; `Truncate` keeps Python's meaning of a negative length.

### The runner

The host is `loaded` (module `brd`), `disk` (what is on `/dev/ram0`, and whether a test
case ran there), `mounted` and `trace_csv`. The scripts are sequences of commands with
one action for each, so that a failure or an interrupt can fall between any two. The
Python side is `pc` with `index` and `fs` for the two loops, `workspace`, `outputs`,
`traces` and `issues_found`. `raising` is the exception that `except: fs.teardown(); raise`
holds back. A trace remembers the start, the test case and the system that wrote it;
`compare_and_clear` sees its text only. `ran` and `ended` are history variables.

From outside the repository, and modelled by how the scripts rely on it: `mkfs` refuses
a device with a mounted file system; `mkfs.btrfs`, `mkfs.f2fs` and `mkfs.xfs`, which the scripts
call without `-f`, also refuse one that still holds a file system, while `mkfs.ext4` writes over it
(it asks on a terminal only). Which systems refuse is open: `refusing` is any set of systems.
`rmmod brd` needs the device unmounted and drops its contents; `modprobe` of a loaded module
succeeds and leaves the device as it was. So after an interrupt between `mkfs` and `mount`, or between
`umount` and `rmmod`, each later start with such a system fails in its setup, until somebody
unloads `brd`; `FinishesUnlessDisturbed` therefore speaks of starts whose `mkfs` accepts the
device. Faults: `script` (any command of a
script fails), `crash` (the executor ends before its trace is dumped, or cannot open the
file), `raise` (an exception or interrupt in `run()`, which the handler meets),
`unread` (an exception while `trace.csv` is read, which the bare `except` swallows),
`interrupt` (a signal that ends the runner elsewhere).

### The batch drivers

`program_` is the program and its options, `at_` the place in it; a package is counters and
sets of test case numbers. `cwd_` matters because `build_testcases` changes into the package
and comes back only when all is built, while the runner is copied from a relative path.

`process_exec` with a timeout starts a worker that starts the process and waits for it one
second less than the parent waits for the worker. `clock_` is the second of that wait.
`Tick` lets a second pass only when the worker has done what is due: a worker that has the
process keeps time. When it gets to start the process is open (`WorkerSpawns`), and so is when the process
ends (`CaseEnds`). A worker that is terminated leaves the process it watched in `cases_`.
`./ctrl kill` runs without a timeout and is not waited for (`kills_`). `./ctrl disk`, `init` and
`stop` are waited for, without a timeout either: the program is at "disk", "init", "unbooted" (the
`stop` after a boot without a login prompt) or "stop" until they have ended. Whether the disk was
made is only printed, but the call may raise, past every handler (`DiskRaises`).

At the end `multiprocessing` joins the workers that are alive (`Joined`): those of
`./ctrl kill`, and the one that waits for QEMU. One interrupt may come at any time; it
reaches the workers, too, and the processes they wait for may or may not survive it.

## 3. Runs

| Run | Instance | Shows |
|---|---|---|
| `fs_tree` | jnodes 0..3, 4 names, 1 descriptor, all commands that matter | `TypeOK`, `EdgesMirrored`, `NamesAreUids`, `DirTree`, `PathsResolve`, `NoException`, `DeletionIsStepwise`, `CountDriftsByRenames`, `SymlinksAccounted` |
| `fs_paths` | jnodes 0..4, 4 names, `TREE_MAX_SIZE` 4, no MKNOD | `ImplementsPathTree`: each command is one step of a name space; `NamesKeepKind`, `SizeWithinLimit` |
| `execution` | jnodes 0..3, 3 names, 2 descriptors declared and 2 open at a time | `StaysInStep`, `FailuresAreExplained`, `DescriptorsAreOwn`, `SamePathSameKind` |
| `filter_out` | all sequences of up to 5 commands of 10 types, 3 names and 2 descriptors | `RemovesTheLeastClosedSet`, `CallersSeeTheWorklist`, `DescriptorsStayDeclared`, `SavedTextReadsBack`, `WhatIsLeftSucceeds`, `FilterOutReturns` |
| `reducer` | cases of up to 8 commands of 6 types (no RENAME), bugs of up to 2 | `ResultManifests`, `NothingMoreToTakeOut`, `CandidatesSucceed`, `PrefixIsAlmostShortest`, `Terminates` |
| `runner` | 2 systems, the `mkfs` of any of them refusing, 3 test cases, 2 faults, 3 starts | safety of the host and the comparison; it ends, and once a `mkfs` accepts it finishes |
| `drivers` | each of the programs, 2 packages of 2 cases, a timeout of 3 seconds | `OneCaseAtATime`, `RunnerOnlyWhenBuilt`, `QemuStopped`, `EndsUnlessCtrlDoesNot` |
| `fs_chroot`, `execution_reduce`, `runner_stale_trace`, `filter_out_dangling`, `reducer_prefix` | small | the findings below |

*Bounds.* Everything in the tree that can go wrong involves at most a directory, a
directory to move it into, a child, and a second link or a symlink to one of them: three
jnodes beside the root make all of these, and four names let a file be linked or renamed
after all have been made. With `TREE_MAX_SIZE = 4` the limit is reached.
For an execution three jnodes and three names make a directory with a file in it and
something to rename onto it, and a symlink that is left dangling; with two descriptors at a
time a `CREATE` uses up one that an `OPEN` then lacks. Two packages let a case meet the next
one and the removal of a disk, and three seconds let a worker start its process in time, late,
and too late. Two systems are
the least for a comparison and for one system to find what another left; two faults
let a failure meet the recovery from another; three starts let a second restart find what
the first one could not clean. Five commands make a rename onto a directory that was used
before under its old contents, the one way a user can come before a definition; eight are the
fewest on which `binary_reduce` halves twice. In the generator
sequences of commands are not bounded: TLC explores all
of the finite graph. `execution` uses a VIEW that leaves the last trace entry out: no step
reads it, and the properties that speak of it are about steps, each of which is checked
when it is taken from the first state found of those that differ in nothing else.
`CHECK_DEADLOCK FALSE`: the generator stops after an exception or when
names and jnodes run out, the reducer and the drivers when they are done, a test case that has aborted, the runner when it has ended and is not
started again.

*Fairness.* `FsState` states safety only: the generator may stop at any time. `FairSpec`
of `Runner` has weak fairness of the runner's own steps when nothing goes wrong: it is
one process that waits for its children, so the assumption is that scripts and the executor
end. The code does not ensure that for the executor (`subprocess.run` without a
timeout). Faults, interrupts and starts are not fair. `filter_out` and the reducer are
plain loops of one process: weak fairness of their steps says that they go on, and that the
waits in `_reproduce`, all of fixed length, end. In `Drivers` the steps are fair at which the
program waits for nobody or for a number of seconds, which includes that seconds pass and that
a worker ends the case it watches when its time is up. No `./ctrl` need ever end, whatever it was
told to do, and neither need QEMU. `EndsUnlessCtrlDoesNot` says that the program ends all the same,
or waits for good for one of those that it gives no timeout (`WaitsForCtrl`): `disk`, `init`, `stop`,
or at its end `kill` and QEMU. A test case that runs for ever does not keep it.

### Findings

1. `fs_chroot`: the working root may be removed. `CHROOT /a`, `REMOVE /a` leaves
   `working_root_` on a detached directory with the path `/`; later commands are built
   on it, are added to the real root, and every jnode of the tree is out of the pickers'
   sight (`FsTree.py:48` says nodes are selected under `working_root_`).
2. `execution_reduce`: a `REDUCE` of `/`, which the generator builds like any other, makes
   `remove_all` throw on the mount point (`syscall.cc:353`); nothing catches it and the process
   ends before `dump_trace`. No trace is generated (`README.md:32`).
3. `runner_stale_trace`: an executor that ends early is compared by the trace of the
   system tested before it, because `./trace.csv` is neither removed nor checked.
4. `filter_out_dangling`: after a rename of a directory, `filter_out` leaves commands on
   paths below its new name although it removed what made them (`reducer.py:46`: a
   "syscall and its dependencies").
5. `reducer_prefix`: when no shorter prefix shows the bug, `binary_reduce` drops the last
   command and saves a prefix without the bug (`reducer.py:44`). `self.test_case_` is not
   replaced by the prefix either, so the second pass starts from the whole sequence.

Met while modelling, without a run: at `TREE_MAX_SIZE` the assert `cmd is not None`
(`FsState.py:29`) can fail, as all types that are sure to yield a command are held back
(`NoCommand`; the configured 100000 is out of reach). `FsOption.py:104` lacks an `=`, which is
a NameError at import. `food.py --qemu` that was not interrupted does not end while QEMU runs. After a fault that leaves a
file system on the unmounted RAM disk no start of the runner succeeds with xfs, btrfs or f2fs (above).
`do_sync(true)` becomes `do_sync(false)` when a case is read and saved. `get_all_path` (`Jnode.py:40-52`), which nothing calls,
returns one path twice for a file with two names in one directory. And with renames
`NothingMoreToTakeOut` does not hold: for MKDIR /a, MKDIR /b, STATFS /a, RENAME /b /a and a bug
in the STATFS, taking out MKDIR /b takes the STATFS along (it uses the path that the RENAME
defines), and when the RENAME has gone MKDIR /b is not tried again.

## 4. Proofs

A theorem here holds for every value of the constants that the named `ASSUME`s of the
modules allow (`FsTree`, `FsState`, `Executor`, `Execution`, `Commands`, `Runner`, `Drivers`); TLC
evaluates these in the runs. The proofs about the tree are in two modules because they are long:
`FsStateProofs` has the invariants, `FsStateStepProofs` what steps do and what rests on that.

### The tree: `FsStateProofs`

- `LinksAreTyped`, `EdgesAreMirrored`: dicts hold no key twice, and `children_` and `parents_` are
  two copies of one relation. The invariant is `IInv == LinksTypeOK /\ Linked(children_,
  parents_)`: `EdgesMirrored` alone is not inductive, as without unique keys `del_child` could
  remove one of two entries of a name while `del_parent` removes the only link. There is a lemma
  for what a single edge does (`AddNodeLinked`, `DelNodeLinked`), one for whole subtrees
  (`DelSubtreeLinked`, `DelBelowLinked`), and one for each command; `_move_node` composes three.
- `CountCovers`, `SizeIsLimited`: `node_count_` is above the number of edges, so the assert of
  `_del_subtree` holds, and without MKNOD (not held back at the limit; with it the statement is
  false) the tree stays below TREE_MAX_SIZE. `Grows(t, u, k)` measures each helper: `u` is counted
  and has at most `k` edges more than `t`, where `k` is 1 for `AddNode`, -1 for `DelNode` and 0 for
  the deletions of subtrees. A rename is -1 + 0 + 1.
- `DirsAreATree`, `NamesStayUids`, `PathsAlwaysResolve`: the inductive `PathInv` gives the shape of
  the tree without speaking of paths. `Forest(ch, ty, H)`: only directories have entries; no name and
  no directory is an entry twice; what has entries is the root, is an entry itself, or is in `H`,
  which holds what hangs outside in the middle of a rename; and some rank grows along every edge,
  which excludes cycles. Paths come in by `Subtree`, the least set that is closed under entries:
  `WalkStaysIn` says that walks do not leave such a set, and `FoundIsWalk` that the asserts
  on the way hold. The crucial case is the rename of a directory: `NotBelowMoved` shows that
  the place it goes to, found from the root after the directory has been taken out, is not in the
  subtree that is moved. Besides, `PathInv` says that only issued names and created jnodes
  are in the tree.

### The tree: `FsStateStepProofs`

Each disjunct of `Next` is shown to have one of six effects on the edges (`StepEffect`: nothing, a new
jnode, a hard link, a subtree removed, a directory emptied, an edge moved); what follows is
proved from the effects.

- `NamesAreForOneKind`: a name never passes to a jnode of another kind; only an empty directory is
  replaced, by a directory.
- `OnlyRenamesDrift`: the edges that go and the edge that comes are counted for each effect; a
  directory that is replaced is counted as if it were one more edge.
- `TreeIsANameSpace`: `Spec => ImplementsPathTree`, the refinement. `Files` maps the tree to the
  function from paths to jnodes that `PathTree` is about. For each effect one lemma says which paths
  there are afterwards and where they lead (`AddedPaths`, `RemovedPaths`, `EmptiedPaths`,
  `UnlinkedPaths`, `RelinkedPaths`), by induction on the path, and one that this is an operation of
  `PathTree`. That the recursion of `LivePaths` ends is by the rank.
- `CommandsAreTaken` (`Spec => RaisesOnlyWithoutCommand`): no branch `Raise` of a command is ever
  taken. The one that needs an invariant is the `assert` of `_lookup_node` on the way to a
  symlink's target: `HeldInv` says that the paths held by symlinks go through names of directories
  (`Through`), which by `SameKind` stay such whatever is removed, moved or made anew.
- `NothingRaises`: `Spec => []NoException` under two assumptions, both true of `config.py`: a type
  that needs no jnode but a directory (MKDIR, CREATE or SYMLINK) is sampled each time, and the names
  of a run do not fill the tree (TREE_MAX_SIZE is 100000, a case has 1000 commands at most). Without
  them `NoCommand` may stop the generator. The invariant is `node_count_ <= foo_id_ + 1`.
- `DeletionsGoStepwise`: in every tree of `PathInv`, the fold over the edges in the order of
  `_del_subtree` leaves the entries, links and `node_count_` of the closed form `DelSubtree` (whose
  counts of symlinks are those of the fold itself). `BelowIs` shows that the order lists each edge of the subtree once (by induction
  on the rank, from the leaves up), `DeletesInOrder` what is left after each of its prefixes.
- `TreeIsTyped`: `Spec => []TypeOK`; `num_symlinked_` stays a number although deletions lower it
  for whatever a path leads to by then. What it counts (`SymlinksAccounted`) is model-checked.

### Test cases and their execution

`ExecutionProofs` proves `OwnDescriptors` (`RunSpec => []DescriptorsAreOwn`), `KindsAgree`
(`RunSpec => []SamePathSameKind`), `TreePredictsDisk` (`RunSpec => StaysInStep`) and
`FailuresHaveReasons` (`RunSpec => FailuresAreExplained`). For the first the invariant adds that only declared variables
are counted as open and that variables hold open descriptors or `NotOpen`: an open takes a free
number, so it can be nobody else's, a close takes away the number of one variable, and descriptors
that `do_create` leaves open are in nobody's variable. For the second, `InStep` is of no use, as
it is lost with the first REDUCE. `DiskInv` relates the two sides by names: the disk's paths are
closed under prefixes, and the last name of each was issued, and stands for the kind that the disk has
there wherever the tree has it (`NameKind`). A new name is not on the disk; a rename moves
paths whose last names stay, or makes the new name the kind of the old one on both sides.

For the other two, `Predicted` says without cardinalities what `InStep` says (`InStepIs`; that there
are finitely many paths is part of `InodeInv`). The refinement does most of the work: what a command
does to the tree is an operation of `PathTree` on `Files`, and the system call does the same
operation on `disk_`, so that both sides take over what they had, path by path
(`SourcesPredicted`), or get one path more (`PutPredicted`), whose inode is new because it bears a
name that was not issued before (`InodeInv`). The precondition of the operation is what the call
needs to succeed, and where it says less, as `MayMove` does of entries that the tree does not
know, that is the reason for the failure. `Foreseen` puts both together for a step.

`SequenceProofs` proves `FilterOutIsLeast`: `Spec => []RemovesTheLeastClosedSet`, for
sequences of any length and commands that define and use anything. The invariant has two
sides. `NoneTooMany`: what has been removed lies in every closed set that holds `idx`, for
each addition uses what a removed command defines. `NoneForgotten`: the users of each
removed command have been removed, are being removed by the inner loop, or its definition
waits on the worklist. At the end nothing waits, so what is removed is closed.

The other theorems on `Sequence` need to know what sequences are pushed. The invariant
`Generated` says: they run one command after another (`Leaves`: the file system they leave is
`space`), and no two commands create one name or open one descriptor (`IssuedNames`). On it rest:

- `LoopIsTyped`: `Spec => []TypeOK`.
- `WorklistIsRounds`: `Spec => []CallersSeeTheWorklist`. The rounds of `Dependents` are shown to
  come to the least closed set, too (`DependentsLeast`: each round that changes something adds a
  position, so as many rounds as there are positions are enough).
- `WhatIsLeftCompiles`: `Spec => []DescriptorsStayDeclared`. What is closed under uses takes along
  whatever uses a descriptor that is no longer opened (`KeptUseKept`).
- `WhatIsLeftReadsBack`: `Spec => []SavedTextReadsBack`, by type of command: the orders of
  arguments in `Saved` and `ReadBack` undo one another.
- `WhatIsLeftRuns`: `Spec => []WhatIsLeftSucceeds`. `KeptRuns` runs the whole sequence and what is
  left of it side by side. At each point the file system of the latter has every path and
  descriptor of the former but for those whose definitions were taken out, and perhaps some that
  the whole sequence has deleted by then (by a REMOVE or the REDUCE of a directory), which are in
  nobody's way as names are not issued twice.

`ReducerProofs` proves all invariants of `Reducer`:

- `ReducedManifests`: `Spec => []ResultManifests`. `bingo_c` alone is not inductive, as candidates
  without the bug overwrite it: the invariant is about `test_case_` until the last save.
- `PrefixIsShort`: `Spec => []PrefixIsAlmostShortest`. `SearchInv` says that the prefix
  at `left` does not have the bug if no run missed it, and that the one at `right` has it once any had. That longer
  prefixes have the bug if shorter ones do is `OccursInMore`: a bug occurs in a sequence as the
  image of an embedding, and embeddings compose.
- `CandidatesRun`: `Spec => []CandidatesSucceed`, by `KeptRuns` and the same for prefixes.
- `OnePassIsEnough`: `Spec => []NothingMoreToTakeOut`. `TriedInv` says that whatever is behind `idx`
  has been tried in vain. It stays so by `LaterTakenOut`: as a use comes after its definition
  (`InOrder`, which renames break), what goes with `i` from the longer sequence has gone before or
  goes with `i` from the shortened one, so that what is left of the shortened one lies in what was
  left when `i` was tried, and a bug in the former would have been seen in the latter.

The last two assume `"RENAME" \notin Types`. That is how the run has it, too: with renames both
statements are false of the code (finding 4, and "met while modelling" above), so that cases
without a RENAME are as far as they can go.

### The runner and the drivers

`ProgramsProofs` proves, for any number of systems, test cases, faults and starts, `RunsAreFresh`
(`FreshAtRun`) and `RunsLeaveNothing` (`CleanBetweenRuns`). Their `IInv` says what each position of the
two scripts may rely on (`SetupInv`, `TeardownInv`): nothing about the host before `mkfs` has
succeeded, all of it after. `BusyInv` is needed for the one case where a runner gets to its end
without any setup: it then never touched the host. On a second invariant, `GatherInv`, rest
`RunnerIsTyped`, `ComparisonsAreWhole` and `DifferencesAreCounted`: at each place of the loops,
the systems before the current one have their output and trace (`HasRun`, `Whole`), an
exception is held back in a teardown only, and each test case before this one has cost two
issues at most. That a case is selected in the order of the files (`Selection`) is shown to
be a sequence without repetition by induction on the number of cases.

Of the drivers it proves `DriverTypeCorrect`, `OneCase`, `RunnerAfterBuild` and `QemuIsStopped`, for
any number of packages and cases and any timeout. `DriverInv` needs, for `OneCaseAtATime`, that
cases are started once each and in order (`PastInv`), so that the one being watched is the
only one that may be alive, and that a worker which started its process in the first second
is done with it before the parent's wait is over (`WatchInv`); for QEMU, that it runs without
a worker only after an interrupt outside `main()` (`MachineInv`).

### Induction

`SequenceLemmas` has what these proofs share. Induction is stated with sets: `NatSetInduction` and
`SeqSetInduction` say that a set which holds the first number or sequence, and with each one the
next, holds them all, and what is to be proved is written as such a set. Folds and recursive
functions are unfolded from their definition as the one function that satisfies their
equations, whose existence is proved first.

### Model-checked only

Of the safety properties `SymlinksAccounted`. Its proof would need one more invariant, that a
symbolic link has at most one name, and an induction over the deletions of `Remove` and `Reduce`
that counts the links taken away. Of the others what is to happen in the end: `FilterOutReturns`
and `Terminates`, and the liveness of the runner and the drivers. Liveness and ENABLED are out of
the prover's reach.

## 5. Plan

1. (done) `FsTree`, `FsState`, `PathTree`, and the proof that the edges are mirrored.
2. (done) `Runner` and its proofs.
3. (done) `Commands`, `Sequence`, `Reducer` and their proofs.
4. (done) `Executor`, `Execution` and their proof; `CodeText`.
5. (done) `Drivers` and its proofs.
6. (done) The size of the tree against `node_count_` and the limit.
7. (done) All invariants of the tree but `SymlinksAccounted`, its action properties, its refinement
   of `PathTree`; the runner's remaining invariants; all properties of `Execution`; all invariants
   of `Sequence` and `Reducer`.
8. The proof that is left: `SymlinksAccounted`.

### Not modelled

`disk-cooker.py` and `FsOption.py` (command lines, run once, no state; the second does not
load), `ParamBuilder.py` (random parameters without state), `B3TestCase.py` (a text that nothing
reads back) and `ConcatTestCase.py` (used by no program), hashing and printing in `M4.py`, the
clustering of `KmeansPicker` and the vectors it works on, `__deep_copy__` (never called:
`copy.deepcopy` looks for `__deepcopy__`), and of the executor `do_open_tmpfile`,
`do_write_xattr`, `do_read_xattr` and `do_mknod`, which no generated test case that it is built
with calls. `./ctrl`, the kernel and the file systems are outside the repository; they
appear as what the code relies on.
