------------------------------- MODULE Runner -------------------------------
(***************************************************************************)
(* The differential test runner: executor/run.py with the scripts of       *)
(* wrappers/ it calls.  Every selected test case runs on every file        *)
(* system, each time on a file system that setup-<fs> has just made on the *)
(* one RAM disk and that teardown-<fs> removes again; then the outputs and *)
(* the traces of the test case are compared.                               *)
(*                                                                         *)
(* A script is a process with a step of its own for each command in it; a  *)
(* command may fail, a signal may end the runner between any two of them,  *)
(* the executor may end before it has dumped its trace, and the runner may *)
(* be started again on the host as it was left.                            *)
(***************************************************************************)
EXTENDS Integers, FiniteSets, SequencesExt

CONSTANTS
  NSystems,     \* how many setup-<fs> scripts there are
  Numbered,     \* test cases whose name is a number
  Named,        \* the others, by their alphabetical rank
  Limits,       \* values given for --from and --to
  NoLimit,      \* an option that is not given
  Faults,       \* what may go wrong: "script", "crash", "raise", "interrupt"
  MaxFaults,    \* bound: faults in a behaviour
  MaxStarts     \* bound: times the runner is started

ASSUME SystemsAssumption == NSystems \in Nat
ASSUME TestsAssumption ==
  /\ Numbered \subseteq Nat /\ Named \subseteq Nat
  /\ IsFiniteSet(Numbered) /\ IsFiniteSet(Named)
ASSUME LimitsAssumption == NoLimit \notin Nat /\ Limits \subseteq Nat
ASSUME BoundsAssumption == MaxFaults \in Nat /\ MaxStarts \in Nat

VARIABLES
  loaded,        \* the module brd is loaded: /dev/ram0 exists
  disk,          \* the file system on it, and whether a test case ran there
  mounted,       \* the systems whose mount point has it mounted
  refusing,      \* the systems whose mkfs, called without -f, spares an old file
                 \* system (btrfs, f2fs and xfs); ext4's writes over it
  trace_csv,     \* ./trace.csv: who wrote it, and the trace
  pc,            \* where run_testcases is
  step,          \* the next command of the script that runs
  raising,       \* an exception of run() waits for the teardown
  selected,      \* the test cases to run, in order
  index,         \* the test case that runs, as an index of selected
  fs,            \* the system it runs on
  workspace,     \* the systems whose __workspace is set
  outputs,       \* tc.outputs: system -> number of lines
  traces,        \* tc.traces: system -> what was read from ./trace.csv
  issues_found,
  ran,           \* history: system -> what its executor did for this test case
  ended,         \* history: why the runner ended
  faults, starts \* counts

hostVars == <<loaded, disk, mounted, refusing, trace_csv>>
resultVars == <<outputs, traces, issues_found, ran>>
vars == <<hostVars, resultVars, pc, step, raising, selected, index, fs,
          workspace, ended, faults, starts>>

Systems == 1..NSystems
Blank == [fs |-> 0, used |-> FALSE]
NoTrace == [start |-> 0, index |-> 0, fs |-> 0, text |-> 0]
TestCase == [numeric : {TRUE}, key : Numbered] \cup [numeric : {FALSE}, key : Named]

(***************************************************************************)
(* run_testcases: which test cases, in which order                         *)
(***************************************************************************)
\* compare: names that are numbers go last, by their value
Before(a, b) ==
  IF a.numeric = b.numeric THEN a.key < b.key ELSE b.numeric

\* A limit of 0 counts as none.
Selects(tc, first, last) ==
  \/ ~tc.numeric
  \/ /\ first \in {NoLimit, 0} \/ tc.key >= first
     /\ last \in {NoLimit, 0} \/ tc.key <= last

Selection(first, last) ==
  CHOOSE tests \in SetToSeqs({tc \in TestCase : Selects(tc, first, last)}) :
    \A i, j \in DOMAIN tests : i < j => Before(tests[i], tests[j])

(***************************************************************************)
(* The loop over test cases and systems                                    *)
(***************************************************************************)
SetupCommands == <<"mkdir", "modprobe", "mkfs", "mount">>
TeardownCommands == <<"umount", "rmmod", "rm">>

\* The test case number i begins: on the first system, or straight to the end
\* when there is none.
Begin(i) ==
  /\ index' = i
  /\ fs' = 1
  /\ step' = 1
  /\ pc' = IF i > Len(selected') THEN "done"
           ELSE IF NSystems = 0 THEN "compare" ELSE "setup"
  /\ ended' = IF i > Len(selected') THEN "done" ELSE "no"

\* An exception leaves run_testcases.
Fail(why) == pc' = "failed" /\ ended' = why

Fault(kind) ==
  /\ kind \in Faults /\ faults < MaxFaults
  /\ faults' = faults + 1

(***************************************************************************)
(* setup: the script setup-<fs>, one command at a time                     *)
(***************************************************************************)
InSetup(cmd) == pc = "setup" /\ SetupCommands[step] = cmd

\* What is left of setup's state when a command of the script succeeds.
NextCommand ==
  /\ step' = step + 1
  /\ UNCHANGED <<refusing, trace_csv, resultVars, pc, raising, selected, index, fs,
                 workspace, ended, faults, starts>>

Mkdir == InSetup("mkdir") /\ NextCommand /\ UNCHANGED <<loaded, disk, mounted>>

\* Loading brd again is no error.
Modprobe ==
  /\ InSetup("modprobe")
  /\ loaded' = TRUE
  /\ NextCommand
  /\ UNCHANGED <<disk, mounted>>

\* mkfs makes no file system on a device that is mounted, and most make none on
\* a device that still holds one.
MkfsAccepts == mounted = {} /\ (disk = Blank \/ fs \notin refusing)

Mkfs ==
  /\ InSetup("mkfs") /\ MkfsAccepts
  /\ disk' = [fs |-> fs, used |-> FALSE]
  /\ NextCommand
  /\ UNCHANGED <<loaded, mounted>>

\* The script prints the mount point, and setup() keeps it.
Mount ==
  /\ InSetup("mount")
  /\ mounted' = mounted \cup {fs}
  /\ workspace' = workspace \cup {fs}
  /\ pc' = "run" /\ step' = 1
  /\ UNCHANGED <<loaded, disk, refusing, trace_csv, resultVars, raising, selected,
                 index, fs, ended, faults, starts>>

\* Mutant: tryexit does not exit, as with -f
MkfsRefusedForced ==
  /\ InSetup("mkfs") /\ ~MkfsAccepts
  /\ NextCommand
  /\ UNCHANGED <<loaded, disk, mounted>>

\* SetupError: the exit code of the script is not 0.  There is no teardown.
MkfsRefused ==
  /\ InSetup("mkfs") /\ ~MkfsAccepts
  /\ Fail("setup")
  /\ UNCHANGED <<hostVars, resultVars, step, raising, selected, index, fs,
                 workspace, faults, starts>>

SetupFails ==
  /\ pc = "setup"
  /\ Fault("script")
  /\ Fail("setup")
  /\ UNCHANGED <<hostVars, resultVars, step, raising, selected, index, fs,
                 workspace, starts>>

(***************************************************************************)
(* run: the executor on the workspace                                      *)
(***************************************************************************)
\* Two traces, and two numbers of lines, are all a comparison can tell apart.
Texts == 1..2
Lines == 1..2

OwnTrace(text) == [start |-> starts, index |-> index, fs |-> fs, text |-> text]

\* The executor worked on the disk and left csv as ./trace.csv; run() returns
\* with the number of lines and the trace it read.
Ran(csv, own, read, lines) ==
  /\ disk' = [disk EXCEPT !.used = TRUE]
  /\ trace_csv' = csv
  /\ ran' = [ran EXCEPT ![fs] = own]
  /\ outputs' = [outputs EXCEPT ![fs] = lines]
  /\ traces' = [traces EXCEPT ![fs] = read]
  /\ pc' = "teardown" /\ step' = 1
  /\ UNCHANGED <<loaded, mounted, refusing, issues_found, raising, selected, index, fs,
                 workspace, ended, starts>>

\* Mutant: ./trace.csv is read before the executor has written it
RunReadsFirst ==
  /\ pc = "run"
  /\ \E text \in Texts, lines \in Lines :
       Ran(OwnTrace(text), OwnTrace(text), trace_csv, lines)
  /\ UNCHANGED faults

RunCompletes ==
  /\ pc = "run"
  /\ \E text \in Texts, lines \in Lines :
       Ran(OwnTrace(text), OwnTrace(text), OwnTrace(text), lines)
  /\ UNCHANGED faults

\* The executor ends before dump_trace (abort, exit in patch_path, a signal), or
\* dump_trace cannot open the file: run() reads the ./trace.csv there is.
RunCrashes ==
  /\ pc = "run"
  /\ Fault("crash")
  /\ \E lines \in Lines : Ran(trace_csv, NoTrace, trace_csv, lines)

\* Any exception while ./trace.csv is read, an interrupt too, is taken for a
\* trace that is not there.
TraceUnread ==
  /\ pc = "run"
  /\ Fault("unread")
  /\ \E text \in Texts, lines \in Lines :
       Ran(OwnTrace(text), OwnTrace(text), NoTrace, lines)

\* Mutant: the exception leaves at once
RunRaisesAtOnce ==
  /\ pc = "run"
  /\ Fault("raise")
  /\ disk' = [disk EXCEPT !.used = TRUE]
  /\ Fail("run")
  /\ UNCHANGED <<loaded, mounted, refusing, trace_csv, resultVars, step, raising,
                 selected, index, fs, workspace, starts>>

\* An exception in run() before that, as for output that is not text, or an
\* interrupt: it waits until the teardown is done.
RunRaises ==
  /\ pc = "run"
  /\ Fault("raise")
  /\ disk' = [disk EXCEPT !.used = TRUE]
  /\ trace_csv' \in {trace_csv} \cup {OwnTrace(text) : text \in Texts}
  /\ pc' = "teardown" /\ step' = 1 /\ raising' = TRUE
  /\ UNCHANGED <<loaded, mounted, refusing, resultVars, selected, index, fs,
                 workspace, ended, starts>>

(***************************************************************************)
(* teardown: the script teardown-<fs>, one command at a time               *)
(***************************************************************************)
InTeardown(cmd) == pc = "teardown" /\ TeardownCommands[step] = cmd

\* Mutant: the script leaves the file system mounted
UmountSkipped == InTeardown("umount") /\ NextCommand /\ UNCHANGED <<loaded, disk, mounted>>

Umount ==
  /\ InTeardown("umount") /\ fs \in mounted
  /\ mounted' = mounted \ {fs}
  /\ NextCommand
  /\ UNCHANGED <<loaded, disk>>

\* The RAM disk goes with the module.
Rmmod ==
  /\ InTeardown("rmmod") /\ mounted = {}
  /\ loaded' = FALSE /\ disk' = Blank
  /\ NextCommand
  /\ UNCHANGED mounted

\* Mutants: the loop leaves a system out; it does not move on
SkipOne(n) == n + 2
StayOn(n) == n

\* The next system of the loop over systems
Following(n) == n + 1

\* Mutant: the loop goes one too far
PastLast(n) == n > NSystems

IsLast(n) == n >= NSystems

\* The mount point goes, __workspace is cleared, and the exception that waited
\* leaves run_testcases; otherwise it is the turn of the next system.
Rm ==
  /\ InTeardown("rm")
  /\ workspace' = workspace \ {fs}
  /\ step' = 1
  /\ IF raising
     THEN Fail("run") /\ UNCHANGED fs
     ELSE /\ pc' = IF IsLast(fs) THEN "compare" ELSE "setup"
          /\ fs' = Following(fs)
          /\ UNCHANGED ended
  /\ UNCHANGED <<hostVars, resultVars, raising, selected, index, faults, starts>>

\* TeardownError replaces the exception that waited.
TeardownFails ==
  /\ pc = "teardown"
  /\ Fault("script")
  /\ Fail("teardown")
  /\ UNCHANGED <<hostVars, resultVars, step, raising, selected, index, fs,
                 workspace, starts>>

(***************************************************************************)
(* compare_and_clear                                                       *)
(***************************************************************************)
\* Mutant: it takes three of them to differ
DifferInThree(values) == Cardinality(values) > 2

Differ(values) == Cardinality(values) > 1

\* Outputs are compared by their number of lines, traces by their text.
Compare ==
  /\ pc = "compare"
  /\ LET lines == {outputs[f] : f \in Systems}
         texts == {traces[f].text : f \in Systems}
     IN  issues_found' = issues_found + (IF Differ(lines) THEN 1 ELSE 0)
                                      + (IF Differ(texts) THEN 1 ELSE 0)
  /\ outputs' = [f \in Systems |-> 0]
  /\ traces' = [f \in Systems |-> NoTrace]
  /\ ran' = [f \in Systems |-> NoTrace]
  /\ UNCHANGED selected
  /\ Begin(index + 1)
  /\ UNCHANGED <<hostVars, raising, workspace, faults, starts>>

(***************************************************************************)
(* The process                                                             *)
(***************************************************************************)
Running == pc \in {"setup", "run", "teardown", "compare"}

\* A signal ends the runner where no handler waits: outside of run(), whose
\* exceptions are RunRaises, or anywhere when it cannot be caught.
Interrupt ==
  /\ Running
  /\ Fault("interrupt")
  /\ Fail("interrupt")
  /\ UNCHANGED <<hostVars, resultVars, step, raising, selected, index, fs,
                 workspace, starts>>

\* run.py is started, with the options of before, on the host as it is.
Start ==
  /\ ~Running /\ starts < MaxStarts
  /\ starts' = starts + 1
  /\ selected' = selected
  /\ Begin(1)
  /\ raising' = FALSE
  /\ workspace' = {}
  /\ outputs' = [f \in Systems |-> 0]
  /\ traces' = [f \in Systems |-> NoTrace]
  /\ ran' = [f \in Systems |-> NoTrace]
  /\ issues_found' = 0
  /\ UNCHANGED <<hostVars, faults>>

Init ==
  /\ loaded = FALSE /\ disk = Blank /\ mounted = {} /\ trace_csv = NoTrace
  /\ refusing \in SUBSET Systems
  /\ pc = "new" /\ ended = "no" /\ step = 1 /\ index = 1 /\ fs = 1
  /\ raising = FALSE /\ workspace = {}
  /\ \E first, last \in Limits \cup {NoLimit} : selected = Selection(first, last)
  /\ outputs = [f \in Systems |-> 0]
  /\ traces = [f \in Systems |-> NoTrace]
  /\ ran = [f \in Systems |-> NoTrace]
  /\ issues_found = 0 /\ faults = 0 /\ starts = 0

\* What the runner, its scripts and the executor do when nothing goes wrong
Progress ==
  \/ Mkdir \/ Modprobe \/ Mkfs \/ MkfsRefused \/ Mount
  \/ RunCompletes
  \/ Umount \/ Rmmod \/ Rm
  \/ Compare

Next ==
  \/ Progress
  \/ SetupFails \/ RunCrashes \/ TraceUnread \/ RunRaises \/ TeardownFails
  \/ Interrupt
  \/ Start

Spec == Init /\ [][Next]_vars

\* The scripts and the executor end: run.py waits for them without a timeout.
FairSpec == Spec /\ WF_vars(Progress)

(***************************************************************************)
(* Properties                                                              *)
(***************************************************************************)
\* Every variable has its type, and a started runner is where its indices are.
TypeOK ==
  /\ loaded \in BOOLEAN /\ raising \in BOOLEAN
  /\ disk \in [fs : 0..NSystems, used : BOOLEAN]
  /\ mounted \subseteq Systems /\ workspace \subseteq Systems
  /\ refusing \subseteq Systems
  /\ selected \in Seq(TestCase)
  /\ pc \in {"new", "setup", "run", "teardown", "compare", "done", "failed"}
  /\ ended \in {"no", "done", "run", "setup", "teardown", "interrupt"}
  /\ pc \in {"setup", "run", "teardown"} => fs \in Systems /\ index \in DOMAIN selected
  /\ pc = "setup" => step \in DOMAIN SetupCommands
  /\ pc = "teardown" => step \in DOMAIN TeardownCommands
  /\ outputs \in [Systems -> {0} \cup Lines]
  /\ DOMAIN traces = Systems /\ DOMAIN ran = Systems
  /\ issues_found \in 0..(2 * Len(selected))
  /\ faults \in 0..MaxFaults /\ starts \in 0..MaxStarts

FreshDisk == disk = [fs |-> fs, used |-> FALSE]
CleanHost == ~loaded /\ disk = Blank /\ mounted = {} /\ workspace = {}

\* Differential testing needs like conditions: whatever failed before, in this or
\* an earlier start, a test case runs only where its system alone is mounted, on
\* a file system made for it, with no other test case's files (run.py:185-193).
FreshAtRun ==
  pc = "run" => loaded /\ mounted = {fs} /\ workspace = {fs} /\ FreshDisk

\* "tearing it down so setup script can be run again" (README.md:42): between two
\* systems, after the last one, and when run() raised, the host is as at first.
CleanBetweenRuns ==
  (\/ pc \in {"compare", "done"}
   \/ pc = "setup" /\ step = 1 /\ <<index, fs>> # <<1, 1>>
   \/ ended = "run") => CleanHost

\* What is compared is of every system, and of the executor of this test case on
\* that system if that one dumped its trace.
WholeTestCompared ==
  pc = "compare" =>
    \A f \in Systems :
      outputs[f] \in Lines /\ (ran[f] # NoTrace => traces[f] \in {ran[f], NoTrace})

\* "For each filesystem test trace is generated [...] Traces and outputs are
\* compared after each test" (README.md:32): a trace compared is the trace of this
\* test case on this system, if it is there at all.
TracesAreOwn ==
  pc = "compare" => \A f \in Systems : traces[f] \in {ran[f], NoTrace}

\* Two executors of one test case that dumped different traces are counted as an
\* issue, unless one of the traces could not be read.
DifferencesCounted ==
  [][pc = "compare" /\ pc' # "failed"
       /\ (\E f, g \in Systems : /\ NoTrace \notin {traces[f], ran[f], traces[g], ran[g]}
                                 /\ ran[f].text # ran[g].text)
     => issues_found' > issues_found]_vars

\* The runner ends, whatever fails.
Terminates == Running ~> ~Running

\* A runner that begins a setup where nothing is mounted compares all its test
\* cases, unless something fails from there on.  Where an earlier start left a file
\* system on the RAM disk that the mkfs of this setup spares, no start does: each
\* one ends with the script (setup-xfs:39-42).
FinishesUnlessDisturbed ==
  \A k \in 0..MaxFaults :
    (pc = "setup" /\ step = 1 /\ MkfsAccepts /\ faults = k)
      ~> (pc = "done" \/ faults > k)
=============================================================================
