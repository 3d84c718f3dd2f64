------------------------------- MODULE Drivers -------------------------------
(***************************************************************************)
(* The programs that make packages of test cases: food.py, which can also  *)
(* start QEMU and have each case run there, b3Food.py, which only saves    *)
(* them, and GenSeq.py, which builds one package for run.py; with          *)
(* TestPackage.py, Qemu.py and process_exec of M4.py.                      *)
(*                                                                         *)
(* ./ctrl is no part of the repository: a process that it runs in may take *)
(* any time, and for ever.  food.py gives a test case a timeout, and none  *)
(* to what else it has ./ctrl do.  It counts seconds while a case runs:    *)
(* clock_ is the second of the wait it is in.                              *)
(***************************************************************************)
EXTENDS Integers, FiniteSets

CONSTANTS
  NrPackage,   \* config NR_TEST_PACKAGE
  NrCase,      \* config NR_TESTCASE_PER_PACKAGE
  Timeout      \* seconds that food.py waits for a case

ASSUME NumbersAssumption ==
  NrPackage \in Nat \ {0} /\ NrCase \in Nat \ {0} /\ Timeout \in Nat \ {0}

VARIABLES
  program_,      \* what was started, with its options
  at_,           \* where it is
  cnt_,          \* packages that are done with
  file_id_,      \* TestPackage.file_id_: the number of the next test case
  saved_,        \* the test cases in the package
  built_,        \* those of them with a .out file
  sources_,      \* the executor's sources are in the package
  cwd_,          \* where relative paths start: at "py-code" or in the "package"
  runner_,       \* run.py is in the package
  clock_,        \* seconds waited for the case
  worker_,       \* process_exec's worker for the case: none, starting or watching
  cases_,        \* the ./ctrl run-case processes
  kills_,        \* the workers of ./ctrl kill, by case
  removed_,      \* packages whose disk has been removed
  vm_,           \* QEMU runs
  qemu_thread_,  \* the worker that waits for it is alive
  interrupt_     \* where the program was when it was interrupted, or "none"

package == <<file_id_, saved_, built_, sources_, cwd_, runner_>>
testing == <<clock_, worker_, cases_, kills_, removed_>>
machine == <<vm_, qemu_thread_>>
driverVars == <<program_, at_, cnt_, package, testing, machine, interrupt_>>

Case == [pkg : 0..(NrPackage - 1), no : 1..NrCase, start : 0..(Timeout - 1)]
Current == <<cnt_, file_id_ - 1>>
Goto(place) == at_' = place /\ UNCHANGED <<program_, interrupt_>>

\* check_options: --qemu needs --test
Started ==
  {[name |-> n, test |-> FALSE, qemu |-> FALSE] : n \in {"GenSeq", "b3Food", "food"}}
    \cup {[name |-> "food", test |-> TRUE, qemu |-> q] : q \in BOOLEAN}

(***************************************************************************)
(* Packages                                                                *)
(***************************************************************************)
\* Mutant: the numbers go on from package to package
NewPackageNumbersOn ==
  /\ at_ = "packages"
  /\ cnt_ < IF program_.name = "GenSeq" THEN 1 ELSE NrPackage
  /\ saved_' = {}
  /\ Goto(IF program_.test THEN "disk" ELSE "cases")
  /\ UNCHANGED <<cnt_, file_id_, built_, sources_, cwd_, runner_, testing, machine>>

\* The loop over packages; GenSeq makes one.  food.py --test makes a disk for it.
NewPackage ==
  /\ at_ = "packages"
  /\ cnt_ < IF program_.name = "GenSeq" THEN 1 ELSE NrPackage
  /\ file_id_' = 1 /\ saved_' = {}
  /\ Goto(IF program_.test THEN "disk" ELSE "cases")
  /\ UNCHANGED <<cnt_, built_, sources_, cwd_, runner_, testing, machine>>

\* ./ctrl disk has ended, and whether it made the disk is only printed.
MakeDisk == at_ = "disk" /\ Goto("cases") /\ UNCHANGED <<cnt_, package, testing, machine>>

\* There is no ./ctrl, or what it prints is not text: no handler is for that.
DiskRaises == at_ = "disk" /\ Goto("exit") /\ UNCHANGED <<cnt_, package, testing, machine>>

\* generate_test_case saves the case under the next number.
GenerateCase ==
  /\ at_ = "cases" /\ file_id_ <= NrCase
  /\ saved_' = saved_ \cup {file_id_} /\ file_id_' = file_id_ + 1
  /\ Goto(IF program_.test THEN "run" ELSE "cases")
  /\ UNCHANGED <<cnt_, built_, sources_, cwd_, runner_, testing, machine>>

\* An assert of the generator ends the program.
GeneratorFails == at_ = "cases" /\ Goto("exit") /\ UNCHANGED <<cnt_, package, testing, machine>>

\* The end of a package: food.py --test removes its disk.
PackageDone ==
  /\ at_ = "cases" /\ file_id_ > NrCase /\ program_.name # "GenSeq"
  /\ removed_' = IF program_.test THEN removed_ \cup {cnt_} ELSE removed_
  /\ cnt_' = cnt_ + 1
  /\ Goto("packages")
  /\ UNCHANGED <<package, clock_, worker_, cases_, kills_, machine>>

AllDone ==
  /\ at_ = "packages" /\ cnt_ >= NrPackage
  /\ Goto("exit") /\ UNCHANGED <<cnt_, package, testing, machine>>

(***************************************************************************)
(* GenSeq.py: build_testcases, add_runner, add_wrappers                    *)
(***************************************************************************)
CopySources ==
  /\ at_ = "cases" /\ file_id_ > NrCase /\ program_.name = "GenSeq"
  /\ sources_' = TRUE /\ cwd_' = "package"
  /\ Goto("build")
  /\ UNCHANGED <<cnt_, file_id_, saved_, built_, runner_, testing, machine>>

Unbuilt == saved_ \ built_

BuildCase(no) ==
  /\ at_ = "build" /\ no \in Unbuilt /\ \A k \in Unbuilt : no <= k
  /\ built_' = built_ \cup {no}
  /\ UNCHANGED <<program_, at_, cnt_, file_id_, saved_, sources_, cwd_, runner_, testing,
                 machine, interrupt_>>

\* Mutant: back to the old directory on every return
BuildErrorGoesBack ==
  /\ at_ = "build" /\ Unbuilt # {}
  /\ Goto("add") /\ cwd_' = "py-code"
  /\ UNCHANGED <<cnt_, file_id_, saved_, built_, sources_, runner_, testing, machine>>

\* make has failed: build_testcases returns, in the package's directory.
BuildError ==
  /\ at_ = "build" /\ Unbuilt # {}
  /\ Goto("add")
  /\ UNCHANGED <<cnt_, package, testing, machine>>

BuildDone ==
  /\ at_ = "build" /\ Unbuilt = {}
  /\ sources_' = FALSE /\ cwd_' = "py-code"
  /\ Goto("add")
  /\ UNCHANGED <<cnt_, file_id_, saved_, built_, runner_, testing, machine>>

\* EXECUTOR_PATH is relative: from the package there is nothing to copy, and
\* shutil.copy raises.
AddRunner ==
  /\ at_ = "add"
  /\ runner_' = (cwd_ = "py-code")
  /\ Goto("exit")
  /\ UNCHANGED <<cnt_, file_id_, saved_, built_, sources_, cwd_, testing, machine>>

(***************************************************************************)
(* food.py --test: process_exec                                            *)
(***************************************************************************)
StartWorker ==
  /\ at_ = "run"
  /\ worker_' = "starting" /\ clock_' = 0
  /\ Goto("wait")
  /\ UNCHANGED <<cnt_, package, cases_, kills_, removed_, machine>>

\* The worker gets to Popen, in whatever second that is.
WorkerSpawns ==
  /\ worker_ = "starting" /\ clock_ < Timeout
  /\ worker_' = "watching"
  /\ cases_' = cases_ \cup {[pkg |-> cnt_, no |-> file_id_ - 1, start |-> clock_]}
  /\ UNCHANGED <<program_, at_, cnt_, package, clock_, kills_, removed_, machine, interrupt_>>

Watched == {c \in cases_ : worker_ = "watching" /\ <<c.pkg, c.no>> = Current}

\* Mutant: the worker waits as long as its parent
DueWithParent(c) == c.start + Timeout

\* communicate(timeout - 1) ends in this second of the wait.
Due(c) == c.start + Timeout - 1

CaseEnds(c) ==
  /\ cases_' = cases_ \ {c}
  /\ worker_' = IF c \in Watched THEN "none" ELSE worker_
  /\ UNCHANGED <<program_, at_, cnt_, package, clock_, kills_, removed_, machine, interrupt_>>

WorkerKills == \E c \in Watched : clock_ >= Due(c) /\ CaseEnds(c)

\* A second passes, but not before a worker has done what is due in it.
Tick ==
  /\ at_ = "wait" /\ clock_ < Timeout
  /\ \A c \in Watched : clock_ < Due(c)
  /\ clock_' = clock_ + 1
  /\ UNCHANGED <<program_, at_, cnt_, package, worker_, cases_, kills_, removed_, machine,
                 interrupt_>>

\* wait_for has ended: the worker, but not the process that it watches, is
\* terminated, and ./ctrl kill is started and not waited for.
Wake ==
  /\ at_ = "wait" /\ clock_ = Timeout
  /\ worker_' = "none"
  /\ kills_' = kills_ \cup {Current}
  /\ Goto("cases")
  /\ UNCHANGED <<cnt_, package, clock_, cases_, removed_, machine>>

KillEnds(k) ==
  /\ kills_' = kills_ \ {k}
  /\ UNCHANGED <<program_, at_, cnt_, package, clock_, worker_, cases_, removed_, machine,
                 interrupt_>>

(***************************************************************************)
(* food.py --qemu                                                          *)
(***************************************************************************)
StartQemu ==
  /\ at_ = "start" /\ program_.qemu
  /\ vm_' \in BOOLEAN /\ qemu_thread_' = vm_'
  /\ Goto("booting")
  /\ UNCHANGED <<cnt_, package, testing>>

\* The log has the login prompt: ./ctrl init.
SeesLogin == at_ = "booting" /\ Goto("init") /\ UNCHANGED <<cnt_, package, testing, machine>>

\* It has not: ./ctrl stop.
SeesNoLogin == at_ = "booting" /\ Goto("unbooted") /\ UNCHANGED <<cnt_, package, testing, machine>>

\* ./ctrl init has ended, and main() starts.
QemuReady == at_ = "init" /\ Goto("packages") /\ UNCHANGED <<cnt_, package, testing, machine>>

\* ./ctrl stop has ended, and main() starts all the same.
QemuGivenUp ==
  /\ at_ = "unbooted"
  /\ vm_' = FALSE /\ qemu_thread_' = FALSE
  /\ Goto("packages")
  /\ UNCHANGED <<cnt_, package, testing>>

\* There is no vm.log: open raises, outside the try.
NoLog == at_ = "booting" /\ Goto("exit") /\ UNCHANGED <<cnt_, package, testing, machine>>

VmEnds ==
  /\ vm_
  /\ vm_' = FALSE /\ qemu_thread_' = FALSE
  /\ UNCHANGED <<program_, at_, cnt_, package, testing, interrupt_>>

\* Mutant: the worker is terminated and QEMU is left to it
StopWorkerOnly ==
  /\ at_ = "stop"
  /\ qemu_thread_' = FALSE
  /\ Goto("exit")
  /\ UNCHANGED <<cnt_, package, testing, vm_>>

\* Qemu.stop, when its ./ctrl stop has ended
StopQemu ==
  /\ at_ = "stop"
  /\ vm_' = FALSE /\ qemu_thread_' = FALSE
  /\ Goto("exit")
  /\ UNCHANGED <<cnt_, package, testing>>

(***************************************************************************)
(* The end                                                                 *)
(***************************************************************************)
\* Mutant: the workers of cases are among those joined, as they are alive as long
\* as their processes are
JoinedWithCases == kills_ = {} /\ ~qemu_thread_ /\ cases_ = {}

\* multiprocessing joins the workers that are alive before the interpreter ends.
Joined == kills_ = {} /\ ~qemu_thread_

Exit == at_ = "exit" /\ Joined /\ Goto("ended") /\ UNCHANGED <<cnt_, package, testing, machine>>

\* Where main() of food.py is in the try
InMain == at_ \in {"packages", "disk", "cases", "run", "wait"}

\* Ctrl-C, once.  The workers get it, too, and end; what they wait for may go on.
\* Only in main() is it caught, and it ends the join.
DriverInterrupt ==
  /\ interrupt_ = "none" /\ at_ # "ended"
  /\ interrupt_' = at_
  /\ at_' = CASE at_ = "exit" -> "ended" [] program_.qemu /\ InMain -> "stop" [] OTHER -> "exit"
  /\ worker_' = "none" /\ kills_' = {} /\ qemu_thread_' = FALSE
  /\ cases_' \in SUBSET cases_
  /\ vm_' \in {vm_, FALSE}
  /\ UNCHANGED <<program_, cnt_, package, clock_, removed_>>

DriverInit ==
  /\ program_ \in Started
  /\ at_ = IF program_.qemu THEN "start" ELSE "packages"
  /\ cnt_ = 0 /\ file_id_ = 1
  /\ saved_ = {} /\ built_ = {} /\ sources_ = FALSE /\ cwd_ = "py-code" /\ runner_ = FALSE
  /\ clock_ = 0 /\ worker_ = "none" /\ cases_ = {} /\ kills_ = {} /\ removed_ = {}
  /\ vm_ = FALSE /\ qemu_thread_ = FALSE
  /\ interrupt_ = "none"

Build == CopySources \/ (\E no \in saved_ : BuildCase(no)) \/ BuildError \/ BuildDone \/ AddRunner
Main == NewPackage \/ GenerateCase \/ GeneratorFails \/ PackageDone \/ AllDone
Boot == StartQemu \/ SeesLogin \/ SeesNoLogin \/ NoLog
Test == StartWorker \/ WorkerKills \/ Tick \/ Wake
Ctrl == MakeDisk \/ DiskRaises \/ QemuReady \/ QemuGivenUp \/ StopQemu

DriverNext ==
  \/ Main \/ Build \/ Test \/ Boot \/ Exit
  \/ Ctrl
  \/ WorkerSpawns
  \/ \E c \in cases_ : CaseEnds(c)
  \/ \E k \in kills_ : KillEnds(k)
  \/ VmEnds
  \/ DriverInterrupt

\* The program goes on where it waits for nobody, or for a number of seconds.  No
\* ./ctrl need end, whatever it was told to do.
DriverFairness == WF_driverVars(Main \/ Build \/ Test \/ Boot \/ Exit)

DriverSpec == DriverInit /\ [][DriverNext]_driverVars /\ DriverFairness

(***************************************************************************)
(* Properties                                                              *)
(***************************************************************************)
Places == {"start", "booting", "init", "unbooted", "packages", "disk", "cases", "run", "wait",
           "build", "add", "stop", "exit", "ended"}

\* Every variable has its type.
DriverTypeOK ==
  /\ program_ \in Started /\ at_ \in Places /\ interrupt_ \in Places \cup {"none"}
  /\ cnt_ \in 0..NrPackage /\ file_id_ \in 1..(NrCase + 1)
  /\ built_ \subseteq saved_ /\ saved_ = 1..(file_id_ - 1)
  /\ sources_ \in BOOLEAN /\ cwd_ \in {"py-code", "package"} /\ runner_ \in BOOLEAN
  /\ clock_ \in 0..Timeout /\ worker_ \in {"none", "starting", "watching"}
  /\ cases_ \subseteq Case
  /\ kills_ \subseteq (0..(NrPackage - 1)) \X (1..NrCase)
  /\ removed_ \subseteq 0..(NrPackage - 1)
  /\ vm_ \in BOOLEAN /\ qemu_thread_ \in BOOLEAN

\* A case is not alive any more when food.py goes on to the next one, and to the
\* removal of the disk it runs on, unless its process was started a second or more
\* after its worker (M4.py:125-130: the worker waits one second less than its
\* parent), or an interrupt has ended the worker.
OneCaseAtATime ==
  \A c \in cases_ :
    \/ at_ = "wait" /\ <<c.pkg, c.no>> = Current
    \/ c.start > 0
    \/ interrupt_ # "none"

\* run.py is in a package only when each of its test cases has been built and the
\* executor's sources are gone: run.py takes what is there to be the whole package.
RunnerOnlyWhenBuilt == runner_ => saved_ = 1..NrCase /\ built_ = saved_ /\ ~sources_

\* QEMU outlives food.py only if it was interrupted before main() or, as it never
\* ends by itself while QEMU runs, after it: Qemu.stop is called nowhere else.
QemuStopped ==
  at_ = "ended" /\ vm_ => interrupt_ \in {"booting", "init", "unbooted", "exit"}

\* Where food.py waits for a ./ctrl without a timeout: disk, init and stop, and at
\* its end kill and start, whose workers are joined
WaitsForCtrl ==
  \/ at_ \in {"disk", "init", "unbooted", "stop"}
  \/ at_ = "exit" /\ (kills_ # {} \/ qemu_thread_)

\* No test case keeps the program, however long it takes and whatever is interrupted:
\* the program ends, or from some point on it waits for one ./ctrl that does not.
EndsUnlessCtrlDoesNot == <>(at_ = "ended") \/ <>[]WaitsForCtrl
=============================================================================
