----------------------------- MODULE TestRunner -----------------------------
(***************************************************************************)
(* `revme statetest`: paths are run one after the other, and the files of a *)
(* path by threads that share a queue, an error counter and a flag that lets *)
(* only the first failing test be run again with a trace.                   *)
(*                                                                         *)
(* A path is [exists, files] and a file [skip, parses, tests].  A test says  *)
(* how the run of its transaction compares with what it expects:            *)
(* [constantinople, tx_ok, expect_exception, fails, output, logs, root,      *)
(* panics], where output is "none", "same" or "other".                      *)
(***************************************************************************)
EXTENDS Naturals, Sequences, FiniteSets

CONSTANTS Parallelism   \* what the machine offers

VARIABLES cmd,          \* of the main thread: "idle", "paths", "join", "Ok", "Err", "exit"
          config,       \* [single_thread, trace, print_outcome, keep_going]
          paths, at_path,
          current_idx,  \* of the queue of files
          n_errors, FAILED, bar,
          runner,       \* the worker threads
          verdicts,     \* history: what became of each file of the path
          traced,       \* history: tests run again with a trace
          after_error   \* history: files taken since the counter left zero

runvars == <<cmd, config, paths, at_path, current_idx, n_errors, FAILED, bar, runner, verdicts,
             traced, after_error>>

Quiet ==
    /\ cmd = "idle" /\ config = [single_thread |-> FALSE, trace |-> FALSE, print_outcome |-> FALSE,
                                 keep_going |-> FALSE]
    /\ paths = <<>> /\ at_path = 1 /\ current_idx = 0 /\ n_errors = 0 /\ FAILED = FALSE /\ bar = 0
    /\ runner = <<>> /\ verdicts = <<>> /\ traced = 0 /\ after_error = 0

(* TestRunnerConfig::new *)
NewConfig(single_thread, trace, print_outcome, keep_going) ==
    [single_thread |-> single_thread \/ print_outcome \/ trace, trace |-> trace,
     print_outcome |-> print_outcome \/ trace, keep_going |-> keep_going]

determine_thread_count(single_thread, n_files) ==
    IF single_thread \/ Parallelism <= 1 THEN 1
    ELSE IF Parallelism < n_files THEN Parallelism ELSE n_files

validate_exception(t) == t.expect_exception = t.fails
(* the first of the checks that a test does not pass *)
check_evm_execution(t) ==
    CASE ~validate_exception(t) -> "UnexpectedException"
      [] validate_exception(t) /\ t.expect_exception -> "passed"
      [] OTHER -> IF t.output = "other" THEN "UnexpectedOutput"
                  ELSE IF ~t.logs THEN "LogsRootMismatch"
                  ELSE IF ~t.root THEN "StateRootMismatch" ELSE "passed"

(* the run of a test from the cached prestate, judged *)
execute_single_test(t) == check_evm_execution(t)
(* files known to be problematic are passed over *)
skip_test(file) == file.skip

Invoke(c, ps) ==
    /\ cmd = "idle" /\ cmd' = "paths" /\ config' = c /\ paths' = ps
    /\ UNCHANGED <<at_path, current_idx, n_errors, FAILED, bar, runner, verdicts, traced, after_error>>

Files == paths[at_path].files
Worker(pc) == [pc |-> pc, file |-> 0, test |-> 0, kind |-> "passed"]

(* run: the shared state is made afresh and the threads are spawned *)
Spawn ==
    /\ cmd = "paths" /\ at_path <= Len(paths) /\ paths[at_path].exists /\ Files # <<>>
    /\ cmd' = "join" /\ current_idx' = 0 /\ n_errors' = 0 /\ bar' = 0 /\ after_error' = 0
    /\ runner' = [i \in 1..determine_thread_count(config.single_thread, Len(Files)) |-> Worker("loop")]
    /\ verdicts' = [f \in DOMAIN Files |-> "untested"]
    /\ UNCHANGED <<config, paths, at_path, FAILED, traced>>

(* a path that is not there, or without tests, ends the command *)
BadPath ==
    /\ cmd = "paths" /\ at_path <= Len(paths) /\ ~(paths[at_path].exists /\ Files # <<>>)
    /\ cmd' = "Err"
    /\ UNCHANGED <<config, paths, at_path, current_idx, n_errors, FAILED, bar, runner, verdicts,
                   traced, after_error>>
PathsEnd ==
    /\ cmd = "paths" /\ at_path > Len(paths) /\ cmd' = "Ok"
    /\ UNCHANGED <<config, paths, at_path, current_idx, n_errors, FAILED, bar, runner, verdicts,
                   traced, after_error>>

At(i, pc) == cmd = "join" /\ i \in DOMAIN runner /\ runner[i].pc = pc

(* mutant: errors are not looked at between files *)
CheckErrors_never(i) ==
    /\ At(i, "loop") /\ runner' = [runner EXCEPT ![i].pc = "next"]
    /\ UNCHANGED <<cmd, config, paths, at_path, current_idx, n_errors, FAILED, bar, verdicts,
                   traced, after_error>>
CheckErrors(i) ==
    /\ At(i, "loop")
    /\ runner' = [runner EXCEPT ![i].pc =
                     IF ~config.keep_going /\ n_errors > 0 THEN "returned" ELSE "next"]
    /\ UNCHANGED <<cmd, config, paths, at_path, current_idx, n_errors, FAILED, bar, verdicts,
                   traced, after_error>>

(* mutant: a thread that finds the queue empty looks again *)
NextTest_again(i) ==
    /\ At(i, "next")
    /\ IF current_idx < Len(Files)
       THEN /\ current_idx' = current_idx + 1
            /\ runner' = [runner EXCEPT ![i] = [Worker("suite") EXCEPT !.file = current_idx + 1]]
       ELSE runner' = [runner EXCEPT ![i].pc = "loop"] /\ UNCHANGED current_idx
    /\ UNCHANGED <<cmd, config, paths, at_path, n_errors, FAILED, bar, verdicts, traced, after_error>>
(* next_test, under the lock of the queue *)
NextTest(i) ==
    /\ At(i, "next")
    /\ IF current_idx < Len(Files)
       THEN /\ current_idx' = current_idx + 1
            /\ runner' = [runner EXCEPT ![i] = [Worker("suite") EXCEPT !.file = current_idx + 1]]
            /\ after_error' = IF n_errors > 0 THEN after_error + 1 ELSE after_error
       ELSE /\ runner' = [runner EXCEPT ![i].pc = "returned"]
            /\ UNCHANGED <<current_idx, after_error>>
    /\ UNCHANGED <<cmd, config, paths, at_path, n_errors, FAILED, bar, verdicts, traced>>

File(i) == Files[runner[i].file]
TestOf(i) == File(i).tests[runner[i].test + 1]
Gives(i, kind) == runner' = [runner EXCEPT ![i].pc = "report", ![i].kind = kind]

(* execute_test_suite: the whole file is passed over, or read in vain *)
SuiteEnds(i) ==
    /\ At(i, "suite")
    /\ \/ (skip_test(File(i)) \/ (File(i).parses /\ runner[i].test = Len(File(i).tests))) /\ Gives(i, "passed")
       \/ ~skip_test(File(i)) /\ ~File(i).parses /\ Gives(i, "SerdeDeserialize")
    /\ UNCHANGED <<cmd, config, paths, at_path, current_idx, n_errors, FAILED, bar, verdicts,
                   traced, after_error>>

(* one test of the file *)
RunTest(i) ==
    /\ At(i, "suite") /\ ~skip_test(File(i)) /\ File(i).parses /\ runner[i].test < Len(File(i).tests)
    /\ ~TestOf(i).panics
    /\ LET t == TestOf(i)
           kind == IF t.constantinople \/ (~t.tx_ok /\ t.expect_exception) THEN "passed"
                   ELSE IF ~t.tx_ok THEN "UnknownPrivateKey" ELSE execute_single_test(t)
       IN  IF kind = "passed" THEN runner' = [runner EXCEPT ![i].test = @ + 1]
           ELSE IF ~t.tx_ok THEN Gives(i, kind)
           ELSE runner' = [runner EXCEPT ![i].pc = "failed", ![i].kind = kind]
    /\ UNCHANGED <<cmd, config, paths, at_path, current_idx, n_errors, FAILED, bar, verdicts,
                   traced, after_error>>

(* mutant: the flag is only read here *)
Failed_read(i) ==
    /\ At(i, "failed") /\ Gives(i, runner[i].kind)
    /\ traced' = IF config.print_outcome \/ FAILED THEN traced ELSE traced + 1
    /\ UNCHANGED <<cmd, config, paths, at_path, current_idx, n_errors, FAILED, bar, verdicts, after_error>>
(* FAILED.swap, and debug_failed_test for the one that finds the flag down *)
Failed(i) ==
    /\ At(i, "failed") /\ Gives(i, runner[i].kind)
    /\ FAILED' = IF config.print_outcome THEN FAILED ELSE TRUE
    /\ traced' = IF config.print_outcome \/ FAILED THEN traced ELSE traced + 1
    /\ UNCHANGED <<cmd, config, paths, at_path, current_idx, n_errors, bar, verdicts, after_error>>

(* a panic in a test ends the thread: nothing is counted *)
Panics(i) ==
    /\ At(i, "suite") /\ ~skip_test(File(i)) /\ File(i).parses /\ runner[i].test < Len(File(i).tests)
    /\ TestOf(i).panics
    /\ runner' = [runner EXCEPT ![i].pc = "panicked"]
    /\ verdicts' = [verdicts EXCEPT ![runner[i].file] = "panicked"]
    /\ UNCHANGED <<cmd, config, paths, at_path, current_idx, n_errors, FAILED, bar, traced, after_error>>

(* mutant: an error that does not end the thread is not counted *)
Report_uncounted(i) ==
    /\ At(i, "report") /\ bar' = bar + 1
    /\ LET ok == runner[i].kind = "passed" IN
       /\ n_errors' = IF ok \/ config.keep_going THEN n_errors ELSE n_errors + 1
       /\ verdicts' = [verdicts EXCEPT ![runner[i].file] = IF ok THEN "passed" ELSE "failed"]
       /\ runner' = [runner EXCEPT ![i].pc = IF ok \/ config.keep_going THEN "loop" ELSE "errored"]
    /\ UNCHANGED <<cmd, config, paths, at_path, current_idx, FAILED, traced, after_error>>
Report(i) ==
    /\ At(i, "report") /\ bar' = bar + 1
    /\ LET ok == runner[i].kind = "passed" IN
       /\ n_errors' = IF ok THEN n_errors ELSE n_errors + 1
       /\ verdicts' = [verdicts EXCEPT ![runner[i].file] = IF ok THEN "passed" ELSE "failed"]
       /\ runner' = [runner EXCEPT ![i].pc = IF ok \/ config.keep_going THEN "loop" ELSE "errored"]
    /\ UNCHANGED <<cmd, config, paths, at_path, current_idx, FAILED, traced, after_error>>

(* the threads are joined: the next path, an error, or the end of the process *)
JoinAll ==
    /\ cmd = "join" /\ \A i \in DOMAIN runner : runner[i].pc \in {"returned", "errored", "panicked"}
    /\ LET thread_errors == {i \in DOMAIN runner : runner[i].pc # "returned"}
           passed == n_errors = 0 /\ thread_errors = {}
       IN  /\ cmd' = IF passed THEN "paths" ELSE IF thread_errors = {} THEN "exit" ELSE "Err"
           /\ at_path' = IF passed THEN at_path + 1 ELSE at_path
    /\ UNCHANGED <<config, paths, current_idx, n_errors, FAILED, bar, runner, verdicts, traced,
                   after_error>>

Thread(i) ==
    \/ CheckErrors(i) \/ NextTest(i) \/ SuiteEnds(i) \/ RunTest(i) \/ Failed(i) \/ Panics(i) \/ Report(i)
RunnerMain == Spawn \/ BadPath \/ PathsEnd \/ JoinAll
RunnerStep == RunnerMain \/ \E i \in 1..Parallelism : Thread(i)

RunnerFairness == WF_runvars(RunnerMain) /\ \A i \in 1..Parallelism : WF_runvars(Thread(i))

-----------------------------------------------------------------------------
RunnerTypeOK ==
    /\ cmd \in {"idle", "paths", "join", "Ok", "Err", "exit"} /\ Len(runner) <= Parallelism
    /\ n_errors \in 0..bar /\ bar <= current_idx

(* what a test file deserves *)
Passes(file) ==
    file.skip \/ (file.parses /\ \A k \in DOMAIN file.tests :
                     LET t == file.tests[k] IN
                     t.constantinople \/ (~t.panics /\ IF t.tx_ok THEN check_evm_execution(t) = "passed"
                                                       ELSE t.expect_exception))

(* The command succeeds exactly when every test of every file of every path     *)
(* does: however the threads share the files, none is left out of a success      *)
(* and no success turns into an error.                                         *)
OutcomeIsTrue ==
    /\ cmd = "Ok" => \A p \in DOMAIN paths : paths[p].exists /\ \A f \in DOMAIN paths[p].files :
                                                Passes(paths[p].files[f])
    /\ cmd = "exit" => \E f \in DOMAIN Files : verdicts[f] = "failed"
    /\ cmd = "Err" /\ verdicts # <<>> /\ paths[at_path].exists /\ Files # <<>> =>
           \E f \in DOMAIN Files : verdicts[f] # "untested" /\ ~Passes(Files[f])

(* With keep_going every file is tested unless all threads panicked; without it *)
(* each other thread takes at most one more file after the first error.        *)
StopsOrKeepsGoing ==
    /\ ~config.keep_going => after_error <= Parallelism - 1
    /\ config.keep_going /\ cmd \in {"exit", "Err"} /\ runner # <<>> =>
           \/ \A f \in DOMAIN Files : verdicts[f] # "untested"
           \/ \A i \in DOMAIN runner : runner[i].pc = "panicked"
           \/ ~paths[at_path].exists \/ Files = <<>>

(* The second run with a trace, whose output must not be mixed with another's,  *)
(* happens once, and is not missed when a test failed.                         *)
TracedOnce ==
    /\ traced <= 1
    /\ cmd \in {"exit", "Err"} /\ ~config.print_outcome
       /\ (\E i \in DOMAIN runner : runner[i].kind \in {"UnexpectedException", "StateRootMismatch"})
       => traced = 1

(* The command has ended, whatever its threads met.                            *)
RunnerEnded == cmd \in {"Ok", "Err", "exit"}

==============================================================================
