------------------------------ MODULE Commands ------------------------------
(***************************************************************************)
(* The commands of revme and dbtool that execute blocks and tests or copy a   *)
(* database, each as one behaviour of this module: the process is started      *)
(* with one of them (MainCmd::run, and the main of dbtool) and runs it to its   *)
(* end.                                                                     *)
(***************************************************************************)
EXTENDS Naturals, Sequences, FiniteSets, Inspect

CONSTANTS Threads, Readers, Database, Parallelism,
          Source, BatchSize, MaxCrashes,
          Jobs,         \* inputs of the scheduler
          Reads, Faults,        \* inputs of the prefetch
          Flags, PathLists,     \* inputs of the test runner
          Nothing, History, Beacon, ChainPaths, \* inputs of the block tests
          Sessions      \* inputs of inspected execution, with the constants of Inspect

VARIABLES phase, job, chunk, indexed_txs, next_task, taken, collected, stopped, panicked, results,
          total_gas_used
VARIABLES step, bal_read, faulty, infos, task_rx, res_rx, res_senders, reading, merged, collector, cache
VARIABLES cmd, config, paths, at_path, current_idx, n_errors, FAILED, bar, runner, verdicts, traced,
          after_error
VARIABLES importer, target, crashes
VARIABLES btest, world, ran

Sched == INSTANCE Scheduler
Fetch == INSTANCE Prefetch
Tests == INSTANCE TestRunner
Copy == INSTANCE Migration
Chains == INSTANCE BlockTests

schedvars == <<phase, job, chunk, indexed_txs, next_task, taken, collected, stopped, panicked,
               results, total_gas_used>>
prevars == <<step, bal_read, faulty, infos, task_rx, res_rx, res_senders, reading, merged,
             collector, cache>>
runvars == <<cmd, config, paths, at_path, current_idx, n_errors, FAILED, bar, runner, verdicts,
             traced, after_error>>
migvars == <<importer, target, crashes>>
btvars == <<btest, world, ran>>
vars == <<schedvars, prevars, runvars, migvars, btvars, tracevars>>

Init == Sched!Idle /\ Fetch!Off /\ Tests!Quiet /\ Copy!Parked /\ Chains!Closed /\ Untraced

Schedule == \E j \in Jobs : Sched!Start(j)
FetchState == \E reads \in Reads, f \in Faults : Fetch!Begin(reads, f)
Statetest == \E f \in Flags, ps \in PathLists : Tests!Invoke(Tests!NewConfig(f[1], f[2], f[3], f[4]), ps)
Blockchaintest == \E ps \in ChainPaths, keep_going \in BOOLEAN : Chains!Btest(ps, keep_going)
RunTrace == \E txs \in Sessions, first \in BOOLEAN : Trace(txs, first)

Next ==
    \/ /\ (Init /\ Schedule) \/ Sched!Step
       /\ UNCHANGED <<prevars, runvars, migvars, btvars, tracevars>>
    \/ /\ (Init /\ FetchState) \/ Fetch!PrefetchStep
       /\ UNCHANGED <<schedvars, runvars, migvars, btvars, tracevars>>
    \/ /\ (Init /\ Statetest) \/ Tests!RunnerStep
       /\ UNCHANGED <<schedvars, prevars, migvars, btvars, tracevars>>
    \/ /\ (Init /\ Copy!Launch) \/ Copy!MigrationStep
       /\ UNCHANGED <<schedvars, prevars, runvars, btvars, tracevars>>
    \/ /\ (Init /\ Blockchaintest) \/ Chains!BtestStep
       /\ UNCHANGED <<schedvars, prevars, runvars, migvars, tracevars>>
    \/ /\ (Init /\ RunTrace) \/ TraceStep
       /\ UNCHANGED <<schedvars, prevars, runvars, migvars, btvars>>

Fairness ==
    /\ Sched!Fairness /\ Fetch!PrefetchFairness /\ Tests!RunnerFairness
    /\ Copy!MigrationFairness /\ Chains!BtestFairness /\ TraceFairness

Spec == Init /\ [][Next]_vars /\ Fairness

-----------------------------------------------------------------------------
(* Work is neither lost nor done twice.  bal-test: every transaction of every      *)
(* chunk is executed once, by one worker, whichever scheduler of bal_test.rs shares  *)
(* them out, and with the inputs of its own block, although tasks name their block   *)
(* by its place in the chunk; the gas execute_blocks_par_scheduler reports is that   *)
(* of its results.  batch_preblock_state_channel loses no slot between its two       *)
(* channels, and the cache handed over is the database restricted to the slots read; *)
(* the migration copies every entry of every table, once per run, across restarts.   *)
WorkOnce ==
    /\ Sched!SchedTypeOK /\ Sched!TxOnce /\ Sched!OwnInputs /\ Sched!GasIsThatOfResults
    /\ Fetch!PrefetchTypeOK /\ Fetch!SlotsNotLost
    /\ Copy!MigrationTypeOK /\ Copy!CopiesAll

(* statetest succeeds exactly when every test does, however run_test_worker's     *)
(* threads share the files; keep_going tests every file, and without it at most   *)
(* one file per other thread is taken after the first error; execute_test_suite   *)
(* runs one failing test again with a trace, and only one.  btest leaves after     *)
(* each block the state its transactions, reward and withdrawals make, and         *)
(* succeeds only when every test meets its post state.                            *)
OutcomeIsTrue ==
    /\ Tests!RunnerTypeOK /\ Tests!OutcomeIsTrue /\ Tests!StopsOrKeepsGoing /\ Tests!TracedOnce
    /\ Chains!StateOfBlocks /\ Chains!BtestOutcome

(* Every command ends: the parallel executor returns, or panics for a transaction *)
(* handle_tx cannot execute; the prefetch leaves no thread behind; statetest ends  *)
(* whatever its threads meet; and so do every import of the migration, btest and       *)
(* every inspected transaction.                                                       *)
CommandsEnd ==
    ~Init ~> \/ Sched!SchedulerEnded \/ Fetch!PrefetchEnded \/ Tests!RunnerEnded
             \/ Copy!MigrationEnded \/ Chains!BtestEnded \/ TraceEnded

==============================================================================
