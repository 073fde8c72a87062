------------------------------ MODULE Scheduler ------------------------------
(***************************************************************************)
(* The parallel executor of `revme bal-test` that sorts transactions by gas *)
(* (execute_blocks_par_scheduler) and its two ways to share them out: an    *)
(* unbounded channel the workers take from (channel_schedule), and every    *)
(* threads-th transaction for each worker (round_robin_schedule).           *)
(*                                                                         *)
(* A transaction is a record [gas_limit, gas_used, eip7702, valid] and a     *)
(* block a sequence of them; <<b, t>> is transaction t of block b.  Blocks   *)
(* run in chunks of `batch`.  A task carries its transaction and names its   *)
(* block by the position in the chunk, from which the workers look up the    *)
(* prestate, the access list and the environment: the number of the block    *)
(* stands for the three of them.                                            *)
(***************************************************************************)
EXTENDS Naturals, Sequences, SequencesExt, FiniteSets, FiniteSetsExt

CONSTANTS Threads       \* the size of the thread pool

VARIABLES phase,        \* of the main thread
          job,          \* [blocks, batch, order, skip_7702, scheduler]
          chunk,        \* chunks finished
          indexed_txs,  \* the tasks of this chunk, in the order they are shared out
          next_task,    \* how many the channel has given out
          taken,        \* the task each worker executes, 0 when it has none
          collected,    \* what each worker has collected, or sent (as worker 0)
          stopped,      \* the workers whose loop has ended
          panicked,     \* those that panicked
          results,      \* what the schedulers returned, chunk after chunk
          total_gas_used

schedvars == <<phase, job, chunk, indexed_txs, next_task, taken, collected,
               stopped, panicked, results, total_gas_used>>

Workers == 0..(Threads - 1)
NoJob == [blocks |-> <<>>, batch |-> 1, order |-> "None", skip_7702 |-> FALSE,
          scheduler |-> "ConsumerProducer"]

Idle ==
    /\ phase = "idle" /\ job = NoJob /\ chunk = 0 /\ indexed_txs = <<>> /\ next_task = 0
    /\ taken = [w \in Workers |-> 0] /\ collected = [w \in Workers |-> <<>>]
    /\ stopped = {} /\ panicked = {} /\ results = <<>> /\ total_gas_used = 0

Tx(id) == job.blocks[id[1]][id[2]]
Skipped(id) == job.skip_7702 /\ Tx(id).eip7702

(* mutant: the inputs are looked up among all blocks *)
InputsAt_unchunked(i) == i + 1
(* caches[i], bal_refs[i] and block_envs[i] of the chunk *)
InputsAt(i) == chunk * job.batch + i + 1

(* the tasks of the i-th block of the chunk, in block order *)
BlockTasks(i) ==
    LET b == chunk * job.batch + i + 1
    IN  [t \in DOMAIN job.blocks[b] |-> [tx_index |-> t - 1, tx |-> <<b, t>>, block_index |-> i]]
ChunkLen == Min({job.batch, Len(job.blocks) - chunk * job.batch})
ChunkTasks == FlattenSeq([i \in 1..ChunkLen |-> BlockTasks(i - 1)])

(* a stable sort by the key, ascending or descending *)
SortByKey(tasks) ==
    LET gas(i) == IF job.order = "GasUsedDescending" THEN Tx(tasks[i].tx).gas_used
                  ELSE Tx(tasks[i].tx).gas_limit
        first(i, j) == CASE job.order = "None" -> FALSE
                         [] job.order = "GasLimitAscending" -> gas(i) < gas(j)
                         [] OTHER -> gas(i) > gas(j)
        before(i, j) == first(i, j) \/ (~first(j, i) /\ i < j)
        at(n) == CHOOSE i \in DOMAIN tasks : Cardinality({j \in DOMAIN tasks : before(j, i)}) = n - 1
    IN  [n \in DOMAIN tasks |-> tasks[at(n)]]

(* mutant: what is skipped is counted *)
GasOf_skipped(tasks) == FoldSeq(LAMBDA task, sum : sum + Tx(task.tx).gas_used, 0, tasks)
GasOf(tasks) ==
    FoldSeq(LAMBDA task, sum : sum + (IF Skipped(task.tx) THEN 0 ELSE Tx(task.tx).gas_used), 0, tasks)

Start(j) ==
    /\ phase = "idle" /\ phase' = "prepare" /\ job' = j
    /\ UNCHANGED <<chunk, indexed_txs, next_task, taken, collected, stopped, panicked, results,
                   total_gas_used>>

(* the tasks of the next chunk are listed, sorted and sent, and the channel is closed *)
Prepare ==
    /\ phase = "prepare" /\ chunk * job.batch < Len(job.blocks)
    /\ phase' = "work" /\ indexed_txs' = SortByKey(ChunkTasks) /\ next_task' = 0
    /\ collected' = [w \in Workers |-> <<>>] /\ stopped' = {}
    /\ total_gas_used' = total_gas_used + GasOf(ChunkTasks)
    /\ UNCHANGED <<job, chunk, taken, panicked, results>>

(* mutant: a worker steps to the task after its own *)
NextFor_plus(w) ==
    LET i == IF job.scheduler = "ConsumerProducer" THEN next_task ELSE w + Len(collected[w])
    IN  IF i < Len(indexed_txs) THEN i + 1 ELSE 0
(* mutant: one task too many *)
NextFor_inclusive(w) ==
    LET i == IF job.scheduler = "ConsumerProducer" THEN next_task
             ELSE w + Threads * Len(collected[w])
    IN  IF i <= Len(indexed_txs) THEN i + 1 ELSE 0
(* the task a worker comes to next, 0 when there is none left for it *)
NextFor(w) ==
    LET i == IF job.scheduler = "ConsumerProducer" THEN next_task
             ELSE w + Threads * Len(collected[w])
    IN  IF i < Len(indexed_txs) THEN i + 1 ELSE 0

Take(w) ==
    /\ phase = "work" /\ w \notin stopped /\ taken[w] = 0
    /\ taken' = [taken EXCEPT ![w] = NextFor(w)]
    /\ stopped' = IF NextFor(w) = 0 THEN stopped \cup {w} ELSE stopped
    /\ next_task' = IF NextFor(w) = 0 THEN next_task ELSE next_task + 1
    /\ UNCHANGED <<phase, job, chunk, indexed_txs, collected, panicked, results, total_gas_used>>

(* what handle_tx gives for a task; a transaction that is skipped needs no inputs *)
Outcome(task) ==
    [bal_index |-> task.tx_index + 1, tx |-> task.tx,
     inputs |-> IF Skipped(task.tx) THEN 0 ELSE InputsAt(task.block_index),
     gas_used |-> IF Skipped(task.tx) THEN 0 ELSE Tx(task.tx).gas_used]

(* the worker that keeps the result: the sender, or its own vector *)
KeptBy(w) == IF job.scheduler = "ConsumerProducer" THEN 0 ELSE w

Execute(w) ==
    /\ taken[w] # 0
    /\ LET task == indexed_txs[taken[w]] IN
       /\ Skipped(task.tx) \/ Tx(task.tx).valid
       /\ collected' = [collected EXCEPT ![KeptBy(w)] = Append(@, Outcome(task))]
    /\ taken' = [taken EXCEPT ![w] = 0]
    /\ UNCHANGED <<phase, job, chunk, indexed_txs, next_task, stopped, panicked, results,
                   total_gas_used>>

(* handle_tx panics on a transaction that cannot be executed *)
Panic(w) ==
    /\ taken[w] # 0
    /\ LET id == indexed_txs[taken[w]].tx IN ~Skipped(id) /\ ~Tx(id).valid
    /\ taken' = [taken EXCEPT ![w] = 0]
    /\ stopped' = stopped \cup {w} /\ panicked' = panicked \cup {w}
    /\ UNCHANGED <<phase, job, chunk, indexed_txs, next_task, collected, results, total_gas_used>>

(* mutant: a worker that panicked is waited for *)
Collect_waiting ==
    /\ phase = "work" /\ stopped \ panicked = Workers
    /\ results' = results \o FlattenSeq([i \in 1..Threads |-> collected[i - 1]])
    /\ chunk' = chunk + 1 /\ phase' = "prepare"
    /\ UNCHANGED <<job, indexed_txs, next_task, taken, collected, stopped, panicked, total_gas_used>>
(* the pool returns when every worker has stopped, or passes the panic on *)
Collect ==
    /\ phase = "work" /\ stopped = Workers
    /\ IF panicked # {} THEN phase' = "panicked" /\ UNCHANGED <<results, chunk>>
       ELSE /\ results' = results \o FlattenSeq([i \in 1..Threads |-> collected[i - 1]])
            /\ chunk' = chunk + 1 /\ phase' = "prepare"
    /\ UNCHANGED <<job, indexed_txs, next_task, taken, collected, stopped, panicked, total_gas_used>>

Finish ==
    /\ phase = "prepare" /\ chunk * job.batch >= Len(job.blocks) /\ phase' = "done"
    /\ UNCHANGED <<job, chunk, indexed_txs, next_task, taken, collected, stopped, panicked, results,
                   total_gas_used>>

Work(w) == Take(w) \/ Execute(w) \/ Panic(w)
Step == Prepare \/ (\E w \in Workers : Work(w)) \/ Collect \/ Finish

(* the pool runs every worker, and the main thread goes on when they are done *)
Fairness == WF_schedvars(Prepare \/ Collect \/ Finish) /\ \A w \in Workers : WF_schedvars(Work(w))

-----------------------------------------------------------------------------
SchedTypeOK ==
    /\ phase \in {"idle", "prepare", "work", "panicked", "done"}
    /\ taken \in [Workers -> 0..Len(indexed_txs)] /\ panicked \subseteq stopped
    /\ stopped \subseteq Workers /\ next_task \in 0..Len(indexed_txs)

AllTxs == UNION {{<<b, t>> : t \in DOMAIN job.blocks[b]} : b \in DOMAIN job.blocks}
Outputs == results \o (IF phase = "work" THEN FlattenSeq([i \in 1..Threads |-> collected[i - 1]]) ELSE <<>>)

(* However the workers interleave, no transaction is executed twice or by two  *)
(* workers at once, and when the executor returns each was executed once.      *)
TxOnce ==
    /\ \A i, j \in DOMAIN Outputs : i # j => Outputs[i].tx # Outputs[j].tx
    /\ \A v, w \in Workers : v # w /\ taken[v] # 0 => taken[v] # taken[w]
    /\ \A w \in Workers : taken[w] # 0 =>
           \A i \in DOMAIN Outputs : Outputs[i].tx # indexed_txs[taken[w]].tx
    /\ phase = "done" => {results[i].tx : i \in DOMAIN results} = AllTxs

(* A transaction is executed with the inputs of its own block and at its own   *)
(* access list index, although tasks name their block by chunk position.       *)
OwnInputs ==
    \A i \in DOMAIN Outputs :
        /\ Outputs[i].bal_index = Outputs[i].tx[2]
        /\ Outputs[i].inputs \in {0, Outputs[i].tx[1]}

(* The total reported is the gas of the results, whatever was skipped.         *)
GasIsThatOfResults ==
    phase = "done" => total_gas_used = FoldSeq(LAMBDA r, sum : sum + r.gas_used, 0, results)

(* The executor has returned, or has panicked for an invalid transaction. *)
SchedulerEnded ==
    phase = "done" \/ (phase = "panicked" /\ \E id \in AllTxs : ~Tx(id).valid)

==============================================================================
