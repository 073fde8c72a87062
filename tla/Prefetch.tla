------------------------------- MODULE Prefetch -------------------------------
(***************************************************************************)
(* PreBlockStateCache::batch_preblock_state_channel: the accounts of a chunk *)
(* are read in parallel, then their slots, by workers that take (address,    *)
(* slot) tasks from one channel and put values on another, from which a       *)
(* collector thread of its own fills the accounts.  Both channels close when  *)
(* their last sender is dropped.                                            *)
(***************************************************************************)
EXTENDS Naturals, Sequences, SequencesExt, FiniteSets

CONSTANTS Readers,      \* the threads of the global rayon pool
          Database      \* <<address, 0>> gives an account, <<address, slot>> a value

VARIABLES step,         \* of the calling thread
          bal_read,     \* the slots to read, by address
          faulty,       \* the keys the database fails to read
          infos,        \* the accounts read so far
          task_rx, res_rx,      \* the two channels
          res_senders,  \* who still holds a sender of the result channel
          reading,      \* what each reader has taken
          merged,       \* the accounts, as the collector fills them
          collector,    \* "none", "running", "finished"
          cache         \* self.accounts

prevars == <<step, bal_read, faulty, infos, task_rx, res_rx, res_senders, reading, merged,
             collector, cache>>

None == <<>>
NoAccounts == [a \in {} |-> None]

Off ==
    /\ step = "idle" /\ bal_read = NoAccounts /\ faulty = {} /\ infos = NoAccounts /\ task_rx = {}
    /\ res_rx = <<>> /\ res_senders = {} /\ reading = [r \in Readers |-> None] /\ merged = NoAccounts
    /\ collector = "none" /\ cache = NoAccounts

Begin(reads, failing) ==
    /\ step = "idle" /\ step' = "accounts" /\ bal_read' = reads /\ faulty' = failing
    /\ UNCHANGED <<infos, task_rx, res_rx, res_senders, reading, merged, collector, cache>>

(* one account of the parallel map; an unwrap on a failed read panics *)
ReadAccount(a) ==
    /\ step = "accounts" /\ a \in DOMAIN bal_read \ DOMAIN infos
    /\ IF <<a, 0>> \in faulty THEN step' = "panicked" /\ UNCHANGED infos
       ELSE infos' = infos @@ (a :> [info |-> Database[<<a, 0>>], storage |-> NoAccounts]) /\ UNCHANGED step
    /\ UNCHANGED <<bal_read, faulty, task_rx, res_rx, res_senders, reading, merged, collector, cache>>

(* every slot is sent as a task, the sender dropped, the collector spawned, and *)
(* each reader given a sender for its results                                   *)
Spawn ==
    /\ step = "accounts" /\ DOMAIN infos = DOMAIN bal_read
    /\ task_rx' = UNION {{<<a, s>> : s \in bal_read[a]} : a \in DOMAIN bal_read}
    /\ merged' = infos /\ collector' = "running" /\ res_senders' = Readers \cup {"main"}
    /\ step' = "scope"
    /\ UNCHANGED <<bal_read, faulty, infos, res_rx, reading, cache>>

(* recv: a task, in the arbitrary order of the hash map they were sent from, or *)
(* the end of the channel, where the reader drops its sender                   *)
Recv(r) ==
    /\ step \in {"scope", "unwinding"} /\ r \in res_senders /\ reading[r] = None
    /\ \/ task_rx = {} /\ res_senders' = res_senders \ {r} /\ UNCHANGED <<task_rx, reading>>
       \/ /\ \E k \in task_rx : reading' = [reading EXCEPT ![r] = k] /\ task_rx' = task_rx \ {k}
          /\ UNCHANGED res_senders
    /\ UNCHANGED <<step, bal_read, faulty, infos, res_rx, merged, collector, cache>>

Send(r) ==
    /\ reading[r] # None /\ reading' = [reading EXCEPT ![r] = None]
    /\ IF reading[r] \in faulty
       THEN step' = "unwinding" /\ res_senders' = res_senders \ {r} /\ UNCHANGED res_rx
       ELSE /\ res_rx' = Append(res_rx, <<reading[r], Database[reading[r]]>>)
            /\ UNCHANGED <<step, res_senders>>
    /\ UNCHANGED <<bal_read, faulty, infos, task_rx, merged, collector, cache>>

Gather ==
    /\ collector = "running" /\ res_rx # <<>> /\ res_rx' = Tail(res_rx)
    /\ LET key == Head(res_rx)[1] IN
       merged' = IF key[1] \in DOMAIN merged
                 THEN [merged EXCEPT ![key[1]].storage = @ @@ (key[2] :> Head(res_rx)[2])] ELSE merged
    /\ UNCHANGED <<step, bal_read, faulty, infos, task_rx, res_senders, reading, collector, cache>>

GatherEnds ==
    /\ collector = "running" /\ res_rx = <<>> /\ res_senders = {} /\ collector' = "finished"
    /\ UNCHANGED <<step, bal_read, faulty, infos, task_rx, res_rx, res_senders, reading, merged, cache>>

(* mutant: the sender of the calling thread is not dropped *)
ScopeEnds_kept ==
    /\ step \in {"scope", "unwinding"} /\ res_senders \cap Readers = {}
    /\ step' = IF step = "scope" THEN "join" ELSE "panicked"
    /\ UNCHANGED <<bal_read, faulty, infos, task_rx, res_rx, res_senders, reading, merged, collector,
                   cache>>
(* the scope ends with its readers, and the last sender is dropped; a reader's *)
(* panic goes on in the calling thread                                        *)
ScopeEnds ==
    /\ step \in {"scope", "unwinding"} /\ res_senders \cap Readers = {}
    /\ step' = IF step = "scope" THEN "join" ELSE "panicked"
    /\ res_senders' = res_senders \ {"main"}
    /\ UNCHANGED <<bal_read, faulty, infos, task_rx, res_rx, reading, merged, collector, cache>>

(* mutant: the accounts are taken when the readers are done *)
Join_early ==
    /\ step = "join" /\ cache' = merged /\ step' = "done"
    /\ UNCHANGED <<bal_read, faulty, infos, task_rx, res_rx, res_senders, reading, merged, collector>>
Join ==
    /\ step = "join" /\ collector = "finished" /\ cache' = merged /\ step' = "done"
    /\ UNCHANGED <<bal_read, faulty, infos, task_rx, res_rx, res_senders, reading, merged, collector>>

Main == (\E a \in DOMAIN Database : ReadAccount(a[1])) \/ Spawn \/ ScopeEnds \/ Join
Collector == Gather \/ GatherEnds
Reader(r) == Recv(r) \/ Send(r)
PrefetchStep == Main \/ Collector \/ (\E r \in Readers : Reader(r))

(* threads are scheduled, and a receive returns when there is something to receive *)
PrefetchFairness ==
    WF_prevars(Main) /\ WF_prevars(Collector) /\ \A r \in Readers : WF_prevars(Reader(r))

-----------------------------------------------------------------------------
PrefetchTypeOK ==
    /\ step \in {"idle", "accounts", "scope", "unwinding", "join", "done", "panicked"}
    /\ collector \in {"none", "running", "finished"} /\ DOMAIN infos \subseteq DOMAIN bal_read
    /\ res_senders \subseteq Readers \cup {"main"}

(* Every slot that was asked for is still a task, held by one reader, on its   *)
(* way to the collector, or merged with the value of the database; and the      *)
(* cache that is handed over holds all of them and nothing else.               *)
SlotsNotLost ==
    LET where(k) == (IF k \in task_rx THEN 1 ELSE 0)
                    + Cardinality({r \in Readers : reading[r] = k})
                    + Cardinality({i \in DOMAIN res_rx : res_rx[i][1] = k})
                    + (IF k[2] \in DOMAIN merged[k[1]].storage THEN 1 ELSE 0)
        keys == UNION {{<<a, s>> : s \in bal_read[a]} : a \in DOMAIN bal_read}
    IN  /\ step \in {"scope", "join"} => \A k \in keys : where(k) = 1
        /\ step = "done" =>
               cache = [a \in DOMAIN bal_read |->
                           [info |-> Database[<<a, 0>>],
                            storage |-> [s \in bal_read[a] |-> Database[<<a, s>>]]]]

(* The call has returned, or panicked because a read failed; the collector      *)
(* thread, for which nobody waits in that case, has ended too.                 *)
PrefetchEnded ==
    \/ step = "done" /\ collector = "finished"
    \/ step = "panicked" /\ faulty # {} /\ collector # "running"

==============================================================================
