------------------------------- MODULE MTCache -------------------------------
(***************************************************************************)
(* The thread-safe read path of the block-access-list executor             *)
(* (crates/flatdb/src/mtcache.rs, used by execute_blocks_par in            *)
(* bins/revme/src/cmd/bal_test.rs).                                        *)
(*                                                                         *)
(* Every transaction in flight owns an MTCache: a read-only database       *)
(* provider opened for it, a SharedCache shared by all transactions of the *)
(* chunk, and a queue of the state changes of the last committed chunks    *)
(* (latest in front).  A read consults the queue, then the shared cache,   *)
(* then - without holding any lock - the database, and finally publishes   *)
(* what it found with an insert-or-get on the shared map.  Between chunks  *)
(* the executor commits the chunk's access list to the database, pushes    *)
(* the committed values on the queue and starts a fresh SharedCache.       *)
(***************************************************************************)
EXTENDS Naturals, Sequences, FiniteSets

CONSTANTS
    Readers,    \* transactions in flight, one MTCache each
    Accounts,   \* keys of SharedCache.accounts
    Slots,      \* keys of SharedCache.storage: (address, slot) pairs
    Codes,      \* keys of SharedCache.contracts: code hashes
    Values,     \* account infos and slot values
    Missing,    \* no such account, a zero slot, an unknown code hash
    MaxLayers,  \* in_mem.len() is kept at 2 by execute_blocks_par
    MaxChunks   \* bound: number of chunks the executor commits

ASSUME KeysAssumption ==
    /\ Accounts \cap Slots = {} /\ Accounts \cap Codes = {}
    /\ Slots \cap Codes = {}
ASSUME ValuesAssumption == Missing \notin Codes
ASSUME BoundsAssumption == MaxLayers \in Nat \ {0} /\ MaxChunks \in Nat

VARIABLES
    db,       \* the database: Keys -> Stored
    layers,   \* in_memory: VecDeque<PreBlockState>, index 1 is the front
    cache,    \* SharedCache: the three maps as one partial function
    chunk,    \* chunks committed so far
    pc,       \* where each transaction is in its current read
    snap,     \* the database view its provider was opened on
    key,      \* the key of its last read
    buf,      \* the value fetched from the database, not yet published
    ret       \* what its last read returned

vars == <<db, layers, cache, chunk, pc, snap, key, buf, ret>>
readerVars == <<pc, snap, key, buf, ret>>

Keys == Accounts \cup Slots \cup Codes
\* A code hash maps to the code with that hash, or to nothing.
Stored == Values \cup {Missing} \cup Codes
NoProvider == <<>>
NoKey == <<>>
NoAnswer == [answer |-> "none"]
Answer(v) == [answer |-> "ok", value |-> v]

PartialStates == UNION {[D -> Stored] : D \in SUBSET Keys}
\* code_by_hash_ref does not look at the queue, and no code is put there.
LayerStates == {f \in PartialStates : DOMAIN f \cap Codes = {}}

(***************************************************************************)
(* A PreBlockState of the queue holds every account of a committed access  *)
(* list (with its latest info, changed or not) and the slots it wrote.     *)
(***************************************************************************)
FrontLayer(k, i) ==
    /\ i \in DOMAIN layers
    /\ k \in DOMAIN layers[i]
    /\ \A j \in 1 .. (i - 1) : k \notin DOMAIN layers[j]

InMemory(k) == \E i \in DOMAIN layers : k \in DOMAIN layers[i]

Init ==
    /\ db \in [Keys -> Stored]
    /\ \A c \in Codes : db[c] \in {c, Missing}
    /\ layers = <<>>
    /\ cache = <<>>
    /\ chunk = 0
    /\ pc = [r \in Readers |-> "closed"]
    /\ snap = [r \in Readers |-> NoProvider]
    /\ key = [r \in Readers |-> NoKey]
    /\ buf = [r \in Readers |-> Missing]
    /\ ret = [r \in Readers |-> NoAnswer]

(* lastest_provider_ro and MTCache::new for one transaction *)
Open(r) ==
    /\ pc[r] = "closed"
    /\ pc' = [pc EXCEPT ![r] = "ready"]
    /\ snap' = [snap EXCEPT ![r] = db]
    /\ UNCHANGED <<db, layers, cache, chunk, key, buf, ret>>

(* the transaction has been executed; its provider is dropped *)
Close(r) ==
    /\ pc[r] = "ready"
    /\ pc' = [pc EXCEPT ![r] = "closed"]
    /\ snap' = [snap EXCEPT ![r] = NoProvider]
    /\ key' = [key EXCEPT ![r] = NoKey]
    /\ ret' = [ret EXCEPT ![r] = NoAnswer]
    /\ UNCHANGED <<db, layers, cache, chunk, buf>>

(* basic_ref, storage_ref: a layer of the queue holds the key *)
MemoryHit(r, k) ==
    /\ pc[r] = "ready"
    /\ \E i \in DOMAIN layers :
          /\ FrontLayer(k, i)
          /\ ret' = [ret EXCEPT ![r] = Answer(layers[i][k])]
    /\ key' = [key EXCEPT ![r] = k]
    /\ UNCHANGED <<db, layers, cache, chunk, pc, snap, buf>>

(* the fast path: the shared map holds the key *)
CacheHit(r, k) ==
    /\ pc[r] = "ready"
    /\ ~ InMemory(k)
    /\ k \in DOMAIN cache
    /\ ret' = [ret EXCEPT ![r] = Answer(cache[k])]
    /\ key' = [key EXCEPT ![r] = k]
    /\ UNCHANGED <<db, layers, cache, chunk, pc, snap, buf>>

(* neither holds it: the slow path is taken, no lock is held *)
Miss(r, k) ==
    /\ pc[r] = "ready"
    /\ ~ InMemory(k)
    /\ k \notin DOMAIN cache
    /\ pc' = [pc EXCEPT ![r] = "db"]
    /\ key' = [key EXCEPT ![r] = k]
    /\ ret' = [ret EXCEPT ![r] = NoAnswer]
    /\ UNCHANGED <<db, layers, cache, chunk, snap, buf>>

(* the lock-free database access *)
DbRead(r) ==
    /\ pc[r] = "db"
    /\ ~ (key[r] \in Codes /\ snap[r][key[r]] = Missing)
    /\ buf' = [buf EXCEPT ![r] = snap[r][key[r]]]
    /\ pc' = [pc EXCEPT ![r] = "publish"]
    /\ UNCHANGED <<db, layers, cache, chunk, snap, key, ret>>

(* the database reports an error, or does not know the code hash: the `?` *)
(* returns it, the transaction fails and handle_tx panics                 *)
DbError(r) ==
    /\ pc[r] = "db"
    /\ pc' = [pc EXCEPT ![r] = "failed"]
    /\ UNCHANGED <<db, layers, cache, chunk, snap, key, buf, ret>>

\* Mutant of Publish: only a vacant entry is handled.
PublishVacantOnly(r) ==
    /\ pc[r] = "publish" /\ key[r] \notin DOMAIN cache
    /\ ret' = [ret EXCEPT ![r] = Answer(buf[r])]
    /\ cache' = [k \in DOMAIN cache \cup {key[r]} |->
                    IF k = key[r] THEN buf[r] ELSE cache[k]]
    /\ pc' = [pc EXCEPT ![r] = "ready"]
    /\ buf' = [buf EXCEPT ![r] = Missing]
    /\ UNCHANGED <<db, layers, chunk, snap, key>>

(* the short critical section: insert, or take what somebody inserted *)
Publish(r) ==
    /\ pc[r] = "publish"
    /\ IF key[r] \in DOMAIN cache
       THEN /\ ret' = [ret EXCEPT ![r] = Answer(cache[key[r]])]
            /\ UNCHANGED cache
       ELSE /\ ret' = [ret EXCEPT ![r] = Answer(buf[r])]
            /\ cache' = [k \in DOMAIN cache \cup {key[r]} |->
                            IF k = key[r] THEN buf[r] ELSE cache[k]]
    /\ pc' = [pc EXCEPT ![r] = "ready"]
    /\ buf' = [buf EXCEPT ![r] = Missing]
    /\ UNCHANGED <<db, layers, chunk, snap, key>>

(***************************************************************************)
(* Between two chunks: commit_bal_changes writes the last value of every   *)
(* key the access list writes and returns the latest values, which are     *)
(* pushed on the front of the queue; the next chunk gets a new SharedCache.*)
(* bal are the accounts of the access list, w its last writes.             *)
(***************************************************************************)
CommitWrites(w) == [k \in Keys |-> IF k \in DOMAIN w THEN w[k] ELSE db[k]]

\* Mutant of PushLayer: the new state is pushed at the back.
PushLayerBack(latest) ==
    (IF Len(layers) >= MaxLayers THEN Tail(layers) ELSE layers) \o <<latest>>

PushLayer(latest) ==
    <<latest>> \o (IF Len(layers) >= MaxLayers
                   THEN SubSeq(layers, 1, Len(layers) - 1) ELSE layers)

\* Mutant of NewCache: the chunk's map is reused for the next one.
NewCacheReused == cache
NewCache == <<>>

CommitChunk(bal, w) ==
    /\ \A r \in Readers : pc[r] = "closed"
    /\ chunk < MaxChunks
    /\ chunk' = chunk + 1
    /\ db' = CommitWrites(w)
    /\ layers' = PushLayer([k \in bal \cup (DOMAIN w \ Codes) |->
                               CommitWrites(w)[k]])
    /\ cache' = NewCache
    /\ UNCHANGED readerVars

(* An access list lists the account of every write; a code entry is       *)
(* written under its own hash and never removed.                          *)
Writes(bal) ==
    {w \in PartialStates :
        /\ DOMAIN w \cap Accounts \subseteq bal
        /\ \A c \in DOMAIN w \cap Codes : w[c] = c
        /\ \A k \in DOMAIN w \ Codes : w[k] \in Values \cup {Missing}}

Commit == \E bal \in SUBSET Accounts : \E w \in Writes(bal) : CommitChunk(bal, w)

Read(r) == \E k \in Keys : MemoryHit(r, k) \/ CacheHit(r, k) \/ Miss(r, k)
Finish(r) == DbRead(r) \/ DbError(r) \/ Publish(r)

Next == Commit \/ \E r \in Readers : Open(r) \/ Close(r) \/ Read(r) \/ Finish(r)

Spec == Init /\ [][Next]_vars

\* A worker thread that has begun a read goes on running.
Fairness == \A r \in Readers : WF_vars(Finish(r))
FairSpec == Spec /\ Fairness

------------------------------------------------------------------------------

(* Types of the variables; the queue never holds more than MaxLayers states *)
(* and no code (in_mem.len() >= 2 => pop_back).                             *)
TypeOK ==
    /\ db \in [Keys -> Stored]
    /\ layers \in Seq(LayerStates) /\ Len(layers) <= MaxLayers
    /\ cache \in PartialStates
    /\ chunk \in 0 .. MaxChunks
    /\ pc \in [Readers -> {"closed", "ready", "db", "publish", "failed"}]
    /\ snap \in [Readers -> [Keys -> Stored] \cup {NoProvider}]
    /\ key \in [Readers -> Keys \cup {NoKey}]
    /\ buf \in [Readers -> Stored]
    /\ ret \in [Readers -> {NoAnswer} \cup {Answer(v) : v \in Stored}]

(* Whatever path a read took and however it raced with other readers, what  *)
(* basic_ref/storage_ref/code_by_hash_ref returned is what the database     *)
(* holds for the chunk being executed: the cache, the queue and the race in *)
(* the critical section are invisible to transactions.                      *)
AnswersMatchDatabase ==
    \A r \in Readers :
        ret[r] # NoAnswer => ret[r] = Answer(db[key[r]])

(* The newest layer that holds a key holds its committed value: a key that  *)
(* several chunks wrote, or whose older layer was popped off the back, is   *)
(* never served stale.                                                      *)
LayersMatchDatabase ==
    \A k \in Keys : \A i \in DOMAIN layers : FrontLayer(k, i) => layers[i][k] = db[k]

(* The shared map never outlives the database state it was filled from.     *)
CacheMatchesDatabase == \A k \in DOMAIN cache : cache[k] = db[k]

(* Once a key is in the shared map, no step of the same chunk changes or    *)
(* removes it ("benign race allowed": the first insert wins).               *)
FirstInsertWins ==
    [][chunk' = chunk => \A k \in DOMAIN cache :
            k \in DOMAIN cache' /\ cache'[k] = cache[k]]_vars

(* Every read that was begun ends, with an answer or with the error, even   *)
(* when the reader loses the race for the map entry.                        *)
ReadsEnd == \A r \in Readers : pc[r] \in {"db", "publish"} ~> pc[r] \in {"ready", "failed"}

==============================================================================
