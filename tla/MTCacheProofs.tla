---------------------------- MODULE MTCacheProofs ----------------------------
(***************************************************************************)
(* Proofs about MTCache, for any sets of transactions, keys and values and *)
(* any length of the queue of committed states.                            *)
(***************************************************************************)
EXTENDS MTCache, TLAPS

(* The provers a leaf that names none is given to, in turn. *)
USE SMTT(20), ZenonT(20), Z3T(20)

(* A provider that is open reads the database of the current chunk, and no  *)
(* answer outlives its provider: the commit waits until every transaction   *)
(* of the chunk is done.                                                    *)
ProvidersAreCurrent ==
    \A r \in Readers :
        IF pc[r] = "closed" THEN ret[r] = NoAnswer ELSE snap[r] = db

(* A reader on the slow path holds a key, and after the database access the *)
(* value of that key.                                                       *)
SlowPathBuffers ==
    \A r \in Readers :
        /\ pc[r] \in {"db", "publish"} => key[r] \in Keys
        /\ pc[r] = "publish" => buf[r] = db[key[r]]

(* The inductive invariant. *)
IInv ==
    /\ TypeOK
    /\ ProvidersAreCurrent
    /\ SlowPathBuffers
    /\ CacheMatchesDatabase
    /\ LayersMatchDatabase
    /\ AnswersMatchDatabase

(* The empty function is a partial state: SharedCache::new.                 *)
LEMMA EmptyIsPartial == <<>> \in PartialStates /\ DOMAIN <<>> = {}
  <1>1. <<>> \in [{} -> Stored]
    OBVIOUS
  <1>2. QED
    BY <1>1 DEF PartialStates

(* Inserting one entry into the shared map keeps it a partial state.        *)
LEMMA InsertIsPartial ==
    ASSUME NEW f \in PartialStates, NEW k \in Keys, NEW v \in Stored
    PROVE  [x \in DOMAIN f \cup {k} |-> IF x = k THEN v ELSE f[x]] \in PartialStates
  <1>1. PICK D \in SUBSET Keys : f \in [D -> Stored]
    BY DEF PartialStates
  <1>2. DOMAIN f = D
    BY <1>1
  <1>3. [x \in DOMAIN f \cup {k} |-> IF x = k THEN v ELSE f[x]] \in [D \cup {k} -> Stored]
    BY <1>1, <1>2
  <1>4. D \cup {k} \in SUBSET Keys
    BY <1>1
  <1>5. QED
    BY Zenon, <1>3, <1>4 DEF PartialStates

(* What a partial state holds is a stored value of a key.                   *)
LEMMA PartialStateRange ==
    ASSUME NEW f \in PartialStates, NEW k \in DOMAIN f
    PROVE  k \in Keys /\ f[k] \in Stored
  BY DEF PartialStates

LEMMA InitIInv == Init => IInv
  <1> SUFFICES ASSUME Init PROVE IInv
    OBVIOUS
  <1> USE DEF Init
  <1>1. TypeOK
    <2>1. layers \in Seq(LayerStates) /\ Len(layers) <= MaxLayers
      BY BoundsAssumption
    <2>2. cache \in PartialStates
      BY EmptyIsPartial
    <2>3. chunk \in 0 .. MaxChunks
      BY BoundsAssumption
    <2>4. QED
      BY <2>1, <2>2, <2>3 DEF TypeOK, Stored
  <1>2. ProvidersAreCurrent /\ SlowPathBuffers /\ AnswersMatchDatabase
    BY DEF ProvidersAreCurrent, SlowPathBuffers, AnswersMatchDatabase
  <1>3. CacheMatchesDatabase
    BY EmptyIsPartial DEF CacheMatchesDatabase
  <1>4. LayersMatchDatabase
    BY DEF LayersMatchDatabase, FrontLayer
  <1>5. QED
    BY <1>1, <1>2, <1>3, <1>4 DEF IInv

(* Opening and closing a provider.                                          *)
LEMMA OpenCloseIInv ==
    ASSUME IInv, NEW r \in Readers, Open(r) \/ Close(r)
    PROVE  IInv'
  <1> USE DEF Open, Close, IInv
  <1>1. TypeOK'
    BY DEF TypeOK
  <1>2. ProvidersAreCurrent' /\ SlowPathBuffers'
    BY DEF ProvidersAreCurrent, SlowPathBuffers, TypeOK
  <1>3. CacheMatchesDatabase' /\ LayersMatchDatabase'
    BY DEF CacheMatchesDatabase, LayersMatchDatabase, FrontLayer
  <1>4. AnswersMatchDatabase'
    BY DEF AnswersMatchDatabase, TypeOK
  <1>5. QED
    BY <1>1, <1>2, <1>3, <1>4

(* A read that ends, or leaves for the slow path, before any database access. *)
LEMMA ReadIInv ==
    ASSUME IInv, NEW r \in Readers, Read(r)
    PROVE  IInv'
  <1> USE DEF IInv
  <1> PICK k \in Keys : MemoryHit(r, k) \/ CacheHit(r, k) \/ Miss(r, k)
    BY DEF Read
  <1>1. CASE MemoryHit(r, k)
    <2>1. PICK i \in DOMAIN layers :
              FrontLayer(k, i) /\ ret' = [ret EXCEPT ![r] = Answer(layers[i][k])]
      BY Zenon, <1>1 DEF MemoryHit
    <2>2. layers[i][k] = db[k] /\ db[k] \in Stored
      BY <2>1 DEF LayersMatchDatabase, TypeOK
    <2>3. TypeOK'
      BY <1>1, <2>1, <2>2 DEF MemoryHit, TypeOK
    <2>4. ProvidersAreCurrent' /\ SlowPathBuffers' /\ AnswersMatchDatabase'
      BY <1>1, <2>1, <2>2 DEF MemoryHit, TypeOK, ProvidersAreCurrent,
         SlowPathBuffers, AnswersMatchDatabase
    <2>5. CacheMatchesDatabase' /\ LayersMatchDatabase'
      BY <1>1 DEF MemoryHit, CacheMatchesDatabase, LayersMatchDatabase, FrontLayer
    <2>6. QED
      BY <2>3, <2>4, <2>5
  <1>2. CASE CacheHit(r, k)
    <2>1. cache[k] = db[k] /\ db[k] \in Stored
      BY <1>2 DEF CacheHit, CacheMatchesDatabase, TypeOK
    <2>2. TypeOK'
      BY <1>2, <2>1 DEF CacheHit, TypeOK
    <2>3. ProvidersAreCurrent' /\ SlowPathBuffers' /\ AnswersMatchDatabase'
      BY <1>2, <2>1 DEF CacheHit, TypeOK, ProvidersAreCurrent,
         SlowPathBuffers, AnswersMatchDatabase
    <2>4. CacheMatchesDatabase' /\ LayersMatchDatabase'
      BY <1>2 DEF CacheHit, CacheMatchesDatabase, LayersMatchDatabase, FrontLayer
    <2>5. QED
      BY <2>2, <2>3, <2>4
  <1>3. CASE Miss(r, k)
    <2>1. TypeOK'
      BY <1>3 DEF Miss, TypeOK
    <2>2. ProvidersAreCurrent' /\ SlowPathBuffers' /\ AnswersMatchDatabase'
      BY <1>3 DEF Miss, TypeOK, ProvidersAreCurrent,
         SlowPathBuffers, AnswersMatchDatabase
    <2>3. CacheMatchesDatabase' /\ LayersMatchDatabase'
      BY <1>3 DEF Miss, CacheMatchesDatabase, LayersMatchDatabase, FrontLayer
    <2>4. QED
      BY <2>1, <2>2, <2>3
  <1>4. QED
    BY <1>1, <1>2, <1>3

(* The slow path: the database access and the critical section.             *)
LEMMA FinishIInv ==
    ASSUME IInv, NEW r \in Readers, Finish(r)
    PROVE  IInv'
  <1> USE DEF IInv
  <1>1. CASE DbRead(r)
    <2>1. snap[r] = db /\ key[r] \in Keys /\ db[key[r]] \in Stored
      BY <1>1 DEF DbRead, ProvidersAreCurrent, SlowPathBuffers, TypeOK
    <2>2. TypeOK'
      BY <1>1, <2>1 DEF DbRead, TypeOK
    <2>3. ProvidersAreCurrent' /\ SlowPathBuffers' /\ AnswersMatchDatabase'
      BY <1>1, <2>1 DEF DbRead, TypeOK, ProvidersAreCurrent,
         SlowPathBuffers, AnswersMatchDatabase
    <2>4. CacheMatchesDatabase' /\ LayersMatchDatabase'
      BY <1>1 DEF DbRead, CacheMatchesDatabase, LayersMatchDatabase, FrontLayer
    <2>5. QED
      BY <2>2, <2>3, <2>4
  <1>2. CASE DbError(r)
    <2>1. TypeOK'
      BY <1>2 DEF DbError, TypeOK
    <2>2. ProvidersAreCurrent' /\ SlowPathBuffers' /\ AnswersMatchDatabase'
      BY <1>2 DEF DbError, TypeOK, ProvidersAreCurrent,
         SlowPathBuffers, AnswersMatchDatabase
    <2>3. CacheMatchesDatabase' /\ LayersMatchDatabase'
      BY <1>2 DEF DbError, CacheMatchesDatabase, LayersMatchDatabase, FrontLayer
    <2>4. QED
      BY <2>1, <2>2, <2>3
  <1>3. CASE Publish(r)
    <2>1. /\ key[r] \in Keys /\ buf[r] = db[key[r]] /\ db[key[r]] \in Stored
          /\ \A k \in DOMAIN cache : cache[k] = db[k]
      BY <1>3 DEF Publish, SlowPathBuffers, TypeOK, CacheMatchesDatabase
    <2>2. ret' = [ret EXCEPT ![r] = Answer(db[key[r]])]
      BY <1>3, <2>1 DEF Publish
    <2>3. cache' \in PartialStates /\ \A k \in DOMAIN cache' : cache'[k] = db[k]
      <3>1. CASE key[r] \in DOMAIN cache
        BY <1>3, <2>1, <3>1 DEF Publish, TypeOK
      <3>2. CASE key[r] \notin DOMAIN cache
        <4>1. cache' = [k \in DOMAIN cache \cup {key[r]} |->
                          IF k = key[r] THEN buf[r] ELSE cache[k]]
          BY <1>3, <3>2 DEF Publish
        <4>2. cache' \in PartialStates
          BY Zenon, <2>1, <4>1, InsertIsPartial DEF TypeOK
        <4>3. QED
          BY <2>1, <4>1, <4>2
      <3>3. QED
        BY <3>1, <3>2
    <2>4. TypeOK'
      BY <1>3, <2>1, <2>2, <2>3 DEF Publish, TypeOK, Stored
    <2>5. ProvidersAreCurrent' /\ SlowPathBuffers' /\ AnswersMatchDatabase'
      BY <1>3, <2>1, <2>2 DEF Publish, TypeOK, ProvidersAreCurrent,
         SlowPathBuffers, AnswersMatchDatabase
    <2>6. CacheMatchesDatabase' /\ LayersMatchDatabase'
      BY <1>3, <2>3 DEF Publish, CacheMatchesDatabase, LayersMatchDatabase, FrontLayer
    <2>7. QED
      BY <2>4, <2>5, <2>6
  <1>4. QED
    BY <1>1, <1>2, <1>3 DEF Finish

(* Pushing a state on the queue: it becomes the front, every other state    *)
(* moves one place back, and the length stays within MaxLayers.             *)
LEMMA PushLayerShifts ==
    ASSUME TypeOK, NEW f \in LayerStates
    PROVE  /\ PushLayer(f) \in Seq(LayerStates)
           /\ Len(PushLayer(f)) \in 1 .. MaxLayers
           /\ Len(PushLayer(f)) - 1 <= Len(layers)
           /\ PushLayer(f)[1] = f
           /\ \A i \in 2 .. Len(PushLayer(f)) : PushLayer(f)[i] = layers[i - 1]
  <1> DEFINE kept == IF Len(layers) >= MaxLayers
                     THEN SubSeq(layers, 1, Len(layers) - 1) ELSE layers
  <1>1. layers \in Seq(LayerStates) /\ Len(layers) \in Nat /\ Len(layers) <= MaxLayers
    BY DEF TypeOK
  <1>2. /\ kept \in Seq(LayerStates)
        /\ Len(kept) <= MaxLayers - 1 /\ Len(kept) <= Len(layers)
        /\ \A i \in 1 .. Len(kept) : kept[i] = layers[i]
    <2>1. CASE Len(layers) >= MaxLayers
      <3>1. Len(layers) - 1 \in 0 .. Len(layers)
        BY <1>1, <2>1, BoundsAssumption
      <3>2. QED
        BY <1>1, <2>1, <3>1, BoundsAssumption
    <2>2. CASE ~ (Len(layers) >= MaxLayers)
      BY <1>1, <2>2, BoundsAssumption
    <2>3. QED
      BY <2>1, <2>2
  <1>3. PushLayer(f) = <<f>> \o kept
    BY DEF PushLayer
  <1> HIDE DEF kept
  <1>4. QED
    BY <1>2, <1>3, BoundsAssumption

(* The commit between two chunks.                                           *)
LEMMA CommitIInv ==
    ASSUME IInv, Commit
    PROVE  IInv'
  <1> USE DEF IInv
  <1>0. PICK bal \in SUBSET Accounts : \E w \in Writes(bal) : CommitChunk(bal, w)
    BY DEF Commit
  <1>1. PICK w \in Writes(bal) : CommitChunk(bal, w)
    BY <1>0
  <1> DEFINE latest == [k \in bal \cup (DOMAIN w \ Codes) |-> CommitWrites(w)[k]]
  <1>2. /\ w \in PartialStates /\ DOMAIN w \subseteq Keys
        /\ \A k \in DOMAIN w : w[k] \in Stored
    BY PartialStateRange DEF Writes
  <1>3. db' = CommitWrites(w) /\ db' \in [Keys -> Stored]
    BY <1>1, <1>2 DEF CommitChunk, CommitWrites, TypeOK
  <1>4. latest \in LayerStates
    <2>1. bal \cup (DOMAIN w \ Codes) \in SUBSET Keys
      BY <1>2 DEF Keys
    <2>2. latest \in [bal \cup (DOMAIN w \ Codes) -> Stored]
      BY <1>3, <2>1
    <2>3. DOMAIN latest \cap Codes = {}
      BY KeysAssumption
    <2>4. QED
      BY Zenon, <2>1, <2>2, <2>3 DEF LayerStates, PartialStates
  <1>5. layers' = PushLayer(latest)
    BY <1>1 DEF CommitChunk
  <1>a. /\ DOMAIN latest = bal \cup (DOMAIN w \ Codes)
        /\ \A k \in DOMAIN latest : latest[k] = db'[k]
    BY <1>3
  <1> HIDE DEF latest
  <1>6. \A r \in Readers : pc[r] = "closed" /\ ret[r] = NoAnswer
    BY <1>1 DEF CommitChunk, ProvidersAreCurrent
  <1>7. TypeOK'
    <2>1. layers' \in Seq(LayerStates) /\ Len(layers') <= MaxLayers
      BY <1>4, <1>5, PushLayerShifts
    <2>2. cache' \in PartialStates
      BY <1>1, EmptyIsPartial DEF CommitChunk, NewCache
    <2>3. chunk' \in 0 .. MaxChunks
      BY <1>1, BoundsAssumption DEF CommitChunk, TypeOK
    <2>4. QED
      BY <1>1, <1>3, <2>1, <2>2, <2>3 DEF CommitChunk, readerVars, TypeOK
  <1>8. ProvidersAreCurrent' /\ SlowPathBuffers' /\ AnswersMatchDatabase'
    BY <1>1, <1>6 DEF CommitChunk, readerVars, ProvidersAreCurrent,
       SlowPathBuffers, AnswersMatchDatabase
  <1>9. CacheMatchesDatabase'
    BY <1>1, EmptyIsPartial DEF CommitChunk, NewCache, CacheMatchesDatabase
  <1>10. LayersMatchDatabase'
    <2> SUFFICES ASSUME NEW k \in Keys, NEW i \in DOMAIN layers', FrontLayer(k, i)'
                 PROVE  layers'[i][k] = db'[k]
      BY DEF LayersMatchDatabase
    <2>1. /\ layers' \in Seq(LayerStates) /\ Len(layers') \in Nat
          /\ Len(layers') - 1 <= Len(layers) /\ layers'[1] = latest
          /\ \A n \in 2 .. Len(layers') : layers'[n] = layers[n - 1]
      <3>1. TypeOK
        OBVIOUS
      <3>2. /\ PushLayer(latest) \in Seq(LayerStates)
            /\ Len(PushLayer(latest)) \in 1 .. MaxLayers
            /\ Len(PushLayer(latest)) - 1 <= Len(layers)
            /\ PushLayer(latest)[1] = latest
            /\ \A n \in 2 .. Len(PushLayer(latest)) : PushLayer(latest)[n] = layers[n - 1]
        BY <1>4, <3>1, PushLayerShifts
      <3>3. QED
        BY <1>5, <3>2
    <2>2. i \in 1 .. Len(layers') /\ k \in DOMAIN layers'[i]
          /\ \A j \in 1 .. (i - 1) : k \notin DOMAIN layers'[j]
      BY <2>1 DEF FrontLayer
    <2>3. CASE i = 1
      BY <1>a, <2>1, <2>2, <2>3
    <2>4. CASE i # 1
      <3>1. i \in 2 .. Len(layers') /\ layers'[i] = layers[i - 1] /\ 1 \in 1 .. (i - 1)
        BY <2>1, <2>2, <2>4
      <3>2. k \notin DOMAIN w \ Codes
        BY <1>a, <2>1, <2>2, <3>1
      <3>3. i - 1 \in DOMAIN layers /\ layers[i - 1] \in LayerStates
        BY <2>1, <3>1 DEF TypeOK
      <3>4. k \notin DOMAIN w
        BY <2>2, <3>1, <3>2, <3>3 DEF LayerStates
      <3>5. db'[k] = db[k]
        BY <1>3, <3>4 DEF CommitWrites
      <3>6. FrontLayer(k, i - 1)
        <4>1. \A j \in 1 .. (i - 2) : j + 1 \in 1 .. (i - 1) /\ layers'[j + 1] = layers[j]
          <5>1. \A j \in 1 .. (i - 2) : j + 1 \in 1 .. (i - 1) /\ j + 1 \in 2 .. Len(layers')
            BY <3>1
          <5>2. \A j \in 1 .. (i - 2) : (j + 1) - 1 = j
            BY <3>1
          <5>3. QED
            BY <2>1, <5>1, <5>2
        <4>2. QED
          BY <2>2, <3>1, <3>3, <4>1 DEF FrontLayer
      <3>7. QED
        BY <3>1, <3>3, <3>5, <3>6 DEF LayersMatchDatabase
    <2>5. QED
      BY <2>3, <2>4
  <1>11. QED
    BY <1>7, <1>8, <1>9, <1>10

(* Every step of the system preserves the inductive invariant.              *)
LEMMA NextIInv == IInv /\ [Next]_vars => IInv'
  <1> SUFFICES ASSUME IInv, [Next]_vars PROVE IInv'
    OBVIOUS
  <1>1. CASE Commit
    BY <1>1, CommitIInv
  <1>2. ASSUME NEW r \in Readers, Open(r) \/ Close(r) \/ Read(r) \/ Finish(r)
        PROVE  IInv'
    BY <1>2, OpenCloseIInv, ReadIInv, FinishIInv
  <1>3. CASE UNCHANGED vars
    BY <1>3 DEF vars, IInv, TypeOK, ProvidersAreCurrent, SlowPathBuffers,
       CacheMatchesDatabase, LayersMatchDatabase, AnswersMatchDatabase, FrontLayer
  <1>4. QED
    BY <1>1, <1>2, <1>3 DEF Next

(* The inductive invariant holds in every reachable state.                  *)
THEOREM Invariance == Spec => []IInv
  BY InitIInv, NextIInv, PTL DEF Spec

(* Type correctness of the read path; in particular the queue of committed  *)
(* states never grows past MaxLayers (in_mem.pop_back).                     *)
THEOREM TypeCorrect == Spec => []TypeOK
  <1>1. IInv => TypeOK
    BY DEF IInv
  <1>2. QED
    BY <1>1, Invariance, PTL

(* Every answer of basic_ref, storage_ref and code_by_hash_ref is the value *)
(* the database holds for the chunk being executed, for any number of       *)
(* transactions, keys, chunks and queued states.                            *)
THEOREM ReadsAreCurrent == Spec => []AnswersMatchDatabase
  <1>1. IInv => AnswersMatchDatabase
    BY DEF IInv
  <1>2. QED
    BY <1>1, Invariance, PTL

(* The newest queued state that holds a key holds its committed value.      *)
THEOREM QueueIsCurrent == Spec => []LayersMatchDatabase
  <1>1. IInv => LayersMatchDatabase
    BY DEF IInv
  <1>2. QED
    BY <1>1, Invariance, PTL

(* In the shared map the first insert of a chunk wins: the critical section *)
(* of two readers that miss the same key never replaces the entry.          *)
THEOREM CacheIsStable == Spec => FirstInsertWins
  <1> DEFINE Stable == chunk' = chunk => \A k \in DOMAIN cache :
                            k \in DOMAIN cache' /\ cache'[k] = cache[k]
  <1>1. IInv /\ [Next]_vars => [Stable]_vars
    <2> SUFFICES ASSUME IInv, Next PROVE Stable
      OBVIOUS
    <2>1. CASE Commit
      <3>1. chunk' = chunk + 1 /\ chunk \in Nat
        BY <2>1, BoundsAssumption DEF Commit, CommitChunk, IInv, TypeOK
      <3>2. QED
        BY <3>1
    <2>2. ASSUME NEW r \in Readers, Open(r) \/ Close(r) \/ Read(r) \/ Finish(r)
          PROVE  Stable
      <3>1. CASE Publish(r)
        BY <3>1 DEF Publish
      <3>2. CASE ~ Publish(r)
        BY <2>2, <3>2 DEF Open, Close, Read, Finish, MemoryHit, CacheHit, Miss,
           DbRead, DbError
      <3>3. QED
        BY <3>1, <3>2
    <2>3. QED
      BY <2>1, <2>2 DEF Next
  <1>2. QED
    BY <1>1, Invariance, PTL DEF Spec, FirstInsertWins

==============================================================================
