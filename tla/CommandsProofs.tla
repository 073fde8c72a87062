--------------------------- MODULE CommandsProofs ---------------------------
(***************************************************************************)
(* Two of the commands, for all inputs.  The migration copies its tables   *)
(* whatever their size, that of the batches and the number of restarts: a  *)
(* run that has finished has read every entry once and written them all.   *)
(* An inspected execution, whatever its transactions and its gas, tells    *)
(* the inspectors what happens: its hooks come in pairs, its depth is that *)
(* of the frames, and its summaries are those of the results.              *)
(***************************************************************************)
EXTENDS Migration, Inspect, FiniteSetTheorems, WellFoundedInduction, TLAPS

(* The provers a leaf that names none is given to, in turn. *)
USE SMTT(20), ZenonT(20), Z3T(20)

(* A set of numbers has a least element; this stands in for induction. *)
LEMMA LeastNumber ==
    ASSUME NEW T, T \subseteq Nat, T # {}
    PROVE  \E m \in T : \A k \in T : m <= k
<1>1. \E m \in T : \A k \in T : ~ (<<k, m>> \in OpToRel(<, Nat))
  BY Zenon, NatLessThanWellFounded, WFMin
<1>2. PICK m \in T : \A k \in T : ~ (<<k, m>> \in OpToRel(<, Nat))
  BY Zenon, <1>1
<1>3. OpToRel(<, Nat) = {ss \in Nat \X Nat : ss[1] < ss[2]}
  BY DEF OpToRel
<1>4. \A k \in T : k \in Nat /\ ~ (k < m)
  BY Zenon, <1>2, <1>3
<1>5. \A k \in T : m <= k
  BY <1>4
<1> QED
  BY <1>5

MigrationSpec == Parked /\ [][Launch \/ MigrationStep]_migvars

(* What the proof uses of the source: its tables are finite sequences, and the  *)
(* entries of one address are next to each other in the storage, as they are in  *)
(* a table sorted by address.                                               *)
SourceIsOrdered(Entries) ==
    /\ Source = [accounts |-> Source.accounts, codes |-> Source.codes, storage |-> Source.storage]
    /\ \A t \in Tables : Source[t] \in Seq(Entries)
    /\ \A i, k \in 1..Len(Source.storage) : \A j \in i..k :
          Source.storage[i][1] = Source.storage[k][1] => Source.storage[j][1] = Source.storage[i][1]

(* The end of the entries of an address. *)
Boundary(i) ==
    i = Len(Source.storage) \/ Source.storage[i + 1][1] # Source.storage[i][1]

Threads ==
    [pc : {"idle", "open", "read", "flush", "final", "finished"}, next : Nat, cursor : Nat,
     items : SUBSET Nat, batch_entries : Nat, total_entries : Nat, advanced : BOOLEAN]

(* The inductive invariant of one table: the cursor is behind the last key, which *)
(* in the storage ends an address; what is not held has been written; and an       *)
(* import ends at the last entry, holding nothing.                              *)
Copied(t, r, written) ==
    /\ r.next \in 0..Len(Source[t]) /\ r.items \subseteq 1..r.next
    /\ r.total_entries = r.next
    /\ written \subseteq Range(Source[t])
    /\ \A i \in (1..r.next) \ r.items : Source[t][i] \in written
    /\ r.pc = "read" => r.cursor = r.next + 1
    /\ r.pc = "flush" => r.items # {}
    /\ r.pc = "final" => r.next = Len(Source[t])
    /\ r.pc = "finished" => r.next = Len(Source[t]) /\ r.items = {}
    /\ t = "storage" /\ r.next # 0 => Boundary(r.next)

MigrationInv ==
    /\ importer \in [Tables -> Threads] /\ target = [t \in Tables |-> target[t]]
    /\ \A t \in Tables : Copied(t, importer[t], target[t])

-----------------------------------------------------------------------------
(* The walk over the slots of an address ends: there is a last one, at or after  *)
(* the one it starts from.                                                   *)
LEMMA LastSlotExists ==
    ASSUME NEW Entries, SourceIsOrdered(Entries), NEW i \in 1..Len(Source.storage)
    PROVE  /\ LastSlot(i) \in i..Len(Source.storage)
           /\ Source.storage[LastSlot(i)][1] = Source.storage[i][1]
           /\ Boundary(LastSlot(i))
<1> DEFINE keys == Source.storage
           N == Len(keys)
           Left == {n \in 0..(N - i) : keys[N - n][1] = keys[i][1]}
<1>1. N \in Nat /\ i \in Nat
  BY DEF SourceIsOrdered, Tables
<1>2. N - i \in Left
  BY <1>1
<1>3. PICK m \in Left : \A k \in Left : m <= k
  <2> HIDE DEF N, keys
  <2>1. \A k \in 0..(N - i) : k \in Nat
    OBVIOUS
  <2>2. Left \subseteq Nat
    BY Zenon, <2>1
  <2> HIDE DEF Left
  <2> QED
    BY Zenon, <1>2, <2>2, LeastNumber
<1> HIDE DEF keys
<1>4. N - m \in i..N /\ keys[N - m][1] = keys[i][1]
  BY <1>1, <1>3
<1>5. N - m = N \/ keys[(N - m) + 1][1] # keys[i][1]
  <2>1. SUFFICES ASSUME m # 0, keys[(N - m) + 1][1] = keys[i][1] PROVE FALSE
    BY <1>1, <1>3
  <2>2. m - 1 \in 0..(N - i) /\ N - (m - 1) = (N - m) + 1
    BY <1>1, <1>3, <2>1
  <2>3. m - 1 \in Left
    BY <2>1, <2>2
  <2> QED
    BY <1>3, <2>3, <1>1
<1>6. \E j \in i..N : keys[j][1] = keys[i][1] /\ (j = N \/ keys[j + 1][1] # keys[i][1])
  BY <1>4, <1>5
<1>7. LastSlot(i) = CHOOSE j \in i..N : keys[j][1] = keys[i][1] /\ (j = N \/ keys[j + 1][1] # keys[i][1])
  BY DEF LastSlot, keys
<1> DEFINE last == LastSlot(i)
<1>8. /\ last \in i..N /\ keys[last][1] = keys[i][1]
      /\ last = N \/ keys[last + 1][1] # keys[i][1]
  BY Zenon, <1>6, <1>7
<1> QED
  BY <1>8 DEF Boundary, keys

(* The seek after a batch of storage finds the address the batch ended with, so   *)
(* that nothing is stepped over.                                             *)
LEMMA LastSlotOfBoundary ==
    ASSUME NEW Entries, SourceIsOrdered(Entries), NEW i \in 1..Len(Source.storage), Boundary(i)
    PROVE  LastSlot(i) = i
<1>1. Len(Source.storage) \in Nat
  BY DEF SourceIsOrdered, Tables
<1>2. /\ LastSlot(i) \in i..Len(Source.storage)
      /\ Source.storage[LastSlot(i)][1] = Source.storage[i][1]
  BY LastSlotExists
<1>3. SUFFICES ASSUME LastSlot(i) > i PROVE FALSE
  BY <1>1, <1>2
<1>4. i + 1 \in i..LastSlot(i) /\ LastSlot(i) \in 1..Len(Source.storage) /\ i # Len(Source.storage)
  BY <1>1, <1>2, <1>3
<1>5. Source.storage[i + 1][1] = Source.storage[i][1]
  BY <1>2, <1>4 DEF SourceIsOrdered
<1> QED
  BY <1>4, <1>5 DEF Boundary

-----------------------------------------------------------------------------
(* A step of one thread leaves the tables of the others alone. *)
LEMMA OneTable ==
    ASSUME MigrationInv, NEW t \in Tables, NEW r \in Threads, NEW w,
           Becomes(t, r), target' = [target EXCEPT ![t] = w], Copied(t, r, w)
    PROVE  MigrationInv'
<1>1. importer' \in [Tables -> Threads] /\ target' = [u \in Tables |-> target'[u]]
  BY DEF MigrationInv, Becomes
<1>2. ASSUME NEW u \in Tables PROVE Copied(u, importer'[u], target'[u])
  <2>1. CASE u = t
    BY <2>1 DEF MigrationInv, Becomes
  <2>2. CASE u # t
    <3>1. importer'[u] = importer[u] /\ target'[u] = target[u]
      BY <2>2 DEF MigrationInv, Becomes
    <3> QED
      BY <3>1 DEF MigrationInv
  <2> QED
    BY <2>1, <2>2
<1>3. (\A u \in Tables : Copied(u, importer[u], target[u]))'
  BY <1>2 DEF Copied, Boundary
<1> QED
  BY <1>1, <1>3 DEF MigrationInv

(* and a step that writes nothing leaves its own table alone as well *)
LEMMA NoWrite ==
    ASSUME MigrationInv, NEW t \in Tables, NEW r \in Threads,
           Becomes(t, r), UNCHANGED target, Copied(t, r, target[t])
    PROVE  MigrationInv'
<1>1. target' = [target EXCEPT ![t] = target[t]]
  BY DEF MigrationInv
<1> QED
  BY Zenon, <1>1, OneTable

(* Every step of a thread preserves the invariant. *)
LEMMA ImportPreserves ==
    ASSUME NEW Entries, SourceIsOrdered(Entries), MigrationInv, NEW t \in Tables, Import(t)
    PROVE  MigrationInv'
<1> DEFINE r == importer[t]
           N == Len(Source[t])
<1>1. /\ r \in Threads /\ Copied(t, r, target[t]) /\ N \in Nat
      /\ DOMAIN Source[t] = 1..N
  BY DEF MigrationInv, SourceIsOrdered
<1>2. CASE Open(t)
  <2> DEFINE cursor == IF t = "storage" /\ r.next # 0 THEN LastSlot(r.next) + 1 ELSE r.next + 1
             q == [r EXCEPT !.pc = "read", !.advanced = FALSE, !.cursor = cursor]
  <2>1. cursor = r.next + 1
    <3>1. ASSUME t = "storage", r.next # 0 PROVE LastSlot(r.next) = r.next
      <4>1. r.next \in 1..Len(Source.storage) /\ Boundary(r.next)
        BY <1>1, <3>1 DEF Copied, Threads
      <4> QED
        BY <4>1, LastSlotOfBoundary
    <3> QED
      BY <3>1
  <2>2. r.pc = "open" /\ Becomes(t, q) /\ UNCHANGED target
    BY <1>2 DEF Open
  <2> HIDE DEF cursor
  <2>3. cursor \in Nat
    BY <1>1, <2>1 DEF Threads
  <2>4. q \in Threads
    BY Zenon, <1>1, <2>3 DEF Threads
  <2>5. Copied(t, q, target[t])
    BY <1>1, <2>1, <2>2 DEF Threads, Copied
  <2> QED
    BY <2>2, <2>4, <2>5, NoWrite
<1>3. CASE ReadPlain(t)
  <2> DEFINE q == [r EXCEPT !.next = r.cursor, !.cursor = @ + 1, !.items = @ \cup {r.cursor},
                   !.batch_entries = @ + 1, !.total_entries = @ + 1, !.advanced = TRUE]
             p == IF q.batch_entries >= BatchSize THEN [q EXCEPT !.pc = "flush"] ELSE q
  <2>1. t \in Plain /\ r.pc = "read" /\ r.cursor <= N /\ Becomes(t, p) /\ UNCHANGED target
    BY <1>3 DEF ReadPlain
  <2>2. r.cursor = r.next + 1 /\ t # "storage"
    BY <1>1, <2>1 DEF Copied, Plain
  <2>3. p \in Threads
    <3>1. r.cursor \in Nat /\ r.cursor + 1 \in Nat /\ r.batch_entries + 1 \in Nat /\ r.total_entries + 1 \in Nat
          /\ r.items \cup {r.cursor} \in SUBSET Nat
      BY <1>1 DEF Threads
    <3>2. q \in Threads
      BY Zenon, <1>1, <3>1 DEF Threads
    <3> HIDE DEF q
    <3> QED
      BY <3>2 DEF Threads
  <2>4. Copied(t, p, target[t])
    BY <1>1, <2>1, <2>2 DEF Threads, Copied
  <2> QED
    BY <2>1, <2>3, <2>4, NoWrite
<1>4. CASE FlushPlain(t)
  <2> DEFINE q == [r EXCEPT !.pc = "open", !.items = {}, !.batch_entries = 0]
             w == target[t] \cup {Source[t][i] : i \in r.items}
  <2>1. t \in Plain /\ Becomes(t, q) /\ target' = [target EXCEPT ![t] = w]
    BY <1>4 DEF FlushPlain, Written
  <2>2. q \in Threads
    BY Zenon, <1>1 DEF Threads
  <2>3. Copied(t, q, w)
    BY <1>1, <2>1 DEF Threads, Copied, Plain, Range
  <2> QED
    BY <2>1, <2>2, <2>3, OneTable
<1>5. CASE WalkEnds(t)
  <2> DEFINE q == [r EXCEPT !.pc = IF r.advanced THEN "open" ELSE "final"]
  <2>1. t \in Plain /\ r.pc = "read" /\ r.cursor > N /\ Becomes(t, q) /\ UNCHANGED target
    BY <1>5 DEF WalkEnds
  <2>2. q \in Threads
    BY <1>1 DEF Threads
  <2>3. Copied(t, q, target[t])
    BY <1>1, <2>1 DEF Threads, Copied, Plain
  <2> QED
    BY <2>1, <2>2, <2>3, NoWrite
<1>6. CASE FinalFlush(t)
  <2> DEFINE q == [r EXCEPT !.pc = "finished", !.items = {}]
             w == target[t] \cup {Source[t][i] : i \in r.items}
  <2>1. r.pc = "final" /\ Becomes(t, q) /\ target' = [target EXCEPT ![t] = w]
    BY <1>6 DEF FinalFlush, Written
  <2>2. q \in Threads
    BY Zenon, <1>1 DEF Threads
  <2>3. Copied(t, q, w)
    BY <1>1, <2>1 DEF Threads, Copied, Range
  <2> QED
    BY <2>1, <2>2, <2>3, OneTable
<1>7. CASE t = "storage" /\ ReadDup
  <2> DEFINE last == LastSlot(r.cursor)
             n == last - r.cursor + 1
             q == [r EXCEPT !.next = last, !.cursor = last + 1, !.items = @ \cup (r.cursor..last),
                   !.batch_entries = @ + n, !.total_entries = @ + n]
             p == IF q.batch_entries >= BatchSize THEN [q EXCEPT !.pc = "flush"] ELSE q
  <2>1. r.pc = "read" /\ r.cursor <= N /\ Becomes(t, p) /\ UNCHANGED target
    BY <1>7 DEF ReadDup
  <2>2. r.cursor = r.next + 1 /\ r.cursor \in 1..N
    BY <1>1, <2>1 DEF Copied, Threads
  <2>3. last \in r.cursor..N /\ Boundary(last)
    BY <1>7, <2>2, LastSlotExists
  <2> HIDE DEF last
  <2>4. n \in Nat /\ last \in Nat /\ r.total_entries + n = last
    <3>1. r.next \in Nat /\ r.total_entries = r.next /\ N \in Nat
      BY <1>1 DEF Copied, Threads
    <3> HIDE DEF r, N
    <3> QED
      BY <2>2, <2>3, <3>1
  <2>5. p \in Threads
    <3>1. r.batch_entries \in Nat /\ r.total_entries \in Nat /\ r.items \subseteq Nat /\ r.cursor \in Nat
      BY <1>1 DEF Threads
    <3>2. last + 1 \in Nat /\ r.batch_entries + n \in Nat /\ r.total_entries + n \in Nat
      BY <2>4, <3>1
    <3>3. r.items \cup (r.cursor..last) \in SUBSET Nat
      <4> HIDE DEF r
      <4> QED
        BY <2>4, <3>1
    <3>4. q \in Threads
      BY Zenon, <1>1, <2>4, <3>2, <3>3 DEF Threads
    <3> HIDE DEF q
    <3> QED
      BY <3>4 DEF Threads
  <2>6. Copied(t, p, target[t])
    <3>1. /\ p.next = last /\ p.cursor = last + 1 /\ p.total_entries = last
          /\ p.items = r.items \cup (r.cursor..last) /\ p.pc \in {"read", "flush"}
      BY <1>1, <2>1, <2>4 DEF Threads
    <3>2. /\ r.next \in 0..N /\ r.items \subseteq 1..r.next /\ target[t] \subseteq Range(Source[t])
          /\ \A i \in (1..r.next) \ r.items : Source[t][i] \in target[t]
      BY <1>1 DEF Copied
    <3> HIDE DEF r, p, n
    <3>3. p.next \in 0..N /\ p.items \subseteq 1..p.next /\ p.items # {}
      BY <1>1, <2>2, <2>3, <2>4, <3>1, <3>2
    <3>4. \A i \in (1..p.next) \ p.items : i \in (1..r.next) \ r.items
      BY <1>1, <2>2, <2>3, <2>4, <3>1, <3>2
    <3> QED
      BY <1>7, <2>3, <3>1, <3>2, <3>3, <3>4 DEF Copied
  <2> QED
    BY <2>1, <2>5, <2>6, NoWrite
<1>8. CASE t = "storage" /\ FlushDup
  <2> DEFINE q == [r EXCEPT !.pc = IF r.items = {} THEN "finished" ELSE "open", !.items = {},
                   !.batch_entries = 0]
             w == target[t] \cup {Source[t][i] : i \in r.items}
  <2>1. /\ r.pc = "flush" \/ (r.pc = "read" /\ r.cursor > N)
        /\ Becomes(t, q) /\ target' = [target EXCEPT ![t] = w]
    BY <1>8 DEF FlushDup, Written
  <2>2. q \in Threads
    BY Zenon, <1>1 DEF Threads
  <2>3. Copied(t, q, w)
    BY <1>1, <1>8, <2>1 DEF Threads, Copied, Range
  <2> QED
    BY <2>1, <2>2, <2>3, OneTable
<1> QED
  BY <1>2, <1>3, <1>4, <1>5, <1>6, <1>7, <1>8 DEF Import

(* After any number of deaths and restarts, in tables of any size and batches of  *)
(* any length, import_rocksdb_from_mdbx and its variant for duplicates step over   *)
(* no entry and count none twice, and a finished thread has copied its table.     *)
THEOREM MigrationCopiesAll ==
    ASSUME NEW Entries, SourceIsOrdered(Entries)
    PROVE  MigrationSpec => []CopiesAll
<1>1. Parked => MigrationInv
  BY DEF Parked, MigrationInv, Fresh, Threads, Copied, SourceIsOrdered
<1>2. MigrationInv /\ [Launch \/ MigrationStep]_migvars => MigrationInv'
  <2> SUFFICES ASSUME MigrationInv, [Launch \/ MigrationStep]_migvars PROVE MigrationInv'
    OBVIOUS
  <2>1. ASSUME importer' = [t \in Tables |-> Fresh("open")], UNCHANGED target PROVE MigrationInv'
    <3>1. \A t \in Tables : Fresh("open") \in Threads /\ Copied(t, Fresh("open"), target[t])
      BY DEF MigrationInv, Fresh, Threads, Copied, SourceIsOrdered
    <3>2. (\A t \in Tables : Copied(t, importer[t], target[t]))'
      BY <2>1, <3>1 DEF Copied, Boundary
    <3> QED
      BY <2>1, <3>1, <3>2 DEF MigrationInv
  <2>2. CASE Launch
    BY <2>1, <2>2 DEF Launch
  <2>3. CASE Dies
    BY <2>1, <2>3 DEF Dies
  <2>4. CASE \E t \in Tables : Import(t)
    BY <2>4, ImportPreserves
  <2>5. CASE UNCHANGED migvars
    BY <2>5 DEF migvars, MigrationInv, Copied, Boundary
  <2> QED
    BY <2>2, <2>3, <2>4, <2>5 DEF MigrationStep
<1>3. MigrationInv => CopiesAll
  <2> SUFFICES ASSUME MigrationInv, NEW t \in Tables
               PROVE  LET r == importer[t] IN
                      /\ {Source[t][i] : i \in (1..r.next) \ r.items} \subseteq target[t]
                      /\ r.total_entries = r.next
                      /\ r.pc = "finished" =>
                            target[t] = Range(Source[t]) /\ r.total_entries = Len(Source[t])
    BY DEF CopiesAll
  <2> DEFINE r == importer[t]
  <2>1. Copied(t, r, target[t]) /\ DOMAIN Source[t] = 1..Len(Source[t])
    BY DEF MigrationInv, SourceIsOrdered
  <2> HIDE DEF r
  <2>2. {Source[t][i] : i \in (1..r.next) \ r.items} \subseteq target[t]
    BY <2>1 DEF Copied
  <2>3. r.pc = "finished" => target[t] = Range(Source[t])
    BY <2>1 DEF Copied, Range
  <2> QED
    BY <2>1, <2>2, <2>3 DEF Copied, r
<1> QED
  BY <1>1, <1>2, <1>3, PTL DEF MigrationSpec

TraceStart(Sessions) == Untraced /\ \E txs \in Sessions, first \in BOOLEAN : Trace(txs, first)

TraceSpec(Sessions) == Untraced /\ [][TraceStart(Sessions) \/ TraceStep]_tracevars

Inputs == [kind : Kinds, gas : Int]

Results == [kind : Kinds, class : Classes, gas : Int]

Execs(lost) ==
    [loop : {"off", "idle", "init", "run", "return", "done"}, txs : Seq(Inputs), first : BOOLEAN,
     tx : Inputs, input : Inputs, frames : Seq(Inputs), finished : BOOLEAN, result : Results,
     depth : Int, error : BOOLEAN, ran : BOOLEAN, ended : Int, missed : [Kinds -> Int],
     lost : {lost}, halted : Int]

Tracers == [gas_remaining : Int, last_gas_cost : Int, summaries : Int, gas_used : Int]

Typed == exec \in Execs(exec.lost) /\ tracer \in Tracers

(* Where the loop is, and which frames it has there. *)
LoopFrames ==
    /\ exec.loop \in {"off", "idle", "done"} => exec.frames = <<>>
    /\ exec.loop = "run" => exec.frames # <<>>
    /\ exec.finished => exec.loop = "return" /\ exec.frames # <<>>

(* The first frame is the transaction's, and it has run code exactly when it was made. *)
FirstFrame ==
    /\ exec.frames # <<>> => exec.ran /\ exec.frames[1].kind = exec.tx.kind
    /\ exec.loop = "init" /\ exec.frames = <<>> => ~ exec.ran /\ exec.input.kind = exec.tx.kind

(* The last hook of the transaction has been called. *)
Over == exec.loop = "done" \/ (exec.loop = "return" /\ exec.depth = 0)

Summary ==
    /\ tracer.summaries = exec.ended + (IF Over THEN 1 ELSE 0)
    /\ Over => tracer.gas_remaining = 0 /\ tracer.last_gas_cost = 0
    /\ Over /\ exec.ran /\ exec.tx.kind = "call" => tracer.gas_used = exec.tx.gas - exec.result.gas

TraceInv == Typed /\ DepthIsFrames /\ LoopFrames /\ FirstFrame /\ Summary

-----------------------------------------------------------------------------
(* The invariant at the start. *)
LEMMA TraceInit == Untraced => TraceInv
<1> SUFFICES ASSUME Untraced PROVE TraceInv
  OBVIOUS
<1>1. exec \in Execs(exec.lost) /\ tracer \in Tracers
  BY DEF Untraced, Unstarted, NewTracer, Execs, Tracers, Inputs, Results, Kinds, Classes
<1>2. /\ exec.loop = "off" /\ exec.frames = <<>> /\ ~ exec.finished /\ exec.depth = 0
      /\ exec.ended = 0 /\ tracer.summaries = 0
  BY DEF Untraced, Unstarted, NewTracer
<1> QED
  BY <1>1, <1>2 DEF TraceInv, Typed, DepthIsFrames, LoopFrames, FirstFrame, Summary, Over

(* A session is started. *)
LEMMA TraceStarts ==
    ASSUME NEW txs \in Seq(Inputs), NEW first \in BOOLEAN, Untraced, Trace(txs, first)
    PROVE  TraceInv'
<1> DEFINE e == Unstarted
<1>0. e \in Execs(e.lost) /\ tracer \in Tracers
  BY DEF Untraced, Unstarted, NewTracer, Execs, Tracers, Inputs, Results, Kinds, Classes
<1>1. exec' \in Execs(exec'.lost) /\ tracer' \in Tracers
  <2>1. exec' = [e EXCEPT !.loop = "idle", !.txs = txs, !.first = first] /\ tracer' = tracer
    BY DEF Trace
  <2> HIDE DEF e
  <2> QED
    BY Zenon, <1>0, <2>1 DEF Execs
<1>2. /\ exec'.loop = "idle" /\ exec'.frames = <<>> /\ ~ exec'.finished /\ exec'.depth = 0
      /\ exec'.ended = 0 /\ tracer'.summaries = 0
  BY DEF Untraced, Trace, Unstarted, NewTracer
<1> QED
  BY <1>1, <1>2 DEF TraceInv, Typed, DepthIsFrames, LoopFrames, FirstFrame, Summary, Over

(* The steps between transactions. *)
LEMMA BetweenTxs ==
    ASSUME TraceInv, InitialGas \in Int, InspectOneTx \/ Invalid
    PROVE  TraceInv'
<1> USE DEF Over
<1>1. exec \in Execs(exec.lost) /\ tracer' = tracer /\ tracer \in Tracers
  BY DEF TraceInv, Typed, InspectOneTx, Invalid
<1>2. exec.loop = "idle" /\ exec.frames = <<>> /\ ~ exec.finished /\ exec.depth = 0
  BY DEF TraceInv, LoopFrames, DepthIsFrames, InspectOneTx, Invalid
<1>3. exec.txs \in Seq(Inputs) /\ exec.txs # <<>>
  BY <1>1 DEF Execs, InspectOneTx, Invalid
<1>4. Head(exec.txs) \in Inputs /\ Tail(exec.txs) \in Seq(Inputs)
  BY <1>3
<1>5. CASE InspectOneTx
  <2> DEFINE tx == Head(exec.txs)
             input == [kind |-> tx.kind, gas |-> tx.gas - InitialGas]
             rest == Tail(exec.txs)
  <2>1. exec' = [exec EXCEPT !.loop = "init", !.txs = rest, !.tx = tx, !.ran = FALSE, !.input = input]
    BY <1>1, <1>5 DEF InspectOneTx, Execs
  <2>2. input \in Inputs /\ tx \in Inputs /\ rest \in Seq(Inputs) /\ input.kind = tx.kind
    BY <1>4 DEF Inputs
  <2> HIDE DEF tx, input, rest
  <2>3. exec' \in Execs(exec'.lost)
    BY Zenon, <1>1, <2>1, <2>2 DEF Execs
  <2>4. /\ exec'.loop = "init" /\ exec'.frames = <<>> /\ ~ exec'.finished /\ exec'.depth = 0
        /\ ~ exec'.ran /\ exec'.input.kind = exec'.tx.kind /\ exec'.ended = exec.ended
    BY <1>1, <1>2, <2>1, <2>2 DEF Execs
  <2>5. Summary'
    BY <1>1, <1>2, <2>4 DEF TraceInv, Summary
  <2> QED
    BY <1>1, <2>3, <2>4, <2>5 DEF TraceInv, Typed, DepthIsFrames, LoopFrames, FirstFrame
<1>6. CASE Invalid
  <2> DEFINE rest == Tail(exec.txs)
  <2>1. exec' = [exec EXCEPT !.txs = rest]
    BY <1>1, <1>6 DEF Invalid, Execs
  <2>2. rest \in Seq(Inputs)
    BY <1>4
  <2> HIDE DEF rest
  <2>3. exec' \in Execs(exec'.lost)
    BY Zenon, <1>1, <2>1, <2>2 DEF Execs
  <2>4. /\ exec'.loop = "idle" /\ exec'.frames = <<>> /\ ~ exec'.finished /\ exec'.depth = 0
        /\ exec'.ended = exec.ended
    BY <1>1, <1>2, <2>1 DEF Execs
  <2>5. Summary'
    BY <1>1, <1>2, <2>4 DEF TraceInv, Summary
  <2> QED
    BY <1>1, <2>3, <2>4, <2>5 DEF TraceInv, Typed, DepthIsFrames, LoopFrames, FirstFrame
<1> QED
  BY <1>5, <1>6

(* A transaction that fails gives up its frames and the journal. *)
LEMMA CatchResets ==
    ASSUME NEW e, NEW lost, e \in Execs(lost)
    PROVE  /\ Catch(e) \in Execs(Catch(e).lost)
           /\ Catch(e).loop = "idle" /\ Catch(e).frames = <<>> /\ ~ Catch(e).finished
           /\ Catch(e).depth = 0 /\ Catch(e).ended = e.ended /\ Catch(e).error = FALSE
<1> DEFINE gone == [k \in Kinds |-> e.lost[k] + FramesOf(k, e.frames)]
<1>1. Catch(e) = [e EXCEPT !.loop = "idle", !.frames = <<>>, !.finished = FALSE, !.depth = 0,
                           !.error = FALSE, !.lost = gone]
  BY DEF Catch, Execs
<1> DEFINE c == Catch(e)
<1> HIDE DEF gone, c
<1>2. c = [e EXCEPT !.loop = "idle", !.frames = <<>>, !.finished = FALSE, !.depth = 0,
                    !.error = FALSE, !.lost = gone]
  BY <1>1 DEF c
<1>3. c.lost = gone
  BY <1>2 DEF Execs
<1>5. c \in Execs(gone)
  <2> DEFINE none == <<>>
             zero == 0
  <2>1. none \in Seq(Inputs) /\ zero \in Int
    OBVIOUS
  <2>2. c = [e EXCEPT !.loop = "idle", !.frames = none, !.finished = FALSE, !.depth = zero,
                      !.error = FALSE, !.lost = gone]
    BY <1>2
  <2> HIDE DEF none, zero
  <2> QED
    BY Zenon, <2>1, <2>2 DEF Execs
<1>4. /\ c.loop = "idle" /\ c.frames = <<>> /\ ~ c.finished /\ c.depth = 0 /\ c.ended = e.ended
      /\ c.error = FALSE
  BY <1>2 DEF Execs
<1> QED
  BY <1>3, <1>4, <1>5 DEF c

(* The end of a transaction, with a result or with the context's error. *)
LEMMA EndOfTx ==
    ASSUME TraceInv, ExecutionResult
    PROVE  TraceInv'
<1> DEFINE c == IF exec.error THEN Catch(exec) ELSE [exec EXCEPT !.loop = "idle"]
           n == exec.ended + 1
<1>1. /\ exec \in Execs(exec.lost) /\ tracer' = tracer /\ tracer \in Tracers /\ exec.loop = "done"
      /\ exec.frames = <<>> /\ ~ exec.finished /\ exec.depth = 0 /\ exec.ended \in Int
  BY DEF TraceInv, Typed, LoopFrames, DepthIsFrames, ExecutionResult, Execs
<1>2. /\ c \in Execs(c.lost) /\ c.loop = "idle" /\ c.frames = <<>> /\ ~ c.finished /\ c.depth = 0
      /\ c.ended = exec.ended
  <2>1. CASE exec.error
    BY Zenon, <1>1, <2>1, CatchResets
  <2>2. CASE ~ exec.error
    BY Zenon, <1>1, <2>2 DEF Execs
  <2> QED
    BY <2>1, <2>2
<1>3. exec' = [c EXCEPT !.ended = n]
  <2>1. CASE exec.error
    BY Zenon, <1>1, <1>2, <2>1 DEF ExecutionResult, Execs
  <2>2. CASE ~ exec.error
    BY <1>1, <2>2 DEF ExecutionResult, Execs
  <2> QED
    BY <2>1, <2>2
<1>4. n \in Int /\ n = exec.ended + 1
  BY <1>1
<1> HIDE DEF c, n
<1>5. exec' \in Execs(exec'.lost)
  BY <1>2, <1>3, <1>4 DEF Execs
<1>6. /\ exec'.loop = "idle" /\ exec'.frames = <<>> /\ ~ exec'.finished /\ exec'.depth = 0
      /\ exec'.ended = exec.ended + 1
  BY <1>2, <1>3, <1>4 DEF Execs
<1>7. Summary'
  BY <1>1, <1>6 DEF TraceInv, Summary, Over
<1> QED
  BY <1>1, <1>5, <1>6, <1>7 DEF TraceInv, Typed, DepthIsFrames, LoopFrames, FirstFrame

-----------------------------------------------------------------------------
(* What call_end and create_end make of the tracer. *)
LEMMA EndedTracer ==
    ASSUME NEW t \in Tracers, NEW result \in Results, NEW depth \in Int, exec.tx.gas \in Int
    PROVE  LET left == IF result.class = "error" THEN 0 ELSE t.gas_remaining
               after == ended(t, result, depth) IN
           /\ after \in Tracers
           /\ depth # 0 => after.summaries = t.summaries
           /\ depth = 0 => /\ after.summaries = t.summaries + 1 /\ after.gas_remaining = 0
                           /\ after.last_gas_cost = 0 /\ after.gas_used = exec.tx.gas - left
<1> DEFINE left == IF result.class = "error" THEN 0 ELSE t.gas_remaining
           after == ended(t, result, depth)
<1>1. left \in Int
  BY DEF Tracers
<1>2. CASE depth # 0
  <2>1. after = [t EXCEPT !.gas_remaining = left]
    BY <1>2 DEF ended
  <2> HIDE DEF left, after
  <2>2. after \in Tracers /\ after.summaries = t.summaries
    BY <1>1, <2>1 DEF Tracers
  <2> QED
    BY <1>2, <2>2 DEF after
<1>3. CASE depth = 0
  <2> DEFINE n == t.summaries + 1
             used == exec.tx.gas - left
             zero == 0
  <2>1. after = [t EXCEPT !.summaries = n, !.gas_used = used, !.gas_remaining = zero, !.last_gas_cost = zero]
    BY <1>3 DEF ended, clear, Tracers
  <2>2. n \in Int /\ used \in Int /\ zero \in Int
    BY <1>1 DEF Tracers
  <2> HIDE DEF left, after, n, used, zero
  <2>3. /\ after \in Tracers /\ after.summaries = n /\ after.gas_remaining = zero
        /\ after.last_gas_cost = zero /\ after.gas_used = used
    BY Zenon, <2>1, <2>2 DEF Tracers
  <2> QED
    BY <1>3, <2>3 DEF n, used, zero, left, after
<1> QED
  BY <1>2, <1>3

(* A result without its failed gas. *)
LEMMA SpentResult ==
    ASSUME NEW result \in Results
    PROVE  /\ spent(result) \in Results
           /\ spent(result).gas = IF result.class = "error" THEN 0 ELSE result.gas
<1> DEFINE zero == 0
<1>1. spent(result) = IF result.class = "error" THEN [result EXCEPT !.gas = zero] ELSE result
  BY DEF spent
<1>2. zero \in Int
  OBVIOUS
<1> HIDE DEF zero
<1>3. /\ spent(result) \in Results
      /\ spent(result).gas = IF result.class = "error" THEN zero ELSE result.gas
  BY <1>1, <1>2 DEF Results
<1> QED
  BY <1>3 DEF zero

(* An outcome that makes no frame: nothing has run when it is the transaction's. *)
LEMMA NoFrameKeeps ==
    ASSUME TraceInv, exec.loop = "init", NEW class \in Classes, NEW gas \in Int, NEW hooks,
           NEW e, e = exec \/ e = [exec EXCEPT !.missed[exec.input.kind] = @ + 1],
           NoFrame([kind |-> exec.input.kind, class |-> class, gas |-> gas], e, hooks)
    PROVE  TraceInv'
<1> DEFINE result == [kind |-> exec.input.kind, class |-> class, gas |-> gas]
           r == spent(result)
<1>1. /\ exec \in Execs(exec.lost) /\ tracer \in Tracers /\ exec.tx.gas \in Int /\ exec.depth \in Int
      /\ exec.input.kind \in Kinds /\ exec.missed \in [Kinds -> Int] /\ exec.ended \in Int
      /\ exec.frames \in Seq(Inputs) /\ ~ exec.finished
  BY DEF TraceInv, Typed, Execs, Inputs, LoopFrames
<1>2. result \in Results /\ r \in Results
  <2>1. result \in Results
    BY <1>1 DEF Results
  <2> QED
    BY <2>1, SpentResult
<1>3. /\ e \in Execs(exec.lost) /\ e.frames = exec.frames /\ e.finished = exec.finished
      /\ e.depth = exec.depth /\ e.ended = exec.ended /\ e.ran = exec.ran /\ e.tx = exec.tx
      /\ e.lost = exec.lost
  <2>1. CASE e = exec
    BY <1>1, <2>1
  <2>2. CASE e = [exec EXCEPT !.missed[exec.input.kind] = @ + 1]
    <3> DEFINE missed == [exec.missed EXCEPT ![exec.input.kind] = @ + 1]
    <3>1. e = [exec EXCEPT !.missed = missed]
      BY <1>1, <2>2 DEF Execs
    <3>2. missed \in [Kinds -> Int]
      BY <1>1
    <3> HIDE DEF missed
    <3> QED
      BY Zenon, <1>1, <3>1, <3>2 DEF Execs
  <2> QED
    BY <2>1, <2>2
<1>4. exec' = [e EXCEPT !.loop = "return", !.finished = FALSE, !.result = r]
      /\ tracer' = ended(tracer, result, exec.depth)
  BY DEF NoFrame
<1> HIDE DEF r, result
<1>5. exec' \in Execs(exec'.lost)
  BY Zenon, <1>2, <1>3, <1>4 DEF Execs
<1>6. /\ exec'.loop = "return" /\ exec'.frames = exec.frames /\ ~ exec'.finished
      /\ exec'.depth = exec.depth /\ exec'.ended = exec.ended /\ exec'.ran = exec.ran
      /\ exec'.tx = exec.tx
  BY <1>3, <1>4 DEF Execs
<1>7. /\ tracer' \in Tracers
      /\ exec.depth # 0 => tracer'.summaries = tracer.summaries
      /\ exec.depth = 0 => tracer'.summaries = tracer.summaries + 1 /\ tracer'.gas_remaining = 0
                           /\ tracer'.last_gas_cost = 0
  BY Zenon, <1>1, <1>2, <1>4, EndedTracer
<1>8. exec.depth = Len(exec.frames) /\ (exec.depth = 0 => ~ exec.ran)
  BY <1>1 DEF TraceInv, DepthIsFrames, FirstFrame
<1>9. Summary'
  BY <1>1, <1>6, <1>7, <1>8 DEF TraceInv, Summary, Over
<1> QED
  BY <1>1, <1>5, <1>6, <1>7, <1>8, <1>9 DEF TraceInv, Typed, DepthIsFrames, LoopFrames, FirstFrame

(* The database fails before a frame is made. *)
LEMMA InitFailsKeeps ==
    ASSUME TraceInv, InitFails
    PROVE  TraceInv'
<1> DEFINE c == Catch(exec)
           gone == [c.lost EXCEPT ![exec.input.kind] = @ + 1]
<1>1. /\ exec \in Execs(exec.lost) /\ tracer \in Tracers /\ tracer' = tracer /\ exec.loop = "init"
  BY DEF TraceInv, Typed, InitFails
<1>2. /\ c \in Execs(c.lost) /\ c.loop = "idle" /\ c.frames = <<>> /\ ~ c.finished /\ c.depth = 0
      /\ c.ended = exec.ended
  BY Zenon, <1>1, CatchResets
<1> HIDE DEF c
<1>3. exec' = [c EXCEPT !.lost = gone]
  BY <1>2 DEF InitFails, c, Execs
<1> HIDE DEF gone
<1>4. exec' \in Execs(gone) /\ exec'.lost = gone
  BY <1>2, <1>3 DEF Execs
<1>5. /\ exec'.loop = "idle" /\ exec'.frames = <<>> /\ ~ exec'.finished /\ exec'.depth = 0
      /\ exec'.ended = exec.ended
  BY <1>2, <1>3 DEF Execs
<1>6. Summary'
  BY <1>1, <1>5 DEF TraceInv, Summary, Over
<1> QED
  BY <1>1, <1>4, <1>5, <1>6 DEF TraceInv, Typed, DepthIsFrames, LoopFrames, FirstFrame

(* A frame is made and its checkpoint opened. *)
LEMMA NewFrameKeeps ==
    ASSUME TraceInv, NewFrame
    PROVE  TraceInv'
<1> DEFINE frames == Append(exec.frames, exec.input)
           depth == exec.depth + 1
           gas == exec.input.gas
<1>1. /\ exec \in Execs(exec.lost) /\ tracer \in Tracers /\ exec.loop = "init" /\ ~ exec.finished
      /\ exec.input \in Inputs /\ exec.frames \in Seq(Inputs) /\ exec.depth \in Int /\ gas \in Int
  BY DEF TraceInv, Typed, LoopFrames, NewFrame, Execs, Inputs
<1>2. exec.depth = Len(exec.frames)
  BY <1>1 DEF TraceInv, DepthIsFrames
<1>3. /\ frames \in Seq(Inputs) /\ Len(frames) = Len(exec.frames) + 1 /\ frames # <<>>
      /\ frames[1].kind = exec.tx.kind /\ depth \in Int /\ depth = Len(frames) /\ depth # 0
  <2>1. CASE exec.frames = <<>>
    BY <1>1, <1>2, <2>1 DEF TraceInv, FirstFrame
  <2>2. CASE exec.frames # <<>>
    BY <1>1, <1>2, <2>2 DEF TraceInv, FirstFrame
  <2> QED
    BY <2>1, <2>2
<1>4. /\ exec' = [exec EXCEPT !.loop = "run", !.frames = frames, !.depth = depth, !.ran = TRUE]
      /\ tracer' = [tracer EXCEPT !.gas_remaining = gas]
  BY <1>1 DEF NewFrame, Execs, initialize_interp
<1> HIDE DEF frames, depth, gas
<1>5. exec' \in Execs(exec'.lost) /\ tracer' \in Tracers /\ tracer'.summaries = tracer.summaries
  BY Zenon, <1>1, <1>3, <1>4 DEF Execs, Tracers
<1>6. /\ exec'.loop = "run" /\ exec'.frames = frames /\ ~ exec'.finished /\ exec'.depth = depth
      /\ exec'.ran /\ exec'.tx = exec.tx /\ exec'.ended = exec.ended
  BY <1>1, <1>4 DEF Execs
<1>7. Summary'
  BY <1>1, <1>5, <1>6 DEF TraceInv, Summary, Over
<1> QED
  BY <1>3, <1>5, <1>6, <1>7 DEF TraceInv, Typed, DepthIsFrames, LoopFrames, FirstFrame

-----------------------------------------------------------------------------
(* The running frame is one of the frames; what changes its gas changes no kind. *)
LEMMA TopFrame ==
    ASSUME NEW frames \in Seq(Inputs), frames # <<>>, NEW gas \in Int
    PROVE  /\ Len(frames) \in DOMAIN frames /\ frames[Len(frames)] \in Inputs
           /\ frames[Len(frames)] = frames[Len(frames)]
           /\ LET after == [frames EXCEPT ![Len(frames)] = [@ EXCEPT !.gas = gas]] IN
              /\ after \in Seq(Inputs) /\ Len(after) = Len(frames) /\ after # <<>>
              /\ after[1].kind = frames[1].kind
<1> DEFINE n == Len(frames)
           top == [frames[n] EXCEPT !.gas = gas]
           after == [frames EXCEPT ![n] = top]
<1>1. n \in Nat /\ n # 0 /\ DOMAIN frames = 1..n /\ n \in DOMAIN frames /\ 1 \in DOMAIN frames
  OBVIOUS
<1>2. frames[n] \in Inputs /\ frames[Len(frames)] = frames[n]
  BY <1>1
<1>3. top \in Inputs /\ top.kind = frames[n].kind
  BY <1>2 DEF Inputs
<1> HIDE DEF top
<1>4. after \in Seq(Inputs) /\ Len(after) = Len(frames) /\ after # <<>>
  BY <1>1, <1>3
<1>5. after[1].kind = frames[1].kind
  <2>1. CASE n = 1
    BY <1>1, <1>3, <2>1
  <2>2. CASE n # 1
    BY <1>1, <2>2
  <2> QED
    BY <2>1, <2>2
<1> QED
  BY <1>1, <1>2, <1>4, <1>5 DEF top

(* A frame ends: the depth is lowered before the hook, and the summary of the outermost call    *)
(* is of the gas that is handed back.                                                        *)
LEMMA FrameEndsKeeps ==
    ASSUME TraceInv, DepositGas \in Int, exec.loop = "run", NEW class \in Classes, NEW gas \in Int,
           NEW hooks, NEW t \in Tracers, t.summaries = tracer.summaries, t.gas_remaining = gas,
           NEW error \in BOOLEAN, NEW halted \in Int,
           FrameEnds(class, gas, hooks, t, [exec EXCEPT !.error = error, !.halted = halted])
    PROVE  TraceInv'
<1> DEFINE e == [exec EXCEPT !.error = error, !.halted = halted]
           kind == exec.frames[Len(exec.frames)].kind
           deposit == kind = "create" /\ class = "ok"
           result == [kind |-> kind,
                      gas |-> IF deposit /\ gas >= DepositGas THEN gas - DepositGas ELSE gas,
                      class |-> IF deposit /\ gas < DepositGas THEN "error" ELSE class]
           r == spent(result)
           depth == exec.depth - 1
<1>1. /\ exec \in Execs(exec.lost) /\ exec.tx.gas \in Int /\ exec.depth \in Int /\ exec.ended \in Int
      /\ exec.frames \in Seq(Inputs) /\ exec.frames # <<>> /\ ~ exec.finished
      /\ exec.depth = Len(exec.frames) /\ depth \in Int
  BY DEF TraceInv, Typed, Execs, Inputs, LoopFrames, DepthIsFrames
<1>2. /\ exec.frames[Len(exec.frames)] \in Inputs /\ exec.frames[Len(exec.frames)] = exec.frames[Len(exec.frames)]
      /\ kind \in Kinds
  BY Zenon, <1>1, TopFrame DEF Inputs
<1>3. /\ exec.ran /\ exec.frames[1].kind = exec.tx.kind /\ tracer.summaries = exec.ended
      /\ (depth = 0 => kind = exec.tx.kind)
  BY <1>1, <1>2 DEF TraceInv, FirstFrame, Summary, Over
<1>4. exec' = [e EXCEPT !.loop = "return", !.finished = TRUE, !.result = r, !.depth = e.depth - 1]
      /\ tracer' = ended(t, result, exec.depth - 1)
  BY DEF FrameEnds, Top
<1>5. /\ result \in Results
      /\ kind = "call" => result.gas = gas /\ result.class = class
  <2>1. "error" \in Classes
    BY DEF Classes
  <2> HIDE DEF kind
  <2> QED
    BY <1>2, <2>1 DEF Results
<1>6. /\ e \in Execs(exec.lost) /\ e.frames = exec.frames /\ e.depth = exec.depth
      /\ e.ended = exec.ended /\ e.ran = exec.ran /\ e.tx = exec.tx
  BY Zenon, <1>1 DEF Execs
<1> HIDE DEF e, kind, deposit, result
<1>7. r \in Results /\ (kind = "call" => r.gas = IF class = "error" THEN 0 ELSE gas)
  BY <1>5, SpentResult
<1>8. /\ tracer' \in Tracers
      /\ depth # 0 => tracer'.summaries = t.summaries
      /\ depth = 0 => /\ tracer'.summaries = t.summaries + 1 /\ tracer'.gas_remaining = 0
                      /\ tracer'.last_gas_cost = 0
                      /\ tracer'.gas_used
                            = exec.tx.gas - (IF result.class = "error" THEN 0 ELSE t.gas_remaining)
  BY ZenonT(30), <1>1, <1>4, <1>5, EndedTracer
<1>9. exec' = [e EXCEPT !.loop = "return", !.finished = TRUE, !.result = r, !.depth = depth]
  BY <1>4, <1>6
<1> HIDE DEF r, depth
<1>10. exec' \in Execs(exec'.lost)
  BY Zenon, <1>1, <1>6, <1>7, <1>9 DEF Execs
<1>11. /\ exec'.loop = "return" /\ exec'.frames = exec.frames /\ exec'.finished /\ exec'.depth = depth
       /\ exec'.ended = exec.ended /\ exec'.ran = exec.ran /\ exec'.tx = exec.tx /\ exec'.result = r
  BY <1>6, <1>9 DEF Execs
<1>12. Summary'
  <2>1. CASE depth # 0
    BY <1>1, <1>3, <1>8, <1>11, <2>1 DEF Summary, Over
  <2>2. CASE depth = 0
    <3>1. exec.tx.kind = "call" => tracer'.gas_used = exec.tx.gas - r.gas
      BY <1>3, <1>5, <1>7, <1>8, <2>2
    <3>2. tracer'.summaries = exec'.ended + 1
      BY <1>3, <1>8, <1>11, <2>2
    <3> QED
      BY <1>8, <1>11, <2>2, <3>1, <3>2 DEF Summary, Over
  <2> QED
    BY <2>1, <2>2
<1>13. DepthIsFrames'
  BY <1>1, <1>11 DEF DepthIsFrames, depth
<1> QED
  BY <1>1, <1>3, <1>8, <1>10, <1>11, <1>12, <1>13 DEF TraceInv, Typed, LoopFrames, FirstFrame

(* What a step shows the tracer. *)
LEMMA SteppedTracer ==
    ASSUME NEW t \in Tracers, NEW before \in Int, NEW after \in Int
    PROVE  /\ stepped(t, before, after) \in Tracers
           /\ stepped(t, before, after).summaries = t.summaries
           /\ stepped(t, before, after).gas_remaining = after
<1> DEFINE cost == IF before > after THEN before - after ELSE 0
<1>1. cost \in Int /\ stepped(t, before, after) = [t EXCEPT !.gas_remaining = after, !.last_gas_cost = cost]
  BY DEF stepped
<1> HIDE DEF cost
<1> QED
  BY Zenon, <1>1 DEF Tracers

(* The running frame takes a step and goes on, or makes a call. *)
LEMMA FrameGoesOn ==
    ASSUME TraceInv, exec.loop = "run", NEW gas \in Int, NEW input \in Inputs, NEW before \in Int,
           NEW loop \in {"run", "init"},
           exec' = [exec EXCEPT !.loop = loop, !.input = input,
                                !.frames = [exec.frames EXCEPT ![Len(exec.frames)] = [@ EXCEPT !.gas = gas]]],
           tracer' = stepped(tracer, before, gas)
    PROVE  TraceInv'
<1> DEFINE frames == [exec.frames EXCEPT ![Len(exec.frames)] = [@ EXCEPT !.gas = gas]]
<1>1. /\ exec \in Execs(exec.lost) /\ exec.frames \in Seq(Inputs) /\ exec.frames # <<>>
      /\ ~ exec.finished /\ tracer \in Tracers /\ exec.ran /\ exec.frames[1].kind = exec.tx.kind
      /\ exec.depth = Len(exec.frames)
  BY DEF TraceInv, Typed, Execs, LoopFrames, FirstFrame, DepthIsFrames
<1>2. /\ frames \in Seq(Inputs) /\ Len(frames) = Len(exec.frames) /\ frames # <<>>
      /\ frames[1].kind = exec.frames[1].kind
  BY <1>1, TopFrame
<1>3. exec' = [exec EXCEPT !.loop = loop, !.input = input, !.frames = frames]
  OBVIOUS
<1>4. tracer' \in Tracers /\ tracer'.summaries = tracer.summaries
  BY <1>1, SteppedTracer
<1> HIDE DEF frames
<1>5. exec' \in Execs(exec'.lost)
  BY ZenonT(30), <1>1, <1>2, <1>3 DEF Execs
<1>6. /\ exec'.loop = loop /\ exec'.frames = frames /\ ~ exec'.finished /\ exec'.depth = exec.depth
      /\ exec'.ran /\ exec'.tx = exec.tx /\ exec'.ended = exec.ended
  BY Zenon, <1>1, <1>3 DEF Execs
<1>7. Summary'
  BY <1>4, <1>6 DEF TraceInv, Summary, Over
<1> QED
  BY <1>1, <1>2, <1>4, <1>5, <1>6, <1>7 DEF TraceInv, Typed, DepthIsFrames, LoopFrames, FirstFrame

(* inspect_frame_run: every step of the running frame. *)
LEMMA FrameRunKeeps ==
    ASSUME TraceInv, DepositGas \in Int,
           \/ \E b \in BOOLEAN : Instruction(b) \/ SelfDestructs(b) \/ \E class \in Classes : Returns(class, b)
           \/ \E kind \in Kinds, gas \in 0..exec.tx.gas : Calls(kind, gas)
           \/ \E class \in Classes : Halted(class)
    PROVE  TraceInv'
<1>1. exec.loop = "run"
  BY Zenon DEF Instruction, SelfDestructs, Returns, Calls, Halted
<1>2. /\ exec \in Execs(exec.lost) /\ tracer \in Tracers /\ exec.frames \in Seq(Inputs) /\ exec.frames # <<>>
      /\ exec.error \in BOOLEAN /\ exec.halted \in Int /\ exec.input \in Inputs /\ exec.tx.gas \in Int
  BY <1>1 DEF TraceInv, Typed, Execs, Inputs, LoopFrames
<1> DEFINE n == Len(exec.frames)
           before == exec.frames[n].gas
           unchanged == [exec EXCEPT !.error = exec.error, !.halted = exec.halted]
<1>3. /\ Top = exec.frames[n] /\ n \in DOMAIN exec.frames /\ exec.frames[n] \in Inputs /\ before \in Int
      /\ Top.gas = before
  BY Zenon, <1>2, TopFrame DEF Top, Inputs
<1>4. exec = unchanged
  BY Zenon, <1>2 DEF Execs
<1>5. "error" \in Classes /\ "ok" \in Classes /\ Classes \subseteq Classes
  BY DEF Classes
<1>11. \A x, y \in Int : LET t == stepped(tracer, x, y)
                         IN  t \in Tracers /\ t.summaries = tracer.summaries /\ t.gas_remaining = y
  BY <1>2, SteppedTracer
<1>6. ASSUME NEW b \in BOOLEAN, Instruction(b) PROVE TraceInv'
  <2>1. CASE before = 0
    <3> DEFINE zero == 0
               t == stepped(tracer, zero, zero)
               hooks == {"step", "step_end"}
    <3>1. FrameEnds("error", zero, hooks, t, unchanged)
      BY <1>3, <1>4, <1>6, <2>1 DEF Instruction
    <3>2. zero \in Int
      OBVIOUS
    <3> HIDE DEF zero, hooks
    <3>3. t \in Tracers /\ t.summaries = tracer.summaries /\ t.gas_remaining = zero
      BY Zenon, <1>11, <3>2
    <3> HIDE DEF t
    <3> QED
      BY Zenon, <1>1, <1>2, <1>5, <3>1, <3>2, <3>3, FrameEndsKeeps
  <2>2. CASE before # 0
    <3>1. exec' = [exec EXCEPT !.frames[n].gas = @ - 1] /\ tracer' = stepped(tracer, before, before - 1)
      BY <1>3, <1>6, <2>2 DEF Instruction
    <3>2. exec' = [exec EXCEPT !.loop = "run", !.input = exec.input,
                               !.frames = [exec.frames EXCEPT ![n] = [@ EXCEPT !.gas = before - 1]]]
      BY Zenon, <1>1, <1>2, <1>3, <3>1 DEF Execs, Inputs
    <3>3. before - 1 \in Int
      BY <1>3
    <3> HIDE DEF before
    <3> QED
      BY Zenon, <1>1, <1>2, <1>3, <3>1, <3>2, <3>3, FrameGoesOn
  <2> QED
    BY <2>1, <2>2
<1>7. ASSUME NEW kind \in Kinds, NEW gas \in 0..exec.tx.gas, Calls(kind, gas) PROVE TraceInv'
  <2> DEFINE input == [kind |-> kind, gas |-> gas]
             after == before - 1 - gas
  <2>1. gas \in Int /\ input \in Inputs /\ after \in Int
    BY <1>2, <1>3 DEF Inputs
  <2>2. exec' = [exec EXCEPT !.loop = "init", !.input = input, !.frames[n].gas = @ - 1 - gas]
        /\ tracer' = stepped(tracer, before, after)
    BY Zenon, <1>3, <1>7 DEF Calls
  <2>3. exec' = [exec EXCEPT !.loop = "init", !.input = input,
                             !.frames = [exec.frames EXCEPT ![n] = [@ EXCEPT !.gas = after]]]
    BY <1>2, <1>3, <2>2 DEF Execs, Inputs
  <2> HIDE DEF before, input, after
  <2> QED
    BY Zenon, <1>1, <1>3, <2>1, <2>2, <2>3, FrameGoesOn
<1>8. ASSUME NEW class \in Classes, NEW b \in BOOLEAN, Returns(class, b) PROVE TraceInv'
  <2> DEFINE t == stepped(tracer, before, before)
             hooks == {"step", "step_end"}
  <2>1. FrameEnds(class, before, hooks, t, [exec EXCEPT !.error = b, !.halted = exec.halted])
    <3>1. [exec EXCEPT !.error = b] = [exec EXCEPT !.error = b, !.halted = exec.halted]
      BY Zenon, <1>2 DEF Execs
    <3>2. FrameEnds(class, before, hooks, t, [exec EXCEPT !.error = b])
      BY <1>3, <1>8 DEF Returns
    <3> QED
      BY <3>1, <3>2
  <2>3. t \in Tracers /\ t.summaries = tracer.summaries /\ t.gas_remaining = before
    BY Zenon, <1>3, <1>11
  <2> HIDE DEF t, before, hooks
  <2> QED
    BY Zenon, <1>1, <1>2, <1>3, <2>1, <2>3, FrameEndsKeeps
<1>9. ASSUME NEW b \in BOOLEAN, SelfDestructs(b) PROVE TraceInv'
  <2> DEFINE t == stepped(tracer, before, before)
             hooks == {"step", "step_end"} \cup (IF b THEN {"selfdestruct"} ELSE {})
  <2>1. FrameEnds("ok", before, hooks, t, unchanged)
    BY <1>3, <1>4, <1>9 DEF SelfDestructs
  <2>2. t \in Tracers /\ t.summaries = tracer.summaries /\ t.gas_remaining = before
    BY Zenon, <1>3, <1>11
  <2> HIDE DEF t, before, hooks
  <2> QED
    BY Zenon, <1>1, <1>2, <1>3, <1>5, <2>1, <2>2, FrameEndsKeeps
<1>10. ASSUME NEW class \in Classes, Halted(class) PROVE TraceInv'
  <2> DEFINE t == [tracer EXCEPT !.gas_remaining = before]
             halted == exec.halted + 1
  <2>1. FrameEnds(class, before, {"step"}, t, [exec EXCEPT !.error = exec.error, !.halted = halted])
    <3>1. [exec EXCEPT !.halted = @ + 1] = [exec EXCEPT !.error = exec.error, !.halted = halted]
      BY Zenon, <1>2 DEF Execs
    <3>2. FrameEnds(class, before, {"step"}, t, [exec EXCEPT !.halted = @ + 1])
      BY <1>3, <1>10 DEF Halted
    <3> QED
      BY <3>1, <3>2
  <2>2. t \in Tracers /\ t.summaries = tracer.summaries /\ t.gas_remaining = before /\ halted \in Int
    <3>1. halted \in Int
      BY <1>2 DEF Execs
    <3> HIDE DEF before, halted
    <3> QED
      BY <1>2, <1>3, <3>1 DEF Tracers
  <2> HIDE DEF t, before, halted
  <2> QED
    BY Zenon, <1>1, <1>2, <1>3, <2>1, <2>2, FrameEndsKeeps
<1> QED
  BY <1>6, <1>7, <1>8, <1>9, <1>10

-----------------------------------------------------------------------------
(* frame_return_result: a finished frame is popped, a result that made none pops nothing. *)
LEMMA ReturnKeeps ==
    ASSUME TraceInv, ReturnResult
    PROVE  TraceInv'
<1> DEFINE frames == IF exec.finished THEN SubSeq(exec.frames, 1, Len(exec.frames) - 1) ELSE exec.frames
           back == IF exec.result.class = "error" THEN 0 ELSE exec.result.gas
           e == [exec EXCEPT !.frames = frames, !.finished = FALSE]
           n == Len(frames)
<1>1. /\ exec \in Execs(exec.lost) /\ tracer \in Tracers /\ tracer' = tracer /\ exec.loop = "return"
      /\ exec.frames \in Seq(Inputs) /\ exec.finished \in BOOLEAN /\ exec.ended \in Int
      /\ exec.error \in BOOLEAN /\ (exec.finished => exec.frames # <<>>) /\ back \in Int
  BY DEF TraceInv, Typed, LoopFrames, ReturnResult, Execs, Results
<1>2. /\ frames \in Seq(Inputs) /\ exec.depth = n
      /\ frames # <<>> => exec.frames # <<>> /\ frames[1] = exec.frames[1]
  <2>1. CASE exec.finished
    <3>1. frames = SubSeq(exec.frames, 1, Len(exec.frames) - 1) /\ Len(exec.frames) \in Nat
          /\ Len(exec.frames) # 0
      BY <1>1, <2>1
    <3>2. /\ frames \in Seq(Inputs) /\ n = Len(exec.frames) - 1
          /\ n # 0 => frames[1] = exec.frames[1]
      <4> HIDE DEF frames
      <4> QED
        BY <1>1, <3>1
    <3>3. exec.depth = Len(exec.frames) - 1
      BY <2>1 DEF TraceInv, DepthIsFrames
    <3>4. frames # <<>> => n # 0
      <4>1. \A q \in Seq(Inputs) : q # <<>> => Len(q) # 0
        OBVIOUS
      <4> HIDE DEF frames
      <4> QED
        BY Zenon, <3>2, <4>1
    <3> QED
      BY <1>1, <2>1, <3>2, <3>3, <3>4
  <2>2. CASE ~ exec.finished
    BY <1>1, <2>2 DEF TraceInv, DepthIsFrames
  <2> QED
    BY <2>1, <2>2
<1>3. /\ e \in Execs(exec.lost) /\ e.loop = "return" /\ e.frames = frames /\ ~ e.finished
      /\ e.depth = exec.depth /\ e.ended = exec.ended /\ e.ran = exec.ran /\ e.tx = exec.tx
      /\ e.result = exec.result /\ e.lost = exec.lost
  <2> HIDE DEF frames
  <2> QED
    BY Zenon, <1>1, <1>2 DEF Execs
<1>4. exec' = CASE frames = <<>> -> [e EXCEPT !.loop = "done"]
                [] frames # <<>> /\ exec.error -> Catch(e)
                [] OTHER -> [e EXCEPT !.loop = "run", !.frames[n].gas = @ + back]
  BY DEF ReturnResult
<1> HIDE DEF frames, back, e
<1>5. CASE frames = <<>>
  <2>1. exec' = [e EXCEPT !.loop = "done"]
    BY <1>4, <1>5
  <2>2. /\ exec' \in Execs(exec'.lost) /\ exec'.loop = "done" /\ exec'.frames = <<>> /\ ~ exec'.finished
        /\ exec'.depth = exec.depth /\ exec'.ended = exec.ended /\ exec'.ran = exec.ran
        /\ exec'.tx = exec.tx /\ exec'.result = exec.result
    BY Zenon, <1>3, <1>5, <2>1 DEF Execs
  <2>3. exec.depth = 0
    BY <1>2, <1>5
  <2>4. Summary'
    BY <1>1, <2>2, <2>3 DEF TraceInv, Summary, Over
  <2>5. DepthIsFrames'
    BY <2>2, <2>3 DEF DepthIsFrames
  <2> QED
    BY <1>1, <2>2, <2>4, <2>5 DEF TraceInv, Typed, LoopFrames, FirstFrame
<1>6. ASSUME frames # <<>> PROVE exec.depth # 0 /\ tracer.summaries = exec.ended
  BY <1>1, <1>2, <1>6 DEF TraceInv, Summary, Over
<1>7. CASE frames # <<>> /\ exec.error
  <2>1. exec' = Catch(e)
    BY <1>4, <1>7
  <2>2. /\ exec' \in Execs(exec'.lost) /\ exec'.loop = "idle" /\ exec'.frames = <<>> /\ ~ exec'.finished
        /\ exec'.depth = 0 /\ exec'.ended = exec.ended
    BY Zenon, <1>3, <2>1, CatchResets
  <2>3. Summary'
    BY <1>1, <1>6, <1>7, <2>2 DEF Summary, Over
  <2> QED
    BY <1>1, <2>2, <2>3 DEF TraceInv, Typed, DepthIsFrames, LoopFrames, FirstFrame
<1>8. CASE frames # <<>> /\ ~ exec.error
  <2> DEFINE gas == frames[n].gas + back
             after == [frames EXCEPT ![n] = [@ EXCEPT !.gas = gas]]
  <2>1. exec' = [e EXCEPT !.loop = "run", !.frames[n].gas = @ + back]
    BY <1>4, <1>8
  <2>2. n \in DOMAIN frames /\ frames[n] \in Inputs
    BY <1>2, <1>8, TopFrame
  <2>3. gas \in Int
    BY <1>1, <2>2 DEF Inputs
  <2>4. exec' = [e EXCEPT !.loop = "run", !.frames = after]
    BY Zenon, <1>3, <2>1, <2>2 DEF Execs, Inputs
  <2> HIDE DEF gas
  <2>5. /\ after \in Seq(Inputs) /\ Len(after) = n /\ after # <<>> /\ after[1].kind = frames[1].kind
    BY <1>2, <1>8, <2>3, TopFrame
  <2> HIDE DEF after
  <2>6. /\ exec' \in Execs(exec'.lost) /\ exec'.loop = "run" /\ exec'.frames = after /\ ~ exec'.finished
        /\ exec'.depth = exec.depth /\ exec'.ended = exec.ended /\ exec'.ran = exec.ran
        /\ exec'.tx = exec.tx
    BY Zenon, <1>3, <2>4, <2>5 DEF Execs
  <2>7. exec'.ran /\ after[1].kind = exec'.tx.kind
    BY <1>2, <1>8, <2>5, <2>6 DEF TraceInv, FirstFrame
  <2>8. Summary'
    BY <1>1, <1>6, <1>8, <2>6 DEF Summary, Over
  <2> QED
    BY <1>1, <1>2, <2>5, <2>6, <2>7, <2>8 DEF TraceInv, Typed, DepthIsFrames, LoopFrames, FirstFrame
<1> QED
  BY <1>5, <1>7, <1>8

(* Every step keeps the invariant. *)
LEMMA TraceKeeps ==
    ASSUME TraceInv, TraceStep, InitialGas \in Int, DepositGas \in Int
    PROVE  TraceInv'
<1>1. ASSUME NEW class \in Classes, NEW gas \in 0..exec.input.gas, Overridden(class, gas) \/ Immediate(class, gas)
      PROVE  TraceInv'
  <2>1. gas \in Int /\ exec.loop = "init"
    BY <1>1 DEF TraceInv, Typed, Execs, Inputs, Overridden, Immediate
  <2> DEFINE result == [kind |-> exec.input.kind, class |-> class, gas |-> gas]
             missed == [exec EXCEPT !.missed[exec.input.kind] = @ + 1]
  <2>2. \E e, hooks : (e = exec \/ e = missed) /\ NoFrame(result, e, hooks)
    BY <1>1 DEF Overridden, Immediate
  <2>3. PICK e, hooks : (e = exec \/ e = missed) /\ NoFrame(result, e, hooks)
    BY <2>2
  <2> QED
    BY <2>1, <2>3, NoFrameKeeps
<1> QED
  BY <1>1, BetweenTxs, EndOfTx, InitFailsKeeps, NewFrameKeeps, ReturnKeeps, FrameRunKeeps DEF TraceStep

(* Every step of an inspected execution keeps the invariant. *)
LEMMA TraceKept ==
    ASSUME NEW Sessions, Sessions \subseteq Seq(Inputs), InitialGas \in Int, DepositGas \in Int,
           TraceInv, [TraceStart(Sessions) \/ TraceStep]_tracevars
    PROVE  TraceInv'
<1>1. CASE TraceStart(Sessions)
  BY <1>1, TraceStarts DEF TraceStart
<1>2. CASE TraceStep
  BY <1>2, TraceKeeps
<1>3. CASE UNCHANGED tracevars
  BY Zenon, <1>3 DEF tracevars, TraceInv, Typed, DepthIsFrames, LoopFrames, FirstFrame, Summary, Over
<1> QED
  BY <1>1, <1>2, <1>3

(* For every set of sessions and every gas: the journal's depth, by which the tracer finds the end  *)
(* of a transaction, is the number of frames that have not ended; and every transaction that gets    *)
(* to its result has one summary, after which the tracer is as new, and whose gas, for a call that    *)
(* ran code, is what the execution left of its limit.                                            *)
THEOREM SummariesAreTrue ==
    ASSUME NEW Sessions, Sessions \subseteq Seq(Inputs), InitialGas \in Int, DepositGas \in Int
    PROVE  TraceSpec(Sessions) => [](DepthIsFrames /\ SummaryOfTx)
<1>1. Untraced => TraceInv
  BY TraceInit
<1>2. TraceInv /\ [TraceStart(Sessions) \/ TraceStep]_tracevars => TraceInv'
  BY TraceKept
<1>3. TraceInv => DepthIsFrames /\ SummaryOfTx
  BY DEF TraceInv, Summary, Over, SummaryOfTx
<1> QED
  BY <1>1, <1>2, <1>3, PTL DEF TraceSpec

-----------------------------------------------------------------------------
(* The frames of a kind, as frames come and go. *)
LEMMA FramesAreCounted ==
    ASSUME NEW frames \in Seq(Inputs), NEW k
    PROVE  FramesOf(k, frames) \in Nat /\ (frames = <<>> => FramesOf(k, frames) = 0)
<1> DEFINE S == {i \in DOMAIN frames : frames[i].kind = k}
<1>1. Len(frames) \in Nat /\ DOMAIN frames = 1..Len(frames)
  OBVIOUS
<1>2. IsFiniteSet(1..Len(frames))
  BY <1>1, FS_Interval
<1>3. IsFiniteSet(S)
  BY <1>1, <1>2, FS_Subset
<1>4. Cardinality(S) \in Nat
  BY <1>3, FS_CardinalityType
<1>5. frames = <<>> => S = {}
  OBVIOUS
<1>6. frames = <<>> => Cardinality(S) = 0
  BY <1>5, FS_EmptySet
<1> QED
  BY <1>4, <1>6 DEF FramesOf

(* A new frame is one more of its kind. *)
LEMMA FramesGrow ==
    ASSUME NEW frames \in Seq(Inputs), NEW input \in Inputs, NEW k
    PROVE  FramesOf(k, Append(frames, input)) = FramesOf(k, frames) + (IF input.kind = k THEN 1 ELSE 0)
<1> DEFINE S == {i \in DOMAIN frames : frames[i].kind = k}
           more == Append(frames, input)
           M == {i \in DOMAIN more : more[i].kind = k}
           n == Len(frames)
<1>1. n \in Nat /\ DOMAIN frames = 1..n /\ DOMAIN more = 1..(n + 1) /\ more[n + 1] = input
      /\ (\A i \in 1..n : more[i] = frames[i]) /\ n + 1 \notin S
  OBVIOUS
<1>2. IsFiniteSet(S)
  <2>1. IsFiniteSet(1..n)
    BY <1>1, FS_Interval
  <2> QED
    BY <1>1, <2>1, FS_Subset
<1>3. M = IF input.kind = k THEN S \cup {n + 1} ELSE S
  <2> HIDE DEF more, n
  <2>1. \A i : i \in 1..(n + 1) <=> (i \in 1..n \/ i = n + 1)
    BY <1>1
  <2> QED
    BY <1>1, <2>1
<1>4. Cardinality(S) \in Nat /\ Cardinality(S \cup {n + 1}) = Cardinality(S) + 1
  <2> HIDE DEF S, n
  <2> QED
    BY <1>1, <1>2, FS_CardinalityType, FS_AddElement
<1>5. FramesOf(k, more) = Cardinality(M) /\ FramesOf(k, frames) = Cardinality(S)
  BY DEF FramesOf
<1> HIDE DEF M, S, more, n
<1>6. FramesOf(k, more) = FramesOf(k, frames) + (IF input.kind = k THEN 1 ELSE 0)
  BY <1>3, <1>4, <1>5
<1> QED
  BY <1>6 DEF more

(* A frame that is popped is one less of its kind. *)
LEMMA FramesShrink ==
    ASSUME NEW frames \in Seq(Inputs), frames # <<>>, NEW k
    PROVE  /\ SubSeq(frames, 1, Len(frames) - 1) \in Seq(Inputs)
           /\ FramesOf(k, frames) = FramesOf(k, SubSeq(frames, 1, Len(frames) - 1)) + (IF frames[Len(frames)].kind = k THEN 1 ELSE 0)
<1> DEFINE n == Len(frames)
           front == SubSeq(frames, 1, Len(frames) - 1)
<1>1. n \in Nat /\ n # 0 /\ DOMAIN frames = 1..n /\ frames[n] \in Inputs /\ frames[Len(frames)] = frames[n]
  OBVIOUS
<1>2. front = SubSeq(frames, 1, n - 1)
  BY <1>1
<1> HIDE DEF front
<1>3. front \in Seq(Inputs) /\ Len(front) = n - 1 /\ \A i \in 1..(n - 1) : front[i] = frames[i]
  BY <1>1, <1>2
<1>4. frames = Append(front, frames[n])
  <2> DEFINE whole == Append(front, frames[n])
             top == frames[n]
  <2>0. top \in Inputs /\ n - 1 \in Nat /\ n \in Nat
    BY <1>1
  <2> HIDE DEF n, top
  <2>1. whole \in Seq(Inputs) /\ Len(whole) = n /\ whole[n] = frames[n] /\ \A i \in 1..(n - 1) : whole[i] = frames[i]
    <3>1. whole = Append(front, top)
      BY DEF top
    <3>2. whole \in Seq(Inputs) /\ Len(whole) = (n - 1) + 1 /\ whole[(n - 1) + 1] = top
          /\ \A i \in 1..(n - 1) : whole[i] = front[i]
      BY <1>3, <2>0, <3>1
    <3>3. (n - 1) + 1 = n
      BY <2>0
    <3> QED
      BY <1>3, <3>2, <3>3 DEF top
  <2> HIDE DEF whole
  <2>2. \A i \in 1..n : whole[i] = frames[i]
    BY <1>1, <2>1
  <2>3. whole = frames
    BY <1>1, <2>1, <2>2
  <2> QED
    BY <2>3 DEF whole
<1> HIDE DEF n
<1>5. FramesOf(k, Append(front, frames[n])) = FramesOf(k, front) + (IF frames[n].kind = k THEN 1 ELSE 0)
  BY <1>1, <1>3, FramesGrow
<1> QED
  BY Zenon, <1>1, <1>3, <1>4, <1>5 DEF front

(* The gas of a frame is not its kind. *)
LEMMA FramesStay ==
    ASSUME NEW frames \in Seq(Inputs), NEW n \in DOMAIN frames, NEW gas \in Int, NEW k
    PROVE  FramesOf(k, [frames EXCEPT ![n] = [@ EXCEPT !.gas = gas]]) = FramesOf(k, frames)
<1> DEFINE top == [frames[n] EXCEPT !.gas = gas]
           after == [frames EXCEPT ![n] = top]
<1>1. frames[n] \in Inputs
  OBVIOUS
<1>2. top.kind = frames[n].kind
  BY <1>1 DEF Inputs
<1> HIDE DEF top
<1>3. DOMAIN after = DOMAIN frames /\ \A i \in DOMAIN frames : after[i].kind = frames[i].kind
  BY <1>2
<1>4. {i \in DOMAIN after : after[i].kind = k} = {i \in DOMAIN frames : frames[i].kind = k}
  <2> HIDE DEF after
  <2> QED
    BY <1>3
<1> QED
  BY Zenon, <1>4 DEF FramesOf, top

-----------------------------------------------------------------------------
(* The hooks *)
HookInv == count \in [Hooks -> Int] /\ exec.lost \in [Kinds -> Int] /\ HooksPaired

One(p) == IF p THEN 1 ELSE 0

(* What is told, lost, missed and open changes by the same number. *)
Paired(hooks, k) ==
    One(k \in hooks) + (exec'.missed[k] - exec.missed[k])
        = One(End(k) \in hooks) + (FramesOf(k, exec'.frames) - FramesOf(k, exec.frames))
          - (Ended(k)' - Ended(k)) + (exec'.lost[k] - exec.lost[k])

(* Then the hooks are still in pairs. *)
LEMMA PairsStay ==
    ASSUME TraceInv, TraceInv', HookInv, exec'.lost \in [Kinds -> Int],
           NEW hooks, Counted(hooks), \A k \in Kinds : Paired(hooks, k),
           One("step" \in hooks) = One("step_end" \in hooks) + (exec'.halted - exec.halted)
    PROVE  HookInv'
<1>1. /\ exec.missed \in [Kinds -> Int] /\ exec'.missed \in [Kinds -> Int] /\ exec.halted \in Int /\ exec'.halted \in Int
      /\ exec.frames \in Seq(Inputs) /\ exec'.frames \in Seq(Inputs)
  BY DEF TraceInv, Typed, Execs
<1>2. Hooks = {"initialize_interp", "step", "step_end", "log", "call", "call_end", "create", "create_end", "selfdestruct"}
      /\ \A k \in Kinds : k \in Hooks /\ End(k) \in Hooks
  BY DEF Hooks, Kinds, End
<1>3. count' \in [Hooks -> Int] /\ \A h \in Hooks : count'[h] = count[h] + One(h \in hooks) /\ count[h] \in Int
  BY DEF HookInv, Counted, One
<1>4. ASSUME NEW k \in Kinds
      PROVE  count'[k] + exec'.missed[k] = count'[End(k)] + FramesOf(k, exec'.frames) - Ended(k)' + exec'.lost[k]
  <2>1. FramesOf(k, exec.frames) \in Int /\ FramesOf(k, exec'.frames) \in Int
    BY <1>1, FramesAreCounted
  <2>2. Ended(k) \in Int /\ Ended(k)' \in Int /\ One(k \in hooks) \in Int /\ One(End(k) \in hooks) \in Int
    BY DEF Ended, One
  <2>3. count[k] + exec.missed[k] = count[End(k)] + FramesOf(k, exec.frames) - Ended(k) + exec.lost[k]
        /\ exec.lost[k] \in Int /\ exec'.lost[k] \in Int /\ exec.missed[k] \in Int /\ exec'.missed[k] \in Int
    BY <1>1 DEF HookInv, HooksPaired
  <2>4. count'[k] = count[k] + One(k \in hooks) /\ count'[End(k)] = count[End(k)] + One(End(k) \in hooks)
        /\ count[k] \in Int /\ count[End(k)] \in Int
    BY <1>2, <1>3
  <2>5. One(k \in hooks) + (exec'.missed[k] - exec.missed[k])
        = One(End(k) \in hooks) + (FramesOf(k, exec'.frames) - FramesOf(k, exec.frames))
          - (Ended(k)' - Ended(k)) + (exec'.lost[k] - exec.lost[k])
    BY DEF Paired
  <2> DEFINE end == End(k)
             now == Ended(k)'
             told == One(k \in hooks)
             over == One(end \in hooks)
             open == FramesOf(k, exec'.frames)
             before == FramesOf(k, exec.frames)
  <2> HIDE DEF end, now, told, over, open, before
  <2>6. count'[k] + exec'.missed[k] = count'[end] + open - now + exec'.lost[k]
    BY <2>1, <2>2, <2>3, <2>4, <2>5 DEF end, now, told, over, open, before
  <2> QED
    BY <2>6 DEF end, now, open
<1>5. count'["step"] = count'["step_end"] + exec'.halted
  <2>1. One("step" \in hooks) \in Int /\ One("step_end" \in hooks) \in Int
    BY DEF One
  <2>2. count["step"] = count["step_end"] + exec.halted
    BY DEF HookInv, HooksPaired
  <2>3. "step" \in Hooks /\ "step_end" \in Hooks
    BY <1>2
  <2>4. One("step" \in hooks) = One("step_end" \in hooks) + (exec'.halted - exec.halted)
    OBVIOUS
  <2>5. /\ count'["step"] = count["step"] + One("step" \in hooks)
        /\ count'["step_end"] = count["step_end"] + One("step_end" \in hooks)
    BY <1>3, <2>3
  <2>6. count["step"] \in Int /\ count["step_end"] \in Int /\ exec.halted \in Int /\ exec'.halted \in Int
    BY <1>1, <1>3, <2>3
  <2> QED
    BY <2>1, <2>2, <2>4, <2>5, <2>6
<1>6. HooksPaired'
  BY <1>4, <1>5 DEF HooksPaired
<1> QED
  BY <1>3, <1>6 DEF HookInv

(* A failed transaction's frames are lost. *)
LEMMA CatchLoses ==
    ASSUME NEW e, NEW lost \in [Kinds -> Int], e \in Execs(lost)
    PROVE  /\ Catch(e).lost \in [Kinds -> Int] /\ Catch(e).missed = e.missed /\ Catch(e).halted = e.halted
           /\ \A k \in Kinds : Catch(e).lost[k] = lost[k] + FramesOf(k, e.frames)
<1> DEFINE gone == [k \in Kinds |-> e.lost[k] + FramesOf(k, e.frames)]
           c == Catch(e)
<1>1. c = [e EXCEPT !.loop = "idle", !.frames = <<>>, !.finished = FALSE, !.depth = 0,
                    !.error = FALSE, !.lost = gone]
  BY DEF Catch, Execs
<1>2. e.lost = lost /\ e.frames \in Seq(Inputs)
  BY DEF Execs
<1>3. gone \in [Kinds -> Int] /\ \A k \in Kinds : gone[k] = lost[k] + FramesOf(k, e.frames)
  BY <1>2, FramesAreCounted
<1> HIDE DEF gone, c
<1>4. c.lost = gone /\ c.missed = e.missed /\ c.halted = e.halted
  BY <1>1 DEF Execs
<1> QED
  BY <1>3, <1>4 DEF c

(* The hooks of a frame's end are no others. *)
LEMMA HookNames ==
    /\ \A k \in Kinds : k \in {"call", "create"} /\ End(k) \in {"call_end", "create_end"}
    /\ \A k, l \in Kinds : End(k) = End(l) => k = l
  BY DEF Kinds, End

(* Between transactions no hook is called. *)
LEMMA QuietHooks ==
    ASSUME TraceInv, TraceInv', HookInv, InspectOneTx \/ Invalid \/ ExecutionResult
    PROVE  HookInv'
<1>1. /\ exec \in Execs(exec.lost) /\ exec.frames = <<>> /\ ~ exec.finished /\ count' = count
      /\ exec.missed \in [Kinds -> Int] /\ exec.halted \in Int
  BY DEF TraceInv, Typed, Execs, LoopFrames, InspectOneTx, Invalid, ExecutionResult
<1>2. exec.lost \in [Kinds -> Int] /\ count \in [Hooks -> Int]
  BY DEF HookInv
<1>3. /\ exec'.frames = <<>> /\ ~ exec'.finished /\ exec'.missed = exec.missed /\ exec'.halted = exec.halted
      /\ exec'.lost \in [Kinds -> Int] /\ \A k \in Kinds : exec'.lost[k] = exec.lost[k]
  <2>1. CASE InspectOneTx
    <3>1. \E tx, txs, input : exec' = [exec EXCEPT !.loop = "init", !.txs = txs, !.tx = tx, !.ran = FALSE, !.input = input]
      BY Zenon, <2>1 DEF InspectOneTx
    <3>2. PICK tx, txs, input : exec' = [exec EXCEPT !.loop = "init", !.txs = txs, !.tx = tx, !.ran = FALSE, !.input = input]
      BY Zenon, <3>1
    <3> QED
      BY <1>1, <1>2, <3>2 DEF Execs
  <2>4. CASE Invalid
    <3>1. PICK txs : exec' = [exec EXCEPT !.txs = txs]
      BY Zenon, <2>4 DEF Invalid
    <3> QED
      BY <1>1, <1>2, <3>1 DEF Execs
  <2>2. CASE ExecutionResult /\ ~ exec.error
    BY <1>1, <1>2, <2>2 DEF ExecutionResult, Execs
  <2>3. CASE ExecutionResult /\ exec.error
    <3> DEFINE c == Catch(exec)
    <3>1. exec' = [c EXCEPT !.ended = @ + 1]
      BY <2>3 DEF ExecutionResult
    <3>2. c \in Execs(c.lost) /\ c.frames = <<>> /\ ~ c.finished
      BY Zenon, <1>1, CatchResets
    <3>3. c.lost \in [Kinds -> Int] /\ c.missed = exec.missed /\ c.halted = exec.halted
          /\ \A k \in Kinds : c.lost[k] = exec.lost[k] + FramesOf(k, exec.frames)
      BY <1>1, <1>2, CatchLoses
    <3>4. \A k \in Kinds : FramesOf(k, exec.frames) = 0
      BY <1>1, FramesAreCounted DEF Execs
    <3> HIDE DEF c
    <3> QED
      BY <1>2, <3>1, <3>2, <3>3, <3>4 DEF Execs
  <2> QED
    BY <2>1, <2>2, <2>3, <2>4
<1>4. Counted({})
  BY <1>1, <1>2 DEF Counted
<1>5. \A k \in Kinds : Paired({}, k)
  <2> SUFFICES ASSUME NEW k \in Kinds PROVE Paired({}, k)
    OBVIOUS
  <2>1. FramesOf(k, exec'.frames) = FramesOf(k, exec.frames) /\ FramesOf(k, exec.frames) \in Int
    BY <1>1, <1>3, FramesAreCounted DEF Execs
  <2>2. Ended(k) = 0 /\ Ended(k)' = 0 /\ exec.missed[k] \in Int /\ exec.lost[k] \in Int
    BY <1>1, <1>2, <1>3 DEF Ended
  <2>3. One(k \in {}) = 0 /\ One(End(k) \in {}) = 0
    BY DEF One
  <2> QED
    BY <1>3, <2>1, <2>2, <2>3 DEF Paired
<1>6. One("step" \in {}) = One("step_end" \in {}) + (exec'.halted - exec.halted)
  BY <1>1, <1>3 DEF One
<1> HIDE DEF One
<1> QED
  BY <1>3, <1>4, <1>5, <1>6, PairsStay

(* An outcome that makes no frame is told to end, and was told of unless it was answered before. *)
LEMMA NoFrameHooks ==
    ASSUME TraceInv, TraceInv', HookInv, NEW class \in Classes, NEW gas,
           Overridden(class, gas) \/ Immediate(class, gas)
    PROVE  HookInv'
<1> DEFINE kind == exec.input.kind
           result == [kind |-> kind, class |-> class, gas |-> gas]
           missed == [exec.missed EXCEPT ![kind] = @ + 1]
<1>1. /\ exec \in Execs(exec.lost) /\ ~ exec.finished /\ kind \in Kinds /\ exec.halted \in Int
      /\ exec.missed \in [Kinds -> Int] /\ exec.frames \in Seq(Inputs)
  BY Zenon DEF TraceInv, Typed, Execs, Inputs, LoopFrames, Overridden, Immediate
<1>2. exec.lost \in [Kinds -> Int]
  BY DEF HookInv
<1>3. NoFrame(result, exec, {kind}) \/ NoFrame(result, [exec EXCEPT !.missed = missed], {})
  <2>1. [exec EXCEPT !.missed[exec.input.kind] = @ + 1] = [exec EXCEPT !.missed = missed]
    BY <1>1 DEF Execs
  <2>2. CASE Immediate(class, gas)
    BY <2>2 DEF Immediate
  <2>3. CASE Overridden(class, gas) /\ exec.first
    BY <2>1, <2>3 DEF Overridden
  <2>4. CASE Overridden(class, gas) /\ ~ exec.first
    BY <2>4 DEF Overridden
  <2> QED
    BY <2>2, <2>3, <2>4
<1> DEFINE told == NoFrame(result, exec, {kind})
           e == IF told THEN exec ELSE [exec EXCEPT !.missed = missed]
<1> DEFINE hooks == (IF told THEN {kind} ELSE {}) \cup {End(kind)}
<1>4. Counted(hooks) /\ exec' = [e EXCEPT !.loop = "return", !.finished = FALSE, !.result = spent(result)]
  BY Zenon, <1>3 DEF NoFrame
<1>5. missed \in [Kinds -> Int] /\ \A k \in Kinds : missed[k] = exec.missed[k] + One(k = kind)
  BY <1>1 DEF One
<1> HIDE DEF missed, result, kind, told
<1>7. /\ exec'.frames = exec.frames /\ ~ exec'.finished /\ exec'.halted = exec.halted /\ exec'.lost = exec.lost
      /\ exec'.missed = IF told THEN exec.missed ELSE missed
  <2>1. CASE told
    BY <1>1, <1>4, <2>1 DEF Execs
  <2>2. CASE ~ told
    BY <1>1, <1>4, <2>2 DEF Execs
  <2> QED
    BY <2>1, <2>2
<1>8. \A k \in Kinds : Paired(hooks, k)
  <2> SUFFICES ASSUME NEW k \in Kinds PROVE Paired(hooks, k)
    OBVIOUS
  <2>1. FramesOf(k, exec'.frames) = FramesOf(k, exec.frames) /\ FramesOf(k, exec.frames) \in Int
    BY <1>1, <1>7, FramesAreCounted
  <2>2. Ended(k) = 0 /\ Ended(k)' = 0 /\ exec.lost[k] \in Int /\ exec'.lost[k] = exec.lost[k]
    BY <1>1, <1>2, <1>7 DEF Ended
  <2>3. (k \in hooks <=> (told /\ k = kind)) /\ (End(k) \in hooks <=> k = kind)
    BY <1>1, HookNames
  <2>4. exec'.missed[k] - exec.missed[k] = (IF told THEN 0 ELSE One(k = kind)) /\ One(k = kind) \in Int
        /\ exec.missed[k] \in Int /\ exec'.missed[k] \in Int
    BY <1>1, <1>5, <1>7 DEF One
  <2>5. One(k \in hooks) + (IF told THEN 0 ELSE One(k = kind)) = One(End(k) \in hooks)
        /\ One(k \in hooks) \in Int /\ One(End(k) \in hooks) \in Int
    BY <2>3 DEF One
  <2> HIDE DEF hooks, One
  <2> QED
    BY <2>1, <2>2, <2>4, <2>5 DEF Paired
<1>9. One("step" \in hooks) = One("step_end" \in hooks) + (exec'.halted - exec.halted)
  BY <1>1, <1>7, HookNames DEF One
<1>10. exec'.lost \in [Kinds -> Int]
  BY <1>2, <1>7
<1> HIDE DEF hooks, One
<1> QED
  BY <1>4, <1>8, <1>9, <1>10, PairsStay

(* A frame that the database fails to make is lost with the others. *)
LEMMA InitFailsHooks ==
    ASSUME TraceInv, TraceInv', HookInv, InitFails
    PROVE  HookInv'
<1> DEFINE kind == exec.input.kind
           hooks == {kind}
           c == Catch(exec)
           gone == [c.lost EXCEPT ![kind] = @ + 1]
<1>1. /\ exec \in Execs(exec.lost) /\ ~ exec.finished /\ kind \in Kinds /\ exec.halted \in Int
      /\ exec.missed \in [Kinds -> Int] /\ exec.frames \in Seq(Inputs)
  BY Zenon DEF TraceInv, Typed, Execs, Inputs, LoopFrames, InitFails
<1>2. exec.lost \in [Kinds -> Int]
  BY DEF HookInv
<1>3. Counted(hooks) /\ exec' = [c EXCEPT !.lost[kind] = @ + 1]
  BY DEF InitFails
<1>4. c \in Execs(c.lost) /\ c.frames = <<>> /\ ~ c.finished
  BY Zenon, <1>1, CatchResets
<1>5. /\ c.lost \in [Kinds -> Int] /\ c.missed = exec.missed /\ c.halted = exec.halted
      /\ \A k \in Kinds : c.lost[k] = exec.lost[k] + FramesOf(k, exec.frames)
  BY <1>1, <1>2, CatchLoses
<1> HIDE DEF c, kind
<1>6. exec' = [c EXCEPT !.lost = gone]
  BY <1>3, <1>4 DEF Execs
<1>7. gone \in [Kinds -> Int] /\ \A k \in Kinds : gone[k] = c.lost[k] + One(k = kind)
  BY <1>1, <1>5 DEF One
<1> HIDE DEF gone
<1>8. /\ exec'.frames = <<>> /\ ~ exec'.finished /\ exec'.halted = exec.halted /\ exec'.lost = gone
      /\ exec'.missed = exec.missed
  BY <1>4, <1>5, <1>6 DEF Execs
<1>9. \A k \in Kinds : Paired(hooks, k)
  <2> SUFFICES ASSUME NEW k \in Kinds PROVE Paired(hooks, k)
    OBVIOUS
  <2>1. FramesOf(k, exec'.frames) = 0 /\ FramesOf(k, exec.frames) \in Int
    <3>1. exec'.frames \in Seq(Inputs)
      BY <1>8
    <3>2. FramesOf(k, exec'.frames) = 0
      BY Zenon, <1>8, <3>1, FramesAreCounted
    <3>3. FramesOf(k, exec.frames) \in Int
      BY <1>1, FramesAreCounted
    <3> QED
      BY <3>2, <3>3
  <2>2. Ended(k) = 0 /\ Ended(k)' = 0 /\ exec.missed[k] \in Int /\ exec'.missed[k] = exec.missed[k]
    BY <1>1, <1>8 DEF Ended
  <2>3. (k \in hooks <=> k = kind) /\ ~ (End(k) \in hooks)
    BY <1>1, HookNames
  <2>4. /\ exec'.lost[k] = c.lost[k] + One(k = kind) /\ exec.lost[k] \in Int
        /\ c.lost[k] = exec.lost[k] + FramesOf(k, exec.frames)
    BY <1>2, <1>5, <1>7, <1>8
  <2>5. One(k \in hooks) = One(k = kind) /\ One(End(k) \in hooks) = 0 /\ One(k = kind) \in Int
    BY <2>3 DEF One
  <2> HIDE DEF hooks, One
  <2> QED
    BY <2>1, <2>2, <2>4, <2>5 DEF Paired
<1>10. One("step" \in hooks) = One("step_end" \in hooks) + (exec'.halted - exec.halted)
  BY <1>1, <1>8, HookNames DEF One
<1>11. exec'.lost \in [Kinds -> Int]
  BY <1>7, <1>8
<1> HIDE DEF hooks, One
<1> QED
  BY <1>3, <1>9, <1>10, <1>11, PairsStay

(* A frame that is made is told of, and open. *)
LEMMA NewFrameHooks ==
    ASSUME TraceInv, TraceInv', HookInv, NewFrame
    PROVE  HookInv'
<1> DEFINE kind == exec.input.kind
           hooks == {kind, "initialize_interp"}
           frames == Append(exec.frames, exec.input)
           depth == exec.depth + 1
<1>1. /\ exec \in Execs(exec.lost) /\ ~ exec.finished /\ kind \in Kinds /\ exec.halted \in Int
      /\ exec.missed \in [Kinds -> Int] /\ exec.frames \in Seq(Inputs) /\ exec.input \in Inputs
  BY Zenon DEF TraceInv, Typed, Execs, Inputs, LoopFrames, NewFrame
<1>2. exec.lost \in [Kinds -> Int]
  BY DEF HookInv
<1>3. Counted(hooks) /\ exec' = [exec EXCEPT !.loop = "run", !.frames = frames, !.depth = depth, !.ran = TRUE]
  BY DEF NewFrame
<1> HIDE DEF frames, depth
<1>4. /\ exec'.frames = frames /\ ~ exec'.finished /\ exec'.halted = exec.halted /\ exec'.lost = exec.lost
      /\ exec'.missed = exec.missed
  BY <1>1, <1>3 DEF Execs
<1>5. \A k \in Kinds : Paired(hooks, k)
  <2> SUFFICES ASSUME NEW k \in Kinds PROVE Paired(hooks, k)
    OBVIOUS
  <2>1. FramesOf(k, exec.frames) \in Int
    BY <1>1, FramesAreCounted
  <2>2. Ended(k) = 0 /\ Ended(k)' = 0 /\ exec.missed[k] \in Int /\ exec'.missed[k] = exec.missed[k]
        /\ exec.lost[k] \in Int /\ exec'.lost[k] = exec.lost[k]
    BY <1>1, <1>2, <1>4 DEF Ended
  <2>3. FramesOf(k, exec'.frames) = FramesOf(k, exec.frames) + One(kind = k)
    BY <1>1, <1>4, FramesGrow DEF frames, One
  <2>4. (k \in hooks <=> kind = k) /\ ~ (End(k) \in hooks)
    BY <1>1, HookNames
  <2>5. One(k \in hooks) = One(kind = k) /\ One(End(k) \in hooks) = 0 /\ One(kind = k) \in Int
    BY <2>4 DEF One
  <2> HIDE DEF hooks, One, kind
  <2> QED
    BY <2>1, <2>2, <2>3, <2>5 DEF Paired
<1>6. One("step" \in hooks) = One("step_end" \in hooks) + (exec'.halted - exec.halted)
  BY <1>1, <1>4, HookNames DEF One
<1>7. exec'.lost \in [Kinds -> Int]
  BY <1>2, <1>4
<1> HIDE DEF hooks, One
<1> QED
  BY <1>3, <1>5, <1>6, <1>7, PairsStay

(* A frame that ends is told to, and is no longer open. *)
LEMMA FrameEndsHooks ==
    ASSUME TraceInv, TraceInv', HookInv, exec.loop = "run", NEW class, NEW gas,
           NEW hooks, hooks \subseteq {"step", "step_end", "selfdestruct"}, NEW t,
           NEW error, NEW halted \in Int,
           "step" \in hooks, halted = IF "step_end" \in hooks THEN exec.halted ELSE exec.halted + 1,
           FrameEnds(class, gas, hooks, t, [exec EXCEPT !.error = error, !.halted = halted])
    PROVE  HookInv'
<1> DEFINE e == [exec EXCEPT !.error = error, !.halted = halted]
           kind == exec.frames[Len(exec.frames)].kind
           told == hooks \cup {End(kind)}
<1>1. /\ exec \in Execs(exec.lost) /\ exec.frames \in Seq(Inputs) /\ exec.frames # <<>> /\ ~ exec.finished
      /\ exec.missed \in [Kinds -> Int] /\ exec.halted \in Int
  BY DEF TraceInv, Typed, Execs, LoopFrames
<1>2. exec.lost \in [Kinds -> Int]
  BY DEF HookInv
<1>3. kind \in Kinds
  BY Zenon, <1>1, TopFrame DEF Inputs
<1>4. Counted(told) /\ \E result, depth :
         exec' = [e EXCEPT !.loop = "return", !.finished = TRUE, !.result = result, !.depth = depth]
  BY Zenon DEF FrameEnds, Top
<1>5. /\ exec'.frames = exec.frames /\ exec'.finished /\ exec'.halted = halted /\ exec'.lost = exec.lost
      /\ exec'.missed = exec.missed
  BY <1>1, <1>4 DEF Execs
<1>6. \A k \in Kinds : Paired(told, k)
  <2> SUFFICES ASSUME NEW k \in Kinds PROVE Paired(told, k)
    BY Zenon
  <2>1. FramesOf(k, exec.frames) \in Int /\ FramesOf(k, exec'.frames) = FramesOf(k, exec.frames)
    BY <1>1, <1>5, FramesAreCounted
  <2>2. Ended(k) = 0 /\ Ended(k)' = One(kind = k) /\ exec.missed[k] \in Int /\ exec'.missed[k] = exec.missed[k]
        /\ exec.lost[k] \in Int /\ exec'.lost[k] = exec.lost[k]
    BY <1>1, <1>2, <1>5 DEF Ended, Top, One
  <2>3. ~ (k \in told) /\ (End(k) \in told <=> kind = k)
    BY <1>3, HookNames
  <2>4. One(k \in told) = 0 /\ One(End(k) \in told) = One(kind = k) /\ One(kind = k) \in Int
    BY <2>3 DEF One
  <2> DEFINE now == Ended(k)'
             ends == One(End(k) \in told)
             open == FramesOf(k, exec'.frames)
  <2>5. ends \in Int /\ now = ends /\ open \in Int /\ open = FramesOf(k, exec.frames)
    BY <2>1, <2>2, <2>4
  <2> HIDE DEF told, One, kind, now, ends, open
  <2>6. 0 + (exec'.missed[k] - exec.missed[k])
        = ends + (open - FramesOf(k, exec.frames)) - (now - 0) + (exec'.lost[k] - exec.lost[k])
    BY <2>2, <2>5
  <2> QED
    BY <2>2, <2>4, <2>6 DEF Paired, now, ends, open
<1>7. ("step" \in told <=> "step" \in hooks) /\ ("step_end" \in told <=> "step_end" \in hooks)
  BY <1>3, HookNames
<1>8. One("step" \in told) = One("step_end" \in told) + (exec'.halted - exec.halted)
  <2>1. One("step" \in told) = 1 /\ One("step_end" \in told) = IF "step_end" \in hooks THEN 1 ELSE 0
    BY <1>7 DEF One
  <2>2. halted - exec.halted = IF "step_end" \in hooks THEN 0 ELSE 1
    BY <1>1
  <2> HIDE DEF told, One
  <2> QED
    BY <1>5, <2>1, <2>2
<1>9. exec'.lost \in [Kinds -> Int]
  BY <1>2, <1>5
<1> HIDE DEF told, One
<1> QED
  BY <1>4, <1>6, <1>8, <1>9, PairsStay

(* A frame that goes on opens and ends none. *)
LEMMA FrameGoesOnHooks ==
    ASSUME TraceInv, TraceInv', HookInv, exec.loop = "run", NEW hooks,
           hooks \subseteq {"step", "step_end", "log"}, "step" \in hooks, "step_end" \in hooks, Counted(hooks),
           NEW gas \in Int, NEW input, NEW loop,
           exec' = [exec EXCEPT !.loop = loop, !.input = input,
                                !.frames = [exec.frames EXCEPT ![Len(exec.frames)] = [@ EXCEPT !.gas = gas]]]
    PROVE  HookInv'
<1> DEFINE frames == [exec.frames EXCEPT ![Len(exec.frames)] = [@ EXCEPT !.gas = gas]]
<1>1. /\ exec \in Execs(exec.lost) /\ exec.frames \in Seq(Inputs) /\ exec.frames # <<>> /\ ~ exec.finished
      /\ exec.missed \in [Kinds -> Int] /\ exec.halted \in Int
  BY DEF TraceInv, Typed, Execs, LoopFrames
<1>2. exec.lost \in [Kinds -> Int]
  BY DEF HookInv
<1>3. Len(exec.frames) \in DOMAIN exec.frames
  BY <1>1, TopFrame
<1>4. \A k \in Kinds : FramesOf(k, frames) = FramesOf(k, exec.frames) /\ FramesOf(k, exec.frames) \in Int
  <2>1. ASSUME NEW k \in Kinds PROVE FramesOf(k, frames) = FramesOf(k, exec.frames)
    BY <1>1, <1>3, FramesStay
  <2>2. ASSUME NEW k \in Kinds PROVE FramesOf(k, exec.frames) \in Int
    BY <1>1, FramesAreCounted
  <2> HIDE DEF frames
  <2> QED
    BY <2>1, <2>2
<1>5. exec' = [exec EXCEPT !.loop = loop, !.input = input, !.frames = frames]
  OBVIOUS
<1> HIDE DEF frames
<1>6. /\ exec'.frames = frames /\ ~ exec'.finished /\ exec'.halted = exec.halted /\ exec'.lost = exec.lost
      /\ exec'.missed = exec.missed
  BY Zenon, <1>1, <1>5 DEF Execs
<1>7. \A k \in Kinds : Paired(hooks, k)
  <2> SUFFICES ASSUME NEW k \in Kinds PROVE Paired(hooks, k)
    OBVIOUS
  <2>1. FramesOf(k, exec'.frames) = FramesOf(k, exec.frames) /\ FramesOf(k, exec.frames) \in Int
    BY <1>4, <1>6
  <2>2. Ended(k) = 0 /\ Ended(k)' = 0 /\ exec.missed[k] \in Int /\ exec'.missed[k] = exec.missed[k]
        /\ exec.lost[k] \in Int /\ exec'.lost[k] = exec.lost[k]
    BY <1>1, <1>2, <1>6 DEF Ended
  <2>3. ~ (k \in hooks) /\ ~ (End(k) \in hooks)
    BY HookNames
  <2>4. One(k \in hooks) = 0 /\ One(End(k) \in hooks) = 0
    BY <2>3 DEF One
  <2> HIDE DEF One
  <2> QED
    BY <2>1, <2>2, <2>4 DEF Paired
<1>8. One("step" \in hooks) = One("step_end" \in hooks) + (exec'.halted - exec.halted)
  BY <1>1, <1>6 DEF One
<1>9. exec'.lost \in [Kinds -> Int]
  BY <1>2, <1>6
<1> HIDE DEF One
<1> QED
  BY <1>7, <1>8, <1>9, PairsStay

(* The frame that has ended is popped; with the context's error all frames are lost. *)
LEMMA ReturnHooks ==
    ASSUME TraceInv, TraceInv', HookInv, ReturnResult
    PROVE  HookInv'
<1> DEFINE frames == IF exec.finished THEN SubSeq(exec.frames, 1, Len(exec.frames) - 1) ELSE exec.frames
           back == IF exec.result.class = "error" THEN 0 ELSE exec.result.gas
           e == [exec EXCEPT !.frames = frames, !.finished = FALSE]
           n == Len(frames)
<1>1. /\ exec \in Execs(exec.lost) /\ exec.frames \in Seq(Inputs) /\ exec.missed \in [Kinds -> Int]
      /\ exec.halted \in Int /\ exec.error \in BOOLEAN /\ count' = count /\ exec.finished \in BOOLEAN
      /\ (exec.finished => exec.frames # <<>>) /\ back \in Int
  <2>1. exec \in Execs(exec.lost) /\ (exec.finished => exec.frames # <<>>)
    BY DEF TraceInv, Typed, LoopFrames
  <2>2. count' = count
    BY DEF ReturnResult
  <2>3. /\ exec.frames \in Seq(Inputs) /\ exec.missed \in [Kinds -> Int] /\ exec.halted \in Int
        /\ exec.error \in BOOLEAN /\ exec.finished \in BOOLEAN /\ exec.result \in Results
    BY <2>1 DEF Execs
  <2>4. back \in Int
    BY <2>3 DEF Results
  <2> QED
    BY <2>1, <2>2, <2>3, <2>4
<1>2. exec.lost \in [Kinds -> Int] /\ count \in [Hooks -> Int]
  BY DEF HookInv
<1>3. /\ frames \in Seq(Inputs)
      /\ \A k \in Kinds : FramesOf(k, exec.frames) = FramesOf(k, frames) + Ended(k) /\ FramesOf(k, frames) \in Int
                          /\ Ended(k) \in Int
  <2>1. CASE exec.finished
    <3>1. frames = SubSeq(exec.frames, 1, Len(exec.frames) - 1) /\ exec.frames # <<>>
      BY <1>1, <2>1
    <3> HIDE DEF frames
    <3>2. frames \in Seq(Inputs)
      BY <1>1, <3>1, FramesShrink
    <3>3. ASSUME NEW k \in Kinds
          PROVE  FramesOf(k, exec.frames) = FramesOf(k, frames) + (IF exec.frames[Len(exec.frames)].kind = k THEN 1 ELSE 0)
      BY <1>1, <3>1, FramesShrink
    <3>4. ASSUME NEW k \in Kinds
          PROVE  FramesOf(k, frames) \in Int /\ Ended(k) = (IF exec.frames[Len(exec.frames)].kind = k THEN 1 ELSE 0)
      BY <2>1, <3>2, FramesAreCounted DEF Ended, Top
    <3> QED
      BY <3>2, <3>3, <3>4
  <2>2. CASE ~ exec.finished
    <3>1. frames = exec.frames
      BY <2>2
    <3> HIDE DEF frames
    <3>2. ASSUME NEW k \in Kinds PROVE FramesOf(k, frames) \in Int /\ Ended(k) = 0
      BY <1>1, <2>2, <3>1, FramesAreCounted DEF Ended
    <3> QED
      BY <1>1, <3>1, <3>2
  <2> QED
    BY <1>1, <2>1, <2>2
<1>4. exec' = CASE frames = <<>> -> [e EXCEPT !.loop = "done"]
                [] frames # <<>> /\ exec.error -> Catch(e)
                [] OTHER -> [e EXCEPT !.loop = "run", !.frames[n].gas = @ + back]
  BY DEF ReturnResult
<1> HIDE DEF frames, back
<1>5. /\ e \in Execs(exec.lost) /\ e.frames = frames /\ ~ e.finished /\ e.missed = exec.missed
      /\ e.halted = exec.halted /\ e.lost = exec.lost
  BY Zenon, <1>1, <1>3 DEF Execs
<1> HIDE DEF e
<1>6. /\ ~ exec'.finished /\ exec'.missed = exec.missed /\ exec'.halted = exec.halted
      /\ exec'.lost \in [Kinds -> Int]
      /\ \A k \in Kinds : FramesOf(k, exec'.frames) + exec'.lost[k] = FramesOf(k, frames) + exec.lost[k]
                          /\ FramesOf(k, exec'.frames) \in Int
  <2>1. CASE frames = <<>>
    <3>1. exec' = [e EXCEPT !.loop = "done"]
      BY <1>4, <2>1
    <3>2. /\ ~ exec'.finished /\ exec'.missed = exec.missed /\ exec'.halted = exec.halted
          /\ exec'.lost = exec.lost /\ exec'.frames = frames
      BY <1>5, <3>1 DEF Execs
    <3> QED
      BY <1>2, <1>3, <3>2
  <2>2. CASE frames # <<>> /\ exec.error
    <3>1. exec' = Catch(e)
      BY <1>4, <2>2
    <3>2. exec'.frames = <<>> /\ ~ exec'.finished
      BY Zenon, <1>5, <3>1, CatchResets
    <3>3. /\ exec'.lost \in [Kinds -> Int] /\ exec'.missed = e.missed /\ exec'.halted = e.halted
          /\ \A k \in Kinds : exec'.lost[k] = exec.lost[k] + FramesOf(k, e.frames)
      BY <1>2, <1>5, <3>1, CatchLoses
    <3>4. exec'.frames \in Seq(Inputs)
      BY <3>2
    <3>5. ASSUME NEW k \in Kinds PROVE FramesOf(k, exec'.frames) = 0
      BY Zenon, <3>2, <3>4, FramesAreCounted
    <3> QED
      BY <1>2, <1>3, <1>5, <3>2, <3>3, <3>5
  <2>3. CASE frames # <<>> /\ ~ exec.error
    <3> DEFINE gas == frames[n].gas + back
               after == [frames EXCEPT ![n] = [@ EXCEPT !.gas = gas]]
    <3>1. exec' = [e EXCEPT !.loop = "run", !.frames[n].gas = @ + back]
      BY <1>4, <2>3
    <3>2. n \in DOMAIN frames /\ frames[n] \in Inputs
      BY <1>3, <2>3, TopFrame
    <3>3. gas \in Int
      BY <1>1, <3>2 DEF Inputs
    <3>4. exec' = [e EXCEPT !.loop = "run", !.frames = after]
      BY Zenon, <1>5, <3>1, <3>2 DEF Execs, Inputs
    <3> HIDE DEF gas, n
    <3>5. ASSUME NEW k \in Kinds PROVE FramesOf(k, after) = FramesOf(k, frames)
      BY <1>3, <3>2, <3>3, FramesStay
    <3> HIDE DEF after
    <3>6. /\ ~ exec'.finished /\ exec'.missed = exec.missed /\ exec'.halted = exec.halted
          /\ exec'.lost = exec.lost /\ exec'.frames = after
      BY <1>5, <3>4 DEF Execs
    <3> QED
      BY <1>2, <1>3, <3>5, <3>6
  <2> QED
    BY <2>1, <2>2, <2>3, <1>1
<1>7. Counted({})
  BY <1>1, <1>2 DEF Counted
<1>8. \A k \in Kinds : Paired({}, k)
  <2> SUFFICES ASSUME NEW k \in Kinds PROVE Paired({}, k)
    OBVIOUS
  <2>1. One(k \in {}) = 0 /\ One(End(k) \in {}) = 0
    BY DEF One
  <2>2. Ended(k)' = 0 /\ exec.missed[k] \in Int /\ exec'.missed[k] = exec.missed[k]
        /\ exec.lost[k] \in Int /\ exec'.lost[k] \in Int
    BY <1>1, <1>2, <1>6 DEF Ended
  <2>3. /\ FramesOf(k, exec'.frames) + exec'.lost[k] = FramesOf(k, frames) + exec.lost[k]
        /\ FramesOf(k, exec.frames) = FramesOf(k, frames) + Ended(k)
        /\ FramesOf(k, exec'.frames) \in Int /\ FramesOf(k, frames) \in Int /\ Ended(k) \in Int
    BY <1>3, <1>6
  <2> QED
    BY <2>1, <2>2, <2>3 DEF Paired
<1>9. One("step" \in {}) = One("step_end" \in {}) + (exec'.halted - exec.halted)
  BY <1>1, <1>6 DEF One
<1> HIDE DEF One
<1> QED
  BY <1>6, <1>7, <1>8, <1>9, PairsStay

(* Every step keeps the hooks in pairs. *)
LEMMA HooksKept ==
    ASSUME TraceInv, TraceInv', HookInv, TraceStep
    PROVE  HookInv'
<1>1. CASE InspectOneTx \/ Invalid \/ ExecutionResult
  BY <1>1, QuietHooks
<1>2. CASE InitFails \/ NewFrame \/ ReturnResult
  BY <1>2, InitFailsHooks, NewFrameHooks, ReturnHooks
<1>3. ASSUME NEW class \in Classes, NEW gas, Overridden(class, gas) \/ Immediate(class, gas) PROVE HookInv'
  BY <1>3, NoFrameHooks
<1> DEFINE n == Len(exec.frames)
           before == exec.frames[n].gas
           running == exec.loop = "run"
<1>4. /\ exec \in Execs(exec.lost) /\ exec.frames \in Seq(Inputs) /\ exec.halted \in Int
      /\ exec.tx.gas \in Int /\ exec.input \in Inputs
      /\ (running => exec.frames # <<>>)
  BY Zenon DEF TraceInv, Typed, Execs, Inputs, LoopFrames
<1>5. ASSUME running PROVE Top = exec.frames[n] /\ n \in DOMAIN exec.frames /\ exec.frames[n] \in Inputs /\ before \in Int
  BY Zenon, <1>4, <1>5, TopFrame DEF Top, Inputs
<1>6. ASSUME NEW class, NEW gas, NEW hooks, hooks \subseteq {"step", "step_end", "selfdestruct"}, NEW t,
             "step" \in hooks, "step_end" \in hooks, NEW error, running,
             FrameEnds(class, gas, hooks, t, [exec EXCEPT !.error = error])
      PROVE  HookInv'
  <2> DEFINE halted == exec.halted
  <2>1. [exec EXCEPT !.error = error] = [exec EXCEPT !.error = error, !.halted = halted]
    BY Zenon, <1>4 DEF Execs
  <2>2. FrameEnds(class, gas, hooks, t, [exec EXCEPT !.error = error, !.halted = halted])
    BY <1>6, <2>1
  <2>3. halted \in Int /\ halted = (IF "step_end" \in hooks THEN exec.halted ELSE exec.halted + 1)
    BY <1>4, <1>6
  <2> HIDE DEF halted
  <2> QED
    BY Zenon, <1>6, <2>2, <2>3, FrameEndsHooks
<1>7. exec = [exec EXCEPT !.error = exec.error]
  BY <1>4 DEF Execs
<1>8. ASSUME NEW b \in BOOLEAN, Instruction(b) PROVE HookInv'
  <2> DEFINE gas == before - 1
             log == {"step", "step_end"} \cup (IF b THEN {"log"} ELSE {})
             hooks == {"step", "step_end"}
             t == stepped(tracer, 0, 0)
  <2>1. running
    BY <1>8 DEF Instruction
  <2>2. CASE before = 0
    <3>1. FrameEnds("error", 0, hooks, t, exec)
      BY <1>5, <1>8, <2>1, <2>2 DEF Instruction
    <3>2. FrameEnds("error", 0, hooks, t, [exec EXCEPT !.error = exec.error])
      BY <1>7, <3>1
    <3>3. hooks \subseteq {"step", "step_end", "selfdestruct"} /\ "step" \in hooks /\ "step_end" \in hooks
      OBVIOUS
    <3> HIDE DEF hooks, t
    <3> QED
      BY Zenon, <1>6, <2>1, <3>2, <3>3
  <2>3. CASE before # 0
    <3>1. exec' = [exec EXCEPT !.frames[n].gas = @ - 1] /\ Counted(log)
      BY <1>5, <1>8, <2>1, <2>3 DEF Instruction
    <3>2. exec' = [exec EXCEPT !.loop = exec.loop, !.input = exec.input,
                               !.frames = [exec.frames EXCEPT ![n] = [@ EXCEPT !.gas = gas]]]
      BY Zenon, <1>4, <1>5, <2>1, <3>1 DEF Execs, Inputs
    <3>3. gas \in Int
      BY <1>5, <2>1
    <3>4. log \subseteq {"step", "step_end", "log"} /\ "step" \in log /\ "step_end" \in log
      OBVIOUS
    <3> HIDE DEF gas, log
    <3> QED
      BY Zenon, <2>1, <3>1, <3>2, <3>3, <3>4, FrameGoesOnHooks
  <2> QED
    BY <2>2, <2>3
<1>9. ASSUME NEW kind, NEW gas \in 0..exec.tx.gas, Calls(kind, gas) PROVE HookInv'
  <2> DEFINE input == [kind |-> kind, gas |-> gas]
             after == before - 1 - gas
             hooks == {"step", "step_end"}
  <2>1. running
    BY <1>9 DEF Calls
  <2>2. gas \in Int /\ after \in Int
    BY <1>4, <1>5, <2>1
  <2>3. exec' = [exec EXCEPT !.loop = "init", !.input = input, !.frames[n].gas = @ - 1 - gas] /\ Counted(hooks)
    BY <1>9 DEF Calls
  <2>4. exec' = [exec EXCEPT !.loop = "init", !.input = input,
                             !.frames = [exec.frames EXCEPT ![n] = [@ EXCEPT !.gas = after]]]
    BY <1>4, <1>5, <2>1, <2>3 DEF Execs, Inputs
  <2>5. hooks \subseteq {"step", "step_end", "log"} /\ "step" \in hooks /\ "step_end" \in hooks
    OBVIOUS
  <2> HIDE DEF input, after, hooks
  <2> QED
    BY Zenon, <2>1, <2>2, <2>3, <2>4, <2>5, FrameGoesOnHooks
<1>10. ASSUME NEW b \in BOOLEAN, SelfDestructs(b) PROVE HookInv'
  <2> DEFINE hooks == {"step", "step_end"} \cup (IF b THEN {"selfdestruct"} ELSE {})
  <2>1. running /\ FrameEnds("ok", Top.gas, hooks, stepped(tracer, Top.gas, Top.gas), exec)
    BY <1>10 DEF SelfDestructs
  <2>2. FrameEnds("ok", Top.gas, hooks, stepped(tracer, Top.gas, Top.gas), [exec EXCEPT !.error = exec.error])
    BY <1>7, <2>1
  <2>3. hooks \subseteq {"step", "step_end", "selfdestruct"} /\ "step" \in hooks /\ "step_end" \in hooks
    OBVIOUS
  <2> HIDE DEF hooks
  <2> QED
    BY <1>6, <2>1, <2>2, <2>3
<1>11. ASSUME NEW b \in BOOLEAN, NEW class, Returns(class, b) PROVE HookInv'
  <2> DEFINE hooks == {"step", "step_end"}
  <2>1. running /\ FrameEnds(class, Top.gas, hooks, stepped(tracer, Top.gas, Top.gas), [exec EXCEPT !.error = b])
    BY <1>11 DEF Returns
  <2>2. hooks \subseteq {"step", "step_end", "selfdestruct"} /\ "step" \in hooks /\ "step_end" \in hooks
    OBVIOUS
  <2> HIDE DEF hooks
  <2> QED
    BY Zenon, <1>6, <2>1, <2>2
<1>12. ASSUME NEW class, Halted(class) PROVE HookInv'
  <2> DEFINE halted == exec.halted + 1
             hooks == {"step"}
             t == [tracer EXCEPT !.gas_remaining = Top.gas]
  <2>1. [exec EXCEPT !.halted = @ + 1] = [exec EXCEPT !.error = exec.error, !.halted = halted]
    BY Zenon, <1>4 DEF Execs
  <2>2. running /\ FrameEnds(class, Top.gas, hooks, t, [exec EXCEPT !.halted = @ + 1])
    BY <1>12 DEF Halted
  <2>3. FrameEnds(class, Top.gas, hooks, t, [exec EXCEPT !.error = exec.error, !.halted = halted])
    BY <2>1, <2>2
  <2>4. hooks \subseteq {"step", "step_end", "selfdestruct"} /\ "step" \in hooks /\ halted \in Int
        /\ halted = (IF "step_end" \in hooks THEN exec.halted ELSE exec.halted + 1)
    BY <1>4
  <2> HIDE DEF hooks, halted, t
  <2> QED
    BY Zenon, <2>2, <2>3, <2>4, FrameEndsHooks
<1> QED
  BY <1>1, <1>2, <1>3, <1>8, <1>9, <1>10, <1>11, <1>12 DEF TraceStep

(* No hook is open before the first transaction. *)
LEMMA HooksStart ==
    ASSUME count = NewCount, exec.frames = <<>>, ~ exec.finished, exec.halted = 0,
           exec.missed = [k \in Kinds |-> 0], exec.lost = [k \in Kinds |-> 0]
    PROVE  HookInv
<1>1. \A k \in Kinds : FramesOf(k, exec.frames) = 0
  <2>1. <<>> \in Seq(Inputs)
    OBVIOUS
  <2> QED
    BY Zenon, <2>1, FramesAreCounted
<1>2. \A k \in Kinds : k \in Hooks /\ End(k) \in Hooks /\ Ended(k) = 0
  BY DEF Kinds, Hooks, End, Ended
<1>3. "step" \in Hooks /\ "step_end" \in Hooks
  BY DEF Hooks
<1>4. count \in [Hooks -> Int] /\ \A h \in Hooks : count[h] = 0
  BY DEF NewCount
<1> QED
  BY <1>1, <1>2, <1>3, <1>4 DEF HookInv, HooksPaired

(* For every set of sessions and every gas, what an inspected execution shows is true of it: every  *)
(* call and every create that is told to an inspector is told to end once, but for those that an     *)
(* override, an error or a stop kept from it, every instruction begun is ended, and the depth and    *)
(* the summaries are those of the frames and of the results (handler.rs, traits.rs, eip3155.rs).     *)
THEOREM TracesAreTrue ==
    ASSUME NEW Sessions, Sessions \subseteq Seq(Inputs), InitialGas \in Int, DepositGas \in Int
    PROVE  TraceSpec(Sessions) => []TraceIsTrue
<1> DEFINE IInv == TraceInv /\ HookInv
<1>1. Untraced => IInv
  <2> SUFFICES ASSUME Untraced PROVE HookInv
    BY TraceInit
  <2> QED
    BY HooksStart DEF Untraced, Unstarted
<1>2. IInv /\ [TraceStart(Sessions) \/ TraceStep]_tracevars => IInv'
  <2> SUFFICES ASSUME TraceInv, HookInv, [TraceStart(Sessions) \/ TraceStep]_tracevars PROVE HookInv'
    BY TraceKept
  <2>0. TraceInv'
    BY TraceKept
  <2>1. CASE TraceStart(Sessions)
    <3>1. /\ count' = count /\ exec'.frames = exec.frames /\ exec'.finished = exec.finished /\ exec'.halted = exec.halted
          /\ exec'.missed = exec.missed /\ exec'.lost = exec.lost /\ exec'.result = exec.result
      BY ZenonT(30), <2>1 DEF TraceStart, Untraced, Trace, Unstarted
    <3> QED
      BY <3>1 DEF HookInv, HooksPaired, Ended, Top, FramesOf
  <2>2. CASE TraceStep
    BY <2>0, <2>2, HooksKept
  <2>3. CASE UNCHANGED tracevars
    BY <2>3 DEF tracevars, HookInv, HooksPaired, Ended, Top, FramesOf
  <2> QED
    BY <2>1, <2>2, <2>3
<1>3. IInv => TraceIsTrue
  BY DEF TraceInv, Summary, Over, SummaryOfTx, HookInv, TraceIsTrue
<1> QED
  BY <1>1, <1>2, <1>3, PTL DEF TraceSpec

=============================================================================
