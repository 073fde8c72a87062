------------------------------ MODULE Migration ------------------------------
(***************************************************************************)
(* `dbtool migration`: three threads copy the accounts, the codes and the    *)
(* storage of an MDBX database into RocksDB, in batches, each batch in a     *)
(* read transaction of its own that resumes after the last key of the one    *)
(* before.  The command may die between two batches and be started again.    *)
(*                                                                         *)
(* The source is ordered: the accounts and codes are sequences of keys, the   *)
(* storage a sequence of <<address, slot>>.  A batch is written atomically.    *)
(***************************************************************************)
EXTENDS Naturals, Sequences, Functions, FiniteSets

CONSTANTS Source,       \* the keys of each table
          BatchSize,    \* COMMIT_BATCH_SIZE, and COMMIT_BATCH_SIZE_CODE
          MaxCrashes

VARIABLES importer,     \* the three threads
          target,       \* the keys in each table of the target
          crashes

migvars == <<importer, target, crashes>>

Plain == {"accounts", "codes"}
Tables == Plain \cup {"storage"}
(* next is the position of the last key copied, 0 for None; cursor the one to  *)
(* be read; items the positions read and not yet written                      *)
Fresh(pc) == [pc |-> pc, next |-> 0, cursor |-> 0, items |-> {}, batch_entries |-> 0,
              total_entries |-> 0, advanced |-> FALSE]

Parked == importer = [t \in Tables |-> Fresh("idle")] /\ target = [t \in Tables |-> {}] /\ crashes = 0

Launch ==
    /\ \A t \in Tables : importer[t].pc = "idle"
    /\ importer' = [t \in Tables |-> Fresh("open")]
    /\ UNCHANGED <<target, crashes>>

Becomes(t, r) == importer' = [importer EXCEPT ![t] = r]

(* the last position with the address of position i *)
LastSlot(i) ==
    LET keys == Source.storage
    IN  CHOOSE j \in i..Len(keys) : /\ keys[j][1] = keys[i][1]
                                    /\ j = Len(keys) \/ keys[j + 1][1] # keys[i][1]

(* a fresh read transaction: walk starts at the last key, which is stepped     *)
(* over; seek finds the first slot of the last address, and next_no_dup goes    *)
(* to the address after it                                                   *)
Open(t) ==
    /\ importer[t].pc = "open"
    /\ LET next == importer[t].next IN
       Becomes(t, [importer[t] EXCEPT !.pc = "read", !.advanced = FALSE,
                   !.cursor = IF t = "storage" /\ next # 0 THEN LastSlot(next) + 1 ELSE next + 1])
    /\ UNCHANGED <<target, crashes>>

(* one entry of the walk; a full batch is written and the transaction given up *)
ReadPlain(t) ==
    LET r == importer[t]
        read == [r EXCEPT !.next = r.cursor, !.cursor = @ + 1, !.items = @ \cup {r.cursor},
                 !.batch_entries = @ + 1, !.total_entries = @ + 1, !.advanced = TRUE]
    IN  /\ t \in Plain /\ r.pc = "read" /\ r.cursor <= Len(Source[t])
        /\ Becomes(t, IF read.batch_entries >= BatchSize THEN [read EXCEPT !.pc = "flush"] ELSE read)
        /\ UNCHANGED <<target, crashes>>

Written(t, items) == target' = [target EXCEPT ![t] = @ \cup {Source[t][i] : i \in items}]

FlushPlain(t) ==
    /\ t \in Plain /\ importer[t].pc = "flush" /\ Written(t, importer[t].items)
    /\ Becomes(t, [importer[t] EXCEPT !.pc = "open", !.items = {}, !.batch_entries = 0])
    /\ UNCHANGED crashes

(* mutant: advanced is never reset *)
WalkEnds_advanced(t) ==
    /\ t \in Plain /\ importer[t].pc = "read" /\ importer[t].cursor > Len(Source[t])
    /\ Becomes(t, [importer[t] EXCEPT !.pc = IF importer[t].total_entries > 0 THEN "open" ELSE "final"])
    /\ UNCHANGED <<target, crashes>>
(* the walk is over: without progress in this transaction the end was reached *)
WalkEnds(t) ==
    /\ t \in Plain /\ importer[t].pc = "read" /\ importer[t].cursor > Len(Source[t])
    /\ Becomes(t, [importer[t] EXCEPT !.pc = IF importer[t].advanced THEN "open" ELSE "final"])
    /\ UNCHANGED <<target, crashes>>

FinalFlush(t) ==
    /\ importer[t].pc = "final" /\ Written(t, importer[t].items)
    /\ Becomes(t, [importer[t] EXCEPT !.pc = "finished", !.items = {}])
    /\ UNCHANGED crashes

(* mutant: a batch may end between two slots of an address *)
ReadDup_slots ==
    LET r == importer["storage"]
        read == [r EXCEPT !.next = r.cursor, !.cursor = @ + 1, !.items = @ \cup {r.cursor},
                 !.batch_entries = @ + 1, !.total_entries = @ + 1]
    IN  /\ r.pc = "read" /\ r.cursor <= Len(Source.storage)
        /\ Becomes("storage", IF read.batch_entries >= BatchSize THEN [read EXCEPT !.pc = "flush"] ELSE read)
        /\ UNCHANGED <<target, crashes>>
(* next_no_dup gives the first slot of an address and next_dup all its others,  *)
(* even beyond the batch size                                                *)
ReadDup ==
    LET r == importer["storage"]
        last == LastSlot(r.cursor)
        n == last - r.cursor + 1
        read == [r EXCEPT !.next = last, !.cursor = last + 1, !.items = @ \cup (r.cursor..last),
                 !.batch_entries = @ + n, !.total_entries = @ + n]
    IN  /\ r.pc = "read" /\ r.cursor <= Len(Source.storage)
        /\ Becomes("storage", IF read.batch_entries >= BatchSize THEN [read EXCEPT !.pc = "flush"] ELSE read)
        /\ UNCHANGED <<target, crashes>>

(* the batch ends with the table, or full; an empty one ends the import *)
FlushDup ==
    LET r == importer["storage"] IN
    /\ r.pc = "flush" \/ (r.pc = "read" /\ r.cursor > Len(Source.storage))
    /\ Written("storage", r.items)
    /\ Becomes("storage", [r EXCEPT !.pc = IF r.items = {} THEN "finished" ELSE "open", !.items = {},
                           !.batch_entries = 0])
    /\ UNCHANGED crashes

Import(t) ==
    \/ Open(t) \/ ReadPlain(t) \/ FlushPlain(t) \/ WalkEnds(t) \/ FinalFlush(t)
    \/ t = "storage" /\ (ReadDup \/ FlushDup)

(* the process dies; the target keeps its batches and the command is run again *)
Dies ==
    /\ crashes < MaxCrashes /\ \E t \in Tables : importer[t].pc \notin {"idle", "finished"}
    /\ crashes' = crashes + 1 /\ importer' = [t \in Tables |-> Fresh("open")]
    /\ UNCHANGED target

MigrationStep == (\E t \in Tables : Import(t)) \/ Dies
MigrationFairness == \A t \in Tables : WF_migvars(Import(t))

-----------------------------------------------------------------------------
MigrationTypeOK ==
    /\ DOMAIN importer = Tables /\ crashes \in 0..MaxCrashes
    /\ \A t \in Tables : target[t] \subseteq Range(Source[t]) /\ importer[t].next \in 0..Len(Source[t])

(* No entry is stepped over and none is counted twice: what was written or is    *)
(* held makes up the table to the last key, and a thread that has finished has   *)
(* copied its table, after any number of restarts.                             *)
CopiesAll ==
    \A t \in Tables :
        LET r == importer[t] IN
        /\ {Source[t][i] : i \in (1..r.next) \ r.items} \subseteq target[t]
        /\ r.total_entries = r.next
        /\ r.pc = "finished" => target[t] = Range(Source[t]) /\ r.total_entries = Len(Source[t])

(* Every import has ended.                                                    *)
MigrationEnded == \A t \in Tables : importer[t].pc = "finished"

==============================================================================
