------------------------------- MODULE Bytecode -------------------------------
(***************************************************************************)
(* The bytes of an account's code on their way to execution: decoded into   *)
(* an EIP-7702 delegation or legacy code, legacy code analysed (its jump     *)
(* table) and padded, and stepped through by ExtBytecode's instruction       *)
(* pointer, which reads the padded bytes without a bounds check, with the    *)
(* operand stack, whose words are written limb by limb.                      *)
(***************************************************************************)
EXTENDS Integers, Sequences, SequencesExt, FiniteSets, Opcodes

CONSTANTS Codes,            \* the codes considered, sequences of bytes
          DelegationLen,    \* 23 in the code: magic, version and address
          STACK_LIMIT, GasLimit,
          LimbBytes, Limbs,  \* 8 and 4 in the code
          SpecIds           \* positions of the hard forks considered

ASSUME BytecodeAssumption ==
    /\ DelegationLen > 3 /\ STACK_LIMIT \in Nat /\ GasLimit \in Nat
    /\ LimbBytes > 0 /\ Limbs > 0

VARIABLES raw,      \* the bytes as they are in the database
          code,     \* the Bytecode made of them
          spec,
          pc,       \* instruction_pointer, as an offset
          data,     \* the operand stack
          gas, action

vars == <<raw, code, spec, pc, data, gas, action>>

Uninit == -1        \* a limb nobody has written yet
NoAction == "none"
Results == {"Stop", "OutOfGas", "StackUnderflow", "StackOverflow", "InvalidJump", "NotActivated",
            "InvalidFEOpcode", "OpcodeNotFound"}

--------------------------------------------------------------------------------
EIP7702_MAGIC_BYTES == <<\hEF, \h01>>
EIP7702_VERSION == 0

(* mutant: the version byte is not written *)
Eip7702_unversioned(address) ==
    [kind |-> "eip7702", bytes |-> EIP7702_MAGIC_BYTES \o address, len |-> DelegationLen, jumps |-> {}]

Eip7702(address) ==
    [kind |-> "eip7702", bytes |-> EIP7702_MAGIC_BYTES \o <<EIP7702_VERSION>> \o address,
     len |-> DelegationLen, jumps |-> {}]

Eip7702_new_raw(bytes) ==
    CASE Len(bytes) # DelegationLen -> [kind |-> "InvalidLength"]
      [] Len(bytes) = DelegationLen /\ ~IsPrefix(EIP7702_MAGIC_BYTES, bytes) -> [kind |-> "InvalidMagic"]
      [] Len(bytes) = DelegationLen /\ IsPrefix(EIP7702_MAGIC_BYTES, bytes)
            /\ bytes[3] # EIP7702_VERSION -> [kind |-> "UnsupportedVersion"]
      [] OTHER -> [kind |-> "eip7702", bytes |-> bytes, len |-> DelegationLen, jumps |-> {}]

(* analyze_legacy: the position after the last instruction, which a PUSH at   *)
(* the end puts behind the code, the last opcode, and the jump destinations   *)
RECURSIVE Scan(_, _, _, _)
Scan(bytes, i, op, jumps) ==
    IF i >= Len(bytes) THEN [past |-> i, last |-> op, jumps |-> jumps]
    ELSE LET b == bytes[i + 1] IN
         IF b = JUMPDEST THEN Scan(bytes, i + 1, b, jumps \cup {i})
         ELSE IF b \in PUSH1..PUSH32 THEN Scan(bytes, i + (b - PUSH1) + 2, b, jumps)
         ELSE Scan(bytes, i + 1, b, jumps)

Zeros(n) == [i \in 1..n |-> 0]

(* mutant: one byte is added when the code does not end with STOP, and no     *)
(* more for the missing immediate of a PUSH                                   *)
analyze_unpadded(bytes) ==
    LET s == Scan(bytes, 0, 0, {}) IN
    [kind |-> "legacy", len |-> Len(bytes), jumps |-> s.jumps,
     bytes |-> bytes \o Zeros(IF s.last # STOP \/ bytes = <<>> THEN 1 ELSE 0)]

(* mutant: every JUMPDEST byte is a destination *)
analyze_immediates(bytes) ==
    LET s == Scan(bytes, 0, 0, {}) IN
    [kind |-> "legacy", len |-> Len(bytes),
     jumps |-> {i \in 0..(Len(bytes) - 1) : bytes[i + 1] = JUMPDEST},
     bytes |-> bytes \o Zeros(s.past - Len(bytes) + (IF s.last # STOP THEN 1 ELSE 0))]

(* mutant: the padded code is taken for the original *)
analyze_padded(bytes) ==
    LET s == Scan(bytes, 0, 0, {})
        padded == bytes \o Zeros(s.past - Len(bytes) + (IF s.last # STOP \/ bytes = <<>> THEN 1 ELSE 0))
    IN [kind |-> "legacy", len |-> Len(padded), jumps |-> s.jumps, bytes |-> padded]

(* LegacyAnalyzedBytecode::analyze; empty code is a single STOP *)
analyze(bytes) ==
    LET s == Scan(bytes, 0, 0, {}) IN
    [kind |-> "legacy", len |-> Len(bytes), jumps |-> s.jumps,
     bytes |-> IF bytes = <<>> THEN <<STOP>>
               ELSE bytes \o Zeros(s.past - Len(bytes) + (IF s.last # STOP THEN 1 ELSE 0))]

new_raw_checked(bytes) ==
    IF IsPrefix(EIP7702_MAGIC_BYTES, bytes) THEN Eip7702_new_raw(bytes) ELSE analyze(bytes)

Decoded(c) == c.kind \in {"legacy", "eip7702"}
original_bytes(c) == IF c.kind = "legacy" THEN SubSeq(c.bytes, 1, c.len) ELSE c.bytes

(* JumpTable::is_valid *)
is_valid(c, target) == target < c.len /\ target \in c.jumps

(* BytecodeIterator over the padded bytes: the offsets it stops at *)
RECURSIVE iter_from(_, _)
iter_from(bytes, i) ==
    IF i >= Len(bytes) THEN {} ELSE {i} \cup iter_from(bytes, i + 1 + immediate_size(bytes[i + 1]))

iter_opcodes(c) == IF c.kind = "legacy" THEN iter_from(c.bytes, 0) ELSE {}

--------------------------------------------------------------------------------
(* A word is a sequence of limbs, the least significant first. *)
RECURSIVE BigEndian(_)
BigEndian(bytes) == IF bytes = <<>> THEN 0 ELSE BigEndian(Front(bytes)) * 256 + Last(bytes)

WordOf(n) == [i \in 1..Limbs |-> IF i = 1 THEN n ELSE 0]
IsZero(w) == \A i \in 1..Limbs : w[i] = 0
FitsUsize(w) == \A i \in 2..Limbs : w[i] = 0

(* wrapping_sub: a limb borrows when the limbs below it of x are less than y's *)
LimbSize == 256 ^ LimbBytes
Borrows[x \in Seq(Int), y \in Seq(Int), i \in Nat] ==
    IF i = 0 THEN 0 ELSE IF x[i] - y[i] - Borrows[x, y, i - 1] < 0 THEN 1 ELSE 0
wrapping_sub(x, y) == [i \in 1..Limbs |-> (x[i] - y[i] - Borrows[x, y, i - 1]) % LimbSize]

(* mutant: the limbs are taken from the front *)
LimbAt_forward(slice, i) ==
    LET start == LimbBytes * (i - 1) + 1
        end == IF start + LimbBytes - 1 > Len(slice) THEN Len(slice) ELSE start + LimbBytes - 1
    IN BigEndian(SubSeq(slice, start, end))

(* limb i of the bytes: LimbBytes of them from the end (rchunks_exact), fewer *)
(* for the last one                                                           *)
LimbAt(slice, i) ==
    LET end == Len(slice) - LimbBytes * (i - 1)
        start == IF end > LimbBytes THEN end - LimbBytes + 1 ELSE 1
    IN BigEndian(SubSeq(slice, start, end))

(* mutant: the limbs above the pushed bytes are left as they are *)
push_slice_dirty(s, slice) ==
    LET written == (Len(slice) + LimbBytes - 1) \div LimbBytes IN
    IF Len(s) + 1 > STACK_LIMIT THEN s
    ELSE Append(s, [i \in 1..Limbs |-> IF i <= written THEN LimbAt(slice, i) ELSE Uninit])

(* push_slice_ for the at most Limbs * LimbBytes bytes that PUSH reads: the *)
(* stack is grown first, then its limbs are written, the rest of the last word *)
(* is zeroed                                                                   *)
push_slice_(s, slice) ==
    LET written == (Len(slice) + LimbBytes - 1) \div LimbBytes
        word == [i \in 1..Limbs |-> IF i <= written THEN LimbAt(slice, i) ELSE Uninit]
    IN IF slice = <<>> \/ Len(s) + 1 > STACK_LIMIT THEN s
       ELSE Append(s, IF written % Limbs # 0
                      THEN [i \in 1..Limbs |-> IF i > written THEN 0 ELSE word[i]] ELSE word)

(* mutant: only an empty stack is too short *)
dup_below(s, n) ==
    IF s = <<>> \/ Len(s) + 1 > STACK_LIMIT THEN s
    ELSE Append(s, IF Len(s) < n THEN WordOf(0) ELSE s[Len(s) + 1 - n])

dup(s, n) == IF Len(s) < n \/ Len(s) + 1 > STACK_LIMIT THEN s ELSE Append(s, s[Len(s) + 1 - n])

exchange(s, n, m) ==
    IF n + m >= Len(s) THEN s
    ELSE LET top == Len(s) IN [s EXCEPT ![top - n] = s[top - n - m], ![top - n - m] = s[top - n]]

popn(s, n) == SubSeq(s, 1, Len(s) - n)

(* mutant: the limit of the stack is not checked *)
push_unlimited(s, w) == Append(s, w)

push(s, w) == IF Len(s) = STACK_LIMIT THEN s ELSE Append(s, w)

--------------------------------------------------------------------------------
Init ==
    /\ raw \in Codes /\ spec \in SpecIds
    /\ code = [kind |-> "none"]
    /\ pc = 0 /\ data = <<>> /\ gas = GasLimit /\ action = NoAction

(* the account's code is decoded (new_raw_checked) and a frame made for it *)
Load ==
    /\ code.kind = "none"
    /\ code' = new_raw_checked(raw)
    /\ UNCHANGED <<raw, spec, pc, data, gas, action>>

Running == code.kind = "legacy" /\ action = NoAction

(* Reads behind the padded bytes: undefined in the code, a zero byte here. *)
ByteAt(i) == IF i < Len(code.bytes) THEN code.bytes[i + 1] ELSE 0

Halt(result) == action' = result /\ UNCHANGED data
Continue(s, next) == data' = s /\ pc' = next /\ UNCHANGED action

jump_inner(target, s) ==
    IF FitsUsize(target) /\ is_valid(code, target[1])
    THEN Continue(s, target[1])
    ELSE action' = "InvalidJump" /\ data' = s /\ pc' = pc + 1

Pop(op) == Len(data) < instruction_table(op).pop /\ Halt("StackUnderflow") /\ pc' = pc + 1

Jump(op) ==
    /\ op \in {JUMP, JUMPI}
    /\ \/ Pop(op)
       \/ /\ Len(data) >= instruction_table(op).pop
          /\ LET s == popn(data, instruction_table(op).pop) IN
             IF op = JUMPI /\ IsZero(data[Len(data) - 1]) THEN Continue(s, pc + 1)
             ELSE jump_inner(Last(data), s)

PushImmediate(op) ==
    /\ op \in PUSH1..PUSH32
    /\ LET n == immediate_size(op)
           s == push_slice_(data, [i \in 1..n |-> ByteAt(pc + i)])
       IN IF s = data THEN Halt("StackOverflow") /\ pc' = pc + 1
          ELSE Continue(s, pc + 1 + n)

PushValue(op) ==
    /\ op \in {PUSH0, PC}
    /\ IF op = PUSH0 /\ ~G!Enabled(spec, "SHANGHAI") THEN Halt("NotActivated") /\ pc' = pc + 1
       ELSE LET s == push(data, WordOf(IF op = PC THEN pc ELSE 0)) IN
            IF s = data THEN Halt("StackOverflow") /\ pc' = pc + 1 ELSE Continue(s, pc + 1)

DupSwap(op) ==
    /\ op \in Dups \cup Swaps
    /\ IF op \in Dups
       THEN LET s == dup(data, op - \h7F) IN
            IF s = data THEN Halt("StackOverflow") /\ pc' = pc + 1 ELSE Continue(s, pc + 1)
       ELSE IF op - \h8F >= Len(data) THEN Halt("StackOverflow") /\ pc' = pc + 1
            ELSE Continue(exchange(data, 0, op - \h8F), pc + 1)

Other(op) ==
    \/ op = \h50 /\ (Pop(op) \/ (Len(data) >= 1 /\ Continue(popn(data, 1), pc + 1)))
    \/ /\ op = SUB
       /\ \/ Pop(op)
          \/ /\ Len(data) >= 2
             /\ Continue(Append(popn(data, 2), wrapping_sub(Last(data), data[Len(data) - 1])), pc + 1)
    \/ op = JUMPDEST /\ Continue(data, pc + 1)
    \/ op = STOP /\ Halt("Stop") /\ pc' = pc + 1
    \/ op = INVALID /\ Halt("InvalidFEOpcode") /\ pc' = pc + 1
    \/ op \notin OPCODE_INFO /\ Halt("OpcodeNotFound") /\ pc' = pc + 1

(* Interpreter::step: the pointer moves on, the static gas is taken, the      *)
(* instruction runs                                                           *)
Step ==
    /\ Running
    /\ UNCHANGED <<raw, code, spec>>
    /\ LET op == ByteAt(pc) IN
       IF gas < static_gas(op)
       THEN Halt("OutOfGas") /\ pc' = pc + 1 /\ UNCHANGED gas
       ELSE /\ gas' = gas - static_gas(op)
            /\ Jump(op) \/ PushImmediate(op) \/ PushValue(op) \/ DupSwap(op) \/ Other(op)

Next == Load \/ Step

Spec == Init /\ [][Next]_vars

--------------------------------------------------------------------------------
(* Types of the decoded code and of the stack, which has its limit. *)
TypeOK ==
    /\ code.kind \in {"none", "legacy", "eip7702", "InvalidLength", "InvalidMagic", "UnsupportedVersion"}
    /\ pc \in Nat /\ gas \in 0..GasLimit /\ action \in Results \cup {NoAction}
    /\ Len(data) <= STACK_LIMIT

(* ExtBytecode's SAFETY comment, "instruction_pointer always point to          *)
(* bytecode": while a frame runs, wherever it has jumped, it is at a byte at   *)
(* which the iterator of opcodes stops too, never inside the immediate of a    *)
(* PUSH, and the opcode and its immediate are inside the padded code.          *)
PointerInBytes ==
    Running => /\ pc < Len(code.bytes) /\ pc + immediate_size(ByteAt(pc)) < Len(code.bytes)
               /\ pc \in iter_opcodes(code)

(* Decoding keeps the account's code: what original_bytes returns, and so the  *)
(* code hash, CODESIZE and what the databases store, is what was read, decoding *)
(* that again gives the same code, and a delegation written by new_eip7702 is  *)
(* read back as one.                                                           *)
OriginalKept ==
    /\ Decoded(code) => original_bytes(code) = raw /\ new_raw_checked(original_bytes(code)) = code
    /\ code.kind = "eip7702" =>
          new_raw_checked(Eip7702(SubSeq(code.bytes, 4, DelegationLen)).bytes) = code

(* byte k of a word *)
WordByte(w, k) == (w[k \div LimbBytes + 1] \div 256 ^ (k % LimbBytes)) % 256

(* An instruction that does not end the frame has found its inputs on the      *)
(* stack and changes its height, within the limit, as OPCODE_INFO says; it has *)
(* cost gas, and leaves initialised words only, although push_slice_ grows the *)
(* stack before it writes; PUSH leaves the big-endian value of its immediate.   *)
StepMatchesTable ==
    [][Running /\ action' = NoAction =>
          LET op == ByteAt(pc)
              n == immediate_size(op)
          IN  /\ Len(data) >= inputs(op) /\ Len(data') = Len(data) - inputs(op) + outputs(op)
              /\ TypeOK' /\ gas' < gas
              /\ \A i \in DOMAIN data' : \A j \in 1..Limbs : data'[i][j] # Uninit
              /\ op \in PUSH1..PUSH32 =>
                    \A k \in 0..(LimbBytes * Limbs - 1) :
                        WordByte(Last(data'), k) = IF k < n THEN ByteAt(pc + n - k) ELSE 0]_vars

==============================================================================
