-------------------------------- MODULE Interp --------------------------------
(***************************************************************************)
(* The interpreter's frames: one transaction after another runs a stack of  *)
(* call and create frames that share one memory buffer, meter gas, and pass *)
(* input, output, gas and refunds between them.  The operand stack and the   *)
(* program are abstracted: the next instruction and its operands are chosen  *)
(* freely, as some program would.  Words are WordBytes bytes and addresses   *)
(* of memory are at most UsizeMax; Big stands for every larger operand.      *)
(***************************************************************************)
EXTENDS Integers, Sequences, FiniteSetsExt

CONSTANTS
    WordBytes,       \* bytes in a word (32)
    UsizeMax,        \* the largest usize
    Ranges,          \* <<offset, length>> operands of memory instructions
    Moves,           \* <<dst, src, len>> operands of MCOPY
    CallRanges,      \* <<input range, output range>> operands of calls
    MEMORY, Quad,    \* memory costs MEMORY * w + w^2 / Quad (3 and 512)
    Fraction,        \* a frame keeps 1/Fraction of its gas in a call (64)
    StaticGas,       \* what the instruction table charges a step
    COPY, CALLVALUE, CALL_STIPEND, CREATE, CODEDEPOSIT, CLEARS,
    Requests,        \* gas limits a CALL asks for
    Accesses,        \* what loading the callee costs, cold or new accounts included
    CALL_STACK_LIMIT, FrameReserve, MaxCodeSize,
    Transactions,    \* [limit, initial, floor, auth] of a transaction
    MaxTxs           \* bound on the number of transactions

ASSUME InterpAssumption ==
    /\ {WordBytes, UsizeMax, Quad, Fraction, StaticGas, FrameReserve, MaxTxs} \subseteq Nat \ {0}
    /\ {MEMORY, COPY, CALLVALUE, CALL_STIPEND, CREATE, CODEDEPOSIT, CLEARS,
        CALL_STACK_LIMIT, MaxCodeSize} \subseteq Nat
    /\ CALL_STIPEND <= CALLVALUE
    /\ Requests \subseteq Nat /\ Accesses \subseteq Nat
    /\ \A t \in Transactions : {t.initial, t.floor} \subseteq 0..t.limit /\ t.auth \in Nat

VARIABLES
    frames,   \* the live frames, the running one last
    alloc,    \* FrameStack: slots initialised and slots allocated
    buf,      \* the bytes of the shared memory buffer
    next,     \* what the interpreter loop does next
    cleared,  \* whether the one storage slot of interest is cleared
    tx, txs,  \* the transaction being executed, how many began
    oob       \* whether memory was ever accessed outside the context's bytes

vars == <<frames, alloc, buf, next, cleared, tx, txs, oob>>

Big == UsizeMax + 1
Bytes == {0, 1}
Top == frames[Len(frames)]
Bottom(fs) == SubSeq(fs, 1, Len(fs) - 1)

Ok == {"Stop", "Return", "SelfDestruct"}
Reverts == {"Revert", "CallTooDeep", "OutOfFunds"}
Errors == {"OutOfGas", "MemoryOOG", "InvalidOperandOOG", "OutOfOffset", "StackUnderflow",
           "CallNotAllowedInsideStatic", "StateChangeDuringStaticCall", "PrecompileError",
           "CreateContractSizeLimit", "CreateInitCodeSizeLimit", "CreateCollision"}

(* Gas::new *)
NewGas(limit) == [limit |-> limit, remaining |-> limit, refunded |-> 0, words |-> 0, expansion |-> 0]
(* mutant: an amount of one is not charged *)
SpendAboveOne(g, cost) == [g EXCEPT !.remaining = IF cost > 1 THEN @ - cost ELSE @]

Spend(g, cost) == [g EXCEPT !.remaining = @ - cost]
SpendAll(g) == [g EXCEPT !.remaining = 0]

SaturatingAdd(x, y) == Min({x + y, UsizeMax})
num_words(len) == SaturatingAdd(len, WordBytes - 1) \div WordBytes
memory_gas(words) == MEMORY * words + (words * words) \div Quad

(* mutant: the new bytes keep what was there before *)
VecResizeDirty(b, len) == [i \in 1..len |-> IF i <= Len(b) THEN b[i] ELSE 1]

(* Vec::resize: cut, or filled up with zeros *)
VecResize(b, len) == [i \in 1..len |-> IF i <= Len(b) THEN b[i] ELSE 0]

(* mutant: the cost is not compared with what remains *)
ResizeMemoryUnpaid(f, g, b, offset, len) ==
    LET words == num_words(SaturatingAdd(offset, len)) IN
    IF words <= g.words THEN [halt |-> "", gas |-> g, buf |-> b]
    ELSE [halt |-> "", gas |-> Spend([g EXCEPT !.words = words, !.expansion = memory_gas(words)],
                                     memory_gas(words) - g.expansion),
          buf |-> VecResize(b, f.checkpoint + words * WordBytes)]

(* record_new_len updates the word count even when the cost is then not paid *)
ResizeMemory(f, g, b, offset, len) ==
    LET words == num_words(SaturatingAdd(offset, len))
        grown == [g EXCEPT !.words = words, !.expansion = memory_gas(words)]
        cost == memory_gas(words) - g.expansion
    IN CASE words <= g.words -> [halt |-> "", gas |-> g, buf |-> b]
         [] words > g.words /\ cost > g.remaining -> [halt |-> "MemoryOOG", gas |-> grown, buf |-> b]
         [] OTHER -> [halt |-> "", gas |-> Spend(grown, cost),
                      buf |-> VecResize(b, f.checkpoint + words * WordBytes)]

(* The operands of a memory instruction: length, then gas, then offset, and *)
(* an empty range neither needs an offset nor grows the memory.             *)
Prepare(f, g, b, cost, range) ==
    CASE range[2] = Big -> [halt |-> "InvalidOperandOOG", gas |-> g, buf |-> b]
      [] range[2] # Big /\ cost > g.remaining -> [halt |-> "OutOfGas", gas |-> SpendAll(g), buf |-> b]
      [] range[2] = 0 /\ cost <= g.remaining -> [halt |-> "", gas |-> Spend(g, cost), buf |-> b]
      [] range[2] \notin {0, Big} /\ cost <= g.remaining /\ range[1] = Big ->
            [halt |-> "InvalidOperandOOG", gas |-> Spend(g, cost), buf |-> b]
      [] OTHER -> ResizeMemory(f, Spend(g, cost), b, range[1], range[2])

CopyGas(len) == COPY * num_words(len)

(* slice_range and slice_mut are only defined inside the buffer *)
InContext(f, b, offset, len) == len = 0 \/ f.checkpoint + offset + len <= Len(b)
Read(b, from, len) == [i \in 1..len |-> IF from + i \in DOMAIN b THEN b[from + i] ELSE 0]
Write(b, from, data) ==
    [i \in DOMAIN b |-> IF i - from \in DOMAIN data THEN data[i - from] ELSE b[i]]

(* set_data: the part of src from src_offset on, the rest of the range zero *)
SetData(b, at, src, srcOffset, len) ==
    Write(b, at, [i \in 1..len |-> IF srcOffset + i \in DOMAIN src THEN src[srcOffset + i] ELSE 0])

--------------------------------------------------------------------------------
(* How an instruction ends: the frame goes on, or hands an action to the loop. *)
Run == [do |-> "Run"]
Return(result, output, g) ==
    [do |-> "Return", result |-> result, output |-> output,
     remaining |-> g.remaining, refunded |-> g.refunded]

SetTop(g) == frames' = [frames EXCEPT ![Len(frames)].gas = g]

Stays == UNCHANGED <<alloc, tx, txs>>

Continue(g, b) ==
    /\ SetTop(g) /\ buf' = b /\ next' = Run
    /\ UNCHANGED cleared /\ Stays

Halt(result, g, b) ==
    /\ SetTop(g) /\ buf' = b /\ next' = Return(result, << >>, g)
    /\ UNCHANGED <<cleared, oob>> /\ Stays

(* an instruction that prepared its memory operands either halts or goes on *)
AfterPrepare(p, ok(_)) == IF p.halt # "" THEN Halt(p.halt, p.gas, p.buf) ELSE ok(p)

MLoad(g, offset) ==
    LET Loaded(p) ==
            /\ Continue(p.gas, p.buf)
            /\ oob' = (oob \/ ~InContext(Top, p.buf, offset, WordBytes))
    IN AfterPrepare(Prepare(Top, g, buf, 0, <<offset, WordBytes>>), Loaded)

(* MSTORE stores a word, MSTORE8 a byte *)
MStore(g, offset, data) ==
    LET Stored(p) ==
            /\ Continue(p.gas, Write(p.buf, Top.checkpoint + offset, data))
            /\ oob' = (oob \/ ~InContext(Top, p.buf, offset, Len(data)))
    IN AfterPrepare(Prepare(Top, g, buf, 0, <<offset, Len(data)>>), Stored)

(* mutant: the memory grows for the destination only *)
MCopyDst(g, dst, src, len) ==
    LET Copied(p) ==
            /\ Continue(p.gas, Write(p.buf, Top.checkpoint + dst, Read(p.buf, Top.checkpoint + src, len)))
            /\ oob' = (oob \/ ~InContext(Top, p.buf, dst, len) \/ ~InContext(Top, p.buf, src, len))
    IN AfterPrepare(Prepare(Top, g, buf, CopyGas(len), <<dst, len>>), Copied)

(* the memory grows to the larger of the two ends before the bytes are moved *)
MCopy(g, dst, src, len) ==
    LET Copied(p) ==
            /\ Continue(p.gas, Write(p.buf, Top.checkpoint + dst, Read(p.buf, Top.checkpoint + src, len)))
            /\ oob' = (oob \/ ~InContext(Top, p.buf, dst, len) \/ ~InContext(Top, p.buf, src, len))
    IN AfterPrepare(Prepare(Top, g, buf, CopyGas(len), <<Max({dst, src}), len>>), Copied)

(* CODECOPY and CALLDATACOPY of a transaction's own input *)
DataCopy(g, range, data, offset) ==
    LET Copied(p) ==
            /\ Continue(p.gas, IF range[2] = 0 THEN p.buf
                               ELSE SetData(p.buf, Top.checkpoint + range[1], data, offset, range[2]))
            /\ oob' = (oob \/ ~InContext(Top, p.buf, range[1], range[2]))
    IN AfterPrepare(Prepare(Top, g, buf, CopyGas(range[2]), range), Copied)

ReturnDataCopy(g, range, offset) ==
    IF range[2] # Big /\ SaturatingAdd(offset, range[2]) > Len(Top.returnData)
    THEN Halt("OutOfOffset", g, buf)
    ELSE DataCopy(g, range, Top.returnData, offset)

(* CALLDATACOPY: input of a call is a range of the caller's memory, and only *)
(* the bytes below this frame's checkpoint are lent to it                    *)
InputBytes(b) ==
    IF Top.input.shared THEN Read(b, Top.input.lo, Top.input.hi - Top.input.lo) ELSE Top.input.data

CallDataCopy(g, range, offset) ==
    LET Lent == ~Top.input.shared \/ Top.input.hi = Top.input.lo \/ Top.input.hi <= Top.checkpoint
        Copied(p) ==
            /\ Continue(p.gas, IF range[2] = 0 THEN p.buf
                               ELSE SetData(p.buf, Top.checkpoint + range[1], InputBytes(p.buf), offset, range[2]))
            /\ oob' = (oob \/ ~InContext(Top, p.buf, range[1], range[2]) \/ (range[2] > 0 /\ ~Lent))
    IN AfterPrepare(Prepare(Top, g, buf, CopyGas(range[2]), range), Copied)

ReturnInner(g, result, range) ==
    LET Returned(p) ==
            /\ SetTop(p.gas) /\ buf' = p.buf
            /\ next' = Return(result, Read(p.buf, Top.checkpoint + range[1], range[2]), p.gas)
            /\ oob' = (oob \/ ~InContext(Top, p.buf, range[1], range[2]))
            /\ UNCHANGED cleared /\ Stays
    IN AfterPrepare(Prepare(Top, g, buf, 0, range), Returned)

(* SSTORE of the slot: clearing it earns a refund, restoring it takes the    *)
(* refund back                                                               *)
SStore(g) ==
    IF Top.isStatic THEN Halt("StateChangeDuringStaticCall", g, buf)
    ELSE /\ SetTop([g EXCEPT !.refunded = IF cleared THEN @ - CLEARS ELSE @ + CLEARS])
         /\ cleared' = ~cleared /\ next' = Run
         /\ UNCHANGED <<buf, oob>> /\ Stays

--------------------------------------------------------------------------------
(* mutant: only the call itself says whether the callee is static *)
StaticOfCall(static) == static

(* the flag a call hands on *)
CalleeStatic(static) == static \/ Top.isStatic

NewFrame(kind, input, out, gasLimit, isStatic) ==
    [do |-> "NewFrame", kind |-> kind, input |-> input, out |-> out,
     gasLimit |-> gasLimit, isStatic |-> isStatic]

NoInput == [shared |-> FALSE, lo |-> 0, hi |-> 0, data |-> << >>]

(* get_memory_input_and_out_ranges: the input range is given in positions of *)
(* the whole buffer                                                          *)
InRange(range) ==
    IF range[2] = 0 THEN [shared |-> TRUE, lo |-> UsizeMax, hi |-> UsizeMax, data |-> << >>]
    ELSE [shared |-> TRUE, lo |-> Top.checkpoint + range[1],
          hi |-> Top.checkpoint + range[1] + range[2], data |-> << >>]

OutRange(range) == IF range[2] = 0 THEN <<UsizeMax, 0>> ELSE range

(* mutant: the callee's gas is not taken from the caller *)
CallGasFree(g, transfers, access, asked) ==
    LET paid == (IF transfers THEN CALLVALUE ELSE 0) + access
        left == g.remaining - paid
        given == Min({left - left \div Fraction, asked})
    IN IF paid > g.remaining THEN [halt |-> "OutOfGas", gas |-> SpendAll(g), limit |-> 0]
       ELSE [halt |-> "", gas |-> Spend(g, paid),
             limit |-> given + (IF transfers THEN CALL_STIPEND ELSE 0)]

(* load_acc_and_calc_gas: what the callee may use, and the gas left here *)
CallGas(g, transfers, access, asked) ==
    LET paid == (IF transfers THEN CALLVALUE ELSE 0) + access
        left == g.remaining - paid
        given == Min({left - left \div Fraction, asked})
    IN IF paid > g.remaining THEN [halt |-> "OutOfGas", gas |-> SpendAll(g), limit |-> 0]
       ELSE [halt |-> "", gas |-> Spend(g, paid + given),
             limit |-> given + (IF transfers THEN CALL_STIPEND ELSE 0)]

(* CALL, CALLCODE, DELEGATECALL (no transfer) and STATICCALL *)
Call(g, in, out, transfers, static, access, asked) ==
    LET Ranged(p) ==
            LET WithOut(q) ==
                    LET c == CallGas(q.gas, transfers, access, asked) IN
                    IF c.halt # "" THEN Halt(c.halt, c.gas, q.buf)
                    ELSE /\ SetTop(c.gas) /\ buf' = q.buf
                         /\ next' = NewFrame("call", InRange(in), OutRange(out), c.limit,
                                             CalleeStatic(static))
                         /\ UNCHANGED <<cleared, oob>> /\ Stays
            IN AfterPrepare(Prepare(Top, p.gas, p.buf, 0, out), WithOut)
    IN IF Top.isStatic /\ transfers THEN Halt("CallNotAllowedInsideStatic", g, buf)
       ELSE AfterPrepare(Prepare(Top, g, buf, 0, in), Ranged)

(* CREATE gives away all but 1/Fraction of the gas *)
Create(g, code) ==
    LET Coded(p) ==
            IF CREATE > p.gas.remaining THEN Halt("OutOfGas", SpendAll(p.gas), p.buf)
            ELSE LET left == p.gas.remaining - CREATE
                     given == left - left \div Fraction
                 IN /\ SetTop(Spend(p.gas, CREATE + given)) /\ buf' = p.buf
                    /\ next' = NewFrame("create", NoInput, <<0, 0>>, given, FALSE)
                    /\ oob' = (oob \/ ~InContext(Top, p.buf, code[1], code[2]))
                    /\ UNCHANGED cleared /\ Stays
    IN CASE Top.isStatic -> Halt("StateChangeDuringStaticCall", g, buf)
         [] ~Top.isStatic /\ code[2] # Big /\ code[2] > 2 * MaxCodeSize ->
                Halt("CreateInitCodeSizeLimit", g, buf)
         [] OTHER -> AfterPrepare(Prepare(Top, g, buf, CopyGas(code[2]), code), Coded)

(* Interpreter::step: the table's gas is taken before the instruction runs; *)
(* what the program does next is free.                                      *)
Step ==
    LET g == Spend(Top.gas, StaticGas) IN
    /\ next.do = "Run"
    /\ \/ StaticGas > Top.gas.remaining /\ Halt("OutOfGas", SpendAll(Top.gas), buf)
       \/ /\ StaticGas <= Top.gas.remaining
          /\ \/ \E range \in Ranges :
                   \/ MLoad(g, range[1])
                   \/ \E v \in Bytes : MStore(g, range[1], <<v>>)
                   \/ MStore(g, range[1], [i \in 1..WordBytes |-> 1])
                   \/ \E offset \in {0, UsizeMax} :
                          \/ DataCopy(g, range, <<1>>, offset)
                          \/ CallDataCopy(g, range, offset)
                          \/ ReturnDataCopy(g, range, offset)
                   \/ \E result \in {"Return", "Revert"} : ReturnInner(g, result, range)
                   \/ Create(g, range)
             \/ \E m \in Moves : MCopy(g, m[1], m[2], m[3])
             \/ \E r \in CallRanges, asked \in Requests, access \in Accesses :
                   \/ Call(g, r[1], r[2], TRUE, FALSE, access, asked)
                   \/ \E static \in BOOLEAN : Call(g, r[1], r[2], FALSE, static, access, asked)
             \/ SStore(g)
             \/ \E result \in {"Stop", "StackUnderflow"} : Halt(result, g, buf)

--------------------------------------------------------------------------------
Result(kind, result, output, remaining, refunded, out) ==
    [do |-> "Result", kind |-> kind, result |-> result, output |-> output,
     remaining |-> remaining, refunded |-> refunded, out |-> out]

NoChild == -1

(* mutant: get_next relies on the room made at the start *)
RoomForFirst(a) ==
    IF Len(frames) = 0 THEN [a EXCEPT !.cap = IF a.len = 0 THEN Max({@, FrameReserve}) ELSE @] ELSE a

(* FrameStack: start_init and get_next make room, end_init and push count *)
(* the slot as initialised when it never held a frame                      *)
RoomFor(a) ==
    IF Len(frames) = 0 THEN [a EXCEPT !.cap = IF a.len = 0 THEN Max({@, FrameReserve}) ELSE @]
    ELSE [a EXCEPT !.cap = IF Len(frames) = @ THEN Max({@, a.len + FrameReserve}) ELSE @]
Pushed(a) == [a EXCEPT !.len = IF Len(frames) = @ THEN @ + 1 ELSE @]

(* new_child_context: the child's memory begins where the buffer ends *)
WithChild(fs) == IF fs = << >> THEN fs ELSE [fs EXCEPT ![Len(fs)].child = Len(buf)]

(* mutant: every frame's memory begins at the start of the buffer *)
ClearedFrameAtZero(n) ==
    [gas |-> NewGas(n.gasLimit), checkpoint |-> 0, child |-> NoChild, returnData |-> << >>,
     input |-> n.input, isStatic |-> n.isStatic, kind |-> n.kind, out |-> n.out, saved |-> cleared]

(* EthFrame::clear: every field of a frame that is used again is set *)
ClearedFrame(n) ==
    [gas |-> NewGas(n.gasLimit), checkpoint |-> IF frames = << >> THEN 0 ELSE Len(buf),
     child |-> NoChild, returnData |-> << >>, input |-> n.input, isStatic |-> n.isStatic,
     kind |-> n.kind, out |-> n.out, saved |-> cleared]

(* how make_call_frame and make_create_frame can end without a frame *)
Unframed(n) ==
    IF Len(frames) > CALL_STACK_LIMIT
    THEN {Result(n.kind, "CallTooDeep", << >>, n.gasLimit, 0, n.out)}
    ELSE {Result(n.kind, "OutOfFunds", << >>, n.gasLimit, 0, n.out)} \cup
         IF n.kind = "create" THEN {Result("create", "CreateCollision", << >>, n.gasLimit, 0, n.out)}
         ELSE {Result("call", "Stop", << >>, n.gasLimit, 0, n.out),
               Result("call", "Return", <<1>>, 0, 0, n.out),
               Result("call", "PrecompileError", << >>, 0, 0, n.out)}

FrameInit ==
    /\ next.do = "NewFrame"
    /\ \/ /\ next' \in Unframed(next)
          /\ frames' = WithChild(frames) /\ alloc' = RoomFor(alloc)
       \/ /\ Len(frames) <= CALL_STACK_LIMIT
          /\ frames' = Append(WithChild(frames), ClearedFrame(next))
          /\ alloc' = Pushed(RoomFor(alloc))
          /\ next' = Run
    /\ UNCHANGED <<buf, cleared, tx, txs, oob>>

(* return_create: a contract that is too large or cannot pay for its code is *)
(* an error                                                                  *)
ReturnCreate(n) ==
    LET deposit == CODEDEPOSIT * Len(n.output) IN
    CASE n.result \notin Ok -> n
      [] n.result \in Ok /\ Len(n.output) > MaxCodeSize -> [n EXCEPT !.result = "CreateContractSizeLimit"]
      [] n.result \in Ok /\ Len(n.output) <= MaxCodeSize /\ deposit > n.remaining ->
            [n EXCEPT !.result = "OutOfGas"]
      [] OTHER -> [n EXCEPT !.result = "Return", !.remaining = @ - deposit]

(* process_next_action: the frame is finished, its state changes kept or not *)
FrameEnd ==
    /\ next.do = "Return"
    /\ LET n == IF Top.kind = "create" THEN ReturnCreate(next) ELSE next IN
       /\ next' = Result(Top.kind, n.result, n.output, n.remaining, n.refunded, Top.out)
       /\ cleared' = IF n.result \in Ok THEN cleared ELSE Top.saved
    /\ frames' = Bottom(frames)
    /\ UNCHANGED <<alloc, buf, tx, txs, oob>>

(* free_child_context *)
Freed(b) == IF Top.child = NoChild THEN b ELSE SubSeq(b, 1, Top.child)

(* mutant: a reverted frame's refunds are kept *)
GasBackReverted(g, n) ==
    [g EXCEPT !.remaining = @ + IF n.result \in Ok \cup Reverts THEN n.remaining ELSE 0,
              !.refunded = @ + IF n.result \in Ok \cup Reverts THEN n.refunded ELSE 0]

GasBack(g, n) ==
    [g EXCEPT !.remaining = @ + IF n.result \in Ok \cup Reverts THEN n.remaining ELSE 0,
              !.refunded = @ + IF n.result \in Ok THEN n.refunded ELSE 0]

ReturnResult ==
    /\ next.do = "Result" /\ frames # << >>
    /\ LET kept == IF next.kind = "call" /\ next.result \in Ok \cup Reverts
                   THEN SubSeq(next.output, 1, Min({next.out[2], Len(next.output)})) ELSE << >>
           data == IF next.kind = "call" \/ next.result = "Revert" THEN next.output ELSE << >>
       IN /\ frames' = [frames EXCEPT ![Len(frames)] =
                            [@ EXCEPT !.child = NoChild, !.returnData = data,
                                      !.gas = GasBack(@, next)]]
          /\ buf' = Write(Freed(buf), Top.checkpoint + next.out[1], kept)
          /\ oob' = (oob \/ ~InContext(Top, Freed(buf), next.out[1], Len(kept)))
    /\ next' = Run
    /\ UNCHANGED <<cleared, alloc, tx, txs>>

--------------------------------------------------------------------------------
(* last_frame_result: the transaction's limit counts as spent until the first *)
(* frame's gas is given back                                                  *)
LastFrameGas(n) ==
    GasBack([NewGas(tx.limit) EXCEPT !.remaining = 0], n)

(* refund: a negative counter cast to u64 is larger than any cap *)
FinalRefund(g) ==
    LET cap == (g.limit - g.remaining) \div 5
    IN [g EXCEPT !.refunded = IF @ + tx.auth < 0 THEN cap ELSE Min({@ + tx.auth, cap})]

(* mutant: the refund stays when the floor is charged *)
FloorCheckedRefunded(g) ==
    IF g.limit - g.remaining - g.refunded < tx.floor
    THEN [g EXCEPT !.remaining = Max({g.limit - tx.floor, 0})]
    ELSE g

(* eip7623_check_gas_floor *)
FloorChecked(g) ==
    IF g.limit - g.remaining - g.refunded < tx.floor
    THEN [g EXCEPT !.remaining = Max({g.limit - tx.floor, 0}), !.refunded = 0]
    ELSE g

(* mutant: the buffer is left to the next transaction *)
LocalKept == UNCHANGED buf

(* LocalContext::clear, after a result and after an error alike *)
LocalClear == buf' = << >>

Finish ==
    /\ next.do = "Result" /\ frames = << >>
    /\ next' = [do |-> "Done", gas |-> FloorChecked(FinalRefund(LastFrameGas(next)))]
    /\ LocalClear
    /\ UNCHANGED <<frames, alloc, cleared, tx, txs, oob>>

(* a database error in any frame ends the transaction: catch_error *)
Fail ==
    /\ next.do \in {"Run", "NewFrame"}
    /\ next' = [do |-> "Idle"] /\ frames' = << >> /\ cleared' = FALSE
    /\ LocalClear
    /\ UNCHANGED <<alloc, tx, txs, oob>>

Begin(t) ==
    /\ next.do \in {"Idle", "Done"} /\ txs < MaxTxs
    /\ tx' = t /\ txs' = txs + 1 /\ cleared' = FALSE
    /\ \E kind \in {"call", "create"} :
           next' = NewFrame(kind, IF kind = "call" THEN [NoInput EXCEPT !.data = <<1>>] ELSE NoInput,
                            <<0, 0>>, t.limit - t.initial, FALSE)
    /\ UNCHANGED <<frames, alloc, buf, oob>>

Init ==
    /\ frames = << >> /\ alloc = [len |-> 0, cap |-> FrameReserve] /\ buf = << >>
    /\ next = [do |-> "Idle"] /\ cleared = FALSE /\ tx \in Transactions /\ txs = 0 /\ oob = FALSE

Executing == Step \/ FrameInit \/ FrameEnd \/ ReturnResult \/ Finish

Next == Executing \/ Fail \/ \E t \in Transactions : Begin(t)

(* run_exec_loop keeps calling the interpreter until a result is final *)
Spec == Init /\ [][Next]_vars /\ WF_vars(Executing)

--------------------------------------------------------------------------------
Results == Ok \cup Reverts \cup Errors

TypeOK ==
    /\ \A i \in DOMAIN frames :
          /\ {frames[i].gas.limit, frames[i].gas.remaining, frames[i].gas.words,
              frames[i].gas.expansion, frames[i].checkpoint} \subseteq Nat
          /\ frames[i].gas.refunded \in Int /\ frames[i].child \in Nat \cup {NoChild}
          /\ frames[i].kind \in {"call", "create"} /\ frames[i].isStatic \in BOOLEAN
    /\ alloc.len \in Nat /\ alloc.cap \in Nat
    /\ \A i \in DOMAIN buf : buf[i] \in Bytes
    /\ next.do \in {"Idle", "Run", "NewFrame", "Return", "Result", "Done"}
    /\ next.do \in {"Return", "Result"} => next.result \in Results
    /\ cleared \in BOOLEAN /\ oob \in BOOLEAN /\ txs \in 0..MaxTxs

(* No instruction and no returning call reads or writes the shared buffer   *)
(* outside the bytes that belong to it: the unchecked slices of             *)
(* shared_memory.rs (slice_range, slice_mut, set_data) are always in range, *)
(* and CALLDATACOPY only reads below the frame's own checkpoint.            *)
MemoryInBounds == ~oob

(* The bytes a frame holds are the words it paid for, for the running frame *)
(* and for every frame suspended in a call: resize_memory compares an        *)
(* access with words_num and never looks at the buffer.                      *)
MemoryMatchesGas ==
    \A i \in DOMAIN frames :
        LET end == IF i < Len(frames) THEN frames[i + 1].checkpoint
                   ELSE IF Top.child = NoChild THEN Len(buf) ELSE Top.child
            g == frames[i].gas
        IN (i < Len(frames) \/ next.do # "Return") =>
               /\ end - frames[i].checkpoint = g.words * WordBytes
               /\ g.expansion = memory_gas(g.words)

(* Contexts nest: a suspended frame's child begins where it says, and a      *)
(* frame that runs has no child, so new_child_context never panics.          *)
ContextsNest ==
    /\ \A i \in 1..(Len(frames) - 1) : frames[i].child = frames[i + 1].checkpoint
    /\ next.do \in {"Run", "Return", "NewFrame"} /\ frames # << >> => Top.child = NoChild

(* A frame below a static frame is static: CREATE starts its frame with      *)
(* is_static false and relies on require_non_staticcall before it.           *)
StaticInherited ==
    \A i, j \in DOMAIN frames : i < j /\ frames[i].isStatic => frames[j].isStatic

(* The frame stack only hands out slots that were initialised and allocated, *)
(* whatever calls, results without a frame and errors came before.           *)
FrameSlots == Len(frames) <= alloc.len /\ alloc.len <= alloc.cap

(* When a transaction ends, what it used and what it gives back are its gas  *)
(* limit; at least the floor is used and at most a fifth is refunded, so     *)
(* spent(), used() and reimburse_caller never wrap.                          *)
GasBalances ==
    next.do = "Done" =>
        LET g == next.gas
            spent == g.limit - g.remaining
        IN /\ g.remaining \in 0..(g.limit - tx.floor)
           /\ g.refunded \in 0..(spent \div 5)
           /\ spent - g.refunded >= tx.floor

(* The refunds that reach the first frame are never negative, although a     *)
(* callee's own counter may be: refunds follow the storage changes that are  *)
(* kept or reverted with their frame.                                        *)
RefundsFollowState ==
    next.do = "Result" /\ frames = << >> /\ next.result \in Ok =>
        next.refunded = IF cleared THEN CLEARS ELSE 0

(* What the frames of a transaction rely on one another for: every access is  *)
(* inside the frame's own bytes, which are the ones it paid for, contexts and *)
(* slots nest, and a static call stays static below.                          *)
FramesConsistent ==
    TypeOK /\ MemoryInBounds /\ ContextsNest /\ MemoryMatchesGas /\ FrameSlots /\ StaticInherited

(* gas held by the frames and by what is handed over between them *)
GasHeld ==
    MapThenSumSet(LAMBDA i : frames[i].gas.remaining, DOMAIN frames)
        + CASE next.do = "NewFrame" -> next.gasLimit
            [] next.do = "Result" -> next.remaining
            [] OTHER -> 0

(* No step of a transaction makes gas: what CALL and CREATE hand to a callee, *)
(* stipend included, was taken from the caller, and no more than the callee   *)
(* left comes back, so remaining never exceeds limit; refunds follow the      *)
(* state, and at the end used, refunded and returned gas make the limit.      *)
GasConserved ==
    [][/\ txs' = txs =>
             /\ GasHeld' <= GasHeld
             /\ \A i \in DOMAIN frames' : frames'[i].gas.remaining <= frames'[i].gas.limit
       /\ RefundsFollowState' /\ GasBalances']_vars

(* Every transaction comes to an end, because every instruction costs gas. *)
Terminates == next.do \in {"NewFrame", "Run"} ~> next.do \in {"Idle", "Done"}

(* what frame i finds at an offset of its memory *)
End(i) ==
    IF i < Len(frames) THEN frames[i + 1].checkpoint
    ELSE IF Top.child = NoChild THEN Len(buf) ELSE Top.child

Memory(i) ==
    [o \in 0..(3 * WordBytes) |-> IF frames[i].checkpoint + o < End(i)
                               THEN buf[frames[i].checkpoint + o + 1] ELSE 0]

Programs == INSTANCE FrameMemory
    WITH Offsets <- 0..(3 * WordBytes), memories <- [i \in DOMAIN frames |-> Memory(i)],
         running <- next.do = "Run"

(* The shared buffer with its checkpoints implements separate memories: no   *)
(* frame sees another frame's bytes, or what a finished frame or an earlier  *)
(* transaction left behind, and no call changes its caller's memory before   *)
(* its result is written.                                                    *)
ImplementsFrameMemory == Programs!Spec

===============================================================================
