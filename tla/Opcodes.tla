------------------------------- MODULE Opcodes -------------------------------
(***************************************************************************)
(* Three descriptions of the instruction set that the code keeps apart: the *)
(* table of opcode.rs (inputs, outputs, immediate bytes, terminating), the   *)
(* instruction table of the interpreter with its static gas, and what the    *)
(* instructions themselves take from the stack and put on it.                *)
(***************************************************************************)
EXTENDS Integers, FiniteSets

G == INSTANCE EvmGas

Bytes == 0..255

STOP == 0
SUB == \h03
JUMP == \h56
JUMPI == \h57
PC == \h58
JUMPDEST == \h5B
PUSH0 == \h5F
PUSH1 == \h60
PUSH32 == \h7F
Dups == \h80..\h8F
Swaps == \h90..\h9F
Logs == \hA0..\hA4
CREATE == \hF0
CALL == \hF1
CALLCODE == \hF2
RETURN == \hF3
DELEGATECALL == \hF4
CREATE2 == \hF5
STATICCALL == \hFA
REVERT == \hFD
INVALID == \hFE
SELFDESTRUCT == \hFF

(* The rows of opcodes!: 0x00-0x4A compute and read, 0x50-0xA4 work on stack, *)
(* memory, storage and flow, 0xF0-0xFF call, create and end.                  *)
Low == (0..\h0B) \cup (\h10..\h1E) \cup {\h20} \cup (\h30..\h4A)
Middle == \h50..\hA4
High == (CREATE..CREATE2) \cup {STATICCALL, REVERT, INVALID, SELFDESTRUCT}
OPCODE_INFO == Low \cup Middle \cup High

stack_io_low(op) ==
    CASE op = STOP -> <<0, 0>>
      [] op \in {\h08, \h09} -> <<3, 1>>
      [] op \in {\h15, \h19, \h1E, \h31, \h35, \h3B, \h3F, \h40, \h49} -> <<1, 1>>
      [] op \in {\h37, \h39, \h3E} -> <<3, 0>>
      [] op = \h3C -> <<4, 0>>
      [] op \in (\h30..\h4A) \ {\h31, \h35, \h37, \h39, \h3B, \h3C, \h3E, \h3F, \h40, \h49} -> <<0, 1>>
      [] OTHER -> <<2, 1>>

stack_io_middle(op) ==
    CASE op \in {\h50, JUMP} -> <<1, 0>>
      [] op \in {\h51, \h54, \h5C} -> <<1, 1>>
      [] op \in {\h52, \h53, \h55, JUMPI, \h5D} -> <<2, 0>>
      [] op = JUMPDEST -> <<0, 0>>
      [] op = \h5E -> <<3, 0>>
      [] op \in Dups -> <<op - \h7F, op - \h7E>>
      [] op \in Swaps -> <<op - \h8E, op - \h8E>>
      [] op \in Logs -> <<op - \h9E, 0>>
      [] OTHER -> <<0, 1>>

stack_io_high(op) ==
    CASE op = CREATE -> <<3, 1>>
      [] op = CREATE2 -> <<4, 1>>
      [] op \in {CALL, CALLCODE} -> <<7, 1>>
      [] op \in {DELEGATECALL, STATICCALL} -> <<6, 1>>
      [] op \in {RETURN, REVERT} -> <<2, 0>>
      [] op = SELFDESTRUCT -> <<1, 0>>
      [] OTHER -> <<0, 0>>

stack_io(op) ==
    IF op \in Low THEN stack_io_low(op) ELSE IF op \in Middle THEN stack_io_middle(op) ELSE stack_io_high(op)

inputs(op) == stack_io(op)[1]
outputs(op) == stack_io(op)[2]
immediate_size(op) == IF op \in PUSH1..PUSH32 THEN op - PUSH1 + 1 ELSE 0
terminating(op) == op \in {STOP, RETURN, REVERT, INVALID, SELFDESTRUCT}
modifies_memory(op) ==
    op \in {\h3C, \h52, \h53, \h5E, \h39, \h37, \h3E, CALL, CALLCODE, DELEGATECALL, STATICCALL}

--------------------------------------------------------------------------------
(* The instructions: [pop, push, store, ends, since]: values taken and left,   *)
(* whether memory is written, whether the frame always ends, the first hard    *)
(* fork that has it.                                                           *)
Popn(n) == [pop |-> n, push |-> 0, store |-> FALSE, ends |-> FALSE, since |-> "FRONTIER"]
PopnTop(n) == [Popn(n + 1) EXCEPT !.push = 1]
Push == [Popn(0) EXCEPT !.push = 1]
Since(e, fork) == [e EXCEPT !.since = fork]
Storing(e) == [e EXCEPT !.store = TRUE]

arithmetic(op) == IF op \in {\h08, \h09} THEN PopnTop(2) ELSE PopnTop(1)

bitwise(op) ==
    CASE op \in {\h15, \h19} -> PopnTop(0)
      [] op \in \h1B..\h1D -> Since(PopnTop(1), "CONSTANTINOPLE")
      [] op = \h1E -> Since(PopnTop(0), "OSAKA")
      [] OTHER -> PopnTop(1)

system(op) ==
    CASE op = \h20 -> PopnTop(1)
      [] op = \h35 -> PopnTop(0)
      [] op \in {\h37, \h39} -> Storing(Popn(3))
      [] op = \h3D -> Since(Push, "BYZANTIUM")
      [] op = \h3E -> Since(Storing(Popn(3)), "BYZANTIUM")
      [] OTHER -> Push

block_info(op) ==
    CASE op = \h46 -> Since(Push, "ISTANBUL")
      [] op = \h48 -> Since(Push, "LONDON")
      [] op = \h4A -> Since(Push, "CANCUN")
      [] OTHER -> Push

tx_info(op) == IF op = \h49 THEN Since(PopnTop(0), "CANCUN") ELSE Push

host_account(op) ==
    CASE op = \h3C -> Storing(Popn(4))
      [] op = \h3F -> Since(PopnTop(0), "CONSTANTINOPLE")
      [] op = \h47 -> Since(Push, "ISTANBUL")
      [] OTHER -> PopnTop(0)
host_read(op) == PopnTop(0)

host_write(op) ==
    CASE op = \h55 -> Popn(2)
      [] op = \h5C -> Since(PopnTop(0), "CANCUN")
      [] op = \h5D -> Since(Popn(2), "CANCUN")
      [] op \in Logs -> Popn(2 + (op - \hA0))
      [] op = SELFDESTRUCT -> [Popn(1) EXCEPT !.ends = TRUE]

memory(op) ==
    CASE op = \h51 -> PopnTop(0)
      [] op \in {\h52, \h53} -> Storing(Popn(2))
      [] op = \h59 -> Push
      [] op = \h5E -> Since(Storing(Popn(3)), "CANCUN")

stack(op) ==
    CASE op = \h50 -> Popn(1)
      [] op = PUSH0 -> Since(Push, "SHANGHAI")
      [] op \in PUSH1..PUSH32 -> Push
      [] op \in Dups -> [Popn(op - \h7F) EXCEPT !.push = @ + (op - \h7F) + 1]
      [] op \in Swaps -> [Popn(op - \h8F + 1) EXCEPT !.push = op - \h8F + 1]

control(op) ==
    CASE op = STOP \/ op = INVALID -> [Popn(0) EXCEPT !.ends = TRUE]
      [] op = JUMP -> Popn(1)
      [] op = JUMPI -> Popn(2)
      [] op = PC -> Push
      [] op = JUMPDEST -> Popn(0)
      [] op \in {RETURN, REVERT} ->
            [Popn(2) EXCEPT !.ends = TRUE, !.since = IF op = REVERT THEN "BYZANTIUM" ELSE @]

(* mutant: the arguments of DELEGATECALL are those of CALL *)
contract_value(op) ==
    CASE op = CREATE -> [Popn(3) EXCEPT !.push = 1]
      [] op = CREATE2 -> Since([Popn(3 + 1) EXCEPT !.push = 1], "PETERSBURG")
      [] OTHER -> Storing([Popn(3 + 4) EXCEPT !.push = 1])

(* The four offsets and lengths are popped by get_memory_input_and_out_ranges; *)
(* the frame's outcome pushes the result and stores the returned bytes.        *)
contract(op) ==
    CASE op = CREATE -> [Popn(3) EXCEPT !.push = 1]
      [] op = CREATE2 -> Since([Popn(3 + 1) EXCEPT !.push = 1], "PETERSBURG")
      [] op \in {CALL, CALLCODE} -> Storing([Popn(3 + 4) EXCEPT !.push = 1])
      [] op = DELEGATECALL -> Since(Storing([Popn(2 + 4) EXCEPT !.push = 1]), "HOMESTEAD")
      [] op = STATICCALL -> Since(Storing([Popn(2 + 4) EXCEPT !.push = 1]), "BYZANTIUM")

(* instruction_table_impl: which function an opcode has; unknown for the rest *)
instruction_table(op) ==
    CASE op \in \h01..\h0B -> arithmetic(op)
      [] op \in \h10..\h1E -> bitwise(op)
      [] op \in {\h20, \h30, \h33, \h34, \h35, \h36, \h37, \h38, \h39, \h3D, \h3E, \h5A} -> system(op)
      [] op \in {\h31, \h3B, \h3C, \h3F, \h47} -> host_account(op)
      [] op \in {\h40, \h54} -> host_read(op)
      [] op \in {\h32, \h3A, \h49} -> tx_info(op)
      [] op \in {\h41, \h42, \h43, \h44, \h45, \h46, \h48, \h4A} -> block_info(op)
      [] op \in {\h51, \h52, \h53, \h59, \h5E} -> memory(op)
      [] op \in {\h55, \h5C, \h5D, SELFDESTRUCT} \cup Logs -> host_write(op)
      [] op \in {\h50} \cup (PUSH0..\h9F) -> stack(op)
      [] op \in {STOP, JUMP, JUMPI, PC, JUMPDEST, RETURN, REVERT, INVALID} -> control(op)
      [] op \in {CREATE, CALL, CALLCODE, DELEGATECALL, CREATE2, STATICCALL} -> contract(op)
      [] OTHER -> [Popn(0) EXCEPT !.ends = TRUE, !.since = "unknown"]

(* mutant: JUMPDEST does nothing, so it costs nothing *)
static_gas_jumpdest(op) ==
    CASE op \in {\h02, \h04, \h05, \h06, \h07, \h0B, \h1E, \h47} -> 5
      [] op \in {STOP, \h0A, \h20, \h31, \h37, \h39, \h3B, \h3C, \h3E, \h3F, \h54, \h55, \h5E, JUMPDEST} \cup Logs \cup High -> 0
      [] OTHER -> 3

(* the second argument of Instruction::new; 0 where the instruction charges *)
(* all of its gas itself                                                    *)
static_gas(op) ==
    CASE op \in {\h02, \h04, \h05, \h06, \h07, \h0B, \h1E, \h47} -> 5
      [] op \in {\h08, \h09, JUMP} -> 8
      [] op \in {\h01, \h03, \h35, \h49, \h51, \h52, \h53} \cup (\h10..\h1D) \cup (PUSH1..\h9F) -> 3
      [] op = \h40 -> 20
      [] op = JUMPI -> 10
      [] op = JUMPDEST -> 1
      [] op \in {\h5C, \h5D} -> 100
      [] op \in {\h30, \h32, \h33, \h34, \h36, \h38, \h3A, \h3D, \h41, \h42, \h43, \h44, \h45, \h46,
                 \h48, \h4A, \h50, PC, \h59, \h5A, PUSH0} -> 2
      [] OTHER -> 0

(* The part of the gas that balance, extcodesize, extcodehash and sload charge *)
(* before the account or slot is known to be cold, and after                   *)
access_gas(spec, op) ==
    CASE G!Enabled(spec, "BERLIN") -> G!WARM_STORAGE_READ_COST
      [] op = \h31 /\ ~G!Enabled(spec, "BERLIN") ->
            IF G!Enabled(spec, "ISTANBUL") THEN 700 ELSE IF G!Enabled(spec, "TANGERINE") THEN 400 ELSE 20
      [] op \in {\h3B, \h3C} /\ ~G!Enabled(spec, "BERLIN") -> IF G!Enabled(spec, "TANGERINE") THEN 700 ELSE 20
      [] op = \h3F /\ ~G!Enabled(spec, "BERLIN") -> IF G!Enabled(spec, "ISTANBUL") THEN 700 ELSE 400
      [] op = \h54 /\ ~G!Enabled(spec, "BERLIN") ->
            IF G!Enabled(spec, "ISTANBUL") THEN G!ISTANBUL_SLOAD_GAS
            ELSE IF G!Enabled(spec, "TANGERINE") THEN 200 ELSE 50

(* mutant: a cold slot costs its whole price on top of a warm read *)
cold_gas_whole(spec, op, cold) ==
    IF cold /\ G!Enabled(spec, "BERLIN")
    THEN (IF op = \h54 THEN G!COLD_SLOAD_COST ELSE G!COLD_ACCOUNT_ACCESS_COST) ELSE 0

cold_gas(spec, op, cold) ==
    IF cold /\ G!Enabled(spec, "BERLIN")
    THEN (IF op = \h54 THEN G!COLD_SLOAD_COST ELSE G!COLD_ACCOUNT_ACCESS_COST) - G!WARM_STORAGE_READ_COST ELSE 0

(* the least gas an instruction charges besides its static gas *)
dynamic_gas(spec, op) ==
    CASE op = \h0A -> G!exp_cost(spec, 0)
      [] op = \h20 -> G!keccak256_cost(0)
      [] op \in {\h37, \h39, \h3E, \h5E} -> G!copy_cost(G!VERYLOW, 0)
      [] op \in {\h31, \h3B, \h3C, \h3F, \h54} -> access_gas(spec, op)
      [] op = \h55 -> G!sstore_cost_static(spec)
      [] op \in Logs -> G!log_cost(op - \hA0, 0)
      [] op \in {CREATE, CREATE2} -> G!create2_cost(0)
      [] op \in {CALL, CALLCODE, DELEGATECALL, STATICCALL} -> G!calc_call_static_gas(spec, FALSE)
      [] OTHER -> 0

--------------------------------------------------------------------------------
(* The table that tools read (OPCODE_INFO) says of every byte what the         *)
(* interpreter's instruction for it does: whether it exists, how many stack    *)
(* items it takes and leaves, whether it ends the frame and whether it writes  *)
(* memory.                                                                     *)
TablesAgree(op) ==
    LET e == instruction_table(op) IN
    /\ op \in OPCODE_INFO <=> e.since # "unknown"
    /\ op \in OPCODE_INFO =>
          /\ <<inputs(op), outputs(op)>> = <<e.pop, e.push>>
          /\ terminating(op) <=> e.ends
          /\ modifies_memory(op) <=> e.store

(* Every instruction that lets the frame go on costs gas under every hard      *)
(* fork, so no program runs for ever.                                          *)
EveryStepCosts(spec, op) ==
    ~instruction_table(op).ends => static_gas(op) + dynamic_gas(spec, op) > 0

(* A load of a slot or an account charges in its two parts what the functions  *)
(* of calc.rs say it costs.                                                    *)
AccessPartsAddUp(spec, cold) ==
    /\ access_gas(spec, \h54) + cold_gas(spec, \h54, cold) = G!sload_cost(spec, cold)
    /\ access_gas(spec, \h3C) + cold_gas(spec, \h3C, cold) + G!copy_cost(0, 64)
          = G!extcodecopy_cost(spec, 64, cold)
    /\ G!calc_call_static_gas(spec, FALSE)
          + G!load_account_cost(spec, FALSE, FALSE,
                [cold |-> cold, empty |-> FALSE, delegated |-> FALSE, delegateCold |-> FALSE])
          = access_gas(spec, \h3C) + cold_gas(spec, \h3C, cold) + (IF G!Enabled(spec, "TANGERINE") THEN 0 ELSE 20)

==============================================================================
