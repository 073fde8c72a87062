------------------------------- MODULE Inspect -------------------------------
(***************************************************************************)
(* Inspected execution: InspectorHandler's loop over the frames of a          *)
(* transaction, which tells an Inspector of every frame and instruction.      *)
(* Three inspectors listen, chained as the pairs of inspector.rs chain them:  *)
(* CountInspector, TracerEip3155, and one that may answer a call itself or    *)
(* end a frame, placed before the other two or after them.                    *)
(*                                                                         *)
(* A frame input is [kind, gas]; a frame result [kind, class, gas], whose      *)
(* class is that of its InstructionResult.                                  *)
(***************************************************************************)
EXTENDS Integers, Sequences, FiniteSets

CONSTANTS InitialGas,   \* initial_gas of every transaction
          DepositGas,   \* what storing the code of a created contract costs
          MaxFrames     \* CALL_STACK_LIMIT, scaled down

VARIABLES exec,         \* the execution loop, its frame stack and the journal's depth
          count,        \* CountInspector
          tracer        \* TracerEip3155 and what it has written

tracevars == <<exec, count, tracer>>

Kinds == {"call", "create"}
Classes == {"ok", "revert", "error"}
End(kind) == IF kind = "call" THEN "call_end" ELSE "create_end"
Hooks == {"initialize_interp", "step", "step_end", "log", "call", "call_end", "create", "create_end",
          "selfdestruct"}

Unstarted ==
    [loop |-> "off", txs |-> <<>>, first |-> FALSE, tx |-> [kind |-> "call", gas |-> 0],
     input |-> [kind |-> "call", gas |-> 0], frames |-> <<>>, finished |-> FALSE,
     result |-> [kind |-> "call", class |-> "ok", gas |-> 0], depth |-> 0, error |-> FALSE,
     \* history: whether the outermost frame ran code, how many transactions reached their result,
     \* and the hooks that an override, an error or a stop kept from the inspectors
     ran |-> FALSE, ended |-> 0, missed |-> [h \in Kinds |-> 0],
     lost |-> [h \in Kinds |-> 0], halted |-> 0]
NewCount == [h \in Hooks |-> 0]
NewTracer == [gas_remaining |-> 0, last_gas_cost |-> 0, summaries |-> 0, gas_used |-> 0]
Untraced == exec = Unstarted /\ count = NewCount /\ tracer = NewTracer

Counted(hooks) == count' = [h \in Hooks |-> count[h] + (IF h \in hooks THEN 1 ELSE 0)]
Top == exec.frames[Len(exec.frames)]
FramesOf(kind, frames) == Cardinality({i \in DOMAIN frames : frames[i].kind = kind})

-----------------------------------------------------------------------------
(* TracerEip3155 and its GasInspector *)

initialize_interp(t, limit) == [t EXCEPT !.gas_remaining = limit]
(* step notes the gas before the instruction; step_end writes a line with what it cost *)
stepped(t, before, after) ==
    [t EXCEPT !.gas_remaining = after, !.last_gas_cost = IF before > after THEN before - after ELSE 0]
clear(t) == [t EXCEPT !.gas_remaining = 0, !.last_gas_cost = 0]

spent(result) == IF result.class = "error" THEN [result EXCEPT !.gas = 0] ELSE result

(* the summary of a failed frame is written before the gas of the failure is taken *)
ended_early(t, result, depth) ==
    IF depth # 0 THEN IF result.class = "error" THEN [t EXCEPT !.gas_remaining = 0] ELSE t
    ELSE clear([t EXCEPT !.summaries = @ + 1, !.gas_used = exec.tx.gas - t.gas_remaining])
(* call_end and create_end: a summary when the journal is back at depth 0 *)
ended(t, result, depth) ==
    LET remaining == IF result.class = "error" THEN 0 ELSE t.gas_remaining IN
    IF depth # 0 THEN [t EXCEPT !.gas_remaining = remaining]
    ELSE clear([t EXCEPT !.summaries = @ + 1, !.gas_used = exec.tx.gas - remaining])

-----------------------------------------------------------------------------
(* the transaction *)

Trace(txs, first) ==
    /\ exec' = [Unstarted EXCEPT !.loop = "idle", !.txs = txs, !.first = first]
    /\ UNCHANGED <<count, tracer>>

Catch(e) ==
    [e EXCEPT !.loop = "idle", !.frames = <<>>, !.finished = FALSE, !.depth = 0, !.error = FALSE,
              !.lost = [k \in Kinds |-> @[k] + FramesOf(k, e.frames)]]

(* validate, pre_execution and first_frame_input, none of which the inspectors see *)
InspectOneTx ==
    /\ exec.loop = "idle" /\ exec.txs # <<>>
    /\ LET tx == Head(exec.txs) IN
       exec' = [exec EXCEPT !.loop = "init", !.txs = Tail(@), !.tx = tx, !.ran = FALSE,
                            !.input = [kind |-> tx.kind, gas |-> tx.gas - InitialGas]]
    /\ UNCHANGED <<count, tracer>>

Invalid ==
    /\ exec.loop = "idle" /\ exec.txs # <<>>
    /\ exec' = [exec EXCEPT !.txs = Tail(@)]
    /\ UNCHANGED <<count, tracer>>

(* last_frame_result, post_execution and execution_result, which hands on the context's error *)
ExecutionResult ==
    /\ exec.loop = "done"
    /\ exec' = IF exec.error THEN [Catch(exec) EXCEPT !.ended = @ + 1]
               ELSE [exec EXCEPT !.loop = "idle", !.ended = @ + 1]
    /\ UNCHANGED <<count, tracer>>

-----------------------------------------------------------------------------
(* inspect_frame_init *)

(* what follows an outcome that made no frame: frame_end, and no frame to pop *)
NoFrame(result, e, hooks) ==
    /\ exec' = [e EXCEPT !.loop = "return", !.finished = FALSE, !.result = spent(result)]
    /\ Counted(hooks \cup {End(exec.input.kind)})
    /\ tracer' = ended(tracer, result, exec.depth)

(* frame_start is answered by the third inspector; the ones behind it are not asked *)
Overridden(class, gas) ==
    /\ exec.loop = "init" /\ gas <= exec.input.gas
    /\ NoFrame([kind |-> exec.input.kind, class |-> class, gas |-> gas],
               IF exec.first THEN [exec EXCEPT !.missed[exec.input.kind] = @ + 1] ELSE exec,
               IF exec.first THEN {} ELSE {exec.input.kind})

(* frame_init ends at once: too deep, out of funds, a precompile, no code, a collision *)
Immediate(class, gas) ==
    /\ exec.loop = "init" /\ gas <= exec.input.gas
    /\ Len(exec.frames) >= MaxFrames => class = "revert" /\ gas = exec.input.gas
    /\ NoFrame([kind |-> exec.input.kind, class |-> class, gas |-> gas], exec, {exec.input.kind})

(* the database fails in frame_init *)
InitFails ==
    /\ exec.loop = "init" /\ Len(exec.frames) < MaxFrames
    /\ exec' = [Catch(exec) EXCEPT !.lost[exec.input.kind] = @ + 1]
    /\ Counted({exec.input.kind}) /\ UNCHANGED tracer

NewFrame ==
    /\ exec.loop = "init" /\ Len(exec.frames) < MaxFrames
    /\ exec' = [exec EXCEPT !.loop = "run", !.frames = Append(@, exec.input), !.depth = @ + 1, !.ran = TRUE]
    /\ Counted({exec.input.kind, "initialize_interp"})
    /\ tracer' = initialize_interp(tracer, exec.input.gas)

-----------------------------------------------------------------------------
(* inspect_frame_run *)

(* frame_end is given the frame before its checkpoint is closed *)
FrameEnds_open(class, gas, hooks, t, e) ==
    LET kind == Top.kind
        result == [kind |-> kind, class |-> class, gas |-> gas] IN
    /\ exec' = [e EXCEPT !.loop = "return", !.finished = TRUE, !.result = spent(result), !.depth = @ - 1]
    /\ Counted(hooks \cup {End(kind)})
    /\ tracer' = ended(t, result, exec.depth)

(* process_next_action closes the checkpoint and charges for created code, then frame_end *)
FrameEnds(class, gas, hooks, t, e) ==
    LET kind == Top.kind
        deposit == kind = "create" /\ class = "ok"
        result == [kind |-> kind, gas |-> IF deposit /\ gas >= DepositGas THEN gas - DepositGas ELSE gas,
                   class |-> IF deposit /\ gas < DepositGas THEN "error" ELSE class] IN
    /\ exec' = [e EXCEPT !.loop = "return", !.finished = TRUE, !.result = spent(result), !.depth = @ - 1]
    /\ Counted(hooks \cup {End(kind)})
    /\ tracer' = ended(t, result, exec.depth - 1)

(* an instruction that costs 1 and goes on: a log is shown unless the instruction failed *)
Instruction(logs) ==
    /\ exec.loop = "run"
    /\ IF Top.gas = 0
       THEN FrameEnds("error", 0, {"step", "step_end"}, stepped(tracer, 0, 0), exec)
       ELSE /\ exec' = [exec EXCEPT !.frames[Len(exec.frames)].gas = @ - 1]
            /\ Counted({"step", "step_end"} \cup (IF logs THEN {"log"} ELSE {}))
            /\ tracer' = stepped(tracer, Top.gas, Top.gas - 1)

(* CALL or CREATE: the gas handed on is part of what the line says it cost *)
Calls(kind, gas) ==
    /\ exec.loop = "run" /\ gas < Top.gas
    /\ exec' = [exec EXCEPT !.loop = "init", !.input = [kind |-> kind, gas |-> gas],
                            !.frames[Len(exec.frames)].gas = @ - 1 - gas]
    /\ Counted({"step", "step_end"})
    /\ tracer' = stepped(tracer, Top.gas, Top.gas - 1 - gas)

(* STOP, RETURN, REVERT, an invalid opcode, or the database failing under an instruction *)
Returns(class, fatal) ==
    /\ exec.loop = "run" /\ (fatal => class = "error")
    /\ FrameEnds(class, Top.gas, {"step", "step_end"}, stepped(tracer, Top.gas, Top.gas),
                 [exec EXCEPT !.error = fatal])

(* SELFDESTRUCT is told of when the last journal entry is one of a transfer or a destruction *)
SelfDestructs(entry) ==
    /\ exec.loop = "run"
    /\ FrameEnds("ok", Top.gas, {"step", "step_end"} \cup (IF entry THEN {"selfdestruct"} ELSE {}),
                 stepped(tracer, Top.gas, Top.gas), exec)

(* an inspector sets the action in step, so that the instruction is not executed *)
Halted(class) ==
    /\ exec.loop = "run"
    /\ FrameEnds(class, Top.gas, {"step"}, [tracer EXCEPT !.gas_remaining = Top.gas],
                 [exec EXCEPT !.halted = @ + 1])

-----------------------------------------------------------------------------
(* the frame of a result that made none is popped too *)
ReturnResult_popped ==
    /\ exec.loop = "return"
    /\ LET frames == IF exec.frames = <<>> THEN <<>> ELSE SubSeq(exec.frames, 1, Len(exec.frames) - 1)
           back == IF exec.result.class = "error" THEN 0 ELSE exec.result.gas IN
       exec' = IF frames = <<>> THEN [exec EXCEPT !.loop = "done", !.frames = <<>>, !.finished = FALSE]
               ELSE [exec EXCEPT !.loop = "run", !.finished = FALSE,
                                 !.frames = [frames EXCEPT ![Len(frames)].gas = @ + back]]
    /\ UNCHANGED <<count, tracer>>

(* frame_return_result: pops a finished frame and gives its caller the result *)
ReturnResult ==
    /\ exec.loop = "return"
    /\ LET frames == IF exec.finished THEN SubSeq(exec.frames, 1, Len(exec.frames) - 1) ELSE exec.frames
           back == IF exec.result.class = "error" THEN 0 ELSE exec.result.gas
           e == [exec EXCEPT !.frames = frames, !.finished = FALSE] IN
       exec' = CASE frames = <<>> -> [e EXCEPT !.loop = "done"]
                 [] frames # <<>> /\ exec.error -> Catch(e)
                 [] OTHER -> [e EXCEPT !.loop = "run", !.frames[Len(frames)].gas = @ + back]
    /\ UNCHANGED <<count, tracer>>

TraceStep ==
    \/ InspectOneTx \/ Invalid \/ ExecutionResult \/ InitFails \/ NewFrame \/ ReturnResult
    \/ \E class \in Classes, gas \in 0..exec.input.gas : Overridden(class, gas) \/ Immediate(class, gas)
    \/ \E b \in BOOLEAN : Instruction(b) \/ SelfDestructs(b) \/ \E class \in Classes : Returns(class, b)
    \/ \E kind \in Kinds, gas \in 0..exec.tx.gas : Calls(kind, gas)
    \/ \E class \in Classes : Halted(class)

TraceFairness == WF_tracevars(TraceStep)

-----------------------------------------------------------------------------
Ended(kind) == IF exec.finished /\ Top.kind = kind THEN 1 ELSE 0

(* Every call and every create an inspector is told of is told to end once, when   *)
(* its frame does, and every instruction begun is ended; but for frames given up    *)
(* with a failed transaction, instructions an inspector stopped, and frames that    *)
(* an inspector before it answered: inspector.rs asks no further inspector then,     *)
(* and still tells them all of the end.                                             *)
HooksPaired ==
    /\ \A kind \in Kinds :
          count[kind] + exec.missed[kind]
              = count[End(kind)] + FramesOf(kind, exec.frames) - Ended(kind) + exec.lost[kind]
    /\ count["step"] = count["step_end"] + exec.halted

(* The journal's depth, which the tracer writes on each line and by which it knows   *)
(* the end of the transaction, is the number of frames that have not ended.         *)
DepthIsFrames ==
    exec.depth = Len(exec.frames) - (IF exec.finished THEN 1 ELSE 0)

(* Each transaction that gets to its result has one summary, after which the tracer   *)
(* is as new, so that nothing of it is in the next; and for a call that ran code the  *)
(* summary's gas is what the execution left of the transaction's limit.              *)
SummaryOfTx ==
    exec.loop \in {"idle", "done"} =>
        /\ tracer.summaries = exec.ended + (IF exec.loop = "done" THEN 1 ELSE 0)
        /\ exec.loop = "done" => tracer.gas_remaining = 0 /\ tracer.last_gas_cost = 0
        /\ exec.loop = "done" /\ exec.ran /\ exec.tx.kind = "call" =>
              tracer.gas_used = exec.tx.gas - exec.result.gas

(* evm --trace, and every inspected transaction: the hooks come in pairs, the depth   *)
(* the tracer goes by is that of the frames, and it writes one summary, which is true, *)
(* for each transaction that gets to its result (traits.rs, handler.rs, eip3155.rs).   *)
TraceIsTrue == HooksPaired /\ DepthIsFrames /\ SummaryOfTx

(* Every inspected transaction has come to a result or an error. *)
TraceEnded == exec.loop = "idle" /\ exec.txs = <<>>

===============================================================================
