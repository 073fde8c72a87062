-------------------------------- MODULE Results --------------------------------
(***************************************************************************)
(* What an execution ends with, and what becomes of it: the result of the     *)
(* last instruction, its class, the reason the caller of the EVM is given,     *)
(* and the result of the transaction.  A value of an enum is its name.        *)
(***************************************************************************)
EXTENDS Naturals, FiniteSets

return_ok == {"Stop", "Return", "SelfDestruct"}
return_revert ==
    {"Revert", "CallTooDeep", "OutOfFunds", "InvalidEOFInitCode",
     "CreateInitCodeStartingEF00", "InvalidExtDelegateCallTarget"}
OutOfGasResults ==
    {"OutOfGas", "MemoryOOG", "MemoryLimitOOG", "PrecompileOOG", "InvalidOperandOOG",
     "ReentrancySentryOOG"}
return_error ==
    OutOfGasResults \cup
    {"OpcodeNotFound", "CallNotAllowedInsideStatic", "StateChangeDuringStaticCall",
     "InvalidFEOpcode", "InvalidJump", "NotActivated", "StackUnderflow", "StackOverflow",
     "OutOfOffset", "CreateCollision", "OverflowPayment", "PrecompileError",
     "NonceOverflow", "CreateContractSizeLimit", "CreateContractStartingWithEF",
     "CreateInitCodeSizeLimit", "FatalExternalError"}
InstructionResult == return_ok \cup return_revert \cup return_error

is_ok(r) == r \in return_ok
is_revert(r) == r \in return_revert
is_error(r) == r \in return_error
is_ok_or_revert(r) == r \in return_ok \cup return_revert

(* HaltReason: its name, and for OutOfGas which of them *)
Reason(name) == [name |-> name, oog |-> "none"]
OutOfGasReason(error) == [name |-> "OutOfGas", oog |-> error]
OutOfGasErrors ==
    {"Basic", "MemoryLimit", "Memory", "Precompile", "InvalidOperand", "ReentrancySentry"}
PlainReasons ==
    {"OpcodeNotFound", "InvalidFEOpcode", "InvalidJump", "NotActivated", "StackUnderflow",
     "StackOverflow", "OutOfOffset", "CreateCollision", "PrecompileError",
     "PrecompileErrorWithContext", "NonceOverflow", "CreateContractSizeLimit",
     "CreateContractStartingWithEF", "CreateInitCodeSizeLimit", "OverflowPayment",
     "StateChangeDuringStaticCall", "CallNotAllowedInsideStatic", "OutOfFunds",
     "CallTooDeep"}
HaltReason == {OutOfGasReason(e) : e \in OutOfGasErrors} \cup {Reason(n) : n \in PlainReasons}

(* InstructionResult from HaltReason, SuccessReason and TransferError; the two   *)
(* last have the names of the results                                         *)
from_halt_reason(h) ==
    CASE h = OutOfGasReason("Basic") -> "OutOfGas"
      [] h = OutOfGasReason("InvalidOperand") -> "InvalidOperandOOG"
      [] h = OutOfGasReason("Memory") -> "MemoryOOG"
      [] h = OutOfGasReason("MemoryLimit") -> "MemoryLimitOOG"
      [] h = OutOfGasReason("Precompile") -> "PrecompileOOG"
      [] h = OutOfGasReason("ReentrancySentry") -> "ReentrancySentryOOG"
      [] h.name = "PrecompileErrorWithContext" -> "PrecompileError"
      [] OTHER -> h.name
TransferErrors == {"OutOfFunds", "OverflowPayment", "CreateCollision"}
from_transfer_error(e) == e

(* SuccessOrHalt from InstructionResult *)
Outcome(class, reason) == [class |-> class, reason |-> reason]
(* the memory limit reported as the cost of memory *)
success_or_halt_memory(r) ==
    IF r \in {"MemoryLimitOOG", "MemoryOOG"} THEN Outcome("Halt", OutOfGasReason("Memory"))
    ELSE IF is_ok(r) THEN Outcome("Success", Reason(r))
    ELSE IF is_revert(r) THEN Outcome("Revert", Reason("none"))
    ELSE IF r = "FatalExternalError" THEN Outcome("FatalExternalError", Reason("none"))
    ELSE Outcome("Halt", IF r = "OutOfGas" THEN OutOfGasReason("Basic") ELSE Reason(r))
success_or_halt(r) ==
    CASE r \in return_ok -> Outcome("Success", Reason(r))
      [] r \in {"Revert", "CreateInitCodeStartingEF00", "InvalidEOFInitCode"} ->
            Outcome("Revert", Reason("none"))
      [] r = "OutOfGas" -> Outcome("Halt", OutOfGasReason("Basic"))
      [] r = "MemoryLimitOOG" -> Outcome("Halt", OutOfGasReason("MemoryLimit"))
      [] r = "MemoryOOG" -> Outcome("Halt", OutOfGasReason("Memory"))
      [] r = "PrecompileOOG" -> Outcome("Halt", OutOfGasReason("Precompile"))
      [] r = "InvalidOperandOOG" -> Outcome("Halt", OutOfGasReason("InvalidOperand"))
      [] r = "ReentrancySentryOOG" -> Outcome("Halt", OutOfGasReason("ReentrancySentry"))
      [] r = "FatalExternalError" -> Outcome("FatalExternalError", Reason("none"))
      [] r = "InvalidExtDelegateCallTarget" -> Outcome("Internal", Reason("none"))
      [] OTHER -> Outcome("Halt", Reason(r))
is_halt(o) == o.class = "Halt"

-----------------------------------------------------------------------------
(* The settled gas of a transaction, and its result.  Gas: limit, what remains  *)
(* and the refund.                                                            *)

erase_cost(g, n) == [g EXCEPT !.remaining = @ + n]
record_refund(g, n) == [g EXCEPT !.refunded = @ + n]
spent(g) == g.limit - g.remaining
used(g) == spent(g) - g.refunded

(* Handler::last_frame_result *)
last_frame_result(r, limit, remaining, refunded) ==
    LET all == [limit |-> limit, remaining |-> 0, refunded |-> 0]
        back == IF is_ok_or_revert(r) THEN erase_cost(all, remaining) ELSE all
    IN  IF is_ok(r) THEN record_refund(back, refunded) ELSE back

set_final_refund(g, is_london) ==
    LET quotient == spent(g) \div (IF is_london THEN 5 ELSE 2)
    IN  [g EXCEPT !.refunded = IF @ > quotient THEN quotient ELSE @]
refund(g, is_london, eip7702_refund) ==
    set_final_refund(record_refund(g, eip7702_refund), is_london)

(* the refund kept when the floor is paid *)
eip7623_floor_refunded(g, floor_gas) ==
    IF used(g) < floor_gas THEN [g EXCEPT !.remaining = g.limit - floor_gas] ELSE g
eip7623_check_gas_floor(g, floor_gas) ==
    IF used(g) < floor_gas
    THEN [g EXCEPT !.remaining = g.limit - floor_gas, !.refunded = 0]
    ELSE g

(* post_execution::output; message: the context of a failed precompile is stored *)
output(r, g, message) ==
    LET o == success_or_halt(r)
    IN  [class |-> o.class, gas_used |-> used(g), gas_refunded |-> g.refunded,
         reason |-> IF r = "PrecompileError" /\ message
                    THEN Reason("PrecompileErrorWithContext") ELSE o.reason]

(* ExecutionResult: what a caller reads of the result *)
has_output(res) == res.class \in {"Success", "Revert"}
has_logs(res) == res.class = "Success"

-----------------------------------------------------------------------------
(* A reason survives: the reason a halted transaction is reported with is, read  *)
(* back as the result of an instruction, the result the interpreter ended with,  *)
(* and every reason is the report of some result (a precompile's message is       *)
(* dropped on the way back).                                                    *)
ReasonsSurvive(r, h) ==
    /\ is_halt(success_or_halt(r)) => from_halt_reason(success_or_halt(r).reason) = r
    /\ LET back == from_halt_reason(h)
       IN  /\ back \in InstructionResult
           /\ h # Reason("PrecompileErrorWithContext") =>
                  success_or_halt(back) = Outcome("Halt", h)
    /\ \A e \in TransferErrors : is_halt(success_or_halt(from_transfer_error(e)))

(* The class the handler settles the gas by (ok, revert, error) and the class the *)
(* transaction is reported with agree: a success keeps its refunds and its logs,   *)
(* a halt that is an error has no gas left whatever remained, and the gas used is   *)
(* never under the floor and never over the limit.                               *)
ClassesSettleAlike(r, limit, remaining, refunded, floor_gas, is_london) ==
    LET g == eip7623_check_gas_floor(
                 refund(last_frame_result(r, limit, remaining, refunded), is_london, 0),
                 floor_gas)
        res == output(r, g, FALSE)
    IN  /\ is_ok(r) <=> res.class = "Success"
        /\ Cardinality({c \in {return_ok, return_revert, return_error} : r \in c}) = 1
        /\ is_error(r) => res.class \in {"Halt", "FatalExternalError"} /\ res.gas_used = limit
        /\ is_revert(r) => res.gas_refunded = 0
        /\ floor_gas <= limit => res.gas_used \in floor_gas..limit
        /\ res.gas_refunded <= res.gas_used
        /\ has_logs(res) => has_output(res)

===============================================================================
