------------------------------ MODULE MCBytecode ------------------------------
(***************************************************************************)
(* Every code of up to four bytes over an alphabet with jumps, pushes of     *)
(* one to three bytes, DUP, SWAP, an unknown byte and the small numbers that *)
(* are jump targets when they are pushed, longer codes over a smaller one,   *)
(* and byte strings around the form of a delegation (scaled to 4 bytes).     *)
(***************************************************************************)
EXTENDS Bytecode

Alphabet == {STOP, SUB, JUMP, JUMPI, JUMPDEST, PUSH1, PUSH1 + 1, PUSH1 + 2, \h81, \h91, \h50}
Small == {STOP, SUB, JUMP, JUMPDEST, PUSH1, PC}
Prefixed == {<<\hEF, 1>>} \X UNION {[1..n -> {0, 1}] : n \in 0..3}

MCCodes ==
    {<<>>, <<INVALID>>, <<PUSH0>>, <<\h0C>>, <<\hEF>>, <<\hEF, 0, 0, 0>>}
        \cup UNION {[1..n -> Alphabet] : n \in 1..4} \cup [1..5 -> Small]
        \cup {p[1] \o p[2] : p \in Prefixed}

MCForks == {G!Fork("MERGE"), G!Fork("CANCUN")}

==============================================================================
