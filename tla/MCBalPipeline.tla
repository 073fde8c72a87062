---------------------------- MODULE MCBalPipeline -----------------------------
(***************************************************************************)
(* An instance of BalPipeline: one account, which may not exist or be a    *)
(* contract with a slot set, in one block of two transactions or two       *)
(* blocks of one.                                                          *)
(***************************************************************************)
EXTENDS BalPipeline

MCFields == {"balance", "code"}

MCAccount(balance, code, value) ==
    [info |-> [f \in MCFields |-> IF f = "balance" THEN balance ELSE code],
     storage |-> [k \in Slots |-> value]]

MCGenesis ==
    {[a \in Addrs |-> account] : account \in {MCAccount(0, 0, 0), MCAccount(1, 1, 1)}}

MCShapes == {<<2>>, <<1, 1>>}

===============================================================================
