------------------------------ MODULE MCInterp ------------------------------
(* Instances of Interp for TLC: words of two bytes and gas costs scaled down *)
(* so that a few words exhaust a frame.                                      *)
EXTENDS Interp

MCRanges == {<<0, 0>>, <<1, 2>>, <<Big, 1>>, <<UsizeMax, 1>>}
MCMoves == {<<0, 1, 1>>, <<1, 0, 2>>, <<Big, Big, 0>>, <<0, UsizeMax, 1>>}
MCCallRanges == {<<<<Big, 0>>, <<0, 2>>>>, <<<<1, 1>>, <<Big, 0>>>>, <<<<0, 1>>, <<1, 2>>>>, <<<<0, 0>>, <<0, Big>>>>}
MCTransactions == {[limit |-> 8, initial |-> 1, floor |-> 5, auth |-> 1]}
==============================================================================
