------------------------------ MODULE MCCadena ------------------------------
(* Small instance of CadenaMontaje for TLC: a file that ends in the middle *)
(* of a block, one that fills its blocks, and one longer than the queues.  *)
EXTENDS CadenaMontaje

MCEntradas == { <<"A">>, <<"A", "b">>, <<"A", "b", "C", "B", "c">> }
MCMinuscula == [A |-> "a", B |-> "b", C |-> "c", a |-> "a", b |-> "b", c |-> "c"]
=============================================================================
