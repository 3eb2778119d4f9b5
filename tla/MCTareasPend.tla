---------------------------- MODULE MCTareasPend ----------------------------
(* Small instances of TareasPend for TLC.                                  *)
EXTENDS TareasPend
=============================================================================
