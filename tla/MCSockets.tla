----------------------------- MODULE MCSockets -----------------------------
(* Small instances of Sockets for TLC: a file of one block, whose chars    *)
(* add less than zero; one whose last block is empty; and one whose last   *)
(* block takes from the total, which stays over zero.                      *)
EXTENDS Sockets

MCClientes == 1 .. 2
MCFicheros == { <<-1>>, <<1, 2>>, <<2, 2, -1>> }
MCLetras == {2}
MCHashes == {0}   \* that of the second and of the third
=============================================================================
