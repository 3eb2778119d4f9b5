-------------------------- MODULE MCListaEnlazada ---------------------------
(* Small instances of ListaEnlazada for TLC.                               *)
EXTENDS ListaEnlazada

MCInstantes == 1 .. 2
=============================================================================
