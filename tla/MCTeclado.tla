----------------------------- MODULE MCTeclado -----------------------------
(* Small instances of Teclado for TLC.                                     *)
EXTENDS Teclado

MCSinDormir == {}
MCSegundoCero == {0}
MCLecturas == {1, 2}
MCUna == {1}
MCSoloNormal == {PRIORIDAD_NORMAL}
MCSoloAlta == {PRIORIDAD_ALTA}
=============================================================================
