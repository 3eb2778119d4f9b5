------------------------------ MODULE MCNucleo ------------------------------
(* Small instances of Nucleo for TLC.                                      *)
EXTENDS Nucleo

MCSegundoCero == {0}
MCSegundos == {0, 1}
MCSoloNormal == {PRIORIDAD_NORMAL}
MCAmbas == {PRIORIDAD_NORMAL, PRIORIDAD_ALTA}
=============================================================================
