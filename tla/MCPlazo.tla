------------------------------- MODULE MCPlazo ------------------------------
(* Small instances of PlazoSleep for TLC.                                  *)
EXTENDS PlazoSleep

MCSegundoUno == {0, 1}
MCSegundos == {0, 1, 2}
MCSoloNormal == {PRIORIDAD_NORMAL}
MCAmbas == {PRIORIDAD_NORMAL, PRIORIDAD_ALTA}
=============================================================================
