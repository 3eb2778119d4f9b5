----------------------------- MODULE PlazoSleep -----------------------------
(***************************************************************************)
(* Nucleo with a history variable: how many clock interrupts each sleeper  *)
(* still has to see before the time it asked for has gone by.  It counts   *)
(* interrupts, so it does not wrap around when ticks does.                 *)
(***************************************************************************)
EXTENDS Nucleo

VARIABLE plazo

InitPlazo == Init /\ plazo = [p \in Procesos |-> 0]

NextPlazo ==
    \/ /\ InterrupcionReloj
       /\ plazo' = [p \in Procesos |-> IF plazo[p] = 0 THEN 0 ELSE plazo[p] - 1]
    \/ \E s \in Segundos : /\ Sleep(s)
                           /\ plazo' = [plazo EXCEPT ![procesoActual] = s * TICK]
    \/ /\ \/ EntrarSW \/ ObtenerTarea \/ SalirSW \/ Tareas \/ FinEspera
          \/ \E pri \in PrioridadesCreadas : CrearProceso(pri)
          \/ TerminarProceso \/ Apagar \/ FinSleep \/ Apagado
       /\ UNCHANGED plazo

SpecPlazo == InitPlazo /\ [][NextPlazo]_<<vars, plazo>>

(***************************************************************************)
(* sis_sleep computes "los ticks (limite) hasta los que debe dormir el     *)
(* proceso": a process is not woken before it has slept the time it asked. *)
(***************************************************************************)
DuermeSuPlazo ==
    [][\A p \in Esperando : p \notin ToSet(listaDurmiendo') => plazo[p] = 0]_<<vars, plazo>>
=============================================================================
