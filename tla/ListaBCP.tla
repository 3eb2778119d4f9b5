------------------------------ MODULE ListaBCP ------------------------------
(***************************************************************************)
(* The process lists of nucleoBasico/ListaBCP_Planificador.c as sequences  *)
(* of process numbers: Head is lista->primero, the last element is         *)
(* lista->ultimo.  Every BCP has one single link (siguiente), so the       *)
(* sequence view is right as long as no process is in two lists at once:   *)
(* that is the invariant Particion of Nucleo.  The module ListaEnlazada    *)
(* keeps the pointers and is proved to implement these operators.          *)
(***************************************************************************)
EXTENDS Integers, SequencesExt

CONSTANTS PRIORIDAD_NORMAL, PRIORIDAD_ALTA, NULL

Prioridades == {PRIORIDAD_NORMAL, PRIORIDAD_ALTA}

ASSUME PrioridadesAssumption == PRIORIDAD_NORMAL # PRIORIDAD_ALTA

-----------------------------------------------------------------------------
(* Mutant: the sleeper is put at the end, whenever it wakes up.            *)
InsertarDesordenado(lista, p, ticksDespertar) == Append(lista, p)

(* insertarOrdenadoListaBCP: the process goes before the first one that    *)
(* wakes up later than it, so that equal wake-up times keep their order of *)
(* arrival.                                                                *)
InsertarOrdenado(lista, p, ticksDespertar) ==
    LET k == SelectInSeq(lista, LAMBDA q : ticksDespertar[q] > ticksDespertar[p])
    IN  IF k = 0 THEN Append(lista, p) ELSE InsertAt(lista, k, p)

(***************************************************************************)
(* The two ready queues are kept together: listos[PRIORIDAD_ALTA] is       *)
(* listaPrioridad and listos[PRIORIDAD_NORMAL] is listaListos.             *)
(***************************************************************************)

(* Mutant: the process is put at the head of its queue.                    *)
InsertarAlPrincipio(listos, nivel, p) == [listos EXCEPT ![nivel] = <<p>> \o @]

(* insertarListaListos, insertarListaListosAltaPrioridad.                  *)
InsertarListos(listos, nivel, p) == [listos EXCEPT ![nivel] = Append(@, p)]

(* The queue planificador takes from: the high-priority one unless empty.  *)
NivelElegido(listos) ==
    IF listos[PRIORIDAD_ALTA] # <<>> THEN PRIORIDAD_ALTA ELSE PRIORIDAD_NORMAL

(* planificador: the process it returns, NULL when nobody is ready.        *)
Planificador(listos) ==
    LET cola == listos[NivelElegido(listos)]
    IN  IF cola = <<>> THEN NULL ELSE Head(cola)

(* planificador: the queues it leaves behind when it returns a process.    *)
SinElegido(listos) == [listos EXCEPT ![NivelElegido(listos)] = Tail(@)]
=============================================================================
