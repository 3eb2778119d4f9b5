------------------------------ MODULE ColasBCP ------------------------------
(***************************************************************************)
(* What the list functions of ListaBCP_Planificador.c promise: a few       *)
(* queues of processes, FIFO or in order of waking up, each process in one *)
(* queue at most.                                                          *)
(***************************************************************************)
EXTENDS ListaBCP

CONSTANTS Procesos, Fifos, Ordenadas, Instantes

Listas == Fifos \cup Ordenadas

VARIABLES contenido, ticksDespertar

vars == <<contenido, ticksDespertar>>

Init ==
    /\ contenido = [l \in Listas |-> <<>>]
    /\ ticksDespertar \in [Procesos -> Instantes]

(* The process is in no list: what the kernel guarantees to its callers.   *)
Suelto(p) == \A l \in Listas : p \notin ToSet(contenido[l])

InsertarUltimo(l, p) ==
    /\ Suelto(p)
    /\ contenido' = [contenido EXCEPT ![l] = Append(@, p)]
    /\ UNCHANGED ticksDespertar

InsertarEnOrden(l, p, t) ==
    /\ Suelto(p)
    /\ ticksDespertar' = [ticksDespertar EXCEPT ![p] = t]
    /\ contenido' = [contenido EXCEPT ![l] = InsertarOrdenado(@, p, ticksDespertar')]

EliminarPrimero(l) ==
    /\ contenido[l] # <<>>
    /\ contenido' = [contenido EXCEPT ![l] = Tail(@)]
    /\ UNCHANGED ticksDespertar

Next ==
    \/ \E l \in Fifos, p \in Procesos : InsertarUltimo(l, p)
    \/ \E l \in Ordenadas, p \in Procesos, t \in Instantes : InsertarEnOrden(l, p, t)
    \/ \E l \in Listas : EliminarPrimero(l)

Spec == Init /\ [][Next]_vars
=============================================================================
