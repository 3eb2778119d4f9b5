--------------------------- MODULE ListaEnlazada ----------------------------
(***************************************************************************)
(* The lists of BCPs with their pointers: a header with primero and ultimo *)
(* per list, and one link siguiente inside each BCP that all the lists     *)
(* share.  The links of the processes taken out are left as they were.     *)
(***************************************************************************)
EXTENDS Integers, Sequences, FiniteSets

CONSTANTS
    Procesos,
    Fifos,       \* the lists used with insertarUltimoListaBCP
    Ordenadas,   \* the lists used with insertarOrdenadoListaBCP
    Instantes,   \* values of ticksDespertar
    NULL

ASSUME ListasAssumption ==
    /\ IsFiniteSet(Procesos) /\ NULL \notin Procesos
    /\ Fifos \cap Ordenadas = {}
    /\ Instantes \subseteq Nat

Listas == Fifos \cup Ordenadas

VARIABLES primero, ultimo, siguiente, ticksDespertar

vars == <<primero, ultimo, siguiente, ticksDespertar>>

(* inicializarListaBCP; the BCPs of tablaProcesos start zeroed.            *)
Init ==
    /\ primero = [l \in Listas |-> NULL]
    /\ ultimo = [l \in Listas |-> NULL]
    /\ siguiente = [p \in Procesos |-> NULL]
    /\ ticksDespertar \in [Procesos -> Instantes]

(* The process i links after the first of a list, and the whole list as it *)
(* is walked by mostrarListaBCP or emptied from its head.                  *)
NoMasDe == Cardinality(Procesos)
Avanzar(l) ==
    LET paso[i \in 0 .. NoMasDe] ==
            IF i = 0 THEN primero[l]
            ELSE IF paso[i - 1] = NULL THEN NULL ELSE siguiente[paso[i - 1]]
    IN  paso
Largo(l) == Cardinality({i \in 0 .. NoMasDe : Avanzar(l)[i] # NULL})
Recorrido(l) == [i \in 1 .. Largo(l) |-> Avanzar(l)[i - 1]]
Recorridos == [l \in Listas |-> Recorrido(l)]

Suelto(p) == \A l \in Listas : \A i \in 1 .. Largo(l) : Recorrido(l)[i] # p

-----------------------------------------------------------------------------
(* insertarUltimoListaBCP.                                                 *)
InsertarUltimoListaBCP(l, p) ==
    /\ Suelto(p)
    /\ \/ /\ primero[l] = NULL
          /\ primero' = [primero EXCEPT ![l] = p]
          /\ siguiente' = [siguiente EXCEPT ![p] = NULL]
       \/ /\ primero[l] # NULL
          /\ siguiente' = [siguiente EXCEPT ![ultimo[l]] = p, ![p] = NULL]
          /\ UNCHANGED primero
    /\ ultimo' = [ultimo EXCEPT ![l] = p]
    /\ UNCHANGED ticksDespertar

(* Mutant: the walk stops at a process that wakes up at the same time.     *)
AnteriorEstricto(l, t) ==
    LET despues == {i \in 2 .. Largo(l) : ticksDespertar[Recorrido(l)[i]] >= t}
        k == CHOOSE i \in despues : \A j \in despues : i <= j
    IN  Recorrido(l)[k - 1]

(* The BCP after which the walk of insertarOrdenadoListaBCP stops: the     *)
(* first whose successor wakes up later than t.                            *)
Anterior(l, t) ==
    LET despues == {i \in 2 .. Largo(l) : ticksDespertar[Recorrido(l)[i]] > t}
        k == CHOOSE i \in despues : \A j \in despues : i <= j
    IN  Recorrido(l)[k - 1]

InsertarOrdenadoListaBCP(l, p, t) ==
    /\ Suelto(p)
    /\ ticksDespertar' = [ticksDespertar EXCEPT ![p] = t]
    /\ \/ /\ primero[l] = NULL
          /\ primero' = [primero EXCEPT ![l] = p]
          /\ ultimo' = [ultimo EXCEPT ![l] = p]
          /\ siguiente' = [siguiente EXCEPT ![p] = NULL]
       \/ /\ primero[l] # NULL
          /\ ticksDespertar[primero[l]] > t
          /\ siguiente' = [siguiente EXCEPT ![p] = primero[l]]
          /\ primero' = [primero EXCEPT ![l] = p]
          /\ UNCHANGED ultimo
       \/ /\ primero[l] # NULL
          /\ ticksDespertar[primero[l]] <= t
          /\ ticksDespertar[ultimo[l]] <= t
          /\ siguiente' = [siguiente EXCEPT ![ultimo[l]] = p, ![p] = NULL]
          /\ ultimo' = [ultimo EXCEPT ![l] = p]
          /\ UNCHANGED primero
       \/ /\ primero[l] # NULL
          /\ ticksDespertar[primero[l]] <= t
          /\ ticksDespertar[ultimo[l]] > t
          /\ LET aux == Anterior(l, t)
             IN  siguiente' = [siguiente EXCEPT ![p] = siguiente[aux], ![aux] = p]
          /\ UNCHANGED <<primero, ultimo>>

EliminarPrimeroListaBCP(l) ==
    /\ primero[l] # NULL
    /\ IF ultimo[l] = primero[l]
       THEN /\ primero' = [primero EXCEPT ![l] = NULL]
            /\ ultimo' = [ultimo EXCEPT ![l] = NULL]
       ELSE /\ primero' = [primero EXCEPT ![l] = siguiente[primero[l]]]
            /\ UNCHANGED ultimo
    /\ UNCHANGED <<siguiente, ticksDespertar>>

Next ==
    \/ \E l \in Fifos, p \in Procesos : InsertarUltimoListaBCP(l, p)
    \/ \E l \in Ordenadas, p \in Procesos, t \in Instantes : InsertarOrdenadoListaBCP(l, p, t)
    \/ \E l \in Listas : EliminarPrimeroListaBCP(l)

Spec == Init /\ [][Next]_vars

-----------------------------------------------------------------------------
(* Properties                                                              *)

Colas == INSTANCE ColasBCP
            WITH contenido <- Recorridos,
                 PRIORIDAD_NORMAL <- 0, PRIORIDAD_ALTA <- 1

(***************************************************************************)
(* The pointers implement the queues: what a walk from primero finds       *)
(* changes exactly as the promised sequences do, with every list over the  *)
(* same links.                                                             *)
(***************************************************************************)
ImplementaColas == Colas!Spec
=============================================================================
