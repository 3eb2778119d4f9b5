----------------------------- MODULE TareasPend -----------------------------
(***************************************************************************)
(* The ring of pending tasks of Interrupciones_Excepciones.c, one memory   *)
(* access at a time.  Three parties share it without any lock:             *)
(*   - interrupcionSoftware takes tasks, at level 1;                       *)
(*   - the device handlers insert, at level 2;                             *)
(*   - interrupcionReloj inserts, at level 3.                              *)
(* A level is only interrupted by a higher one, so the clock's insertions  *)
(* are one step for the others, and the consumer does not move while a     *)
(* device handler is active.  The clock may fall anywhere in a device's    *)
(* insertion, and then spoils the ring: the history variable roto is TRUE  *)
(* from there until interrupcionSoftware takes the last task of the ring.  *)
(* Nucleo and Teclado take the clock's insertions and the extractions as   *)
(* single steps; this module says why that is right.                       *)
(***************************************************************************)
EXTENDS Integers, Sequences

CONSTANTS
    MAX_TAREAS,
    Dispositivos,   \* the devices whose handlers insert tasks
    NULL

ASSUME TareasPendAssumption == MAX_TAREAS \in Nat /\ MAX_TAREAS >= 2

(* A task is the pair funcion, datos; the clock's have null datos.         *)
Tarea(f, d) == [funcion |-> f, datos |-> d]
Despertar == Tarea("despertarDormidos", NULL)
Rodaja == Tarea("planificarRodaja", NULL)
DeDispositivo(d) == Tarea("interrupcionSW", d)

VARIABLES
    tablaTareas, primero, ultimo,
    pcDisp,      \* where the active device handler is
    disp,        \* the device it serves
    indice,      \* the value of lista->ultimo it has loaded
    pcSW,        \* where interrupcionSoftware is
    obtenida,    \* its locals funcion and datos
    cola,        \* history: the tasks accepted and not taken, in order
    roto         \* history: the clock fell inside a device's insertion

ring == <<tablaTareas, primero, ultimo>>
manejador == <<pcDisp, disp, indice>>
consumidor == <<pcSW, obtenida>>
historia == <<cola, roto>>
vars == <<ring, manejador, consumidor, historia>>

Init ==
    /\ tablaTareas = [i \in 0 .. MAX_TAREAS - 1 |-> Tarea(NULL, NULL)]
    /\ primero = 0 /\ ultimo = 0
    /\ pcDisp = "fuera" /\ disp = NULL /\ indice = 0
    /\ pcSW = "comprobar" /\ obtenida = Tarea(NULL, NULL)
    /\ cola = <<>> /\ roto = FALSE

Siguiente(i) == (i + 1) % MAX_TAREAS

-----------------------------------------------------------------------------
(* interrupcionReloj: two complete insertions, each discarded if full.     *)

Lleno(u) == primero = Siguiente(u)

(* Where a device handler is once it has found room.                       *)
Insertando == {"cargar funcion", "funcion", "cargar datos", "datos", "cargar ultimo", "ultimo"}

(* The tasks ts are accepted; nothing is recorded of a spoilt ring.        *)
Anotar(ts) == cola' = IF roto' THEN <<>> ELSE cola \o ts

InterrupcionReloj ==
    /\ roto' = (roto \/ pcDisp \in Insertando)
    /\ IF Lleno(ultimo)
       THEN Anotar(<<>>) /\ UNCHANGED <<tablaTareas, ultimo>>
       ELSE IF Lleno(Siguiente(ultimo))
       THEN /\ tablaTareas' = [tablaTareas EXCEPT ![ultimo] = Despertar]
            /\ ultimo' = Siguiente(ultimo)
            /\ Anotar(<<Despertar>>)
       ELSE /\ tablaTareas' = [tablaTareas EXCEPT ![ultimo] = Despertar,
                                                  ![Siguiente(ultimo)] = Rodaja]
            /\ ultimo' = Siguiente(Siguiente(ultimo))
            /\ Anotar(<<Despertar, Rodaja>>)
    /\ UNCHANGED <<primero, manejador, consumidor>>

-----------------------------------------------------------------------------
(* insertarUltimaTareaPend called by interrupcionHW of a device.           *)

IrA(de, a) == pcDisp = de /\ pcDisp' = a

InterrupcionHW(d) ==
    /\ IrA("fuera", "comprobar")
    /\ disp' = d
    /\ UNCHANGED <<ring, indice, consumidor, historia>>

(* Mutant: the handler does not look whether the ring is full.             *)
SinComprobarLleno ==
    /\ pcDisp = "comprobar"
    /\ pcDisp' = "cargar funcion"
    /\ UNCHANGED <<ring, disp, indice, consumidor, historia>>

ComprobarLleno ==
    /\ pcDisp = "comprobar"
    /\ pcDisp' = IF Lleno(ultimo) THEN "fuera" ELSE "cargar funcion"
    /\ UNCHANGED <<ring, disp, indice, consumidor, historia>>

(* Each of the three assignments loads lista->ultimo anew.                 *)
CargarUltimo ==
    /\ \/ IrA("cargar funcion", "funcion")
       \/ IrA("cargar datos", "datos")
       \/ IrA("cargar ultimo", "ultimo")
    /\ indice' = ultimo
    /\ UNCHANGED <<ring, disp, consumidor, historia>>

PonerFuncion ==
    /\ IrA("funcion", "cargar datos")
    /\ tablaTareas' = [tablaTareas EXCEPT ![indice].funcion = "interrupcionSW"]
    /\ UNCHANGED <<primero, ultimo, disp, indice, consumidor, historia>>

PonerDatos ==
    /\ IrA("datos", "cargar ultimo")
    /\ tablaTareas' = [tablaTareas EXCEPT ![indice].datos = disp]
    /\ UNCHANGED <<primero, ultimo, disp, indice, consumidor, historia>>

PonerUltimo ==
    /\ IrA("ultimo", "fuera")
    /\ ultimo' = Siguiente(indice)
    /\ UNCHANGED roto
    /\ Anotar(<<DeDispositivo(disp)>>)
    /\ UNCHANGED <<tablaTareas, primero, disp, indice, consumidor>>

-----------------------------------------------------------------------------
(* interrupcionSoftware and obtenerPrimeraTareaPend.                       *)

PasoSW(de, a) == pcDisp = "fuera" /\ pcSW = de /\ pcSW' = a

HayTareasPend ==
    /\ PasoSW("comprobar", "obtener")
    /\ primero # ultimo
    /\ UNCHANGED <<ring, manejador, obtenida, historia>>

(* It looks again, and of an empty ring leaves its locals as they were.    *)
ObtenerPrimeraTareaPend ==
    /\ PasoSW("obtener", IF primero = ultimo THEN "ejecutar" ELSE "funcion")
    /\ UNCHANGED <<ring, manejador, obtenida, historia>>

LeerFuncion ==
    /\ PasoSW("funcion", "datos")
    /\ obtenida' = [obtenida EXCEPT !.funcion = tablaTareas[primero].funcion]
    /\ UNCHANGED <<ring, manejador, historia>>

LeerDatos ==
    /\ PasoSW("datos", "avanzar")
    /\ obtenida' = [obtenida EXCEPT !.datos = tablaTareas[primero].datos]
    /\ UNCHANGED <<ring, manejador, historia>>

(* With its last task the ring loses what the clock spoilt.                *)
AvanzarPrimero ==
    /\ PasoSW("avanzar", "ejecutar")
    /\ primero' = Siguiente(primero)
    /\ IF roto /\ primero' = ultimo
       THEN roto' = FALSE /\ cola' = <<obtenida>>
       ELSE UNCHANGED historia
    /\ UNCHANGED <<tablaTareas, ultimo, manejador, obtenida>>

(* funcion (datos): the task leaves the history queue.                     *)
Ejecutar ==
    /\ PasoSW("ejecutar", "comprobar")
    /\ cola' = IF cola = <<>> THEN <<>> ELSE Tail(cola)
    /\ UNCHANGED <<ring, manejador, obtenida, roto>>

Next ==
    \/ InterrupcionReloj
    \/ \E d \in Dispositivos : InterrupcionHW(d)
    \/ ComprobarLleno \/ CargarUltimo \/ PonerFuncion \/ PonerDatos \/ PonerUltimo
    \/ HayTareasPend \/ ObtenerPrimeraTareaPend \/ LeerFuncion \/ LeerDatos \/ AvanzarPrimero \/ Ejecutar

Spec == Init /\ [][Next]_vars

-----------------------------------------------------------------------------
(* Properties                                                              *)

(* The tasks from primero up to ultimo.                                    *)
EnBuffer ==
    [i \in 1 .. (ultimo - primero) % MAX_TAREAS
        |-> tablaTareas[(primero + i - 1) % MAX_TAREAS]]

(* What interrupcionSoftware has taken out of the ring and not yet run.    *)
EnCurso == IF pcSW = "ejecutar" THEN <<obtenida>> ELSE <<>>

(***************************************************************************)
(* While no insertion is under way, the ring and the task in hand are      *)
(* exactly the accepted tasks, whole and in their order.  The clock inside *)
(* a device's insertion breaks it, and only until the ring next empties.   *)
(***************************************************************************)
BufferEsCola == pcDisp = "fuera" /\ ~roto => EnCurso \o EnBuffer = cola

(***************************************************************************)
(* insertarUltimaTareaPend "inserta una tarea al final del buffer": the    *)
(* last task of the ring is the handler's own when its insertion ends.     *)
(***************************************************************************)
InsertaAlFinal ==
    [][pcDisp = "ultimo" /\ pcDisp' = "fuera" =>
          /\ EnBuffer' # <<>>
          /\ EnBuffer'[Len(EnBuffer')] = DeDispositivo(disp)]_vars
=============================================================================
