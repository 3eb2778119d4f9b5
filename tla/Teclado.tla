------------------------------ MODULE Teclado ------------------------------
(***************************************************************************)
(* The keyboard driver (modulo_teclado.c) on top of the kernel of Nucleo:  *)
(* its interrupt handler stores a character and leaves a software task,    *)
(* the task wakes one blocked reader, and a read takes characters one by   *)
(* one, blocking when there is none.                                       *)
(*                                                                         *)
(* The actions of Nucleo are taken as they are.  The keyboard's handler    *)
(* runs at level 2 and the clock interrupts it: its insertion in the ring  *)
(* of tasks is one step for each load and store of ultimo that matters,    *)
(* with the clock in between.  What the insertion is at the grain of every *)
(* access is the subject of TareasPend.                                    *)
(***************************************************************************)
EXTENDS Nucleo

CONSTANTS
    TAM_BUFFER_CARACTERES,  \* slots of the ring of characters, one never used
    Lecturas                \* bound: the sizes a process asks to read

(* What a slot of the ring may hold for the keyboard: its task, that of    *)
(* another device, which does nothing here, or no function at all.         *)
DE_TECLADO == "interrupcionSW_teclado"
DE_OTRO == "interrupcionSW_otro"
NULA == "nula"
TareasTodas == TareasNucleo \cup {DE_TECLADO, DE_OTRO, NULA}

ASSUME TecladoAssumption ==
    /\ TAM_BUFFER_CARACTERES \in Nat /\ TAM_BUFFER_CARACTERES >= 2
    /\ Lecturas \subseteq Nat
    /\ NULL \notin {DE_TECLADO, DE_OTRO, NULA}

(* The characters: the one that ends a read, and all the others.           *)
ENTER == "ENTER"
OTRO == "OTRO"
Caracteres == {ENTER, OTRO}

VARIABLES
    bufferCaracteres,
    listaProcesosBloqueados,
    porLeer,    \* what is left of the size each process asked leerFichero
    manejador,  \* where insertarUltimaTareaPend is in interrupcionHW_teclado
    indice,     \* the length of the ring when it loaded ultimo
    donde,      \* where its task is: in the free slot, inside the ring, lost
    perdidas    \* history: tasks lost of the characters now in the buffer

insercion == <<manejador, indice, donde>>
lectores == <<listaProcesosBloqueados, porLeer>>
teclado == <<bufferCaracteres, lectores, insercion, perdidas>>
varsTeclado == <<vars, teclado>>

(* Two more points of a system call: "leer", about to ask for a character, *)
(* and "extraer", back from the cambio_contexto of peticionCaracter.       *)
InitTeclado ==
    /\ Init
    /\ bufferCaracteres = <<>>
    /\ listaProcesosBloqueados = <<>>
    /\ porLeer = [p \in Procesos |-> 0]
    /\ manejador = "fuera" /\ indice = 0 /\ donde = "ninguna"
    /\ perdidas = 0

-----------------------------------------------------------------------------
(* Mutant: a full buffer takes the character.                              *)
InsertarSinComprobar(c) == bufferCaracteres' = Append(bufferCaracteres, c)

(* insertarBufferCaracteres: a full buffer discards the character.         *)
InsertarBufferCaracteres(c) ==
    bufferCaracteres' =
        IF Len(bufferCaracteres) = TAM_BUFFER_CARACTERES - 1
        THEN bufferCaracteres ELSE Append(bufferCaracteres, c)

(* The history of lost tasks: those of characters already read are         *)
(* forgotten, so an empty buffer has none.                                 *)
Perder(n) ==
    LET total == perdidas + n
    IN  perdidas' = IF total < Len(bufferCaracteres') THEN total ELSE Len(bufferCaracteres')

(* interrupcionHW_teclado up to the test of insertarUltimaTareaPend, and   *)
(* the load of lista->ultimo after it: a full ring discards the task.  A   *)
(* clock between the test and the load leaves the ring either as before    *)
(* the test or full, as it would after the function is stored.             *)
InsertarTareaTeclado ==
    /\ IF Len(listaTareasPend) = MAX_TAREAS - 1
       THEN Perder(1) /\ intSW' = TRUE /\ UNCHANGED <<manejador, indice>>
       ELSE Perder(0) /\ manejador' = "funcion" /\ indice' = Len(listaTareasPend) /\ UNCHANGED intSW
    /\ UNCHANGED <<bcps, planificacion, ticks, listaTareasPend, tarea, lectores, donde>>

(* Mutant: only the first character of an empty buffer leaves a task.      *)
InterrupcionHWSiVacio(c) ==
    /\ modo # "apagado"
    /\ InsertarBufferCaracteres(c)
    /\ IF bufferCaracteres = <<>>
       THEN InsertarTareaTeclado
       ELSE UNCHANGED <<vars, lectores, insercion, perdidas>>

(* interrupcionHW_teclado: a key is pressed.                               *)
InterrupcionHWTeclado(c) ==
    /\ modo # "apagado"
    /\ InsertarBufferCaracteres(c)
    /\ InsertarTareaTeclado

(* lista->ultimo is loaded again, to advance it.                           *)
CargarUltimo ==
    /\ manejador = "cargar ultimo" /\ manejador' = "ultimo"
    /\ indice' = Len(listaTareasPend)
    /\ UNCHANGED <<vars, bufferCaracteres, lectores, donde, perdidas>>

(* The function is stored.  If the clock has come since the load, it goes  *)
(* over the clock's task, whose datos is 0: the descriptor of the keyboard *)
(* or of another device.                                                   *)
PonerFuncion ==
    /\ manejador = "funcion" /\ manejador' = "cargar ultimo"
    /\ \/ /\ Len(listaTareasPend) = indice
          /\ donde' = "libre"
          /\ UNCHANGED listaTareasPend
       \/ /\ Len(listaTareasPend) > indice
          /\ \E t \in {DE_TECLADO, DE_OTRO} :
                /\ listaTareasPend' = [listaTareasPend EXCEPT ![indice + 1] = t]
                /\ donde' = IF t = DE_TECLADO THEN "dentro" ELSE "ninguna"
    /\ UNCHANGED <<bcps, planificacion, ticks, intSW, tarea,
                   bufferCaracteres, lectores, indice, perdidas>>

(* What the slot at ultimo holds: the keyboard's task, or, once the clock  *)
(* has moved ultimo, whatever was there before.                            *)
EnElHueco == IF donde = "libre" THEN {DE_TECLADO} ELSE TareasTodas

DelTeclado(lista) == {i \in DOMAIN lista : lista[i] = DE_TECLADO}

(* The new ultimo is stored: one more task; or, if the clock has come since*)
(* the load, only its first task is left in; or, if it had filled the ring,*)
(* ultimo catches up with primero and all the tasks are gone.              *)
PonerUltimo ==
    /\ manejador = "ultimo" /\ manejador' = "fuera"
    /\ \E t \in EnElHueco :
          listaTareasPend' =
              IF Len(listaTareasPend) > indice THEN SubSeq(listaTareasPend, 1, indice + 1)
              ELSE IF indice + 1 = MAX_TAREAS THEN <<>>
              ELSE Append(listaTareasPend, t)
    /\ UNCHANGED bufferCaracteres
    /\ LET habia == Cardinality(DelTeclado(listaTareasPend)) + (IF donde = "dentro" THEN 0 ELSE 1)
           hay == Cardinality(DelTeclado(listaTareasPend'))
       IN  Perder(IF habia > hay THEN habia - hay ELSE 0)
    /\ indice' = 0 /\ donde' = "ninguna"
    /\ intSW' = TRUE
    /\ UNCHANGED <<bcps, planificacion, ticks, tarea, lectores>>

Manejador == CargarUltimo \/ PonerFuncion \/ PonerUltimo

(* Mutant: the reader woken stays in listaProcesosBloqueados.              *)
InterrupcionSWSinQuitar ==
    /\ tarea = DE_TECLADO
    /\ IF listaProcesosBloqueados = <<>>
       THEN UNCHANGED <<estado, listos>>
       ELSE LET p == Head(listaProcesosBloqueados)
            IN  /\ estado' = [estado EXCEPT ![p] = LISTO]
                /\ listos' = InsertarListos(listos, PRIORIDAD_NORMAL, p)
    /\ tarea' = NULL
    /\ UNCHANGED <<prioridad, ticksDespertar, rodaja, contexto, procesoActual, listaDurmiendo,
                   modo, ticks, listaTareasPend, intSW, teclado>>

(* interrupcionSW_teclado: wake the first reader, whatever the buffer has. *)
(* It goes to listaListos whatever its priority.                           *)
InterrupcionSWTeclado ==
    /\ tarea = DE_TECLADO
    /\ IF listaProcesosBloqueados = <<>>
       THEN UNCHANGED <<estado, listos, listaProcesosBloqueados>>
       ELSE LET p == Head(listaProcesosBloqueados)
            IN  /\ estado' = [estado EXCEPT ![p] = LISTO]
                /\ listos' = InsertarListos(listos, PRIORIDAD_NORMAL, p)
                /\ listaProcesosBloqueados' = Tail(listaProcesosBloqueados)
    /\ tarea' = NULL
    /\ UNCHANGED <<prioridad, ticksDespertar, rodaja, contexto, procesoActual, listaDurmiendo,
                   modo, ticks, listaTareasPend, intSW, bufferCaracteres, porLeer,
                   insercion, perdidas>>

(* interrupcionSW for another device: nothing of this module.              *)
InterrupcionSWOtro ==
    /\ tarea = DE_OTRO
    /\ tarea' = NULL
    /\ UNCHANGED <<bcps, planificacion, ticks, listaTareasPend, intSW, teclado>>

(* funcion is null: excepcionMemoria inside the kernel, panico.            *)
Panico == tarea = NULA /\ UNCHANGED varsTeclado

-----------------------------------------------------------------------------
(* leerFichero_teclado, from the system call sis_leer.                     *)
LeerFichero(n) ==
    /\ EnUsuario
    /\ porLeer' = [porLeer EXCEPT ![procesoActual] = n]
    /\ modo' = IF n = 0 THEN "usuario" ELSE "leer"
    /\ UNCHANGED <<bcps, procesoActual, listos, listaDurmiendo, interrupciones,
                   bufferCaracteres, listaProcesosBloqueados, insercion, perdidas>>

(* One turn of its loop has put c in the user's buffer: the call returns   *)
(* after an ENTER or the last position.                                    *)
RecibirCaracter(c) ==
    LET quedan == porLeer[procesoActual] - 1
        fin == c = ENTER \/ quedan = 0
    IN  /\ porLeer' = [porLeer EXCEPT ![procesoActual] = IF fin THEN 0 ELSE quedan]
        /\ modo' = IF fin THEN "usuario" ELSE "leer"

(* extraerBufferCaracteres.  On an empty buffer it returns -1, which       *)
(* leerFichero_teclado does not look at: it goes on with whatever the      *)
(* user's buffer had.                                                      *)
ExtraerBufferCaracteres ==
    /\ \/ /\ bufferCaracteres # <<>>
          /\ RecibirCaracter(Head(bufferCaracteres))
          /\ bufferCaracteres' = Tail(bufferCaracteres)
       \/ /\ bufferCaracteres = <<>>
          /\ \E c \in Caracteres : RecibirCaracter(c)
          /\ UNCHANGED bufferCaracteres
    /\ Perder(0)
    /\ UNCHANGED <<bcps, procesoActual, listos, listaDurmiendo, interrupciones,
                   listaProcesosBloqueados, insercion>>

(* peticionCaracter_teclado with characters in the buffer.                 *)
PeticionCaracter ==
    /\ modo = "leer" /\ bufferCaracteres # <<>>
    /\ ExtraerBufferCaracteres

(* peticionCaracter_teclado with none: block and leave the CPU.  A key     *)
(* between the test of the buffer and the blocking leaves the state that   *)
(* it would leave just after it.                                           *)
BloquearLector ==
    /\ modo = "leer" /\ bufferCaracteres = <<>>
    /\ listaProcesosBloqueados' = Append(listaProcesosBloqueados, procesoActual)
    /\ CederCPU([estado EXCEPT ![procesoActual] = BLOQUEADO],
                [contexto EXCEPT ![procesoActual] = "extraer"], "espera")
    /\ UNCHANGED <<prioridad, ticksDespertar, rodaja, listaDurmiendo, interrupciones,
                   bufferCaracteres, porLeer, insercion, perdidas>>

(* What is left of peticionCaracter_teclado when the reader runs again: it *)
(* extracts without testing the buffer again.                              *)
ReanudarLector ==
    /\ modo = "extraer"
    /\ ExtraerBufferCaracteres

-----------------------------------------------------------------------------
(* The clock's handler: its first task goes to the slot at ultimo, where   *)
(* the keyboard's may be.                                                  *)
InterrupcionRelojTeclado ==
    /\ InterrupcionReloj
    /\ donde' = IF donde = "libre" /\ Len(listaTareasPend) < MAX_TAREAS - 1
                THEN "ninguna" ELSE donde
    /\ UNCHANGED <<bufferCaracteres, lectores, manejador, indice, perdidas>>

PasoNucleo ==
    /\ \/ EntrarSW \/ ObtenerTarea \/ SalirSW
       \/ Tareas \/ FinEspera \/ Llamadas \/ FinSleep \/ Apagado
    /\ UNCHANGED teclado

PasoTeclado ==
    \/ InterrupcionSWTeclado \/ InterrupcionSWOtro
    \/ PeticionCaracter \/ BloquearLector \/ ReanudarLector

(* The clock interrupts the keyboard's handler, and the handler the rest.  *)
NextTeclado ==
    \/ tarea # NULA /\ InterrupcionRelojTeclado
    \/ Manejador
    \/ /\ manejador = "fuera" /\ tarea # NULA
       /\ \/ PasoNucleo
          \/ \E c \in Caracteres : InterrupcionHWTeclado(c)
          \/ \E n \in Lecturas : LeerFichero(n)
          \/ PasoTeclado
    \/ Panico

SpecTeclado == InitTeclado /\ [][NextTeclado]_varsTeclado

(* Fairness: that of Nucleo until a panic, and the driver's own code does  *)
(* not stop.  Nothing is assumed of the user at the keyboard, except that  *)
(* the keys leave the CPU some time for the rest.                          *)
FairnessTeclado ==
    /\ WF_varsTeclado(tarea # NULA /\ InterrupcionRelojTeclado)
    /\ FairnessCodigo
    /\ WF_varsTeclado(PasoTeclado) /\ WF_varsTeclado(Manejador)

RelojLentoTeclado == []<>((listaTareasPend = <<>> /\ tarea = NULL) \/ tarea = NULA)

SpecTecladoJusta == SpecTeclado /\ FairnessTeclado /\ RelojLentoTeclado

-----------------------------------------------------------------------------
(* Properties                                                              *)

Leyendo == ToSet(listaProcesosBloqueados)

TypeOKTeclado ==
    /\ estado \in [Procesos -> Estados]
    /\ contexto \in [Procesos -> Contextos \cup {"extraer"}]
    /\ modo \in Modos \cup {"leer", "extraer"}
    /\ listaTareasPend \in Seq(TareasTodas)
    /\ Len(listaTareasPend) < MAX_TAREAS
    /\ bufferCaracteres \in Seq(Caracteres)
    /\ Len(bufferCaracteres) < TAM_BUFFER_CARACTERES
    /\ listaProcesosBloqueados \in Seq(Procesos)
    /\ porLeer \in [Procesos -> Nat]
    /\ manejador \in {"fuera", "funcion", "cargar ultimo", "ultimo"}
    /\ indice \in 0 .. MAX_TAREAS - 1
    /\ donde \in {"ninguna", "libre", "dentro"}
    /\ perdidas \in Nat /\ perdidas <= Len(bufferCaracteres)

(***************************************************************************)
(* The readers' list shares the link of the BCPs with the kernel's lists:  *)
(* a process is in one of them all at most, once, and its state says in    *)
(* which kind.                                                             *)
(***************************************************************************)
ParticionTeclado ==
    /\ UnaSolaLista /\ ActualVivo
    /\ IsInjective(listaProcesosBloqueados)
    /\ Leyendo \cap (Esperando \cup {procesoActual} \cup UNION {EnCola(n) : n \in Prioridades}) = {}
    /\ \A p \in Procesos \ {procesoActual} :
          /\ estado[p] = LISTO <=> \E n \in Prioridades : p \in EnCola(n)
          /\ estado[p] = BLOQUEADO <=> p \in Esperando \cup Leyendo
          /\ estado[p] # EJECUCION

(* The readers woken that have not run yet, and the wake-ups on their way. *)
Despertados ==
    {p \in Procesos : \/ contexto[p] = "extraer" /\ \E n \in Prioridades : p \in EnCola(n)
                      \/ modo = "extraer" /\ p = procesoActual}

TareasTeclado == DelTeclado(listaTareasPend) \cup (IF tarea = DE_TECLADO THEN {0} ELSE {})

EnCamino == IF manejador # "fuera" /\ donde # "dentro" THEN 1 ELSE 0

(***************************************************************************)
(* While readers are blocked, each character of the buffer has a reader    *)
(* already woken, or a task that will wake one, or the handler still at    *)
(* work, or is one whose task was lost: by a full ring, or by the clock    *)
(* inside the handler.  There is no other way of losing a wake-up, however *)
(* the readers, the keys and the clock interleave.                         *)
(***************************************************************************)
SinDespertarPerdido ==
    listaProcesosBloqueados # <<>> =>
        Len(bufferCaracteres)
            <= Cardinality(Despertados) + Cardinality(TareasTeclado) + EnCamino + perdidas

(***************************************************************************)
(* A reader does not stay blocked beside more characters than have lost    *)
(* their task: it is woken, or other readers take them first, or a null    *)
(* task stops the machine.                                                 *)
(***************************************************************************)
LectorAtendido ==
    \A p \in Procesos :
        p \in Leyendo /\ Len(bufferCaracteres) > perdidas
            ~> p \notin Leyendo \/ Len(bufferCaracteres) <= perdidas \/ tarea = NULA

(* interrupcionSW_teclado: "despertar procesos bloqueados esperando una    *)
(* tecla": without the exception for lost tasks.  The code does not keep   *)
(* this: see the README.                                                   *)
NingunaTareaPerdida == listaProcesosBloqueados # <<>> => perdidas = 0

(* peticionCaracter_teclado: "cuando vuelva a ejecutar, obtener caracter y *)
(* terminar con exito".  The code does not keep this: see the README.      *)
ExtraeConExito == modo = "extraer" => bufferCaracteres # <<>>

(* planificador: "obtener el primer proceso con prioridad": a ready        *)
(* process of high priority never waits in the queue of the others.  The   *)
(* keyboard does not keep this: see the README.                            *)
PrioridadRespetada ==
    \A p \in EnCola(PRIORIDAD_NORMAL) : prioridad[p] # PRIORIDAD_ALTA
=============================================================================
