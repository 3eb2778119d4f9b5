------------------------------- MODULE Nucleo -------------------------------
(***************************************************************************)
(* The core of the Minikernel (Parte 3): process table, ready and sleeping *)
(* lists, clock, software interrupt with its queue of pending tasks, round *)
(* robin with two priorities, and the idle loop.                           *)
(*                                                                         *)
(* One CPU.  A system call runs with the software interrupt masked and     *)
(* only a software task can touch lists and process table, so a system     *)
(* call is one step up to its context switch; the clock and the devices    *)
(* interrupt everything, and show up as steps of their own between any two *)
(* others.  What runs after a context switch is told by the context of the *)
(* process switched to.                                                    *)
(***************************************************************************)
EXTENDS ListaBCP

CONSTANTS
    MAX_PROCESOS,      \* slots of the process table
    MAX_TAREAS,        \* slots of the ring of pending tasks, one never used
    TICKS_POR_RODAJA,  \* clock ticks of a round robin slice
    TICK,              \* clock ticks per second
    MOD,               \* 2^32: ticks and ticksDespertar are unsigned int
    Segundos,          \* bound: the arguments a process may give to sleep
    PrioridadesCreadas,\* bound: the priorities processes are created with
    MaxTicks           \* bound: the clock counter stays here once reached

ASSUME NucleoAssumption ==
    /\ MAX_PROCESOS \in Nat \ {0}
    /\ MAX_TAREAS \in Nat /\ MAX_TAREAS >= 3
    /\ TICKS_POR_RODAJA \in Nat \ {0}
    /\ TICK \in Nat \ {0}
    /\ MOD \in Nat \ {0}
    /\ Segundos \subseteq Nat
    /\ PrioridadesCreadas \subseteq Prioridades
    /\ MaxTicks \in Nat

Procesos == 0 .. MAX_PROCESOS - 1

(* const.h: TERMINADO and NO_USADA are the same value.                     *)
NO_USADA == "NO_USADA"
LISTO == "LISTO"
EJECUCION == "EJECUCION"
BLOQUEADO == "BLOQUEADO"
Estados == {NO_USADA, LISTO, EJECUCION, BLOQUEADO}

(* Where a process goes on when its contextoRegs is restored: a new one in *)
(* its user code, one that blocked after the cambio_contexto of its system *)
(* call, a preempted one inside the loop of interrupcionSoftware.  What is *)
(* saved of a running process or of a free slot is never restored: it is   *)
(* kept "usuario" here.                                                    *)
Contextos == {"usuario", "llamada", "interrupcion"}

(* What the CPU is doing: one of the above for procesoActual, or the idle  *)
(* loop of a process that blocked ("espera") or of liberarProceso          *)
(* ("esperaFin"), or nothing, after the last process ended ("apagado").    *)
Modos == Contextos \cup {"espera", "esperaFin", "apagado"}

TareasNucleo == {"despertarDormidos", "planificarRodaja"}

ASSUME NULLAssumption == NULL \notin Procesos /\ NULL \notin TareasNucleo

VARIABLES
    estado, prioridad, ticksDespertar, rodaja, contexto,  \* the BCPs
    procesoActual, listos, listaDurmiendo,
    ticks, listaTareasPend,
    intSW,    \* the software interrupt is activated and not yet delivered
    tarea,    \* the pending task interrupcionSoftware is executing, or NULL
    modo

bcps == <<estado, prioridad, ticksDespertar, rodaja, contexto>>
planificacion == <<procesoActual, listos, listaDurmiendo, modo>>
interrupciones == <<ticks, listaTareasPend, intSW, tarea>>
vars == <<bcps, planificacion, interrupciones>>

(***************************************************************************)
(* main: the process init is created in slot 0 and chosen by planificador; *)
(* its state stays LISTO, as crearTarea left it.                           *)
(***************************************************************************)
Init ==
    /\ estado = [p \in Procesos |-> IF p = 0 THEN LISTO ELSE NO_USADA]
    /\ prioridad = [p \in Procesos |-> PRIORIDAD_NORMAL]
    /\ ticksDespertar = [p \in Procesos |-> 0]
    /\ rodaja = [p \in Procesos |-> 0]
    /\ contexto = [p \in Procesos |-> "usuario"]
    /\ procesoActual = 0
    /\ listos = [n \in Prioridades |-> <<>>]
    /\ listaDurmiendo = <<>>
    /\ ticks = 0
    /\ listaTareasPend = <<>>
    /\ intSW = FALSE
    /\ tarea = NULL
    /\ modo = "usuario"

-----------------------------------------------------------------------------
(* Interrupts                                                              *)

(* insertarUltimaTareaPend: a full ring discards the task.                 *)
InsertarTareaPend(lista, t) ==
    IF Len(lista) = MAX_TAREAS - 1 THEN lista ELSE Append(lista, t)

(* interrupcionReloj.  Level 3: it interrupts whatever the CPU does.       *)
InterrupcionReloj ==
    /\ modo # "apagado"
    /\ ticks' = IF ticks = MaxTicks THEN ticks ELSE (ticks + 1) % MOD
    /\ listaTareasPend' =
           InsertarTareaPend(InsertarTareaPend(listaTareasPend, "despertarDormidos"),
                             "planificarRodaja")
    /\ intSW' = TRUE
    /\ UNCHANGED <<bcps, planificacion, tarea>>

(* The pending software interrupt is delivered as soon as it is unmasked,  *)
(* which is in user mode.                                                  *)
EntrarSW ==
    /\ modo = "usuario" /\ intSW
    /\ intSW' = FALSE
    /\ modo' = "interrupcion"
    /\ UNCHANGED <<bcps, procesoActual, listos, listaDurmiendo, ticks, listaTareasPend, tarea>>

EnBucleSW == modo \in {"interrupcion", "espera", "esperaFin"}

(* interrupcionSoftware, called by its vector or by esperaInterrupcion:    *)
(* take the next task of the ring.                                         *)
ObtenerTarea ==
    /\ EnBucleSW /\ tarea = NULL /\ listaTareasPend # <<>>
    /\ tarea' = Head(listaTareasPend)
    /\ listaTareasPend' = Tail(listaTareasPend)
    /\ UNCHANGED <<bcps, planificacion, ticks, intSW>>

(* interrupcionSoftware returns to the interrupted process.                *)
SalirSW ==
    /\ modo = "interrupcion" /\ tarea = NULL /\ listaTareasPend = <<>>
    /\ modo' = "usuario"
    /\ UNCHANGED <<bcps, procesoActual, listos, listaDurmiendo, interrupciones>>

-----------------------------------------------------------------------------
(* Software tasks of the kernel                                            *)

(* Mutants of its test: no look at the time, and the comparison reversed.  *)
HayDormidos == listaDurmiendo # <<>>
HayQueDespertarAlReves ==
    listaDurmiendo # <<>> /\ ticksDespertar[Head(listaDurmiendo)] > ticks

(* despertarDormidos: the test of its loop.                                *)
HayQueDespertar ==
    listaDurmiendo # <<>> /\ ticksDespertar[Head(listaDurmiendo)] < ticks

(* Mutant: the sleeper woken is not taken out of listaDurmiendo.           *)
DespertarSinQuitar ==
    /\ tarea = "despertarDormidos" /\ HayQueDespertar
    /\ LET p == Head(listaDurmiendo)
       IN  /\ estado' = [estado EXCEPT ![p] = LISTO]
           /\ listos' = InsertarListos(listos, prioridad[p], p)
    /\ UNCHANGED <<prioridad, ticksDespertar, rodaja, contexto, procesoActual, listaDurmiendo,
                   modo, interrupciones>>

(* Mutant: if instead of while, one sleeper is woken and the task ends.    *)
DespertarSoloUno ==
    /\ tarea = "despertarDormidos" /\ HayQueDespertar
    /\ LET p == Head(listaDurmiendo)
       IN  /\ estado' = [estado EXCEPT ![p] = LISTO]
           /\ listos' = InsertarListos(listos, prioridad[p], p)
    /\ listaDurmiendo' = Tail(listaDurmiendo)
    /\ tarea' = NULL
    /\ UNCHANGED <<prioridad, ticksDespertar, rodaja, contexto, procesoActual, modo,
                   ticks, listaTareasPend, intSW>>

(* despertarDormidos, one turn of its loop: wake the first sleeper.        *)
DespertarDormidos ==
    /\ tarea = "despertarDormidos" /\ HayQueDespertar
    /\ LET p == Head(listaDurmiendo)
       IN  /\ estado' = [estado EXCEPT ![p] = LISTO]
           /\ listos' = InsertarListos(listos, prioridad[p], p)
    /\ listaDurmiendo' = Tail(listaDurmiendo)
    /\ UNCHANGED <<prioridad, ticksDespertar, rodaja, contexto, procesoActual, modo, interrupciones>>

(* despertarDormidos: the loop ends.                                       *)
FinDespertarDormidos ==
    /\ tarea = "despertarDormidos" /\ ~HayQueDespertar
    /\ tarea' = NULL
    /\ UNCHANGED <<bcps, planificacion, ticks, listaTareasPend, intSW>>

(* planificarRodaja with nobody running, or with slice left.               *)
ContarRodaja ==
    /\ tarea = "planificarRodaja"
    /\ \/ procesoActual = NULL /\ UNCHANGED rodaja
       \/ /\ procesoActual # NULL
          /\ rodaja[procesoActual] + 1 < TICKS_POR_RODAJA
          /\ rodaja' = [rodaja EXCEPT ![procesoActual] = @ + 1]
    /\ tarea' = NULL
    /\ UNCHANGED <<estado, prioridad, ticksDespertar, contexto, planificacion,
                   ticks, listaTareasPend, intSW>>

(* cambio_contexto to q, which goes on where ctx says it was.              *)
Restaurar(ctx, q) ==
    /\ procesoActual' = q
    /\ modo' = ctx[q]
    /\ contexto' = [ctx EXCEPT ![q] = "usuario"]

(* Mutant: the slice of the process that leaves is not set back to 0.      *)
ExpulsarSinReiniciar ==
    /\ tarea = "planificarRodaja" /\ procesoActual # NULL
    /\ rodaja[procesoActual] + 1 >= TICKS_POR_RODAJA
    /\ LET p == procesoActual
           l == InsertarListos(listos, prioridad[p], p)
           q == Planificador(l)
       IN  /\ rodaja' = [rodaja EXCEPT ![p] = @ + 1]
           /\ estado' = [estado EXCEPT ![p] = LISTO, ![q] = EJECUCION]
           /\ Restaurar([contexto EXCEPT ![p] = "interrupcion"], q)
           /\ listos' = SinElegido(l)
    /\ tarea' = NULL
    /\ UNCHANGED <<prioridad, ticksDespertar, listaDurmiendo, ticks, listaTareasPend, intSW>>

(* planificarRodaja with the slice used up: procesoActual goes to the end  *)
(* of its queue and the CPU to the process planificador returns, which may *)
(* be the same one.                                                        *)
ExpulsarProceso ==
    /\ tarea = "planificarRodaja" /\ procesoActual # NULL
    /\ rodaja[procesoActual] + 1 >= TICKS_POR_RODAJA
    /\ LET p == procesoActual
           l == InsertarListos(listos, prioridad[p], p)
           q == Planificador(l)
       IN  /\ rodaja' = [rodaja EXCEPT ![p] = 0]
           /\ estado' = [estado EXCEPT ![p] = LISTO, ![q] = EJECUCION]
           /\ Restaurar([contexto EXCEPT ![p] = "interrupcion"], q)
           /\ listos' = SinElegido(l)
    /\ tarea' = NULL
    /\ UNCHANGED <<prioridad, ticksDespertar, listaDurmiendo, ticks, listaTareasPend, intSW>>

-----------------------------------------------------------------------------
(* System calls                                                            *)

(* procesoActual is about to execute an instruction of its program.        *)
EnUsuario == modo = "usuario" /\ ~intSW

(* The end of every call that leaves the CPU, and of liberarProceso: take  *)
(* the process planificador returns, or wait for one.  est and ctx are the *)
(* process states and contexts once procesoActual has left.                *)
CederCPU(est, ctx, espera) ==
    LET q == Planificador(listos)
    IN  IF q = NULL
        THEN /\ procesoActual' = NULL /\ modo' = espera
             /\ contexto' = ctx /\ estado' = est
             /\ UNCHANGED listos
        ELSE /\ Restaurar(ctx, q)
             /\ estado' = IF espera = "esperaFin" THEN est
                             ELSE [est EXCEPT ![q] = EJECUCION]
             /\ listos' = SinElegido(listos)

(* The idle loop finds a process once esperaInterrupcion has run the tasks.*)
FinEspera ==
    /\ modo \in {"espera", "esperaFin"} /\ tarea = NULL /\ listaTareasPend = <<>>
    /\ Planificador(listos) # NULL
    /\ CederCPU(estado, contexto, modo)
    /\ UNCHANGED <<prioridad, ticksDespertar, rodaja, listaDurmiendo, interrupciones>>

(* crearTarea: the first free slot of the table.                           *)
BCPLibre(p) ==
    /\ estado[p] = NO_USADA
    /\ \A q \in 0 .. p - 1 : estado[q] # NO_USADA

(* sis_crearProceso, sis_crearProcesoAltaPrioridad.  With a full table or  *)
(* an unknown program the call returns -1 and changes nothing.  The new    *)
(* BCP keeps the rodaja its slot had.                                      *)
CrearProceso(pri) ==
    /\ EnUsuario
    /\ \E p \in Procesos :
          /\ BCPLibre(p)
          /\ estado' = [estado EXCEPT ![p] = LISTO]
          /\ prioridad' = [prioridad EXCEPT ![p] = pri]
          /\ contexto' = [contexto EXCEPT ![p] = "usuario"]
          /\ listos' = InsertarListos(listos, pri, p)
    /\ UNCHANGED <<ticksDespertar, rodaja, procesoActual, listaDurmiendo, modo, interrupciones>>

(* sis_terminarProceso and the exceptions of a user program, while other   *)
(* processes exist.                                                        *)
TerminarProceso ==
    /\ EnUsuario
    /\ \E q \in Procesos \ {procesoActual} : estado[q] # NO_USADA
    /\ CederCPU([estado EXCEPT ![procesoActual] = NO_USADA], contexto, "esperaFin")
    /\ UNCHANGED <<prioridad, ticksDespertar, rodaja, listaDurmiendo, interrupciones>>

(* The same when it is the last one: liberar_imagen stops the machine.     *)
Apagar ==
    /\ EnUsuario
    /\ \A q \in Procesos \ {procesoActual} : estado[q] = NO_USADA
    /\ modo' = "apagado"
    /\ UNCHANGED <<bcps, procesoActual, listos, listaDurmiendo, interrupciones>>

(* sis_sleep.  The guard with MaxTicks is a bound: every wake-up time is   *)
(* one the counter gets past.                                              *)
Sleep(s) ==
    /\ EnUsuario
    /\ ticks + s * TICK < MaxTicks
    /\ ticksDespertar' =
           [ticksDespertar EXCEPT ![procesoActual] = (ticks + s * TICK) % MOD]
    /\ listaDurmiendo' = InsertarOrdenado(listaDurmiendo, procesoActual, ticksDespertar')
    /\ CederCPU([estado EXCEPT ![procesoActual] = BLOQUEADO],
                [contexto EXCEPT ![procesoActual] = "llamada"], "espera")
    /\ UNCHANGED <<prioridad, rodaja, interrupciones>>

(* What is left of sis_sleep after its cambio_contexto.                    *)
FinSleep ==
    /\ modo = "llamada"
    /\ modo' = "usuario"
    /\ UNCHANGED <<bcps, procesoActual, listos, listaDurmiendo, interrupciones>>

(* The machine is off: nothing happens any more.                           *)
Apagado == modo = "apagado" /\ UNCHANGED vars

-----------------------------------------------------------------------------
Tareas == DespertarDormidos \/ FinDespertarDormidos \/ ContarRodaja \/ ExpulsarProceso

Llamadas ==
    \/ \E pri \in PrioridadesCreadas : CrearProceso(pri)
    \/ TerminarProceso
    \/ Apagar
    \/ \E s \in Segundos : Sleep(s)

Next ==
    \/ InterrupcionReloj
    \/ EntrarSW \/ ObtenerTarea \/ SalirSW
    \/ Tareas
    \/ FinEspera
    \/ Llamadas \/ FinSleep
    \/ Apagado

Spec == Init /\ [][Next]_vars

(***************************************************************************)
(* Fairness: the clock is periodic, a software interrupt that can be       *)
(* delivered is, and the kernel's own code does not stop.  The loops of    *)
(* interrupcionSoftware and of the idle process end when they find the     *)
(* ring empty, even if the clock fills it again one instruction later,     *)
(* hence strong fairness for their exits.  Nothing is assumed of the       *)
(* programs.                                                               *)
(***************************************************************************)
FairnessCodigo ==
    /\ WF_vars(EntrarSW) /\ WF_vars(ObtenerTarea) /\ SF_vars(SalirSW)
    /\ WF_vars(Tareas) /\ SF_vars(FinEspera) /\ WF_vars(FinSleep)

Fairness == WF_vars(InterrupcionReloj) /\ FairnessCodigo

(* The clock is slow for the kernel (10 ms against a few tasks): time and  *)
(* again all the pending tasks get done before the next interrupt.         *)
RelojLento == []<>(listaTareasPend = <<>> /\ tarea = NULL)

SpecJusta == Spec /\ Fairness /\ RelojLento

-----------------------------------------------------------------------------
(* Properties                                                              *)

TypeOK ==
    /\ estado \in [Procesos -> Estados]
    /\ prioridad \in [Procesos -> Prioridades]
    /\ ticksDespertar \in [Procesos -> Nat]
    /\ rodaja \in [Procesos -> 0 .. TICKS_POR_RODAJA - 1]
    /\ contexto \in [Procesos -> Contextos]
    /\ procesoActual \in Procesos \cup {NULL}
    /\ listos \in [Prioridades -> Seq(Procesos)]
    /\ listaDurmiendo \in Seq(Procesos)
    /\ ticks \in Nat
    /\ listaTareasPend \in Seq(TareasNucleo)
    /\ intSW \in BOOLEAN
    /\ tarea \in TareasNucleo \cup {NULL}
    /\ modo \in Modos

(* The processes of a list, or of no list.                                 *)
Esperando == ToSet(listaDurmiendo)
EnCola(n) == ToSet(listos[n])

(***************************************************************************)
(* A process is linked into one list at most, and once: the single         *)
(* siguiente of its BCP is never overwritten while a list depends on it.   *)
(* The running process is in none, so a switch never runs it twice.        *)
(***************************************************************************)
UnaSolaLista ==
    /\ IsInjective(listaDurmiendo)
    /\ \A n \in Prioridades : IsInjective(listos[n])
    /\ EnCola(PRIORIDAD_NORMAL) \cap EnCola(PRIORIDAD_ALTA) = {}
    /\ \A n \in Prioridades : EnCola(n) \cap Esperando = {}
    /\ \A n \in Prioridades : procesoActual \notin EnCola(n) \cup Esperando

(***************************************************************************)
(* No process is forgotten: the state of a BCP tells which list holds it,  *)
(* whatever interrupt, task or call came last; a free slot is in none.     *)
(***************************************************************************)
EstadoSegunLista ==
    \A p \in Procesos \ {procesoActual} :
        /\ estado[p] = LISTO <=> \E n \in Prioridades : p \in EnCola(n)
        /\ estado[p] = BLOQUEADO <=> p \in Esperando
        /\ estado[p] # EJECUCION

(* procesoActual is a live process exactly when the CPU is not idle.       *)
ActualVivo ==
    /\ procesoActual = NULL <=> modo \in {"espera", "esperaFin"}
    /\ procesoActual # NULL => estado[procesoActual] \in {LISTO, EJECUCION}

Particion == UnaSolaLista /\ EstadoSegunLista /\ ActualVivo

(* The sleepers are in order of waking up, however the calls to sleep and  *)
(* the wake-ups interleave: despertarDormidos only looks at the first.     *)
DormidosOrdenados ==
    \A i, j \in DOMAIN listaDurmiendo :
        i < j => ticksDespertar[listaDurmiendo[i]] <= ticksDespertar[listaDurmiendo[j]]

(***************************************************************************)
(* A process whose time to wake up has passed is never left without a      *)
(* despertarDormidos on its way, even when the ring of pending tasks was   *)
(* full and the clock's tasks were discarded.                              *)
(***************************************************************************)
NingunRetraso ==
    (\E p \in Esperando : ticksDespertar[p] < ticks)
        => "despertarDormidos" \in ToSet(listaTareasPend) \cup {tarea}

(* Every process that calls sleep is made ready again.                     *)
TodoDormidoDespierta ==
    \A p \in Procesos : p \in Esperando ~> p \notin Esperando

(* A ready process of high priority gets the CPU, with any number of       *)
(* others: round robin within the queue, and the queue goes first.         *)
AltaEjecuta ==
    \A p \in Procesos : p \in EnCola(PRIORIDAD_ALTA) ~> procesoActual = p

(* A ready process of normal priority gets the CPU too, whatever the calls *)
(* of the others, unless there is some process of high priority.           *)
NormalEjecuta ==
    \A p \in Procesos :
        p \in EnCola(PRIORIDAD_NORMAL)
            ~> \/ procesoActual = p
               \/ \E q \in Procesos : estado[q] # NO_USADA /\ prioridad[q] = PRIORIDAD_ALTA

(* Every ready process runs, as far as the two priorities allow.           *)
ListoEjecuta == AltaEjecuta /\ NormalEjecuta

(* interrupcionSoftware: "mientras haya tareas en el buffer, ejecutarlas". *)
(* A program never runs with tasks left in the ring and no software        *)
(* interrupt on its way.  The code does not keep this: see the README.     *)
TareasAgotadas == EnUsuario => listaTareasPend = <<>>
=============================================================================
