------------------------------- MODULE Disco -------------------------------
(***************************************************************************)
(* The disk driver: modulo_disco.c with its queue of requests              *)
(* (listaPeticiones.c).  Requests wait in memory blocks of their own,      *)
(* shared by the processes that asked for the same disk block, and freed   *)
(* by the last of them to run again.                                       *)
(*                                                                         *)
(* A system call is left only by blocking, so what a process does between  *)
(* two waits is one step, whoever is chosen to run: the scheduler is       *)
(* Nucleo's, and here any process that is ready may go on.  The DMA of the *)
(* device ends at any moment.                                              *)
(***************************************************************************)
EXTENDS Integers, FiniteSets, SequencesExt

CONSTANTS
    Procesos,
    NumBloques,    \* blocks of the device
    Valores,       \* what a block may contain
    Escribe,       \* bound: per process, what it may write
    Direcciones,   \* bound: memory blocks malloc can return, as numbers
    MaxFallos,     \* bound: transfers that fail to start, interrupts lost
    NULL

Bloques == 0 .. NumBloques - 1

ASSUME DiscoAssumption ==
    /\ NumBloques \in Nat \ {0}
    /\ IsFiniteSet(Procesos)
    /\ Escribe \in [Procesos -> SUBSET Valores]
    /\ Direcciones \subseteq Nat /\ IsFiniteSet(Direcciones)
    /\ MaxFallos \in Nat
    /\ NULL \notin Direcciones

VARIABLES
    disco,           \* contents of the device
    dma,             \* "parado", "en curso", or "terminado": the interrupt is served
    tareaSW,         \* interrupcionSW is in the ring of pending tasks
    peticiones,      \* memory: the request at each address, NULL when free
    peticionActual,
    listaPeticiones,
    pide,            \* per process, the locals of its peticionBloque, NULL outside it
    fallos           \* history: transfers not started and interrupts lost

dispositivo == <<disco, dma, tareaSW>>
cola == <<peticiones, peticionActual, listaPeticiones>>
vars == <<dispositivo, cola, pide, fallos>>

(* crearDispositivo_disco.                                                 *)
Init ==
    /\ disco \in [Bloques -> Valores]
    /\ dma = "parado"
    /\ tareaSW = FALSE
    /\ peticiones = [d \in Direcciones |-> NULL]
    /\ peticionActual = NULL
    /\ listaPeticiones = <<>>
    /\ pide = [p \in Procesos |-> NULL]
    /\ fallos = 0

-----------------------------------------------------------------------------
(* Mutant: the request being served is looked at as well.                  *)
BuscarTambienActual(b) ==
    LET l == IF peticionActual = NULL THEN listaPeticiones
             ELSE Append(listaPeticiones, peticionActual)
        k == SelectInSeq(l, LAMBDA d : peticiones[d].numBloque = b)
    IN  IF k = 0 THEN NULL ELSE l[k]

(* Mutant: no request is ever found.                                       *)
BuscarSiempreNULL(b) == NULL

(* buscarListaPeticiones: a queued request for the block, or NULL.  The    *)
(* one being served is not in the list.                                    *)
BuscarListaPeticiones(b) ==
    LET k == SelectInSeq(listaPeticiones, LAMBDA d : peticiones[d].numBloque = b)
    IN  IF k = 0 THEN NULL ELSE listaPeticiones[k]

EnUsuario(p) == pide[p] = NULL

(* The process waits, with its request at d.                               *)
Esperar(p, op, b, v, d) ==
    pide' = [pide EXCEPT ![p] = [op |-> op, bloque |-> b, valor |-> v, peticion |-> d,
                                 estado |-> "BLOQUEADO"]]

(* Mutant: the number of processes of the request is not counted up.       *)
UnirseSinContar(p, op, b, v, d) ==
    /\ peticiones' = [peticiones EXCEPT
           ![d].listaProcesosBloqueados = Append(@, p),
           ![d].bloque = IF op = "escribir" THEN v ELSE @,
           ![d].operacion = IF op = "escribir" THEN op ELSE @]
    /\ UNCHANGED <<peticionActual, listaPeticiones, dma>>

(* Mutant: a write joins a queued read and leaves it a read.               *)
UnirseSinCambiarOperacion(p, op, b, v, d) ==
    /\ peticiones' = [peticiones EXCEPT
           ![d].numPeticiones = @ + 1,
           ![d].listaProcesosBloqueados = Append(@, p),
           ![d].bloque = IF op = "escribir" THEN v ELSE @]
    /\ UNCHANGED <<peticionActual, listaPeticiones, dma>>

(* peticionBloque_disco joins the queued request d; a write makes it a     *)
(* write of its own contents.                                              *)
UnirsePeticion(p, op, b, v, d) ==
    /\ peticiones' = [peticiones EXCEPT
           ![d].numPeticiones = @ + 1,
           ![d].listaProcesosBloqueados = Append(@, p),
           ![d].bloque = IF op = "escribir" THEN v ELSE @,
           ![d].operacion = IF op = "escribir" THEN op ELSE @]
    /\ UNCHANGED <<peticionActual, listaPeticiones, dma>>

(* peticionBloque_disco creates a request at d, a free address, and starts *)
(* its transfer or queues it.  lanzada: cfg_lectura_DMA or                 *)
(* cfg_escritura_DMA has not failed.                                       *)
CrearPeticion(p, op, b, v, d, lanzada) ==
    /\ peticiones' = [peticiones EXCEPT
           ![d] = [numBloque |-> b, operacion |-> op, numPeticiones |-> 1,
                   listaProcesosBloqueados |-> <<p>>,
                   bloque |-> IF op = "escribir" THEN v ELSE NULL]]
    /\ IF peticionActual = NULL
       THEN /\ peticionActual' = d
            /\ dma' = IF lanzada THEN "en curso" ELSE "parado"
            /\ UNCHANGED listaPeticiones
       ELSE /\ listaPeticiones' = Append(listaPeticiones, d)
            /\ UNCHANGED <<peticionActual, dma>>

(* The address malloc returns.                                             *)
Libre(d) ==
    /\ d \in Direcciones /\ peticiones[d] = NULL
    /\ \A e \in Direcciones : peticiones[e] = NULL => d <= e

(* peticionBloque_disco up to its context switch.                          *)
PeticionBloque(p, op, b, v) ==
    /\ EnUsuario(p)
    /\ LET d == BuscarListaPeticiones(b)
       IN  IF d # NULL
           THEN UnirsePeticion(p, op, b, v, d) /\ Esperar(p, op, b, v, d)
           ELSE \E e \in Direcciones :
                  Libre(e) /\ CrearPeticion(p, op, b, v, e, TRUE) /\ Esperar(p, op, b, v, e)
    /\ UNCHANGED <<disco, tareaSW, fallos>>

(* The same call when the transfer fails to start: it returns -1 and the   *)
(* process goes on, in a request that stays the current one.               *)
PeticionFallida(p, op, b, v) ==
    /\ EnUsuario(p) /\ BuscarListaPeticiones(b) = NULL /\ peticionActual = NULL
    /\ fallos < MaxFallos
    /\ fallos' = fallos + 1
    /\ \E e \in Direcciones : Libre(e) /\ CrearPeticion(p, op, b, v, e, FALSE)
    /\ UNCHANGED <<disco, tareaSW, pide>>

-----------------------------------------------------------------------------
(* The transfer ends: interrupcionHW_disco leaves a task, unless the ring  *)
(* of pending tasks is full.                                               *)
InterrupcionHW ==
    /\ dma = "en curso"
    /\ LET r == peticiones[peticionActual]
       IN  IF r.operacion = "escribir"
           THEN disco' = [disco EXCEPT ![r.numBloque] = r.bloque] /\ UNCHANGED peticiones
           ELSE /\ peticiones' = [peticiones EXCEPT
                                     ![peticionActual].bloque = disco[r.numBloque]]
                /\ UNCHANGED disco
    /\ dma' = "terminado"
    /\ \/ tareaSW' = TRUE /\ UNCHANGED fallos
       \/ fallos < MaxFallos /\ fallos' = fallos + 1 /\ UNCHANGED tareaSW
    /\ UNCHANGED <<peticionActual, listaPeticiones, pide>>

(* Mutant: only the first process of the request is woken.                 *)
DespertarPrimero(d) ==
    /\ peticiones' = [peticiones EXCEPT ![d].listaProcesosBloqueados = Tail(@)]
    /\ pide' = [pide EXCEPT
                  ![Head(peticiones[d].listaProcesosBloqueados)].estado = "LISTO"]

(* The end of interrupcionSW_disco: every process of the request is ready. *)
DespertarTodos(d) ==
    /\ peticiones' = [peticiones EXCEPT ![d].listaProcesosBloqueados = <<>>]
    /\ LET S == ToSet(peticiones[d].listaProcesosBloqueados)
       IN  pide' = [p \in Procesos |->
                      IF p \in S THEN [pide[p] EXCEPT !.estado = "LISTO"] ELSE pide[p]]

(* extraerListaPeticiones: the next request becomes the current one.       *)
ExtraerListaPeticiones ==
    IF listaPeticiones = <<>>
    THEN peticionActual' = NULL /\ UNCHANGED listaPeticiones
    ELSE peticionActual' = Head(listaPeticiones) /\ listaPeticiones' = Tail(listaPeticiones)

(* interrupcionSW_disco.                                                   *)
InterrupcionSW ==
    /\ tareaSW
    /\ tareaSW' = FALSE
    /\ ExtraerListaPeticiones
    /\ dma' = IF peticionActual' = NULL THEN "parado" ELSE "en curso"
    /\ DespertarTodos(peticionActual)
    /\ UNCHANGED <<disco, fallos>>

(* interrupcionSW_disco when the next transfer fails to start: it returns  *)
(* before it wakes anybody.                                                *)
InterrupcionSWFallida ==
    /\ tareaSW /\ listaPeticiones # <<>> /\ fallos < MaxFallos
    /\ tareaSW' = FALSE
    /\ ExtraerListaPeticiones
    /\ dma' = "parado"
    /\ fallos' = fallos + 1
    /\ UNCHANGED <<disco, peticiones, pide>>

-----------------------------------------------------------------------------
(* Mutant: the first process to run again frees the request.               *)
SoltarSiempre(d) == peticiones' = [peticiones EXCEPT ![d] = NULL]

(* The last process of the request frees it.                               *)
SoltarPeticion(d) ==
    IF peticiones[d].numPeticiones = 1
    THEN peticiones' = [peticiones EXCEPT ![d] = NULL]
    ELSE peticiones' = [peticiones EXCEPT ![d].numPeticiones = @ - 1]

(* peticionBloque_disco from its context switch: a read copies the block   *)
(* (Abstracta says which), the request is counted down, the call returns.  *)
Reanudar(p) ==
    /\ pide[p] # NULL /\ pide[p].estado = "LISTO"
    /\ SoltarPeticion(pide[p].peticion)
    /\ pide' = [pide EXCEPT ![p] = NULL]
    /\ UNCHANGED <<dispositivo, peticionActual, listaPeticiones, fallos>>

Next ==
    \/ \E p \in Procesos, b \in Bloques :
         \/ PeticionBloque(p, "leer", b, NULL)
         \/ \E v \in Escribe[p] : PeticionBloque(p, "escribir", b, v)
         \/ PeticionFallida(p, "leer", b, NULL)
         \/ \E v \in Escribe[p] : PeticionFallida(p, "escribir", b, v)
    \/ \E p \in Procesos : Reanudar(p)
    \/ InterrupcionHW
    \/ InterrupcionSW
    \/ InterrupcionSWFallida

Spec == Init /\ [][Next]_vars

(* The device ends its transfers, pending tasks are executed, and a ready  *)
(* process gets the CPU (NormalEjecuta of Nucleo).                         *)
Justicia ==
    /\ WF_vars(InterrupcionHW)
    /\ WF_vars(InterrupcionSW \/ InterrupcionSWFallida)
    /\ \A p \in Procesos : WF_vars(Reanudar(p))

SpecJusta == Spec /\ Justicia

-----------------------------------------------------------------------------
(* Properties                                                              *)

Operaciones == {"leer", "escribir"}
Peticion == [numBloque : Bloques, operacion : Operaciones, bloque : Valores \cup {NULL},
             numPeticiones : Nat \ {0},
             listaProcesosBloqueados : Seq(Procesos)]
Pide == [op : Operaciones, bloque : Bloques, valor : Valores \cup {NULL},
         peticion : Direcciones, estado : {"BLOQUEADO", "LISTO"}]

(* NULL is none of the records there are.                                  *)
ASSUME NULLAssumption ==
    NULL \notin Peticion \cup Pide
                  \cup [op : Operaciones, bloque : Bloques, valor : Valores \cup {NULL},
                        hecha : BOOLEAN]

Ocupadas == {d \in Direcciones : peticiones[d] # NULL}

(* Types.  A request counts no more processes than there are, and a queue  *)
(* is never longer than the blocks: requests for one block are merged.     *)
TypeOKDisco ==
    /\ disco \in [Bloques -> Valores]
    /\ dma \in {"parado", "en curso", "terminado"} /\ tareaSW \in BOOLEAN
    /\ peticiones \in [Direcciones -> Peticion \cup {NULL}]
    /\ \A d \in Ocupadas : peticiones[d].numPeticiones <= Cardinality(Procesos)
    /\ peticionActual \in Direcciones \cup {NULL}
    /\ listaPeticiones \in Seq(Direcciones) /\ Len(listaPeticiones) <= NumBloques
    /\ pide \in [Procesos -> Pide \cup {NULL}]
    /\ fallos \in 0 .. MaxFallos

Usuarios(d) == {p \in Procesos : pide[p] # NULL /\ pide[p].peticion = d}

(* The request whose first transfer failed is left to a process that went  *)
(* on.                                                                     *)
Abandonada(d) == d = peticionActual /\ dma = "parado" /\ Usuarios(d) = {} /\ fallos > 0

(* The memory of requests (peticionBloque_disco, lines 189 and 275 to 281):*)
(* the request a process waits in or wakes up from is still allocated, its *)
(* count is the number of those processes, however joins, wake-ups and     *)
(* returns interleave, and none is left behind when they have all gone.    *)
ReferenciasExactas ==
    /\ \A p \in Procesos : pide[p] # NULL => pide[p].peticion \in Ocupadas
    /\ \A d \in Ocupadas :
          Abandonada(d) \/ peticiones[d].numPeticiones = Cardinality(Usuarios(d))

(* Who waits is in the list of one request, its own, and that request is   *)
(* the current one or a queued one, so that interrupcionSW_disco will come *)
(* to it.  A next transfer that fails to start is the exception: it leaves *)
(* the processes of the ended one waiting in a request nobody knows.       *)
ColaCoherente ==
    /\ IsInjective(listaPeticiones) /\ peticionActual \notin ToSet(listaPeticiones)
    /\ \A d \in Ocupadas : ~Abandonada(d) =>
          /\ IsInjective(peticiones[d].listaProcesosBloqueados)
          /\ ToSet(peticiones[d].listaProcesosBloqueados) =
                {p \in Usuarios(d) : pide[p].estado = "BLOQUEADO"}
          /\ peticiones[d].listaProcesosBloqueados # <<>> =>
                d = peticionActual \/ d \in ToSet(listaPeticiones) \/ fallos > 0
    /\ listaPeticiones # <<>> => peticionActual # NULL

(* What the processes see: a request is done when its transfer is.         *)
Hecha(d) ==
    /\ d \notin ToSet(listaPeticiones)
    /\ d = peticionActual => dma = "terminado"

EnServicio(b) ==
    /\ peticionActual # NULL /\ peticiones[peticionActual].numBloque = b
    /\ dma # "terminado" /\ ~Abandonada(peticionActual)

Lista(d) == IF d = NULL THEN <<>> ELSE peticiones[d].listaProcesosBloqueados

(* Who waits for block b: the request in service first, then the queued.   *)
EnEspera(b) ==
    Lista(IF EnServicio(b) THEN peticionActual ELSE NULL) \o Lista(BuscarListaPeticiones(b))

(* What process p has asked, as it sees it.                                *)
Vista(p) ==
    IF pide[p] = NULL THEN NULL
    ELSE LET d == pide[p].peticion
         IN  [op |-> pide[p].op, bloque |-> pide[p].bloque, hecha |-> Hecha(d),
              valor |-> IF Hecha(d) THEN peticiones[d].bloque ELSE pide[p].valor]

Abstracta == INSTANCE BloquesAtomicos WITH
    espera <- [b \in Bloques |-> EnEspera(b)],
    peticion <- [p \in Procesos |-> Vista(p)]

(* Queue, merging and shared requests are invisible: each read and write   *)
(* of a block takes effect once between call and return, those of a block  *)
(* in the order of their calls, and a read gets what the device then had,  *)
(* even when it copies it long after.                                      *)
ImplementaBloques == Abstracta!Spec

(* A process that asks for a block goes on some day, unless a transfer     *)
(* failed to start or an interrupt was lost: the driver has no retry.      *)
TodaPeticionTermina == \A p \in Procesos : pide[p] # NULL ~> pide[p] = NULL \/ fallos > 0
=============================================================================
