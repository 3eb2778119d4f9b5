--------------------------- MODULE CadenaMontaje ---------------------------
(***************************************************************************)
(* The assembly line of cadena_montaje.c: a father and three children that *)
(* turn a file into lower case block by block, joined by two POSIX message *)
(* queues.  A queue has a name, which anybody may remove and create again, *)
(* and lives while it has the name or a process has it open; the name      *)
(* outlives the program, which may be killed and launched again.           *)
(***************************************************************************)
EXTENDS Integers, SequencesExt

CONSTANTS
    FILE_BLOCK, QUEUE_MAX_MSGS,
    Entradas,         \* bound: contents of the input file
    Minuscula,        \* tolower
    MaxErrores,       \* bound: system calls of the children that fail
    MaxLanzamientos,  \* bound: times the program is launched
    SIN_COLA          \* NULL, or a descriptor not opened yet

Hijos == 1 .. 3
Nombres == 1 .. 2              \* QUEUE_1, QUEUE_2
Colas == Nombres \X Hijos      \* a queue, by its name and who created it

ASSUME CadenaAssumption ==
    /\ FILE_BLOCK \in Nat \ {0} /\ QUEUE_MAX_MSGS \in Nat \ {0}
    /\ Entradas \subseteq Seq(DOMAIN Minuscula) \ {<<>>}
    /\ MaxErrores \in Nat /\ MaxLanzamientos \in Nat \ {0}
    /\ SIN_COLA \notin Colas

FIN == 4
ERROR == 5

VARIABLES
    nombre,    \* the queue each name stands for, or SIN_COLA
    cola,      \* per queue, its messages
    padre,     \* children created so far, FIN, or ERROR if a fork failed
    fase,      \* per child, the call it is at
    entra, sale,   \* per child, the queues it has open
    quedan,    \* per child, iterations left
    bytes,     \* per child, the block it has received
    porLeer,   \* what is left of the input file
    entrada, salida,
    limpio,    \* history: there were no queues when the program was launched
    errores, lanzamientos

hijos == <<fase, entra, sale, quedan, bytes>>
varsCadena ==
    <<nombre, cola, padre, hijos, porLeer, entrada, salida, limpio, errores, lanzamientos>>

(* main has checked that the input file exists and is not empty.           *)
Lanzado ==
    /\ padre = 0
    /\ fase = [p \in Hijos |-> "no_creado"]
    /\ entra = [p \in Hijos |-> SIN_COLA] /\ sale = [p \in Hijos |-> SIN_COLA]
    /\ quedan = [p \in Hijos |-> 0]
    /\ bytes = [p \in Hijos |-> <<>>]
    /\ salida = <<>>

InitCadena ==
    /\ Lanzado
    /\ nombre = [q \in Nombres |-> SIN_COLA]
    /\ cola = [c \in Colas |-> <<>>]
    /\ entrada \in Entradas /\ porLeer = entrada
    /\ limpio = TRUE /\ errores = 0 /\ lanzamientos = 1

-----------------------------------------------------------------------------
(* The father                                                              *)

(* cadena_montaje: the next fork.                                          *)
Fork ==
    /\ padre \in 0 .. 2
    /\ padre' = padre + 1
    /\ fase' = [fase EXCEPT ![padre + 1] = "abre"]
    /\ UNCHANGED <<nombre, cola, entra, sale, quedan, bytes, porLeer, entrada, salida,
                   limpio, errores, lanzamientos>>

(* A fork that fails: the father ends, and its children go on.             *)
ForkFalla ==
    /\ padre \in 0 .. 2 /\ errores < MaxErrores
    /\ padre' = ERROR /\ errores' = errores + 1
    /\ UNCHANGED <<nombre, cola, hijos, porLeer, entrada, salida, limpio, lanzamientos>>

(* Three calls to waitpid.                                                 *)
EsperarHijos ==
    /\ padre = 3
    /\ \A p \in Hijos : fase[p] \in {"fin", "error"}
    /\ padre' = FIN
    /\ UNCHANGED <<nombre, cola, hijos, porLeer, entrada, salida, limpio, errores, lanzamientos>>

-----------------------------------------------------------------------------
(* Messages and queues                                                     *)

(* The number of iterations as four chars, and back: the last one is       *)
(* shifted by 8, where the mask leaves nothing of a number below 128, and  *)
(* the sign of one above.                                                  *)
Codificar(n) == <<n % 256, (n \div 256) % 256, (n \div 65536) % 256, (n \div 16777216) % 256>>

Decodificar(b) ==
    b[1] + 256 * b[2] + 65536 * b[3] - (IF b[4] < 128 THEN 0 ELSE 16777216)

(* Mutant: a last block that is not full is not counted.                   *)
IteracionesEnteras(n) == IF n < FILE_BLOCK THEN 1 ELSE n \div FILE_BLOCK

(* Blocks of a file of n bytes; one more, empty, when they are all full.   *)
BloquesDe(n) == n \div FILE_BLOCK + 1

MensajeIter(n) == [iter |-> TRUE, bytes |-> Codificar(n)]
MensajeDatos(s) == [iter |-> FALSE, bytes |-> s]

(* Mutant: the queue is unlinked as soon as it is open.                    *)
AbrirYBorrar(p, q) ==
    LET c == IF nombre[q] # SIN_COLA THEN nombre[q] ELSE <<q, p>>
    IN  /\ nombre' = [nombre EXCEPT ![q] = SIN_COLA]
        /\ cola' = IF nombre[q] # SIN_COLA THEN cola ELSE [cola EXCEPT ![c] = <<>>]

(* mq_open with O_CREAT.                                                   *)
Abrir(p, q) ==
    LET c == IF nombre[q] # SIN_COLA THEN nombre[q] ELSE <<q, p>>
    IN  /\ nombre' = [nombre EXCEPT ![q] = c]
        /\ cola' = IF nombre[q] # SIN_COLA THEN cola ELSE [cola EXCEPT ![c] = <<>>]

Abierta(p, q) == IF nombre[q] # SIN_COLA THEN nombre[q] ELSE <<q, p>>

(* mq_send and mq_receive, which wait for room and for a message.          *)
Enviar(c, m) ==
    /\ Len(cola[c]) < QUEUE_MAX_MSGS
    /\ cola' = [cola EXCEPT ![c] = Append(@, m)]
Recibir(c) ==
    /\ cola[c] # <<>>
    /\ cola' = [cola EXCEPT ![c] = Tail(@)]

Pasa(p, a, b) == fase[p] = a /\ fase' = [fase EXCEPT ![p] = b]

(* Mutant: the loop goes on to i = iter.                                   *)
IteraUnaMas(p, a, b, s) ==
    /\ Pasa(p, a, IF quedan[p] > 0 THEN b ELSE s)
    /\ quedan' = [quedan EXCEPT ![p] = @ - 1]

(* An iteration of p ends: to the next one, or out of the loop.            *)
Itera(p, a, b, s) ==
    /\ Pasa(p, a, IF quedan[p] > 1 THEN b ELSE s)
    /\ quedan' = [quedan EXCEPT ![p] = @ - 1]

(* Mutant: nobody removes the first queue.                                 *)
BorrarLaSegunda(q) == nombre' = IF q = 2 THEN [nombre EXCEPT ![q] = SIN_COLA] ELSE nombre

(* mq_unlink.                                                              *)
Borrar(q) == nombre' = [nombre EXCEPT ![q] = SIN_COLA]

-----------------------------------------------------------------------------
(* funcion_proceso1                                                        *)

AbrirEntrada ==
    /\ Pasa(1, "abre", "cabecera")
    /\ Abrir(1, 1)
    /\ sale' = [sale EXCEPT ![1] = Abierta(1, 1)]
    /\ UNCHANGED <<padre, entra, quedan, bytes, porLeer, entrada, salida,
                   limpio, errores, lanzamientos>>

EnviarIter1 ==
    LET iter == BloquesDe(Len(entrada))
    IN  /\ Pasa(1, "cabecera", "bloque")
        /\ Enviar(sale[1], MensajeIter(iter))
        /\ quedan' = [quedan EXCEPT ![1] = iter]
        /\ UNCHANGED <<nombre, padre, entra, sale, bytes, porLeer, entrada, salida,
                       limpio, errores, lanzamientos>>

(* A read of up to FILE_BLOCK bytes and their message.  After the last one *)
(* the queue is closed and the child ends.                                 *)
EnviarBloque1 ==
    LET n == IF Len(porLeer) < FILE_BLOCK THEN Len(porLeer) ELSE FILE_BLOCK
    IN  /\ Itera(1, "bloque", "bloque", "fin")
        /\ Enviar(sale[1], MensajeDatos(SubSeq(porLeer, 1, n)))
        /\ porLeer' = SubSeq(porLeer, n + 1, Len(porLeer))
        /\ UNCHANGED <<nombre, padre, entra, sale, bytes, entrada, salida,
                       limpio, errores, lanzamientos>>

-----------------------------------------------------------------------------
(* funcion_proceso2                                                        *)

AbrirCola1 ==
    /\ Pasa(2, "abre", "abre_otra")
    /\ Abrir(2, 1)
    /\ entra' = [entra EXCEPT ![2] = Abierta(2, 1)]
    /\ UNCHANGED <<padre, sale, quedan, bytes, porLeer, entrada, salida,
                   limpio, errores, lanzamientos>>

AbrirCola2 ==
    /\ Pasa(2, "abre_otra", "cabecera")
    /\ Abrir(2, 2)
    /\ sale' = [sale EXCEPT ![2] = Abierta(2, 2)]
    /\ UNCHANGED <<padre, entra, quedan, bytes, porLeer, entrada, salida,
                   limpio, errores, lanzamientos>>

(* The first message of the queue of p is the number of iterations.  One   *)
(* left by another launch may be a block, longer than the buffer: what the *)
(* child does then is undefined, and it is left there.                     *)
RecibirIter(p, b) ==
    /\ fase[p] = "cabecera" /\ Recibir(entra[p])
    /\ LET m == Head(cola[entra[p]])
       IN  IF m.iter
           THEN /\ Pasa(p, "cabecera", b)
                /\ quedan' = [quedan EXCEPT ![p] = Decodificar(m.bytes)]
           ELSE Pasa(p, "cabecera", "indefinido") /\ UNCHANGED quedan
    /\ UNCHANGED <<nombre, padre, entra, sale, bytes, porLeer, entrada, salida,
                   limpio, errores, lanzamientos>>

ReenviarIter ==
    /\ Pasa(2, "reenvia", "recibe")
    /\ Enviar(sale[2], MensajeIter(quedan[2]))
    /\ UNCHANGED <<nombre, padre, entra, sale, quedan, bytes, porLeer, entrada, salida,
                   limpio, errores, lanzamientos>>

(* A block, in lower case; what is no letter stays.                        *)
RecibirBloque2 ==
    LET m == Head(cola[entra[2]])
    IN  /\ Pasa(2, "recibe", "envia")
        /\ Recibir(entra[2])
        /\ bytes' = [bytes EXCEPT ![2] =
               IF m.iter THEN m.bytes
               ELSE [k \in DOMAIN m.bytes |-> Minuscula[m.bytes[k]]]]
        /\ UNCHANGED <<nombre, padre, entra, sale, quedan, porLeer, entrada, salida,
                       limpio, errores, lanzamientos>>

EnviarBloque2 ==
    /\ Itera(2, "envia", "recibe", "cierra")
    /\ Enviar(sale[2], MensajeDatos(bytes[2]))
    /\ bytes' = [bytes EXCEPT ![2] = <<>>]
    /\ UNCHANGED <<nombre, padre, entra, sale, porLeer, entrada, salida,
                   limpio, errores, lanzamientos>>

(* The ends of funcion_proceso2 and funcion_proceso3: each removes the     *)
(* queue it has received from.                                             *)
CerrarColas(p) ==
    /\ Pasa(p, "cierra", "fin")
    /\ Borrar(p - 1)
    /\ UNCHANGED <<cola, padre, entra, sale, quedan, bytes, porLeer, entrada, salida,
                   limpio, errores, lanzamientos>>

-----------------------------------------------------------------------------
(* funcion_proceso3                                                        *)

AbrirSalida ==
    /\ Pasa(3, "abre", "cabecera")
    /\ Abrir(3, 2)
    /\ entra' = [entra EXCEPT ![3] = Abierta(3, 2)]
    /\ UNCHANGED <<padre, sale, quedan, bytes, porLeer, entrada, salida,
                   limpio, errores, lanzamientos>>

(* A block received and written.                                           *)
RecibirBloque3 ==
    /\ Itera(3, "recibe", "recibe", "cierra")
    /\ Recibir(entra[3])
    /\ salida' = salida \o Head(cola[entra[3]]).bytes
    /\ UNCHANGED <<nombre, padre, entra, sale, bytes, porLeer, entrada,
                   limpio, errores, lanzamientos>>

-----------------------------------------------------------------------------
(* A call of child p fails: it removes both queues and ends; the second    *)
(* child, when it cannot open them, only ends.                             *)
Falla(p) ==
    /\ errores < MaxErrores /\ errores' = errores + 1
    /\ fase[p] \notin {"no_creado", "cierra", "fin", "error", "indefinido"}
    /\ fase' = [fase EXCEPT ![p] = "error"]
    /\ nombre' = IF p = 2 /\ fase[p] \in {"abre", "abre_otra"} THEN nombre
                 ELSE [q \in Nombres |-> SIN_COLA]
    /\ UNCHANGED <<cola, padre, entra, sale, quedan, bytes, porLeer, entrada, salida,
                   limpio, lanzamientos>>

(* The program has ended, or is killed with its children, and is launched  *)
(* again; queues with a name are still there.                              *)
Relanzar ==
    /\ lanzamientos < MaxLanzamientos
    /\ lanzamientos' = lanzamientos + 1
    /\ limpio' = (\A q \in Nombres : nombre[q] = SIN_COLA)
    /\ cola' = [c \in Colas |-> IF \E q \in Nombres : nombre[q] = c THEN cola[c] ELSE <<>>]
    /\ padre' = 0
    /\ fase' = [p \in Hijos |-> "no_creado"]
    /\ entra' = [p \in Hijos |-> SIN_COLA] /\ sale' = [p \in Hijos |-> SIN_COLA]
    /\ quedan' = [p \in Hijos |-> 0]
    /\ bytes' = [p \in Hijos |-> <<>>]
    /\ salida' = <<>>
    /\ entrada' \in Entradas /\ porLeer' = entrada'
    /\ UNCHANGED <<nombre, errores>>

PasoHijo(p) ==
    \/ p = 1 /\ (AbrirEntrada \/ EnviarIter1 \/ EnviarBloque1)
    \/ p = 2 /\ (AbrirCola1 \/ AbrirCola2 \/ RecibirIter(2, "reenvia") \/ ReenviarIter
                 \/ RecibirBloque2 \/ EnviarBloque2 \/ CerrarColas(2))
    \/ p = 3 /\ (AbrirSalida \/ RecibirIter(3, "recibe") \/ RecibirBloque3 \/ CerrarColas(3))

NextCadena ==
    \/ Fork \/ ForkFalla \/ EsperarHijos
    \/ \E p \in Hijos : PasoHijo(p) \/ Falla(p)
    \/ Relanzar

SpecCadena == InitCadena /\ [][NextCadena]_varsCadena

(* The processes run; nobody has to kill the program or make a call fail.  *)
JusticiaCadena ==
    /\ WF_varsCadena(Fork \/ EsperarHijos)
    /\ \A p \in Hijos : WF_varsCadena(PasoHijo(p))

SpecCadenaJusta == SpecCadena /\ JusticiaCadena

-----------------------------------------------------------------------------
(* Properties                                                              *)

EnMinusculas(s) == [k \in DOMAIN s |-> Minuscula[s[k]]]
Acabado == \A p \in Hijos : fase[p] = "fin"

(* What the output file has is at every moment the beginning of the input  *)
(* in lower case, whatever child fails and however late another opens its  *)
(* queue, and all of it when the three children end well.  Only a program  *)
(* that found queues of an earlier launch may do otherwise.                *)
SalidaCorrecta ==
    limpio =>
        /\ IsPrefix(salida, EnMinusculas(entrada))
        /\ Acabado => salida = EnMinusculas(entrada)

(* Types; a queue is never over its size, a child that waits on one has it *)
(* open, and one in the loop has iterations left: with none it would wait  *)
(* for a block that nobody sends.                                          *)
TypeOKCadena ==
    /\ nombre \in [Nombres -> Colas \cup {SIN_COLA}]
    /\ \A c \in Colas : Len(cola[c]) <= QUEUE_MAX_MSGS
    /\ padre \in 0 .. 3 \cup {FIN, ERROR}
    /\ entra \in [Hijos -> Colas \cup {SIN_COLA}] /\ sale \in [Hijos -> Colas \cup {SIN_COLA}]
    /\ quedan \in [Hijos -> Nat]
    /\ \A p \in Hijos :
          /\ fase[p] \in {"bloque", "reenvia", "envia"} => sale[p] # SIN_COLA
          /\ fase[p] \in {"recibe", "envia"} => entra[p] # SIN_COLA /\ quedan[p] > 0
    /\ errores \in 0 .. MaxErrores /\ lanzamientos \in 1 .. MaxLanzamientos

(* A program that started with no queues and whose children end well       *)
(* leaves none (mq_unlink at lines 276 and 344), so that the next launch   *)
(* starts with none.                                                       *)
ColasBorradas == limpio /\ Acabado => \A q \in Nombres : nombre[q] = SIN_COLA

(* A child that has a call to make which does not wait.                    *)
PuedeSeguir(p) ==
    \/ fase[p] \in {"abre", "abre_otra", "cierra"}
    \/ fase[p] \in {"bloque", "reenvia", "envia"} /\ Len(cola[sale[p]]) < QUEUE_MAX_MSGS
    \/ fase[p] = "recibe" /\ cola[entra[p]] # <<>>
    \/ fase[p] = "cabecera" /\ IF p = 1 THEN Len(cola[sale[p]]) < QUEUE_MAX_MSGS
                                         ELSE cola[entra[p]] # <<>>

(* The children never wait all for one another, over full and empty        *)
(* queues, if no call fails and no queue was left: one of them can go on,  *)
(* or they have ended and the father too, or the father has to create one. *)
SinEsperaMutua ==
    limpio /\ errores = 0 =>
        \/ padre \in 0 .. 2 \cup {FIN}
        \/ \A p \in Hijos : fase[p] = "fin"
        \/ \E p \in Hijos : PuedeSeguir(p)

(* The children neither wait for each other for ever nor leave the father  *)
(* waiting, for any size of file and of queue, if no call fails and no     *)
(* queue was left: O_CREAT in each makes the order in which they open them *)
(* indifferent.                                                            *)
CadenaTermina == <>[](padre = FIN \/ errores > 0 \/ ~limpio)
=============================================================================
