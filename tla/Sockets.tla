------------------------------ MODULE Sockets ------------------------------
(***************************************************************************)
(* The text service over TCP of Sockets 1 and Sockets 2 (server.c and      *)
(* client.c): a main thread that accepts, one thread per connection, and   *)
(* clients that send one command at a time.  swap, hash and check send a   *)
(* header and then the blocks of a file, each answered before the next.    *)
(*                                                                         *)
(* Both versions have the same code but for what the server reads: in the  *)
(* first one up to SOCK_BUFFER bytes, which take all that has arrived; in  *)
(* the second one a single read asks for one byte for the command, for the *)
(* rest of the header, or for one block.  A connection carries what each   *)
(* of these reads asks for: what a write sends is assumed to arrive whole, *)
(* since no read is repeated when it gets less.                            *)
(***************************************************************************)
EXTENDS Integers, SequencesExt

CONSTANTS
    Clientes,
    Ficheros,        \* bound: contents of files, as sequences of chars, which are signed
    Letras,          \* the chars that are letters
    BUFFER,          \* SWAP_BUFFER, HASH_BUFFER, CHECK_BUFFER
    HASH_MOD,
    UINT,            \* 2^32: an unsigned int is below it
    Hashes,          \* bound: hashes given to check
    MaxOrdenes,      \* bound: commands in all
    MaxFallos,       \* bound: threads not created, reads of a file that fail
    NULL

ASSUME SocketsAssumption ==
    /\ BUFFER \in Nat \ {0} /\ HASH_MOD \in Nat \ {0}
    /\ UINT \in Nat /\ HASH_MOD * (BUFFER + 1) <= UINT /\ Hashes \subseteq 0 .. UINT - 1
    /\ Ficheros \subseteq Seq(Int) \ {<<>>}
    /\ MaxOrdenes \in Nat /\ MaxFallos \in Nat

Simples == {"ping", "stat"}
ConFichero == {"swap", "hash", "check"}
Ordenes == Simples \cup ConFichero
CHECK_OK == 0
CHECK_FAIL == 1

VARIABLES
    exacta,      \* the server is the one of Sockets 2
    pendientes,  \* connections not accepted yet, in order
    principal,   \* the main thread: "acepta", or "espera" in thread_ready
    busy,
    hilo,        \* per client, the thread of its connection
    stats,       \* per client, the local array of its thread
    ida, vuelta, \* per client, what is in the connection each way
    cliente,     \* per client, its locals
    hechas,      \* history: per client, the commands ended, by command
    fallida,     \* history: per client, a command broken by its own file
    fallos       \* history: threads not created and files not read

servidor == <<exacta, pendientes, principal, busy>>
conexion == <<hilo, stats, ida, vuelta>>
vars == <<servidor, conexion, cliente, hechas, fallida, fallos>>

Ninguna == [fase |-> "ninguno", op |-> NULL, i |-> 0, iter |-> 0, hash |-> 0, global |-> 0]
Cero == [o \in Ordenes |-> 0]

(* The locals of a client; f_check starts with check at 0.                 *)
Locales(fase, op, f, h, n) ==
    [fase |-> fase, op |-> op, fichero |-> f, i |-> 0, hash |-> h,
     calc |-> 0, global |-> 0, check |-> CHECK_OK, ordenes |-> n]

Init ==
    /\ exacta \in BOOLEAN
    /\ pendientes = <<>> /\ principal = "acepta" /\ busy = TRUE
    /\ hilo = [c \in Clientes |-> Ninguna]
    /\ stats = [c \in Clientes |-> Cero]
    /\ ida = [c \in Clientes |-> <<>>] /\ vuelta = [c \in Clientes |-> <<>>]
    /\ cliente = [c \in Clientes |-> Locales("fuera", NULL, <<>>, 0, 0)]
    /\ hechas = [c \in Clientes |-> Cero]
    /\ fallida = [c \in Clientes |-> FALSE]
    /\ fallos = 0

-----------------------------------------------------------------------------
(* The blocks of a file                                                    *)

Iteraciones(f) == Len(f) \div BUFFER + 1

(* Block i of a file, from 0; the last one may be empty.                   *)
Bloque(f, i) ==
    SubSeq(f, i * BUFFER + 1, IF (i + 1) * BUFFER < Len(f) THEN (i + 1) * BUFFER ELSE Len(f))

(* What a char adds: one if it is a letter, whose case changes, or its     *)
(* remainder, which for a negative char is not positive.                   *)
Peso(op, x) ==
    IF op = "swap" THEN IF x \in Letras THEN 1 ELSE 0
    ELSE IF x < 0 THEN - ((- x) % HASH_MOD) ELSE x % HASH_MOD

(* What a sequence of chars adds, one by one.                              *)
Suma(op, s) ==
    LET suma[n \in 0 .. Len(s)] == IF n = 0 THEN 0 ELSE suma[n - 1] + Peso(op, s[n])
    IN  suma[Len(s)]

(* The local total of a block, an unsigned int, and the total with it.     *)
Local(op, s) == Suma(op, s) % UINT

Modulo(op) == IF op = "swap" THEN UINT ELSE HASH_MOD
Acumular(op, total, n) == ((total + n) % UINT) % Modulo(op)

-----------------------------------------------------------------------------
(* The main thread and the start of a connection                           *)

Conectar(c) ==
    /\ cliente[c].fase = "fuera"
    /\ cliente' = [cliente EXCEPT ![c].fase = "orden"]
    /\ pendientes' = Append(pendientes, c)
    /\ UNCHANGED <<exacta, principal, busy, conexion, hechas, fallida, fallos>>

(* main: accept and pthread_create.                                        *)
Aceptar ==
    /\ principal = "acepta" /\ pendientes # <<>>
    /\ pendientes' = Tail(pendientes)
    /\ principal' = "espera"
    /\ hilo' = [hilo EXCEPT ![Head(pendientes)].fase = "creado"]
    /\ UNCHANGED <<exacta, busy, stats, ida, vuelta, cliente, hechas, fallida, fallos>>

(* pthread_create fails, with a code that is not the -1 that is compared:  *)
(* main waits for a thread that does not exist.                            *)
AceptarSinHilo ==
    /\ principal = "acepta" /\ pendientes # <<>> /\ fallos < MaxFallos
    /\ pendientes' = Tail(pendientes)
    /\ principal' = "espera"
    /\ fallos' = fallos + 1
    /\ UNCHANGED <<exacta, busy, conexion, cliente, hechas, fallida>>

(* Mutant: main does not set busy again.                                   *)
SeguirSinMarcar ==
    /\ principal = "espera" /\ ~busy
    /\ principal' = "acepta"
    /\ UNCHANGED <<exacta, busy, pendientes, conexion, cliente, hechas, fallida, fallos>>

(* main leaves its wait; busy is set without the mutex, when no thread is  *)
(* starting.                                                               *)
SeguirAceptando ==
    /\ principal = "espera" /\ ~busy
    /\ busy' = TRUE
    /\ principal' = "acepta"
    /\ UNCHANGED <<exacta, pendientes, conexion, cliente, hechas, fallida, fallos>>

(* client_func takes its argument.                                         *)
EmpezarHilo(c) ==
    /\ hilo[c].fase = "creado"
    /\ hilo' = [hilo EXCEPT ![c].fase = "orden"]
    /\ busy' = FALSE
    /\ UNCHANGED <<exacta, pendientes, principal, stats, ida, vuelta, cliente, hechas, fallida, fallos>>

-----------------------------------------------------------------------------
(* The client                                                              *)

(* A command begins.  Bound: none after one broken half way.               *)
Libre(c) ==
    /\ cliente[c].fase = "orden" /\ ~fallida[c]
    /\ MapThenSumSet(LAMBDA d : cliente[d].ordenes, Clientes) < MaxOrdenes

(* f_ping and f_stat up to their read.                                     *)
PedirSimple(c, op) ==
    /\ Libre(c)
    /\ ida' = [ida EXCEPT ![c] = Append(@, [codigo |-> op])]
    /\ cliente' = [cliente EXCEPT ![c] = Locales("espera", op, <<>>, 0, @.ordenes + 1)]
    /\ UNCHANGED <<servidor, hilo, stats, vuelta, hechas, fallida, fallos>>

(* f_swap, f_hash and f_check up to their loop: the code and the rest of   *)
(* the header, in one write.                                               *)
PedirFichero(c, op, f, h) ==
    /\ Libre(c)
    /\ ida' = [ida EXCEPT ![c] = @ \o <<[codigo |-> op],
                                        [codigo |-> "resto", iter |-> Iteraciones(f), hash |-> h]>>]
    /\ cliente' = [cliente EXCEPT ![c] = Locales("itera", op, f, h, @.ordenes + 1)]
    /\ UNCHANGED <<servidor, hilo, stats, vuelta, hechas, fallida, fallos>>

(* The next block of the loop, sent.                                       *)
EnviarBloque(c) ==
    LET k == cliente[c]
    IN  /\ k.fase = "itera"
        /\ ida' = [ida EXCEPT ![c] =
               Append(@, [codigo |-> "iter", id |-> k.i, texto |-> Bloque(k.fichero, k.i)])]
        /\ cliente' = [cliente EXCEPT ![c].fase = "esperaIter"]
        /\ UNCHANGED <<servidor, hilo, stats, vuelta, hechas, fallida, fallos>>

(* The file cannot be read: the command ends with the header sent and a    *)
(* server that waits for the blocks.                                       *)
FalloFichero(c) ==
    /\ cliente[c].fase = "itera" /\ fallos < MaxFallos
    /\ fallos' = fallos + 1
    /\ fallida' = [fallida EXCEPT ![c] = TRUE]
    /\ cliente' = [cliente EXCEPT ![c].fase = "orden"]
    /\ UNCHANGED <<servidor, conexion, hechas>>

(* The answer to f_ping or f_stat.                                         *)
RecibirSimple(c) ==
    /\ cliente[c].fase = "espera" /\ vuelta[c] # <<>>
    /\ vuelta' = [vuelta EXCEPT ![c] = Tail(@)]
    /\ cliente' = [cliente EXCEPT ![c].fase = "orden"]
    /\ hechas' = [hechas EXCEPT ![c][cliente[c].op] = @ + 1]
    /\ UNCHANGED <<servidor, hilo, stats, ida, fallida, fallos>>

(* The answer to a block: the client makes its own total.  One that is not *)
(* of this block breaks the loop.                                          *)
RecibirBloque(c) ==
    LET k == cliente[c]
        r == Head(vuelta[c])
        ultimo == k.i + 1 = Iteraciones(k.fichero)
        mal == r.codigo # k.op \/ r.id # k.i
    IN  /\ k.fase = "esperaIter" /\ vuelta[c] # <<>>
        /\ vuelta' = [vuelta EXCEPT ![c] = Tail(@)]
        /\ IF mal
           THEN /\ cliente' = [cliente EXCEPT ![c].fase = "orden"]
                /\ fallida' = [fallida EXCEPT ![c] = TRUE]
                /\ UNCHANGED hechas
           ELSE /\ cliente' = [cliente EXCEPT
                       ![c].fase = IF ultimo THEN "orden" ELSE "itera",
                       ![c].i = @ + 1,
                       ![c].calc = Acumular(k.op, @, r.local),
                       ![c].global = r.global,
                       ![c].check = r.check]
                /\ hechas' = IF ultimo THEN [hechas EXCEPT ![c][k.op] = @ + 1] ELSE hechas
                /\ UNCHANGED fallida
        /\ UNCHANGED <<servidor, hilo, stats, ida, fallos>>

(* The process of the client is gone.                                      *)
Cerrar(c) ==
    /\ vuelta' = [vuelta EXCEPT ![c] = <<>>]
    /\ cliente' = [cliente EXCEPT ![c] = Locales("cerrado", NULL, <<>>, 0, @.ordenes)]
    /\ hechas' = [hechas EXCEPT ![c] = Cero]
    /\ fallida' = [fallida EXCEPT ![c] = FALSE]

(* quit, and the end of main.                                              *)
Salir(c) ==
    /\ cliente[c].fase = "orden"
    /\ ida' = [ida EXCEPT ![c] = Append(@, [codigo |-> "exit"])]
    /\ Cerrar(c)
    /\ UNCHANGED <<servidor, hilo, stats, fallos>>

(* A client killed in the middle of anything.                              *)
Morir(c) ==
    /\ cliente[c].fase \notin {"fuera", "cerrado"}
    /\ Cerrar(c)
    /\ UNCHANGED <<servidor, hilo, stats, ida, fallos>>

-----------------------------------------------------------------------------
(* client_func                                                             *)

(* What is left after a read of n parts; in Sockets 1 it takes everything. *)
TrasLeer(c, n) == IF exacta THEN SubSeq(ida[c], n + 1, Len(ida[c])) ELSE <<>>

(* A write to a client that has closed is lost.                            *)
Responder(c, m) ==
    vuelta' = IF cliente[c].fase = "cerrado" THEN vuelta
              ELSE [vuelta EXCEPT ![c] = Append(@, m)]

Recibe(c, fase) == hilo[c].fase = fase /\ ida[c] # <<>>

(* Mutant: PING is not counted.                                            *)
ContarSinPing(c, op) ==
    stats' = IF op = "ping" THEN stats ELSE [stats EXCEPT ![c][op] = @ + 1]

Contar(c, op) == stats' = [stats EXCEPT ![c][op] = @ + 1]

(* PING, and STAT with the counts before its own.                          *)
OrdenSimple(c) ==
    /\ Recibe(c, "orden") /\ Head(ida[c]).codigo \in Simples
    /\ ida' = [ida EXCEPT ![c] = TrasLeer(c, 1)]
    /\ Responder(c, [codigo |-> Head(ida[c]).codigo, stats |-> stats[c]])
    /\ Contar(c, Head(ida[c]).codigo)
    /\ UNCHANGED <<servidor, hilo, cliente, hechas, fallida, fallos>>

EmpezarBloques(c, op, r) ==
    hilo' = [hilo EXCEPT ![c] = [fase |-> "itera", op |-> op, i |-> 0, iter |-> r.iter,
                                 hash |-> r.hash, global |-> 0]]

(* SWAP, HASH and CHECK: the code, and in Sockets 1 all the header with it.*)
OrdenFichero(c) ==
    /\ Recibe(c, "orden") /\ Head(ida[c]).codigo \in ConFichero
    /\ ida' = [ida EXCEPT ![c] = TrasLeer(c, 1)]
    /\ Contar(c, Head(ida[c]).codigo)
    /\ IF exacta
       THEN hilo' = [hilo EXCEPT ![c].fase = "cabecera", ![c].op = Head(ida[c]).codigo]
       ELSE EmpezarBloques(c, Head(ida[c]).codigo, ida[c][2])
    /\ UNCHANGED <<servidor, vuelta, cliente, hechas, fallida, fallos>>

(* The rest of the header, in Sockets 2.                                   *)
Cabecera(c) ==
    /\ Recibe(c, "cabecera")
    /\ ida' = [ida EXCEPT ![c] = TrasLeer(c, 1)]
    /\ EmpezarBloques(c, hilo[c].op, Head(ida[c]))
    /\ UNCHANGED <<servidor, stats, vuelta, cliente, hechas, fallida, fallos>>

(* Mutant: the total is compared before the last block is added.           *)
VerificarAntes(h, total, n) ==
    IF h.i = h.iter - 1 /\ h.global = h.hash THEN CHECK_OK ELSE CHECK_FAIL

(* The answer of CHECK: right only with the last block.                    *)
Verificar(h, total, n) ==
    IF h.i = h.iter - 1 /\ total = h.hash THEN CHECK_OK ELSE CHECK_FAIL

(* Mutant: the loop ends one block early.                                  *)
QuedanMenosUno(h) == h.i + 2 < h.iter

Quedan(h) == h.i + 1 < h.iter

(* The next turn, or the next command.                                     *)
TrasTurno(h, total) ==
    IF Quedan(h) THEN [h EXCEPT !.i = @ + 1, !.global = total] ELSE [Ninguna EXCEPT !.fase = "orden"]

(* A turn of the loop.  What is not a block (an exit after a broken        *)
(* command) is answered too, to a client that is gone.                     *)
ServirBloque(c) ==
    LET h == hilo[c]
        m == Head(ida[c])
        n == IF m.codigo = "iter" THEN Local(h.op, m.texto) ELSE 0
        total == Acumular(h.op, h.global, n)
    IN  /\ Recibe(c, "itera")
        /\ ida' = [ida EXCEPT ![c] = TrasLeer(c, 1)]
        /\ Responder(c, [codigo |-> h.op, id |-> h.i, local |-> n, global |-> total,
                         check |-> Verificar(h, total, n)])
        /\ hilo' = [hilo EXCEPT ![c] = TrasTurno(@, total)]
        /\ UNCHANGED <<servidor, stats, cliente, hechas, fallida, fallos>>

(* EXIT, or a read of no bytes: the client has closed.                     *)
TerminarHilo(c) ==
    /\ \/ Recibe(c, "orden") /\ Head(ida[c]).codigo = "exit"
       \/ hilo[c].fase \in {"orden", "cabecera", "itera"} /\ ida[c] = <<>> /\ cliente[c].fase = "cerrado"
    /\ ida' = [ida EXCEPT ![c] = <<>>]
    /\ hilo' = [hilo EXCEPT ![c] = [Ninguna EXCEPT !.fase = "fin"]]
    /\ stats' = [stats EXCEPT ![c] = Cero]
    /\ UNCHANGED <<servidor, vuelta, cliente, hechas, fallida, fallos>>

PasoPrincipal == Aceptar \/ AceptarSinHilo \/ SeguirAceptando
PasoHilo(c) ==
    EmpezarHilo(c) \/ OrdenSimple(c) \/ OrdenFichero(c) \/ Cabecera(c) \/ ServirBloque(c) \/ TerminarHilo(c)
PasoCliente(c) == EnviarBloque(c) \/ RecibirSimple(c) \/ RecibirBloque(c)

Next ==
    \/ PasoPrincipal
    \/ \E c \in Clientes :
         \/ PasoHilo(c)
         \/ PasoCliente(c)
         \/ Conectar(c)
         \/ \E op \in Simples : PedirSimple(c, op)
         \/ \E f \in Ficheros :
              \/ \E op \in ConFichero \ {"check"} : PedirFichero(c, op, f, 0)
              \/ \E h \in Hashes : PedirFichero(c, "check", f, h)
         \/ FalloFichero(c)
         \/ Salir(c)
         \/ Morir(c)

Spec == Init /\ [][Next]_vars

(* The threads of the server run, and a client ends the command it began;  *)
(* nobody has to type one.                                                 *)
Justicia ==
    /\ WF_vars(PasoPrincipal)
    /\ \A c \in Clientes : WF_vars(PasoHilo(c)) /\ WF_vars(PasoCliente(c))

SpecJusta == Spec /\ Justicia

-----------------------------------------------------------------------------
(* Properties                                                              *)

EnReposo(c) == cliente[c].fase = "orden" /\ ~fallida[c]

(* Types; busy says that main waits for a thread that is starting, so that *)
(* setting it without the mutex (server.c:129) loses no signal.            *)
TypeOKSockets ==
    /\ exacta \in BOOLEAN /\ busy \in BOOLEAN /\ principal \in {"acepta", "espera"}
    /\ pendientes \in Seq(Clientes) /\ fallos \in 0 .. MaxFallos
    /\ \A c \in Clientes :
          /\ hilo[c].fase \in {"ninguno", "creado", "orden", "cabecera", "itera", "fin"}
          /\ hilo[c].i \in 0 .. hilo[c].iter
          /\ hilo[c].fase = "creado" => principal = "espera" /\ busy
          /\ cliente[c].fase \in {"fuera", "orden", "espera", "itera", "esperaIter", "cerrado"}
          /\ Len(ida[c]) <= 4 /\ Len(vuelta[c]) <= 1
    /\ principal = "acepta" => busy

(* Client and thread keep in step over any sequence of commands: when the  *)
(* client has its prompt again, unless its file broke a command, nothing   *)
(* is left in the connection either way, the thread waits for a command,   *)
(* and it has counted the commands the client ended.                       *)
SesionEnOrden ==
    \A c \in Clientes : EnReposo(c) =>
        /\ ida[c] = <<>> /\ vuelta[c] = <<>>
        /\ hilo[c].fase \in {"ninguno", "creado", "orden"}
        /\ stats[c] = hechas[c]

(* After a command on a file the client and the server have the same      *)
(* total, and check says whether it is the hash it was given.              *)
ConTotal(c) == EnReposo(c) /\ cliente[c].op \in ConFichero
MismoTotal ==
    \A c \in Clientes : LET k == cliente[c] IN
        ConTotal(c) => /\ k.calc = k.global
                       /\ k.op = "check" => (k.check = CHECK_OK <=> k.global = k.hash)

(* The total of a whole file.                                             *)
Total(op, f) == Suma(op, f) % Modulo(op)

(* No block takes the total so far out of an unsigned int.  Without chars  *)
(* of 128 or more, negative, none does; a block may have some.             *)
CabeEnUint(op, f) ==
    \A i \in 0 .. Iteraciones(f) - 1 :
        (Suma(op, SubSeq(f, 1, i * BUFFER)) % HASH_MOD) + Suma(op, Bloque(f, i)) \in 0 .. UINT - 1

(* And it is the total of the whole file, which the client sends block by  *)
(* block.                                                                  *)
TotalDelFichero ==
    \A c \in Clientes : LET k == cliente[c] IN
        ConTotal(c) /\ (k.op # "swap" => CabeEnUint(k.op, k.fichero)) => k.global = Total(k.op, k.fichero)

(* The same of any file, which the code does not do: a block whose chars   *)
(* add less than zero wraps modulo 2^32, no multiple of HASH_MOD.          *)
TotalDeCualquierFichero ==
    \A c \in Clientes : LET k == cliente[c] IN
        ConTotal(c) => k.global = Total(k.op, k.fichero)

(* A command on a file gives the total of the whole file, made by both     *)
(* sides block by block in unsigned arithmetic from signed chars, and      *)
(* check says whether it is the hash it was given (server.c:408,           *)
(* client.c:430).                                                          *)
ResultadoCorrecto == MismoTotal /\ TotalDelFichero

(* A command begun ends, unless no thread was made for the client or for   *)
(* one before it.  Not in Sockets 1, where the server may read the first   *)
(* block with the header, and both wait for ever.                          *)
OrdenTermina ==
    \A c \in Clientes : cliente[c].fase \in {"espera", "itera", "esperaIter"}
        ~> cliente[c].fase \in {"orden", "cerrado"} \/ fallos > 0 \/ ~exacta

(* The thread of a client that left, in whatever moment, ends; also when   *)
(* it left before being accepted, and in both versions.                    *)
HiloTermina ==
    \A c \in Clientes : cliente[c].fase = "cerrado" ~> hilo[c].fase = "fin" \/ fallos > 0

(* Neither a command nor a thread waits for ever.                          *)
TodoAcaba == OrdenTermina /\ HiloTermina

(* client.c:428, what f_check prints is the check of the server.           *)
CheckDelServidor ==
    \A c \in Clientes : LET k == cliente[c] IN
        (k.fase = "orden" /\ k.op = "check" /\ k.check = CHECK_OK) =>
            k.hash = Total("check", k.fichero)
=============================================================================
