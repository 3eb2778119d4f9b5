----------------------------- MODULE SSDDProofs -----------------------------
(***************************************************************************)
(* Proofs about the exercises of distributed systems.  First the socket    *)
(* server and its clients, for any number of clients and any files,        *)
(* commands, deaths and failures: the connection of a client and its       *)
(* thread, whatever the other clients do meanwhile.  Then the assembly     *)
(* line over message queues, for any sizes, failures and launches one      *)
(* after another: what the three children write is the input in lower case.*)
(***************************************************************************)
EXTENDS Sockets, CadenaMontaje, SecuenciasLemas

-----------------------------------------------------------------------------
(***************************************************************************)
(* The inductive invariant.  It speaks of one connection at a time: e is   *)
(* the version of the server, h the thread and s its counts, I and V what  *)
(* is in the connection each way, k the client, H the commands it ended    *)
(* and F whether its file broke one.                                       *)
(***************************************************************************)
FasesHilo == {"ninguno", "creado", "orden", "cabecera", "itera", "fin"}
FasesCliente == {"fuera", "orden", "espera", "itera", "esperaIter", "cerrado"}
EsHilo(h) ==
    h = [fase |-> h.fase, op |-> h.op, i |-> h.i, iter |-> h.iter, hash |-> h.hash, global |-> h.global]
EsCliente(k) ==
    k = [fase |-> k.fase, op |-> k.op, fichero |-> k.fichero, i |-> k.i, hash |-> k.hash,
         calc |-> k.calc, global |-> k.global, check |-> k.check, ordenes |-> k.ordenes]
Mensajes ==
    [codigo : Ordenes \cup {"exit"}] \cup [codigo : {"resto"}, iter : Nat \ {0}, hash : Nat]
        \cup [codigo : {"iter"}, id : Nat, texto : {Bloque(f, i) : f \in Ficheros, i \in Nat}]

(* What the client has sent.                                               *)
Orden(k) == [codigo |-> k.op]
Resto(k) == [codigo |-> "resto", iter |-> Iteraciones(k.fichero), hash |-> k.hash]
Turno(k) == [codigo |-> "iter", id |-> k.i, texto |-> Bloque(k.fichero, k.i)]

SinLeer(h) == h.fase \in {"ninguno", "creado", "orden"}
Contada(s, k, H) == s = [H EXCEPT ![k.op] = @ + 1]

(* What the thread may find, whoever is at the other end.                  *)
Forma(h, I) ==
    /\ I \in Seq(Mensajes) /\ Len(I) <= 3
    /\ SinLeer(h) /\ I # <<>> =>
          IF I[1].codigo \in ConFichero THEN Len(I) >= 2 /\ I[2].codigo = "resto" ELSE Len(I) = 1
    /\ h.fase = "cabecera" => Len(I) \in 1 .. 2 /\ I[1].codigo = "resto"
    /\ h.fase = "itera" => Len(I) <= 1

Totales(k) ==
    k.op \in ConFichero =>
        /\ k.calc = k.global
        /\ k.op = "check" => (k.check = CHECK_OK <=> k.global = k.hash)

(* The client at its prompt, and one whose file has broken a command.      *)
Reposo(h, s, I, V, k, H) == I = <<>> /\ V = <<>> /\ SinLeer(h) /\ s = H /\ Totales(k)
Rota(h, I, V, k) ==
    /\ V = <<>> /\ k.op \in ConFichero
    /\ \/ SinLeer(h) /\ I = <<Orden(k), Resto(k)>>
       \/ h.fase = "cabecera" /\ I = <<Resto(k)>>
       \/ h.fase = "itera" /\ I = <<>>

(* It waits for the answer to a simple command.                            *)
EnSimple(h, s, I, V, k, H) ==
    /\ k.op \in Simples
    /\ \/ I = <<Orden(k)>> /\ V = <<>> /\ SinLeer(h) /\ s = H
       \/ I = <<>> /\ V # <<>> /\ V = <<Head(V)>> /\ h.fase = "orden" /\ Contada(s, k, H)

(* It is sending a file.  The thread has not read the command; or only its *)
(* code; or it waits for the block the client is at (and for ever if it    *)
(* has taken it with the header); or it has answered it.                   *)
ConBloque(s, k) == IF k.fase = "esperaIter" THEN Append(s, Turno(k)) ELSE s
EnTurno(h, k, i, g) ==
    /\ h.fase = "itera" /\ h.op = k.op /\ h.iter = Iteraciones(k.fichero)
    /\ h.hash = k.hash /\ h.i = i /\ h.global = g
Respuesta(r, k) ==
    /\ r.codigo = k.op /\ r.id = k.i
    /\ r.global = Acumular(k.op, k.global, r.local)
    /\ r.check = CHECK_OK <=> k.i + 1 = Iteraciones(k.fichero) /\ r.global = k.hash

Empieza(h, s, I, V, k, H) ==
    /\ I = ConBloque(<<Orden(k), Resto(k)>>, k) /\ V = <<>> /\ SinLeer(h) /\ s = H
    /\ k.i = 0 /\ k.global = 0
LeidoCodigo(e, h, s, I, V, k, H) ==
    /\ e /\ I = ConBloque(<<Resto(k)>>, k) /\ V = <<>> /\ h.fase = "cabecera" /\ h.op = k.op
    /\ k.i = 0 /\ k.global = 0 /\ Contada(s, k, H)
AlDia(e, h, s, I, V, k, H) ==
    /\ I = ConBloque(<<>>, k) \/ (~e /\ I = <<>>)
    /\ V = <<>> /\ EnTurno(h, k, k.i, k.global) /\ Contada(s, k, H)
Respondido(h, s, I, V, k, H) ==
    /\ k.fase = "esperaIter" /\ I = <<>> /\ V # <<>> /\ V = <<Head(V)>> /\ Respuesta(Head(V), k)
    /\ IF k.i + 1 < Iteraciones(k.fichero) THEN EnTurno(h, k, k.i + 1, Head(V).global)
       ELSE h.fase = "orden"
    /\ Contada(s, k, H)
EnFichero(e, h, s, I, V, k, H) ==
    /\ k.op \in ConFichero /\ k.fichero \in Ficheros /\ k.hash \in Nat
    /\ k.i \in 0 .. Iteraciones(k.fichero) - 1 /\ k.calc = k.global
    /\ \/ Empieza(h, s, I, V, k, H)
       \/ LeidoCodigo(e, h, s, I, V, k, H)
       \/ AlDia(e, h, s, I, V, k, H)
       \/ Respondido(h, s, I, V, k, H)

Conexion(e, h, s, I, V, k, H, F) ==
    /\ EsHilo(h) /\ h.fase \in FasesHilo /\ h.i \in Nat /\ h.iter \in Nat /\ h.i <= h.iter
    /\ h.fase = "itera" => h.i < h.iter
    /\ EsCliente(k) /\ k.fase \in FasesCliente /\ F \in BOOLEAN
    /\ Forma(h, I)
    /\ k.fase = "fuera" => h.fase = "ninguno" /\ ~F /\ Reposo(h, s, I, V, k, H)
    /\ k.fase = "cerrado" => V = <<>>
    /\ k.fase = "orden" /\ ~F => Reposo(h, s, I, V, k, H)
    /\ k.fase = "orden" /\ F => Rota(h, I, V, k)
    /\ k.fase = "espera" => ~F /\ EnSimple(h, s, I, V, k, H)
    /\ k.fase \in {"itera", "esperaIter"} => ~F /\ EnFichero(e, h, s, I, V, k, H)

(* The main thread: it waits for the one thread it has created; and who is *)
(* to be accepted has no thread yet.                                       *)
Creando(c) == hilo[c].fase = "creado"
Espera ==
    /\ exacta \in BOOLEAN /\ busy \in BOOLEAN /\ principal \in {"acepta", "espera"}
    /\ fallos \in 0 .. MaxFallos
    /\ pendientes \in Seq(Clientes) /\ IsInjective(pendientes)
    /\ principal = "acepta" => busy
    /\ \A c \in Clientes : Creando(c) => principal = "espera" /\ busy
    /\ \A c, d \in Clientes : Creando(c) /\ Creando(d) => c = d
    /\ \A c \in ToSet(pendientes) : hilo[c].fase = "ninguno" /\ cliente[c].fase # "fuera"

(* Every variable has a value per client.                                  *)
PorCliente ==
    /\ DOMAIN hilo = Clientes /\ DOMAIN stats = Clientes /\ DOMAIN ida = Clientes
    /\ DOMAIN vuelta = Clientes /\ DOMAIN cliente = Clientes /\ DOMAIN hechas = Clientes
    /\ DOMAIN fallida = Clientes

De(c) == Conexion(exacta, hilo[c], stats[c], ida[c], vuelta[c], cliente[c], hechas[c], fallida[c])

InvSockets == Espera /\ PorCliente /\ \A c \in Clientes : De(c)

-----------------------------------------------------------------------------
(* Sequences of one, two and three messages                                *)

LEMMA OtraMas == \A a, b : Append(<<a>>, b) = <<a, b>>
<1> SUFFICES ASSUME NEW a, NEW b PROVE Append(<<a>>, b) = <<a, b>>
  OBVIOUS
<1> DEFINE S == {a, b}  t == Append(<<a>>, b)  r == <<a, b>>
<1>1. <<a>> \in Seq(S) /\ r \in Seq(S) /\ b \in S /\ Len(r) = 2 /\ r[1] = a /\ r[2] = b
  OBVIOUS
<1>2. t \in Seq(S) /\ Len(t) = 2 /\ t[1] = a /\ t[2] = b
  BY <1>1, AppendProperties
<1> HIDE DEF t, r
<1>3. \A i \in 1 .. 2 : t[i] = r[i]
  BY <1>1, <1>2
<1>4. t = r
  BY <1>1, <1>2, <1>3, SeqEqual
<1> QED BY <1>4 DEF t, r

LEMMA YOtra == \A a, b, c : Append(<<a, b>>, c) = <<a, b, c>>
<1> SUFFICES ASSUME NEW a, NEW b, NEW c PROVE Append(<<a, b>>, c) = <<a, b, c>>
  OBVIOUS
<1> DEFINE S == {a, b, c}  t == Append(<<a, b>>, c)  r == <<a, b, c>>
<1>1. /\ <<a, b>> \in Seq(S) /\ r \in Seq(S) /\ c \in S
      /\ Len(r) = 3 /\ r[1] = a /\ r[2] = b /\ r[3] = c
  OBVIOUS
<1>2. t \in Seq(S) /\ Len(t) = 3 /\ t[1] = a /\ t[2] = b /\ t[3] = c
  BY <1>1, AppendProperties
<1> HIDE DEF t, r
<1>3. \A i \in 1 .. 3 : t[i] = r[i]
  BY <1>1, <1>2
<1>4. t = r
  BY <1>1, <1>2, <1>3, SeqEqual
<1> QED BY <1>4 DEF t, r

LEMMA Tuplas ==
    ASSUME NEW a, NEW b, NEW c
    PROVE  /\ Append(<<>>, a) = <<a>> /\ <<>> \o <<a, b>> = <<a, b>>
           /\ Len(<<>>) = 0 /\ Len(<<a>>) = 1 /\ Len(<<a, b>>) = 2 /\ Len(<<a, b, c>>) = 3
           /\ Head(<<a>>) = a /\ Head(<<a, b>>) = a /\ Head(<<a, b, c>>) = a
           /\ Tail(<<a>>) = <<>> /\ Tail(<<a, b>>) = <<b>> /\ Tail(<<a, b, c>>) = <<b, c>>
           /\ <<a>> # <<>> /\ <<a, b>> # <<>> /\ <<a, b, c>> # <<>>
           /\ <<a>>[1] = a /\ <<a, b>>[1] = a /\ <<a, b, c>>[1] = a
           /\ <<a, b>>[2] = b /\ <<a, b, c>>[2] = b
<1>1. Append(<<>>, a) = <<a>> /\ <<>> \o <<a, b>> = <<a, b>> /\ Len(<<>>) = 0
  OBVIOUS
<1>2. /\ Head(<<a>>) = a /\ Head(<<a, b>>) = a /\ Head(<<a, b, c>>) = a
      /\ <<a>> # <<>> /\ <<a, b>> # <<>> /\ <<a, b, c>> # <<>>
  OBVIOUS
<1>3. Tail(<<a>>) = <<>> /\ Tail(<<a, b>>) = <<b>>
  OBVIOUS
<1>4. Tail(<<a, b, c>>) = <<b, c>>
  OBVIOUS
<1>5. /\ Len(<<a>>) = 1 /\ Len(<<a, b>>) = 2 /\ Len(<<a, b, c>>) = 3
      /\ <<a>>[1] = a /\ <<a, b>>[1] = a /\ <<a, b, c>>[1] = a
      /\ <<a, b>>[2] = b /\ <<a, b, c>>[2] = b
  OBVIOUS
<1> QED BY <1>1, <1>2, <1>3, <1>4, <1>5

(* What is left after a read of one message.                               *)
LEMMA TrasUna ==
    ASSUME NEW S, NEW s \in Seq(S), s # <<>>
    PROVE  SubSeq(s, 2, Len(s)) = Tail(s)
OBVIOUS

LEMMA EnMensajes ==
    ASSUME NEW a \in Mensajes, NEW b \in Mensajes, NEW c \in Mensajes
    PROVE  <<a>> \in Seq(Mensajes) /\ <<a, b>> \in Seq(Mensajes) /\ <<a, b, c>> \in Seq(Mensajes)
           /\ <<>> \in Seq(Mensajes)
OBVIOUS

LEMMA DeMensajes ==
    ASSUME NEW a, NEW b
    PROVE  /\ <<a>> \in Seq(Mensajes) => a \in Mensajes
           /\ <<a, b>> \in Seq(Mensajes) => a \in Mensajes /\ b \in Mensajes
<1>1. ASSUME <<a>> \in Seq(Mensajes) PROVE a \in Mensajes
  <2>1. PICK s \in Seq(Mensajes) : s = <<a>>
    BY <1>1
  <2>2. 1 \in 1 .. Len(s) /\ s[1] = a
    BY <2>1
  <2> QED BY <2>2, LenProperties
<1>2. ASSUME <<a, b>> \in Seq(Mensajes) PROVE a \in Mensajes /\ b \in Mensajes
  <2>1. PICK s \in Seq(Mensajes) : s = <<a, b>>
    BY <1>2
  <2>2. 1 \in 1 .. Len(s) /\ 2 \in 1 .. Len(s) /\ s[1] = a /\ s[2] = b
    BY <2>1
  <2> QED BY <2>2, LenProperties
<1> QED BY <1>1, <1>2

LEMMA HiloCambia ==
    ASSUME NEW h, EsHilo(h), NEW f, NEW h2, h2 = [h EXCEPT !.fase = f]
    PROVE  /\ EsHilo(h2) /\ h2.fase = f /\ h2.op = h.op /\ h2.i = h.i /\ h2.iter = h.iter
           /\ h2.hash = h.hash /\ h2.global = h.global
BY DEF EsHilo

LEMMA DosCampos ==
    ASSUME NEW h, EsHilo(h), NEW x, NEW y
    PROVE  /\ [h EXCEPT !.fase = x, !.op = y]
                = [fase |-> x, op |-> y, i |-> h.i, iter |-> h.iter, hash |-> h.hash, global |-> h.global]
           /\ [h EXCEPT !.i = @ + 1, !.global = y]
                = [fase |-> h.fase, op |-> h.op, i |-> h.i + 1, iter |-> h.iter, hash |-> h.hash, global |-> y]
<1>1. PICK a, b, c, d, e, g :
         h = [fase |-> a, op |-> b, i |-> c, iter |-> d, hash |-> e, global |-> g]
  BY DEF EsHilo
<1>2. h.fase = a /\ h.op = b /\ h.i = c /\ h.iter = d /\ h.hash = e /\ h.global = g
  BY <1>1
<1>3. PICK p : p = [h EXCEPT !.fase = x]
  OBVIOUS
<1>4. p = [fase |-> x, op |-> b, i |-> c, iter |-> d, hash |-> e, global |-> g]
  BY <1>1, <1>3
<1>5. [p EXCEPT !.op = y] = [fase |-> x, op |-> y, i |-> c, iter |-> d, hash |-> e, global |-> g]
  BY <1>4
<1>6. [h EXCEPT !.fase = x, !.op = y] = [p EXCEPT !.op = y]
  BY <1>3
<1>7. PICK q : q = [h EXCEPT !.i = @ + 1]
  OBVIOUS
<1>8. q = [fase |-> a, op |-> b, i |-> c + 1, iter |-> d, hash |-> e, global |-> g]
  BY <1>1, <1>7
<1>9. [q EXCEPT !.global = y] = [fase |-> a, op |-> b, i |-> c + 1, iter |-> d, hash |-> e, global |-> y]
  BY <1>8
<1>10. [h EXCEPT !.i = @ + 1, !.global = y] = [q EXCEPT !.global = y]
  BY <1>7
<1> QED BY <1>2, <1>5, <1>6, <1>9, <1>10

LEMMA ClienteCambia ==
    ASSUME NEW k, EsCliente(k), NEW f, NEW k2, k2 = [k EXCEPT !.fase = f]
    PROVE  /\ EsCliente(k2) /\ k2.fase = f /\ k2.op = k.op /\ k2.fichero = k.fichero /\ k2.i = k.i
           /\ k2.hash = k.hash /\ k2.calc = k.calc /\ k2.global = k.global /\ k2.check = k.check
           /\ k2.ordenes = k.ordenes
BY DEF EsCliente

LEMMA Constantes ==
    /\ \A f \in Ficheros : Iteraciones(f) \in Nat \ {0}
    /\ \A h \in Hashes \cup {0} : h \in Nat
    /\ Simples \cap ConFichero = {} /\ Ordenes = Simples \cup ConFichero
    /\ "exit" \notin Ordenes /\ "resto" \notin Ordenes /\ "iter" \notin Ordenes
<1>1. ASSUME NEW f \in Ficheros PROVE Iteraciones(f) \in Nat \ {0}
  <2>1. f \in Seq(Int) /\ Len(f) \in Nat /\ BUFFER \in Nat \ {0}
    BY SocketsAssumption
  <2>2. Len(f) \div BUFFER \in Nat
    BY <2>1
  <2> QED BY <2>2 DEF Iteraciones
<1>2. ASSUME NEW h \in Hashes \cup {0} PROVE h \in Nat
  BY SocketsAssumption
<1> QED BY <1>1, <1>2 DEF Simples, ConFichero, Ordenes

LEMMA MensajesBien ==
    ASSUME NEW k
    PROVE  /\ k.op \in Ordenes => Orden(k) \in Mensajes
           /\ Orden(k).codigo = k.op /\ Resto(k).codigo = "resto" /\ Turno(k).codigo = "iter"
           /\ Resto(k).iter = Iteraciones(k.fichero) /\ Resto(k).hash = k.hash
           /\ k.fichero \in Ficheros /\ k.hash \in Nat => Resto(k) \in Mensajes
           /\ k.fichero \in Ficheros /\ k.i \in Nat => Turno(k) \in Mensajes
           /\ [codigo |-> "exit"] \in Mensajes
<1>1. k.op \in Ordenes => Orden(k) \in Mensajes
  BY DEF Orden, Mensajes
<1>2. k.fichero \in Ficheros /\ k.hash \in Nat => Resto(k) \in Mensajes
  BY Constantes DEF Resto, Mensajes
<1>3. k.fichero \in Ficheros /\ k.i \in Nat => Turno(k) \in Mensajes
  BY DEF Turno, Mensajes
<1>4. [codigo |-> "exit"] \in Mensajes
  BY DEF Mensajes
<1> QED BY <1>1, <1>2, <1>3, <1>4 DEF Orden, Resto, Turno

-----------------------------------------------------------------------------
(***************************************************************************)
(* What each step does to its connection.                                  *)
(***************************************************************************)
LEMMA ConectarBien ==
    ASSUME NEW e, NEW h, NEW s, NEW I, NEW V, NEW k, NEW H, NEW F, Conexion(e, h, s, I, V, k, H, F),
           k.fase = "fuera", NEW k2, k2 = [k EXCEPT !.fase = "orden"]
    PROVE  Conexion(e, h, s, I, V, k2, H, F) /\ k2.fase = "orden"
<1>1. EsCliente(k2) /\ k2.fase = "orden" /\ Totales(k2) = Totales(k)
  BY ClienteCambia DEF Conexion, Totales
<1> QED BY <1>1 DEF Conexion, Reposo, FasesCliente

(* main creates the thread, and the thread starts.                         *)
LEMMA CrearBien ==
    ASSUME NEW e, NEW h, NEW s, NEW I, NEW V, NEW k, NEW H, NEW F, Conexion(e, h, s, I, V, k, H, F),
           k.fase # "fuera", h.fase \in {"ninguno", "creado"}, NEW f \in {"creado", "orden"},
           NEW h2, h2 = [h EXCEPT !.fase = f]
    PROVE  Conexion(e, h2, s, I, V, k, H, F) /\ h2.fase = f
<1>1. /\ EsHilo(h2) /\ h2.fase = f /\ SinLeer(h2) /\ SinLeer(h) /\ h2.i = h.i /\ h2.iter = h.iter
      /\ h.fase # "orden" /\ h.fase # "cabecera" /\ h.fase # "itera"
      /\ f # "cabecera" /\ f # "itera" /\ f \in FasesHilo
  <2>1. EsHilo(h2) /\ h2.fase = f /\ h2.i = h.i /\ h2.iter = h.iter
    <3>1. EsHilo(h)
      BY DEF Conexion
    <3> QED BY <3>1, HiloCambia
  <2>2. f \in {"creado", "orden"} /\ h.fase \in {"ninguno", "creado"}
    OBVIOUS
  <2> QED BY <2>1, <2>2 DEF SinLeer, FasesHilo
<1>2. Forma(h2, I)
  BY <1>1 DEF Conexion, Forma
<1>3. Reposo(h, s, I, V, k, H) => Reposo(h2, s, I, V, k, H)
  BY <1>1 DEF Reposo
<1>4. Rota(h, I, V, k) => Rota(h2, I, V, k)
  BY <1>1 DEF Rota
<1>5. EnSimple(h, s, I, V, k, H) => EnSimple(h2, s, I, V, k, H)
  BY <1>1 DEF EnSimple
<1>6. ASSUME EnFichero(e, h, s, I, V, k, H) PROVE EnFichero(e, h2, s, I, V, k, H)
  <2>1. Empieza(h, s, I, V, k, H)
    BY <1>1, <1>6 DEF EnFichero, LeidoCodigo, AlDia, Respondido, EnTurno
  <2> QED BY <1>1, <1>6, <2>1 DEF EnFichero, Empieza
<1> QED BY <1>1, <1>2, <1>3, <1>4, <1>5, <1>6 DEF Conexion

(* A command, from the prompt.                                             *)
LEMMA PedirSimpleBien ==
    ASSUME NEW e, NEW h, NEW s, NEW I, NEW V, NEW k, NEW H, NEW F \in BOOLEAN, Conexion(e, h, s, I, V, k, H, F),
           k.fase = "orden", ~F, NEW op \in Simples, NEW n,
           NEW k2, k2 = Locales("espera", op, <<>>, 0, n)
    PROVE  Conexion(e, h, s, Append(I, [codigo |-> op]), V, k2, H, F) /\ k2.fase # "fuera"
<1>1. EsCliente(k2) /\ k2.fase = "espera" /\ k2.op = op
  BY DEF Locales, EsCliente
<1>2. Reposo(h, s, I, V, k, H)
  BY DEF Conexion
<1>3. Append(I, [codigo |-> op]) = <<Orden(k2)>>
  BY <1>1, <1>2, Tuplas DEF Reposo, Orden
<1>4. EnSimple(h, s, <<Orden(k2)>>, V, k2, H)
  BY <1>1, <1>2 DEF EnSimple, Reposo
<1>5. Orden(k2) \in Mensajes /\ Orden(k2).codigo \notin ConFichero
  BY <1>1, MensajesBien, Constantes
<1>6. Forma(h, <<Orden(k2)>>)
  BY <1>2, <1>5, EnMensajes, Tuplas DEF Forma, Reposo, SinLeer
<1> QED BY <1>1, <1>3, <1>4, <1>6 DEF Conexion, FasesCliente

LEMMA PedirFicheroBien ==
    ASSUME NEW e, NEW h, NEW s, NEW I, NEW V, NEW k, NEW H, NEW F \in BOOLEAN, Conexion(e, h, s, I, V, k, H, F),
           k.fase = "orden", ~F, NEW op \in ConFichero, NEW f \in Ficheros, NEW x \in Hashes \cup {0},
           NEW n, NEW k2, k2 = Locales("itera", op, f, x, n)
    PROVE  /\ Conexion(e, h, s, I \o <<[codigo |-> op],
                          [codigo |-> "resto", iter |-> Iteraciones(f), hash |-> x]>>, V, k2, H, F)
           /\ k2.fase # "fuera"
<1>1. /\ EsCliente(k2) /\ k2.fase = "itera" /\ k2.op = op /\ k2.fichero = f /\ k2.hash = x
      /\ k2.i = 0 /\ k2.calc = 0 /\ k2.global = 0
  BY DEF Locales, EsCliente
<1>2. Reposo(h, s, I, V, k, H)
  BY DEF Conexion
<1>3. I \o <<[codigo |-> op], [codigo |-> "resto", iter |-> Iteraciones(f), hash |-> x]>>
         = <<Orden(k2), Resto(k2)>>
  BY <1>1, <1>2, Tuplas DEF Reposo, Orden, Resto
<1>4. EnFichero(e, h, s, <<Orden(k2), Resto(k2)>>, V, k2, H)
  <2>1. Empieza(h, s, <<Orden(k2), Resto(k2)>>, V, k2, H)
    BY <1>1, <1>2 DEF Empieza, Reposo, ConBloque
  <2>2. 0 \in 0 .. Iteraciones(f) - 1 /\ x \in Nat
    BY Constantes
  <2> QED BY <1>1, <2>1, <2>2 DEF EnFichero
<1>5. Orden(k2) \in Mensajes /\ Orden(k2).codigo \in ConFichero /\ Resto(k2) \in Mensajes
      /\ Resto(k2).codigo = "resto"
  BY <1>1, MensajesBien, Constantes
<1>6. Forma(h, <<Orden(k2), Resto(k2)>>)
  BY <1>2, <1>5, EnMensajes, Tuplas DEF Forma, Reposo, SinLeer
<1> QED BY <1>1, <1>3, <1>4, <1>6 DEF Conexion, FasesCliente

(* The next block, to a thread that has read the command or not.           *)
LEMMA EnviarBloqueBien ==
    ASSUME NEW e, NEW h, NEW s, NEW I, NEW V, NEW k, NEW H, NEW F, Conexion(e, h, s, I, V, k, H, F),
           k.fase = "itera", NEW k2, k2 = [k EXCEPT !.fase = "esperaIter"]
    PROVE  Conexion(e, h, s, Append(I, Turno(k)), V, k2, H, F) /\ k2.fase # "fuera"
<1>1. /\ EsCliente(k2) /\ k2.fase = "esperaIter" /\ k2.op = k.op /\ k2.fichero = k.fichero /\ k2.i = k.i
      /\ k2.hash = k.hash /\ k2.calc = k.calc /\ k2.global = k.global
  BY ClienteCambia DEF Conexion
<1>2. F = FALSE /\ EnFichero(e, h, s, I, V, k, H)
  BY DEF Conexion
<1>3. Orden(k2) = Orden(k) /\ Resto(k2) = Resto(k) /\ Turno(k2) = Turno(k)
  BY <1>1 DEF Orden, Resto, Turno
<1>4. /\ k.op \in ConFichero /\ k.fichero \in Ficheros /\ k.hash \in Nat
      /\ k.i \in 0 .. Iteraciones(k.fichero) - 1 /\ k.i \in Nat /\ k.calc = k.global
  BY <1>2, Constantes DEF EnFichero
<1>5. /\ Orden(k) \in Mensajes /\ Resto(k) \in Mensajes /\ Turno(k) \in Mensajes
      /\ Orden(k).codigo = k.op /\ Resto(k).codigo = "resto"
  BY <1>4, MensajesBien, Constantes
<1>6. \A t : ConBloque(t, k) = t /\ ConBloque(t, k2) = Append(t, Turno(k))
  BY <1>1, <1>3 DEF ConBloque
<1> DEFINE I2 == Append(I, Turno(k))
<1>7. CASE Empieza(h, s, I, V, k, H)
  <2>1. I = <<Orden(k), Resto(k)>> /\ SinLeer(h)
    BY <1>6, <1>7 DEF Empieza
  <2>2. Empieza(h, s, I2, V, k2, H)
    BY <1>1, <1>3, <1>6, <1>7 DEF Empieza
  <2>3. I2 = <<Orden(k), Resto(k), Turno(k)>>
    <3>1. Append(<<Orden(k), Resto(k)>>, Turno(k)) = <<Orden(k), Resto(k), Turno(k)>>
      BY YOtra
    <3> QED BY <2>1, <3>1
  <2>4. Forma(h, I2)
    BY <1>4, <1>5, <2>1, <2>3, EnMensajes, Tuplas DEF Forma, SinLeer
  <2> QED BY <1>1, <1>2, <1>4, <2>2, <2>4 DEF Conexion, EnFichero, FasesCliente
<1>8. CASE LeidoCodigo(e, h, s, I, V, k, H)
  <2>1. I = <<Resto(k)>> /\ h.fase = "cabecera"
    BY <1>6, <1>8 DEF LeidoCodigo
  <2>2. LeidoCodigo(e, h, s, I2, V, k2, H)
    BY <1>1, <1>3, <1>6, <1>8 DEF LeidoCodigo, Contada
  <2>3. I2 = <<Resto(k), Turno(k)>>
    <3>1. Append(<<Resto(k)>>, Turno(k)) = <<Resto(k), Turno(k)>>
      BY OtraMas
    <3> QED BY <2>1, <3>1
  <2>4. Forma(h, I2)
    BY <1>4, <1>5, <2>1, <2>3, EnMensajes, Tuplas DEF Forma, SinLeer
  <2> QED BY <1>1, <1>2, <1>4, <2>2, <2>4 DEF Conexion, EnFichero, FasesCliente
<1>9. CASE AlDia(e, h, s, I, V, k, H)
  <2>1. I = <<>> /\ h.fase = "itera"
    BY <1>6, <1>9 DEF AlDia, EnTurno
  <2>2. AlDia(e, h, s, I2, V, k2, H)
    BY <1>1, <1>3, <1>6, <1>9, <2>1 DEF AlDia, EnTurno, Contada
  <2>3. I2 = <<Turno(k)>>
    BY <2>1, Tuplas
  <2>4. Forma(h, I2)
    BY <1>4, <1>5, <2>1, <2>3, EnMensajes, Tuplas DEF Forma, SinLeer
  <2> QED BY <1>1, <1>2, <1>4, <2>2, <2>4 DEF Conexion, EnFichero, FasesCliente
<1> QED BY <1>2, <1>7, <1>8, <1>9 DEF EnFichero, Respondido

(* The file cannot be read.                                                *)
LEMMA FalloFicheroBien ==
    ASSUME NEW e, NEW h, NEW s, NEW I, NEW V, NEW k, NEW H, NEW F, Conexion(e, h, s, I, V, k, H, F),
           k.fase = "itera", NEW k2, k2 = [k EXCEPT !.fase = "orden"]
    PROVE  EsCliente(k2) /\ k2.fase = "orden" /\ Rota(h, I, V, k2)
<1>1. /\ EsCliente(k2) /\ k2.fase = "orden" /\ k2.op = k.op /\ k2.fichero = k.fichero /\ k2.hash = k.hash
  BY ClienteCambia DEF Conexion
<1>2. EnFichero(e, h, s, I, V, k, H)
  BY DEF Conexion
<1>3. Orden(k2) = Orden(k) /\ Resto(k2) = Resto(k)
  BY <1>1 DEF Orden, Resto
<1>4. \A t : ConBloque(t, k) = t
  BY DEF ConBloque
<1>5. Rota(h, I, V, k2)
  BY <1>1, <1>2, <1>3, <1>4 DEF EnFichero, Empieza, LeidoCodigo, AlDia, EnTurno, Respondido, Rota
<1> QED BY <1>1, <1>5

(* The answer to a simple command.                                         *)
LEMMA RecibirSimpleBien ==
    ASSUME NEW e, NEW h, NEW s, NEW I, NEW V, NEW k, NEW H, NEW F, Conexion(e, h, s, I, V, k, H, F),
           k.fase = "espera", V # <<>>, NEW k2, k2 = [k EXCEPT !.fase = "orden"]
    PROVE  Conexion(e, h, s, I, Tail(V), k2, [H EXCEPT ![k.op] = @ + 1], F) /\ k2.fase # "fuera"
<1>1. EsCliente(k2) /\ k2.fase = "orden" /\ k2.op = k.op
  BY ClienteCambia DEF Conexion
<1>2. F = FALSE /\ EnSimple(h, s, I, V, k, H)
  BY DEF Conexion
<1>3. I = <<>> /\ V = <<Head(V)>> /\ h.fase = "orden" /\ Contada(s, k, H) /\ k.op \notin ConFichero
  BY <1>2, Constantes DEF EnSimple
<1>4. Tail(V) = <<>>
  <2>1. PICK v : v = Head(V)
    OBVIOUS
  <2>2. V = <<v>>
    BY <1>3, <2>1
  <2> QED BY <2>2, Tuplas
<1>5. Reposo(h, s, I, <<>>, k2, [H EXCEPT ![k.op] = @ + 1])
  BY <1>1, <1>3 DEF Reposo, SinLeer, Totales, Contada
<1> QED BY <1>1, <1>2, <1>4, <1>5 DEF Conexion, FasesCliente

(* With or without the next block behind, what is first and what is left.  *)
LEMMA ConBloqueDe ==
    ASSUME NEW k, NEW a, NEW b
    PROVE  /\ Head(ConBloque(<<a, b>>, k)) = a /\ Tail(ConBloque(<<a, b>>, k)) = ConBloque(<<b>>, k)
           /\ ConBloque(<<a, b>>, k)[2] = b
           /\ Head(ConBloque(<<a>>, k)) = a /\ Tail(ConBloque(<<a>>, k)) = ConBloque(<<>>, k)
<1> DEFINE t == Turno(k)
<1>1. CASE k.fase = "esperaIter"
  <2>1. ConBloque(<<a, b>>, k) = <<a, b, t>>
    BY <1>1, YOtra DEF ConBloque
  <2>2. ConBloque(<<a>>, k) = <<a, t>> /\ ConBloque(<<b>>, k) = <<b, t>>
    BY <1>1, OtraMas DEF ConBloque
  <2>3. ConBloque(<<>>, k) = <<t>>
    BY <1>1, Tuplas DEF ConBloque
  <2> HIDE DEF t
  <2>4. Head(<<a, b, t>>) = a /\ Tail(<<a, b, t>>) = <<b, t>> /\ <<a, b, t>>[2] = b
    BY Tuplas
  <2>5. Head(<<a, t>>) = a /\ Tail(<<a, t>>) = <<t>>
    BY Tuplas
  <2> QED BY <2>1, <2>2, <2>3, <2>4, <2>5
<1>2. CASE k.fase # "esperaIter"
  <2>1. /\ ConBloque(<<a, b>>, k) = <<a, b>> /\ ConBloque(<<a>>, k) = <<a>>
        /\ ConBloque(<<b>>, k) = <<b>> /\ ConBloque(<<>>, k) = <<>>
    BY <1>2 DEF ConBloque
  <2>2. Head(<<a, b>>) = a /\ Tail(<<a, b>>) = <<b>> /\ <<a, b>>[2] = b
    BY Tuplas
  <2>3. Head(<<a>>) = a /\ Tail(<<a>>) = <<>>
    BY Tuplas
  <2> QED BY <2>1, <2>2, <2>3
<1> QED BY <1>1, <1>2

(* While the client is there, the command not read yet is its own.         *)
LEMMA CabezaViva ==
    ASSUME NEW e, NEW h, NEW s, NEW I, NEW V, NEW k, NEW H, NEW F, Conexion(e, h, s, I, V, k, H, F),
           k.fase # "cerrado", SinLeer(h), I # <<>>
    PROVE  Head(I).codigo = k.op /\ k.op \in Ordenes
<1>1. CASE k.fase \in {"fuera", "orden"}
  <2>1. Rota(h, I, V, k)
    BY <1>1 DEF Conexion, Reposo
  <2>2. I = <<Orden(k), Resto(k)>> /\ k.op \in ConFichero
    BY <2>1 DEF Rota, SinLeer
  <2>3. Head(I) = Orden(k)
    BY <2>2, Tuplas
  <2> QED BY <2>2, <2>3, MensajesBien DEF Ordenes
<1>2. CASE k.fase = "espera"
  <2>1. I = <<Orden(k)>> /\ k.op \in Simples
    BY <1>2 DEF Conexion, EnSimple
  <2>2. Head(I) = Orden(k)
    BY <2>1, Tuplas
  <2> QED BY <2>1, <2>2, MensajesBien DEF Ordenes
<1>3. CASE k.fase \in {"itera", "esperaIter"}
  <2>1. EnFichero(e, h, s, I, V, k, H)
    BY <1>3 DEF Conexion
  <2>2. I = ConBloque(<<Orden(k), Resto(k)>>, k) /\ k.op \in ConFichero
    BY <2>1 DEF EnFichero, Empieza, LeidoCodigo, AlDia, Respondido, EnTurno, SinLeer
  <2>3. Head(I) = Orden(k)
    BY <2>2, ConBloqueDe
  <2> QED BY <2>2, <2>3, MensajesBien DEF Ordenes
<1> QED BY <1>1, <1>2, <1>3 DEF Conexion, FasesCliente

(* The answer to a block is always of that block.                          *)
LEMMA RecibirBloqueBien ==
    ASSUME NEW e, NEW h, NEW s, NEW I, NEW V, NEW k, NEW H, NEW F, Conexion(e, h, s, I, V, k, H, F),
           k.fase = "esperaIter", V # <<>>, NEW u \in BOOLEAN, u <=> k.i + 1 = Iteraciones(k.fichero),
           NEW k2, k2 = [fase |-> IF u THEN "orden" ELSE "itera", op |-> k.op, fichero |-> k.fichero,
                         i |-> k.i + 1, hash |-> k.hash, calc |-> Acumular(k.op, k.calc, Head(V).local),
                         global |-> Head(V).global, check |-> Head(V).check, ordenes |-> k.ordenes],
           NEW H2, H2 = IF u THEN [H EXCEPT ![k.op] = @ + 1] ELSE H
    PROVE  /\ Head(V).codigo = k.op /\ Head(V).id = k.i /\ k2.fase # "fuera"
           /\ Conexion(e, h, s, I, Tail(V), k2, H2, F)
<1> DEFINE n == Iteraciones(k.fichero)  r == Head(V)
<1>1. F = FALSE /\ EnFichero(e, h, s, I, V, k, H)
  BY DEF Conexion
<1>2. Respondido(h, s, I, V, k, H)
  BY <1>1 DEF EnFichero, Empieza, LeidoCodigo, AlDia
<1>3. /\ k.op \in ConFichero /\ k.fichero \in Ficheros /\ k.hash \in Nat
      /\ k.i \in 0 .. n - 1 /\ k.calc = k.global /\ n \in Nat \ {0}
  BY <1>1, Constantes DEF EnFichero
<1>4. I = <<>> /\ V = <<r>> /\ Respuesta(r, k) /\ Contada(s, k, H)
  BY <1>2 DEF Respondido
<1>5. Tail(V) = <<>>
  <2>1. PICK v : v = r
    OBVIOUS
  <2>2. V = <<v>>
    BY <1>4, <2>1
  <2> QED BY <2>2, Tuplas
<1>6. r.codigo = k.op /\ r.id = k.i
  BY <1>4 DEF Respuesta
<1>7. /\ EsCliente(k2) /\ k2.op = k.op /\ k2.fichero = k.fichero /\ k2.i = k.i + 1 /\ k2.hash = k.hash
      /\ k2.calc = Acumular(k.op, k.calc, r.local) /\ k2.global = r.global /\ k2.check = r.check
      /\ k2.fase = IF u THEN "orden" ELSE "itera"
  BY DEF EsCliente
<1>8. k2.calc = k2.global
  BY <1>3, <1>4, <1>7 DEF Respuesta
<1> HIDE DEF n, r
<1>9. CASE u
  <2>1. k.i + 1 = n /\ ~(k.i + 1 < n) /\ k2.fase = "orden"
    BY <1>3, <1>7, <1>9 DEF n
  <2>2. h.fase = "orden"
    BY <1>2, <2>1 DEF Respondido, n
  <2>3. Totales(k2)
    BY <1>4, <1>7, <1>8, <2>1 DEF Totales, Respuesta, n, r
  <2>4. Reposo(h, s, I, <<>>, k2, [H EXCEPT ![k.op] = @ + 1])
    BY <1>4, <2>2, <2>3 DEF Reposo, SinLeer, Contada
  <2> QED BY <1>1, <1>5, <1>6, <1>7, <1>9, <2>1, <2>4 DEF Conexion, FasesCliente, r
<1>10. CASE ~u
  <2>1. k.i + 1 < n /\ k2.fase = "itera" /\ k.i + 1 \in 0 .. n - 1
    BY <1>3, <1>7, <1>10 DEF n
  <2>2. EnTurno(h, k2, k2.i, k2.global)
    BY <1>2, <1>7, <2>1 DEF Respondido, EnTurno, n, r
  <2>3. AlDia(e, h, s, I, <<>>, k2, H)
    BY <1>4, <1>7, <2>1, <2>2 DEF AlDia, ConBloque, Contada
  <2>4. EnFichero(e, h, s, I, <<>>, k2, H)
    BY <1>3, <1>7, <1>8, <2>1, <2>3 DEF EnFichero, n
  <2> QED BY <1>1, <1>5, <1>6, <1>7, <1>10, <2>1, <2>4 DEF Conexion, FasesCliente, r
<1> QED BY <1>9, <1>10

(* The client leaves, or is killed.                                        *)
LEMMA CerrarBien ==
    ASSUME NEW e, NEW h, NEW s, NEW I, NEW V, NEW k, NEW H, NEW F, Conexion(e, h, s, I, V, k, H, F),
           NEW J, J = I \/ (k.fase = "orden" /\ J = Append(I, [codigo |-> "exit"])),
           NEW n, NEW k2, k2 = Locales("cerrado", NULL, <<>>, 0, n)
    PROVE  Conexion(e, h, s, J, <<>>, k2, Cero, FALSE) /\ k2.fase # "fuera"
<1>1. EsCliente(k2) /\ k2.fase = "cerrado"
  BY DEF Locales, EsCliente
<1>2. Forma(h, J)
  <2>1. CASE J = I
    BY <2>1 DEF Conexion
  <2>2. CASE k.fase = "orden" /\ J = Append(I, [codigo |-> "exit"])
    <3>1. PICK x : x = [codigo |-> "exit"]
      OBVIOUS
    <3>2. x \in Mensajes /\ x.codigo = "exit" /\ x.codigo \notin ConFichero
      BY <3>1, MensajesBien, Constantes
    <3>3. CASE I = <<>>
      <4>1. J = <<x>>
        BY <2>2, <3>1, <3>3, Tuplas
      <4>2. h.fase # "cabecera"
        <5>1. Forma(h, <<>>)
          BY <3>3 DEF Conexion
        <5> QED BY <5>1, Tuplas DEF Forma
      <4> QED BY <3>2, <4>1, <4>2, EnMensajes, Tuplas DEF Forma
    <3>4. CASE I # <<>>
      <4>1. Rota(h, I, V, k)
        BY <2>2, <3>4 DEF Conexion, Reposo
      <4>2. PICK a, b : a = Orden(k) /\ b = Resto(k)
        OBVIOUS
      <4>3. CASE SinLeer(h) /\ I = <<a, b>>
        <5>1. J = <<a, b, x>>
          BY <2>2, <3>1, <4>3, YOtra
        <5>2. a \in Mensajes /\ b \in Mensajes /\ a.codigo \in ConFichero /\ b.codigo = "resto"
          <6>1. <<a, b>> \in Seq(Mensajes)
            BY <4>3 DEF Conexion, Forma
          <6> QED BY <4>1, <4>2, <6>1, DeMensajes, MensajesBien DEF Rota
        <5> QED BY <3>2, <4>3, <5>1, <5>2, EnMensajes, Tuplas DEF Forma, SinLeer
      <4>4. CASE h.fase = "cabecera" /\ I = <<b>>
        <5>1. J = <<b, x>>
          BY <2>2, <3>1, <4>4, OtraMas
        <5>2. b \in Mensajes /\ b.codigo = "resto"
          <6>1. <<b>> \in Seq(Mensajes)
            BY <4>4 DEF Conexion, Forma
          <6> QED BY <4>2, <6>1, DeMensajes, MensajesBien
        <5> QED BY <3>2, <4>4, <5>1, <5>2, EnMensajes, Tuplas DEF Forma, SinLeer
      <4> QED BY <3>4, <4>1, <4>2, <4>3, <4>4 DEF Rota
    <3> QED BY <3>3, <3>4
  <2> QED BY <2>1, <2>2
<1> QED BY <1>1, <1>2 DEF Conexion, FasesCliente

-----------------------------------------------------------------------------
(* What the thread reads and answers.                                      *)

Queda(e, I) == IF e THEN SubSeq(I, 2, Len(I)) ELSE <<>>
Contesta(V, k, m) == IF k.fase = "cerrado" THEN V ELSE Append(V, m)

LEMMA QuedaBien ==
    ASSUME NEW e \in BOOLEAN, NEW I \in Seq(Mensajes), I # <<>>
    PROVE  /\ Head(I) = I[1] /\ I[1] \in Mensajes /\ Len(I) \in Nat \ {0}
           /\ e => Queda(e, I) = Tail(I)
           /\ Queda(e, I) \in Seq(Mensajes) /\ Len(Queda(e, I)) <= Len(I) - 1
           /\ Len(I) = 1 => Queda(e, I) = <<>>
           /\ e /\ Len(I) > 1 => Len(Queda(e, I)) = Len(I) - 1 /\ Queda(e, I)[1] = I[2]
           /\ Len(I) > 1 => I[2] \in Mensajes
<1>1. Head(I) = I[1] /\ I[1] \in Mensajes /\ Len(I) \in Nat \ {0}
  BY LenProperties, EmptySeq, HeadTailProperties
<1>2. /\ Tail(I) \in Seq(Mensajes) /\ Len(Tail(I)) = Len(I) - 1
      /\ \A i \in 1 .. Len(Tail(I)) : Tail(I)[i] = I[i + 1]
  BY HeadTailProperties
<1>3. e => Queda(e, I) = Tail(I)
  BY TrasUna DEF Queda
<1>4. ~e => Queda(e, I) = <<>>
  BY DEF Queda
<1>5. Len(I) > 1 => I[2] \in Mensajes
  <2> HAVE Len(I) > 1
  <2>1. 2 \in 1 .. Len(I)
    BY <1>1
  <2> QED BY <2>1, LenProperties
<1>6. CASE e
  <2>1. Len(I) = 1 => Tail(I) = <<>>
    <3> HAVE Len(I) = 1
    <3> DEFINE t == Tail(I)
    <3>1. t \in Seq(Mensajes) /\ Len(t) = 0
      BY <1>2
    <3> HIDE DEF t
    <3>2. t = <<>>
      BY <3>1, EmptySeq
    <3> QED BY <3>2 DEF t
  <2>2. Len(I) > 1 => Tail(I)[1] = I[2]
    <3> HAVE Len(I) > 1
    <3>1. 1 \in 1 .. Len(Tail(I))
      BY <1>1, <1>2
    <3> QED BY <1>2, <3>1
  <2>3. Queda(e, I) = Tail(I)
    BY <1>3, <1>6
  <2> QED BY <1>1, <1>2, <1>5, <2>1, <2>2, <2>3
<1>7. CASE ~e
  <2>1. <<>> \in Seq(Mensajes) /\ Len(<<>>) = 0
    OBVIOUS
  <2> QED BY <1>1, <1>4, <1>5, <1>7, <2>1
<1> QED BY <1>6, <1>7

(* An empty connection.                                                    *)
LEMMA VaciaBien ==
    ASSUME NEW h, h.fase # "cabecera" PROVE Forma(h, <<>>)
<1>1. <<>> \in Seq(Mensajes) /\ Len(<<>>) = 0
  OBVIOUS
<1> QED BY <1>1 DEF Forma

(* PING and STAT.                                                          *)
LEMMA OrdenSimpleBien ==
    ASSUME NEW e \in BOOLEAN, NEW h, NEW s, NEW I, NEW V, NEW k, NEW H, NEW F,
           Conexion(e, h, s, I, V, k, H, F),
           h.fase = "orden", I # <<>>, Head(I).codigo \in Simples, NEW m
    PROVE  Conexion(e, h, [s EXCEPT ![Head(I).codigo] = @ + 1], Queda(e, I), Contesta(V, k, m), k, H, F)
<1> DEFINE s2 == [s EXCEPT ![Head(I).codigo] = @ + 1]
<1>1. Forma(h, I) /\ SinLeer(h) /\ I \in Seq(Mensajes)
  BY DEF Conexion, Forma, SinLeer
<1>2. Head(I) = I[1] /\ Head(I).codigo \notin ConFichero
  BY <1>1, QuedaBien, Constantes
<1>3. Len(I) = 1
  BY <1>1, <1>2 DEF Forma
<1>4. Queda(e, I) = <<>>
  BY <1>1, <1>3, QuedaBien
<1>5. Forma(h, <<>>)
  BY VaciaBien
<1>6. CASE k.fase = "cerrado"
  BY <1>4, <1>5, <1>6 DEF Conexion, Contesta
<1>7. CASE k.fase # "cerrado"
  <2>1. Head(I).codigo = k.op
    BY <1>1, <1>7, CabezaViva
  <2>2. k.op \notin ConFichero
    BY <1>2, <2>1
  <2>3. k.fase = "espera" /\ F = FALSE /\ EnSimple(h, s, I, V, k, H)
    BY <1>7, <2>2 DEF Conexion, FasesCliente, Reposo, Rota, EnFichero
  <2>4. V = <<>> /\ s = H
    BY <2>3 DEF EnSimple
  <2>5. Contesta(V, k, m) = <<m>> /\ <<m>> # <<>> /\ Head(<<m>>) = m
    BY <1>7, <2>4, Tuplas DEF Contesta
  <2>6. Contada(s2, k, H)
    BY <2>1, <2>4 DEF Contada
  <2>7. EnSimple(h, s2, <<>>, <<m>>, k, H)
    BY <2>3, <2>5, <2>6 DEF EnSimple
  <2> QED BY <1>4, <1>5, <2>3, <2>5, <2>7 DEF Conexion
<1> QED BY <1>6, <1>7

LEMMA RestoEnMensajes ==
    ASSUME NEW m \in Mensajes, m.codigo = "resto" PROVE m.iter \in Nat \ {0} /\ m.hash \in Nat
BY Constantes DEF Mensajes

EmpezadoPor(op, r) ==
    [fase |-> "itera", op |-> op, i |-> 0, iter |-> r.iter, hash |-> r.hash, global |-> 0]

(* SWAP, HASH and CHECK: the thread has read the code, or all that there   *)
(* was.                                                                    *)
LEMMA OrdenFicheroBien ==
    ASSUME NEW e \in BOOLEAN, NEW h, NEW s, NEW I, NEW V, NEW k, NEW H, NEW F,
           Conexion(e, h, s, I, V, k, H, F),
           h.fase = "orden", I # <<>>, NEW op \in ConFichero, Head(I).codigo = op,
           NEW h2, h2 = IF e THEN [fase |-> "cabecera", op |-> op, i |-> h.i, iter |-> h.iter,
                                   hash |-> h.hash, global |-> h.global]
                        ELSE EmpezadoPor(op, I[2])
    PROVE  Conexion(e, h2, [s EXCEPT ![op] = @ + 1], Queda(e, I), V, k, H, F)
<1> DEFINE s2 == [s EXCEPT ![op] = @ + 1]  J == Queda(e, I)
<1>1. Forma(h, I) /\ SinLeer(h) /\ I \in Seq(Mensajes)
  BY DEF Conexion, Forma, SinLeer
<1>2. Head(I) = I[1] /\ Len(I) \in Nat
  BY <1>1, QuedaBien
<1>3. Len(I) >= 2 /\ Len(I) <= 3 /\ I[2].codigo = "resto"
  BY <1>1, <1>2 DEF Forma
<1>4. I[2] \in Mensajes /\ I[2].iter \in Nat \ {0}
  BY <1>1, <1>2, <1>3, QuedaBien, RestoEnMensajes
<1>5. /\ EsHilo(h2) /\ h2.fase \in FasesHilo /\ h2.i \in Nat /\ h2.iter \in Nat /\ h2.i <= h2.iter
      /\ h2.fase = "itera" => h2.i < h2.iter
      /\ h2.op = op /\ ~SinLeer(h2) /\ h2.fase = IF e THEN "cabecera" ELSE "itera"
  <2>1. CASE e
    BY <2>1 DEF EsHilo, FasesHilo, Conexion, SinLeer
  <2>2. CASE ~e
    <3>1. h2 = EmpezadoPor(op, I[2])
      BY <2>2
    <3> QED BY <1>4, <2>2, <3>1 DEF EsHilo, FasesHilo, EmpezadoPor, SinLeer
  <2> QED BY <2>1, <2>2
<1>6. Forma(h2, J)
  <2>1. CASE e
    <3>1. Len(I) > 1
      BY <1>2, <1>3
    <3>2. J \in Seq(Mensajes) /\ Len(J) = Len(I) - 1 /\ J[1] = I[2]
      BY <1>1, <2>1, <3>1, QuedaBien
    <3> HIDE DEF J
    <3> QED BY <1>2, <1>3, <1>5, <2>1, <3>2 DEF Forma
  <2>2. CASE ~e
    BY <1>5, <2>2, VaciaBien DEF Queda
  <2> QED BY <2>1, <2>2
<1>7. CASE k.fase = "cerrado"
  BY <1>5, <1>6, <1>7 DEF Conexion
<1>8. CASE k.fase # "cerrado"
  <2>1. k.op = op /\ k.op \notin Simples
    BY <1>1, <1>8, CabezaViva, Constantes
  <2>2. CASE k.fase \in {"fuera", "orden"}
    <3>1. k.fase = "orden" /\ F = TRUE /\ Rota(h, I, V, k)
      BY <2>2 DEF Conexion, Reposo
    <3>2. V = <<>> /\ I = <<Orden(k), Resto(k)>>
      BY <1>1, <3>1 DEF Rota, SinLeer
    <3>3. Tail(I) = <<Resto(k)>>
      BY <3>2, Tuplas
    <3>4. Rota(h2, J, V, k)
      <4>1. CASE e
        BY <1>1, <1>5, <2>1, <3>2, <3>3, <4>1, QuedaBien DEF Rota
      <4>2. CASE ~e
        BY <1>5, <2>1, <3>2, <4>2 DEF Rota, Queda
      <4> QED BY <4>1, <4>2
    <3> QED BY <1>5, <1>6, <3>1, <3>4 DEF Conexion
  <2>3. CASE k.fase \in {"itera", "esperaIter"}
    <3>1. F = FALSE /\ EnFichero(e, h, s, I, V, k, H)
      BY <2>3 DEF Conexion
    <3>2. Empieza(h, s, I, V, k, H)
      BY <3>1 DEF EnFichero, LeidoCodigo, AlDia, Respondido, EnTurno
    <3>3. /\ I = ConBloque(<<Orden(k), Resto(k)>>, k) /\ V = <<>> /\ s = H
          /\ k.i = 0 /\ k.global = 0
      BY <3>2 DEF Empieza
    <3>4. Contada(s2, k, H)
      BY <2>1, <3>3 DEF Contada
    <3>5. EnFichero(e, h2, s2, J, V, k, H)
      <4>1. CASE e
        <5>1. J = ConBloque(<<Resto(k)>>, k)
          <6>1. J = Tail(I)
            BY <1>1, <4>1, QuedaBien
          <6>2. Tail(ConBloque(<<Orden(k), Resto(k)>>, k)) = ConBloque(<<Resto(k)>>, k)
            BY ConBloqueDe
          <6> QED BY <3>3, <6>1, <6>2
        <5>2. LeidoCodigo(e, h2, s2, J, V, k, H)
          BY <1>5, <2>1, <3>3, <3>4, <4>1, <5>1 DEF LeidoCodigo
        <5> QED BY <3>1, <5>2 DEF EnFichero
      <4>2. CASE ~e
        <5>1. I[2] = Resto(k)
          BY <3>3, ConBloqueDe
        <5>2. h2 = EmpezadoPor(op, I[2])
          BY <4>2
        <5>3. EnTurno(h2, k, k.i, k.global)
          <6>1. I[2].iter = Iteraciones(k.fichero) /\ I[2].hash = k.hash
            BY <5>1, MensajesBien
          <6> QED BY <2>1, <3>3, <5>2, <6>1 DEF EnTurno, EmpezadoPor
        <5>4. AlDia(e, h2, s2, J, V, k, H)
          BY <3>3, <3>4, <4>2, <5>3 DEF AlDia, Queda
        <5> QED BY <3>1, <5>4 DEF EnFichero
      <4> QED BY <4>1, <4>2
    <3> QED BY <1>5, <1>6, <2>3, <3>1, <3>5 DEF Conexion
  <2>4. k.fase # "espera"
    BY <2>1 DEF Conexion, EnSimple
  <2> QED BY <1>8, <2>2, <2>3, <2>4 DEF Conexion, FasesCliente
<1> QED BY <1>7, <1>8

(* The rest of the header.                                                 *)
LEMMA CabeceraBien ==
    ASSUME NEW e \in BOOLEAN, NEW h, NEW s, NEW I, NEW V, NEW k, NEW H, NEW F,
           Conexion(e, h, s, I, V, k, H, F),
           h.fase = "cabecera", I # <<>>, NEW h2, h2 = EmpezadoPor(h.op, Head(I))
    PROVE  Conexion(e, h2, s, Queda(e, I), V, k, H, F)
<1> DEFINE J == Queda(e, I)
<1>1. Forma(h, I) /\ ~SinLeer(h) /\ I \in Seq(Mensajes)
  BY DEF Conexion, Forma, SinLeer
<1>2. Head(I) = I[1] /\ I[1] \in Mensajes /\ Len(I) \in Nat /\ J \in Seq(Mensajes) /\ Len(J) <= Len(I) - 1
  BY <1>1, QuedaBien
<1>3. Len(I) \in 1 .. 2 /\ I[1].codigo = "resto"
  BY <1>1 DEF Forma
<1>4. Head(I).iter \in Nat \ {0}
  BY <1>2, <1>3, RestoEnMensajes
<1>5. /\ EsHilo(h2) /\ h2.fase = "itera" /\ h2.fase \in FasesHilo /\ h2.op = h.op /\ h2.i = 0
      /\ h2.iter = Head(I).iter /\ h2.hash = Head(I).hash /\ h2.global = 0
      /\ h2.i \in Nat /\ h2.iter \in Nat /\ h2.i < h2.iter /\ h2.i <= h2.iter /\ ~SinLeer(h2)
  BY <1>4 DEF EsHilo, FasesHilo, EmpezadoPor, SinLeer
<1>6. Forma(h2, J)
  <2> DEFINE m == Len(I)  n == Len(J)
  <2>1. n \in Nat
    BY <1>2, LenProperties
  <2>2. m \in 1 .. 2 /\ n <= m - 1
    BY <1>2, <1>3
  <2> HIDE DEF J, m, n
  <2>3. n <= 1 /\ n <= 3
    BY <2>1, <2>2
  <2>4. Len(J) <= 1 /\ Len(J) <= 3
    BY <2>3 DEF n
  <2>5. h2.fase # "cabecera"
    BY <1>5
  <2> QED BY <1>2, <1>5, <2>4, <2>5 DEF Forma
<1>7. CASE k.fase = "cerrado"
  BY <1>5, <1>6, <1>7 DEF Conexion
<1>8. CASE k.fase = "orden"
  <2>1. F = TRUE /\ Rota(h, I, V, k)
    BY <1>1, <1>8 DEF Conexion, Reposo
  <2>2. V = <<>> /\ I = <<Resto(k)>> /\ k.op \in ConFichero
    BY <1>1, <2>1 DEF Rota
  <2>3. J = <<>>
    <3>1. Len(I) = 1
      BY <2>2, Tuplas
    <3> QED BY <1>1, <3>1, QuedaBien
  <2>4. Rota(h2, J, V, k)
    BY <1>5, <2>2, <2>3 DEF Rota
  <2> QED BY <1>5, <1>6, <1>8, <2>1, <2>4 DEF Conexion
<1>9. CASE k.fase \in {"itera", "esperaIter"}
  <2>1. F = FALSE /\ EnFichero(e, h, s, I, V, k, H)
    BY <1>9 DEF Conexion
  <2>2. LeidoCodigo(e, h, s, I, V, k, H)
    BY <1>1, <2>1 DEF EnFichero, Empieza, AlDia, Respondido, EnTurno
  <2>3. e /\ I = ConBloque(<<Resto(k)>>, k)
    BY <2>2 DEF LeidoCodigo
  <2>4. Head(I) = Resto(k) /\ J = ConBloque(<<>>, k)
    <3>1. J = Tail(I)
      BY <1>1, <2>3, QuedaBien
    <3>2. Head(ConBloque(<<Resto(k)>>, k)) = Resto(k) /\ Tail(ConBloque(<<Resto(k)>>, k)) = ConBloque(<<>>, k)
      BY ConBloqueDe
    <3> QED BY <2>3, <3>1, <3>2
  <2>5. h2.iter = Iteraciones(k.fichero) /\ h2.hash = k.hash
    BY <1>5, <2>4, MensajesBien
  <2>6. AlDia(e, h2, s, J, V, k, H)
    BY <1>5, <2>2, <2>4, <2>5 DEF AlDia, LeidoCodigo, EnTurno
  <2>7. EnFichero(e, h2, s, J, V, k, H)
    BY <2>1, <2>6 DEF EnFichero
  <2> QED BY <1>5, <1>6, <1>9, <2>1, <2>7 DEF Conexion
<1>10. k.fase # "fuera" /\ k.fase # "espera"
  BY <1>1 DEF Conexion, Reposo, EnSimple, SinLeer
<1> QED BY <1>7, <1>8, <1>9, <1>10 DEF Conexion, FasesCliente

(* A turn of the loop.                                                     *)
LEMMA ServirBloqueBien ==
    ASSUME NEW e \in BOOLEAN, NEW h, NEW s, NEW I, NEW V, NEW k, NEW H, NEW F,
           Conexion(e, h, s, I, V, k, H, F), h.fase = "itera", I # <<>>,
           NEW n, NEW g, g = Acumular(h.op, h.global, n),
           NEW m, m = [codigo |-> h.op, id |-> h.i, local |-> n, global |-> g,
                       check |-> Verificar(h, g, n)],
           NEW h2, h2 = IF Quedan(h) THEN [fase |-> "itera", op |-> h.op, i |-> h.i + 1, iter |-> h.iter,
                                           hash |-> h.hash, global |-> g]
                        ELSE [fase |-> "orden", op |-> NULL, i |-> 0, iter |-> 0, hash |-> 0, global |-> 0]
    PROVE  Conexion(e, h2, s, Queda(e, I), Contesta(V, k, m), k, H, F)
<1>1. Forma(h, I) /\ ~SinLeer(h) /\ I \in Seq(Mensajes) /\ h.i \in Nat /\ h.iter \in Nat /\ h.i < h.iter
  BY DEF Conexion, Forma, SinLeer
<1>2. Len(I) = 1
  <2>1. Len(I) <= 1
    BY <1>1 DEF Forma
  <2>2. Len(I) \in Nat \ {0}
    BY <1>1, QuedaBien
  <2> DEFINE x == Len(I)
  <2> HIDE DEF x
  <2>3. x <= 1 /\ x \in Nat \ {0}
    BY <2>1, <2>2 DEF x
  <2>4. x = 1
    BY <2>3
  <2> QED BY <2>4 DEF x
<1>3. Queda(e, I) = <<>>
  BY <1>1, <1>2, QuedaBien
<1>4. /\ EsHilo(h2) /\ h2.fase \in FasesHilo /\ h2.i \in Nat /\ h2.iter \in Nat /\ h2.i <= h2.iter
      /\ h2.fase = "itera" => h2.i < h2.iter
      /\ h2.fase # "cabecera" /\ h2.fase = IF Quedan(h) THEN "itera" ELSE "orden"
  BY <1>1 DEF EsHilo, FasesHilo, Quedan
<1>5. Forma(h2, <<>>)
  BY <1>4, VaciaBien
<1>6. CASE k.fase = "cerrado"
  BY <1>3, <1>4, <1>5, <1>6 DEF Conexion, Contesta
<1>7. CASE k.fase # "cerrado"
  <2>1. k.fase \in {"itera", "esperaIter"} /\ F = FALSE /\ EnFichero(e, h, s, I, V, k, H)
    BY <1>1, <1>7 DEF Conexion, FasesCliente, Reposo, Rota, EnSimple, SinLeer
  <2>2. AlDia(e, h, s, I, V, k, H)
    BY <1>1, <2>1 DEF EnFichero, Empieza, LeidoCodigo, Respondido
  <2>3. /\ k.fase = "esperaIter" /\ V = <<>> /\ Contada(s, k, H)
        /\ h.op = k.op /\ h.iter = Iteraciones(k.fichero) /\ h.hash = k.hash /\ h.i = k.i
        /\ h.global = k.global
    BY <2>1, <2>2 DEF AlDia, ConBloque, EnTurno
  <2>4. Contesta(V, k, m) = <<m>> /\ <<m>> # <<>> /\ Head(<<m>>) = m
    BY <1>7, <2>3, Tuplas DEF Contesta
  <2>5. Respuesta(m, k)
    <3>1. m.codigo = k.op /\ m.id = k.i /\ m.local = n /\ m.global = g /\ m.check = Verificar(h, g, n)
      BY <2>3
    <3>2. g = Acumular(k.op, k.global, n)
      BY <2>3
    <3>3. k.i = Iteraciones(k.fichero) - 1 <=> k.i + 1 = Iteraciones(k.fichero)
      BY <1>1, <2>3
    <3>4. Verificar(h, g, n) = CHECK_OK <=> k.i + 1 = Iteraciones(k.fichero) /\ g = k.hash
      BY <2>3, <3>3 DEF Verificar, CHECK_OK, CHECK_FAIL
    <3> QED BY <3>1, <3>2, <3>4 DEF Respuesta
  <2>6. IF k.i + 1 < Iteraciones(k.fichero) THEN EnTurno(h2, k, k.i + 1, m.global) ELSE h2.fase = "orden"
    BY <1>4, <2>3 DEF EnTurno, Quedan
  <2>7. Respondido(h2, s, <<>>, <<m>>, k, H)
    BY <2>3, <2>4, <2>5, <2>6 DEF Respondido
  <2>8. EnFichero(e, h2, s, <<>>, <<m>>, k, H)
    BY <2>1, <2>7 DEF EnFichero
  <2> QED BY <1>3, <1>4, <1>5, <2>3, <2>1, <2>4, <2>8 DEF Conexion
<1> QED BY <1>6, <1>7

(* The thread ends: its client has left.                                   *)
LEMMA TerminarHiloBien ==
    ASSUME NEW e, NEW h, NEW s, NEW I, NEW V, NEW k, NEW H, NEW F, Conexion(e, h, s, I, V, k, H, F),
           \/ h.fase = "orden" /\ I # <<>> /\ Head(I).codigo = "exit"
           \/ k.fase = "cerrado",
           NEW h2, h2 = [fase |-> "fin", op |-> NULL, i |-> 0, iter |-> 0, hash |-> 0, global |-> 0]
    PROVE  Conexion(e, h2, Cero, <<>>, V, k, H, F)
<1>1. k.fase = "cerrado"
  <2> SUFFICES ASSUME k.fase # "cerrado" PROVE FALSE
    OBVIOUS
  <2>1. h.fase = "orden" /\ I # <<>> /\ Head(I).codigo = "exit"
    OBVIOUS
  <2>2. SinLeer(h)
    BY <2>1 DEF SinLeer
  <2>3. Head(I).codigo \in Ordenes
    BY <2>1, <2>2, CabezaViva
  <2> QED BY <2>1, <2>3, Constantes
<1>2. EsHilo(h2) /\ h2.fase = "fin" /\ h2.i = 0 /\ h2.iter = 0
  BY DEF EsHilo
<1>3. Forma(h2, <<>>)
  BY <1>2, VaciaBien
<1> QED BY <1>1, <1>2, <1>3 DEF Conexion, FasesHilo

-----------------------------------------------------------------------------
(***************************************************************************)
(* From one connection to the whole system: a step is of one connection,   *)
(* and leaves the others as they were.                                     *)
(***************************************************************************)
SoloDe(c) ==
    /\ exacta' = exacta /\ PorCliente'
    /\ \A d \in Clientes \ {c} :
          /\ hilo'[d] = hilo[d] /\ stats'[d] = stats[d] /\ ida'[d] = ida[d] /\ vuelta'[d] = vuelta[d]
          /\ cliente'[d] = cliente[d] /\ hechas'[d] = hechas[d] /\ fallida'[d] = fallida[d]

ConexionNueva(c) ==
    Conexion(exacta, hilo'[c], stats'[c], ida'[c], vuelta'[c], cliente'[c], hechas'[c], fallida'[c])

LEMMA LasDemas ==
    ASSUME InvSockets, NEW c \in Clientes, SoloDe(c), ConexionNueva(c)
    PROVE  PorCliente' /\ \A d \in Clientes : De(d)'
<1>1. De(c)'
  BY DEF SoloDe, ConexionNueva, De
<1>2. ASSUME NEW d \in Clientes \ {c} PROVE De(d)'
  <2>1. De(d)
    BY DEF InvSockets
  <2> QED BY <2>1 DEF SoloDe, De
<1> QED BY <1>1, <1>2 DEF SoloDe

(* Steps that the main thread does not take part in.                       *)
LEMMA EsperaIgual ==
    ASSUME InvSockets, NEW c \in Clientes, SoloDe(c), ConexionNueva(c),
           UNCHANGED servidor, fallos' \in 0 .. MaxFallos,
           \/ hilo'[c].fase = hilo[c].fase
           \/ hilo[c].fase # "ninguno" /\ hilo'[c].fase # "creado",
           cliente'[c].fase # "fuera"
    PROVE  InvSockets'
<1>1. /\ exacta' = exacta /\ pendientes' = pendientes /\ principal' = principal /\ busy' = busy
  BY DEF servidor
<1>2. \A d \in Clientes : Creando(d)' => Creando(d)
  BY DEF SoloDe, Creando
<1>3. ASSUME NEW d \in ToSet(pendientes) PROVE hilo'[d].fase = "ninguno" /\ cliente'[d].fase # "fuera"
  <2>1. d \in Clientes /\ hilo[d].fase = "ninguno" /\ cliente[d].fase # "fuera"
    BY DentroDe DEF InvSockets, Espera
  <2> QED BY <2>1 DEF SoloDe
<1>4. Espera'
  BY <1>1, <1>2, <1>3 DEF InvSockets, Espera
<1> QED BY <1>4, LasDemas DEF InvSockets

(* A thread that started is not one to be created.                         *)
LEMMA DeConexion ==
    ASSUME InvSockets, NEW c \in Clientes
    PROVE  /\ Conexion(exacta, hilo[c], stats[c], ida[c], vuelta[c], cliente[c], hechas[c], fallida[c])
           /\ EsHilo(hilo[c]) /\ EsCliente(cliente[c]) /\ fallida[c] \in BOOLEAN
           /\ PorCliente /\ exacta \in BOOLEAN /\ fallos \in 0 .. MaxFallos
           /\ ida[c] \in Seq(Mensajes)
BY DEF InvSockets, De, Conexion, Espera, Forma

LEMMA PedirSimplePaso ==
    ASSUME InvSockets, NEW c \in Clientes, NEW op \in Simples, PedirSimple(c, op)
    PROVE  InvSockets'
<1>1. cliente[c].fase = "orden" /\ ~fallida[c] /\ fallida[c] \in BOOLEAN
  BY DeConexion DEF PedirSimple, Libre
<1>2. /\ SoloDe(c) /\ UNCHANGED servidor /\ fallos' = fallos
      /\ ida'[c] = Append(ida[c], [codigo |-> op])
      /\ cliente'[c] = Locales("espera", op, <<>>, 0, cliente[c].ordenes + 1)
      /\ hilo'[c] = hilo[c] /\ stats'[c] = stats[c] /\ vuelta'[c] = vuelta[c]
      /\ hechas'[c] = hechas[c] /\ fallida'[c] = fallida[c]
  BY DeConexion DEF PedirSimple, SoloDe, PorCliente, servidor
<1>3. ConexionNueva(c) /\ cliente'[c].fase # "fuera"
  <2>1. Conexion(exacta, hilo[c], stats[c], ida[c], vuelta[c], cliente[c], hechas[c], fallida[c])
    BY DeConexion
  <2>2. /\ Conexion(exacta, hilo[c], stats[c], Append(ida[c], [codigo |-> op]), vuelta[c], cliente'[c],
                    hechas[c], fallida[c])
        /\ cliente'[c].fase # "fuera"
    BY <1>1, <1>2, <2>1, PedirSimpleBien
  <2> QED BY <1>2, <2>2 DEF ConexionNueva
<1> QED BY <1>2, <1>3, EsperaIgual, DeConexion

LEMMA PedirFicheroPaso ==
    ASSUME InvSockets, NEW c \in Clientes, NEW op \in ConFichero, NEW f \in Ficheros,
           NEW x \in Hashes \cup {0}, PedirFichero(c, op, f, x)
    PROVE  InvSockets'
<1>1. cliente[c].fase = "orden" /\ ~fallida[c] /\ fallida[c] \in BOOLEAN
  BY DeConexion DEF PedirFichero, Libre
<1>2. /\ SoloDe(c) /\ UNCHANGED servidor /\ fallos' = fallos
      /\ ida'[c] = ida[c] \o <<[codigo |-> op], [codigo |-> "resto", iter |-> Iteraciones(f), hash |-> x]>>
      /\ cliente'[c] = Locales("itera", op, f, x, cliente[c].ordenes + 1)
      /\ hilo'[c] = hilo[c] /\ stats'[c] = stats[c] /\ vuelta'[c] = vuelta[c]
      /\ hechas'[c] = hechas[c] /\ fallida'[c] = fallida[c]
  BY DeConexion DEF PedirFichero, SoloDe, PorCliente, servidor
<1>3. ConexionNueva(c) /\ cliente'[c].fase # "fuera"
  <2> DEFINE m == <<[codigo |-> op], [codigo |-> "resto", iter |-> Iteraciones(f), hash |-> x]>>
  <2>1. Conexion(exacta, hilo[c], stats[c], ida[c], vuelta[c], cliente[c], hechas[c], fallida[c])
    BY DeConexion
  <2>2. /\ Conexion(exacta, hilo[c], stats[c], ida[c] \o m, vuelta[c], cliente'[c], hechas[c], fallida[c])
        /\ cliente'[c].fase # "fuera"
    BY <1>1, <1>2, <2>1, PedirFicheroBien
  <2> QED BY <1>2, <2>2 DEF ConexionNueva
<1> QED BY <1>2, <1>3, EsperaIgual, DeConexion

LEMMA EnviarBloquePaso ==
    ASSUME InvSockets, NEW c \in Clientes, EnviarBloque(c)
    PROVE  InvSockets'
<1>1. cliente[c].fase = "itera"
  BY DEF EnviarBloque
<1>2. /\ SoloDe(c) /\ UNCHANGED servidor /\ fallos' = fallos
      /\ ida'[c] = Append(ida[c], Turno(cliente[c]))
      /\ cliente'[c] = [cliente[c] EXCEPT !.fase = "esperaIter"]
      /\ hilo'[c] = hilo[c] /\ stats'[c] = stats[c] /\ vuelta'[c] = vuelta[c]
      /\ hechas'[c] = hechas[c] /\ fallida'[c] = fallida[c]
  BY DeConexion DEF EnviarBloque, SoloDe, PorCliente, servidor, Turno
<1>3. ConexionNueva(c) /\ cliente'[c].fase # "fuera"
  BY <1>1, <1>2, DeConexion, EnviarBloqueBien DEF ConexionNueva
<1> QED BY <1>2, <1>3, EsperaIgual, DeConexion

LEMMA FalloFicheroPaso ==
    ASSUME InvSockets, NEW c \in Clientes, FalloFichero(c)
    PROVE  InvSockets'
<1>1. cliente[c].fase = "itera" /\ fallos < MaxFallos /\ fallos' = fallos + 1
  BY DEF FalloFichero
<1>2. /\ SoloDe(c) /\ UNCHANGED servidor
      /\ cliente'[c] = [cliente[c] EXCEPT !.fase = "orden"] /\ fallida'[c] = TRUE
      /\ hilo'[c] = hilo[c] /\ stats'[c] = stats[c] /\ ida'[c] = ida[c] /\ vuelta'[c] = vuelta[c]
      /\ hechas'[c] = hechas[c]
  BY DeConexion DEF FalloFichero, SoloDe, PorCliente, servidor, conexion
<1>3. ConexionNueva(c) /\ cliente'[c].fase # "fuera"
  <2>1. Conexion(exacta, hilo[c], stats[c], ida[c], vuelta[c], cliente[c], hechas[c], fallida[c])
    BY DeConexion
  <2>2. cliente[c].fase = "itera" /\ cliente'[c] = [cliente[c] EXCEPT !.fase = "orden"]
    BY <1>1, <1>2
  <2>3. EsCliente(cliente'[c]) /\ cliente'[c].fase = "orden" /\ Rota(hilo[c], ida[c], vuelta[c], cliente'[c])
    BY <2>1, <2>2, FalloFicheroBien
  <2> QED BY <1>2, <2>1, <2>3 DEF ConexionNueva, Conexion, FasesCliente
<1>4. fallos' \in 0 .. MaxFallos
  BY <1>1, DeConexion, SocketsAssumption
<1> QED BY <1>2, <1>3, <1>4, EsperaIgual

LEMMA RecibirSimplePaso ==
    ASSUME InvSockets, NEW c \in Clientes, RecibirSimple(c)
    PROVE  InvSockets'
<1>1. cliente[c].fase = "espera" /\ vuelta[c] # <<>>
  BY DEF RecibirSimple
<1>2. /\ SoloDe(c) /\ UNCHANGED servidor /\ fallos' = fallos
      /\ vuelta'[c] = Tail(vuelta[c])
      /\ cliente'[c] = [cliente[c] EXCEPT !.fase = "orden"]
      /\ hechas'[c] = [hechas[c] EXCEPT ![cliente[c].op] = @ + 1]
      /\ hilo'[c] = hilo[c] /\ stats'[c] = stats[c] /\ ida'[c] = ida[c] /\ fallida'[c] = fallida[c]
  BY DeConexion DEF RecibirSimple, SoloDe, PorCliente, servidor
<1>3. ConexionNueva(c) /\ cliente'[c].fase # "fuera"
  BY <1>1, <1>2, DeConexion, RecibirSimpleBien DEF ConexionNueva
<1> QED BY <1>2, <1>3, EsperaIgual, DeConexion

LEMMA RecibirBloquePaso ==
    ASSUME InvSockets, NEW c \in Clientes, RecibirBloque(c)
    PROVE  InvSockets'
<1> DEFINE k == cliente[c]  r == Head(vuelta[c])  H == hechas[c]
<1>1. k.fase = "esperaIter" /\ vuelta[c] # <<>>
  BY DEF RecibirBloque
<1>2. PICK u \in BOOLEAN : u <=> k.i + 1 = Iteraciones(k.fichero)
  <2>1. CASE k.i + 1 = Iteraciones(k.fichero)
    BY <2>1
  <2>2. CASE k.i + 1 # Iteraciones(k.fichero)
    BY <2>2
  <2> QED BY <2>1, <2>2
<1>3. PICK k2 : k2 = [fase |-> IF u THEN "orden" ELSE "itera", op |-> k.op, fichero |-> k.fichero,
                      i |-> k.i + 1, hash |-> k.hash, calc |-> Acumular(k.op, k.calc, r.local),
                      global |-> r.global, check |-> r.check, ordenes |-> k.ordenes]
  OBVIOUS
<1>4. PICK H2 : H2 = IF u THEN [H EXCEPT ![k.op] = @ + 1] ELSE H
  OBVIOUS
<1>5. Conexion(exacta, hilo[c], stats[c], ida[c], vuelta[c], k, H, fallida[c])
  BY DeConexion
<1>6. /\ r.codigo = k.op /\ r.id = k.i /\ k2.fase # "fuera"
      /\ Conexion(exacta, hilo[c], stats[c], ida[c], Tail(vuelta[c]), k2, H2, fallida[c])
  BY <1>1, <1>2, <1>3, <1>5, <1>4, RecibirBloqueBien
<1>7. /\ cliente' = [cliente EXCEPT
                        ![c].fase = IF u THEN "orden" ELSE "itera",
                        ![c].i = @ + 1,
                        ![c].calc = Acumular(k.op, @, r.local),
                        ![c].global = r.global,
                        ![c].check = r.check]
      /\ hechas' = IF u THEN [hechas EXCEPT ![c][k.op] = @ + 1] ELSE hechas
      /\ fallida' = fallida
  BY <1>2, <1>6 DEF RecibirBloque
<1>8. cliente'[c] = k2
  <2>1. k = [fase |-> k.fase, op |-> k.op, fichero |-> k.fichero, i |-> k.i, hash |-> k.hash,
             calc |-> k.calc, global |-> k.global, check |-> k.check, ordenes |-> k.ordenes]
    BY DeConexion DEF EsCliente
  <2> QED BY <1>3, <1>7, <2>1, DeConexion DEF PorCliente
<1>9. hechas'[c] = H2
  BY <1>7, <1>4, DeConexion DEF PorCliente
<1>10. /\ SoloDe(c) /\ UNCHANGED servidor /\ fallos' = fallos
      /\ vuelta'[c] = Tail(vuelta[c])
      /\ hilo'[c] = hilo[c] /\ stats'[c] = stats[c] /\ ida'[c] = ida[c] /\ fallida'[c] = fallida[c]
  BY <1>7, DeConexion DEF RecibirBloque, SoloDe, PorCliente, servidor
<1>11. ConexionNueva(c) /\ cliente'[c].fase # "fuera"
  BY <1>6, <1>8, <1>9, <1>10 DEF ConexionNueva
<1> QED BY <1>10, <1>11, EsperaIgual, DeConexion

LEMMA CerrarPaso ==
    ASSUME InvSockets, NEW c \in Clientes, Salir(c) \/ Morir(c)
    PROVE  InvSockets'
<1>1. /\ SoloDe(c) /\ UNCHANGED servidor /\ fallos' = fallos
      /\ vuelta'[c] = <<>> /\ hechas'[c] = Cero /\ ~fallida'[c] /\ fallida'[c] \in BOOLEAN
      /\ cliente'[c] = Locales("cerrado", NULL, <<>>, 0, cliente[c].ordenes)
      /\ hilo'[c] = hilo[c] /\ stats'[c] = stats[c]
      /\ ida'[c] = ida[c] \/ (cliente[c].fase = "orden" /\ ida'[c] = Append(ida[c], [codigo |-> "exit"]))
  BY DeConexion DEF Salir, Morir, Cerrar, SoloDe, PorCliente, servidor
<1>2. Conexion(exacta, hilo[c], stats[c], ida[c], vuelta[c], cliente[c], hechas[c], fallida[c])
  BY DeConexion
<1>3. Conexion(exacta, hilo[c], stats[c], ida'[c], <<>>, cliente'[c], Cero, FALSE)
         /\ cliente'[c].fase # "fuera"
  BY <1>1, <1>2, CerrarBien
<1>4. ConexionNueva(c) /\ cliente'[c].fase # "fuera"
  BY <1>1, <1>3 DEF ConexionNueva
<1> QED BY <1>1, <1>4, EsperaIgual, DeConexion

LEMMA OrdenSimplePaso ==
    ASSUME InvSockets, NEW c \in Clientes, OrdenSimple(c)
    PROVE  InvSockets'
<1> DEFINE o == Head(ida[c]).codigo  m == [codigo |-> o, stats |-> stats[c]]
<1>1. hilo[c].fase = "orden" /\ ida[c] # <<>> /\ o \in Simples
  BY DEF OrdenSimple, Recibe
<1>2. /\ SoloDe(c) /\ UNCHANGED servidor /\ fallos' = fallos
      /\ ida'[c] = Queda(exacta, ida[c]) /\ vuelta'[c] = Contesta(vuelta[c], cliente[c], m)
      /\ stats'[c] = [stats[c] EXCEPT ![o] = @ + 1]
      /\ hilo'[c] = hilo[c] /\ cliente'[c] = cliente[c] /\ hechas'[c] = hechas[c] /\ fallida'[c] = fallida[c]
  <2>1. /\ ida' = [ida EXCEPT ![c] = Queda(exacta, ida[c])]
        /\ stats' = [stats EXCEPT ![c][o] = @ + 1]
        /\ UNCHANGED servidor /\ UNCHANGED <<hilo, cliente, hechas, fallida, fallos>>
    BY DEF OrdenSimple, Contar, TrasLeer, Queda
  <2>2. \/ vuelta' = vuelta /\ cliente[c].fase = "cerrado"
        \/ vuelta' = [vuelta EXCEPT ![c] = Append(vuelta[c], m)] /\ cliente[c].fase # "cerrado"
    BY DEF OrdenSimple, Responder
  <2>3. SoloDe(c)
    BY <2>1, <2>2, DeConexion DEF SoloDe, PorCliente, servidor
  <2>4. vuelta'[c] = Contesta(vuelta[c], cliente[c], m)
    BY <2>2, DeConexion DEF PorCliente, Contesta
  <2> QED BY <2>1, <2>3, <2>4, DeConexion DEF PorCliente
<1>3. Conexion(exacta, hilo[c], stats[c], ida[c], vuelta[c], cliente[c], hechas[c], fallida[c])
         /\ cliente[c].fase # "fuera"
  BY <1>1, DeConexion DEF Conexion
<1>4. Conexion(exacta, hilo[c], [stats[c] EXCEPT ![o] = @ + 1], Queda(exacta, ida[c]),
               Contesta(vuelta[c], cliente[c], m), cliente[c], hechas[c], fallida[c])
  BY <1>1, <1>3, OrdenSimpleBien, DeConexion
<1>5. ConexionNueva(c) /\ cliente'[c].fase # "fuera"
  BY <1>2, <1>3, <1>4 DEF ConexionNueva
<1> QED BY <1>2, <1>5, EsperaIgual, DeConexion

LEMMA OrdenFicheroPaso ==
    ASSUME InvSockets, NEW c \in Clientes, OrdenFichero(c)
    PROVE  InvSockets'
<1>1. PICK op \in ConFichero : op = Head(ida[c]).codigo
  BY DEF OrdenFichero
<1>2. hilo[c].fase = "orden" /\ ida[c] # <<>>
  BY DEF OrdenFichero, Recibe
<1>3. /\ ida' = [ida EXCEPT ![c] = Queda(exacta, ida[c])]
      /\ stats' = [stats EXCEPT ![c][op] = @ + 1]
      /\ UNCHANGED servidor /\ UNCHANGED <<vuelta, cliente, hechas, fallida, fallos>>
  BY <1>1 DEF OrdenFichero, Contar, TrasLeer, Queda
<1> DEFINE h == hilo[c]
           h2 == IF exacta THEN [fase |-> "cabecera", op |-> op, i |-> h.i, iter |-> h.iter,
                                 hash |-> h.hash, global |-> h.global]
                 ELSE EmpezadoPor(op, ida[c][2])
<1>4. hilo'[c] = h2 /\ DOMAIN hilo' = Clientes /\ \A d \in Clientes \ {c} : hilo'[d] = hilo[d]
  <2>1. CASE exacta
    <3>1. h = [fase |-> h.fase, op |-> h.op, i |-> h.i, iter |-> h.iter, hash |-> h.hash, global |-> h.global]
      BY DeConexion DEF EsHilo
    <3>2. hilo' = [hilo EXCEPT ![c].fase = "cabecera", ![c].op = op]
      BY <1>1, <2>1 DEF OrdenFichero
    <3>3. PICK q : q = [h EXCEPT !.fase = "cabecera", !.op = op]
      OBVIOUS
    <3>4. hilo'[c] = q
      BY <3>2, <3>3, DeConexion DEF PorCliente
    <3>5. q = h2
      BY <2>1, <3>3, DosCampos, DeConexion
    <3> QED BY <3>2, <3>4, <3>5, DeConexion DEF PorCliente
  <2>2. CASE ~exacta
    BY <1>1, <2>2, DeConexion DEF OrdenFichero, EmpezarBloques, EmpezadoPor, PorCliente
  <2> QED BY <2>1, <2>2
<1>5. h2.fase # "creado"
  BY DEF EmpezadoPor
<1>6. Conexion(exacta, h, stats[c], ida[c], vuelta[c], cliente[c], hechas[c], fallida[c])
         /\ cliente[c].fase # "fuera"
  BY <1>2, DeConexion DEF Conexion
<1>7. Conexion(exacta, h2, [stats[c] EXCEPT ![op] = @ + 1], Queda(exacta, ida[c]), vuelta[c],
               cliente[c], hechas[c], fallida[c])
  <2>1. exacta \in BOOLEAN /\ Head(ida[c]).codigo = op
    BY <1>1, DeConexion
  <2> QED BY <1>2, <1>6, <2>1, OrdenFicheroBien
<1> HIDE DEF h2
<1>8. SoloDe(c) /\ fallos' = fallos /\ hilo'[c] = h2 /\ cliente'[c] = cliente[c]
  BY <1>3, <1>4, DeConexion DEF SoloDe, PorCliente, servidor
<1>9. ConexionNueva(c)
  BY <1>3, <1>7, <1>8, DeConexion DEF ConexionNueva, PorCliente
<1> QED BY <1>2, <1>3, <1>5, <1>6, <1>8, <1>9, EsperaIgual, DeConexion

LEMMA CabeceraPaso ==
    ASSUME InvSockets, NEW c \in Clientes, Cabecera(c)
    PROVE  InvSockets'
<1> DEFINE h == hilo[c]  h2 == EmpezadoPor(h.op, Head(ida[c]))
<1>1. h.fase = "cabecera" /\ ida[c] # <<>>
  BY DEF Cabecera, Recibe
<1>2. /\ ida' = [ida EXCEPT ![c] = Queda(exacta, ida[c])]
      /\ hilo' = [hilo EXCEPT ![c] = h2]
      /\ UNCHANGED servidor /\ UNCHANGED <<stats, vuelta, cliente, hechas, fallida, fallos>>
  BY DEF Cabecera, TrasLeer, Queda, EmpezarBloques, EmpezadoPor
<1>3. h2.fase # "creado"
  BY DEF EmpezadoPor
<1>4. Conexion(exacta, h, stats[c], ida[c], vuelta[c], cliente[c], hechas[c], fallida[c])
         /\ cliente[c].fase # "fuera"
  BY <1>1, DeConexion DEF Conexion
<1>5. Conexion(exacta, h2, stats[c], Queda(exacta, ida[c]), vuelta[c], cliente[c], hechas[c], fallida[c])
  BY <1>1, <1>4, CabeceraBien, DeConexion
<1> HIDE DEF h2
<1>6. SoloDe(c) /\ fallos' = fallos /\ hilo'[c] = h2 /\ cliente'[c] = cliente[c]
  BY <1>2, DeConexion DEF SoloDe, PorCliente, servidor
<1>7. ConexionNueva(c)
  BY <1>2, <1>5, <1>6, DeConexion DEF ConexionNueva, PorCliente
<1> QED BY <1>1, <1>2, <1>3, <1>4, <1>6, <1>7, EsperaIgual, DeConexion

LEMMA ServirBloquePaso ==
    ASSUME InvSockets, NEW c \in Clientes, ServirBloque(c)
    PROVE  InvSockets'
<1> DEFINE h == hilo[c]
           a == Head(ida[c])
           x == IF a.codigo = "iter" THEN Local(h.op, a.texto) ELSE 0
<1>1. PICK n, g : n = x /\ g = Acumular(h.op, h.global, n)
  OBVIOUS
<1> DEFINE m == [codigo |-> h.op, id |-> h.i, local |-> n, global |-> g, check |-> Verificar(h, g, n)]
           h2 == IF Quedan(h) THEN [fase |-> "itera", op |-> h.op, i |-> h.i + 1, iter |-> h.iter,
                                    hash |-> h.hash, global |-> g]
                 ELSE [fase |-> "orden", op |-> NULL, i |-> 0, iter |-> 0, hash |-> 0, global |-> 0]
<1>2. h.fase = "itera" /\ ida[c] # <<>>
  BY DEF ServirBloque, Recibe
<1>3. /\ ida' = [ida EXCEPT ![c] = Queda(exacta, ida[c])]
      /\ UNCHANGED servidor /\ UNCHANGED <<stats, cliente, hechas, fallida, fallos>>
  BY DEF ServirBloque, TrasLeer, Queda
<1>4. \/ vuelta' = vuelta /\ cliente[c].fase = "cerrado"
      \/ vuelta' = [vuelta EXCEPT ![c] = Append(vuelta[c], m)] /\ cliente[c].fase # "cerrado"
  BY <1>1 DEF ServirBloque, Responder
<1>5. hilo' = [hilo EXCEPT ![c] = h2]
  <2>1. hilo' = [hilo EXCEPT ![c] = TrasTurno(h, g)]
    BY <1>1 DEF ServirBloque
  <2>2. TrasTurno(h, g) = h2
    <3>1. CASE Quedan(h)
      <4>1. PICK q : q = [h EXCEPT !.i = @ + 1, !.global = g]
        OBVIOUS
      <4>2. q = h2
        BY <1>2, <3>1, <4>1, DosCampos, DeConexion
      <4> QED BY <3>1, <4>1, <4>2 DEF TrasTurno
    <3>2. CASE ~Quedan(h)
      BY <3>2 DEF TrasTurno, Ninguna
    <3> QED BY <3>1, <3>2
  <2> QED BY <2>1, <2>2
<1>6. h2.fase # "creado"
  OBVIOUS
<1>7. Conexion(exacta, h, stats[c], ida[c], vuelta[c], cliente[c], hechas[c], fallida[c])
         /\ cliente[c].fase # "fuera"
  BY <1>2, DeConexion DEF Conexion
<1>8. Conexion(exacta, h2, stats[c], Queda(exacta, ida[c]), Contesta(vuelta[c], cliente[c], m),
               cliente[c], hechas[c], fallida[c])
  BY <1>1, <1>2, <1>7, ServirBloqueBien, DeConexion
<1> HIDE DEF h2, m
<1>9. SoloDe(c) /\ fallos' = fallos /\ hilo'[c] = h2 /\ cliente'[c] = cliente[c]
  BY <1>3, <1>4, <1>5, DeConexion DEF SoloDe, PorCliente, servidor
<1>10. vuelta'[c] = Contesta(vuelta[c], cliente[c], m)
  BY <1>4, DeConexion DEF Contesta, PorCliente
<1>11. ConexionNueva(c)
  BY <1>3, <1>8, <1>9, <1>10, DeConexion DEF ConexionNueva, PorCliente
<1> QED BY <1>2, <1>3, <1>6, <1>7, <1>9, <1>11, EsperaIgual, DeConexion

LEMMA TerminarHiloPaso ==
    ASSUME InvSockets, NEW c \in Clientes, TerminarHilo(c)
    PROVE  InvSockets'
<1> DEFINE h2 == [fase |-> "fin", op |-> NULL, i |-> 0, iter |-> 0, hash |-> 0, global |-> 0]
<1>1. /\ hilo[c].fase \in {"orden", "cabecera", "itera"}
      /\ \/ hilo[c].fase = "orden" /\ ida[c] # <<>> /\ Head(ida[c]).codigo = "exit"
         \/ cliente[c].fase = "cerrado"
  BY DEF TerminarHilo, Recibe
<1>2. /\ ida' = [ida EXCEPT ![c] = <<>>] /\ stats' = [stats EXCEPT ![c] = Cero]
      /\ hilo' = [hilo EXCEPT ![c] = h2]
      /\ UNCHANGED servidor /\ UNCHANGED <<vuelta, cliente, hechas, fallida, fallos>>
  <2>1. [Ninguna EXCEPT !.fase = "fin"] = h2
    BY DEF Ninguna
  <2> QED BY <2>1 DEF TerminarHilo
<1>3. hilo[c].fase # "ninguno" /\ h2.fase # "creado"
  BY <1>1
<1>4. Conexion(exacta, hilo[c], stats[c], ida[c], vuelta[c], cliente[c], hechas[c], fallida[c])
         /\ cliente[c].fase # "fuera"
  BY <1>1, DeConexion DEF Conexion
<1>5. Conexion(exacta, h2, Cero, <<>>, vuelta[c], cliente[c], hechas[c], fallida[c])
  BY <1>1, <1>4, TerminarHiloBien
<1> HIDE DEF h2
<1>6. SoloDe(c) /\ fallos' = fallos /\ hilo'[c] = h2 /\ cliente'[c] = cliente[c]
  BY <1>2, DeConexion DEF SoloDe, PorCliente, servidor
<1>7. ConexionNueva(c)
  BY <1>2, <1>5, <1>6, DeConexion DEF ConexionNueva, PorCliente
<1> QED BY <1>2, <1>3, <1>4, <1>6, <1>7, EsperaIgual, DeConexion

(* The steps of the main thread, and those it waits for.                   *)
LEMMA ConectarPaso ==
    ASSUME InvSockets, NEW c \in Clientes, Conectar(c)
    PROVE  InvSockets'
<1>1. cliente[c].fase = "fuera"
  BY DEF Conectar
<1>2. /\ SoloDe(c) /\ pendientes' = Append(pendientes, c) /\ principal' = principal /\ busy' = busy
      /\ fallos' = fallos /\ cliente'[c] = [cliente[c] EXCEPT !.fase = "orden"]
      /\ hilo' = hilo /\ stats'[c] = stats[c] /\ ida'[c] = ida[c] /\ vuelta'[c] = vuelta[c]
      /\ hechas'[c] = hechas[c] /\ fallida'[c] = fallida[c]
  BY DeConexion DEF Conectar, SoloDe, PorCliente, conexion
<1>3. ConexionNueva(c) /\ cliente'[c].fase = "orden"
  BY <1>1, <1>2, DeConexion, ConectarBien DEF ConexionNueva
<1>4. hilo[c].fase = "ninguno"
  BY <1>1, DeConexion DEF Conexion
<1>5. c \notin ToSet(pendientes)
  BY <1>1 DEF InvSockets, Espera
<1>6. /\ pendientes' \in Seq(Clientes) /\ IsInjective(pendientes')
      /\ ToSet(pendientes') = ToSet(pendientes) \cup {c}
  <2>1. pendientes \in Seq(Clientes) /\ IsInjective(pendientes)
    BY DEF InvSockets, Espera
  <2> QED BY <1>2, <1>5, <2>1, Insertar
<1>7. ASSUME NEW d \in ToSet(pendientes') PROVE hilo'[d].fase = "ninguno" /\ cliente'[d].fase # "fuera"
  <2>1. CASE d = c
    BY <1>2, <1>3, <1>4, <2>1
  <2>2. CASE d # c
    <3>1. d \in ToSet(pendientes)
      BY <1>6, <2>2
    <3>2. d \in Clientes /\ hilo[d].fase = "ninguno" /\ cliente[d].fase # "fuera"
      BY <3>1, DentroDe DEF InvSockets, Espera
    <3> QED BY <1>2, <2>2, <3>2 DEF SoloDe
  <2> QED BY <2>1, <2>2
<1>8. Espera'
  BY <1>2, <1>6, <1>7 DEF InvSockets, Espera, Creando, SoloDe
<1> QED BY <1>2, <1>3, <1>8, LasDemas DEF InvSockets

LEMMA PrimeroDeLaCola ==
    ASSUME InvSockets, pendientes # <<>>
    PROVE  /\ Head(pendientes) \in Clientes
           /\ hilo[Head(pendientes)].fase = "ninguno" /\ cliente[Head(pendientes)].fase # "fuera"
           /\ Tail(pendientes) \in Seq(Clientes) /\ IsInjective(Tail(pendientes))
           /\ \A d \in ToSet(Tail(pendientes)) :
                 d # Head(pendientes) /\ d \in Clientes /\ hilo[d].fase = "ninguno" /\ cliente[d].fase # "fuera"
<1>1. pendientes \in Seq(Clientes) /\ IsInjective(pendientes)
  BY DEF InvSockets, Espera
<1>2. /\ Head(pendientes) \in ToSet(pendientes) /\ Head(pendientes) \in Clientes
      /\ Tail(pendientes) \in Seq(Clientes) /\ IsInjective(Tail(pendientes))
      /\ Head(pendientes) \notin ToSet(Tail(pendientes))
      /\ ToSet(pendientes) = ToSet(Tail(pendientes)) \cup {Head(pendientes)}
  BY <1>1, Eliminar
<1>3. \A d \in ToSet(pendientes) : d \in Clientes /\ hilo[d].fase = "ninguno" /\ cliente[d].fase # "fuera"
  BY <1>1, DentroDe DEF InvSockets, Espera
<1> QED BY <1>2, <1>3

LEMMA AceptarPaso ==
    ASSUME InvSockets, Aceptar
    PROVE  InvSockets'
<1>1. PICK c \in Clientes : c = Head(pendientes)
  BY PrimeroDeLaCola DEF Aceptar
<1>2. hilo[c].fase = "ninguno" /\ cliente[c].fase # "fuera" /\ principal = "acepta"
  BY <1>1, PrimeroDeLaCola DEF Aceptar
<1>3. /\ SoloDe(c) /\ pendientes' = Tail(pendientes) /\ principal' = "espera" /\ busy' = busy
      /\ fallos' = fallos /\ hilo'[c] = [hilo[c] EXCEPT !.fase = "creado"]
      /\ cliente' = cliente /\ stats'[c] = stats[c] /\ ida'[c] = ida[c] /\ vuelta'[c] = vuelta[c]
      /\ hechas'[c] = hechas[c] /\ fallida'[c] = fallida[c]
  BY <1>1, DeConexion DEF Aceptar, SoloDe, PorCliente
<1>4. ConexionNueva(c) /\ hilo'[c].fase = "creado"
  BY <1>2, <1>3, DeConexion, CrearBien DEF ConexionNueva
<1>5. busy /\ \A d \in Clientes : ~Creando(d)
  BY <1>2 DEF InvSockets, Espera, Creando
<1>6. \A d \in Clientes : Creando(d)' => d = c
  BY <1>3, <1>5 DEF SoloDe, Creando
<1>7. /\ pendientes' \in Seq(Clientes) /\ IsInjective(pendientes')
      /\ \A d \in ToSet(pendientes') : d # c /\ d \in Clientes /\ hilo[d].fase = "ninguno" /\ cliente[d].fase # "fuera"
  BY <1>1, <1>3, PrimeroDeLaCola DEF Aceptar
<1>8. \A d \in ToSet(pendientes') : hilo'[d].fase = "ninguno" /\ cliente'[d].fase # "fuera"
  BY <1>3, <1>7 DEF SoloDe
<1>9. Espera'
  BY <1>3, <1>5, <1>6, <1>7, <1>8 DEF InvSockets, Espera, SoloDe
<1> QED BY <1>3, <1>4, <1>9, LasDemas DEF InvSockets

LEMMA IgualesDe ==
    ASSUME InvSockets, exacta' = exacta, UNCHANGED conexion, UNCHANGED <<cliente, hechas, fallida>>
    PROVE  PorCliente' /\ \A d \in Clientes : De(d)'
<1>1. PorCliente'
  BY DEF InvSockets, PorCliente, conexion
<1>2. ASSUME NEW d \in Clientes PROVE De(d)'
  <2>1. De(d)
    BY DEF InvSockets
  <2> QED BY <2>1 DEF De, conexion
<1> QED BY <1>1, <1>2

LEMMA AceptarSinHiloPaso ==
    ASSUME InvSockets, AceptarSinHilo
    PROVE  InvSockets'
<1>1. /\ principal = "acepta" /\ pendientes # <<>> /\ pendientes' = Tail(pendientes) /\ principal' = "espera"
      /\ fallos < MaxFallos /\ fallos' = fallos + 1
      /\ exacta' = exacta /\ busy' = busy /\ hilo' = hilo /\ cliente' = cliente
      /\ UNCHANGED conexion /\ UNCHANGED <<cliente, hechas, fallida>>
  BY DEF AceptarSinHilo, conexion
<1>2. busy /\ \A d \in Clientes : ~Creando(d)
  BY <1>1 DEF InvSockets, Espera, Creando
<1>3. fallos' \in 0 .. MaxFallos
  BY <1>1, DeConexion, SocketsAssumption DEF InvSockets, Espera
<1>4. /\ pendientes' \in Seq(Clientes) /\ IsInjective(pendientes')
      /\ \A d \in ToSet(pendientes') : hilo[d].fase = "ninguno" /\ cliente[d].fase # "fuera"
  BY <1>1, PrimeroDeLaCola
<1>5. Espera'
  BY <1>1, <1>2, <1>3, <1>4 DEF InvSockets, Espera, Creando
<1> QED BY <1>1, <1>5, IgualesDe DEF InvSockets

LEMMA SeguirAceptandoPaso ==
    ASSUME InvSockets, SeguirAceptando
    PROVE  InvSockets'
<1>1. /\ ~busy /\ busy' = TRUE /\ principal' = "acepta"
      /\ exacta' = exacta /\ pendientes' = pendientes /\ fallos' = fallos /\ hilo' = hilo /\ cliente' = cliente
      /\ UNCHANGED conexion /\ UNCHANGED <<cliente, hechas, fallida>>
  BY DEF SeguirAceptando, conexion
<1>2. \A d \in Clientes : ~Creando(d)
  BY <1>1 DEF InvSockets, Espera
<1>3. Espera'
  BY <1>1, <1>2 DEF InvSockets, Espera, Creando
<1> QED BY <1>1, <1>3, IgualesDe DEF InvSockets

LEMMA EmpezarHiloPaso ==
    ASSUME InvSockets, NEW c \in Clientes, EmpezarHilo(c)
    PROVE  InvSockets'
<1>1. hilo[c].fase = "creado" /\ cliente[c].fase # "fuera"
  BY DeConexion DEF EmpezarHilo, Conexion
<1>2. /\ SoloDe(c) /\ pendientes' = pendientes /\ principal' = principal /\ busy' = FALSE
      /\ fallos' = fallos /\ hilo'[c] = [hilo[c] EXCEPT !.fase = "orden"]
      /\ cliente' = cliente /\ stats'[c] = stats[c] /\ ida'[c] = ida[c] /\ vuelta'[c] = vuelta[c]
      /\ hechas'[c] = hechas[c] /\ fallida'[c] = fallida[c]
  BY DeConexion DEF EmpezarHilo, SoloDe, PorCliente
<1>3. ConexionNueva(c) /\ hilo'[c].fase = "orden"
  BY <1>1, <1>2, DeConexion, CrearBien DEF ConexionNueva
<1>4. Creando(c) /\ principal = "espera"
  BY <1>1 DEF InvSockets, Espera, Creando
<1>5. \A d \in Clientes : ~Creando(d)'
  <2> TAKE d \in Clientes
  <2>1. CASE d = c
    BY <1>3, <2>1 DEF Creando
  <2>2. CASE d # c
    <3>1. ~Creando(d)
      BY <1>4, <2>2 DEF InvSockets, Espera
    <3> QED BY <1>2, <2>2, <3>1 DEF SoloDe, Creando
  <2> QED BY <2>1, <2>2
<1>6. \A d \in ToSet(pendientes) : hilo'[d].fase = "ninguno" /\ cliente'[d].fase # "fuera"
  <2> TAKE d \in ToSet(pendientes)
  <2>1. d \in Clientes /\ hilo[d].fase = "ninguno" /\ cliente[d].fase # "fuera" /\ d # c
    BY <1>1, DentroDe DEF InvSockets, Espera
  <2> QED BY <1>2, <2>1 DEF SoloDe
<1>7. Espera'
  BY <1>2, <1>4, <1>5, <1>6 DEF InvSockets, Espera, SoloDe
<1> QED BY <1>2, <1>3, <1>7, LasDemas DEF InvSockets

LEMMA AlEmpezar == Init => InvSockets
<1> SUFFICES ASSUME Init PROVE InvSockets
  OBVIOUS
<1>1. PorCliente
  BY DEF Init, PorCliente
<1>2. Espera
  <2>1. pendientes = <<>> /\ <<>> \in Seq(Clientes) /\ IsInjective(<<>>) /\ ToSet(<<>>) = {}
    BY DEF Init, IsInjective, ToSet
  <2>2. \A c \in Clientes : ~Creando(c)
    BY DEF Init, Creando, Ninguna
  <2>3. fallos \in 0 .. MaxFallos
    BY SocketsAssumption DEF Init
  <2>4. exacta \in BOOLEAN /\ busy \in BOOLEAN /\ principal = "acepta" /\ busy
    BY DEF Init
  <2> QED BY <2>1, <2>2, <2>3, <2>4 DEF Espera
<1>3. ASSUME NEW c \in Clientes PROVE De(c)
  <2> DEFINE k == Locales("fuera", NULL, <<>>, 0, 0)
  <2>1. EsHilo(Ninguna) /\ Ninguna.fase = "ninguno" /\ Ninguna.i = 0 /\ Ninguna.iter = 0 /\ SinLeer(Ninguna)
    BY DEF Ninguna, EsHilo, SinLeer
  <2>2. /\ EsCliente(k) /\ k.fase = "fuera" /\ k.calc = 0 /\ k.global = 0 /\ k.check = CHECK_OK /\ k.hash = 0
    BY DEF Locales, EsCliente
  <2>3. Forma(Ninguna, <<>>)
    BY <2>1, VaciaBien
  <2>4. Totales(k)
    BY <2>2 DEF Totales
  <2> HIDE DEF k
  <2>5. Reposo(Ninguna, Cero, <<>>, <<>>, k, Cero)
    BY <2>1, <2>4 DEF Reposo
  <2>6. \A F \in BOOLEAN : ~F => Conexion(exacta, Ninguna, Cero, <<>>, <<>>, k, Cero, F)
    BY <2>1, <2>2, <2>3, <2>5 DEF Conexion, FasesHilo, FasesCliente
  <2>7. /\ hilo[c] = Ninguna /\ stats[c] = Cero /\ ida[c] = <<>> /\ vuelta[c] = <<>> /\ cliente[c] = k
        /\ hechas[c] = Cero /\ ~fallida[c] /\ fallida[c] \in BOOLEAN
    BY DEF Init, k
  <2> QED BY <2>6, <2>7 DEF De
<1> QED BY <1>1, <1>2, <1>3 DEF InvSockets

LEMMA EnCadaPaso == InvSockets /\ [Next]_vars => InvSockets'
<1> SUFFICES ASSUME InvSockets, [Next]_vars PROVE InvSockets'
  OBVIOUS
<1>1. CASE PasoPrincipal
  BY <1>1, AceptarPaso, AceptarSinHiloPaso, SeguirAceptandoPaso DEF PasoPrincipal
<1>2. ASSUME NEW c \in Clientes, PasoHilo(c) PROVE InvSockets'
  BY <1>2, EmpezarHiloPaso, OrdenSimplePaso, OrdenFicheroPaso, CabeceraPaso, ServirBloquePaso,
     TerminarHiloPaso
     DEF PasoHilo
<1>3. ASSUME NEW c \in Clientes, PasoCliente(c) PROVE InvSockets'
  BY <1>3, EnviarBloquePaso, RecibirSimplePaso, RecibirBloquePaso DEF PasoCliente
<1>4. ASSUME NEW c \in Clientes, Conectar(c) PROVE InvSockets'
  BY <1>4, ConectarPaso
<1>5. ASSUME NEW c \in Clientes, NEW op \in Simples, PedirSimple(c, op) PROVE InvSockets'
  BY <1>5, PedirSimplePaso
<1>6. ASSUME NEW c \in Clientes, NEW f \in Ficheros, NEW op \in ConFichero, PedirFichero(c, op, f, 0)
      PROVE  InvSockets'
  BY <1>6, PedirFicheroPaso
<1>7. ASSUME NEW c \in Clientes, NEW f \in Ficheros, NEW x \in Hashes, PedirFichero(c, "check", f, x)
      PROVE  InvSockets'
  <2>1. "check" \in ConFichero
    BY DEF ConFichero
  <2> QED BY <1>7, <2>1, PedirFicheroPaso
<1>8. ASSUME NEW c \in Clientes, FalloFichero(c) PROVE InvSockets'
  BY <1>8, FalloFicheroPaso
<1>9. ASSUME NEW c \in Clientes, Salir(c) \/ Morir(c) PROVE InvSockets'
  BY <1>9, CerrarPaso
<1>10. CASE UNCHANGED vars
  <2>1. Espera'
    BY <1>10 DEF InvSockets, Espera, Creando, vars, servidor, conexion
  <2> QED BY <1>10, <2>1, IgualesDe DEF InvSockets, vars, servidor, conexion
<1> QED BY <1>1, <1>2, <1>3, <1>4, <1>5, <1>6, <1>7, <1>8, <1>9, <1>10 DEF Next

THEOREM SocketsInvariante == Spec => []InvSockets
<1> QED BY AlEmpezar, EnCadaPaso, PTL DEF Spec

-----------------------------------------------------------------------------
(* Types; no signal of a thread that starts is lost, and no answer piles   *)
(* up behind another in the connection of a client.                        *)
THEOREM TiposDelServidor == Spec => []TypeOKSockets
<1>1. InvSockets => TypeOKSockets
  <2> SUFFICES ASSUME InvSockets PROVE TypeOKSockets
    OBVIOUS
  <2>1. ASSUME NEW c \in Clientes
        PROVE  /\ hilo[c].fase \in FasesHilo /\ hilo[c].i \in 0 .. hilo[c].iter
               /\ hilo[c].fase = "creado" => principal = "espera" /\ busy
               /\ cliente[c].fase \in FasesCliente /\ Len(ida[c]) <= 4 /\ Len(vuelta[c]) <= 1
    <3>1. De(c)
      BY DEF InvSockets
    <3>2. hilo[c].fase \in FasesHilo /\ hilo[c].i \in 0 .. hilo[c].iter /\ cliente[c].fase \in FasesCliente
      BY <3>1 DEF De, Conexion
    <3>3. Len(ida[c]) <= 4
      <4>1. ida[c] \in Seq(Mensajes) /\ Len(ida[c]) <= 3
        BY <3>1 DEF De, Conexion, Forma
      <4>2. Len(ida[c]) \in Nat
        BY <4>1, LenProperties
      <4> DEFINE n == Len(ida[c])
      <4> HIDE DEF n
      <4>3. n \in Nat /\ n <= 3
        BY <4>1, <4>2 DEF n
      <4>4. n <= 4
        BY <4>3
      <4> QED BY <4>4 DEF n
    <3>4. vuelta[c] = <<>> \/ vuelta[c] = <<Head(vuelta[c])>>
      BY <3>1 DEF De, Conexion, FasesCliente, Reposo, Rota, EnSimple, EnFichero, Empieza, LeidoCodigo,
                  AlDia, Respondido
    <3>5. Len(vuelta[c]) <= 1
      <4>1. PICK v : v = Head(vuelta[c])
        OBVIOUS
      <4>2. vuelta[c] = <<>> \/ vuelta[c] = <<v>>
        BY <3>4, <4>1
      <4>3. Len(<<>>) = 0 /\ Len(<<v>>) = 1
        OBVIOUS
      <4>4. Len(vuelta[c]) = 0 \/ Len(vuelta[c]) = 1
        BY <4>2, <4>3
      <4> DEFINE n == Len(vuelta[c])
      <4> HIDE DEF n
      <4>5. n = 0 \/ n = 1
        BY <4>4 DEF n
      <4>6. n <= 1
        BY <4>5
      <4> QED BY <4>6 DEF n
    <3> QED BY <3>2, <3>3, <3>5 DEF InvSockets, Espera, Creando
  <2>2. /\ exacta \in BOOLEAN /\ busy \in BOOLEAN /\ principal \in {"acepta", "espera"}
        /\ pendientes \in Seq(Clientes) /\ fallos \in 0 .. MaxFallos /\ (principal = "acepta" => busy)
    BY DEF InvSockets, Espera
  <2> QED BY <2>1, <2>2 DEF TypeOKSockets, FasesHilo, FasesCliente
<1> QED BY <1>1, SocketsInvariante, PTL

(* The client that has its prompt again and its thread are in step, after  *)
(* any sequence of commands and whoever else is connected.                 *)
THEOREM SesionSiempreEnOrden == Spec => []SesionEnOrden
<1>1. InvSockets => SesionEnOrden
  BY DEF InvSockets, De, Conexion, Reposo, SesionEnOrden, EnReposo, SinLeer
<1> QED BY <1>1, SocketsInvariante, PTL

(* Both sides end a command on a file with the same total, and the answer  *)
(* of check is about it.                                                   *)
THEOREM SiempreMismoTotal == Spec => []MismoTotal
<1>1. InvSockets => MismoTotal
  BY DEF InvSockets, De, Conexion, Reposo, Totales, MismoTotal, ConTotal, EnReposo
<1> QED BY <1>1, SocketsInvariante, PTL

-----------------------------------------------------------------------------
(***************************************************************************)
(* The total of a file.  A count of a sequence has what its first n chars  *)
(* add, for every n; there is one, there are no two, and what a block adds *)
(* is the difference between two of its values.                            *)
(***************************************************************************)

(* Blocks of F in a length L: where one ends, and that no char is left.    *)
LEMMA Limites ==
    ASSUME NEW L \in Nat, NEW F \in Nat \ {0}, NEW b \in Nat, NEW h, NEW g,
           h = IF b * F < L THEN b * F ELSE L,
           g = IF (b + 1) * F < L THEN (b + 1) * F ELSE L
    PROVE  /\ h \in 0 .. L /\ g \in h .. L
           /\ g - h = IF L - h < F THEN L - h ELSE F
<1> DEFINE m == b * F
<1>1. m \in Nat /\ (b + 1) * F = m + F
  OBVIOUS
<1> HIDE DEF m
<1>2. h = IF m < L THEN m ELSE L
  BY DEF m
<1>3. g = IF m + F < L THEN m + F ELSE L
  BY <1>1
<1> QED BY <1>1, <1>2, <1>3

LEMMA Todos ==
    ASSUME NEW L \in Nat, NEW F \in Nat \ {0}
    PROVE  ~((L \div F + 1) * F < L) /\ L \div F \in Nat
<1> DEFINE d == L \div F
<1>1. d \in Nat /\ L = F * d + (L % F) /\ L % F < F
  OBVIOUS
<1>2. (d + 1) * F = F * d + F
  BY <1>1
<1> DEFINE m == F * d
<1>3. m \in Int /\ L % F \in Int
  BY <1>1
<1> HIDE DEF m, d
<1> QED BY <1>1, <1>2, <1>3 DEF m, d

(* t[n] is what the first n chars add.                                     *)
Cuenta(t, op, s) ==
    t = [n \in 0 .. Len(s) |-> IF n = 0 THEN 0 ELSE t[n - 1] + Peso(op, s[n])]

(* Of two counts, the first place where they differ would be impossible.   *)
LEMMA CuentaUnica ==
    ASSUME NEW op, NEW s, Len(s) \in Nat, NEW t, NEW u, Cuenta(t, op, s), Cuenta(u, op, s)
    PROVE  t = u
<1> DEFINE Distintos == {n \in 0 .. Len(s) : t[n] # u[n]}
<1>1. /\ DOMAIN t = 0 .. Len(s) /\ DOMAIN u = 0 .. Len(s)
      /\ t = [n \in 0 .. Len(s) |-> t[n]] /\ u = [n \in 0 .. Len(s) |-> u[n]]
      /\ \A n \in 0 .. Len(s) : t[n] = (IF n = 0 THEN 0 ELSE t[n - 1] + Peso(op, s[n]))
      /\ \A n \in 0 .. Len(s) : u[n] = (IF n = 0 THEN 0 ELSE u[n - 1] + Peso(op, s[n]))
  BY DEF Cuenta
<1>2. Distintos = {}
  <2> SUFFICES ASSUME Distintos # {} PROVE FALSE
    OBVIOUS
  <2>1. Distintos \in SUBSET Nat
    OBVIOUS
  <2>2. PICK m \in Distintos : \A n \in Distintos : m <= n
    <3> HIDE DEF Distintos
    <3> QED BY <2>1, MinimoDe
  <2>3. m \in 0 .. Len(s) /\ t[m] # u[m]
    OBVIOUS
  <2>4. m # 0
    BY <1>1, <2>3
  <2>5. m - 1 \in 0 .. Len(s) /\ ~(m <= m - 1)
    BY <2>3, <2>4
  <2>6. m - 1 \notin Distintos
    <3> HIDE DEF Distintos
    <3> QED BY <2>2, <2>5
  <2>7. t[m - 1] = u[m - 1]
    BY <2>5, <2>6
  <2> QED BY <1>1, <2>3, <2>4, <2>7
<1>3. \A n \in 0 .. Len(s) : t[n] = u[n]
  BY <1>2
<1> QED BY <1>1, <1>3

(* Suma gives the last of any count.                                      *)
LEMMA SumaCuenta ==
    ASSUME NEW op, NEW s, Len(s) \in Nat, NEW t, Cuenta(t, op, s)
    PROVE  Suma(op, s) = t[Len(s)]
<1> DEFINE u == CHOOSE u : Cuenta(u, op, s)
<1>1. Cuenta(u, op, s)
  OBVIOUS
<1>2. Suma(op, s) = u[Len(s)]
  BY DEF Suma, Cuenta
<1> HIDE DEF u
<1>3. u = t
  BY <1>1, CuentaUnica
<1> QED BY <1>2, <1>3

LEMMA PesoEntero ==
    ASSUME NEW op, NEW x \in Int
    PROVE  /\ Peso(op, x) \in Int
           /\ op # "swap" /\ 0 <= x => Peso(op, x) \in 0 .. HASH_MOD - 1
<1>1. HASH_MOD \in Nat \ {0}
  BY SocketsAssumption
<1>2. x >= 0 => x % HASH_MOD \in 0 .. HASH_MOD - 1
  BY <1>1
<1>3. x < 0 => (- x) % HASH_MOD \in 0 .. HASH_MOD - 1
  BY <1>1
<1>4. x < 0 => - ((- x) % HASH_MOD) \in Int
  BY <1>1, <1>3
<1> QED BY <1>1, <1>2, <1>4 DEF Peso

(* There is a count of every sequence: the first length up to which there  *)
(* were none would have one, from that of the length before.               *)
CuentaHasta(t, op, s, m) ==
    /\ t \in [0 .. m -> Int] /\ t[0] = 0
    /\ \A n \in 1 .. m : t[n] = t[n - 1] + Peso(op, s[n])

LEMMA CuentaSigue ==
    ASSUME NEW op, NEW s \in Seq(Int), NEW m \in Nat, m < Len(s), NEW t, CuentaHasta(t, op, s, m)
    PROVE  \E u : CuentaHasta(u, op, s, m + 1)
<1> DEFINE x == t[m] + Peso(op, s[m + 1])
           u == [n \in 0 .. m + 1 |-> IF n = m + 1 THEN x ELSE t[n]]
<1>1. Len(s) \in Nat /\ m + 1 \in 1 .. Len(s)
  BY LenProperties
<1>2. s[m + 1] \in Int
  BY <1>1, ElementOfSeq
<1>3. /\ t \in [0 .. m -> Int] /\ t[0] = 0
      /\ \A n \in 1 .. m : t[n] = t[n - 1] + Peso(op, s[n])
  BY DEF CuentaHasta
<1>4. x \in Int
  BY <1>2, <1>3, PesoEntero
<1> HIDE DEF x
<1>5. u \in [0 .. m + 1 -> Int] /\ u[0] = 0
  BY <1>3, <1>4
<1>6. ASSUME NEW n \in 1 .. m + 1 PROVE u[n] = u[n - 1] + Peso(op, s[n])
  <2>1. n - 1 \in 0 .. m /\ u[n - 1] = t[n - 1]
    OBVIOUS
  <2>2. CASE n = m + 1
    <3>1. u[n] = x /\ n - 1 = m
      BY <2>2
    <3> QED BY <2>1, <2>2, <3>1 DEF x
  <2>3. CASE n # m + 1
    <3>1. n \in 1 .. m /\ u[n] = t[n]
      BY <2>3
    <3> QED BY <1>3, <2>1, <3>1
  <2> QED BY <2>2, <2>3
<1>7. CuentaHasta(u, op, s, m + 1)
  BY <1>5, <1>6 DEF CuentaHasta
<1> QED BY <1>7

LEMMA HayCuenta ==
    ASSUME NEW op, NEW s \in Seq(Int)
    PROVE  \E t \in [0 .. Len(s) -> Int] : Cuenta(t, op, s)
<1> DEFINE Faltan == {m \in 0 .. Len(s) : ~\E t : CuentaHasta(t, op, s, m)}
<1>1. Len(s) \in Nat
  BY LenProperties
<1>2. Faltan = {}
  <2> SUFFICES ASSUME Faltan # {} PROVE FALSE
    OBVIOUS
  <2>1. Faltan \in SUBSET Nat
    OBVIOUS
  <2>2. PICK m \in Faltan : \A n \in Faltan : m <= n
    <3> HIDE DEF Faltan
    <3> QED BY <2>1, MinimoDe
  <2>3. m \in 0 .. Len(s) /\ ~\E t : CuentaHasta(t, op, s, m)
    OBVIOUS
  <2>4. CuentaHasta([n \in 0 .. 0 |-> 0], op, s, 0)
    <3>1. [n \in 0 .. 0 |-> 0] \in [0 .. 0 -> Int] /\ [n \in 0 .. 0 |-> 0][0] = 0
      OBVIOUS
    <3> QED BY <3>1 DEF CuentaHasta
  <2>5. m # 0
    BY <2>3, <2>4
  <2>6. m - 1 \in 0 .. Len(s) /\ ~(m <= m - 1) /\ m - 1 < Len(s) /\ m - 1 \in Nat /\ (m - 1) + 1 = m
    BY <1>1, <2>3, <2>5
  <2>7. m - 1 \notin Faltan
    <3> HIDE DEF Faltan
    <3> QED BY <2>2, <2>6
  <2>8. PICK t : CuentaHasta(t, op, s, m - 1)
    BY <2>6, <2>7
  <2>9. \E u : CuentaHasta(u, op, s, m)
    <3> DEFINE k == m - 1
    <3>1. k \in Nat /\ k < Len(s) /\ k + 1 = m /\ CuentaHasta(t, op, s, k)
      BY <2>6, <2>8
    <3> HIDE DEF k
    <3>2. \E u : CuentaHasta(u, op, s, k + 1)
      BY <3>1, CuentaSigue
    <3> QED BY <3>1, <3>2
  <2> QED BY <2>3, <2>9
<1>3. Len(s) \in 0 .. Len(s)
  BY <1>1
<1>4. PICK t : CuentaHasta(t, op, s, Len(s))
  BY <1>2, <1>3
<1>5. t \in [0 .. Len(s) -> Int] /\ t[0] = 0 /\ \A n \in 1 .. Len(s) : t[n] = t[n - 1] + Peso(op, s[n])
  BY <1>4 DEF CuentaHasta
<1>6. \A n \in 0 .. Len(s) : t[n] = (IF n = 0 THEN 0 ELSE t[n - 1] + Peso(op, s[n]))
  BY <1>5
<1>7. t = [n \in 0 .. Len(s) |-> t[n]]
  BY <1>5
<1>8. Cuenta(t, op, s)
  BY <1>6, <1>7 DEF Cuenta
<1> QED BY <1>5, <1>8

(* What a piece of a sequence adds is the difference between two counts.   *)
LEMMA SumaDeTramo ==
    ASSUME NEW op, NEW s \in Seq(Int), NEW t \in [0 .. Len(s) -> Int], Cuenta(t, op, s),
           NEW a \in Nat, NEW b \in Nat, a <= b, b <= Len(s)
    PROVE  Suma(op, SubSeq(s, a + 1, b)) = t[b] - t[a]
<1> DEFINE r == SubSeq(s, a + 1, b)
           u == [n \in 0 .. b - a |-> t[a + n] - t[a]]
<1>1. Len(s) \in Nat
  BY LenProperties
<1>2. Len(r) = b - a /\ \A n \in 1 .. b - a : r[n] = s[a + n]
  <2>1. a + 1 \in Int /\ b \in Int /\ \A i \in a + 1 .. b : s[i] \in Int
    <3>1. \A i \in a + 1 .. b : i \in 1 .. Len(s)
      BY <1>1
    <3> QED BY <3>1, ElementOfSeq
  <2>2. /\ Len(r) = (IF a + 1 <= b THEN b - (a + 1) + 1 ELSE 0)
        /\ \A n \in 1 .. b - (a + 1) + 1 : r[n] = s[(a + 1) + n - 1]
    BY <2>1, SubSeqProperties
  <2>3. (IF a + 1 <= b THEN b - (a + 1) + 1 ELSE 0) = b - a /\ b - (a + 1) + 1 = b - a
    OBVIOUS
  <2>4. \A n \in 1 .. b - a : (a + 1) + n - 1 = a + n
    OBVIOUS
  <2> HIDE DEF r
  <2> QED BY <2>2, <2>3, <2>4
<1> HIDE DEF r
<1>3. \A n \in 0 .. Len(s) : t[n] = (IF n = 0 THEN 0 ELSE t[n - 1] + Peso(op, s[n]))
  BY DEF Cuenta
<1>4. \A n \in 0 .. b - a : a + n \in 0 .. Len(s) /\ t[a + n] \in Int /\ t[a] \in Int
  BY <1>1
<1>5. ASSUME NEW n \in 0 .. b - a
      PROVE  u[n] = IF n = 0 THEN 0 ELSE u[n - 1] + Peso(op, r[n])
  <2>1. u[n] = t[a + n] - t[a]
    OBVIOUS
  <2>2. CASE n = 0
    <3>1. a + n = a
      BY <2>2
    <3> QED BY <1>4, <2>1, <2>2, <3>1
  <2>3. CASE n # 0
    <3> DEFINE w == Peso(op, s[a + n])
    <3>1. n - 1 \in 0 .. b - a /\ n \in 1 .. b - a /\ a + n # 0 /\ a + (n - 1) = (a + n) - 1
      BY <2>3
    <3>2. u[n - 1] = t[a + (n - 1)] - t[a]
      BY <3>1
    <3>3. t[a + n] = t[a + (n - 1)] + w
      BY <1>3, <1>4, <3>1
    <3>4. t[a + (n - 1)] \in Int /\ t[a] \in Int /\ t[a + n] \in Int
      BY <1>4, <3>1
    <3>5. w \in Int
      <4>1. a + n \in 1 .. Len(s)
        BY <1>4, <3>1
      <4>2. s[a + n] \in Int
        BY <4>1, ElementOfSeq
      <4> QED BY <4>2, PesoEntero
    <3> HIDE DEF w, u
    <3>6. u[n] = u[n - 1] + w
      BY <2>1, <3>2, <3>3, <3>4, <3>5
    <3>7. w = Peso(op, r[n])
      BY <1>2, <3>1 DEF w
    <3> QED BY <2>3, <3>6, <3>7
  <2> QED BY <2>2, <2>3
<1>6. Cuenta(u, op, r)
  <2>1. u = [n \in 0 .. b - a |-> u[n]]
    OBVIOUS
  <2> HIDE DEF u
  <2>2. 0 .. Len(r) = 0 .. b - a
    BY <1>2
  <2> QED BY <1>5, <2>1, <2>2 DEF Cuenta
<1>7. Suma(op, r) = u[b - a]
  <2>1. Len(r) \in Nat
    BY <1>2
  <2> HIDE DEF u
  <2> QED BY <1>2, <1>6, <2>1, SumaCuenta
<1>8. u[b - a] = t[b] - t[a]
  <2>1. b - a \in 0 .. b - a /\ a + (b - a) = b
    OBVIOUS
  <2> QED BY <2>1
<1> QED BY <1>7, <1>8 DEF r

(* Taking the rest of a partial sum does not change that of the whole.     *)
LEMMA RestoUnico ==
    ASSUME NEW m \in Nat \ {0}, NEW k \in Int, NEW w \in Int, 0 <= w, w < m,
           NEW l \in Int, NEW v \in Int, 0 <= v, v < m, m * k + w = m * l + v
    PROVE  w = v
<1> DEFINE d == k - l
<1>1. d \in Int /\ m * d = v - w
  OBVIOUS
<1> HIDE DEF d
<1>2. ~(d >= 1)
  <2>1. ASSUME d >= 1 PROVE m * d >= m
    BY <1>1, <2>1
  <2> QED BY <1>1, <2>1
<1>3. ~(d <= -1)
  <2>1. ASSUME d <= -1 PROVE m * d <= -m
    BY <1>1, <2>1
  <2> QED BY <1>1, <2>1
<1>4. d = 0
  BY <1>1, <1>2, <1>3
<1>5. m * d = 0
  BY <1>4
<1> QED BY <1>1, <1>5

LEMMA Cociente ==
    ASSUME NEW m \in Nat \ {0}, NEW x \in Int
    PROVE  /\ x \div m \in Int /\ x = m * (x \div m) + (x % m)
           /\ x % m \in Nat /\ x % m < m
OBVIOUS

LEMMA RestoDeSuma ==
    ASSUME NEW m \in Nat \ {0}, NEW x \in Int, NEW y \in Int
    PROVE  ((x % m) + y) % m = (x + y) % m
<1>1. PICK q, r : q = x \div m /\ r = x % m
  OBVIOUS
<1>2. q \in Int /\ x = m * q + r /\ r \in Nat
  BY <1>1, Cociente
<1>3. PICK k, w : k = (r + y) \div m /\ w = (r + y) % m
  OBVIOUS
<1>4. r + y \in Int /\ x + y \in Int
  BY <1>2
<1>5. k \in Int /\ r + y = m * k + w /\ w \in Nat /\ w < m
  BY <1>3, <1>4, Cociente
<1>6. PICK l, v : l = (x + y) \div m /\ v = (x + y) % m
  OBVIOUS
<1>7. l \in Int /\ x + y = m * l + v /\ v \in Nat /\ v < m
  BY <1>4, <1>6, Cociente
<1>8. x + y = m * (q + k) + w /\ q + k \in Int
  BY <1>2, <1>5
<1>9. PICK j : j = q + k
  OBVIOUS
<1>10. /\ j \in Int /\ w \in Int /\ 0 <= w /\ v \in Int /\ 0 <= v
       /\ m * j + w = m * l + v
  <2>1. j \in Int /\ x + y = m * j + w
    BY <1>8, <1>9
  <2>2. w \in Int /\ 0 <= w /\ v \in Int /\ 0 <= v
    BY <1>5, <1>7
  <2>3. x + y = m * l + v
    BY <1>7
  <2> QED BY <2>1, <2>2, <2>3
<1>11. w = v
  BY <1>5, <1>7, <1>10, RestoUnico
<1> QED BY <1>1, <1>3, <1>6, <1>11

LEMMA RestoPequenyo ==
    ASSUME NEW m \in Nat \ {0}, NEW x \in 0 .. m - 1 PROVE x % m = x
OBVIOUS

LEMMA SumaEntera ==
    ASSUME NEW op, NEW s \in Seq(Int) PROVE Suma(op, s) \in Int
<1>1. Len(s) \in Nat
  BY LenProperties
<1>2. PICK t \in [0 .. Len(s) -> Int] : Cuenta(t, op, s)
  BY HayCuenta
<1>3. Len(s) \in 0 .. Len(s)
  BY <1>1
<1> QED BY <1>1, <1>2, <1>3, SumaCuenta

LEMMA Modulos ==
    /\ HASH_MOD \in Nat \ {0} /\ UINT \in Nat \ {0}
    /\ \A op : Modulo(op) \in Nat \ {0}
<1>1. HASH_MOD \in Nat \ {0} /\ BUFFER \in Nat \ {0} /\ UINT \in Nat /\ HASH_MOD * (BUFFER + 1) <= UINT
  BY SocketsAssumption
<1>2. HASH_MOD * (BUFFER + 1) \in Nat \ {0}
  BY <1>1
<1>3. UINT # 0
  BY <1>1, <1>2
<1> QED BY <1>1, <1>3 DEF Modulo

(* A block adds to the total of those before it: in a swap, modulo 2^32;   *)
(* in a hash, when the sum is one of an unsigned int, although what the    *)
(* block adds may have wrapped.                                            *)
LEMMA AcumularMas ==
    ASSUME NEW op, NEW x \in Int, NEW y \in Int,
           op # "swap" => (x % HASH_MOD) + y \in 0 .. UINT - 1
    PROVE  Acumular(op, x % Modulo(op), y % UINT) = (x + y) % Modulo(op)
<1>1. PICK m, u : m = HASH_MOD /\ u = UINT
  OBVIOUS
<1>2. m \in Nat \ {0} /\ u \in Nat \ {0}
  BY <1>1, Modulos
<1>3. ASSUME NEW z \in Int PROVE (z + (y % u)) % u = (z + y) % u
  <2>1. y % u \in Int
    BY <1>2, Cociente
  <2>2. ((y % u) + z) % u = (y + z) % u
    BY <1>2, RestoDeSuma
  <2>3. z + (y % u) = (y % u) + z /\ z + y = y + z
    BY <2>1
  <2> QED BY <2>2, <2>3
<1>4. CASE op = "swap"
  <2>1. Modulo(op) = u
    BY <1>1, <1>4 DEF Modulo
  <2>2. PICK w : w = x % u
    OBVIOUS
  <2>3. w \in Int
    BY <1>2, <2>2, Cociente
  <2>4. (w + (y % u)) % u = (w + y) % u
    BY <1>3, <2>3
  <2>5. (w + y) % u = (x + y) % u
    BY <1>2, <2>2, RestoDeSuma
  <2>6. PICK v : v = (x + y) % u
    OBVIOUS
  <2>7. v \in 0 .. u - 1
    <3>1. x + y \in Int
      OBVIOUS
    <3> QED BY <1>2, <2>6, <3>1, Cociente
  <2>8. v % u = v
    BY <1>2, <2>7, RestoPequenyo
  <2> QED BY <1>1, <2>1, <2>2, <2>4, <2>5, <2>6, <2>8 DEF Acumular
<1>5. CASE op # "swap"
  <2>1. Modulo(op) = m
    BY <1>1, <1>5 DEF Modulo
  <2>2. PICK w : w = x % m
    OBVIOUS
  <2>3. w \in Int
    BY <1>2, <2>2, Cociente
  <2>4. (w + (y % u)) % u = (w + y) % u
    BY <1>3, <2>3
  <2>5. (w + y) % u = w + y
    BY <1>1, <1>2, <1>5, <2>2, RestoPequenyo
  <2>6. (w + y) % m = (x + y) % m
    BY <1>2, <2>2, RestoDeSuma
  <2> QED BY <1>1, <2>1, <2>2, <2>4, <2>5, <2>6 DEF Acumular
<1> QED BY <1>4, <1>5

(* Where the first i blocks of a file end, and the total up to there.      *)
Leidos(f, i) == IF i * BUFFER < Len(f) THEN i * BUFFER ELSE Len(f)
Parcial(op, f, i) == Total(op, SubSeq(f, 1, Leidos(f, i)))

LEMMA LimitesDelFichero ==
    ASSUME NEW f \in Ficheros
    PROVE  /\ f \in Seq(Int) /\ Len(f) \in Nat
           /\ Leidos(f, 0) = 0 /\ Leidos(f, Iteraciones(f)) = Len(f)
           /\ \A i \in 0 .. Iteraciones(f) - 1 :
                 /\ Leidos(f, i) \in Nat /\ Leidos(f, i + 1) \in Nat
                 /\ Leidos(f, i) <= Leidos(f, i + 1) /\ Leidos(f, i + 1) <= Len(f)
                 /\ Leidos(f, i) = i * BUFFER /\ Leidos(f, i + 1) - Leidos(f, i) <= BUFFER
                 /\ Bloque(f, i) = SubSeq(f, Leidos(f, i) + 1, Leidos(f, i + 1))
<1>1. f \in Seq(Int) /\ Len(f) \in Nat /\ BUFFER \in Nat \ {0}
  BY SocketsAssumption
<1>2. PICK L, F : L = Len(f) /\ F = BUFFER
  OBVIOUS
<1>3. L \in Nat /\ F \in Nat \ {0}
  BY <1>1, <1>2
<1>4. ~((L \div F + 1) * F < L) /\ L \div F \in Nat
  BY <1>3, Todos
<1>5. Iteraciones(f) = L \div F + 1
  BY <1>2 DEF Iteraciones
<1>6. Leidos(f, Iteraciones(f)) = Len(f)
  BY <1>2, <1>4, <1>5 DEF Leidos
<1>7. Leidos(f, 0) = 0
  <2>1. 0 * F = 0 /\ (L = 0 \/ 0 < L)
    BY <1>3
  <2> QED BY <1>2, <2>1 DEF Leidos
<1>8. ASSUME NEW i \in 0 .. Iteraciones(f) - 1
      PROVE  /\ Leidos(f, i) \in Nat /\ Leidos(f, i + 1) \in Nat
             /\ Leidos(f, i) <= Leidos(f, i + 1) /\ Leidos(f, i + 1) <= Len(f)
             /\ Leidos(f, i) = i * BUFFER /\ Leidos(f, i + 1) - Leidos(f, i) <= BUFFER
             /\ Bloque(f, i) = SubSeq(f, Leidos(f, i) + 1, Leidos(f, i + 1))
  <2>1. i \in Nat /\ i <= L \div F
    BY <1>4, <1>5
  <2>2. i * F <= L
    <3> DEFINE d == L \div F
    <3>1. d \in Nat /\ L = F * d + (L % F) /\ L % F \in Nat
      BY <1>3
    <3> HIDE DEF d
    <3>2. i <= d
      BY <2>1 DEF d
    <3>3. (d - i) \in Nat /\ F * d = F * i + F * (d - i) /\ F * (d - i) \in Nat
      BY <1>3, <2>1, <3>1, <3>2
    <3>4. F * i = i * F /\ F * i \in Nat /\ F * d \in Nat
      BY <1>3, <2>1, <3>1
    <3> QED BY <3>1, <3>3, <3>4
  <2>3. i * F \in Nat /\ (i + 1) * F = i * F + F
    BY <1>3, <2>1
  <2>4. PICK m : m = i * F
    OBVIOUS
  <2>5. m \in Nat /\ m <= L /\ (i + 1) * F = m + F
    BY <2>2, <2>3, <2>4
  <2>6. Leidos(f, i) = m /\ Leidos(f, i + 1) = IF m + F < L THEN m + F ELSE L
    <3>1. Leidos(f, i) = IF m < L THEN m ELSE L
      BY <1>2, <2>4 DEF Leidos
    <3>2. Leidos(f, i + 1) = IF (i + 1) * F < L THEN (i + 1) * F ELSE L
      BY <1>2 DEF Leidos
    <3> QED BY <1>3, <2>5, <3>1, <3>2
  <2>7. Bloque(f, i) = SubSeq(f, m + 1, Leidos(f, i + 1))
    BY <1>2, <2>4 DEF Bloque, Leidos
  <2>8. /\ (IF m + F < L THEN m + F ELSE L) \in Nat
        /\ m <= (IF m + F < L THEN m + F ELSE L) /\ (IF m + F < L THEN m + F ELSE L) <= L
        /\ (IF m + F < L THEN m + F ELSE L) - m <= F
    BY <1>3, <2>5
  <2> QED BY <1>2, <2>4, <2>5, <2>6, <2>7, <2>8
<1> QED BY <1>1, <1>6, <1>7, <1>8

(* From one block to the next, and from the first to the whole file.       *)
LEMMA Parciales ==
    ASSUME NEW op, NEW f \in Ficheros
    PROVE  /\ Parcial(op, f, 0) = 0
           /\ Parcial(op, f, Iteraciones(f)) = Total(op, f)
           /\ (op # "swap" => CabeEnUint(op, f)) =>
                 \A i \in 0 .. Iteraciones(f) - 1 :
                    Acumular(op, Parcial(op, f, i), Local(op, Bloque(f, i))) = Parcial(op, f, i + 1)
<1>1. f \in Seq(Int) /\ Len(f) \in Nat
  BY LimitesDelFichero
<1>2. PICK t \in [0 .. Len(f) -> Int] : Cuenta(t, op, f)
  BY <1>1, HayCuenta
<1>3. t[0] = 0
  <2>1. t = [n \in 0 .. Len(f) |-> IF n = 0 THEN 0 ELSE t[n - 1] + Peso(op, f[n])]
    BY <1>2 DEF Cuenta
  <2>2. 0 \in 0 .. Len(f)
    BY <1>1
  <2> QED BY <2>1, <2>2
<1>4. ASSUME NEW b \in Nat, b <= Len(f)
      PROVE  Suma(op, SubSeq(f, 1, b)) = t[b] /\ t[b] \in Int
  <2>1. Suma(op, SubSeq(f, 0 + 1, b)) = t[b] - t[0]
    BY <1>1, <1>2, <1>4, SumaDeTramo
  <2>2. b \in 0 .. Len(f)
    BY <1>1, <1>4
  <2>3. t[b] \in Int
    BY <1>2, <2>2
  <2>4. 0 + 1 = 1
    OBVIOUS
  <2>5. t[b] - t[0] = t[b]
    BY <1>3, <2>3
  <2> QED BY <2>1, <2>3, <2>4, <2>5
<1>5. Suma(op, f) = t[Len(f)]
  BY <1>1, <1>2, SumaCuenta
<1>6. Parcial(op, f, 0) = 0
  <2>1. Suma(op, SubSeq(f, 1, 0)) = 0
    BY <1>1, <1>3, <1>4
  <2>2. Modulo(op) \in Nat \ {0}
    BY Modulos
  <2>3. 0 \in 0 .. Modulo(op) - 1
    BY <2>2
  <2>4. 0 % Modulo(op) = 0
    BY <2>2, <2>3, RestoPequenyo
  <2> QED BY <2>1, <2>4, LimitesDelFichero DEF Parcial, Total
<1>7. Parcial(op, f, Iteraciones(f)) = Total(op, f)
  BY <1>1, <1>4, <1>5, LimitesDelFichero DEF Parcial, Total
<1>8. ASSUME op # "swap" => CabeEnUint(op, f), NEW i \in 0 .. Iteraciones(f) - 1
      PROVE  Acumular(op, Parcial(op, f, i), Local(op, Bloque(f, i))) = Parcial(op, f, i + 1)
  <2>1. PICK a, b : a = Leidos(f, i) /\ b = Leidos(f, i + 1)
    OBVIOUS
  <2>2. a \in Nat /\ b \in Nat /\ a <= b /\ b <= Len(f) /\ Bloque(f, i) = SubSeq(f, a + 1, b)
    BY <2>1, LimitesDelFichero
  <2>3. a = i * BUFFER
    BY <2>1, LimitesDelFichero
  <2>4. a <= Len(f)
    BY <1>1, <2>2
  <2>5. Suma(op, Bloque(f, i)) = t[b] - t[a]
    BY <1>1, <1>2, <2>2, SumaDeTramo
  <2>6. /\ Suma(op, SubSeq(f, 1, a)) = t[a] /\ t[a] \in Int
        /\ Suma(op, SubSeq(f, 1, b)) = t[b] /\ t[b] \in Int
    BY <1>4, <2>2, <2>4
  <2>7. PICK x, y : x = t[a] /\ y = t[b] - t[a]
    OBVIOUS
  <2>8. x \in Int /\ y \in Int /\ x + y = t[b]
    BY <2>6, <2>7
  <2>9. op # "swap" => (x % HASH_MOD) + y \in 0 .. UINT - 1
    BY <1>8, <2>5, <2>6, <2>7, <2>3 DEF CabeEnUint
  <2>10. Acumular(op, x % Modulo(op), y % UINT) = t[b] % Modulo(op)
    BY <2>8, <2>9, AcumularMas
  <2>11. Parcial(op, f, i) = x % Modulo(op) /\ Parcial(op, f, i + 1) = t[b] % Modulo(op)
    BY <2>1, <2>6, <2>7 DEF Parcial, Total
  <2>12. Local(op, Bloque(f, i)) = y % UINT
    BY <2>5, <2>7 DEF Local
  <2> QED BY <2>10, <2>11, <2>12
<1> QED BY <1>6, <1>7, <1>8

(* A count of chars that are not negative grows, by HASH_MOD - 1 at most.  *)
LEMMA CuentaCrece ==
    ASSUME NEW op, op # "swap", NEW s \in Seq(Int), NEW t \in [0 .. Len(s) -> Int], Cuenta(t, op, s),
           \A n \in 1 .. Len(s) : 0 <= s[n], NEW a \in Nat, NEW d \in Nat, a + d <= Len(s)
    PROVE  t[a + d] - t[a] \in 0 .. d * (HASH_MOD - 1)
<1> DEFINE Malos == {n \in 0 .. d : t[a + n] - t[a] \notin 0 .. n * (HASH_MOD - 1)}
<1>1. Len(s) \in Nat
  BY LenProperties
<1>2. PICK c : c = HASH_MOD - 1
  OBVIOUS
<1>3. c \in Nat /\ HASH_MOD - 1 = c
  BY <1>2, Modulos
<1>4. \A n \in 0 .. Len(s) : t[n] = (IF n = 0 THEN 0 ELSE t[n - 1] + Peso(op, s[n]))
  BY DEF Cuenta
<1>5. t[a] \in Int
  <2>1. a \in 0 .. Len(s)
    BY <1>1
  <2> HIDE DEF Malos
  <2> QED BY <2>1
<1>6. Malos = {}
  <2> SUFFICES ASSUME Malos # {} PROVE FALSE
    OBVIOUS
  <2>1. Malos \in SUBSET Nat
    OBVIOUS
  <2>2. PICK m \in Malos : \A n \in Malos : m <= n
    <3> HIDE DEF Malos
    <3> QED BY <2>1, MinimoDe
  <2>3. m \in 0 .. d /\ t[a + m] - t[a] \notin 0 .. m * c
    BY <1>3
  <2>4. t[a] \in Int
    BY <1>5
  <2>5. m # 0
    <3> SUFFICES ASSUME m = 0 PROVE FALSE
      OBVIOUS
    <3>1. a + m = a /\ m * c = 0
      BY <1>3
    <3> QED BY <2>3, <2>4, <3>1
  <2>6. m - 1 \in 0 .. d /\ ~(m <= m - 1)
    BY <2>3, <2>5
  <2>7. m - 1 \notin Malos
    <3> HIDE DEF Malos
    <3> QED BY <2>2, <2>6
  <2>8. t[a + (m - 1)] - t[a] \in 0 .. (m - 1) * c
    BY <1>3, <2>6, <2>7
  <2>9. a + m \in 1 .. Len(s) /\ a + (m - 1) = (a + m) - 1 /\ a + (m - 1) \in 0 .. Len(s)
    BY <1>1, <2>3, <2>5
  <2>10. t[a + m] = t[a + (m - 1)] + Peso(op, s[a + m])
    BY <1>4, <2>9
  <2>11. Peso(op, s[a + m]) \in 0 .. c
    <3>1. s[a + m] \in Int /\ 0 <= s[a + m]
      BY <2>9, ElementOfSeq
    <3> QED BY <1>3, <3>1, PesoEntero
  <2>12. PICK p, w, v : p = t[a + (m - 1)] /\ w = Peso(op, s[a + m]) /\ v = (m - 1) * c
    OBVIOUS
  <2>13. p \in Int /\ w \in 0 .. c /\ v \in Int /\ m * c = v + c
    <3>1. m \in Int
      BY <2>3
    <3> QED BY <1>3, <2>9, <2>11, <2>12, <3>1
  <2>14. p - t[a] \in 0 .. v /\ t[a + m] = p + w
    BY <2>8, <2>10, <2>12
  <2>15. (p + w) - t[a] \in 0 .. v + c
    BY <1>3, <2>4, <2>13, <2>14
  <2> QED BY <2>3, <2>13, <2>14, <2>15
<1>7. d \in 0 .. d
  OBVIOUS
<1> QED BY <1>6, <1>7

(* No char of 128 or more, and the hash of the file does not leave an      *)
(* unsigned int at any block (server.c:318, 321): the hypothesis of        *)
(* TotalDelFichero holds of every such file.                               *)
THEOREM SinNegativosCabe ==
    ASSUME NEW op, op # "swap", NEW f \in Ficheros, \A n \in 1 .. Len(f) : 0 <= f[n]
    PROVE  CabeEnUint(op, f)
<1>1. f \in Seq(Int) /\ Len(f) \in Nat
  BY LimitesDelFichero
<1>2. PICK t \in [0 .. Len(f) -> Int] : Cuenta(t, op, f)
  BY <1>1, HayCuenta
<1> SUFFICES ASSUME NEW i \in 0 .. Iteraciones(f) - 1
             PROVE  (Suma(op, SubSeq(f, 1, i * BUFFER)) % HASH_MOD) + Suma(op, Bloque(f, i)) \in 0 .. UINT - 1
  BY DEF CabeEnUint
<1>3. PICK a, b, d : a = Leidos(f, i) /\ b = Leidos(f, i + 1) /\ d = b - a
  OBVIOUS
<1>4. a \in Nat /\ b \in Nat /\ a <= b /\ b <= Len(f) /\ Bloque(f, i) = SubSeq(f, a + 1, b)
  BY <1>3, LimitesDelFichero
<1>5. a = i * BUFFER
  BY <1>3, LimitesDelFichero
<1>6. d <= BUFFER
  BY <1>3, LimitesDelFichero
<1>7. d \in Nat /\ a + d = b
  <2>1. d = b - a
    BY <1>3
  <2> QED BY <1>4, <2>1
<1>8. t[a + d] - t[a] \in 0 .. d * (HASH_MOD - 1)
  BY <1>1, <1>2, <1>4, <1>7, CuentaCrece
<1>9. Suma(op, Bloque(f, i)) = t[b] - t[a]
  <2>1. Suma(op, SubSeq(f, a + 1, b)) = t[b] - t[a]
    BY <1>1, <1>2, <1>4, SumaDeTramo
  <2> QED BY <1>4, <2>1
<1>10. SubSeq(f, 1, i * BUFFER) \in Seq(Int)
  <2>1. \A n \in 1 .. a : n \in 1 .. Len(f)
    BY <1>1, <1>4
  <2>2. 1 \in Int /\ a \in Int /\ \A n \in 1 .. a : f[n] \in Int
    BY <1>1, <1>4, <2>1, ElementOfSeq
  <2> QED BY <1>5, <2>2, SubSeqProperties
<1>11. PICK x, y : x = Suma(op, SubSeq(f, 1, i * BUFFER)) % HASH_MOD /\ y = Suma(op, Bloque(f, i))
  OBVIOUS
<1>12. x \in 0 .. HASH_MOD - 1
  <2>1. Suma(op, SubSeq(f, 1, i * BUFFER)) \in Int
    BY <1>10, SumaEntera
  <2> QED BY <1>11, <2>1, Modulos, Cociente
<1>13. PICK c, u : c = HASH_MOD - 1 /\ u = BUFFER
  OBVIOUS
<1>14. c \in Nat /\ u \in Nat /\ HASH_MOD = c + 1 /\ (c + 1) * (u + 1) <= UINT /\ UINT \in Nat
  BY <1>13, SocketsAssumption
<1>15. y \in 0 .. d * c
  BY <1>7, <1>8, <1>9, <1>11, <1>13
<1>16. d * c <= u * c /\ d * c \in Nat /\ u * c \in Nat
  <2>1. u - d \in Nat /\ u * c = d * c + (u - d) * c /\ (u - d) * c \in Nat
    BY <1>7, <1>13, <1>14, <1>6
  <2> QED BY <1>7, <1>14, <2>1
<1>17. (c + 1) * (u + 1) = u * c + c + u + 1
  BY <1>14
<1>18. x + y \in 0 .. UINT - 1
  <2>1. PICK v, w : v = d * c /\ w = u * c
    OBVIOUS
  <2>2. v \in Nat /\ w \in Nat /\ v <= w /\ y \in 0 .. v /\ w + c + u + 1 <= UINT
    BY <1>14, <1>15, <1>16, <1>17, <2>1
  <2>3. x \in 0 .. c
    BY <1>12, <1>13
  <2> QED BY <1>14, <2>2, <2>3
<1> QED BY <1>11, <1>18

(* The total of a client: while it sends a file, that of the blocks        *)
(* answered, and the answer it has to read adds the block it sent; at its  *)
(* prompt, that of the file.                                               *)
Mide(k) == k.op # "swap" => CabeEnUint(k.op, k.fichero)
TotalDe(k, V, F) ==
    /\ k.fase = "fuera" => k.fichero = <<>> /\ k.calc = 0
    /\ k.fase = "orden" /\ ~F /\ k.op \in ConFichero /\ Mide(k) => k.calc = Total(k.op, k.fichero)
    /\ k.fase \in {"itera", "esperaIter"} /\ Mide(k) => k.calc = Parcial(k.op, k.fichero, k.i)
    /\ k.fase = "esperaIter" /\ V # <<>> => Head(V).local = Local(k.op, Bloque(k.fichero, k.i))
InvTotal == \A c \in Clientes : TotalDe(cliente[c], vuelta[c], fallida[c])

LEMMA TotalVacio ==
    ASSUME NEW op PROVE Total(op, <<>>) = 0
<1> DEFINE t == [n \in 0 .. 0 |-> 0]
<1>1. Len(<<>>) = 0 /\ Len(<<>>) \in Nat
  OBVIOUS
<1>2. Cuenta(t, op, <<>>)
  BY <1>1 DEF Cuenta
<1>3. t[Len(<<>>)] = 0
  BY <1>1
<1> HIDE DEF t
<1>4. Suma(op, <<>>) = 0
  BY <1>1, <1>2, <1>3, SumaCuenta
<1>5. Modulo(op) \in Nat \ {0}
  BY Modulos
<1>6. 0 \in 0 .. Modulo(op) - 1
  BY <1>5
<1> QED BY <1>4, <1>5, <1>6, RestoPequenyo DEF Total

(* Only the connection of c may have changed.                              *)
LEMMA TotalSolo ==
    ASSUME InvTotal, NEW c \in Clientes,
           \A d \in Clientes \ {c} : /\ cliente'[d] = cliente[d] /\ vuelta'[d] = vuelta[d]
                                     /\ fallida'[d] = fallida[d],
           TotalDe(cliente'[c], vuelta'[c], fallida'[c])
    PROVE  InvTotal'
<1>1. ASSUME NEW d \in Clientes PROVE TotalDe(cliente'[d], vuelta'[d], fallida'[d])
  BY DEF InvTotal
<1>2. ASSUME NEW d \in Clientes PROVE TotalDe(cliente[d], vuelta[d], fallida[d])'
  BY <1>1 DEF TotalDe
<1> QED BY <1>2 DEF InvTotal

LEMMA TotalSinCambios ==
    ASSUME InvTotal, cliente' = cliente, vuelta' = vuelta, fallida' = fallida PROVE InvTotal'
BY DEF InvTotal, TotalDe

(* The answer of the thread to a client that waits for it.                 *)
LEMMA TotalServir ==
    ASSUME InvSockets, InvTotal, NEW c \in Clientes, ServirBloque(c)
    PROVE  InvTotal'
<1> DEFINE h == hilo[c]  k == cliente[c]
           n == IF Head(ida[c]).codigo = "iter" THEN Local(h.op, Head(ida[c]).texto) ELSE 0
<1>1. /\ h.fase = "itera" /\ ida[c] # <<>> /\ cliente' = cliente /\ fallida' = fallida
  BY DEF ServirBloque, Recibe
<1>2. PICK m : m.local = n /\ (vuelta' = vuelta \/ vuelta' = [vuelta EXCEPT ![c] = Append(vuelta[c], m)])
  <2> DEFINE g == Acumular(h.op, h.global, n)
             r == [codigo |-> h.op, id |-> h.i, local |-> n, global |-> g, check |-> Verificar(h, g, n)]
  <2>1. r.local = n
    OBVIOUS
  <2>2. vuelta' = vuelta \/ vuelta' = [vuelta EXCEPT ![c] = Append(vuelta[c], r)]
    BY DEF ServirBloque, Responder
  <2> HIDE DEF r
  <2> QED BY <2>1, <2>2
<1>3. \A d \in Clientes \ {c} : /\ cliente'[d] = cliente[d] /\ vuelta'[d] = vuelta[d]
                                /\ fallida'[d] = fallida[d]
  BY <1>1, <1>2, DeConexion DEF PorCliente
<1>4. TotalDe(k, vuelta[c], fallida[c])
  BY DEF InvTotal
<1>5. CASE k.fase # "esperaIter"
  <2>1. TotalDe(k, vuelta'[c], fallida[c])
    BY <1>4, <1>5 DEF TotalDe
  <2> QED BY <1>1, <1>3, <2>1, TotalSolo
<1>6. CASE k.fase = "esperaIter"
  <2>1. EnFichero(exacta, h, stats[c], ida[c], vuelta[c], k, hechas[c])
    BY <1>6, DeConexion DEF Conexion
  <2>2. AlDia(exacta, h, stats[c], ida[c], vuelta[c], k, hechas[c])
    BY <1>1, <2>1 DEF EnFichero, Empieza, LeidoCodigo, Respondido, SinLeer
  <2>3. ida[c] = Append(<<>>, Turno(k)) /\ vuelta[c] = <<>> /\ h.op = k.op
    BY <1>1, <1>6, <2>2 DEF AlDia, ConBloque, EnTurno
  <2>4. PICK b : b = Turno(k)
    OBVIOUS
  <2>5. Head(ida[c]) = b
    BY <2>3, <2>4, Tuplas
  <2>6. n = Local(k.op, Bloque(k.fichero, k.i))
    BY <2>3, <2>4, <2>5 DEF Turno
  <2> HIDE DEF n
  <2>7. vuelta'[c] = <<>> \/ vuelta'[c] = <<m>>
    BY <1>2, <2>3, Tuplas, DeConexion DEF PorCliente
  <2>8. vuelta'[c] # <<>> => Head(vuelta'[c]) = m
    BY <2>7, Tuplas
  <2>9. TotalDe(k, vuelta'[c], fallida[c])
    BY <1>2, <1>4, <1>6, <2>6, <2>8 DEF TotalDe
  <2> QED BY <1>1, <1>3, <2>9, TotalSolo
<1> QED BY <1>5, <1>6

(* A simple command is never answered to a client that sends a file.       *)
LEMMA TotalOrdenSimple ==
    ASSUME InvSockets, InvTotal, NEW c \in Clientes, OrdenSimple(c)
    PROVE  InvTotal'
<1> DEFINE h == hilo[c]  k == cliente[c]
<1>1. /\ h.fase = "orden" /\ ida[c] # <<>> /\ Head(ida[c]).codigo \in Simples
      /\ cliente' = cliente /\ fallida' = fallida
      /\ \A d \in Clientes \ {c} : vuelta'[d] = vuelta[d]
  BY DEF OrdenSimple, Recibe, Responder
<1>2. k.fase # "esperaIter"
  <2> SUFFICES ASSUME k.fase = "esperaIter" PROVE FALSE
    OBVIOUS
  <2>1. EnFichero(exacta, h, stats[c], ida[c], vuelta[c], k, hechas[c])
    BY DeConexion DEF Conexion
  <2>2. Empieza(h, stats[c], ida[c], vuelta[c], k, hechas[c])
    BY <1>1, <2>1 DEF EnFichero, LeidoCodigo, AlDia, EnTurno, Respondido
  <2>3. PICK a, b, x : a = Orden(k) /\ b = Resto(k) /\ x = Turno(k)
    OBVIOUS
  <2>4. ida[c] = Append(<<a, b>>, x)
    BY <2>2, <2>3 DEF Empieza, ConBloque
  <2>5. Head(ida[c]) = a
    BY <2>4, YOtra, Tuplas
  <2>6. k.op \in Simples /\ k.op \in ConFichero
    BY <1>1, <2>1, <2>3, <2>5 DEF Orden, EnFichero
  <2> QED BY <2>6, Constantes
<1>3. TotalDe(k, vuelta'[c], fallida[c])
  BY <1>2 DEF InvTotal, TotalDe
<1> QED BY <1>1, <1>3, TotalSolo

(* A block more, and after the last one the whole file.                    *)
LEMMA TotalRecibir ==
    ASSUME InvSockets, InvTotal, NEW c \in Clientes, RecibirBloque(c)
    PROVE  InvTotal'
<1> DEFINE k == cliente[c]  r == Head(vuelta[c])  u == k.i + 1 = Iteraciones(k.fichero)
           mal == r.codigo # k.op \/ r.id # k.i
<1>1. k.fase = "esperaIter" /\ vuelta[c] # <<>> /\ vuelta' = [vuelta EXCEPT ![c] = Tail(@)]
  BY DEF RecibirBloque
<1>2. TotalDe(k, vuelta[c], fallida[c]) /\ EsCliente(k)
  BY DeConexion DEF InvTotal
<1>3. CASE mal
  <2>1. cliente' = [cliente EXCEPT ![c].fase = "orden"] /\ fallida' = [fallida EXCEPT ![c] = TRUE]
    BY <1>3 DEF RecibirBloque
  <2>2. \A d \in Clientes \ {c} : /\ cliente'[d] = cliente[d] /\ vuelta'[d] = vuelta[d]
                                  /\ fallida'[d] = fallida[d]
    BY <1>1, <2>1, DeConexion DEF PorCliente
  <2>3. fallida'[c] = TRUE /\ cliente'[c] = [k EXCEPT !.fase = "orden"]
    BY <2>1, DeConexion DEF PorCliente
  <2>4. cliente'[c].fase = "orden"
    BY <1>2, <2>3 DEF EsCliente
  <2>5. TotalDe(cliente'[c], vuelta'[c], fallida'[c])
    BY <2>3, <2>4 DEF TotalDe
  <2> QED BY <2>2, <2>5, TotalSolo
<1>4. CASE ~mal
  <2>1. /\ cliente' = [cliente EXCEPT
                         ![c].fase = IF u THEN "orden" ELSE "itera",
                         ![c].i = @ + 1,
                         ![c].calc = Acumular(k.op, @, r.local),
                         ![c].global = r.global,
                         ![c].check = r.check]
        /\ fallida' = fallida
    BY <1>4 DEF RecibirBloque
  <2>2. \A d \in Clientes \ {c} : /\ cliente'[d] = cliente[d] /\ vuelta'[d] = vuelta[d]
                                  /\ fallida'[d] = fallida[d]
    BY <1>1, <2>1, DeConexion DEF PorCliente
  <2>3. k = [fase |-> k.fase, op |-> k.op, fichero |-> k.fichero, i |-> k.i, hash |-> k.hash,
             calc |-> k.calc, global |-> k.global, check |-> k.check, ordenes |-> k.ordenes]
    BY <1>2 DEF EsCliente
  <2>4. cliente'[c] = [fase |-> IF u THEN "orden" ELSE "itera", op |-> k.op, fichero |-> k.fichero,
                       i |-> k.i + 1, hash |-> k.hash, calc |-> Acumular(k.op, k.calc, r.local),
                       global |-> r.global, check |-> r.check, ordenes |-> k.ordenes]
    BY <2>1, <2>3, DeConexion DEF PorCliente
  <2>5. PICK k2 : k2 = cliente'[c]
    OBVIOUS
  <2>6. /\ k2.fase = (IF u THEN "orden" ELSE "itera") /\ k2.op = k.op /\ k2.fichero = k.fichero
        /\ k2.i = k.i + 1 /\ k2.calc = Acumular(k.op, k.calc, r.local)
    BY <2>4, <2>5
  <2>7. EnFichero(exacta, hilo[c], stats[c], ida[c], vuelta[c], k, hechas[c])
    BY <1>1, DeConexion DEF Conexion
  <2>8. k.fichero \in Ficheros /\ k.i \in 0 .. Iteraciones(k.fichero) - 1
    BY <2>7 DEF EnFichero
  <2>9. Mide(k) => k2.calc = Parcial(k.op, k.fichero, k.i + 1)
    <3> SUFFICES ASSUME Mide(k) PROVE k2.calc = Parcial(k.op, k.fichero, k.i + 1)
      OBVIOUS
    <3>1. k.calc = Parcial(k.op, k.fichero, k.i) /\ r.local = Local(k.op, Bloque(k.fichero, k.i))
      BY <1>1, <1>2 DEF TotalDe
    <3>2. k.op # "swap" => CabeEnUint(k.op, k.fichero)
      BY DEF Mide
    <3> QED BY <2>6, <2>8, <3>1, <3>2, Parciales
  <2> HIDE DEF r
  <2>10. TotalDe(k2, vuelta'[c], fallida'[c])
    <3>1. Mide(k2) <=> Mide(k)
      BY <2>6 DEF Mide
    <3>2. CASE u
      <4>1. k2.fase = "orden" /\ (Mide(k) => k2.calc = Parcial(k.op, k.fichero, Iteraciones(k.fichero)))
        BY <2>6, <2>9, <3>2
      <4>2. Mide(k) => k2.calc = Total(k2.op, k2.fichero)
        BY <2>6, <2>8, <4>1, Parciales
      <4> QED BY <3>1, <4>1, <4>2 DEF TotalDe
    <3>3. CASE ~u
      <4>1. k2.fase = "itera" /\ (Mide(k) => k2.calc = Parcial(k2.op, k2.fichero, k2.i))
        BY <2>6, <2>9, <3>3
      <4> QED BY <3>1, <4>1 DEF TotalDe
    <3> QED BY <3>2, <3>3
  <2> QED BY <2>2, <2>5, <2>10, TotalSolo
<1> QED BY <1>3, <1>4

(* The other steps of a client begin or leave a command, or do not touch   *)
(* its total.                                                              *)
LEMMA TotalCliente ==
    ASSUME InvSockets, InvTotal, NEW c \in Clientes,
           \/ Conectar(c) \/ EnviarBloque(c) \/ FalloFichero(c) \/ RecibirSimple(c)
           \/ Salir(c) \/ Morir(c)
           \/ \E op \in Simples : PedirSimple(c, op)
           \/ \E op \in ConFichero, f \in Ficheros, x \in Hashes \cup {0} : PedirFichero(c, op, f, x)
    PROVE  InvTotal'
<1> DEFINE k == cliente[c]
           Igual == \A d \in Clientes \ {c} : /\ cliente'[d] = cliente[d] /\ vuelta'[d] = vuelta[d]
                                              /\ fallida'[d] = fallida[d]
<1>1. TotalDe(k, vuelta[c], fallida[c]) /\ EsCliente(k)
  BY DeConexion DEF InvTotal
<1>2. Conexion(exacta, hilo[c], stats[c], ida[c], vuelta[c], k, hechas[c], fallida[c])
  BY DeConexion
<1>3. CASE Conectar(c)
  <2>1. Igual /\ k.fase = "fuera" /\ cliente'[c] = [k EXCEPT !.fase = "orden"]
    BY <1>3, DeConexion DEF Conectar, conexion, PorCliente
  <2>2. PICK k2 : k2 = cliente'[c]
    OBVIOUS
  <2>3. k2.fase = "orden" /\ k2.fichero = <<>> /\ k2.calc = 0
    BY <1>1, <2>1, <2>2 DEF TotalDe, EsCliente
  <2>4. TotalDe(k2, vuelta'[c], fallida'[c])
    BY <2>3, TotalVacio DEF TotalDe
  <2> QED BY <2>1, <2>2, <2>4, TotalSolo
<1>4. CASE EnviarBloque(c)
  <2>1. /\ Igual /\ k.fase = "itera" /\ cliente'[c] = [k EXCEPT !.fase = "esperaIter"]
        /\ vuelta'[c] = vuelta[c]
    BY <1>4, DeConexion DEF EnviarBloque, PorCliente
  <2>2. PICK k2 : k2 = cliente'[c]
    OBVIOUS
  <2>3. /\ k2.fase = "esperaIter" /\ k2.fichero = k.fichero /\ k2.calc = k.calc /\ k2.op = k.op
        /\ k2.i = k.i
    BY <1>1, <2>1, <2>2 DEF EsCliente
  <2>4. vuelta[c] = <<>>
    BY <1>2, <2>1 DEF Conexion, EnFichero, Empieza, LeidoCodigo, AlDia, Respondido
  <2>5. TotalDe(k2, vuelta'[c], fallida'[c])
    <3>1. Mide(k2) <=> Mide(k)
      BY <2>3 DEF Mide
    <3> QED BY <1>1, <2>1, <2>3, <2>4, <3>1 DEF TotalDe
  <2> QED BY <2>1, <2>2, <2>5, TotalSolo
<1>5. CASE FalloFichero(c)
  <2>1. Igual /\ cliente'[c] = [k EXCEPT !.fase = "orden"] /\ fallida'[c] = TRUE
    BY <1>5, DeConexion DEF FalloFichero, conexion, PorCliente
  <2>2. PICK k2 : k2 = cliente'[c]
    OBVIOUS
  <2>3. k2.fase = "orden"
    BY <1>1, <2>1, <2>2 DEF EsCliente
  <2>4. TotalDe(k2, vuelta'[c], fallida'[c])
    BY <2>1, <2>3 DEF TotalDe
  <2> QED BY <2>1, <2>2, <2>4, TotalSolo
<1>6. CASE RecibirSimple(c)
  <2>1. Igual /\ k.fase = "espera" /\ cliente'[c] = [k EXCEPT !.fase = "orden"]
    BY <1>6, DeConexion DEF RecibirSimple, PorCliente
  <2>2. PICK k2 : k2 = cliente'[c]
    OBVIOUS
  <2>3. k2.fase = "orden" /\ k2.op = k.op
    BY <1>1, <2>1, <2>2 DEF EsCliente
  <2>4. k.op \in Simples
    BY <1>2, <2>1 DEF Conexion, EnSimple
  <2>5. TotalDe(k2, vuelta'[c], fallida'[c])
    BY <2>3, <2>4, Constantes DEF TotalDe
  <2> QED BY <2>1, <2>2, <2>5, TotalSolo
<1>7. CASE Salir(c) \/ Morir(c)
  <2>1. Igual /\ cliente'[c] = Locales("cerrado", NULL, <<>>, 0, k.ordenes)
    BY <1>7, DeConexion DEF Salir, Morir, Cerrar, PorCliente
  <2>2. PICK k2 : k2 = cliente'[c]
    OBVIOUS
  <2>3. k2.fase = "cerrado"
    BY <2>1, <2>2 DEF Locales
  <2>4. TotalDe(k2, vuelta'[c], fallida'[c])
    BY <2>3 DEF TotalDe
  <2> QED BY <2>1, <2>2, <2>4, TotalSolo
<1>8. ASSUME NEW op \in Simples, PedirSimple(c, op) PROVE InvTotal'
  <2>1. Igual /\ cliente'[c] = Locales("espera", op, <<>>, 0, k.ordenes + 1)
    BY <1>8, DeConexion DEF PedirSimple, PorCliente
  <2>2. PICK k2 : k2 = cliente'[c]
    OBVIOUS
  <2>3. k2.fase = "espera"
    BY <2>1, <2>2 DEF Locales
  <2>4. TotalDe(k2, vuelta'[c], fallida'[c])
    BY <2>3 DEF TotalDe
  <2> QED BY <2>1, <2>2, <2>4, TotalSolo
<1>9. ASSUME NEW op \in ConFichero, NEW f \in Ficheros, NEW x, PedirFichero(c, op, f, x) PROVE InvTotal'
  <2>1. Igual /\ cliente'[c] = Locales("itera", op, f, x, k.ordenes + 1)
    BY <1>9, DeConexion DEF PedirFichero, PorCliente
  <2>2. PICK k2 : k2 = cliente'[c]
    OBVIOUS
  <2>3. k2.fase = "itera" /\ k2.fichero = f /\ k2.i = 0 /\ k2.calc = 0 /\ k2.op = op
    BY <2>1, <2>2 DEF Locales
  <2>4. k2.calc = Parcial(op, f, 0)
    BY <2>3, Parciales
  <2>5. TotalDe(k2, vuelta'[c], fallida'[c])
    BY <2>3, <2>4 DEF TotalDe
  <2> QED BY <2>1, <2>2, <2>5, TotalSolo
<1> QED BY <1>3, <1>4, <1>5, <1>6, <1>7, <1>8, <1>9

LEMMA TotalPaso ==
    ASSUME InvSockets, InvTotal, [Next]_vars PROVE InvTotal'
<1>1. CASE PasoPrincipal
  <2>1. cliente' = cliente /\ vuelta' = vuelta /\ fallida' = fallida
    BY <1>1 DEF PasoPrincipal, Aceptar, AceptarSinHilo, SeguirAceptando, conexion
  <2> QED BY <2>1, TotalSinCambios
<1>2. ASSUME NEW c \in Clientes, PasoHilo(c) PROVE InvTotal'
  <2>1. CASE EmpezarHilo(c) \/ OrdenFichero(c) \/ Cabecera(c) \/ TerminarHilo(c)
    <3>1. cliente' = cliente /\ vuelta' = vuelta /\ fallida' = fallida
      BY <2>1 DEF EmpezarHilo, OrdenFichero, Cabecera, TerminarHilo
    <3> QED BY <3>1, TotalSinCambios
  <2> QED BY <1>2, <2>1, TotalOrdenSimple, TotalServir DEF PasoHilo
<1>3. ASSUME NEW c \in Clientes, PasoCliente(c) PROVE InvTotal'
  BY <1>3, TotalCliente, TotalRecibir DEF PasoCliente
<1>4. ASSUME NEW c \in Clientes, Conectar(c) \/ FalloFichero(c) \/ Salir(c) \/ Morir(c) PROVE InvTotal'
  BY <1>4, TotalCliente
<1>5. ASSUME NEW c \in Clientes, NEW op \in Simples, PedirSimple(c, op) PROVE InvTotal'
  BY <1>5, TotalCliente
<1>6. ASSUME NEW c \in Clientes, NEW f \in Ficheros, NEW op \in ConFichero, NEW x \in Hashes \cup {0},
             PedirFichero(c, op, f, x)
      PROVE  InvTotal'
  BY <1>6, TotalCliente
<1>7. "check" \in ConFichero
  BY DEF ConFichero
<1>8. CASE UNCHANGED vars
  BY <1>8, TotalSinCambios DEF vars, conexion
<1> QED BY <1>1, <1>2, <1>3, <1>4, <1>5, <1>6, <1>7, <1>8 DEF Next

(* The total that client and server end a command with is that of the      *)
(* whole file, whatever its size and that of the blocks, its chars signed  *)
(* and the arithmetic that of an unsigned int, unless a block would take   *)
(* the hash below zero; and the answer of check is about it.               *)
THEOREM ResultadoSiempreCorrecto == Spec => []ResultadoCorrecto
<1>1. Init => InvTotal
  <2> SUFFICES ASSUME Init, NEW c \in Clientes PROVE TotalDe(cliente[c], vuelta[c], fallida[c])
    BY DEF InvTotal
  <2>1. cliente[c].fase = "fuera" /\ cliente[c].fichero = <<>> /\ cliente[c].calc = 0
    BY DEF Init, Locales
  <2> QED BY <2>1 DEF TotalDe
<1>2. InvTotal /\ InvSockets /\ [Next]_vars => InvTotal'
  BY TotalPaso
<1>3. InvTotal /\ MismoTotal => ResultadoCorrecto
  <2> SUFFICES ASSUME InvTotal, MismoTotal PROVE TotalDelFichero
    BY DEF ResultadoCorrecto
  <2>1. ASSUME NEW c \in Clientes, ConTotal(c),
               cliente[c].op # "swap" => CabeEnUint(cliente[c].op, cliente[c].fichero)
        PROVE  cliente[c].global = Total(cliente[c].op, cliente[c].fichero)
    <3>1. cliente[c].calc = Total(cliente[c].op, cliente[c].fichero)
      BY <2>1 DEF InvTotal, TotalDe, ConTotal, EnReposo, Mide
    <3>2. cliente[c].calc = cliente[c].global
      BY <2>1 DEF MismoTotal
    <3> QED BY <3>1, <3>2
  <2> QED BY <2>1 DEF TotalDelFichero
<1> QED BY <1>1, <1>2, <1>3, SocketsInvariante, SiempreMismoTotal, PTL DEF Spec

-----------------------------------------------------------------------------
(***************************************************************************)
(* The assembly line.  What the children send is known beforehand: message *)
(* i of queue q is the number of blocks or block i - 2 of the input, in    *)
(* lower case in the second queue.  That number travels as four chars, of  *)
(* which the code reads three (line 217): the theorems ask for inputs of   *)
(* TOPE blocks at most.                                                    *)
(***************************************************************************)
TOPE == 16777215
CabeEnLaCola == \A e \in Entradas : BloquesDe(Len(e)) <= TOPE

(* Where the first b blocks end, the block after them and all that follows.*)
Hasta(e, b) == IF b * FILE_BLOCK < Len(e) THEN b * FILE_BLOCK ELSE Len(e)
Trozo(e, b) == SubSeq(e, Hasta(e, b) + 1, Hasta(e, b + 1))
Cola(e, b) == SubSeq(e, Hasta(e, b) + 1, Len(e))
Escrito(e, b) == EnMinusculas(SubSeq(e, 1, Hasta(e, b)))

Datos(q, e, b) == IF q = 1 THEN Trozo(e, b) ELSE EnMinusculas(Trozo(e, b))
Mensaje(q, e, i) ==
    IF i = 1 THEN MensajeIter(BloquesDe(Len(e))) ELSE MensajeDatos(Datos(q, e, i - 2))
Tramo(q, e, j, i) == [n \in 1 .. i - j |-> Mensaje(q, e, j + n)]

(* A sequence, of whatever.                                                *)
EsSecuencia(s) == Len(s) \in Nat /\ s = [k \in 1 .. Len(s) |-> s[k]]

(* What a queue may hold, its own or left by another launch.               *)
EsMensaje(m) == m.iter \in BOOLEAN /\ (m.iter => \E n \in 1 .. TOPE : m.bytes = Codificar(n))

FasesHijo == {"no_creado", "abre", "abre_otra", "cabecera", "bloque", "reenvia", "recibe", "envia",
              "cierra", "fin", "error", "indefinido"}
ConSalida(p) == IF p = 1 THEN {"cabecera", "bloque"} ELSE {"cabecera", "reenvia", "recibe", "envia"}
TipoHijo(p, f, en, sa, n) ==
    /\ f \in {"bloque", "reenvia", "recibe", "envia"} => n > 0
    /\ p # 3 /\ f \in ConSalida(p) => sa # SIN_COLA
    /\ p # 1 /\ f \in ConSalida(p) \cup {"abre_otra"} => en # SIN_COLA
    /\ p = 1 => f \notin {"abre_otra", "reenvia", "recibe", "envia"}
    /\ p = 2 => f # "bloque"
    /\ p = 3 => f \notin {"abre_otra", "bloque", "reenvia", "envia"}
TiposColas ==
    /\ DOMAIN cola = Colas
    /\ \A c \in Colas :
          /\ EsSecuencia(cola[c]) /\ Len(cola[c]) <= QUEUE_MAX_MSGS
          /\ \A k \in 1 .. Len(cola[c]) : EsMensaje(cola[c][k])
TiposHijos ==
    /\ fase \in [Hijos -> FasesHijo] /\ DOMAIN bytes = Hijos
    /\ entra \in [Hijos -> Colas \cup {SIN_COLA}] /\ sale \in [Hijos -> Colas \cup {SIN_COLA}]
    /\ quedan \in [Hijos -> 0 .. TOPE]
    /\ \A p \in Hijos : TipoHijo(p, fase[p], entra[p], sale[p], quedan[p])
    /\ \A p \in Hijos : padre \in 0 .. 3 /\ p > padre => fase[p] = "no_creado"
TiposResto ==
    /\ padre \in 0 .. 3 \cup {FIN, ERROR}
    /\ nombre \in [Nombres -> Colas \cup {SIN_COLA}]
    /\ entrada \in Entradas /\ limpio \in BOOLEAN
    /\ errores \in 0 .. MaxErrores /\ lanzamientos \in 1 .. MaxLanzamientos
TiposCadena == TiposColas /\ TiposHijos /\ TiposResto

(* Where each child is when the first has sent i messages, the second has  *)
(* received i and sent j, and the third has received i.                    *)
Etapa1(f, s, n, r, e, i) ==
    LET b == BloquesDe(Len(e)) IN
    /\ i \in 0 .. b + 1
    /\ f \in {"no_creado", "abre"} => s = SIN_COLA
    /\ f \in {"no_creado", "abre", "cabecera"} => i = 0 /\ r = e
    /\ f = "bloque" => i \in 1 .. b /\ n = b + 1 - i /\ r = Cola(e, i - 1)
    /\ f \in {"no_creado", "abre", "cabecera", "bloque", "fin", "error"}
    /\ f = "fin" => i = b + 1
Etapa2(f, en, s, n, y, e, i, j) ==
    LET b == BloquesDe(Len(e)) IN
    /\ i \in 0 .. b + 1 /\ j \in 0 .. b + 1 /\ j <= i
    /\ f \in {"no_creado", "abre"} => en = SIN_COLA
    /\ f \in {"no_creado", "abre", "abre_otra"} => s = SIN_COLA
    /\ f \in {"no_creado", "abre", "abre_otra", "cabecera"} => i = 0 /\ j = 0
    /\ f = "reenvia" => i = 1 /\ j = 0 /\ n = b
    /\ f = "recibe" => i = j /\ i \in 1 .. b /\ n = b + 1 - i
    /\ f = "envia" => i = j + 1 /\ j \in 1 .. b /\ n = b + 1 - j /\ y = Datos(2, e, j - 1)
    /\ f \in {"cierra", "fin"} => i = b + 1 /\ j = b + 1
    /\ f # "indefinido"
Etapa3(f, en, n, o, e, i) ==
    LET b == BloquesDe(Len(e)) IN
    /\ i \in 0 .. b + 1
    /\ f \in {"no_creado", "abre"} => en = SIN_COLA
    /\ f \in {"no_creado", "abre", "cabecera"} => i = 0
    /\ f = "recibe" => i \in 1 .. b /\ n = b + 1 - i
    /\ f \in {"cierra", "fin"} => i = b + 1
    /\ f # "indefinido"
    /\ o = Escrito(e, IF i = 0 THEN 0 ELSE i - 1)

(* Queue q, which child q fills and the next one empties: one of them may  *)
(* have opened another queue, if the name was removed before.              *)
Propias(q) == {<<q, q>>, <<q, q + 1>>}
Enlace(q, s, r, i, j, nom, c, e) ==
    /\ s \in Propias(q) \cup {SIN_COLA} /\ r \in Propias(q) \cup {SIN_COLA}
    /\ nom \in {SIN_COLA, s, r}
    /\ s # r => s \in {<<q, q>>, SIN_COLA} /\ r \in {<<q, q + 1>>, SIN_COLA} /\ j = 0
    /\ j <= i
    /\ s = SIN_COLA => i = 0
    /\ s # SIN_COLA => c[s] = Tramo(q, e, j, i)
    /\ s # r /\ r # SIN_COLA => c[r] = <<>>

Avance(i1, i2, j2, i3) ==
    /\ Etapa1(fase[1], sale[1], quedan[1], porLeer, entrada, i1)
    /\ Etapa2(fase[2], entra[2], sale[2], quedan[2], bytes[2], entrada, i2, j2)
    /\ Etapa3(fase[3], entra[3], quedan[3], salida, entrada, i3)
    /\ Enlace(1, sale[1], entra[2], i1, i2, nombre[1], cola, entrada)
    /\ Enlace(2, sale[2], entra[3], j2, i3, nombre[2], cola, entrada)
    /\ fase[2] = "fin" => nombre[1] = SIN_COLA
    /\ fase[3] = "fin" => nombre[2] = SIN_COLA

InvCadena ==
    /\ TiposCadena
    /\ limpio => \E i1, i2, j2, i3 \in 0 .. BloquesDe(Len(entrada)) + 1 : Avance(i1, i2, j2, i3)

-----------------------------------------------------------------------------
(* Sequences of whatever, and the messages a queue holds.                  *)

LEMMA DeSecuencia ==
    ASSUME NEW S, NEW s \in Seq(S) PROVE EsSecuencia(s)
<1>1. Len(s) \in Nat /\ DOMAIN s = 1 .. Len(s) /\ s \in [1 .. Len(s) -> S]
  BY LenProperties
<1> QED BY <1>1 DEF EsSecuencia

LEMMA EnSusElementos ==
    ASSUME NEW s, EsSecuencia(s) PROVE s \in Seq({s[k] : k \in 1 .. Len(s)})
<1> DEFINE S == {s[k] : k \in 1 .. Len(s)}
<1>1. Len(s) \in Nat /\ s = [k \in 1 .. Len(s) |-> s[k]] /\ \A k \in 1 .. Len(s) : s[k] \in S
  BY DEF EsSecuencia
<1> HIDE DEF S
<1>2. [k \in 1 .. Len(s) |-> s[k]] \in Seq(S)
  BY <1>1, IsASeq
<1>3. s \in Seq(S)
  BY <1>1, <1>2, Zenon
<1> QED BY <1>3 DEF S

LEMMA SecuenciaMas ==
    ASSUME NEW s, EsSecuencia(s), NEW m
    PROVE  /\ EsSecuencia(Append(s, m)) /\ Len(Append(s, m)) = Len(s) + 1
           /\ \A k \in 1 .. Len(s) : Append(s, m)[k] = s[k]
           /\ Append(s, m)[Len(s) + 1] = m
<1> DEFINE S == {s[k] : k \in 1 .. Len(s)}  T == S \cup {m}
<1>1. s \in Seq(S)
  BY EnSusElementos
<1> HIDE DEF S
<1>2. s \in Seq(T) /\ m \in T
  BY <1>1, SeqMonotonic
<1> HIDE DEF T
<1> DEFINE t == Append(s, m)
<1>3. /\ t \in Seq(T) /\ Len(t) = Len(s) + 1 /\ t[Len(s) + 1] = m
      /\ \A k \in 1 .. Len(s) : t[k] = s[k]
  BY <1>2, AppendProperties
<1> HIDE DEF t
<1>4. EsSecuencia(t)
  BY <1>3, DeSecuencia
<1> QED BY <1>3, <1>4 DEF t

LEMMA SecuenciaMenos ==
    ASSUME NEW s, EsSecuencia(s), s # <<>>
    PROVE  /\ EsSecuencia(Tail(s)) /\ Len(s) \in Nat \ {0} /\ Len(Tail(s)) = Len(s) - 1
           /\ \A k \in 1 .. Len(Tail(s)) : Tail(s)[k] = s[k + 1]
           /\ Head(s) = s[1]
<1> DEFINE S == {s[k] : k \in 1 .. Len(s)}
<1>1. s \in Seq(S)
  BY EnSusElementos
<1> HIDE DEF S
<1> DEFINE t == Tail(s)
<1>2. /\ t \in Seq(S) /\ Len(t) = Len(s) - 1
      /\ \A k \in 1 .. Len(t) : t[k] = s[k + 1]
  BY <1>1, HeadTailProperties
<1>3. Head(s) = s[1]
  BY <1>1, HeadTailProperties
<1>4. Len(s) \in Nat \ {0}
  BY <1>1, EmptySeq, LenProperties
<1> HIDE DEF t
<1>5. EsSecuencia(t)
  BY <1>2, DeSecuencia
<1> QED BY <1>2, <1>3, <1>4, <1>5 DEF t

LEMMA IgualesPorPartes ==
    ASSUME NEW s, NEW t, EsSecuencia(s), EsSecuencia(t), Len(s) = Len(t),
           \A k \in 1 .. Len(s) : s[k] = t[k]
    PROVE  s = t
<1>1. [k \in 1 .. Len(s) |-> s[k]] = [k \in 1 .. Len(t) |-> t[k]]
  OBVIOUS
<1> QED BY <1>1 DEF EsSecuencia

LEMMA TramoEs ==
    ASSUME NEW q, NEW e, NEW i \in Nat, NEW j \in 0 .. i
    PROVE  /\ EsSecuencia(Tramo(q, e, j, i)) /\ Len(Tramo(q, e, j, i)) = i - j
           /\ \A n \in 1 .. i - j : Tramo(q, e, j, i)[n] = Mensaje(q, e, j + n)
<1> DEFINE S == {Mensaje(q, e, j + n) : n \in 1 .. i - j}  t == Tramo(q, e, j, i)
<1>1. i - j \in Nat /\ t = [n \in 1 .. i - j |-> Mensaje(q, e, j + n)]
  BY DEF Tramo
<1>2. t \in Seq(S)
  <2>1. \A n \in 1 .. i - j : Mensaje(q, e, j + n) \in S
    OBVIOUS
  <2> HIDE DEF S
  <2> QED BY <1>1, <2>1, IsASeq
<1>3. DOMAIN t = 1 .. i - j
  BY <1>1
<1> HIDE DEF t
<1>4. Len(t) = i - j
  <2>1. Len(t) \in Nat /\ DOMAIN t = 1 .. Len(t)
    BY <1>2, LenProperties
  <2> QED BY <1>1, <1>3, <2>1
<1>5. EsSecuencia(t)
  BY <1>2, DeSecuencia
<1> QED BY <1>1, <1>4, <1>5 DEF t

LEMMA TramoMas ==
    ASSUME NEW q, NEW e, NEW i \in Nat, NEW j \in 0 .. i
    PROVE  Append(Tramo(q, e, j, i), Mensaje(q, e, i + 1)) = Tramo(q, e, j, i + 1)
<1> DEFINE s == Append(Tramo(q, e, j, i), Mensaje(q, e, i + 1))  t == Tramo(q, e, j, i + 1)
<1>1. /\ EsSecuencia(Tramo(q, e, j, i)) /\ Len(Tramo(q, e, j, i)) = i - j
      /\ \A n \in 1 .. i - j : Tramo(q, e, j, i)[n] = Mensaje(q, e, j + n)
  BY TramoEs
<1>2. /\ EsSecuencia(s) /\ Len(s) = (i - j) + 1 /\ s[(i - j) + 1] = Mensaje(q, e, i + 1)
      /\ \A n \in 1 .. i - j : s[n] = Mensaje(q, e, j + n)
  BY <1>1, SecuenciaMas
<1>3. i + 1 \in Nat /\ j \in 0 .. i + 1
  OBVIOUS
<1>4. /\ EsSecuencia(t) /\ Len(t) = (i + 1) - j
      /\ \A n \in 1 .. (i + 1) - j : t[n] = Mensaje(q, e, j + n)
  BY <1>3, TramoEs
<1> HIDE DEF s, t
<1>5. Len(s) = Len(t) /\ 1 .. Len(s) = 1 .. (i + 1) - j
  BY <1>2, <1>4
<1>6. ASSUME NEW n \in 1 .. (i + 1) - j PROVE s[n] = t[n]
  <2>1. CASE n \in 1 .. i - j
    BY <1>2, <1>4, <2>1
  <2>2. CASE n = (i - j) + 1
    <3>1. j + n = i + 1
      BY <2>2
    <3> QED BY <1>2, <1>4, <2>2, <3>1
  <2> QED BY <2>1, <2>2
<1>7. s = t
  BY <1>2, <1>4, <1>5, <1>6, IgualesPorPartes
<1> QED BY <1>7 DEF s, t

LEMMA TramoMenos ==
    ASSUME NEW q, NEW e, NEW i \in Nat, NEW j \in 0 .. i
    PROVE  /\ j = i => Tramo(q, e, j, i) = <<>>
           /\ Tramo(q, e, j, i) # <<>> =>
                 /\ j + 1 <= i /\ Head(Tramo(q, e, j, i)) = Mensaje(q, e, j + 1)
                 /\ Tail(Tramo(q, e, j, i)) = Tramo(q, e, j + 1, i)
<1> DEFINE s == Tramo(q, e, j, i)
<1>1. EsSecuencia(s) /\ Len(s) = i - j /\ \A n \in 1 .. i - j : s[n] = Mensaje(q, e, j + n)
  BY TramoEs
<1>2. ASSUME j = i PROVE s = <<>>
  BY <1>2 DEF Tramo
<1>3. ASSUME s # <<>>
      PROVE  j + 1 <= i /\ Head(s) = Mensaje(q, e, j + 1) /\ Tail(s) = Tramo(q, e, j + 1, i)
  <2> DEFINE t == Tail(s)  u == Tramo(q, e, j + 1, i)
  <2>1. /\ EsSecuencia(t) /\ Len(s) \in Nat \ {0} /\ Len(t) = Len(s) - 1
        /\ \A k \in 1 .. Len(t) : t[k] = s[k + 1]
        /\ Head(s) = s[1]
    BY <1>1, <1>3, SecuenciaMenos
  <2> HIDE DEF s
  <2>2. j + 1 <= i
    BY <1>1, <2>1
  <2>3. j + 1 \in 0 .. i
    BY <2>2
  <2>4. /\ EsSecuencia(u) /\ Len(u) = i - (j + 1)
        /\ \A n \in 1 .. i - (j + 1) : u[n] = Mensaje(q, e, (j + 1) + n)
    BY <2>3, TramoEs
  <2> HIDE DEF t, u
  <2>5. Len(t) = Len(u) /\ 1 .. Len(t) = 1 .. i - (j + 1)
    BY <1>1, <2>1, <2>4
  <2>6. ASSUME NEW n \in 1 .. i - (j + 1) PROVE t[n] = u[n]
    <3>1. n + 1 \in 1 .. i - j /\ j + (n + 1) = (j + 1) + n
      BY <2>2
    <3>2. t[n] = s[n + 1]
      BY <2>1, <2>5
    <3> QED BY <1>1, <2>4, <3>1, <3>2
  <2>7. t = u
    BY <2>1, <2>4, <2>5, <2>6, IgualesPorPartes
  <2>8. Head(s) = Mensaje(q, e, j + 1)
    <3>1. 1 \in 1 .. i - j
      BY <2>2
    <3> QED BY <1>1, <2>1, <3>1
  <2> QED BY <2>2, <2>7, <2>8 DEF t, u
<1> QED BY <1>2, <1>3


LEMMA Subsecuencia ==
    ASSUME NEW s, EsSecuencia(s), NEW m \in 1 .. Len(s) + 1, NEW n \in 0 .. Len(s)
    PROVE  /\ EsSecuencia(SubSeq(s, m, n))
           /\ Len(SubSeq(s, m, n)) = IF m <= n THEN n - m + 1 ELSE 0
           /\ \A k \in 1 .. n - m + 1 : SubSeq(s, m, n)[k] = s[m + k - 1]
<1> DEFINE S == {s[k] : k \in 1 .. Len(s)}  t == SubSeq(s, m, n)
<1>1. Len(s) \in Nat
  BY DEF EsSecuencia
<1>2. \A i \in m .. n : s[i] \in S
  BY <1>1
<1>3. m \in Int /\ n \in Int
  BY <1>1
<1> HIDE DEF S
<1>4. /\ t \in Seq(S) /\ Len(t) = IF m <= n THEN n - m + 1 ELSE 0
      /\ \A i \in 1 .. n - m + 1 : t[i] = s[m + i - 1]
  BY <1>2, <1>3, SubSeqProperties
<1> HIDE DEF t
<1>5. EsSecuencia(t)
  BY <1>4, DeSecuencia
<1> QED BY <1>4, <1>5 DEF t

LEMMA Minusculas ==
    ASSUME NEW s, EsSecuencia(s)
    PROVE  /\ EsSecuencia(EnMinusculas(s)) /\ Len(EnMinusculas(s)) = Len(s)
           /\ DOMAIN s = 1 .. Len(s)
           /\ \A k \in 1 .. Len(s) : EnMinusculas(s)[k] = Minuscula[s[k]]
<1> DEFINE S == {Minuscula[s[k]] : k \in 1 .. Len(s)}  t == EnMinusculas(s)
<1>1. s = [k \in 1 .. Len(s) |-> s[k]] /\ Len(s) \in Nat
  BY DEF EsSecuencia
<1>2. DOMAIN s = 1 .. Len(s)
  BY <1>1
<1>3. t = [k \in 1 .. Len(s) |-> Minuscula[s[k]]]
  BY <1>2 DEF EnMinusculas
<1>4. \A k \in 1 .. Len(s) : Minuscula[s[k]] \in S
  OBVIOUS
<1> HIDE DEF S, t
<1>5. t \in Seq(S) /\ DOMAIN t = 1 .. Len(s)
  BY <1>1, <1>3, <1>4, IsASeq
<1>6. Len(t) = Len(s)
  <2>1. Len(t) \in Nat /\ DOMAIN t = 1 .. Len(t)
    BY <1>5, LenProperties
  <2> QED BY <1>1, <1>5, <2>1
<1>7. EsSecuencia(t)
  BY <1>5, DeSecuencia
<1>8. \A k \in 1 .. Len(s) : t[k] = Minuscula[s[k]]
  BY <1>3
<1> QED BY <1>2, <1>6, <1>7, <1>8 DEF t

LEMMA Concatenadas ==
    ASSUME NEW s, NEW t, EsSecuencia(s), EsSecuencia(t)
    PROVE  /\ EsSecuencia(s \o t) /\ Len(s \o t) = Len(s) + Len(t)
           /\ \A k \in 1 .. Len(s) : (s \o t)[k] = s[k]
           /\ \A k \in 1 .. Len(t) : (s \o t)[Len(s) + k] = t[k]
<1> DEFINE A == {s[k] : k \in 1 .. Len(s)}  B == {t[k] : k \in 1 .. Len(t)}  S == A \cup B
           u == s \o t
<1>1. s \in Seq(A) /\ t \in Seq(B)
  BY EnSusElementos
<1>2. Len(s) \in Nat /\ Len(t) \in Nat
  BY DEF EsSecuencia
<1> HIDE DEF A, B
<1>3. s \in Seq(S) /\ t \in Seq(S)
  BY <1>1, SeqMonotonic
<1> HIDE DEF S
<1>4. /\ u \in Seq(S) /\ Len(u) = Len(s) + Len(t)
      /\ \A i \in 1 .. Len(s) + Len(t) :
            u[i] = IF i <= Len(s) THEN s[i] ELSE t[i - Len(s)]
  BY <1>3, ConcatProperties
<1> HIDE DEF u
<1>5. EsSecuencia(u)
  BY <1>4, DeSecuencia
<1>6. \A k \in 1 .. Len(s) : u[k] = s[k]
  BY <1>2, <1>4
<1>7. \A k \in 1 .. Len(t) : u[Len(s) + k] = t[k]
  <2> TAKE k \in 1 .. Len(t)
  <2>1. Len(s) + k \in 1 .. Len(s) + Len(t) /\ ~(Len(s) + k <= Len(s)) /\ (Len(s) + k) - Len(s) = k
    BY <1>2
  <2> QED BY <1>4, <2>1
<1> QED BY <1>4, <1>5, <1>6, <1>7 DEF u

-----------------------------------------------------------------------------
(* The number of blocks survives the message: the sign of the last char is *)
(* only lost from TOPE on.                                                 *)
LEMMA TopeEntero == TOPE \in Int /\ 0 <= TOPE
BY SMT DEF TOPE

LEMMA CeroVale == 0 \in 0 .. TOPE /\ 0 \in 0 .. 3
BY TopeEntero

LEMMA IteracionesHastaTope ==
    ASSUME NEW n \in Nat, n <= TOPE PROVE Decodificar(Codificar(n)) = n
<1> DEFINE a == n % 256  b == (n \div 256) % 256  c == (n \div 65536) % 256
           d == (n \div 16777216) % 256
<1>1. n \in Nat /\ n < 16777216
  BY SMT DEF TOPE
<1>2. d = 0
  BY <1>1, SMT
<1>3. a + 256 * b + 65536 * c = n
  BY <1>1, SMT
<1>4. Codificar(n) = <<a, b, c, d>>
  BY SMT DEF Codificar
<1>6. a \in Int /\ b \in Int /\ c \in Int
  BY <1>1, SMT DEF a, b, c
<1> HIDE DEF a, b, c, d
<1>5. Decodificar(<<a, b, c, d>>) = a + 256 * b + 65536 * c - (IF d < 128 THEN 0 ELSE 16777216)
  BY SMT DEF Decodificar
<1> QED BY <1>1, <1>2, <1>3, <1>4, <1>5, <1>6, SMT

LEMMA IteracionesIguales ==
    ASSUME NEW n \in 1 .. TOPE PROVE Decodificar(Codificar(n)) = n
<1>1. n \in Nat /\ n <= TOPE
  BY TopeEntero
<1> QED BY <1>1, IteracionesHastaTope

-----------------------------------------------------------------------------
(* The blocks of a file, one after another, are the file.                  *)

LEMMA EntradaEs ==
    ASSUME NEW e \in Entradas
    PROVE  /\ EsSecuencia(e) /\ Len(e) \in Nat
           /\ BloquesDe(Len(e)) \in Nat \ {0}
           /\ Hasta(e, 0) = 0 /\ Hasta(e, BloquesDe(Len(e))) = Len(e)
           /\ \A b \in Nat : /\ Hasta(e, b) \in 0 .. Len(e) /\ Hasta(e, b + 1) \in Hasta(e, b) .. Len(e)
                             /\ Hasta(e, b + 1) - Hasta(e, b)
                                  = IF Len(e) - Hasta(e, b) < FILE_BLOCK THEN Len(e) - Hasta(e, b)
                                    ELSE FILE_BLOCK
<1>1. EsSecuencia(e) /\ Len(e) \in Nat /\ FILE_BLOCK \in Nat \ {0}
  <2>1. e \in Seq(DOMAIN Minuscula) /\ FILE_BLOCK \in Nat \ {0}
    BY CadenaAssumption
  <2> QED BY <2>1, DeSecuencia, LenProperties
<1> DEFINE L == Len(e)  F == FILE_BLOCK
<1>2. ~((L \div F + 1) * F < L) /\ L \div F \in Nat
  BY <1>1, Todos
<1>3. BloquesDe(L) = L \div F + 1
  BY DEF BloquesDe
<1>4. Hasta(e, BloquesDe(L)) = L /\ BloquesDe(L) \in Nat \ {0}
  BY <1>2, <1>3 DEF Hasta
<1>5. Hasta(e, 0) = 0
  BY <1>1 DEF Hasta
<1>6. ASSUME NEW b \in Nat
      PROVE  /\ Hasta(e, b) \in 0 .. L /\ Hasta(e, b + 1) \in Hasta(e, b) .. L
             /\ Hasta(e, b + 1) - Hasta(e, b)
                  = IF L - Hasta(e, b) < F THEN L - Hasta(e, b) ELSE F
  <2>1. /\ Hasta(e, b) = IF b * F < L THEN b * F ELSE L
        /\ Hasta(e, b + 1) = IF (b + 1) * F < L THEN (b + 1) * F ELSE L
    BY DEF Hasta
  <2> QED BY <1>1, <2>1, Limites
<1> QED BY <1>1, <1>4, <1>5, <1>6

(* A read from where b blocks end: the block, and the file moves on by it. *)
LEMMA LeerBloque ==
    ASSUME NEW e \in Entradas, NEW b \in Nat, NEW n,
           n = IF Len(Cola(e, b)) < FILE_BLOCK THEN Len(Cola(e, b)) ELSE FILE_BLOCK
    PROVE  /\ SubSeq(Cola(e, b), 1, n) = Trozo(e, b)
           /\ SubSeq(Cola(e, b), n + 1, Len(Cola(e, b))) = Cola(e, b + 1)
<1> DEFINE L == Len(e)  h == Hasta(e, b)  g == Hasta(e, b + 1)  c == Cola(e, b)
           F == FILE_BLOCK  x == SubSeq(c, 1, n)  y == SubSeq(c, n + 1, Len(c))
           t == Trozo(e, b)  z == Cola(e, b + 1)
<1>1. /\ EsSecuencia(e) /\ L \in Nat /\ h \in 0 .. L /\ g \in h .. L
      /\ g - h = IF L - h < F THEN L - h ELSE F
  BY EntradaEs
<1>2. F \in Nat \ {0}
  BY CadenaAssumption
<1>3. c = SubSeq(e, h + 1, L) /\ t = SubSeq(e, h + 1, g) /\ z = SubSeq(e, g + 1, L)
  BY DEF Cola, Trozo
<1> HIDE DEF L, h, g, F
<1>4. h + 1 \in 1 .. L + 1 /\ g + 1 \in 1 .. L + 1 /\ L \in 0 .. L /\ g \in 0 .. L
  BY <1>1
<1>5. /\ EsSecuencia(SubSeq(e, h + 1, L))
      /\ Len(SubSeq(e, h + 1, L)) = IF h + 1 <= L THEN L - (h + 1) + 1 ELSE 0
      /\ \A k \in 1 .. L - (h + 1) + 1 : SubSeq(e, h + 1, L)[k] = e[(h + 1) + k - 1]
  BY <1>1, <1>4, Subsecuencia DEF L
<1>6. /\ EsSecuencia(SubSeq(e, h + 1, g))
      /\ Len(SubSeq(e, h + 1, g)) = IF h + 1 <= g THEN g - (h + 1) + 1 ELSE 0
      /\ \A k \in 1 .. g - (h + 1) + 1 : SubSeq(e, h + 1, g)[k] = e[(h + 1) + k - 1]
  BY <1>1, <1>4, Subsecuencia DEF L
<1>7. /\ EsSecuencia(SubSeq(e, g + 1, L))
      /\ Len(SubSeq(e, g + 1, L)) = IF g + 1 <= L THEN L - (g + 1) + 1 ELSE 0
      /\ \A k \in 1 .. L - (g + 1) + 1 : SubSeq(e, g + 1, L)[k] = e[(g + 1) + k - 1]
  BY <1>1, <1>4, Subsecuencia DEF L
<1> HIDE DEF c, t, z
<1>8. EsSecuencia(c) /\ Len(c) = L - h /\ \A k \in 1 .. L - h : c[k] = e[h + k]
  <2>1. L - (h + 1) + 1 = L - h /\ (IF h + 1 <= L THEN L - (h + 1) + 1 ELSE 0) = L - h
    BY <1>1
  <2>2. \A k \in 1 .. L - h : (h + 1) + k - 1 = h + k
    BY <1>1
  <2> QED BY <1>3, <1>5, <2>1, <2>2
<1>9. EsSecuencia(t) /\ Len(t) = g - h /\ \A k \in 1 .. g - h : t[k] = e[h + k]
  <2>1. g - (h + 1) + 1 = g - h /\ (IF h + 1 <= g THEN g - (h + 1) + 1 ELSE 0) = g - h
    BY <1>1
  <2>2. \A k \in 1 .. g - h : (h + 1) + k - 1 = h + k
    BY <1>1
  <2> QED BY <1>3, <1>6, <2>1, <2>2
<1>10. EsSecuencia(z) /\ Len(z) = L - g /\ \A k \in 1 .. L - g : z[k] = e[g + k]
  <2>1. L - (g + 1) + 1 = L - g /\ (IF g + 1 <= L THEN L - (g + 1) + 1 ELSE 0) = L - g
    BY <1>1
  <2>2. \A k \in 1 .. L - g : (g + 1) + k - 1 = g + k
    BY <1>1
  <2> QED BY <1>3, <1>7, <2>1, <2>2
<1>11. n = g - h
  BY <1>1, <1>8 DEF c, F
<1>12. n \in 0 .. L - h /\ n + 1 \in 1 .. L - h + 1 /\ 1 \in 1 .. L - h + 1 /\ L - h \in 0 .. L - h
  BY <1>1, <1>11
<1>13. /\ EsSecuencia(x) /\ Len(x) = IF 1 <= n THEN n - 1 + 1 ELSE 0
       /\ \A k \in 1 .. n - 1 + 1 : x[k] = c[1 + k - 1]
  BY <1>8, <1>12, Subsecuencia
<1>14. /\ EsSecuencia(y) /\ Len(y) = IF n + 1 <= L - h THEN (L - h) - (n + 1) + 1 ELSE 0
       /\ \A k \in 1 .. (L - h) - (n + 1) + 1 : y[k] = c[(n + 1) + k - 1]
  <2>1. n + 1 \in 1 .. Len(c) + 1 /\ Len(c) \in 0 .. Len(c)
    BY <1>1, <1>8, <1>12
  <2>2. /\ EsSecuencia(y) /\ Len(y) = IF n + 1 <= Len(c) THEN Len(c) - (n + 1) + 1 ELSE 0
        /\ \A k \in 1 .. Len(c) - (n + 1) + 1 : y[k] = c[(n + 1) + k - 1]
    BY <1>8, <2>1, Subsecuencia
  <2> QED BY <1>8, <2>2
<1> HIDE DEF x, y
<1>15. x = t
  <2>1. Len(x) = n /\ n - 1 + 1 = n
    BY <1>12, <1>13, <1>1
  <2>2. \A k \in 1 .. n : 1 + k - 1 = k /\ k \in 1 .. L - h
    BY <1>1, <1>12
  <2>3. \A k \in 1 .. n : x[k] = t[k]
    BY <1>8, <1>9, <1>11, <1>13, <2>1, <2>2
  <2> QED BY <1>9, <1>11, <1>13, <2>1, <2>3, IgualesPorPartes
<1>16. y = z
  <2>1. Len(y) = L - g /\ (L - h) - (n + 1) + 1 = L - g
    BY <1>1, <1>11, <1>14
  <2>2. \A k \in 1 .. L - g : (n + 1) + k - 1 \in 1 .. L - h /\ h + ((n + 1) + k - 1) = g + k
    BY <1>1, <1>11
  <2>3. \A k \in 1 .. L - g : y[k] = z[k]
    <3> TAKE k \in 1 .. L - g
    <3>1. y[k] = c[(n + 1) + k - 1]
      BY <1>14, <2>1
    <3>2. c[(n + 1) + k - 1] = e[h + ((n + 1) + k - 1)]
      BY <1>8, <2>2
    <3> QED BY <1>10, <2>2, <3>1, <3>2
  <2> QED BY <1>10, <1>14, <2>1, <2>3, IgualesPorPartes
<1> QED BY <1>15, <1>16 DEF x, y, c, t, z

(* The output after a block more.                                          *)
LEMMA EscribirBloque ==
    ASSUME NEW e \in Entradas, NEW b \in Nat
    PROVE  Escrito(e, b) \o EnMinusculas(Trozo(e, b)) = Escrito(e, b + 1)
<1> DEFINE L == Len(e)  h == Hasta(e, b)  g == Hasta(e, b + 1)
           x == SubSeq(e, 1, h)  t == Trozo(e, b)  z == SubSeq(e, 1, g)
           mx == EnMinusculas(x)  mt == EnMinusculas(t)  mz == EnMinusculas(z)  u == mx \o mt
<1>1. EsSecuencia(e) /\ L \in Nat /\ h \in 0 .. L /\ g \in h .. L
  BY EntradaEs
<1>2. t = SubSeq(e, h + 1, g) /\ Escrito(e, b) = mx /\ Escrito(e, b + 1) = mz
  BY DEF Trozo, Escrito
<1> HIDE DEF L, h, g
<1>3. h + 1 \in 1 .. L + 1 /\ g \in 0 .. L /\ 1 \in 1 .. L + 1
  BY <1>1
<1>4. /\ EsSecuencia(SubSeq(e, h + 1, g))
      /\ Len(SubSeq(e, h + 1, g)) = IF h + 1 <= g THEN g - (h + 1) + 1 ELSE 0
      /\ \A k \in 1 .. g - (h + 1) + 1 : SubSeq(e, h + 1, g)[k] = e[(h + 1) + k - 1]
  BY <1>1, <1>3, Subsecuencia DEF L
<1>5. /\ EsSecuencia(x) /\ Len(x) = IF 1 <= h THEN h - 1 + 1 ELSE 0
      /\ \A k \in 1 .. h - 1 + 1 : x[k] = e[1 + k - 1]
  BY <1>1, <1>3, Subsecuencia DEF L
<1>6. /\ EsSecuencia(z) /\ Len(z) = IF 1 <= g THEN g - 1 + 1 ELSE 0
      /\ \A k \in 1 .. g - 1 + 1 : z[k] = e[1 + k - 1]
  BY <1>1, <1>3, Subsecuencia DEF L
<1> HIDE DEF x, t, z
<1>7. EsSecuencia(t) /\ Len(t) = g - h /\ \A k \in 1 .. g - h : t[k] = e[h + k]
  <2>1. g - (h + 1) + 1 = g - h /\ (IF h + 1 <= g THEN g - (h + 1) + 1 ELSE 0) = g - h
    BY <1>1
  <2>2. \A k \in 1 .. g - h : (h + 1) + k - 1 = h + k
    BY <1>1
  <2> QED BY <1>2, <1>4, <2>1, <2>2
<1>8. Len(x) = h /\ \A k \in 1 .. h : x[k] = e[k]
  <2>1. h - 1 + 1 = h /\ (IF 1 <= h THEN h - 1 + 1 ELSE 0) = h
    BY <1>1
  <2> QED BY <1>1, <1>5, <2>1
<1>9. Len(z) = g /\ \A k \in 1 .. g : z[k] = e[k]
  <2>1. g - 1 + 1 = g /\ (IF 1 <= g THEN g - 1 + 1 ELSE 0) = g
    BY <1>1
  <2> QED BY <1>1, <1>6, <2>1
<1>10. EsSecuencia(mx) /\ Len(mx) = h /\ \A k \in 1 .. h : mx[k] = Minuscula[e[k]]
  <2>1. EsSecuencia(mx) /\ Len(mx) = Len(x) /\ \A k \in 1 .. Len(x) : mx[k] = Minuscula[x[k]]
    BY <1>5, Minusculas
  <2> QED BY <1>8, <2>1
<1>11. EsSecuencia(mt) /\ Len(mt) = g - h /\ \A k \in 1 .. g - h : mt[k] = Minuscula[e[h + k]]
  <2>1. EsSecuencia(mt) /\ Len(mt) = Len(t) /\ \A k \in 1 .. Len(t) : mt[k] = Minuscula[t[k]]
    BY <1>7, Minusculas
  <2> QED BY <1>7, <2>1
<1>12. EsSecuencia(mz) /\ Len(mz) = g /\ \A k \in 1 .. g : mz[k] = Minuscula[e[k]]
  <2>1. EsSecuencia(mz) /\ Len(mz) = Len(z) /\ \A k \in 1 .. Len(z) : mz[k] = Minuscula[z[k]]
    BY <1>6, Minusculas
  <2> QED BY <1>9, <2>1
<1> HIDE DEF mx, mt, mz
<1>13. /\ EsSecuencia(u) /\ Len(u) = h + (g - h)
       /\ \A k \in 1 .. h : u[k] = Minuscula[e[k]]
       /\ \A k \in 1 .. g - h : u[h + k] = Minuscula[e[h + k]]
  <2>1. /\ EsSecuencia(u) /\ Len(u) = Len(mx) + Len(mt)
        /\ \A k \in 1 .. Len(mx) : u[k] = mx[k]
        /\ \A k \in 1 .. Len(mt) : u[Len(mx) + k] = mt[k]
    BY <1>10, <1>11, Concatenadas
  <2> HIDE DEF u
  <2> QED BY <1>10, <1>11, <2>1
<1> HIDE DEF u
<1>14. h + (g - h) = g
  BY <1>1
<1>15. \A k \in 1 .. g : u[k] = mz[k]
  <2> TAKE k \in 1 .. g
  <2>1. CASE k \in 1 .. h
    BY <1>12, <1>13, <2>1
  <2>2. CASE k \notin 1 .. h
    <3>1. k - h \in 1 .. g - h /\ h + (k - h) = k
      BY <1>1, <2>2
    <3>2. u[h + (k - h)] = Minuscula[e[h + (k - h)]]
      BY <1>13, <3>1
    <3> QED BY <1>12, <3>1, <3>2
  <2> QED BY <2>1, <2>2
<1>16. u = mz
  BY <1>12, <1>13, <1>14, <1>15, IgualesPorPartes
<1> QED BY <1>2, <1>16 DEF u, mx, mt, mz, t

(* It starts empty, is always a prefix, and at the end is everything.      *)
LEMMA LoEscrito ==
    ASSUME NEW e \in Entradas
    PROVE  /\ Escrito(e, 0) = <<>> /\ Cola(e, 0) = e
           /\ Escrito(e, BloquesDe(Len(e))) = EnMinusculas(e)
           /\ \A b \in Nat : IsPrefix(Escrito(e, b), EnMinusculas(e))
<1> DEFINE S == DOMAIN Minuscula  L == Len(e)  m == EnMinusculas(e)
<1>1. e \in Seq(S)
  BY CadenaAssumption
<1> HIDE DEF S
<1>2. L \in Nat /\ Hasta(e, 0) = 0 /\ Hasta(e, BloquesDe(L)) = L /\ EsSecuencia(e)
  BY EntradaEs
<1>3. SubSeq(e, 1, L) = e /\ SubSeq(e, 1, 0) = <<>>
  BY <1>1, SubSeqFull, SubSeqEmpty
<1>4. Escrito(e, 0) = <<>>
  <2>1. Escrito(e, 0) = EnMinusculas(<<>>)
    BY <1>2, <1>3 DEF Escrito
  <2> QED BY <2>1 DEF EnMinusculas
<1>5. Escrito(e, BloquesDe(L)) = m
  BY <1>2, <1>3 DEF Escrito
<1>6. Cola(e, 0) = e
  <2>1. 0 + 1 = 1
    OBVIOUS
  <2> QED BY <1>2, <1>3, <2>1 DEF Cola
<1>7. ASSUME NEW b \in Nat PROVE IsPrefix(Escrito(e, b), m)
  <2> DEFINE h == Hasta(e, b)  x == SubSeq(e, 1, h)  p == EnMinusculas(x)
             y == SubSeq(p, 1, Len(p))  z == SubSeq(m, 1, Len(p))
  <2>1. h \in 0 .. L
    BY EntradaEs
  <2> HIDE DEF h, L
  <2>2. /\ EsSecuencia(x) /\ Len(x) = IF 1 <= h THEN h - 1 + 1 ELSE 0
        /\ \A k \in 1 .. h - 1 + 1 : x[k] = e[1 + k - 1]
    <3>1. 1 \in 1 .. L + 1
      BY <1>2
    <3> QED BY <1>2, <2>1, <3>1, Subsecuencia DEF L
  <2> HIDE DEF x
  <2>3. Len(x) = h /\ \A k \in 1 .. h : x[k] = e[k]
    <3>1. h - 1 + 1 = h /\ (IF 1 <= h THEN h - 1 + 1 ELSE 0) = h
      BY <1>2, <2>1
    <3> QED BY <1>2, <2>1, <2>2, <3>1
  <2>4. EsSecuencia(p) /\ Len(p) = h /\ \A k \in 1 .. h : p[k] = Minuscula[e[k]]
    <3>1. EsSecuencia(p) /\ Len(p) = Len(x) /\ \A k \in 1 .. Len(x) : p[k] = Minuscula[x[k]]
      BY <2>2, Minusculas
    <3> QED BY <2>3, <3>1
  <2>5. EsSecuencia(m) /\ Len(m) = L /\ \A k \in 1 .. L : m[k] = Minuscula[e[k]]
    BY <1>2, Minusculas DEF L
  <2> HIDE DEF p, m
  <2>6. EsSecuencia(y) /\ Len(y) = h /\ \A k \in 1 .. h : y[k] = p[k]
    <3>1. /\ EsSecuencia(y) /\ Len(y) = IF 1 <= h THEN h - 1 + 1 ELSE 0
          /\ \A k \in 1 .. h - 1 + 1 : y[k] = p[1 + k - 1]
      <4>1. 1 \in 1 .. Len(p) + 1 /\ Len(p) \in 0 .. Len(p)
        BY <1>2, <2>1, <2>4
      <4>2. /\ EsSecuencia(y) /\ Len(y) = IF 1 <= Len(p) THEN Len(p) - 1 + 1 ELSE 0
            /\ \A k \in 1 .. Len(p) - 1 + 1 : y[k] = p[1 + k - 1]
        BY <2>4, <4>1, Subsecuencia
      <4> HIDE DEF y
      <4> QED BY <2>4, <4>2
    <3>2. h - 1 + 1 = h /\ (IF 1 <= h THEN h - 1 + 1 ELSE 0) = h
      BY <1>2, <2>1
    <3> HIDE DEF y
    <3> QED BY <1>2, <2>1, <3>1, <3>2
  <2>7. EsSecuencia(z) /\ Len(z) = h /\ \A k \in 1 .. h : z[k] = m[k]
    <3>1. /\ EsSecuencia(z) /\ Len(z) = IF 1 <= h THEN h - 1 + 1 ELSE 0
          /\ \A k \in 1 .. h - 1 + 1 : z[k] = m[1 + k - 1]
      <4>1. 1 \in 1 .. Len(m) + 1 /\ Len(p) \in 0 .. Len(m)
        BY <1>2, <2>1, <2>4, <2>5
      <4>2. /\ EsSecuencia(z) /\ Len(z) = IF 1 <= Len(p) THEN Len(p) - 1 + 1 ELSE 0
            /\ \A k \in 1 .. Len(p) - 1 + 1 : z[k] = m[1 + k - 1]
        BY <2>5, <4>1, Subsecuencia
      <4> HIDE DEF z
      <4> QED BY <2>4, <4>2
    <3>2. h - 1 + 1 = h /\ (IF 1 <= h THEN h - 1 + 1 ELSE 0) = h
      BY <1>2, <2>1
    <3> HIDE DEF z
    <3> QED BY <1>2, <2>1, <3>1, <3>2
  <2> HIDE DEF y, z
  <2>8. \A k \in 1 .. h : y[k] = z[k]
    <3> TAKE k \in 1 .. h
    <3>1. k \in 1 .. L
      BY <1>2, <2>1
    <3> QED BY <2>4, <2>5, <2>6, <2>7, <3>1
  <2>9. y = z
    BY <2>6, <2>7, <2>8, IgualesPorPartes
  <2>10. Len(p) <= Len(m)
    BY <1>2, <2>1, <2>4, <2>5
  <2>11. Escrito(e, b) = p
    BY DEF Escrito, p, x, h
  <2> QED BY <2>9, <2>10, <2>11 DEF IsPrefix, y, z
<1> QED BY <1>4, <1>5, <1>6, <1>7

(* Every message of the sequence is one the queues hold.                   *)
LEMMA MensajeEs ==
    ASSUME CabeEnLaCola, NEW e \in Entradas, NEW q, NEW i
    PROVE  /\ EsMensaje(Mensaje(q, e, i)) /\ BloquesDe(Len(e)) \in 1 .. TOPE
           /\ Mensaje(q, e, i).iter = (i = 1)
           /\ i = 1 => Decodificar(Mensaje(q, e, i).bytes) = BloquesDe(Len(e))
           /\ i # 1 => Mensaje(q, e, i).bytes = Datos(q, e, i - 2)
<1> DEFINE b == BloquesDe(Len(e))  m == Mensaje(q, e, i)
<1>1. b \in Nat \ {0} /\ b <= TOPE
  BY EntradaEs DEF CabeEnLaCola
<1> HIDE DEF b
<1>2. b \in 1 .. TOPE /\ Decodificar(Codificar(b)) = b
  <2>1. b \in 1 .. TOPE
    BY <1>1, TopeEntero
  <2> QED BY <2>1, IteracionesIguales
<1>3. CASE i = 1
  <2>1. m = [iter |-> TRUE, bytes |-> Codificar(b)]
    BY <1>3 DEF Mensaje, MensajeIter, b
  <2> HIDE DEF m
  <2>2. m.iter = TRUE /\ m.bytes = Codificar(b)
    BY <2>1
  <2>3. EsMensaje(m)
    BY <1>2, <2>2 DEF EsMensaje
  <2> QED BY <1>2, <1>3, <2>2, <2>3 DEF m, b
<1>4. CASE i # 1
  <2>1. m = [iter |-> FALSE, bytes |-> Datos(q, e, i - 2)]
    BY <1>4 DEF Mensaje, MensajeDatos
  <2> HIDE DEF m
  <2>2. m.iter = FALSE /\ m.bytes = Datos(q, e, i - 2)
    BY <2>1
  <2>3. EsMensaje(m)
    BY <2>2 DEF EsMensaje
  <2> QED BY <1>2, <1>4, <2>2, <2>3 DEF m, b
<1> QED BY <1>3, <1>4

-----------------------------------------------------------------------------
(* Types: the queues.                                                      *)

LEMMA Vacia == EsSecuencia(<<>>) /\ Len(<<>>) = 0
<1>1. <<>> \in Seq({}) /\ Len(<<>>) = 0
  BY EmptySeq
<1> QED BY <1>1, DeSecuencia

LEMMA TiposEnviar ==
    ASSUME TiposColas, NEW c \in Colas, NEW m, EsMensaje(m), Enviar(c, m)
    PROVE  TiposColas'
<1> DEFINE s == cola[c]  t == Append(s, m)
<1>1. /\ EsSecuencia(s) /\ Len(s) < QUEUE_MAX_MSGS
      /\ \A k \in 1 .. Len(s) : EsMensaje(s[k])
      /\ cola' = [cola EXCEPT ![c] = t] /\ DOMAIN cola = Colas
  BY DEF TiposColas, Enviar
<1>2. QUEUE_MAX_MSGS \in Nat /\ Len(s) \in Nat
  BY <1>1, CadenaAssumption DEF EsSecuencia
<1> HIDE DEF s
<1>3. /\ EsSecuencia(t) /\ Len(t) = Len(s) + 1 /\ t[Len(s) + 1] = m
      /\ \A k \in 1 .. Len(s) : t[k] = s[k]
  BY <1>1, SecuenciaMas
<1> HIDE DEF t
<1>4. \A k \in 1 .. Len(t) : EsMensaje(t[k])
  <2> TAKE k \in 1 .. Len(t)
  <2>1. k \in 1 .. Len(s) \/ k = Len(s) + 1
    BY <1>2, <1>3
  <2> QED BY <1>1, <1>3, <2>1
<1>5. Len(t) <= QUEUE_MAX_MSGS
  BY <1>1, <1>2, <1>3
<1>6. ASSUME NEW d \in Colas
      PROVE  /\ EsSecuencia(cola'[d]) /\ Len(cola'[d]) <= QUEUE_MAX_MSGS
             /\ \A k \in 1 .. Len(cola'[d]) : EsMensaje(cola'[d][k])
  <2>1. cola'[d] = IF d = c THEN t ELSE cola[d]
    BY <1>1
  <2>2. CASE d = c
    BY <1>3, <1>4, <1>5, <2>1, <2>2
  <2>3. CASE d # c
    BY <2>1, <2>3 DEF TiposColas
  <2> QED BY <2>2, <2>3
<1>7. DOMAIN cola' = Colas
  BY <1>1
<1> QED BY <1>6, <1>7 DEF TiposColas

LEMMA TiposRecibir ==
    ASSUME TiposColas, NEW c \in Colas, Recibir(c)
    PROVE  TiposColas' /\ EsMensaje(Head(cola[c]))
<1> DEFINE s == cola[c]  t == Tail(s)
<1>1. /\ EsSecuencia(s) /\ Len(s) <= QUEUE_MAX_MSGS
      /\ \A k \in 1 .. Len(s) : EsMensaje(s[k]) /\ s # <<>>
      /\ cola' = [cola EXCEPT ![c] = t] /\ DOMAIN cola = Colas
  BY DEF TiposColas, Recibir
<1>2. s # <<>>
  BY DEF Recibir
<1>3. QUEUE_MAX_MSGS \in Nat
  BY CadenaAssumption
<1> HIDE DEF s
<1>4. /\ EsSecuencia(t) /\ Len(s) \in Nat \ {0} /\ Len(t) = Len(s) - 1
      /\ \A k \in 1 .. Len(t) : t[k] = s[k + 1]
      /\ Head(s) = s[1]
  BY <1>1, <1>2, SecuenciaMenos
<1> HIDE DEF t
<1>5. \A k \in 1 .. Len(t) : EsMensaje(t[k])
  <2> TAKE k \in 1 .. Len(t)
  <2>1. k + 1 \in 1 .. Len(s)
    BY <1>4
  <2> QED BY <1>1, <1>4, <2>1
<1>6. Len(t) <= QUEUE_MAX_MSGS
  BY <1>1, <1>3, <1>4
<1>7. ASSUME NEW d \in Colas
      PROVE  /\ EsSecuencia(cola'[d]) /\ Len(cola'[d]) <= QUEUE_MAX_MSGS
             /\ \A k \in 1 .. Len(cola'[d]) : EsMensaje(cola'[d][k])
  <2>1. cola'[d] = IF d = c THEN t ELSE cola[d]
    BY <1>1
  <2>2. CASE d = c
    BY <1>4, <1>5, <1>6, <2>1, <2>2
  <2>3. CASE d # c
    BY <2>1, <2>3 DEF TiposColas
  <2> QED BY <2>2, <2>3
<1>8. DOMAIN cola' = Colas
  BY <1>1
<1>9. EsMensaje(Head(s))
  <2>1. 1 \in 1 .. Len(s)
    BY <1>4
  <2> QED BY <1>1, <1>4, <2>1
<1>10. TiposColas'
  BY <1>7, <1>8 DEF TiposColas
<1> QED BY <1>9, <1>10 DEF s

(* A queue opened is an old one, or a new one, empty.                      *)
LEMMA TiposAbrir ==
    ASSUME TiposColas, nombre \in [Nombres -> Colas \cup {SIN_COLA}],
           NEW p \in Hijos, NEW q \in Nombres, Abrir(p, q)
    PROVE  /\ TiposColas' /\ nombre' \in [Nombres -> Colas \cup {SIN_COLA}]
           /\ Abierta(p, q) \in Colas /\ <<q, p>> \in Colas /\ SIN_COLA \notin Colas
           /\ nombre' = [nombre EXCEPT ![q] = Abierta(p, q)]
           /\ \A d \in Colas :
                 cola'[d] = IF nombre[q] = SIN_COLA /\ d = <<q, p>> THEN <<>> ELSE cola[d]
<1>1. <<q, p>> \in Colas /\ SIN_COLA \notin Colas
  BY CadenaAssumption DEF Colas
<1>2. nombre' = [nombre EXCEPT ![q] = Abierta(p, q)]
  BY DEF Abrir, Abierta
<1>3. Abierta(p, q) \in Colas
  BY <1>1 DEF Abierta
<1>4. DOMAIN cola = Colas
  BY DEF TiposColas
<1>5. cola' = IF nombre[q] # SIN_COLA THEN cola ELSE [cola EXCEPT ![<<q, p>>] = <<>>]
  BY DEF Abrir
<1>6. /\ DOMAIN cola' = Colas
      /\ \A d \in Colas :
            cola'[d] = IF nombre[q] = SIN_COLA /\ d = <<q, p>> THEN <<>> ELSE cola[d]
  BY <1>1, <1>4, <1>5
<1>7. ASSUME NEW d \in Colas
      PROVE  /\ EsSecuencia(cola'[d]) /\ Len(cola'[d]) <= QUEUE_MAX_MSGS
             /\ \A k \in 1 .. Len(cola'[d]) : EsMensaje(cola'[d][k])
  <2>1. CASE cola'[d] = cola[d]
    BY <2>1 DEF TiposColas
  <2>2. CASE cola'[d] = <<>>
    BY <2>2, Vacia, CadenaAssumption
  <2> QED BY <1>6, <2>1, <2>2
<1>8. TiposColas'
  BY <1>6, <1>7 DEF TiposColas
<1> QED BY <1>1, <1>2, <1>3, <1>6, <1>8

(* A child goes on, and the others do not change.                          *)
LEMMA TiposDelHijo ==
    ASSUME TiposHijos, NEW p \in Hijos, NEW f \in FasesHijo, NEW en \in Colas \cup {SIN_COLA},
           NEW sa \in Colas \cup {SIN_COLA}, NEW n \in 0 .. TOPE,
           fase[p] # "no_creado", TipoHijo(p, f, en, sa, n),
           fase' = [fase EXCEPT ![p] = f], entra' = [entra EXCEPT ![p] = en],
           sale' = [sale EXCEPT ![p] = sa], quedan' = [quedan EXCEPT ![p] = n],
           DOMAIN bytes' = Hijos, padre' = padre
    PROVE  TiposHijos'
<1>1. /\ fase \in [Hijos -> FasesHijo]
      /\ entra \in [Hijos -> Colas \cup {SIN_COLA}] /\ sale \in [Hijos -> Colas \cup {SIN_COLA}]
      /\ quedan \in [Hijos -> 0 .. TOPE]
      /\ \A o \in Hijos : TipoHijo(o, fase[o], entra[o], sale[o], quedan[o])
      /\ \A o \in Hijos : padre \in 0 .. 3 /\ o > padre => fase[o] = "no_creado"
  BY DEF TiposHijos
<1>2. /\ fase' \in [Hijos -> FasesHijo]
      /\ entra' \in [Hijos -> Colas \cup {SIN_COLA}] /\ sale' \in [Hijos -> Colas \cup {SIN_COLA}]
      /\ quedan' \in [Hijos -> 0 .. TOPE]
  BY <1>1
<1>3. /\ fase'[p] = f /\ entra'[p] = en /\ sale'[p] = sa /\ quedan'[p] = n
      /\ \A o \in Hijos \ {p} : /\ fase'[o] = fase[o] /\ entra'[o] = entra[o]
                                /\ sale'[o] = sale[o] /\ quedan'[o] = quedan[o]
  BY <1>1
<1>4. \A o \in Hijos : TipoHijo(o, fase'[o], entra'[o], sale'[o], quedan'[o])
  BY <1>1, <1>3
<1>5. \A o \in Hijos : padre' \in 0 .. 3 /\ o > padre' => fase'[o] = "no_creado"
  <2>1. ASSUME NEW o \in Hijos, padre \in 0 .. 3, o > padre PROVE fase'[o] = "no_creado"
    <3>1. fase[o] = "no_creado"
      BY <1>1, <2>1
    <3>2. o # p
      BY <3>1
    <3> QED BY <1>3, <3>1, <3>2
  <2> QED BY <2>1
<1> QED BY <1>2, <1>4, <1>5 DEF TiposHijos

LEMMA IgualQueAntes ==
    ASSUME NEW A, NEW B, NEW g \in [A -> B], NEW p \in A
    PROVE  g = [g EXCEPT ![p] = g[p]] /\ g[p] \in B
OBVIOUS

LEMMA SinCambios ==
    ASSUME TiposHijos, NEW p \in Hijos
    PROVE  /\ entra = [entra EXCEPT ![p] = entra[p]] /\ sale = [sale EXCEPT ![p] = sale[p]]
           /\ quedan = [quedan EXCEPT ![p] = quedan[p]]
           /\ entra[p] \in Colas \cup {SIN_COLA} /\ sale[p] \in Colas \cup {SIN_COLA}
           /\ quedan[p] \in 0 .. TOPE /\ quedan[p] \in Nat /\ fase[p] \in FasesHijo
           /\ TipoHijo(p, fase[p], entra[p], sale[p], quedan[p])
           /\ DOMAIN fase = Hijos /\ DOMAIN bytes = Hijos
<1>1. /\ fase \in [Hijos -> FasesHijo] /\ DOMAIN bytes = Hijos
      /\ entra \in [Hijos -> Colas \cup {SIN_COLA}] /\ sale \in [Hijos -> Colas \cup {SIN_COLA}]
      /\ quedan \in [Hijos -> 0 .. TOPE]
      /\ TipoHijo(p, fase[p], entra[p], sale[p], quedan[p])
  BY DEF TiposHijos
<1>2. quedan[p] \in 0 .. TOPE /\ TOPE \in Int
  BY <1>1, TopeEntero
<1>3. quedan[p] \in Nat
  BY <1>2
<1> QED BY <1>1, <1>2, <1>3

(* What the actions of a child share: it was somewhere else, and what they *)
(* leave as it was.                                                        *)
LEMMA TiposAlAbrir ==
    ASSUME TiposCadena, NEW p \in Hijos, NEW q \in Nombres, Abrir(p, q),
           NEW a \in FasesHijo \ {"no_creado"}, NEW b \in FasesHijo, Pasa(p, a, b),
           NEW en \in Colas \cup {SIN_COLA}, NEW sa \in Colas \cup {SIN_COLA},
           entra' = [entra EXCEPT ![p] = en], sale' = [sale EXCEPT ![p] = sa],
           TipoHijo(p, b, en, sa, quedan[p]),
           UNCHANGED <<padre, quedan, bytes, entrada, limpio, errores, lanzamientos>>
    PROVE  TiposCadena'
<1>1. TiposColas /\ TiposHijos /\ TiposResto
  BY DEF TiposCadena
<1>2. TiposColas' /\ nombre' \in [Nombres -> Colas \cup {SIN_COLA}]
  BY <1>1, TiposAbrir DEF TiposResto
<1>3. TiposResto'
  BY <1>1, <1>2 DEF TiposResto
<1>4. /\ quedan = [quedan EXCEPT ![p] = quedan[p]] /\ quedan[p] \in 0 .. TOPE
      /\ DOMAIN bytes = Hijos
  BY <1>1, SinCambios
<1>5. fase[p] # "no_creado" /\ fase' = [fase EXCEPT ![p] = b]
  BY DEF Pasa
<1>6. quedan' = [quedan EXCEPT ![p] = quedan[p]] /\ DOMAIN bytes' = Hijos /\ padre' = padre
  BY <1>4
<1>7. TiposHijos'
  BY <1>1, <1>4, <1>5, <1>6, TiposDelHijo
<1> QED BY <1>2, <1>3, <1>7 DEF TiposCadena

LEMMA TiposAlPasar ==
    ASSUME TiposCadena, NEW p \in Hijos, TiposColas', NEW n \in 0 .. TOPE,
           NEW a \in FasesHijo \ {"no_creado"}, NEW b \in FasesHijo, Pasa(p, a, b),
           quedan' = [quedan EXCEPT ![p] = n], TipoHijo(p, b, entra[p], sale[p], n),
           DOMAIN bytes' = Hijos, nombre' \in [Nombres -> Colas \cup {SIN_COLA}],
           UNCHANGED <<padre, entra, sale, entrada, limpio, errores, lanzamientos>>
    PROVE  TiposCadena'
<1>1. TiposColas /\ TiposHijos /\ TiposResto
  BY DEF TiposCadena
<1>2. TiposResto'
  BY <1>1 DEF TiposResto
<1>3. /\ entra = [entra EXCEPT ![p] = entra[p]] /\ sale = [sale EXCEPT ![p] = sale[p]]
      /\ entra[p] \in Colas \cup {SIN_COLA} /\ sale[p] \in Colas \cup {SIN_COLA}
  BY <1>1, SinCambios
<1>4. fase[p] # "no_creado" /\ fase' = [fase EXCEPT ![p] = b]
  BY DEF Pasa
<1>5. /\ entra' = [entra EXCEPT ![p] = entra[p]] /\ sale' = [sale EXCEPT ![p] = sale[p]]
      /\ padre' = padre
  BY <1>3
<1>6. TiposHijos'
  BY <1>1, <1>3, <1>4, <1>5, TiposDelHijo
<1> QED BY <1>2, <1>6 DEF TiposCadena

(* The number of iterations left, and the end of the loop.                 *)
LEMMA TiposAlIterar ==
    ASSUME TiposCadena, NEW p \in Hijos, TiposColas',
           NEW a \in {"bloque", "recibe", "envia"}, NEW b \in FasesHijo, NEW s \in {"cierra", "fin"},
           Itera(p, a, b, s), TipoHijo(p, b, entra[p], sale[p], 1),
           DOMAIN bytes' = Hijos,
           UNCHANGED <<nombre, padre, entra, sale, entrada, limpio, errores, lanzamientos>>
    PROVE  TiposCadena'
<1>1. TiposColas /\ TiposHijos /\ TiposResto
  BY DEF TiposCadena
<1> DEFINE n == quedan[p] - 1  f == IF quedan[p] > 1 THEN b ELSE s
<1>2. quedan[p] \in Nat /\ quedan[p] \in 0 .. TOPE /\ TipoHijo(p, fase[p], entra[p], sale[p], quedan[p])
  BY <1>1, SinCambios
<1>3. Pasa(p, a, f) /\ quedan' = [quedan EXCEPT ![p] = n]
  BY DEF Itera
<1>4. quedan[p] > 0
  BY <1>2, <1>3 DEF Pasa, TipoHijo
<1>5. n \in 0 .. TOPE
  BY <1>2, <1>4, TopeEntero
<1>6. a \in FasesHijo \ {"no_creado"} /\ f \in FasesHijo
  BY DEF FasesHijo
<1>7. TipoHijo(p, f, entra[p], sale[p], n)
  <2>1. CASE quedan[p] > 1
    <3>1. n > 0 /\ f = b
      BY <1>2, <2>1
    <3> HIDE DEF n, f
    <3> QED BY <3>1 DEF TipoHijo
  <2>2. CASE ~(quedan[p] > 1)
    <3>1. f = s
      BY <2>2
    <3> HIDE DEF n, f
    <3> QED BY <3>1 DEF TipoHijo, ConSalida
  <2> QED BY <2>1, <2>2
<1>8. nombre' \in [Nombres -> Colas \cup {SIN_COLA}]
  BY <1>1 DEF TiposResto
<1> HIDE DEF n, f
<1> QED BY <1>3, <1>5, <1>6, <1>7, <1>8, TiposAlPasar

LEMMA TiposPadre ==
    ASSUME TiposCadena, Fork \/ ForkFalla \/ EsperarHijos
    PROVE  TiposCadena'
<1>1. TiposColas /\ TiposHijos /\ TiposResto
  BY DEF TiposCadena
<1>2. TiposColas'
  <2>1. cola' = cola
    BY DEF Fork, ForkFalla, EsperarHijos
  <2> QED BY <1>1, <2>1 DEF TiposColas
<1>3. /\ entra' = entra /\ sale' = sale /\ quedan' = quedan /\ bytes' = bytes
      /\ nombre' = nombre /\ entrada' = entrada /\ limpio' = limpio
      /\ lanzamientos' = lanzamientos
  BY DEF Fork, ForkFalla, EsperarHijos, hijos
<1>4. CASE Fork
  <2>1. padre \in 0 .. 2 /\ padre' = padre + 1 /\ fase' = [fase EXCEPT ![padre + 1] = "abre"]
        /\ errores' = errores
    BY <1>4 DEF Fork
  <2>2. padre \in Int /\ padre + 1 \in Hijos /\ padre' \in 0 .. 3 /\ "abre" \in FasesHijo
    BY <2>1 DEF Hijos, FasesHijo
  <2>3. TiposResto'
    BY <1>1, <1>3, <2>1, <2>2 DEF TiposResto
  <2>4. /\ fase \in [Hijos -> FasesHijo]
        /\ \A p \in Hijos : TipoHijo(p, fase[p], entra[p], sale[p], quedan[p])
        /\ \A p \in Hijos : padre \in 0 .. 3 /\ p > padre => fase[p] = "no_creado"
    BY <1>1 DEF TiposHijos
  <2>5. fase' \in [Hijos -> FasesHijo]
    BY <2>1, <2>2, <2>4
  <2>6. \A p \in Hijos : fase'[p] = IF p = padre + 1 THEN "abre" ELSE fase[p]
    BY <2>1, <2>2, <2>4
  <2>7. \A p \in Hijos : TipoHijo(p, fase'[p], entra'[p], sale'[p], quedan'[p])
    <3> TAKE p \in Hijos
    <3>1. CASE fase'[p] = fase[p]
      BY <1>3, <2>4, <3>1
    <3>2. CASE fase'[p] = "abre"
      BY <3>2 DEF TipoHijo, ConSalida
    <3> QED BY <2>6, <3>1, <3>2
  <2>8. \A p \in Hijos : padre' \in 0 .. 3 /\ p > padre' => fase'[p] = "no_creado"
    <3> SUFFICES ASSUME NEW p \in Hijos, p > padre' PROVE fase'[p] = "no_creado"
      OBVIOUS
    <3>1. p > padre /\ p # padre + 1 /\ padre \in 0 .. 3
      BY <2>1, <2>2 DEF Hijos
    <3> QED BY <2>4, <2>6, <3>1
  <2>9. TiposHijos'
    BY <1>1, <1>3, <2>5, <2>7, <2>8 DEF TiposHijos
  <2> QED BY <1>2, <2>3, <2>9 DEF TiposCadena
<1>5. CASE ForkFalla \/ EsperarHijos
  <2>1. padre' \in {FIN, ERROR} /\ fase' = fase /\ errores' \in 0 .. MaxErrores
    <3>1. CASE ForkFalla
      BY <1>1, <3>1, CadenaAssumption DEF ForkFalla, TiposResto, hijos
    <3>2. CASE EsperarHijos
      BY <1>1, <3>2 DEF EsperarHijos, TiposResto, hijos
    <3> QED BY <1>5, <3>1, <3>2
  <2>2. padre' \notin 0 .. 3
    BY <2>1 DEF FIN, ERROR
  <2>3. TiposResto'
    BY <1>1, <1>3, <2>1 DEF TiposResto
  <2>4. TiposHijos'
    BY <1>1, <1>3, <2>1, <2>2 DEF TiposHijos
  <2> QED BY <1>2, <2>3, <2>4 DEF TiposCadena
<1> QED BY <1>4, <1>5

LEMMA TiposProceso1 ==
    ASSUME TiposCadena, CabeEnLaCola, AbrirEntrada \/ EnviarIter1 \/ EnviarBloque1
    PROVE  TiposCadena'
<1>1. TiposColas /\ TiposHijos /\ TiposResto /\ 1 \in Hijos /\ 1 \in Nombres
  BY DEF TiposCadena, Hijos, Nombres
<1>2. /\ entra = [entra EXCEPT ![1] = entra[1]] /\ sale = [sale EXCEPT ![1] = sale[1]]
      /\ quedan = [quedan EXCEPT ![1] = quedan[1]]
      /\ entra[1] \in Colas \cup {SIN_COLA} /\ sale[1] \in Colas \cup {SIN_COLA}
      /\ quedan[1] \in 0 .. TOPE /\ quedan[1] \in Nat /\ fase[1] \in FasesHijo
      /\ TipoHijo(1, fase[1], entra[1], sale[1], quedan[1])
      /\ DOMAIN fase = Hijos /\ DOMAIN bytes = Hijos
  BY <1>1, SinCambios
<1>3. nombre \in [Nombres -> Colas \cup {SIN_COLA}]
  BY <1>1 DEF TiposResto
<1>4. CASE AbrirEntrada
  <2>1. /\ Pasa(1, "abre", "cabecera") /\ Abrir(1, 1)
        /\ sale' = [sale EXCEPT ![1] = Abierta(1, 1)] /\ entra' = entra
        /\ UNCHANGED <<padre, quedan, bytes, entrada, limpio, errores, lanzamientos>>
    BY <1>4 DEF AbrirEntrada
  <2>2. Abierta(1, 1) \in Colas /\ SIN_COLA \notin Colas
    BY <1>1, <1>3, <2>1, TiposAbrir
  <2>3. TipoHijo(1, "cabecera", entra[1], Abierta(1, 1), quedan[1])
    BY <2>2 DEF TipoHijo
  <2>4. "abre" \in FasesHijo \ {"no_creado"} /\ "cabecera" \in FasesHijo
    BY DEF FasesHijo
  <2>5. entra' = [entra EXCEPT ![1] = entra[1]]
    BY <1>2, <2>1
  <2> QED BY <1>1, <1>2, <2>1, <2>2, <2>3, <2>4, <2>5, TiposAlAbrir
<1>5. CASE EnviarIter1
  <2> DEFINE iter == BloquesDe(Len(entrada))
  <2>1. /\ Pasa(1, "cabecera", "bloque") /\ Enviar(sale[1], MensajeIter(iter))
        /\ quedan' = [quedan EXCEPT ![1] = iter] /\ nombre' = nombre /\ bytes' = bytes
        /\ UNCHANGED <<padre, entra, sale, entrada, limpio, errores, lanzamientos>>
    BY <1>5 DEF EnviarIter1
  <2>2. EsMensaje(MensajeIter(iter)) /\ iter \in 1 .. TOPE
    <3>1. /\ EsMensaje(Mensaje(1, entrada, 1)) /\ iter \in 1 .. TOPE
      BY <1>1, MensajeEs DEF TiposResto
    <3> QED BY <3>1 DEF Mensaje
  <2> HIDE DEF iter
  <2>3. iter \in 0 .. TOPE /\ iter > 0
    BY <2>2, TopeEntero
  <2>4. sale[1] # SIN_COLA
    BY <1>2, <2>1 DEF Pasa, TipoHijo, ConSalida
  <2>5. sale[1] \in Colas
    BY <1>2, <2>4
  <2>6. TiposColas'
    BY <1>1, <2>1, <2>2, <2>5, TiposEnviar
  <2>7. TipoHijo(1, "bloque", entra[1], sale[1], iter)
    BY <2>3, <2>4 DEF TipoHijo
  <2>8. "cabecera" \in FasesHijo \ {"no_creado"} /\ "bloque" \in FasesHijo
    BY DEF FasesHijo
  <2>9. DOMAIN bytes' = Hijos /\ nombre' \in [Nombres -> Colas \cup {SIN_COLA}]
    BY <1>2, <1>3, <2>1
  <2> QED BY <1>1, <2>1, <2>3, <2>6, <2>7, <2>8, <2>9, TiposAlPasar
<1>6. CASE EnviarBloque1
  <2> DEFINE n == IF Len(porLeer) < FILE_BLOCK THEN Len(porLeer) ELSE FILE_BLOCK
             m == MensajeDatos(SubSeq(porLeer, 1, n))
  <2>1. /\ Itera(1, "bloque", "bloque", "fin") /\ Enviar(sale[1], m) /\ bytes' = bytes
        /\ UNCHANGED <<nombre, padre, entra, sale, entrada, limpio, errores, lanzamientos>>
    BY <1>6 DEF EnviarBloque1
  <2>2. EsMensaje(m)
    BY DEF EsMensaje, MensajeDatos
  <2> HIDE DEF m
  <2>3. sale[1] # SIN_COLA
    BY <1>2, <2>1 DEF Itera, Pasa, TipoHijo, ConSalida
  <2>4. sale[1] \in Colas
    BY <1>2, <2>3
  <2>5. TiposColas'
    BY <1>1, <2>1, <2>2, <2>4, TiposEnviar
  <2>6. TipoHijo(1, "bloque", entra[1], sale[1], 1)
    BY <2>3 DEF TipoHijo
  <2>7. "bloque" \in FasesHijo
    BY DEF FasesHijo
  <2>8. DOMAIN bytes' = Hijos
    BY <1>2, <2>1
  <2> QED BY <1>1, <2>1, <2>5, <2>6, <2>7, <2>8, TiposAlIterar
<1> QED BY <1>4, <1>5, <1>6

LEMMA TiposRecibirIter ==
    ASSUME TiposCadena, NEW p \in {2, 3}, NEW b \in {"reenvia", "recibe"}, RecibirIter(p, b),
           p = 3 => b = "recibe"
    PROVE  TiposCadena'
<1> DEFINE m == Head(cola[entra[p]])
<1>1. TiposColas /\ TiposHijos /\ TiposResto /\ p \in Hijos
  BY DEF TiposCadena, Hijos
<1>2. /\ quedan = [quedan EXCEPT ![p] = quedan[p]]
      /\ entra[p] \in Colas \cup {SIN_COLA} /\ quedan[p] \in 0 .. TOPE
      /\ TipoHijo(p, fase[p], entra[p], sale[p], quedan[p]) /\ DOMAIN bytes = Hijos
  BY <1>1, SinCambios
<1>3. /\ fase[p] = "cabecera" /\ Recibir(entra[p])
      /\ UNCHANGED <<nombre, padre, entra, sale, bytes, entrada, limpio, errores, lanzamientos>>
  BY DEF RecibirIter
<1>4. m.iter => Pasa(p, "cabecera", b) /\ quedan' = [quedan EXCEPT ![p] = Decodificar(m.bytes)]
  BY DEF RecibirIter
<1>5. ~m.iter => Pasa(p, "cabecera", "indefinido") /\ quedan' = quedan
  BY DEF RecibirIter
<1>6. entra[p] # SIN_COLA /\ (p # 3 => sale[p] # SIN_COLA)
  BY <1>2, <1>3 DEF TipoHijo, ConSalida
<1>7. entra[p] \in Colas
  BY <1>2, <1>6
<1>8. TiposColas' /\ EsMensaje(m)
  BY <1>1, <1>3, <1>7, TiposRecibir
<1>9. DOMAIN bytes' = Hijos /\ nombre' \in [Nombres -> Colas \cup {SIN_COLA}]
  BY <1>1, <1>2, <1>3 DEF TiposResto
<1>10. "cabecera" \in FasesHijo \ {"no_creado"} /\ "indefinido" \in FasesHijo /\ b \in FasesHijo
  BY DEF FasesHijo
<1> HIDE DEF m
<1>11. CASE m.iter
  <2>1. PICK n \in 1 .. TOPE : m.bytes = Codificar(n)
    BY <1>8, <1>11 DEF EsMensaje
  <2>2. Decodificar(m.bytes) = n
    BY <2>1, IteracionesIguales
  <2>3. n \in 0 .. TOPE /\ n > 0
    BY TopeEntero
  <2>4. TipoHijo(p, b, entra[p], sale[p], n)
    <3>1. CASE b = "reenvia" /\ p = 2
      BY <1>6, <2>3, <3>1 DEF TipoHijo
    <3>2. CASE b = "recibe"
      BY <1>6, <2>3, <3>2 DEF TipoHijo
    <3> QED BY <3>1, <3>2
  <2>5. Pasa(p, "cabecera", b) /\ quedan' = [quedan EXCEPT ![p] = n]
    BY <1>4, <1>11, <2>2
  <2> QED BY <1>1, <1>3, <1>8, <1>9, <1>10, <2>3, <2>4, <2>5, TiposAlPasar
<1>12. CASE ~m.iter
  <2>1. TipoHijo(p, "indefinido", entra[p], sale[p], quedan[p])
    BY DEF TipoHijo, ConSalida
  <2>2. Pasa(p, "cabecera", "indefinido") /\ quedan' = [quedan EXCEPT ![p] = quedan[p]]
    BY <1>2, <1>5, <1>12
  <2> QED BY <1>1, <1>2, <1>3, <1>8, <1>9, <1>10, <2>1, <2>2, TiposAlPasar
<1> QED BY <1>11, <1>12

LEMMA TiposCerrar ==
    ASSUME TiposCadena, NEW p \in {2, 3}, CerrarColas(p)
    PROVE  TiposCadena'
<1>1. TiposColas /\ TiposHijos /\ TiposResto /\ p \in Hijos /\ p - 1 \in Nombres
  BY DEF TiposCadena, Hijos, Nombres
<1>2. /\ quedan = [quedan EXCEPT ![p] = quedan[p]] /\ quedan[p] \in 0 .. TOPE /\ DOMAIN bytes = Hijos
  BY <1>1, SinCambios
<1>3. /\ Pasa(p, "cierra", "fin") /\ nombre' = [nombre EXCEPT ![p - 1] = SIN_COLA]
      /\ cola' = cola /\ quedan' = quedan /\ bytes' = bytes
      /\ UNCHANGED <<padre, entra, sale, entrada, limpio, errores, lanzamientos>>
  BY DEF CerrarColas, Borrar
<1>4. TiposColas'
  BY <1>1, <1>3 DEF TiposColas
<1>5. nombre' \in [Nombres -> Colas \cup {SIN_COLA}]
  BY <1>1, <1>3 DEF TiposResto
<1>6. TipoHijo(p, "fin", entra[p], sale[p], quedan[p])
  BY DEF TipoHijo, ConSalida
<1>7. "cierra" \in FasesHijo \ {"no_creado"} /\ "fin" \in FasesHijo
  BY DEF FasesHijo
<1>8. quedan' = [quedan EXCEPT ![p] = quedan[p]] /\ DOMAIN bytes' = Hijos
  BY <1>2, <1>3
<1> QED BY <1>1, <1>2, <1>3, <1>4, <1>5, <1>6, <1>7, <1>8, TiposAlPasar

LEMMA TiposProceso2 ==
    ASSUME TiposCadena, AbrirCola1 \/ AbrirCola2 \/ ReenviarIter \/ RecibirBloque2 \/ EnviarBloque2
    PROVE  TiposCadena'
<1>1. TiposColas /\ TiposHijos /\ TiposResto /\ 2 \in Hijos /\ 1 \in Nombres /\ 2 \in Nombres
  BY DEF TiposCadena, Hijos, Nombres
<1>2. /\ entra = [entra EXCEPT ![2] = entra[2]] /\ sale = [sale EXCEPT ![2] = sale[2]]
      /\ quedan = [quedan EXCEPT ![2] = quedan[2]]
      /\ entra[2] \in Colas \cup {SIN_COLA} /\ sale[2] \in Colas \cup {SIN_COLA}
      /\ quedan[2] \in 0 .. TOPE /\ quedan[2] \in Nat /\ fase[2] \in FasesHijo
      /\ TipoHijo(2, fase[2], entra[2], sale[2], quedan[2])
      /\ DOMAIN fase = Hijos /\ DOMAIN bytes = Hijos
  BY <1>1, SinCambios
<1>3. nombre \in [Nombres -> Colas \cup {SIN_COLA}]
  BY <1>1 DEF TiposResto
<1>4. /\ "abre" \in FasesHijo \ {"no_creado"} /\ "abre_otra" \in FasesHijo \ {"no_creado"}
      /\ "cabecera" \in FasesHijo /\ "reenvia" \in FasesHijo \ {"no_creado"}
      /\ "recibe" \in FasesHijo \ {"no_creado"} /\ "envia" \in FasesHijo
  BY DEF FasesHijo
<1>5. CASE AbrirCola1
  <2>1. /\ Pasa(2, "abre", "abre_otra") /\ Abrir(2, 1)
        /\ entra' = [entra EXCEPT ![2] = Abierta(2, 1)] /\ sale' = sale
        /\ UNCHANGED <<padre, quedan, bytes, entrada, limpio, errores, lanzamientos>>
    BY <1>5 DEF AbrirCola1
  <2>2. Abierta(2, 1) \in Colas /\ SIN_COLA \notin Colas
    BY <1>1, <1>3, <2>1, TiposAbrir
  <2>3. TipoHijo(2, "abre_otra", Abierta(2, 1), sale[2], quedan[2])
    BY <2>2 DEF TipoHijo, ConSalida
  <2>4. sale' = [sale EXCEPT ![2] = sale[2]]
    BY <1>2, <2>1
  <2> QED BY <1>1, <1>2, <1>4, <2>1, <2>2, <2>3, <2>4, TiposAlAbrir
<1>6. CASE AbrirCola2
  <2>1. /\ Pasa(2, "abre_otra", "cabecera") /\ Abrir(2, 2)
        /\ sale' = [sale EXCEPT ![2] = Abierta(2, 2)] /\ entra' = entra
        /\ UNCHANGED <<padre, quedan, bytes, entrada, limpio, errores, lanzamientos>>
    BY <1>6 DEF AbrirCola2
  <2>2. Abierta(2, 2) \in Colas /\ SIN_COLA \notin Colas
    BY <1>1, <1>3, <2>1, TiposAbrir
  <2>3. TipoHijo(2, "cabecera", entra[2], Abierta(2, 2), quedan[2])
    BY <1>2, <2>1, <2>2 DEF TipoHijo, Pasa
  <2>4. entra' = [entra EXCEPT ![2] = entra[2]]
    BY <1>2, <2>1
  <2> QED BY <1>1, <1>2, <1>4, <2>1, <2>2, <2>3, <2>4, TiposAlAbrir
<1>7. CASE ReenviarIter
  <2>1. /\ Pasa(2, "reenvia", "recibe") /\ Enviar(sale[2], MensajeIter(quedan[2]))
        /\ nombre' = nombre /\ quedan' = quedan /\ bytes' = bytes
        /\ UNCHANGED <<padre, entra, sale, entrada, limpio, errores, lanzamientos>>
    BY <1>7 DEF ReenviarIter
  <2>2. sale[2] # SIN_COLA /\ entra[2] # SIN_COLA /\ quedan[2] > 0
    BY <1>2, <2>1 DEF TipoHijo, Pasa, ConSalida
  <2>3. EsMensaje(MensajeIter(quedan[2]))
    <3>1. quedan[2] \in 1 .. TOPE
      BY <1>2, <2>2, TopeEntero
    <3> QED BY <3>1 DEF EsMensaje, MensajeIter
  <2>4. sale[2] \in Colas
    BY <1>2, <2>2
  <2>5. TiposColas'
    BY <1>1, <2>1, <2>3, <2>4, TiposEnviar
  <2>6. TipoHijo(2, "recibe", entra[2], sale[2], quedan[2])
    BY <2>2 DEF TipoHijo
  <2>7. /\ quedan' = [quedan EXCEPT ![2] = quedan[2]] /\ DOMAIN bytes' = Hijos
        /\ nombre' \in [Nombres -> Colas \cup {SIN_COLA}]
    BY <1>2, <1>3, <2>1
  <2> QED BY <1>1, <1>2, <1>4, <2>1, <2>5, <2>6, <2>7, TiposAlPasar
<1>8. CASE RecibirBloque2
  <2>1. /\ Pasa(2, "recibe", "envia") /\ Recibir(entra[2])
        /\ nombre' = nombre /\ quedan' = quedan
        /\ UNCHANGED <<padre, entra, sale, entrada, limpio, errores, lanzamientos>>
    BY <1>8 DEF RecibirBloque2
  <2>2. DOMAIN bytes' = Hijos
    BY <1>2, <1>8 DEF RecibirBloque2
  <2>3. sale[2] # SIN_COLA /\ entra[2] # SIN_COLA /\ quedan[2] > 0
    BY <1>2, <2>1 DEF TipoHijo, Pasa, ConSalida
  <2>4. entra[2] \in Colas
    BY <1>2, <2>3
  <2>5. TiposColas'
    BY <1>1, <2>1, <2>4, TiposRecibir
  <2>6. TipoHijo(2, "envia", entra[2], sale[2], quedan[2])
    BY <2>3 DEF TipoHijo
  <2>7. quedan' = [quedan EXCEPT ![2] = quedan[2]] /\ nombre' \in [Nombres -> Colas \cup {SIN_COLA}]
    BY <1>2, <1>3, <2>1
  <2> QED BY <1>1, <1>2, <1>4, <2>1, <2>2, <2>5, <2>6, <2>7, TiposAlPasar
<1>9. CASE EnviarBloque2
  <2>1. /\ Itera(2, "envia", "recibe", "cierra") /\ Enviar(sale[2], MensajeDatos(bytes[2]))
        /\ bytes' = [bytes EXCEPT ![2] = <<>>]
        /\ UNCHANGED <<nombre, padre, entra, sale, entrada, limpio, errores, lanzamientos>>
    BY <1>9 DEF EnviarBloque2
  <2>2. sale[2] # SIN_COLA /\ entra[2] # SIN_COLA
    BY <1>2, <2>1 DEF TipoHijo, Itera, Pasa, ConSalida
  <2>3. EsMensaje(MensajeDatos(bytes[2]))
    BY DEF EsMensaje, MensajeDatos
  <2>4. sale[2] \in Colas
    BY <1>2, <2>2
  <2>5. TiposColas'
    BY <1>1, <2>1, <2>3, <2>4, TiposEnviar
  <2>6. TipoHijo(2, "recibe", entra[2], sale[2], 1)
    BY <2>2 DEF TipoHijo
  <2>7. DOMAIN bytes' = Hijos
    BY <1>2, <2>1
  <2> QED BY <1>1, <1>4, <2>1, <2>5, <2>6, <2>7, TiposAlIterar
<1> QED BY <1>5, <1>6, <1>7, <1>8, <1>9

LEMMA TiposProceso3 ==
    ASSUME TiposCadena, AbrirSalida \/ RecibirBloque3
    PROVE  TiposCadena'
<1>1. TiposColas /\ TiposHijos /\ TiposResto /\ 3 \in Hijos /\ 2 \in Nombres
  BY DEF TiposCadena, Hijos, Nombres
<1>2. /\ entra = [entra EXCEPT ![3] = entra[3]] /\ sale = [sale EXCEPT ![3] = sale[3]]
      /\ quedan = [quedan EXCEPT ![3] = quedan[3]]
      /\ entra[3] \in Colas \cup {SIN_COLA} /\ sale[3] \in Colas \cup {SIN_COLA}
      /\ quedan[3] \in 0 .. TOPE /\ quedan[3] \in Nat /\ fase[3] \in FasesHijo
      /\ TipoHijo(3, fase[3], entra[3], sale[3], quedan[3])
      /\ DOMAIN fase = Hijos /\ DOMAIN bytes = Hijos
  BY <1>1, SinCambios
<1>3. nombre \in [Nombres -> Colas \cup {SIN_COLA}]
  BY <1>1 DEF TiposResto
<1>4. /\ "abre" \in FasesHijo \ {"no_creado"} /\ "cabecera" \in FasesHijo
      /\ "recibe" \in FasesHijo
  BY DEF FasesHijo
<1>5. CASE AbrirSalida
  <2>1. /\ Pasa(3, "abre", "cabecera") /\ Abrir(3, 2)
        /\ entra' = [entra EXCEPT ![3] = Abierta(3, 2)] /\ sale' = sale
        /\ UNCHANGED <<padre, quedan, bytes, entrada, limpio, errores, lanzamientos>>
    BY <1>5 DEF AbrirSalida
  <2>2. Abierta(3, 2) \in Colas /\ SIN_COLA \notin Colas
    BY <1>1, <1>3, <2>1, TiposAbrir
  <2>3. TipoHijo(3, "cabecera", Abierta(3, 2), sale[3], quedan[3])
    BY <2>2 DEF TipoHijo
  <2>4. sale' = [sale EXCEPT ![3] = sale[3]]
    BY <1>2, <2>1
  <2> QED BY <1>1, <1>2, <1>4, <2>1, <2>2, <2>3, <2>4, TiposAlAbrir
<1>6. CASE RecibirBloque3
  <2>1. /\ Itera(3, "recibe", "recibe", "cierra") /\ Recibir(entra[3]) /\ bytes' = bytes
        /\ UNCHANGED <<nombre, padre, entra, sale, entrada, limpio, errores, lanzamientos>>
    BY <1>6 DEF RecibirBloque3
  <2>2. entra[3] # SIN_COLA
    BY <1>2, <2>1 DEF TipoHijo, Itera, Pasa, ConSalida
  <2>3. entra[3] \in Colas
    BY <1>2, <2>2
  <2>4. TiposColas'
    BY <1>1, <2>1, <2>3, TiposRecibir
  <2>5. TipoHijo(3, "recibe", entra[3], sale[3], 1)
    BY <2>2 DEF TipoHijo
  <2>6. DOMAIN bytes' = Hijos
    BY <1>2, <2>1
  <2> QED BY <1>1, <1>4, <2>1, <2>4, <2>5, <2>6, TiposAlIterar
<1> QED BY <1>5, <1>6

LEMMA TiposFalla ==
    ASSUME TiposCadena, NEW p \in Hijos, Falla(p)
    PROVE  TiposCadena'
<1>1. TiposColas /\ TiposHijos /\ TiposResto
  BY DEF TiposCadena
<1>2. /\ entra = [entra EXCEPT ![p] = entra[p]] /\ sale = [sale EXCEPT ![p] = sale[p]]
      /\ quedan = [quedan EXCEPT ![p] = quedan[p]]
      /\ entra[p] \in Colas \cup {SIN_COLA} /\ sale[p] \in Colas \cup {SIN_COLA}
      /\ quedan[p] \in 0 .. TOPE /\ DOMAIN bytes = Hijos
  BY <1>1, SinCambios
<1>3. /\ errores < MaxErrores /\ errores' = errores + 1 /\ fase[p] # "no_creado"
      /\ fase' = [fase EXCEPT ![p] = "error"]
      /\ cola' = cola /\ quedan' = quedan /\ bytes' = bytes /\ entra' = entra /\ sale' = sale
      /\ padre' = padre /\ entrada' = entrada /\ limpio' = limpio /\ lanzamientos' = lanzamientos
  BY DEF Falla
<1>4. nombre' \in [Nombres -> Colas \cup {SIN_COLA}]
  <2>1. nombre' = nombre \/ nombre' = [q \in Nombres |-> SIN_COLA]
    BY DEF Falla
  <2> QED BY <1>1, <2>1 DEF TiposResto
<1>5. TiposColas'
  BY <1>1, <1>3 DEF TiposColas
<1>6. errores' \in 0 .. MaxErrores
  <2>1. MaxErrores \in Nat /\ errores \in 0 .. MaxErrores
    BY <1>1, CadenaAssumption DEF TiposResto
  <2>2. errores < MaxErrores /\ errores' = errores + 1
    BY <1>3
  <2> QED BY <2>1, <2>2
<1>7. TiposResto'
  BY <1>1, <1>3, <1>4, <1>6 DEF TiposResto
<1>8. TipoHijo(p, "error", entra[p], sale[p], quedan[p]) /\ "error" \in FasesHijo
  BY DEF TipoHijo, ConSalida, FasesHijo
<1>9. /\ entra' = [entra EXCEPT ![p] = entra[p]] /\ sale' = [sale EXCEPT ![p] = sale[p]]
      /\ quedan' = [quedan EXCEPT ![p] = quedan[p]] /\ DOMAIN bytes' = Hijos
  BY <1>2, <1>3
<1>10. TiposHijos'
  BY <1>1, <1>2, <1>3, <1>8, <1>9, TiposDelHijo
<1> QED BY <1>5, <1>7, <1>10 DEF TiposCadena

(* The children of a program just launched.                                *)
LEMMA TiposLanzado ==
    ASSUME NEW f, f = [p \in Hijos |-> "no_creado"], NEW en, en = [p \in Hijos |-> SIN_COLA],
           NEW n, n = [p \in Hijos |-> 0]
    PROVE  /\ f \in [Hijos -> FasesHijo] /\ n \in [Hijos -> 0 .. TOPE]
           /\ en \in [Hijos -> Colas \cup {SIN_COLA}]
           /\ \A p \in Hijos : TipoHijo(p, f[p], en[p], en[p], n[p]) /\ f[p] = "no_creado"
<1>1. \A p \in Hijos : TipoHijo(p, "no_creado", SIN_COLA, SIN_COLA, 0)
  BY DEF TipoHijo, ConSalida
<1>2. "no_creado" \in FasesHijo /\ 0 \in 0 .. TOPE
  <2>1. "no_creado" \in FasesHijo
    BY DEF FasesHijo
  <2> QED BY <2>1, CeroVale, Zenon
<1> QED BY <1>1, <1>2

LEMMA TiposRelanzar ==
    ASSUME TiposCadena, Relanzar
    PROVE  TiposCadena' /\ Lanzado'
<1>1. TiposColas /\ TiposHijos /\ TiposResto
  BY DEF TiposCadena
<1>2. Lanzado'
  BY DEF Relanzar, Lanzado
<1>3. TiposHijos' /\ padre' \in 0 .. 3
  <2>1. /\ padre' = 0
        /\ fase' = [p \in Hijos |-> "no_creado"]
        /\ entra' = [p \in Hijos |-> SIN_COLA] /\ sale' = [p \in Hijos |-> SIN_COLA]
        /\ quedan' = [p \in Hijos |-> 0] /\ bytes' = [p \in Hijos |-> <<>>]
    BY <1>2 DEF Lanzado
  <2>2. sale' = entra' /\ DOMAIN bytes' = Hijos
    BY <2>1
  <2>3. /\ fase' \in [Hijos -> FasesHijo] /\ quedan' \in [Hijos -> 0 .. TOPE]
        /\ entra' \in [Hijos -> Colas \cup {SIN_COLA}]
        /\ \A p \in Hijos : TipoHijo(p, fase'[p], entra'[p], entra'[p], quedan'[p])
                            /\ fase'[p] = "no_creado"
    BY <2>1, TiposLanzado
  <2>4. \A p \in Hijos : TipoHijo(p, fase'[p], entra'[p], sale'[p], quedan'[p])
    BY <2>2, <2>3
  <2>5. /\ sale' \in [Hijos -> Colas \cup {SIN_COLA}]
        /\ \A p \in Hijos : padre' \in 0 .. 3 /\ p > padre' => fase'[p] = "no_creado"
    BY <2>2, <2>3
  <2>6. padre' \in 0 .. 3
    BY <2>1, CeroVale, Zenon
  <2> QED BY <2>2, <2>3, <2>4, <2>5, <2>6 DEF TiposHijos
<1>4. TiposColas'
  <2>1. cola' = [c \in Colas |-> IF \E q \in Nombres : nombre[q] = c THEN cola[c] ELSE <<>>]
    BY DEF Relanzar
  <2>2. ASSUME NEW c \in Colas
        PROVE  /\ EsSecuencia(cola'[c]) /\ Len(cola'[c]) <= QUEUE_MAX_MSGS
               /\ \A k \in 1 .. Len(cola'[c]) : EsMensaje(cola'[c][k])
    <3>1. CASE cola'[c] = cola[c]
      BY <1>1, <3>1 DEF TiposColas
    <3>2. CASE cola'[c] = <<>>
      BY <3>2, Vacia, CadenaAssumption
    <3> QED BY <2>1, <3>1, <3>2
  <2> QED BY <2>1, <2>2 DEF TiposColas
<1>5. TiposResto'
  <2>1. /\ lanzamientos < MaxLanzamientos /\ lanzamientos' = lanzamientos + 1
        /\ limpio' \in BOOLEAN /\ entrada' \in Entradas /\ nombre' = nombre /\ errores' = errores
    BY DEF Relanzar
  <2>2. lanzamientos' \in 1 .. MaxLanzamientos
    BY <1>1, <2>1, CadenaAssumption DEF TiposResto
  <2>3. padre' \in 0 .. 3 \cup {FIN, ERROR}
    BY <1>3
  <2> QED BY <1>1, <2>1, <2>2, <2>3 DEF TiposResto
<1> QED BY <1>2, <1>3, <1>4, <1>5 DEF TiposCadena

LEMMA TiposPaso ==
    ASSUME TiposCadena, CabeEnLaCola, [NextCadena]_varsCadena
    PROVE  TiposCadena'
<1>1. CASE Fork \/ ForkFalla \/ EsperarHijos
  BY <1>1, TiposPadre
<1>2. ASSUME NEW p \in Hijos, PasoHijo(p) PROVE TiposCadena'
  <2>1. CASE p = 1 /\ (AbrirEntrada \/ EnviarIter1 \/ EnviarBloque1)
    BY <2>1, TiposProceso1
  <2>2. CASE p = 2 /\ RecibirIter(2, "reenvia")
    BY <2>2, TiposRecibirIter
  <2>3. CASE p = 2 /\ CerrarColas(2)
    BY <2>3, TiposCerrar
  <2>4. CASE p = 2 /\ (AbrirCola1 \/ AbrirCola2 \/ ReenviarIter \/ RecibirBloque2 \/ EnviarBloque2)
    BY <2>4, TiposProceso2
  <2>5. CASE p = 3 /\ RecibirIter(3, "recibe")
    BY <2>5, TiposRecibirIter
  <2>6. CASE p = 3 /\ CerrarColas(3)
    BY <2>6, TiposCerrar
  <2>7. CASE p = 3 /\ (AbrirSalida \/ RecibirBloque3)
    BY <2>7, TiposProceso3
  <2> QED BY <1>2, <2>1, <2>2, <2>3, <2>4, <2>5, <2>6, <2>7 DEF PasoHijo
<1>3. ASSUME NEW p \in Hijos, Falla(p) PROVE TiposCadena'
  BY <1>3, TiposFalla
<1>4. CASE Relanzar
  BY <1>4, TiposRelanzar
<1>5. CASE UNCHANGED varsCadena
  BY <1>5 DEF varsCadena, hijos, TiposCadena, TiposColas, TiposHijos, TiposResto
<1> QED BY <1>1, <1>2, <1>3, <1>4, <1>5 DEF NextCadena

-----------------------------------------------------------------------------
(* What an operation on queue q does to the link between its two children. *)

(* Anything that leaves its queues alone, or removes their name.           *)
LEMMA EnlaceIgual ==
    ASSUME NEW q, NEW s, NEW r, NEW i, NEW j, NEW nom, NEW c, NEW e,
           Enlace(q, s, r, i, j, nom, c, e), SIN_COLA \notin Propias(q),
           NEW d, \A x \in Propias(q) : d[x] = c[x]
    PROVE  Enlace(q, s, r, i, j, nom, d, e) /\ Enlace(q, s, r, i, j, SIN_COLA, d, e)
BY DEF Enlace

LEMMA TramoVacio ==
    ASSUME NEW q, NEW e PROVE Tramo(q, e, 0, 0) = <<>>
<1>1. 0 \in Nat /\ 0 \in 0 .. 0
  OBVIOUS
<1> QED BY <1>1, TramoMenos

(* The child that fills it opens it.                                       *)
LEMMA EnlaceAbreUno ==
    ASSUME NEW q \in Nombres, NEW r, NEW i \in Nat, NEW j \in Nat, NEW nom, NEW c, NEW e,
           Enlace(q, SIN_COLA, r, i, j, nom, c, e), SIN_COLA \notin Propias(q),
           NEW s, s = IF nom # SIN_COLA THEN nom ELSE <<q, q>>,
           NEW d, \A x \in Propias(q) : d[x] = IF nom = SIN_COLA /\ x = <<q, q>> THEN <<>> ELSE c[x]
    PROVE  Enlace(q, s, r, i, j, s, d, e)
<1>1. i = 0 /\ j = 0 /\ Tramo(q, e, 0, 0) = <<>> /\ Tramo(q, e, j, i) = <<>>
  BY TramoVacio DEF Enlace
<1>2. /\ r \in Propias(q) \cup {SIN_COLA} /\ nom \in {SIN_COLA, r}
      /\ r # SIN_COLA => r = <<q, q + 1>> /\ c[r] = <<>>
      /\ <<q, q>> \in Propias(q) /\ <<q, q + 1>> \in Propias(q) /\ <<q, q>> # <<q, q + 1>>
  BY DEF Enlace, Propias, Nombres
<1>3. CASE nom = SIN_COLA
  <2>1. s = <<q, q>> /\ d[s] = <<>> /\ (r # SIN_COLA => d[r] = <<>>)
    BY <1>2, <1>3
  <2> QED BY <1>1, <1>2, <2>1 DEF Enlace
<1>4. CASE nom # SIN_COLA
  <2>1. s = r /\ r # SIN_COLA /\ d[r] = <<>>
    BY <1>2, <1>4
  <2> QED BY <1>1, <1>2, <2>1 DEF Enlace
<1> QED BY <1>3, <1>4

(* The child that empties it opens it.                                     *)
LEMMA EnlaceAbreOtro ==
    ASSUME NEW q \in Nombres, NEW s, NEW i \in Nat, NEW j \in Nat, NEW nom, NEW c, NEW e,
           Enlace(q, s, SIN_COLA, i, j, nom, c, e), SIN_COLA \notin Propias(q),
           NEW r, r = IF nom # SIN_COLA THEN nom ELSE <<q, q + 1>>,
           NEW d, \A x \in Propias(q) : d[x] = IF nom = SIN_COLA /\ x = <<q, q + 1>> THEN <<>> ELSE c[x]
    PROVE  Enlace(q, s, r, i, j, r, d, e)
<1>1. /\ s \in Propias(q) \cup {SIN_COLA} /\ nom \in {SIN_COLA, s}
      /\ s # SIN_COLA => s = <<q, q>> /\ c[s] = Tramo(q, e, j, i)
      /\ s = SIN_COLA => i = 0
      /\ j <= i /\ j = 0
      /\ <<q, q>> \in Propias(q) /\ <<q, q + 1>> \in Propias(q) /\ <<q, q>> # <<q, q + 1>>
  BY DEF Enlace, Propias, Nombres
<1>2. CASE nom = SIN_COLA
  <2>1. /\ r = <<q, q + 1>> /\ d[r] = <<>> /\ s # r
        /\ s # SIN_COLA => d[s] = Tramo(q, e, j, i)
    BY <1>1, <1>2
  <2> QED BY <1>1, <2>1 DEF Enlace
<1>3. CASE nom # SIN_COLA
  <2>1. r = s /\ s # SIN_COLA /\ d[s] = Tramo(q, e, j, i)
    BY <1>1, <1>3
  <2> QED BY <1>1, <2>1 DEF Enlace
<1> QED BY <1>2, <1>3

(* The next message is sent.                                               *)
LEMMA EnlaceEnvia ==
    ASSUME NEW q, NEW s, NEW r, NEW i \in Nat, NEW j \in Nat, NEW nom, NEW c, NEW e,
           Enlace(q, s, r, i, j, nom, c, e), s # SIN_COLA,
           NEW d, d[s] = Append(c[s], Mensaje(q, e, i + 1)),
           \A x \in Propias(q) \ {s} : d[x] = c[x]
    PROVE  Enlace(q, s, r, i + 1, j, nom, d, e)
<1>1. j <= i /\ c[s] = Tramo(q, e, j, i)
  BY DEF Enlace
<1>2. j \in 0 .. i /\ j <= i + 1
  BY <1>1
<1>3. d[s] = Tramo(q, e, j, i + 1)
  BY <1>1, <1>2, TramoMas
<1>4. s # r /\ r # SIN_COLA => d[r] = c[r]
  BY DEF Enlace
<1> QED BY <1>2, <1>3, <1>4 DEF Enlace

(* The next message is received, and it is the one that was to come.       *)
LEMMA EnlaceRecibe ==
    ASSUME NEW q, NEW s, NEW r, NEW i \in Nat, NEW j \in Nat, NEW nom, NEW c, NEW e,
           Enlace(q, s, r, i, j, nom, c, e), r # SIN_COLA, c[r] # <<>>,
           NEW d, d[r] = Tail(c[r])
    PROVE  /\ Enlace(q, s, r, i, j + 1, nom, d, e)
           /\ j + 1 <= i /\ Head(c[r]) = Mensaje(q, e, j + 1)
<1>1. s = r /\ j <= i /\ c[r] = Tramo(q, e, j, i)
  BY DEF Enlace
<1>2. j \in 0 .. i
  BY <1>1
<1>3. j + 1 <= i /\ Head(c[r]) = Mensaje(q, e, j + 1) /\ d[r] = Tramo(q, e, j + 1, i)
  BY <1>1, <1>2, TramoMenos
<1> QED BY <1>1, <1>3 DEF Enlace

-----------------------------------------------------------------------------
(* Every action keeps the count of the messages.                           *)

LEMMA Contexto ==
    ASSUME TiposCadena
    PROVE  /\ entrada \in Entradas /\ BloquesDe(Len(entrada)) \in Nat \ {0}
           /\ \A q \in Nombres : SIN_COLA \notin Propias(q) /\ Propias(q) \subseteq Colas
           /\ \A x \in Propias(1) : x \notin Propias(2)
           /\ TiposColas /\ TiposHijos /\ nombre \in [Nombres -> Colas \cup {SIN_COLA}]
           /\ DOMAIN cola = Colas /\ DOMAIN fase = Hijos /\ DOMAIN sale = Hijos
           /\ DOMAIN entra = Hijos /\ DOMAIN quedan = Hijos /\ DOMAIN bytes = Hijos
           /\ \A p \in Hijos : /\ sale[p] \in Colas \cup {SIN_COLA} /\ entra[p] \in Colas \cup {SIN_COLA}
                               /\ quedan[p] \in Nat
                               /\ TipoHijo(p, fase[p], entra[p], sale[p], quedan[p])
<1>1. TiposColas /\ TiposHijos /\ nombre \in [Nombres -> Colas \cup {SIN_COLA}] /\ entrada \in Entradas
  BY DEF TiposCadena, TiposResto
<1>2. BloquesDe(Len(entrada)) \in Nat \ {0}
  BY <1>1, EntradaEs
<1>3. \A q \in Nombres : Propias(q) \subseteq Colas
  BY DEF Propias, Colas, Nombres, Hijos
<1>4. \A q \in Nombres : SIN_COLA \notin Propias(q)
  BY <1>3, CadenaAssumption
<1>5. \A x \in Propias(1) : x \notin Propias(2)
  BY DEF Propias
<1>6. /\ DOMAIN fase = Hijos /\ DOMAIN sale = Hijos
      /\ DOMAIN entra = Hijos /\ DOMAIN quedan = Hijos
  BY <1>1 DEF TiposHijos
<1>7. DOMAIN cola = Colas
  BY <1>1 DEF TiposColas
<1>8. \A p \in Hijos : /\ sale[p] \in Colas \cup {SIN_COLA} /\ entra[p] \in Colas \cup {SIN_COLA}
                       /\ quedan[p] \in Nat /\ DOMAIN bytes = Hijos
                       /\ TipoHijo(p, fase[p], entra[p], sale[p], quedan[p])
  BY <1>1, SinCambios
<1>9. DOMAIN bytes = Hijos
  BY <1>1 DEF TiposHijos
<1> QED BY <1>1, <1>2, <1>3, <1>4, <1>5, <1>6, <1>7, <1>8, <1>9

(* The three children, one by one, when p goes on.                         *)
LEMMA AlPasar ==
    ASSUME NEW g, DOMAIN g = Hijos, NEW p \in Hijos, NEW x, NEW h, h = [g EXCEPT ![p] = x]
    PROVE  /\ h[p] = x
           /\ p # 1 => h[1] = g[1]
           /\ p # 2 => h[2] = g[2]
           /\ p # 3 => h[3] = g[3]
<1>1. 1 \in Hijos /\ 2 \in Hijos /\ 3 \in Hijos
  BY DEF Hijos
<1> QED BY <1>1

LEMMA AvanceProceso1 ==
    ASSUME TiposCadena, CabeEnLaCola, NEW i1 \in Nat, NEW i2 \in Nat, NEW j2 \in Nat, NEW i3 \in Nat,
           Avance(i1, i2, j2, i3), AbrirEntrada \/ EnviarIter1 \/ EnviarBloque1
    PROVE  \E n \in 0 .. BloquesDe(Len(entrada)) + 1 : Avance(n, i2, j2, i3)'
<1> DEFINE B == BloquesDe(Len(entrada))
<1>1. 1 \in Hijos /\ 2 \in Hijos /\ 3 \in Hijos /\ 1 \in Nombres /\ 2 \in Nombres
  BY DEF Hijos, Nombres
<1>2. /\ Etapa1(fase[1], sale[1], quedan[1], porLeer, entrada, i1)
      /\ Etapa2(fase[2], entra[2], sale[2], quedan[2], bytes[2], entrada, i2, j2)
      /\ Etapa3(fase[3], entra[3], quedan[3], salida, entrada, i3)
      /\ Enlace(1, sale[1], entra[2], i1, i2, nombre[1], cola, entrada)
      /\ Enlace(2, sale[2], entra[3], j2, i3, nombre[2], cola, entrada)
      /\ fase[2] = "fin" => nombre[1] = SIN_COLA
      /\ fase[3] = "fin" => nombre[2] = SIN_COLA
  BY DEF Avance
<1>3. /\ B \in Nat \ {0} /\ SIN_COLA \notin Propias(1) /\ SIN_COLA \notin Propias(2)
      /\ Propias(1) \subseteq Colas /\ Propias(2) \subseteq Colas
      /\ \A x \in Propias(1) : x \notin Propias(2)
      /\ TiposColas /\ nombre \in [Nombres -> Colas \cup {SIN_COLA}] /\ entrada \in Entradas
      /\ DOMAIN fase = Hijos /\ DOMAIN sale = Hijos /\ DOMAIN entra = Hijos
      /\ DOMAIN quedan = Hijos /\ DOMAIN bytes = Hijos /\ DOMAIN cola = Colas
      /\ quedan[1] \in Nat /\ quedan[2] \in Nat /\ quedan[3] \in Nat
  BY <1>1, Contexto
<1>4. CASE AbrirEntrada
  <2>1. /\ fase[1] = "abre" /\ fase' = [fase EXCEPT ![1] = "cabecera"]
        /\ Abrir(1, 1) /\ sale' = [sale EXCEPT ![1] = Abierta(1, 1)]
        /\ entra' = entra /\ quedan' = quedan /\ bytes' = bytes /\ porLeer' = porLeer
        /\ entrada' = entrada /\ salida' = salida
    BY <1>4 DEF AbrirEntrada, Pasa
  <2>2. /\ nombre' = [nombre EXCEPT ![1] = Abierta(1, 1)]
        /\ \A d \in Colas :
              cola'[d] = IF nombre[1] = SIN_COLA /\ d = <<1, 1>> THEN <<>> ELSE cola[d]
    BY <1>1, <1>3, <2>1, TiposAbrir
  <2>3. /\ fase'[1] = "cabecera" /\ fase'[2] = fase[2] /\ fase'[3] = fase[3]
        /\ sale'[1] = Abierta(1, 1) /\ sale'[2] = sale[2]
        /\ nombre'[1] = Abierta(1, 1) /\ nombre'[2] = nombre[2]
    BY <1>1, <1>3, <2>1, <2>2, AlPasar
  <2>4. sale[1] = SIN_COLA /\ i1 = 0 /\ porLeer = entrada /\ i1 \in 0 .. B + 1
    BY <1>2, <2>1 DEF Etapa1
  <2> HIDE DEF B
  <2>5. Etapa1(fase'[1], sale'[1], quedan'[1], porLeer', entrada', i1)
    BY <2>1, <2>3, <2>4 DEF Etapa1, B
  <2>6. Enlace(1, sale'[1], entra'[2], i1, i2, nombre'[1], cola', entrada')
    <3>1. Abierta(1, 1) = IF nombre[1] # SIN_COLA THEN nombre[1] ELSE <<1, 1>>
      BY DEF Abierta
    <3>2. \A x \in Propias(1) : cola'[x] = IF nombre[1] = SIN_COLA /\ x = <<1, 1>> THEN <<>> ELSE cola[x]
      BY <1>3, <2>2
    <3>3. Enlace(1, Abierta(1, 1), entra[2], i1, i2, Abierta(1, 1), cola', entrada)
      BY <1>1, <1>2, <1>3, <2>4, <3>1, <3>2, EnlaceAbreUno
    <3> QED BY <2>1, <2>3, <3>3
  <2>7. Enlace(2, sale'[2], entra'[3], j2, i3, nombre'[2], cola', entrada')
    <3>1. \A x \in Propias(2) : cola'[x] = cola[x]
      BY <1>3, <2>2 DEF Propias
    <3>2. Enlace(2, sale[2], entra[3], j2, i3, nombre[2], cola', entrada)
      BY <1>2, <1>3, <3>1, EnlaceIgual
    <3> QED BY <2>1, <2>3, <3>2
  <2>8. fase[2] # "fin"
    <3>1. i2 <= i1 /\ (fase[2] = "fin" => i2 = B + 1)
      BY <1>2 DEF Enlace, Etapa2, B
    <3> QED BY <1>3, <2>4, <3>1
  <2>9. Avance(i1, i2, j2, i3)'
    BY <1>2, <2>1, <2>3, <2>5, <2>6, <2>7, <2>8 DEF Avance
  <2> QED BY <2>4, <2>9 DEF B
<1>5. ASSUME NEW m, NEW f, NEW n, Enviar(sale[1], m), m = Mensaje(1, entrada, i1 + 1), sale[1] # SIN_COLA,
             fase' = [fase EXCEPT ![1] = f], quedan' = [quedan EXCEPT ![1] = n],
             Etapa1(f, sale[1], n, porLeer', entrada, i1 + 1),
             sale' = sale, entra' = entra, bytes' = bytes, nombre' = nombre, entrada' = entrada,
             salida' = salida
      PROVE  Avance(i1 + 1, i2, j2, i3)'
  <2>1. sale[1] \in Propias(1) /\ sale[1] \in Colas
    BY <1>2, <1>3, <1>5 DEF Enlace
  <2>2. cola' = [cola EXCEPT ![sale[1]] = Append(cola[sale[1]], m)]
    BY <1>5 DEF Enviar
  <2>3. /\ cola'[sale[1]] = Append(cola[sale[1]], Mensaje(1, entrada, i1 + 1))
        /\ \A x \in Propias(1) \ {sale[1]} : cola'[x] = cola[x]
        /\ \A x \in Propias(2) : cola'[x] = cola[x]
    BY <1>3, <1>5, <2>1, <2>2
  <2>4. /\ fase'[1] = f /\ fase'[2] = fase[2] /\ fase'[3] = fase[3]
        /\ quedan'[1] = n /\ quedan'[2] = quedan[2] /\ quedan'[3] = quedan[3]
    BY <1>1, <1>3, <1>5, AlPasar
  <2>5. Enlace(1, sale[1], entra[2], i1 + 1, i2, nombre[1], cola', entrada)
    BY <1>2, <1>5, <2>3, EnlaceEnvia
  <2>6. Enlace(2, sale[2], entra[3], j2, i3, nombre[2], cola', entrada)
    BY <1>2, <1>3, <2>3, EnlaceIgual
  <2> QED BY <1>2, <1>5, <2>4, <2>5, <2>6 DEF Avance
<1>6. CASE EnviarIter1
  <2>1. /\ fase[1] = "cabecera" /\ fase' = [fase EXCEPT ![1] = "bloque"]
        /\ Enviar(sale[1], MensajeIter(B)) /\ quedan' = [quedan EXCEPT ![1] = B]
        /\ sale' = sale /\ entra' = entra /\ bytes' = bytes /\ nombre' = nombre
        /\ entrada' = entrada /\ salida' = salida /\ porLeer' = porLeer
    BY <1>6 DEF EnviarIter1, Pasa
  <2>2. i1 = 0 /\ porLeer = entrada /\ sale[1] # SIN_COLA
    <3>1. TipoHijo(1, fase[1], entra[1], sale[1], quedan[1])
      BY <1>1, Contexto
    <3> QED BY <1>2, <2>1, <3>1 DEF Etapa1, TipoHijo, ConSalida
  <2>3. MensajeIter(B) = Mensaje(1, entrada, i1 + 1)
    BY <2>2 DEF Mensaje
  <2>4. porLeer' = Cola(entrada, 0)
    BY <1>3, <2>1, <2>2, LoEscrito
  <2> HIDE DEF B
  <2>5. Etapa1("bloque", sale[1], B, porLeer', entrada, i1 + 1)
    <3>1. i1 + 1 = 1 /\ (i1 + 1) - 1 = 0 /\ 1 \in 0 .. B + 1 /\ 1 \in 1 .. B /\ B = B + 1 - 1
      BY <1>3, <2>2
    <3> QED BY <2>4, <3>1 DEF Etapa1, B
  <2>6. Avance(i1 + 1, i2, j2, i3)'
    BY <1>5, <2>1, <2>2, <2>3, <2>5
  <2>7. i1 + 1 \in 0 .. B + 1
    BY <1>3, <2>2
  <2> QED BY <2>6, <2>7 DEF B
<1>7. CASE EnviarBloque1
  <2> DEFINE k == IF Len(porLeer) < FILE_BLOCK THEN Len(porLeer) ELSE FILE_BLOCK
             m == MensajeDatos(SubSeq(porLeer, 1, k))
             f == IF quedan[1] > 1 THEN "bloque" ELSE "fin"
             n == quedan[1] - 1
  <2>1. /\ fase[1] = "bloque" /\ fase' = [fase EXCEPT ![1] = f]
        /\ Enviar(sale[1], m) /\ quedan' = [quedan EXCEPT ![1] = n]
        /\ sale' = sale /\ entra' = entra /\ bytes' = bytes /\ nombre' = nombre
        /\ entrada' = entrada /\ salida' = salida
        /\ porLeer' = SubSeq(porLeer, k + 1, Len(porLeer))
    BY <1>7 DEF EnviarBloque1, Itera, Pasa
  <2>2. i1 \in 1 .. B /\ quedan[1] = B + 1 - i1 /\ porLeer = Cola(entrada, i1 - 1) /\ sale[1] # SIN_COLA
    <3>1. TipoHijo(1, fase[1], entra[1], sale[1], quedan[1])
      BY <1>1, Contexto
    <3> QED BY <1>2, <2>1, <3>1 DEF Etapa1, TipoHijo, ConSalida
  <2> HIDE DEF B
  <2>3. i1 - 1 \in Nat /\ (i1 - 1) + 1 = i1 /\ (i1 + 1) - 2 = i1 - 1 /\ i1 + 1 # 1 /\ (i1 + 1) - 1 = i1
    BY <1>3, <2>2
  <2>4. SubSeq(porLeer, 1, k) = Trozo(entrada, i1 - 1) /\ porLeer' = Cola(entrada, i1)
    <3>1. /\ SubSeq(Cola(entrada, i1 - 1), 1, k) = Trozo(entrada, i1 - 1)
          /\ SubSeq(Cola(entrada, i1 - 1), k + 1, Len(Cola(entrada, i1 - 1))) = Cola(entrada, (i1 - 1) + 1)
      BY <1>3, <2>2, <2>3, LeerBloque
    <3> HIDE DEF k
    <3> QED BY <2>1, <2>2, <2>3, <3>1
  <2>5. m = Mensaje(1, entrada, i1 + 1)
    BY <2>3, <2>4 DEF Mensaje, Datos
  <2> HIDE DEF m
  <2>6. Etapa1(f, sale[1], n, porLeer', entrada, i1 + 1) /\ i1 + 1 \in 0 .. B + 1
    <3>1. n = B + 1 - (i1 + 1) /\ i1 + 1 \in 0 .. B + 1
      BY <1>3, <2>2
    <3>2. CASE quedan[1] > 1
      <4>1. f = "bloque" /\ i1 + 1 \in 1 .. B
        BY <1>3, <2>2, <3>2
      <4> HIDE DEF n, f
      <4> QED BY <2>3, <2>4, <3>1, <4>1 DEF Etapa1, B
    <3>3. CASE ~(quedan[1] > 1)
      <4>1. f = "fin" /\ i1 + 1 = B + 1
        BY <1>3, <2>2, <3>3
      <4> HIDE DEF n, f
      <4> QED BY <3>1, <4>1 DEF Etapa1, B
    <3> QED BY <3>2, <3>3
  <2> HIDE DEF f, n
  <2>7. Avance(i1 + 1, i2, j2, i3)'
    BY <1>5, <2>1, <2>2, <2>5, <2>6
  <2> QED BY <2>6, <2>7 DEF B
<1> QED BY <1>4, <1>6, <1>7


LEMMA AvanceProceso2 ==
    ASSUME TiposCadena, CabeEnLaCola, NEW i1 \in Nat, NEW i2 \in Nat, NEW j2 \in Nat, NEW i3 \in Nat,
           Avance(i1, i2, j2, i3), PasoHijo(2)
    PROVE  \E n, k \in 0 .. BloquesDe(Len(entrada)) + 1 : Avance(i1, n, k, i3)'
<1> DEFINE B == BloquesDe(Len(entrada))
<1>1. 1 \in Hijos /\ 2 \in Hijos /\ 3 \in Hijos /\ 1 \in Nombres /\ 2 \in Nombres
  BY DEF Hijos, Nombres
<1>2. /\ Etapa1(fase[1], sale[1], quedan[1], porLeer, entrada, i1)
      /\ Etapa2(fase[2], entra[2], sale[2], quedan[2], bytes[2], entrada, i2, j2)
      /\ Etapa3(fase[3], entra[3], quedan[3], salida, entrada, i3)
      /\ Enlace(1, sale[1], entra[2], i1, i2, nombre[1], cola, entrada)
      /\ Enlace(2, sale[2], entra[3], j2, i3, nombre[2], cola, entrada)
      /\ fase[2] = "fin" => nombre[1] = SIN_COLA
      /\ fase[3] = "fin" => nombre[2] = SIN_COLA
  BY DEF Avance
<1>3. /\ B \in Nat \ {0} /\ SIN_COLA \notin Propias(1) /\ SIN_COLA \notin Propias(2)
      /\ Propias(1) \subseteq Colas /\ Propias(2) \subseteq Colas
      /\ \A x \in Propias(1) : x \notin Propias(2)
      /\ TiposColas /\ nombre \in [Nombres -> Colas \cup {SIN_COLA}] /\ entrada \in Entradas
      /\ DOMAIN fase = Hijos /\ DOMAIN sale = Hijos /\ DOMAIN entra = Hijos
      /\ DOMAIN quedan = Hijos /\ DOMAIN bytes = Hijos /\ DOMAIN cola = Colas
      /\ quedan[1] \in Nat /\ quedan[2] \in Nat /\ quedan[3] \in Nat
  BY <1>1, Contexto
<1>4. TipoHijo(2, fase[2], entra[2], sale[2], quedan[2])
  BY <1>1, Contexto
<1>5. i2 \in 0 .. B + 1 /\ j2 \in 0 .. B + 1 /\ i2 <= i1 /\ i1 <= B + 1
  <2>1. i2 \in 0 .. B + 1 /\ j2 \in 0 .. B + 1
    BY <1>2 DEF Etapa2
  <2>2. i1 \in 0 .. B + 1
    BY <1>2 DEF Etapa1
  <2>3. i2 <= i1
    BY <1>2 DEF Enlace
  <2> HIDE DEF B
  <2> QED BY <1>3, <2>1, <2>2, <2>3
<1>6. ASSUME NEW f, NEW n, NEW y, Enviar(sale[2], Mensaje(2, entrada, j2 + 1)), sale[2] # SIN_COLA,
             fase' = [fase EXCEPT ![2] = f], quedan' = [quedan EXCEPT ![2] = n],
             bytes'[2] = y, f # "fin",
             Etapa2(f, entra[2], sale[2], n, y, entrada, i2, j2 + 1),
             sale' = sale, entra' = entra, porLeer' = porLeer, nombre' = nombre,
             entrada' = entrada, salida' = salida
      PROVE  Avance(i1, i2, j2 + 1, i3)'
  <2> DEFINE m == Mensaje(2, entrada, j2 + 1)
  <2>1. sale[2] \in Propias(2) /\ sale[2] \in Colas
    BY <1>2, <1>3, <1>6 DEF Enlace
  <2>2. cola' = [cola EXCEPT ![sale[2]] = Append(cola[sale[2]], m)]
    BY <1>6 DEF Enviar
  <2>3. /\ cola'[sale[2]] = Append(cola[sale[2]], m)
        /\ \A x \in Propias(2) \ {sale[2]} : cola'[x] = cola[x]
        /\ \A x \in Propias(1) : cola'[x] = cola[x]
    BY <1>3, <2>1, <2>2
  <2>4. /\ fase'[2] = f /\ fase'[1] = fase[1] /\ fase'[3] = fase[3]
        /\ quedan'[2] = n /\ quedan'[1] = quedan[1] /\ quedan'[3] = quedan[3]
    BY <1>1, <1>3, <1>6, AlPasar
  <2>5. Enlace(2, sale[2], entra[3], j2 + 1, i3, nombre[2], cola', entrada)
    BY <1>2, <1>6, <2>3, EnlaceEnvia
  <2>6. Enlace(1, sale[1], entra[2], i1, i2, nombre[1], cola', entrada)
    BY <1>2, <1>3, <2>3, EnlaceIgual
  <2> QED BY <1>2, <1>6, <2>4, <2>5, <2>6 DEF Avance
<1>7. ASSUME Recibir(entra[2]), entra[2] # SIN_COLA
      PROVE  /\ Head(cola[entra[2]]) = Mensaje(1, entrada, i2 + 1) /\ i2 + 1 <= i1
             /\ Enlace(1, sale[1], entra[2], i1, i2 + 1, nombre[1], cola', entrada)
             /\ Enlace(2, sale[2], entra[3], j2, i3, nombre[2], cola', entrada)
  <2>1. entra[2] \in Propias(1) /\ entra[2] \in Colas
    BY <1>2, <1>3, <1>7 DEF Enlace
  <2>2. cola[entra[2]] # <<>> /\ cola' = [cola EXCEPT ![entra[2]] = Tail(cola[entra[2]])]
    BY <1>7 DEF Recibir
  <2>3. cola'[entra[2]] = Tail(cola[entra[2]]) /\ \A x \in Propias(2) : cola'[x] = cola[x]
    BY <1>3, <2>1, <2>2
  <2>4. /\ Enlace(1, sale[1], entra[2], i1, i2 + 1, nombre[1], cola', entrada)
        /\ i2 + 1 <= i1 /\ Head(cola[entra[2]]) = Mensaje(1, entrada, i2 + 1)
    <3> DEFINE r == entra[2]  s == sale[1]  nom == nombre[1]  c == cola  d == cola'  e == entrada
    <3>1. Enlace(1, s, r, i1, i2, nom, c, e) /\ c[r] # <<>> /\ d[r] = Tail(c[r]) /\ r # SIN_COLA
      BY <1>2, <1>7, <2>2, <2>3
    <3> HIDE DEF r, s, nom, c, d, e
    <3>2. Enlace(1, s, r, i1, i2 + 1, nom, d, e)
      BY <3>1, EnlaceRecibe
    <3>3. i2 + 1 <= i1 /\ Head(c[r]) = Mensaje(1, e, i2 + 1)
      BY <3>1, <3>2, EnlaceRecibe
    <3> QED BY <3>2, <3>3 DEF r, s, nom, c, d, e
  <2>5. Enlace(2, sale[2], entra[3], j2, i3, nombre[2], cola', entrada)
    BY <1>2, <1>3, <2>3, EnlaceIgual
  <2> QED BY <2>4, <2>5
<1>8. ASSUME NEW f, NEW n, NEW y, Recibir(entra[2]), entra[2] # SIN_COLA,
             fase' = [fase EXCEPT ![2] = f], quedan' = [quedan EXCEPT ![2] = n],
             bytes'[2] = y, f # "fin",
             Etapa2(f, entra[2], sale[2], n, y, entrada, i2 + 1, j2),
             sale' = sale, entra' = entra, porLeer' = porLeer, nombre' = nombre,
             entrada' = entrada, salida' = salida
      PROVE  Avance(i1, i2 + 1, j2, i3)'
  <2>1. /\ Enlace(1, sale[1], entra[2], i1, i2 + 1, nombre[1], cola', entrada)
        /\ Enlace(2, sale[2], entra[3], j2, i3, nombre[2], cola', entrada)
    BY <1>7, <1>8
  <2>2. /\ fase'[2] = f /\ fase'[1] = fase[1] /\ fase'[3] = fase[3]
        /\ quedan'[2] = n /\ quedan'[1] = quedan[1] /\ quedan'[3] = quedan[3]
    BY <1>1, <1>3, <1>8, AlPasar
  <2> QED BY <1>2, <1>8, <2>1, <2>2 DEF Avance
<1>9. CASE AbrirCola1
  <2>1. /\ fase[2] = "abre" /\ fase' = [fase EXCEPT ![2] = "abre_otra"]
        /\ Abrir(2, 1) /\ entra' = [entra EXCEPT ![2] = Abierta(2, 1)]
        /\ sale' = sale /\ quedan' = quedan /\ bytes' = bytes /\ porLeer' = porLeer
        /\ entrada' = entrada /\ salida' = salida
    BY <1>9 DEF AbrirCola1, Pasa
  <2>2. /\ nombre' = [nombre EXCEPT ![1] = Abierta(2, 1)]
        /\ \A d \in Colas :
              cola'[d] = IF nombre[1] = SIN_COLA /\ d = <<1, 2>> THEN <<>> ELSE cola[d]
    BY <1>1, <1>3, <2>1, TiposAbrir
  <2>3. /\ fase'[2] = "abre_otra" /\ fase'[1] = fase[1] /\ fase'[3] = fase[3]
        /\ entra'[2] = Abierta(2, 1) /\ entra'[1] = entra[1] /\ entra'[3] = entra[3]
        /\ nombre'[1] = Abierta(2, 1) /\ nombre'[2] = nombre[2]
    <3>1. fase'[2] = "abre_otra" /\ fase'[1] = fase[1] /\ fase'[3] = fase[3]
      <4>1. 1 \in Hijos /\ 2 \in Hijos /\ 3 \in Hijos /\ DOMAIN fase = Hijos
            /\ DOMAIN entra = Hijos /\ DOMAIN sale = Hijos
        BY <1>1, <1>3
      <4> QED BY <2>1, <4>1
    <3>2. entra'[2] = Abierta(2, 1) /\ entra'[1] = entra[1] /\ entra'[3] = entra[3]
      <4>1. 1 \in Hijos /\ 2 \in Hijos /\ 3 \in Hijos /\ DOMAIN fase = Hijos
            /\ DOMAIN entra = Hijos /\ DOMAIN sale = Hijos
        BY <1>1, <1>3
      <4> QED BY <2>1, <4>1
    <3>3. nombre'[1] = Abierta(2, 1) /\ nombre'[2] = nombre[2]
      BY <1>1, <1>3, <2>2 DEF Nombres
    <3> QED BY <3>1, <3>2, <3>3
  <2>4. entra[2] = SIN_COLA /\ sale[2] = SIN_COLA /\ i2 = 0 /\ j2 = 0
    BY <1>2, <2>1 DEF Etapa2
  <2>5. Etapa2(fase'[2], entra'[2], sale'[2], quedan'[2], bytes'[2], entrada', i2, j2)
    BY <1>2, <2>1, <2>3, <2>4 DEF Etapa2
  <2>6. Enlace(1, sale'[1], entra'[2], i1, i2, nombre'[1], cola', entrada')
    <3>1. Abierta(2, 1) = IF nombre[1] # SIN_COLA THEN nombre[1] ELSE <<1, 1 + 1>>
      BY DEF Abierta
    <3>2. \A x \in Propias(1) : cola'[x] = IF nombre[1] = SIN_COLA /\ x = <<1, 1 + 1>> THEN <<>> ELSE cola[x]
      BY <1>3, <2>2
    <3>3. Enlace(1, sale[1], Abierta(2, 1), i1, i2, Abierta(2, 1), cola', entrada)
      BY <1>1, <1>2, <1>3, <2>4, <3>1, <3>2, EnlaceAbreOtro
    <3> QED BY <2>1, <2>3, <3>3
  <2>7. Enlace(2, sale'[2], entra'[3], j2, i3, nombre'[2], cola', entrada')
    <3>1. \A x \in Propias(2) : cola'[x] = cola[x]
      BY <1>3, <2>2 DEF Propias
    <3>2. Enlace(2, sale[2], entra[3], j2, i3, nombre[2], cola', entrada)
      BY <1>2, <1>3, <3>1, EnlaceIgual
    <3> QED BY <2>1, <2>3, <3>2
  <2>8. Avance(i1, i2, j2, i3)'
    BY <1>2, <2>1, <2>3, <2>5, <2>6, <2>7 DEF Avance
  <2> QED BY <1>5, <2>8
<1>10. CASE AbrirCola2
  <2>1. /\ fase[2] = "abre_otra" /\ fase' = [fase EXCEPT ![2] = "cabecera"]
        /\ Abrir(2, 2) /\ sale' = [sale EXCEPT ![2] = Abierta(2, 2)]
        /\ entra' = entra /\ quedan' = quedan /\ bytes' = bytes /\ porLeer' = porLeer
        /\ entrada' = entrada /\ salida' = salida
    BY <1>10 DEF AbrirCola2, Pasa
  <2>2. /\ nombre' = [nombre EXCEPT ![2] = Abierta(2, 2)]
        /\ \A d \in Colas :
              cola'[d] = IF nombre[2] = SIN_COLA /\ d = <<2, 2>> THEN <<>> ELSE cola[d]
    <3>1. Abrir(2, 2)
      BY <2>1
    <3> QED BY <1>1, <1>3, <3>1, TiposAbrir
  <2>3. /\ fase'[2] = "cabecera" /\ fase'[1] = fase[1] /\ fase'[3] = fase[3]
        /\ sale'[2] = Abierta(2, 2) /\ sale'[1] = sale[1]
        /\ nombre'[2] = Abierta(2, 2) /\ nombre'[1] = nombre[1]
    <3>1. fase'[2] = "cabecera" /\ fase'[1] = fase[1] /\ fase'[3] = fase[3]
      <4>1. 1 \in Hijos /\ 2 \in Hijos /\ 3 \in Hijos /\ DOMAIN fase = Hijos
            /\ DOMAIN entra = Hijos /\ DOMAIN sale = Hijos
        BY <1>1, <1>3
      <4> QED BY <2>1, <4>1
    <3>2. sale'[2] = Abierta(2, 2) /\ sale'[1] = sale[1]
      <4>1. 1 \in Hijos /\ 2 \in Hijos /\ 3 \in Hijos /\ DOMAIN fase = Hijos
            /\ DOMAIN entra = Hijos /\ DOMAIN sale = Hijos
        BY <1>1, <1>3
      <4> QED BY <2>1, <4>1
    <3>3. nombre'[2] = Abierta(2, 2) /\ nombre'[1] = nombre[1]
      BY <1>1, <1>3, <2>2 DEF Nombres
    <3> QED BY <3>1, <3>2, <3>3
  <2>4. sale[2] = SIN_COLA /\ i2 = 0 /\ j2 = 0
    BY <1>2, <2>1 DEF Etapa2
  <2>5. Etapa2(fase'[2], entra'[2], sale'[2], quedan'[2], bytes'[2], entrada', i2, j2)
    BY <1>2, <2>1, <2>3, <2>4 DEF Etapa2
  <2>6. Enlace(2, sale'[2], entra'[3], j2, i3, nombre'[2], cola', entrada')
    <3>1. Abierta(2, 2) = IF nombre[2] # SIN_COLA THEN nombre[2] ELSE <<2, 2>>
      BY DEF Abierta
    <3>2. \A x \in Propias(2) : cola'[x] = IF nombre[2] = SIN_COLA /\ x = <<2, 2>> THEN <<>> ELSE cola[x]
      BY <1>3, <2>2
    <3>3. Enlace(2, Abierta(2, 2), entra[3], j2, i3, Abierta(2, 2), cola', entrada)
      BY <1>1, <1>2, <1>3, <2>4, <3>1, <3>2, EnlaceAbreUno
    <3> QED BY <2>1, <2>3, <3>3
  <2>7. Enlace(1, sale'[1], entra'[2], i1, i2, nombre'[1], cola', entrada')
    <3>1. \A x \in Propias(1) : cola'[x] = cola[x]
      BY <1>3, <2>2 DEF Propias
    <3>2. Enlace(1, sale[1], entra[2], i1, i2, nombre[1], cola', entrada)
      BY <1>2, <1>3, <3>1, EnlaceIgual
    <3> QED BY <2>1, <2>3, <3>2
  <2>8. fase[3] # "fin"
    <3>1. i3 <= j2 /\ (fase[3] = "fin" => i3 = B + 1)
      BY <1>2 DEF Enlace, Etapa3
    <3> HIDE DEF B
    <3> QED BY <1>3, <2>4, <3>1
  <2>9. Avance(i1, i2, j2, i3)'
    BY <1>2, <2>1, <2>3, <2>5, <2>6, <2>7, <2>8 DEF Avance
  <2> QED BY <1>5, <2>9
<1>11. CASE RecibirIter(2, "reenvia")
  <2> DEFINE m == Head(cola[entra[2]])
  <2>1. /\ fase[2] = "cabecera" /\ Recibir(entra[2])
        /\ sale' = sale /\ entra' = entra /\ bytes' = bytes /\ porLeer' = porLeer
        /\ nombre' = nombre /\ entrada' = entrada /\ salida' = salida
        /\ m.iter => /\ fase' = [fase EXCEPT ![2] = "reenvia"]
                     /\ quedan' = [quedan EXCEPT ![2] = Decodificar(m.bytes)]
    BY <1>11 DEF RecibirIter, Pasa
  <2>2. entra[2] # SIN_COLA /\ i2 = 0 /\ j2 = 0
    BY <1>2, <1>4, <2>1 DEF Etapa2, TipoHijo, ConSalida
  <2>3. m = Mensaje(1, entrada, i2 + 1) /\ i2 + 1 <= i1
    BY <1>7, <2>1, <2>2
  <2> HIDE DEF m, B
  <2>4. m.iter /\ Decodificar(m.bytes) = B
    <3>1. i2 + 1 = 1
      BY <2>2
    <3>2. /\ Mensaje(1, entrada, i2 + 1).iter = (i2 + 1 = 1)
          /\ i2 + 1 = 1 => Decodificar(Mensaje(1, entrada, i2 + 1).bytes) = B
      BY <1>3, MensajeEs DEF B
    <3> QED BY <2>3, <3>1, <3>2
  <2>5. i2 + 1 = 1 /\ i2 + 1 \in 0 .. B + 1 /\ j2 <= i2 + 1
    BY <1>3, <2>2
  <2>6. Etapa2("reenvia", entra[2], sale[2], B, bytes[2], entrada, i2 + 1, j2)
    BY <1>5, <2>2, <2>5 DEF Etapa2, B
  <2>7. Avance(i1, i2 + 1, j2, i3)'
    BY <1>8, <2>1, <2>2, <2>4, <2>6
  <2> QED BY <1>5, <2>5, <2>7 DEF B
<1>12. CASE ReenviarIter
  <2>1. /\ fase[2] = "reenvia" /\ fase' = [fase EXCEPT ![2] = "recibe"]
        /\ Enviar(sale[2], MensajeIter(quedan[2]))
        /\ sale' = sale /\ entra' = entra /\ bytes' = bytes /\ porLeer' = porLeer
        /\ nombre' = nombre /\ entrada' = entrada /\ salida' = salida /\ quedan' = quedan
    BY <1>12 DEF ReenviarIter, Pasa
  <2>2. sale[2] # SIN_COLA /\ i2 = 1 /\ j2 = 0 /\ quedan[2] = B
    BY <1>2, <1>4, <2>1 DEF Etapa2, TipoHijo, ConSalida
  <2>3. MensajeIter(quedan[2]) = Mensaje(2, entrada, j2 + 1)
    BY <2>2 DEF Mensaje
  <2>4. quedan' = [quedan EXCEPT ![2] = quedan[2]]
    <3>1. TiposHijos
      BY Contexto
    <3> QED BY <1>1, <2>1, <3>1, SinCambios
  <2> HIDE DEF B
  <2>5. j2 + 1 = 1 /\ j2 + 1 \in 0 .. B + 1 /\ i2 \in 1 .. B /\ B = B + 1 - i2 /\ j2 + 1 <= i2
    BY <1>3, <2>2
  <2>6. Etapa2("recibe", entra[2], sale[2], quedan[2], bytes[2], entrada, i2, j2 + 1)
    BY <1>5, <2>2, <2>5 DEF Etapa2, B
  <2>7. Avance(i1, i2, j2 + 1, i3)'
    BY <1>6, <2>1, <2>2, <2>3, <2>4, <2>6
  <2> QED BY <1>5, <2>5, <2>7 DEF B
<1>13. CASE RecibirBloque2
  <2> DEFINE m == Head(cola[entra[2]])
             y == IF m.iter THEN m.bytes ELSE [k \in DOMAIN m.bytes |-> Minuscula[m.bytes[k]]]
  <2>1. /\ fase[2] = "recibe" /\ fase' = [fase EXCEPT ![2] = "envia"] /\ Recibir(entra[2])
        /\ bytes' = [bytes EXCEPT ![2] = y]
        /\ sale' = sale /\ entra' = entra /\ quedan' = quedan /\ porLeer' = porLeer
        /\ nombre' = nombre /\ entrada' = entrada /\ salida' = salida
    BY <1>13 DEF RecibirBloque2, Pasa
  <2>2. entra[2] # SIN_COLA /\ i2 = j2 /\ i2 \in 1 .. B /\ quedan[2] = B + 1 - i2
    BY <1>2, <1>4, <2>1 DEF Etapa2, TipoHijo, ConSalida
  <2>3. m = Mensaje(1, entrada, i2 + 1) /\ i2 + 1 <= i1
    BY <1>7, <2>1, <2>2
  <2> HIDE DEF m, B
  <2>4. i2 + 1 # 1 /\ (i2 + 1) - 2 = i2 - 1 /\ i2 + 1 \in 0 .. B + 1 /\ i2 + 1 = j2 + 1
    BY <1>3, <2>2
  <2>5. ~m.iter /\ m.bytes = Datos(1, entrada, i2 - 1)
    <3>1. m.iter = (i2 + 1 = 1) /\ m.bytes = Datos(1, entrada, (i2 + 1) - 2)
      BY <1>3, <2>3, <2>4, MensajeEs
    <3> QED BY <2>4, <3>1
  <2>6. y = Datos(2, entrada, j2 - 1)
    BY <2>2, <2>5 DEF Datos, EnMinusculas
  <2> HIDE DEF y
  <2>7. bytes'[2] = y
    BY <1>1, <1>3, <2>1, AlPasar
  <2>8. quedan' = [quedan EXCEPT ![2] = quedan[2]]
    <3>1. TiposHijos
      BY Contexto
    <3> QED BY <1>1, <2>1, <3>1, SinCambios
  <2>9. Etapa2("envia", entra[2], sale[2], quedan[2], y, entrada, i2 + 1, j2)
    <3>1. j2 \in 1 .. B /\ quedan[2] = B + 1 - j2 /\ j2 <= i2 + 1
      BY <1>3, <2>2
    <3> QED BY <1>5, <2>4, <2>6, <3>1 DEF Etapa2, B
  <2>10. Avance(i1, i2 + 1, j2, i3)'
    BY <1>8, <2>1, <2>2, <2>7, <2>8, <2>9
  <2> QED BY <1>5, <2>4, <2>10 DEF B
<1>14. CASE EnviarBloque2
  <2> DEFINE f == IF quedan[2] > 1 THEN "recibe" ELSE "cierra"
             n == quedan[2] - 1
  <2>1. /\ fase[2] = "envia" /\ fase' = [fase EXCEPT ![2] = f]
        /\ quedan' = [quedan EXCEPT ![2] = n]
        /\ Enviar(sale[2], MensajeDatos(bytes[2])) /\ bytes' = [bytes EXCEPT ![2] = <<>>]
        /\ sale' = sale /\ entra' = entra /\ porLeer' = porLeer
        /\ nombre' = nombre /\ entrada' = entrada /\ salida' = salida
    BY <1>14 DEF EnviarBloque2, Itera, Pasa
  <2>2. /\ sale[2] # SIN_COLA /\ i2 = j2 + 1 /\ j2 \in 1 .. B /\ quedan[2] = B + 1 - j2
        /\ bytes[2] = Datos(2, entrada, j2 - 1)
    BY <1>2, <1>4, <2>1 DEF Etapa2, TipoHijo, ConSalida
  <2> HIDE DEF B
  <2>3. j2 + 1 # 1 /\ (j2 + 1) - 2 = j2 - 1 /\ j2 + 1 \in 0 .. B + 1 /\ n = B + 1 - (j2 + 1)
    BY <1>3, <2>2
  <2>4. MensajeDatos(bytes[2]) = Mensaje(2, entrada, j2 + 1)
    BY <2>2, <2>3 DEF Mensaje
  <2>5. bytes'[2] = <<>>
    BY <1>1, <1>3, <2>1, AlPasar
  <2>6. Etapa2(f, entra[2], sale[2], n, <<>>, entrada, i2, j2 + 1) /\ f # "fin"
    <3>1. CASE quedan[2] > 1
      <4>1. f = "recibe" /\ i2 \in 1 .. B /\ n = B + 1 - i2 /\ j2 + 1 <= i2
        BY <1>3, <2>2, <2>3, <3>1
      <4> HIDE DEF n, f
      <4> QED BY <1>5, <2>2, <2>3, <4>1 DEF Etapa2, B
    <3>2. CASE ~(quedan[2] > 1)
      <4>1. f = "cierra" /\ i2 = B + 1 /\ j2 + 1 = B + 1 /\ j2 + 1 <= i2
        BY <1>3, <2>2, <3>2
      <4> HIDE DEF n, f
      <4> QED BY <1>5, <2>2, <2>3, <4>1 DEF Etapa2, B
    <3> QED BY <3>1, <3>2
  <2> HIDE DEF f, n
  <2>7. Avance(i1, i2, j2 + 1, i3)'
    BY <1>6, <2>1, <2>2, <2>4, <2>5, <2>6
  <2> QED BY <1>5, <2>3, <2>7 DEF B
<1>15. CASE CerrarColas(2)
  <2>1. /\ fase[2] = "cierra" /\ fase' = [fase EXCEPT ![2] = "fin"]
        /\ nombre' = [nombre EXCEPT ![1] = SIN_COLA] /\ cola' = cola
        /\ sale' = sale /\ entra' = entra /\ quedan' = quedan /\ bytes' = bytes
        /\ porLeer' = porLeer /\ entrada' = entrada /\ salida' = salida
    BY <1>15 DEF CerrarColas, Pasa, Borrar
  <2>2. /\ fase'[2] = "fin" /\ fase'[1] = fase[1] /\ fase'[3] = fase[3]
        /\ nombre'[1] = SIN_COLA /\ nombre'[2] = nombre[2]
    BY <1>1, <1>3, <2>1, AlPasar
  <2>3. Enlace(1, sale[1], entra[2], i1, i2, SIN_COLA, cola', entrada)
    BY <1>2, <1>3, <2>1, EnlaceIgual
  <2>4. Etapa2("fin", entra[2], sale[2], quedan[2], bytes[2], entrada, i2, j2)
    BY <1>2, <2>1 DEF Etapa2
  <2>5. Avance(i1, i2, j2, i3)'
    BY <1>2, <2>1, <2>2, <2>3, <2>4 DEF Avance
  <2> QED BY <1>5, <2>5
<1> QED BY <1>9, <1>10, <1>11, <1>12, <1>13, <1>14, <1>15 DEF PasoHijo

LEMMA AvanceProceso3 ==
    ASSUME TiposCadena, CabeEnLaCola, NEW i1 \in Nat, NEW i2 \in Nat, NEW j2 \in Nat, NEW i3 \in Nat,
           Avance(i1, i2, j2, i3), PasoHijo(3)
    PROVE  \E n \in 0 .. BloquesDe(Len(entrada)) + 1 : Avance(i1, i2, j2, n)'
<1> DEFINE B == BloquesDe(Len(entrada))
<1>1. 1 \in Hijos /\ 2 \in Hijos /\ 3 \in Hijos /\ 1 \in Nombres /\ 2 \in Nombres
  BY DEF Hijos, Nombres
<1>2. /\ Etapa1(fase[1], sale[1], quedan[1], porLeer, entrada, i1)
      /\ Etapa2(fase[2], entra[2], sale[2], quedan[2], bytes[2], entrada, i2, j2)
      /\ Etapa3(fase[3], entra[3], quedan[3], salida, entrada, i3)
      /\ Enlace(1, sale[1], entra[2], i1, i2, nombre[1], cola, entrada)
      /\ Enlace(2, sale[2], entra[3], j2, i3, nombre[2], cola, entrada)
      /\ fase[2] = "fin" => nombre[1] = SIN_COLA
      /\ fase[3] = "fin" => nombre[2] = SIN_COLA
  BY DEF Avance
<1>3. /\ B \in Nat \ {0} /\ SIN_COLA \notin Propias(1) /\ SIN_COLA \notin Propias(2)
      /\ Propias(1) \subseteq Colas /\ Propias(2) \subseteq Colas
      /\ \A x \in Propias(1) : x \notin Propias(2)
      /\ TiposColas /\ nombre \in [Nombres -> Colas \cup {SIN_COLA}] /\ entrada \in Entradas
      /\ DOMAIN fase = Hijos /\ DOMAIN sale = Hijos /\ DOMAIN entra = Hijos
      /\ DOMAIN quedan = Hijos /\ DOMAIN bytes = Hijos /\ DOMAIN cola = Colas
      /\ quedan[1] \in Nat /\ quedan[2] \in Nat /\ quedan[3] \in Nat
  BY <1>1, Contexto
<1>4. TipoHijo(3, fase[3], entra[3], sale[3], quedan[3])
  BY <1>1, Contexto
<1>5. i3 \in 0 .. B + 1 /\ j2 <= B + 1
  <2>1. i3 \in 0 .. B + 1
    BY <1>2 DEF Etapa3
  <2>2. j2 \in 0 .. B + 1
    BY <1>2 DEF Etapa2
  <2> HIDE DEF B
  <2> QED BY <1>3, <2>1, <2>2
<1>6. ASSUME Recibir(entra[3]), entra[3] # SIN_COLA
      PROVE  /\ Head(cola[entra[3]]) = Mensaje(2, entrada, i3 + 1) /\ i3 + 1 <= j2
             /\ Enlace(2, sale[2], entra[3], j2, i3 + 1, nombre[2], cola', entrada)
             /\ Enlace(1, sale[1], entra[2], i1, i2, nombre[1], cola', entrada)
  <2>1. entra[3] \in Propias(2) /\ entra[3] \in Colas
    BY <1>2, <1>3, <1>6 DEF Enlace
  <2>2. cola[entra[3]] # <<>> /\ cola' = [cola EXCEPT ![entra[3]] = Tail(cola[entra[3]])]
    BY <1>6 DEF Recibir
  <2>3. cola'[entra[3]] = Tail(cola[entra[3]]) /\ \A x \in Propias(1) : cola'[x] = cola[x]
    BY <1>3, <2>1, <2>2
  <2>4. /\ Enlace(2, sale[2], entra[3], j2, i3 + 1, nombre[2], cola', entrada)
        /\ i3 + 1 <= j2 /\ Head(cola[entra[3]]) = Mensaje(2, entrada, i3 + 1)
    <3> DEFINE r == entra[3]  s == sale[2]  nom == nombre[2]  c == cola  d == cola'  e == entrada
    <3>1. Enlace(2, s, r, j2, i3, nom, c, e) /\ c[r] # <<>> /\ d[r] = Tail(c[r]) /\ r # SIN_COLA
      BY <1>2, <1>6, <2>2, <2>3
    <3> HIDE DEF r, s, nom, c, d, e
    <3>2. Enlace(2, s, r, j2, i3 + 1, nom, d, e)
      BY <3>1, EnlaceRecibe
    <3>3. i3 + 1 <= j2 /\ Head(c[r]) = Mensaje(2, e, i3 + 1)
      BY <3>1, <3>2, EnlaceRecibe
    <3> QED BY <3>2, <3>3 DEF r, s, nom, c, d, e
  <2>5. Enlace(1, sale[1], entra[2], i1, i2, nombre[1], cola', entrada)
    BY <1>2, <1>3, <2>3, EnlaceIgual
  <2> QED BY <2>4, <2>5
<1>7. ASSUME NEW f, NEW n, NEW o, Recibir(entra[3]), entra[3] # SIN_COLA,
             fase' = [fase EXCEPT ![3] = f], quedan' = [quedan EXCEPT ![3] = n],
             salida' = o, f # "fin", Etapa3(f, entra[3], n, o, entrada, i3 + 1),
             sale' = sale, entra' = entra, bytes' = bytes, porLeer' = porLeer, nombre' = nombre,
             entrada' = entrada
      PROVE  Avance(i1, i2, j2, i3 + 1)'
  <2>1. /\ Enlace(2, sale[2], entra[3], j2, i3 + 1, nombre[2], cola', entrada)
        /\ Enlace(1, sale[1], entra[2], i1, i2, nombre[1], cola', entrada)
    BY <1>6, <1>7
  <2>2. /\ fase'[3] = f /\ fase'[1] = fase[1] /\ fase'[2] = fase[2]
        /\ quedan'[3] = n /\ quedan'[1] = quedan[1] /\ quedan'[2] = quedan[2]
    BY <1>1, <1>3, <1>7, AlPasar
  <2> QED BY <1>2, <1>7, <2>1, <2>2 DEF Avance
<1>8. CASE AbrirSalida
  <2>1. /\ fase[3] = "abre" /\ fase' = [fase EXCEPT ![3] = "cabecera"]
        /\ Abrir(3, 2) /\ entra' = [entra EXCEPT ![3] = Abierta(3, 2)]
        /\ sale' = sale /\ quedan' = quedan /\ bytes' = bytes /\ porLeer' = porLeer
        /\ entrada' = entrada /\ salida' = salida
    BY <1>8 DEF AbrirSalida, Pasa
  <2>2. /\ nombre' = [nombre EXCEPT ![2] = Abierta(3, 2)]
        /\ \A d \in Colas :
              cola'[d] = IF nombre[2] = SIN_COLA /\ d = <<2, 3>> THEN <<>> ELSE cola[d]
    <3>1. Abrir(3, 2)
      BY <2>1
    <3> QED BY <1>1, <1>3, <3>1, TiposAbrir
  <2>3. /\ fase'[3] = "cabecera" /\ fase'[1] = fase[1] /\ fase'[2] = fase[2]
        /\ entra'[3] = Abierta(3, 2) /\ entra'[1] = entra[1] /\ entra'[2] = entra[2]
        /\ nombre'[2] = Abierta(3, 2) /\ nombre'[1] = nombre[1]
    BY <1>1, <1>3, <2>1, <2>2, AlPasar
  <2>4. entra[3] = SIN_COLA /\ i3 = 0
    BY <1>2, <2>1 DEF Etapa3
  <2>5. Etapa3(fase'[3], entra'[3], quedan'[3], salida', entrada', i3)
    BY <1>2, <2>1, <2>3, <2>4 DEF Etapa3
  <2>6. Enlace(2, sale'[2], entra'[3], j2, i3, nombre'[2], cola', entrada')
    <3>1. Abierta(3, 2) = IF nombre[2] # SIN_COLA THEN nombre[2] ELSE <<2, 2 + 1>>
      BY DEF Abierta
    <3>2. \A x \in Propias(2) : cola'[x] = IF nombre[2] = SIN_COLA /\ x = <<2, 2 + 1>> THEN <<>> ELSE cola[x]
      BY <1>3, <2>2
    <3>3. Enlace(2, sale[2], Abierta(3, 2), j2, i3, Abierta(3, 2), cola', entrada)
      BY <1>1, <1>2, <1>3, <2>4, <3>1, <3>2, EnlaceAbreOtro
    <3> QED BY <2>1, <2>3, <3>3
  <2>7. Enlace(1, sale'[1], entra'[2], i1, i2, nombre'[1], cola', entrada')
    <3>1. \A x \in Propias(1) : cola'[x] = cola[x]
      BY <1>3, <2>2 DEF Propias
    <3>2. Enlace(1, sale[1], entra[2], i1, i2, nombre[1], cola', entrada)
      BY <1>2, <1>3, <3>1, EnlaceIgual
    <3> QED BY <2>1, <2>3, <3>2
  <2>8. Avance(i1, i2, j2, i3)'
    BY <1>2, <2>1, <2>3, <2>5, <2>6, <2>7 DEF Avance
  <2> QED BY <1>5, <2>8
<1>9. CASE RecibirIter(3, "recibe")
  <2> DEFINE m == Head(cola[entra[3]])
  <2>1. /\ fase[3] = "cabecera" /\ Recibir(entra[3])
        /\ sale' = sale /\ entra' = entra /\ bytes' = bytes /\ porLeer' = porLeer
        /\ nombre' = nombre /\ entrada' = entrada /\ salida' = salida
        /\ m.iter => /\ fase' = [fase EXCEPT ![3] = "recibe"]
                     /\ quedan' = [quedan EXCEPT ![3] = Decodificar(m.bytes)]
    BY <1>9 DEF RecibirIter, Pasa
  <2>2. entra[3] # SIN_COLA /\ i3 = 0
    BY <1>2, <1>4, <2>1 DEF Etapa3, TipoHijo, ConSalida
  <2>3. m = Mensaje(2, entrada, i3 + 1) /\ i3 + 1 <= j2
    BY <1>6, <2>1, <2>2
  <2> HIDE DEF m, B
  <2>4. m.iter /\ Decodificar(m.bytes) = B
    <3>1. i3 + 1 = 1
      BY <2>2
    <3>2. /\ Mensaje(2, entrada, i3 + 1).iter = (i3 + 1 = 1)
          /\ i3 + 1 = 1 => Decodificar(Mensaje(2, entrada, i3 + 1).bytes) = B
      BY <1>3, MensajeEs DEF B
    <3> QED BY <2>3, <3>1, <3>2
  <2>5. /\ i3 + 1 \in 1 .. B /\ i3 + 1 \in 0 .. B + 1 /\ B = B + 1 - (i3 + 1)
        /\ (IF i3 + 1 = 0 THEN 0 ELSE (i3 + 1) - 1) = (IF i3 = 0 THEN 0 ELSE i3 - 1)
    BY <1>3, <2>2
  <2>6. salida = Escrito(entrada, IF i3 = 0 THEN 0 ELSE i3 - 1)
    BY <1>2 DEF Etapa3
  <2>7. Etapa3("recibe", entra[3], B, salida, entrada, i3 + 1)
    BY <2>5, <2>6 DEF Etapa3, B
  <2>8. Avance(i1, i2, j2, i3 + 1)'
    BY <1>7, <2>1, <2>2, <2>4, <2>7
  <2> QED BY <2>5, <2>8 DEF B
<1>10. CASE RecibirBloque3
  <2> DEFINE m == Head(cola[entra[3]])
             f == IF quedan[3] > 1 THEN "recibe" ELSE "cierra"
             n == quedan[3] - 1
  <2>1. /\ fase[3] = "recibe" /\ fase' = [fase EXCEPT ![3] = f]
        /\ quedan' = [quedan EXCEPT ![3] = n] /\ Recibir(entra[3])
        /\ salida' = salida \o m.bytes
        /\ sale' = sale /\ entra' = entra /\ bytes' = bytes /\ porLeer' = porLeer
        /\ nombre' = nombre /\ entrada' = entrada
    BY <1>10 DEF RecibirBloque3, Itera, Pasa
  <2>2. /\ entra[3] # SIN_COLA /\ i3 \in 1 .. B /\ quedan[3] = B + 1 - i3
        /\ salida = Escrito(entrada, IF i3 = 0 THEN 0 ELSE i3 - 1)
    BY <1>2, <1>4, <2>1 DEF Etapa3, TipoHijo, ConSalida
  <2>3. m = Mensaje(2, entrada, i3 + 1) /\ i3 + 1 <= j2
    BY <1>6, <2>1, <2>2
  <2> HIDE DEF m, B
  <2>4. /\ i3 + 1 # 1 /\ (i3 + 1) - 2 = i3 - 1 /\ i3 + 1 \in 0 .. B + 1
        /\ i3 - 1 \in Nat /\ (i3 - 1) + 1 = i3 /\ n = B + 1 - (i3 + 1)
        /\ (IF i3 = 0 THEN 0 ELSE i3 - 1) = i3 - 1
        /\ (IF i3 + 1 = 0 THEN 0 ELSE (i3 + 1) - 1) = i3
    BY <1>3, <2>2
  <2>5. m.bytes = EnMinusculas(Trozo(entrada, i3 - 1))
    <3>1. m.bytes = Datos(2, entrada, (i3 + 1) - 2)
      BY <1>3, <2>3, <2>4, MensajeEs
    <3> QED BY <2>4, <3>1 DEF Datos
  <2>6. salida' = Escrito(entrada, i3)
    <3>1. Escrito(entrada, i3 - 1) \o EnMinusculas(Trozo(entrada, i3 - 1)) = Escrito(entrada, (i3 - 1) + 1)
      BY <1>3, <2>4, EscribirBloque
    <3> QED BY <2>1, <2>2, <2>4, <2>5, <3>1
  <2>7. Etapa3(f, entra[3], n, salida', entrada, i3 + 1) /\ f # "fin"
    <3>1. CASE quedan[3] > 1
      <4>1. f = "recibe" /\ i3 + 1 \in 1 .. B
        BY <1>3, <2>2, <3>1
      <4> HIDE DEF n, f
      <4> QED BY <2>4, <2>6, <4>1 DEF Etapa3, B
    <3>2. CASE ~(quedan[3] > 1)
      <4>1. f = "cierra" /\ i3 + 1 = B + 1
        BY <1>3, <2>2, <3>2
      <4> HIDE DEF n, f
      <4> QED BY <2>4, <2>6, <4>1 DEF Etapa3, B
    <3> QED BY <3>1, <3>2
  <2> HIDE DEF f, n
  <2>8. Avance(i1, i2, j2, i3 + 1)'
    BY <1>7, <2>1, <2>2, <2>7
  <2> QED BY <2>4, <2>8 DEF B
<1>11. CASE CerrarColas(3)
  <2>1. /\ fase[3] = "cierra" /\ fase' = [fase EXCEPT ![3] = "fin"]
        /\ nombre' = [nombre EXCEPT ![2] = SIN_COLA] /\ cola' = cola
        /\ sale' = sale /\ entra' = entra /\ quedan' = quedan /\ bytes' = bytes
        /\ porLeer' = porLeer /\ entrada' = entrada /\ salida' = salida
    BY <1>11 DEF CerrarColas, Pasa, Borrar
  <2>2. /\ fase'[3] = "fin" /\ fase'[1] = fase[1] /\ fase'[2] = fase[2]
        /\ nombre'[2] = SIN_COLA /\ nombre'[1] = nombre[1]
    BY <1>1, <1>3, <2>1, AlPasar
  <2>3. Enlace(2, sale[2], entra[3], j2, i3, SIN_COLA, cola', entrada)
    BY <1>2, <1>3, <2>1, EnlaceIgual
  <2>4. Etapa3("fin", entra[3], quedan[3], salida, entrada, i3)
    BY <1>2, <2>1 DEF Etapa3
  <2>5. Avance(i1, i2, j2, i3)'
    BY <1>2, <2>1, <2>2, <2>3, <2>4 DEF Avance
  <2> QED BY <1>5, <2>5
<1> QED BY <1>8, <1>9, <1>10, <1>11 DEF PasoHijo

(* A fork, a child that fails, or the father that ends.                    *)
LEMMA AvanceFork ==
    ASSUME TiposCadena, NEW i1 \in Nat, NEW i2 \in Nat, NEW j2 \in Nat, NEW i3 \in Nat,
           Avance(i1, i2, j2, i3), Fork
    PROVE  Avance(i1, i2, j2, i3)'
<1>1. /\ padre \in 0 .. 2 /\ fase' = [fase EXCEPT ![padre + 1] = "abre"]
      /\ nombre' = nombre /\ cola' = cola /\ entra' = entra /\ sale' = sale /\ quedan' = quedan
      /\ bytes' = bytes /\ porLeer' = porLeer /\ entrada' = entrada /\ salida' = salida
  BY DEF Fork
<1>2. /\ padre \in Int /\ padre + 1 \in Hijos /\ padre \in 0 .. 3 /\ padre + 1 > padre
      /\ 1 \in Hijos /\ 2 \in Hijos /\ 3 \in Hijos
  BY <1>1 DEF Hijos
<1>3. fase[padre + 1] = "no_creado" /\ DOMAIN fase = Hijos
  <2>1. /\ \A p \in Hijos : padre \in 0 .. 3 /\ p > padre => fase[p] = "no_creado"
        /\ fase \in [Hijos -> FasesHijo]
    BY DEF TiposCadena, TiposHijos
  <2> QED BY <1>2, <2>1
<1>4. \A p \in Hijos : fase'[p] = fase[p] \/ (fase[p] = "no_creado" /\ fase'[p] = "abre")
  BY <1>1, <1>2, <1>3
<1>5. Etapa1(fase[1], sale[1], quedan[1], porLeer, entrada, i1) =>
        Etapa1(fase'[1], sale[1], quedan[1], porLeer, entrada, i1)
  <2>1. CASE fase'[1] = fase[1]
    BY <2>1
  <2>2. CASE fase[1] = "no_creado" /\ fase'[1] = "abre"
    BY <2>2 DEF Etapa1
  <2> QED BY <1>2, <1>4, <2>1, <2>2
<1>6. Etapa2(fase[2], entra[2], sale[2], quedan[2], bytes[2], entrada, i2, j2) =>
        Etapa2(fase'[2], entra[2], sale[2], quedan[2], bytes[2], entrada, i2, j2)
  <2>1. CASE fase'[2] = fase[2]
    BY <2>1
  <2>2. CASE fase[2] = "no_creado" /\ fase'[2] = "abre"
    BY <2>2 DEF Etapa2
  <2> QED BY <1>2, <1>4, <2>1, <2>2
<1>7. Etapa3(fase[3], entra[3], quedan[3], salida, entrada, i3) =>
        Etapa3(fase'[3], entra[3], quedan[3], salida, entrada, i3)
  <2>1. CASE fase'[3] = fase[3]
    BY <2>1
  <2>2. CASE fase[3] = "no_creado" /\ fase'[3] = "abre"
    BY <2>2 DEF Etapa3
  <2> QED BY <1>2, <1>4, <2>1, <2>2
<1>8. (fase'[2] = "fin" => fase[2] = "fin") /\ (fase'[3] = "fin" => fase[3] = "fin")
  BY <1>2, <1>4
<1> QED BY <1>1, <1>5, <1>6, <1>7, <1>8 DEF Avance

LEMMA AvanceFalla ==
    ASSUME TiposCadena, NEW i1 \in Nat, NEW i2 \in Nat, NEW j2 \in Nat, NEW i3 \in Nat,
           Avance(i1, i2, j2, i3), NEW p \in Hijos, Falla(p)
    PROVE  Avance(i1, i2, j2, i3)'
<1>1. /\ fase' = [fase EXCEPT ![p] = "error"]
      /\ nombre' = nombre \/ nombre' = [q \in Nombres |-> SIN_COLA]
      /\ cola' = cola /\ entra' = entra /\ sale' = sale /\ quedan' = quedan
      /\ bytes' = bytes /\ porLeer' = porLeer /\ entrada' = entrada /\ salida' = salida
  BY DEF Falla
<1>2. fase[p] \notin {"no_creado", "cierra", "fin", "error", "indefinido"}
  BY DEF Falla
<1>3. /\ 1 \in Hijos /\ 2 \in Hijos /\ 3 \in Hijos /\ DOMAIN fase = Hijos
      /\ 1 \in Nombres /\ 2 \in Nombres /\ SIN_COLA \notin Propias(1) /\ SIN_COLA \notin Propias(2)
  <2>1. 1 \in Hijos /\ 2 \in Hijos /\ 3 \in Hijos /\ 1 \in Nombres /\ 2 \in Nombres
    BY DEF Hijos, Nombres
  <2> QED BY <2>1, Contexto
<1>4. \A o \in Hijos : fase'[o] = fase[o] \/ fase'[o] = "error"
  BY <1>1, <1>3
<1>5. Etapa1(fase[1], sale[1], quedan[1], porLeer, entrada, i1) =>
        Etapa1(fase'[1], sale[1], quedan[1], porLeer, entrada, i1)
  <2>1. CASE fase'[1] = fase[1]
    BY <2>1
  <2>2. CASE fase'[1] = "error"
    BY <2>2 DEF Etapa1
  <2> QED BY <1>3, <1>4, <2>1, <2>2
<1>6. Etapa2(fase[2], entra[2], sale[2], quedan[2], bytes[2], entrada, i2, j2) =>
        Etapa2(fase'[2], entra[2], sale[2], quedan[2], bytes[2], entrada, i2, j2)
  <2>1. CASE fase'[2] = fase[2]
    BY <2>1
  <2>2. CASE fase'[2] = "error"
    BY <2>2 DEF Etapa2
  <2> QED BY <1>3, <1>4, <2>1, <2>2
<1>7. Etapa3(fase[3], entra[3], quedan[3], salida, entrada, i3) =>
        Etapa3(fase'[3], entra[3], quedan[3], salida, entrada, i3)
  <2>1. CASE fase'[3] = fase[3]
    BY <2>1
  <2>2. CASE fase'[3] = "error"
    BY <2>2 DEF Etapa3
  <2> QED BY <1>3, <1>4, <2>1, <2>2
<1>8. (fase'[2] = "fin" => fase[2] = "fin") /\ (fase'[3] = "fin" => fase[3] = "fin")
  BY <1>3, <1>4
<1>9. \A q \in Nombres : nombre'[q] = nombre[q] \/ nombre'[q] = SIN_COLA
  BY <1>1
<1>10. ASSUME Avance(i1, i2, j2, i3)
       PROVE  /\ Enlace(1, sale[1], entra[2], i1, i2, nombre'[1], cola, entrada)
              /\ Enlace(2, sale[2], entra[3], j2, i3, nombre'[2], cola, entrada)
  <2>1. /\ Enlace(1, sale[1], entra[2], i1, i2, nombre[1], cola, entrada)
        /\ Enlace(2, sale[2], entra[3], j2, i3, nombre[2], cola, entrada)
    BY <1>10 DEF Avance
  <2>2. Enlace(1, sale[1], entra[2], i1, i2, SIN_COLA, cola, entrada)
    BY <1>3, <2>1, EnlaceIgual
  <2>3. Enlace(2, sale[2], entra[3], j2, i3, SIN_COLA, cola, entrada)
    BY <1>3, <2>1, EnlaceIgual
  <2> QED BY <1>3, <1>9, <2>1, <2>2, <2>3
<1>11. /\ fase[2] = "fin" => nombre[1] = SIN_COLA
       /\ fase[3] = "fin" => nombre[2] = SIN_COLA
  BY DEF Avance
<1>12. (fase[2] = "fin" => nombre'[1] = SIN_COLA) /\ (fase[3] = "fin" => nombre'[2] = SIN_COLA)
  BY <1>3, <1>9, <1>11
<1> QED BY <1>1, <1>5, <1>6, <1>7, <1>8, <1>10, <1>12 DEF Avance

(* A program launched with no queues has sent nothing.                     *)
LEMMA AvanceCero ==
    ASSUME NEW e \in Entradas, NEW n, NEW y, NEW c
    PROVE  /\ Etapa1("no_creado", SIN_COLA, n, e, e, 0)
           /\ Etapa2("no_creado", SIN_COLA, SIN_COLA, n, y, e, 0, 0)
           /\ Etapa3("no_creado", SIN_COLA, n, <<>>, e, 0)
           /\ \A q \in Nombres : Enlace(q, SIN_COLA, SIN_COLA, 0, 0, SIN_COLA, c, e)
<1>1. BloquesDe(Len(e)) \in Nat \ {0}
  BY EntradaEs
<1> DEFINE B == BloquesDe(Len(e))
<1>2. 0 \in 0 .. B + 1
  <2> HIDE DEF B
  <2> QED BY <1>1 DEF B
<1>3. Etapa1("no_creado", SIN_COLA, n, e, e, 0)
  BY <1>2 DEF Etapa1
<1>4. Etapa2("no_creado", SIN_COLA, SIN_COLA, n, y, e, 0, 0)
  BY <1>2 DEF Etapa2
<1>5. Etapa3("no_creado", SIN_COLA, n, <<>>, e, 0)
  <2>1. Escrito(e, 0) = <<>>
    BY LoEscrito
  <2> QED BY <1>2, <2>1 DEF Etapa3
<1>6. \A q \in Nombres : Enlace(q, SIN_COLA, SIN_COLA, 0, 0, SIN_COLA, c, e)
  BY DEF Enlace
<1> QED BY <1>3, <1>4, <1>5, <1>6

-----------------------------------------------------------------------------
(* The invariant, and what it gives.                                       *)

LEMMA CadenaInicio ==
    ASSUME InitCadena PROVE InvCadena
<1>1. /\ Lanzado /\ nombre = [q \in Nombres |-> SIN_COLA] /\ cola = [c \in Colas |-> <<>>]
      /\ entrada \in Entradas /\ porLeer = entrada
      /\ limpio = TRUE /\ errores = 0 /\ lanzamientos = 1
  BY DEF InitCadena
<1>2. /\ padre = 0 /\ fase = [p \in Hijos |-> "no_creado"]
      /\ entra = [p \in Hijos |-> SIN_COLA] /\ sale = [p \in Hijos |-> SIN_COLA]
      /\ quedan = [p \in Hijos |-> 0] /\ bytes = [p \in Hijos |-> <<>>] /\ salida = <<>>
  BY <1>1 DEF Lanzado
<1>3. TiposColas
  <2>1. ASSUME NEW c \in Colas
        PROVE  /\ EsSecuencia(cola[c]) /\ Len(cola[c]) <= QUEUE_MAX_MSGS
               /\ \A k \in 1 .. Len(cola[c]) : EsMensaje(cola[c][k])
    <3>1. cola[c] = <<>>
      BY <1>1
    <3> QED BY <3>1, Vacia, CadenaAssumption
  <2> QED BY <1>1, <2>1 DEF TiposColas
<1>4. TiposHijos
  <2>1. sale = entra /\ DOMAIN bytes = Hijos
    BY <1>2
  <2>2. /\ fase \in [Hijos -> FasesHijo] /\ quedan \in [Hijos -> 0 .. TOPE]
        /\ entra \in [Hijos -> Colas \cup {SIN_COLA}]
        /\ \A p \in Hijos : TipoHijo(p, fase[p], entra[p], entra[p], quedan[p])
                            /\ fase[p] = "no_creado"
    BY <1>2, TiposLanzado
  <2>3. \A p \in Hijos : TipoHijo(p, fase[p], entra[p], sale[p], quedan[p])
    BY <2>1, <2>2
  <2> QED BY <2>1, <2>2, <2>3 DEF TiposHijos
<1>5. TiposResto
  <2>1. nombre \in [Nombres -> Colas \cup {SIN_COLA}] /\ padre \in 0 .. 3 \cup {FIN, ERROR}
    BY <1>1, <1>2
  <2>2. errores \in 0 .. MaxErrores /\ lanzamientos \in 1 .. MaxLanzamientos
    <3>1. MaxErrores \in Nat /\ MaxLanzamientos \in Nat \ {0}
      BY CadenaAssumption
    <3> QED BY <1>1, <3>1
  <2> QED BY <1>1, <2>1, <2>2 DEF TiposResto
<1>6. Avance(0, 0, 0, 0)
  <2>1. /\ fase[1] = "no_creado" /\ fase[2] = "no_creado" /\ fase[3] = "no_creado"
        /\ sale[1] = SIN_COLA /\ sale[2] = SIN_COLA /\ entra[2] = SIN_COLA /\ entra[3] = SIN_COLA
        /\ nombre[1] = SIN_COLA /\ nombre[2] = SIN_COLA /\ 1 \in Nombres /\ 2 \in Nombres
    BY <1>1, <1>2 DEF Hijos, Nombres
  <2>2. /\ Etapa1("no_creado", SIN_COLA, quedan[1], entrada, entrada, 0)
        /\ Etapa2("no_creado", SIN_COLA, SIN_COLA, quedan[2], bytes[2], entrada, 0, 0)
        /\ Etapa3("no_creado", SIN_COLA, quedan[3], <<>>, entrada, 0)
        /\ \A q \in Nombres : Enlace(q, SIN_COLA, SIN_COLA, 0, 0, SIN_COLA, cola, entrada)
    BY <1>1, AvanceCero
  <2> QED BY <1>1, <1>2, <2>1, <2>2 DEF Avance
<1>7. 0 \in 0 .. BloquesDe(Len(entrada)) + 1
  <2>1. BloquesDe(Len(entrada)) \in Nat \ {0}
    BY <1>1, EntradaEs
  <2> DEFINE B == BloquesDe(Len(entrada))
  <2> HIDE DEF B
  <2> QED BY <2>1 DEF B
<1> QED BY <1>3, <1>4, <1>5, <1>6, <1>7 DEF InvCadena, TiposCadena

LEMMA AvanceRelanzar ==
    ASSUME TiposCadena, Relanzar, limpio'
    PROVE  Avance(0, 0, 0, 0)' /\ 0 \in 0 .. BloquesDe(Len(entrada')) + 1
<1>1. /\ \A q \in Nombres : nombre[q] = SIN_COLA
      /\ nombre' = nombre /\ entrada' \in Entradas /\ porLeer' = entrada' /\ salida' = <<>>
      /\ fase' = [p \in Hijos |-> "no_creado"]
      /\ entra' = [p \in Hijos |-> SIN_COLA] /\ sale' = [p \in Hijos |-> SIN_COLA]
  BY DEF Relanzar
<1>2. /\ fase'[1] = "no_creado" /\ fase'[2] = "no_creado" /\ fase'[3] = "no_creado"
      /\ sale'[1] = SIN_COLA /\ sale'[2] = SIN_COLA /\ entra'[2] = SIN_COLA /\ entra'[3] = SIN_COLA
      /\ nombre'[1] = SIN_COLA /\ nombre'[2] = SIN_COLA /\ 1 \in Nombres /\ 2 \in Nombres
  BY <1>1 DEF Hijos, Nombres
<1>3. /\ Etapa1("no_creado", SIN_COLA, quedan'[1], entrada', entrada', 0)
      /\ Etapa2("no_creado", SIN_COLA, SIN_COLA, quedan'[2], bytes'[2], entrada', 0, 0)
      /\ Etapa3("no_creado", SIN_COLA, quedan'[3], <<>>, entrada', 0)
      /\ \A q \in Nombres : Enlace(q, SIN_COLA, SIN_COLA, 0, 0, SIN_COLA, cola', entrada')
  BY <1>1, AvanceCero
<1>4. Avance(0, 0, 0, 0)'
  BY <1>1, <1>2, <1>3 DEF Avance
<1>5. 0 \in 0 .. BloquesDe(Len(entrada')) + 1
  <2>1. BloquesDe(Len(entrada')) \in Nat \ {0}
    BY <1>1, EntradaEs
  <2> DEFINE B == BloquesDe(Len(entrada'))
  <2> HIDE DEF B
  <2> QED BY <2>1 DEF B
<1> QED BY <1>4, <1>5

LEMMA CadenaPaso ==
    ASSUME InvCadena, CabeEnLaCola, [NextCadena]_varsCadena
    PROVE  InvCadena'
<1> DEFINE R == 0 .. BloquesDe(Len(entrada)) + 1
           Meta == \E i1, i2, j2, i3 \in 0 .. BloquesDe(Len(entrada')) + 1 : Avance(i1, i2, j2, i3)'
<1>1. TiposCadena /\ TiposCadena'
  BY TiposPaso DEF InvCadena
<1>2. R \subseteq Nat
  <2>1. BloquesDe(Len(entrada)) \in Nat \ {0}
    BY <1>1, Contexto
  <2> DEFINE B == BloquesDe(Len(entrada))
  <2> HIDE DEF B
  <2> QED BY <2>1 DEF B
<1>3. ASSUME Relanzar, limpio' PROVE Meta
  BY <1>1, <1>3, AvanceRelanzar
<1>4. ASSUME ~Relanzar, limpio' PROVE Meta
  <2>1. limpio /\ entrada' = entrada
    <3>1. CASE Fork \/ ForkFalla \/ EsperarHijos \/ UNCHANGED varsCadena
      BY <1>4, <3>1 DEF Fork, ForkFalla, EsperarHijos, varsCadena
    <3>2. ASSUME NEW p \in Hijos, PasoHijo(p) PROVE limpio /\ entrada' = entrada
      BY <1>4, <3>2 DEF PasoHijo, AbrirEntrada, EnviarIter1, EnviarBloque1, AbrirCola1,
         AbrirCola2, RecibirIter, ReenviarIter, RecibirBloque2, EnviarBloque2, CerrarColas,
         AbrirSalida, RecibirBloque3
    <3>3. ASSUME NEW p \in Hijos, Falla(p) PROVE limpio /\ entrada' = entrada
      BY <1>4, <3>3 DEF Falla
    <3> QED BY <1>4, <3>1, <3>2, <3>3 DEF NextCadena
  <2>2. PICK i1 \in R, i2 \in R, j2 \in R, i3 \in R : Avance(i1, i2, j2, i3)
    BY <2>1 DEF InvCadena
  <2> SUFFICES \E a, b, c, d \in R : Avance(a, b, c, d)'
    BY <2>1
  <2>3. i1 \in Nat /\ i2 \in Nat /\ j2 \in Nat /\ i3 \in Nat
    BY <1>2
  <2> HIDE DEF R
  <2>4. CASE PasoHijo(1)
    <3>1. AbrirEntrada \/ EnviarIter1 \/ EnviarBloque1
      BY <2>4 DEF PasoHijo
    <3>2. \E n \in R : Avance(n, i2, j2, i3)'
      BY <1>1, <2>2, <2>3, <3>1, AvanceProceso1 DEF R
    <3> QED BY <3>2
  <2>5. CASE PasoHijo(2)
    <3>1. \E n, k \in R : Avance(i1, n, k, i3)'
      BY <1>1, <2>2, <2>3, <2>5, AvanceProceso2 DEF R
    <3> QED BY <3>1
  <2>6. CASE PasoHijo(3)
    <3>1. \E n \in R : Avance(i1, i2, j2, n)'
      BY <1>1, <2>2, <2>3, <2>6, AvanceProceso3 DEF R
    <3> QED BY <3>1
  <2>7. CASE Fork
    BY <1>1, <2>2, <2>3, <2>7, AvanceFork
  <2>8. CASE ForkFalla \/ EsperarHijos \/ UNCHANGED varsCadena
    <3>1. /\ fase' = fase /\ entra' = entra /\ sale' = sale /\ quedan' = quedan /\ bytes' = bytes
          /\ nombre' = nombre /\ cola' = cola /\ porLeer' = porLeer /\ entrada' = entrada
          /\ salida' = salida
      BY <2>8 DEF ForkFalla, EsperarHijos, varsCadena, hijos
    <3>2. Avance(i1, i2, j2, i3)'
      BY <2>2, <3>1 DEF Avance
    <3> QED BY <3>2
  <2>9. ASSUME NEW p \in Hijos, Falla(p) PROVE \E a, b, c, d \in R : Avance(a, b, c, d)'
    <3>1. Avance(i1, i2, j2, i3)'
      BY <1>1, <2>2, <2>3, <2>9, AvanceFalla
    <3> QED BY <3>1
  <2>10. \A p \in Hijos : p = 1 \/ p = 2 \/ p = 3
    BY DEF Hijos
  <2> QED BY <1>4, <2>4, <2>5, <2>6, <2>7, <2>8, <2>9, <2>10 DEF NextCadena
<1>5. limpio' => Meta
  BY <1>3, <1>4
<1> QED BY <1>1, <1>5 DEF InvCadena

LEMMA CadenaDa ==
    ASSUME InvCadena PROVE TypeOKCadena /\ SalidaCorrecta /\ ColasBorradas
<1>1. TiposCadena
  BY DEF InvCadena
<1>2. TypeOKCadena
  <2>1. /\ nombre \in [Nombres -> Colas \cup {SIN_COLA}]
        /\ padre \in 0 .. 3 \cup {FIN, ERROR}
        /\ errores \in 0 .. MaxErrores /\ lanzamientos \in 1 .. MaxLanzamientos
    BY <1>1 DEF TiposCadena, TiposResto
  <2>2. \A c \in Colas : Len(cola[c]) <= QUEUE_MAX_MSGS
    BY <1>1 DEF TiposCadena, TiposColas
  <2>3. /\ entra \in [Hijos -> Colas \cup {SIN_COLA}] /\ sale \in [Hijos -> Colas \cup {SIN_COLA}]
        /\ quedan \in [Hijos -> 0 .. TOPE]
        /\ \A p \in Hijos : TipoHijo(p, fase[p], entra[p], sale[p], quedan[p])
    BY <1>1 DEF TiposCadena, TiposHijos
  <2>4. quedan \in [Hijos -> Nat]
    <3>1. \A x \in 0 .. TOPE : x \in Nat
      BY TopeEntero
    <3> QED BY <2>3, <3>1
  <2>5. ASSUME NEW p \in Hijos
        PROVE  /\ fase[p] \in {"bloque", "reenvia", "envia"} => sale[p] # SIN_COLA
               /\ fase[p] \in {"recibe", "envia"} => entra[p] # SIN_COLA /\ quedan[p] > 0
    <3>1. p = 1 \/ p = 2 \/ p = 3
      BY DEF Hijos
    <3> QED BY <2>3, <3>1 DEF TipoHijo, ConSalida
  <2> QED BY <2>1, <2>2, <2>3, <2>4, <2>5 DEF TypeOKCadena
<1>3. ASSUME limpio
      PROVE  /\ IsPrefix(salida, EnMinusculas(entrada))
             /\ Acabado => salida = EnMinusculas(entrada) /\ \A q \in Nombres : nombre[q] = SIN_COLA
  <2> DEFINE B == BloquesDe(Len(entrada))
  <2>1. entrada \in Entradas /\ B \in Nat \ {0}
    BY <1>1, Contexto
  <2>2. PICK i1 \in 0 .. B + 1, i2 \in 0 .. B + 1, j2 \in 0 .. B + 1, i3 \in 0 .. B + 1 :
           Avance(i1, i2, j2, i3)
    BY <1>3 DEF InvCadena
  <2>3. /\ salida = Escrito(entrada, IF i3 = 0 THEN 0 ELSE i3 - 1)
        /\ fase[3] = "fin" => i3 = B + 1
        /\ fase[2] = "fin" => nombre[1] = SIN_COLA
        /\ fase[3] = "fin" => nombre[2] = SIN_COLA
    BY <2>2 DEF Avance, Etapa3
  <2>4. /\ \A b \in Nat : IsPrefix(Escrito(entrada, b), EnMinusculas(entrada))
        /\ Escrito(entrada, B) = EnMinusculas(entrada)
    BY <2>1, LoEscrito
  <2> HIDE DEF B
  <2>5. (IF i3 = 0 THEN 0 ELSE i3 - 1) \in Nat
    BY <2>1
  <2>6. IsPrefix(salida, EnMinusculas(entrada))
    BY <2>3, <2>4, <2>5
  <2>7. ASSUME Acabado
        PROVE  salida = EnMinusculas(entrada) /\ \A q \in Nombres : nombre[q] = SIN_COLA
    <3>1. fase[2] = "fin" /\ fase[3] = "fin"
      BY <2>7 DEF Acabado, Hijos
    <3>2. i3 = B + 1
      BY <2>3, <3>1
    <3>3. (IF i3 = 0 THEN 0 ELSE i3 - 1) = B
      BY <2>1, <3>2
    <3>4. salida = EnMinusculas(entrada)
      BY <2>3, <2>4, <3>3
    <3> QED BY <2>3, <3>1, <3>4 DEF Nombres
  <2> QED BY <2>6, <2>7
<1> QED BY <1>2, <1>3 DEF SalidaCorrecta, ColasBorradas

(* The invariant of the assembly line: what each queue holds and how far   *)
(* each child has gone, for every file of TOPE blocks at most and every    *)
(* size of block and of queue.                                             *)
THEOREM CadenaInvariante ==
    ASSUME CabeEnLaCola PROVE SpecCadena => []InvCadena
<1>1. InitCadena => InvCadena
  BY CadenaInicio
<1>2. InvCadena /\ [NextCadena]_varsCadena => InvCadena'
  BY CadenaPaso
<1> QED BY <1>1, <1>2, PTL DEF SpecCadena

(* Types of the assembly line: no queue is ever over its size, and no      *)
(* child uses one it has not opened, whatever fails.                       *)
THEOREM TiposDeLaCadena ==
    ASSUME CabeEnLaCola PROVE SpecCadena => []TypeOKCadena
<1>1. InvCadena => TypeOKCadena
  BY CadenaDa
<1> QED BY <1>1, CadenaInvariante, PTL

(* The output is at every moment the beginning of the input in lower case, *)
(* and all of it when the three children end well, for files of TOPE       *)
(* blocks at most and whatever else fails.                                 *)
THEOREM SalidaSiempreCorrecta ==
    ASSUME CabeEnLaCola PROVE SpecCadena => []SalidaCorrecta
<1>1. InvCadena => SalidaCorrecta
  BY CadenaDa
<1> QED BY <1>1, CadenaInvariante, PTL

(* A program that found no queues and whose children end well leaves none  *)
(* (mq_unlink at lines 276 and 344).                                       *)
THEOREM ColasSiempreBorradas ==
    ASSUME CabeEnLaCola PROVE SpecCadena => []ColasBorradas
<1>1. InvCadena => ColasBorradas
  BY CadenaDa
<1> QED BY <1>1, CadenaInvariante, PTL

-----------------------------------------------------------------------------
(***************************************************************************)
(* The wait of one child for another.  While no call fails the two ends of *)
(* a queue are the same queue, and the one that has its name until who     *)
(* receives from it ends; and the children created are there.              *)
(***************************************************************************)
Unida(s, r, f, nom) ==
    /\ s # SIN_COLA /\ r # SIN_COLA => s = r
    /\ f # "fin" => (s # SIN_COLA => nom = s) /\ (r # SIN_COLA => nom = r)
Unidas ==
    /\ padre # ERROR
    /\ \A p \in Hijos : fase[p] # "error" /\ (padre \in 0 .. 3 /\ p <= padre => fase[p] # "no_creado")
    /\ Unida(sale[1], entra[2], fase[2], nombre[1])
    /\ Unida(sale[2], entra[3], fase[3], nombre[2])
InvUnidas == limpio /\ errores = 0 => Unidas

(* Whoever opens the queue later opens the one that has the name.          *)
LEMMA UneEmisor ==
    ASSUME NEW r, NEW f, NEW nom, Unida(SIN_COLA, r, f, nom), f # "fin", NEW x,
           NEW c, c = IF nom # SIN_COLA THEN nom ELSE x
    PROVE  Unida(c, r, f, c)
BY DEF Unida

LEMMA UneReceptor ==
    ASSUME NEW s, NEW f, NEW nom, Unida(s, SIN_COLA, f, nom), f # "fin", NEW x,
           NEW c, c = IF nom # SIN_COLA THEN nom ELSE x, NEW g
    PROVE  Unida(s, c, g, c)
BY DEF Unida

(* A step of a child that neither opens nor removes.                       *)
LEMMA UnidasAlPasar ==
    ASSUME Unidas, DOMAIN fase = Hijos, NEW p \in Hijos, NEW x,
           x \notin {"error", "no_creado"}, p # 1 => x # "fin", fase[p] # "fin",
           fase' = [fase EXCEPT ![p] = x],
           padre' = padre, nombre' = nombre, sale' = sale, entra' = entra
    PROVE  Unidas'
<1>1. \A r \in Hijos : fase'[r] = IF r = p THEN x ELSE fase[r]
  OBVIOUS
<1>2. 2 \in Hijos /\ 3 \in Hijos
  BY DEF Hijos
<1>3. \A r \in Hijos : fase'[r] # "error" /\ (padre \in 0 .. 3 /\ r <= padre => fase'[r] # "no_creado")
  BY <1>1 DEF Unidas
<1>4. \A r \in {2, 3} : fase'[r] # "fin" => fase[r] # "fin"
  BY <1>1, <1>2
<1>5. Unida(sale[1], entra[2], fase'[2], nombre[1]) /\ Unida(sale[2], entra[3], fase'[3], nombre[2])
  BY <1>4 DEF Unidas, Unida
<1> QED BY <1>3, <1>5 DEF Unidas, Unida

LEMMA UnidasPadre ==
    ASSUME TiposCadena, Unidas, Fork \/ EsperarHijos
    PROVE  Unidas'
<1>1. DOMAIN fase = Hijos /\ nombre' = nombre /\ sale' = sale /\ entra' = entra
  BY Contexto DEF Fork, EsperarHijos, hijos
<1>2. CASE Fork
  <2>1. padre \in 0 .. 2 /\ padre' = padre + 1 /\ fase' = [fase EXCEPT ![padre + 1] = "abre"]
    BY <1>2 DEF Fork
  <2>2. padre + 1 \in Hijos /\ padre' \in 0 .. 3 /\ padre' # ERROR
    BY <2>1 DEF Hijos, ERROR
  <2>3. \A r \in Hijos : fase'[r] = IF r = padre + 1 THEN "abre" ELSE fase[r]
    BY <1>1, <2>1
  <2>4. fase[padre + 1] = "no_creado"
    <3>1. padre + 1 > padre /\ padre \in 0 .. 3
      BY <2>1
    <3> QED BY <2>2, <3>1 DEF TiposCadena, TiposHijos
  <2>5. 2 \in Hijos /\ 3 \in Hijos
    BY DEF Hijos
  <2>6. \A r \in {2, 3} : fase'[r] # "fin" => fase[r] # "fin"
    BY <2>3, <2>4, <2>5
  <2>7. ASSUME NEW r \in Hijos, r <= padre' PROVE r <= padre \/ r = padre + 1
    BY <2>1, <2>7 DEF Hijos
  <2>8. \A r \in Hijos : fase'[r] # "error" /\ (padre' \in 0 .. 3 /\ r <= padre' => fase'[r] # "no_creado")
    <3>1. padre \in 0 .. 3
      BY <2>1
    <3> QED BY <2>3, <2>7, <3>1 DEF Unidas
  <2>9. Unida(sale[1], entra[2], fase'[2], nombre[1]) /\ Unida(sale[2], entra[3], fase'[3], nombre[2])
    BY <2>6 DEF Unidas, Unida
  <2> QED BY <1>1, <2>2, <2>8, <2>9 DEF Unidas, Unida
<1>3. CASE EsperarHijos
  <2>1. padre' = FIN /\ fase' = fase
    BY <1>3 DEF EsperarHijos, hijos
  <2>2. padre' # ERROR /\ padre' \notin 0 .. 3
    BY <2>1 DEF FIN, ERROR
  <2> QED BY <1>1, <2>1, <2>2 DEF Unidas, Unida
<1> QED BY <1>2, <1>3

LEMMA UnidasProceso1 ==
    ASSUME TiposCadena, Unidas, NEW i1, NEW i2, NEW j2, NEW i3, Avance(i1, i2, j2, i3),
           AbrirEntrada \/ EnviarIter1 \/ EnviarBloque1
    PROVE  Unidas'
<1>1. DOMAIN fase = Hijos /\ DOMAIN sale = Hijos /\ DOMAIN nombre = Nombres /\ 1 \in Hijos /\ 1 \in Nombres
      /\ 2 \in Hijos /\ 3 \in Hijos /\ 2 \in Nombres
  BY Contexto DEF Hijos, Nombres
<1>2. BloquesDe(Len(entrada)) \in Nat \ {0}
  BY Contexto
<1>3. CASE AbrirEntrada
  <2> DEFINE c == Abierta(1, 1)
  <2>1. /\ fase[1] = "abre" /\ fase' = [fase EXCEPT ![1] = "cabecera"] /\ padre' = padre /\ entra' = entra
        /\ nombre' = [nombre EXCEPT ![1] = c] /\ sale' = [sale EXCEPT ![1] = c]
    BY <1>3 DEF AbrirEntrada, Pasa, Abrir, Abierta
  <2>2. i1 = 0 /\ sale[1] = SIN_COLA /\ i2 <= i1
    BY <2>1 DEF Avance, Etapa1, Enlace
  <2>3. fase[2] # "fin"
    <3>1. fase[2] = "fin" => i2 = BloquesDe(Len(entrada)) + 1
      BY DEF Avance, Etapa2
    <3> QED BY <1>2, <2>2, <3>1
  <2>4. c = IF nombre[1] # SIN_COLA THEN nombre[1] ELSE <<1, 1>>
    BY DEF Abierta
  <2> HIDE DEF c
  <2>5. Unida(c, entra[2], fase[2], c)
    BY <2>2, <2>3, <2>4, UneEmisor DEF Unidas
  <2>6. /\ fase'[1] = "cabecera" /\ fase'[2] = fase[2] /\ fase'[3] = fase[3]
        /\ nombre'[1] = c /\ nombre'[2] = nombre[2] /\ sale'[1] = c /\ sale'[2] = sale[2]
    BY <1>1, <2>1
  <2>7. \A r \in Hijos : fase'[r] # "error" /\ (padre \in 0 .. 3 /\ r <= padre => fase'[r] # "no_creado")
    BY <1>1, <2>1 DEF Unidas
  <2>8. /\ Unida(sale'[1], entra'[2], fase'[2], nombre'[1]) /\ Unida(sale'[2], entra'[3], fase'[3], nombre'[2])
        /\ padre' # ERROR
    BY <2>1, <2>5, <2>6 DEF Unidas
  <2> QED BY <2>1, <2>7, <2>8 DEF Unidas, Unida
<1>4. CASE EnviarIter1 \/ EnviarBloque1
  <2>1. PICK x \in {"bloque", "fin"} : fase' = [fase EXCEPT ![1] = x]
    BY <1>4 DEF EnviarIter1, EnviarBloque1, Itera, Pasa
  <2>2. /\ fase[1] # "fin" /\ padre' = padre /\ nombre' = nombre /\ sale' = sale /\ entra' = entra
    BY <1>4 DEF EnviarIter1, EnviarBloque1, Itera, Pasa
  <2> QED BY <1>1, <2>1, <2>2, UnidasAlPasar
<1> QED BY <1>3, <1>4

LEMMA UnidasAbrir ==
    ASSUME Unidas, DOMAIN fase = Hijos, NEW p \in {2, 3}, NEW x,
           x \notin {"error", "no_creado", "fin"},
           fase[p] # "fin", fase' = [fase EXCEPT ![p] = x], padre' = padre,
           Unida(sale'[1], entra'[2], fase[2], nombre'[1]),
           Unida(sale'[2], entra'[3], fase[3], nombre'[2])
    PROVE  Unidas'
<1>1. p \in Hijos /\ 2 \in Hijos /\ 3 \in Hijos
  BY DEF Hijos
<1>2. \A r \in Hijos : fase'[r] = IF r = p THEN x ELSE fase[r]
  BY <1>1
<1>3. \A r \in Hijos : fase'[r] # "error" /\ (padre \in 0 .. 3 /\ r <= padre => fase'[r] # "no_creado")
  BY <1>2 DEF Unidas
<1>4. \A r \in {2, 3} : fase'[r] # "fin" => fase[r] # "fin"
  BY <1>1, <1>2
<1>5. Unida(sale'[1], entra'[2], fase'[2], nombre'[1]) /\ Unida(sale'[2], entra'[3], fase'[3], nombre'[2])
  BY <1>4 DEF Unida
<1> QED BY <1>3, <1>5 DEF Unidas, Unida

(* The last child to use a queue removes its name.                         *)
LEMMA UnidasCerrar ==
    ASSUME TiposCadena, Unidas, NEW p \in {2, 3}, CerrarColas(p)
    PROVE  Unidas'
<1>1. DOMAIN fase = Hijos /\ DOMAIN nombre = Nombres /\ p - 1 \in Nombres /\ p \in Hijos
      /\ 2 \in Hijos /\ 3 \in Hijos /\ 1 \in Nombres /\ 2 \in Nombres
  BY Contexto DEF Hijos, Nombres
<1>2. /\ fase' = [fase EXCEPT ![p] = "fin"] /\ nombre' = [nombre EXCEPT ![p - 1] = SIN_COLA]
      /\ padre' = padre /\ sale' = sale /\ entra' = entra
  BY DEF CerrarColas, Pasa, Borrar
<1>3. \A r \in Hijos : fase'[r] = IF r = p THEN "fin" ELSE fase[r]
  BY <1>1, <1>2
<1>4. \A r \in Hijos : fase'[r] # "error" /\ (padre \in 0 .. 3 /\ r <= padre => fase'[r] # "no_creado")
  BY <1>3 DEF Unidas
<1>5. CASE p = 2
  <2>1. fase'[2] = "fin" /\ fase'[3] = fase[3] /\ nombre'[2] = nombre[2]
    BY <1>1, <1>2, <1>3, <1>5
  <2>2. Unida(sale[1], entra[2], fase'[2], nombre'[1]) /\ Unida(sale[2], entra[3], fase'[3], nombre'[2])
    BY <2>1 DEF Unidas, Unida
  <2> QED BY <1>2, <1>4, <2>2 DEF Unidas, Unida
<1>6. CASE p = 3
  <2>1. fase'[3] = "fin" /\ fase'[2] = fase[2] /\ nombre'[1] = nombre[1]
    BY <1>1, <1>2, <1>3, <1>6
  <2>2. Unida(sale[1], entra[2], fase'[2], nombre'[1]) /\ Unida(sale[2], entra[3], fase'[3], nombre'[2])
    BY <2>1 DEF Unidas, Unida
  <2> QED BY <1>2, <1>4, <2>2 DEF Unidas, Unida
<1> QED BY <1>5, <1>6

LEMMA UnidasProceso2 ==
    ASSUME TiposCadena, Unidas, NEW i1, NEW i2, NEW j2, NEW i3, Avance(i1, i2, j2, i3), PasoHijo(2)
    PROVE  Unidas'
<1>1. DOMAIN fase = Hijos /\ DOMAIN sale = Hijos /\ DOMAIN entra = Hijos /\ DOMAIN nombre = Nombres
      /\ 1 \in Hijos /\ 2 \in Hijos /\ 3 \in Hijos /\ 1 \in Nombres /\ 2 \in Nombres
  BY Contexto DEF Hijos, Nombres
<1>2. BloquesDe(Len(entrada)) \in Nat \ {0}
  BY Contexto
<1>3. CASE AbrirCola1
  <2> DEFINE c == Abierta(2, 1)
  <2>1. /\ fase[2] = "abre" /\ fase' = [fase EXCEPT ![2] = "abre_otra"] /\ padre' = padre /\ sale' = sale
        /\ nombre' = [nombre EXCEPT ![1] = c] /\ entra' = [entra EXCEPT ![2] = c]
    BY <1>3 DEF AbrirCola1, Pasa, Abrir, Abierta
  <2>2. entra[2] = SIN_COLA
    BY <2>1 DEF Avance, Etapa2
  <2>3. c = IF nombre[1] # SIN_COLA THEN nombre[1] ELSE <<1, 2>>
    BY DEF Abierta
  <2> HIDE DEF c
  <2>4. Unida(sale[1], c, fase[2], c)
    BY <2>1, <2>2, <2>3, UneReceptor DEF Unidas
  <2>5. /\ nombre'[1] = c /\ nombre'[2] = nombre[2] /\ entra'[2] = c /\ entra'[3] = entra[3]
    BY <1>1, <2>1
  <2>6. /\ Unida(sale'[1], entra'[2], fase[2], nombre'[1]) /\ Unida(sale'[2], entra'[3], fase[3], nombre'[2])
    BY <2>1, <2>4, <2>5 DEF Unidas
  <2>7. 2 \in {2, 3} /\ "abre_otra" \notin {"error", "no_creado", "fin"} /\ fase[2] # "fin"
    BY <2>1
  <2> QED BY <1>1, <2>1, <2>6, <2>7, UnidasAbrir
<1>4. CASE AbrirCola2
  <2> DEFINE c == Abierta(2, 2)
  <2>1. /\ fase[2] = "abre_otra" /\ fase' = [fase EXCEPT ![2] = "cabecera"] /\ padre' = padre
        /\ entra' = entra /\ nombre' = [nombre EXCEPT ![2] = c] /\ sale' = [sale EXCEPT ![2] = c]
    BY <1>4 DEF AbrirCola2, Pasa, Abrir, Abierta
  <2>2. j2 = 0 /\ sale[2] = SIN_COLA /\ i3 <= j2
    BY <2>1 DEF Avance, Etapa2, Enlace
  <2>3. fase[3] # "fin"
    <3>1. fase[3] = "fin" => i3 = BloquesDe(Len(entrada)) + 1
      BY DEF Avance, Etapa3
    <3> QED BY <1>2, <2>2, <3>1
  <2>4. c = IF nombre[2] # SIN_COLA THEN nombre[2] ELSE <<2, 2>>
    BY DEF Abierta
  <2> HIDE DEF c
  <2>5. Unida(c, entra[3], fase[3], c)
    BY <2>2, <2>3, <2>4, UneEmisor DEF Unidas
  <2>6. /\ nombre'[1] = nombre[1] /\ nombre'[2] = c /\ sale'[1] = sale[1] /\ sale'[2] = c
    BY <1>1, <2>1
  <2>7. /\ Unida(sale'[1], entra'[2], fase[2], nombre'[1]) /\ Unida(sale'[2], entra'[3], fase[3], nombre'[2])
    BY <2>1, <2>5, <2>6 DEF Unidas
  <2>8. 2 \in {2, 3} /\ "cabecera" \notin {"error", "no_creado", "fin"} /\ fase[2] # "fin"
    BY <2>1
  <2> QED BY <1>1, <2>1, <2>7, <2>8, UnidasAbrir
<1>5. CASE RecibirIter(2, "reenvia") \/ ReenviarIter \/ RecibirBloque2 \/ EnviarBloque2
  <2>1. PICK x \in {"reenvia", "indefinido", "recibe", "envia", "cierra"} : fase' = [fase EXCEPT ![2] = x]
    BY <1>5 DEF RecibirIter, ReenviarIter, RecibirBloque2, EnviarBloque2, Itera, Pasa
  <2>2. /\ fase[2] # "fin" /\ padre' = padre /\ nombre' = nombre /\ sale' = sale /\ entra' = entra
    BY <1>5 DEF RecibirIter, ReenviarIter, RecibirBloque2, EnviarBloque2, Itera, Pasa
  <2> QED BY <1>1, <2>1, <2>2, UnidasAlPasar
<1> QED BY <1>3, <1>4, <1>5, UnidasCerrar DEF PasoHijo

LEMMA UnidasProceso3 ==
    ASSUME TiposCadena, Unidas, NEW i1, NEW i2, NEW j2, NEW i3, Avance(i1, i2, j2, i3), PasoHijo(3)
    PROVE  Unidas'
<1>1. DOMAIN fase = Hijos /\ DOMAIN entra = Hijos /\ DOMAIN nombre = Nombres
      /\ 1 \in Hijos /\ 2 \in Hijos /\ 3 \in Hijos /\ 1 \in Nombres /\ 2 \in Nombres
  BY Contexto DEF Hijos, Nombres
<1>2. CASE AbrirSalida
  <2> DEFINE c == Abierta(3, 2)
  <2>1. /\ fase[3] = "abre" /\ fase' = [fase EXCEPT ![3] = "cabecera"] /\ padre' = padre /\ sale' = sale
        /\ nombre' = [nombre EXCEPT ![2] = c] /\ entra' = [entra EXCEPT ![3] = c]
    BY <1>2 DEF AbrirSalida, Pasa, Abrir, Abierta
  <2>2. entra[3] = SIN_COLA
    BY <2>1 DEF Avance, Etapa3
  <2>3. c = IF nombre[2] # SIN_COLA THEN nombre[2] ELSE <<2, 3>>
    BY DEF Abierta
  <2> HIDE DEF c
  <2>4. Unida(sale[2], c, fase[3], c)
    BY <2>1, <2>2, <2>3, UneReceptor DEF Unidas
  <2>5. /\ nombre'[1] = nombre[1] /\ nombre'[2] = c /\ entra'[2] = entra[2] /\ entra'[3] = c
    BY <1>1, <2>1
  <2>6. /\ Unida(sale'[1], entra'[2], fase[2], nombre'[1]) /\ Unida(sale'[2], entra'[3], fase[3], nombre'[2])
    BY <2>1, <2>4, <2>5 DEF Unidas
  <2>7. 3 \in {2, 3} /\ "cabecera" \notin {"error", "no_creado", "fin"} /\ fase[3] # "fin"
    BY <2>1
  <2> QED BY <1>1, <2>1, <2>6, <2>7, UnidasAbrir
<1>3. CASE RecibirIter(3, "recibe") \/ RecibirBloque3
  <2>1. PICK x \in {"recibe", "indefinido", "cierra"} : fase' = [fase EXCEPT ![3] = x]
    BY <1>3 DEF RecibirIter, RecibirBloque3, Itera, Pasa
  <2>2. /\ fase[3] # "fin" /\ padre' = padre /\ nombre' = nombre /\ sale' = sale /\ entra' = entra
    BY <1>3 DEF RecibirIter, RecibirBloque3, Itera, Pasa
  <2> QED BY <1>1, <2>1, <2>2, UnidasAlPasar
<1> QED BY <1>2, <1>3, UnidasCerrar DEF PasoHijo

LEMMA UnidasAlLanzar == Lanzado => Unidas
<1> SUFFICES ASSUME Lanzado PROVE Unidas
  OBVIOUS
<1>1. padre = 0 /\ padre # ERROR /\ 2 \in Hijos /\ 3 \in Hijos /\ 1 \in Hijos
  BY DEF ERROR, Hijos, Lanzado
<1>2. \A p \in Hijos : fase[p] # "error" /\ ~(p <= padre)
  BY <1>1 DEF Hijos, Lanzado
<1>3. sale[1] = SIN_COLA /\ sale[2] = SIN_COLA /\ entra[2] = SIN_COLA /\ entra[3] = SIN_COLA
  BY <1>1 DEF Lanzado
<1> QED BY <1>1, <1>2, <1>3 DEF Unidas, Unida

LEMMA UnidasAlRelanzar == Lanzado' => Unidas'
BY UnidasAlLanzar, PTL

LEMMA UnidasPaso ==
    ASSUME InvCadena, InvUnidas, [NextCadena]_varsCadena
    PROVE  InvUnidas'
<1> SUFFICES ASSUME limpio', errores' = 0 PROVE Unidas'
  BY DEF InvUnidas
<1>1. TiposCadena /\ errores \in Nat
  BY CadenaAssumption DEF InvCadena, TiposCadena, TiposResto
<1>2. CASE Relanzar
  BY <1>2, UnidasAlRelanzar DEF Relanzar, Lanzado
<1>3. CASE ForkFalla \/ \E p \in Hijos : Falla(p)
  <2>1. errores' = errores + 1
    BY <1>3 DEF ForkFalla, Falla
  <2> QED BY <1>1, <2>1
<1>4. CASE Fork \/ EsperarHijos
  <2>1. limpio' = limpio /\ errores' = errores
    BY <1>4 DEF Fork, EsperarHijos
  <2>2. Unidas
    BY <2>1 DEF InvUnidas
  <2> QED BY <1>1, <1>4, <2>2, UnidasPadre
<1>5. ASSUME NEW p \in Hijos, PasoHijo(p) PROVE Unidas'
  <2>1. limpio' = limpio /\ errores' = errores
    BY <1>5 DEF PasoHijo, AbrirEntrada, EnviarIter1, EnviarBloque1, AbrirCola1, AbrirCola2, RecibirIter,
                ReenviarIter, RecibirBloque2, EnviarBloque2, CerrarColas, AbrirSalida, RecibirBloque3
  <2>2. Unidas /\ limpio
    BY <2>1 DEF InvUnidas
  <2>3. PICK i1, i2, j2, i3 \in 0 .. BloquesDe(Len(entrada)) + 1 : Avance(i1, i2, j2, i3)
    BY <2>2 DEF InvCadena
  <2>4. CASE p = 1
    <3>1. AbrirEntrada \/ EnviarIter1 \/ EnviarBloque1
      BY <1>5, <2>4 DEF PasoHijo
    <3> QED BY <1>1, <2>2, <2>3, <3>1, UnidasProceso1
  <2>5. CASE p = 2
    BY <1>1, <1>5, <2>2, <2>3, <2>5, UnidasProceso2
  <2>6. CASE p = 3
    BY <1>1, <1>5, <2>2, <2>3, <2>6, UnidasProceso3
  <2> QED BY <2>4, <2>5, <2>6 DEF Hijos
<1>6. CASE UNCHANGED varsCadena
  <2>1. Unidas
    BY <1>6 DEF InvUnidas, varsCadena
  <2> QED BY <1>6, <2>1 DEF Unidas, Unida, varsCadena, hijos
<1> QED BY <1>2, <1>3, <1>4, <1>5, <1>6 DEF NextCadena

(* An empty queue has room, and one with both ends in step is empty.       *)
LEMMA EnlaceVacio ==
    ASSUME NEW q, NEW s, NEW r, NEW i \in Nat, NEW j \in Nat, NEW nom, NEW c, NEW e,
           Enlace(q, s, r, i, j, nom, c, e), s # SIN_COLA
    PROVE  /\ i = j => c[s] = <<>> /\ Len(c[s]) < QUEUE_MAX_MSGS
           /\ c[s] = <<>> => i = j
<1>1. c[s] = Tramo(q, e, j, i) /\ j \in 0 .. i
  BY DEF Enlace
<1>2. Len(c[s]) = i - j
  BY <1>1, TramoEs
<1>3. Len(<<>>) = 0 /\ QUEUE_MAX_MSGS \in Nat \ {0}
  BY CadenaAssumption
<1>4. c[s] = <<>> => i = j
  <2> SUFFICES ASSUME c[s] = <<>> PROVE i = j
    OBVIOUS
  <2>1. i - j = 0
    BY <1>2, <1>3
  <2> QED BY <2>1
<1>5. i = j => c[s] = <<>>
  <2> SUFFICES ASSUME i = j PROVE c[s] = <<>>
    OBVIOUS
  <2>1. EsSecuencia(c[s]) /\ Len(c[s]) = 0
    BY <1>1, <1>2, TramoEs
  <2> QED BY <2>1, Vacia, IgualesPorPartes
<1> QED BY <1>3, <1>4, <1>5

(* What the second child waits for, the first can send.                    *)
LEMMA SigueElPrimero ==
    ASSUME TiposCadena, Unidas, padre = 3,
           NEW i1 \in Nat, NEW i2 \in Nat, NEW j2 \in Nat, NEW i3 \in Nat, Avance(i1, i2, j2, i3),
           fase[2] \in {"cabecera", "recibe"}
    PROVE  PuedeSeguir(1) \/ PuedeSeguir(2)
<1> DEFINE B == BloquesDe(Len(entrada))
<1>1. B \in Nat \ {0} /\ 1 \in Hijos /\ 2 \in Hijos
  BY Contexto DEF Hijos
<1> HIDE DEF B
<1>2. fase[1] \in {"abre", "cabecera", "bloque", "fin"}
  <2>1. fase[1] # "no_creado" /\ fase[1] # "error"
    BY <1>1 DEF Unidas
  <2> QED BY <2>1 DEF Avance, Etapa1
<1>3. i2 \in 0 .. B
  BY <1>1 DEF Avance, Etapa2, B
<1>4. Enlace(1, sale[1], entra[2], i1, i2, nombre[1], cola, entrada)
  BY DEF Avance
<1>5. fase[1] \in {"cabecera", "bloque", "fin"} => sale[1] # SIN_COLA
  <2>1. fase[1] \in {"cabecera", "bloque"} => sale[1] # SIN_COLA
    BY <1>1 DEF TiposCadena, TiposHijos, TipoHijo, ConSalida
  <2>2. fase[1] = "fin" => i1 = B + 1
    BY DEF Avance, Etapa1, B
  <2>3. fase[1] = "fin" => sale[1] # SIN_COLA
    BY <1>1, <1>4, <2>2 DEF Enlace
  <2> QED BY <2>1, <2>3
<1>6. entra[2] # SIN_COLA
  BY <1>1 DEF TiposCadena, TiposHijos, TipoHijo, ConSalida
<1>7. CASE fase[1] = "abre"
  BY <1>7 DEF PuedeSeguir
<1>8. CASE fase[1] \in {"cabecera", "bloque", "fin"}
  <2>1. sale[1] # SIN_COLA /\ entra[2] = sale[1]
    BY <1>5, <1>6, <1>8 DEF Unidas, Unida
  <2>2. CASE cola[entra[2]] # <<>>
    BY <2>2 DEF PuedeSeguir
  <2>3. CASE cola[entra[2]] = <<>>
    <3>1. i1 = i2 /\ Len(cola[sale[1]]) < QUEUE_MAX_MSGS
      BY <1>4, <2>1, <2>3, EnlaceVacio
    <3>2. fase[1] # "fin"
      <4>1. fase[1] = "fin" => i1 = B + 1
        BY DEF Avance, Etapa1, B
      <4> QED BY <1>1, <1>3, <3>1, <4>1
    <3> QED BY <1>8, <3>1, <3>2 DEF PuedeSeguir
  <2> QED BY <2>2, <2>3
<1> QED BY <1>2, <1>7, <1>8

(* What the third waits for, the second can send or is waiting for itself. *)
LEMMA SigueElSegundo ==
    ASSUME TiposCadena, Unidas, padre = 3,
           NEW i1 \in Nat, NEW i2 \in Nat, NEW j2 \in Nat, NEW i3 \in Nat, Avance(i1, i2, j2, i3),
           fase[3] \in {"cabecera", "recibe"}
    PROVE  \E p \in Hijos : PuedeSeguir(p)
<1> DEFINE B == BloquesDe(Len(entrada))
<1>1. B \in Nat \ {0} /\ 1 \in Hijos /\ 2 \in Hijos /\ 3 \in Hijos
  BY Contexto DEF Hijos
<1> HIDE DEF B
<1>2. /\ fase[2] \in {"abre", "abre_otra", "cabecera", "reenvia", "recibe", "envia", "cierra", "fin"}
  <2>1. fase[2] # "no_creado" /\ fase[2] # "error" /\ fase[2] # "indefinido"
    BY <1>1 DEF Unidas, Avance, Etapa2
  <2>2. fase[2] \in FasesHijo /\ fase[2] # "bloque"
    BY <1>1 DEF TiposCadena, TiposHijos, TipoHijo
  <2> QED BY <2>1, <2>2 DEF FasesHijo
<1>3. i3 \in 0 .. B
  BY <1>1 DEF Avance, Etapa3, B
<1>4. Enlace(2, sale[2], entra[3], j2, i3, nombre[2], cola, entrada)
  BY DEF Avance
<1>5. entra[3] # SIN_COLA
  BY <1>1 DEF TiposCadena, TiposHijos, TipoHijo, ConSalida
<1>6. CASE fase[2] \in {"abre", "abre_otra", "cierra"}
  BY <1>1, <1>6 DEF PuedeSeguir
<1>7. CASE fase[2] \in {"cabecera", "recibe"}
  BY <1>1, <1>7, SigueElPrimero
<1>8. CASE fase[2] \in {"reenvia", "envia", "fin"}
  <2>1. sale[2] # SIN_COLA
    <3>1. fase[2] \in {"reenvia", "envia"} => sale[2] # SIN_COLA
      BY <1>1 DEF TiposCadena, TiposHijos, TipoHijo, ConSalida
    <3>2. fase[2] = "fin" => j2 = B + 1
      BY DEF Avance, Etapa2, B
    <3>3. fase[2] = "fin" => sale[2] # SIN_COLA
      BY <1>1, <1>4, <3>2 DEF Enlace
    <3> QED BY <1>8, <3>1, <3>3
  <2>2. entra[3] = sale[2]
    BY <1>5, <2>1 DEF Unidas, Unida
  <2>3. CASE cola[entra[3]] # <<>>
    BY <1>1, <2>3 DEF PuedeSeguir
  <2>4. CASE cola[entra[3]] = <<>>
    <3>1. j2 = i3 /\ Len(cola[sale[2]]) < QUEUE_MAX_MSGS
      BY <1>4, <2>1, <2>2, <2>4, EnlaceVacio
    <3>2. fase[2] # "fin"
      <4>1. fase[2] = "fin" => j2 = B + 1
        BY DEF Avance, Etapa2, B
      <4> QED BY <1>1, <1>3, <3>1, <4>1
    <3> QED BY <1>1, <1>8, <3>1, <3>2 DEF PuedeSeguir
  <2> QED BY <2>3, <2>4
<1> QED BY <1>2, <1>6, <1>7, <1>8

(* When the third has ended so have the others: it has received everything.*)
LEMMA AcabaElTercero ==
    ASSUME TiposCadena, Unidas, padre = 3,
           NEW i1 \in Nat, NEW i2 \in Nat, NEW j2 \in Nat, NEW i3 \in Nat, Avance(i1, i2, j2, i3),
           fase[3] = "fin"
    PROVE  PuedeSeguir(2) \/ \A p \in Hijos : fase[p] = "fin"
<1> DEFINE B == BloquesDe(Len(entrada))
<1>1. B \in Nat \ {0} /\ 1 \in Hijos /\ 2 \in Hijos /\ 3 \in Hijos
  BY Contexto DEF Hijos
<1> HIDE DEF B
<1>2. /\ i3 = B + 1 /\ i3 <= j2 /\ j2 <= i2 /\ i2 <= i1
      /\ i1 \in 0 .. B + 1 /\ i2 \in 0 .. B + 1 /\ j2 \in 0 .. B + 1
  BY DEF Avance, Etapa1, Etapa2, Etapa3, Enlace, B
<1>3. i1 = B + 1 /\ i2 = B + 1 /\ j2 = B + 1
  BY <1>1, <1>2
<1>4. fase[1] = "fin"
  <2>1. fase[1] # "no_creado" /\ fase[1] # "error"
    BY <1>1 DEF Unidas
  <2>2. fase[1] = "bloque" => i1 \in 1 .. B
    BY DEF Avance, Etapa1, B
  <2>3. fase[1] \in {"abre", "cabecera"} => i1 = 0
    BY DEF Avance, Etapa1
  <2>4. fase[1] \in {"no_creado", "abre", "cabecera", "bloque", "fin", "error"}
    BY DEF Avance, Etapa1
  <2> QED BY <1>1, <1>3, <2>1, <2>2, <2>3, <2>4
<1>5. fase[2] \in {"cierra", "fin"}
  <2>1. fase[2] # "no_creado" /\ fase[2] # "error" /\ fase[2] # "indefinido"
    BY <1>1 DEF Unidas, Avance, Etapa2
  <2>2. fase[2] \in FasesHijo /\ fase[2] # "bloque"
    BY <1>1 DEF TiposCadena, TiposHijos, TipoHijo
  <2>3. /\ fase[2] \in {"abre", "abre_otra", "cabecera"} => i2 = 0
        /\ fase[2] = "reenvia" => j2 = 0
        /\ fase[2] = "recibe" => i2 \in 1 .. B
        /\ fase[2] = "envia" => j2 \in 1 .. B
    BY DEF Avance, Etapa2, B
  <2> QED BY <1>1, <1>3, <2>1, <2>2, <2>3 DEF FasesHijo
<1> QED BY <1>4, <1>5 DEF PuedeSeguir, Hijos

(* The children never wait all for one another, for every size of file and *)
(* of queue, however late each opens its queues.                           *)
THEOREM NuncaEsperaMutua ==
    ASSUME CabeEnLaCola PROVE SpecCadena => []SinEsperaMutua
<1>1. InitCadena => InvUnidas
  BY UnidasAlLanzar DEF InitCadena, InvUnidas
<1>2. InvCadena /\ InvUnidas /\ [NextCadena]_varsCadena => InvUnidas'
  BY UnidasPaso
<1>3. InvCadena /\ InvUnidas => SinEsperaMutua
  <2> SUFFICES ASSUME InvCadena, InvUnidas, limpio, errores = 0, padre \notin 0 .. 2 \cup {FIN}
               PROVE  (\A p \in Hijos : fase[p] = "fin") \/ (\E p \in Hijos : PuedeSeguir(p))
    BY DEF SinEsperaMutua
  <2>1. TiposCadena /\ Unidas
    BY DEF InvCadena, InvUnidas
  <2>2. padre = 3
    BY <2>1 DEF TiposCadena, TiposResto, Unidas
  <2>3. PICK i1, i2, j2, i3 \in 0 .. BloquesDe(Len(entrada)) + 1 : Avance(i1, i2, j2, i3)
    BY DEF InvCadena
  <2>4. i1 \in Nat /\ i2 \in Nat /\ j2 \in Nat /\ i3 \in Nat /\ 2 \in Hijos /\ 3 \in Hijos
    BY DEF Hijos
  <2>5. fase[3] \in {"abre", "cabecera", "recibe", "cierra", "fin"}
    <3>1. fase[3] # "no_creado" /\ fase[3] # "error" /\ fase[3] # "indefinido"
      BY <2>1, <2>2, <2>3, <2>4 DEF Unidas, Avance, Etapa3
    <3>2. fase[3] \in FasesHijo /\ fase[3] \notin {"abre_otra", "bloque", "reenvia", "envia"}
      BY <2>1, <2>4 DEF TiposCadena, TiposHijos, TipoHijo
    <3> QED BY <3>1, <3>2 DEF FasesHijo
  <2>6. CASE fase[3] \in {"abre", "cierra"}
    BY <2>4, <2>6 DEF PuedeSeguir
  <2>7. CASE fase[3] \in {"cabecera", "recibe"}
    BY <2>1, <2>2, <2>3, <2>4, <2>7, SigueElSegundo
  <2>8. CASE fase[3] = "fin"
    BY <2>1, <2>2, <2>3, <2>4, <2>8, AcabaElTercero
  <2> QED BY <2>5, <2>6, <2>7, <2>8
<1> QED BY <1>1, <1>2, <1>3, CadenaInvariante, PTL DEF SpecCadena
=============================================================================
