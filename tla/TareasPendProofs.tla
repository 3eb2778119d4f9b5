-------------------------- MODULE TareasPendProofs --------------------------
(***************************************************************************)
(* Proofs about TareasPend: for any size of the ring and any number of     *)
(* devices the ring of pending tasks is a queue, although insertions and   *)
(* extractions take several memory accesses each and interleave; a clock   *)
(* interrupt inside a device's insertion breaks it, and only until the     *)
(* ring next empties.                                                      *)
(***************************************************************************)
EXTENDS TareasPend, SecuenciasLemas

-----------------------------------------------------------------------------
(* Arithmetic of the ring                                                  *)

Huecos == 0 .. MAX_TAREAS - 1

(* How many tasks there are from p up to u, and the slot of the i-th.      *)
Cuantas(p, u) == (u - p) % MAX_TAREAS
Hueco(p, i) == (p + i - 1) % MAX_TAREAS

LEMMA Modulo ==
    ASSUME NEW x \in Int, NEW m \in Nat \ {0}
    PROVE  /\ 0 <= x /\ x < m => x % m = x
           /\ m <= x /\ x < 2 * m => x % m = x - m
           /\ -m <= x /\ x < 0 => x % m = x + m
OBVIOUS

(* The same three numbers without a remainder.                             *)
LEMMA EnElAnillo ==
    ASSUME NEW p \in Huecos, NEW u \in Huecos
    PROVE  /\ Cuantas(p, u) = IF p <= u THEN u - p ELSE u - p + MAX_TAREAS
           /\ Siguiente(u) = IF u = MAX_TAREAS - 1 THEN 0 ELSE u + 1
           /\ \A i \in 1 .. MAX_TAREAS :
                 Hueco(p, i) = IF p + i - 1 < MAX_TAREAS THEN p + i - 1
                               ELSE p + i - 1 - MAX_TAREAS
<1> DEFINE m == MAX_TAREAS
<1>1. m \in Nat \ {0} /\ m >= 2
  BY TareasPendAssumption
<1>2. p \in 0 .. m - 1 /\ u \in 0 .. m - 1
  BY DEF Huecos
<1>3. Cuantas(p, u) = IF p <= u THEN u - p ELSE u - p + m
  <2> DEFINE x == u - p
  <2>1. x \in Int /\ -m <= x /\ x < m /\ (p <= u <=> 0 <= x)
    BY <1>1, <1>2
  <2>2. Cuantas(p, u) = x % m
    BY DEF Cuantas
  <2> HIDE DEF x, m
  <2>3. x % m = IF 0 <= x THEN x ELSE x + m
    <3>1. CASE 0 <= x
      BY <1>1, <2>1, <3>1, Modulo
    <3>2. CASE ~(0 <= x)
      <4>1. x < 0
        BY <2>1, <3>2
      <4>2. x % m = x + m
        BY <1>1, <2>1, <4>1, Modulo
      <4> QED BY <3>2, <4>2
    <3> QED BY <3>1, <3>2
  <2>4. Cuantas(p, u) = IF p <= u THEN x ELSE x + m
    BY <2>1, <2>2, <2>3
  <2> QED BY <2>4 DEF x
<1>4. Siguiente(u) = IF u = m - 1 THEN 0 ELSE u + 1
  <2> DEFINE x == u + 1
  <2>1. x \in Int /\ 0 <= x /\ x < 2 * m /\ (u = m - 1 <=> x = m) /\ x <= m
    BY <1>1, <1>2
  <2>2. Siguiente(u) = x % m
    BY DEF Siguiente
  <2> HIDE DEF x, m
  <2>3. x % m = IF x = m THEN 0 ELSE x
    <3>1. CASE x = m
      <4>1. x % m = x - m
        BY <1>1, <2>1, <3>1, Modulo
      <4> QED BY <1>1, <3>1, <4>1
    <3>2. CASE x # m
      <4>1. x < m
        BY <1>1, <2>1, <3>2
      <4>2. x % m = x
        BY <1>1, <2>1, <4>1, Modulo
      <4> QED BY <3>2, <4>2
    <3> QED BY <3>1, <3>2
  <2>4. Siguiente(u) = IF u = m - 1 THEN 0 ELSE x
    BY <2>1, <2>2, <2>3
  <2> QED BY <2>4 DEF x
<1>5. ASSUME NEW i \in 1 .. m
      PROVE  Hueco(p, i) = IF p + i - 1 < m THEN p + i - 1 ELSE p + i - 1 - m
  <2> DEFINE x == p + i - 1
  <2>1. x \in Int /\ 0 <= x /\ x < 2 * m
    BY <1>1, <1>2
  <2>2. Hueco(p, i) = x % m
    BY DEF Hueco
  <2> HIDE DEF x, m
  <2>3. x % m = IF x < m THEN x ELSE x - m
    <3>1. CASE x < m
      <4>1. x % m = x
        BY <1>1, <2>1, <3>1, Modulo
      <4> QED BY <3>1, <4>1
    <3>2. CASE ~(x < m)
      <4>1. m <= x
        BY <1>1, <2>1, <3>2
      <4>2. x % m = x - m
        BY <1>1, <2>1, <4>1, Modulo
      <4> QED BY <3>2, <4>2
    <3> QED BY <3>1, <3>2
  <2>4. Hueco(p, i) = IF x < m THEN x ELSE x - m
    BY <2>2, <2>3
  <2> QED BY <1>1, <1>2, <2>1, <2>4 DEF x
<1> QED BY <1>3, <1>4, <1>5

(* The tasks from p up to u: how many, in which slots, and what changes    *)
(* when either end advances.                                               *)
LEMMA CuentasDelAnillo ==
    ASSUME NEW p \in Huecos, NEW u \in Huecos
    PROVE  /\ Siguiente(u) \in Huecos
           /\ Cuantas(p, u) \in 0 .. MAX_TAREAS - 1
           /\ Cuantas(p, u) = 0 <=> p = u
           /\ Hueco(p, Cuantas(p, u) + 1) = u
           /\ Hueco(p, 1) = p
           /\ \A i \in 1 .. Cuantas(p, u) : Hueco(p, i) \in Huecos \ {u}
           /\ p # Siguiente(u) => Cuantas(p, Siguiente(u)) = Cuantas(p, u) + 1
           /\ p # u => /\ Cuantas(Siguiente(p), u) = Cuantas(p, u) - 1
                       /\ \A i \in 1 .. Cuantas(p, u) - 1 :
                             Hueco(Siguiente(p), i) = Hueco(p, i + 1)
<1> DEFINE m == MAX_TAREAS
           n == Cuantas(p, u)
<1>1. m \in Nat \ {0} /\ m >= 2
  BY TareasPendAssumption
<1>2. p \in 0 .. m - 1 /\ u \in 0 .. m - 1
  BY DEF Huecos
<1>3. n = IF p <= u THEN u - p ELSE u - p + m
  BY EnElAnillo
<1>4. \A i \in 1 .. m : Hueco(p, i) = IF p + i - 1 < m THEN p + i - 1 ELSE p + i - 1 - m
  BY EnElAnillo
<1>5. /\ Siguiente(u) = IF u = m - 1 THEN 0 ELSE u + 1
      /\ Siguiente(p) = IF p = m - 1 THEN 0 ELSE p + 1
  BY EnElAnillo
<1>6. Siguiente(u) \in Huecos /\ Siguiente(p) \in Huecos
  BY <1>1, <1>2, <1>5 DEF Huecos
<1>7. Cuantas(p, Siguiente(u))
        = IF p <= Siguiente(u) THEN Siguiente(u) - p ELSE Siguiente(u) - p + m
  BY <1>6, EnElAnillo
<1>8. Cuantas(Siguiente(p), u)
        = IF Siguiente(p) <= u THEN u - Siguiente(p) ELSE u - Siguiente(p) + m
  BY <1>6, EnElAnillo
<1>9. \A i \in 1 .. m :
         Hueco(Siguiente(p), i) = IF Siguiente(p) + i - 1 < m THEN Siguiente(p) + i - 1
                                  ELSE Siguiente(p) + i - 1 - m
  BY <1>6, EnElAnillo
<1>h. Huecos = 0 .. m - 1
  BY DEF Huecos
<1> HIDE DEF m, n
<1>10. n \in 0 .. m - 1 /\ (n = 0 <=> p = u)
  BY <1>1, <1>2, <1>3
<1>11. Hueco(p, n + 1) = u /\ Hueco(p, 1) = p
  BY <1>1, <1>2, <1>3, <1>4, <1>10
<1>12. \A i \in 1 .. n : Hueco(p, i) \in Huecos \ {u}
  BY <1>1, <1>2, <1>3, <1>4, <1>10, <1>h
<1>13. p # Siguiente(u) => Cuantas(p, Siguiente(u)) = n + 1
  BY <1>1, <1>2, <1>3, <1>5, <1>7
<1>14. p # u => Cuantas(Siguiente(p), u) = n - 1
  BY <1>1, <1>2, <1>3, <1>5, <1>8
<1>15. \A i \in 1 .. n - 1 : Hueco(Siguiente(p), i) = Hueco(p, i + 1)
  BY <1>1, <1>2, <1>4, <1>5, <1>9, <1>10
<1> QED BY <1>6, <1>10, <1>11, <1>12, <1>13, <1>14, <1>15 DEF m, n

-----------------------------------------------------------------------------
(* The ring as a queue                                                     *)

(* After its first k elements, the queue c is what the ring T holds from p *)
(* up to u.                                                                *)
EsCola(T, p, u, c, k) ==
    /\ Len(c) = k + Cuantas(p, u)
    /\ \A i \in 1 .. Cuantas(p, u) : T[Hueco(p, i)] = c[k + i]

(* Writing in the slot at u changes nothing of the queue.                  *)
LEMMA EscribirFuera ==
    ASSUME NEW p \in Huecos, NEW u \in Huecos, NEW T, NEW T2, NEW c, NEW k,
           EsCola(T, p, u, c, k),
           \A h \in Huecos \ {u} : T2[h] = T[h]
    PROVE  EsCola(T2, p, u, c, k)
<1>1. \A i \in 1 .. Cuantas(p, u) : Hueco(p, i) \in Huecos \ {u}
  BY CuentasDelAnillo
<1> QED BY <1>1 DEF EsCola

(* Advancing u over a slot that holds t appends t.                         *)
LEMMA AvanzarUltimo ==
    ASSUME NEW S, NEW p \in Huecos, NEW u \in Huecos, NEW T, NEW c \in Seq(S),
           NEW k \in Nat, NEW t \in S,
           EsCola(T, p, u, c, k), p # Siguiente(u), T[u] = t
    PROVE  EsCola(T, p, Siguiente(u), Append(c, t), k)
<1> DEFINE n == Cuantas(p, u)
           c2 == Append(c, t)
<1>1. /\ n \in Nat /\ Cuantas(p, Siguiente(u)) = n + 1 /\ Hueco(p, n + 1) = u
  BY CuentasDelAnillo
<1>2. Len(c) = k + n /\ \A i \in 1 .. n : T[Hueco(p, i)] = c[k + i]
  BY DEF EsCola
<1>3. Len(c2) = k + n + 1 /\ c2[k + n + 1] = t /\ \A j \in 1 .. k + n : c2[j] = c[j]
  BY <1>2, AppendProperties
<1> HIDE DEF n, c2
<1>4. ASSUME NEW i \in 1 .. n + 1 PROVE T[Hueco(p, i)] = c2[k + i]
  <2>1. CASE i = n + 1
    <3>1. k + i = k + n + 1
      BY <1>1, <2>1
    <3> QED BY <1>1, <1>3, <2>1, <3>1
  <2>2. CASE i # n + 1
    <3>1. i \in 1 .. n /\ k + i \in 1 .. k + n
      BY <1>1, <2>2
    <3> QED BY <1>2, <1>3, <3>1
  <2> QED BY <2>1, <2>2
<1>5. Len(c2) = k + (n + 1)
  BY <1>1, <1>3
<1> QED BY <1>1, <1>4, <1>5 DEF EsCola, c2

(* An insertion: the slot at u is written, and u advances over it.         *)
LEMMA Insercion ==
    ASSUME NEW S, NEW p \in Huecos, NEW u \in Huecos, NEW T, NEW T2, NEW c \in Seq(S),
           NEW k \in Nat, NEW t \in S,
           EsCola(T, p, u, c, k), p # Siguiente(u), T2[u] = t,
           \A h \in Huecos \ {u} : T2[h] = T[h]
    PROVE  EsCola(T2, p, Siguiente(u), Append(c, t), k)
<1>1. EsCola(T2, p, u, c, k)
  BY EscribirFuera
<1> QED BY <1>1, AvanzarUltimo

(* Advancing p leaves the first task out of the ring, still in the queue.  *)
LEMMA AvanzarPor ==
    ASSUME NEW p \in Huecos, NEW u \in Huecos, NEW T, NEW c,
           EsCola(T, p, u, c, 0), p # u
    PROVE  EsCola(T, Siguiente(p), u, c, 1) /\ c[1] = T[p]
<1> DEFINE n == Cuantas(p, u)
<1>1. /\ n \in Nat \ {0} /\ Hueco(p, 1) = p
      /\ Cuantas(Siguiente(p), u) = n - 1
      /\ \A i \in 1 .. n - 1 : Hueco(Siguiente(p), i) = Hueco(p, i + 1)
  BY CuentasDelAnillo
<1>2. Len(c) = 0 + n /\ \A i \in 1 .. n : T[Hueco(p, i)] = c[0 + i]
  BY DEF EsCola
<1> HIDE DEF n
<1>3. Len(c) = n /\ \A i \in 1 .. n : T[Hueco(p, i)] = c[i]
  BY <1>1, <1>2
<1>4. c[1] = T[p]
  BY <1>1, <1>3
<1>5. ASSUME NEW i \in 1 .. n - 1 PROVE T[Hueco(Siguiente(p), i)] = c[1 + i]
  <2>1. i + 1 \in 1 .. n /\ i + 1 = 1 + i
    BY <1>1
  <2> QED BY <1>1, <1>3, <2>1
<1>6. Len(c) = 1 + (n - 1)
  BY <1>1, <1>3
<1> QED BY <1>1, <1>4, <1>5, <1>6 DEF EsCola

(* The task taken is run: the queue loses its first element.               *)
LEMMA QuitarPrimera ==
    ASSUME NEW S, NEW p \in Huecos, NEW u \in Huecos, NEW T, NEW c \in Seq(S),
           EsCola(T, p, u, c, 1)
    PROVE  c # <<>> /\ Tail(c) \in Seq(S) /\ EsCola(T, p, u, Tail(c), 0)
<1> DEFINE n == Cuantas(p, u)
           c2 == Tail(c)
<1>1. n \in Nat
  BY CuentasDelAnillo
<1>2. Len(c) = 1 + n /\ \A i \in 1 .. n : T[Hueco(p, i)] = c[1 + i]
  BY DEF EsCola
<1>3. c # <<>>
  BY <1>1, <1>2
<1>4. c2 \in Seq(S) /\ Len(c2) = Len(c) - 1 /\ \A i \in 1 .. Len(c2) : c2[i] = c[i + 1]
  BY <1>3, HeadTailProperties
<1> HIDE DEF n, c2
<1>5. Len(c2) = 0 + n
  BY <1>1, <1>2, <1>4
<1>6. \A i \in 1 .. n : 0 + i = i /\ i + 1 = 1 + i /\ i \in 1 .. Len(c2)
  BY <1>1, <1>5
<1>7. \A i \in 1 .. n : T[Hueco(p, i)] = c2[0 + i]
  BY <1>2, <1>4, <1>6
<1> QED BY <1>3, <1>4, <1>5, <1>7 DEF EsCola, n, c2

-----------------------------------------------------------------------------
(* The inductive invariant                                                 *)

Funciones == {"despertarDormidos", "planificarRodaja", "interrupcionSW", NULL}
Tareas == [funcion : Funciones, datos : Dispositivos \cup {NULL}]

(* Where an insertion by a device handler is.                              *)
ConIndice == {"funcion", "datos", "ultimo"}
FuncionPuesta == {"cargar datos", "datos", "cargar ultimo", "ultimo"}
DatosPuestos == {"cargar ultimo", "ultimo"}

TiposTareas ==
    /\ primero \in Huecos /\ ultimo \in Huecos /\ indice \in Huecos
    /\ tablaTareas \in [Huecos -> Tareas]
    /\ obtenida \in Tareas
    /\ cola \in Seq(Tareas)
    /\ pcDisp \in {"fuera", "comprobar"} \cup Insertando
    /\ pcDisp # "fuera" => disp \in Dispositivos
    /\ pcSW \in {"comprobar", "obtener", "funcion", "datos", "avanzar", "ejecutar"}
    /\ roto \in BOOLEAN

(* The ring was not full when the device handler looked, nothing has       *)
(* filled it since, and what it has written is in the slot still free.     *)
PuntosManejador ==
    /\ pcDisp \in Insertando => ~Lleno(ultimo)
    /\ pcDisp \in ConIndice => indice = ultimo
    /\ pcDisp \in FuncionPuesta => tablaTareas[ultimo].funcion = "interrupcionSW"
    /\ pcDisp \in DatosPuestos => tablaTareas[ultimo].datos = disp

(* What interrupcionSoftware has read of the first task.                   *)
PuntosSW ==
    /\ pcSW \in {"obtener", "funcion", "datos", "avanzar"} => primero # ultimo
    /\ pcSW \in {"datos", "avanzar"} => obtenida.funcion = tablaTareas[primero].funcion
    /\ pcSW = "avanzar" => obtenida.datos = tablaTareas[primero].datos
    /\ pcSW = "ejecutar" => cola[1] = obtenida

AnilloEsCola ==
    EsCola(tablaTareas, primero, ultimo, cola, IF pcSW = "ejecutar" THEN 1 ELSE 0)

(* Of a spoilt ring only the types are known.                              *)
InvTareas == TiposTareas /\ (~roto => PuntosManejador /\ PuntosSW /\ AnilloEsCola)

LEMMA InitTareas == Init => InvTareas
<1> SUFFICES ASSUME Init PROVE InvTareas
  OBVIOUS
<1>1. MAX_TAREAS \in Nat /\ MAX_TAREAS >= 2
  BY TareasPendAssumption
<1>2. 0 \in Huecos
  BY <1>1 DEF Huecos
<1>3. TiposTareas
  <2>1. Tarea(NULL, NULL) \in Tareas
    BY DEF Tarea, Tareas, Funciones
  <2>2. tablaTareas \in [Huecos -> Tareas] /\ obtenida \in Tareas
    BY <2>1 DEF Init, Huecos
  <2> QED BY <1>2, <2>2 DEF Init, TiposTareas, Insertando
<1>4. PuntosManejador
  BY DEF Init, PuntosManejador, Insertando, ConIndice, FuncionPuesta, DatosPuestos
<1>5. PuntosSW
  BY DEF Init, PuntosSW
<1>6. AnilloEsCola
  <2>1. Cuantas(0, 0) = 0
    BY <1>2, CuentasDelAnillo
  <2> QED BY <2>1 DEF Init, AnilloEsCola, EsCola
<1> QED BY <1>3, <1>4, <1>5, <1>6 DEF InvTareas

(* The tasks the three parties insert.                                     *)
LEMMA TareasBien ==
    /\ Despertar \in Tareas /\ Rodaja \in Tareas
    /\ \A d \in Dispositivos : DeDispositivo(d) \in Tareas
BY DEF Despertar, Rodaja, DeDispositivo, Tarea, Tareas, Funciones

(* The first element of the queue stays when others are inserted.          *)
LEMMA PrimeraSeQueda ==
    ASSUME NEW S, NEW p \in Huecos, NEW u \in Huecos, NEW T, NEW c \in Seq(S), NEW t \in S,
           EsCola(T, p, u, c, 1)
    PROVE  Append(c, t)[1] = c[1]
<1>1. Cuantas(p, u) \in Nat
  BY CuentasDelAnillo
<1>2. Len(c) \in Nat /\ 1 \in 1 .. Len(c)
  BY <1>1 DEF EsCola
<1> QED BY <1>2, AppendProperties

(* What is recorded of a ring that is not spoilt.                          *)
LEMMA AnotarUna ==
    ASSUME ~roto', NEW S, cola \in Seq(S), NEW t \in S, Anotar(<<t>>)
    PROVE  cola' = Append(cola, t)
BY DEF Anotar

(* A step that leaves the ring spoilt only has to keep the types: the      *)
(* clock's writes go to slots of the ring, whatever is there.              *)
LEMMA PasoRelojRoto ==
    ASSUME InvTareas, InterrupcionReloj, roto'
    PROVE  InvTareas'
<1>1. /\ ultimo \in Huecos /\ tablaTareas \in [Huecos -> Tareas] /\ TiposTareas
      /\ UNCHANGED <<primero, pcDisp, disp, indice, pcSW, obtenida>>
  BY DEF InvTareas, TiposTareas, InterrupcionReloj, manejador, consumidor
<1>2. Siguiente(ultimo) \in Huecos /\ Siguiente(Siguiente(ultimo)) \in Huecos
  BY <1>1, CuentasDelAnillo
<1>3. cola' = <<>>
  BY DEF InterrupcionReloj, Anotar
<1>4. ultimo' \in Huecos /\ tablaTareas' \in [Huecos -> Tareas]
  BY <1>1, <1>2, TareasBien DEF InterrupcionReloj
<1> QED BY <1>1, <1>3, <1>4 DEF InvTareas, TiposTareas

(* The clock inserts between two accesses of interrupcionSoftware: it only *)
(* writes in free slots, and primero is not one of them if there are tasks.*)
LEMMA PasoRelojSano ==
    ASSUME InvTareas, InterrupcionReloj, ~roto'
    PROVE  InvTareas'
<1> DEFINE p == primero  u == ultimo  k == IF pcSW = "ejecutar" THEN 1 ELSE 0
<1>1. /\ p \in Huecos /\ u \in Huecos /\ tablaTareas \in [Huecos -> Tareas]
      /\ cola \in Seq(Tareas)
  BY DEF InvTareas, TiposTareas
<1>0. ~roto /\ pcDisp \notin Insertando
  BY DEF InterrupcionReloj, InvTareas, TiposTareas
<1>2. EsCola(tablaTareas, p, u, cola, k) /\ k \in Nat
  BY <1>0 DEF InvTareas, AnilloEsCola
<1>3. PuntosSW
  BY <1>0 DEF InvTareas
<1>4. UNCHANGED <<primero, pcDisp, disp, indice, pcSW, obtenida>>
  BY DEF InterrupcionReloj, manejador, consumidor
<1>5. Siguiente(u) \in Huecos /\ Siguiente(Siguiente(u)) \in Huecos
  BY <1>1, CuentasDelAnillo
<1>6. /\ ultimo' \in Huecos /\ tablaTareas' \in [Huecos -> Tareas] /\ cola' \in Seq(Tareas)
      /\ EsCola(tablaTareas', p, ultimo', cola', k)
      /\ p # u => p # ultimo' /\ tablaTareas'[p] = tablaTareas[p]
      /\ k = 1 => cola'[1] = cola[1]
  <2>1. CASE Lleno(ultimo)
    <3>1. UNCHANGED <<tablaTareas, ultimo, cola>>
      <4>1. cola' = cola \o <<>> /\ UNCHANGED <<tablaTareas, ultimo>>
        BY <2>1 DEF InterrupcionReloj, Anotar
      <4> QED BY <1>1, <4>1
    <3> QED BY <1>1, <1>2, <3>1
  <2>2. CASE ~Lleno(ultimo) /\ Lleno(Siguiente(ultimo))
    <3>1. /\ tablaTareas' = [tablaTareas EXCEPT ![u] = Despertar]
          /\ ultimo' = Siguiente(u) /\ cola' = Append(cola, Despertar)
      BY <1>1, <2>2, TareasBien, AnotarUna DEF InterrupcionReloj
    <3>2. p # Siguiente(u)
      BY <2>2 DEF Lleno
    <3>3. /\ tablaTareas'[u] = Despertar
          /\ \A h \in Huecos \ {u} : tablaTareas'[h] = tablaTareas[h]
          /\ tablaTareas' \in [Huecos -> Tareas]
      BY <1>1, <3>1, TareasBien
    <3>4. EsCola(tablaTareas', p, ultimo', cola', k)
      BY <1>1, <1>2, <3>1, <3>2, <3>3, TareasBien, Insercion
    <3>5. cola' \in Seq(Tareas)
      BY <1>1, <3>1, TareasBien, AppendProperties
    <3>6. k = 1 => cola'[1] = cola[1]
      BY <1>1, <1>2, <3>1, TareasBien, PrimeraSeQueda
    <3> QED BY <1>1, <1>5, <3>1, <3>2, <3>3, <3>4, <3>5, <3>6
  <2>3. CASE ~Lleno(ultimo) /\ ~Lleno(Siguiente(ultimo))
    <3> DEFINE v == Siguiente(u)
               T1 == [tablaTareas EXCEPT ![u] = Despertar]
               c1 == Append(cola, Despertar)
    <3>1. /\ tablaTareas' = [tablaTareas EXCEPT ![u] = Despertar, ![v] = Rodaja]
          /\ ultimo' = Siguiente(v) /\ cola' = cola \o <<Despertar, Rodaja>>
      BY <2>3 DEF InterrupcionReloj, Anotar
    <3>2. p # v /\ p # Siguiente(v)
      BY <2>3 DEF Lleno
    <3>3. /\ T1[u] = Despertar
          /\ \A h \in Huecos \ {u} : T1[h] = tablaTareas[h]
          /\ T1 \in [Huecos -> Tareas]
          /\ tablaTareas' = [T1 EXCEPT ![v] = Rodaja]
      BY <1>1, <3>1, TareasBien
    <3>4. c1 \in Seq(Tareas)
      BY <1>1, TareasBien, AppendProperties
    <3>5. cola' = Append(c1, Rodaja)
      BY <1>1, <3>1, TareasBien
    <3>6. EsCola(T1, p, v, c1, k)
      BY <1>1, <1>2, <3>2, <3>3, TareasBien, Insercion
    <3>7. k = 1 => c1[1] = cola[1]
      BY <1>1, <1>2, TareasBien, PrimeraSeQueda
    <3> HIDE DEF T1, c1, v
    <3>8. v \in Huecos
      BY <1>5 DEF v
    <3>9. /\ tablaTareas'[v] = Rodaja
          /\ \A h \in Huecos \ {v} : tablaTareas'[h] = T1[h]
          /\ tablaTareas' \in [Huecos -> Tareas]
      BY <3>3, <3>8, TareasBien
    <3>10. EsCola(tablaTareas', p, ultimo', cola', k)
      <4>1. \A h \in Huecos \ {v} : tablaTareas'[h] = T1[h]
        BY <3>9
      <4>2. EsCola(tablaTareas', p, Siguiente(v), Append(c1, Rodaja), k)
        BY <1>1, <1>2, <3>2, <3>4, <3>6, <3>8, <3>9, <4>1, TareasBien, Insercion
      <4> QED BY <3>1, <3>5, <4>2
    <3>11. cola' \in Seq(Tareas)
      BY <3>4, <3>5, TareasBien, AppendProperties
    <3>12. k = 1 => cola'[1] = cola[1]
      BY <1>1, <3>4, <3>5, <3>6, <3>7, <3>8, TareasBien, PrimeraSeQueda
    <3>13. p # u => tablaTareas'[p] = tablaTareas[p]
      BY <1>1, <3>2, <3>3, <3>9
    <3>14. ultimo' \in Huecos
      BY <1>5, <3>1 DEF v
    <3> QED BY <3>1, <3>2, <3>9, <3>10, <3>11, <3>12, <3>13, <3>14
  <2> QED BY <2>1, <2>2, <2>3
<1>7. TiposTareas'
  BY <1>0, <1>4, <1>6 DEF InvTareas, TiposTareas, InterrupcionReloj
<1>8. PuntosManejador'
  BY <1>0, <1>4 DEF PuntosManejador, Insertando, ConIndice, FuncionPuesta, DatosPuestos
<1>9. PuntosSW'
  BY <1>3, <1>4, <1>6 DEF PuntosSW
<1>10. AnilloEsCola'
  BY <1>4, <1>6 DEF AnilloEsCola
<1> QED BY <1>7, <1>8, <1>9, <1>10 DEF InvTareas

LEMMA PasoReloj ==
    ASSUME InvTareas, InterrupcionReloj
    PROVE  InvTareas'
BY PasoRelojRoto, PasoRelojSano

(* The handler of a device, one access at a time: interrupcionSoftware     *)
(* does not move, and the slot written is the free one.                    *)
LEMMA PasoManejador ==
    ASSUME InvTareas, ~roto,
           \/ \E d \in Dispositivos : InterrupcionHW(d)
           \/ ComprobarLleno \/ CargarUltimo \/ PonerFuncion \/ PonerDatos \/ PonerUltimo
    PROVE  InvTareas'
<1> USE DEF InvTareas, TiposTareas, PuntosManejador, PuntosSW, AnilloEsCola,
            Insertando, ConIndice, FuncionPuesta, DatosPuestos, ring, manejador, consumidor,
            historia
<1> DEFINE k == IF pcSW = "ejecutar" THEN 1 ELSE 0
<1>1. CASE \E d \in Dispositivos : InterrupcionHW(d)
  BY <1>1 DEF InterrupcionHW, IrA
<1>2. CASE ComprobarLleno
  BY <1>2 DEF ComprobarLleno, Lleno
<1>3. CASE CargarUltimo
  BY <1>3 DEF CargarUltimo, IrA, Lleno
<1>4. CASE PonerFuncion
  <2> DEFINE T2 == [tablaTareas EXCEPT ![ultimo].funcion = "interrupcionSW"]
  <2>1. /\ pcDisp = "funcion" /\ pcDisp' = "cargar datos" /\ indice = ultimo
        /\ tablaTareas' = T2
        /\ UNCHANGED <<primero, ultimo, disp, indice, pcSW, obtenida, cola, roto>>
    BY <1>4 DEF PonerFuncion, IrA
  <2>2. "interrupcionSW" \in Funciones
    BY DEF Funciones
  <2>3. /\ T2 \in [Huecos -> Tareas]
        /\ T2[ultimo].funcion = "interrupcionSW"
        /\ \A h \in Huecos \ {ultimo} : T2[h] = tablaTareas[h]
    BY <2>2 DEF Tareas
  <2> HIDE DEF T2
  <2>4. EsCola(T2, primero, ultimo, cola, k)
    BY <2>3, EscribirFuera
  <2> QED BY <2>1, <2>3, <2>4 DEF Lleno
<1>5. CASE PonerDatos
  <2> DEFINE T2 == [tablaTareas EXCEPT ![ultimo].datos = disp]
  <2>1. /\ pcDisp = "datos" /\ pcDisp' = "cargar ultimo" /\ indice = ultimo
        /\ disp \in Dispositivos
        /\ tablaTareas' = T2
        /\ UNCHANGED <<primero, ultimo, disp, indice, pcSW, obtenida, cola, roto>>
    BY <1>5 DEF PonerDatos, IrA
  <2>2. /\ T2 \in [Huecos -> Tareas]
        /\ T2[ultimo].funcion = "interrupcionSW" /\ T2[ultimo].datos = disp
        /\ \A h \in Huecos \ {ultimo} : T2[h] = tablaTareas[h]
    BY <2>1 DEF Tareas
  <2> HIDE DEF T2
  <2>3. EsCola(T2, primero, ultimo, cola, k)
    BY <2>2, EscribirFuera
  <2> QED BY <2>1, <2>2, <2>3 DEF Lleno
<1>6. CASE PonerUltimo
  <2> DEFINE t == DeDispositivo(disp)
  <2>1. /\ pcDisp = "ultimo" /\ pcDisp' = "fuera" /\ disp \in Dispositivos
        /\ indice = ultimo /\ ultimo' = Siguiente(ultimo)
        /\ UNCHANGED <<tablaTareas, primero, disp, indice, pcSW, obtenida, roto>>
        /\ Anotar(<<t>>)
    BY <1>6 DEF PonerUltimo, IrA
  <2>2. primero # Siguiente(ultimo)
    BY <2>1 DEF Lleno
  <2>3. t \in Tareas /\ cola' = Append(cola, t)
    <3>1. t \in Tareas /\ cola \in Seq(Tareas)
      BY <2>1, TareasBien
    <3> QED BY <2>1, <3>1, AnotarUna
  <2>4. tablaTareas[ultimo] = t
    <3>1. tablaTareas[ultimo] \in Tareas
      OBVIOUS
    <3>2. tablaTareas[ultimo].funcion = "interrupcionSW" /\ tablaTareas[ultimo].datos = disp
      BY <2>1
    <3> QED BY <3>1, <3>2 DEF Tareas, DeDispositivo, Tarea
  <2> HIDE DEF t
  <2>5. EsCola(tablaTareas, primero, Siguiente(ultimo), Append(cola, t), k)
    BY <2>2, <2>3, <2>4, AvanzarUltimo
  <2>6. Append(cola, t) \in Seq(Tareas)
    BY <2>3, AppendProperties
  <2>7. Siguiente(ultimo) \in Huecos
    BY CuentasDelAnillo
  <2>8. ASSUME pcSW = "ejecutar" PROVE Append(cola, t)[1] = cola[1]
    <3>1. EsCola(tablaTareas, primero, ultimo, cola, 1)
      BY <2>8
    <3>2. primero \in Huecos /\ ultimo \in Huecos /\ cola \in Seq(Tareas)
      OBVIOUS
    <3> HIDE DEF InvTareas
    <3> QED BY <2>3, <3>1, <3>2, PrimeraSeQueda
  <2> QED BY <2>1, <2>2, <2>3, <2>5, <2>6, <2>7, <2>8
<1> QED BY <1>1, <1>2, <1>3, <1>4, <1>5, <1>6

(* Of a spoilt ring, the handler and interrupcionSoftware keep the types.  *)
LEMMA PasoRoto ==
    ASSUME InvTareas, roto, roto',
           \/ \E d \in Dispositivos : InterrupcionHW(d)
           \/ ComprobarLleno \/ CargarUltimo \/ PonerFuncion \/ PonerDatos \/ PonerUltimo
           \/ HayTareasPend \/ ObtenerPrimeraTareaPend \/ LeerFuncion \/ LeerDatos
           \/ AvanzarPrimero \/ Ejecutar
    PROVE  InvTareas'
<1> USE DEF InvTareas, TiposTareas, Insertando, ring, manejador, consumidor, historia, PasoSW, IrA
<1>0. Siguiente(indice) \in Huecos /\ Siguiente(primero) \in Huecos
  BY CuentasDelAnillo
<1>1. CASE \E d \in Dispositivos : InterrupcionHW(d)
  BY <1>1 DEF InterrupcionHW
<1>2. CASE ComprobarLleno
  BY <1>2 DEF ComprobarLleno
<1>3. CASE CargarUltimo
  BY <1>3 DEF CargarUltimo
<1>4. CASE PonerFuncion
  <2>1. "interrupcionSW" \in Funciones
    BY DEF Funciones
  <2> QED BY <1>4, <2>1 DEF PonerFuncion, Tareas
<1>5. CASE PonerDatos
  BY <1>5 DEF PonerDatos, Tareas
<1>6. CASE PonerUltimo
  BY <1>0, <1>6 DEF PonerUltimo, Anotar
<1>7. CASE HayTareasPend \/ ObtenerPrimeraTareaPend
  BY <1>7 DEF HayTareasPend, ObtenerPrimeraTareaPend
<1>8. CASE LeerFuncion
  BY <1>8 DEF LeerFuncion, Tareas
<1>9. CASE LeerDatos
  BY <1>9 DEF LeerDatos, Tareas
<1>10. CASE AvanzarPrimero
  <2>1. UNCHANGED cola
    BY <1>10 DEF AvanzarPrimero
  <2> QED BY <1>0, <1>10, <2>1 DEF AvanzarPrimero
<1>11. CASE Ejecutar
  <2>1. cola' \in Seq(Tareas)
    <3>1. CASE cola = <<>>
      BY <1>11, <3>1 DEF Ejecutar
    <3>2. CASE cola # <<>>
      BY <1>11, <3>2, HeadTailProperties DEF Ejecutar
    <3> QED BY <3>1, <3>2
  <2> QED BY <1>11, <2>1 DEF Ejecutar
<1> QED BY <1>1, <1>2, <1>3, <1>4, <1>5, <1>6, <1>7, <1>8, <1>9, <1>10, <1>11

(* With its last task taken, a spoilt ring is a queue again: the empty one,*)
(* and the task in hand is all that was accepted.                          *)
LEMMA PasoQueSana ==
    ASSUME InvTareas, AvanzarPrimero, roto, ~roto'
    PROVE  InvTareas'
<1>1. /\ pcDisp = "fuera" /\ pcSW = "avanzar" /\ pcSW' = "ejecutar"
      /\ primero' = ultimo /\ primero' = Siguiente(primero)
      /\ cola' = <<obtenida>> /\ roto' = FALSE
      /\ UNCHANGED <<tablaTareas, ultimo, pcDisp, disp, indice, obtenida>>
  BY DEF AvanzarPrimero, PasoSW, manejador, historia
<1>2. TiposTareas /\ obtenida \in Tareas /\ ultimo \in Huecos
  BY DEF InvTareas, TiposTareas
<1>3. TiposTareas'
  <2>1. cola' \in Seq(Tareas)
    BY <1>1, <1>2
  <2> QED BY <1>1, <1>2, <2>1 DEF TiposTareas
<1>4. PuntosManejador'
  BY <1>1 DEF PuntosManejador, Insertando, ConIndice, FuncionPuesta, DatosPuestos
<1>5. PuntosSW'
  BY <1>1 DEF PuntosSW
<1>6. AnilloEsCola'
  <2>1. Cuantas(ultimo, ultimo) = 0
    BY <1>2, CuentasDelAnillo
  <2>2. Len(cola') = 1
    BY <1>1
  <2>3. EsCola(tablaTareas, ultimo, ultimo, cola', 1)
    BY <2>1, <2>2 DEF EsCola
  <2> QED BY <1>1, <2>3 DEF AnilloEsCola
<1> QED BY <1>3, <1>4, <1>5, <1>6 DEF InvTareas

(* interrupcionSoftware takes the first task, one access at a time.        *)
LEMMA PasoSoftware ==
    ASSUME InvTareas, ~roto,
           HayTareasPend \/ ObtenerPrimeraTareaPend \/ LeerFuncion \/ LeerDatos
             \/ AvanzarPrimero \/ Ejecutar
    PROVE  InvTareas'
<1> USE DEF InvTareas, TiposTareas, PuntosManejador, PuntosSW, AnilloEsCola,
            Insertando, ConIndice, FuncionPuesta, DatosPuestos, ring, manejador, consumidor,
            PasoSW, historia
<1>1. CASE HayTareasPend \/ ObtenerPrimeraTareaPend
  BY <1>1 DEF HayTareasPend, ObtenerPrimeraTareaPend, Lleno
<1>2. CASE LeerFuncion
  BY <1>2 DEF LeerFuncion, Tareas, Lleno
<1>3. CASE LeerDatos
  BY <1>3 DEF LeerDatos, Tareas, Lleno
<1>4. CASE AvanzarPrimero
  <2>1. /\ pcDisp = "fuera" /\ pcSW = "avanzar" /\ pcSW' = "ejecutar"
        /\ primero' = Siguiente(primero)
        /\ UNCHANGED <<tablaTareas, ultimo, pcDisp, disp, indice, obtenida, cola, roto>>
    BY <1>4 DEF AvanzarPrimero
  <2>2. primero # ultimo /\ EsCola(tablaTareas, primero, ultimo, cola, 0)
    BY <2>1
  <2>3. EsCola(tablaTareas, Siguiente(primero), ultimo, cola, 1) /\ cola[1] = tablaTareas[primero]
    <3>1. primero \in Huecos /\ ultimo \in Huecos
      OBVIOUS
    <3> HIDE DEF InvTareas
    <3> QED BY <2>2, <3>1, AvanzarPor
  <2>4. tablaTareas[primero] = obtenida
    BY <2>1 DEF Tareas
  <2>5. Siguiente(primero) \in Huecos
    BY CuentasDelAnillo
  <2> QED BY <2>1, <2>3, <2>4, <2>5
<1>5. CASE Ejecutar
  <2>1. /\ pcDisp = "fuera" /\ pcSW = "ejecutar" /\ pcSW' = "comprobar"
        /\ cola' = IF cola = <<>> THEN <<>> ELSE Tail(cola)
        /\ UNCHANGED <<tablaTareas, primero, ultimo, pcDisp, disp, indice, obtenida, roto>>
    BY <1>5 DEF Ejecutar
  <2>2. EsCola(tablaTareas, primero, ultimo, cola, 1)
    BY <2>1
  <2>3. /\ cola # <<>> /\ Tail(cola) \in Seq(Tareas)
        /\ EsCola(tablaTareas, primero, ultimo, Tail(cola), 0)
    BY <2>2, QuitarPrimera
  <2> QED BY <2>1, <2>3
<1> QED BY <1>1, <1>2, <1>3, <1>4, <1>5

LEMMA InvTareasInductivo == InvTareas /\ [Next]_vars => InvTareas'
<1> SUFFICES ASSUME InvTareas, [Next]_vars PROVE InvTareas'
  OBVIOUS
<1>0. roto \in BOOLEAN
  BY DEF InvTareas, TiposTareas
<1>1. CASE InterrupcionReloj
  BY <1>1, PasoReloj
<1>2. CASE \/ \E d \in Dispositivos : InterrupcionHW(d)
           \/ ComprobarLleno \/ CargarUltimo \/ PonerFuncion \/ PonerDatos \/ PonerUltimo
  <2>1. roto' = roto
    BY <1>2 DEF InterrupcionHW, ComprobarLleno, CargarUltimo, PonerFuncion, PonerDatos,
                PonerUltimo, historia
  <2>2. CASE roto
    BY <1>2, <2>1, <2>2, PasoRoto
  <2>3. CASE ~roto
    BY <1>2, <2>3, PasoManejador
  <2> QED BY <2>2, <2>3
<1>3. CASE HayTareasPend \/ ObtenerPrimeraTareaPend \/ LeerFuncion \/ LeerDatos
             \/ AvanzarPrimero \/ Ejecutar
  <2>1. CASE ~roto
    BY <1>3, <2>1, PasoSoftware
  <2>2. CASE roto /\ roto'
    BY <1>3, <2>2, PasoRoto
  <2>3. CASE roto /\ ~roto'
    <3>1. AvanzarPrimero
      BY <1>3, <2>3 DEF HayTareasPend, ObtenerPrimeraTareaPend, LeerFuncion, LeerDatos,
                        Ejecutar, historia
    <3> QED BY <2>3, <3>1, PasoQueSana
  <2> QED BY <2>1, <2>2, <2>3
<1>4. CASE UNCHANGED vars
  BY <1>4 DEF vars, ring, manejador, consumidor, historia, InvTareas, TiposTareas,
              PuntosManejador, PuntosSW, AnilloEsCola, Lleno
<1> QED BY <1>1, <1>2, <1>3, <1>4 DEF Next

(* Between insertions, what is in hand and in the ring is the queue.       *)
LEMMA InvTareasDaCola == InvTareas => BufferEsCola
<1> SUFFICES ASSUME InvTareas, ~roto PROVE EnCurso \o EnBuffer = cola
  BY DEF BufferEsCola
<1> DEFINE n == Cuantas(primero, ultimo)
           k == IF pcSW = "ejecutar" THEN 1 ELSE 0
<1>1. /\ primero \in Huecos /\ ultimo \in Huecos /\ tablaTareas \in [Huecos -> Tareas]
      /\ obtenida \in Tareas /\ cola \in Seq(Tareas)
  BY DEF InvTareas, TiposTareas
<1>2. n \in Nat /\ \A i \in 1 .. n : Hueco(primero, i) \in Huecos
  BY <1>1, CuentasDelAnillo DEF Huecos
<1>3. Len(cola) = k + n /\ \A i \in 1 .. n : tablaTareas[Hueco(primero, i)] = cola[k + i]
  BY DEF InvTareas, AnilloEsCola, EsCola
<1>4. k = 1 => cola[1] = obtenida
  BY DEF InvTareas, PuntosSW
<1>5. EnBuffer = [i \in 1 .. n |-> tablaTareas[Hueco(primero, i)]]
  BY DEF EnBuffer, Cuantas, Hueco
<1> HIDE DEF n
<1>6. /\ EnBuffer \in Seq(Tareas) /\ Len(EnBuffer) = n
      /\ \A i \in 1 .. n : EnBuffer[i] = cola[k + i]
  <2>1. \A i \in 1 .. n : tablaTareas[Hueco(primero, i)] \in Tareas
    BY <1>1, <1>2
  <2>2. EnBuffer \in [1 .. n -> Tareas]
    BY <1>5, <2>1
  <2>3. EnBuffer \in Seq(Tareas) /\ Len(EnBuffer) = n
    BY <1>2, <2>2
  <2> QED BY <1>3, <1>5, <2>3
<1>7. EnCurso \in Seq(Tareas) /\ Len(EnCurso) = k /\ (k = 1 => EnCurso[1] = obtenida)
  BY <1>1 DEF EnCurso
<1> DEFINE c == EnCurso \o EnBuffer
<1>8. /\ c \in Seq(Tareas) /\ Len(c) = k + n
      /\ \A i \in 1 .. k + n : c[i] = IF i <= k THEN EnCurso[i] ELSE EnBuffer[i - k]
  <2>1. /\ c \in Seq(Tareas) /\ Len(c) = Len(EnCurso) + Len(EnBuffer)
        /\ \A i \in 1 .. Len(EnCurso) + Len(EnBuffer) :
              c[i] = IF i <= Len(EnCurso) THEN EnCurso[i] ELSE EnBuffer[i - Len(EnCurso)]
    BY <1>6, <1>7, ConcatProperties
  <2> QED BY <1>6, <1>7, <2>1
<1> HIDE DEF c
<1>9. ASSUME NEW i \in 1 .. k + n PROVE c[i] = cola[i]
  <2>1. CASE i <= k
    <3>1. i = 1 /\ k = 1
      BY <1>2, <2>1
    <3> QED BY <1>4, <1>7, <1>8, <2>1, <3>1
  <2>2. CASE ~(i <= k)
    <3>1. i - k \in 1 .. n /\ k + (i - k) = i
      BY <1>2, <2>2
    <3>2. EnBuffer[i - k] = cola[i]
      BY <1>6, <3>1
    <3> QED BY <1>8, <2>2, <3>2
  <2> QED BY <2>1, <2>2
<1>10. c = cola
  BY <1>1, <1>3, <1>8, <1>9, SeqEqual
<1> QED BY <1>10 DEF c

(***************************************************************************)
(* The ring is always a queue, wherever the clock falls: what it spoils    *)
(* inside a device's insertion, as in MCTareasDisp, is gone when the ring  *)
(* next empties.                                                           *)
(***************************************************************************)
THEOREM AnilloSiempreCola == Spec => []BufferEsCola
<1>1. Init => InvTareas
  BY InitTareas
<1>2. InvTareas /\ [Next]_vars => InvTareas'
  BY InvTareasInductivo
<1>3. InvTareas => BufferEsCola
  BY InvTareasDaCola
<1> QED BY <1>1, <1>2, <1>3, PTL DEF Spec
=============================================================================
