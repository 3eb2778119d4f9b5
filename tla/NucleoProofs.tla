---------------------------- MODULE NucleoProofs ----------------------------
(***************************************************************************)
(* Proofs about Nucleo and its keyboard, for any number of processes and   *)
(* of slots of the ring of tasks, any slice, any clock and any programs:   *)
(* each process is in the list that its state names; the sleepers stay in  *)
(* order; as long as the clock does not wrap around, no wake-up is lost,   *)
(* full ring or not, and none comes early; and no reader of the keyboard   *)
(* is forgotten beside a character.                                        *)
(***************************************************************************)
EXTENDS PlazoSleep, Teclado, SecuenciasLemas

-----------------------------------------------------------------------------
(* The sleepers                                                            *)

(***************************************************************************)
(* insertarOrdenadoListaBCP keeps what insertarUltimoListaBCP keeps, and   *)
(* the order of waking up.                                                 *)
(***************************************************************************)
LEMMA InsertarEnOrden ==
    ASSUME NEW S, NEW s \in Seq(S), NEW p \in S, NEW td \in [S -> Nat]
    PROVE  LET t == InsertarOrdenado(s, p, td)
           IN  /\ t \in Seq(S)
               /\ ToSet(t) = ToSet(s) \cup {p}
               /\ IsInjective(s) /\ p \notin ToSet(s) => IsInjective(t)
               /\ (\A i, j \in DOMAIN s : i < j => td[s[i]] <= td[s[j]])
                     => \A i, j \in DOMAIN t : i < j => td[t[i]] <= td[t[j]]
<1> DEFINE t == Intercalado(s, p, td)
<1>1. InsertarOrdenado(s, p, td) = t
  BY DEF InsertarOrdenado, Intercalado
<1>2. /\ t \in Seq(S)
      /\ ToSet(t) = ToSet(s) \cup {p}
      /\ IsInjective(s) /\ p \notin ToSet(s) => IsInjective(t)
      /\ (\A i, j \in DOMAIN s : i < j => td[s[i]] <= td[s[j]])
            => \A i, j \in DOMAIN t : i < j => td[t[i]] <= td[t[j]]
  BY IntercaladoEnOrden
<1> HIDE DEF t
<1> QED BY <1>1, <1>2

-----------------------------------------------------------------------------
(* The ready queues                                                        *)

ColasDe(P) == [Prioridades -> Seq(P)]

(* The processes of the queue of level n.                                  *)
Miembros(l, n) == ToSet(l[n])

LEMMA ListaVacia ==
    ToSet(<<>>) = {} /\ IsInjective(<<>>)
BY DEF ToSet, IsInjective

(* insertarListaListos: the queue of that level gains the process and the  *)
(* other does not change.                                                  *)
LEMMA InsertarEnListos ==
    ASSUME NEW P, NEW l \in ColasDe(P), NEW n \in Prioridades, NEW p \in P
    PROVE  LET m == InsertarListos(l, n, p)
           IN  /\ m \in ColasDe(P)
               /\ Miembros(m, n) = Miembros(l, n) \cup {p}
               /\ IsInjective(l[n]) /\ p \notin Miembros(l, n) => IsInjective(m[n])
               /\ \A k \in Prioridades \ {n} : m[k] = l[k]
<1> DEFINE m == InsertarListos(l, n, p)
<1>1. l[n] \in Seq(P) /\ m = [l EXCEPT ![n] = Append(l[n], p)]
  BY DEF ColasDe, InsertarListos
<1>2. /\ Append(l[n], p) \in Seq(P)
      /\ ToSet(Append(l[n], p)) = ToSet(l[n]) \cup {p}
      /\ IsInjective(l[n]) /\ p \notin ToSet(l[n]) => IsInjective(Append(l[n], p))
  BY <1>1, Insertar
<1> HIDE DEF m
<1>3. m \in ColasDe(P) /\ m[n] = Append(l[n], p) /\ \A k \in Prioridades \ {n} : m[k] = l[k]
  BY <1>1, <1>2 DEF ColasDe
<1> QED BY <1>2, <1>3 DEF m, Miembros

(* planificador: nobody is returned only with both queues empty; otherwise *)
(* the first of one queue is, and it leaves that queue.                    *)
LEMMA ElegirProceso ==
    ASSUME NEW P, NULL \notin P, NEW l \in ColasDe(P)
    PROVE  LET q == Planificador(l)
               m == SinElegido(l)
           IN  /\ q = NULL <=> \A n \in Prioridades : l[n] = <<>>
               /\ q # NULL =>
                     /\ q \in P /\ m \in ColasDe(P)
                     /\ \E n \in Prioridades :
                           /\ Miembros(l, n) = Miembros(m, n) \cup {q}
                           /\ IsInjective(l[n]) => IsInjective(m[n]) /\ q \notin Miembros(m, n)
                           /\ \A k \in Prioridades \ {n} : m[k] = l[k]
<1> DEFINE n == NivelElegido(l)
           q == Planificador(l)
           m == SinElegido(l)
<1>1. /\ n \in Prioridades /\ l[n] \in Seq(P)
      /\ l[n] = <<>> <=> \A k \in Prioridades : l[k] = <<>>
  BY DEF NivelElegido, Prioridades, ColasDe
<1>2. q = (IF l[n] = <<>> THEN NULL ELSE Head(l[n])) /\ m = [l EXCEPT ![n] = Tail(l[n])]
  BY DEF Planificador, SinElegido
<1> HIDE DEF n, q, m
<1>3. CASE l[n] = <<>>
  BY <1>1, <1>2, <1>3 DEF n, q, m
<1>4. CASE l[n] # <<>>
  <2>1. /\ Head(l[n]) \in P /\ Tail(l[n]) \in Seq(P)
        /\ ToSet(l[n]) = ToSet(Tail(l[n])) \cup {Head(l[n])}
        /\ IsInjective(l[n]) => IsInjective(Tail(l[n])) /\ Head(l[n]) \notin ToSet(Tail(l[n]))
    BY <1>1, <1>4, Eliminar
  <2>2. q = Head(l[n]) /\ q # NULL
    BY <1>2, <1>4, <2>1
  <2>3. m \in ColasDe(P) /\ m[n] = Tail(l[n]) /\ \A k \in Prioridades \ {n} : m[k] = l[k]
    BY <1>1, <1>2, <2>1 DEF ColasDe
  <2>4. /\ q \in P
        /\ Miembros(l, n) = Miembros(m, n) \cup {q}
        /\ IsInjective(l[n]) => IsInjective(m[n]) /\ q \notin Miembros(m, n)
    BY <2>1, <2>2, <2>3 DEF Miembros
  <2> QED BY <1>1, <1>4, <2>2, <2>3, <2>4 DEF q, m
<1> QED BY <1>3, <1>4

-----------------------------------------------------------------------------
(***************************************************************************)
(* Particion says where every process is.  It is inductive together with   *)
(* TypeOK; the steps of the actions are easier to tell one by one when it  *)
(* is stated of the lists and the states alone, with the set A of the      *)
(* processes that are in none of the lists, whose state is not told.       *)
(***************************************************************************)
Separadas(l, d) ==
    /\ IsInjective(d)
    /\ \A n \in Prioridades : IsInjective(l[n])
    /\ \A n \in Prioridades : Miembros(l, n) \cap ToSet(d) = {}
    /\ Miembros(l, PRIORIDAD_NORMAL) \cap Miembros(l, PRIORIDAD_ALTA) = {}

EnAlguna(l, p) == \E n \in Prioridades : p \in Miembros(l, n)

Reparto(est, l, d, A) ==
    /\ Separadas(l, d)
    /\ \A p \in A : ~EnAlguna(l, p) /\ p \notin ToSet(d)
    /\ \A p \in Procesos \ A :
          /\ est[p] = LISTO <=> EnAlguna(l, p)
          /\ est[p] = BLOQUEADO <=> p \in ToSet(d)
          /\ est[p] # EJECUCION

LEMMA EstadosDistintos ==
    /\ NO_USADA # LISTO /\ NO_USADA # EJECUCION /\ NO_USADA # BLOQUEADO
    /\ LISTO # EJECUCION /\ LISTO # BLOQUEADO /\ EJECUCION # BLOQUEADO
    /\ {NO_USADA, LISTO, EJECUCION, BLOQUEADO} \subseteq Estados
BY DEF NO_USADA, LISTO, EJECUCION, BLOQUEADO, Estados

LEMMA MiembrosSonProcesos ==
    ASSUME NEW l \in ColasDe(Procesos), NEW d \in Seq(Procesos)
    PROVE  /\ \A n \in Prioridades : Miembros(l, n) \subseteq Procesos
           /\ ToSet(d) \subseteq Procesos
<1>1. \A s \in Seq(Procesos) : ToSet(s) \subseteq Procesos
  BY LenProperties, ElementOfSeq DEF ToSet
<1> QED BY <1>1 DEF ColasDe, Miembros

(* A process that is in no list goes to the end of a ready queue.          *)
LEMMA RepartoInsertar ==
    ASSUME NEW est \in [Procesos -> Estados], NEW l \in ColasDe(Procesos), NEW d, NEW A,
           Reparto(est, l, d, A),
           NEW p \in Procesos, p \in A, NEW n \in Prioridades
    PROVE  /\ InsertarListos(l, n, p) \in ColasDe(Procesos)
           /\ Reparto([est EXCEPT ![p] = LISTO], InsertarListos(l, n, p), d, A \ {p})
<1> DEFINE m == InsertarListos(l, n, p)
           e == [est EXCEPT ![p] = LISTO]
<1>1. /\ m \in ColasDe(Procesos)
      /\ Miembros(m, n) = Miembros(l, n) \cup {p}
      /\ IsInjective(l[n]) /\ p \notin Miembros(l, n) => IsInjective(m[n])
      /\ \A k \in Prioridades \ {n} : m[k] = l[k] /\ Miembros(m, k) = Miembros(l, k)
  <2>1. m \in ColasDe(Procesos) /\ Miembros(m, n) = Miembros(l, n) \cup {p}
    BY InsertarEnListos
  <2>2. IsInjective(l[n]) /\ p \notin Miembros(l, n) => IsInjective(m[n])
    BY InsertarEnListos
  <2>3. \A k \in Prioridades \ {n} : m[k] = l[k]
    BY InsertarEnListos
  <2> QED BY <2>1, <2>2, <2>3 DEF Miembros
<1>2. e[p] = LISTO /\ \A x \in Procesos \ {p} : e[x] = est[x]
  OBVIOUS
<1> HIDE DEF m, e
<1>3. \A x : EnAlguna(m, x) <=> EnAlguna(l, x) \/ x = p
  BY <1>1 DEF EnAlguna
<1>4. p \notin ToSet(d) /\ \A k \in Prioridades : p \notin Miembros(l, k)
  BY DEF Reparto, EnAlguna
<1>5. Separadas(m, d)
  BY <1>1, <1>4, PrioridadesAssumption DEF Separadas, Reparto, Prioridades
<1>6. \A x \in A \ {p} : ~EnAlguna(m, x) /\ x \notin ToSet(d)
  BY <1>3 DEF Reparto
<1>7. ASSUME NEW x \in Procesos \ (A \ {p})
      PROVE  /\ e[x] = LISTO <=> EnAlguna(m, x)
             /\ e[x] = BLOQUEADO <=> x \in ToSet(d)
             /\ e[x] # EJECUCION
  <2>1. CASE x = p
    BY <1>2, <1>3, <1>4, <2>1, EstadosDistintos
  <2>2. CASE x # p
    BY <1>2, <1>3, <2>2 DEF Reparto
  <2> QED BY <2>1, <2>2
<1> QED BY <1>1, <1>5, <1>6, <1>7 DEF Reparto, m, e

(* planificador takes a process from a ready queue: it was LISTO.          *)
LEMMA RepartoElegir ==
    ASSUME NEW est \in [Procesos -> Estados], NEW l \in ColasDe(Procesos), NEW d, NEW A,
           Reparto(est, l, d, A), Planificador(l) # NULL, NEW st
    PROVE  LET q == Planificador(l)
           IN  /\ q \in Procesos /\ q \notin A /\ est[q] = LISTO
               /\ SinElegido(l) \in ColasDe(Procesos)
               /\ Reparto([est EXCEPT ![q] = st], SinElegido(l), d, A \cup {q})
<1> DEFINE q == Planificador(l)
           m == SinElegido(l)
           e == [est EXCEPT ![q] = st]
<1>1. q \in Procesos /\ m \in ColasDe(Procesos)
  BY NULLAssumption, ElegirProceso
<1>2. PICK n \in Prioridades :
        /\ Miembros(l, n) = Miembros(m, n) \cup {q}
        /\ IsInjective(l[n]) => IsInjective(m[n]) /\ q \notin Miembros(m, n)
        /\ \A k \in Prioridades \ {n} : m[k] = l[k]
  BY NULLAssumption, ElegirProceso
<1>3. \A x \in Procesos \ {q} : e[x] = est[x]
  OBVIOUS
<1> HIDE DEF q, m, e
<1>4. \A k \in Prioridades \ {n} : Miembros(m, k) = Miembros(l, k)
  BY <1>2 DEF Miembros
<1>5. /\ IsInjective(m[n]) /\ q \notin Miembros(m, n) /\ q \in Miembros(l, n)
      /\ \A k \in Prioridades \ {n} : q \notin Miembros(l, k)
  BY <1>2, PrioridadesAssumption DEF Reparto, Separadas, Prioridades
<1>6. ~EnAlguna(m, q) /\ EnAlguna(l, q)
  BY <1>4, <1>5 DEF EnAlguna
<1>7. \A x : x # q => (EnAlguna(m, x) <=> EnAlguna(l, x))
  BY <1>2, <1>4 DEF EnAlguna
<1>8. Separadas(m, d) /\ q \notin ToSet(d)
  BY <1>2, <1>4, <1>5 DEF Reparto, Separadas, Prioridades
<1>9. est[q] = LISTO /\ q \notin A
  BY <1>1, <1>6 DEF Reparto
<1>10. \A x \in Procesos \ (A \cup {q}) :
        /\ e[x] = LISTO <=> EnAlguna(m, x)
        /\ e[x] = BLOQUEADO <=> x \in ToSet(d)
        /\ e[x] # EJECUCION
  BY <1>3, <1>7 DEF Reparto
<1>11. \A x \in A \cup {q} : ~EnAlguna(m, x) /\ x \notin ToSet(d)
  BY <1>6, <1>7, <1>8 DEF Reparto
<1> QED BY <1>1, <1>8, <1>9, <1>10, <1>11 DEF Reparto, q, m, e

(* sis_sleep: a process that is in no list becomes a sleeper.              *)
LEMMA RepartoDormir ==
    ASSUME NEW est \in [Procesos -> Estados], NEW l, NEW d \in Seq(Procesos), NEW A,
           Reparto(est, l, d, A),
           NEW p \in Procesos, p \in A, NEW td \in [Procesos -> Nat]
    PROVE  Reparto([est EXCEPT ![p] = BLOQUEADO], l, InsertarOrdenado(d, p, td), A \ {p})
<1> DEFINE c == InsertarOrdenado(d, p, td)
           e == [est EXCEPT ![p] = BLOQUEADO]
<1>1. ToSet(c) = ToSet(d) \cup {p} /\ (IsInjective(d) /\ p \notin ToSet(d) => IsInjective(c))
  BY InsertarEnOrden
<1>2. e[p] = BLOQUEADO /\ \A x \in Procesos \ {p} : e[x] = est[x]
  OBVIOUS
<1> HIDE DEF c, e
<1>3. ~EnAlguna(l, p) /\ p \notin ToSet(d) /\ \A k \in Prioridades : p \notin Miembros(l, k)
  BY DEF Reparto, EnAlguna
<1>4. Separadas(l, c)
  BY <1>1, <1>3 DEF Separadas, Reparto
<1>5. \A x \in A \ {p} : ~EnAlguna(l, x) /\ x \notin ToSet(c)
  BY <1>1 DEF Reparto
<1>6. ASSUME NEW x \in Procesos \ (A \ {p})
      PROVE  /\ e[x] = LISTO <=> EnAlguna(l, x)
             /\ e[x] = BLOQUEADO <=> x \in ToSet(c)
             /\ e[x] # EJECUCION
  <2>1. CASE x = p
    BY <1>1, <1>2, <1>3, <2>1, EstadosDistintos
  <2>2. CASE x # p
    BY <1>1, <1>2, <2>2 DEF Reparto
  <2> QED BY <2>1, <2>2
<1> QED BY <1>4, <1>5, <1>6 DEF Reparto, c, e

(* despertarDormidos: the first sleeper leaves its list.                   *)
LEMMA RepartoDespertar ==
    ASSUME NEW est, NEW l, NEW d \in Seq(Procesos), d # <<>>, NEW A, Reparto(est, l, d, A)
    PROVE  Head(d) \notin A /\ Reparto(est, l, Tail(d), A \cup {Head(d)})
<1> DEFINE p == Head(d)
           c == Tail(d)
<1>1. /\ ToSet(d) = ToSet(c) \cup {p}
      /\ IsInjective(d) => IsInjective(c) /\ p \notin ToSet(c)
  BY Eliminar
<1> HIDE DEF p, c
<1>2. IsInjective(c) /\ p \notin ToSet(c) /\ Separadas(l, c)
  BY <1>1 DEF Reparto, Separadas
<1>3. p \notin A /\ ~EnAlguna(l, p)
  BY <1>1 DEF Reparto, Separadas, EnAlguna
<1>4. \A x \in A \cup {p} : ~EnAlguna(l, x) /\ x \notin ToSet(c)
  BY <1>1, <1>2, <1>3 DEF Reparto
<1>5. \A x \in Procesos \ (A \cup {p}) :
        /\ est[x] = LISTO <=> EnAlguna(l, x)
        /\ est[x] = BLOQUEADO <=> x \in ToSet(c)
        /\ est[x] # EJECUCION
  BY <1>1 DEF Reparto
<1> QED BY <1>2, <1>3, <1>4, <1>5 DEF Reparto, p, c

(* liberarProceso: a process that is in no list leaves its slot free.      *)
LEMMA RepartoLiberar ==
    ASSUME NEW est \in [Procesos -> Estados], NEW l, NEW d, NEW A, Reparto(est, l, d, A),
           NEW p \in Procesos, p \in A
    PROVE  Reparto([est EXCEPT ![p] = NO_USADA], l, d, A \ {p})
<1> DEFINE e == [est EXCEPT ![p] = NO_USADA]
<1>1. e[p] = NO_USADA /\ \A x \in Procesos \ {p} : e[x] = est[x]
  OBVIOUS
<1> HIDE DEF e
<1>2. ~EnAlguna(l, p) /\ p \notin ToSet(d)
  BY DEF Reparto
<1>3. \A x \in Procesos \ (A \ {p}) :
        /\ e[x] = LISTO <=> EnAlguna(l, x)
        /\ e[x] = BLOQUEADO <=> x \in ToSet(d)
        /\ e[x] # EJECUCION
  BY <1>1, <1>2, EstadosDistintos DEF Reparto
<1> QED BY <1>3 DEF Reparto, e

(* buscarBCPLibre: a free slot is in no list.                              *)
LEMMA RepartoLibre ==
    ASSUME NEW est, NEW l, NEW d, NEW A, Reparto(est, l, d, A),
           NEW p \in Procesos \ A, est[p] = NO_USADA
    PROVE  Reparto(est, l, d, A \cup {p})
BY EstadosDistintos DEF Reparto

-----------------------------------------------------------------------------
(* The inductive invariant                                                 *)

Inv == TypeOK /\ Particion

Fuera == {procesoActual} \cap Procesos

RepartoActual == Reparto(estado, listos, listaDurmiendo, Fuera)

LEMMA ParticionEsReparto ==
    TypeOK => (Particion <=> RepartoActual /\ ActualVivo)
<1> SUFFICES ASSUME TypeOK
             PROVE  Particion <=> Reparto(estado, listos, listaDurmiendo, Fuera) /\ ActualVivo
  BY DEF RepartoActual
<1>1. /\ \A n \in Prioridades : Miembros(listos, n) \subseteq Procesos
      /\ ToSet(listaDurmiendo) \subseteq Procesos
  BY MiembrosSonProcesos DEF TypeOK, ColasDe
<1>2. (\A n : EnCola(n) = Miembros(listos, n)) /\ Esperando = ToSet(listaDurmiendo)
  BY DEF EnCola, Esperando, Miembros
<1>3. \A p : EnAlguna(listos, p) <=> \E n \in Prioridades : p \in EnCola(n)
  BY <1>2 DEF EnAlguna
<1>4. UnaSolaLista <=> /\ Separadas(listos, listaDurmiendo)
                       /\ \A p \in Fuera : ~EnAlguna(listos, p) /\ p \notin ToSet(listaDurmiendo)
  <2>1. (\A n \in Prioridades : procesoActual \notin EnCola(n) \cup Esperando)
          <=> \A p \in Fuera : ~EnAlguna(listos, p) /\ p \notin ToSet(listaDurmiendo)
    <3>1. \E n : n \in Prioridades
      BY DEF Prioridades
    <3> QED BY <1>1, <1>2, <1>3, <3>1 DEF Fuera
  <2> QED BY <1>2, <2>1 DEF UnaSolaLista, Separadas
<1>5. EstadoSegunLista <=>
        \A p \in Procesos \ Fuera :
          /\ estado[p] = LISTO <=> EnAlguna(listos, p)
          /\ estado[p] = BLOQUEADO <=> p \in ToSet(listaDurmiendo)
          /\ estado[p] # EJECUCION
  <2>1. Procesos \ Fuera = Procesos \ {procesoActual}
    BY DEF Fuera
  <2> QED BY <1>2, <1>3, <2>1 DEF EstadoSegunLista
<1> QED BY <1>4, <1>5 DEF Particion, Reparto

LEMMA InitInv == Init => Inv
<1> SUFFICES ASSUME Init PROVE Inv
  OBVIOUS
<1>1. 0 \in Procesos
  BY NucleoAssumption DEF Procesos
<1>2. TypeOK
  <2>1. /\ listos \in [Prioridades -> Seq(Procesos)]
        /\ listaDurmiendo \in Seq(Procesos) /\ listaTareasPend \in Seq(TareasNucleo)
    BY DEF Init
  <2>2. /\ estado \in [Procesos -> Estados] /\ prioridad \in [Procesos -> Prioridades]
        /\ ticksDespertar \in [Procesos -> Nat] /\ contexto \in [Procesos -> Contextos]
    BY EstadosDistintos DEF Init, Prioridades, Contextos
  <2>3. rodaja \in [Procesos -> 0 .. TICKS_POR_RODAJA - 1]
    BY NucleoAssumption DEF Init
  <2> QED BY <1>1, <2>1, <2>2, <2>3 DEF Init, TypeOK, Modos, Contextos
<1>3. ActualVivo
  BY <1>1, NULLAssumption DEF Init, ActualVivo
<1>4. Reparto(estado, listos, listaDurmiendo, Fuera)
  <2>1. /\ \A n \in Prioridades : listos[n] = <<>> /\ Miembros(listos, n) = {}
        /\ listaDurmiendo = <<>> /\ ToSet(listaDurmiendo) = {}
    BY ListaVacia DEF Init, Miembros
  <2>2. \A p \in Procesos \ Fuera : estado[p] = NO_USADA
    BY <1>1 DEF Init, Fuera
  <2>3. Separadas(listos, listaDurmiendo) /\ \A p : ~EnAlguna(listos, p)
    BY <2>1, ListaVacia DEF Separadas, EnAlguna, Prioridades
  <2> QED BY <2>1, <2>2, <2>3, EstadosDistintos DEF Reparto
<1> QED BY <1>2, <1>3, <1>4, ParticionEsReparto DEF Inv, RepartoActual

(***************************************************************************)
(* What CederCPU leaves behind: the process that gets the CPU comes from   *)
(* the ready queues, and no other changes.  C are the points where a       *)
(* process may go on, and R the processes kept out of these lists: a       *)
(* driver has more of both than the kernel.                                *)
(***************************************************************************)
Cedida(C, est, ctx, d, R) ==
    /\ estado' \in [Procesos -> Estados] /\ contexto' \in [Procesos -> C]
    /\ \A p \in Procesos \ Fuera' : contexto'[p] = ctx[p]
    /\ procesoActual' \in Procesos \cup {NULL}
    /\ listos' \in ColasDe(Procesos) /\ modo' \in C \cup {"espera", "esperaFin"}
    /\ Fuera' \cap R = {} /\ Reparto(estado', listos', d, R \cup Fuera')
    /\ ActualVivo'
    /\ \A p \in Procesos \ Fuera' : estado'[p] = est[p]
    /\ procesoActual' # NULL => est[procesoActual'] = LISTO /\ modo' = ctx[procesoActual']

LEMMA CederReparte ==
    ASSUME NEW C, "espera" \notin C, "esperaFin" \notin C, "usuario" \in C, listos \in ColasDe(Procesos),
           NEW est \in [Procesos -> Estados], NEW ctx \in [Procesos -> C],
           NEW d, NEW R, Reparto(est, listos, d, R),
           NEW espera \in {"espera", "esperaFin"}, CederCPU(est, ctx, espera)
    PROVE  Cedida(C, est, ctx, d, R)
<1> USE DEF Cedida
<1> DEFINE q == Planificador(listos)
<1>2. procesoActual' = q
  BY DEF CederCPU, Restaurar
<1>3. CASE q = NULL
  <2>1. modo' = espera /\ estado' = est /\ listos' = listos /\ contexto' = ctx
    BY <1>3 DEF CederCPU
  <2>2. Fuera' = {} /\ R \cup Fuera' = R
    BY <1>2, <1>3, NULLAssumption DEF Fuera
  <2>3. ActualVivo'
    BY <1>2, <1>3, <2>1 DEF ActualVivo
  <2> QED BY <1>2, <1>3, <2>1, <2>2, <2>3
<1>4. CASE q # NULL
  <2> DEFINE st == IF espera = "esperaFin" THEN LISTO ELSE EJECUCION
  <2>1. /\ q \in Procesos /\ q \notin R /\ est[q] = LISTO
        /\ SinElegido(listos) \in ColasDe(Procesos)
        /\ Reparto([est EXCEPT ![q] = st], SinElegido(listos), d, R \cup {q})
    BY <1>4, RepartoElegir
  <2>2. /\ modo' = ctx[q] /\ listos' = SinElegido(listos)
        /\ contexto' = [ctx EXCEPT ![q] = "usuario"]
    BY <1>4 DEF CederCPU, Restaurar
  <2>3. estado' = [est EXCEPT ![q] = st]
    <3>1. estado' = IF espera = "esperaFin" THEN est ELSE [est EXCEPT ![q] = EJECUCION]
      BY <1>4 DEF CederCPU
    <3>2. est = [est EXCEPT ![q] = LISTO]
      BY <2>1
    <3> QED BY <3>1, <3>2
  <2>4. Fuera' = {q}
    BY <1>2, <2>1 DEF Fuera
  <2>5. modo' \in C /\ modo' \notin {"espera", "esperaFin"}
    BY <2>1, <2>2
  <2>6. ActualVivo'
    BY <1>2, <1>4, <2>1, <2>3, <2>5 DEF ActualVivo
  <2>7. estado' \in [Procesos -> Estados]
    BY <2>3, EstadosDistintos
  <2>8. contexto' \in [Procesos -> C] /\ \A p \in Procesos \ Fuera' : contexto'[p] = ctx[p]
    BY <2>2, <2>4
  <2> QED BY <1>2, <2>1, <2>2, <2>3, <2>4, <2>5, <2>6, <2>7, <2>8
<1> QED BY <1>3, <1>4

LEMMA CederMantiene ==
    ASSUME TypeOK, NEW est \in [Procesos -> Estados], NEW ctx \in [Procesos -> Contextos],
           NEW d \in Seq(Procesos), Reparto(est, listos, d, {}),
           NEW espera \in {"espera", "esperaFin"}, CederCPU(est, ctx, espera)
    PROVE  /\ estado' \in [Procesos -> Estados] /\ contexto' \in [Procesos -> Contextos]
           /\ procesoActual' \in Procesos \cup {NULL}
           /\ listos' \in [Prioridades -> Seq(Procesos)] /\ modo' \in Modos
           /\ Reparto(estado', listos', d, Fuera')
           /\ ActualVivo'
<1> DEFINE R == {}
<1>1. /\ listos \in ColasDe(Procesos) /\ "espera" \notin Contextos /\ "esperaFin" \notin Contextos
      /\ "usuario" \in Contextos
      /\ Reparto(est, listos, d, R) /\ R \cup Fuera' = Fuera'
  BY DEF TypeOK, ColasDe, Contextos
<1> HIDE DEF R
<1>2. Cedida(Contextos, est, ctx, d, R)
  BY <1>1, CederReparte
<1> QED BY <1>1, <1>2 DEF Cedida, ColasDe, Modos

LEMMA TareaPendTipo ==
    ASSUME NEW T, NEW lista \in Seq(T), NEW t \in T
    PROVE  InsertarTareaPend(lista, t) \in Seq(T)
BY AppendProperties DEF InsertarTareaPend

(* An action that moves no process and does not take or give the CPU keeps *)
(* the partition.                                                          *)
LEMMA MismoReparto ==
    ASSUME Inv, TypeOK', UNCHANGED <<estado, procesoActual, listos, listaDurmiendo>>,
           procesoActual = NULL <=> modo' \in {"espera", "esperaFin"}
    PROVE  Inv'
<1>1. UNCHANGED <<UnaSolaLista, EstadoSegunLista>>
  BY DEF UnaSolaLista, EstadoSegunLista, EnCola, Esperando
<1>2. ActualVivo'
  BY DEF Inv, Particion, ActualVivo
<1> QED BY <1>1, <1>2 DEF Inv, Particion

LEMMA PasoInterrupciones ==
    ASSUME Inv, InterrupcionReloj \/ EntrarSW \/ ObtenerTarea \/ SalirSW PROVE Inv'
<1> USE DEF Inv
<1>1. CASE InterrupcionReloj
  <2>1. ticks' \in Nat
    BY <1>1, NucleoAssumption DEF InterrupcionReloj, TypeOK
  <2>2. listaTareasPend' \in Seq(TareasNucleo)
    <3>1. InsertarTareaPend(listaTareasPend, "despertarDormidos") \in Seq(TareasNucleo)
      BY TareaPendTipo DEF TypeOK, TareasNucleo
    <3>2. "planificarRodaja" \in TareasNucleo
      BY DEF TareasNucleo
    <3> QED BY <1>1, <3>1, <3>2, TareaPendTipo DEF InterrupcionReloj
  <2>3. TypeOK'
    BY <1>1, <2>1, <2>2 DEF InterrupcionReloj, TypeOK, bcps, planificacion
  <2> QED BY <1>1, <2>3, MismoReparto
          DEF InterrupcionReloj, bcps, planificacion, Particion, ActualVivo
<1>2. CASE EntrarSW
  <2>1. TypeOK'
    BY <1>2 DEF EntrarSW, TypeOK, bcps, Modos, Contextos
  <2> QED BY <1>2, <2>1, MismoReparto DEF EntrarSW, bcps, Particion, ActualVivo
<1>3. CASE ObtenerTarea
  <2>1. /\ Head(listaTareasPend) \in TareasNucleo
        /\ Tail(listaTareasPend) \in Seq(TareasNucleo)
    BY <1>3, HeadTailProperties DEF ObtenerTarea, TypeOK
  <2>2. TypeOK'
    BY <1>3, <2>1 DEF ObtenerTarea, TypeOK, bcps, planificacion
  <2> QED BY <1>3, <2>2, MismoReparto
          DEF ObtenerTarea, bcps, planificacion, Particion, ActualVivo
<1>4. CASE SalirSW
  <2>1. TypeOK'
    BY <1>4 DEF SalirSW, TypeOK, bcps, interrupciones, Modos, Contextos
  <2> QED BY <1>4, <2>1, MismoReparto DEF SalirSW, bcps, interrupciones, Particion, ActualVivo
<1> QED BY <1>1, <1>2, <1>3, <1>4

LEMMA PasoDespertarDormidos ==
    ASSUME Inv, DespertarDormidos PROVE Inv'
<1> DEFINE p == Head(listaDurmiendo)
<1>1. /\ TypeOK /\ ActualVivo
      /\ Reparto(estado, listos, listaDurmiendo, Fuera)
      /\ listos \in ColasDe(Procesos)
  BY ParticionEsReparto DEF Inv, TypeOK, ColasDe, RepartoActual
<1>2. listaDurmiendo # <<>> /\ listaDurmiendo \in Seq(Procesos)
  BY <1>1 DEF DespertarDormidos, HayQueDespertar, TypeOK
<1>3. /\ p \in Procesos /\ Tail(listaDurmiendo) \in Seq(Procesos)
      /\ prioridad[p] \in Prioridades
  BY <1>1, <1>2, Eliminar DEF TypeOK
<1>4. p \notin Fuera /\ Reparto(estado, listos, Tail(listaDurmiendo), Fuera \cup {p})
  BY <1>1, <1>2, RepartoDespertar
<1>5. /\ estado' = [estado EXCEPT ![p] = LISTO]
      /\ listos' = InsertarListos(listos, prioridad[p], p)
      /\ listaDurmiendo' = Tail(listaDurmiendo)
      /\ UNCHANGED <<procesoActual, modo>>
  BY DEF DespertarDormidos
<1>6. /\ listos' \in ColasDe(Procesos)
      /\ Reparto(estado', listos', listaDurmiendo', (Fuera \cup {p}) \ {p})
  <2>1. estado \in [Procesos -> Estados] /\ p \in Fuera \cup {p}
    BY <1>1 DEF TypeOK
  <2>2. /\ InsertarListos(listos, prioridad[p], p) \in ColasDe(Procesos)
        /\ Reparto([estado EXCEPT ![p] = LISTO], InsertarListos(listos, prioridad[p], p),
                   Tail(listaDurmiendo), (Fuera \cup {p}) \ {p})
    BY <1>1, <1>3, <1>4, <2>1, RepartoInsertar
  <2> QED BY <1>5, <2>2
<1>7. Fuera' = (Fuera \cup {p}) \ {p}
  BY <1>4, <1>5 DEF Fuera
<1>8. estado' \in [Procesos -> Estados]
  BY <1>1, <1>5, EstadosDistintos DEF TypeOK
<1>9. TypeOK'
  BY <1>1, <1>3, <1>5, <1>6, <1>8 DEF DespertarDormidos, TypeOK, ColasDe, interrupciones
<1>10. ActualVivo'
  <2>1. procesoActual # p
    BY <1>3, <1>4 DEF Fuera
  <2> QED BY <1>1, <1>5, <2>1 DEF ActualVivo, TypeOK
<1>11. RepartoActual'
  BY <1>6, <1>7 DEF RepartoActual
<1> QED BY <1>9, <1>10, <1>11, ParticionEsReparto, PTL DEF Inv

LEMMA PasoFinTareas ==
    ASSUME Inv, FinDespertarDormidos \/ ContarRodaja PROVE Inv'
<1>1. UNCHANGED <<estado, procesoActual, listos, listaDurmiendo, modo, ticks, listaTareasPend,
                  intSW, prioridad, ticksDespertar, contexto>>
      /\ tarea' = NULL
  BY DEF FinDespertarDormidos, ContarRodaja, bcps, planificacion
<1>2. rodaja' \in [Procesos -> 0 .. TICKS_POR_RODAJA - 1]
  <2>1. rodaja \in [Procesos -> 0 .. TICKS_POR_RODAJA - 1]
    BY DEF Inv, TypeOK
  <2>2. CASE rodaja' = rodaja
    BY <2>1, <2>2
  <2>3. CASE /\ rodaja[procesoActual] + 1 < TICKS_POR_RODAJA
             /\ rodaja' = [rodaja EXCEPT ![procesoActual] = rodaja[procesoActual] + 1]
    <3>1. \A p \in Procesos : rodaja[p] + 1 < TICKS_POR_RODAJA
                                 => rodaja[p] + 1 \in 0 .. TICKS_POR_RODAJA - 1
      BY <2>1, NucleoAssumption
    <3> QED BY <2>1, <2>3, <3>1
  <2> QED BY <2>2, <2>3 DEF FinDespertarDormidos, ContarRodaja, bcps
<1>3. TypeOK'
  BY <1>1, <1>2 DEF Inv, TypeOK
<1> QED BY <1>1, <1>3, MismoReparto DEF Inv, Particion, ActualVivo

(* planificarRodaja takes the CPU away: procesoActual leaves for a queue,  *)
(* and then all is as when a process leaves the CPU.                       *)
LEMMA ExpulsarReparte ==
    ASSUME NEW C, "interrupcion" \in C, "usuario" \in C, "espera" \notin C, "esperaFin" \notin C,
           listos \in ColasDe(Procesos), estado \in [Procesos -> Estados],
           contexto \in [Procesos -> C], prioridad \in [Procesos -> Prioridades],
           procesoActual \in Procesos \cup {NULL},
           NEW d, NEW R, Fuera \cap R = {}, Reparto(estado, listos, d, R \cup Fuera),
           ExpulsarProceso
    PROVE  Cedida(C, [estado EXCEPT ![procesoActual] = LISTO],
                  [contexto EXCEPT ![procesoActual] = "interrupcion"], d, R)
<1> DEFINE p == procesoActual
           l == InsertarListos(listos, prioridad[p], p)
           q == Planificador(l)
           e == [estado EXCEPT ![p] = LISTO]
           c == [contexto EXCEPT ![p] = "interrupcion"]
<1>1. p \in Procesos /\ prioridad[p] \in Prioridades /\ Fuera = {p}
  BY DEF ExpulsarProceso, Fuera
<1>2. e \in [Procesos -> Estados] /\ c \in [Procesos -> C] /\ p \in R \cup Fuera
  BY <1>1, EstadosDistintos
<1>3. l \in ColasDe(Procesos) /\ Reparto(e, l, d, R)
  <2>1. l \in ColasDe(Procesos) /\ Reparto(e, l, d, (R \cup Fuera) \ {p})
    BY <1>1, <1>2, RepartoInsertar
  <2>2. (R \cup Fuera) \ {p} = R
    BY <1>1
  <2> QED BY <2>1, <2>2
<1>4. q # NULL
  <2>1. e[p] = LISTO /\ p \notin R
    BY <1>1
  <2>2. EnAlguna(l, p)
    BY <1>1, <1>3, <2>1 DEF Reparto
  <2>3. \E n \in Prioridades : l[n] # <<>>
    BY <2>2, ListaVacia DEF EnAlguna, Miembros
  <2> QED BY <1>3, <2>3, NULLAssumption, ElegirProceso
<1>5. /\ q \in Procesos /\ q \notin R /\ e[q] = LISTO
      /\ SinElegido(l) \in ColasDe(Procesos)
      /\ Reparto([e EXCEPT ![q] = EJECUCION], SinElegido(l), d, R \cup {q})
  BY <1>2, <1>3, <1>4, RepartoElegir
<1>6. /\ estado' = [e EXCEPT ![q] = EJECUCION] /\ contexto' = [c EXCEPT ![q] = "usuario"]
      /\ listos' = SinElegido(l) /\ procesoActual' = q /\ modo' = c[q]
  <2>1. estado' = [estado EXCEPT ![p] = LISTO, ![q] = EJECUCION]
    BY DEF ExpulsarProceso
  <2>2. /\ contexto' = [c EXCEPT ![q] = "usuario"]
        /\ listos' = SinElegido(l) /\ procesoActual' = q /\ modo' = c[q]
    BY DEF ExpulsarProceso, Restaurar
  <2> QED BY <2>1, <2>2
<1> HIDE DEF p, l, q, e, c
<1>7. Fuera' = {q}
  BY <1>5, <1>6 DEF Fuera
<1>8. modo' \in C
  BY <1>2, <1>5, <1>6
<1>9. estado' \in [Procesos -> Estados] /\ estado'[q] = EJECUCION
  BY <1>2, <1>5, <1>6, EstadosDistintos
<1>10. ActualVivo'
  BY <1>4, <1>6, <1>8, <1>9 DEF ActualVivo
<1>11. \A x \in Procesos \ Fuera' : estado'[x] = e[x]
  BY <1>2, <1>6, <1>7
<1>12. contexto' \in [Procesos -> C] /\ \A x \in Procesos \ Fuera' : contexto'[x] = c[x]
  BY <1>2, <1>6, <1>7
<1>13. Cedida(C, e, c, d, R)
  BY <1>5, <1>6, <1>7, <1>8, <1>9, <1>10, <1>11, <1>12 DEF Cedida
<1> QED BY <1>13 DEF e, c, p

LEMMA PasoExpulsarProceso ==
    ASSUME Inv, ExpulsarProceso PROVE Inv'
<1> DEFINE p == procesoActual
           e == [estado EXCEPT ![p] = LISTO]
           c == [contexto EXCEPT ![p] = "interrupcion"]
           R == {}
<1>1. /\ TypeOK /\ listos \in ColasDe(Procesos) /\ p \in Procesos
      /\ Reparto(estado, listos, listaDurmiendo, Fuera)
  BY ParticionEsReparto DEF Inv, TypeOK, ColasDe, RepartoActual, ExpulsarProceso
<1>2. /\ "interrupcion" \in Contextos /\ "usuario" \in Contextos
      /\ "espera" \notin Contextos /\ "esperaFin" \notin Contextos
  BY DEF Contextos
<1>3. Fuera \cap R = {} /\ R \cup Fuera = Fuera /\ R \cup Fuera' = Fuera'
  OBVIOUS
<1> HIDE DEF p, e, c, R
<1>4. Cedida(Contextos, e, c, listaDurmiendo, R)
  BY <1>1, <1>2, <1>3, ExpulsarReparte DEF TypeOK, p, e, c
<1>5. rodaja' \in [Procesos -> 0 .. TICKS_POR_RODAJA - 1]
  <2>1. 0 \in 0 .. TICKS_POR_RODAJA - 1
    BY NucleoAssumption
  <2> QED BY <1>1, <2>1 DEF TypeOK, ExpulsarProceso
<1>6. UNCHANGED <<prioridad, ticksDespertar, listaDurmiendo, ticks, listaTareasPend, intSW>>
      /\ tarea' = NULL
  BY DEF ExpulsarProceso
<1>7. TypeOK'
  BY <1>1, <1>4, <1>5, <1>6 DEF TypeOK, Cedida, ColasDe, Modos
<1>8. RepartoActual' /\ ActualVivo'
  BY <1>3, <1>4, <1>6 DEF RepartoActual, Cedida
<1> QED BY <1>7, <1>8, ParticionEsReparto, PTL DEF Inv

LEMMA PasoFinEspera ==
    ASSUME Inv, FinEspera PROVE Inv'
<1>1. TypeOK /\ ActualVivo /\ Reparto(estado, listos, listaDurmiendo, Fuera)
  BY ParticionEsReparto DEF Inv, RepartoActual
<1>2. Fuera = {}
  BY <1>1, NULLAssumption DEF FinEspera, ActualVivo, Fuera
<1>3. /\ modo \in {"espera", "esperaFin"}
      /\ CederCPU(estado, contexto, modo)
      /\ UNCHANGED <<prioridad, ticksDespertar, rodaja, listaDurmiendo, interrupciones>>
  BY DEF FinEspera
<1>4. /\ estado \in [Procesos -> Estados] /\ contexto \in [Procesos -> Contextos]
      /\ listaDurmiendo \in Seq(Procesos)
  BY <1>1 DEF TypeOK
<1>5. /\ estado' \in [Procesos -> Estados] /\ contexto' \in [Procesos -> Contextos]
      /\ procesoActual' \in Procesos \cup {NULL}
      /\ listos' \in [Prioridades -> Seq(Procesos)] /\ modo' \in Modos
      /\ Reparto(estado', listos', listaDurmiendo, Fuera')
      /\ ActualVivo'
  BY <1>1, <1>2, <1>3, <1>4, CederMantiene
<1>6. TypeOK' /\ RepartoActual'
  BY <1>1, <1>3, <1>5 DEF TypeOK, RepartoActual, interrupciones
<1> QED BY <1>5, <1>6, ParticionEsReparto, PTL DEF Inv

LEMMA PasoTerminarProceso ==
    ASSUME Inv, TerminarProceso PROVE Inv'
<1> DEFINE p == procesoActual
           e == [estado EXCEPT ![p] = NO_USADA]
<1>1. TypeOK /\ ActualVivo /\ Reparto(estado, listos, listaDurmiendo, Fuera)
  BY ParticionEsReparto DEF Inv, RepartoActual
<1>2. p \in Procesos /\ Fuera = {p}
  BY <1>1 DEF TerminarProceso, EnUsuario, ActualVivo, TypeOK, Fuera
<1>3. /\ CederCPU(e, contexto, "esperaFin")
      /\ UNCHANGED <<prioridad, ticksDespertar, rodaja, listaDurmiendo, interrupciones>>
  BY DEF TerminarProceso
<1>4. /\ e \in [Procesos -> Estados] /\ contexto \in [Procesos -> Contextos]
      /\ listaDurmiendo \in Seq(Procesos)
  BY <1>1, EstadosDistintos DEF TypeOK
<1>5. Reparto(e, listos, listaDurmiendo, {})
  <2>1. Reparto(e, listos, listaDurmiendo, Fuera \ {p})
    BY <1>1, <1>2, RepartoLiberar DEF TypeOK
  <2>2. Fuera \ {p} = {}
    BY <1>2
  <2> QED BY <2>1, <2>2
<1>6. /\ estado' \in [Procesos -> Estados] /\ contexto' \in [Procesos -> Contextos]
      /\ procesoActual' \in Procesos \cup {NULL}
      /\ listos' \in [Prioridades -> Seq(Procesos)] /\ modo' \in Modos
      /\ Reparto(estado', listos', listaDurmiendo, Fuera')
      /\ ActualVivo'
  BY <1>1, <1>3, <1>4, <1>5, CederMantiene
<1>7. TypeOK' /\ RepartoActual'
  BY <1>1, <1>3, <1>6 DEF TypeOK, RepartoActual, interrupciones
<1> QED BY <1>6, <1>7, ParticionEsReparto, PTL DEF Inv

LEMMA PasoSleep ==
    ASSUME Inv, NEW s \in Segundos, Sleep(s) PROVE Inv'
<1> DEFINE p == procesoActual
           e == [estado EXCEPT ![p] = BLOQUEADO]
           c == [contexto EXCEPT ![p] = "llamada"]
<1>1. TypeOK /\ ActualVivo /\ Reparto(estado, listos, listaDurmiendo, Fuera)
  BY ParticionEsReparto DEF Inv, RepartoActual
<1>2. p \in Procesos /\ Fuera = {p}
  BY <1>1 DEF Sleep, EnUsuario, ActualVivo, TypeOK, Fuera
<1>3. /\ CederCPU(e, c, "espera")
      /\ ticksDespertar' = [ticksDespertar EXCEPT ![p] = (ticks + s * TICK) % MOD]
      /\ listaDurmiendo' = InsertarOrdenado(listaDurmiendo, p, ticksDespertar')
      /\ UNCHANGED <<prioridad, rodaja, interrupciones>>
  BY DEF Sleep
<1>4. e \in [Procesos -> Estados] /\ c \in [Procesos -> Contextos]
  BY <1>1, EstadosDistintos DEF TypeOK, Contextos
<1>5. ticksDespertar' \in [Procesos -> Nat]
  <2>1. ticks \in Nat /\ s * TICK \in Nat /\ MOD \in Nat \ {0}
    BY <1>1, NucleoAssumption DEF TypeOK
  <2>2. (ticks + s * TICK) % MOD \in Nat
    BY <2>1
  <2> QED BY <1>1, <1>3, <2>2 DEF TypeOK
<1>6. listaDurmiendo' \in Seq(Procesos)
  <2>1. listaDurmiendo \in Seq(Procesos)
    BY <1>1 DEF TypeOK
  <2>2. InsertarOrdenado(listaDurmiendo, p, ticksDespertar') \in Seq(Procesos)
    BY <1>2, <1>5, <2>1, InsertarEnOrden
  <2> QED BY <1>3, <2>2
<1>7. Reparto(e, listos, listaDurmiendo', {})
  <2>1. estado \in [Procesos -> Estados] /\ listaDurmiendo \in Seq(Procesos) /\ p \in Fuera
    BY <1>1, <1>2 DEF TypeOK
  <2>2. Reparto(e, listos, InsertarOrdenado(listaDurmiendo, p, ticksDespertar'), Fuera \ {p})
    BY <1>1, <1>2, <1>5, <2>1, RepartoDormir
  <2>3. Fuera \ {p} = {}
    BY <1>2
  <2> QED BY <1>3, <2>2, <2>3
<1>8. /\ estado' \in [Procesos -> Estados] /\ contexto' \in [Procesos -> Contextos]
      /\ procesoActual' \in Procesos \cup {NULL}
      /\ listos' \in [Prioridades -> Seq(Procesos)] /\ modo' \in Modos
      /\ Reparto(estado', listos', listaDurmiendo', Fuera')
      /\ ActualVivo'
  BY <1>1, <1>3, <1>4, <1>6, <1>7, CederMantiene
<1>9. TypeOK' /\ RepartoActual'
  BY <1>1, <1>3, <1>5, <1>6, <1>8 DEF TypeOK, RepartoActual, interrupciones
<1> QED BY <1>8, <1>9, ParticionEsReparto, PTL DEF Inv

LEMMA PasoCrearProceso ==
    ASSUME Inv, NEW pri \in PrioridadesCreadas, CrearProceso(pri) PROVE Inv'
<1>1. TypeOK /\ ActualVivo /\ Reparto(estado, listos, listaDurmiendo, Fuera)
  BY ParticionEsReparto DEF Inv, RepartoActual
<1>2. PICK p \in Procesos :
        /\ BCPLibre(p)
        /\ estado' = [estado EXCEPT ![p] = LISTO]
        /\ prioridad' = [prioridad EXCEPT ![p] = pri]
        /\ contexto' = [contexto EXCEPT ![p] = "usuario"]
        /\ listos' = InsertarListos(listos, pri, p)
  BY DEF CrearProceso
<1>3. /\ UNCHANGED <<ticksDespertar, rodaja, procesoActual, listaDurmiendo, modo, interrupciones>>
      /\ pri \in Prioridades /\ estado[p] = NO_USADA /\ modo = "usuario"
  BY <1>2, NucleoAssumption DEF CrearProceso, BCPLibre, EnUsuario
<1>4. p \notin Fuera /\ Fuera' = Fuera /\ procesoActual # p
  BY <1>1, <1>3, EstadosDistintos DEF ActualVivo, Fuera
<1>5. Reparto(estado, listos, listaDurmiendo, Fuera \cup {p})
  BY <1>1, <1>3, <1>4, RepartoLibre
<1>6. listos' \in ColasDe(Procesos) /\ Reparto(estado', listos', listaDurmiendo, Fuera)
  <2>1. estado \in [Procesos -> Estados] /\ listos \in ColasDe(Procesos) /\ p \in Fuera \cup {p}
    BY <1>1 DEF TypeOK, ColasDe
  <2>2. /\ InsertarListos(listos, pri, p) \in ColasDe(Procesos)
        /\ Reparto([estado EXCEPT ![p] = LISTO], InsertarListos(listos, pri, p),
                   listaDurmiendo, (Fuera \cup {p}) \ {p})
    BY <1>3, <1>5, <2>1, RepartoInsertar
  <2>3. (Fuera \cup {p}) \ {p} = Fuera
    BY <1>4
  <2> QED BY <1>2, <2>2, <2>3
<1>7. /\ estado' \in [Procesos -> Estados]
      /\ prioridad' \in [Procesos -> Prioridades] /\ contexto' \in [Procesos -> Contextos]
  BY <1>1, <1>2, <1>3, EstadosDistintos DEF TypeOK, Contextos
<1>8. TypeOK' /\ RepartoActual'
  BY <1>1, <1>3, <1>4, <1>6, <1>7 DEF TypeOK, ColasDe, RepartoActual, interrupciones
<1>9. ActualVivo'
  BY <1>1, <1>2, <1>3, <1>4 DEF ActualVivo, TypeOK
<1> QED BY <1>8, <1>9, ParticionEsReparto, PTL DEF Inv

LEMMA PasoModo ==
    ASSUME Inv, Apagar \/ FinSleep PROVE Inv'
<1>1. UNCHANGED <<bcps, procesoActual, listos, listaDurmiendo, interrupciones>>
      /\ modo' \in {"apagado", "usuario"}
      /\ procesoActual # NULL
  BY DEF Apagar, FinSleep, EnUsuario, Inv, Particion, ActualVivo
<1>2. TypeOK'
  BY <1>1 DEF Inv, TypeOK, bcps, interrupciones, Modos, Contextos
<1> QED BY <1>1, <1>2, MismoReparto DEF bcps

LEMMA PasoNada ==
    ASSUME Inv, UNCHANGED vars PROVE Inv'
<1>1. UNCHANGED <<estado, procesoActual, listos, listaDurmiendo, modo>>
  BY DEF vars, bcps, planificacion
<1>2. TypeOK'
  BY DEF Inv, TypeOK, vars, bcps, planificacion, interrupciones
<1> QED BY <1>1, <1>2, MismoReparto DEF Inv, Particion, ActualVivo

LEMMA InvInductivo == Inv /\ [Next]_vars => Inv'
<1> SUFFICES ASSUME Inv, [Next]_vars PROVE Inv'
  OBVIOUS
<1>1. CASE InterrupcionReloj \/ EntrarSW \/ ObtenerTarea \/ SalirSW
  BY <1>1, PasoInterrupciones
<1>2. CASE Tareas
  BY <1>2, PasoDespertarDormidos, PasoFinTareas, PasoExpulsarProceso DEF Tareas
<1>3. CASE FinEspera
  BY <1>3, PasoFinEspera
<1>4. CASE Llamadas
  BY <1>4, PasoCrearProceso, PasoTerminarProceso, PasoModo, PasoSleep DEF Llamadas
<1>5. CASE FinSleep
  BY <1>5, PasoModo
<1>6. CASE Apagado \/ UNCHANGED vars
  BY <1>6, PasoNada DEF Apagado
<1> QED BY <1>1, <1>2, <1>3, <1>4, <1>5, <1>6 DEF Next

-----------------------------------------------------------------------------
(* Every variable keeps its type whatever the programs and the interrupts  *)
(* do; in particular planificador never returns a process that is not one, *)
(* and sleep is never called with no process running.                      *)
THEOREM TiposCorrectos == Spec => []TypeOK
<1>1. Spec => []Inv
  BY InitInv, InvInductivo, PTL DEF Spec
<1> QED BY <1>1, PTL DEF Inv

(* Of every process, always: it is running, or linked once into exactly    *)
(* one of the lists its state says, or its slot is free.  The kernel never *)
(* loses a process, never runs one twice, and never links into a list a    *)
(* BCP whose siguiente another list needs.                                 *)
THEOREM CadaProcesoEnSuLista == Spec => []Particion
<1>1. Spec => []Inv
  BY InitInv, InvInductivo, PTL DEF Spec
<1> QED BY <1>1, PTL DEF Inv
-----------------------------------------------------------------------------
(* The order of listaDurmiendo                                             *)

Ordenada(d, td) == \A i, j \in DOMAIN d : i < j => td[d[i]] <= td[d[j]]

(* What sleep finds: the process that sleeps is not in the list, so the    *)
(* wake-up times of the list are not the one it changes.                   *)
LEMMA SleepInserta ==
    ASSUME Inv, NEW s \in Segundos, Sleep(s)
    PROVE  /\ procesoActual \in Procesos /\ procesoActual \notin Esperando
           /\ listaDurmiendo \in Seq(Procesos)
           /\ ticksDespertar' \in [Procesos -> Nat]
           /\ ticksDespertar'[procesoActual] = (ticks + s * TICK) % MOD
           /\ \A q \in Procesos \ {procesoActual} : ticksDespertar'[q] = ticksDespertar[q]
           /\ listaDurmiendo' = InsertarOrdenado(listaDurmiendo, procesoActual, ticksDespertar')
<1>1. TypeOK /\ ActualVivo /\ RepartoActual
  BY ParticionEsReparto DEF Inv
<1>2. procesoActual \in Procesos
  BY <1>1 DEF Sleep, EnUsuario, ActualVivo, TypeOK
<1>3. procesoActual \notin Esperando
  BY <1>1, <1>2 DEF RepartoActual, Reparto, Fuera, Esperando
<1>4. ticks \in Nat /\ s * TICK \in Nat /\ MOD \in Nat \ {0} /\ (ticks + s * TICK) % MOD \in Nat
  <2>1. ticks \in Nat /\ s * TICK \in Nat /\ MOD \in Nat \ {0}
    BY <1>1, NucleoAssumption DEF TypeOK
  <2> QED BY <2>1
<1>5. /\ ticksDespertar \in [Procesos -> Nat]
      /\ ticksDespertar' = [ticksDespertar EXCEPT ![procesoActual] = (ticks + s * TICK) % MOD]
      /\ listaDurmiendo' = InsertarOrdenado(listaDurmiendo, procesoActual, ticksDespertar')
      /\ listaDurmiendo \in Seq(Procesos)
  BY <1>1 DEF Sleep, TypeOK
<1> QED BY <1>2, <1>3, <1>4, <1>5

(* The steps that touch neither the sleepers nor their wake-up times.      *)
LEMMA QuienTocaDormidos ==
    ASSUME [Next]_vars
    PROVE  \/ UNCHANGED <<listaDurmiendo, ticksDespertar>>
           \/ DespertarDormidos
           \/ \E s \in Segundos : Sleep(s)
BY DEF Next, Tareas, Llamadas, InterrupcionReloj, EntrarSW, ObtenerTarea, SalirSW,
       FinDespertarDormidos, ContarRodaja, ExpulsarProceso, FinEspera, CrearProceso,
       TerminarProceso, Apagar, FinSleep, Apagado, vars, bcps, planificacion

LEMMA OrdenInductivo ==
    Inv /\ DormidosOrdenados /\ [Next]_vars => DormidosOrdenados'
<1> SUFFICES ASSUME Inv, DormidosOrdenados, [Next]_vars PROVE DormidosOrdenados'
  OBVIOUS
<1>1. Ordenada(listaDurmiendo, ticksDespertar)
  BY DEF DormidosOrdenados, Ordenada
<1>2. Ordenada(listaDurmiendo', ticksDespertar')
  <2>1. CASE UNCHANGED <<listaDurmiendo, ticksDespertar>>
    BY <1>1, <2>1
  <2>2. CASE DespertarDormidos
    <3> DEFINE d == listaDurmiendo
    <3>1. d \in Seq(Procesos) /\ d # <<>> /\ d' = Tail(d) /\ ticksDespertar' = ticksDespertar
      BY <2>2 DEF DespertarDormidos, HayQueDespertar, Inv, TypeOK
    <3>2. /\ Len(d) \in Nat /\ DOMAIN d = 1 .. Len(d) /\ DOMAIN Tail(d) = 1 .. Len(d) - 1
          /\ \A i \in 1 .. Len(d) - 1 : Tail(d)[i] = d[i + 1]
      BY <3>1, HeadTailProperties, LenProperties
    <3>3. ASSUME NEW i \in 1 .. Len(d) - 1, NEW j \in 1 .. Len(d) - 1, i < j
          PROVE  ticksDespertar[Tail(d)[i]] <= ticksDespertar[Tail(d)[j]]
      <4>1. i + 1 \in DOMAIN d /\ j + 1 \in DOMAIN d /\ i + 1 < j + 1
        BY <3>2, <3>3
      <4>2. ticksDespertar[d[i + 1]] <= ticksDespertar[d[j + 1]]
        BY <1>1, <4>1 DEF Ordenada
      <4> QED BY <3>2, <4>2
    <3> HIDE DEF d
    <3>4. Ordenada(Tail(d), ticksDespertar)
      BY <3>2, <3>3 DEF Ordenada
    <3> QED BY <3>1, <3>4 DEF d
  <2>3. ASSUME NEW s \in Segundos, Sleep(s) PROVE Ordenada(listaDurmiendo', ticksDespertar')
    <3> DEFINE td == ticksDespertar'
               d == listaDurmiendo
               p == procesoActual
    <3>1. /\ p \in Procesos /\ p \notin Esperando /\ d \in Seq(Procesos)
          /\ td \in [Procesos -> Nat]
          /\ \A q \in Procesos \ {p} : td[q] = ticksDespertar[q]
          /\ d' = InsertarOrdenado(d, p, td)
      BY <2>3, SleepInserta
    <3>2. \A i \in DOMAIN d : d[i] \in Procesos \ {p}
      BY <3>1, LenProperties, ElementOfSeq DEF Esperando, ToSet
    <3>3. \A i, j \in DOMAIN d : i < j => td[d[i]] <= td[d[j]]
      BY <1>1, <3>1, <3>2 DEF Ordenada
    <3> HIDE DEF td, d, p
    <3>4. LET t == InsertarOrdenado(d, p, td)
          IN  \A i, j \in DOMAIN t : i < j => td[t[i]] <= td[t[j]]
      BY <3>1, <3>3, InsertarEnOrden
    <3>5. Ordenada(InsertarOrdenado(d, p, td), td)
      BY <3>4 DEF Ordenada
    <3> QED BY <3>1, <3>5 DEF td, d, p
  <2> QED BY <2>1, <2>2, <2>3, QuienTocaDormidos
<1> QED BY <1>2 DEF DormidosOrdenados, Ordenada

(* The sleepers are always in order of waking up, so the first of the list *)
(* is late whenever any of them is.                                        *)
THEOREM DormidosSiempreOrdenados == Spec => []DormidosOrdenados
<1>1. Init => DormidosOrdenados
  BY DEF Init, DormidosOrdenados
<1>2. Init => Inv
  BY InitInv
<1>3. Inv /\ [Next]_vars => Inv'
  BY InvInductivo
<1>4. Inv /\ DormidosOrdenados /\ [Next]_vars => DormidosOrdenados'
  BY OrdenInductivo
<1> QED BY <1>1, <1>2, <1>3, <1>4, PTL DEF Spec

-----------------------------------------------------------------------------
(***************************************************************************)
(* No wake-up is lost.  A clock interrupt that finds the ring full loses   *)
(* its despertarDormidos, but then there is one in the ring already: the   *)
(* clock puts its two tasks in order and drops the second whenever it      *)
(* drops the first, so every planificarRodaja but the first of the ring    *)
(* comes right behind a despertarDormidos, and a full ring has two tasks   *)
(* at least.                                                               *)
(***************************************************************************)
Despertar == "despertarDormidos"
Rodaja == "planificarRodaja"

EnPares(r) ==
    /\ Len(r) < MAX_TAREAS
    /\ \A i \in 2 .. Len(r) : r[i] = Rodaja => r[i - 1] = Despertar

(* What a clock interrupt leaves in the ring.                              *)
TrasReloj(r) == InsertarTareaPend(InsertarTareaPend(r, Despertar), Rodaja)

LEMMA RelojEnPares ==
    ASSUME NEW r \in Seq(TareasNucleo), EnPares(r)
    PROVE  EnPares(TrasReloj(r)) /\ Despertar \in ToSet(TrasReloj(r))
<1>1. /\ MAX_TAREAS \in Nat /\ MAX_TAREAS >= 3 /\ Len(r) \in Nat /\ Len(r) < MAX_TAREAS
      /\ DOMAIN r = 1 .. Len(r)
      /\ Despertar \in TareasNucleo /\ Rodaja \in TareasNucleo /\ Despertar # Rodaja
      /\ \A i \in 1 .. Len(r) : r[i] \in {Despertar, Rodaja}
  BY NucleoAssumption, LenProperties, ElementOfSeq DEF EnPares, TareasNucleo, Despertar, Rodaja
<1>2. CASE Len(r) = MAX_TAREAS - 1
  <2>1. TrasReloj(r) = r
    BY <1>2 DEF TrasReloj, InsertarTareaPend
  <2>2. 1 \in DOMAIN r /\ 2 \in DOMAIN r /\ 2 \in 2 .. Len(r) /\ 2 - 1 = 1
    BY <1>1, <1>2
  <2>3. r[2] = Despertar \/ r[1] = Despertar
    BY <1>1, <2>2 DEF EnPares
  <2> QED BY <2>1, <2>2, <2>3 DEF ToSet
<1>3. CASE Len(r) # MAX_TAREAS - 1
  <2> DEFINE u == Append(r, Despertar)
  <2>1. /\ u \in Seq(TareasNucleo) /\ Len(u) = Len(r) + 1 /\ DOMAIN u = 1 .. Len(r) + 1
        /\ u[Len(r) + 1] = Despertar
        /\ \A i \in 1 .. Len(r) : u[i] = r[i]
    BY <1>1, AppendProperties, LenProperties
  <2>2. TrasReloj(r) = InsertarTareaPend(u, Rodaja)
    BY <1>3 DEF TrasReloj, InsertarTareaPend
  <2> HIDE DEF u
  <2>3. EnPares(u) /\ Despertar \in ToSet(u)
    <3>1. ASSUME NEW i \in 2 .. Len(u), u[i] = Rodaja PROVE u[i - 1] = Despertar
      <4>1. i # Len(r) + 1
        BY <1>1, <2>1, <3>1
      <4>2. i \in 2 .. Len(r) /\ i \in 1 .. Len(r) /\ i - 1 \in 1 .. Len(r)
        BY <1>1, <2>1, <4>1
      <4>3. r[i] = Rodaja
        BY <2>1, <3>1, <4>2
      <4>4. r[i - 1] = Despertar
        BY <4>2, <4>3 DEF EnPares
      <4> QED BY <2>1, <4>2, <4>4
    <3>2. Len(u) < MAX_TAREAS
      BY <1>1, <1>3, <2>1
    <3>3. Len(r) + 1 \in DOMAIN u
      BY <1>1, <2>1
    <3> QED BY <2>1, <3>1, <3>2, <3>3 DEF EnPares, ToSet
  <2>4. CASE Len(u) = MAX_TAREAS - 1
    BY <2>2, <2>3, <2>4 DEF InsertarTareaPend
  <2>5. CASE Len(u) # MAX_TAREAS - 1
    <3> DEFINE v == Append(u, Rodaja)
    <3>1. /\ v \in Seq(TareasNucleo) /\ Len(v) = Len(r) + 2 /\ DOMAIN v = 1 .. Len(r) + 2
          /\ \A i \in 1 .. Len(r) + 1 : v[i] = u[i]
      BY <1>1, <2>1, AppendProperties, LenProperties
    <3>2. TrasReloj(r) = v
      BY <2>2, <2>5 DEF InsertarTareaPend
    <3> HIDE DEF v
    <3>3. ASSUME NEW i \in 2 .. Len(v), v[i] = Rodaja PROVE v[i - 1] = Despertar
      <4>1. CASE i = Len(r) + 2
        <5>1. i - 1 = Len(r) + 1 /\ Len(r) + 1 \in 1 .. Len(r) + 1
          BY <1>1, <4>1
        <5> QED BY <2>1, <3>1, <5>1
      <4>2. CASE i # Len(r) + 2
        <5>1. i \in 2 .. Len(u) /\ i \in 1 .. Len(r) + 1 /\ i - 1 \in 1 .. Len(r) + 1
          BY <1>1, <2>1, <3>1, <4>2
        <5>2. u[i] = Rodaja
          BY <3>1, <3>3, <5>1
        <5>3. u[i - 1] = Despertar
          BY <2>3, <5>1, <5>2 DEF EnPares
        <5> QED BY <3>1, <5>1, <5>3
      <4> QED BY <4>1, <4>2
    <3>4. Len(v) < MAX_TAREAS
      BY <1>1, <1>3, <2>1, <2>5, <3>1
    <3>5. Despertar \in ToSet(v)
      <4>1. Len(r) + 1 \in DOMAIN v /\ v[Len(r) + 1] = Despertar
        BY <1>1, <2>1, <3>1
      <4> QED BY <4>1 DEF ToSet
    <3> QED BY <3>2, <3>3, <3>4, <3>5 DEF EnPares
  <2> QED BY <2>4, <2>5
<1> QED BY <1>2, <1>3

LEMMA QuitarEnPares ==
    ASSUME NEW r \in Seq(TareasNucleo), r # <<>>, EnPares(r)
    PROVE  EnPares(Tail(r))
<1> DEFINE u == Tail(r)
<1>1. /\ Len(u) = Len(r) - 1 /\ Len(r) \in Nat \ {0} /\ MAX_TAREAS \in Nat
      /\ \A i \in 1 .. Len(u) : u[i] = r[i + 1]
  BY NucleoAssumption, HeadTailProperties, EmptySeq
<1> HIDE DEF u
<1>2. ASSUME NEW i \in 2 .. Len(u), u[i] = Rodaja PROVE u[i - 1] = Despertar
  <2> DEFINE j == i + 1
  <2>1. j \in 2 .. Len(r) /\ i \in 1 .. Len(u) /\ i - 1 \in 1 .. Len(u) /\ j - 1 = (i - 1) + 1
    BY <1>1
  <2> HIDE DEF j
  <2>2. r[j] = Rodaja
    BY <1>1, <1>2, <2>1 DEF j
  <2>3. r[j - 1] = Despertar
    BY <2>1, <2>2 DEF EnPares
  <2> QED BY <1>1, <2>1, <2>3
<1>3. Len(u) < MAX_TAREAS
  BY <1>1 DEF EnPares
<1> QED BY <1>2, <1>3 DEF EnPares, u

-----------------------------------------------------------------------------
(* The invariant: besides what is proved above, the clock has not gone     *)
(* beyond its bound.                                                       *)
InvPlazos ==
    /\ Inv
    /\ DormidosOrdenados
    /\ EnPares(listaTareasPend)
    /\ ticks <= MaxTicks
    /\ NingunRetraso

LEMMA InitPlazos == Init => InvPlazos
<1> SUFFICES ASSUME Init PROVE InvPlazos
  OBVIOUS
<1>1. Inv
  BY InitInv
<1>2. DormidosOrdenados
  BY DEF Init, DormidosOrdenados
<1>3. EnPares(listaTareasPend) /\ ticks <= MaxTicks
  BY NucleoAssumption DEF Init, EnPares
<1>4. NingunRetraso
  BY ListaVacia DEF Init, NingunRetraso, Esperando
<1> QED BY <1>1, <1>2, <1>3, <1>4 DEF InvPlazos

(* A late sleeper makes the first one late, so despertarDormidos does not  *)
(* end before it has woken them all.                                       *)
LEMMA PrimeroTarde ==
    ASSUME Inv, DormidosOrdenados, NEW p \in Esperando, ticksDespertar[p] < ticks
    PROVE  HayQueDespertar
<1> DEFINE d == listaDurmiendo
<1>1. /\ d \in Seq(Procesos) /\ ticks \in Nat
      /\ ticksDespertar \in [Procesos -> Nat]
  BY DEF Inv, TypeOK
<1>2. DOMAIN d = 1 .. Len(d) /\ Len(d) \in Nat /\ \A i \in 1 .. Len(d) : d[i] \in Procesos
  BY <1>1, LenProperties, ElementOfSeq
<1>3. PICK i \in 1 .. Len(d) : d[i] = p
  BY <1>2 DEF Esperando, ToSet
<1>4. d # <<>> /\ Head(d) = d[1] /\ 1 \in 1 .. Len(d)
  <2>1. d # <<>> /\ 1 \in 1 .. Len(d)
    BY <1>1, <1>2, <1>3, EmptySeq
  <2> QED BY <1>1, <2>1, HeadTailProperties
<1>5. ticksDespertar[d[1]] <= ticksDespertar[d[i]]
  <2>1. CASE i = 1
    BY <1>1, <1>2, <1>4, <2>1
  <2>2. CASE i # 1
    <3>1. 1 < i
      BY <1>2, <2>2
    <3> QED BY <1>2, <1>4, <3>1 DEF DormidosOrdenados
  <2> QED BY <2>1, <2>2
<1> QED BY <1>1, <1>2, <1>3, <1>4, <1>5 DEF HayQueDespertar

LEMMA RetrasoInductivo ==
    ASSUME MaxTicks < MOD, InvPlazos, [Next]_vars
    PROVE  EnPares(listaTareasPend') /\ ticks' <= MaxTicks /\ NingunRetraso'
<1>1. /\ Inv /\ TypeOK /\ DormidosOrdenados /\ EnPares(listaTareasPend)
      /\ ticks \in Nat /\ ticks <= MaxTicks /\ NingunRetraso
      /\ listaTareasPend \in Seq(TareasNucleo)
      /\ MaxTicks \in Nat /\ MOD \in Nat \ {0}
  BY NucleoAssumption DEF InvPlazos, Inv, TypeOK
<1>2. CASE InterrupcionReloj
  <2>1. listaTareasPend' = TrasReloj(listaTareasPend)
    BY <1>2 DEF InterrupcionReloj, TrasReloj, Despertar, Rodaja
  <2>2. EnPares(listaTareasPend') /\ Despertar \in ToSet(listaTareasPend')
    BY <1>1, <2>1, RelojEnPares
  <2>3. ticks' <= MaxTicks
    BY <1>1, <1>2 DEF InterrupcionReloj
  <2> QED BY <2>2, <2>3 DEF NingunRetraso, Despertar
<1>3. CASE ObtenerTarea
  <2>1. /\ listaTareasPend # <<>>
        /\ tarea = NULL /\ tarea' = Head(listaTareasPend)
        /\ listaTareasPend' = Tail(listaTareasPend)
        /\ UNCHANGED <<listaDurmiendo, ticksDespertar, ticks>>
    BY <1>3 DEF ObtenerTarea, bcps, planificacion
  <2>2. ToSet(listaTareasPend) \subseteq ToSet(listaTareasPend') \cup {tarea'}
    BY <1>1, <2>1, Eliminar
  <2>3. EnPares(listaTareasPend')
    BY <1>1, <2>1, QuitarEnPares
  <2>4. ASSUME NEW p \in Esperando, ticksDespertar[p] < ticks
        PROVE  Despertar \in ToSet(listaTareasPend') \cup {tarea'}
    <3>1. Despertar \in ToSet(listaTareasPend) \cup {tarea}
      BY <1>1, <2>4 DEF NingunRetraso, Despertar
    <3>2. CASE Despertar = tarea
      BY <2>1, <3>2, NULLAssumption DEF TareasNucleo, Despertar
    <3>3. CASE Despertar \in ToSet(listaTareasPend)
      BY <2>2, <3>3
    <3> QED BY <3>1, <3>2, <3>3
  <2>5. Esperando' = Esperando
    BY <2>1 DEF Esperando
  <2> QED BY <1>1, <2>1, <2>3, <2>4, <2>5 DEF NingunRetraso, Despertar
<1>4. CASE DespertarDormidos
  <2>1. /\ tarea = Despertar
        /\ UNCHANGED <<listaTareasPend, tarea, ticks>>
    BY <1>4 DEF DespertarDormidos, interrupciones, Despertar
  <2> QED BY <1>1, <2>1 DEF NingunRetraso, Despertar
<1>5. CASE FinDespertarDormidos
  <2>1. ~HayQueDespertar /\ UNCHANGED <<listaTareasPend, ticks, listaDurmiendo, ticksDespertar>>
    BY <1>5 DEF FinDespertarDormidos, bcps, planificacion
  <2>2. ~ \E p \in Esperando : ticksDespertar[p] < ticks
    BY <1>1, <2>1, PrimeroTarde
  <2>3. Esperando' = Esperando
    BY <2>1 DEF Esperando
  <2> QED BY <1>1, <2>1, <2>2, <2>3 DEF NingunRetraso
<1>6. CASE ContarRodaja \/ ExpulsarProceso
  <2>1. /\ tarea = Rodaja
        /\ UNCHANGED <<listaTareasPend, ticks, listaDurmiendo, ticksDespertar>>
    BY <1>6 DEF ContarRodaja, ExpulsarProceso, planificacion, Rodaja
  <2>2. Esperando' = Esperando
    BY <2>1 DEF Esperando
  <2>3. Despertar # Rodaja
    BY DEF Despertar, Rodaja
  <2> QED BY <1>1, <2>1, <2>2, <2>3 DEF NingunRetraso, Despertar
<1>7. ASSUME NEW s \in Segundos, Sleep(s)
      PROVE  EnPares(listaTareasPend') /\ ticks' <= MaxTicks /\ NingunRetraso'
  <2> DEFINE p == procesoActual
  <2>1. /\ p \in Procesos /\ p \notin Esperando /\ listaDurmiendo \in Seq(Procesos)
        /\ ticksDespertar' \in [Procesos -> Nat]
        /\ ticksDespertar'[p] = (ticks + s * TICK) % MOD
        /\ \A q \in Procesos \ {p} : ticksDespertar'[q] = ticksDespertar[q]
        /\ listaDurmiendo' = InsertarOrdenado(listaDurmiendo, p, ticksDespertar')
    BY <1>1, <1>7, SleepInserta
  <2>2. UNCHANGED <<ticks, listaTareasPend, tarea>> /\ ticks + s * TICK < MaxTicks
    BY <1>7 DEF Sleep, interrupciones
  <2>3. ticksDespertar'[p] >= ticks
    <3>1. s * TICK \in Nat
      BY NucleoAssumption
    <3>2. ticks + s * TICK \in 0 .. MOD - 1
      BY <1>1, <2>2, <3>1
    <3>3. (ticks + s * TICK) % MOD = ticks + s * TICK
      BY <1>1, <3>2
    <3> QED BY <1>1, <2>1, <3>1, <3>3
  <2>4. Esperando' = Esperando \cup {p}
    BY <2>1, InsertarEnOrden DEF Esperando
  <2>5. Esperando \subseteq Procesos
    BY <2>1, LenProperties, ElementOfSeq DEF Esperando, ToSet
  <2>6. ASSUME NEW q \in Esperando', ticksDespertar'[q] < ticks'
        PROVE  Despertar \in ToSet(listaTareasPend') \cup {tarea'}
    <3>1. q # p
      BY <1>1, <2>1, <2>2, <2>3, <2>6
    <3>2. q \in Esperando /\ ticksDespertar[q] < ticks
      BY <2>1, <2>2, <2>4, <2>5, <2>6, <3>1
    <3> QED BY <1>1, <2>2, <3>2 DEF NingunRetraso, Despertar
  <2> QED BY <1>1, <2>2, <2>6 DEF NingunRetraso, Despertar
<1>8. CASE UNCHANGED <<listaDurmiendo, ticksDespertar, ticks, listaTareasPend, tarea>>
  <2>1. Esperando' = Esperando
    BY <1>8 DEF Esperando
  <2> QED BY <1>1, <1>8, <2>1 DEF NingunRetraso
<1>9. CASE EntrarSW \/ SalirSW \/ FinEspera \/ TerminarProceso \/ Apagar \/ FinSleep \/ Apagado
           \/ UNCHANGED vars \/ \E pri \in PrioridadesCreadas : CrearProceso(pri)
  BY <1>8, <1>9
     DEF EntrarSW, SalirSW, FinEspera, TerminarProceso, Apagar, FinSleep, Apagado, CrearProceso,
         vars, bcps, planificacion, interrupciones
<1> QED BY <1>2, <1>3, <1>4, <1>5, <1>6, <1>7, <1>9 DEF Next, Tareas, Llamadas

(* As long as the clock does not wrap around, a process whose time to wake *)
(* up has passed always has a despertarDormidos on its way, however many   *)
(* interrupts found the ring of pending tasks full.                        *)
THEOREM NingunDespertarPerdido ==
    ASSUME MaxTicks < MOD
    PROVE  Spec => []NingunRetraso
<1>1. Init => InvPlazos
  BY InitPlazos
<1>2. InvPlazos /\ [Next]_vars => InvPlazos'
  <2> SUFFICES ASSUME InvPlazos, [Next]_vars PROVE InvPlazos'
    OBVIOUS
  <2>1. Inv' /\ DormidosOrdenados'
    BY InvInductivo, OrdenInductivo DEF InvPlazos
  <2>2. EnPares(listaTareasPend') /\ ticks' <= MaxTicks /\ NingunRetraso'
    BY RetrasoInductivo
  <2> QED BY <2>1, <2>2 DEF InvPlazos
<1>3. InvPlazos => NingunRetraso
  BY DEF InvPlazos
<1> QED BY <1>1, <1>2, <1>3, PTL DEF Spec

-----------------------------------------------------------------------------
(***************************************************************************)
(* No sleeper is woken too early.  While the clock does not wrap around,   *)
(* what a sleeper still has to wait is no more than what the counter is    *)
(* short of its wake-up time.                                              *)
(***************************************************************************)
PlazosCortos ==
    /\ plazo \in [Procesos -> Nat]
    /\ \A p \in Esperando :
          /\ ticksDespertar[p] < MaxTicks
          /\ plazo[p] = 0 \/ ticks + plazo[p] <= ticksDespertar[p]

InvPlazo == Inv /\ ticks <= MaxTicks /\ PlazosCortos

LEMMA PlazosTrasReloj ==
    ASSUME MaxTicks < MOD, InvPlazo, InterrupcionReloj,
           plazo' = [p \in Procesos |-> IF plazo[p] = 0 THEN 0 ELSE plazo[p] - 1]
    PROVE  ticks' <= MaxTicks /\ PlazosCortos'
<1>1. /\ ticks \in Nat /\ ticks <= MaxTicks /\ MaxTicks \in Nat /\ MOD \in Nat
      /\ ticksDespertar \in [Procesos -> Nat] /\ listaDurmiendo \in Seq(Procesos)
      /\ plazo \in [Procesos -> Nat]
  BY NucleoAssumption DEF InvPlazo, Inv, TypeOK, PlazosCortos
<1>2. /\ ticks' = (IF ticks = MaxTicks THEN ticks ELSE (ticks + 1) % MOD)
      /\ UNCHANGED <<listaDurmiendo, ticksDespertar>>
  BY DEF InterrupcionReloj, bcps, planificacion
<1>3. ticks' = (IF ticks = MaxTicks THEN ticks ELSE ticks + 1)
  <2> DEFINE n == ticks + 1
  <2>1. MOD \in Nat \ {0} /\ (ticks # MaxTicks => n \in 0 .. MOD - 1)
    BY <1>1
  <2> HIDE DEF n
  <2>2. ticks # MaxTicks => n % MOD = n
    BY <2>1
  <2> QED BY <1>2, <2>2 DEF n
<1>4. plazo' \in [Procesos -> Nat]
  <2>1. \A p \in Procesos : (IF plazo[p] = 0 THEN 0 ELSE plazo[p] - 1) \in Nat
    BY <1>1
  <2> QED BY <2>1
<1>5. ASSUME NEW p \in Esperando'
      PROVE  /\ ticksDespertar'[p] < MaxTicks
             /\ plazo'[p] = 0 \/ ticks' + plazo'[p] <= ticksDespertar'[p]
  <2>1. p \in Esperando /\ p \in Procesos
    BY <1>1, <1>2, <1>5, LenProperties, ElementOfSeq DEF Esperando, ToSet
  <2>2. /\ ticksDespertar[p] < MaxTicks /\ ticksDespertar[p] \in Nat /\ plazo[p] \in Nat
        /\ plazo[p] = 0 \/ ticks + plazo[p] <= ticksDespertar[p]
        /\ plazo'[p] = (IF plazo[p] = 0 THEN 0 ELSE plazo[p] - 1)
    BY <1>1, <2>1 DEF InvPlazo, PlazosCortos
  <2> QED BY <1>1, <1>2, <1>3, <2>2
<1> QED BY <1>1, <1>3, <1>4, <1>5 DEF PlazosCortos

LEMMA PlazosAlDormir ==
    ASSUME MaxTicks < MOD, InvPlazo, NEW s \in Segundos, Sleep(s),
           plazo' = [plazo EXCEPT ![procesoActual] = s * TICK]
    PROVE  ticks' <= MaxTicks /\ PlazosCortos'
<1> DEFINE p == procesoActual
<1>1. /\ p \in Procesos /\ p \notin Esperando /\ listaDurmiendo \in Seq(Procesos)
      /\ ticksDespertar' \in [Procesos -> Nat]
      /\ ticksDespertar'[p] = (ticks + s * TICK) % MOD
      /\ \A q \in Procesos \ {p} : ticksDespertar'[q] = ticksDespertar[q]
      /\ listaDurmiendo' = InsertarOrdenado(listaDurmiendo, p, ticksDespertar')
  BY SleepInserta DEF InvPlazo
<1>2. /\ ticks' = ticks /\ ticks + s * TICK < MaxTicks /\ ticks \in Nat /\ s * TICK \in Nat
      /\ MaxTicks \in Nat /\ MOD \in Nat \ {0} /\ ticks <= MaxTicks
  BY NucleoAssumption DEF Sleep, interrupciones, InvPlazo, Inv, TypeOK
<1>3. ticksDespertar'[p] = ticks + s * TICK
  <2>1. ticks + s * TICK \in 0 .. MOD - 1
    BY <1>2
  <2>2. (ticks + s * TICK) % MOD = ticks + s * TICK
    BY <1>2, <2>1
  <2> QED BY <1>1, <2>2
<1>4. /\ plazo' \in [Procesos -> Nat] /\ plazo'[p] = s * TICK
      /\ \A q \in Procesos \ {p} : plazo'[q] = plazo[q]
  BY <1>1, <1>2 DEF InvPlazo, PlazosCortos
<1>5. Esperando' = Esperando \cup {p} /\ Esperando \subseteq Procesos
  <2>1. Esperando' = Esperando \cup {p}
    BY <1>1, InsertarEnOrden DEF Esperando
  <2>2. Esperando \subseteq Procesos
    BY <1>1, LenProperties, ElementOfSeq DEF Esperando, ToSet
  <2> QED BY <2>1, <2>2
<1>6. ASSUME NEW q \in Esperando \cup {p}
      PROVE  /\ ticksDespertar'[q] < MaxTicks
             /\ plazo'[q] = 0 \/ ticks' + plazo'[q] <= ticksDespertar'[q]
  <2>1. CASE q = p
    BY <1>2, <1>3, <1>4, <2>1
  <2>2. CASE q # p
    BY <1>1, <1>2, <1>4, <1>5, <2>2 DEF InvPlazo, PlazosCortos
  <2> QED BY <2>1, <2>2
<1> QED BY <1>2, <1>4, <1>5, <1>6 DEF PlazosCortos

LEMMA PlazosInductivos ==
    ASSUME MaxTicks < MOD, InvPlazo, [NextPlazo]_<<vars, plazo>>
    PROVE  InvPlazo'
<1>1. Inv'
  <2>1. [Next]_vars
    BY DEF NextPlazo, Next, Llamadas
  <2> QED BY <2>1, InvInductivo DEF InvPlazo
<1>2. ticks' <= MaxTicks /\ PlazosCortos'
  <2>1. CASE InterrupcionReloj /\ plazo' = [p \in Procesos |-> IF plazo[p] = 0 THEN 0 ELSE plazo[p] - 1]
    BY <2>1, PlazosTrasReloj
  <2>2. CASE \E s \in Segundos : Sleep(s) /\ plazo' = [plazo EXCEPT ![procesoActual] = s * TICK]
    BY <2>2, PlazosAlDormir
  <2>3. CASE DespertarDormidos /\ UNCHANGED plazo
    <3>1. /\ listaDurmiendo' = Tail(listaDurmiendo) /\ listaDurmiendo # <<>>
          /\ listaDurmiendo \in Seq(Procesos)
          /\ UNCHANGED <<ticks, ticksDespertar, plazo>>
      BY <2>3 DEF DespertarDormidos, HayQueDespertar, interrupciones, InvPlazo, Inv, TypeOK
    <3>2. Esperando' \subseteq Esperando
      BY <3>1, Eliminar DEF Esperando
    <3> QED BY <3>1, <3>2 DEF InvPlazo, PlazosCortos
  <2>4. CASE UNCHANGED <<listaDurmiendo, ticksDespertar, ticks, plazo>>
    BY <2>4 DEF InvPlazo, PlazosCortos, Esperando
  <2>5. CASE /\ \/ EntrarSW \/ ObtenerTarea \/ SalirSW
                \/ FinDespertarDormidos \/ ContarRodaja \/ ExpulsarProceso \/ FinEspera
                \/ \E pri \in PrioridadesCreadas : CrearProceso(pri)
                \/ TerminarProceso \/ Apagar \/ FinSleep \/ Apagado
             /\ UNCHANGED plazo
    BY <2>4, <2>5
       DEF EntrarSW, ObtenerTarea, SalirSW, FinDespertarDormidos, ContarRodaja, ExpulsarProceso,
           FinEspera, CrearProceso, TerminarProceso, Apagar, FinSleep, Apagado,
           vars, bcps, planificacion, interrupciones
  <2>6. CASE UNCHANGED <<vars, plazo>>
    BY <2>4, <2>6 DEF vars, bcps, planificacion, interrupciones
  <2> QED BY <2>1, <2>2, <2>3, <2>5, <2>6 DEF NextPlazo, Tareas
<1> QED BY <1>1, <1>2 DEF InvPlazo

(* Who leaves the sleepers' list is the first of it, in despertarDormidos, *)
(* and its time to wake up has passed.                                     *)
LEMMA SaleCumplido ==
    ASSUME InvPlazo, [NextPlazo]_<<vars, plazo>>,
           NEW p \in Esperando, p \notin ToSet(listaDurmiendo')
    PROVE  plazo[p] = 0
<1>1. [Next]_vars
  BY DEF NextPlazo, Next, Llamadas
<1>2. /\ listaDurmiendo \in Seq(Procesos) /\ ticks \in Nat /\ p \in Procesos
      /\ ticksDespertar \in [Procesos -> Nat] /\ plazo \in [Procesos -> Nat]
  BY LenProperties, ElementOfSeq DEF InvPlazo, PlazosCortos, Inv, TypeOK, Esperando, ToSet
<1>3. DespertarDormidos
  <2>1. ASSUME NEW s \in Segundos, Sleep(s) PROVE FALSE
    <3>1. /\ procesoActual \in Procesos
          /\ ticksDespertar' \in [Procesos -> Nat]
          /\ listaDurmiendo' = InsertarOrdenado(listaDurmiendo, procesoActual, ticksDespertar')
      BY <2>1, SleepInserta DEF InvPlazo
    <3>2. ToSet(listaDurmiendo') = Esperando \cup {procesoActual}
      BY <1>2, <3>1, InsertarEnOrden DEF Esperando
    <3> QED BY <3>2
  <2>2. ~UNCHANGED listaDurmiendo
    BY DEF Esperando
  <2> QED BY <1>1, <2>1, <2>2, QuienTocaDormidos
<1>4. p = Head(listaDurmiendo) /\ ticksDespertar[p] < ticks
  <2>1. listaDurmiendo # <<>> /\ listaDurmiendo' = Tail(listaDurmiendo)
        /\ ticksDespertar[Head(listaDurmiendo)] < ticks
    BY <1>3 DEF DespertarDormidos, HayQueDespertar
  <2> QED BY <1>2, <2>1, Eliminar DEF Esperando
<1>5. plazo[p] = 0 \/ ticks + plazo[p] <= ticksDespertar[p]
  BY DEF InvPlazo, PlazosCortos
<1>6. ticksDespertar[p] \in Nat /\ plazo[p] \in Nat
  BY <1>2
<1> QED BY <1>2, <1>4, <1>5, <1>6

(* As long as the clock does not wrap around, a process is not woken       *)
(* before as many clock interrupts as it asked sleep for.  With a counter  *)
(* that wraps around it is: MCPlazoDesborde.                               *)
THEOREM NadieDespiertaAntes ==
    ASSUME MaxTicks < MOD
    PROVE  SpecPlazo => DuermeSuPlazo
<1>1. InitPlazo => InvPlazo
  <2> SUFFICES ASSUME InitPlazo PROVE InvPlazo
    OBVIOUS
  <2>1. Inv /\ Esperando = {}
    BY InitInv, ListaVacia DEF InitPlazo, Init, Esperando
  <2>2. ticks <= MaxTicks /\ plazo \in [Procesos -> Nat]
    BY NucleoAssumption DEF InitPlazo, Init
  <2> QED BY <2>1, <2>2 DEF InvPlazo, PlazosCortos
<1>2. InvPlazo /\ [NextPlazo]_<<vars, plazo>> => InvPlazo'
  BY PlazosInductivos
<1>3. InvPlazo /\ [NextPlazo]_<<vars, plazo>>
         => [\A p \in Esperando : p \notin ToSet(listaDurmiendo') => plazo[p] = 0]_<<vars, plazo>>
  BY SaleCumplido
<1> QED BY <1>1, <1>2, <1>3, PTL DEF SpecPlazo, DuermeSuPlazo

-----------------------------------------------------------------------------
(***************************************************************************)
(* The keyboard: Teclado is Nucleo with more actions and one more list, so *)
(* what follows rests on the lemmas above.  Any size of the buffer of      *)
(* characters, any keys and any programs.                                  *)
(***************************************************************************)
Puntos == Contextos \cup {"extraer"}

-----------------------------------------------------------------------------
(***************************************************************************)
(* The inductive invariant.  The readers are kept out of the kernel's      *)
(* lists as the running process is, so that Reparto and its lemmas serve   *)
(* as they are; a reader is BLOQUEADO and will go on in "extraer".         *)
(***************************************************************************)
TiposTeclado ==
    /\ TypeOKTeclado
    /\ prioridad \in [Procesos -> Prioridades]
    /\ ticksDespertar \in [Procesos -> Nat] /\ ticks \in Nat
    /\ procesoActual \in Procesos \cup {NULL}
    /\ listos \in ColasDe(Procesos)
    /\ listaDurmiendo \in Seq(Procesos)
    /\ tarea \in TareasTodas \cup {NULL}

RepartoTeclado ==
    /\ Reparto(estado, listos, listaDurmiendo, Leyendo \cup Fuera)
    /\ Fuera \cap Leyendo = {}
    /\ IsInjective(listaProcesosBloqueados)
    /\ \A p \in Leyendo : estado[p] = BLOQUEADO /\ contexto[p] = "extraer"
    /\ ActualVivo

(* A task runs inside interrupcionSoftware only; who is about to ask for a *)
(* character, or back from waiting for one, has still something to read.   *)
PuntosTeclado ==
    /\ tarea # NULL => EnBucleSW
    /\ modo \in {"leer", "extraer"} => porLeer[procesoActual] # 0
    /\ \A p \in Procesos \ Fuera :
          estado[p] # NO_USADA /\ contexto[p] = "extraer" => porLeer[p] # 0

InvTeclado == TiposTeclado /\ RepartoTeclado /\ PuntosTeclado /\ SinDespertarPerdido

(* The handler's own part: its task is nowhere before it is stored, and    *)
(* what the clock has put meanwhile over the length it loaded is its own.  *)
InvInsercion ==
    /\ manejador \in {"fuera", "funcion"} => donde = "ninguna"
    /\ manejador = "funcion" =>
          \A i \in DOMAIN listaTareasPend : i > indice => listaTareasPend[i] \in TareasNucleo

LEMMA DistintasTareas ==
    /\ "despertarDormidos" # DE_TECLADO /\ "planificarRodaja" # DE_TECLADO
    /\ DE_OTRO # DE_TECLADO /\ DE_TECLADO \notin TareasNucleo
    /\ NULL # DE_TECLADO /\ NULL \notin TareasTodas
    /\ TareasNucleo \subseteq TareasTodas /\ {DE_TECLADO, DE_OTRO} \subseteq TareasTodas
    /\ "despertarDormidos" \in TareasTodas /\ "planificarRodaja" \in TareasTodas
    /\ "despertarDormidos" \in TareasNucleo /\ "planificarRodaja" \in TareasNucleo
    /\ "espera" \notin Puntos /\ "esperaFin" \notin Puntos /\ "usuario" \in Puntos
    /\ Modos \cup {"leer", "extraer"} = Puntos \cup {"espera", "esperaFin", "apagado", "leer"}
BY NULLAssumption, TecladoAssumption
   DEF DE_TECLADO, DE_OTRO, NULA, TareasTodas, TareasNucleo, Puntos, Contextos, Modos

(* The partition the runs check, from the one the proof carries.           *)
LEMMA RepartoDaParticion ==
    TiposTeclado /\ RepartoTeclado => ParticionTeclado
<1> SUFFICES ASSUME TiposTeclado, RepartoTeclado PROVE ParticionTeclado
  OBVIOUS
<1> DEFINE A == Leyendo \cup Fuera
<1>1. /\ Separadas(listos, listaDurmiendo)
      /\ \A p \in A : ~EnAlguna(listos, p) /\ p \notin Esperando
      /\ \A p \in Procesos \ A :
            /\ estado[p] = LISTO <=> EnAlguna(listos, p)
            /\ estado[p] = BLOQUEADO <=> p \in Esperando
            /\ estado[p] # EJECUCION
  BY DEF RepartoTeclado, Reparto, Esperando
<1>2. /\ \A n \in Prioridades : Miembros(listos, n) \subseteq Procesos
      /\ Esperando \subseteq Procesos
  BY MiembrosSonProcesos DEF TiposTeclado, Esperando
<1>3. (\A n : EnCola(n) = Miembros(listos, n)) /\ Prioridades # {}
  BY DEF EnCola, Miembros, Prioridades
<1>4. \A p : EnAlguna(listos, p) <=> \E n \in Prioridades : p \in EnCola(n)
  BY <1>3 DEF EnAlguna
<1>5. UnaSolaLista
  <2>1. \A n \in Prioridades : procesoActual \notin EnCola(n) \cup Esperando
    BY <1>1, <1>2, <1>3, <1>4 DEF Fuera
  <2> QED BY <1>1, <1>3, <2>1 DEF UnaSolaLista, Separadas, Esperando
<1>6. Leyendo \cap (Esperando \cup {procesoActual} \cup UNION {EnCola(n) : n \in Prioridades}) = {}
  <2>1. Leyendo \subseteq Procesos
    BY MiembrosSonProcesos DEF TiposTeclado, TypeOKTeclado, Leyendo
  <2>2. procesoActual \notin Leyendo
    BY <2>1 DEF RepartoTeclado, Fuera
  <2>3. \A p \in Leyendo : p \notin Esperando /\ \A n \in Prioridades : p \notin EnCola(n)
    BY <1>1, <1>4
  <2> QED BY <2>2, <2>3
<1>7. ASSUME NEW p \in Procesos \ {procesoActual}
      PROVE  /\ estado[p] = LISTO <=> \E n \in Prioridades : p \in EnCola(n)
             /\ estado[p] = BLOQUEADO <=> p \in Esperando \cup Leyendo
             /\ estado[p] # EJECUCION
  <2>1. CASE p \in Leyendo
    BY <1>1, <1>4, <2>1, EstadosDistintos DEF RepartoTeclado
  <2>2. CASE p \notin Leyendo
    BY <1>1, <1>4, <2>2 DEF Fuera
  <2> QED BY <2>1, <2>2
<1> QED BY <1>5, <1>6, <1>7 DEF ParticionTeclado, RepartoTeclado

-----------------------------------------------------------------------------
(* The wake-ups on their way: how many tasks of the keyboard a ring holds. *)
EsDeTeclado(t) == IF t = DE_TECLADO THEN 1 ELSE 0

PorHacer == Cardinality(DelTeclado(listaTareasPend)) + EsDeTeclado(tarea)

LEMMA AnilloFinito ==
    ASSUME NEW S, NEW s \in Seq(S)
    PROVE  IsFiniteSet(DelTeclado(s)) /\ Cardinality(DelTeclado(s)) \in Nat
<1>1. Len(s) \in Nat /\ DelTeclado(s) \in SUBSET (1 .. Len(s))
  BY LenProperties DEF DelTeclado
<1>2. IsFiniteSet(1 .. Len(s))
  BY <1>1, FS_Interval
<1> QED BY <1>1, <1>2, FS_Subset, FS_CardinalityType

LEMMA AnilloInsertar ==
    ASSUME NEW S, NEW s \in Seq(S), NEW t \in S
    PROVE  Cardinality(DelTeclado(Append(s, t))) = Cardinality(DelTeclado(s)) + EsDeTeclado(t)
<1>1. /\ Append(s, t) \in Seq(S) /\ Len(Append(s, t)) = Len(s) + 1
      /\ Append(s, t)[Len(s) + 1] = t
      /\ \A i \in 1 .. Len(s) : Append(s, t)[i] = s[i]
  BY AppendProperties
<1>2. /\ Len(s) \in Nat /\ DOMAIN s = 1 .. Len(s)
      /\ DOMAIN Append(s, t) = 1 .. Len(s) + 1 /\ Len(s) + 1 \notin DOMAIN s
  BY <1>1, LenProperties
<1>3. IsFiniteSet(DelTeclado(s)) /\ Cardinality(DelTeclado(s)) \in Nat
  BY AnilloFinito
<1>4. CASE t = DE_TECLADO
  <2>1. DelTeclado(Append(s, t)) = DelTeclado(s) \cup {Len(s) + 1} /\ Len(s) + 1 \notin DelTeclado(s)
    BY <1>1, <1>2, <1>4 DEF DelTeclado
  <2> QED BY <1>3, <1>4, <2>1, FS_AddElement DEF EsDeTeclado
<1>5. CASE t # DE_TECLADO
  <2>1. DelTeclado(Append(s, t)) = DelTeclado(s)
    BY <1>1, <1>2, <1>5 DEF DelTeclado
  <2> QED BY <1>3, <1>5, <2>1 DEF EsDeTeclado
<1> QED BY <1>4, <1>5

LEMMA AnilloExtraer ==
    ASSUME NEW S, NEW s \in Seq(S), s # <<>>
    PROVE  Cardinality(DelTeclado(s)) = Cardinality(DelTeclado(Tail(s))) + EsDeTeclado(Head(s))
<1> DEFINE t == Tail(s)
           f == [i \in DelTeclado(t) |-> i + 1]
<1>1. /\ t \in Seq(S) /\ Len(t) = Len(s) - 1
      /\ \A i \in 1 .. Len(t) : t[i] = s[i + 1]
      /\ Head(s) = s[1]
  BY HeadTailProperties
<1>2. /\ Len(s) \in Nat \ {0} /\ DOMAIN s = 1 .. Len(s) /\ DOMAIN t = 1 .. Len(s) - 1
  BY <1>1, LenProperties, EmptySeq
<1>3. /\ IsFiniteSet(DelTeclado(s)) /\ Cardinality(DelTeclado(s)) \in Nat
      /\ IsFiniteSet(DelTeclado(t)) /\ Cardinality(DelTeclado(t)) \in Nat
  BY <1>1, AnilloFinito
<1>4. f \in Bijection(DelTeclado(t), DelTeclado(s) \ {1})
  <2>1. \A i \in DelTeclado(t) : i \in Nat /\ i + 1 \in DelTeclado(s) \ {1} /\ f[i] = i + 1
    BY <1>1, <1>2 DEF DelTeclado
  <2>2. f \in [DelTeclado(t) -> DelTeclado(s) \ {1}]
    BY <2>1
  <2>3. \A i, j \in DelTeclado(t) : f[i] = f[j] => i = j
    BY <2>1
  <2>4. \A j \in DelTeclado(s) \ {1} : \E i \in DelTeclado(t) : f[i] = j
    <3> SUFFICES ASSUME NEW j \in DelTeclado(s) \ {1} PROVE \E i \in DelTeclado(t) : f[i] = j
      OBVIOUS
    <3>1. j - 1 \in DelTeclado(t) /\ (j - 1) + 1 = j
      BY <1>1, <1>2 DEF DelTeclado
    <3> QED BY <2>1, <3>1
  <2> HIDE DEF f
  <2> QED BY <2>2, <2>3, <2>4 DEF Bijection, Injection, Surjection, IsInjective
<1>5. Cardinality(DelTeclado(s) \ {1}) = Cardinality(DelTeclado(t))
  BY <1>3, <1>4, FS_Bijection DEF ExistsBijection
<1>6. 1 \in DelTeclado(s) <=> Head(s) = DE_TECLADO
  BY <1>1, <1>2 DEF DelTeclado
<1> HIDE DEF t
<1>7. Cardinality(DelTeclado(s)) = Cardinality(DelTeclado(t)) + EsDeTeclado(Head(s))
  <2>1. Cardinality(DelTeclado(s) \ {1}) =
           IF 1 \in DelTeclado(s) THEN Cardinality(DelTeclado(s)) - 1 ELSE Cardinality(DelTeclado(s))
    BY <1>3, FS_RemoveElement
  <2> QED BY <1>3, <1>5, <1>6, <2>1 DEF EsDeTeclado
<1> QED BY <1>7 DEF t

LEMMA TareasContadas ==
    TiposTeclado => Cardinality(TareasTeclado) = PorHacer /\ PorHacer \in Nat
<1> SUFFICES ASSUME TiposTeclado
             PROVE  Cardinality(TareasTeclado) = PorHacer /\ PorHacer \in Nat
  OBVIOUS
<1>1. listaTareasPend \in Seq(TareasTodas)
  BY DEF TiposTeclado, TypeOKTeclado
<1>2. /\ IsFiniteSet(DelTeclado(listaTareasPend))
      /\ Cardinality(DelTeclado(listaTareasPend)) \in Nat
      /\ 0 \notin DelTeclado(listaTareasPend)
  BY <1>1, AnilloFinito, LenProperties DEF DelTeclado
<1>3. TareasTeclado = DelTeclado(listaTareasPend) \cup (IF tarea = DE_TECLADO THEN {0} ELSE {})
  BY DEF TareasTeclado, DelTeclado
<1>4. CASE tarea = DE_TECLADO
  BY <1>2, <1>3, <1>4, FS_AddElement DEF PorHacer, EsDeTeclado
<1>5. CASE tarea # DE_TECLADO
  BY <1>2, <1>3, <1>5 DEF PorHacer, EsDeTeclado
<1> QED BY <1>4, <1>5

-----------------------------------------------------------------------------
(* The readers woken, told by the states instead of by the queues.         *)
Despierto(p) ==
    \/ p \in Fuera /\ modo = "extraer"
    \/ p \notin Fuera /\ estado[p] = LISTO /\ contexto[p] = "extraer"

LEMMA DespertadosSon ==
    TiposTeclado /\ RepartoTeclado =>
        /\ Despertados = {p \in Procesos : Despierto(p)}
        /\ IsFiniteSet(Despertados) /\ Cardinality(Despertados) \in Nat
<1> SUFFICES ASSUME TiposTeclado, RepartoTeclado
             PROVE  /\ Despertados = {p \in Procesos : Despierto(p)}
                    /\ IsFiniteSet(Despertados) /\ Cardinality(Despertados) \in Nat
  OBVIOUS
<1>1. \A p : EnAlguna(listos, p) <=> \E n \in Prioridades : p \in EnCola(n)
  BY DEF EnAlguna, EnCola, Miembros
<1>2. \A p \in Procesos \ Fuera : estado[p] = LISTO <=> EnAlguna(listos, p)
  BY EstadosDistintos DEF RepartoTeclado, Reparto
<1>3. \A p \in Fuera : ~EnAlguna(listos, p)
  BY DEF RepartoTeclado, Reparto
<1>4. Despertados = {p \in Procesos : Despierto(p)}
  BY <1>1, <1>2, <1>3 DEF Despertados, Despierto, Fuera
<1>5. IsFiniteSet(Procesos)
  BY FS_Interval, NucleoAssumption DEF Procesos
<1> QED BY <1>4, <1>5, FS_Subset, FS_CardinalityType

LEMMA TareasContadasPrimado ==
    (TiposTeclado => Cardinality(TareasTeclado) = PorHacer /\ PorHacer \in Nat)'
BY TareasContadas, PTL

LEMMA DespertadosSonPrimado ==
    (TiposTeclado /\ RepartoTeclado =>
        /\ Despertados = {p \in Procesos : Despierto(p)}
        /\ IsFiniteSet(Despertados) /\ Cardinality(Despertados) \in Nat)'
BY DespertadosSon, PTL

(* The history of the tasks lost never says more than the buffer has.      *)
LEMMA PerderTope ==
    ASSUME NEW n \in Nat, Perder(n), perdidas \in Nat, Len(bufferCaracteres') \in Nat
    PROVE  /\ perdidas' \in Nat /\ perdidas' <= Len(bufferCaracteres')
           /\ perdidas' = Len(bufferCaracteres') \/ perdidas' = perdidas + n
BY DEF Perder

(* What may still come to a reader, or is known to be lost.                *)
Pendientes == PorHacer + EnCamino + perdidas

LEMMA PendientesEsNat == TiposTeclado => Pendientes \in Nat
<1> SUFFICES ASSUME TiposTeclado PROVE Pendientes \in Nat
  OBVIOUS
<1>1. PorHacer \in Nat
  BY TareasContadas
<1>2. EnCamino \in Nat /\ perdidas \in Nat
  BY DEF EnCamino, TiposTeclado, TypeOKTeclado
<1> QED BY <1>1, <1>2 DEF Pendientes

LEMMA PendientesEsNatPrimado == (TiposTeclado => Pendientes \in Nat)'
BY PendientesEsNat, PTL

LEMMA SumaMonotona == \A l, m, n \in Nat : m <= n => l + m <= l + n
OBVIOUS

(* The buffer and the wake-ups on their way, or lost, grow alike, and no   *)
(* reader already woken is lost: no other wake-up is.                      *)
LEMMA DespertaresSiguen ==
    ASSUME InvTeclado, TiposTeclado', RepartoTeclado',
           listaProcesosBloqueados' # <<>> => listaProcesosBloqueados # <<>>,
           \A p \in Procesos : Despierto(p) => Despierto(p)',
           \/ Len(bufferCaracteres') + Pendientes <= Len(bufferCaracteres) + Pendientes'
           \/ perdidas' = Len(bufferCaracteres')
    PROVE  SinDespertarPerdido'
<1>1. Despertados \subseteq Despertados' /\ IsFiniteSet(Despertados')
  BY DespertadosSon, DespertadosSonPrimado DEF InvTeclado
<1>2. /\ Cardinality(Despertados) <= Cardinality(Despertados')
      /\ Cardinality(Despertados) \in Nat /\ Cardinality(Despertados') \in Nat
  BY <1>1, FS_Subset, DespertadosSon, DespertadosSonPrimado DEF InvTeclado
<1>3. /\ Cardinality(TareasTeclado) = PorHacer /\ PorHacer \in Nat
      /\ Cardinality(TareasTeclado') = PorHacer' /\ PorHacer' \in Nat
  BY TareasContadas, TareasContadasPrimado DEF InvTeclado
<1>4. /\ Len(bufferCaracteres) \in Nat /\ Len(bufferCaracteres') \in Nat
      /\ perdidas \in Nat /\ perdidas' \in Nat /\ EnCamino \in Nat /\ EnCamino' \in Nat
  BY LenProperties DEF InvTeclado, TiposTeclado, TypeOKTeclado, EnCamino
<1> SUFFICES ASSUME listaProcesosBloqueados' # <<>>
             PROVE  Len(bufferCaracteres') <= Cardinality(Despertados')
                       + Cardinality(TareasTeclado') + EnCamino' + perdidas'
  BY DEF SinDespertarPerdido
<1>5. Len(bufferCaracteres)
         <= Cardinality(Despertados) + Cardinality(TareasTeclado) + EnCamino + perdidas
  BY DEF InvTeclado, SinDespertarPerdido
<1>6. CASE perdidas' = Len(bufferCaracteres')
  BY <1>2, <1>3, <1>4, <1>6
<1>7. CASE Len(bufferCaracteres') + Pendientes <= Len(bufferCaracteres) + Pendientes'
  <2>1. Len(bufferCaracteres') + (PorHacer + EnCamino + perdidas)
           <= Len(bufferCaracteres) + (PorHacer' + EnCamino' + perdidas')
    BY <1>7 DEF Pendientes
  <2>2. {PorHacer', EnCamino', perdidas'} \subseteq Nat
    BY <1>3, <1>4
  <2>3. /\ Len(bufferCaracteres) \in Nat /\ Len(bufferCaracteres') \in Nat
        /\ PorHacer \in Nat /\ EnCamino \in Nat /\ perdidas \in Nat
    BY <1>3, <1>4
  <2>4. Len(bufferCaracteres) <= Cardinality(Despertados) + PorHacer + EnCamino + perdidas
    BY <1>3, <1>5
  <2>5. Len(bufferCaracteres') <= Cardinality(Despertados') + PorHacer' + EnCamino' + perdidas'
    BY <1>2, <2>1, <2>2, <2>3, <2>4
  <2>6. Cardinality(TareasTeclado') = PorHacer'
    BY <1>3
  <2> QED BY <2>5, <2>6, Zenon
<1> QED BY <1>6, <1>7

(* The common case: neither the buffer nor the handler have part in the    *)
(* step, which leaves as many tasks of the keyboard as there were.         *)
LEMMA MismosPendientes ==
    ASSUME InvTeclado, PorHacer' = PorHacer,
           UNCHANGED <<bufferCaracteres, EnCamino, perdidas>>
    PROVE  Len(bufferCaracteres') + Pendientes <= Len(bufferCaracteres) + Pendientes'
<1>1. PorHacer \in Nat /\ EnCamino \in Nat /\ perdidas \in Nat /\ Len(bufferCaracteres) \in Nat
  BY TareasContadas, LenProperties DEF InvTeclado, TiposTeclado, TypeOKTeclado, EnCamino
<1>2. Pendientes \in Nat /\ Pendientes' = Pendientes
  BY <1>1 DEF Pendientes
<1> QED BY <1>1, <1>2

-----------------------------------------------------------------------------
(* The steps                                                               *)

(* A step that moves no process and does not take or give the CPU.         *)
LEMMA MismosLectores ==
    ASSUME RepartoTeclado,
           UNCHANGED <<estado, contexto, procesoActual, listos, listaDurmiendo,
                       listaProcesosBloqueados>>,
           procesoActual = NULL <=> modo' \in {"espera", "esperaFin"}
    PROVE  /\ RepartoTeclado' /\ Fuera' = Fuera
           /\ \A p : p \notin Fuera => (Despierto(p)' <=> Despierto(p))
           /\ \A p \in Fuera : Despierto(p)' <=> modo' = "extraer"
<1>1. Fuera' = Fuera /\ Leyendo' = Leyendo
  BY DEF Fuera, Leyendo
<1>2. ActualVivo'
  BY DEF RepartoTeclado, ActualVivo
<1> QED BY <1>1, <1>2 DEF RepartoTeclado, Despierto

LEMMA InitTecladoInv == InitTeclado => InvTeclado
<1> SUFFICES ASSUME InitTeclado PROVE InvTeclado
  OBVIOUS
<1>1. Inv /\ Fuera = {0} /\ RepartoActual
  <2>1. 0 \in Procesos /\ procesoActual = 0
    BY NucleoAssumption DEF InitTeclado, Init, Procesos
  <2> QED BY <2>1, InitInv, ParticionEsReparto DEF InitTeclado, Inv, Fuera
<1>2. TiposTeclado
  <2>1. /\ TypeOK /\ bufferCaracteres = <<>> /\ listaProcesosBloqueados = <<>>
        /\ listaTareasPend = <<>> /\ porLeer = [p \in Procesos |-> 0]
        /\ manejador = "fuera" /\ indice = 0 /\ donde = "ninguna" /\ perdidas = 0
    BY <1>1 DEF Inv, InitTeclado, Init
  <2>2. Len(<<>>) = 0 /\ 0 < MAX_TAREAS /\ 0 < TAM_BUFFER_CARACTERES /\ 0 \in 0 .. MAX_TAREAS - 1
    BY NucleoAssumption, TecladoAssumption
  <2>3. /\ <<>> \in Seq(Caracteres) /\ <<>> \in Seq(Procesos)
        /\ <<>> \in Seq(TareasTodas)
    OBVIOUS
  <2> QED BY <2>1, <2>2, <2>3
          DEF TypeOK, TiposTeclado, TypeOKTeclado, ColasDe, TareasTodas
<1>3. RepartoTeclado
  <2>1. Leyendo = {} /\ IsInjective(listaProcesosBloqueados)
    BY ListaVacia DEF InitTeclado, Leyendo
  <2>2. {} \cup Fuera = Fuera
    OBVIOUS
  <2> QED BY <1>1, <2>1, <2>2 DEF RepartoTeclado, RepartoActual, Inv, Particion
<1>4. PuntosTeclado /\ SinDespertarPerdido
  <2>1. /\ tarea = NULL /\ modo = "usuario" /\ listaProcesosBloqueados = <<>>
        /\ \A p \in Procesos : contexto[p] = "usuario"
    BY DEF InitTeclado, Init
  <2> QED BY <2>1 DEF PuntosTeclado, SinDespertarPerdido
<1> QED BY <1>2, <1>3, <1>4 DEF InvTeclado

(* insertarUltimaTareaPend, and its effect on the wake-ups on their way.   *)
LEMMA InsertarPend ==
    ASSUME NEW s \in Seq(TareasTodas), Len(s) < MAX_TAREAS, NEW t \in TareasTodas
    PROVE  LET u == InsertarTareaPend(s, t)
           IN  /\ u \in Seq(TareasTodas) /\ Len(u) < MAX_TAREAS
               /\ u = s \/ Cardinality(DelTeclado(u)) = Cardinality(DelTeclado(s)) + EsDeTeclado(t)
<1>1. /\ Append(s, t) \in Seq(TareasTodas) /\ Len(Append(s, t)) = Len(s) + 1
      /\ Cardinality(DelTeclado(Append(s, t))) = Cardinality(DelTeclado(s)) + EsDeTeclado(t)
  BY AppendProperties, AnilloInsertar
<1>2. Len(s) \in Nat /\ MAX_TAREAS \in Nat
  BY LenProperties, NucleoAssumption
<1> QED BY <1>1, <1>2 DEF InsertarTareaPend

(* The clock: its tasks do not count for the keyboard.                     *)
LEMMA PasoRelojTeclado ==
    ASSUME InvTeclado, InterrupcionRelojTeclado PROVE InvTeclado'
<1> DEFINE s == listaTareasPend
           u == InsertarTareaPend(s, "despertarDormidos")
<1>1. /\ listaTareasPend' = InsertarTareaPend(u, "planificarRodaja")
      /\ ticks' = (IF ticks = MaxTicks THEN ticks ELSE (ticks + 1) % MOD)
      /\ UNCHANGED <<estado, prioridad, ticksDespertar, contexto, procesoActual, listos,
                     listaDurmiendo, modo, tarea>>
      /\ UNCHANGED <<bufferCaracteres, listaProcesosBloqueados, porLeer>>
      /\ UNCHANGED <<manejador, indice, perdidas>>
  BY DEF InterrupcionRelojTeclado, InterrupcionReloj, bcps, planificacion, lectores
<1>0. \/ donde' = donde
      \/ donde = "libre" /\ donde' = "ninguna"
  BY DEF InterrupcionRelojTeclado
<1>2. s \in Seq(TareasTodas) /\ Len(s) < MAX_TAREAS
  BY DEF InvTeclado, TiposTeclado, TypeOKTeclado
<1>3. /\ u \in Seq(TareasTodas) /\ Len(u) < MAX_TAREAS
      /\ Cardinality(DelTeclado(u)) = Cardinality(DelTeclado(s))
  <2>1. /\ u \in Seq(TareasTodas) /\ Len(u) < MAX_TAREAS
        /\ \/ u = s
           \/ Cardinality(DelTeclado(u))
                 = Cardinality(DelTeclado(s)) + EsDeTeclado("despertarDormidos")
    BY <1>2, InsertarPend, DistintasTareas
  <2> QED BY <1>2, <2>1, DistintasTareas, AnilloFinito DEF EsDeTeclado
<1>4. /\ listaTareasPend' \in Seq(TareasTodas) /\ Len(listaTareasPend') < MAX_TAREAS
      /\ Cardinality(DelTeclado(listaTareasPend')) = Cardinality(DelTeclado(s))
  <2> DEFINE w == InsertarTareaPend(u, "planificarRodaja")
  <2> HIDE DEF u
  <2>1. /\ w \in Seq(TareasTodas) /\ Len(w) < MAX_TAREAS
        /\ \/ w = u
           \/ Cardinality(DelTeclado(w))
                 = Cardinality(DelTeclado(u)) + EsDeTeclado("planificarRodaja")
    BY <1>3, InsertarPend, DistintasTareas
  <2> QED BY <1>1, <1>3, <2>1, DistintasTareas, AnilloFinito DEF EsDeTeclado
<1>5. ticks' \in Nat
  BY <1>1, NucleoAssumption DEF InvTeclado, TiposTeclado
<1>6. TiposTeclado'
  BY <1>0, <1>1, <1>4, <1>5 DEF InvTeclado, TiposTeclado, TypeOKTeclado
<1>7. /\ RepartoTeclado' /\ Fuera' = Fuera
      /\ \A p \in Procesos : Despierto(p) => Despierto(p)'
  BY <1>1, MismosLectores DEF InvTeclado, RepartoTeclado, ActualVivo, Despierto
<1>8. PuntosTeclado'
  BY <1>1, <1>7 DEF InvTeclado, PuntosTeclado, EnBucleSW
<1>9. Len(bufferCaracteres') + Pendientes <= Len(bufferCaracteres) + Pendientes'
  <2>1. PorHacer' = PorHacer
    BY <1>1, <1>4 DEF PorHacer
  <2>2. EnCamino' = EnCamino
    BY <1>0, <1>1 DEF EnCamino
  <2> QED BY <1>1, <2>1, <2>2, MismosPendientes
<1>10. SinDespertarPerdido'
  BY <1>1, <1>6, <1>7, <1>9, DespertaresSiguen
<1> QED BY <1>6, <1>7, <1>8, <1>10 DEF InvTeclado

(* A key, up to where its task is on its way or a full ring has lost it.   *)
LEMMA PasoTecla ==
    ASSUME InvTeclado, InvInsercion, manejador = "fuera",
           NEW c \in Caracteres, InterrupcionHWTeclado(c)
    PROVE  InvTeclado' /\ InvInsercion'
<1> DEFINE s == listaTareasPend
           b == bufferCaracteres
<1>1. /\ b' = (IF Len(b) = TAM_BUFFER_CARACTERES - 1 THEN b ELSE Append(b, c))
      /\ UNCHANGED <<estado, prioridad, ticksDespertar, contexto, procesoActual, listos,
                     listaDurmiendo, modo, ticks, listaTareasPend, tarea>>
      /\ UNCHANGED <<listaProcesosBloqueados, porLeer, donde>>
      /\ \/ Perder(1) /\ UNCHANGED <<manejador, indice>>
         \/ Perder(0) /\ manejador' = "funcion" /\ indice' = Len(s)
  BY DEF InterrupcionHWTeclado, InsertarBufferCaracteres, InsertarTareaTeclado,
         bcps, planificacion, lectores
<1>2. /\ b \in Seq(Caracteres) /\ Len(b) \in Nat /\ Len(b) < TAM_BUFFER_CARACTERES
      /\ b' \in Seq(Caracteres) /\ Len(b') < TAM_BUFFER_CARACTERES
      /\ Len(b') \in Nat /\ Len(b') <= Len(b) + 1
  <2>1. b \in Seq(Caracteres) /\ Len(b) \in Nat /\ Len(b) < TAM_BUFFER_CARACTERES
    BY LenProperties DEF InvTeclado, TiposTeclado, TypeOKTeclado
  <2>2. Append(b, c) \in Seq(Caracteres) /\ Len(Append(b, c)) = Len(b) + 1
    BY <2>1, AppendProperties
  <2> QED BY <1>1, <2>1, <2>2, TecladoAssumption
<1>3. /\ perdidas \in Nat /\ perdidas' \in Nat /\ perdidas' <= Len(b')
      /\ \/ perdidas' = Len(b')
         \/ perdidas' = perdidas + 1 /\ UNCHANGED <<manejador, indice>>
         \/ perdidas' = perdidas /\ manejador' = "funcion" /\ indice' = Len(s)
  <2>1. perdidas \in Nat
    BY <1>2 DEF InvTeclado, TiposTeclado, TypeOKTeclado
  <2>2. CASE Perder(1) /\ UNCHANGED <<manejador, indice>>
    <3>1. perdidas' \in Nat /\ perdidas' <= Len(b') /\ (perdidas' = Len(b') \/ perdidas' = perdidas + 1)
      BY <1>2, <2>1, <2>2, PerderTope
    <3> QED BY <2>1, <2>2, <3>1
  <2>3. CASE Perder(0) /\ manejador' = "funcion" /\ indice' = Len(s)
    <3>1. perdidas' \in Nat /\ perdidas' <= Len(b') /\ (perdidas' = Len(b') \/ perdidas' = perdidas + 0)
      BY <1>2, <2>1, <2>3, PerderTope
    <3> QED BY <2>1, <2>3, <3>1
  <2> QED BY <1>1, <2>2, <2>3
<1>4. TiposTeclado'
  <2>1. Len(s) \in 0 .. MAX_TAREAS - 1
    BY LenProperties, NucleoAssumption DEF InvTeclado, TiposTeclado, TypeOKTeclado
  <2> QED BY <1>1, <1>2, <1>3, <2>1 DEF InvTeclado, TiposTeclado, TypeOKTeclado
<1>5. /\ RepartoTeclado' /\ Fuera' = Fuera
      /\ \A p \in Procesos : Despierto(p) => Despierto(p)'
  BY <1>1, MismosLectores DEF InvTeclado, RepartoTeclado, ActualVivo, Despierto
<1>6. PuntosTeclado'
  BY <1>1, <1>5 DEF InvTeclado, PuntosTeclado, EnBucleSW
<1>7. SinDespertarPerdido'
  <2>1. PorHacer' = PorHacer /\ PorHacer \in Nat
    BY <1>1, TareasContadas DEF PorHacer, InvTeclado
  <2>2. donde = "ninguna" /\ EnCamino = 0
    BY DEF InvInsercion, EnCamino
  <2>3. \/ perdidas' = Len(b')
        \/ perdidas' = perdidas + 1 /\ EnCamino' = 0
        \/ perdidas' = perdidas /\ EnCamino' = 1
    BY <1>1, <1>3, <2>2 DEF EnCamino
  <2>4. \/ perdidas' = Len(b')
        \/ Len(b') + Pendientes <= Len(b) + Pendientes'
    BY <1>2, <1>3, <2>1, <2>2, <2>3 DEF Pendientes
  <2> QED BY <1>1, <1>4, <1>5, <2>4, DespertaresSiguen
<1>8. InvInsercion'
  <2>1. DOMAIN s = 1 .. Len(s) /\ Len(s) \in Nat
    BY LenProperties DEF InvTeclado, TiposTeclado, TypeOKTeclado
  <2> QED BY <1>1, <2>1 DEF InvInsercion
<1> QED BY <1>4, <1>5, <1>6, <1>7, <1>8 DEF InvTeclado

(* The handler after the first load of ultimo moves no process: what is    *)
(* left to see is the ring, and the wake-ups.                              *)
LEMMA PasoDelManejador ==
    ASSUME InvTeclado,
           UNCHANGED <<estado, prioridad, ticksDespertar, contexto, procesoActual, listos,
                       listaDurmiendo, modo, ticks, tarea, bufferCaracteres,
                       listaProcesosBloqueados, porLeer>>,
           listaTareasPend' \in Seq(TareasTodas), Len(listaTareasPend') < MAX_TAREAS,
           manejador' \in {"fuera", "cargar ultimo", "ultimo"},
           indice' \in 0 .. MAX_TAREAS - 1, donde' \in {"ninguna", "libre", "dentro"},
           perdidas' \in Nat, perdidas' <= Len(bufferCaracteres),
           perdidas' = Len(bufferCaracteres) \/ Pendientes <= Pendientes'
    PROVE  InvTeclado'
<1>1. TiposTeclado'
  BY DEF InvTeclado, TiposTeclado, TypeOKTeclado
<1>2. /\ RepartoTeclado' /\ Fuera' = Fuera
      /\ \A p \in Procesos : Despierto(p) => Despierto(p)'
  BY MismosLectores DEF InvTeclado, RepartoTeclado, ActualVivo, Despierto
<1>3. PuntosTeclado'
  BY <1>2 DEF InvTeclado, PuntosTeclado, EnBucleSW
<1>4. SinDespertarPerdido'
  <2>1. Len(bufferCaracteres) \in Nat /\ Pendientes \in Nat
    BY PendientesEsNat, LenProperties DEF InvTeclado, TiposTeclado, TypeOKTeclado
  <2>2. Pendientes' \in Nat
    BY <1>1, PendientesEsNatPrimado
  <2>3. \/ Len(bufferCaracteres') + Pendientes <= Len(bufferCaracteres) + Pendientes'
        \/ perdidas' = Len(bufferCaracteres')
    <3>1. CASE perdidas' = Len(bufferCaracteres)
      BY <3>1
    <3>2. CASE Pendientes <= Pendientes'
      BY <2>1, <2>2, <3>2, SumaMonotona, Zenon
    <3> QED BY <3>1, <3>2
  <2> QED BY <1>1, <1>2, <2>3, DespertaresSiguen
<1> QED BY <1>1, <1>2, <1>3, <1>4 DEF InvTeclado

LEMMA PasoCargarUltimo ==
    ASSUME InvTeclado, CargarUltimo PROVE InvTeclado' /\ InvInsercion'
<1>1. /\ manejador = "cargar ultimo" /\ manejador' = "ultimo"
      /\ indice' = Len(listaTareasPend)
      /\ UNCHANGED <<estado, prioridad, ticksDespertar, contexto, procesoActual, listos,
                     listaDurmiendo, modo, ticks, listaTareasPend, tarea, bufferCaracteres,
                     listaProcesosBloqueados, porLeer, donde, perdidas>>
  BY DEF CargarUltimo, vars, bcps, planificacion, interrupciones, lectores
<1>2. /\ listaTareasPend \in Seq(TareasTodas) /\ Len(listaTareasPend) < MAX_TAREAS
      /\ donde \in {"ninguna", "libre", "dentro"}
      /\ perdidas \in Nat /\ perdidas <= Len(bufferCaracteres)
  BY DEF InvTeclado, TiposTeclado, TypeOKTeclado
<1>3. Len(listaTareasPend) \in 0 .. MAX_TAREAS - 1
  BY <1>2, LenProperties, NucleoAssumption
<1>4. Pendientes <= Pendientes'
  <2>1. PorHacer' = PorHacer /\ EnCamino' = EnCamino /\ EnCamino \in Nat
    BY <1>1 DEF PorHacer, EnCamino
  <2>2. PorHacer \in Nat
    BY TareasContadas DEF InvTeclado
  <2>3. Pendientes \in Nat /\ Pendientes' = Pendientes
    <3>1. PorHacer + EnCamino + perdidas \in Nat
      BY <1>2, <2>1, <2>2
    <3>2. PorHacer' + EnCamino' + perdidas' = PorHacer + EnCamino + perdidas
      BY <1>1, <2>1, Zenon
    <3> QED BY <3>1, <3>2, Zenon DEF Pendientes
  <2> QED BY <2>3
<1>5. InvTeclado'
  BY <1>1, <1>2, <1>3, <1>4, PasoDelManejador
<1>6. InvInsercion'
  BY <1>1 DEF InvInsercion
<1> QED BY <1>5, <1>6

(* Storing the function: over the clock's task, if it is there, so that no *)
(* task of the keyboard is overwritten.                                    *)
LEMMA PasoPonerFuncion ==
    ASSUME InvTeclado, InvInsercion, PonerFuncion PROVE InvTeclado' /\ InvInsercion'
<1> DEFINE s == listaTareasPend
<1>1. /\ manejador = "funcion" /\ manejador' = "cargar ultimo"
      /\ \/ donde' = "libre" /\ s' = s
         \/ /\ Len(s) > indice
            /\ \E t \in {DE_TECLADO, DE_OTRO} :
                  /\ s' = [s EXCEPT ![indice + 1] = t]
                  /\ donde' = IF t = DE_TECLADO THEN "dentro" ELSE "ninguna"
      /\ UNCHANGED <<estado, prioridad, ticksDespertar, contexto, procesoActual, listos,
                     listaDurmiendo, modo, ticks, tarea, bufferCaracteres,
                     listaProcesosBloqueados, porLeer, indice, perdidas>>
  BY DEF PonerFuncion, bcps, planificacion, lectores
<1>2. /\ s \in Seq(TareasTodas) /\ Len(s) \in Nat /\ Len(s) < MAX_TAREAS
      /\ DOMAIN s = 1 .. Len(s) /\ indice \in 0 .. MAX_TAREAS - 1 /\ indice \in Nat
      /\ perdidas \in Nat /\ perdidas <= Len(bufferCaracteres)
      /\ donde = "ninguna"
      /\ \A i \in DOMAIN s : i > indice => s[i] \in TareasNucleo
  <2>1. /\ s \in Seq(TareasTodas) /\ Len(s) < MAX_TAREAS /\ indice \in 0 .. MAX_TAREAS - 1
        /\ perdidas \in Nat /\ perdidas <= Len(bufferCaracteres)
    BY DEF InvTeclado, TiposTeclado, TypeOKTeclado
  <2>2. donde = "ninguna" /\ \A i \in DOMAIN s : i > indice => s[i] \in TareasNucleo
    BY <1>1 DEF InvInsercion
  <2> QED BY <2>1, <2>2, LenProperties
<1>3. IsFiniteSet(DelTeclado(s)) /\ Cardinality(DelTeclado(s)) \in Nat
  BY <1>2, AnilloFinito
<1>4. EnCamino = 1 /\ EsDeTeclado(tarea) \in Nat /\ EsDeTeclado(tarea') = EsDeTeclado(tarea)
  BY <1>1, <1>2 DEF EnCamino, EsDeTeclado
<1>5. /\ s' \in Seq(TareasTodas) /\ Len(s') = Len(s) /\ donde' \in {"ninguna", "libre", "dentro"}
      /\ Cardinality(DelTeclado(s')) \in Nat /\ EnCamino' \in Nat
      /\ Cardinality(DelTeclado(s)) + 1 <= Cardinality(DelTeclado(s')) + EnCamino'
  <2>1. CASE donde' = "libre" /\ s' = s
    <3>1. EnCamino' = 1
      BY <1>1, <2>1 DEF EnCamino
    <3>2. /\ s' \in Seq(TareasTodas) /\ Len(s') = Len(s)
          /\ DelTeclado(s') = DelTeclado(s)
      BY <1>2, <2>1
    <3> QED BY <1>3, <2>1, <3>1, <3>2
  <2>2. ASSUME Len(s) > indice,
               NEW t \in {DE_TECLADO, DE_OTRO}, s' = [s EXCEPT ![indice + 1] = t],
               donde' = IF t = DE_TECLADO THEN "dentro" ELSE "ninguna"
        PROVE  /\ s' \in Seq(TareasTodas) /\ Len(s') = Len(s)
               /\ donde' \in {"ninguna", "libre", "dentro"}
               /\ Cardinality(DelTeclado(s')) \in Nat /\ EnCamino' \in Nat
               /\ Cardinality(DelTeclado(s)) + 1 <= Cardinality(DelTeclado(s')) + EnCamino'
    <3>1. /\ s' \in Seq(TareasTodas) /\ Len(s') = Len(s) /\ DOMAIN s' = DOMAIN s
          /\ indice + 1 \in DOMAIN s /\ s'[indice + 1] = t
          /\ \A i \in DOMAIN s : i # indice + 1 => s'[i] = s[i]
      BY <1>2, <2>2, ExceptSeq, DistintasTareas
    <3>2. s[indice + 1] # DE_TECLADO
      BY <1>2, <3>1, DistintasTareas
    <3>3. CASE t = DE_TECLADO
      <4>1. DelTeclado(s') = DelTeclado(s) \cup {indice + 1} /\ indice + 1 \notin DelTeclado(s)
        BY <3>1, <3>2, <3>3 DEF DelTeclado
      <4>2. Cardinality(DelTeclado(s')) = Cardinality(DelTeclado(s)) + 1
        BY <1>3, <4>1, FS_AddElement
      <4>3. donde' = "dentro" /\ EnCamino' = 0
        BY <1>1, <2>2, <3>3 DEF EnCamino
      <4> QED BY <1>3, <3>1, <4>2, <4>3
    <3>4. CASE t # DE_TECLADO
      <4>1. DelTeclado(s') = DelTeclado(s)
        BY <3>1, <3>2, <3>4 DEF DelTeclado
      <4>2. donde' = "ninguna" /\ EnCamino' = 1
        BY <1>1, <2>2, <3>4 DEF EnCamino
      <4> QED BY <1>3, <3>1, <4>1, <4>2
    <3> QED BY <3>3, <3>4
  <2> QED BY <1>1, <2>1, <2>2
<1>6. Pendientes <= Pendientes'
  <2>1. /\ Pendientes = (Cardinality(DelTeclado(s)) + EsDeTeclado(tarea)) + 1 + perdidas
        /\ Pendientes' = (Cardinality(DelTeclado(s')) + EsDeTeclado(tarea)) + EnCamino' + perdidas
    BY <1>1, <1>4 DEF Pendientes, PorHacer
  <2> QED BY <1>2, <1>3, <1>4, <1>5, <2>1
<1>7. InvTeclado'
  BY <1>1, <1>2, <1>5, <1>6, PasoDelManejador
<1>8. InvInsercion'
  BY <1>1 DEF InvInsercion
<1> QED BY <1>7, <1>8

(* Storing the new ultimo: what the ring no longer has of the keyboard is  *)
(* counted as lost.                                                        *)
LEMMA PasoPonerUltimo ==
    ASSUME InvTeclado, PonerUltimo PROVE InvTeclado' /\ InvInsercion'
<1> DEFINE s == listaTareasPend
           habia == Cardinality(DelTeclado(s)) + (IF donde = "dentro" THEN 0 ELSE 1)
           hay == Cardinality(DelTeclado(s'))
           n == IF habia > hay THEN habia - hay ELSE 0
<1>1. /\ manejador = "ultimo" /\ manejador' = "fuera" /\ indice' = 0 /\ donde' = "ninguna"
      /\ \E t \in EnElHueco :
            s' = IF Len(s) > indice THEN SubSeq(s, 1, indice + 1)
                 ELSE IF indice + 1 = MAX_TAREAS THEN <<>>
                 ELSE Append(s, t)
      /\ Perder(n)
      /\ UNCHANGED <<estado, prioridad, ticksDespertar, contexto, procesoActual, listos,
                     listaDurmiendo, modo, ticks, tarea, bufferCaracteres,
                     listaProcesosBloqueados, porLeer>>
  BY DEF PonerUltimo, bcps, planificacion, lectores
<1>2. /\ s \in Seq(TareasTodas) /\ Len(s) \in Nat /\ Len(s) < MAX_TAREAS /\ MAX_TAREAS \in Nat
      /\ MAX_TAREAS > 0
      /\ DOMAIN s = 1 .. Len(s) /\ indice \in 0 .. MAX_TAREAS - 1 /\ indice \in Nat
      /\ perdidas \in Nat /\ Len(bufferCaracteres) \in Nat
      /\ EnElHueco \subseteq TareasTodas
  <2>1. /\ s \in Seq(TareasTodas) /\ Len(s) < MAX_TAREAS /\ indice \in 0 .. MAX_TAREAS - 1
        /\ perdidas \in Nat /\ bufferCaracteres \in Seq(Caracteres)
    BY DEF InvTeclado, TiposTeclado, TypeOKTeclado
  <2>2. EnElHueco \subseteq TareasTodas
    BY DistintasTareas DEF EnElHueco
  <2> QED BY <2>1, <2>2, LenProperties, NucleoAssumption
<1>3. s' \in Seq(TareasTodas) /\ Len(s') < MAX_TAREAS
  <2>1. CASE Len(s) > indice
    <3>1. s' = SubSeq(s, 1, indice + 1)
      BY <1>1, <2>1
    <3>2. /\ SubSeq(s, 1, indice + 1) \in Seq(TareasTodas)
          /\ Len(SubSeq(s, 1, indice + 1)) = indice + 1
      BY <1>2, <2>1, SubSeqProperties
    <3> QED BY <1>2, <2>1, <3>1, <3>2
  <2>2. CASE Len(s) <= indice /\ indice + 1 = MAX_TAREAS
    <3>1. s' = <<>> /\ <<>> \in Seq(TareasTodas) /\ Len(<<>>) = 0
      BY <1>1, <1>2, <2>2
    <3> QED BY <1>2, <3>1
  <2>3. CASE Len(s) <= indice /\ indice + 1 # MAX_TAREAS
    <3>1. PICK t \in TareasTodas : s' = Append(s, t)
      BY <1>1, <1>2, <2>3
    <3>2. Append(s, t) \in Seq(TareasTodas) /\ Len(Append(s, t)) = Len(s) + 1
      BY <1>2, AppendProperties
    <3> QED BY <1>2, <2>3, <3>1, <3>2
  <2> QED BY <1>2, <2>1, <2>2, <2>3
<1>4. /\ Cardinality(DelTeclado(s)) \in Nat /\ hay \in Nat /\ habia \in Nat /\ n \in Nat
      /\ habia <= hay + n
  <2>1. Cardinality(DelTeclado(s)) \in Nat /\ hay \in Nat
    BY <1>2, <1>3, AnilloFinito
  <2> HIDE DEF hay
  <2> QED BY <2>1
<1>5. /\ perdidas' \in Nat /\ perdidas' <= Len(bufferCaracteres)
      /\ perdidas' = Len(bufferCaracteres) \/ perdidas' = perdidas + n
  <2> HIDE DEF n
  <2> QED BY <1>1, <1>2, <1>4, PerderTope
<1>6. habia = Cardinality(DelTeclado(s)) + EnCamino /\ EnCamino' = 0
  BY <1>1 DEF EnCamino
<1> HIDE DEF n, habia
<1>7. perdidas' = Len(bufferCaracteres) \/ Pendientes <= Pendientes'
  <2>1. EsDeTeclado(tarea) \in Nat /\ EsDeTeclado(tarea') = EsDeTeclado(tarea) /\ EnCamino \in Nat
    BY <1>1 DEF EsDeTeclado, EnCamino
  <2> QED BY <1>2, <1>4, <1>5, <1>6, <2>1 DEF Pendientes, PorHacer
<1>8. InvTeclado'
  <2>1. 0 \in 0 .. MAX_TAREAS - 1
    BY <1>2
  <2> QED BY <1>1, <1>3, <1>5, <1>7, <2>1, PasoDelManejador
<1>9. InvInsercion'
  BY <1>1 DEF InvInsercion
<1> QED BY <1>8, <1>9

LEMMA PasoObtenerTarea ==
    ASSUME InvTeclado, ObtenerTarea, UNCHANGED teclado PROVE InvTeclado'
<1> DEFINE s == listaTareasPend
<1>1. /\ EnBucleSW /\ tarea = NULL /\ s # <<>> /\ tarea' = Head(s) /\ listaTareasPend' = Tail(s)
      /\ UNCHANGED <<estado, prioridad, ticksDespertar, contexto, procesoActual, listos,
                     listaDurmiendo, modo, ticks>>
      /\ UNCHANGED <<bufferCaracteres, listaProcesosBloqueados, porLeer, manejador, indice, donde, perdidas>>
  BY DEF ObtenerTarea, bcps, planificacion, teclado, lectores, insercion
<1>2. /\ s \in Seq(TareasTodas) /\ Len(s) < MAX_TAREAS /\ Len(s) \in Nat /\ MAX_TAREAS \in Nat
  BY LenProperties, NucleoAssumption
     DEF InvTeclado, TiposTeclado, TypeOKTeclado
<1>3. /\ Head(s) \in TareasTodas /\ Tail(s) \in Seq(TareasTodas) /\ Len(Tail(s)) < MAX_TAREAS
  BY <1>1, <1>2, HeadTailProperties
<1>4. TiposTeclado'
  BY <1>1, <1>3 DEF InvTeclado, TiposTeclado, TypeOKTeclado
<1>5. /\ RepartoTeclado' /\ Fuera' = Fuera
      /\ \A p \in Procesos : Despierto(p) => Despierto(p)'
  BY <1>1, MismosLectores DEF InvTeclado, RepartoTeclado, ActualVivo, Despierto
<1>6. PuntosTeclado'
  BY <1>1, <1>5 DEF InvTeclado, PuntosTeclado, EnBucleSW
<1>7. Len(bufferCaracteres') + Pendientes <= Len(bufferCaracteres) + Pendientes'
  <2>1. Cardinality(DelTeclado(s)) = Cardinality(DelTeclado(Tail(s))) + EsDeTeclado(Head(s))
    BY <1>1, <1>2, AnilloExtraer
  <2>2. EsDeTeclado(tarea) = 0 /\ Cardinality(DelTeclado(s)) \in Nat
    BY <1>1, <1>2, DistintasTareas, AnilloFinito DEF EsDeTeclado
  <2>3. PorHacer' = Cardinality(DelTeclado(Tail(s))) + EsDeTeclado(Head(s))
    BY <1>1 DEF PorHacer
  <2>4. PorHacer' = PorHacer
    BY <2>1, <2>2, <2>3 DEF PorHacer
  <2> QED BY <1>1, <2>4, MismosPendientes DEF EnCamino
<1>8. SinDespertarPerdido'
  BY <1>1, <1>4, <1>5, <1>7, DespertaresSiguen
<1> QED BY <1>4, <1>5, <1>6, <1>8 DEF InvTeclado

(* The steps that only move the control of the process that runs, or none. *)
LEMMA PasoDeModo ==
    ASSUME InvTeclado, UNCHANGED teclado,
           EntrarSW \/ SalirSW \/ FinSleep \/ Apagar \/ Apagado
             \/ FinDespertarDormidos \/ ContarRodaja \/ InterrupcionSWOtro \/ UNCHANGED vars
    PROVE  InvTeclado'
<1>1. /\ UNCHANGED <<estado, prioridad, ticksDespertar, contexto, procesoActual, listos,
                     listaDurmiendo, ticks, listaTareasPend>>
      /\ UNCHANGED <<bufferCaracteres, listaProcesosBloqueados, porLeer, manejador, indice, donde, perdidas>>
  BY DEF EntrarSW, SalirSW, FinSleep, Apagar, Apagado, FinDespertarDormidos, ContarRodaja,
         InterrupcionSWOtro, vars, bcps, planificacion, interrupciones, teclado, lectores, insercion
<1>2. /\ \/ modo' = modo
         \/ /\ modo \in {"usuario", "interrupcion", "llamada"} /\ tarea = NULL
            /\ modo' \in {"usuario", "interrupcion", "apagado"}
      /\ \/ tarea' = tarea
         \/ modo' = modo /\ tarea' = NULL /\ tarea # DE_TECLADO
  <2>1. modo \in {"usuario", "llamada"} => tarea = NULL
    BY DEF InvTeclado, PuntosTeclado, EnBucleSW
  <2> QED BY <2>1, DistintasTareas
          DEF EntrarSW, SalirSW, FinSleep, Apagar, Apagado, FinDespertarDormidos, ContarRodaja,
              InterrupcionSWOtro, EnUsuario, vars, planificacion, interrupciones
<1>3. TiposTeclado'
  BY <1>1, <1>2, DistintasTareas
     DEF InvTeclado, TiposTeclado, TypeOKTeclado, Modos, Contextos
<1>4. /\ RepartoTeclado' /\ Fuera' = Fuera
      /\ \A p \in Procesos : Despierto(p) => Despierto(p)'
  <2>1. procesoActual = NULL <=> modo' \in {"espera", "esperaFin"}
    BY <1>2 DEF InvTeclado, RepartoTeclado, ActualVivo
  <2>2. modo = "extraer" => modo' = "extraer"
    BY <1>2
  <2> QED BY <1>1, <2>1, <2>2, MismosLectores DEF InvTeclado, Despierto
<1>5. PuntosTeclado'
  BY <1>1, <1>2, <1>4 DEF InvTeclado, PuntosTeclado, EnBucleSW
<1>6. Len(bufferCaracteres') + Pendientes <= Len(bufferCaracteres) + Pendientes'
  <2>1. EsDeTeclado(tarea') = EsDeTeclado(tarea)
    BY <1>2, DistintasTareas DEF EsDeTeclado
  <2>2. PorHacer' = PorHacer
    BY <1>1, <2>1 DEF PorHacer
  <2> QED BY <1>1, <2>2, MismosPendientes DEF EnCamino
<1>7. SinDespertarPerdido'
  BY <1>1, <1>3, <1>4, <1>6, DespertaresSiguen
<1> QED BY <1>3, <1>4, <1>5, <1>7 DEF InvTeclado

LEMMA PasoLeerFichero ==
    ASSUME InvTeclado, NEW n \in Lecturas, LeerFichero(n) PROVE InvTeclado'
<1>1. /\ UNCHANGED <<estado, prioridad, ticksDespertar, contexto, procesoActual, listos,
                     listaDurmiendo, ticks, listaTareasPend, tarea>>
      /\ UNCHANGED <<bufferCaracteres, listaProcesosBloqueados, manejador, indice, donde, perdidas>>
      /\ porLeer' = [porLeer EXCEPT ![procesoActual] = n]
      /\ modo = "usuario" /\ modo' = (IF n = 0 THEN "usuario" ELSE "leer")
      /\ n \in Nat
  BY TecladoAssumption DEF LeerFichero, EnUsuario, bcps, interrupciones, insercion
<1>2. procesoActual \in Procesos /\ Fuera = {procesoActual} /\ tarea = NULL
  BY <1>1 DEF InvTeclado, TiposTeclado, RepartoTeclado, ActualVivo, PuntosTeclado, EnBucleSW,
              Fuera
<1>3. TiposTeclado'
  <2>1. porLeer' \in [Procesos -> Nat]
    BY <1>1 DEF InvTeclado, TiposTeclado, TypeOKTeclado
  <2>2. modo' \in Modos \cup {"leer", "extraer"}
    BY <1>1 DEF Modos, Contextos
  <2> QED BY <1>1, <2>1, <2>2 DEF InvTeclado, TiposTeclado, TypeOKTeclado
<1>4. /\ RepartoTeclado' /\ Fuera' = Fuera
      /\ \A p \in Procesos : Despierto(p) => Despierto(p)'
  <2>1. procesoActual = NULL <=> modo' \in {"espera", "esperaFin"}
    BY <1>1 DEF InvTeclado, RepartoTeclado, ActualVivo
  <2> QED BY <1>1, <2>1, MismosLectores DEF InvTeclado, Despierto
<1>5. PuntosTeclado'
  <2>1. porLeer'[procesoActual] = n /\ \A p \in Procesos \ Fuera : porLeer'[p] = porLeer[p]
    BY <1>1, <1>2 DEF InvTeclado, TiposTeclado, TypeOKTeclado
  <2> QED BY <1>1, <1>2, <1>4, <2>1 DEF InvTeclado, PuntosTeclado
<1>6. Len(bufferCaracteres') + Pendientes <= Len(bufferCaracteres) + Pendientes'
  <2>1. PorHacer' = PorHacer
    BY <1>1 DEF PorHacer
  <2> QED BY <1>1, <2>1, MismosPendientes DEF EnCamino
<1>7. SinDespertarPerdido'
  BY <1>1, <1>3, <1>4, <1>6, DespertaresSiguen
<1> QED BY <1>3, <1>4, <1>5, <1>7 DEF InvTeclado

(* extraerBufferCaracteres: whoever takes a character, whether it comes    *)
(* from its first test or back from waiting, and whatever the buffer has.  *)
LEMMA PasoExtraer ==
    ASSUME InvTeclado, PeticionCaracter \/ ReanudarLector PROVE InvTeclado'
<1> DEFINE b == bufferCaracteres
           p == procesoActual
<1>1. /\ UNCHANGED <<estado, prioridad, ticksDespertar, contexto, procesoActual, listos,
                     listaDurmiendo, ticks, listaTareasPend, tarea>>
      /\ UNCHANGED <<listaProcesosBloqueados, manejador, indice, donde>>
      /\ Perder(0)
      /\ \E c : RecibirCaracter(c)
      /\ b' = (IF b = <<>> THEN <<>> ELSE Tail(b))
      /\ \/ modo = "leer" /\ b # <<>>
         \/ modo = "extraer"
  BY DEF PeticionCaracter, ReanudarLector, ExtraerBufferCaracteres, bcps, interrupciones, insercion
<1>2. /\ p \in Procesos /\ Fuera = {p} /\ tarea = NULL
      /\ porLeer \in [Procesos -> Nat] /\ porLeer[p] # 0
  BY <1>1 DEF InvTeclado, TiposTeclado, TypeOKTeclado, RepartoTeclado, ActualVivo, PuntosTeclado,
              EnBucleSW, Fuera
<1>3. PICK n \in Nat : /\ porLeer' = [porLeer EXCEPT ![p] = n]
                       /\ \/ modo' = "usuario"
                          \/ modo' = "leer" /\ n # 0
  <2>1. PICK c : RecibirCaracter(c)
    BY <1>1
  <2> DEFINE fin == c = ENTER \/ porLeer[p] - 1 = 0
             n == IF fin THEN 0 ELSE porLeer[p] - 1
  <2>2. /\ porLeer' = [porLeer EXCEPT ![p] = n]
        /\ modo' = (IF fin THEN "usuario" ELSE "leer")
    BY <2>1 DEF RecibirCaracter
  <2>3. n \in Nat /\ (~fin => n # 0)
    BY <1>2
  <2> QED BY <2>2, <2>3
<1>4. /\ b \in Seq(Caracteres) /\ Len(b) \in Nat /\ b' \in Seq(Caracteres) /\ Len(b') \in Nat
      /\ IF b = <<>> THEN Len(b') = 0 ELSE Len(b') = Len(b) - 1
      /\ Len(b') < TAM_BUFFER_CARACTERES
  <2>1. b \in Seq(Caracteres) /\ Len(b) \in Nat /\ Len(b) < TAM_BUFFER_CARACTERES
    BY LenProperties DEF InvTeclado, TiposTeclado, TypeOKTeclado
  <2>2. b # <<>> => Tail(b) \in Seq(Caracteres) /\ Len(Tail(b)) = Len(b) - 1 /\ Len(Tail(b)) \in Nat
    BY <2>1, HeadTailProperties, LenProperties
  <2>3. <<>> \in Seq(Caracteres) /\ Len(<<>>) = 0
    OBVIOUS
  <2> QED BY <1>1, <2>1, <2>2, <2>3, TecladoAssumption
<1>5. TiposTeclado'
  <2>1. porLeer' \in [Procesos -> Nat] /\ modo' \in Modos \cup {"leer", "extraer"}
    BY <1>2, <1>3 DEF Modos, Contextos
  <2>2. perdidas' \in Nat /\ perdidas' <= Len(b')
    BY <1>1, <1>4, PerderTope DEF InvTeclado, TiposTeclado, TypeOKTeclado
  <2> QED BY <1>1, <1>4, <2>1, <2>2 DEF InvTeclado, TiposTeclado, TypeOKTeclado
<1>6. /\ RepartoTeclado' /\ Fuera' = Fuera
      /\ \A x : x # p => (Despierto(x)' <=> Despierto(x))
      /\ \A x : x = p => ~Despierto(x)'
  <2>1. procesoActual = NULL <=> modo' \in {"espera", "esperaFin"}
    BY <1>1, <1>3 DEF InvTeclado, RepartoTeclado, ActualVivo
  <2> QED BY <1>1, <1>2, <1>3, <2>1, MismosLectores DEF InvTeclado
<1>7. PuntosTeclado'
  <2>1. porLeer'[p] = n /\ \A x \in Procesos \ Fuera : porLeer'[x] = porLeer[x]
    BY <1>2, <1>3
  <2> QED BY <1>1, <1>2, <1>3, <1>6, <2>1 DEF InvTeclado, PuntosTeclado
<1>8. SinDespertarPerdido'
  <2> SUFFICES ASSUME listaProcesosBloqueados' # <<>>
               PROVE  Len(b') <= Cardinality(Despertados') + Cardinality(TareasTeclado')
                                    + EnCamino' + perdidas'
    BY DEF SinDespertarPerdido
  <2>1. TareasTeclado' = TareasTeclado
    BY <1>1 DEF TareasTeclado
  <2>2. /\ Cardinality(TareasTeclado) \in Nat /\ Cardinality(Despertados) \in Nat
        /\ Cardinality(Despertados') \in Nat /\ IsFiniteSet(Despertados)
    BY <1>5, <1>6, TareasContadas, DespertadosSon, DespertadosSonPrimado DEF InvTeclado
  <2>3. Len(b) <= Cardinality(Despertados) + Cardinality(TareasTeclado) + EnCamino + perdidas
    BY <1>1 DEF InvTeclado, SinDespertarPerdido
  <2>4. Despertados' = Despertados \ {p}
    <3>1. \A x : x \in Despertados <=> x \in Procesos /\ Despierto(x)
      BY DespertadosSon DEF InvTeclado
    <3>2. \A x : x \in Despertados' <=> x \in Procesos /\ Despierto(x)'
      BY <1>5, <1>6, DespertadosSonPrimado
    <3>3. \A x : x \in Despertados' <=> x \in Despertados \ {p}
      BY <1>6, <3>1, <3>2
    <3> QED BY <3>3
  <2>5. Cardinality(Despertados') >= Cardinality(Despertados) - 1
    <3>1. Cardinality(Despertados \ {p}) =
             IF p \in Despertados THEN Cardinality(Despertados) - 1 ELSE Cardinality(Despertados)
      BY <2>2, FS_RemoveElement
    <3> QED BY <2>2, <2>4, <3>1
  <2>6. /\ EnCamino' = EnCamino /\ EnCamino \in Nat /\ perdidas \in Nat
        /\ perdidas' = Len(b') \/ perdidas' = perdidas
    <3>1. perdidas \in Nat
      BY <1>4 DEF InvTeclado, TiposTeclado, TypeOKTeclado
    <3>2. perdidas' = Len(b') \/ perdidas' = perdidas + 0
      BY <1>1, <1>4, <3>1, PerderTope
    <3> QED BY <1>1, <3>1, <3>2 DEF EnCamino
  <2> QED BY <1>4, <2>1, <2>2, <2>3, <2>5, <2>6
<1> QED BY <1>5, <1>6, <1>7, <1>8 DEF InvTeclado

(* interrupcionSW_teclado: the task spends one wake-up, the reader it      *)
(* wakes is one more.                                                      *)
LEMMA PasoInterrupcionSW ==
    ASSUME InvTeclado, InterrupcionSWTeclado PROVE InvTeclado'
<1> DEFINE d == listaProcesosBloqueados
<1>1. /\ tarea = DE_TECLADO /\ tarea' = NULL
      /\ UNCHANGED <<prioridad, ticksDespertar, contexto, procesoActual, listaDurmiendo,
                     modo, ticks, listaTareasPend>>
      /\ UNCHANGED <<bufferCaracteres, porLeer, manejador, indice, donde, perdidas>>
  BY DEF InterrupcionSWTeclado, insercion
<1>2. d \in Seq(Procesos) /\ listos \in ColasDe(Procesos) /\ estado \in [Procesos -> Estados]
  BY DEF InvTeclado, TiposTeclado, TypeOKTeclado
<1>3. CASE d = <<>>
  <2>1. UNCHANGED <<estado, listos, listaProcesosBloqueados>>
    BY <1>3 DEF InterrupcionSWTeclado
  <2>2. TiposTeclado'
    BY <1>1, <2>1 DEF InvTeclado, TiposTeclado, TypeOKTeclado
  <2>3. RepartoTeclado' /\ Fuera' = Fuera
    BY <1>1, <2>1, MismosLectores DEF InvTeclado, RepartoTeclado, ActualVivo
  <2>4. PuntosTeclado' /\ SinDespertarPerdido'
    BY <1>1, <1>3, <2>1, <2>3 DEF InvTeclado, PuntosTeclado, SinDespertarPerdido
  <2> QED BY <2>2, <2>3, <2>4 DEF InvTeclado
<1>4. CASE d # <<>>
  <2>0. PICK p : p = Head(d)
    OBVIOUS
  <2>1. /\ estado' = [estado EXCEPT ![p] = LISTO]
        /\ listos' = InsertarListos(listos, PRIORIDAD_NORMAL, p)
        /\ d' = Tail(d)
    BY <1>4, <2>0 DEF InterrupcionSWTeclado
  <2>2. /\ p \in Procesos /\ Tail(d) \in Seq(Procesos)
        /\ Leyendo = Leyendo' \cup {p} /\ IsInjective(d') /\ p \notin Leyendo'
        /\ PRIORIDAD_NORMAL \in Prioridades
    BY <1>2, <1>4, <2>0, <2>1, Eliminar DEF InvTeclado, RepartoTeclado, Leyendo, Prioridades
  <2>3. Fuera' = Fuera /\ p \notin Fuera
    BY <1>1, <2>2 DEF Fuera, InvTeclado, RepartoTeclado
  <2>4. /\ listos' \in ColasDe(Procesos)
        /\ Reparto(estado', listos', listaDurmiendo, Leyendo' \cup Fuera')
    <3>1. Reparto(estado, listos, listaDurmiendo, Leyendo \cup Fuera) /\ p \in Leyendo \cup Fuera
      BY <2>2 DEF InvTeclado, RepartoTeclado
    <3>2. /\ InsertarListos(listos, PRIORIDAD_NORMAL, p) \in ColasDe(Procesos)
          /\ Reparto([estado EXCEPT ![p] = LISTO], InsertarListos(listos, PRIORIDAD_NORMAL, p),
                     listaDurmiendo, (Leyendo \cup Fuera) \ {p})
      BY <1>2, <2>2, <3>1, RepartoInsertar
    <3>3. (Leyendo \cup Fuera) \ {p} = Leyendo' \cup Fuera'
      BY <2>2, <2>3
    <3> QED BY <2>1, <3>2, <3>3
  <2>5. /\ estado' \in [Procesos -> Estados] /\ estado'[p] = LISTO
        /\ \A x \in Procesos \ {p} : estado'[x] = estado[x]
    BY <1>2, <2>1, <2>2, EstadosDistintos
  <2>6. TiposTeclado'
    BY <1>1, <2>1, <2>2, <2>4, <2>5 DEF InvTeclado, TiposTeclado, TypeOKTeclado
  <2>7. RepartoTeclado'
    <3>1. \A x \in Leyendo' : estado'[x] = BLOQUEADO /\ contexto'[x] = "extraer"
      <4>1. Leyendo' \subseteq Procesos
        BY <2>1, <2>2, MiembrosSonProcesos, <1>2 DEF Leyendo
      <4> QED BY <1>1, <2>2, <2>5, <4>1 DEF InvTeclado, RepartoTeclado
    <3>2. ActualVivo'
      <4>1. procesoActual # p
        BY <2>2, <2>3 DEF Fuera
      <4> QED BY <1>1, <2>5, <4>1 DEF InvTeclado, TiposTeclado, RepartoTeclado, ActualVivo
    <3>3. Fuera' \cap Leyendo' = {}
      BY <2>2, <2>3 DEF InvTeclado, RepartoTeclado
    <3> QED BY <1>1, <2>2, <2>4, <3>1, <3>2, <3>3 DEF RepartoTeclado
  <2>8. PuntosTeclado'
    <3>1. estado[p] # NO_USADA
      BY <2>2, EstadosDistintos DEF InvTeclado, RepartoTeclado
    <3> QED BY <1>1, <2>3, <2>5, <3>1 DEF InvTeclado, PuntosTeclado
  <2>9. SinDespertarPerdido'
    <3>1. estado[p] = BLOQUEADO /\ contexto[p] = "extraer"
      BY <2>2 DEF InvTeclado, RepartoTeclado
    <3>2. ~Despierto(p) /\ Despierto(p)'
      BY <1>1, <2>3, <2>5, <3>1, EstadosDistintos DEF Despierto
    <3>3. \A x \in Procesos \ {p} : Despierto(x)' <=> Despierto(x)
      BY <1>1, <2>3, <2>5 DEF Despierto
    <3>4. Despertados' = Despertados \cup {p} /\ p \notin Despertados
      <4>1. \A x : x \in Despertados <=> x \in Procesos /\ Despierto(x)
        BY DespertadosSon DEF InvTeclado
      <4>2. \A x : x \in Despertados' <=> x \in Procesos /\ Despierto(x)'
        BY <2>6, <2>7, DespertadosSonPrimado
      <4>3. \A x : x \in Despertados' <=> x \in Despertados \cup {p}
        BY <2>2, <3>2, <3>3, <4>1, <4>2
      <4> QED BY <3>2, <4>1, <4>3
    <3>5. /\ Cardinality(Despertados) \in Nat /\ IsFiniteSet(Despertados)
          /\ Cardinality(Despertados') = Cardinality(Despertados) + 1
      BY <3>4, DespertadosSon, FS_AddElement DEF InvTeclado
    <3>6. /\ PorHacer' = PorHacer - 1 /\ PorHacer \in Nat
          /\ Cardinality(TareasTeclado') = PorHacer' /\ Cardinality(TareasTeclado) = PorHacer
      <4>1. Cardinality(DelTeclado(listaTareasPend)) \in Nat
        BY AnilloFinito DEF InvTeclado, TiposTeclado, TypeOKTeclado
      <4>2. PorHacer' = PorHacer - 1
        BY <1>1, <4>1, DistintasTareas DEF PorHacer, EsDeTeclado
      <4> QED BY <2>6, <4>2, TareasContadas, TareasContadasPrimado DEF InvTeclado
    <3>7. Len(bufferCaracteres)
             <= Cardinality(Despertados) + Cardinality(TareasTeclado) + EnCamino + perdidas
      BY <1>4 DEF InvTeclado, SinDespertarPerdido
    <3>8. /\ Len(bufferCaracteres) \in Nat /\ perdidas \in Nat
          /\ EnCamino \in Nat /\ EnCamino' = EnCamino
      BY <1>1, LenProperties DEF InvTeclado, TiposTeclado, TypeOKTeclado, EnCamino
    <3>9. Len(bufferCaracteres')
             <= Cardinality(Despertados') + Cardinality(TareasTeclado') + EnCamino' + perdidas'
      BY <1>1, <3>5, <3>6, <3>7, <3>8
    <3> QED BY <3>9 DEF SinDespertarPerdido
  <2> QED BY <2>6, <2>7, <2>8, <2>9 DEF InvTeclado
<1> QED BY <1>3, <1>4

(***************************************************************************)
(* A step after which another process, or nobody, has the CPU.  e and c    *)
(* are the states and the points once procesoActual has left it.           *)
(***************************************************************************)
DejaLaCPU(e, c) ==
    /\ Cedida(Puntos, e, c, listaDurmiendo', Leyendo')
    /\ c \in [Procesos -> Puntos]
    /\ ticksDespertar' \in [Procesos -> Nat] /\ listaDurmiendo' \in Seq(Procesos)
    /\ listaProcesosBloqueados' \in Seq(Procesos) /\ IsInjective(listaProcesosBloqueados')
    /\ tarea' = NULL /\ tarea # DE_TECLADO /\ modo # "extraer"
    /\ UNCHANGED <<prioridad, ticks, listaTareasPend, bufferCaracteres, porLeer, manejador, indice, donde, perdidas>>
    /\ bufferCaracteres = <<>> \/ UNCHANGED listaProcesosBloqueados
    /\ \A p \in Leyendo' : e[p] = BLOQUEADO /\ c[p] = "extraer"
    /\ \A p \in Procesos : e[p] # NO_USADA /\ c[p] = "extraer" => porLeer[p] # 0
    /\ \A p \in Procesos \ Fuera :
          estado[p] = LISTO /\ contexto[p] = "extraer" => e[p] = LISTO /\ c[p] = "extraer"

LEMMA PasoDejarLaCPU ==
    ASSUME InvTeclado, NEW e, NEW c, DejaLaCPU(e, c) PROVE InvTeclado'
<1> USE DEF DejaLaCPU
<1>1. /\ estado' \in [Procesos -> Estados] /\ contexto' \in [Procesos -> Puntos]
      /\ \A p \in Procesos \ Fuera' : contexto'[p] = c[p]
      /\ procesoActual' \in Procesos \cup {NULL}
      /\ listos' \in ColasDe(Procesos) /\ modo' \in Puntos \cup {"espera", "esperaFin"}
      /\ Fuera' \cap Leyendo' = {}
      /\ Reparto(estado', listos', listaDurmiendo', Leyendo' \cup Fuera')
      /\ ActualVivo'
      /\ \A p \in Procesos \ Fuera' : estado'[p] = e[p]
      /\ procesoActual' # NULL => e[procesoActual'] = LISTO /\ modo' = c[procesoActual']
  BY DEF Cedida
<1>2. Leyendo' \subseteq Procesos
  BY <1>1, MiembrosSonProcesos DEF Leyendo
<1>3. TiposTeclado'
  BY <1>1, DistintasTareas DEF InvTeclado, TiposTeclado, TypeOKTeclado, Puntos
<1>4. RepartoTeclado'
  <2>1. \A p \in Leyendo' : estado'[p] = BLOQUEADO /\ contexto'[p] = "extraer"
    BY <1>1, <1>2
  <2> QED BY <1>1, <2>1 DEF RepartoTeclado
<1>5. PuntosTeclado'
  <2>1. ASSUME modo' \in {"leer", "extraer"} PROVE porLeer'[procesoActual'] # 0
    <3>1. procesoActual' # NULL /\ procesoActual' \in Procesos
      BY <1>1, <2>1 DEF ActualVivo
    <3>2. modo' \in Puntos
      BY <1>1, <3>1
    <3>3. modo' = "extraer"
      BY <2>1, <3>2 DEF Puntos, Contextos
    <3> QED BY <1>1, <3>1, <3>3, EstadosDistintos
  <2>2. \A p \in Procesos \ Fuera' :
           estado'[p] # NO_USADA /\ contexto'[p] = "extraer" => porLeer'[p] # 0
    BY <1>1
  <2> QED BY <2>1, <2>2 DEF PuntosTeclado
<1>6. SinDespertarPerdido'
  <2>1. CASE bufferCaracteres = <<>>
    <3>1. Len(bufferCaracteres') = 0
      BY <2>1
    <3>2. /\ Cardinality(Despertados') \in Nat /\ Cardinality(TareasTeclado') \in Nat
          /\ EnCamino' \in Nat /\ perdidas' \in Nat
      BY <1>3, <1>4, <3>1, TareasContadasPrimado, DespertadosSonPrimado
         DEF TiposTeclado, TypeOKTeclado, EnCamino
    <3> QED BY <3>1, <3>2 DEF SinDespertarPerdido
  <2>2. CASE UNCHANGED listaProcesosBloqueados
    <3>1. ASSUME NEW p \in Procesos, Despierto(p) PROVE Despierto(p)'
      <4>1. p \notin Fuera /\ e[p] = LISTO /\ c[p] = "extraer"
        BY <3>1 DEF Despierto
      <4>2. CASE p \in Fuera'
        BY <1>1, <4>1, <4>2, NULLAssumption DEF Despierto, Fuera
      <4>3. CASE p \notin Fuera'
        BY <1>1, <4>1, <4>3 DEF Despierto
      <4> QED BY <4>2, <4>3
    <3>2. PorHacer' = PorHacer
      BY DistintasTareas DEF PorHacer, EsDeTeclado
    <3>3. Len(bufferCaracteres') + Pendientes <= Len(bufferCaracteres) + Pendientes'
      BY <3>2, MismosPendientes DEF EnCamino
    <3> QED BY <1>3, <1>4, <2>2, <3>1, <3>3, DespertaresSiguen
  <2> QED BY <2>1, <2>2
<1> QED BY <1>3, <1>4, <1>5, <1>6 DEF InvTeclado

(* Any point of the program where a call can leave the CPU.                *)
LEMMA EnCurso ==
    ASSUME InvTeclado, modo \in {"usuario", "leer"}
    PROVE  procesoActual \in Procesos /\ Fuera = {procesoActual} /\ tarea = NULL
BY DEF InvTeclado, TiposTeclado, RepartoTeclado, ActualVivo, PuntosTeclado, EnBucleSW, Fuera

LEMMA PasoFinEsperaTeclado ==
    ASSUME InvTeclado, FinEspera, UNCHANGED teclado PROVE InvTeclado'
<1>1. /\ modo \in {"espera", "esperaFin"} /\ tarea = NULL
      /\ CederCPU(estado, contexto, modo)
      /\ UNCHANGED <<prioridad, ticksDespertar, listaDurmiendo, ticks, listaTareasPend, tarea>>
      /\ UNCHANGED <<bufferCaracteres, listaProcesosBloqueados, porLeer, manejador, indice, donde, perdidas>>
  BY DEF FinEspera, interrupciones, teclado, lectores, insercion
<1>2. /\ estado \in [Procesos -> Estados] /\ contexto \in [Procesos -> Puntos]
      /\ listos \in ColasDe(Procesos)
  BY DEF InvTeclado, TiposTeclado, TypeOKTeclado, Puntos
<1>3. Leyendo' = Leyendo /\ Fuera = {} /\ Leyendo \cup Fuera = Leyendo
  BY <1>1, NULLAssumption DEF Leyendo, Fuera, InvTeclado, RepartoTeclado, ActualVivo
<1>4. Reparto(estado, listos, listaDurmiendo, Leyendo)
  BY <1>3 DEF InvTeclado, RepartoTeclado
<1>5. Cedida(Puntos, estado, contexto, listaDurmiendo, Leyendo)
  BY <1>1, <1>2, <1>4, CederReparte, DistintasTareas
<1>6. DejaLaCPU(estado, contexto)
  BY <1>1, <1>2, <1>3, <1>5, DistintasTareas
     DEF DejaLaCPU, InvTeclado, TiposTeclado, TypeOKTeclado, RepartoTeclado, PuntosTeclado
<1> QED BY <1>6, PasoDejarLaCPU

LEMMA PasoTerminarTeclado ==
    ASSUME InvTeclado, TerminarProceso, UNCHANGED teclado PROVE InvTeclado'
<1> DEFINE p == procesoActual
           e == [estado EXCEPT ![p] = NO_USADA]
<1>1. /\ modo = "usuario"
      /\ CederCPU(e, contexto, "esperaFin")
      /\ UNCHANGED <<prioridad, ticksDespertar, listaDurmiendo, ticks, listaTareasPend, tarea>>
      /\ UNCHANGED <<bufferCaracteres, listaProcesosBloqueados, porLeer, manejador, indice, donde, perdidas>>
  BY DEF TerminarProceso, EnUsuario, interrupciones, teclado, lectores, insercion
<1>2. p \in Procesos /\ Fuera = {p} /\ tarea = NULL
  BY <1>1, EnCurso
<1>3. /\ estado \in [Procesos -> Estados] /\ contexto \in [Procesos -> Puntos]
      /\ listos \in ColasDe(Procesos)
  BY DEF InvTeclado, TiposTeclado, TypeOKTeclado, Puntos
<1>4. Leyendo' = Leyendo /\ p \notin Leyendo /\ (Leyendo \cup Fuera) \ {p} = Leyendo
  BY <1>1, <1>2 DEF Leyendo, InvTeclado, RepartoTeclado
<1>5. Reparto(e, listos, listaDurmiendo, Leyendo)
  <2>1. Reparto(estado, listos, listaDurmiendo, Leyendo \cup Fuera) /\ p \in Leyendo \cup Fuera
    BY <1>2 DEF InvTeclado, RepartoTeclado
  <2>2. Reparto(e, listos, listaDurmiendo, (Leyendo \cup Fuera) \ {p})
    BY <1>2, <1>3, <2>1, RepartoLiberar
  <2> QED BY <1>4, <2>2
<1>6. /\ e \in [Procesos -> Estados] /\ e[p] = NO_USADA
      /\ \A x \in Procesos \ {p} : e[x] = estado[x]
  BY <1>2, <1>3, EstadosDistintos
<1> HIDE DEF e
<1>7. Cedida(Puntos, e, contexto, listaDurmiendo, Leyendo)
  BY <1>1, <1>3, <1>5, <1>6, CederReparte, DistintasTareas
<1>8. Leyendo \subseteq Procesos
  BY MiembrosSonProcesos DEF Leyendo, InvTeclado, TiposTeclado, TypeOKTeclado
<1>9. DejaLaCPU(e, contexto)
  BY <1>1, <1>2, <1>3, <1>4, <1>6, <1>7, <1>8, DistintasTareas
     DEF DejaLaCPU, InvTeclado, TiposTeclado, TypeOKTeclado, RepartoTeclado, PuntosTeclado
<1> QED BY <1>9, PasoDejarLaCPU

LEMMA PasoSleepTeclado ==
    ASSUME InvTeclado, NEW s \in Segundos, Sleep(s), UNCHANGED teclado PROVE InvTeclado'
<1> DEFINE p == procesoActual
           e == [estado EXCEPT ![p] = BLOQUEADO]
           c == [contexto EXCEPT ![p] = "llamada"]
<1>1. /\ modo = "usuario"
      /\ CederCPU(e, c, "espera")
      /\ ticksDespertar' = [ticksDespertar EXCEPT ![p] = (ticks + s * TICK) % MOD]
      /\ listaDurmiendo' = InsertarOrdenado(listaDurmiendo, p, ticksDespertar')
      /\ UNCHANGED <<prioridad, ticks, listaTareasPend, tarea>>
      /\ UNCHANGED <<bufferCaracteres, listaProcesosBloqueados, porLeer, manejador, indice, donde, perdidas>>
  BY DEF Sleep, EnUsuario, interrupciones, teclado, lectores, insercion
<1>2. p \in Procesos /\ Fuera = {p} /\ tarea = NULL
  BY <1>1, EnCurso
<1>3. /\ estado \in [Procesos -> Estados] /\ contexto \in [Procesos -> Puntos]
      /\ listos \in ColasDe(Procesos) /\ listaDurmiendo \in Seq(Procesos)
  BY DEF InvTeclado, TiposTeclado, TypeOKTeclado, Puntos
<1>4. Leyendo' = Leyendo /\ p \notin Leyendo /\ (Leyendo \cup Fuera) \ {p} = Leyendo
  BY <1>1, <1>2 DEF Leyendo, InvTeclado, RepartoTeclado
<1>5. ticksDespertar' \in [Procesos -> Nat]
  <2>1. ticks \in Nat /\ s * TICK \in Nat /\ MOD \in Nat \ {0}
    BY NucleoAssumption DEF InvTeclado, TiposTeclado
  <2>2. (ticks + s * TICK) % MOD \in Nat
    BY <2>1
  <2> QED BY <1>1, <2>2 DEF InvTeclado, TiposTeclado
<1>6. listaDurmiendo' \in Seq(Procesos)
  BY <1>1, <1>2, <1>3, <1>5, InsertarEnOrden
<1>7. Reparto(e, listos, listaDurmiendo', Leyendo)
  <2>1. Reparto(estado, listos, listaDurmiendo, Leyendo \cup Fuera) /\ p \in Leyendo \cup Fuera
    BY <1>2 DEF InvTeclado, RepartoTeclado
  <2>2. Reparto(e, listos, InsertarOrdenado(listaDurmiendo, p, ticksDespertar'),
                (Leyendo \cup Fuera) \ {p})
    BY <1>2, <1>3, <1>5, <2>1, RepartoDormir
  <2> QED BY <1>1, <1>4, <2>2
<1>8. /\ e \in [Procesos -> Estados] /\ c \in [Procesos -> Puntos]
      /\ c[p] = "llamada"
      /\ \A x \in Procesos \ {p} : e[x] = estado[x] /\ c[x] = contexto[x]
  BY <1>2, <1>3, EstadosDistintos DEF Puntos, Contextos
<1> HIDE DEF e, c
<1>9. Cedida(Puntos, e, c, listaDurmiendo', Leyendo)
  BY <1>1, <1>3, <1>7, <1>8, CederReparte, DistintasTareas
<1>10. Leyendo \subseteq Procesos
  BY MiembrosSonProcesos DEF Leyendo, InvTeclado, TiposTeclado, TypeOKTeclado
<1>11. DejaLaCPU(e, c)
  BY <1>1, <1>2, <1>4, <1>5, <1>6, <1>8, <1>9, <1>10, DistintasTareas
     DEF DejaLaCPU, InvTeclado, TiposTeclado, TypeOKTeclado, RepartoTeclado, PuntosTeclado
<1> QED BY <1>11, PasoDejarLaCPU

(* peticionCaracter_teclado with an empty buffer.                          *)
LEMMA PasoBloquearLector ==
    ASSUME InvTeclado, BloquearLector PROVE InvTeclado'
<1> DEFINE p == procesoActual
           d == listaProcesosBloqueados
           e == [estado EXCEPT ![p] = BLOQUEADO]
           c == [contexto EXCEPT ![p] = "extraer"]
<1>1. /\ modo = "leer" /\ bufferCaracteres = <<>>
      /\ CederCPU(e, c, "espera")
      /\ d' = Append(d, p)
      /\ UNCHANGED <<prioridad, ticksDespertar, listaDurmiendo, ticks, listaTareasPend, tarea>>
      /\ UNCHANGED <<bufferCaracteres, porLeer, manejador, indice, donde, perdidas>>
  BY DEF BloquearLector, interrupciones, insercion
<1>2. p \in Procesos /\ Fuera = {p} /\ tarea = NULL
  BY <1>1, EnCurso
<1>3. /\ estado \in [Procesos -> Estados] /\ contexto \in [Procesos -> Puntos]
      /\ listos \in ColasDe(Procesos) /\ d \in Seq(Procesos)
  BY DEF InvTeclado, TiposTeclado, TypeOKTeclado, Puntos
<1>4. /\ d' \in Seq(Procesos) /\ Leyendo' = Leyendo \cup {p} /\ IsInjective(d')
      /\ p \notin Leyendo
  <2>1. p \notin Leyendo /\ IsInjective(d)
    BY <1>2 DEF InvTeclado, RepartoTeclado
  <2> QED BY <1>1, <1>2, <1>3, <2>1, Insertar DEF Leyendo
<1>5. /\ e \in [Procesos -> Estados] /\ c \in [Procesos -> Puntos]
      /\ e[p] = BLOQUEADO /\ c[p] = "extraer"
      /\ \A x \in Procesos \ {p} : e[x] = estado[x] /\ c[x] = contexto[x]
  BY <1>2, <1>3, EstadosDistintos DEF Puntos
<1> HIDE DEF e, c
<1>6. Reparto(e, listos, listaDurmiendo, Leyendo')
  <2>1. Reparto(estado, listos, listaDurmiendo, Leyendo') /\ p \in Leyendo'
    BY <1>2, <1>4 DEF InvTeclado, RepartoTeclado
  <2>2. \A x \in Procesos \ Leyendo' : e[x] = estado[x]
    BY <1>5, <2>1
  <2> QED BY <2>1, <2>2 DEF Reparto
<1>7. Cedida(Puntos, e, c, listaDurmiendo, Leyendo')
  BY <1>1, <1>3, <1>5, <1>6, CederReparte, DistintasTareas
<1>8. Leyendo' \subseteq Procesos
  BY <1>3, <1>4, MiembrosSonProcesos DEF Leyendo
<1>9. porLeer[p] # 0
  BY <1>1 DEF InvTeclado, PuntosTeclado
<1>10. DejaLaCPU(e, c)
  BY <1>1, <1>2, <1>4, <1>5, <1>7, <1>8, <1>9, DistintasTareas
     DEF DejaLaCPU, InvTeclado, TiposTeclado, RepartoTeclado, PuntosTeclado
<1> QED BY <1>10, PasoDejarLaCPU

LEMMA PasoExpulsarTeclado ==
    ASSUME InvTeclado, ExpulsarProceso, UNCHANGED teclado PROVE InvTeclado'
<1> DEFINE p == procesoActual
           e == [estado EXCEPT ![p] = LISTO]
           c == [contexto EXCEPT ![p] = "interrupcion"]
<1>1. /\ tarea = "planificarRodaja" /\ p # NULL /\ tarea' = NULL
      /\ UNCHANGED <<prioridad, ticksDespertar, listaDurmiendo, ticks, listaTareasPend>>
      /\ UNCHANGED <<bufferCaracteres, listaProcesosBloqueados, porLeer, manejador, indice, donde, perdidas>>
  BY DEF ExpulsarProceso, teclado, lectores, insercion
<1>2. p \in Procesos /\ Fuera = {p}
  BY <1>1 DEF Fuera, InvTeclado, TiposTeclado
<1>3. modo # "extraer"
  BY <1>1, NULLAssumption DEF InvTeclado, PuntosTeclado, EnBucleSW, TareasNucleo
<1>4. /\ estado \in [Procesos -> Estados] /\ contexto \in [Procesos -> Puntos]
      /\ listos \in ColasDe(Procesos) /\ prioridad \in [Procesos -> Prioridades]
      /\ procesoActual \in Procesos \cup {NULL} /\ "interrupcion" \in Puntos
  BY DEF InvTeclado, TiposTeclado, TypeOKTeclado, Puntos, Contextos
<1>5. Leyendo' = Leyendo /\ p \notin Leyendo
  BY <1>1, <1>2 DEF Leyendo, InvTeclado, RepartoTeclado
<1>6. Cedida(Puntos, e, c, listaDurmiendo, Leyendo)
  <2>1. Fuera \cap Leyendo = {} /\ Reparto(estado, listos, listaDurmiendo, Leyendo \cup Fuera)
    BY DEF InvTeclado, RepartoTeclado
  <2> QED BY <1>4, <2>1, ExpulsarReparte, DistintasTareas
<1>7. /\ c \in [Procesos -> Puntos] /\ c[p] = "interrupcion"
      /\ \A x \in Procesos \ {p} : e[x] = estado[x] /\ c[x] = contexto[x]
  BY <1>2, <1>4
<1> HIDE DEF e, c
<1>8. Leyendo \subseteq Procesos
  BY MiembrosSonProcesos DEF Leyendo, InvTeclado, TiposTeclado, TypeOKTeclado
<1>9. DejaLaCPU(e, c)
  BY <1>1, <1>2, <1>3, <1>5, <1>6, <1>7, <1>8, DistintasTareas
     DEF DejaLaCPU, InvTeclado, TiposTeclado, TypeOKTeclado, RepartoTeclado, PuntosTeclado
<1> QED BY <1>9, PasoDejarLaCPU

(* A process that comes into a ready queue, from a free slot or from the   *)
(* sleepers, disturbs no reader.                                           *)
LEMMA PasoEntrar ==
    ASSUME InvTeclado, NEW p \in Procesos \ (Fuera \cup Leyendo), NEW e \in [Procesos -> Estados],
           e = [estado EXCEPT ![p] = LISTO], estado' = e,
           listos' \in ColasDe(Procesos), listaDurmiendo' \in Seq(Procesos),
           prioridad' \in [Procesos -> Prioridades], contexto' \in [Procesos -> Puntos],
           Reparto(e, listos', listaDurmiendo', Leyendo \cup Fuera),
           \A x \in Procesos \ {p} : contexto'[x] = contexto[x],
           contexto'[p] = "extraer" => contexto[p] = "extraer" /\ estado[p] # NO_USADA,
           UNCHANGED <<ticksDespertar, procesoActual, modo, ticks, listaTareasPend, tarea>>,
           UNCHANGED <<bufferCaracteres, listaProcesosBloqueados, porLeer, manejador, indice, donde, perdidas>>,
           estado[p] # LISTO
    PROVE  InvTeclado'
<1>1. Fuera' = Fuera /\ Leyendo' = Leyendo /\ Leyendo \subseteq Procesos
  BY MiembrosSonProcesos DEF Fuera, Leyendo, InvTeclado, TiposTeclado, TypeOKTeclado
<1>2. e[p] = LISTO /\ \A x \in Procesos \ {p} : e[x] = estado[x]
  BY DEF InvTeclado, TiposTeclado, TypeOKTeclado
<1>3. TiposTeclado'
  BY DEF InvTeclado, TiposTeclado, TypeOKTeclado, Puntos
<1>4. RepartoTeclado'
  <2>1. ActualVivo'
    <3>1. procesoActual # p
      BY DEF Fuera
    <3> QED BY <1>2, <3>1 DEF InvTeclado, TiposTeclado, RepartoTeclado, ActualVivo
  <2>2. \A x \in Leyendo' : estado'[x] = BLOQUEADO /\ contexto'[x] = "extraer"
    BY <1>1, <1>2 DEF InvTeclado, RepartoTeclado
  <2> QED BY <1>1, <2>1, <2>2 DEF InvTeclado, RepartoTeclado
<1>5. PuntosTeclado'
  BY <1>1, <1>2 DEF InvTeclado, PuntosTeclado, EnBucleSW
<1>6. SinDespertarPerdido'
  <2>1. \A x \in Procesos : Despierto(x) => Despierto(x)'
    BY <1>1, <1>2 DEF Despierto
  <2>2. PorHacer' = PorHacer
    BY DEF PorHacer
  <2>3. Len(bufferCaracteres') + Pendientes <= Len(bufferCaracteres) + Pendientes'
    BY <2>2, MismosPendientes DEF EnCamino
  <2> QED BY <1>3, <1>4, <2>1, <2>3, DespertaresSiguen
<1> QED BY <1>3, <1>4, <1>5, <1>6 DEF InvTeclado

LEMMA PasoCrearTeclado ==
    ASSUME InvTeclado, NEW pri \in PrioridadesCreadas, CrearProceso(pri), UNCHANGED teclado
    PROVE  InvTeclado'
<1>1. PICK p \in Procesos :
        /\ BCPLibre(p)
        /\ estado' = [estado EXCEPT ![p] = LISTO]
        /\ prioridad' = [prioridad EXCEPT ![p] = pri]
        /\ contexto' = [contexto EXCEPT ![p] = "usuario"]
        /\ listos' = InsertarListos(listos, pri, p)
  BY DEF CrearProceso
<1>2. /\ UNCHANGED <<ticksDespertar, procesoActual, listaDurmiendo, modo, ticks,
                     listaTareasPend, tarea>>
      /\ UNCHANGED <<bufferCaracteres, listaProcesosBloqueados, porLeer, manejador, indice, donde, perdidas>>
      /\ pri \in Prioridades /\ estado[p] = NO_USADA /\ modo = "usuario"
  BY <1>1, NucleoAssumption DEF CrearProceso, BCPLibre, EnUsuario, interrupciones, teclado, lectores, insercion
<1>3. /\ estado \in [Procesos -> Estados] /\ contexto \in [Procesos -> Puntos]
      /\ prioridad \in [Procesos -> Prioridades] /\ "usuario" \in Puntos
      /\ listos \in ColasDe(Procesos) /\ listaDurmiendo \in Seq(Procesos)
  BY DEF InvTeclado, TiposTeclado, TypeOKTeclado, Puntos, Contextos
<1>4. p \notin Fuera \cup Leyendo
  BY <1>2, EstadosDistintos DEF InvTeclado, RepartoTeclado, ActualVivo, Fuera
<1>5. /\ listos' \in ColasDe(Procesos)
      /\ Reparto(estado', listos', listaDurmiendo, Leyendo \cup Fuera)
  <2>1. Reparto(estado, listos, listaDurmiendo, (Leyendo \cup Fuera) \cup {p})
    <3>1. Reparto(estado, listos, listaDurmiendo, Leyendo \cup Fuera)
      BY DEF InvTeclado, RepartoTeclado
    <3>2. p \in Procesos \ (Leyendo \cup Fuera)
      BY <1>4
    <3> QED BY <1>2, <3>1, <3>2, RepartoLibre
  <2>2. /\ InsertarListos(listos, pri, p) \in ColasDe(Procesos)
        /\ Reparto([estado EXCEPT ![p] = LISTO], InsertarListos(listos, pri, p),
                   listaDurmiendo, ((Leyendo \cup Fuera) \cup {p}) \ {p})
    BY <1>2, <1>3, <2>1, RepartoInsertar
  <2>3. ((Leyendo \cup Fuera) \cup {p}) \ {p} = Leyendo \cup Fuera
    BY <1>4
  <2> QED BY <1>1, <2>2, <2>3
<1>6. /\ estado' \in [Procesos -> Estados] /\ prioridad' \in [Procesos -> Prioridades]
      /\ contexto' \in [Procesos -> Puntos] /\ contexto'[p] = "usuario"
      /\ \A x \in Procesos \ {p} : contexto'[x] = contexto[x]
  BY <1>1, <1>2, <1>3, EstadosDistintos
<1> QED BY <1>1, <1>2, <1>3, <1>4, <1>5, <1>6, PasoEntrar, EstadosDistintos

LEMMA PasoDespertarTeclado ==
    ASSUME InvTeclado, DespertarDormidos, UNCHANGED teclado PROVE InvTeclado'
<1> DEFINE d == listaDurmiendo
           A == Leyendo \cup Fuera
<1>1. /\ estado \in [Procesos -> Estados] /\ contexto \in [Procesos -> Puntos]
      /\ prioridad \in [Procesos -> Prioridades]
      /\ listos \in ColasDe(Procesos) /\ d \in Seq(Procesos) /\ d # <<>>
      /\ Reparto(estado, listos, d, A)
  BY DEF InvTeclado, TiposTeclado, TypeOKTeclado, RepartoTeclado, Puntos,
         DespertarDormidos, HayQueDespertar
<1>2. PICK p : p = Head(d)
  OBVIOUS
<1>3. /\ estado' = [estado EXCEPT ![p] = LISTO]
      /\ listos' = InsertarListos(listos, prioridad[p], p)
      /\ d' = Tail(d)
      /\ UNCHANGED <<prioridad, ticksDespertar, contexto, procesoActual, modo, ticks,
                     listaTareasPend, tarea>>
      /\ UNCHANGED <<bufferCaracteres, listaProcesosBloqueados, porLeer, manejador, indice, donde, perdidas>>
  BY <1>2 DEF DespertarDormidos, interrupciones, teclado, lectores, insercion
<1>4. /\ p \in Procesos /\ Tail(d) \in Seq(Procesos) /\ prioridad[p] \in Prioridades
      /\ p \in ToSet(d)
  BY <1>1, <1>2, Eliminar
<1>5. p \notin A /\ Reparto(estado, listos, Tail(d), A \cup {p})
  BY <1>1, <1>2, RepartoDespertar
<1>6. estado[p] = BLOQUEADO
  BY <1>1, <1>4, <1>5 DEF Reparto
<1>7. /\ listos' \in ColasDe(Procesos)
      /\ Reparto(estado', listos', d', A)
  <2>1. /\ InsertarListos(listos, prioridad[p], p) \in ColasDe(Procesos)
        /\ Reparto([estado EXCEPT ![p] = LISTO], InsertarListos(listos, prioridad[p], p),
                   Tail(d), (A \cup {p}) \ {p})
    <3> HIDE DEF A
    <3>1. p \in A \cup {p}
      OBVIOUS
    <3> QED BY <1>1, <1>4, <1>5, <3>1, RepartoInsertar
  <2>2. (A \cup {p}) \ {p} = A
    BY <1>5
  <2> QED BY <1>3, <2>1, <2>2
<1>8. estado' \in [Procesos -> Estados]
  BY <1>1, <1>3, EstadosDistintos
<1> QED BY <1>1, <1>3, <1>4, <1>5, <1>6, <1>7, <1>8, PasoEntrar, EstadosDistintos

-----------------------------------------------------------------------------
(* The clock puts nothing but its own tasks over the length loaded.        *)
LEMMA InsertarDelReloj ==
    ASSUME NEW s \in Seq(TareasTodas), NEW t \in TareasNucleo, NEW k,
           \A i \in DOMAIN s : i > k => s[i] \in TareasNucleo
    PROVE  LET u == InsertarTareaPend(s, t)
           IN  u \in Seq(TareasTodas) /\ \A i \in DOMAIN u : i > k => u[i] \in TareasNucleo
<1> DEFINE u == Append(s, t)
<1>1. /\ u \in Seq(TareasTodas) /\ Len(u) = Len(s) + 1 /\ u[Len(s) + 1] = t
      /\ \A i \in 1 .. Len(s) : u[i] = s[i]
  BY DistintasTareas, AppendProperties
<1>2. DOMAIN s = 1 .. Len(s) /\ DOMAIN u = 1 .. Len(s) + 1 /\ Len(s) \in Nat
  BY <1>1, LenProperties
<1> HIDE DEF u
<1>3. \A i \in DOMAIN u : i > k => u[i] \in TareasNucleo
  BY <1>1, <1>2
<1> QED BY <1>1, <1>3 DEF u, InsertarTareaPend

LEMMA RelojEnInsercion ==
    ASSUME InvTeclado, InvInsercion, InterrupcionRelojTeclado PROVE InvInsercion'
<1> DEFINE s == listaTareasPend
           u == InsertarTareaPend(s, "despertarDormidos")
<1>1. /\ s' = InsertarTareaPend(u, "planificarRodaja")
      /\ UNCHANGED <<manejador, indice>>
      /\ donde = "ninguna" => donde' = "ninguna"
  BY DEF InterrupcionRelojTeclado, InterrupcionReloj
<1>2. ASSUME manejador = "funcion"
      PROVE  \A i \in DOMAIN s' : i > indice => s'[i] \in TareasNucleo
  <2>1. s \in Seq(TareasTodas) /\ \A i \in DOMAIN s : i > indice => s[i] \in TareasNucleo
    BY <1>2 DEF InvTeclado, TiposTeclado, TypeOKTeclado, InvInsercion
  <2>2. u \in Seq(TareasTodas) /\ \A i \in DOMAIN u : i > indice => u[i] \in TareasNucleo
    BY <2>1, InsertarDelReloj, DistintasTareas
  <2> HIDE DEF u
  <2>3. LET w == InsertarTareaPend(u, "planificarRodaja")
        IN  \A i \in DOMAIN w : i > indice => w[i] \in TareasNucleo
    BY <2>2, InsertarDelReloj, DistintasTareas
  <2> QED BY <1>1, <2>3
<1> QED BY <1>1, <1>2 DEF InvInsercion

LEMMA FueraDelManejador ==
    ASSUME InvInsercion, manejador = "fuera", UNCHANGED insercion PROVE InvInsercion'
BY DEF InvInsercion, insercion

LEMMA InvTecladoInductivo ==
    InvTeclado /\ InvInsercion /\ [NextTeclado]_varsTeclado => InvTeclado' /\ InvInsercion'
<1> SUFFICES ASSUME InvTeclado, InvInsercion, [NextTeclado]_varsTeclado
             PROVE  InvTeclado' /\ InvInsercion'
  OBVIOUS
<1>1. CASE InterrupcionRelojTeclado
  BY <1>1, PasoRelojTeclado, RelojEnInsercion
<1>2. CASE Manejador
  BY <1>2, PasoCargarUltimo, PasoPonerFuncion, PasoPonerUltimo DEF Manejador
<1>3. CASE manejador = "fuera" /\ PasoNucleo
  <2>1. UNCHANGED teclado /\ InvInsercion'
    BY <1>3, FueraDelManejador DEF PasoNucleo, teclado
  <2>2. CASE EntrarSW \/ SalirSW \/ FinSleep \/ Apagado
    BY <2>1, <2>2, PasoDeModo
  <2>3. CASE ObtenerTarea
    BY <2>1, <2>3, PasoObtenerTarea
  <2>4. CASE Tareas
    BY <2>1, <2>4, PasoDeModo, PasoDespertarTeclado, PasoExpulsarTeclado DEF Tareas
  <2>5. CASE FinEspera
    BY <2>1, <2>5, PasoFinEsperaTeclado
  <2>6. CASE Llamadas
    BY <2>1, <2>6, PasoDeModo, PasoCrearTeclado, PasoTerminarTeclado, PasoSleepTeclado
       DEF Llamadas
  <2> QED BY <1>3, <2>2, <2>3, <2>4, <2>5, <2>6 DEF PasoNucleo
<1>4. CASE manejador = "fuera" /\ \E c \in Caracteres : InterrupcionHWTeclado(c)
  BY <1>4, PasoTecla
<1>5. CASE manejador = "fuera" /\ \E n \in Lecturas : LeerFichero(n)
  BY <1>5, PasoLeerFichero, FueraDelManejador DEF LeerFichero, insercion
<1>6. CASE manejador = "fuera" /\ PasoTeclado
  <2>1. CASE InterrupcionSWOtro
    <3>1. UNCHANGED teclado /\ UNCHANGED insercion
      BY <2>1 DEF InterrupcionSWOtro, teclado
    <3> QED BY <1>6, <2>1, <3>1, PasoDeModo, FueraDelManejador
  <2>2. CASE InterrupcionSWTeclado
    BY <1>6, <2>2, PasoInterrupcionSW, FueraDelManejador DEF InterrupcionSWTeclado
  <2>3. CASE PeticionCaracter \/ ReanudarLector
    BY <1>6, <2>3, PasoExtraer, FueraDelManejador
       DEF PeticionCaracter, ReanudarLector, ExtraerBufferCaracteres
  <2>4. CASE BloquearLector
    BY <1>6, <2>4, PasoBloquearLector, FueraDelManejador DEF BloquearLector
  <2> QED BY <1>6, <2>1, <2>2, <2>3, <2>4 DEF PasoTeclado
<1>7. CASE UNCHANGED varsTeclado
  <2>1. UNCHANGED vars /\ UNCHANGED teclado /\ UNCHANGED listaTareasPend
    BY <1>7 DEF varsTeclado, vars, interrupciones
  <2>2. InvInsercion'
    BY <2>1 DEF InvInsercion, teclado, insercion
  <2> QED BY <2>1, <2>2, PasoDeModo
<1>8. CASE Panico
  BY <1>7, <1>8 DEF Panico
<1> QED BY <1>1, <1>2, <1>3, <1>4, <1>5, <1>6, <1>7, <1>8 DEF NextTeclado

LEMMA InitInsercion == InitTeclado => InvInsercion
BY DEF InitTeclado, InvInsercion

(* The invariant holds always, whatever the users type and the programs do.*)
THEOREM InvTecladoSiempre == SpecTeclado => [](InvTeclado /\ InvInsercion)
BY InitTecladoInv, InitInsercion, InvTecladoInductivo, PTL DEF SpecTeclado

(* Every variable keeps its type: the ring and the buffer stay within      *)
(* their arrays, though the clock comes inside the insertion of a task,    *)
(* and what a read has left is never negative.                             *)
THEOREM TiposDelTeclado == SpecTeclado => []TypeOKTeclado
<1>1. InvTeclado => TypeOKTeclado
  BY DEF InvTeclado, TiposTeclado
<1> QED BY <1>1, InvTecladoSiempre, PTL

(* The readers' list shares the link of the BCPs with the kernel's lists,  *)
(* and no process is ever in two: a reader is blocked, in no other list,   *)
(* and not running.                                                        *)
THEOREM LectoresEnSuLista == SpecTeclado => []ParticionTeclado
<1>1. InvTeclado => ParticionTeclado
  BY RepartoDaParticion DEF InvTeclado
<1> QED BY <1>1, InvTecladoSiempre, PTL

(* However keys, clock, tasks and readers interleave, and at any point of  *)
(* the insertion of the keyboard's task: beside blocked readers, the       *)
(* characters without a reader already woken, nor a task that will wake    *)
(* one, nor the handler at work, are no more than the tasks lost, by a     *)
(* full ring or by the clock inside that insertion.                        *)
THEOREM TeclaDespierta == SpecTeclado => []SinDespertarPerdido
<1>1. InvTeclado => SinDespertarPerdido
  BY DEF InvTeclado
<1> QED BY <1>1, InvTecladoSiempre, PTL
=============================================================================
