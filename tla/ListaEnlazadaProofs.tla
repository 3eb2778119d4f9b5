------------------------ MODULE ListaEnlazadaProofs -------------------------
(***************************************************************************)
(* The pointer lists of BCPs implement the queues of ColasBCP, for any     *)
(* number of processes and of lists, and any wake-up times: what a walk    *)
(* from primero finds is at every moment a sequence with each process once *)
(* and every list apart from the others, although all of them use the same *)
(* links and a process taken out keeps its own.                            *)
(***************************************************************************)
EXTENDS ListaEnlazada, SecuenciasLemas

-----------------------------------------------------------------------------
(* A list and its pointers                                                 *)

(* The header pr, ul and the links sig hold the sequence c.                *)
Enlazada(pr, ul, sig, c) ==
    /\ IF c = <<>> THEN pr = NULL /\ ul = NULL
                   ELSE pr = c[1] /\ ul = c[Len(c)]
    /\ \A i \in 1 .. Len(c) : sig[c[i]] = IF i < Len(c) THEN c[i + 1] ELSE NULL

EnOrden(c, td) == \A i, j \in DOMAIN c : i < j => td[c[i]] <= td[c[j]]

(* The sequences c, one for each list, and what their pointers must be.    *)
Representan(c, pr, ul, sig, td) ==
    /\ c \in [Listas -> Seq(Procesos)]
    /\ \A l \in Listas : IsInjective(c[l]) /\ Enlazada(pr[l], ul[l], sig, c[l])
    /\ \A l, m \in Listas : l # m => ToSet(c[l]) \cap ToSet(c[m]) = {}
    /\ \A l \in Ordenadas : EnOrden(c[l], td)

TiposEnlaces ==
    /\ primero \in [Listas -> Procesos \cup {NULL}]
    /\ ultimo \in [Listas -> Procesos \cup {NULL}]
    /\ siguiente \in [Procesos -> Procesos \cup {NULL}]
    /\ ticksDespertar \in [Procesos -> Instantes]

InvEnlaces ==
    /\ TiposEnlaces
    /\ Representan(Recorridos, primero, ultimo, siguiente, ticksDespertar)

-----------------------------------------------------------------------------
(* The walk finds what the pointers hold                                   *)

(* The links of a list are followed in its order and then stay at NULL.    *)
LEMMA AvanzarSigue ==
    ASSUME NEW l \in Listas, NEW c \in Seq(Procesos),
           Enlazada(primero[l], ultimo[l], siguiente, c)
    PROVE  Avanzar(l) = [i \in 0 .. NoMasDe |-> IF i < Len(c) THEN c[i + 1] ELSE NULL]
<1> DEFINE N == NoMasDe
           Sig(f, i) == IF i = 0 THEN primero[l]
                        ELSE IF f[i - 1] = NULL THEN NULL ELSE siguiente[f[i - 1]]
           g == [i \in 0 .. N |-> IF i < Len(c) THEN c[i + 1] ELSE NULL]
<1>1. Avanzar(l) = CHOOSE f : f = [i \in 0 .. N |-> Sig(f, i)]
  BY DEF Avanzar
<1>2. Len(c) \in Nat /\ N \in Nat /\ \A i \in 1 .. Len(c) : c[i] \in Procesos /\ c[i] # NULL
  BY ListasAssumption, FS_CardinalityType, LenProperties, ElementOfSeq DEF NoMasDe
<1>3. \A i \in 0 .. N : g[i] = Sig(g, i)
  <2> SUFFICES ASSUME NEW i \in 0 .. N PROVE g[i] = Sig(g, i)
    OBVIOUS
  <2>1. CASE i = 0
    BY <1>2, <2>1, EmptySeq DEF Enlazada
  <2>2. CASE i # 0 /\ i - 1 < Len(c)
    <3>1. i - 1 \in 0 .. N /\ i \in 1 .. Len(c) /\ (i - 1) + 1 = i
      BY <1>2, <2>2
    <3>2. g[i - 1] = c[i] /\ c[i] # NULL
      BY <1>2, <2>2, <3>1
    <3>3. siguiente[c[i]] = IF i < Len(c) THEN c[i + 1] ELSE NULL
      BY <3>1 DEF Enlazada
    <3> QED BY <2>2, <3>2, <3>3
  <2>3. CASE i # 0 /\ ~(i - 1 < Len(c))
    <3>1. i - 1 \in 0 .. N /\ ~(i < Len(c))
      BY <1>2, <2>3
    <3> QED BY <2>3, <3>1
  <2> QED BY <2>1, <2>2, <2>3
<1>4. g = [i \in 0 .. N |-> Sig(g, i)]
  BY <1>3
<1>5. ASSUME NEW f, f = [i \in 0 .. N |-> Sig(f, i)] PROVE f = g
  <2> DEFINE I == {i \in 0 .. N : f[i] # g[i]}
  <2>1. CASE I = {}
    <3>1. \A i \in 0 .. N : f[i] = g[i]
      BY <2>1
    <3>2. DOMAIN f = 0 .. N /\ DOMAIN g = 0 .. N /\ f = [i \in DOMAIN f |-> f[i]]
      BY <1>5
    <3> QED BY <3>1, <3>2
  <2>2. CASE I # {}
    <3>1. PICK i \in I : \A j \in I : i <= j
      <4>1. I \in SUBSET Nat
        BY <1>2
      <4> HIDE DEF I
      <4> QED BY <2>2, <4>1, MinimoDe
    <3>2. f[i] = Sig(f, i) /\ g[i] = Sig(g, i)
      <4> HIDE DEF Sig, g
      <4>1. f[i] = [j \in 0 .. N |-> Sig(f, j)][i]
        BY <1>5
      <4>2. f[i] = Sig(f, i)
        BY <4>1
      <4> QED BY <1>3, <4>2
    <3>3. i # 0 => f[i - 1] = g[i - 1]
      <4>1. i # 0 => i - 1 \in 0 .. N /\ ~(i <= i - 1)
        BY <1>2
      <4> QED BY <3>1, <4>1
    <3> HIDE DEF g
    <3>4. f[i] = g[i]
      BY <3>2, <3>3
    <3> QED BY <3>1, <3>4
  <2> QED BY <2>1, <2>2
<1> HIDE DEF g, Sig
<1> QED BY <1>1, <1>4, <1>5 DEF g

Recorre ==
    \A l \in Listas : \A c \in Seq(Procesos) :
        IsInjective(c) /\ Enlazada(primero[l], ultimo[l], siguiente, c) => Recorrido(l) = c

LEMMA RecorreEnlazada == Recorre
<1> SUFFICES ASSUME NEW l \in Listas, NEW c \in Seq(Procesos),
                    IsInjective(c), Enlazada(primero[l], ultimo[l], siguiente, c)
             PROVE  Recorrido(l) = c
  BY DEF Recorre
<1>1. /\ NoMasDe \in Nat /\ Len(c) \in Nat /\ DOMAIN c = 1 .. Len(c)
      /\ \A i \in 1 .. Len(c) : c[i] \in Procesos /\ c[i] # NULL
  BY ListasAssumption, FS_CardinalityType, LenProperties, ElementOfSeq DEF NoMasDe
<1>2. Len(c) <= NoMasDe
  <2>1. c \in [1 .. Len(c) -> Procesos]
    BY LenProperties
  <2>2. \A i, j \in 1 .. Len(c) : c[i] = c[j] => i = j
    BY <1>1 DEF IsInjective
  <2>3. c \in Injection(1 .. Len(c), Procesos)
    BY <2>1, <2>2 DEF Injection, IsInjective
  <2>4. Cardinality(1 .. Len(c)) <= Cardinality(Procesos)
    BY <2>3, ListasAssumption, FS_Injection
  <2>5. Cardinality(1 .. Len(c)) = Len(c)
    BY <1>1, FS_Interval
  <2> QED BY <2>4, <2>5 DEF NoMasDe
<1>3. \A i \in 0 .. NoMasDe : Avanzar(l)[i] = IF i < Len(c) THEN c[i + 1] ELSE NULL
  BY AvanzarSigue
<1>4. Largo(l) = Len(c)
  <2>1. {i \in 0 .. NoMasDe : Avanzar(l)[i] # NULL} = 0 .. Len(c) - 1
    BY <1>1, <1>2, <1>3
  <2>2. Cardinality(0 .. Len(c) - 1) = Len(c)
    BY <1>1, FS_Interval
  <2> QED BY <2>1, <2>2 DEF Largo
<1>5. \A i \in 1 .. Len(c) : Avanzar(l)[i - 1] = c[i]
  <2> SUFFICES ASSUME NEW i \in 1 .. Len(c) PROVE Avanzar(l)[i - 1] = c[i]
    OBVIOUS
  <2>1. i - 1 \in 0 .. NoMasDe /\ i - 1 < Len(c) /\ (i - 1) + 1 = i
    BY <1>1, <1>2
  <2> QED BY <1>3, <2>1
<1>6. Recorrido(l) = [i \in 1 .. Len(c) |-> c[i]]
  BY <1>4, <1>5 DEF Recorrido
<1>7. c = [i \in 1 .. Len(c) |-> c[i]]
  BY <1>1
<1> QED BY <1>6, <1>7

(* So the sequences that the pointers represent are the ones walked.       *)
SonRecorridos ==
    \A c : Representan(c, primero, ultimo, siguiente, ticksDespertar) => Recorridos = c

LEMMA UnicosRecorridos == SonRecorridos
<1> SUFFICES ASSUME NEW c, Representan(c, primero, ultimo, siguiente, ticksDespertar)
             PROVE  Recorridos = c
  BY DEF SonRecorridos
<1>1. c \in [Listas -> Seq(Procesos)]
  BY DEF Representan
<1>2. \A l \in Listas : Recorrido(l) = c[l]
  BY <1>1, RecorreEnlazada DEF Representan, Recorre
<1> QED BY <1>1, <1>2 DEF Recorridos

LEMMA UnicosRecorridosPrima == SonRecorridos'
BY UnicosRecorridos, PTL

-----------------------------------------------------------------------------
(* What each change of the pointers does to the sequences                  *)

(* d is s with p at the place k.                                           *)
ConProceso(s, p, k, d) ==
    /\ d \in Seq(Procesos) /\ k \in 1 .. Len(s) + 1
    /\ Len(d) = Len(s) + 1 /\ d[k] = p
    /\ \A i \in 1 .. k - 1 : d[i] = s[i]
    /\ \A i \in k .. Len(s) : d[i + 1] = s[i]
    /\ ToSet(d) = ToSet(s) \cup {p} /\ IsInjective(d)

(* The process before the place k is linked to p, p is linked to the one   *)
(* after it, and no other link changes.                                    *)
Enganchado(s, p, k, sig, sig2) ==
    /\ sig2[p] = IF k <= Len(s) THEN s[k] ELSE NULL
    /\ k > 1 => sig2[s[k - 1]] = p
    /\ \A q \in Procesos \ {p} : (k > 1 => q # s[k - 1]) => sig2[q] = sig[q]

(* Of the headers only that of l changes, at the end that p takes.         *)
CabeceraCon(s, l, p, k, pr, ul, pr2, ul2) ==
    /\ pr2[l] = IF k = 1 THEN p ELSE pr[l]
    /\ ul2[l] = IF k = Len(s) + 1 THEN p ELSE ul[l]
    /\ \A m \in Listas \ {l} : pr2[m] = pr[m] /\ ul2[m] = ul[m]

(* p is in none of the lists, and only its wake-up time may change.        *)
Ajeno(c, p, td, td2) ==
    /\ \A m \in Listas : p \notin ToSet(c[m])
    /\ \A q \in Procesos \ {p} : td2[q] = td[q]

LEMMA Enlazar ==
    ASSUME NEW c \in [Listas -> Seq(Procesos)], NEW pr, NEW ul, NEW sig, NEW td,
           Representan(c, pr, ul, sig, td),
           NEW l \in Listas, NEW p \in Procesos, NEW td2, Ajeno(c, p, td, td2),
           NEW k, NEW d, ConProceso(c[l], p, k, d),
           NEW sig2, Enganchado(c[l], p, k, sig, sig2),
           NEW pr2, NEW ul2, CabeceraCon(c[l], l, p, k, pr, ul, pr2, ul2),
           l \in Ordenadas => EnOrden(d, td2)
    PROVE  Representan([c EXCEPT ![l] = d], pr2, ul2, sig2, td2)
<1>0. /\ d \in Seq(Procesos) /\ k \in 1 .. Len(c[l]) + 1
      /\ Len(d) = Len(c[l]) + 1 /\ d[k] = p
      /\ \A i \in 1 .. k - 1 : d[i] = c[l][i]
      /\ \A i \in k .. Len(c[l]) : d[i + 1] = c[l][i]
      /\ ToSet(d) = ToSet(c[l]) \cup {p} /\ IsInjective(d)
      /\ sig2[p] = IF k <= Len(c[l]) THEN c[l][k] ELSE NULL
      /\ k > 1 => sig2[c[l][k - 1]] = p
      /\ \A q \in Procesos \ {p} : (k > 1 => q # c[l][k - 1]) => sig2[q] = sig[q]
      /\ pr2[l] = IF k = 1 THEN p ELSE pr[l]
      /\ ul2[l] = IF k = Len(d) THEN p ELSE ul[l]
      /\ \A m \in Listas \ {l} : pr2[m] = pr[m] /\ ul2[m] = ul[m]
      /\ \A m \in Listas : p \notin ToSet(c[m])
      /\ \A q \in Procesos \ {p} : td2[q] = td[q]
  BY DEF ConProceso, Enganchado, CabeceraCon, Ajeno
<1> DEFINE s == c[l]
           e == [c EXCEPT ![l] = d]
<1>1. /\ Len(s) \in Nat /\ DOMAIN s = 1 .. Len(s) /\ DOMAIN d = 1 .. Len(s) + 1
      /\ \A i \in 1 .. Len(s) : s[i] \in Procesos \ {p}
  <2>1. s \in Seq(Procesos) /\ p \notin ToSet(s)
    BY <1>0
  <2>2. Len(s) \in Nat /\ DOMAIN s = 1 .. Len(s) /\ DOMAIN d = 1 .. Len(d)
    BY <2>1, LenProperties
  <2> HIDE DEF s
  <2>3. \A i \in 1 .. Len(s) : s[i] \in Procesos /\ s[i] \in ToSet(s)
    BY <2>1, DentroDe
  <2> QED BY <1>0, <2>1, <2>2, <2>3 DEF s
<1>2. e \in [Listas -> Seq(Procesos)] /\ e[l] = d /\ \A m \in Listas \ {l} : e[m] = c[m]
  BY <1>0
<1>3. Enlazada(pr[l], ul[l], sig, s) /\ IsInjective(s)
  BY DEF Representan
<1> HIDE DEF s, e
<1>4. Enlazada(pr2[l], ul2[l], sig2, d)
  <2>1. d # <<>> /\ pr2[l] = d[1]
    <3>1. d # <<>>
      BY <1>1, EmptySeq DEF s
    <3>2. CASE k = 1
      BY <1>0, <3>1, <3>2
    <3>3. CASE k # 1
      <4>1. 1 \in 1 .. k - 1 /\ s # <<>>
        BY <1>0, <1>1, <3>3, EmptySeq DEF s
      <4> QED BY <1>0, <1>3, <3>1, <3>3, <4>1 DEF Enlazada, s
    <3> QED BY <1>0, <3>2, <3>3
  <2>2. ul2[l] = d[Len(d)]
    <3>1. CASE k = Len(d)
      BY <1>0, <3>1
    <3>2. CASE k # Len(d)
      <4>1. Len(s) \in k .. Len(s) /\ s # <<>> /\ Len(d) = Len(s) + 1
        BY <1>0, <1>1, <3>2, EmptySeq DEF s
      <4>2. d[Len(s) + 1] = s[Len(s)]
        BY <1>0, <4>1 DEF s
      <4> QED BY <1>0, <1>3, <3>2, <4>1, <4>2 DEF Enlazada, s
    <3> QED BY <1>0, <3>1, <3>2
  <2>3. ASSUME NEW i \in 1 .. Len(d)
        PROVE  sig2[d[i]] = IF i < Len(d) THEN d[i + 1] ELSE NULL
    <3>1. CASE i = k
      <4>1. i < Len(d) <=> k <= Len(s)
        BY <1>1, <3>1 DEF s
      <4>2. k <= Len(s) => d[k + 1] = s[k]
        BY <1>0, <1>1 DEF s
      <4> QED BY <1>0, <3>1, <4>1, <4>2 DEF s
    <3>2. CASE i = k - 1
      <4>1. k > 1 /\ i \in 1 .. k - 1 /\ i < Len(d) /\ i + 1 = k
        BY <1>0, <1>1, <3>2 DEF s
      <4>2. d[i] = s[k - 1]
        BY <1>0, <3>2, <4>1 DEF s
      <4> QED BY <1>0, <4>1, <4>2 DEF s
    <3>3. CASE i < k - 1
      <4>1. /\ i \in 1 .. Len(s) /\ k - 1 \in 1 .. Len(s) /\ i # k - 1 /\ k > 1
            /\ i \in 1 .. k - 1 /\ i + 1 \in 1 .. k - 1 /\ i < Len(s) /\ i < Len(d)
        BY <1>0, <1>1, <3>3 DEF s
      <4>2. s[i] # s[k - 1] /\ s[i] \in Procesos \ {p}
        BY <1>1, <1>3, <4>1 DEF IsInjective
      <4>3. sig[s[i]] = s[i + 1]
        BY <1>3, <4>1 DEF Enlazada
      <4>4. sig2[s[i]] = sig[s[i]]
        BY <1>0, <4>2 DEF s
      <4>5. d[i] = s[i] /\ d[i + 1] = s[i + 1]
        BY <1>0, <4>1 DEF s
      <4> QED BY <1>0, <4>1, <4>3, <4>4, <4>5
    <3>4. CASE i > k
      <4>1. /\ i - 1 \in k .. Len(s) /\ i - 1 \in 1 .. Len(s) /\ (i - 1) + 1 = i
            /\ i < Len(d) <=> i - 1 < Len(s)
            /\ i < Len(d) => i \in k .. Len(s)
            /\ k > 1 => k - 1 \in 1 .. Len(s) /\ i - 1 # k - 1
        BY <1>0, <1>1, <3>4 DEF s
      <4>2. d[i] = s[i - 1] /\ (i < Len(d) => d[i + 1] = s[i])
        <5>1. d[(i - 1) + 1] = s[i - 1]
          BY <1>0, <4>1 DEF s
        <5> QED BY <1>0, <4>1, <5>1 DEF s
      <4>3. s[i - 1] \in Procesos \ {p} /\ (k > 1 => s[i - 1] # s[k - 1])
        BY <1>1, <1>3, <4>1 DEF IsInjective
      <4>4. sig2[s[i - 1]] = sig[s[i - 1]]
        BY <1>0, <4>3 DEF s
      <4>5. sig[s[i - 1]] = IF i - 1 < Len(s) THEN s[(i - 1) + 1] ELSE NULL
        BY <1>3, <4>1 DEF Enlazada
      <4> QED BY <4>1, <4>2, <4>4, <4>5
    <3> QED BY <1>0, <1>1, <3>1, <3>2, <3>3, <3>4 DEF s
  <2> QED BY <1>0, <2>1, <2>2, <2>3 DEF Enlazada
<1>5. ASSUME NEW m \in Listas \ {l}
      PROVE  /\ IsInjective(c[m]) /\ Enlazada(pr2[m], ul2[m], sig2, c[m])
             /\ ToSet(d) \cap ToSet(c[m]) = {}
             /\ m \in Ordenadas => EnOrden(c[m], td2)
  <2> DEFINE z == c[m]
  <2>1. /\ IsInjective(z) /\ Enlazada(pr[m], ul[m], sig, z)
        /\ ToSet(s) \cap ToSet(z) = {} /\ p \notin ToSet(z)
        /\ m \in Ordenadas => EnOrden(z, td)
    BY <1>0 DEF Representan, s
  <2>2. z \in Seq(Procesos)
    OBVIOUS
  <2>3. \A i \in 1 .. Len(z) : z[i] \in Procesos \ {p} /\ z[i] \in ToSet(z)
    <3> HIDE DEF z
    <3> QED BY <2>1, <2>2, DentroDe
  <2>4. DOMAIN z = 1 .. Len(z)
    BY <2>2, LenProperties
  <2>5. k > 1 => s[k - 1] \in ToSet(s)
    <3>1. k > 1 => k - 1 \in 1 .. Len(s)
      BY <1>0, <1>1 DEF s
    <3> QED BY <1>0, <1>1, <3>1 DEF ToSet
  <2> HIDE DEF z
  <2>6. \A i \in 1 .. Len(z) : sig2[z[i]] = sig[z[i]]
    BY <1>0, <2>1, <2>3, <2>5 DEF s
  <2>7. Enlazada(pr2[m], ul2[m], sig2, z)
    BY <1>0, <2>1, <2>6 DEF Enlazada
  <2>8. m \in Ordenadas => EnOrden(z, td2)
    BY <1>0, <2>1, <2>3, <2>4 DEF EnOrden
  <2>9. ToSet(d) \cap ToSet(z) = {}
    BY <1>0, <2>1 DEF s
  <2> QED BY <1>0, <2>1, <2>7, <2>8, <2>9 DEF z
<1>6. ASSUME NEW m \in Listas, NEW n \in Listas, m # n
      PROVE  ToSet(e[m]) \cap ToSet(e[n]) = {}
  <2>1. CASE m = l
    BY <1>2, <1>5, <1>6, <2>1
  <2>2. CASE n = l
    BY <1>2, <1>5, <1>6, <2>2
  <2>3. CASE m # l /\ n # l
    BY <1>2, <1>6, <2>3 DEF Representan
  <2> QED BY <2>1, <2>2, <2>3
<1>7. ASSUME NEW m \in Listas
      PROVE  /\ IsInjective(e[m]) /\ Enlazada(pr2[m], ul2[m], sig2, e[m])
             /\ m \in Ordenadas => EnOrden(e[m], td2)
  BY <1>0, <1>2, <1>4, <1>5
<1>8. Ordenadas \subseteq Listas
  BY DEF Listas
<1> QED BY <1>2, <1>6, <1>7, <1>8 DEF Representan, e

(* The header of l moves on to the second process, if there is one.        *)
CabeceraSin(s, l, sig, pr, ul, pr2, ul2) ==
    /\ pr2[l] = sig[s[1]]
    /\ ul2[l] = IF Len(s) = 1 THEN NULL ELSE ul[l]
    /\ \A m \in Listas \ {l} : pr2[m] = pr[m] /\ ul2[m] = ul[m]

(* The list l loses its first process, whose link nobody touches.          *)
LEMMA Desenlazar ==
    ASSUME NEW c \in [Listas -> Seq(Procesos)], NEW pr, NEW ul, NEW sig, NEW td,
           Representan(c, pr, ul, sig, td),
           NEW l \in Listas, c[l] # <<>>,
           NEW pr2, NEW ul2, CabeceraSin(c[l], l, sig, pr, ul, pr2, ul2)
    PROVE  Representan([c EXCEPT ![l] = Tail(@)], pr2, ul2, sig, td)
<1> DEFINE s == c[l]
           d == Tail(c[l])
           e == [c EXCEPT ![l] = d]
<1>0. /\ pr2[l] = sig[c[l][1]]
      /\ ul2[l] = IF Len(c[l]) = 1 THEN NULL ELSE ul[l]
      /\ \A m \in Listas \ {l} : pr2[m] = pr[m] /\ ul2[m] = ul[m]
  BY DEF CabeceraSin
<1>1. s \in Seq(Procesos) /\ s # <<>>
  OBVIOUS
<1>2. Enlazada(pr[l], ul[l], sig, s) /\ IsInjective(s) /\ (l \in Ordenadas => EnOrden(s, td))
  BY DEF Representan
<1>3. e \in [Listas -> Seq(Procesos)] /\ e[l] = d /\ \A m \in Listas \ {l} : e[m] = c[m]
  BY <1>1, HeadTailProperties
<1> HIDE DEF s, e
<1>4. /\ Len(s) \in Nat \ {0} /\ DOMAIN s = 1 .. Len(s)
      /\ d \in Seq(Procesos) /\ Len(d) = Len(s) - 1 /\ DOMAIN d = 1 .. Len(s) - 1
      /\ \A i \in 1 .. Len(s) - 1 : d[i] = s[i + 1]
      /\ ToSet(d) \subseteq ToSet(s) /\ IsInjective(d)
  <2>1. d = Tail(s)
    BY DEF s
  <2> HIDE DEF d
  <2> QED BY <1>1, <1>2, <2>1, Eliminar, HeadTailProperties, LenProperties, EmptySeq
<1> HIDE DEF d
<1>5. Enlazada(pr2[l], ul2[l], sig, d)
  <2>1. \A i \in 1 .. Len(s) : sig[s[i]] = IF i < Len(s) THEN s[i + 1] ELSE NULL
    BY <1>2 DEF Enlazada
  <2>2. pr2[l] = IF 1 < Len(s) THEN s[2] ELSE NULL
    BY <1>0, <1>4, <2>1 DEF s
  <2>3. IF d = <<>> THEN pr2[l] = NULL /\ ul2[l] = NULL
                    ELSE pr2[l] = d[1] /\ ul2[l] = d[Len(d)]
    <3>1. CASE Len(s) = 1
      <4>1. d = <<>>
        BY <1>4, <3>1, EmptySeq
      <4> QED BY <1>0, <2>2, <3>1, <4>1 DEF s
    <3>2. CASE Len(s) # 1
      <4>1. /\ d # <<>> /\ 1 < Len(s) /\ 1 \in 1 .. Len(s) - 1
            /\ Len(d) \in 1 .. Len(s) - 1 /\ Len(d) + 1 = Len(s)
        BY <1>4, <3>2, EmptySeq
      <4>2. d[1] = s[2] /\ d[Len(d)] = s[Len(s)]
        <5>1. d[1] = s[1 + 1] /\ d[Len(d)] = s[Len(d) + 1]
          BY <1>4, <4>1
        <5> QED BY <4>1, <5>1
      <4>3. ul[l] = s[Len(s)]
        BY <1>1, <1>2 DEF Enlazada
      <4> QED BY <1>0, <2>2, <3>2, <4>1, <4>2, <4>3 DEF s
    <3> QED BY <3>1, <3>2
  <2>4. ASSUME NEW i \in 1 .. Len(d)
        PROVE  sig[d[i]] = IF i < Len(d) THEN d[i + 1] ELSE NULL
    <3>1. i + 1 \in 1 .. Len(s) /\ i \in 1 .. Len(s) - 1 /\ (i + 1 < Len(s) <=> i < Len(d))
      BY <1>4
    <3>2. i < Len(d) => d[i + 1] = s[(i + 1) + 1]
      BY <1>4
    <3> QED BY <1>4, <2>1, <3>1, <3>2
  <2> QED BY <2>3, <2>4 DEF Enlazada
<1>6. l \in Ordenadas => EnOrden(d, td)
  <2> SUFFICES ASSUME l \in Ordenadas, NEW i \in DOMAIN d, NEW j \in DOMAIN d, i < j
               PROVE  td[d[i]] <= td[d[j]]
    BY DEF EnOrden
  <2>1. i + 1 \in DOMAIN s /\ j + 1 \in DOMAIN s /\ i + 1 < j + 1
    BY <1>4
  <2>2. td[s[i + 1]] <= td[s[j + 1]]
    BY <1>2, <2>1 DEF EnOrden
  <2> QED BY <1>4, <2>2
<1>7. ASSUME NEW m \in Listas \ {l}
      PROVE  /\ IsInjective(c[m]) /\ Enlazada(pr2[m], ul2[m], sig, c[m])
             /\ ToSet(d) \cap ToSet(c[m]) = {}
             /\ m \in Ordenadas => EnOrden(c[m], td)
  <2>1. ToSet(s) \cap ToSet(c[m]) = {}
    BY DEF Representan, s
  <2>2. IsInjective(c[m]) /\ Enlazada(pr[m], ul[m], sig, c[m])
        /\ (m \in Ordenadas => EnOrden(c[m], td))
    BY DEF Representan
  <2>3. pr2[m] = pr[m] /\ ul2[m] = ul[m]
    BY <1>0
  <2> QED BY <1>4, <2>1, <2>2, <2>3
<1>8. ASSUME NEW m \in Listas, NEW n \in Listas, m # n
      PROVE  ToSet(e[m]) \cap ToSet(e[n]) = {}
  <2>1. CASE m = l
    BY <1>3, <1>7, <1>8, <2>1
  <2>2. CASE n = l
    BY <1>3, <1>7, <1>8, <2>2
  <2>3. CASE m # l /\ n # l
    BY <1>3, <1>8, <2>3 DEF Representan
  <2> QED BY <2>1, <2>2, <2>3
<1>9. ASSUME NEW m \in Listas
      PROVE  /\ IsInjective(e[m]) /\ Enlazada(pr2[m], ul2[m], sig, e[m])
             /\ m \in Ordenadas => EnOrden(e[m], td)
  BY <1>3, <1>4, <1>5, <1>6, <1>7
<1>10. Ordenadas \subseteq Listas
  BY DEF Listas
<1> QED BY <1>3, <1>8, <1>9, <1>10 DEF Representan, e, d

-----------------------------------------------------------------------------
(* Each operation keeps the invariant and does what its queue promises     *)

(* The lists as the operations find them.                                  *)
LEMMA Estado ==
    ASSUME InvEnlaces
    PROVE  /\ Recorridos \in [Listas -> Seq(Procesos)]
           /\ \A l \in Listas :
                 /\ primero[l] = NULL <=> Recorridos[l] = <<>>
                 /\ Recorridos[l] # <<>> =>
                       /\ primero[l] = Recorridos[l][1]
                       /\ ultimo[l] = Recorridos[l][Len(Recorridos[l])]
                       /\ ultimo[l] \in Procesos
           /\ \A p : Suelto(p) => \A l \in Listas : p \notin ToSet(Recorridos[l])
<1> DEFINE c == Recorridos
<1>1. c \in [Listas -> Seq(Procesos)] /\ \A l \in Listas : c[l] = Recorrido(l)
  BY DEF InvEnlaces, Representan, Recorridos
<1>2. Representan(c, primero, ultimo, siguiente, ticksDespertar)
  BY DEF InvEnlaces
<1> HIDE DEF c
<1>3. ASSUME NEW l \in Listas
      PROVE  /\ primero[l] = NULL <=> c[l] = <<>>
             /\ c[l] # <<>> => /\ primero[l] = c[l][1] /\ ultimo[l] = c[l][Len(c[l])]
                               /\ ultimo[l] \in Procesos
  <2>1. c[l] \in Seq(Procesos) /\ Enlazada(primero[l], ultimo[l], siguiente, c[l])
    BY <1>1, <1>2 DEF Representan
  <2>2. CASE c[l] = <<>>
    BY <2>1, <2>2 DEF Enlazada
  <2>3. CASE c[l] # <<>>
    <3>1. 1 \in 1 .. Len(c[l]) /\ Len(c[l]) \in 1 .. Len(c[l])
      BY <2>1, <2>3, LenProperties, EmptySeq
    <3>2. c[l][1] \in Procesos /\ c[l][Len(c[l])] \in Procesos
      BY <2>1, <3>1, ElementOfSeq
    <3> QED BY <2>1, <2>3, <3>2, ListasAssumption DEF Enlazada
  <2> QED BY <2>2, <2>3
<1>4. ASSUME NEW p, Suelto(p), NEW l \in Listas PROVE p \notin ToSet(c[l])
  <2>1. c[l] = Recorrido(l)
    BY <1>1
  <2>2. \A i \in 1 .. Largo(l) : Recorrido(l)[i] # p
    BY <1>4 DEF Suelto
  <2>3. DOMAIN Recorrido(l) = 1 .. Largo(l)
    BY DEF Recorrido
  <2> QED BY <2>1, <2>2, <2>3 DEF ToSet
<1> QED BY <1>1, <1>3, <1>4 DEF c

LEMMA PasoInsertarUltimo ==
    ASSUME InvEnlaces, NEW l \in Fifos, NEW p \in Procesos, InsertarUltimoListaBCP(l, p)
    PROVE  InvEnlaces' /\ Colas!InsertarUltimo(l, p)
<1>1. PICK c : c = Recorridos
  OBVIOUS
<1>2. l \in Listas /\ l \notin Ordenadas
  BY ListasAssumption DEF Listas
<1>3. /\ c \in [Listas -> Seq(Procesos)]
      /\ primero[l] = NULL <=> c[l] = <<>>
      /\ c[l] # <<>> => ultimo[l] = c[l][Len(c[l])] /\ ultimo[l] \in Procesos
      /\ \A m \in Listas : p \notin ToSet(c[m])
  BY <1>1, <1>2, Estado DEF InsertarUltimoListaBCP
<1>4. TiposEnlaces /\ Representan(c, primero, ultimo, siguiente, ticksDespertar)
  BY <1>1 DEF InvEnlaces
<1>5. PICK d : d = Append(c[l], p)
  OBVIOUS
<1>6. PICK k : k = Len(c[l]) + 1
  OBVIOUS
<1>7. /\ d \in Seq(Procesos) /\ Len(d) = k /\ d[k] = p
      /\ k \in 1 .. Len(c[l]) + 1 /\ ~(k <= Len(c[l])) /\ Len(c[l]) \in Nat
      /\ \A i \in 1 .. k - 1 : d[i] = c[l][i]
      /\ \A i \in k .. Len(c[l]) : d[i + 1] = c[l][i]
      /\ ToSet(d) = ToSet(c[l]) \cup {p} /\ IsInjective(d)
  <2>1. c[l] \in Seq(Procesos) /\ IsInjective(c[l]) /\ p \notin ToSet(c[l])
    BY <1>2, <1>3, <1>4 DEF Representan
  <2>2. Len(c[l]) \in Nat
    BY <2>1, LenProperties
  <2>3. /\ d \in Seq(Procesos) /\ Len(d) = Len(c[l]) + 1 /\ d[Len(c[l]) + 1] = p
        /\ \A i \in 1 .. Len(c[l]) : d[i] = c[l][i]
    BY <1>5, <2>1, AppendProperties
  <2>4. ToSet(d) = ToSet(c[l]) \cup {p} /\ IsInjective(d)
    BY <1>5, <2>1, Insertar
  <2> QED BY <1>6, <2>2, <2>3, <2>4
<1>8. /\ primero'[l] = IF k = 1 THEN p ELSE primero[l]
      /\ k > 1 => siguiente'[c[l][k - 1]] = p
      /\ siguiente'[p] = NULL
      /\ \A q \in Procesos \ {p} :
            (k > 1 => q # c[l][k - 1]) => siguiente'[q] = siguiente[q]
      /\ \A m \in Listas \ {l} : primero'[m] = primero[m]
      /\ primero' \in [Listas -> Procesos \cup {NULL}]
      /\ siguiente' \in [Procesos -> Procesos \cup {NULL}]
  <2>1. CASE c[l] = <<>>
    <3>1. k = 1
      BY <1>6, <2>1
    <3>2. primero' = [primero EXCEPT ![l] = p] /\ siguiente' = [siguiente EXCEPT ![p] = NULL]
      BY <1>3, <2>1 DEF InsertarUltimoListaBCP
    <3> QED BY <1>2, <1>4, <3>1, <3>2 DEF TiposEnlaces
  <2>2. CASE c[l] # <<>>
    <3>1. k > 1 /\ k - 1 = Len(c[l])
      BY <1>2, <1>3, <1>6, <2>2, EmptySeq, LenProperties
    <3>2. /\ primero' = primero
          /\ siguiente' = [siguiente EXCEPT ![ultimo[l]] = p, ![p] = NULL]
      BY <1>3, <2>2 DEF InsertarUltimoListaBCP
    <3>3. ultimo[l] = c[l][k - 1] /\ ultimo[l] \in Procesos /\ ultimo[l] # p
      <4>1. k - 1 \in 1 .. Len(c[l])
        BY <1>7, <3>1
      <4>2. c[l][k - 1] \in ToSet(c[l])
        BY <1>2, <1>3, <4>1, DentroDe
      <4> QED BY <1>2, <1>3, <2>2, <3>1, <4>2
    <3> QED BY <1>4, <3>1, <3>2, <3>3 DEF TiposEnlaces
  <2> QED BY <2>1, <2>2
<1>9. /\ ultimo' = [ultimo EXCEPT ![l] = p] /\ ticksDespertar' = ticksDespertar
      /\ ultimo' \in [Listas -> Procesos \cup {NULL}] /\ ultimo'[l] = p
      /\ \A m \in Listas \ {l} : ultimo'[m] = ultimo[m]
  BY <1>2, <1>4 DEF InsertarUltimoListaBCP, TiposEnlaces
<1>10. PICK e : e = [c EXCEPT ![l] = d]
  OBVIOUS
<1>11. Representan(e, primero', ultimo', siguiente', ticksDespertar')
  <2>1. ConProceso(c[l], p, k, d)
    BY <1>6, <1>7 DEF ConProceso
  <2>2. Enganchado(c[l], p, k, siguiente, siguiente')
    BY <1>7, <1>8 DEF Enganchado
  <2>3. CabeceraCon(c[l], l, p, k, primero, ultimo, primero', ultimo')
    BY <1>6, <1>8, <1>9 DEF CabeceraCon
  <2>4. Ajeno(c, p, ticksDespertar, ticksDespertar')
    BY <1>3, <1>9 DEF Ajeno
  <2>5. Representan([c EXCEPT ![l] = d], primero', ultimo', siguiente', ticksDespertar')
    BY <1>2, <1>3, <1>4, <2>1, <2>2, <2>3, <2>4, Enlazar
  <2> QED BY <1>10, <2>5
<1>12. Recorridos' = e
  BY <1>11, UnicosRecorridosPrima DEF SonRecorridos
<1>13. InvEnlaces'
  BY <1>4, <1>8, <1>9, <1>11, <1>12 DEF InvEnlaces, TiposEnlaces
<1>14. Colas!InsertarUltimo(l, p)
  <2>1. Recorridos' = [Recorridos EXCEPT ![l] = Append(@, p)]
    BY <1>1, <1>2, <1>3, <1>5, <1>10, <1>12
  <2>2. Colas!Suelto(p)
    BY <1>1, <1>3 DEF Colas!Suelto, Colas!Listas, Colas!ToSet, Listas, ToSet
  <2> QED BY <1>9, <2>1, <2>2 DEF Colas!InsertarUltimo
<1> QED BY <1>13, <1>14

(* The four cases of insertarOrdenadoListaBCP put the process at the place *)
(* k, the first one whose process wakes up later.                          *)
LEMMA EngancharOrdenado ==
    ASSUME InvEnlaces, NEW l \in Ordenadas, NEW p \in Procesos, NEW t \in Instantes,
           InsertarOrdenadoListaBCP(l, p, t),
           NEW s, s = Recorridos[l], NEW k \in 1 .. Len(s) + 1,
           \A i \in 1 .. k - 1 : ticksDespertar[s[i]] <= t,
           k <= Len(s) => ticksDespertar[s[k]] > t
    PROVE  /\ Enganchado(s, p, k, siguiente, siguiente')
           /\ CabeceraCon(s, l, p, k, primero, ultimo, primero', ultimo')
           /\ primero' \in [Listas -> Procesos \cup {NULL}]
           /\ ultimo' \in [Listas -> Procesos \cup {NULL}]
           /\ siguiente' \in [Procesos -> Procesos \cup {NULL}]
<1> DEFINE td == ticksDespertar
<1>1. l \in Listas
  BY DEF Listas
<1>2. /\ s \in Seq(Procesos) /\ p \notin ToSet(s)
      /\ primero[l] = NULL <=> s = <<>>
      /\ s # <<>> => primero[l] = s[1] /\ ultimo[l] = s[Len(s)] /\ ultimo[l] \in Procesos
  BY <1>1, Estado DEF InsertarOrdenadoListaBCP
<1>3. /\ Len(s) \in Nat /\ DOMAIN s = 1 .. Len(s) /\ k \in Nat \ {0} /\ k <= Len(s) + 1
      /\ s = <<>> <=> Len(s) = 0
      /\ \A i \in 1 .. Len(s) : s[i] \in Procesos /\ s[i] # p
  <2>1. Len(s) \in Nat /\ DOMAIN s = 1 .. Len(s) /\ (s = <<>> <=> Len(s) = 0)
    BY <1>2, LenProperties, EmptySeq
  <2>2. \A i \in 1 .. Len(s) : s[i] \in Procesos /\ s[i] \in ToSet(s)
    BY <1>2, DentroDe, ElementOfSeq
  <2> QED BY <1>2, <2>1, <2>2
<1>4. /\ primero \in [Listas -> Procesos \cup {NULL}]
      /\ ultimo \in [Listas -> Procesos \cup {NULL}]
      /\ siguiente \in [Procesos -> Procesos \cup {NULL}]
      /\ td \in [Procesos -> Instantes]
      /\ \A q \in Procesos : td[q] \in Nat
      /\ t \in Nat
  BY ListasAssumption DEF InvEnlaces, TiposEnlaces
<1>5. /\ \A i, j \in 1 .. Len(s) : i < j => td[s[i]] <= td[s[j]]
      /\ \A i, j \in 1 .. Len(s) : s[i] = s[j] => i = j
      /\ \A i \in 1 .. Len(s) : siguiente[s[i]] = IF i < Len(s) THEN s[i + 1] ELSE NULL
  <2>1. EnOrden(s, td) /\ IsInjective(s) /\ Enlazada(primero[l], ultimo[l], siguiente, s)
    BY <1>1 DEF InvEnlaces, Representan
  <2> QED BY <1>3, <2>1 DEF EnOrden, IsInjective, Enlazada
<1>6. CASE primero[l] = NULL
  <2>1. /\ primero' = [primero EXCEPT ![l] = p]
        /\ ultimo' = [ultimo EXCEPT ![l] = p]
        /\ siguiente' = [siguiente EXCEPT ![p] = NULL]
    BY <1>6 DEF InsertarOrdenadoListaBCP
  <2>2. k = 1 /\ Len(s) = 0
    BY <1>2, <1>3, <1>6
  <2> QED BY <1>1, <1>4, <2>1, <2>2 DEF Enganchado, CabeceraCon
<1>7. CASE primero[l] # NULL /\ td[primero[l]] > t
  <2>1. Len(s) >= 1 /\ primero[l] = s[1] /\ s[1] \in Procesos
    BY <1>2, <1>3, <1>7
  <2>2. /\ siguiente' = [siguiente EXCEPT ![p] = primero[l]]
        /\ primero' = [primero EXCEPT ![l] = p]
        /\ ultimo' = ultimo
    BY <1>4, <1>7, <2>1 DEF InsertarOrdenadoListaBCP
  <2>3. k = 1
    <3>1. ~(1 \in 1 .. k - 1)
      BY <1>4, <1>7, <2>1
    <3> QED BY <1>3, <3>1
  <2> QED BY <1>1, <1>3, <1>4, <2>1, <2>2, <2>3 DEF Enganchado, CabeceraCon
<1>8. CASE primero[l] # NULL /\ td[primero[l]] <= t /\ td[ultimo[l]] <= t
  <2>1. /\ siguiente' = [siguiente EXCEPT ![ultimo[l]] = p, ![p] = NULL]
        /\ ultimo' = [ultimo EXCEPT ![l] = p]
        /\ primero' = primero
    BY <1>2, <1>3, <1>4, <1>8 DEF InsertarOrdenadoListaBCP
  <2>2. Len(s) >= 1 /\ ultimo[l] = s[Len(s)] /\ s[Len(s)] \in Procesos
    BY <1>2, <1>3, <1>8
  <2>3. k = Len(s) + 1
    <3>1. ASSUME k <= Len(s) PROVE FALSE
      <4>1. k \in 1 .. Len(s) /\ Len(s) \in 1 .. Len(s) /\ (k < Len(s) \/ k = Len(s))
        BY <1>3, <3>1
      <4>2. td[s[k]] <= td[s[Len(s)]]
        BY <1>3, <1>4, <1>5, <4>1
      <4>3. td[s[k]] \in Nat
        BY <1>3, <1>4, <4>1
      <4> QED BY <1>4, <1>8, <2>2, <3>1, <4>2, <4>3
    <3> QED BY <1>3, <3>1
  <2>4. k - 1 = Len(s) /\ k > 1 /\ ~(k <= Len(s)) /\ k # 1 /\ s[k - 1] # p
    BY <1>3, <2>2, <2>3
  <2> QED BY <1>1, <1>4, <2>1, <2>2, <2>3, <2>4 DEF Enganchado, CabeceraCon
<1>9. CASE primero[l] # NULL /\ td[primero[l]] <= t /\ td[ultimo[l]] > t
  <2>1. PICK aux : aux = Anterior(l, t)
    OBVIOUS
  <2>2. /\ siguiente' = [siguiente EXCEPT ![p] = siguiente[aux], ![aux] = p]
        /\ primero' = primero /\ ultimo' = ultimo
    BY <1>2, <1>3, <1>4, <1>9, <2>1 DEF InsertarOrdenadoListaBCP
  <2>3. /\ Len(s) >= 1 /\ primero[l] = s[1] /\ ultimo[l] = s[Len(s)]
        /\ 1 \in 1 .. Len(s) /\ Len(s) \in 1 .. Len(s)
    BY <1>2, <1>3, <1>9
  <2>4. k # 1
    BY <1>3, <1>4, <1>9, <2>3
  <2>5. k <= Len(s)
    <3>1. ASSUME k = Len(s) + 1 PROVE FALSE
      <4>1. Len(s) \in 1 .. k - 1
        BY <1>3, <2>3, <3>1
      <4>2. td[s[Len(s)]] <= t /\ td[s[Len(s)]] \in Nat
        BY <1>3, <1>4, <2>3, <4>1
      <4> QED BY <1>4, <1>9, <2>3, <4>2
    <3> QED BY <1>3, <3>1
  <2>6. aux = s[k - 1]
    <3> DEFINE despues == {i \in 2 .. Largo(l) : td[Recorrido(l)[i]] > t}
               q == CHOOSE i \in despues : \A j \in despues : i <= j
    <3>1. Recorrido(l) = s /\ Largo(l) = Len(s)
      <4>1. Recorrido(l) = s
        BY <1>1 DEF Recorridos
      <4>2. Len(Recorrido(l)) = Largo(l)
        <5>1. Largo(l) \in Nat
          <6>1. IsFiniteSet(0 .. NoMasDe)
            BY ListasAssumption, FS_CardinalityType, FS_Interval DEF NoMasDe
          <6>2. IsFiniteSet({i \in 0 .. NoMasDe : Avanzar(l)[i] # NULL})
            BY <6>1, FS_Subset
          <6> QED BY <6>2, FS_CardinalityType DEF Largo
        <5> QED BY <5>1 DEF Recorrido
      <4> QED BY <4>1, <4>2
    <3>2. aux = Recorrido(l)[q - 1]
      BY <2>1 DEF Anterior
    <3>3. despues = {i \in 2 .. Len(s) : td[s[i]] > t}
      BY <3>1
    <3> HIDE DEF despues
    <3>4. k \in despues
      BY <1>3, <2>4, <2>5, <3>3
    <3>5. ASSUME NEW j \in despues PROVE k <= j
      <4>1. j \in 1 .. Len(s) /\ td[s[j]] > t
        BY <1>3, <3>3
      <4>2. td[s[j]] \in Nat
        BY <1>3, <1>4, <4>1
      <4>3. ~(j \in 1 .. k - 1)
        BY <1>4, <4>1, <4>2
      <4> QED BY <1>3, <4>1, <4>3
    <3>6. q \in despues /\ \A j \in despues : q <= j
      BY <3>4, <3>5
    <3>7. q = k
      <4> HIDE DEF q
      <4>1. q \in Nat /\ q <= k /\ k <= q
        BY <1>3, <3>3, <3>4, <3>5, <3>6
      <4> QED BY <1>3, <4>1
    <3> QED BY <3>1, <3>2, <3>7
  <2>7. k - 1 \in 1 .. Len(s) /\ k - 1 < Len(s) /\ (k - 1) + 1 = k /\ k > 1 /\ k # Len(s) + 1
    BY <1>3, <2>4, <2>5
  <2>8. aux \in Procesos /\ aux # p /\ siguiente[aux] = s[k] /\ s[k] \in Procesos
    BY <1>3, <1>5, <2>5, <2>6, <2>7
  <2> QED BY <1>1, <1>4, <2>2, <2>4, <2>5, <2>6, <2>7, <2>8 DEF Enganchado, CabeceraCon
<1>10. \/ primero[l] = NULL
       \/ primero[l] # NULL /\ td[primero[l]] > t
       \/ primero[l] # NULL /\ td[primero[l]] <= t /\ td[ultimo[l]] <= t
       \/ primero[l] # NULL /\ td[primero[l]] <= t /\ td[ultimo[l]] > t
  BY DEF InsertarOrdenadoListaBCP
<1> QED BY <1>6, <1>7, <1>8, <1>9, <1>10

LEMMA MismaInsercion ==
    ASSUME NEW s, NEW p, NEW td
    PROVE  Colas!InsertarOrdenado(s, p, td) = Intercalado(s, p, td)
<1> DEFINE I == {i \in 1 .. Len(s) : td[s[i]] > td[p]}
           k == IF I # {} THEN Min(I) ELSE 0
           j == IF I # {} THEN Colas!Min(I) ELSE 0
<1>1. Intercalado(s, p, td) = IF k = 0 THEN Append(s, p) ELSE InsertAt(s, k, p)
  BY DEF Intercalado, SelectInSeq
<1>2. Colas!InsertarOrdenado(s, p, td)
        = IF j = 0 THEN Append(s, p) ELSE Colas!InsertAt(s, j, p)
  BY DEF Colas!InsertarOrdenado, Colas!SelectInSeq
<1>3. k = j
  <2> HIDE DEF I
  <2> QED BY DEF Min, Colas!Min
<1>4. Colas!InsertAt(s, j, p) = InsertAt(s, j, p)
  <2> HIDE DEF j
  <2> QED BY DEF InsertAt, Colas!InsertAt
<1> HIDE DEF k, j
<1> QED BY <1>1, <1>2, <1>3, <1>4

LEMMA PasoInsertarOrdenado ==
    ASSUME InvEnlaces, NEW l \in Ordenadas, NEW p \in Procesos, NEW t \in Instantes,
           InsertarOrdenadoListaBCP(l, p, t)
    PROVE  InvEnlaces' /\ Colas!InsertarEnOrden(l, p, t)
<1>1. PICK c : c = Recorridos
  OBVIOUS
<1>2. PICK s : s = Recorridos[l]
  OBVIOUS
<1>3. l \in Listas
  BY DEF Listas
<1>4. /\ c \in [Listas -> Seq(Procesos)] /\ s \in Seq(Procesos) /\ c[l] = s
      /\ \A m \in Listas : p \notin ToSet(c[m])
  BY <1>1, <1>2, <1>3, Estado DEF InsertarOrdenadoListaBCP
<1>5. TiposEnlaces /\ Representan(c, primero, ultimo, siguiente, ticksDespertar)
  BY <1>1 DEF InvEnlaces
<1>6. PICK td : td = ticksDespertar'
  OBVIOUS
<1>7. /\ td = [ticksDespertar EXCEPT ![p] = t]
      /\ td \in [Procesos -> Instantes] /\ td \in [Procesos -> Nat] /\ td[p] = t
      /\ \A q \in Procesos \ {p} : td[q] = ticksDespertar[q]
  <2>1. td = [ticksDespertar EXCEPT ![p] = t] /\ ticksDespertar \in [Procesos -> Instantes]
    BY <1>5, <1>6 DEF InsertarOrdenadoListaBCP, TiposEnlaces
  <2>2. td \in [Procesos -> Instantes]
    BY <2>1
  <2>3. td \in [Procesos -> Nat]
    BY <2>2, ListasAssumption
  <2> QED BY <2>1, <2>2, <2>3
<1>8. PICK d \in Seq(Procesos) :
        /\ d = Intercalado(s, p, td)
        /\ Len(d) = Len(s) + 1
        /\ \E k \in 1 .. Len(s) + 1 :
              /\ d[k] = p
              /\ \A i \in 1 .. k - 1 : d[i] = s[i] /\ td[s[i]] <= td[p]
              /\ \A i \in k .. Len(s) : d[i + 1] = s[i]
              /\ k <= Len(s) => td[s[k]] > td[p]
        /\ ToSet(d) = ToSet(s) \cup {p}
        /\ IsInjective(s) /\ p \notin ToSet(s) => IsInjective(d)
        /\ (\A i, j \in DOMAIN s : i < j => td[s[i]] <= td[s[j]])
              => \A i, j \in DOMAIN d : i < j => td[d[i]] <= td[d[j]]
  <2> DEFINE u == Intercalado(s, p, td)
  <2>1. s \in Seq(Procesos) /\ td \in [Procesos -> Nat]
    BY <1>4, <1>7
  <2>2. /\ u \in Seq(Procesos) /\ Len(u) = Len(s) + 1
        /\ \E k \in 1 .. Len(s) + 1 :
              /\ u[k] = p
              /\ \A i \in 1 .. k - 1 : u[i] = s[i] /\ td[s[i]] <= td[p]
              /\ \A i \in k .. Len(s) : u[i + 1] = s[i]
              /\ k <= Len(s) => td[s[k]] > td[p]
    BY <2>1, LugarDeIntercalado
  <2>3. /\ ToSet(u) = ToSet(s) \cup {p}
        /\ IsInjective(s) /\ p \notin ToSet(s) => IsInjective(u)
    BY <2>1, IntercaladoEnOrden
  <2>4. (\A i, j \in DOMAIN s : i < j => td[s[i]] <= td[s[j]])
            => \A i, j \in DOMAIN u : i < j => td[u[i]] <= td[u[j]]
    BY <2>1, IntercaladoEnOrden
  <2>5. u = Intercalado(s, p, td)
    OBVIOUS
  <2> HIDE DEF u
  <2> QED BY <2>2, <2>3, <2>4, <2>5
<1>9. /\ Len(s) \in Nat /\ DOMAIN s = 1 .. Len(s)
      /\ \A i \in 1 .. Len(s) : s[i] \in Procesos \ {p} /\ td[s[i]] = ticksDespertar[s[i]]
  <2>1. Len(s) \in Nat /\ DOMAIN s = 1 .. Len(s)
    BY <1>4, LenProperties
  <2>2. \A i \in 1 .. Len(s) : s[i] \in Procesos /\ s[i] \in ToSet(s)
    BY <1>4, DentroDe, ElementOfSeq
  <2> QED BY <1>3, <1>4, <1>7, <2>1, <2>2
<1>10. d \in Seq(Procesos) /\ Len(d) = Len(s) + 1
  BY <1>8
<1>11. PICK k \in 1 .. Len(s) + 1 :
          /\ d[k] = p
          /\ \A i \in 1 .. k - 1 : d[i] = s[i] /\ td[s[i]] <= td[p]
          /\ \A i \in k .. Len(s) : d[i + 1] = s[i]
          /\ k <= Len(s) => td[s[k]] > td[p]
  BY <1>8
<1>12. ConProceso(s, p, k, d)
  <2>1. IsInjective(s) /\ p \notin ToSet(s)
    BY <1>3, <1>4, <1>5 DEF Representan
  <2>2. ToSet(d) = ToSet(s) \cup {p} /\ IsInjective(d)
    BY <1>8, <2>1
  <2> QED BY <1>10, <1>11, <2>2 DEF ConProceso
<1>13. EnOrden(d, td)
  <2>1. EnOrden(s, ticksDespertar)
    BY <1>3, <1>4, <1>5 DEF Representan
  <2>2. \A i, j \in DOMAIN s : i < j => td[s[i]] <= td[s[j]]
    BY <1>9, <2>1 DEF EnOrden
  <2>3. \A i, j \in DOMAIN d : i < j => td[d[i]] <= td[d[j]]
    BY <1>8, <2>2
  <2> QED BY <2>3 DEF EnOrden
<1>14. /\ Enganchado(s, p, k, siguiente, siguiente')
       /\ CabeceraCon(s, l, p, k, primero, ultimo, primero', ultimo')
       /\ primero' \in [Listas -> Procesos \cup {NULL}]
       /\ ultimo' \in [Listas -> Procesos \cup {NULL}]
       /\ siguiente' \in [Procesos -> Procesos \cup {NULL}]
  <2>1. \A i \in 1 .. k - 1 : ticksDespertar[s[i]] <= t
    BY <1>7, <1>9, <1>11
  <2>2. k <= Len(s) => ticksDespertar[s[k]] > t
    BY <1>7, <1>9, <1>11
  <2> QED BY <1>2, <2>1, <2>2, EngancharOrdenado
<1>15. PICK e : e = [c EXCEPT ![l] = d]
  OBVIOUS
<1>16. Representan(e, primero', ultimo', siguiente', ticksDespertar')
  <2>1. Ajeno(c, p, ticksDespertar, td)
    BY <1>4, <1>7 DEF Ajeno
  <2>2. Representan([c EXCEPT ![l] = d], primero', ultimo', siguiente', td)
    BY <1>3, <1>4, <1>5, <1>12, <1>13, <1>14, <2>1, Enlazar
  <2> QED BY <1>6, <1>15, <2>2
<1>17. Recorridos' = e
  BY <1>16, UnicosRecorridosPrima DEF SonRecorridos
<1>18. InvEnlaces'
  BY <1>6, <1>7, <1>14, <1>16, <1>17 DEF InvEnlaces, TiposEnlaces
<1>19. Colas!InsertarEnOrden(l, p, t)
  <2>1. Colas!InsertarOrdenado(s, p, td) = d
    BY <1>8, MismaInsercion
  <2>2. Recorridos' = [Recorridos EXCEPT ![l] = Colas!InsertarOrdenado(@, p, ticksDespertar')]
    BY <1>1, <1>3, <1>4, <1>6, <1>15, <1>17, <2>1
  <2>3. Colas!Suelto(p)
    BY <1>1, <1>4 DEF Colas!Suelto, Colas!Listas, Colas!ToSet, Listas, ToSet
  <2> QED BY <1>6, <1>7, <2>2, <2>3 DEF Colas!InsertarEnOrden
<1> QED BY <1>18, <1>19

LEMMA PasoEliminarPrimero ==
    ASSUME InvEnlaces, NEW l \in Listas, EliminarPrimeroListaBCP(l)
    PROVE  InvEnlaces' /\ Colas!EliminarPrimero(l)
<1>1. PICK c : c = Recorridos
  OBVIOUS
<1>2. /\ c \in [Listas -> Seq(Procesos)] /\ c[l] # <<>>
      /\ primero[l] = c[l][1] /\ ultimo[l] = c[l][Len(c[l])]
  BY <1>1, Estado DEF EliminarPrimeroListaBCP
<1>3. TiposEnlaces /\ Representan(c, primero, ultimo, siguiente, ticksDespertar)
  BY <1>1 DEF InvEnlaces
<1>4. PICK s : s = c[l]
  OBVIOUS
<1>5. /\ s \in Seq(Procesos) /\ s # <<>> /\ Len(s) \in Nat \ {0} /\ DOMAIN s = 1 .. Len(s)
      /\ s[1] \in Procesos /\ \A i, j \in 1 .. Len(s) : s[i] = s[j] => i = j
      /\ siguiente[s[1]] = IF 1 < Len(s) THEN s[2] ELSE NULL
  <2>1. s \in Seq(Procesos) /\ s # <<>>
    BY <1>2, <1>4
  <2>2. Len(s) \in Nat \ {0} /\ DOMAIN s = 1 .. Len(s)
    BY <2>1, LenProperties, EmptySeq
  <2>3. IsInjective(s) /\ Enlazada(primero[l], ultimo[l], siguiente, s)
    BY <1>3, <1>4 DEF Representan
  <2>4. 1 \in 1 .. Len(s) /\ 1 + 1 = 2
    BY <2>2
  <2>5. s[1] \in Procesos
    BY <2>1, <2>4, ElementOfSeq
  <2>6. siguiente[s[1]] = IF 1 < Len(s) THEN s[1 + 1] ELSE NULL
    BY <2>3, <2>4 DEF Enlazada
  <2> QED BY <2>1, <2>2, <2>3, <2>4, <2>5, <2>6 DEF IsInjective
<1>6. ultimo[l] = primero[l] <=> Len(s) = 1
  <2>1. 1 \in 1 .. Len(s) /\ Len(s) \in 1 .. Len(s)
    BY <1>5
  <2> QED BY <1>2, <1>4, <1>5, <2>1
<1>7. /\ primero'[l] = siguiente[s[1]]
      /\ ultimo'[l] = IF Len(s) = 1 THEN NULL ELSE ultimo[l]
      /\ \A m \in Listas \ {l} : primero'[m] = primero[m] /\ ultimo'[m] = ultimo[m]
      /\ primero' \in [Listas -> Procesos \cup {NULL}]
      /\ ultimo' \in [Listas -> Procesos \cup {NULL}]
  <2>1. CASE Len(s) = 1
    <3>1. primero' = [primero EXCEPT ![l] = NULL] /\ ultimo' = [ultimo EXCEPT ![l] = NULL]
      BY <1>6, <2>1 DEF EliminarPrimeroListaBCP
    <3> QED BY <1>3, <1>5, <2>1, <3>1 DEF TiposEnlaces
  <2>2. CASE Len(s) # 1
    <3>1. primero' = [primero EXCEPT ![l] = siguiente[s[1]]] /\ ultimo' = ultimo
      BY <1>2, <1>4, <1>6, <2>2 DEF EliminarPrimeroListaBCP
    <3> QED BY <1>3, <1>5, <2>2, <3>1 DEF TiposEnlaces
  <2> QED BY <2>1, <2>2
<1>8. siguiente' = siguiente /\ ticksDespertar' = ticksDespertar
  BY DEF EliminarPrimeroListaBCP
<1>9. PICK e : e = [c EXCEPT ![l] = Tail(@)]
  OBVIOUS
<1>10. Representan(e, primero', ultimo', siguiente', ticksDespertar')
  <2>1. CabeceraSin(c[l], l, siguiente, primero, ultimo, primero', ultimo')
    BY <1>4, <1>7 DEF CabeceraSin
  <2>2. Representan([c EXCEPT ![l] = Tail(@)], primero', ultimo', siguiente, ticksDespertar)
    BY <1>2, <1>3, <2>1, Desenlazar
  <2> QED BY <1>8, <1>9, <2>2
<1>11. Recorridos' = e
  BY <1>10, UnicosRecorridosPrima DEF SonRecorridos
<1>12. InvEnlaces'
  BY <1>3, <1>7, <1>8, <1>10, <1>11 DEF InvEnlaces, TiposEnlaces
<1>13. Colas!EliminarPrimero(l)
  BY <1>1, <1>2, <1>8, <1>9, <1>11 DEF Colas!EliminarPrimero
<1> QED BY <1>12, <1>13

-----------------------------------------------------------------------------
(* The refinement                                                          *)

LEMMA InitEnlaces == Init => InvEnlaces /\ Colas!Init
<1> SUFFICES ASSUME Init PROVE InvEnlaces /\ Colas!Init
  OBVIOUS
<1>1. TiposEnlaces
  BY DEF Init, TiposEnlaces
<1> DEFINE c == [l \in Listas |-> <<>>]
<1>2. Representan(c, primero, ultimo, siguiente, ticksDespertar)
  <2>1. /\ c \in [Listas -> Seq(Procesos)]
        /\ \A l \in Listas : c[l] = <<>> /\ primero[l] = NULL /\ ultimo[l] = NULL
    BY DEF Init
  <2>2. IsInjective(<<>>) /\ ToSet(<<>>) = {} /\ EnOrden(<<>>, ticksDespertar)
    BY DEF IsInjective, ToSet, EnOrden
  <2>3. Enlazada(NULL, NULL, siguiente, <<>>)
    BY DEF Enlazada
  <2>4. Ordenadas \subseteq Listas
    BY DEF Listas
  <2> HIDE DEF c
  <2> QED BY <2>1, <2>2, <2>3, <2>4 DEF Representan
<1>3. Recorridos = c
  BY <1>2, UnicosRecorridos DEF SonRecorridos
<1>4. Colas!Init
  BY <1>1, <1>3 DEF Colas!Init, Colas!Listas, Listas, TiposEnlaces
<1> QED BY <1>1, <1>2, <1>3, <1>4 DEF InvEnlaces

LEMMA PasoEnlaces == InvEnlaces /\ [Next]_vars => InvEnlaces' /\ [Colas!Next]_(Colas!vars)
<1> SUFFICES ASSUME InvEnlaces, [Next]_vars
             PROVE  InvEnlaces' /\ [Colas!Next]_(Colas!vars)
  OBVIOUS
<1>1. ASSUME NEW l \in Fifos, NEW p \in Procesos, InsertarUltimoListaBCP(l, p)
      PROVE  InvEnlaces' /\ Colas!Next
  BY <1>1, PasoInsertarUltimo DEF Colas!Next
<1>2. ASSUME NEW l \in Ordenadas, NEW p \in Procesos, NEW t \in Instantes,
             InsertarOrdenadoListaBCP(l, p, t)
      PROVE  InvEnlaces' /\ Colas!Next
  BY <1>2, PasoInsertarOrdenado DEF Colas!Next
<1>3. ASSUME NEW l \in Listas, EliminarPrimeroListaBCP(l)
      PROVE  InvEnlaces' /\ Colas!Next
  BY <1>3, PasoEliminarPrimero DEF Colas!Next, Colas!Listas, Listas
<1>4. CASE UNCHANGED vars
  <2>1. PICK c : c = Recorridos
    OBVIOUS
  <2>2. TiposEnlaces' /\ Representan(c, primero', ultimo', siguiente', ticksDespertar')
    BY <1>4, <2>1 DEF InvEnlaces, TiposEnlaces, vars
  <2>3. Recorridos' = c
    BY <2>2, UnicosRecorridosPrima DEF SonRecorridos
  <2> QED BY <1>4, <2>1, <2>2, <2>3 DEF InvEnlaces, vars, Colas!vars
<1> QED BY <1>1, <1>2, <1>3, <1>4 DEF Next

(* The pointers implement the queues: every run of the list functions over *)
(* their shared links is a run of queues that are apart from each other,   *)
(* FIFO or in order of waking up with equal times in order of arrival.     *)
THEOREM EnlacesImplementanColas == Spec => ImplementaColas
<1>1. Init => InvEnlaces /\ Colas!Init
  BY InitEnlaces
<1>2. InvEnlaces /\ [Next]_vars => InvEnlaces' /\ [Colas!Next]_(Colas!vars)
  BY PasoEnlaces
<1> QED BY <1>1, <1>2, PTL DEF Spec, ImplementaColas, Colas!Spec
=============================================================================
