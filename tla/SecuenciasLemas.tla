-------------------------- MODULE SecuenciasLemas --------------------------
(***************************************************************************)
(* Sequences used as queues, over any set: the elements they hold, whether *)
(* each is there once, in which order, and what is left of them when the   *)
(* first ones are taken; the minimum and the maximum of a set of naturals. *)
(***************************************************************************)
EXTENDS Integers, SequencesExt, FiniteSetsExt, SequenceTheorems, FiniteSetTheorems,
        WellFoundedInduction, TLAPS

(* Append: the queue gains the element, at its end.                        *)
LEMMA Insertar ==
    ASSUME NEW S, NEW s \in Seq(S), NEW e \in S
    PROVE  /\ Append(s, e) \in Seq(S)
           /\ ToSet(Append(s, e)) = ToSet(s) \cup {e}
           /\ IsInjective(s) /\ e \notin ToSet(s) => IsInjective(Append(s, e))
<1> DEFINE t == Append(s, e)
<1>1. /\ t \in Seq(S) /\ Len(t) = Len(s) + 1 /\ t[Len(s) + 1] = e
      /\ \A i \in 1 .. Len(s) : t[i] = s[i]
  BY AppendProperties
<1>2. Len(s) \in Nat /\ DOMAIN s = 1 .. Len(s) /\ DOMAIN t = 1 .. Len(s) + 1
  BY <1>1, LenProperties
<1> HIDE DEF t
<1>3. ToSet(t) = ToSet(s) \cup {e}
  <2>1. ASSUME NEW x \in ToSet(t) PROVE x \in ToSet(s) \cup {e}
    <3>1. PICK i \in 1 .. Len(s) + 1 : x = t[i]
      BY <1>2, <2>1 DEF ToSet
    <3>2. CASE i = Len(s) + 1
      BY <1>1, <3>1, <3>2
    <3>3. CASE i # Len(s) + 1
      <4>1. i \in 1 .. Len(s)
        BY <1>2, <3>3
      <4> QED BY <1>1, <1>2, <3>1, <4>1 DEF ToSet
    <3> QED BY <3>2, <3>3
  <2>2. ASSUME NEW x \in ToSet(s) PROVE x \in ToSet(t)
    <3>1. PICK i \in 1 .. Len(s) : x = s[i]
      BY <1>2, <2>2 DEF ToSet
    <3>2. i \in DOMAIN t /\ t[i] = x
      BY <1>1, <1>2, <3>1
    <3> QED BY <3>2 DEF ToSet
  <2>3. e \in ToSet(t)
    <3>1. Len(s) + 1 \in DOMAIN t
      BY <1>2
    <3> QED BY <1>1, <3>1 DEF ToSet
  <2> QED BY <2>1, <2>2, <2>3
<1>4. ASSUME IsInjective(s), e \notin ToSet(s) PROVE IsInjective(t)
  <2>1. \A i \in 1 .. Len(s) : t[i] = s[i] /\ t[i] # e
    BY <1>1, <1>2, <1>4 DEF ToSet
  <2>2. \A i, j \in 1 .. Len(s) : s[i] = s[j] => i = j
    BY <1>2, <1>4 DEF IsInjective
  <2>3. ASSUME NEW i \in 1 .. Len(s) + 1, NEW j \in 1 .. Len(s) + 1, t[i] = t[j]
        PROVE  i = j
    <3>1. CASE i \in 1 .. Len(s) /\ j \in 1 .. Len(s)
      BY <2>1, <2>2, <2>3, <3>1
    <3>2. CASE i = Len(s) + 1 \/ j = Len(s) + 1
      BY <1>1, <1>2, <2>1, <2>3, <3>2
    <3> QED BY <1>2, <3>1, <3>2
  <2> QED BY <1>2, <2>3 DEF IsInjective
<1> QED BY <1>1, <1>3, <1>4 DEF t

(* Tail: the queue loses its first element, and only it.                   *)
LEMMA Eliminar ==
    ASSUME NEW S, NEW s \in Seq(S), s # <<>>
    PROVE  /\ Head(s) \in ToSet(s) /\ Head(s) \in S
           /\ Tail(s) \in Seq(S)
           /\ ToSet(s) = ToSet(Tail(s)) \cup {Head(s)}
           /\ IsInjective(s) => IsInjective(Tail(s)) /\ Head(s) \notin ToSet(Tail(s))
<1> DEFINE t == Tail(s)
<1>1. /\ t \in Seq(S) /\ Len(t) = Len(s) - 1
      /\ \A i \in 1 .. Len(t) : t[i] = s[i + 1]
  BY HeadTailProperties
<1>2. Len(s) \in Nat \ {0} /\ DOMAIN s = 1 .. Len(s) /\ DOMAIN t = 1 .. Len(s) - 1
  BY <1>1, LenProperties, EmptySeq
<1>3. Head(s) = s[1] /\ Head(s) \in S
  BY HeadTailProperties
<1> HIDE DEF t
<1>4. Head(s) \in ToSet(s)
  <2>1. 1 \in DOMAIN s
    BY <1>2
  <2> QED BY <1>3, <2>1 DEF ToSet
<1>5. ToSet(s) = ToSet(t) \cup {Head(s)}
  <2>1. ASSUME NEW x \in ToSet(s) PROVE x \in ToSet(t) \cup {Head(s)}
    <3>1. PICK i \in 1 .. Len(s) : x = s[i]
      BY <1>2, <2>1 DEF ToSet
    <3>2. CASE i = 1
      BY <1>3, <3>1, <3>2
    <3>3. CASE i # 1
      <4>1. i - 1 \in DOMAIN t /\ t[i - 1] = s[i]
        BY <1>1, <1>2, <3>3
      <4> QED BY <3>1, <4>1 DEF ToSet
    <3> QED BY <3>2, <3>3
  <2>2. ASSUME NEW x \in ToSet(t) PROVE x \in ToSet(s)
    <3>1. PICK i \in 1 .. Len(s) - 1 : x = t[i]
      BY <1>2, <2>2 DEF ToSet
    <3>2. i + 1 \in DOMAIN s /\ s[i + 1] = x
      BY <1>1, <1>2, <3>1
    <3> QED BY <3>2 DEF ToSet
  <2> QED BY <1>4, <2>1, <2>2
<1>6. ASSUME IsInjective(s) PROVE IsInjective(t) /\ Head(s) \notin ToSet(t)
  <2>1. \A i, j \in 1 .. Len(s) : s[i] = s[j] => i = j
    BY <1>2, <1>6 DEF IsInjective
  <2>2. \A i \in 1 .. Len(s) - 1 : i + 1 \in 1 .. Len(s) /\ i + 1 # 1 /\ t[i] = s[i + 1]
    BY <1>1, <1>2
  <2>3. \A i, j \in 1 .. Len(s) - 1 : t[i] = t[j] => i = j
    BY <1>2, <2>1, <2>2
  <2>4. \A i \in 1 .. Len(s) - 1 : t[i] # Head(s)
    <3>1. 1 \in 1 .. Len(s)
      BY <1>2
    <3> QED BY <1>3, <2>1, <2>2, <3>1
  <2> QED BY <1>2, <2>3, <2>4 DEF IsInjective, ToSet
<1> QED BY <1>1, <1>3, <1>4, <1>5, <1>6 DEF t

-----------------------------------------------------------------------------
(* The minimum of a non-empty set of naturals.                             *)
LEMMA MinimoDe ==
    ASSUME NEW I \in SUBSET Nat, I # {}
    PROVE  Min(I) \in I /\ \A i \in I : Min(I) <= i
<1> DEFINE Menor == {par \in Nat \X Nat : par[1] < par[2]}
<1>1. IsWellFoundedOn(Menor, Nat)
  BY NatLessThanWellFounded DEF OpToRel
<1>2. \A m, n \in Nat : <<m, n>> \in Menor <=> m < n
  OBVIOUS
<1> HIDE DEF Menor
<1>3. PICK m \in I : \A i \in I : <<i, m>> \notin Menor
  BY <1>1, WFMin
<1>4. ASSUME NEW i \in I PROVE m <= i
  <2>1. i \in Nat /\ m \in Nat
    OBVIOUS
  <2>2. ~(i < m)
    BY <1>2, <1>3, <2>1
  <2> QED BY <2>1, <2>2
<1> QED BY <1>4 DEF Min

(* The maximum of a non-empty set of places.                               *)
LEMMA MaximoDe ==
    ASSUME NEW n \in Nat, NEW I \in SUBSET (1 .. n), I # {}
    PROVE  Max(I) \in I /\ \A i \in I : i <= Max(I)
<1> DEFINE J == {n - i : i \in I}
<1>1. J \in SUBSET Nat /\ J # {}
  OBVIOUS
<1>2. PICK j \in J : \A k \in J : j <= k
  BY <1>1, MinimoDe
<1>3. PICK m \in I : j = n - m
  BY <1>2
<1>4. ASSUME NEW i \in I PROVE i <= m
  <2>1. n - i \in J
    BY <1>4
  <2>2. n - m <= n - i
    BY <1>2, <1>3, <2>1
  <2> QED BY <2>2
<1>5. Max(I) = CHOOSE x \in I : \A y \in I : x >= y
  BY DEF Max
<1>6. \A y \in I : m >= y
  BY <1>4
<1>7. Max(I) \in I /\ \A y \in I : Max(I) >= y
  BY <1>5, <1>6
<1>8. \A y \in I : y \in Int
  OBVIOUS
<1> HIDE DEF J
<1> QED BY <1>7, <1>8

-----------------------------------------------------------------------------
(* The elements of a queue, and those that are left when the first n go.   *)
LEMMA DentroDe ==
    ASSUME NEW S, NEW s \in Seq(S)
    PROVE  ToSet(s) \subseteq S /\ \A i \in 1 .. Len(s) : s[i] \in ToSet(s)
<1>1. DOMAIN s = 1 .. Len(s) /\ \A i \in 1 .. Len(s) : s[i] \in S
  BY LenProperties, ElementOfSeq
<1> QED BY <1>1 DEF ToSet

LEMMA Partir ==
    ASSUME NEW S, NEW s \in Seq(S), NEW n \in 1 .. Len(s)
    PROVE  /\ SubSeq(s, 1, n) \in Seq(S) /\ Len(SubSeq(s, 1, n)) = n
           /\ \A i \in 1 .. n : SubSeq(s, 1, n)[i] = s[i]
           /\ SubSeq(s, n + 1, Len(s)) \in Seq(S)
           /\ Len(SubSeq(s, n + 1, Len(s))) = Len(s) - n
           /\ \A i \in 1 .. Len(s) - n : SubSeq(s, n + 1, Len(s))[i] = s[n + i]
           /\ ToSet(SubSeq(s, 1, n)) \subseteq ToSet(s)
           /\ ToSet(SubSeq(s, n + 1, Len(s))) \subseteq ToSet(s)
           /\ IsInjective(s) =>
                 /\ IsInjective(SubSeq(s, n + 1, Len(s)))
                 /\ ToSet(SubSeq(s, 1, n)) \cap ToSet(SubSeq(s, n + 1, Len(s))) = {}
<1> DEFINE a == SubSeq(s, 1, n)
           r == SubSeq(s, n + 1, Len(s))
           m == Len(s)
<1>1. m \in Nat /\ n \in Nat /\ 1 <= n /\ n <= m /\ DOMAIN s = 1 .. m
      /\ \A i \in 1 .. m : s[i] \in S
  BY LenProperties, ElementOfSeq
<1>2. a \in Seq(S) /\ Len(a) = n /\ \A i \in 1 .. n : a[i] = s[i]
  <2>1. \A i \in 1 .. n : s[i] \in S
    BY <1>1
  <2>2. /\ a \in Seq(S) /\ Len(a) = IF 1 <= n THEN n - 1 + 1 ELSE 0
        /\ \A i \in 1 .. n - 1 + 1 : a[i] = s[1 + i - 1]
    BY <1>1, <2>1, SubSeqProperties
  <2> HIDE DEF a
  <2>3. n - 1 + 1 = n /\ \A i \in 1 .. n : 1 + i - 1 = i
    BY <1>1
  <2> QED BY <1>1, <2>2, <2>3
<1>3. r \in Seq(S) /\ Len(r) = m - n /\ \A i \in 1 .. m - n : r[i] = s[n + i]
  <2>1. n + 1 \in Int /\ m \in Int /\ \A i \in n + 1 .. m : s[i] \in S
    BY <1>1
  <2>2. /\ r \in Seq(S) /\ Len(r) = IF n + 1 <= m THEN m - (n + 1) + 1 ELSE 0
        /\ \A i \in 1 .. m - (n + 1) + 1 : r[i] = s[n + 1 + i - 1]
    BY <2>1, SubSeqProperties
  <2> HIDE DEF r, m
  <2>3. m - (n + 1) + 1 = m - n /\ \A i \in 1 .. m - n : n + 1 + i - 1 = n + i
    BY <1>1
  <2> QED BY <1>1, <2>2, <2>3
<1>4. DOMAIN a = 1 .. n /\ DOMAIN r = 1 .. m - n
  BY <1>2, <1>3, LenProperties
<1> HIDE DEF a, r, m
<1>5. ToSet(a) \subseteq ToSet(s)
  BY <1>1, <1>2, <1>4 DEF ToSet
<1>6. ToSet(r) \subseteq ToSet(s)
  <2>1. \A i \in 1 .. m - n : n + i \in 1 .. m
    BY <1>1
  <2> QED BY <1>1, <1>3, <1>4, <2>1 DEF ToSet
<1>7. ASSUME IsInjective(s) PROVE IsInjective(r) /\ ToSet(a) \cap ToSet(r) = {}
  <2>1. \A i, j \in 1 .. m : s[i] = s[j] => i = j
    BY <1>1, <1>7 DEF IsInjective
  <2>2. \A i, j \in 1 .. m - n : r[i] = r[j] => i = j
    <3>1. \A i, j \in 1 .. m - n : n + i \in 1 .. m /\ (n + i = n + j => i = j)
      BY <1>1
    <3> QED BY <1>3, <2>1, <3>1
  <2>3. \A i \in 1 .. n, j \in 1 .. m - n : a[i] # r[j]
    <3>1. \A i \in 1 .. n, j \in 1 .. m - n : i \in 1 .. m /\ n + j \in 1 .. m /\ i # n + j
      BY <1>1
    <3> QED BY <1>2, <1>3, <2>1, <3>1
  <2> QED BY <1>4, <2>2, <2>3 DEF IsInjective, ToSet
<1> QED BY <1>2, <1>3, <1>5, <1>6, <1>7 DEF a, r, m
-----------------------------------------------------------------------------
(* A queue in order of td gains an element before the first one whose td   *)
(* is greater, at the end when there is none.                              *)
Intercalado(s, p, td) ==
    LET k == SelectInSeq(s, LAMBDA q : td[q] > td[p])
    IN  IF k = 0 THEN Append(s, p) ELSE InsertAt(s, k, p)

(* The element lands at a place k such that the ones before it come no     *)
(* later than it, and the one after it comes later.                        *)
LEMMA LugarDeIntercalado ==
    ASSUME NEW S, NEW s \in Seq(S), NEW p \in S, NEW td \in [S -> Nat]
    PROVE  LET t == Intercalado(s, p, td)
           IN  /\ t \in Seq(S) /\ Len(t) = Len(s) + 1
               /\ \E k \in 1 .. Len(s) + 1 :
                     /\ t[k] = p
                     /\ \A i \in 1 .. k - 1 : t[i] = s[i] /\ td[s[i]] <= td[p]
                     /\ \A i \in k .. Len(s) : t[i + 1] = s[i]
                     /\ k <= Len(s) => td[s[k]] > td[p]
<1> DEFINE I == {i \in 1 .. Len(s) : td[s[i]] > td[p]}
           t == Intercalado(s, p, td)
           k == Min(I)
<1>1. /\ Len(s) \in Nat
      /\ td[p] \in Nat
      /\ \A i \in 1 .. Len(s) : s[i] \in S /\ td[s[i]] \in Nat
  BY LenProperties, ElementOfSeq
<1>2. I # {} => k \in I /\ \A i \in I : k <= i
  <2>1. I \in SUBSET Nat
    OBVIOUS
  <2> HIDE DEF I
  <2> QED BY <2>1, MinimoDe
<1>3. t = IF I = {} THEN Append(s, p) ELSE InsertAt(s, k, p)
  <2>1. t = IF (IF I # {} THEN Min(I) ELSE 0) = 0 THEN Append(s, p)
            ELSE InsertAt(s, IF I # {} THEN Min(I) ELSE 0, p)
    BY DEF Intercalado, SelectInSeq
  <2>2. I # {} => k # 0
    BY <1>2
  <2> HIDE DEF I, t
  <2> QED BY <2>1, <2>2
<1> HIDE DEF k, t
<1>5. CASE I = {}
  <2>1. t = Append(s, p)
    BY <1>3, <1>5
  <2>2. /\ t \in Seq(S) /\ Len(t) = Len(s) + 1 /\ t[Len(s) + 1] = p
        /\ \A i \in 1 .. Len(s) : t[i] = s[i]
    BY <2>1, AppendProperties
  <2>3. \A i \in 1 .. Len(s) : td[s[i]] <= td[p]
    BY <1>1, <1>5
  <2>4. Len(s) + 1 \in 1 .. Len(s) + 1 /\ ~(Len(s) + 1 <= Len(s))
    BY <1>1
  <2>5. /\ t[Len(s) + 1] = p
        /\ \A i \in 1 .. (Len(s) + 1) - 1 : t[i] = s[i] /\ td[s[i]] <= td[p]
        /\ \A i \in (Len(s) + 1) .. Len(s) : t[i + 1] = s[i]
    BY <1>1, <2>2, <2>3
  <2> QED BY <2>2, <2>4, <2>5 DEF t
<1>6. CASE I # {}
  <2>1. /\ k \in 1 .. Len(s) /\ td[s[k]] > td[p]
        /\ \A i \in I : k <= i
    BY <1>2, <1>6
  <2>2. t = (SubSeq(s, 1, k - 1) \o <<p>>) \o SubSeq(s, k, Len(s))
    BY <1>3, <1>6 DEF InsertAt
  <2> DEFINE a == SubSeq(s, 1, k - 1)
             b == SubSeq(s, k, Len(s))
  <2>3. /\ a \in Seq(S) /\ Len(a) = k - 1
        /\ \A i \in 1 .. k - 1 : a[i] = s[i]
    <3>1. \A i \in 1 .. k - 1 : s[i] \in S
      BY <1>1, <2>1
    <3>2. /\ a \in Seq(S)
          /\ Len(a) = IF 1 <= k - 1 THEN (k - 1) - 1 + 1 ELSE 0
          /\ \A i \in 1 .. (k - 1) - 1 + 1 : a[i] = s[1 + i - 1]
      BY <2>1, <3>1, SubSeqProperties
    <3> QED BY <2>1, <3>2
  <2>4. /\ b \in Seq(S) /\ Len(b) = Len(s) - k + 1
        /\ \A i \in 1 .. Len(s) - k + 1 : b[i] = s[k + i - 1]
    <3>1. \A i \in k .. Len(s) : s[i] \in S
      BY <1>1, <2>1
    <3>2. /\ b \in Seq(S)
          /\ Len(b) = IF k <= Len(s) THEN Len(s) - k + 1 ELSE 0
          /\ \A i \in 1 .. Len(s) - k + 1 : b[i] = s[k + i - 1]
      BY <1>1, <2>1, <3>1, SubSeqProperties
    <3> QED BY <1>1, <2>1, <3>2
  <2> HIDE DEF a, b
  <2>5. <<p>> \in Seq(S) /\ Len(<<p>>) = 1 /\ <<p>>[1] = p
    OBVIOUS
  <2>6. /\ a \o <<p>> \in Seq(S) /\ Len(a \o <<p>>) = k
        /\ (a \o <<p>>)[k] = p
        /\ \A i \in 1 .. k - 1 : (a \o <<p>>)[i] = s[i]
    <3>1. /\ a \o <<p>> \in Seq(S) /\ Len(a \o <<p>>) = Len(a) + Len(<<p>>)
          /\ \A i \in 1 .. Len(a) + Len(<<p>>) :
                (a \o <<p>>)[i] = IF i <= Len(a) THEN a[i] ELSE <<p>>[i - Len(a)]
      BY <2>3, <2>5, ConcatProperties
    <3>2. k \in Nat /\ Len(a) + Len(<<p>>) = k
      BY <2>1, <2>3, <2>5
    <3> DEFINE c == a \o <<p>>
    <3> HIDE DEF c
    <3>3. /\ c \in Seq(S) /\ Len(c) = k
          /\ \A i \in 1 .. k : c[i] = IF i <= k - 1 THEN a[i] ELSE <<p>>[i - (k - 1)]
      BY <2>3, <3>1, <3>2 DEF c
    <3>4. c[k] = p
      <4>1. k \in 1 .. k /\ ~(k <= k - 1) /\ k - (k - 1) = 1
        BY <2>1
      <4>2. c[k] = <<p>>[k - (k - 1)]
        BY <3>3, <4>1
      <4> QED BY <2>5, <4>1, <4>2
    <3>5. \A i \in 1 .. k - 1 : c[i] = s[i]
      <4> SUFFICES ASSUME NEW i \in 1 .. k - 1 PROVE c[i] = s[i]
        OBVIOUS
      <4>1. i \in 1 .. k /\ i <= k - 1
        BY <2>1
      <4>2. c[i] = a[i]
        BY <3>3, <4>1
      <4> QED BY <2>3, <4>2
    <3> QED BY <3>3, <3>4, <3>5 DEF c
  <2>7. /\ t \in Seq(S) /\ Len(t) = Len(s) + 1
        /\ \A i \in 1 .. Len(s) + 1 :
              t[i] = IF i <= k THEN (a \o <<p>>)[i] ELSE b[i - k]
    <3> DEFINE c == a \o <<p>>
    <3>1. c \in Seq(S) /\ Len(c) = k
      BY <2>6
    <3> HIDE DEF c
    <3>2. /\ c \o b \in Seq(S) /\ Len(c \o b) = Len(c) + Len(b)
          /\ \A i \in 1 .. Len(c) + Len(b) :
                (c \o b)[i] = IF i <= Len(c) THEN c[i] ELSE b[i - Len(c)]
      BY <2>4, <3>1, ConcatProperties
    <3>3. t = c \o b
      BY <2>2 DEF a, b, c
    <3>4. Len(c) + Len(b) = Len(s) + 1
      BY <1>1, <2>1, <2>4, <3>1
    <3> QED BY <3>1, <3>2, <3>3, <3>4 DEF c
  <2> HIDE DEF I
  <2>8. t[k] = p
    BY <1>1, <2>1, <2>6, <2>7
  <2>9. \A i \in 1 .. k - 1 : t[i] = s[i] /\ td[s[i]] <= td[p]
    <3> SUFFICES ASSUME NEW i \in 1 .. k - 1
                 PROVE  t[i] = s[i] /\ td[s[i]] <= td[p]
      OBVIOUS
    <3>1. i \in 1 .. Len(s) /\ i \notin I /\ i \in 1 .. Len(s) + 1 /\ i <= k
      BY <1>1, <2>1
    <3>2. td[s[i]] <= td[p]
      BY <1>1, <3>1 DEF I
    <3> QED BY <2>6, <2>7, <3>1, <3>2
  <2>10. \A i \in k .. Len(s) : t[i + 1] = s[i]
    <3> SUFFICES ASSUME NEW i \in k .. Len(s) PROVE t[i + 1] = s[i]
      OBVIOUS
    <3> DEFINE j == i + 1
    <3>1. j \in 1 .. Len(s) + 1 /\ ~(j <= k) /\ j - k \in 1 .. Len(s) - k + 1
      BY <1>1, <2>1
    <3>2. k + (j - k) - 1 = i
      BY <2>1
    <3> HIDE DEF j
    <3>3. b[j - k] = s[k + (j - k) - 1]
      BY <2>4, <3>1
    <3>4. t[j] = b[j - k]
      BY <2>7, <3>1
    <3> QED BY <3>2, <3>3, <3>4 DEF j
  <2>11. k \in 1 .. Len(s) + 1
    BY <1>1, <2>1
  <2> QED BY <2>1, <2>7, <2>8, <2>9, <2>10, <2>11 DEF t
<1> QED BY <1>5, <1>6

(* The insertion keeps what Append keeps, and the order.                   *)
LEMMA IntercaladoEnOrden ==
    ASSUME NEW S, NEW s \in Seq(S), NEW p \in S, NEW td \in [S -> Nat]
    PROVE  LET t == Intercalado(s, p, td)
           IN  /\ t \in Seq(S)
               /\ ToSet(t) = ToSet(s) \cup {p}
               /\ IsInjective(s) /\ p \notin ToSet(s) => IsInjective(t)
               /\ (\A i, j \in DOMAIN s : i < j => td[s[i]] <= td[s[j]])
                     => \A i, j \in DOMAIN t : i < j => td[t[i]] <= td[t[j]]
<1> DEFINE t == Intercalado(s, p, td)
<1>1. t \in Seq(S) /\ Len(t) = Len(s) + 1
  BY LugarDeIntercalado
<1>2. PICK k \in 1 .. Len(s) + 1 :
        /\ t[k] = p
        /\ \A i \in 1 .. k - 1 : t[i] = s[i] /\ td[s[i]] <= td[p]
        /\ \A i \in k .. Len(s) : t[i + 1] = s[i]
        /\ k <= Len(s) => td[s[k]] > td[p]
  BY LugarDeIntercalado
<1>3. /\ Len(s) \in Nat
      /\ DOMAIN s = 1 .. Len(s) /\ DOMAIN t = 1 .. Len(s) + 1
      /\ td[p] \in Nat
      /\ \A i \in 1 .. Len(s) : s[i] \in S /\ td[s[i]] \in Nat
  BY <1>1, LenProperties, ElementOfSeq
<1> HIDE DEF t
<1> DEFINE De(i) == IF i < k THEN i ELSE i - 1
<1>4. ASSUME NEW i \in 1 .. Len(s) + 1, i # k
      PROVE  De(i) \in 1 .. Len(s) /\ t[i] = s[De(i)]
  <2>1. CASE i < k
    BY <1>2, <1>3, <2>1
  <2>2. CASE i > k
    <3>1. i - 1 \in k .. Len(s) /\ De(i) = i - 1
      BY <1>2, <1>3, <2>2
    <3>2. t[(i - 1) + 1] = s[i - 1] /\ (i - 1) + 1 = i
      BY <1>2, <3>1
    <3> QED BY <1>3, <3>1, <3>2
  <2> QED BY <1>3, <1>4, <2>1, <2>2
<1>5. \A i, j \in 1 .. Len(s) + 1 : i # k /\ j # k /\ De(i) = De(j) => i = j
  BY <1>3
<1>6. \A i, j \in 1 .. Len(s) + 1 : i # k /\ j # k /\ i < j => De(i) < De(j)
  BY <1>3
<1>7. \A i \in 1 .. Len(s) : \E j \in 1 .. Len(s) + 1 : t[j] = s[i]
  <2> SUFFICES ASSUME NEW i \in 1 .. Len(s)
               PROVE  \E j \in 1 .. Len(s) + 1 : t[j] = s[i]
    OBVIOUS
  <2>1. CASE i < k
    BY <1>2, <1>3, <2>1
  <2>2. CASE i >= k
    <3>1. i + 1 \in 1 .. Len(s) + 1 /\ t[i + 1] = s[i]
      BY <1>2, <1>3, <2>2
    <3> QED BY <3>1
  <2> QED BY <1>3, <2>1, <2>2
<1> HIDE DEF De
<1>8. ToSet(t) = ToSet(s) \cup {p}
  <2>1. ToSet(t) = {t[i] : i \in 1 .. Len(s) + 1} /\ ToSet(s) = {s[i] : i \in 1 .. Len(s)}
    BY <1>3 DEF ToSet
  <2>2. \A i \in 1 .. Len(s) + 1 : t[i] \in ToSet(s) \cup {p}
    BY <1>2, <1>4, <2>1
  <2>3. p \in ToSet(t)
    BY <1>2, <2>1
  <2>4. ToSet(s) \subseteq ToSet(t)
    BY <1>7, <2>1
  <2> QED BY <2>1, <2>2, <2>3, <2>4
<1>9. ASSUME IsInjective(s), p \notin ToSet(s) PROVE IsInjective(t)
  <2>1. \A i, j \in 1 .. Len(s) : s[i] = s[j] => i = j
    BY <1>3, <1>9 DEF IsInjective
  <2>2. \A i \in 1 .. Len(s) : s[i] # p
    BY <1>3, <1>9 DEF ToSet
  <2> SUFFICES ASSUME NEW i \in 1 .. Len(s) + 1, NEW j \in 1 .. Len(s) + 1, t[i] = t[j]
               PROVE  i = j
    BY <1>3 DEF IsInjective
  <2>3. CASE i = k \/ j = k
    BY <1>2, <1>4, <2>2, <2>3
  <2>4. CASE i # k /\ j # k
    BY <1>4, <1>5, <2>1, <2>4
  <2> QED BY <2>3, <2>4
<1>10. ASSUME \A i, j \in DOMAIN s : i < j => td[s[i]] <= td[s[j]]
       PROVE  \A i, j \in DOMAIN t : i < j => td[t[i]] <= td[t[j]]
  <2>1. \A i, j \in 1 .. Len(s) : i < j => td[s[i]] <= td[s[j]]
    BY <1>3, <1>10
  <2>2. \A i \in k .. Len(s) : td[s[i]] > td[p]
    BY <1>2, <1>3, <2>1
  <2> SUFFICES ASSUME NEW i \in 1 .. Len(s) + 1, NEW j \in 1 .. Len(s) + 1, i < j
               PROVE  td[t[i]] <= td[t[j]]
    BY <1>3
  <2>3. CASE i = k
    <3>1. j - 1 \in k .. Len(s) /\ t[j] = s[j - 1]
      BY <1>2, <1>3, <2>3
    <3> QED BY <1>2, <1>3, <2>2, <2>3, <3>1
  <2>4. CASE j = k
    <3>1. i \in 1 .. k - 1
      BY <1>3, <2>4
    <3> QED BY <1>2, <2>4, <3>1
  <2>5. CASE i # k /\ j # k
    BY <1>4, <1>6, <2>1, <2>5
  <2> QED BY <2>3, <2>4, <2>5
<1> QED BY <1>1, <1>8, <1>9, <1>10 DEF t
=============================================================================
