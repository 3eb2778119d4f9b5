---------------------------- MODULE DiscoFSProofs ----------------------------
(***************************************************************************)
(* Proofs about DiscoFS, for any number of processes, names, inodes, data  *)
(* blocks and stops of the machine: which block belongs to which file, in  *)
(* memory, in the calls that wait, in the requests on their way and on the *)
(* device; what a stop would leave; what a file has after its calls; and   *)
(* what the device has after a synchronisation.                            *)
(***************************************************************************)
EXTENDS DiscoFS, SecuenciasLemas

-----------------------------------------------------------------------------
(* The inductive invariant                                                 *)

(* An inode with bytes has a block.                                        *)
InodosBien == {r \in RegistrosInodo : r.tamanyo > 0 => r.bloqueDirecto \in Datos}

(* What a block may hold.                                                  *)
ValorDe(b) ==
    IF b \in {BloqueSuper, BloqueMapaInodos} THEN SUBSET Inodos
    ELSE IF b = BloqueMapaDatos THEN SUBSET Datos
    ELSE IF b \in Datos THEN Contenidos ELSE InodosBien

ConValor(p) == peticion[p] # NULL /\ (peticion[p].op = "escribir" \/ peticion[p].hecha)

TiposFS ==
    /\ disco \in [Bloques -> ValoresBloque] /\ \A b \in Bloques : disco[b] \in ValorDe(b)
    /\ peticion \in [Procesos -> Peticiones \cup {NULL}]
    /\ \A p \in Procesos : ConValor(p) => peticion[p].valor \in ValorDe(peticion[p].bloque)
    /\ montado \in BOOLEAN
    /\ inodos \in [Inodos -> InodosBien \cup {NULL}]
    /\ mapaInodos = {i \in Inodos : inodos[i] # NULL}
    /\ mapaBloques \subseteq Datos /\ sinMapa \subseteq Datos
    /\ creados \subseteq Procesos
    /\ desc \in [Procesos -> Descriptores \cup {NULL}]
    /\ byteSiguiente \in [Direcciones -> Int \cup {NULL}]
    /\ llamada \in [Procesos -> Llamadas \cup {NULL}]
    /\ compartido \in BOOLEAN /\ cruzado \in BOOLEAN

(* The queues of the device: those that wait for each block, once each.    *)
Colas ==
    /\ espera \in [Bloques -> Seq(Procesos)]
    /\ \A b \in Bloques :
          /\ IsInjective(espera[b])
          /\ \A p \in ToSet(espera[b]) :
                peticion[p] # NULL /\ peticion[p].bloque = b /\ ~peticion[p].hecha

(* A volume that is not mounted leaves nothing in memory.                  *)
Desmontado ==
    ~montado =>
        /\ \A p \in Procesos : peticion[p] = NULL /\ desc[p] = NULL /\ llamada[p] = NULL
        /\ \A b \in Bloques : espera[b] = <<>>
        /\ \A i \in Inodos : inodos[i] = NULL
        /\ mapaBloques = {} /\ sinMapa = {}

(* The descriptors: of an inode there is, with data in use.                *)
DescriptoresBien ==
    \A p \in Procesos : desc[p] # NULL =>
        p \in creados /\ desc[p].inodo \in mapaInodos /\ byteSiguiente[desc[p].datos] \in Int

(* Each call and the request it waits for.                                 *)
En(p, f) == llamada[p] # NULL /\ llamada[p].fase = f
EnFichero(p) == llamada[p] # NULL /\ llamada[p].fase \in {"leer", "modificar", "grabar"}

LlamadasBien ==
    \A p \in Procesos :
        /\ llamada[p] = NULL <=> peticion[p] = NULL
        /\ llamada[p] # NULL => p \in creados
        /\ EnFichero(p) => desc[p] # NULL
        /\ En(p, "leer") => peticion[p].op = "leer" /\ peticion[p].bloque \in Datos
        /\ En(p, "modificar") =>
              /\ peticion[p].op = "leer" /\ peticion[p].bloque = llamada[p].bloque
              /\ Inodo(p).bloqueDirecto \in Datos
        /\ En(p, "grabar") =>
              /\ peticion[p].op = "escribir" /\ peticion[p].bloque \in Datos
              /\ Inodo(p).bloqueDirecto \in Datos
        /\ En(p, "sincronizar") =>
              peticion[p].op = "escribir" /\ peticion[p].bloque = llamada[p].bloque

(* The requests that write the inode i.                                    *)
EscribenInodo(i) ==
    {q \in Procesos : /\ peticion[q] # NULL /\ peticion[q].op = "escribir"
                      /\ peticion[q].bloque = BloqueInodo(i)}

(* Until a process closes a descriptor another has, or uses it at once,    *)
(* the data of the descriptors are theirs.                                 *)
Propios ==
    ~compartido => \A p \in Procesos : desc[p] # NULL =>
        desc[p].datos \in reservados /\ byteSiguiente[desc[p].datos] \in Nat

(* While no two processes have used a descriptor at once, its position is  *)
(* that of one call, and what it copies fits.                              *)
Caben ==
    ~compartido =>
        /\ \A i \in Inodos : inodos[i] # NULL => inodos[i].tamanyo <= FS_BLOCK_SIZE
        /\ \A i \in Inodos : EnDisco(i).tamanyo <= FS_BLOCK_SIZE
        /\ \A i \in Inodos : \A q \in EscribenInodo(i) :
              peticion[q].valor.tamanyo <= FS_BLOCK_SIZE
        /\ \A p \in Procesos : EnFichero(p) => ~Desborda(p)
        /\ \A p, q \in Procesos : EnFichero(p) /\ EnFichero(q) /\ p # q =>
              desc[p].datos # desc[q].datos

(* The blocks of the inode i: the one in memory, if it has bytes or is     *)
(* being written; those of the calls that write it; those that the device  *)
(* has or is going to have.                                                *)
DeMemoria(i) ==
    {b \in Datos : /\ inodos[i] # NULL /\ b = inodos[i].bloqueDirecto
                   /\ inodos[i].tamanyo > 0 \/ Escribiendo(i) # {}}
DeLlamadas(i) ==
    {b \in Datos : \E q \in Escribiendo(i) : En(q, "modificar") /\ b = llamada[q].bloque}
DeDisco(i) == {b \in Datos : EnDisco(i).tamanyo > 0 /\ b = EnDisco(i).bloqueDirecto}
DePeticiones(i) ==
    {b \in Datos : \E q \in EscribenInodo(i) :
        peticion[q].valor.tamanyo > 0 /\ b = peticion[q].valor.bloqueDirecto}
Suyos(i) == DeMemoria(i) \cup DeLlamadas(i) \cup DeDisco(i) \cup DePeticiones(i)

(* They are marked, and of no other inode.                                 *)
Separados ==
    ~cruzado => \A i \in Inodos :
        /\ montado => Suyos(i) \subseteq mapaBloques
        /\ \A j \in Inodos \ {i} : Suyos(i) \cap Suyos(j) = {}

(* The order of sincronizarVolumen: a call past the map of blocks left on  *)
(* the device all those in use, but those assigned meanwhile.              *)
EscribeMapa(p) ==
    peticion[p] # NULL /\ peticion[p].op = "escribir" /\ peticion[p].bloque = BloqueMapaDatos
PasadoElMapa(p) ==
    /\ En(p, "sincronizar")
    /\ \/ llamada[p].bloque > BloqueMapaDatos
       \/ llamada[p].bloque = BloqueMapaDatos /\ peticion[p].hecha

MapaAntes ==
    ~cruzado =>
        /\ ~montado => SinMarcar = {}
        /\ \A i \in Inodos :
              DeDisco(i) \cup DePeticiones(i) \subseteq disco[BloqueMapaDatos] \cup sinMapa
        /\ \A p \in Procesos : EscribeMapa(p) => mapaBloques \ peticion[p].valor \subseteq sinMapa
        /\ \A p \in Procesos : PasadoElMapa(p) => mapaBloques \ disco[BloqueMapaDatos] \subseteq sinMapa

InvFS ==
    /\ TiposFS /\ Colas /\ Desmontado /\ DescriptoresBien /\ LlamadasBien /\ Propios
    /\ Caben /\ Separados /\ MapaAntes

-----------------------------------------------------------------------------
(* The layout                                                              *)

LEMMA Disposicion ==
    /\ NumInodos \in Nat \ {0} /\ NumDatos \in Nat \ {0} /\ FS_BLOCK_SIZE \in Nat \ {0}
    /\ {1, 2, 3} \subseteq Bloques \ Datos /\ Datos \subseteq Bloques /\ Datos \subseteq Nat
    /\ 0 \notin Datos /\ Bloques \subseteq Nat /\ Inodos \subseteq Nat
    /\ \A i \in Inodos : /\ BloqueInodo(i) \in Bloques \ Datos /\ BloqueInodo(i) > 3
                         /\ BloqueInodo(i) \notin {1, 2, 3} /\ BloqueInodo(i) - 4 = i
    /\ \A i, j \in Inodos : BloqueInodo(i) = BloqueInodo(j) => i = j
    /\ \A b \in Bloques \ Datos :
          b \notin {1, 2, 3} => b > 3 /\ b - 4 \in Inodos /\ b = BloqueInodo(b - 4)
BY DiscoFSAssumption DEF Bloques, Datos, Inodos, BloqueInodo

LEMMA Valores ==
    /\ \A b \in Bloques : ValorDe(b) \subseteq ValoresBloque
    /\ ValorDe(BloqueSuper) = SUBSET Inodos /\ ValorDe(BloqueMapaInodos) = SUBSET Inodos
    /\ ValorDe(BloqueMapaDatos) = SUBSET Datos
    /\ \A b \in Datos : ValorDe(b) = Contenidos
    /\ \A i \in Inodos : ValorDe(BloqueInodo(i)) = InodosBien
<1>1. InodosBien \subseteq RegistrosInodo
  BY DEF InodosBien
<1>2. ASSUME NEW b \in Bloques PROVE ValorDe(b) \subseteq ValoresBloque
  <2>1. \/ ValorDe(b) = SUBSET Inodos \/ ValorDe(b) = SUBSET Datos
        \/ ValorDe(b) = Contenidos \/ ValorDe(b) = InodosBien
    BY DEF ValorDe
  <2>2. /\ SUBSET Inodos \subseteq ValoresBloque /\ SUBSET Datos \subseteq ValoresBloque
        /\ Contenidos \subseteq ValoresBloque /\ RegistrosInodo \subseteq ValoresBloque
    BY DEF ValoresBloque
  <2> QED BY <1>1, <2>1, <2>2
<1>3. \A i \in Inodos : BloqueInodo(i) \notin {1, 2, 3} /\ BloqueInodo(i) \notin Datos
  BY Disposicion
<1>4. 1 \notin Datos /\ 2 \notin Datos /\ 3 \notin Datos
  BY Disposicion
<1> QED BY <1>2, <1>3, <1>4 DEF ValorDe, BloqueSuper, BloqueMapaInodos, BloqueMapaDatos

LEMMA NULLAparte ==
    /\ NULL \notin Nat /\ NULL \notin InodosBien /\ NULL \notin Peticiones
    /\ NULL \notin Descriptores /\ NULL \notin Llamadas
BY NULLAssumption DEF InodosBien

(* What a call is doing, by its type.                                      *)
LEMMA TiposLlamada ==
    ASSUME NEW c \in Llamadas
    PROVE  /\ c.fase \in {"leer", "modificar", "grabar", "sincronizar"}
           /\ c.fase # "sincronizar" => c.n \in Nat \ {0}
           /\ c.fase = "modificar" => c.bloque \in Datos
           /\ c.fase = "sincronizar" => c.bloque \in Bloques \ Datos /\ c.foto \in Fotos
<1>1. CASE c \in [fase : {"leer", "grabar"}, n : Nat \ {0}]
  BY <1>1
<1>2. CASE c \in [fase : {"modificar"}, bloque : Datos, n : Nat \ {0}]
  BY <1>2
<1>3. CASE c \in [fase : {"sincronizar"}, bloque : Bloques \ Datos, foto : Fotos]
  BY <1>3
<1> QED BY <1>1, <1>2, <1>3 DEF Llamadas

-----------------------------------------------------------------------------
(* The device                                                              *)

(* A process that waits for nothing, or has been served, is in no queue.   *)
LEMMA FueraDeLasColas ==
    ASSUME Colas, NEW p \in Procesos, peticion[p] = NULL \/ peticion[p].hecha
    PROVE  \A c \in Bloques : p \notin ToSet(espera[c])
BY DEF Colas

(* A request: its process goes to the end of the queue of its block.       *)
LEMMA PedirCola ==
    ASSUME TiposFS, Colas, NEW p \in Procesos, NEW b \in Bloques, NEW r \in Peticiones,
           peticion[p] = NULL \/ peticion[p].hecha, r.bloque = b, ~r.hecha,
           peticion' = [peticion EXCEPT ![p] = r],
           espera' = [espera EXCEPT ![b] = Append(espera[b], p)]
    PROVE  Colas'
<1>1. /\ espera \in [Bloques -> Seq(Procesos)]
      /\ \A c \in Bloques : p \notin ToSet(espera[c])
  BY FueraDeLasColas DEF Colas
<1>2. /\ Append(espera[b], p) \in Seq(Procesos)
      /\ ToSet(Append(espera[b], p)) = ToSet(espera[b]) \cup {p}
      /\ IsInjective(Append(espera[b], p))
  BY <1>1, Insertar DEF Colas
<1>3. espera' \in [Bloques -> Seq(Procesos)]
  BY <1>1, <1>2
<1>4. /\ espera'[b] = Append(espera[b], p)
      /\ \A c \in Bloques \ {b} : espera'[c] = espera[c]
  BY <1>1
<1>5. /\ peticion'[p] = r /\ r # NULL
      /\ \A q \in Procesos \ {p} : peticion'[q] = peticion[q]
  BY NULLAparte DEF TiposFS
<1>6. ASSUME NEW c \in Bloques
      PROVE  /\ IsInjective(espera'[c])
             /\ \A q \in ToSet(espera'[c]) :
                   peticion'[q] # NULL /\ peticion'[q].bloque = c /\ ~peticion'[q].hecha
  <2>1. \A q \in ToSet(espera[c]) :
           peticion'[q] # NULL /\ peticion'[q].bloque = c /\ ~peticion'[q].hecha
    <3>1. ASSUME NEW q \in ToSet(espera[c]) PROVE q \in Procesos \ {p}
      <4>1. espera[c] \in Seq(Procesos)
        BY <1>1
      <4> QED BY <1>1, <4>1, <3>1, DentroDe
    <3> QED BY <1>5, <3>1 DEF Colas
  <2>2. CASE c = b
    BY <1>2, <1>4, <1>5, <2>1, <2>2
  <2>3. CASE c # b
    BY <1>4, <2>1, <2>3 DEF Colas
  <2> QED BY <2>2, <2>3
<1> QED BY <1>3, <1>6 DEF Colas

(* The return of a request: its process was in no queue.                   *)
LEMMA TerminarCola ==
    ASSUME TiposFS, Colas, NEW p \in Procesos, peticion[p] # NULL, peticion[p].hecha,
           peticion' = [peticion EXCEPT ![p] = NULL], espera' = espera
    PROVE  Colas'
<1>1. \A c \in Bloques : p \notin ToSet(espera[c])
  BY FueraDeLasColas
<1>2. \A q \in Procesos \ {p} : peticion'[q] = peticion[q]
  BY DEF TiposFS
<1>3. \A c \in Bloques : \A q \in ToSet(espera[c]) : q \in Procesos \ {p}
  <2>1. \A c \in Bloques : espera[c] \in Seq(Procesos)
    BY DEF Colas
  <2> QED BY <1>1, <2>1, DentroDe
<1> QED BY <1>2, <1>3 DEF Colas

(* Serving the first n requests for a block: what is left there, v, is     *)
(* what one of them wrote, or what there was; and it is what those served, *)
(* A, get.                                                                 *)
Deja(A, b, v) ==
    /\ A \subseteq ToSet(espera[b])
    /\ \/ v = disco[b] /\ \A q \in A : peticion[q].op # "escribir"
       \/ \E q \in A : peticion[q].op = "escribir" /\ v = peticion[q].valor
    /\ disco' = [disco EXCEPT ![b] = v]
    /\ peticion' = [p \in Procesos |->
                      IF p \in A THEN [op |-> peticion[p].op, bloque |-> b, valor |-> v, hecha |-> TRUE]
                      ELSE peticion[p]]
    /\ espera' \in [Bloques -> Seq(Procesos)]
    /\ \A c \in Bloques \ {b} : espera'[c] = espera[c]
    /\ IsInjective(espera'[b])
    /\ ToSet(espera'[b]) \subseteq ToSet(espera[b]) \ A

LEMMA ServirDeja ==
    ASSUME TiposFS, Colas, NEW b \in Bloques, NEW n \in 1 .. Len(espera[b]), Dev!Servir(b, n)
    PROVE  \E A, v : Deja(A, b, v)
<1> DEFINE s == espera[b]
           a == SubSeq(s, 1, n)
           I == {i \in 1 .. Len(a) : peticion[a[i]].op = "escribir"}
           k == IF I # {} THEN Max(I) ELSE 0
           v == IF k = 0 THEN disco[b] ELSE peticion[a[k]].valor
           A == ToSet(a)
<1>1. /\ disco' = [disco EXCEPT ![b] = v]
      /\ peticion' = [p \in Procesos |->
                        IF p \in A THEN [op |-> peticion[p].op, bloque |-> b, valor |-> v, hecha |-> TRUE]
                        ELSE peticion[p]]
      /\ espera' = [espera EXCEPT ![b] = SubSeq(s, n + 1, Len(s))]
  BY DEF Dev!Servir, Dev!UltimaQueEscribe, Dev!SelectLastInSeq, Dev!Max, Max, Dev!ToSet, ToSet
<1>2. s \in Seq(Procesos) /\ IsInjective(s) /\ espera \in [Bloques -> Seq(Procesos)]
  BY DEF Colas
<1>3. /\ a \in Seq(Procesos) /\ Len(a) = n
      /\ SubSeq(s, n + 1, Len(s)) \in Seq(Procesos)
      /\ A \subseteq ToSet(s)
      /\ ToSet(SubSeq(s, n + 1, Len(s))) \subseteq ToSet(s) \ A
      /\ IsInjective(SubSeq(s, n + 1, Len(s)))
  BY <1>2, Partir
<1>4. \A i \in 1 .. Len(a) : a[i] \in A
  BY <1>3, DentroDe
<1>5. CASE I = {}
  <2>1. v = disco[b]
    BY <1>5
  <2>2. \A q \in A : peticion[q].op # "escribir"
    <3>1. DOMAIN a = 1 .. Len(a)
      BY <1>3, LenProperties
    <3> QED BY <1>5, <3>1 DEF ToSet
  <2> HIDE DEF A, v
  <2>3. Deja(A, b, v)
    BY <1>1, <1>2, <1>3, <2>1, <2>2 DEF Deja
  <2> QED BY <2>3
<1>6. CASE I # {}
  <2>1. k \in I
    <3>1. Len(a) \in Nat /\ I \in SUBSET (1 .. Len(a))
      BY <1>3, LenProperties
    <3> QED BY <1>6, <3>1, MaximoDe
  <2>2. k \in 1 .. Len(a) /\ peticion[a[k]].op = "escribir"
    BY <2>1
  <2>3. v = peticion[a[k]].valor
    <3>1. Len(a) \in Nat
      BY <1>3, LenProperties
    <3> HIDE DEF k, a
    <3>2. k # 0
      BY <2>2, <3>1
    <3> QED BY <3>2
  <2> HIDE DEF k, v, A
  <2>4. a[k] \in A /\ peticion[a[k]].op = "escribir" /\ v = peticion[a[k]].valor
    BY <1>4, <2>2, <2>3
  <2> HIDE DEF a
  <2>5. Deja(A, b, v)
    BY <1>1, <1>2, <1>3, <2>4 DEF Deja
  <2> QED BY <2>5
<1> QED BY <1>5, <1>6

LEMMA ServirCola ==
    ASSUME TiposFS, Colas, NEW b \in Bloques, NEW A, NEW v, Deja(A, b, v)
    PROVE  Colas'
<1>1. ASSUME NEW c \in Bloques
      PROVE  /\ IsInjective(espera'[c])
             /\ \A q \in ToSet(espera'[c]) :
                   peticion'[q] # NULL /\ peticion'[q].bloque = c /\ ~peticion'[q].hecha
  <2>1. IsInjective(espera'[c]) /\ ToSet(espera'[c]) \subseteq ToSet(espera[c])
    BY DEF Deja, Colas
  <2>2. \A q \in ToSet(espera'[c]) : q \in Procesos
    <3>1. espera[c] \in Seq(Procesos)
      BY DEF Colas
    <3> QED BY <2>1, <3>1, DentroDe
  <2>3. \A q \in ToSet(espera'[c]) : q \notin A
    <3>1. CASE c = b
      BY <3>1 DEF Deja
    <3>2. CASE c # b
      <4>1. \A q \in A : peticion[q].bloque = b
        BY DEF Deja, Colas
      <4>2. \A q \in ToSet(espera'[c]) : peticion[q].bloque = c
        BY <2>1 DEF Colas
      <4> QED BY <3>2, <4>1, <4>2
    <3> QED BY <3>1, <3>2
  <2>4. \A q \in ToSet(espera'[c]) : peticion'[q] = peticion[q]
    BY <2>2, <2>3 DEF Deja
  <2> QED BY <2>1, <2>4 DEF Colas
<1> QED BY <1>1 DEF Colas, Deja

-----------------------------------------------------------------------------
(* What a step must do to keep the blocks separated                        *)

(* It gives no inode a block it did not have.                              *)
LEMMA SeparadosSigue ==
    ASSUME Separados, montado' = montado, cruzado' = cruzado, mapaBloques \subseteq mapaBloques',
           \A i \in Inodos : Suyos(i)' \subseteq Suyos(i)
    PROVE  Separados'
BY DEF Separados

(* Or a free one, to one inode.                                            *)
LEMMA PropiosSigue ==
    ASSUME Propios, compartido => compartido', UNCHANGED <<desc, reservados, byteSiguiente>>
    PROVE  Propios'
BY DEF Propios

(* A position that moves forward is still one.                             *)
LEMMA PropiosMueve ==
    ASSUME Propios, TiposFS, DescriptoresBien, UNCHANGED <<compartido, desc, reservados>>,
           NEW p \in Procesos, desc[p] # NULL, NEW n \in Nat,
           byteSiguiente' = [byteSiguiente EXCEPT ![desc[p].datos] = @ + n]
    PROVE  Propios'
<1> SUFFICES ASSUME ~compartido, NEW q \in Procesos, desc[q] # NULL
             PROVE  desc[q].datos \in reservados /\ byteSiguiente'[desc[q].datos] \in Nat
  BY DEF Propios
<1>1. /\ desc[q].datos \in reservados
      /\ byteSiguiente[desc[q].datos] \in Nat /\ byteSiguiente[desc[p].datos] \in Nat
  BY DEF Propios
<1>2. desc[q].datos \in Direcciones
  BY DEF TiposFS, Descriptores
<1> QED BY <1>1, <1>2 DEF TiposFS

LEMMA SeparadosConNuevo ==
    ASSUME Separados, montado, montado' = montado, cruzado' = cruzado,
           NEW j \in Inodos, NEW b, b \notin mapaBloques,
           mapaBloques' = mapaBloques \cup {b},
           Suyos(j)' \subseteq Suyos(j) \cup {b},
           \A i \in Inodos \ {j} : Suyos(i)' \subseteq Suyos(i)
    PROVE  Separados'
<1> SUFFICES ASSUME ~cruzado, NEW i \in Inodos
             PROVE  /\ Suyos(i)' \subseteq mapaBloques'
                    /\ \A k \in Inodos \ {i} : Suyos(i)' \cap Suyos(k)' = {}
  BY DEF Separados
<1>1. \A k \in Inodos : Suyos(k) \subseteq mapaBloques /\ b \notin Suyos(k)
  BY DEF Separados
<1>2. \A k \in Inodos : Suyos(k)' \subseteq Suyos(k) \cup (IF k = j THEN {b} ELSE {})
  OBVIOUS
<1>3. \A k \in Inodos \ {i} : Suyos(i) \cap Suyos(k) = {}
  BY DEF Separados
<1>4. Suyos(i)' \subseteq mapaBloques'
  BY <1>1, <1>2
<1>5. ASSUME NEW k \in Inodos \ {i} PROVE Suyos(i)' \cap Suyos(k)' = {}
  <2>1. CASE i = j
    <3>1. Suyos(i)' \subseteq Suyos(i) \cup {b} /\ Suyos(k)' \subseteq Suyos(k)
      BY <2>1
    <3> QED BY <1>1, <1>3, <3>1
  <2>2. CASE i # j
    <3>1. Suyos(i)' \subseteq Suyos(i) /\ Suyos(k)' \subseteq Suyos(k) \cup {b}
      BY <1>2, <2>2
    <3> QED BY <1>1, <1>3, <3>1
  <2> QED BY <2>1, <2>2
<1> QED BY <1>4, <1>5

(* A request that writes no inode, and no map, in the place of that of p.  *)
LEMMA OtraPeticion ==
    ASSUME TiposFS, NEW p \in Procesos, NEW r,
           peticion' = [peticion EXCEPT ![p] = r],
           r = NULL \/ r.op = "leer" \/ r.bloque \in Datos \cup {BloqueSuper, BloqueMapaInodos}
    PROVE  /\ \A i \in Inodos : EscribenInodo(i)' = EscribenInodo(i) \ {p}
           /\ \A i \in Inodos : DePeticiones(i)' \subseteq DePeticiones(i)
           /\ \A q \in Procesos : EscribeMapa(q)' => q # p /\ EscribeMapa(q)
           /\ \A q \in Procesos \ {p} : peticion'[q] = peticion[q]
<1>1. peticion'[p] = r /\ \A q \in Procesos \ {p} : peticion'[q] = peticion[q]
  BY DEF TiposFS
<1>2. \A i \in Inodos : p \notin EscribenInodo(i)'
  BY <1>1, Disposicion DEF EscribenInodo, BloqueSuper, BloqueMapaInodos
<1>3. \A i \in Inodos : EscribenInodo(i)' = EscribenInodo(i) \ {p}
  BY <1>1, <1>2 DEF EscribenInodo
<1>4. \A i \in Inodos : DePeticiones(i)' \subseteq DePeticiones(i)
  <2>1. \A i \in Inodos : EscribenInodo(i) \subseteq Procesos
    BY DEF EscribenInodo
  <2> QED BY <1>1, <1>3, <2>1 DEF DePeticiones
<1>5. ~EscribeMapa(p)'
  BY <1>1, Disposicion DEF EscribeMapa, BloqueSuper, BloqueMapaInodos, BloqueMapaDatos
<1>6. \A q \in Procesos \ {p} : EscribeMapa(q)' => EscribeMapa(q)
  BY <1>1 DEF EscribeMapa
<1> QED BY <1>1, <1>3, <1>4, <1>5, <1>6

(* A step that leaves the device as it is: it marks no block without the   *)
(* calls that synchronise knowing, and takes none of them past the map.    *)
LEMMA MapaAntesSigue ==
    ASSUME MapaAntes, montado, montado' = montado, cruzado' = cruzado, disco' = disco,
           sinMapa \subseteq sinMapa',
           \A i \in Inodos : DePeticiones(i)' \subseteq DePeticiones(i),
           \A p \in Procesos : EscribeMapa(p)' =>
              /\ EscribeMapa(p) /\ peticion'[p].valor = peticion[p].valor
              /\ mapaBloques' \subseteq mapaBloques \cup sinMapa',
           \A p \in Procesos : PasadoElMapa(p)' =>
              PasadoElMapa(p) /\ mapaBloques' \subseteq mapaBloques \cup sinMapa'
    PROVE  MapaAntes'
<1> SUFFICES ASSUME ~cruzado PROVE MapaAntes'
  BY DEF MapaAntes
<1>1. \A i \in Inodos : DeDisco(i)' = DeDisco(i)
  BY DEF DeDisco, EnDisco
<1>2. \A i \in Inodos :
         (DeDisco(i) \cup DePeticiones(i))' \subseteq (disco[BloqueMapaDatos] \cup sinMapa)'
  BY <1>1 DEF MapaAntes
<1>3. \A p \in Procesos : EscribeMapa(p)' => mapaBloques' \ peticion'[p].valor \subseteq sinMapa'
  BY DEF MapaAntes
<1>4. \A p \in Procesos : PasadoElMapa(p)' => mapaBloques' \ disco'[BloqueMapaDatos] \subseteq sinMapa'
  BY DEF MapaAntes
<1> QED BY <1>2, <1>3, <1>4 DEF MapaAntes

-----------------------------------------------------------------------------
(* Start-up                                                                *)

(* Nothing in memory: the blocks of an inode are those on the device.      *)
SinMemoria ==
    /\ peticion \in [Procesos -> Peticiones \cup {NULL}]
    /\ \A p \in Procesos : ~ConValor(p)
    /\ inodos \in [Inodos -> InodosBien \cup {NULL}]
    /\ mapaInodos = {i \in Inodos : inodos[i] # NULL}
    /\ creados \subseteq Procesos
    /\ desc \in [Procesos -> Descriptores \cup {NULL}]
    /\ byteSiguiente \in [Direcciones -> Int \cup {NULL}]
    /\ llamada \in [Procesos -> Llamadas \cup {NULL}]
    /\ Colas /\ DescriptoresBien /\ LlamadasBien
    /\ \A p \in Procesos : peticion[p] = NULL /\ desc[p] = NULL /\ llamada[p] = NULL
    /\ \A b \in Bloques : espera[b] = <<>>
    /\ \A i \in Inodos : inodos[i] = NULL /\ EscribenInodo(i) = {} /\ Suyos(i) = DeDisco(i)

LEMMA ArrancarCumple == Arrancar => SinMemoria
<1> SUFFICES ASSUME Arrancar PROVE SinMemoria
  OBVIOUS
<1> USE DEF Arrancar
<1>1. Inicial \in Procesos
  BY DiscoFSAssumption
<1>2. /\ \A p \in Procesos : peticion[p] = NULL /\ desc[p] = NULL /\ llamada[p] = NULL
      /\ \A b \in Bloques : espera[b] = <<>>
      /\ \A i \in Inodos : inodos[i] = NULL
  OBVIOUS
<1>3. \A p \in Procesos : ~ConValor(p) /\ ~EscribeMapa(p)
  BY <1>2 DEF ConValor, EscribeMapa
<1>4. Colas
  <2>1. <<>> \in Seq(Procesos) /\ ToSet(<<>>) = {} /\ IsInjective(<<>>)
    BY DEF ToSet, IsInjective
  <2> QED BY <1>2, <2>1 DEF Colas
<1>5. DescriptoresBien
  BY <1>2 DEF DescriptoresBien
<1>6. LlamadasBien
  BY <1>2 DEF LlamadasBien, EnFichero, En
<1>7. \A i \in Inodos : EscribenInodo(i) = {} /\ Escribiendo(i) = {}
  BY <1>1, <1>2 DEF EscribenInodo, Escribiendo
<1>8. \A i \in Inodos : Suyos(i) = DeDisco(i)
  BY <1>2, <1>7 DEF Suyos, DeMemoria, DeLlamadas, DePeticiones
<1> QED BY <1>1, <1>2, <1>3, <1>4, <1>5, <1>6, <1>7, <1>8 DEF SinMemoria

LEMMA ArrancarDeNuevo == (Arrancar => SinMemoria)'
BY ArrancarCumple, PTL

LEMMA InicialFS == Init => InvFS
<1> SUFFICES ASSUME Init PROVE InvFS
  OBVIOUS
<1>1. Arrancar /\ SinMemoria
  BY ArrancarCumple DEF Init
<1>2. /\ \A i \in Inodos : EnDisco(i) = InodoVacio
      /\ \A b \in {BloqueSuper, BloqueMapaInodos, BloqueMapaDatos} : disco[b] = {}
      /\ \A b \in Datos : disco[b] = BloqueVacio
      /\ \A b \in Bloques : disco[b] \in {{}, BloqueVacio, InodoVacio}
  BY Disposicion DEF Init, EnDisco, BloqueSuper, BloqueMapaInodos, BloqueMapaDatos
<1>3. InodoVacio \in InodosBien /\ BloqueVacio \in Contenidos
  BY DEF InodoVacio, InodosBien, RegistrosInodo, BloqueVacio, Contenidos
<1>4. \A b \in Bloques : disco[b] \in ValorDe(b)
  <2>1. ASSUME NEW b \in Bloques PROVE disco[b] \in ValorDe(b)
    <3>1. CASE b \in {BloqueSuper, BloqueMapaInodos, BloqueMapaDatos}
      BY <1>2, <3>1, Valores
    <3>2. CASE b \in Datos
      BY <1>2, <1>3, <3>2, Valores
    <3>3. CASE b \notin {BloqueSuper, BloqueMapaInodos, BloqueMapaDatos} \cup Datos
      <4>1. b - 4 \in Inodos /\ b = BloqueInodo(b - 4)
        BY <3>3, Disposicion DEF BloqueSuper, BloqueMapaInodos, BloqueMapaDatos
      <4>2. disco[b] = InodoVacio
        BY <1>2, <4>1 DEF EnDisco
      <4>3. ValorDe(b) = InodosBien
        BY <4>1, Valores
      <4> QED BY <1>3, <4>2, <4>3
    <3> QED BY <3>1, <3>2, <3>3
  <2> QED BY <2>1
<1>5. disco \in [Bloques -> ValoresBloque]
  <2>1. disco = [b \in Bloques |-> disco[b]]
    BY DEF Init
  <2>2. \A b \in Bloques : disco[b] \in ValoresBloque
    BY <1>4, Valores
  <2> QED BY <2>1, <2>2
<1>6. TiposFS
  BY <1>1, <1>4, <1>5 DEF SinMemoria, TiposFS, Init, Arrancar
<1>7. \A i \in Inodos : DeDisco(i) = {} /\ EnDisco(i).tamanyo = 0
  BY <1>2 DEF DeDisco, InodoVacio
<1>8. Desmontado
  BY <1>1 DEF SinMemoria, Desmontado, Arrancar, Init
<1>9. Caben /\ Propios
  <2>1. \A p \in Procesos : llamada[p] = NULL /\ desc[p] = NULL
    BY <1>1 DEF SinMemoria
  <2> QED BY <1>1, <1>7, <2>1, Disposicion DEF SinMemoria, Caben, EnFichero, Propios
<1>10. Separados
  <2>1. \A i \in Inodos : Suyos(i) = {}
    BY <1>1, <1>7 DEF SinMemoria
  <2> QED BY <2>1 DEF Separados
<1>11. MapaAntes
  <2>1. SinMarcar = {}
    BY <1>7 DEF SinMarcar
  <2>2. \A i \in Inodos : DePeticiones(i) = {}
    BY <1>1 DEF SinMemoria, DePeticiones
  <2>3. \A p \in Procesos : ~EscribeMapa(p) /\ ~PasadoElMapa(p)
    BY <1>1 DEF SinMemoria, EscribeMapa, PasadoElMapa, En
  <2> QED BY <1>7, <2>1, <2>2, <2>3 DEF MapaAntes
<1> QED BY <1>1, <1>6, <1>8, <1>9, <1>10, <1>11 DEF SinMemoria, InvFS

-----------------------------------------------------------------------------
(* Processes and descriptors                                               *)

LEMMA PasoCrearProceso ==
    ASSUME InvFS, NEW p \in Procesos, NEW q \in Procesos, CrearProceso(p, q)
    PROVE  InvFS'
<1> USE DEF InvFS
<1>1. /\ p \in creados /\ llamada[p] = NULL /\ montado /\ q \notin creados
      /\ creados' = creados \cup {q}
      /\ desc' = [desc EXCEPT ![q] = desc[p]]
      /\ UNCHANGED <<disco, peticion, espera, montado, inodos, mapaInodos, mapaBloques,
                     reservados, byteSiguiente, llamada, compartido, sinMapa, cruzado>>
  BY DEF CrearProceso, Libre, dispositivo, volumen, historias
<1>2. /\ desc \in [Procesos -> Descriptores \cup {NULL}]
      /\ llamada[q] = NULL
  BY <1>1 DEF TiposFS, LlamadasBien
<1>3. desc'[q] = desc[p] /\ \A r \in Procesos \ {q} : desc'[r] = desc[r]
  BY <1>1, <1>2
<1>4. TiposFS'
  BY <1>1, <1>2 DEF TiposFS, ConValor
<1>5. Colas' /\ Desmontado'
  BY <1>1 DEF Colas, Desmontado
<1>6. DescriptoresBien'
  BY <1>1, <1>3 DEF DescriptoresBien
<1>7. LlamadasBien'
  BY <1>1, <1>2, <1>3 DEF LlamadasBien, EnFichero, En, Inodo
<1>8. \A i \in Inodos : EscribenInodo(i)' = EscribenInodo(i) /\ EnDisco(i)' = EnDisco(i)
  BY <1>1 DEF EscribenInodo, EnDisco
<1>9. Caben'
  <2>1. \A r \in Procesos : /\ EnFichero(r)' <=> EnFichero(r)
                            /\ EnFichero(r) => r # q
    BY <1>1, <1>2 DEF EnFichero
  <2>2. \A r \in Procesos \ {q} : Desborda(r)' <=> Desborda(r)
    BY <1>1, <1>3 DEF Desborda, Siguiente
  <2> QED BY <1>1, <1>3, <1>8, <2>1, <2>2 DEF Caben
<1>10. \A i \in Inodos : Escribiendo(i)' = Escribiendo(i)
  BY <1>1, <1>2, <1>3 DEF Escribiendo, TiposFS
<1>11. \A i \in Inodos : Suyos(i)' = Suyos(i)
  BY <1>1, <1>8, <1>10 DEF Suyos, DeMemoria, DeLlamadas, DePeticiones, DeDisco, En
<1>12. Separados'
  BY <1>1, <1>11, SeparadosSigue
<1>13. MapaAntes'
  <2>1. \A i \in Inodos : DePeticiones(i)' = DePeticiones(i)
    BY <1>1, <1>8 DEF DePeticiones
  <2>2. \A r \in Procesos : (EscribeMapa(r)' <=> EscribeMapa(r))
                            /\ (PasadoElMapa(r)' <=> PasadoElMapa(r))
    BY <1>1 DEF EscribeMapa, PasadoElMapa, En
  <2> QED BY <1>1, <2>1, <2>2, MapaAntesSigue
<1>p. Propios'
  BY <1>1, <1>2, <1>3 DEF Propios
<1> QED BY <1>p, <1>4, <1>5, <1>6, <1>7, <1>9, <1>12, <1>13

(* The first free inode, with the name it is opened by.                    *)
LEMMA CrearInodoHace ==
    ASSUME TiposFS, NEW i \in Inodos, NEW n \in Nombres, CrearInodo(i, n)
    PROVE  /\ inodos[i] = NULL /\ mapaInodos' = mapaInodos \cup {i}
           /\ inodos' \in [Inodos -> InodosBien \cup {NULL}]
           /\ inodos'[i] \in InodosBien /\ inodos'[i].tamanyo = 0
           /\ \A j \in Inodos \ {i} : inodos'[j] = inodos[j]
<1>1. i \in Inodos \ mapaInodos
  <2>1. Inodos \ mapaInodos # {} /\ Inodos \ mapaInodos \in SUBSET Nat
    BY Disposicion DEF CrearInodo, TiposFS
  <2> QED BY <2>1, MinimoDe DEF CrearInodo
<1>2. [InodoVacio EXCEPT !.nombre = n] = [nombre |-> n, tamanyo |-> 0, bloqueDirecto |-> 0]
  BY DEF InodoVacio
<1>3. [nombre |-> n, tamanyo |-> 0, bloqueDirecto |-> 0] \in InodosBien
  BY DEF InodosBien, RegistrosInodo
<1>4. inodos' = [inodos EXCEPT ![i] = [nombre |-> n, tamanyo |-> 0, bloqueDirecto |-> 0]]
  BY <1>2 DEF CrearInodo
<1> QED BY <1>1, <1>3, <1>4 DEF CrearInodo, TiposFS

LEMMA PasoAbrir ==
    ASSUME InvFS, NEW p \in Procesos, NEW n \in Nombres, Abrir(p, n)
    PROVE  InvFS'
<1> USE DEF InvFS
<1>1. PICK i \in Inodos, d \in Direcciones \ reservados :
         /\ \/ inodos[i] # NULL /\ UNCHANGED <<inodos, mapaInodos>>
            \/ CrearInodo(i, n)
         /\ reservados' = reservados \cup {d}
         /\ byteSiguiente' = [byteSiguiente EXCEPT ![d] = 0]
         /\ desc' = [desc EXCEPT ![p] = [inodo |-> i, datos |-> d]]
  BY DEF Abrir, ConNombre
<1>2. /\ p \in creados /\ llamada[p] = NULL /\ montado
      /\ UNCHANGED <<disco, peticion, espera, montado, mapaBloques, creados, llamada,
                     compartido, sinMapa, cruzado>>
  BY DEF Abrir, Libre, dispositivo
<1>3. /\ inodos' \in [Inodos -> InodosBien \cup {NULL}]
      /\ mapaInodos' = mapaInodos \cup {i} /\ inodos'[i] # NULL
      /\ \A j \in Inodos : inodos[j] # NULL => inodos'[j] = inodos[j]
      /\ \A j \in Inodos : inodos'[j] # NULL /\ inodos'[j] # inodos[j] =>
            j = i /\ inodos[i] = NULL /\ inodos'[i].tamanyo = 0
      /\ mapaInodos' = {j \in Inodos : inodos'[j] # NULL}
  <2>1. CASE inodos[i] # NULL /\ UNCHANGED <<inodos, mapaInodos>>
    BY <2>1 DEF TiposFS
  <2>2. CASE CrearInodo(i, n)
    BY <2>2, CrearInodoHace, NULLAparte DEF TiposFS
  <2> QED BY <1>1, <2>1, <2>2
<1>4. /\ desc'[p] = [inodo |-> i, datos |-> d] /\ desc'[p] \in Descriptores
      /\ \A r \in Procesos \ {p} : desc'[r] = desc[r]
      /\ desc' \in [Procesos -> Descriptores \cup {NULL}]
  BY <1>1 DEF TiposFS, Descriptores
<1>5. /\ byteSiguiente' \in [Direcciones -> Int \cup {NULL}] /\ byteSiguiente'[d] = 0
      /\ \A e \in Direcciones \ {d} : byteSiguiente'[e] = byteSiguiente[e]
  BY <1>1 DEF TiposFS
<1>6. \A r \in Procesos : desc[r] # NULL =>
         /\ desc[r].inodo \in Inodos /\ inodos[desc[r].inodo] # NULL
         /\ desc[r].datos \in Direcciones /\ (~compartido => desc[r].datos # d)
  BY <1>1, NULLAparte DEF TiposFS, DescriptoresBien, Propios, Descriptores
<1>7. TiposFS'
  BY <1>2, <1>3, <1>4, <1>5 DEF TiposFS, ConValor
<1>8. Colas' /\ Desmontado'
  BY <1>2 DEF Colas, Desmontado
<1>9. DescriptoresBien'
  <2>1. desc'[p].inodo = i /\ desc'[p].datos = d
    BY <1>4
  <2>2. \A r \in Procesos \ {p} : desc[r] # NULL =>
           byteSiguiente'[desc[r].datos] \in Int
    BY <1>5, <1>6 DEF DescriptoresBien
  <2> QED BY <1>2, <1>3, <1>4, <1>5, <2>1, <2>2 DEF DescriptoresBien
<1>10. \A r \in Procesos : EnFichero(r) => r # p /\ desc[r] # NULL
  BY <1>2 DEF EnFichero, LlamadasBien
<1>11. \A r \in Procesos : /\ EnFichero(r)' <=> EnFichero(r)
                           /\ \A f : En(r, f)' <=> En(r, f)
  BY <1>2 DEF EnFichero, En
<1>12. \A r \in Procesos : EnFichero(r) =>
          /\ desc'[r] = desc[r] /\ Inodo(r)' = Inodo(r)
          /\ ~compartido => Siguiente(r)' = Siguiente(r)
  BY <1>3, <1>4, <1>5, <1>6, <1>10 DEF Inodo, Siguiente
<1>13. LlamadasBien'
  <2>1. \A r \in Procesos : (En(r, "leer") \/ En(r, "modificar") \/ En(r, "grabar")) => EnFichero(r)
    BY DEF En, EnFichero
  <2> QED BY <1>2, <1>10, <1>11, <1>12, <2>1 DEF LlamadasBien
<1>14. \A j \in Inodos : EscribenInodo(j)' = EscribenInodo(j) /\ EnDisco(j)' = EnDisco(j)
  BY <1>2 DEF EscribenInodo, EnDisco
<1>15. Caben'
  <2>1. ~compartido => \A r \in Procesos : EnFichero(r) => (Desborda(r)' <=> Desborda(r))
    BY <1>2, <1>12 DEF Desborda
  <2>2. ~compartido => \A j \in Inodos : inodos'[j] # NULL => inodos'[j].tamanyo <= FS_BLOCK_SIZE
    BY <1>3, Disposicion DEF Caben
  <2> QED BY <1>2, <1>11, <1>12, <1>14, <2>1, <2>2 DEF Caben
<1>16. \A j \in Inodos : Escribiendo(j)' = Escribiendo(j)
  <2>1. \A j \in Inodos : \A r \in Escribiendo(j) : r \in Procesos /\ EnFichero(r)
    BY DEF Escribiendo, EnFichero, TiposFS
  <2>2. \A j \in Inodos : \A r \in Escribiendo(j)' : r \in Procesos /\ EnFichero(r)
    BY <1>2 DEF Escribiendo, EnFichero, TiposFS
  <2> QED BY <1>2, <1>12, <2>1, <2>2 DEF Escribiendo
<1>17. \A j \in Inodos : Escribiendo(j) # {} => inodos[j] # NULL
  BY <1>6, <1>10 DEF Escribiendo, EnFichero, TiposFS
<1>18. \A j \in Inodos : Suyos(j)' \subseteq Suyos(j)
  <2>1. \A j \in Inodos : DeMemoria(j)' \subseteq DeMemoria(j)
    <3>1. ASSUME NEW j \in Inodos, NEW b \in DeMemoria(j)' PROVE b \in DeMemoria(j)
      <4>1. /\ b \in Datos /\ inodos'[j] # NULL /\ b = inodos'[j].bloqueDirecto
            /\ inodos'[j].tamanyo > 0 \/ Escribiendo(j) # {}
        BY <1>16, <3>1 DEF DeMemoria
      <4>2. inodos'[j] = inodos[j]
        <5>1. CASE Escribiendo(j) # {}
          BY <1>3, <1>17, <5>1
        <5>2. CASE inodos'[j].tamanyo > 0
          BY <1>3, <4>1, <5>2
        <5> QED BY <4>1, <5>1, <5>2
      <4> QED BY <4>1, <4>2 DEF DeMemoria
    <3> QED BY <3>1
  <2>2. \A j \in Inodos : DeLlamadas(j)' = DeLlamadas(j) /\ DePeticiones(j)' = DePeticiones(j)
                          /\ DeDisco(j)' = DeDisco(j)
    BY <1>2, <1>14, <1>16 DEF DeLlamadas, DePeticiones, DeDisco, En
  <2> QED BY <2>1, <2>2 DEF Suyos
<1>19. Separados'
  BY <1>2, <1>18, SeparadosSigue
<1>20. MapaAntes'
  <2>1. \A j \in Inodos : DePeticiones(j)' = DePeticiones(j)
    BY <1>2, <1>14 DEF DePeticiones
  <2>2. \A r \in Procesos : (EscribeMapa(r)' <=> EscribeMapa(r))
                            /\ (PasadoElMapa(r)' <=> PasadoElMapa(r))
    BY <1>2 DEF EscribeMapa, PasadoElMapa, En
  <2> QED BY <1>2, <2>1, <2>2, MapaAntesSigue
<1>21. Propios'
  <2>1. desc'[p].datos = d /\ d \in reservados'
    BY <1>1, <1>4
  <2> QED BY <1>1, <1>2, <1>4, <1>5, <1>6, <2>1 DEF Propios
<1> QED BY <1>7, <1>8, <1>9, <1>13, <1>15, <1>19, <1>20, <1>21

LEMMA PasoLiberar ==
    ASSUME InvFS, NEW p \in Procesos, Libre(p), desc[p] # NULL, Liberar(p)
    PROVE  InvFS'
<1> USE DEF InvFS
<1>x. PICK x \in IF Comparten(p) = {} THEN {NULL} ELSE Basura :
         byteSiguiente' = [byteSiguiente EXCEPT ![desc[p].datos] = x]
  BY DEF Liberar
<1>1. /\ p \in creados /\ llamada[p] = NULL /\ desc[p] # NULL
      /\ reservados' = reservados \ {desc[p].datos}
      /\ desc' = [desc EXCEPT ![p] = NULL]
      /\ compartido' = (compartido \/ Comparten(p) # {})
      /\ UNCHANGED <<disco, peticion, espera, montado, inodos, mapaInodos, mapaBloques, creados,
                     llamada, sinMapa, cruzado>>
  BY DEF Liberar, Libre, dispositivo, volumen
<1>y. /\ x \in Int \cup {NULL} /\ (Comparten(p) # {} => x \in Int)
      /\ compartido' \in BOOLEAN /\ (compartido => compartido')
      /\ ~compartido' => Comparten(p) = {}
  BY <1>x, <1>1, DiscoFSAssumption
<1>2. montado
  BY <1>1 DEF Desmontado
<1>3. /\ desc'[p] = NULL /\ \A r \in Procesos \ {p} : desc'[r] = desc[r]
      /\ desc' \in [Procesos -> Descriptores \cup {NULL}]
      /\ byteSiguiente' \in [Direcciones -> Int \cup {NULL}]
      /\ byteSiguiente'[desc[p].datos] = x
      /\ \A e \in Direcciones \ {desc[p].datos} : byteSiguiente'[e] = byteSiguiente[e]
  BY <1>x, <1>y, <1>1 DEF TiposFS, Descriptores
<1>4. \A r \in Procesos \ {p} : desc[r] # NULL =>
         desc[r].datos \in Direcciones /\ (desc[r].datos = desc[p].datos => Comparten(p) # {})
  BY <1>1 DEF Comparten, DescriptoresBien, TiposFS, Descriptores
<1>5. TiposFS'
  BY <1>y, <1>1, <1>3 DEF TiposFS, ConValor
<1>6. Colas' /\ Desmontado'
  BY <1>1, <1>2 DEF Colas, Desmontado
<1>7. DescriptoresBien'
  BY <1>y, <1>1, <1>3, <1>4 DEF DescriptoresBien
<1>8. \A r \in Procesos : EnFichero(r) => r # p /\ desc[r] # NULL
  BY <1>1 DEF EnFichero, LlamadasBien
<1>9. \A r \in Procesos : /\ EnFichero(r)' <=> EnFichero(r)
                          /\ \A f : En(r, f)' <=> En(r, f)
  BY <1>1 DEF EnFichero, En
<1>10. \A r \in Procesos : EnFichero(r) =>
          /\ desc'[r] = desc[r] /\ Inodo(r)' = Inodo(r)
          /\ ~compartido' => Siguiente(r)' = Siguiente(r)
  BY <1>y, <1>1, <1>3, <1>4, <1>8 DEF Inodo, Siguiente
<1>11. LlamadasBien'
  <2>1. \A r \in Procesos : (En(r, "leer") \/ En(r, "modificar") \/ En(r, "grabar")) => EnFichero(r)
    BY DEF En, EnFichero
  <2> QED BY <1>1, <1>8, <1>9, <1>10, <2>1 DEF LlamadasBien
<1>12. \A j \in Inodos : EscribenInodo(j)' = EscribenInodo(j) /\ EnDisco(j)' = EnDisco(j)
  BY <1>1 DEF EscribenInodo, EnDisco
<1>13. Caben'
  <2>1. ~compartido' => \A r \in Procesos : EnFichero(r) => (Desborda(r)' <=> Desborda(r))
    BY <1>1, <1>10 DEF Desborda
  <2> QED BY <1>y, <1>1, <1>9, <1>10, <1>12, <2>1 DEF Caben
<1>14. \A j \in Inodos : Escribiendo(j)' = Escribiendo(j)
  <2>1. \A r \in creados : llamada[r] # NULL => desc'[r] = desc[r]
    BY <1>1, <1>3 DEF TiposFS
  <2> QED BY <1>1, <2>1 DEF Escribiendo
<1>15. \A j \in Inodos : Suyos(j)' = Suyos(j)
  BY <1>1, <1>12, <1>14 DEF Suyos, DeMemoria, DeLlamadas, DePeticiones, DeDisco, En
<1>16. Separados'
  BY <1>1, <1>15, SeparadosSigue
<1>17. MapaAntes'
  <2>1. \A j \in Inodos : DePeticiones(j)' = DePeticiones(j)
    BY <1>1, <1>12 DEF DePeticiones
  <2>2. \A r \in Procesos : (EscribeMapa(r)' <=> EscribeMapa(r))
                            /\ (PasadoElMapa(r)' <=> PasadoElMapa(r))
    BY <1>1 DEF EscribeMapa, PasadoElMapa, En
  <2> QED BY <1>1, <1>2, <2>1, <2>2, MapaAntesSigue
<1>18. Propios'
  BY <1>y, <1>1, <1>3, <1>4 DEF Propios
<1> QED BY <1>5, <1>6, <1>7, <1>11, <1>13, <1>16, <1>17, <1>18

-----------------------------------------------------------------------------
(* Reading and writing                                                     *)

LEMMA RecortarCabe ==
    ASSUME NEW n \in Nat \ {0}, NEW s \in Int, NEW fin \in Nat, s < fin, fin <= FS_BLOCK_SIZE
    PROVE  Recortar(n, s, fin) \in Nat \ {0} /\ s + Recortar(n, s, fin) <= FS_BLOCK_SIZE
BY Disposicion DEF Recortar

(* A process with a descriptor.                                            *)
LEMMA ConDescriptor ==
    ASSUME TiposFS, DescriptoresBien, NEW p \in Procesos, desc[p] # NULL
    PROVE  /\ desc[p].inodo \in Inodos /\ desc[p].datos \in Direcciones
           /\ Inodo(p) \in InodosBien /\ Inodo(p).tamanyo \in Nat
           /\ Inodo(p).tamanyo > 0 => Inodo(p).bloqueDirecto \in Datos
           /\ Siguiente(p) \in Int
<1>1. desc[p] \in Descriptores
  BY DEF TiposFS
<1>2. desc[p].inodo \in Inodos /\ desc[p].datos \in Direcciones
  BY <1>1 DEF Descriptores
<1>3. Inodo(p) \in InodosBien
  BY <1>2 DEF TiposFS, DescriptoresBien, Inodo
<1> QED BY <1>2, <1>3 DEF Siguiente, DescriptoresBien, InodosBien, RegistrosInodo

(* A call on a file begins: no other uses the descriptor, or the history   *)
(* says so.                                                                *)
LEMMA EmpezarFichero ==
    ASSUME InvFS, NEW p \in Procesos, Libre(p), desc[p] # NULL, UsarDescriptor(p),
           NEW c \in Llamadas, llamada' = [llamada EXCEPT ![p] = c],
           c.fase \in {"leer", "modificar"}, Siguiente(p) + c.n <= FS_BLOCK_SIZE,
           desc' = desc, byteSiguiente' = byteSiguiente
    PROVE  /\ compartido' \in BOOLEAN /\ (compartido => compartido')
           /\ ~compartido' =>
                /\ \A q \in Procesos : EnFichero(q)' => ~Desborda(q)'
                /\ \A q, r \in Procesos : EnFichero(q)' /\ EnFichero(r)' /\ q # r =>
                      desc'[q].datos # desc'[r].datos
<1>1. /\ llamada'[p] = c /\ \A q \in Procesos \ {p} : llamada'[q] = llamada[q]
  BY DEF InvFS, TiposFS
<1>2. compartido' \in BOOLEAN /\ (compartido => compartido')
  BY DEF UsarDescriptor
<1>3. ASSUME ~compartido', NEW q \in Procesos, EnFichero(q)', q # p
      PROVE  EnFichero(q) /\ desc[q].datos # desc[p].datos
  <2>1. EnFichero(q)
    BY <1>1, <1>3 DEF EnFichero
  <2>2. q \in creados \ {p} /\ desc[q] # NULL /\ llamada[q] # NULL
    BY <1>3, <2>1 DEF InvFS, LlamadasBien, EnFichero
  <2>3. q \notin Comparten(p)
    BY <1>3, <2>2 DEF UsarDescriptor
  <2> QED BY <2>1, <2>2, <2>3 DEF Comparten
<1>4. ASSUME ~compartido', NEW q \in Procesos, EnFichero(q)' PROVE ~Desborda(q)'
  <2>1. CASE q = p
    <3>1. Siguiente(p)' = Siguiente(p) /\ Siguiente(p) \in Nat
      BY <1>2, <1>4 DEF InvFS, Propios, Siguiente
    <3>2. c.n \in Nat \ {0}
      BY TiposLlamada
    <3> QED BY <1>1, <2>1, <3>1, <3>2, Disposicion DEF Desborda
  <2>2. CASE q # p
    <3>1. EnFichero(q) /\ ~compartido
      BY <1>2, <1>3, <1>4, <2>2
    <3>2. ~Desborda(q)
      BY <3>1 DEF InvFS, Caben
    <3> QED BY <1>1, <2>2, <3>2 DEF Desborda, Siguiente
  <2> QED BY <2>1, <2>2
<1>5. ASSUME ~compartido', NEW q \in Procesos, NEW r \in Procesos,
             EnFichero(q)', EnFichero(r)', q # r
      PROVE  desc'[q].datos # desc'[r].datos
  <2>1. CASE q = p
    BY <1>3, <1>5, <2>1
  <2>2. CASE r = p
    BY <1>3, <1>5, <2>2
  <2>3. CASE q # p /\ r # p
    <3>1. EnFichero(q) /\ EnFichero(r) /\ ~compartido
      BY <1>2, <1>3, <1>5, <2>3
    <3> QED BY <1>5, <3>1 DEF InvFS, Caben
  <2> QED BY <2>1, <2>2, <2>3
<1> QED BY <1>2, <1>4, <1>5

LEMMA PasoLeerFichero ==
    ASSUME InvFS, NEW p \in Procesos, NEW n \in Tamanyos, LeerFichero(p, n)
    PROVE  InvFS'
<1> USE DEF InvFS
<1> DEFINE b == Inodo(p).bloqueDirecto
           k == Recortar(n, Siguiente(p), Inodo(p).tamanyo)
           c == [fase |-> "leer", n |-> k]
           r == [op |-> "leer", bloque |-> b, valor |-> NULL, hecha |-> FALSE]
<1>1. /\ p \in creados /\ llamada[p] = NULL /\ desc[p] # NULL /\ Libre(p)
      /\ Inodo(p).tamanyo <= FS_BLOCK_SIZE /\ Siguiente(p) < Inodo(p).tamanyo
      /\ Inodo(p).tamanyo > 0
      /\ UsarDescriptor(p)
      /\ UNCHANGED <<disco, montado, inodos, mapaInodos, mapaBloques, creados, desc, reservados,
                     byteSiguiente, sinMapa, cruzado>>
  BY DEF LeerFichero, MapearBloque, Libre, volumen, Dev!Pedir
<1>2. /\ Inodo(p).tamanyo \in Nat /\ Siguiente(p) \in Int /\ Inodo(p).tamanyo > 0
      /\ b \in Datos /\ b \in Bloques
  <2>1. Inodo(p).tamanyo \in Nat /\ Siguiente(p) \in Int
    BY <1>1, ConDescriptor
  <2>2. Inodo(p).tamanyo > 0
    BY <1>1
  <2>3. b \in Datos
    BY <1>1, <2>2, ConDescriptor
  <2> QED BY <2>1, <2>2, <2>3, Disposicion
<1>3. k \in Nat \ {0} /\ Siguiente(p) + k <= FS_BLOCK_SIZE
  BY <1>1, <1>2, RecortarCabe, DiscoFSAssumption
<1>4. llamada' = [llamada EXCEPT ![p] = c]
  BY DEF LeerFichero
<1>5. /\ peticion[p] = NULL /\ peticion' = [peticion EXCEPT ![p] = r]
      /\ espera' = [espera EXCEPT ![b] = Append(espera[b], p)]
  BY <1>2 DEF LeerFichero, MapearBloque, Dev!Pedir
<1>6. c \in Llamadas /\ c.fase = "leer" /\ c.n = k
  BY <1>3 DEF Llamadas
<1>7. r \in Peticiones /\ r.op = "leer" /\ r.bloque = b /\ r.hecha = FALSE
  BY <1>2 DEF Peticiones
<1>8. montado
  BY <1>1 DEF Desmontado
<1> HIDE DEF b, k, c, r
<1>9. /\ llamada'[p] = c /\ \A q \in Procesos \ {p} : llamada'[q] = llamada[q]
      /\ peticion'[p] = r /\ \A q \in Procesos \ {p} : peticion'[q] = peticion[q]
      /\ llamada' \in [Procesos -> Llamadas \cup {NULL}]
      /\ peticion' \in [Procesos -> Peticiones \cup {NULL}]
  BY <1>4, <1>5, <1>6, <1>7 DEF TiposFS
<1>10. c # NULL /\ r # NULL
  BY <1>6, <1>7, NULLAparte
<1>11. /\ compartido' \in BOOLEAN /\ (compartido => compartido')
       /\ ~compartido' =>
            /\ \A q \in Procesos : EnFichero(q)' => ~Desborda(q)'
            /\ \A q, s \in Procesos : EnFichero(q)' /\ EnFichero(s)' /\ q # s =>
                  desc'[q].datos # desc'[s].datos
  BY <1>1, <1>3, <1>4, <1>6, EmpezarFichero
<1>12. /\ \A i \in Inodos : EscribenInodo(i)' = EscribenInodo(i) \ {p}
       /\ \A i \in Inodos : DePeticiones(i)' \subseteq DePeticiones(i)
       /\ \A q \in Procesos : EscribeMapa(q)' => q # p /\ EscribeMapa(q)
  BY <1>5, <1>7, OtraPeticion
<1>13. TiposFS'
  BY <1>1, <1>7, <1>9, <1>11 DEF TiposFS, ConValor
<1>14. Colas'
  BY <1>2, <1>5, <1>7, PedirCola
<1>15. Desmontado' /\ DescriptoresBien'
  BY <1>1, <1>8 DEF Desmontado, DescriptoresBien
<1>16. LlamadasBien'
  <2>1. ASSUME NEW q \in Procesos \ {p}
        PROVE  /\ EnFichero(q)' <=> EnFichero(q)
               /\ \A f : En(q, f)' <=> En(q, f)
    BY <1>9 DEF EnFichero, En
  <2>2. En(p, "leer")' /\ EnFichero(p)' /\ \A f : En(p, f)' => f = "leer"
    BY <1>6, <1>9, <1>10 DEF EnFichero, En
  <2> QED BY <1>1, <1>2, <1>7, <1>9, <1>10, <2>1, <2>2 DEF LlamadasBien, Inodo
<1>17. Caben'
  <2>1. \A i \in Inodos : EnDisco(i)' = EnDisco(i)
    BY <1>1 DEF EnDisco
  <2>2. ASSUME ~compartido', NEW i \in Inodos, NEW q \in EscribenInodo(i)'
        PROVE  peticion'[q].valor.tamanyo <= FS_BLOCK_SIZE
    <3>1. q \in EscribenInodo(i) /\ q \in Procesos \ {p}
      BY <1>12, <2>2 DEF EscribenInodo
    <3> QED BY <1>9, <1>11, <2>2, <3>1 DEF Caben
  <2> QED BY <1>1, <1>11, <2>1, <2>2 DEF Caben
<1>18. \A i \in Inodos : Escribiendo(i)' = Escribiendo(i)
  BY <1>1, <1>6, <1>9, <1>10 DEF Escribiendo, TiposFS
<1>19. \A i \in Inodos : Suyos(i)' \subseteq Suyos(i)
  <2>1. \A i \in Inodos : DeLlamadas(i)' \subseteq DeLlamadas(i)
    <3>1. \A i \in Inodos : p \notin Escribiendo(i) /\ Escribiendo(i) \subseteq Procesos
      BY <1>1 DEF Escribiendo, TiposFS
    <3> QED BY <1>9, <1>18, <3>1 DEF DeLlamadas, En
  <2>2. \A i \in Inodos : DeMemoria(i)' = DeMemoria(i) /\ DeDisco(i)' = DeDisco(i)
    BY <1>1, <1>18 DEF DeMemoria, DeDisco, EnDisco
  <2> QED BY <1>12, <2>1, <2>2 DEF Suyos
<1>20. Separados'
  BY <1>1, <1>19, SeparadosSigue
<1>21. MapaAntes'
  <2>1. \A q \in Procesos : PasadoElMapa(q)' => PasadoElMapa(q)
    BY <1>6, <1>9 DEF PasadoElMapa, En
  <2> QED BY <1>1, <1>8, <1>9, <1>12, <2>1, MapaAntesSigue
<1>p. Propios'
  BY <1>1, <1>11, PropiosSigue
<1> QED BY <1>p, <1>13, <1>14, <1>15, <1>16, <1>17, <1>20, <1>21

(* The end of a request of p: what is left of it.                          *)
LEMMA TerminarHace ==
    ASSUME TiposFS, Colas, NEW p \in Procesos, Dev!Terminar(p),
           llamada' = [llamada EXCEPT ![p] = NULL]
    PROVE  /\ peticion[p] # NULL /\ peticion[p].hecha
           /\ peticion' = [peticion EXCEPT ![p] = NULL]
           /\ UNCHANGED <<disco, espera>>
           /\ peticion' \in [Procesos -> Peticiones \cup {NULL}]
           /\ llamada' \in [Procesos -> Llamadas \cup {NULL}]
           /\ peticion'[p] = NULL /\ llamada'[p] = NULL
           /\ \A q \in Procesos \ {p} : peticion'[q] = peticion[q] /\ llamada'[q] = llamada[q]
           /\ Colas'
           /\ \A i \in Inodos : EscribenInodo(i)' = EscribenInodo(i) \ {p}
           /\ \A i \in Inodos : DePeticiones(i)' \subseteq DePeticiones(i)
           /\ \A q \in Procesos : EscribeMapa(q)' => q # p /\ EscribeMapa(q)
           /\ \A q \in Procesos : PasadoElMapa(q)' => q # p /\ PasadoElMapa(q)
           /\ \A q \in Procesos : EnFichero(q)' <=> q # p /\ EnFichero(q)
           /\ \A q \in Procesos : \A f : En(q, f)' <=> q # p /\ En(q, f)
<1>1. /\ peticion[p] # NULL /\ peticion[p].hecha
      /\ peticion' = [peticion EXCEPT ![p] = NULL]
      /\ UNCHANGED <<disco, espera>>
  BY DEF Dev!Terminar
<1>2. /\ peticion' \in [Procesos -> Peticiones \cup {NULL}]
      /\ llamada' \in [Procesos -> Llamadas \cup {NULL}]
      /\ peticion'[p] = NULL /\ llamada'[p] = NULL
      /\ \A q \in Procesos \ {p} : peticion'[q] = peticion[q] /\ llamada'[q] = llamada[q]
  BY <1>1 DEF TiposFS
<1>3. Colas'
  BY <1>1, TerminarCola
<1>4. /\ \A i \in Inodos : EscribenInodo(i)' = EscribenInodo(i) \ {p}
      /\ \A i \in Inodos : DePeticiones(i)' \subseteq DePeticiones(i)
      /\ \A q \in Procesos : EscribeMapa(q)' => q # p /\ EscribeMapa(q)
  BY <1>1, OtraPeticion
<1>5. /\ \A q \in Procesos : EnFichero(q)' <=> q # p /\ EnFichero(q)
      /\ \A q \in Procesos : \A f : En(q, f)' <=> q # p /\ En(q, f)
  BY <1>2 DEF EnFichero, En
<1>6. \A q \in Procesos : PasadoElMapa(q)' => q # p /\ PasadoElMapa(q)
  BY <1>2, <1>5 DEF PasadoElMapa
<1> QED BY <1>1, <1>2, <1>3, <1>4, <1>5, <1>6

LEMMA PasoFinLeer ==
    ASSUME InvFS, NEW p \in Procesos, FinLeer(p)
    PROVE  InvFS'
<1> USE DEF InvFS
<1>1. /\ llamada[p] # NULL /\ llamada[p].fase = "leer" /\ EnFichero(p)
      /\ Dev!Terminar(p)
      /\ byteSiguiente' = [byteSiguiente EXCEPT ![desc[p].datos] = @ + llamada[p].n]
      /\ llamada' = [llamada EXCEPT ![p] = NULL]
      /\ UNCHANGED <<montado, inodos, mapaInodos, mapaBloques, creados, desc, reservados,
                     compartido, sinMapa, cruzado>>
  BY DEF FinLeer, volumen, historias, EnFichero
<1>2. /\ peticion[p] # NULL /\ peticion[p].hecha
      /\ UNCHANGED <<disco, espera>>
      /\ peticion' \in [Procesos -> Peticiones \cup {NULL}]
      /\ llamada' \in [Procesos -> Llamadas \cup {NULL}]
      /\ peticion'[p] = NULL /\ llamada'[p] = NULL
      /\ \A q \in Procesos \ {p} : peticion'[q] = peticion[q] /\ llamada'[q] = llamada[q]
      /\ Colas'
  BY <1>1, TerminarHace
<1>3. /\ \A i \in Inodos : EscribenInodo(i)' = EscribenInodo(i) \ {p}
      /\ \A i \in Inodos : DePeticiones(i)' \subseteq DePeticiones(i)
      /\ \A q \in Procesos : EscribeMapa(q)' => q # p /\ EscribeMapa(q)
      /\ \A q \in Procesos : PasadoElMapa(q)' => q # p /\ PasadoElMapa(q)
      /\ \A q \in Procesos : EnFichero(q)' <=> q # p /\ EnFichero(q)
      /\ \A q \in Procesos : \A f : En(q, f)' <=> q # p /\ En(q, f)
  BY <1>1, TerminarHace
<1>4. desc[p] # NULL /\ desc[p].datos \in Direcciones /\ Siguiente(p) \in Int
  BY <1>1, ConDescriptor DEF LlamadasBien
<1>5. llamada[p].n \in Nat \ {0}
  BY <1>1, TiposLlamada DEF TiposFS
<1>6. /\ byteSiguiente' \in [Direcciones -> Int \cup {NULL}]
      /\ byteSiguiente'[desc[p].datos] = byteSiguiente[desc[p].datos] + llamada[p].n
      /\ byteSiguiente'[desc[p].datos] \in Int
      /\ \A e \in Direcciones \ {desc[p].datos} : byteSiguiente'[e] = byteSiguiente[e]
  <2>1. byteSiguiente[desc[p].datos] + llamada[p].n \in Int
    BY <1>4, <1>5 DEF Siguiente
  <2> QED BY <1>1, <1>4, <2>1 DEF TiposFS
<1>7. montado
  BY <1>1 DEF Desmontado
<1>8. TiposFS'
  BY <1>1, <1>2, <1>6 DEF TiposFS, ConValor
<1>9. Desmontado'
  BY <1>1, <1>7 DEF Desmontado
<1>10. DescriptoresBien'
  <2>1. \A q \in Procesos : desc[q] # NULL => desc[q].datos \in Direcciones
    BY ConDescriptor
  <2> QED BY <1>1, <1>6, <2>1 DEF DescriptoresBien
<1>11. LlamadasBien'
  BY <1>1, <1>2, <1>3 DEF LlamadasBien, Inodo
<1>12. Caben'
  <2>1. \A i \in Inodos : EnDisco(i)' = EnDisco(i)
    BY <1>2 DEF EnDisco
  <2>2. \A i \in Inodos : \A q \in EscribenInodo(i)' :
           q \in EscribenInodo(i) /\ peticion'[q] = peticion[q]
    BY <1>2, <1>3 DEF EscribenInodo
  <2>3. ASSUME ~compartido', NEW q \in Procesos, EnFichero(q)' PROVE ~Desborda(q)'
    <3>1. EnFichero(q) /\ q # p /\ ~compartido
      BY <1>1, <1>3, <2>3
    <3>2. ~Desborda(q) /\ desc[q].datos # desc[p].datos /\ desc[q].datos \in Direcciones
      BY <1>1, <3>1, ConDescriptor DEF Caben, LlamadasBien
    <3> QED BY <1>1, <1>2, <1>6, <3>1, <3>2 DEF Desborda, Siguiente
  <2> QED BY <1>1, <1>3, <2>1, <2>2, <2>3 DEF Caben
<1>13. \A i \in Inodos : Escribiendo(i)' = Escribiendo(i) /\ p \notin Escribiendo(i)
  BY <1>1, <1>2 DEF Escribiendo, TiposFS
<1>14. \A i \in Inodos : Suyos(i)' \subseteq Suyos(i)
  <2>1. \A i \in Inodos : DeLlamadas(i)' \subseteq DeLlamadas(i)
    <3>1. \A i \in Inodos : Escribiendo(i) \subseteq Procesos
      BY DEF Escribiendo, TiposFS
    <3> QED BY <1>2, <1>3, <1>13, <3>1 DEF DeLlamadas
  <2>2. \A i \in Inodos : DeMemoria(i)' = DeMemoria(i) /\ DeDisco(i)' = DeDisco(i)
    BY <1>1, <1>2, <1>13 DEF DeMemoria, DeDisco, EnDisco
  <2> QED BY <1>3, <2>1, <2>2 DEF Suyos
<1>15. Separados'
  BY <1>1, <1>14, SeparadosSigue
<1>16. MapaAntes'
  BY <1>1, <1>2, <1>3, <1>7, MapaAntesSigue
<1>p. Propios'
  BY <1>1, <1>4, <1>5, PropiosMueve
<1> QED BY <1>p, <1>2, <1>8, <1>9, <1>10, <1>11, <1>12, <1>15, <1>16

(* Only a call that synchronises writes what is not data.                  *)
LEMMA QuienSincroniza ==
    ASSUME TiposFS, LlamadasBien, NEW q \in Procesos,
           peticion[q] # NULL, peticion[q].op = "escribir", peticion[q].bloque \notin Datos
    PROVE  q \in creados /\ En(q, "sincronizar") /\ llamada[q].bloque = peticion[q].bloque
<1>1. llamada[q] # NULL /\ llamada[q] \in Llamadas
  BY DEF TiposFS, LlamadasBien
<1>2. llamada[q].fase \in {"leer", "modificar", "grabar", "sincronizar"}
  BY <1>1, TiposLlamada
<1>3. ~En(q, "leer") /\ ~En(q, "modificar") /\ ~En(q, "grabar")
  BY DEF LlamadasBien
<1>4. En(q, "sincronizar")
  BY <1>1, <1>2, <1>3 DEF En
<1> QED BY <1>1, <1>4 DEF LlamadasBien

(* The block of the file: the one it has, or a free one.                   *)
LEMMA BloqueParaEscribir ==
    ASSUME InvFS, NEW p \in Procesos, desc[p] # NULL, NEW b \in Datos,
           IF MapearBloque(p) # NULL
           THEN b = MapearBloque(p) /\ UNCHANGED <<mapaBloques, inodos, sinMapa>>
           ELSE AsignarNuevoBloque(p, b)
    PROVE  /\ inodos' \in [Inodos -> InodosBien \cup {NULL}]
           /\ inodos'[desc[p].inodo] \in InodosBien
           /\ inodos'[desc[p].inodo].tamanyo = inodos[desc[p].inodo].tamanyo
           /\ inodos'[desc[p].inodo].nombre = inodos[desc[p].inodo].nombre
           /\ inodos'[desc[p].inodo].bloqueDirecto = b
           /\ \A j \in Inodos \ {desc[p].inodo} : inodos'[j] = inodos[j]
           /\ \/ mapaBloques' = mapaBloques /\ sinMapa' = sinMapa /\ b \in DeMemoria(desc[p].inodo)
              \/ /\ b \notin mapaBloques /\ mapaBloques' = mapaBloques \cup {b}
                 /\ sinMapa' = IF \E q \in creados : En(q, "sincronizar")
                               THEN sinMapa \cup {b} ELSE sinMapa
<1> USE DEF InvFS
<1> DEFINE i == desc[p].inodo
<1>1. /\ i \in Inodos /\ Inodo(p) = inodos[i] /\ inodos[i] \in InodosBien
      /\ inodos \in [Inodos -> InodosBien \cup {NULL}]
      /\ inodos[i].tamanyo \in Nat /\ inodos[i].nombre \in Nombres \cup {NULL}
      /\ inodos[i].tamanyo > 0 => inodos[i].bloqueDirecto \in Datos
  BY ConDescriptor DEF Inodo, InodosBien, RegistrosInodo, TiposFS
<1>2. CASE inodos[i].tamanyo > 0
  <2>1. MapearBloque(p) = inodos[i].bloqueDirecto /\ MapearBloque(p) # NULL
    BY <1>1, <1>2, Disposicion, NULLAparte DEF MapearBloque
  <2>2. b = inodos[i].bloqueDirecto /\ UNCHANGED <<mapaBloques, inodos, sinMapa>>
    BY <2>1
  <2>3. b \in DeMemoria(i)
    BY <1>1, <1>2, <2>2, NULLAparte DEF DeMemoria
  <2> QED BY <1>1, <2>2, <2>3
<1>3. CASE ~(inodos[i].tamanyo > 0)
  <2>1. AsignarNuevoBloque(p, b)
    BY <1>1, <1>3 DEF MapearBloque
  <2>2. b \notin mapaBloques /\ mapaBloques' = mapaBloques \cup {b}
    <3>1. Datos \ mapaBloques # {} /\ Datos \ mapaBloques \in SUBSET Nat
      BY <2>1, Disposicion DEF AsignarNuevoBloque, ReservarBloque
    <3> QED BY <2>1, <3>1, MinimoDe DEF AsignarNuevoBloque, ReservarBloque
  <2>3. sinMapa' = IF \E q \in creados : En(q, "sincronizar") THEN sinMapa \cup {b} ELSE sinMapa
    BY <2>1 DEF AsignarNuevoBloque, En
  <2>4. inodos' = [inodos EXCEPT ![i].bloqueDirecto = b]
    BY <2>1 DEF AsignarNuevoBloque
  <2> HIDE DEF i
  <2>5. /\ inodos'[i] = [inodos[i] EXCEPT !.bloqueDirecto = b]
        /\ \A j \in Inodos \ {i} : inodos'[j] = inodos[j]
        /\ inodos' = [j \in Inodos |-> inodos'[j]]
    BY <1>1, <2>4
  <2>6. /\ inodos'[i].tamanyo = inodos[i].tamanyo /\ inodos'[i].bloqueDirecto = b
        /\ inodos'[i] \in InodosBien /\ inodos'[i].nombre = inodos[i].nombre
    BY <1>1, <2>5 DEF InodosBien, RegistrosInodo
  <2>7. inodos' \in [Inodos -> InodosBien \cup {NULL}]
    BY <1>1, <2>5, <2>6
  <2> QED BY <2>2, <2>3, <2>5, <2>6, <2>7 DEF i
<1> QED BY <1>2, <1>3

LEMMA PasoEscribirFichero ==
    ASSUME InvFS, NEW p \in Procesos, NEW n \in Tamanyos, EscribirFichero(p, n)
    PROVE  InvFS'
<1> USE DEF InvFS
<1>1. /\ p \in creados /\ llamada[p] = NULL /\ desc[p] # NULL /\ Libre(p)
      /\ Siguiente(p) < FS_BLOCK_SIZE
      /\ UsarDescriptor(p)
      /\ UNCHANGED <<disco, montado, mapaInodos, creados, desc, reservados, byteSiguiente, cruzado>>
  BY DEF EscribirFichero, Libre, Dev!Pedir
<1>2. PICK b \in Datos :
         /\ IF MapearBloque(p) # NULL
            THEN b = MapearBloque(p) /\ UNCHANGED <<mapaBloques, inodos, sinMapa>>
            ELSE AsignarNuevoBloque(p, b)
         /\ Dev!Pedir(p, "leer", b, NULL)
         /\ llamada' = [llamada EXCEPT
                ![p] = [fase |-> "modificar", bloque |-> b,
                        n |-> Recortar(n, Siguiente(p), FS_BLOCK_SIZE)]]
  BY DEF EscribirFichero
<1>i. PICK i : i = desc[p].inodo
  OBVIOUS
<1> DEFINE k == Recortar(n, Siguiente(p), FS_BLOCK_SIZE)
           c == [fase |-> "modificar", bloque |-> b, n |-> k]
           r == [op |-> "leer", bloque |-> b, valor |-> NULL, hecha |-> FALSE]
<1>3. /\ inodos' \in [Inodos -> InodosBien \cup {NULL}]
      /\ inodos'[i] \in InodosBien
      /\ inodos'[i].tamanyo = inodos[i].tamanyo /\ inodos'[i].bloqueDirecto = b
      /\ \A j \in Inodos \ {i} : inodos'[j] = inodos[j]
      /\ \/ mapaBloques' = mapaBloques /\ sinMapa' = sinMapa /\ b \in DeMemoria(i)
         \/ /\ b \notin mapaBloques /\ mapaBloques' = mapaBloques \cup {b}
            /\ sinMapa' = IF \E q \in creados : En(q, "sincronizar")
                          THEN sinMapa \cup {b} ELSE sinMapa
  BY <1>1, <1>2, <1>i, BloqueParaEscribir
<1>4. i \in Inodos /\ inodos[i] # NULL /\ Siguiente(p) \in Int
  BY <1>1, <1>i, ConDescriptor, NULLAparte DEF Inodo
<1>5. k \in Nat \ {0} /\ Siguiente(p) + k <= FS_BLOCK_SIZE
  BY <1>1, <1>4, RecortarCabe, DiscoFSAssumption
<1>6. llamada' = [llamada EXCEPT ![p] = c]
  BY <1>2
<1>7. /\ peticion[p] = NULL /\ peticion' = [peticion EXCEPT ![p] = r]
      /\ espera' = [espera EXCEPT ![b] = Append(espera[b], p)]
  BY <1>2 DEF Dev!Pedir
<1>8. c \in Llamadas /\ c.fase = "modificar" /\ c.n = k /\ c.bloque = b
  BY <1>5 DEF Llamadas
<1>9. b \in Bloques /\ r \in Peticiones /\ r.op = "leer" /\ r.bloque = b /\ r.hecha = FALSE
  BY Disposicion DEF Peticiones
<1>10. montado
  BY <1>1 DEF Desmontado
<1> HIDE DEF k, c, r
<1>11. /\ llamada'[p] = c /\ \A q \in Procesos \ {p} : llamada'[q] = llamada[q]
       /\ peticion'[p] = r /\ \A q \in Procesos \ {p} : peticion'[q] = peticion[q]
       /\ llamada' \in [Procesos -> Llamadas \cup {NULL}]
       /\ peticion' \in [Procesos -> Peticiones \cup {NULL}]
  BY <1>6, <1>7, <1>8, <1>9 DEF TiposFS
<1>12. c # NULL /\ r # NULL
  BY <1>8, <1>9, NULLAparte
<1>13. /\ compartido' \in BOOLEAN /\ (compartido => compartido')
       /\ ~compartido' =>
            /\ \A q \in Procesos : EnFichero(q)' => ~Desborda(q)'
            /\ \A q, s \in Procesos : EnFichero(q)' /\ EnFichero(s)' /\ q # s =>
                  desc'[q].datos # desc'[s].datos
  BY <1>1, <1>5, <1>6, <1>8, EmpezarFichero
<1>14. /\ \A j \in Inodos : EscribenInodo(j)' = EscribenInodo(j) \ {p}
       /\ \A j \in Inodos : DePeticiones(j)' \subseteq DePeticiones(j)
       /\ \A q \in Procesos : EscribeMapa(q)' => q # p /\ EscribeMapa(q)
  BY <1>7, <1>9, OtraPeticion
<1>15. inodos'[i] # NULL
  BY <1>3, NULLAparte
<1>16. TiposFS'
  <2>1. mapaInodos' = {j \in Inodos : inodos'[j] # NULL}
    BY <1>1, <1>3, <1>4, <1>15 DEF TiposFS
  <2>2. mapaBloques' \subseteq Datos /\ sinMapa' \subseteq Datos
    BY <1>3 DEF TiposFS
  <2> QED BY <1>1, <1>3, <1>9, <1>11, <1>13, <2>1, <2>2 DEF TiposFS, ConValor
<1>17. Colas'
  BY <1>7, <1>9, PedirCola
<1>18. Desmontado' /\ DescriptoresBien'
  BY <1>1, <1>10 DEF Desmontado, DescriptoresBien
<1>19. LlamadasBien'
  <2>1. ASSUME NEW q \in Procesos \ {p}
        PROVE  /\ EnFichero(q)' <=> EnFichero(q)
               /\ \A f : En(q, f)' <=> En(q, f)
    BY <1>11 DEF EnFichero, En
  <2>2. En(p, "modificar")' /\ EnFichero(p)' /\ \A f : En(p, f)' => f = "modificar"
    BY <1>8, <1>11, <1>12 DEF EnFichero, En
  <2>3. Inodo(p)'.bloqueDirecto = b
    BY <1>1, <1>3, <1>i DEF Inodo
  <2>4. ASSUME NEW q \in Procesos, desc[q] # NULL, Inodo(q).bloqueDirecto \in Datos
        PROVE  Inodo(q)'.bloqueDirecto \in Datos
    <3>1. desc[q].inodo \in Inodos
      BY <2>4, ConDescriptor
    <3> QED BY <1>1, <1>3, <2>4, <3>1 DEF Inodo
  <2>5. \A q \in Procesos : En(q, "modificar") \/ En(q, "grabar") => EnFichero(q)
    BY DEF En, EnFichero
  <2> QED BY <1>1, <1>8, <1>9, <1>11, <1>12, <2>1, <2>2, <2>3, <2>4, <2>5 DEF LlamadasBien
<1>20. Caben'
  <2>1. \A j \in Inodos : EnDisco(j)' = EnDisco(j)
    BY <1>1 DEF EnDisco
  <2>2. ASSUME ~compartido', NEW j \in Inodos, NEW q \in EscribenInodo(j)'
        PROVE  peticion'[q].valor.tamanyo <= FS_BLOCK_SIZE
    <3>1. q \in EscribenInodo(j) /\ q \in Procesos \ {p}
      BY <1>14, <2>2 DEF EscribenInodo
    <3> QED BY <1>11, <1>13, <2>2, <3>1 DEF Caben
  <2>3. ~compartido' => \A j \in Inodos : inodos'[j] # NULL => inodos'[j].tamanyo <= FS_BLOCK_SIZE
    BY <1>3, <1>4, <1>13 DEF Caben
  <2> QED BY <1>1, <1>13, <2>1, <2>2, <2>3 DEF Caben
<1>21. /\ Escribiendo(i)' = Escribiendo(i) \cup {p}
       /\ \A j \in Inodos \ {i} : Escribiendo(j)' = Escribiendo(j)
       /\ \A j \in Inodos : p \notin Escribiendo(j) /\ Escribiendo(j) \subseteq Procesos
  BY <1>1, <1>8, <1>11, <1>12, <1>i DEF Escribiendo, TiposFS
<1>22. /\ Suyos(i)' \subseteq Suyos(i) \cup {b}
       /\ \A j \in Inodos \ {i} : Suyos(j)' \subseteq Suyos(j)
  <2>1. \A q \in Procesos \ {p} : (En(q, "modificar")' <=> En(q, "modificar"))
                                  /\ llamada'[q] = llamada[q]
    BY <1>11 DEF En
  <2>2. DeLlamadas(i)' \subseteq DeLlamadas(i) \cup {b}
    <3>1. ASSUME NEW x \in DeLlamadas(i)', x # b PROVE x \in DeLlamadas(i)
      <4>1. PICK q \in Escribiendo(i)' : En(q, "modificar")' /\ x = llamada'[q].bloque
        BY <3>1 DEF DeLlamadas
      <4>2. q # p
        BY <1>8, <1>11, <3>1, <4>1
      <4>3. q \in Escribiendo(i) /\ q \in Procesos \ {p}
        BY <1>4, <1>21, <4>1, <4>2
      <4> QED BY <2>1, <3>1, <4>1, <4>3 DEF DeLlamadas
    <3> QED BY <3>1
  <2>3. \A j \in Inodos \ {i} : DeLlamadas(j)' \subseteq DeLlamadas(j)
    BY <1>21, <2>1 DEF DeLlamadas
  <2>4. DeMemoria(i)' \subseteq {b}
    BY <1>3 DEF DeMemoria
  <2>5. \A j \in Inodos \ {i} : DeMemoria(j)' = DeMemoria(j)
    BY <1>3, <1>21 DEF DeMemoria
  <2>6. \A j \in Inodos : DeDisco(j)' = DeDisco(j)
    BY <1>1 DEF DeDisco, EnDisco
  <2> QED BY <1>4, <1>14, <2>2, <2>3, <2>4, <2>5, <2>6 DEF Suyos
<1>23. Separados'
  <2>1. CASE mapaBloques' = mapaBloques /\ b \in DeMemoria(i)
    <3>1. Suyos(i)' \subseteq Suyos(i)
      BY <1>22, <2>1 DEF Suyos
    <3> QED BY <1>1, <1>22, <2>1, <3>1, SeparadosSigue
  <2>2. CASE b \notin mapaBloques /\ mapaBloques' = mapaBloques \cup {b}
    BY <1>1, <1>4, <1>10, <1>22, <2>2, SeparadosConNuevo
  <2> QED BY <1>3, <2>1, <2>2
<1>24. MapaAntes'
  <2>1. \A q \in Procesos : PasadoElMapa(q)' => q # p /\ PasadoElMapa(q)
    BY <1>8, <1>11 DEF PasadoElMapa, En
  <2>2. \A q \in Procesos : PasadoElMapa(q) \/ EscribeMapa(q) => q \in creados /\ En(q, "sincronizar")
    <3>1. BloqueMapaDatos \notin Datos
      BY Disposicion DEF BloqueMapaDatos
    <3> QED BY <3>1, QuienSincroniza DEF PasadoElMapa, EscribeMapa, LlamadasBien, En
  <2>3. sinMapa \subseteq sinMapa'
    BY <1>3
  <2>4. ASSUME NEW q \in Procesos, PasadoElMapa(q) \/ EscribeMapa(q)
        PROVE  mapaBloques' \subseteq mapaBloques \cup sinMapa'
    <3>1. \E s \in creados : En(s, "sincronizar")
      BY <2>2, <2>4
    <3> QED BY <1>3, <3>1
  <2> QED BY <1>1, <1>10, <1>11, <1>14, <2>1, <2>3, <2>4, MapaAntesSigue
<1>p. Propios'
  BY <1>1, <1>13, PropiosSigue
<1> QED BY <1>p, <1>16, <1>17, <1>18, <1>19, <1>20, <1>23, <1>24

LEMMA PasoGrabarBloque ==
    ASSUME InvFS, NEW p \in Procesos, GrabarBloque(p)
    PROVE  InvFS'
<1> USE DEF InvFS
<1> DEFINE b == llamada[p].bloque
           v == Modificar(p, peticion[p].valor)
           c == [fase |-> "grabar", n |-> llamada[p].n]
           r == [op |-> "escribir", bloque |-> b, valor |-> v, hecha |-> FALSE]
<1>1. /\ llamada[p] # NULL /\ llamada[p].fase = "modificar" /\ peticion[p].hecha
      /\ peticion' = [peticion EXCEPT ![p] = r]
      /\ espera' = [espera EXCEPT ![b] = Append(espera[b], p)]
      /\ llamada' = [llamada EXCEPT ![p] = c]
      /\ UNCHANGED <<disco, montado, inodos, mapaInodos, mapaBloques, creados, desc, reservados,
                     byteSiguiente, compartido, sinMapa, cruzado>>
  BY DEF GrabarBloque, volumen
<1>2. llamada[p] \in Llamadas /\ llamada[p].n \in Nat \ {0} /\ b \in Datos /\ b \in Bloques
  BY <1>1, TiposLlamada, Disposicion DEF TiposFS
<1>3. /\ peticion[p] # NULL /\ peticion[p].bloque = b /\ desc[p] # NULL /\ p \in creados
      /\ Inodo(p).bloqueDirecto \in Datos /\ EnFichero(p)
  BY <1>1 DEF LlamadasBien, En, EnFichero
<1>4. v \in Contenidos
  <2>1. peticion[p].valor \in Contenidos
    BY <1>1, <1>2, <1>3, Valores DEF TiposFS, ConValor
  <2> QED BY <2>1 DEF Modificar, Poner, Contenidos
<1>5. c \in Llamadas /\ c.fase = "grabar" /\ c.n = llamada[p].n
  BY <1>2 DEF Llamadas
<1>6. r \in Peticiones /\ r.op = "escribir" /\ r.bloque = b /\ r.hecha = FALSE /\ r.valor = v
  BY <1>2, <1>4, Valores DEF Peticiones
<1>7. montado
  BY <1>1 DEF Desmontado
<1> HIDE DEF b, v, c, r
<1>8. /\ llamada'[p] = c /\ \A q \in Procesos \ {p} : llamada'[q] = llamada[q]
      /\ peticion'[p] = r /\ \A q \in Procesos \ {p} : peticion'[q] = peticion[q]
      /\ llamada' \in [Procesos -> Llamadas \cup {NULL}]
      /\ peticion' \in [Procesos -> Peticiones \cup {NULL}]
      /\ c # NULL /\ r # NULL
  BY <1>1, <1>5, <1>6, NULLAparte DEF TiposFS
<1>9. /\ \A i \in Inodos : EscribenInodo(i)' = EscribenInodo(i) \ {p}
      /\ \A i \in Inodos : DePeticiones(i)' \subseteq DePeticiones(i)
      /\ \A q \in Procesos : EscribeMapa(q)' => q # p /\ EscribeMapa(q)
  BY <1>1, <1>2, <1>6, OtraPeticion
<1>10. TiposFS'
  <2>1. ValorDe(b) = Contenidos
    BY <1>2, Valores
  <2> QED BY <1>1, <1>4, <1>6, <1>8, <2>1 DEF TiposFS, ConValor
<1>11. Colas'
  BY <1>1, <1>2, <1>6, PedirCola
<1>12. Desmontado' /\ DescriptoresBien'
  BY <1>1, <1>7 DEF Desmontado, DescriptoresBien
<1>13. \A q \in Procesos : EnFichero(q)' <=> EnFichero(q)
  BY <1>1, <1>3, <1>5, <1>8 DEF EnFichero
<1>14. LlamadasBien'
  <2>1. ASSUME NEW q \in Procesos \ {p} PROVE \A f : En(q, f)' <=> En(q, f)
    BY <1>8 DEF En
  <2>2. En(p, "grabar")' /\ \A f : En(p, f)' => f = "grabar"
    BY <1>5, <1>8 DEF En
  <2> QED BY <1>1, <1>2, <1>3, <1>6, <1>8, <1>13, <2>1, <2>2 DEF LlamadasBien, Inodo
<1>15. Caben'
  <2>1. \A i \in Inodos : EnDisco(i)' = EnDisco(i)
    BY <1>1 DEF EnDisco
  <2>2. \A i \in Inodos : \A q \in EscribenInodo(i)' :
           q \in EscribenInodo(i) /\ peticion'[q] = peticion[q]
    BY <1>8, <1>9 DEF EscribenInodo
  <2>3. \A q \in Procesos : EnFichero(q) => (Desborda(q)' <=> Desborda(q))
    BY <1>1, <1>5, <1>8 DEF Desborda, Siguiente
  <2> QED BY <1>1, <1>13, <2>1, <2>2, <2>3 DEF Caben
<1>16. \A i \in Inodos : Escribiendo(i)' = Escribiendo(i) /\ Escribiendo(i) \subseteq Procesos
  BY <1>1, <1>3, <1>5, <1>8 DEF Escribiendo, TiposFS
<1>17. \A i \in Inodos : Suyos(i)' \subseteq Suyos(i)
  <2>1. \A i \in Inodos : DeLlamadas(i)' \subseteq DeLlamadas(i)
    <3>1. ~En(p, "modificar")'
      BY <1>5, <1>8 DEF En
    <3>2. \A q \in Procesos \ {p} : (En(q, "modificar")' <=> En(q, "modificar"))
                                    /\ llamada'[q] = llamada[q]
      BY <1>8 DEF En
    <3> QED BY <1>16, <3>1, <3>2 DEF DeLlamadas
  <2>2. \A i \in Inodos : DeMemoria(i)' = DeMemoria(i) /\ DeDisco(i)' = DeDisco(i)
    BY <1>1, <1>16 DEF DeMemoria, DeDisco, EnDisco
  <2> QED BY <1>9, <2>1, <2>2 DEF Suyos
<1>18. Separados'
  BY <1>1, <1>17, SeparadosSigue
<1>19. MapaAntes'
  <2>1. \A q \in Procesos : PasadoElMapa(q)' => q # p /\ PasadoElMapa(q)
    BY <1>5, <1>8 DEF PasadoElMapa, En
  <2> QED BY <1>1, <1>7, <1>8, <1>9, <2>1, MapaAntesSigue
<1>p. Propios'
  BY <1>1, PropiosSigue
<1> QED BY <1>p, <1>10, <1>11, <1>12, <1>14, <1>15, <1>18, <1>19

(* A file grows, or not, and keeps its block.                              *)
LEMMA AjustarTamanyoHace ==
    ASSUME TiposFS, NEW p \in Procesos, NEW i \in Inodos, i = desc[p].inodo, inodos[i] # NULL,
           inodos[i].bloqueDirecto \in Datos, NEW s \in Int, AjustarTamanyo(p, s)
    PROVE  /\ inodos' \in [Inodos -> InodosBien \cup {NULL}] /\ inodos'[i] # NULL
           /\ inodos'[i].nombre = inodos[i].nombre
           /\ inodos'[i].bloqueDirecto = inodos[i].bloqueDirecto
           /\ inodos'[i].tamanyo = IF s > inodos[i].tamanyo THEN s ELSE inodos[i].tamanyo
           /\ \A j \in Inodos \ {i} : inodos'[j] = inodos[j]
<1>1. /\ inodos \in [Inodos -> InodosBien \cup {NULL}] /\ inodos[i] \in InodosBien
      /\ inodos[i].tamanyo \in Nat
  BY DEF TiposFS, InodosBien, RegistrosInodo
<1>2. inodos' = [inodos EXCEPT ![i].tamanyo = IF s > inodos[i].tamanyo THEN s ELSE inodos[i].tamanyo]
  BY DEF AjustarTamanyo
<1>3. /\ inodos'[i] = [inodos[i] EXCEPT !.tamanyo = IF s > inodos[i].tamanyo THEN s ELSE inodos[i].tamanyo]
      /\ \A j \in Inodos \ {i} : inodos'[j] = inodos[j]
      /\ inodos' = [j \in Inodos |-> inodos'[j]]
  BY <1>1, <1>2
<1>4. /\ inodos'[i].bloqueDirecto = inodos[i].bloqueDirecto
      /\ inodos'[i].nombre = inodos[i].nombre
      /\ inodos'[i].tamanyo = IF s > inodos[i].tamanyo THEN s ELSE inodos[i].tamanyo
      /\ inodos'[i] \in InodosBien
  BY <1>1, <1>3 DEF InodosBien, RegistrosInodo
<1> QED BY <1>1, <1>3, <1>4, NULLAparte

LEMMA PasoFinEscribir ==
    ASSUME InvFS, NEW p \in Procesos, FinEscribir(p)
    PROVE  InvFS'
<1> USE DEF InvFS
<1>1. /\ llamada[p] # NULL /\ llamada[p].fase = "grabar" /\ EnFichero(p) /\ En(p, "grabar")
      /\ Dev!Terminar(p)
      /\ byteSiguiente' = [byteSiguiente EXCEPT ![desc[p].datos] = @ + llamada[p].n]
      /\ AjustarTamanyo(p, byteSiguiente'[desc[p].datos])
      /\ llamada' = [llamada EXCEPT ![p] = NULL]
      /\ UNCHANGED <<montado, mapaInodos, mapaBloques, creados, desc, reservados, compartido,
                     sinMapa, cruzado>>
  BY DEF FinEscribir, historias, EnFichero, En
<1>2. /\ peticion[p] # NULL /\ peticion[p].hecha
      /\ UNCHANGED <<disco, espera>>
      /\ peticion' \in [Procesos -> Peticiones \cup {NULL}]
      /\ llamada' \in [Procesos -> Llamadas \cup {NULL}]
      /\ peticion'[p] = NULL /\ llamada'[p] = NULL
      /\ \A q \in Procesos \ {p} : peticion'[q] = peticion[q] /\ llamada'[q] = llamada[q]
      /\ Colas'
  BY <1>1, TerminarHace
<1>3. /\ \A j \in Inodos : EscribenInodo(j)' = EscribenInodo(j) \ {p}
      /\ \A j \in Inodos : DePeticiones(j)' \subseteq DePeticiones(j)
      /\ \A q \in Procesos : EscribeMapa(q)' => q # p /\ EscribeMapa(q)
      /\ \A q \in Procesos : PasadoElMapa(q)' => q # p /\ PasadoElMapa(q)
      /\ \A q \in Procesos : EnFichero(q)' <=> q # p /\ EnFichero(q)
      /\ \A q \in Procesos : \A f : En(q, f)' <=> q # p /\ En(q, f)
  BY <1>1, TerminarHace
<1>4. /\ desc[p] # NULL /\ p \in creados /\ desc[p].datos \in Direcciones /\ Siguiente(p) \in Int
      /\ desc[p].inodo \in Inodos /\ Inodo(p).bloqueDirecto \in Datos
      /\ inodos[desc[p].inodo] # NULL
  BY <1>1, ConDescriptor, NULLAparte DEF LlamadasBien, Inodo
<1>5. llamada[p].n \in Nat \ {0}
  BY <1>1, TiposLlamada DEF TiposFS
<1>i. PICK i : i = desc[p].inodo
  OBVIOUS
<1>s. PICK s : s = Siguiente(p) + llamada[p].n
  OBVIOUS
<1>6. /\ s \in Int
      /\ byteSiguiente' \in [Direcciones -> Int \cup {NULL}]
      /\ byteSiguiente'[desc[p].datos] = s
      /\ \A e \in Direcciones \ {desc[p].datos} : byteSiguiente'[e] = byteSiguiente[e]
  <2>1. s = byteSiguiente[desc[p].datos] + llamada[p].n /\ s \in Int
    BY <1>4, <1>5, <1>s DEF Siguiente
  <2> QED BY <1>1, <1>4, <2>1 DEF TiposFS
<1>7. /\ inodos' \in [Inodos -> InodosBien \cup {NULL}] /\ inodos'[i] # NULL
      /\ inodos'[i].bloqueDirecto = inodos[i].bloqueDirecto
      /\ inodos'[i].tamanyo = IF s > inodos[i].tamanyo THEN s ELSE inodos[i].tamanyo
      /\ \A j \in Inodos \ {i} : inodos'[j] = inodos[j]
  BY <1>1, <1>4, <1>6, <1>i, AjustarTamanyoHace DEF Inodo
<1>8. montado
  BY <1>1 DEF Desmontado
<1>9. TiposFS'
  <2>1. mapaInodos' = {j \in Inodos : inodos'[j] # NULL}
    BY <1>1, <1>4, <1>7, <1>i DEF TiposFS
  <2> QED BY <1>1, <1>2, <1>6, <1>7, <2>1 DEF TiposFS, ConValor
<1>10. Desmontado'
  BY <1>1, <1>8 DEF Desmontado
<1>11. DescriptoresBien'
  <2>1. \A q \in Procesos : desc[q] # NULL => desc[q].datos \in Direcciones
    BY ConDescriptor
  <2> QED BY <1>1, <1>6, <2>1 DEF DescriptoresBien
<1>12. LlamadasBien'
  <2>1. ASSUME NEW q \in Procesos, desc[q] # NULL, Inodo(q).bloqueDirecto \in Datos
        PROVE  Inodo(q)'.bloqueDirecto \in Datos
    <3>1. desc[q].inodo \in Inodos
      BY <2>1, ConDescriptor
    <3> QED BY <1>1, <1>7, <2>1, <3>1 DEF Inodo
  <2>2. \A q \in Procesos : En(q, "modificar") \/ En(q, "grabar") => EnFichero(q)
    BY DEF En, EnFichero
  <2> QED BY <1>1, <1>2, <1>3, <2>1, <2>2 DEF LlamadasBien
<1>13. Caben'
  <2>1. \A j \in Inodos : EnDisco(j)' = EnDisco(j)
    BY <1>2 DEF EnDisco
  <2>2. \A j \in Inodos : \A q \in EscribenInodo(j)' :
           q \in EscribenInodo(j) /\ peticion'[q] = peticion[q]
    BY <1>2, <1>3 DEF EscribenInodo
  <2>3. ASSUME ~compartido', NEW q \in Procesos, EnFichero(q)' PROVE ~Desborda(q)'
    <3>1. EnFichero(q) /\ q # p /\ ~compartido
      BY <1>1, <1>3, <2>3
    <3>2. ~Desborda(q) /\ desc[q].datos # desc[p].datos /\ desc[q].datos \in Direcciones
      BY <1>1, <3>1, ConDescriptor DEF Caben, LlamadasBien
    <3> QED BY <1>1, <1>2, <1>6, <3>1, <3>2 DEF Desborda, Siguiente
  <2>4. ASSUME ~compartido', NEW j \in Inodos, inodos'[j] # NULL
        PROVE  inodos'[j].tamanyo <= FS_BLOCK_SIZE
    <3>1. CASE j = i
      <4>1. ~Desborda(p) /\ inodos[i].tamanyo <= FS_BLOCK_SIZE
        BY <1>1, <1>4, <1>i, <2>4 DEF Caben
      <4>2. s <= FS_BLOCK_SIZE
        BY <1>6, <1>s, <4>1, Disposicion DEF Desborda
      <4> QED BY <1>7, <3>1, <4>1, <4>2
    <3>2. CASE j # i
      BY <1>1, <1>7, <2>4, <3>2 DEF Caben
    <3> QED BY <3>1, <3>2
  <2> QED BY <1>1, <1>3, <2>1, <2>2, <2>3, <2>4 DEF Caben
<1>14. /\ \A j \in Inodos : Escribiendo(j)' = Escribiendo(j) \ {p} /\ Escribiendo(j) \subseteq Procesos
       /\ p \in Escribiendo(i)
  BY <1>1, <1>2, <1>4, <1>i DEF Escribiendo, TiposFS
<1>15. \A j \in Inodos : Suyos(j)' \subseteq Suyos(j)
  <2>1. \A j \in Inodos : DeLlamadas(j)' \subseteq DeLlamadas(j)
    BY <1>2, <1>3, <1>14 DEF DeLlamadas
  <2>2. \A j \in Inodos : DeMemoria(j)' \subseteq DeMemoria(j)
    <3>1. DeMemoria(i)' \subseteq DeMemoria(i)
      BY <1>4, <1>7, <1>14, <1>i DEF DeMemoria
    <3>2. \A j \in Inodos \ {i} : DeMemoria(j)' \subseteq DeMemoria(j)
      BY <1>7, <1>14 DEF DeMemoria
    <3> QED BY <3>1, <3>2
  <2>3. \A j \in Inodos : DeDisco(j)' = DeDisco(j)
    BY <1>2 DEF DeDisco, EnDisco
  <2> QED BY <1>3, <2>1, <2>2, <2>3 DEF Suyos
<1>16. Separados'
  BY <1>1, <1>15, SeparadosSigue
<1>17. MapaAntes'
  BY <1>1, <1>2, <1>3, <1>8, MapaAntesSigue
<1>p. Propios'
  BY <1>1, <1>4, <1>5, PropiosMueve
<1> QED BY <1>p, <1>2, <1>9, <1>10, <1>11, <1>12, <1>13, <1>16, <1>17

-----------------------------------------------------------------------------
(* Synchronising                                                           *)

(* A call that synchronises asks for the block b to be written with what   *)
(* is in memory; an inode, only past the map.                              *)
LEMMA EscribirMemoria ==
    ASSUME InvFS, montado, NEW p \in creados, ~EnFichero(p),
           peticion[p] = NULL \/ peticion[p].hecha,
           NEW b \in Bloques \ Datos, b > 3 => PasadoElMapa(p) /\ inodos[b - 4] # NULL,
           NEW c \in Llamadas, c.fase = "sincronizar", c.bloque = b,
           llamada' = [llamada EXCEPT ![p] = c],
           peticion' = [peticion EXCEPT
               ![p] = [op |-> "escribir", bloque |-> b, valor |-> EnMemoria(b), hecha |-> FALSE]],
           espera' = [espera EXCEPT ![b] = Append(espera[b], p)],
           UNCHANGED <<disco, montado, inodos, mapaInodos, mapaBloques, creados, desc, reservados,
                       byteSiguiente, compartido, sinMapa, cruzado>>
    PROVE  InvFS'
<1> USE DEF InvFS
<1>p. p \in Procesos
  BY DEF TiposFS
<1>v. PICK v : v = EnMemoria(b)
  OBVIOUS
<1>r. PICK r : r = [op |-> "escribir", bloque |-> b, valor |-> v, hecha |-> FALSE]
  OBVIOUS
<1>1. /\ b \in {1, 2} => v \in SUBSET Inodos
      /\ b = BloqueMapaDatos => v = mapaBloques
      /\ \A i \in Inodos : b = BloqueInodo(i) =>
            b > 3 /\ v = inodos[i] /\ v # NULL /\ v \in InodosBien
      /\ b \in {1, 2, 3} \/ \E i \in Inodos : b = BloqueInodo(i)
  <2>1. b \in {1, 2} => v \in SUBSET Inodos
    BY <1>v DEF EnMemoria, BloqueSuper, BloqueMapaInodos, BloqueMapaDatos, TiposFS
  <2>2. b = BloqueMapaDatos => v = mapaBloques
    BY <1>v DEF EnMemoria, BloqueSuper, BloqueMapaInodos, BloqueMapaDatos
  <2>3. ASSUME NEW i \in Inodos, b = BloqueInodo(i)
        PROVE  b > 3 /\ v = inodos[i] /\ v # NULL /\ v \in InodosBien
    <3>1. b > 3 /\ b \notin {1, 2, 3} /\ b - 4 = i
      BY <2>3, Disposicion
    <3>2. v = inodos[i]
      BY <1>v, <3>1 DEF EnMemoria, BloqueSuper, BloqueMapaInodos, BloqueMapaDatos
    <3> QED BY <3>1, <3>2 DEF TiposFS
  <2>4. b \in {1, 2, 3} \/ \E i \in Inodos : b = BloqueInodo(i)
    BY Disposicion
  <2> QED BY <2>1, <2>2, <2>3, <2>4
<1>2. v \in ValorDe(b)
  <2>1. CASE b \in {1, 2}
    BY <1>1, <2>1, Valores DEF BloqueSuper, BloqueMapaInodos
  <2>2. CASE b = 3
    BY <1>1, <2>2, Valores DEF BloqueMapaDatos, TiposFS
  <2>3. CASE \E i \in Inodos : b = BloqueInodo(i)
    BY <1>1, <2>3, Valores
  <2> QED BY <1>1, <2>1, <2>2, <2>3
<1>3. r \in Peticiones /\ r.op = "escribir" /\ r.bloque = b /\ r.hecha = FALSE /\ r.valor = v
  BY <1>2, <1>r, Valores DEF Peticiones
<1>4. c # NULL /\ r # NULL
  BY <1>3, NULLAparte
<1>5. /\ llamada'[p] = c /\ \A q \in Procesos \ {p} : llamada'[q] = llamada[q]
      /\ peticion' = [peticion EXCEPT ![p] = r]
      /\ peticion'[p] = r /\ \A q \in Procesos \ {p} : peticion'[q] = peticion[q]
      /\ llamada' \in [Procesos -> Llamadas \cup {NULL}]
      /\ peticion' \in [Procesos -> Peticiones \cup {NULL}]
  BY <1>3, <1>p, <1>r, <1>v DEF TiposFS
<1>6. \A q \in Procesos : /\ EnFichero(q)' <=> EnFichero(q)
                          /\ \A f : En(q, f)' <=> (IF q = p THEN f = "sincronizar" ELSE En(q, f))
  BY <1>4, <1>5, <1>p DEF EnFichero, En
<1>7. \A i \in Inodos :
         /\ EscribenInodo(i)' \subseteq EscribenInodo(i) \cup {p}
         /\ p \in EscribenInodo(i)' => b = BloqueInodo(i) /\ b > 3 /\ v = inodos[i] /\ v # NULL
  BY <1>1, <1>3, <1>5 DEF EscribenInodo
<1>8. \A i \in Inodos :
         /\ DePeticiones(i)' \subseteq DePeticiones(i) \cup DeMemoria(i)
         /\ b <= 3 => DePeticiones(i)' \subseteq DePeticiones(i)
  <2>1. ASSUME NEW i \in Inodos, NEW x \in DePeticiones(i)'
        PROVE  x \in DePeticiones(i) \/ (b > 3 /\ x \in DeMemoria(i))
    <3>1. PICK q \in EscribenInodo(i)' :
             x \in Datos /\ peticion'[q].valor.tamanyo > 0 /\ x = peticion'[q].valor.bloqueDirecto
      BY <2>1 DEF DePeticiones
    <3>2. CASE q = p
      BY <1>3, <1>5, <1>7, <3>1, <3>2 DEF DeMemoria
    <3>3. CASE q # p
      <4>1. q \in EscribenInodo(i) /\ q \in Procesos \ {p}
        BY <1>7, <3>3 DEF EscribenInodo
      <4> QED BY <1>5, <3>1, <4>1 DEF DePeticiones
    <3> QED BY <3>2, <3>3
  <2>2. b \in Nat
    BY Disposicion
  <2> QED BY <2>1, <2>2
<1>9. TiposFS'
  BY <1>2, <1>3, <1>5 DEF TiposFS, ConValor
<1>10. Colas'
  BY <1>3, <1>5, <1>p, PedirCola
<1>11. Desmontado' /\ DescriptoresBien'
  BY DEF Desmontado, DescriptoresBien
<1>12. LlamadasBien'
  <2>1. \A q \in Procesos : Inodo(q)' = Inodo(q)
    BY DEF Inodo
  <2>2. /\ ~En(p, "leer")' /\ ~En(p, "modificar")' /\ ~En(p, "grabar")' /\ ~EnFichero(p)'
        /\ peticion'[p].op = "escribir" /\ peticion'[p].bloque = llamada'[p].bloque
        /\ peticion'[p] # NULL /\ llamada'[p] # NULL
    BY <1>3, <1>4, <1>5 DEF En, EnFichero
  <2>3. ASSUME NEW q \in Procesos \ {p}
        PROVE  /\ llamada'[q] = llamada[q] /\ peticion'[q] = peticion[q]
               /\ EnFichero(q)' <=> EnFichero(q)
               /\ \A f : En(q, f)' <=> En(q, f)
    BY <1>5, <1>6
  <2> QED BY <2>1, <2>2, <2>3 DEF LlamadasBien
<1>13. \A i \in Inodos : EnDisco(i)' = EnDisco(i)
  BY DEF EnDisco
<1>14. Caben'
  <2>1. ASSUME ~compartido, NEW i \in Inodos, NEW q \in EscribenInodo(i)'
        PROVE  peticion'[q].valor.tamanyo <= FS_BLOCK_SIZE
    <3>1. CASE q = p
      BY <1>3, <1>5, <1>7, <2>1, <3>1 DEF Caben
    <3>2. CASE q # p
      <4>1. q \in EscribenInodo(i) /\ q \in Procesos \ {p}
        BY <1>7, <3>2 DEF EscribenInodo
      <4> QED BY <1>5, <2>1, <4>1 DEF Caben
    <3> QED BY <3>1, <3>2
  <2>2. \A q \in Procesos : EnFichero(q) => q # p /\ (Desborda(q)' <=> Desborda(q))
    BY <1>5 DEF Desborda, Siguiente
  <2> QED BY <1>6, <1>13, <2>1, <2>2 DEF Caben
<1>15. \A i \in Inodos : Escribiendo(i)' = Escribiendo(i) /\ Escribiendo(i) \subseteq Procesos \ {p}
  BY <1>5 DEF Escribiendo, TiposFS, EnFichero
<1>16. \A i \in Inodos : Suyos(i)' \subseteq Suyos(i)
  <2>1. \A i \in Inodos : DeLlamadas(i)' \subseteq DeLlamadas(i)
    BY <1>5, <1>6, <1>15 DEF DeLlamadas
  <2>2. \A i \in Inodos : DeMemoria(i)' = DeMemoria(i) /\ DeDisco(i)' = DeDisco(i)
    BY <1>13, <1>15 DEF DeMemoria, DeDisco
  <2> QED BY <1>8, <2>1, <2>2 DEF Suyos
<1>17. Separados'
  BY <1>16, SeparadosSigue
<1>18. MapaAntes'
  <2> SUFFICES ASSUME ~cruzado PROVE MapaAntes'
    BY DEF MapaAntes
  <2>1. ASSUME NEW i \in Inodos
        PROVE  DeDisco(i)' \cup DePeticiones(i)' \subseteq disco'[BloqueMapaDatos] \cup sinMapa'
    <3>1. DeDisco(i)' = DeDisco(i)
      BY <1>13 DEF DeDisco
    <3>2. CASE b <= 3
      BY <1>8, <3>1, <3>2 DEF MapaAntes
    <3>3. CASE b > 3
      <4>1. DeMemoria(i) \subseteq mapaBloques
        BY DEF Separados, Suyos
      <4>2. mapaBloques \ disco[BloqueMapaDatos] \subseteq sinMapa
        BY <1>p, <3>3 DEF MapaAntes
      <4> QED BY <1>8, <3>1, <4>1, <4>2 DEF MapaAntes
    <3>4. b \in Nat
      BY Disposicion
    <3> QED BY <3>2, <3>3, <3>4
  <2>2. ASSUME NEW q \in Procesos, EscribeMapa(q)'
        PROVE  mapaBloques' \ peticion'[q].valor \subseteq sinMapa'
    <3>1. CASE q = p
      BY <1>1, <1>3, <1>5, <2>2, <3>1 DEF EscribeMapa
    <3>2. CASE q # p
      BY <1>5, <2>2, <3>2 DEF EscribeMapa, MapaAntes
    <3> QED BY <3>1, <3>2
  <2>3. ASSUME NEW q \in Procesos, PasadoElMapa(q)'
        PROVE  mapaBloques' \ disco'[BloqueMapaDatos] \subseteq sinMapa'
    <3>1. CASE q = p
      <4>1. b > 3
        BY <1>3, <1>5, <2>3, <3>1 DEF PasadoElMapa, BloqueMapaDatos
      <4> QED BY <1>p, <4>1 DEF MapaAntes
    <3>2. CASE q # p
      BY <1>5, <1>6, <2>3, <3>2 DEF PasadoElMapa, MapaAntes
    <3> QED BY <3>1, <3>2
  <2> QED BY <2>1, <2>2, <2>3 DEF MapaAntes
<1>pr. Propios'
  BY PropiosSigue
<1> QED BY <1>pr, <1>9, <1>10, <1>11, <1>12, <1>14, <1>17, <1>18

LEMMA PasoSincronizar ==
    ASSUME InvFS, NEW p \in Procesos, Sincronizar(p)
    PROVE  InvFS'
<1> DEFINE c == [fase |-> "sincronizar", bloque |-> BloqueSuper, foto |-> Foto]
<1>1. /\ p \in creados /\ llamada[p] = NULL /\ montado
      /\ llamada' = [llamada EXCEPT ![p] = c]
      /\ UNCHANGED <<disco, montado, inodos, mapaInodos, mapaBloques, creados, desc, reservados,
                     byteSiguiente, compartido, sinMapa, cruzado>>
  BY DEF Sincronizar, Libre, volumen, Dev!Pedir
<1>2. /\ peticion[p] = NULL
      /\ peticion' = [peticion EXCEPT ![p] = [op |-> "escribir", bloque |-> BloqueSuper,
                                              valor |-> EnMemoria(BloqueSuper), hecha |-> FALSE]]
      /\ espera' = [espera EXCEPT ![BloqueSuper] = Append(espera[BloqueSuper], p)]
  BY DEF Sincronizar, Dev!Pedir
<1>3. BloqueSuper \in Bloques \ Datos /\ ~(BloqueSuper > 3)
  BY Disposicion DEF BloqueSuper
<1>4. c \in Llamadas /\ c.fase = "sincronizar" /\ c.bloque = BloqueSuper
  <2>1. Foto \in Fotos
    <3>1. /\ inodos \in [Inodos -> RegistrosInodo \cup {NULL}]
          /\ mapaInodos \in SUBSET Inodos /\ mapaBloques \in SUBSET Datos
      BY DEF InvFS, TiposFS, InodosBien
    <3> QED BY <3>1 DEF Foto, Fotos
  <2> QED BY <1>3, <2>1 DEF Llamadas
<1>5. ~EnFichero(p)
  BY <1>1 DEF EnFichero
<1> HIDE DEF c
<1> QED BY <1>1, <1>2, <1>3, <1>4, <1>5, EscribirMemoria

(* The block after a: an inode in memory, only after the map.              *)
LEMMA SiguienteBloqueHace ==
    ASSUME TiposFS, NEW a \in Bloques \ Datos, NEW b, b = SiguienteBloque(a), b # 0
    PROVE  b \in Bloques \ Datos /\ (b > 3 => a >= 3 /\ inodos[b - 4] # NULL)
<1> DEFINE quedan == {i \in Inodos : BloqueInodo(i) > a /\ inodos[i] # NULL}
<1>1. CASE a < BloqueMapaDatos
  <2>1. b = a + 1
    BY <1>1 DEF SiguienteBloque
  <2>2. a \in Nat /\ a >= 1
    BY Disposicion DEF Bloques
  <2>3. b \in {2, 3}
    BY <1>1, <2>1, <2>2 DEF BloqueMapaDatos
  <2> QED BY <2>3, Disposicion
<1>2. CASE ~(a < BloqueMapaDatos)
  <2>1. quedan # {} /\ b = BloqueInodo(Min(quedan))
    BY <1>2 DEF SiguienteBloque
  <2>2. quedan \in SUBSET Nat
    BY Disposicion
  <2>3. Min(quedan) \in quedan
    BY <2>1, <2>2, MinimoDe
  <2>4. PICK i \in Inodos : i = Min(quedan) /\ inodos[i] # NULL
    BY <2>3
  <2>5. b \in Bloques \ Datos /\ b - 4 = i
    BY <2>1, <2>4, Disposicion
  <2>6. a \in Nat
    BY Disposicion
  <2> QED BY <1>2, <2>4, <2>5, <2>6 DEF BloqueMapaDatos
<1> QED BY <1>1, <1>2

LEMMA PasoSeguirSincronizar ==
    ASSUME InvFS, NEW p \in Procesos, SeguirSincronizar(p)
    PROVE  InvFS'
<1>b. PICK b : b = SiguienteBloque(llamada[p].bloque)
  OBVIOUS
<1>1. /\ llamada[p] # NULL /\ llamada[p].fase = "sincronizar" /\ peticion[p].hecha /\ b # 0
      /\ peticion' = [peticion EXCEPT ![p] = [op |-> "escribir", bloque |-> b,
                                              valor |-> EnMemoria(b), hecha |-> FALSE]]
      /\ espera' = [espera EXCEPT ![b] = Append(espera[b], p)]
      /\ llamada' = [llamada EXCEPT ![p].bloque = b]
      /\ UNCHANGED <<disco, montado, inodos, mapaInodos, mapaBloques, creados, desc, reservados,
                     byteSiguiente, compartido, sinMapa, cruzado>>
  BY <1>b DEF SeguirSincronizar, volumen, historias
<1>2. /\ llamada[p] \in Llamadas /\ En(p, "sincronizar") /\ p \in creados /\ ~EnFichero(p)
      /\ llamada \in [Procesos -> Llamadas \cup {NULL}]
  BY <1>1 DEF InvFS, TiposFS, LlamadasBien, En, EnFichero
<1>3. llamada[p].bloque \in Bloques \ Datos /\ llamada[p].foto \in Fotos
  BY <1>1, <1>2, TiposLlamada
<1>4. b \in Bloques \ Datos /\ (b > 3 => llamada[p].bloque >= 3 /\ inodos[b - 4] # NULL)
  BY <1>1, <1>3, <1>b, SiguienteBloqueHace DEF InvFS
<1>5. b > 3 => PasadoElMapa(p)
  <2>1. llamada[p].bloque \in Nat
    BY <1>3, Disposicion
  <2> QED BY <1>1, <1>2, <1>4, <2>1 DEF PasadoElMapa, BloqueMapaDatos
<1>c. PICK c : c = [fase |-> "sincronizar", bloque |-> b, foto |-> llamada[p].foto]
  OBVIOUS
<1>6. c \in Llamadas /\ c.fase = "sincronizar" /\ c.bloque = b
  BY <1>3, <1>4, <1>c DEF Llamadas
<1>7. llamada' = [llamada EXCEPT ![p] = c]
  <2>1. llamada[p] \in [fase : {"sincronizar"}, bloque : Bloques \ Datos, foto : Fotos]
    <3>1. llamada[p] \notin [fase : {"leer", "grabar"}, n : Nat \ {0}]
      BY <1>1
    <3>2. llamada[p] \notin [fase : {"modificar"}, bloque : Datos, n : Nat \ {0}]
      BY <1>1
    <3> QED BY <1>2, <3>1, <3>2 DEF Llamadas
  <2>2. [llamada[p] EXCEPT !.bloque = b] = c
    BY <1>1, <1>c, <2>1
  <2> QED BY <1>1, <1>2, <2>2
<1>8. montado
  BY <1>1 DEF InvFS, Desmontado
<1> QED BY <1>1, <1>2, <1>4, <1>5, <1>6, <1>7, <1>8, EscribirMemoria

LEMMA PasoFinSincronizar ==
    ASSUME InvFS, NEW p \in Procesos, FinSincronizar(p)
    PROVE  InvFS'
<1> USE DEF InvFS
<1>1. /\ llamada[p] # NULL /\ llamada[p].fase = "sincronizar" /\ ~EnFichero(p)
      /\ Dev!Terminar(p)
      /\ llamada' = [llamada EXCEPT ![p] = NULL]
      /\ UNCHANGED <<montado, inodos, mapaInodos, mapaBloques, creados, desc, reservados,
                     byteSiguiente, compartido, sinMapa, cruzado>>
  BY DEF FinSincronizar, volumen, historias, EnFichero
<1>2. /\ peticion[p] # NULL /\ peticion[p].hecha
      /\ UNCHANGED <<disco, espera>>
      /\ peticion' \in [Procesos -> Peticiones \cup {NULL}]
      /\ llamada' \in [Procesos -> Llamadas \cup {NULL}]
      /\ peticion'[p] = NULL /\ llamada'[p] = NULL
      /\ \A q \in Procesos \ {p} : peticion'[q] = peticion[q] /\ llamada'[q] = llamada[q]
      /\ Colas'
  BY <1>1, TerminarHace
<1>3. /\ \A j \in Inodos : EscribenInodo(j)' = EscribenInodo(j) \ {p}
      /\ \A j \in Inodos : DePeticiones(j)' \subseteq DePeticiones(j)
      /\ \A q \in Procesos : EscribeMapa(q)' => q # p /\ EscribeMapa(q)
      /\ \A q \in Procesos : PasadoElMapa(q)' => q # p /\ PasadoElMapa(q)
      /\ \A q \in Procesos : EnFichero(q)' <=> q # p /\ EnFichero(q)
      /\ \A q \in Procesos : \A f : En(q, f)' <=> q # p /\ En(q, f)
  BY <1>1, TerminarHace
<1>4. montado
  BY <1>1 DEF Desmontado
<1>5. TiposFS'
  BY <1>1, <1>2 DEF TiposFS, ConValor
<1>6. Desmontado' /\ DescriptoresBien'
  BY <1>1, <1>4 DEF Desmontado, DescriptoresBien
<1>7. LlamadasBien'
  BY <1>1, <1>2, <1>3 DEF LlamadasBien, Inodo
<1>8. Caben'
  <2>1. \A i \in Inodos : EnDisco(i)' = EnDisco(i)
    BY <1>2 DEF EnDisco
  <2>2. \A i \in Inodos : \A q \in EscribenInodo(i)' :
           q \in EscribenInodo(i) /\ peticion'[q] = peticion[q]
    BY <1>2, <1>3 DEF EscribenInodo
  <2>3. \A q \in Procesos : EnFichero(q)' => EnFichero(q) /\ (Desborda(q)' <=> Desborda(q))
    BY <1>1, <1>2, <1>3 DEF Desborda, Siguiente
  <2> QED BY <1>1, <2>1, <2>2, <2>3 DEF Caben
<1>9. \A i \in Inodos : Escribiendo(i)' = Escribiendo(i) /\ Escribiendo(i) \subseteq Procesos \ {p}
  BY <1>1, <1>2 DEF Escribiendo, TiposFS
<1>10. \A i \in Inodos : Suyos(i)' \subseteq Suyos(i)
  <2>1. \A i \in Inodos : DeLlamadas(i)' \subseteq DeLlamadas(i)
    BY <1>2, <1>3, <1>9 DEF DeLlamadas
  <2>2. \A i \in Inodos : DeMemoria(i)' = DeMemoria(i) /\ DeDisco(i)' = DeDisco(i)
    BY <1>1, <1>2, <1>9 DEF DeMemoria, DeDisco, EnDisco
  <2> QED BY <1>3, <2>1, <2>2 DEF Suyos
<1>11. Separados'
  BY <1>1, <1>10, SeparadosSigue
<1>12. MapaAntes'
  BY <1>1, <1>2, <1>3, <1>4, MapaAntesSigue
<1>p. Propios'
  BY <1>1, PropiosSigue
<1> QED BY <1>p, <1>2, <1>5, <1>6, <1>7, <1>8, <1>11, <1>12

-----------------------------------------------------------------------------
(* The device serves                                                       *)

(* A served request gets, and the device keeps, what some request for that *)
(* block was to write or what the device had.                              *)
LEMMA PasoServirBloque ==
    ASSUME InvFS, NEW b \in Bloques, montado, NEW A, NEW v, Deja(A, b, v),
           UNCHANGED <<montado, inodos, mapaInodos, mapaBloques, creados, desc, reservados, byteSiguiente, llamada,
                       compartido, sinMapa, cruzado>>
    PROVE  InvFS'
<1> USE DEF InvFS
<1> DEFINE Escribe(q, c) == peticion[q] # NULL /\ peticion[q].op = "escribir" /\ peticion[q].bloque = c
<1>1. /\ A \subseteq Procesos
      /\ \A q \in A : peticion[q] # NULL /\ peticion[q].bloque = b /\ peticion[q] \in Peticiones
  <2>1. A \subseteq Procesos
    <3>1. espera[b] \in Seq(Procesos)
      BY DEF Colas
    <3> QED BY <3>1, DentroDe DEF Deja
  <2> QED BY <2>1 DEF Deja, Colas, TiposFS
<1>2. \/ v = disco[b] /\ \A q \in A : ~Escribe(q, b)
      \/ \E w \in Procesos : Escribe(w, b) /\ v = peticion[w].valor
  BY <1>1 DEF Deja
<1>3. v \in ValorDe(b) /\ v \in ValoresBloque
  <2>1. \A w \in Procesos : Escribe(w, b) => peticion[w].valor \in ValorDe(b)
    BY DEF TiposFS, ConValor
  <2>2. v \in ValorDe(b)
    BY <1>2, <2>1 DEF TiposFS
  <2> QED BY <2>2, Valores
<1>4. /\ disco' = [disco EXCEPT ![b] = v] /\ disco'[b] = v
      /\ \A c \in Bloques \ {b} : disco'[c] = disco[c]
  BY DEF Deja, TiposFS
<1>5. ASSUME NEW q \in A
      PROVE  /\ peticion'[q] \in Peticiones /\ peticion'[q] # NULL
             /\ peticion'[q].op = peticion[q].op /\ peticion'[q].bloque = b
             /\ peticion'[q].hecha = TRUE /\ peticion'[q].valor = v
  <2>o. PICK o \in {"leer", "escribir"} : o = peticion[q].op
    BY <1>1 DEF Peticiones
  <2>r. PICK r : r = [op |-> o, bloque |-> b, valor |-> v, hecha |-> TRUE]
    OBVIOUS
  <2>1. peticion'[q] = r
    BY <1>1, <2>o, <2>r DEF Deja
  <2>2. r \in Peticiones /\ r.op = o /\ r.bloque = b /\ r.hecha = TRUE /\ r.valor = v
    BY <1>3, <2>r DEF Peticiones
  <2> QED BY <2>1, <2>2, <2>o, NULLAparte
<1>6. \A q \in Procesos \ A : peticion'[q] = peticion[q]
  BY DEF Deja
<1>7. /\ peticion' \in [Procesos -> Peticiones \cup {NULL}]
      /\ \A q \in Procesos : /\ peticion'[q] = NULL <=> peticion[q] = NULL
                             /\ peticion[q] # NULL => /\ peticion'[q].op = peticion[q].op
                                                      /\ peticion'[q].bloque = peticion[q].bloque
  <2>1. ASSUME NEW q \in Procesos
        PROVE  /\ peticion'[q] \in Peticiones \cup {NULL}
               /\ peticion'[q] = NULL <=> peticion[q] = NULL
               /\ peticion[q] # NULL => /\ peticion'[q].op = peticion[q].op
                                        /\ peticion'[q].bloque = peticion[q].bloque
    <3>1. CASE q \in A
      BY <1>1, <1>5, <3>1
    <3>2. CASE q \notin A
      BY <1>6, <3>2 DEF TiposFS
    <3> QED BY <3>1, <3>2
  <2>2. peticion' = [q \in Procesos |-> peticion'[q]]
    BY DEF Deja
  <2> QED BY <2>1, <2>2
<1>8. ASSUME NEW q \in Procesos, Escribe(q, peticion[q].bloque)
      PROVE  \E w \in Procesos : Escribe(w, peticion[q].bloque) /\ peticion'[q].valor = peticion[w].valor
  <2>1. CASE q \in A
    BY <1>1, <1>2, <1>5, <1>8, <2>1
  <2>2. CASE q \notin A
    BY <1>6, <1>8, <2>2
  <2> QED BY <2>1, <2>2
<1>9. ASSUME NEW i \in Inodos
      PROVE  /\ EscribenInodo(i)' = EscribenInodo(i)
             /\ \A q \in EscribenInodo(i) : \E w \in EscribenInodo(i) : peticion'[q].valor = peticion[w].valor
             /\ \/ EnDisco(i)' = EnDisco(i)
                \/ \E w \in EscribenInodo(i) : EnDisco(i)' = peticion[w].valor
  <2>1. EscribenInodo(i)' = EscribenInodo(i)
    BY <1>7 DEF EscribenInodo
  <2>2. \A q \in EscribenInodo(i) : \E w \in EscribenInodo(i) : peticion'[q].valor = peticion[w].valor
    BY <1>8 DEF EscribenInodo
  <2>3. \/ EnDisco(i)' = EnDisco(i)
        \/ \E w \in EscribenInodo(i) : EnDisco(i)' = peticion[w].valor
    <3>1. BloqueInodo(i) \in Bloques
      BY Disposicion
    <3>2. CASE b = BloqueInodo(i)
      BY <1>2, <1>4, <3>2 DEF EnDisco, EscribenInodo
    <3>3. CASE b # BloqueInodo(i)
      BY <1>4, <3>1, <3>3 DEF EnDisco
    <3> QED BY <3>2, <3>3
  <2> QED BY <2>1, <2>2, <2>3
<1>10. \A i \in Inodos : /\ DePeticiones(i)' \subseteq DePeticiones(i)
                         /\ DeDisco(i)' \subseteq DeDisco(i) \cup DePeticiones(i)
  <2>1. \A i \in Inodos : DePeticiones(i)' \subseteq DePeticiones(i)
    <3>1. ASSUME NEW i \in Inodos, NEW x \in DePeticiones(i)' PROVE x \in DePeticiones(i)
      <4>1. PICK q \in EscribenInodo(i) :
               x \in Datos /\ peticion'[q].valor.tamanyo > 0 /\ x = peticion'[q].valor.bloqueDirecto
        BY <1>9, <3>1 DEF DePeticiones
      <4>2. PICK w \in EscribenInodo(i) : peticion'[q].valor = peticion[w].valor
        BY <1>9
      <4> QED BY <4>1, <4>2 DEF DePeticiones
    <3> QED BY <3>1
  <2>2. ASSUME NEW i \in Inodos, NEW x \in DeDisco(i)' PROVE x \in DeDisco(i) \cup DePeticiones(i)
    <3>1. x \in Datos /\ EnDisco(i)'.tamanyo > 0 /\ x = EnDisco(i)'.bloqueDirecto
      BY <2>2 DEF DeDisco
    <3> QED BY <1>9, <3>1 DEF DeDisco, DePeticiones
  <2> QED BY <2>1, <2>2
<1>11. TiposFS'
  <2>1. disco' \in [Bloques -> ValoresBloque] /\ \A c \in Bloques : disco'[c] \in ValorDe(c)
    BY <1>3, <1>4 DEF TiposFS
  <2>2. \A q \in Procesos : ConValor(q)' => peticion'[q].valor \in ValorDe(peticion'[q].bloque)
    <3>1. ASSUME NEW q \in Procesos, ConValor(q)'
          PROVE  peticion'[q].valor \in ValorDe(peticion'[q].bloque)
      <4>1. CASE q \in A
        BY <1>3, <1>5, <4>1
      <4>2. CASE q \notin A
        BY <1>6, <3>1, <4>2 DEF TiposFS, ConValor
      <4> QED BY <4>1, <4>2
    <3> QED BY <3>1
  <2> QED BY <1>7, <2>1, <2>2 DEF TiposFS
<1>12. Colas'
  BY ServirCola
<1>13. Desmontado' /\ DescriptoresBien'
  BY DEF Desmontado, DescriptoresBien
<1>14. \A q \in Procesos : /\ EnFichero(q)' <=> EnFichero(q)
                           /\ \A f : En(q, f)' <=> En(q, f)
                           /\ Inodo(q)' = Inodo(q) /\ (Desborda(q)' <=> Desborda(q))
  BY DEF EnFichero, En, Inodo, Desborda, Siguiente
<1>15. LlamadasBien'
  BY <1>7, <1>14 DEF LlamadasBien
<1>16. Caben'
  <2>1. ASSUME ~compartido, NEW i \in Inodos
        PROVE  /\ EnDisco(i)'.tamanyo <= FS_BLOCK_SIZE
               /\ \A q \in EscribenInodo(i)' : peticion'[q].valor.tamanyo <= FS_BLOCK_SIZE
    BY <1>9, <2>1 DEF Caben
  <2> QED BY <1>14, <2>1 DEF Caben
<1>17. Separados'
  <2>1. \A i \in Inodos : Suyos(i)' \subseteq Suyos(i)
    <3>1. \A i \in Inodos : DeMemoria(i)' = DeMemoria(i) /\ DeLlamadas(i)' = DeLlamadas(i)
      BY DEF DeMemoria, DeLlamadas, Escribiendo, En
    <3> QED BY <1>10, <3>1 DEF Suyos
  <2> QED BY <2>1, SeparadosSigue
<1>18. MapaAntes'
  <2> SUFFICES ASSUME ~cruzado PROVE MapaAntes'
    BY DEF MapaAntes
  <2> DEFINE m == BloqueMapaDatos
  <2>1. \A w \in Procesos : Escribe(w, m) => mapaBloques \ peticion[w].valor \subseteq sinMapa
    BY DEF MapaAntes, EscribeMapa
  <2>2. m \in Bloques
    BY Disposicion DEF BloqueMapaDatos
  <2>3. \/ disco'[m] = disco[m] /\ (b = m => \A q \in A : ~Escribe(q, m))
        \/ mapaBloques \ disco'[m] \subseteq sinMapa
    <3>1. CASE b = m
      BY <1>2, <1>4, <2>1, <3>1
    <3>2. CASE b # m
      BY <1>4, <2>2, <3>2
    <3> QED BY <3>1, <3>2
  <2>4. ASSUME NEW i \in Inodos
        PROVE  DeDisco(i)' \cup DePeticiones(i)' \subseteq disco'[m] \cup sinMapa'
    <3>1. DeDisco(i)' \cup DePeticiones(i)' \subseteq DeDisco(i) \cup DePeticiones(i)
      BY <1>10
    <3>2. DeDisco(i) \cup DePeticiones(i) \subseteq mapaBloques
      BY DEF Separados, Suyos
    <3>3. DeDisco(i) \cup DePeticiones(i) \subseteq disco[m] \cup sinMapa
      BY DEF MapaAntes
    <3> QED BY <2>3, <3>1, <3>2, <3>3
  <2>5. ASSUME NEW q \in Procesos, EscribeMapa(q)'
        PROVE  mapaBloques' \ peticion'[q].valor \subseteq sinMapa'
    <3>1. Escribe(q, peticion[q].bloque) /\ peticion[q].bloque = m
      BY <1>7, <2>5 DEF EscribeMapa
    <3>2. PICK w \in Procesos : Escribe(w, m) /\ peticion'[q].valor = peticion[w].valor
      BY <1>8, <3>1
    <3> QED BY <2>1, <3>2
  <2>6. ASSUME NEW q \in Procesos, PasadoElMapa(q)'
        PROVE  mapaBloques' \ disco'[m] \subseteq sinMapa'
    <3>1. CASE disco'[m] = disco[m] /\ (b = m => \A w \in A : ~Escribe(w, m))
      <4>1. En(q, "sincronizar") /\ llamada'[q] = llamada[q]
        BY <1>14, <2>6 DEF PasadoElMapa
      <4>2. peticion[q] # NULL /\ peticion[q].op = "escribir" /\ peticion[q].bloque = llamada[q].bloque
        BY <4>1 DEF LlamadasBien, En
      <4>3. PasadoElMapa(q)
        <5>1. CASE llamada[q].bloque > BloqueMapaDatos
          BY <4>1, <5>1 DEF PasadoElMapa
        <5>2. CASE ~(llamada[q].bloque > BloqueMapaDatos)
          <6>1. llamada[q].bloque = m /\ peticion'[q].hecha
            BY <2>6, <5>2 DEF PasadoElMapa
          <6>2. q \notin A
            BY <1>1, <3>1, <4>2, <6>1
          <6> QED BY <1>6, <4>1, <6>1, <6>2 DEF PasadoElMapa
        <5> QED BY <5>1, <5>2
      <4> QED BY <3>1, <4>3 DEF MapaAntes
    <3>2. CASE mapaBloques \ disco'[m] \subseteq sinMapa
      BY <3>2
    <3> QED BY <2>3, <3>1, <3>2
  <2> QED BY <2>4, <2>5, <2>6 DEF MapaAntes
<1>p. Propios'
  BY PropiosSigue
<1> QED BY <1>p, <1>11, <1>12, <1>13, <1>15, <1>16, <1>17, <1>18

LEMMA PasoServir ==
    ASSUME InvFS, Servir
    PROVE  InvFS'
<1>1. PICK b \in Bloques : \E n \in 1 .. Len(espera[b]) : Dev!Servir(b, n)
  BY DEF Servir
<1>n. PICK n \in 1 .. Len(espera[b]) : Dev!Servir(b, n)
  BY <1>1
<1>2. UNCHANGED <<montado, inodos, mapaInodos, mapaBloques, creados, desc, reservados, byteSiguiente, llamada,
                  compartido, sinMapa, cruzado>>
  BY DEF Servir, volumen, procesos, historias
<1>3. \E A, v : Deja(A, b, v)
  BY <1>n, ServirDeja DEF InvFS
<1>4. montado
  <2>1. espera[b] # <<>>
    OBVIOUS
  <2> QED BY <2>1 DEF InvFS, Desmontado
<1> QED BY <1>2, <1>3, <1>4, PasoServirBloque

-----------------------------------------------------------------------------
(* Mounting and stopping                                                   *)

LEMMA InodosDelDisco == TiposFS => \A i \in Inodos : EnDisco(i) \in InodosBien
<1> SUFFICES ASSUME TiposFS, NEW i \in Inodos PROVE EnDisco(i) \in InodosBien
  OBVIOUS
<1>1. BloqueInodo(i) \in Bloques
  BY Disposicion
<1>2. disco[BloqueInodo(i)] \in ValorDe(BloqueInodo(i))
  BY <1>1 DEF TiposFS
<1> QED BY <1>2, Valores DEF EnDisco

LEMMA PasoMontar ==
    ASSUME InvFS, MontarVolumen
    PROVE  InvFS'
<1> USE DEF InvFS
<1>1. /\ ~montado /\ montado' = TRUE
      /\ mapaInodos' = disco[BloqueMapaInodos] /\ mapaBloques' = disco[BloqueMapaDatos]
      /\ inodos' = [i \in Inodos |-> IF i \in disco[BloqueMapaInodos] THEN EnDisco(i) ELSE NULL]
      /\ UNCHANGED <<disco, peticion, espera, creados, desc, reservados, byteSiguiente, llamada,
                     compartido, sinMapa, cruzado>>
  BY DEF MontarVolumen, dispositivo, procesos, EnDisco
<1>2. /\ \A p \in Procesos : peticion[p] = NULL /\ desc[p] = NULL /\ llamada[p] = NULL
      /\ creados \subseteq Procesos
  BY <1>1 DEF Desmontado, TiposFS
<1>3. /\ disco[BloqueMapaInodos] \subseteq Inodos /\ disco[BloqueMapaDatos] \subseteq Datos
      /\ \A i \in Inodos : EnDisco(i) \in InodosBien
  <2>1. BloqueMapaInodos \in Bloques /\ BloqueMapaDatos \in Bloques
    BY Disposicion DEF BloqueMapaInodos, BloqueMapaDatos
  <2>2. disco[BloqueMapaInodos] \subseteq Inodos /\ disco[BloqueMapaDatos] \subseteq Datos
    BY <2>1, Valores DEF TiposFS
  <2> QED BY <2>2, InodosDelDisco
<1>4. /\ inodos' \in [Inodos -> InodosBien \cup {NULL}]
      /\ mapaInodos' = {i \in Inodos : inodos'[i] # NULL}
      /\ \A i \in Inodos : inodos'[i] # NULL => inodos'[i] = EnDisco(i)
  BY <1>1, <1>3, NULLAparte
<1>5. TiposFS'
  BY <1>1, <1>3, <1>4 DEF TiposFS, ConValor
<1>6. Colas' /\ Desmontado'
  BY <1>1 DEF Colas, Desmontado
<1>7. DescriptoresBien'
  BY <1>1, <1>2 DEF DescriptoresBien
<1>8. LlamadasBien'
  BY <1>1, <1>2 DEF LlamadasBien, EnFichero, En
<1>9. \A i \in Inodos : EnDisco(i)' = EnDisco(i) /\ EscribenInodo(i)' = {} /\ Escribiendo(i)' = {}
  BY <1>1, <1>2 DEF EnDisco, EscribenInodo, Escribiendo
<1>10. Caben'
  BY <1>1, <1>2, <1>4, <1>9 DEF Caben, EnFichero
<1>11. \A i \in Inodos : Suyos(i)' \subseteq DeDisco(i) /\ DePeticiones(i)' = {}
                         /\ DeDisco(i)' = DeDisco(i)
  <2>1. \A i \in Inodos : DeLlamadas(i)' = {} /\ DePeticiones(i)' = {} /\ DeDisco(i)' = DeDisco(i)
    BY <1>9 DEF DeLlamadas, DePeticiones, DeDisco
  <2>2. \A i \in Inodos : DeMemoria(i)' \subseteq DeDisco(i)
    BY <1>4, <1>9 DEF DeMemoria, DeDisco
  <2> QED BY <2>1, <2>2 DEF Suyos
<1>12. Separados'
  <2>1. \A i \in Inodos : DeDisco(i) \subseteq Suyos(i)
    BY DEF Suyos
  <2>2. ~cruzado => \A i \in Inodos : DeDisco(i) \subseteq disco[BloqueMapaDatos]
    BY <1>1 DEF MapaAntes, SinMarcar, DeDisco
  <2> QED BY <1>1, <1>11, <2>1, <2>2 DEF Separados
<1>13. MapaAntes'
  <2>1. \A p \in Procesos : ~EscribeMapa(p)' /\ ~PasadoElMapa(p)'
    BY <1>1, <1>2 DEF EscribeMapa, PasadoElMapa, En
  <2> QED BY <1>1, <1>11, <2>1 DEF MapaAntes
<1>p. Propios'
  BY <1>1, PropiosSigue
<1> QED BY <1>p, <1>5, <1>6, <1>7, <1>8, <1>10, <1>12, <1>13

LEMMA PasoApagon ==
    ASSUME InvFS, Apagon
    PROVE  InvFS'
<1> USE DEF InvFS
<1>1. Arrancar'
  BY DEF Apagon, Arrancar
<1>2. /\ disco' = disco /\ compartido' = compartido /\ montado' = FALSE /\ mapaBloques' = {} /\ sinMapa' = {}
      /\ cruzado' = (cruzado \/ SinMarcar # {})
  BY DEF Apagon
<1>3. SinMemoria'
  BY <1>1, ArrancarDeNuevo
<1>4. \A i \in Inodos : EnDisco(i)' = EnDisco(i) /\ DeDisco(i)' = DeDisco(i)
  BY <1>2 DEF EnDisco, DeDisco
<1>5. TiposFS'
  BY <1>2, <1>3 DEF TiposFS, SinMemoria
<1>6. Desmontado'
  BY <1>2, <1>3 DEF Desmontado, SinMemoria
<1>7. \A p \in Procesos : ~EnFichero(p)' /\ ~EscribeMapa(p)' /\ ~PasadoElMapa(p)'
  BY <1>3 DEF SinMemoria, EnFichero, EscribeMapa, PasadoElMapa, En
<1>8. Caben'
  BY <1>2, <1>3, <1>4, <1>7 DEF Caben, SinMemoria
<1>9. \A i \in Inodos : Suyos(i)' = DeDisco(i) /\ DeDisco(i) \subseteq Suyos(i)
  BY <1>3, <1>4 DEF SinMemoria, Suyos
<1>10. Separados'
  <2>1. ~cruzado' => ~cruzado
    BY <1>2
  <2>2. ~cruzado => \A i \in Inodos : \A j \in Inodos \ {i} : Suyos(i) \cap Suyos(j) = {}
    BY DEF Separados
  <2>3. ~cruzado => \A i \in Inodos : \A j \in Inodos \ {i} : Suyos(i)' \cap Suyos(j)' = {}
    BY <1>9, <2>2
  <2> QED BY <1>2, <2>1, <2>3 DEF Separados
<1>11. MapaAntes'
  <2>1. SinMarcar' = SinMarcar
    BY <1>2, <1>4 DEF SinMarcar
  <2>2. SinMarcar = {} => \A i \in Inodos : DeDisco(i) \subseteq disco[BloqueMapaDatos]
    BY DEF SinMarcar, DeDisco
  <2>3. \A i \in Inodos : DePeticiones(i)' = {}
    BY <1>3 DEF SinMemoria, DePeticiones
  <2> QED BY <1>2, <1>4, <1>7, <2>1, <2>2, <2>3 DEF MapaAntes
<1>p. Propios'
  BY <1>2, <1>3 DEF SinMemoria, Propios
<1> QED BY <1>p, <1>3, <1>5, <1>6, <1>8, <1>10, <1>11 DEF SinMemoria

LEMMA PasoCerrar ==
    ASSUME InvFS, NEW p \in Procesos, Cerrar(p)
    PROVE  InvFS'
BY PasoLiberar, PasoApagon DEF Cerrar

-----------------------------------------------------------------------------
(* The invariant holds always                                              *)

LEMMA PasoQuieto == InvFS /\ UNCHANGED vars => InvFS'
<1> SUFFICES ASSUME InvFS, UNCHANGED vars PROVE InvFS'
  OBVIOUS
<1> USE DEF InvFS, vars, dispositivo, volumen, procesos, historias
<1>1. TiposFS' /\ Colas' /\ Desmontado' /\ DescriptoresBien'
  BY DEF TiposFS, ConValor, Colas, Desmontado, DescriptoresBien
<1>2. LlamadasBien'
  BY DEF LlamadasBien, EnFichero, En, Inodo
<1>3. Caben'
  BY DEF Caben, EnDisco, EscribenInodo, EnFichero, Desborda, Siguiente
<1>4. /\ \A i \in Inodos : Suyos(i)' = Suyos(i) /\ DeDisco(i)' = DeDisco(i)
                           /\ DePeticiones(i)' = DePeticiones(i)
      /\ SinMarcar' = SinMarcar
  BY DEF Suyos, DeMemoria, DeLlamadas, DePeticiones, DeDisco, EscribenInodo, Escribiendo, En,
         EnDisco, SinMarcar
<1>5. Separados'
  BY <1>4 DEF Separados
<1>6. MapaAntes'
  BY <1>4 DEF MapaAntes, EscribeMapa, PasadoElMapa, En
<1>p. Propios'
  BY PropiosSigue
<1> QED BY <1>p, <1>1, <1>2, <1>3, <1>5, <1>6

LEMMA InvFSInductivo == InvFS /\ [Next]_vars => InvFS'
<1> SUFFICES ASSUME InvFS, [Next]_vars PROVE InvFS'
  OBVIOUS
<1>1. CASE \E p \in Procesos, q \in Procesos : CrearProceso(p, q)
  BY <1>1, PasoCrearProceso
<1>2. CASE \E p \in Procesos, n \in Nombres : Abrir(p, n)
  BY <1>2, PasoAbrir
<1>3. CASE \E p \in Procesos, n \in Tamanyos : LeerFichero(p, n) \/ EscribirFichero(p, n)
  BY <1>3, PasoLeerFichero, PasoEscribirFichero
<1>4. ASSUME NEW p \in Procesos,
             \/ Cerrar(p) \/ FinLeer(p) \/ GrabarBloque(p) \/ FinEscribir(p)
             \/ Sincronizar(p) \/ SeguirSincronizar(p) \/ FinSincronizar(p)
      PROVE  InvFS'
  BY <1>4, PasoCerrar, PasoFinLeer, PasoGrabarBloque, PasoFinEscribir, PasoSincronizar,
     PasoSeguirSincronizar, PasoFinSincronizar
<1>5. CASE MontarVolumen
  BY <1>5, PasoMontar
<1>6. CASE Servir
  BY <1>6, PasoServir
<1>7. CASE Apagon
  BY <1>7, PasoApagon
<1>8. CASE UNCHANGED vars
  BY <1>8, PasoQuieto
<1> QED BY <1>1, <1>2, <1>3, <1>4, <1>5, <1>6, <1>7, <1>8 DEF Next

LEMMA InvFSSiempre == Spec => []InvFS
<1> QED BY InicialFS, InvFSInductivo, PTL DEF Spec

-----------------------------------------------------------------------------
(* The properties                                                          *)

(* The tables of the module are well formed: the map of inodes is the      *)
(* inodes in memory, an open descriptor has an inode there is and a        *)
(* position, and a call waits for a request.                               *)
THEOREM TiposDelSistema == Spec => []TypeOKFS
<1>1. InvFS => TypeOKFS
  <2> SUFFICES ASSUME InvFS PROVE TypeOKFS
    OBVIOUS
  <2> USE DEF InvFS
  <2>1. ASSUME NEW i \in mapaInodos, ~compartido PROVE inodos[i] \in InodosPosibles
    <3>1. i \in Inodos /\ inodos[i] \in InodosBien /\ inodos[i].tamanyo <= FS_BLOCK_SIZE
      BY <2>1 DEF TiposFS, Caben
    <3>2. inodos[i] \in RegistrosInodo /\ inodos[i].tamanyo \in 0 .. FS_BLOCK_SIZE
      BY <3>1, Disposicion DEF InodosBien, RegistrosInodo
    <3> QED BY <3>2 DEF RegistrosInodo, InodosPosibles
  <2>2. ASSUME NEW p \in Procesos, llamada[p] # NULL
        PROVE  /\ p \in creados /\ peticion[p] # NULL
               /\ llamada[p].fase # "sincronizar" => desc[p] # NULL /\ llamada[p].n \in Nat \ {0}
    <3>1. llamada[p] \in Llamadas
      BY <2>2 DEF TiposFS
    <3> QED BY <2>2, <3>1, TiposLlamada DEF LlamadasBien, EnFichero
  <2> QED BY <2>1, <2>2 DEF TypeOKFS, TiposFS, DescriptoresBien
<1> QED BY <1>1, InvFSSiempre, PTL

(* No two files have a block in common, and every block of a file is       *)
(* marked in the map in memory (reservarBloque_discoFS,                    *)
(* asignarNuevoBloque_discoFS), whatever calls wait and whenever the       *)
(* machine stops.                                                          *)
THEOREM BloquesSiempreSeparados == Spec => []BloquesSeparados
<1>1. InvFS => BloquesSeparados
  <2> SUFFICES ASSUME InvFS, ~cruzado, NEW i \in Inodos
               PROVE  /\ BloquesDe(i) \subseteq mapaBloques
                      /\ \A j \in Inodos \ {i} : BloquesDe(i) \cap BloquesDe(j) = {}
    BY DEF BloquesSeparados
  <2> USE DEF InvFS
  <2>1. \A j \in Inodos : BloquesDe(j) \subseteq DeMemoria(j) \cup DeLlamadas(j)
    BY DEF BloquesDe, DeMemoria, DeLlamadas, Escribiendo, En
  <2>2. \A j \in Inodos : BloquesDe(j) \subseteq Suyos(j)
    BY <2>1 DEF Suyos
  <2>3. CASE montado
    BY <2>2, <2>3 DEF Separados
  <2>4. CASE ~montado
    <3>1. inodos[i] = NULL /\ Escribiendo(i) = {}
      BY <2>4 DEF Desmontado, Escribiendo, TiposFS
    <3>2. BloquesDe(i) = {}
      BY <3>1 DEF BloquesDe
    <3> QED BY <3>2
  <2> QED BY <2>3, <2>4
<1> QED BY <1>1, InvFSSiempre, PTL

(* A stop at any moment leaves on the device inodes whose blocks are in    *)
(* the map there, or were assigned in the middle of a                      *)
(* sincronizarVolumen, and no block in two inodes.                         *)
THEOREM ApagonSiempreSeguro == Spec => []ApagonSeguro
<1>1. InvFS => ApagonSeguro
  <2> SUFFICES ASSUME InvFS, ~cruzado PROVE ApagonSeguro
    BY DEF ApagonSeguro
  <2> USE DEF InvFS
  <2>1. \A i \in Inodos : EnDisco(i) \in InodosBien
    BY InodosDelDisco
  <2>2. \A i \in Inodos : EnDisco(i).tamanyo > 0 => EnDisco(i).bloqueDirecto \in DeDisco(i)
    BY <2>1 DEF InodosBien, DeDisco
  <2>3. \A i \in SinMarcar : EnDisco(i).bloqueDirecto \in sinMapa
    BY <2>2 DEF SinMarcar, MapaAntes
  <2>4. disco[BloqueMapaInodos] \subseteq Inodos
    <3>1. BloqueMapaInodos \in Bloques
      BY Disposicion DEF BloqueMapaInodos
    <3> QED BY <3>1, Valores DEF TiposFS
  <2>5. \A i \in Inodos : \A j \in Inodos \ {i} : DeDisco(i) \cap DeDisco(j) = {}
    BY DEF Separados, Suyos
  <2>6. ASSUME NEW i \in disco[BloqueMapaInodos], NEW j \in disco[BloqueMapaInodos],
               i # j, EnDisco(i).tamanyo > 0, EnDisco(j).tamanyo > 0
        PROVE  EnDisco(i).bloqueDirecto # EnDisco(j).bloqueDirecto
    BY <2>2, <2>4, <2>5, <2>6
  <2> QED BY <2>3, <2>6 DEF ApagonSeguro
<1> QED BY <1>1, InvFSSiempre, PTL

------------------------------------------------------------------
(* What the files have: the inductive invariant                            *)

(* A call that is going to write a file, and one that is writing it.       *)
Escribe(p) == En(p, "modificar") \/ En(p, "grabar")
Graba(p, i) == En(p, "grabar") /\ desc[p].inodo = i

(* A file that two calls have not been at is written by one at most, in    *)
(* the block its inode has.                                                *)
UnEscritor ==
    \A p, q \in Procesos :
        (Escribe(p) /\ Escribe(q) /\ desc[p].inodo = desc[q].inodo /\ desc[p].inodo \notin mezclado)
            => p = q
SuBloque ==
    \A p \in Procesos : Escribe(p) /\ desc[p].inodo \notin mezclado =>
        peticion[p].bloque = Inodo(p).bloqueDirecto

(* A call that writes, even one whose file has another block since, writes *)
(* a block that is marked and that no other file has.                      *)
GrabanLoSuyo ==
    ~cruzado => \A p \in Procesos : En(p, "grabar") =>
        /\ peticion[p].bloque \in mapaBloques
        /\ \A i \in Inodos : i # desc[p].inodo => peticion[p].bloque \notin DeMemoria(i)

(* Descriptors that share their data, unless one of them freed it, are of  *)
(* one inode, and their position is not past its end.                      *)
MismoInodo ==
    ~compartido => \A p, q \in Procesos :
        desc[p] # NULL /\ desc[q] # NULL /\ desc[p].datos = desc[q].datos => desc[p].inodo = desc[q].inodo
Posiciones ==
    ~compartido => \A p \in Procesos :
        /\ desc[p] # NULL => Siguiente(p) <= Inodo(p).tamanyo
        /\ En(p, "leer") => Siguiente(p) + llamada[p].n <= Inodo(p).tamanyo

(* The first n bytes of v are those written to the file i.                 *)
Iguales(v, i, n) == \A k \in 1 .. n : v[k] = contenido[i][k]

Limpio == ~cruzado /\ ~compartido

(* A file that nobody is writing has them on the device; a call that read  *)
(* the block to change it got them; one that writes it has them, with its  *)
(* own, and leaves them on the device.                                     *)
DatosInodos ==
    Limpio => \A i \in Inodos :
        (inodos[i] # NULL /\ i \notin mezclado /\ \A q \in Procesos : ~Graba(q, i)) =>
            Iguales(disco[inodos[i].bloqueDirecto], i, inodos[i].tamanyo)
DatosLlamadas ==
    Limpio => \A p \in Procesos : Escribe(p) /\ desc[p].inodo \notin mezclado =>
        /\ En(p, "modificar") /\ peticion[p].hecha =>
              Iguales(peticion[p].valor, desc[p].inodo, Inodo(p).tamanyo)
        /\ En(p, "grabar") =>
              /\ Iguales(peticion[p].valor, desc[p].inodo, Inodo(p).tamanyo)
              /\ Iguales(peticion[p].valor, desc[p].inodo, Siguiente(p) + llamada[p].n)
              /\ peticion[p].hecha => disco[peticion[p].bloque] = peticion[p].valor

Escrituras ==
    /\ contenido \in [Inodos -> Contenidos] /\ UnEscritor /\ SuBloque /\ GrabanLoSuyo
    /\ DatosInodos /\ DatosLlamadas

InvDatos == Escrituras /\ MismoInodo /\ Posiciones

(* The calls that write a file, and what they have.                        *)
Escritores ==
    /\ \A i \in Inodos : Escribiendo(i) = {q \in Procesos : Escribe(q) /\ desc[q].inodo = i}
    /\ \A q \in Procesos : Escribe(q) =>
          /\ EnFichero(q) /\ desc[q] # NULL /\ desc[q].inodo \in Inodos
          /\ inodos[desc[q].inodo] # NULL /\ Inodo(q) = inodos[desc[q].inodo]
          /\ Inodo(q).bloqueDirecto \in Datos /\ Inodo(q).tamanyo \in Nat
          /\ Siguiente(q) \in Int /\ peticion[q] # NULL /\ peticion[q].bloque \in Datos
          /\ llamada[q].n \in Nat \ {0}

LEMMA QuienEscribe == InvFS => Escritores
<1> SUFFICES ASSUME InvFS PROVE Escritores
  OBVIOUS
<1> USE DEF InvFS
<1>1. \A i \in Inodos : Escribiendo(i) = {q \in Procesos : Escribe(q) /\ desc[q].inodo = i}
  BY DEF Escribiendo, Escribe, En, LlamadasBien, TiposFS
<1>2. ASSUME NEW q \in Procesos, Escribe(q)
      PROVE  /\ EnFichero(q) /\ desc[q] # NULL /\ desc[q].inodo \in Inodos
             /\ inodos[desc[q].inodo] # NULL /\ Inodo(q) = inodos[desc[q].inodo]
             /\ Inodo(q).bloqueDirecto \in Datos /\ Inodo(q).tamanyo \in Nat
             /\ Siguiente(q) \in Int /\ peticion[q] # NULL /\ peticion[q].bloque \in Datos
             /\ llamada[q].n \in Nat \ {0}
  <2>1. EnFichero(q) /\ llamada[q] # NULL /\ llamada[q] \in Llamadas
    BY <1>2 DEF Escribe, En, EnFichero, TiposFS
  <2>2. desc[q] # NULL /\ peticion[q] # NULL /\ Inodo(q).bloqueDirecto \in Datos
    BY <1>2, <2>1 DEF LlamadasBien, Escribe
  <2>3. /\ desc[q].inodo \in Inodos /\ Inodo(q).tamanyo \in Nat /\ Siguiente(q) \in Int
        /\ Inodo(q) \in InodosBien
    BY <2>2, ConDescriptor
  <2>4. llamada[q].n \in Nat \ {0} /\ (En(q, "modificar") => llamada[q].bloque \in Datos)
    BY <1>2, <2>1, TiposLlamada DEF Escribe, En
  <2>5. peticion[q].bloque \in Datos
    BY <1>2, <2>4 DEF LlamadasBien, Escribe
  <2> QED BY <2>1, <2>2, <2>3, <2>4, <2>5, NULLAparte DEF Inodo
<1> QED BY <1>1, <1>2 DEF Escritores

LEMMA QuienEscribeDespues == InvFS' => Escritores'
BY QuienEscribe, PTL

-----------------------------------------------------------------------------
(* A step that is not of the calls that write: they, the blocks and what   *)
(* was written stay, and an inode is at most new.                          *)
Quietos ==
    /\ UNCHANGED <<disco, contenido, mezclado, cruzado, mapaBloques>> /\ (compartido => compartido')
    /\ \A p \in Procesos : /\ En(p, "modificar")' <=> En(p, "modificar")
                           /\ En(p, "grabar")' <=> En(p, "grabar")
    /\ \A p \in Procesos : Escribe(p) =>
          /\ llamada'[p] = llamada[p] /\ peticion'[p] = peticion[p] /\ desc'[p] = desc[p]
          /\ ~compartido' => Siguiente(p)' = Siguiente(p)
    /\ \A i \in Inodos : inodos'[i] = inodos[i] \/ (inodos[i] = NULL /\ inodos'[i].tamanyo = 0)

LEMMA QuietosDatos ==
    ASSUME InvFS, InvFS', Escrituras, Quietos
    PROVE  Escrituras'
<1>1. Escritores /\ Escritores'
  BY QuienEscribe, QuienEscribeDespues
<1>2. \A p \in Procesos : /\ Escribe(p)' <=> Escribe(p)
                          /\ En(p, "modificar")' <=> En(p, "modificar")
                          /\ En(p, "grabar")' <=> En(p, "grabar")
  BY DEF Quietos, Escribe
<1>3. \A p \in Procesos : Escribe(p) => desc'[p] = desc[p] /\ Inodo(p)' = Inodo(p)
  BY <1>1 DEF Quietos, Escritores, Inodo
<1>4. \A i \in Inodos : Escribiendo(i)' = Escribiendo(i)
  <2>1. ASSUME NEW i \in Inodos, NEW q \in Procesos
        PROVE  (Escribe(q)' /\ desc'[q].inodo = i) <=> (Escribe(q) /\ desc[q].inodo = i)
    BY <1>2, <1>3
  <2>2. ASSUME NEW i \in Inodos
        PROVE  /\ Escribiendo(i) = {q \in Procesos : Escribe(q) /\ desc[q].inodo = i}
               /\ Escribiendo(i)' = {q \in Procesos : Escribe(q)' /\ desc'[q].inodo = i}
    BY <1>1 DEF Escritores
  <2> QED BY <2>1, <2>2
<1>5. contenido' \in [Inodos -> Contenidos] /\ UnEscritor' /\ SuBloque'
  BY <1>2, <1>3 DEF Quietos, Escrituras, UnEscritor, SuBloque
<1>6. \A i \in Inodos : DeMemoria(i)' \subseteq DeMemoria(i)
  <2>1. \A i \in Inodos : Escribiendo(i) # {} => inodos[i] # NULL
    BY <1>1 DEF Escritores
  <2> QED BY <1>4, <2>1 DEF Quietos, DeMemoria
<1>7. GrabanLoSuyo'
  <2>1. \A p \in Procesos : En(p, "grabar") => Escribe(p)
    BY DEF Escribe
  <2> QED BY <1>2, <1>3, <1>6, <2>1 DEF Quietos, Escrituras, GrabanLoSuyo
<1>8. Limpio' => Limpio
  BY DEF Limpio, Quietos
<1>9. DatosInodos'
  <2> SUFFICES ASSUME Limpio', NEW i \in Inodos, inodos'[i] # NULL, i \notin mezclado',
                      \A q \in Procesos : ~Graba(q, i)', NEW k \in 1 .. inodos'[i].tamanyo
               PROVE  disco'[inodos'[i].bloqueDirecto][k] = contenido'[i][k]
    BY DEF DatosInodos, Iguales
  <2>1. inodos'[i] = inodos[i]
    BY DEF Quietos
  <2>2. \A q \in Procesos : ~Graba(q, i)
    BY <1>2, <1>3 DEF Graba, Escribe
  <2> QED BY <1>8, <2>1, <2>2 DEF Quietos, Escrituras, DatosInodos, Iguales
<1>10. DatosLlamadas'
  <2>1. ASSUME Limpio', NEW p \in Procesos, Escribe(p), desc[p].inodo \notin mezclado
        PROVE  /\ En(p, "modificar") /\ peticion[p].hecha =>
                     Iguales(peticion[p].valor, desc[p].inodo, Inodo(p).tamanyo)
               /\ En(p, "grabar") =>
                     /\ Iguales(peticion[p].valor, desc[p].inodo, Inodo(p).tamanyo)
                     /\ Iguales(peticion[p].valor, desc[p].inodo, Siguiente(p) + llamada[p].n)
                     /\ peticion[p].hecha => disco[peticion[p].bloque] = peticion[p].valor
    BY <1>8, <2>1 DEF Escrituras, DatosLlamadas
  <2>2. ASSUME Limpio', NEW p \in Procesos, Escribe(p)
        PROVE  /\ llamada'[p] = llamada[p] /\ peticion'[p] = peticion[p] /\ desc'[p] = desc[p]
               /\ Siguiente(p)' = Siguiente(p)
    BY <2>2 DEF Quietos, Limpio
  <2> QED BY <1>2, <1>3, <2>1, <2>2 DEF Quietos, DatosLlamadas, Iguales
<1> QED BY <1>5, <1>7, <1>9, <1>10 DEF Escrituras

LEMMA IgualDatos ==
    ASSUME InvFS, InvFS', InvDatos,
           UNCHANGED <<disco, contenido, mezclado, cruzado, mapaBloques, desc, byteSiguiente, inodos>>,
           compartido => compartido',
           \A p \in Procesos : \A f \in {"leer", "modificar", "grabar"} : En(p, f)' <=> En(p, f),
           \A p \in Procesos : EnFichero(p) => llamada'[p] = llamada[p] /\ peticion'[p] = peticion[p]
    PROVE  InvDatos'
<1>1. Quietos
  BY DEF Quietos, Escribe, En, EnFichero, Siguiente
<1>2. Escrituras'
  BY <1>1, QuietosDatos DEF InvDatos
<1>3. MismoInodo'
  BY DEF InvDatos, MismoInodo
<1>4. Posiciones'
  BY DEF InvDatos, Posiciones, Siguiente, Inodo, En, EnFichero
<1> QED BY <1>2, <1>3, <1>4 DEF InvDatos

LEMMA DatosQuieto == InvFS /\ InvFS' /\ InvDatos /\ UNCHANGED vars => InvDatos'
BY IgualDatos DEF vars, dispositivo, volumen, procesos, historias, En

LEMMA DatosSincronizar ==
    ASSUME InvFS, InvFS', InvDatos, NEW p \in Procesos,
           Sincronizar(p) \/ SeguirSincronizar(p) \/ FinSincronizar(p)
    PROVE  InvDatos'
<1>1. llamada \in [Procesos -> Llamadas \cup {NULL}] /\ peticion \in [Procesos -> Peticiones \cup {NULL}]
  BY DEF InvFS, TiposFS
<1>2. /\ UNCHANGED <<disco, contenido, mezclado, cruzado, mapaBloques, desc, byteSiguiente, inodos, compartido>>
      /\ llamada[p] = NULL \/ llamada[p].fase = "sincronizar"
      /\ \A q \in Procesos \ {p} : llamada'[q] = llamada[q] /\ peticion'[q] = peticion[q]
  <2>1. CASE Sincronizar(p)
    BY <1>1, <2>1 DEF Sincronizar, Libre, Dev!Pedir, volumen
  <2>2. CASE SeguirSincronizar(p)
    BY <1>1, <2>2 DEF SeguirSincronizar, volumen, historias
  <2>3. CASE FinSincronizar(p)
    BY <1>1, <2>3 DEF FinSincronizar, Dev!Terminar, volumen, historias
  <2> QED BY <2>1, <2>2, <2>3
<1>3. llamada'[p] = NULL \/ llamada'[p].fase = "sincronizar"
  <2>1. CASE Sincronizar(p)
    <3>1. llamada'[p] = [fase |-> "sincronizar", bloque |-> BloqueSuper, foto |-> Foto]
      BY <1>1, <2>1 DEF Sincronizar
    <3> QED BY <3>1
  <2>2. CASE SeguirSincronizar(p)
    <3>1. llamada[p] # NULL /\ llamada[p].fase = "sincronizar"
      BY <2>2 DEF SeguirSincronizar
    <3>2. llamada[p] \in [fase : {"sincronizar"}, bloque : Bloques \ Datos, foto : Fotos]
      BY <1>1, <3>1 DEF Llamadas
    <3>3. \E b : llamada'[p] = [llamada[p] EXCEPT !.bloque = b]
      BY <1>1, <2>2 DEF SeguirSincronizar
    <3> QED BY <3>1, <3>2, <3>3
  <2>3. CASE FinSincronizar(p)
    BY <1>1, <2>3 DEF FinSincronizar
  <2> QED BY <2>1, <2>2, <2>3
<1>4. \A q \in Procesos : \A f \in {"leer", "modificar", "grabar"} : En(q, f)' <=> En(q, f)
  BY <1>2, <1>3 DEF En
<1>5. \A q \in Procesos : EnFichero(q) => q # p
  BY <1>2 DEF EnFichero
<1> QED BY <1>2, <1>4, <1>5, IgualDatos

-----------------------------------------------------------------------------
(* Processes, descriptors, reads                                           *)

LEMMA DatosCrearProceso ==
    ASSUME InvFS, InvFS', InvDatos, NEW p \in Procesos, NEW q \in Procesos, CrearProceso(p, q)
    PROVE  InvDatos'
<1>1. /\ q \notin creados /\ desc' = [desc EXCEPT ![q] = desc[p]]
      /\ UNCHANGED <<disco, peticion, inodos, mapaBloques, byteSiguiente, llamada, contenido, mezclado,
                     compartido, cruzado>>
  BY DEF CrearProceso, dispositivo, volumen, historias
<1>2. /\ desc'[q] = desc[p] /\ \A r \in Procesos \ {q} : desc'[r] = desc[r]
      /\ llamada[q] = NULL
  BY <1>1 DEF InvFS, TiposFS, LlamadasBien
<1>3. \A r \in Procesos : \A f : (En(r, f)' <=> En(r, f)) /\ (En(r, f) => r # q)
  BY <1>1, <1>2 DEF En
<1>4. Quietos
  BY <1>1, <1>2, <1>3 DEF Quietos, Escribe, Siguiente
<1>5. Escrituras'
  BY <1>4, QuietosDatos DEF InvDatos
<1>6. MismoInodo'
  BY <1>1, <1>2 DEF InvDatos, MismoInodo
<1>7. Posiciones'
  BY <1>1, <1>2, <1>3 DEF InvDatos, Posiciones, Siguiente, Inodo
<1> QED BY <1>5, <1>6, <1>7 DEF InvDatos

LEMMA DatosAbrir ==
    ASSUME InvFS, InvFS', InvDatos, NEW p \in Procesos, NEW n \in Nombres, Abrir(p, n)
    PROVE  InvDatos'
<1>1. PICK i \in Inodos, d \in Direcciones \ reservados :
         /\ \/ inodos[i] # NULL /\ UNCHANGED inodos
            \/ CrearInodo(i, n)
         /\ byteSiguiente' = [byteSiguiente EXCEPT ![d] = 0]
         /\ desc' = [desc EXCEPT ![p] = [inodo |-> i, datos |-> d]]
  BY DEF Abrir, ConNombre
<1>2. /\ llamada[p] = NULL
      /\ UNCHANGED <<disco, peticion, mapaBloques, llamada, contenido, mezclado, compartido, cruzado>>
  BY DEF Abrir, Libre, dispositivo
<1>3. /\ inodos'[i] # NULL /\ inodos'[i].tamanyo \in Nat
      /\ \A j \in Inodos : \/ inodos'[j] = inodos[j]
                           \/ inodos[j] = NULL /\ inodos'[j].tamanyo = 0
  <2>1. CASE inodos[i] # NULL /\ UNCHANGED inodos
    BY <2>1 DEF InvFS, TiposFS, InodosBien, RegistrosInodo
  <2>2. CASE CrearInodo(i, n)
    BY <2>2, CrearInodoHace, NULLAparte DEF InvFS
  <2> QED BY <1>1, <2>1, <2>2
<1>4. /\ desc'[p] # NULL /\ desc'[p].inodo = i /\ desc'[p].datos = d
      /\ \A r \in Procesos \ {p} : desc'[r] = desc[r]
  <2>1. desc'[p] = [inodo |-> i, datos |-> d]
    BY <1>1 DEF InvFS, TiposFS
  <2> QED BY <1>1, <2>1, NULLAparte DEF InvFS, TiposFS, Descriptores
<1>5. /\ byteSiguiente'[d] = 0
      /\ \A e \in Direcciones \ {d} : byteSiguiente'[e] = byteSiguiente[e]
  BY <1>1 DEF InvFS, TiposFS
<1>6. \A r \in Procesos : desc[r] # NULL =>
         /\ desc[r].inodo \in Inodos /\ inodos[desc[r].inodo] # NULL
         /\ desc[r].datos \in Direcciones /\ (~compartido => desc[r].datos # d)
  BY <1>1, NULLAparte DEF InvFS, TiposFS, DescriptoresBien, Descriptores, Propios
<1>7. \A r \in Procesos : \A f : (En(r, f)' <=> En(r, f)) /\ (En(r, f) => r # p)
  BY <1>2 DEF En
<1>8. \A r \in Procesos \ {p} : desc[r] # NULL =>
         Inodo(r)' = Inodo(r) /\ (~compartido => Siguiente(r)' = Siguiente(r))
  BY <1>3, <1>4, <1>5, <1>6 DEF Siguiente, Inodo
<1>9. Escritores
  BY QuienEscribe
<1>10. Quietos
  BY <1>2, <1>3, <1>4, <1>7, <1>8, <1>9 DEF Quietos, Escribe, Escritores
<1>11. Escrituras'
  BY <1>10, QuietosDatos DEF InvDatos
<1>12. MismoInodo'
  BY <1>2, <1>4, <1>6 DEF InvDatos, MismoInodo
<1>13. Posiciones'
  <2>1. Siguiente(p)' <= Inodo(p)'.tamanyo
    BY <1>3, <1>4, <1>5 DEF Siguiente, Inodo
  <2>2. \A r \in Procesos : En(r, "leer") => desc[r] # NULL
    BY DEF InvFS, LlamadasBien, EnFichero, En
  <2> QED BY <1>2, <1>4, <1>7, <1>8, <2>1, <2>2 DEF InvDatos, Posiciones
<1> QED BY <1>11, <1>12, <1>13 DEF InvDatos

LEMMA DatosLiberar ==
    ASSUME InvFS, InvFS', InvDatos, NEW p \in Procesos, Libre(p), desc[p] # NULL, Liberar(p)
    PROVE  InvDatos'
<1>x. PICK x : byteSiguiente' = [byteSiguiente EXCEPT ![desc[p].datos] = x]
  BY DEF Liberar
<1>1. /\ llamada[p] = NULL /\ desc[p] # NULL
      /\ desc' = [desc EXCEPT ![p] = NULL]
      /\ (compartido => compartido') /\ (~compartido' => Comparten(p) = {})
      /\ UNCHANGED <<disco, peticion, inodos, mapaBloques, llamada, contenido, mezclado, cruzado>>
  BY DEF Liberar, Libre, dispositivo, volumen
<1>2. /\ desc'[p] = NULL /\ \A r \in Procesos \ {p} : desc'[r] = desc[r]
      /\ \A e \in Direcciones \ {desc[p].datos} : byteSiguiente'[e] = byteSiguiente[e]
  BY <1>x, <1>1 DEF InvFS, TiposFS, Descriptores
<1>3. \A r \in Procesos \ {p} : desc[r] # NULL =>
         desc[r].datos \in Direcciones /\ (~compartido' => desc[r].datos # desc[p].datos)
  BY <1>1 DEF InvFS, Comparten, DescriptoresBien, TiposFS, Descriptores
<1>4. \A r \in Procesos : \A f : (En(r, f)' <=> En(r, f)) /\ (En(r, f) => r # p)
  BY <1>1 DEF En
<1>5. \A r \in Procesos \ {p} : desc[r] # NULL =>
         Inodo(r)' = Inodo(r) /\ (~compartido' => Siguiente(r)' = Siguiente(r))
  BY <1>1, <1>2, <1>3 DEF Siguiente, Inodo
<1>6. Escritores
  BY QuienEscribe
<1>7. Quietos
  BY <1>1, <1>2, <1>4, <1>5, <1>6 DEF Quietos, Escribe, Escritores
<1>8. Escrituras'
  BY <1>7, QuietosDatos DEF InvDatos
<1>9. MismoInodo'
  BY <1>1, <1>2 DEF InvDatos, MismoInodo
<1>10. Posiciones'
  <2>1. \A r \in Procesos : En(r, "leer") => desc[r] # NULL
    BY DEF InvFS, LlamadasBien, EnFichero, En
  <2> QED BY <1>1, <1>2, <1>4, <1>5, <2>1 DEF InvDatos, Posiciones
<1> QED BY <1>8, <1>9, <1>10 DEF InvDatos

LEMMA DatosLeerFichero ==
    ASSUME InvFS, InvFS', InvDatos, NEW p \in Procesos, NEW n \in Tamanyos, LeerFichero(p, n)
    PROVE  InvDatos'
<1> DEFINE k == Recortar(n, Siguiente(p), Inodo(p).tamanyo)
<1>1. /\ llamada[p] = NULL /\ desc[p] # NULL /\ Siguiente(p) < Inodo(p).tamanyo
      /\ compartido => compartido'
      /\ UNCHANGED <<disco, inodos, mapaBloques, desc, byteSiguiente, contenido, mezclado, cruzado>>
  BY DEF LeerFichero, Libre, UsarDescriptor, volumen, Dev!Pedir
<1>2. /\ llamada'[p] = [fase |-> "leer", n |-> k]
      /\ \A q \in Procesos \ {p} : llamada'[q] = llamada[q] /\ peticion'[q] = peticion[q]
  BY DEF LeerFichero, Dev!Pedir, InvFS, TiposFS
<1>3. Siguiente(p) + k <= Inodo(p).tamanyo
  <2>1. Siguiente(p) \in Int /\ Inodo(p).tamanyo \in Nat /\ n \in Nat
    BY <1>1, ConDescriptor, DiscoFSAssumption DEF InvFS
  <2> QED BY <1>1, <2>1 DEF Recortar
<1> HIDE DEF k
<1>4. /\ llamada'[p].fase = "leer" /\ llamada'[p].n = k
      /\ \A q \in Procesos \ {p} : \A f : En(q, f)' <=> En(q, f)
  BY <1>2 DEF En
<1>5. Quietos
  BY <1>1, <1>2, <1>4 DEF Quietos, Escribe, En, Siguiente
<1>6. Escrituras'
  BY <1>5, QuietosDatos DEF InvDatos
<1>7. MismoInodo'
  BY <1>1 DEF InvDatos, MismoInodo
<1>8. Posiciones'
  BY <1>1, <1>2, <1>3, <1>4 DEF InvDatos, Posiciones, Siguiente, Inodo
<1> QED BY <1>6, <1>7, <1>8 DEF InvDatos

(* A call ends and moves the position: those that share the descriptor     *)
(* have the same inode, and none of them is in a call.                     *)
LEMMA MoverPosicion ==
    ASSUME InvFS, InvDatos, ~compartido, NEW p \in Procesos, EnFichero(p), NEW s,
           byteSiguiente' = [byteSiguiente EXCEPT ![desc[p].datos] = s], desc' = desc,
           NEW q \in Procesos, desc[q] # NULL
    PROVE  /\ Siguiente(q)' = IF desc[q].datos = desc[p].datos THEN s ELSE Siguiente(q)
           /\ desc[q].datos = desc[p].datos => desc[q].inodo = desc[p].inodo
           /\ EnFichero(q) /\ q # p => desc[q].datos # desc[p].datos
<1>1. desc[p] # NULL
  BY DEF InvFS, LlamadasBien
<1>2. desc[p].datos \in Direcciones /\ desc[q].datos \in Direcciones
  BY <1>1, ConDescriptor DEF InvFS
<1>3. Siguiente(q)' = IF desc[q].datos = desc[p].datos THEN s ELSE Siguiente(q)
  BY <1>2 DEF Siguiente, InvFS, TiposFS
<1> QED BY <1>1, <1>3 DEF InvDatos, MismoInodo, InvFS, Caben

LEMMA DatosFinLeer ==
    ASSUME InvFS, InvFS', InvDatos, NEW p \in Procesos, FinLeer(p)
    PROVE  InvDatos'
<1>1. /\ En(p, "leer") /\ EnFichero(p) /\ Dev!Terminar(p)
      /\ llamada' = [llamada EXCEPT ![p] = NULL]
      /\ UNCHANGED <<inodos, mapaBloques, desc, contenido, mezclado, compartido, cruzado>>
  BY DEF FinLeer, volumen, historias, EnFichero, En
<1>s. PICK s : s = Siguiente(p) + llamada[p].n
  OBVIOUS
<1>2. byteSiguiente' = [byteSiguiente EXCEPT ![desc[p].datos] = s]
  <2>1. s = byteSiguiente[desc[p].datos] + llamada[p].n
    BY <1>s DEF Siguiente
  <2> QED BY <2>1 DEF FinLeer
<1>3. /\ UNCHANGED disco
      /\ \A q \in Procesos \ {p} : peticion'[q] = peticion[q] /\ llamada'[q] = llamada[q]
      /\ \A q \in Procesos : \A f : En(q, f)' <=> q # p /\ En(q, f)
  BY <1>1, TerminarHace DEF InvFS
<1>4. ASSUME ~compartido, NEW q \in Procesos, desc[q] # NULL
      PROVE  /\ Siguiente(q)' = IF desc[q].datos = desc[p].datos THEN s ELSE Siguiente(q)
             /\ desc[q].datos = desc[p].datos => desc[q].inodo = desc[p].inodo
             /\ EnFichero(q) /\ q # p => desc[q].datos # desc[p].datos
  BY <1>1, <1>2, <1>4, MoverPosicion
<1>5. Escritores
  BY QuienEscribe
<1>6. Quietos
  <2>1. \A q \in Procesos : Escribe(q) => EnFichero(q) /\ q # p /\ desc[q] # NULL
    BY <1>1, <1>5 DEF Escritores, Escribe, En
  <2>2. \A q \in Procesos : /\ En(q, "modificar")' <=> En(q, "modificar")
                            /\ En(q, "grabar")' <=> En(q, "grabar")
    BY <1>1, <1>3 DEF En
  <2> QED BY <1>1, <1>3, <1>4, <2>1, <2>2 DEF Quietos
<1>7. Escrituras'
  BY <1>6, QuietosDatos DEF InvDatos
<1>8. MismoInodo'
  BY <1>1 DEF InvDatos, MismoInodo
<1>9. Posiciones'
  <2>1. \A q \in Procesos : En(q, "leer") => EnFichero(q) /\ desc[q] # NULL
    BY DEF InvFS, LlamadasBien, EnFichero, En
  <2>2. ~compartido => s <= Inodo(p).tamanyo
    BY <1>1, <1>s DEF InvDatos, Posiciones
  <2>3. ASSUME ~compartido, NEW q \in Procesos, desc[q] # NULL
        PROVE  Siguiente(q)' <= Inodo(q)'.tamanyo
    BY <1>1, <1>4, <2>2, <2>3 DEF InvDatos, Posiciones, Inodo
  <2>4. ASSUME ~compartido, NEW q \in Procesos, En(q, "leer")'
        PROVE  Siguiente(q)' + llamada'[q].n <= Inodo(q)'.tamanyo
    <3>1. En(q, "leer") /\ q # p /\ llamada'[q] = llamada[q]
      BY <1>3, <2>4
    <3>2. Siguiente(q)' = Siguiente(q)
      BY <1>4, <2>1, <2>4, <3>1
    <3> QED BY <1>1, <2>4, <3>1, <3>2 DEF InvDatos, Posiciones, Inodo
  <2> QED BY <1>1, <2>3, <2>4 DEF Posiciones
<1> QED BY <1>7, <1>8, <1>9 DEF InvDatos

-----------------------------------------------------------------------------
(* Writes                                                                  *)

LEMMA DatosEscribirFichero ==
    ASSUME InvFS, InvFS', InvDatos, NEW p \in Procesos, NEW n \in Tamanyos, EscribirFichero(p, n)
    PROVE  InvDatos'
<1>1. PICK b \in Datos :
         /\ IF MapearBloque(p) # NULL
            THEN b = MapearBloque(p) /\ UNCHANGED <<mapaBloques, inodos, sinMapa>>
            ELSE AsignarNuevoBloque(p, b)
         /\ Dev!Pedir(p, "leer", b, NULL)
         /\ llamada' = [llamada EXCEPT
                ![p] = [fase |-> "modificar", bloque |-> b,
                        n |-> Recortar(n, Siguiente(p), FS_BLOCK_SIZE)]]
  BY DEF EscribirFichero
<1>2. /\ llamada[p] = NULL /\ desc[p] # NULL /\ (compartido => compartido')
      /\ UNCHANGED <<disco, desc, byteSiguiente, contenido, cruzado>>
  BY DEF EscribirFichero, Libre, UsarDescriptor, Dev!Pedir
<1>i. PICK i : i = desc[p].inodo
  OBVIOUS
<1>3. mezclado' = IF Escribiendo(i) # {} THEN mezclado \cup {i} ELSE mezclado
  BY <1>i DEF EscribirFichero
<1>4. /\ inodos'[i].tamanyo = inodos[i].tamanyo /\ inodos'[i].bloqueDirecto = b
      /\ \A j \in Inodos \ {i} : inodos'[j] = inodos[j]
      /\ \/ mapaBloques' = mapaBloques /\ b \in DeMemoria(i)
         \/ b \notin mapaBloques /\ mapaBloques' = mapaBloques \cup {b}
  BY <1>1, <1>2, <1>i, BloqueParaEscribir
<1>5. i \in Inodos /\ inodos[i] # NULL /\ inodos[i].tamanyo \in Nat
  BY <1>2, <1>i, ConDescriptor, NULLAparte DEF Inodo, InvFS
<1>6. /\ llamada'[p].fase = "modificar" /\ llamada'[p] # NULL /\ ~peticion'[p].hecha
      /\ peticion'[p].bloque = b
      /\ \A q \in Procesos \ {p} : llamada'[q] = llamada[q] /\ peticion'[q] = peticion[q]
  <2>1. /\ llamada'[p] = [fase |-> "modificar", bloque |-> b,
                          n |-> Recortar(n, Siguiente(p), FS_BLOCK_SIZE)]
        /\ peticion'[p] = [op |-> "leer", bloque |-> b, valor |-> NULL, hecha |-> FALSE]
        /\ \A q \in Procesos \ {p} : llamada'[q] = llamada[q] /\ peticion'[q] = peticion[q]
    BY <1>1 DEF Dev!Pedir, InvFS, TiposFS
  <2>2. llamada'[p] # NULL
    <3>1. llamada'[p] = NULL <=> peticion'[p] = NULL
      BY DEF InvFS, LlamadasBien
    <3>2. [op |-> "leer", bloque |-> b, valor |-> NULL, hecha |-> FALSE] \in Peticiones
      BY Disposicion DEF Peticiones
    <3> QED BY <2>1, <3>1, <3>2, NULLAparte
  <2> QED BY <2>1, <2>2
<1>7. /\ \A q \in Procesos \ {p} : \A f : En(q, f)' <=> En(q, f)
      /\ En(p, "modificar")' /\ ~En(p, "grabar")' /\ ~En(p, "leer")' /\ ~Escribe(p)
  BY <1>2, <1>6 DEF En, Escribe
<1>8. \A q \in Procesos \ {p} : Escribe(q)' <=> Escribe(q)
  BY <1>7 DEF Escribe
<1>9. Escritores /\ Escritores'
  BY QuienEscribe, QuienEscribeDespues
<1>10. \A j \in Inodos : Escribiendo(j) = {q \in Procesos : Escribe(q) /\ desc[q].inodo = j}
  BY <1>9 DEF Escritores
<1>11. ASSUME NEW q \in Procesos, q # p, Escribe(q), desc[q].inodo \notin mezclado'
       PROVE  desc[q].inodo \notin mezclado /\ desc[q].inodo # i /\ Inodo(q)' = Inodo(q)
  <2>1. desc[q].inodo # i
    BY <1>3, <1>5, <1>10, <1>11
  <2>2. desc[q].inodo \in Inodos
    BY <1>9, <1>11 DEF Escritores
  <2> QED BY <1>2, <1>3, <1>4, <1>11, <2>1, <2>2 DEF Inodo
<1>12. UnEscritor'
  <2> SUFFICES ASSUME NEW q \in Procesos, NEW r \in Procesos, Escribe(q)', Escribe(r)',
                      desc[q].inodo = desc[r].inodo, desc[q].inodo \notin mezclado'
               PROVE  q = r
    BY <1>2 DEF UnEscritor
  <2>1. CASE q # p /\ r # p
    BY <1>8, <1>11, <2>1 DEF InvDatos, Escrituras, UnEscritor
  <2>2. CASE q = p \/ r = p
    BY <1>8, <1>11, <1>i, <2>2
  <2> QED BY <2>1, <2>2
<1>13. SuBloque'
  <2> SUFFICES ASSUME NEW q \in Procesos, Escribe(q)', desc[q].inodo \notin mezclado'
               PROVE  peticion'[q].bloque = Inodo(q)'.bloqueDirecto
    BY <1>2 DEF SuBloque
  <2>1. CASE q = p
    BY <1>2, <1>4, <1>6, <1>i, <2>1 DEF Inodo
  <2>2. CASE q # p
    BY <1>6, <1>8, <1>11, <2>2 DEF InvDatos, Escrituras, SuBloque
  <2> QED BY <2>1, <2>2
<1>14. GrabanLoSuyo'
  <2> SUFFICES ASSUME ~cruzado, NEW q \in Procesos, En(q, "grabar")'
               PROVE  /\ peticion'[q].bloque \in mapaBloques'
                      /\ \A j \in Inodos : j # desc[q].inodo => peticion'[q].bloque \notin DeMemoria(j)'
    BY <1>2 DEF GrabanLoSuyo
  <2>1. q # p /\ En(q, "grabar") /\ peticion'[q] = peticion[q]
    BY <1>6, <1>7
  <2>2. /\ peticion[q].bloque \in mapaBloques
        /\ \A j \in Inodos : j # desc[q].inodo => peticion[q].bloque \notin DeMemoria(j)
    BY <2>1 DEF InvDatos, Escrituras, GrabanLoSuyo
  <2>3. \A j \in Inodos \ {i} : DeMemoria(j)' \subseteq DeMemoria(j)
    <3>1. \A j \in Inodos \ {i} : Escribiendo(j)' = Escribiendo(j)
      <4>1. ASSUME NEW j \in Inodos
            PROVE  Escribiendo(j)' = {r \in Procesos : Escribe(r)' /\ desc[r].inodo = j}
        BY <1>2, <1>9 DEF Escritores
      <4> QED BY <1>7, <1>8, <1>10, <1>i, <4>1
    <3> QED BY <1>4, <3>1 DEF DeMemoria
  <2>4. DeMemoria(i)' \subseteq {b}
    BY <1>4 DEF DeMemoria
  <2>5. i # desc[q].inodo => peticion[q].bloque # b
    BY <1>4, <1>5, <2>2
  <2> QED BY <1>4, <2>1, <2>2, <2>3, <2>4, <2>5
<1>15. Limpio' => Limpio
  BY <1>2 DEF Limpio
<1>16. DatosInodos'
  <2> SUFFICES ASSUME Limpio', NEW j \in Inodos, inodos'[j] # NULL, j \notin mezclado',
                      \A q \in Procesos : ~Graba(q, j)', NEW k \in 1 .. inodos'[j].tamanyo
               PROVE  disco'[inodos'[j].bloqueDirecto][k] = contenido'[j][k]
    BY DEF DatosInodos, Iguales
  <2>1. \A q \in Procesos : ~Graba(q, j)
    BY <1>2, <1>7 DEF Graba, Escribe
  <2>2. inodos'[j].tamanyo = inodos[j].tamanyo /\ inodos[j] # NULL /\ j \notin mezclado
    BY <1>3, <1>4, <1>5
  <2>3. inodos'[j].bloqueDirecto = inodos[j].bloqueDirecto
    <3>1. CASE j = i
      <4>1. inodos[i].tamanyo > 0
        BY <1>5, <2>2, <3>1
      <4>2. mapaBloques' = mapaBloques /\ b \in DeMemoria(i)
        <5>1. MapearBloque(p) # NULL
          <6>1. Inodo(p) = inodos[i] /\ inodos[i].bloqueDirecto \in Datos
            BY <1>2, <1>i, <4>1, ConDescriptor DEF InvFS, Inodo
          <6> QED BY <4>1, <6>1, Disposicion, NULLAparte DEF MapearBloque
        <5>2. mapaBloques' = mapaBloques
          BY <1>1, <5>1
        <5> QED BY <1>4, <5>2
      <4> QED BY <1>4, <3>1, <4>2 DEF DeMemoria
    <3>2. CASE j # i
      BY <1>4, <3>2
    <3> QED BY <3>1, <3>2
  <2> QED BY <1>2, <1>15, <2>1, <2>2, <2>3 DEF InvDatos, Escrituras, DatosInodos, Iguales
<1>17. DatosLlamadas'
  <2>1. ASSUME Limpio', NEW q \in Procesos, q # p, Escribe(q)', desc[q].inodo \notin mezclado'
        PROVE  /\ En(q, "modificar") /\ peticion[q].hecha =>
                     Iguales(peticion[q].valor, desc[q].inodo, Inodo(q).tamanyo)
               /\ En(q, "grabar") =>
                     /\ Iguales(peticion[q].valor, desc[q].inodo, Inodo(q).tamanyo)
                     /\ Iguales(peticion[q].valor, desc[q].inodo, Siguiente(q) + llamada[q].n)
                     /\ peticion[q].hecha => disco[peticion[q].bloque] = peticion[q].valor
               /\ Inodo(q)' = Inodo(q)
    BY <1>8, <1>11, <1>15, <2>1 DEF InvDatos, Escrituras, DatosLlamadas
  <2>2. \A q \in Procesos : Siguiente(q)' = Siguiente(q)
    BY <1>2 DEF Siguiente
  <2> QED BY <1>2, <1>6, <1>7, <2>1, <2>2 DEF DatosLlamadas, Iguales
<1>18. MismoInodo'
  BY <1>2 DEF InvDatos, MismoInodo
<1>19. Posiciones'
  <2>1. \A q \in Procesos : desc[q] # NULL => Inodo(q)'.tamanyo = Inodo(q).tamanyo
    <3>1. \A q \in Procesos : desc[q] # NULL => desc[q].inodo \in Inodos
      BY ConDescriptor DEF InvFS
    <3> QED BY <1>2, <1>4, <3>1 DEF Inodo
  <2>2. \A q \in Procesos : En(q, "leer") => desc[q] # NULL
    BY DEF InvFS, LlamadasBien, EnFichero, En
  <2>3. \A q \in Procesos : Siguiente(q)' = Siguiente(q)
    BY <1>2 DEF Siguiente
  <2> QED BY <1>2, <1>6, <1>7, <2>1, <2>2, <2>3 DEF InvDatos, Posiciones
<1> QED BY <1>2, <1>12, <1>13, <1>14, <1>16, <1>17, <1>18, <1>19 DEF InvDatos, Escrituras

LEMMA DatosGrabarBloque ==
    ASSUME InvFS, InvFS', InvDatos, NEW p \in Procesos, GrabarBloque(p)
    PROVE  InvDatos'
<1>i. PICK i : i = desc[p].inodo
  OBVIOUS
<1>s. PICK s : s = Siguiente(p)
  OBVIOUS
<1>n. PICK n : n = llamada[p].n
  OBVIOUS
<1>v. PICK v : v = peticion[p].valor
  OBVIOUS
<1>1. /\ En(p, "modificar") /\ Escribe(p) /\ peticion[p].hecha
      /\ UNCHANGED <<disco, inodos, mapaBloques, creados, desc, byteSiguiente, mezclado, compartido, cruzado>>
      /\ contenido' = [contenido EXCEPT ![i] = Poner(@, s, n, p)]
  BY <1>i, <1>s, <1>n DEF GrabarBloque, En, Escribe, volumen
<1>2. Escritores /\ Escritores'
  BY QuienEscribe, QuienEscribeDespues
<1>3. /\ i \in Inodos /\ desc[p] # NULL /\ s \in Int /\ n \in Nat \ {0}
      /\ peticion[p].bloque \in Datos /\ inodos[i] # NULL /\ Inodo(p) = inodos[i]
  BY <1>1, <1>2, <1>i, <1>s, <1>n DEF Escritores
<1>4. peticion[p].bloque = llamada[p].bloque /\ FS_BLOCK_SIZE \in Nat
  BY <1>1, Disposicion DEF InvFS, LlamadasBien
<1>c. Limpio => s \in Nat /\ s + n <= FS_BLOCK_SIZE
  <2> SUFFICES ASSUME Limpio PROVE s \in Nat /\ s + n <= FS_BLOCK_SIZE
    OBVIOUS
  <2>1. EnFichero(p) /\ ~Desborda(p)
    BY <1>1, <1>2 DEF Escritores, InvFS, Caben, Limpio
  <2> QED BY <1>3, <1>4, <1>s, <1>n, <2>1 DEF Desborda
<1>5. /\ llamada'[p] = [fase |-> "grabar", n |-> n]
      /\ peticion'[p] = [op |-> "escribir", bloque |-> peticion[p].bloque, valor |-> Poner(v, s, n, p),
                         hecha |-> FALSE]
      /\ \A q \in Procesos \ {p} : llamada'[q] = llamada[q] /\ peticion'[q] = peticion[q]
  BY <1>4, <1>s, <1>n, <1>v DEF GrabarBloque, Modificar, InvFS, TiposFS
<1>6. /\ llamada'[p].fase = "grabar" /\ llamada'[p].n = n /\ llamada'[p] # NULL
      /\ peticion'[p].bloque = peticion[p].bloque /\ peticion'[p].valor = Poner(v, s, n, p)
      /\ ~peticion'[p].hecha
  <2>1. [fase |-> "grabar", n |-> n] \in Llamadas
    BY <1>3 DEF Llamadas
  <2> QED BY <1>5, <2>1, NULLAparte
<1>7. /\ \A q \in Procesos \ {p} : \A f : En(q, f)' <=> En(q, f)
      /\ En(p, "grabar")' /\ ~En(p, "modificar")' /\ ~En(p, "leer")'
  BY <1>5, <1>6 DEF En
<1>8. \A q \in Procesos : Escribe(q)' <=> Escribe(q)
  BY <1>1, <1>7 DEF Escribe
<1>9. \A j \in Inodos : Escribiendo(j)' = Escribiendo(j)
  <2>1. ASSUME NEW j \in Inodos
        PROVE  /\ Escribiendo(j) = {q \in Procesos : Escribe(q) /\ desc[q].inodo = j}
               /\ Escribiendo(j)' = {q \in Procesos : Escribe(q)' /\ desc[q].inodo = j}
    BY <1>1, <1>2 DEF Escritores
  <2> QED BY <1>8, <2>1
<1>10. /\ \A q \in Procesos : Inodo(q)' = Inodo(q) /\ Siguiente(q)' = Siguiente(q)
       /\ \A j \in Inodos : DeMemoria(j)' = DeMemoria(j)
  BY <1>1, <1>9 DEF Inodo, Siguiente, DeMemoria
<1>11. /\ contenido \in [Inodos -> Contenidos] /\ contenido' \in [Inodos -> Contenidos]
       /\ contenido'[i] = Poner(contenido[i], s, n, p)
       /\ \A j \in Inodos \ {i} : contenido'[j] = contenido[j]
  <2>1. contenido \in [Inodos -> Contenidos]
    BY DEF InvDatos, Escrituras
  <2>2. Poner(contenido[i], s, n, p) \in Contenidos
    BY <1>3, <2>1 DEF Poner, Contenidos
  <2> QED BY <1>1, <1>3, <2>1, <2>2
<1>12. ASSUME NEW q \in Procesos, q # p, Escribe(q), desc[q].inodo \notin mezclado
       PROVE  desc[q].inodo # i
  BY <1>1, <1>12, <1>i DEF InvDatos, Escrituras, UnEscritor
<1>13. UnEscritor' /\ SuBloque'
  BY <1>1, <1>5, <1>6, <1>8, <1>10 DEF InvDatos, Escrituras, UnEscritor, SuBloque
<1>14. GrabanLoSuyo'
  <2> SUFFICES ASSUME ~cruzado, NEW q \in Procesos, En(q, "grabar")'
               PROVE  /\ peticion'[q].bloque \in mapaBloques
                      /\ \A j \in Inodos : j # desc[q].inodo => peticion'[q].bloque \notin DeMemoria(j)
    BY <1>1, <1>10 DEF GrabanLoSuyo
  <2>1. CASE q # p
    BY <1>5, <1>7, <2>1 DEF InvDatos, Escrituras, GrabanLoSuyo
  <2>2. CASE q = p
    <3>1. p \in Escribiendo(i)
      BY <1>1, <1>2, <1>3, <1>i DEF Escritores
    <3>2. peticion[p].bloque \in DeLlamadas(i)
      BY <1>1, <1>3, <1>4, <3>1 DEF DeLlamadas
    <3>3. montado
      BY <1>1 DEF InvFS, Desmontado, En
    <3> QED BY <1>3, <1>6, <1>i, <2>2, <3>2, <3>3 DEF InvFS, Separados, Suyos
  <2> QED BY <2>1, <2>2
<1>15. DatosInodos'
  <2> SUFFICES ASSUME Limpio, NEW j \in Inodos, inodos[j] # NULL, j \notin mezclado,
                      \A q \in Procesos : ~Graba(q, j)', NEW k \in 1 .. inodos[j].tamanyo
               PROVE  disco[inodos[j].bloqueDirecto][k] = contenido'[j][k]
    BY <1>1 DEF DatosInodos, Iguales, Limpio
  <2>1. j # i
    BY <1>1, <1>7, <1>i DEF Graba
  <2>2. \A q \in Procesos : ~Graba(q, j)
    BY <1>1, <1>7, <1>i, <2>1 DEF Graba
  <2> QED BY <1>11, <2>1, <2>2 DEF InvDatos, Escrituras, DatosInodos, Iguales
<1>16. Limpio /\ i \notin mezclado =>
          \A k \in 1 .. FS_BLOCK_SIZE : k <= inodos[i].tamanyo \/ k <= s + n =>
              Poner(v, s, n, p)[k] = contenido'[i][k]
  <2> SUFFICES ASSUME Limpio, i \notin mezclado, NEW k \in 1 .. FS_BLOCK_SIZE,
                      k <= inodos[i].tamanyo \/ k <= s + n
               PROVE  Poner(v, s, n, p)[k] = Poner(contenido[i], s, n, p)[k]
    BY <1>11
  <2>1. Iguales(v, i, inodos[i].tamanyo)
    BY <1>1, <1>3, <1>i, <1>v DEF InvDatos, Escrituras, DatosLlamadas
  <2>2. s <= inodos[i].tamanyo /\ inodos[i].tamanyo \in Nat
    BY <1>1, <1>2, <1>3, <1>s DEF InvDatos, Posiciones, Limpio, Escritores
  <2>3. k \in s + 1 .. s + n \/ k \in 1 .. inodos[i].tamanyo
    BY <1>3, <1>4, <1>c, <2>2
  <2> QED BY <2>1, <2>3 DEF Poner, Iguales
<1>17. DatosLlamadas'
  <2>1. ASSUME Limpio, NEW q \in Procesos, q # p, Escribe(q)', desc[q].inodo \notin mezclado
        PROVE  /\ En(q, "modificar") /\ peticion[q].hecha =>
                     Iguales(peticion[q].valor, desc[q].inodo, Inodo(q).tamanyo)
               /\ En(q, "grabar") =>
                     /\ Iguales(peticion[q].valor, desc[q].inodo, Inodo(q).tamanyo)
                     /\ Iguales(peticion[q].valor, desc[q].inodo, Siguiente(q) + llamada[q].n)
                     /\ peticion[q].hecha => disco[peticion[q].bloque] = peticion[q].valor
               /\ contenido'[desc[q].inodo] = contenido[desc[q].inodo]
    <3>1. Escribe(q) /\ desc[q].inodo \in Inodos \ {i}
      BY <1>2, <1>8, <1>12, <2>1 DEF Escritores
    <3> QED BY <1>11, <2>1, <3>1 DEF InvDatos, Escrituras, DatosLlamadas
  <2>2. ASSUME Limpio, i \notin mezclado
        PROVE  /\ \A k \in 1 .. inodos[i].tamanyo : peticion'[p].valor[k] = contenido'[i][k]
               /\ \A k \in 1 .. s + n : peticion'[p].valor[k] = contenido'[i][k]
    <3>1. inodos[i].tamanyo \in 0 .. FS_BLOCK_SIZE
      BY <1>2, <1>1, <1>3, <2>2 DEF Escritores, Limpio, InvFS, Caben
    <3>2. /\ \A k \in 1 .. inodos[i].tamanyo : k \in 1 .. FS_BLOCK_SIZE /\ k <= inodos[i].tamanyo
          /\ \A k \in 1 .. s + n : k \in 1 .. FS_BLOCK_SIZE /\ k <= s + n
      BY <1>3, <1>4, <1>c, <2>2, <3>1
    <3> QED BY <1>6, <1>16, <2>2, <3>2
  <2>3. ASSUME Limpio, NEW q \in Procesos, Escribe(q)', desc[q].inodo \notin mezclado
        PROVE  /\ En(q, "modificar")' /\ peticion'[q].hecha =>
                     \A k \in 1 .. Inodo(q).tamanyo : peticion'[q].valor[k] = contenido'[desc[q].inodo][k]
               /\ En(q, "grabar")' =>
                     /\ \A k \in 1 .. Inodo(q).tamanyo :
                           peticion'[q].valor[k] = contenido'[desc[q].inodo][k]
                     /\ \A k \in 1 .. Siguiente(q) + llamada'[q].n :
                           peticion'[q].valor[k] = contenido'[desc[q].inodo][k]
                     /\ peticion'[q].hecha => disco[peticion'[q].bloque] = peticion'[q].valor
    <3>1. CASE q = p
      BY <1>3, <1>6, <1>7, <1>i, <1>s, <2>2, <2>3, <3>1
    <3>2. CASE q # p
      BY <1>5, <1>7, <2>1, <2>3, <3>2 DEF Iguales
    <3> QED BY <3>1, <3>2
  <2>4. /\ Limpio' <=> Limpio
        /\ \A q \in Procesos : Inodo(q)' = Inodo(q) /\ Siguiente(q)' = Siguiente(q)
    BY <1>1, <1>10 DEF Limpio
  <2> QED BY <1>1, <2>3, <2>4 DEF DatosLlamadas, Iguales
<1>18. MismoInodo'
  BY <1>1 DEF InvDatos, MismoInodo
<1>19. Posiciones'
  BY <1>1, <1>5, <1>7, <1>10 DEF InvDatos, Posiciones
<1> QED BY <1>11, <1>13, <1>14, <1>15, <1>17, <1>18, <1>19 DEF InvDatos, Escrituras

LEMMA DatosFinEscribir ==
    ASSUME InvFS, InvFS', InvDatos, NEW p \in Procesos, FinEscribir(p)
    PROVE  InvDatos'
<1>i. PICK i : i = desc[p].inodo
  OBVIOUS
<1>s. PICK s : s = Siguiente(p) + llamada[p].n
  OBVIOUS
<1>1. /\ En(p, "grabar") /\ Escribe(p) /\ EnFichero(p) /\ Dev!Terminar(p)
      /\ AjustarTamanyo(p, byteSiguiente'[desc[p].datos])
      /\ llamada' = [llamada EXCEPT ![p] = NULL]
      /\ UNCHANGED <<mapaBloques, desc, contenido, mezclado, compartido, cruzado>>
  BY DEF FinEscribir, historias, EnFichero, En, Escribe
<1>2. Escritores /\ Escritores'
  BY QuienEscribe, QuienEscribeDespues
<1>3. /\ i \in Inodos /\ desc[p] # NULL /\ s \in Int /\ Siguiente(p) \in Int
      /\ inodos[i] # NULL /\ Inodo(p) = inodos[i] /\ inodos[i].bloqueDirecto \in Datos
      /\ inodos[i].tamanyo \in Nat
  BY <1>1, <1>2, <1>i, <1>s DEF Escritores
<1>4. byteSiguiente' = [byteSiguiente EXCEPT ![desc[p].datos] = s]
  <2>1. s = byteSiguiente[desc[p].datos] + llamada[p].n
    BY <1>s DEF Siguiente
  <2> QED BY <2>1 DEF FinEscribir
<1>5. byteSiguiente'[desc[p].datos] = s
  BY <1>3, <1>4, ConDescriptor DEF InvFS, TiposFS
<1>6. /\ peticion[p].hecha /\ UNCHANGED disco
      /\ \A q \in Procesos \ {p} : peticion'[q] = peticion[q] /\ llamada'[q] = llamada[q]
      /\ \A q \in Procesos : \A f : En(q, f)' <=> q # p /\ En(q, f)
  BY <1>1, TerminarHace DEF InvFS
<1>7. /\ inodos'[i] # NULL /\ inodos'[i].bloqueDirecto = inodos[i].bloqueDirecto
      /\ inodos'[i].tamanyo = IF s > inodos[i].tamanyo THEN s ELSE inodos[i].tamanyo
      /\ \A j \in Inodos \ {i} : inodos'[j] = inodos[j]
  BY <1>1, <1>3, <1>5, <1>i, AjustarTamanyoHace DEF InvFS
<1>8. ASSUME ~compartido, NEW q \in Procesos, desc[q] # NULL
      PROVE  /\ Siguiente(q)' = IF desc[q].datos = desc[p].datos THEN s ELSE Siguiente(q)
             /\ desc[q].datos = desc[p].datos => desc[q].inodo = desc[p].inodo
             /\ EnFichero(q) /\ q # p => desc[q].datos # desc[p].datos
  BY <1>1, <1>4, <1>8, MoverPosicion
<1>9. \A q \in Procesos : Escribe(q)' <=> q # p /\ Escribe(q)
  BY <1>6 DEF Escribe
<1>10. ASSUME NEW q \in Procesos, q # p, Escribe(q), desc[q].inodo \notin mezclado
       PROVE  desc[q].inodo # i /\ Inodo(q)' = Inodo(q)
  <2>1. desc[q].inodo # i
    BY <1>1, <1>10, <1>i DEF InvDatos, Escrituras, UnEscritor
  <2>2. desc[q].inodo \in Inodos
    BY <1>2, <1>10 DEF Escritores
  <2> QED BY <1>1, <1>7, <2>1, <2>2 DEF Inodo
<1>11. UnEscritor' /\ SuBloque'
  BY <1>1, <1>6, <1>9, <1>10 DEF InvDatos, Escrituras, UnEscritor, SuBloque
<1>12. \A j \in Inodos : DeMemoria(j)' \subseteq DeMemoria(j)
  <2>1. ASSUME NEW j \in Inodos
        PROVE  /\ Escribiendo(j) = {q \in Procesos : Escribe(q) /\ desc[q].inodo = j}
               /\ Escribiendo(j)' = {q \in Procesos : Escribe(q)' /\ desc[q].inodo = j}
    BY <1>1, <1>2 DEF Escritores
  <2>2. \A j \in Inodos : Escribiendo(j)' \subseteq Escribiendo(j)
    BY <1>9, <2>1
  <2>3. p \in Escribiendo(i)
    BY <1>1, <1>3, <1>i, <2>1
  <2>4. DeMemoria(i)' \subseteq DeMemoria(i)
    BY <1>3, <1>7, <2>3 DEF DeMemoria
  <2>5. \A j \in Inodos \ {i} : DeMemoria(j)' \subseteq DeMemoria(j)
    BY <1>7, <2>2 DEF DeMemoria
  <2> QED BY <2>4, <2>5
<1>13. GrabanLoSuyo'
  BY <1>1, <1>6, <1>12 DEF InvDatos, Escrituras, GrabanLoSuyo
<1>14. DatosInodos'
  <2> SUFFICES ASSUME Limpio, NEW j \in Inodos, inodos'[j] # NULL, j \notin mezclado,
                      \A q \in Procesos : ~Graba(q, j)', NEW k \in 1 .. inodos'[j].tamanyo
               PROVE  disco[inodos'[j].bloqueDirecto][k] = contenido[j][k]
    BY <1>1, <1>6 DEF DatosInodos, Iguales, Limpio
  <2>1. CASE j = i
    <3>1. disco[inodos'[i].bloqueDirecto] = peticion[p].valor
      <4>1. disco[peticion[p].bloque] = peticion[p].valor
        BY <1>1, <1>6, <1>i, <2>1 DEF InvDatos, Escrituras, DatosLlamadas
      <4>2. peticion[p].bloque = inodos[i].bloqueDirecto
        BY <1>1, <1>3, <1>i, <2>1 DEF InvDatos, Escrituras, SuBloque
      <4> QED BY <1>7, <4>1, <4>2
    <3>2. Iguales(peticion[p].valor, i, inodos[i].tamanyo) /\ Iguales(peticion[p].valor, i, s)
      BY <1>1, <1>3, <1>i, <1>s, <2>1 DEF InvDatos, Escrituras, DatosLlamadas
    <3>3. k \in 1 .. inodos[i].tamanyo \/ k \in 1 .. s
      BY <1>7, <2>1
    <3> QED BY <2>1, <3>1, <3>2, <3>3 DEF Iguales
  <2>2. CASE j # i
    <3>1. \A q \in Procesos : ~Graba(q, j)
      BY <1>1, <1>6, <1>i, <2>2 DEF Graba
    <3> QED BY <1>7, <2>2, <3>1 DEF InvDatos, Escrituras, DatosInodos, Iguales
  <2> QED BY <2>1, <2>2
<1>15. DatosLlamadas'
  <2>1. ASSUME Limpio, NEW q \in Procesos, Escribe(q)', desc[q].inodo \notin mezclado
        PROVE  /\ En(q, "modificar") /\ peticion[q].hecha =>
                     Iguales(peticion[q].valor, desc[q].inodo, Inodo(q).tamanyo)
               /\ En(q, "grabar") =>
                     /\ Iguales(peticion[q].valor, desc[q].inodo, Inodo(q).tamanyo)
                     /\ Iguales(peticion[q].valor, desc[q].inodo, Siguiente(q) + llamada[q].n)
                     /\ peticion[q].hecha => disco[peticion[q].bloque] = peticion[q].valor
               /\ Inodo(q)' = Inodo(q) /\ Siguiente(q)' = Siguiente(q)
               /\ q # p /\ llamada'[q] = llamada[q] /\ peticion'[q] = peticion[q]
    <3>1. q # p /\ Escribe(q) /\ EnFichero(q) /\ desc[q] # NULL
      BY <1>2, <1>9, <2>1 DEF Escritores
    <3>2. Siguiente(q)' = Siguiente(q)
      BY <1>8, <2>1, <3>1 DEF Limpio
    <3> QED BY <1>6, <1>10, <2>1, <3>1, <3>2 DEF InvDatos, Escrituras, DatosLlamadas
  <2>2. \A q \in Procesos : \A f : En(q, f)' => En(q, f)
    BY <1>6
  <2> QED BY <1>1, <1>6, <2>1, <2>2 DEF DatosLlamadas, Iguales, Limpio
<1>16. MismoInodo'
  BY <1>1 DEF InvDatos, MismoInodo
<1>17. Posiciones'
  <2>1. \A q \in Procesos : En(q, "leer") => EnFichero(q) /\ desc[q] # NULL
    BY DEF InvFS, LlamadasBien, EnFichero, En
  <2>2. ASSUME NEW q \in Procesos, desc[q] # NULL
        PROVE  /\ Inodo(q)' = inodos'[desc[q].inodo] /\ Inodo(q) = inodos[desc[q].inodo]
               /\ Inodo(q)'.tamanyo \in Nat /\ Inodo(q).tamanyo \in Nat
               /\ Inodo(q)'.tamanyo >= Inodo(q).tamanyo /\ Siguiente(q) \in Int
               /\ desc[q].inodo = i => Inodo(q)'.tamanyo >= s
    <3>1. desc[q].inodo \in Inodos /\ Inodo(q).tamanyo \in Nat /\ Siguiente(q) \in Int
      BY <2>2, ConDescriptor DEF InvFS
    <3>2. Inodo(q)' = inodos'[desc[q].inodo] /\ Inodo(q) = inodos[desc[q].inodo]
      BY <1>1 DEF Inodo
    <3> QED BY <1>3, <1>7, <3>1, <3>2
  <2>3. ASSUME ~compartido, NEW q \in Procesos, desc[q] # NULL
        PROVE  Siguiente(q)' <= Inodo(q)'.tamanyo
    <3>1. Siguiente(q) <= Inodo(q).tamanyo
      BY <2>3 DEF InvDatos, Posiciones
    <3> QED BY <1>3, <1>8, <1>i, <2>2, <2>3, <3>1
  <2>4. ASSUME ~compartido, NEW q \in Procesos, En(q, "leer")'
        PROVE  Siguiente(q)' + llamada'[q].n <= Inodo(q)'.tamanyo
    <3>1. En(q, "leer") /\ q # p /\ llamada'[q] = llamada[q] /\ desc[q] # NULL /\ EnFichero(q)
      BY <1>6, <2>1, <2>4
    <3>2. Siguiente(q)' = Siguiente(q)
      BY <1>8, <2>4, <3>1
    <3>3. Siguiente(q) + llamada[q].n <= Inodo(q).tamanyo
      BY <2>4, <3>1 DEF InvDatos, Posiciones
    <3>4. llamada[q].n \in Nat
      BY <3>1, TiposLlamada DEF InvFS, TiposFS, En
    <3> QED BY <2>2, <3>1, <3>2, <3>3, <3>4
  <2> QED BY <1>1, <2>3, <2>4 DEF Posiciones
<1> QED BY <1>1, <1>11, <1>13, <1>14, <1>15, <1>16, <1>17 DEF InvDatos, Escrituras

-----------------------------------------------------------------------------
(* The device, mounting and stopping                                       *)

(* Only the call at a file writes its block.                               *)
LEMMA SuUnicoEscritor ==
    ASSUME InvFS, InvDatos, ~cruzado, NEW i \in Inodos, i \notin mezclado, inodos[i] # NULL,
           inodos[i].bloqueDirecto \in Datos, inodos[i].tamanyo > 0 \/ Escribiendo(i) # {},
           NEW w \in Procesos, peticion[w] # NULL, peticion[w].op = "escribir",
           peticion[w].bloque = inodos[i].bloqueDirecto
    PROVE  Graba(w, i) /\ Escribe(w)
<1>1. llamada[w] # NULL /\ llamada[w] \in Llamadas
  BY DEF InvFS, LlamadasBien, TiposFS
<1>2. En(w, "grabar")
  <2>1. ~En(w, "leer") /\ ~En(w, "modificar")
    BY DEF InvFS, LlamadasBien
  <2>2. ~En(w, "sincronizar")
    BY <1>1, TiposLlamada DEF InvFS, LlamadasBien, En
  <2> QED BY <1>1, <2>1, <2>2, TiposLlamada DEF En
<1>3. inodos[i].bloqueDirecto \in DeMemoria(i)
  BY DEF DeMemoria
<1> QED BY <1>2, <1>3 DEF InvDatos, Escrituras, GrabanLoSuyo, Graba, Escribe

LEMMA DatosServirBloque ==
    ASSUME InvFS, InvFS', InvDatos, NEW b \in Bloques, NEW A, NEW v, Deja(A, b, v),
           UNCHANGED <<inodos, mapaBloques, creados, desc, reservados, byteSiguiente, llamada, contenido, mezclado,
                       compartido, cruzado>>
    PROVE  InvDatos'
<1>1. /\ A \subseteq Procesos
      /\ \A q \in A : peticion[q] # NULL /\ peticion[q].bloque = b /\ ~peticion[q].hecha
  <2>1. espera[b] \in Seq(Procesos)
    BY DEF InvFS, Colas
  <2> QED BY <2>1, DentroDe DEF InvFS, Colas, Deja
<1>2. /\ disco'[b] = v /\ \A c \in Bloques \ {b} : disco'[c] = disco[c]
      /\ \/ v = disco[b] /\ \A q \in A : peticion[q].op # "escribir"
         \/ \E w \in A : peticion[w].op = "escribir" /\ v = peticion[w].valor
      /\ \A q \in Procesos \ A : peticion'[q] = peticion[q]
  BY DEF Deja, InvFS, TiposFS
<1>3. ASSUME NEW q \in A
      PROVE  /\ peticion'[q].op = peticion[q].op /\ peticion'[q].bloque = peticion[q].bloque
             /\ peticion'[q].valor = v
  BY <1>1, <1>3 DEF Deja
<1>4. \A q \in Procesos : peticion'[q].bloque = peticion[q].bloque
  BY <1>2, <1>3
<1>5. /\ \A q \in Procesos : \A f : En(q, f)' <=> En(q, f)
      /\ \A q \in Procesos : Inodo(q)' = Inodo(q) /\ Siguiente(q)' = Siguiente(q)
      /\ \A j \in Inodos : DeMemoria(j)' = DeMemoria(j) /\ Escribiendo(j)' = Escribiendo(j)
  BY DEF En, Inodo, Siguiente, DeMemoria, Escribiendo
<1>6. Escritores
  BY QuienEscribe
<1>7. \A q \in Procesos : (Escribe(q)' <=> Escribe(q)) /\ \A j : Graba(q, j)' <=> Graba(q, j)
  BY <1>5 DEF Escribe, Graba
<1>8. contenido' \in [Inodos -> Contenidos] /\ UnEscritor' /\ SuBloque' /\ GrabanLoSuyo'
  BY <1>4, <1>5, <1>7 DEF InvDatos, Escrituras, UnEscritor, SuBloque, GrabanLoSuyo
<1>9. DatosInodos'
  <2> SUFFICES ASSUME Limpio, NEW j \in Inodos, inodos[j] # NULL, j \notin mezclado,
                      \A q \in Procesos : ~Graba(q, j), NEW k \in 1 .. inodos[j].tamanyo
               PROVE  disco'[inodos[j].bloqueDirecto][k] = contenido[j][k]
    BY <1>7 DEF DatosInodos, Iguales, Limpio
  <2>1. inodos[j].tamanyo > 0 /\ inodos[j].bloqueDirecto \in Datos
    BY DEF InvFS, TiposFS, InodosBien, RegistrosInodo
  <2>2. \A w \in A : peticion[w].op = "escribir" => b # inodos[j].bloqueDirecto
    BY <1>1, <2>1, SuUnicoEscritor DEF Limpio
  <2>3. disco'[inodos[j].bloqueDirecto] = disco[inodos[j].bloqueDirecto]
    BY <1>2, <2>1, <2>2, Disposicion
  <2> QED BY <2>3 DEF InvDatos, Escrituras, DatosInodos, Iguales
<1>10. DatosLlamadas'
  <2> SUFFICES ASSUME Limpio, NEW p \in Procesos, Escribe(p), desc[p].inodo \notin mezclado
               PROVE  /\ En(p, "modificar") /\ peticion'[p].hecha =>
                            Iguales(peticion'[p].valor, desc[p].inodo, Inodo(p).tamanyo)
                      /\ En(p, "grabar") =>
                            /\ Iguales(peticion'[p].valor, desc[p].inodo, Inodo(p).tamanyo)
                            /\ Iguales(peticion'[p].valor, desc[p].inodo, Siguiente(p) + llamada[p].n)
                            /\ peticion'[p].hecha => disco'[peticion'[p].bloque] = peticion'[p].valor
    BY <1>5, <1>7 DEF DatosLlamadas, Iguales, Limpio
  <2>i. PICK i : i = desc[p].inodo
    OBVIOUS
  <2>1. /\ i \in Inodos /\ inodos[i] # NULL /\ Inodo(p) = inodos[i] /\ inodos[i].bloqueDirecto \in Datos
        /\ p \in Escribiendo(i) /\ peticion[p] # NULL
    BY <1>6, <2>i DEF Escritores
  <2>2. peticion[p].bloque = inodos[i].bloqueDirecto
    BY <2>1, <2>i DEF InvDatos, Escrituras, SuBloque
  <2>3. \A w \in A : peticion[w].op = "escribir" /\ peticion[p].bloque = b => Graba(w, i) /\ w = p
    <3>1. ASSUME NEW w \in A, peticion[w].op = "escribir", peticion[p].bloque = b
          PROVE  Graba(w, i) /\ Escribe(w)
      BY <1>1, <2>1, <2>2, <2>i, <3>1, SuUnicoEscritor DEF Limpio
    <3> QED BY <1>1, <2>i, <3>1 DEF Graba, InvDatos, Escrituras, UnEscritor
  <2>4. CASE p \in A
    <3>1. peticion[p].bloque = b
      BY <1>1, <2>4
    <3>2. CASE En(p, "modificar")
      <4>1. ~En(p, "grabar") /\ \A q \in Procesos : ~Graba(q, i)
        BY <2>i, <3>2 DEF En, Graba, Escribe, InvDatos, Escrituras, UnEscritor
      <4>2. v = disco[inodos[i].bloqueDirecto]
        BY <1>2, <2>2, <2>3, <3>1, <4>1
      <4>3. Iguales(disco[inodos[i].bloqueDirecto], i, inodos[i].tamanyo)
        BY <2>1, <2>i, <4>1 DEF InvDatos, Escrituras, DatosInodos
      <4> QED BY <1>3, <2>1, <2>4, <2>i, <4>1, <4>2, <4>3
    <3>3. CASE En(p, "grabar")
      <4>1. peticion[p].op = "escribir" /\ ~En(p, "modificar")
        BY <3>3 DEF InvFS, LlamadasBien, En
      <4>2. v = peticion[p].valor
        BY <1>2, <2>3, <2>4, <3>1, <4>1
      <4> QED BY <1>2, <1>3, <2>4, <3>1, <3>3, <4>1, <4>2 DEF InvDatos, Escrituras, DatosLlamadas
    <3> QED BY <3>2, <3>3 DEF Escribe
  <2>5. CASE p \notin A
    <3>1. peticion'[p] = peticion[p]
      BY <1>2, <2>5
    <3>2. disco'[peticion[p].bloque] = disco[peticion[p].bloque]
      BY <1>2, <2>1, <2>2, <2>3, <2>5, Disposicion
    <3> QED BY <3>1, <3>2 DEF InvDatos, Escrituras, DatosLlamadas
  <2> QED BY <2>4, <2>5
<1>11. MismoInodo' /\ Posiciones'
  BY <1>5 DEF InvDatos, MismoInodo, Posiciones
<1> QED BY <1>8, <1>9, <1>10, <1>11 DEF InvDatos, Escrituras

LEMMA DatosServir ==
    ASSUME InvFS, InvFS', InvDatos, Servir
    PROVE  InvDatos'
<1>1. PICK b \in Bloques : \E n \in 1 .. Len(espera[b]) : Dev!Servir(b, n)
  BY DEF Servir
<1>n. PICK n \in 1 .. Len(espera[b]) : Dev!Servir(b, n)
  BY <1>1
<1>2. UNCHANGED <<inodos, mapaBloques, creados, desc, reservados, byteSiguiente, llamada, contenido, mezclado,
                  compartido, cruzado>>
  BY DEF Servir, volumen, procesos, historias
<1>3. \E A, v : Deja(A, b, v)
  BY <1>n, ServirDeja DEF InvFS
<1> QED BY <1>2, <1>3, DatosServirBloque

(* With no calls and no descriptors only the blocks of the inodes matter.  *)
SinLlamadas == \A p \in Procesos : llamada[p] = NULL /\ desc[p] = NULL

Leidos ==
    /\ SinLlamadas /\ contenido \in [Inodos -> Contenidos]
    /\ \A i \in Inodos : inodos[i] # NULL =>
          Iguales(disco[inodos[i].bloqueDirecto], i, inodos[i].tamanyo)

LEMMA DatosLeidos == Leidos => InvDatos
<1> SUFFICES ASSUME Leidos PROVE InvDatos
  OBVIOUS
<1>1. \A p \in Procesos : ~Escribe(p) /\ ~En(p, "grabar") /\ ~En(p, "leer") /\ desc[p] = NULL
  BY DEF Leidos, SinLlamadas, Escribe, En
<1> QED BY <1>1 DEF Leidos, InvDatos, Escrituras, MismoInodo, Posiciones, UnEscritor, SuBloque,
                    GrabanLoSuyo, DatosInodos, DatosLlamadas

LEMMA DatosLeidosDespues == Leidos' => InvDatos'
BY DatosLeidos, PTL

LEMMA DatosMontar ==
    ASSUME InvFS, InvDatos, MontarVolumen
    PROVE  InvDatos'
<1>1. /\ ~montado /\ UNCHANGED <<disco, desc, llamada>>
      /\ contenido' = [i \in Inodos |-> IF inodos'[i] # NULL /\ inodos'[i].tamanyo > 0
                                        THEN disco[inodos'[i].bloqueDirecto] ELSE BloqueVacio]
      /\ inodos' = [i \in Inodos |-> IF i \in disco[BloqueMapaInodos] THEN EnDisco(i) ELSE NULL]
  BY DEF MontarVolumen, dispositivo, procesos, EnDisco
<1>2. SinLlamadas'
  BY <1>1 DEF SinLlamadas, InvFS, Desmontado
<1>3. \A i \in Inodos : inodos'[i] # NULL =>
         /\ inodos'[i].tamanyo \in Nat
         /\ inodos'[i].tamanyo > 0 => disco[inodos'[i].bloqueDirecto] \in Contenidos
  <2>1. ASSUME NEW i \in Inodos, inodos'[i] # NULL
        PROVE  inodos'[i] \in InodosBien
    BY <1>1, <2>1, InodosDelDisco DEF InvFS
  <2>2. \A b \in Datos : disco[b] \in Contenidos
    BY Disposicion, Valores DEF InvFS, TiposFS
  <2> QED BY <2>1, <2>2 DEF InodosBien, RegistrosInodo
<1>4. BloqueVacio \in Contenidos
  BY DEF BloqueVacio, Contenidos
<1>5. contenido' \in [Inodos -> Contenidos]
  BY <1>1, <1>3, <1>4
<1>6. ASSUME NEW i \in Inodos, inodos'[i] # NULL, NEW k \in 1 .. inodos'[i].tamanyo
      PROVE  disco'[inodos'[i].bloqueDirecto][k] = contenido'[i][k]
  <2>1. inodos'[i].tamanyo > 0
    BY <1>3, <1>6
  <2> QED BY <1>1, <1>6, <2>1
<1> QED BY <1>2, <1>5, <1>6, DatosLeidosDespues DEF Leidos, Iguales

LEMMA DatosApagon ==
    ASSUME InvDatos, Apagon
    PROVE  InvDatos'
<1>1. SinLlamadas' /\ contenido' \in [Inodos -> Contenidos] /\ \A i \in Inodos : inodos'[i] = NULL
  BY DEF Apagon, SinLlamadas, InvDatos, Escrituras
<1> QED BY <1>1, DatosLeidosDespues DEF Leidos

LEMMA DatosCerrar ==
    ASSUME InvFS, InvFS', InvDatos, NEW p \in Procesos, Cerrar(p)
    PROVE  InvDatos'
BY DatosLiberar, DatosApagon DEF Cerrar

LEMMA DatosInicial == Init => InvDatos
<1> SUFFICES ASSUME Init PROVE InvDatos
  OBVIOUS
<1>1. SinLlamadas /\ \A i \in Inodos : inodos[i] = NULL
  BY DEF Init, Arrancar, SinLlamadas
<1>2. contenido \in [Inodos -> Contenidos]
  BY DEF Init, BloqueVacio, Contenidos
<1> QED BY <1>1, <1>2, DatosLeidos DEF Leidos

LEMMA InvDatosInductivo == InvFS /\ InvFS' /\ InvDatos /\ [Next]_vars => InvDatos'
<1> SUFFICES ASSUME InvFS, InvFS', InvDatos, [Next]_vars PROVE InvDatos'
  OBVIOUS
<1>1. CASE \E p \in Procesos, q \in Procesos : CrearProceso(p, q)
  BY <1>1, DatosCrearProceso
<1>2. CASE \E p \in Procesos, n \in Nombres : Abrir(p, n)
  BY <1>2, DatosAbrir
<1>3. CASE \E p \in Procesos, n \in Tamanyos : LeerFichero(p, n) \/ EscribirFichero(p, n)
  BY <1>3, DatosLeerFichero, DatosEscribirFichero
<1>4. ASSUME NEW p \in Procesos,
             \/ Cerrar(p) \/ FinLeer(p) \/ GrabarBloque(p) \/ FinEscribir(p)
             \/ Sincronizar(p) \/ SeguirSincronizar(p) \/ FinSincronizar(p)
      PROVE  InvDatos'
  BY <1>4, DatosCerrar, DatosFinLeer, DatosGrabarBloque, DatosFinEscribir, DatosSincronizar
<1>5. CASE MontarVolumen
  BY <1>5, DatosMontar
<1>6. CASE Servir
  BY <1>6, DatosServir
<1>7. CASE Apagon
  BY <1>7, DatosApagon
<1>8. CASE UNCHANGED vars
  BY <1>8, DatosQuieto
<1> QED BY <1>1, <1>2, <1>3, <1>4, <1>5, <1>6, <1>7, <1>8 DEF Next

(* escribirFichero_discoFS reads, changes and writes a block with waits in *)
(* between (lines 223 to 229): what a file has is the bytes written to it, *)
(* up to its size, when its calls have ended and no two were at it at      *)
(* once.                                                                   *)
THEOREM ContenidoSiempreEscrito == Spec => []ContenidoEscrito
<1>1. InvFS /\ InvDatos => ContenidoEscrito
  <2> SUFFICES ASSUME InvFS, InvDatos, Limpio, NEW i \in Inodos, inodos[i] # NULL, i \notin mezclado,
                      Escribiendo(i) = {}
               PROVE  Iguales(disco[inodos[i].bloqueDirecto], i, inodos[i].tamanyo)
    BY DEF ContenidoEscrito, Limpio, Iguales
  <2>1. \A q \in Procesos : ~Graba(q, i)
    BY QuienEscribe DEF Escritores, Graba, Escribe
  <2> QED BY <2>1 DEF InvDatos, Escrituras, DatosInodos
<1>2. InvFS /\ InvDatos /\ [Next]_vars => InvFS' /\ InvDatos'
  BY InvFSInductivo, InvDatosInductivo
<1>3. Init => InvFS /\ InvDatos
  BY InicialFS, DatosInicial
<1> QED BY <1>1, <1>2, <1>3, PTL DEF Spec

-----------------------------------------------------------------------------
(* What a synchronisation leaves on the device                             *)

(* The value v of the block b has at least what the photograph f has.      *)
Cubre(f, b, v) ==
    /\ b = BloqueMapaInodos => f.mapaInodos \subseteq v
    /\ b = BloqueMapaDatos => f.mapaBloques \subseteq v
    /\ \A i \in Inodos : b = BloqueInodo(i) /\ f.inodos[i] # NULL =>
          v.nombre = f.inodos[i].nombre /\ v.tamanyo >= f.inodos[i].tamanyo

(* A call that synchronises has written the block b, or left it out.       *)
Pasado(p, b) == b < llamada[p].bloque \/ (b = llamada[p].bloque /\ peticion[p].hecha)

(* Its request for the block b has been made, and is not after the k-th of *)
(* those that wait.                                                        *)
Precede(p, b, k) == Pasado(p, b) \/ \E j \in 1 .. k : espera[b][j] = p

(* The memory has no less than when a call began, what is written after    *)
(* its request has no less, and what it has passed is on the device.       *)
CubreMemoria(f) ==
    /\ \A b \in Bloques \ Datos : Cubre(f, b, EnMemoria(b))
    /\ \A i \in Inodos : f.inodos[i] # NULL => inodos[i] # NULL
MemoriaCubre ==
    \A p \in Procesos : En(p, "sincronizar") => CubreMemoria(llamada[p].foto)
ColaCubre ==
    \A p \in Procesos : En(p, "sincronizar") =>
        \A b \in Bloques \ Datos : \A k \in 1 .. Len(espera[b]) :
            Precede(p, b, k) => Cubre(llamada[p].foto, b, peticion[espera[b][k]].valor)
DiscoCubre ==
    \A p \in Procesos : En(p, "sincronizar") =>
        \A b \in Bloques \ Datos : Pasado(p, b) => Cubre(llamada[p].foto, b, disco[b])

InvFotos == MemoriaCubre /\ ColaCubre /\ DiscoCubre

(* Names stay, and sizes and maps only grow.                               *)
MemoriaCrece ==
    /\ mapaInodos \subseteq mapaInodos' /\ mapaBloques \subseteq mapaBloques'
    /\ \A i \in Inodos : inodos[i] # NULL =>
          /\ inodos'[i] # NULL /\ inodos'[i].nombre = inodos[i].nombre
          /\ inodos'[i].tamanyo >= inodos[i].tamanyo

(* Blocks that no photograph says anything of.                             *)
LEMMA CubreTodo ==
    ASSUME NEW f, NEW b, NEW v, \/ b = BloqueSuper
                                \/ \E i \in Inodos : b = BloqueInodo(i) /\ f.inodos[i] = NULL
    PROVE  Cubre(f, b, v)
BY Disposicion DEF Cubre, BloqueSuper, BloqueMapaInodos, BloqueMapaDatos

(* A memory that grows still has what it had.                              *)
LEMMA MemoriaCreceCubre ==
    ASSUME TiposFS, TiposFS', NEW f \in Fotos, CubreMemoria(f), MemoriaCrece
    PROVE  CubreMemoria(f)'
<1>1. ASSUME NEW b \in Bloques \ Datos PROVE Cubre(f, b, EnMemoria(b)')
  <2>1. CASE b = BloqueSuper
    BY <2>1, CubreTodo
  <2>2. CASE b = BloqueMapaInodos
    <3>1. f.mapaInodos \subseteq mapaInodos
      BY <2>2 DEF CubreMemoria, Cubre, EnMemoria, BloqueSuper, BloqueMapaInodos, BloqueMapaDatos
    <3>2. EnMemoria(b)' = mapaInodos'
      BY <2>2 DEF EnMemoria, BloqueSuper, BloqueMapaInodos, BloqueMapaDatos
    <3> QED BY <2>2, <3>1, <3>2, Disposicion DEF MemoriaCrece, Cubre, BloqueMapaInodos, BloqueMapaDatos
  <2>3. CASE b = BloqueMapaDatos
    <3>1. f.mapaBloques \subseteq mapaBloques
      BY <2>3 DEF CubreMemoria, Cubre, EnMemoria, BloqueSuper, BloqueMapaInodos, BloqueMapaDatos
    <3>2. EnMemoria(b)' = mapaBloques'
      BY <2>3 DEF EnMemoria, BloqueSuper, BloqueMapaInodos, BloqueMapaDatos
    <3> QED BY <2>3, <3>1, <3>2, Disposicion DEF MemoriaCrece, Cubre, BloqueMapaInodos, BloqueMapaDatos
  <2>4. ASSUME NEW i \in Inodos, b = BloqueInodo(i) PROVE Cubre(f, b, EnMemoria(b)')
    <3>1. EnMemoria(b) = inodos[i] /\ EnMemoria(b)' = inodos'[i]
      BY <2>4, Disposicion DEF EnMemoria, BloqueSuper, BloqueMapaInodos, BloqueMapaDatos
    <3>2. b \notin {BloqueMapaInodos, BloqueMapaDatos} /\ \A j \in Inodos : b = BloqueInodo(j) => j = i
      BY <2>4, Disposicion DEF BloqueMapaInodos, BloqueMapaDatos
    <3>3. ASSUME f.inodos[i] # NULL
          PROVE  inodos'[i].nombre = f.inodos[i].nombre /\ inodos'[i].tamanyo >= f.inodos[i].tamanyo
      <4>1. Cubre(f, b, inodos[i]) /\ inodos[i] # NULL
        BY <3>1, <3>3 DEF CubreMemoria
      <4>2. inodos[i].nombre = f.inodos[i].nombre /\ inodos[i].tamanyo >= f.inodos[i].tamanyo
        BY <2>4, <3>3, <4>1 DEF Cubre
      <4>3. /\ inodos'[i] # NULL /\ inodos'[i].nombre = inodos[i].nombre
            /\ inodos'[i].tamanyo >= inodos[i].tamanyo
        BY <4>1 DEF MemoriaCrece
      <4>4. f.inodos[i].tamanyo \in Nat /\ inodos[i].tamanyo \in Nat /\ inodos'[i].tamanyo \in Nat
        BY <3>3, <4>1, <4>3 DEF TiposFS, Fotos, InodosBien, RegistrosInodo
      <4> QED BY <4>2, <4>3, <4>4
    <3> QED BY <3>1, <3>2, <3>3 DEF Cubre
  <2>5. b \in {1, 2, 3} \/ \E i \in Inodos : b = BloqueInodo(i)
    BY Disposicion
  <2> QED BY <2>1, <2>2, <2>3, <2>4, <2>5 DEF BloqueSuper, BloqueMapaInodos, BloqueMapaDatos
<1>2. \A i \in Inodos : f.inodos[i] # NULL => inodos'[i] # NULL
  BY DEF CubreMemoria, MemoriaCrece
<1> QED BY <1>1, <1>2 DEF CubreMemoria

(* A call that synchronises: its block and its photograph.                 *)
LEMMA FotoDe ==
    ASSUME TiposFS, NEW p \in Procesos, En(p, "sincronizar")
    PROVE  llamada[p].bloque \in Bloques \ Datos /\ llamada[p].foto \in Fotos
BY TiposLlamada DEF TiposFS, En

(* A step of another kind of call of p: the memory grows, and the requests *)
(* for blocks that are not data stay.                                      *)
LEMMA OtraLlamadaFotos ==
    ASSUME InvFS, InvFS', InvFotos, NEW p \in Procesos,
           disco' = disco, \A b \in Bloques \ Datos : espera'[b] = espera[b],
           peticion[p] = NULL \/ peticion[p].hecha,
           \A q \in Procesos \ {p} : llamada'[q] = llamada[q] /\ peticion'[q] = peticion[q],
           llamada'[p] = NULL \/ llamada'[p].fase # "sincronizar", MemoriaCrece
    PROVE  InvFotos'
<1>1. ASSUME NEW q \in Procesos, En(q, "sincronizar")'
      PROVE  /\ q # p /\ En(q, "sincronizar") /\ llamada'[q] = llamada[q]
             /\ \A b : Pasado(q, b)' <=> Pasado(q, b)
  BY <1>1 DEF En, Pasado
<1>2. MemoriaCubre'
  <2>1. ASSUME NEW q \in Procesos, En(q, "sincronizar")' PROVE CubreMemoria(llamada[q].foto)'
    <3>1. PICK f \in Fotos : f = llamada[q].foto
      BY <1>1, <2>1, FotoDe DEF InvFS
    <3>2. CubreMemoria(f)
      BY <1>1, <2>1, <3>1 DEF InvFotos, MemoriaCubre
    <3>3. CubreMemoria(f)'
      BY <3>2, MemoriaCreceCubre DEF InvFS
    <3>4. f = llamada'[q].foto
      BY <1>1, <2>1, <3>1
    <3> QED BY <3>3, <3>4
  <2> QED BY <2>1 DEF MemoriaCubre
<1>3. ColaCubre'
  <2>1. ASSUME NEW q \in Procesos, En(q, "sincronizar")', NEW b \in Bloques \ Datos,
               NEW k \in 1 .. Len(espera'[b]), Precede(q, b, k)'
        PROVE  Cubre(llamada'[q].foto, b, peticion'[espera'[b][k]].valor)
    <3>1. espera'[b] = espera[b] /\ Precede(q, b, k)
      BY <1>1, <2>1 DEF Precede
    <3>2. espera[b][k] \in Procesos \ {p}
      <4>1. espera[b] \in Seq(Procesos) /\ p \notin ToSet(espera[b])
        BY FueraDeLasColas DEF InvFS, Colas
      <4> QED BY <3>1, <4>1, DentroDe
    <3>3. Cubre(llamada[q].foto, b, peticion[espera[b][k]].valor)
      BY <1>1, <2>1, <3>1 DEF InvFotos, ColaCubre
    <3> QED BY <1>1, <2>1, <3>1, <3>2, <3>3
  <2> QED BY <2>1 DEF ColaCubre
<1>4. DiscoCubre'
  BY <1>1 DEF InvFotos, DiscoCubre
<1> QED BY <1>2, <1>3, <1>4 DEF InvFotos

LEMMA MemoriaQuieta ==
    ASSUME TiposFS, UNCHANGED <<inodos, mapaInodos, mapaBloques>>
    PROVE  MemoriaCrece
BY DEF TiposFS, MemoriaCrece, InodosBien, RegistrosInodo

LEMMA FotosProceso ==
    ASSUME InvFS, InvFS', InvFotos, NEW p \in Procesos, NEW q \in Procesos,
           CrearProceso(p, q) \/ (Libre(p) /\ Liberar(p))
    PROVE  InvFotos'
<1>1. /\ llamada[p] = NULL
      /\ UNCHANGED <<disco, peticion, espera, llamada, inodos, mapaInodos, mapaBloques>>
  BY DEF CrearProceso, Liberar, Libre, dispositivo, volumen
<1>2. peticion[p] = NULL
  BY <1>1 DEF InvFS, LlamadasBien
<1>3. MemoriaCrece
  BY <1>1, MemoriaQuieta DEF InvFS
<1> QED BY <1>1, <1>2, <1>3, OtraLlamadaFotos

LEMMA FotosAbrir ==
    ASSUME InvFS, InvFS', InvFotos, NEW p \in Procesos, NEW n \in Nombres, Abrir(p, n)
    PROVE  InvFotos'
<1>1. PICK i \in Inodos : UNCHANGED <<inodos, mapaInodos>> \/ CrearInodo(i, n)
  BY DEF Abrir
<1>2. /\ llamada[p] = NULL /\ UNCHANGED <<disco, peticion, espera, llamada, mapaBloques>>
  BY DEF Abrir, Libre, dispositivo
<1>3. peticion[p] = NULL
  BY <1>2 DEF InvFS, LlamadasBien
<1>4. MemoriaCrece
  <2>1. CASE UNCHANGED <<inodos, mapaInodos>>
    BY <1>2, <2>1, MemoriaQuieta DEF InvFS
  <2>2. CASE CrearInodo(i, n)
    <3>1. /\ inodos[i] = NULL /\ mapaInodos' = mapaInodos \cup {i}
          /\ \A j \in Inodos \ {i} : inodos'[j] = inodos[j]
      BY <2>2, CrearInodoHace DEF InvFS
    <3> QED BY <1>2, <3>1 DEF MemoriaCrece, InvFS, TiposFS, InodosBien, RegistrosInodo
  <2> QED BY <1>1, <2>1, <2>2
<1> QED BY <1>2, <1>3, <1>4, OtraLlamadaFotos

LEMMA FotosLeerFichero ==
    ASSUME InvFS, InvFS', InvFotos, NEW p \in Procesos, NEW n \in Tamanyos, LeerFichero(p, n)
    PROVE  InvFotos'
<1>1. /\ llamada[p] = NULL /\ desc[p] # NULL /\ MapearBloque(p) # NULL
      /\ UNCHANGED <<disco, inodos, mapaInodos, mapaBloques>>
      /\ Dev!Pedir(p, "leer", MapearBloque(p), NULL)
  BY DEF LeerFichero, Libre, volumen, Dev!Pedir
<1>2. MapearBloque(p) \in Datos
  <2>1. Inodo(p).tamanyo > 0 => Inodo(p).bloqueDirecto \in Datos
    BY <1>1, ConDescriptor DEF InvFS
  <2> QED BY <1>1, <2>1 DEF MapearBloque
<1>3. /\ llamada'[p].fase = "leer"
      /\ \A q \in Procesos \ {p} : llamada'[q] = llamada[q]
  <2>1. llamada' = [llamada EXCEPT
           ![p] = [fase |-> "leer", n |-> Recortar(n, Siguiente(p), Inodo(p).tamanyo)]]
    BY DEF LeerFichero
  <2> QED BY <2>1 DEF InvFS, TiposFS
<1>4. /\ peticion[p] = NULL /\ \A q \in Procesos \ {p} : peticion'[q] = peticion[q]
      /\ \A b \in Bloques \ Datos : espera'[b] = espera[b]
  BY <1>1, <1>2 DEF Dev!Pedir, InvFS, TiposFS, Colas
<1>5. MemoriaCrece
  BY <1>1, MemoriaQuieta DEF InvFS
<1> QED BY <1>1, <1>3, <1>4, <1>5, OtraLlamadaFotos

LEMMA FotosEscribirFichero ==
    ASSUME InvFS, InvFS', InvFotos, NEW p \in Procesos, NEW n \in Tamanyos, EscribirFichero(p, n)
    PROVE  InvFotos'
<1>1. PICK b \in Datos :
         /\ IF MapearBloque(p) # NULL
            THEN b = MapearBloque(p) /\ UNCHANGED <<mapaBloques, inodos, sinMapa>>
            ELSE AsignarNuevoBloque(p, b)
         /\ Dev!Pedir(p, "leer", b, NULL)
         /\ llamada' = [llamada EXCEPT
                ![p] = [fase |-> "modificar", bloque |-> b,
                        n |-> Recortar(n, Siguiente(p), FS_BLOCK_SIZE)]]
  BY DEF EscribirFichero
<1>2. /\ llamada[p] = NULL /\ desc[p] # NULL
      /\ UNCHANGED <<disco, mapaInodos>>
  BY <1>1 DEF EscribirFichero, Libre, Dev!Pedir
<1>3. /\ llamada'[p].fase = "modificar"
      /\ \A q \in Procesos \ {p} : llamada'[q] = llamada[q]
  BY <1>1 DEF InvFS, TiposFS
<1>4. /\ peticion[p] = NULL /\ \A q \in Procesos \ {p} : peticion'[q] = peticion[q]
      /\ \A c \in Bloques \ Datos : espera'[c] = espera[c]
  BY <1>1 DEF Dev!Pedir, InvFS, TiposFS, Colas
<1>5. MemoriaCrece
  <2>i. PICK i \in Inodos : i = desc[p].inodo
    BY <1>2, ConDescriptor DEF InvFS
  <2>1. /\ inodos'[i] \in InodosBien /\ inodos'[i].nombre = inodos[i].nombre
        /\ inodos'[i].tamanyo = inodos[i].tamanyo
        /\ \A j \in Inodos \ {i} : inodos'[j] = inodos[j]
        /\ mapaBloques \subseteq mapaBloques'
    BY <1>1, <1>2, <2>i, BloqueParaEscribir
  <2>2. inodos'[i] # NULL
    BY <2>1, NULLAparte
  <2> QED BY <1>2, <2>1, <2>2 DEF MemoriaCrece, InvFS, TiposFS, InodosBien, RegistrosInodo
<1> QED BY <1>2, <1>3, <1>4, <1>5, OtraLlamadaFotos

LEMMA FotosGrabarBloque ==
    ASSUME InvFS, InvFS', InvFotos, NEW p \in Procesos, GrabarBloque(p)
    PROVE  InvFotos'
<1>1. /\ En(p, "modificar") /\ peticion[p].hecha
      /\ UNCHANGED <<disco, inodos, mapaInodos, mapaBloques>>
      /\ llamada' = [llamada EXCEPT ![p] = [fase |-> "grabar", n |-> llamada[p].n]]
  BY DEF GrabarBloque, volumen, En
<1>2. PICK b \in Datos : /\ \E r : peticion' = [peticion EXCEPT ![p] = r]
                         /\ espera' = [espera EXCEPT ![b] = Append(espera[b], p)]
  <2>1. llamada[p].bloque \in Datos
    BY <1>1, TiposLlamada DEF InvFS, TiposFS, En
  <2> QED BY <2>1 DEF GrabarBloque
<1>3. /\ llamada'[p].fase = "grabar"
      /\ \A q \in Procesos \ {p} : llamada'[q] = llamada[q] /\ peticion'[q] = peticion[q]
      /\ \A c \in Bloques \ Datos : espera'[c] = espera[c]
  BY <1>1, <1>2 DEF InvFS, TiposFS, Colas
<1>4. MemoriaCrece
  BY <1>1, MemoriaQuieta DEF InvFS
<1> QED BY <1>1, <1>3, <1>4, OtraLlamadaFotos

LEMMA FotosFin ==
    ASSUME InvFS, InvFS', InvFotos, NEW p \in Procesos,
           FinLeer(p) \/ FinEscribir(p) \/ FinSincronizar(p)
    PROVE  InvFotos'
<1>1. Dev!Terminar(p) /\ llamada' = [llamada EXCEPT ![p] = NULL]
  BY DEF FinLeer, FinEscribir, FinSincronizar
<1>2. /\ peticion[p].hecha /\ llamada'[p] = NULL /\ UNCHANGED <<disco, espera>>
      /\ \A q \in Procesos \ {p} : llamada'[q] = llamada[q] /\ peticion'[q] = peticion[q]
  BY <1>1, TerminarHace DEF InvFS
<1>3. MemoriaCrece
  <2>1. CASE FinLeer(p) \/ FinSincronizar(p)
    <3>1. UNCHANGED <<inodos, mapaInodos, mapaBloques>>
      BY <2>1 DEF FinLeer, FinSincronizar, volumen
    <3> QED BY <3>1, MemoriaQuieta DEF InvFS
  <2>2. CASE FinEscribir(p)
    <3>1. En(p, "grabar") /\ UNCHANGED <<mapaInodos, mapaBloques>>
      BY <2>2 DEF FinEscribir, En
    <3>2. desc[p] # NULL /\ Inodo(p).bloqueDirecto \in Datos
      BY <3>1 DEF InvFS, LlamadasBien, EnFichero, En
    <3>3. desc[p].inodo \in Inodos /\ desc[p].datos \in Direcciones /\ Siguiente(p) \in Int
      BY <3>2, ConDescriptor DEF InvFS
    <3>4. PICK i \in Inodos : i = desc[p].inodo
      BY <3>3
    <3>5. inodos[i] # NULL /\ inodos[i].bloqueDirecto \in Datos
      BY <3>2, <3>4 DEF Inodo, InvFS, DescriptoresBien, TiposFS
    <3>6. PICK s \in Int : AjustarTamanyo(p, s)
      <4>1. llamada[p].n \in Nat
        BY <3>1, TiposLlamada, Disposicion DEF InvFS, TiposFS, En
      <4>2. byteSiguiente'[desc[p].datos] = byteSiguiente[desc[p].datos] + llamada[p].n
        BY <2>2, <3>3 DEF FinEscribir, InvFS, TiposFS
      <4>3. byteSiguiente'[desc[p].datos] \in Int
        BY <3>3, <4>1, <4>2 DEF Siguiente
      <4> QED BY <2>2, <4>3 DEF FinEscribir
    <3>7. /\ inodos'[i] # NULL /\ inodos'[i].nombre = inodos[i].nombre
          /\ inodos'[i].tamanyo = IF s > inodos[i].tamanyo THEN s ELSE inodos[i].tamanyo
          /\ \A j \in Inodos \ {i} : inodos'[j] = inodos[j]
      BY <3>4, <3>5, <3>6, AjustarTamanyoHace DEF InvFS
    <3> QED BY <3>1, <3>7 DEF MemoriaCrece, InvFS, TiposFS, InodosBien, RegistrosInodo
  <2> QED BY <2>1, <2>2
<1> QED BY <1>2, <1>3, OtraLlamadaFotos

(* p asks for the block b to be written with what is in memory: its        *)
(* photograph is that of a call past the blocks before b.                  *)
LEMMA PedirFotos ==
    ASSUME InvFS, InvFotos, NEW p \in Procesos, peticion[p] = NULL \/ peticion[p].hecha,
           NEW b \in Bloques \ Datos, NEW r, r.valor = EnMemoria(b), r.hecha = FALSE,
           NEW c, c.bloque = b, CubreMemoria(c.foto),
           \A x \in Bloques \ Datos : x < b =>
              /\ Cubre(c.foto, x, disco[x])
              /\ \A k \in 1 .. Len(espera[x]) : Cubre(c.foto, x, peticion[espera[x][k]].valor),
           llamada' = [llamada EXCEPT ![p] = c], peticion' = [peticion EXCEPT ![p] = r],
           espera' = [espera EXCEPT ![b] = Append(espera[b], p)],
           UNCHANGED <<disco, inodos, mapaInodos, mapaBloques>>
    PROVE  InvFotos'
<1>1. /\ llamada'[p] = c /\ peticion'[p] = r
      /\ \A q \in Procesos \ {p} : llamada'[q] = llamada[q] /\ peticion'[q] = peticion[q]
  BY DEF InvFS, TiposFS
<1>2. ASSUME NEW x \in Bloques \ Datos, NEW k \in 1 .. Len(espera'[x])
      PROVE  \/ x = b /\ k = Len(espera[b]) + 1 /\ espera'[x][k] = p
             \/ k \in 1 .. Len(espera[x]) /\ espera'[x][k] = espera[x][k] /\ espera[x][k] \in Procesos \ {p}
  <2>1. /\ espera[x] \in Seq(Procesos) /\ p \notin ToSet(espera[x]) /\ Len(espera[x]) \in Nat
        /\ espera'[x] = IF x = b THEN Append(espera[x], p) ELSE espera[x]
    BY FueraDeLasColas, LenProperties DEF InvFS, Colas
  <2>2. \A j \in 1 .. Len(espera[x]) : espera[x][j] \in Procesos \ {p}
    BY <2>1, DentroDe
  <2>3. CASE x = b
    <3>1. /\ Len(espera'[x]) = Len(espera[x]) + 1 /\ espera'[x][Len(espera[x]) + 1] = p
          /\ \A j \in 1 .. Len(espera[x]) : espera'[x][j] = espera[x][j]
      BY <2>1, <2>3, AppendProperties
    <3> QED BY <2>1, <2>2, <2>3, <3>1, <1>2
  <2> QED BY <1>2, <2>1, <2>2, <2>3
<1>3. ASSUME NEW q \in Procesos \ {p}, En(q, "sincronizar")'
      PROVE  /\ En(q, "sincronizar") /\ llamada'[q] = llamada[q]
             /\ \A x : Pasado(q, x)' <=> Pasado(q, x)
  BY <1>1, <1>3 DEF En, Pasado
<1>4. \A f : CubreMemoria(f) => CubreMemoria(f)'
  BY DEF CubreMemoria, EnMemoria
<1>5. MemoriaCubre'
  <2>1. ASSUME NEW q \in Procesos, En(q, "sincronizar")' PROVE CubreMemoria(llamada[q].foto)'
    <3>1. PICK f : f = llamada'[q].foto
      OBVIOUS
    <3>2. CubreMemoria(f)
      BY <1>1, <1>3, <2>1, <3>1 DEF InvFotos, MemoriaCubre
    <3> QED BY <1>4, <3>1, <3>2
  <2> QED BY <2>1 DEF MemoriaCubre
<1>6. ColaCubre'
  <2>1. ASSUME NEW q \in Procesos, En(q, "sincronizar")', NEW x \in Bloques \ Datos,
               NEW k \in 1 .. Len(espera'[x]), Precede(q, x, k)'
        PROVE  Cubre(llamada'[q].foto, x, peticion'[espera'[x][k]].valor)
    <3>1. CASE x = b /\ k = Len(espera[b]) + 1 /\ espera'[x][k] = p
      <4>1. peticion'[espera'[x][k]].valor = EnMemoria(b)
        BY <1>1, <3>1
      <4>2. Cubre(llamada'[q].foto, b, EnMemoria(b))
        BY <1>1, <1>3, <2>1 DEF InvFotos, MemoriaCubre, CubreMemoria
      <4> QED BY <3>1, <4>1, <4>2
    <3>2. CASE /\ k \in 1 .. Len(espera[x]) /\ espera'[x][k] = espera[x][k]
               /\ espera[x][k] \in Procesos \ {p}
      <4>1. peticion'[espera'[x][k]].valor = peticion[espera[x][k]].valor
        BY <1>1, <3>2
      <4>2. \A j \in 1 .. k : espera'[x][j] = espera[x][j] /\ espera[x][j] # p
        <5>1. ASSUME NEW j \in 1 .. k PROVE espera'[x][j] = espera[x][j] /\ espera[x][j] # p
          <6>1. Len(espera[x]) \in Nat /\ Len(espera'[x]) \in Nat
            BY <3>2, <2>1, LenProperties DEF InvFS, Colas
          <6>2. j \in 1 .. Len(espera'[x]) /\ j \in 1 .. Len(espera[x])
            BY <2>1, <3>2, <6>1
          <6> QED BY <1>2, <6>1, <6>2
        <5> QED BY <5>1
      <4>3. CASE q = p
        <5>1. x < b
          BY <1>1, <2>1, <4>2, <4>3 DEF Precede, Pasado
        <5> QED BY <1>1, <3>2, <4>1, <4>3, <5>1
      <4>4. CASE q # p
        <5>1. Precede(q, x, k)
          BY <1>3, <2>1, <4>2, <4>4 DEF Precede
        <5> QED BY <1>3, <2>1, <3>2, <4>1, <4>4, <5>1 DEF InvFotos, ColaCubre
      <4> QED BY <4>3, <4>4
    <3> QED BY <1>2, <2>1, <3>1, <3>2
  <2> QED BY <2>1 DEF ColaCubre
<1>7. DiscoCubre'
  <2>1. ASSUME NEW q \in Procesos, En(q, "sincronizar")', NEW x \in Bloques \ Datos, Pasado(q, x)'
        PROVE  Cubre(llamada'[q].foto, x, disco[x])
    <3>1. CASE q = p
      <4>1. x < b
        BY <1>1, <2>1, <3>1 DEF Pasado
      <4> QED BY <1>1, <3>1, <4>1
    <3>2. CASE q # p
      BY <1>3, <2>1, <3>2 DEF InvFotos, DiscoCubre
    <3> QED BY <3>1, <3>2
  <2> QED BY <2>1 DEF DiscoCubre
<1> QED BY <1>5, <1>6, <1>7 DEF InvFotos

LEMMA FotosSincronizar ==
    ASSUME InvFS, InvFotos, NEW p \in Procesos, Sincronizar(p)
    PROVE  InvFotos'
<1>c. PICK c : c = [fase |-> "sincronizar", bloque |-> BloqueSuper, foto |-> Foto]
  OBVIOUS
<1>r. PICK r : r = [op |-> "escribir", bloque |-> BloqueSuper, valor |-> EnMemoria(BloqueSuper), hecha |-> FALSE]
  OBVIOUS
<1>1. /\ peticion[p] = NULL
      /\ llamada' = [llamada EXCEPT ![p] = c] /\ peticion' = [peticion EXCEPT ![p] = r]
      /\ espera' = [espera EXCEPT ![BloqueSuper] = Append(espera[BloqueSuper], p)]
      /\ UNCHANGED <<disco, inodos, mapaInodos, mapaBloques>>
  BY <1>c, <1>r DEF Sincronizar, Dev!Pedir, volumen
<1>2. CubreMemoria(Foto)
  <2>1. ASSUME NEW b \in Bloques \ Datos PROVE Cubre(Foto, b, EnMemoria(b))
    <3>1. \A i \in Inodos : inodos[i] # NULL => inodos[i].tamanyo \in Nat
      BY DEF InvFS, TiposFS, InodosBien, RegistrosInodo
    <3>2. b = BloqueMapaInodos => EnMemoria(b) = mapaInodos
      BY DEF EnMemoria, BloqueSuper, BloqueMapaInodos, BloqueMapaDatos
    <3>3. b = BloqueMapaDatos => EnMemoria(b) = mapaBloques
      BY DEF EnMemoria, BloqueSuper, BloqueMapaInodos, BloqueMapaDatos
    <3>4. \A i \in Inodos : b = BloqueInodo(i) => EnMemoria(b) = inodos[i]
      BY Disposicion DEF EnMemoria, BloqueSuper, BloqueMapaInodos, BloqueMapaDatos
    <3> QED BY <3>1, <3>2, <3>3, <3>4 DEF Cubre, Foto
  <2> QED BY <2>1 DEF CubreMemoria, Foto
<1>3. BloqueSuper \in Bloques \ Datos /\ \A x \in Bloques \ Datos : ~(x < BloqueSuper)
  BY Disposicion DEF BloqueSuper, Bloques
<1>4. /\ c.bloque = BloqueSuper /\ c.foto = Foto
      /\ r.valor = EnMemoria(BloqueSuper) /\ r.hecha = FALSE
  BY <1>c, <1>r
<1> QED BY <1>1, <1>2, <1>3, <1>4, PedirFotos

(* The blocks between a and the one that goes after it are inodes that are *)
(* not in memory; so are those after the last one.                         *)
LEMMA SaltadosDe ==
    ASSUME TiposFS, NEW a \in Bloques \ Datos, NEW b, b = SiguienteBloque(a),
           NEW x \in Bloques \ Datos, a < x, b = 0 \/ x < b
    PROVE  \E i \in Inodos : x = BloqueInodo(i) /\ inodos[i] = NULL
<1> DEFINE quedan == {i \in Inodos : BloqueInodo(i) > a /\ inodos[i] # NULL}
<1>1. a \in Nat /\ x \in Nat
  BY Disposicion
<1>2. ~(a < BloqueMapaDatos)
  BY <1>1 DEF SiguienteBloque
<1>3. PICK i \in Inodos : x = BloqueInodo(i)
  BY <1>1, <1>2, Disposicion DEF BloqueMapaDatos
<1>4. i \notin quedan
  <2>1. CASE quedan = {}
    BY <2>1
  <2>2. CASE quedan # {}
    <3>1. quedan \in SUBSET Nat /\ b = BloqueInodo(Min(quedan))
      BY <1>2, <2>2, Disposicion DEF SiguienteBloque
    <3>2. Min(quedan) \in quedan /\ \A j \in quedan : Min(quedan) <= j
      BY <2>2, <3>1, MinimoDe
    <3>3. PICK m \in Inodos : m = Min(quedan)
      BY <3>2
    <3>4. b = BloqueInodo(m) /\ b > 3 /\ m \in Nat /\ i \in Nat
      BY <3>1, <3>3, Disposicion
    <3>5. ~(m <= i)
      BY <1>3, <3>4 DEF BloqueInodo
    <3> QED BY <3>2, <3>3, <3>5
  <2> QED BY <2>1, <2>2
<1> QED BY <1>3, <1>4

(* A call that has written its block: it covers all those before its next. *)
LEMMA PasadosCubren ==
    ASSUME InvFS, InvFotos, NEW p \in Procesos, En(p, "sincronizar"), peticion[p].hecha,
           NEW b, b = SiguienteBloque(llamada[p].bloque),
           NEW x \in Bloques \ Datos, b = 0 \/ x < b
    PROVE  /\ Cubre(llamada[p].foto, x, disco[x])
           /\ \A k \in 1 .. Len(espera[x]) : Cubre(llamada[p].foto, x, peticion[espera[x][k]].valor)
<1>1. llamada[p].bloque \in Bloques \ Datos
  BY FotoDe DEF InvFS
<1>2. CASE llamada[p].bloque < x
  <2>1. PICK i \in Inodos : x = BloqueInodo(i) /\ inodos[i] = NULL
    BY <1>1, <1>2, SaltadosDe DEF InvFS
  <2>2. llamada[p].foto.inodos[i] = NULL
    BY <2>1 DEF InvFotos, MemoriaCubre, CubreMemoria
  <2> QED BY <2>1, <2>2, CubreTodo
<1>3. CASE ~(llamada[p].bloque < x)
  <2>1. Pasado(p, x)
    <3>1. llamada[p].bloque \in Nat /\ x \in Nat
      BY <1>1, Disposicion
    <3> QED BY <1>3, <3>1 DEF Pasado
  <2> QED BY <2>1 DEF InvFotos, ColaCubre, DiscoCubre, Precede
<1> QED BY <1>2, <1>3

LEMMA FotosSeguirSincronizar ==
    ASSUME InvFS, InvFotos, NEW p \in Procesos, SeguirSincronizar(p)
    PROVE  InvFotos'
<1>b. PICK b : b = SiguienteBloque(llamada[p].bloque)
  OBVIOUS
<1>r. PICK r : r = [op |-> "escribir", bloque |-> b, valor |-> EnMemoria(b), hecha |-> FALSE]
  OBVIOUS
<1>c. PICK c : c = [llamada[p] EXCEPT !.bloque = b]
  OBVIOUS
<1>1. /\ En(p, "sincronizar") /\ peticion[p].hecha /\ b # 0
      /\ peticion' = [peticion EXCEPT ![p] = r] /\ llamada' = [llamada EXCEPT ![p] = c]
      /\ espera' = [espera EXCEPT ![b] = Append(espera[b], p)]
      /\ UNCHANGED <<disco, inodos, mapaInodos, mapaBloques>>
  BY <1>b, <1>c, <1>r DEF SeguirSincronizar, volumen, En
<1>2. b \in Bloques \ Datos
  BY <1>1, <1>b, FotoDe, SiguienteBloqueHace DEF InvFS
<1>3. c.bloque = b /\ c.foto = llamada[p].foto
  <2>1. llamada[p] \in [fase : {"sincronizar"}, bloque : Bloques \ Datos, foto : Fotos]
    BY <1>1 DEF InvFS, TiposFS, En, Llamadas
  <2> QED BY <1>c, <2>1
<1>4. CubreMemoria(c.foto)
  BY <1>1, <1>3 DEF InvFotos, MemoriaCubre
<1>5. \A x \in Bloques \ Datos : x < b =>
         /\ Cubre(c.foto, x, disco[x])
         /\ \A k \in 1 .. Len(espera[x]) : Cubre(c.foto, x, peticion[espera[x][k]].valor)
  BY <1>1, <1>3, <1>b, PasadosCubren
<1>6. r.valor = EnMemoria(b) /\ r.hecha = FALSE
  BY <1>r
<1> QED BY <1>1, <1>2, <1>3, <1>4, <1>5, <1>6, PedirFotos

LEMMA QuienPide ==
    ASSUME TiposFS, LlamadasBien, NEW q \in Procesos, peticion[q] # NULL, peticion[q].bloque \notin Datos
    PROVE  peticion[q].op = "escribir"
<1>1. llamada[q] # NULL /\ llamada[q] \in Llamadas
  BY DEF TiposFS, LlamadasBien
<1>2. llamada[q].fase \in {"grabar", "sincronizar"}
  <2>1. ~En(q, "leer")
    BY DEF LlamadasBien
  <2>2. ~En(q, "modificar")
    BY <1>1, TiposLlamada DEF LlamadasBien, En
  <2> QED BY <1>1, <2>1, <2>2, TiposLlamada DEF En
<1> QED BY <1>1, <1>2 DEF LlamadasBien, En

(* The first n requests for the block b, which is not of data, are those   *)
(* of calls that synchronise; the last one is what is left there.          *)
LEMMA ServirFotos ==
    ASSUME InvFS, NEW b \in Bloques, NEW n \in 1 .. Len(espera[b]), Dev!Servir(b, n), NEW w,
           w = disco'[b]
    PROVE  /\ b \notin Datos => w = peticion[espera[b][n]].valor
           /\ \A x \in Bloques \ {b} : disco'[x] = disco[x] /\ espera'[x] = espera[x]
           /\ Len(espera'[b]) = Len(espera[b]) - n
           /\ \A k \in 1 .. Len(espera[b]) - n : espera'[b][k] = espera[b][n + k]
           /\ \A j \in 1 .. n : peticion'[espera[b][j]].hecha
           /\ \A q \in Procesos : (\A j \in 1 .. n : espera[b][j] # q) => peticion'[q] = peticion[q]
<1> DEFINE s == espera[b]
           a == SubSeq(s, 1, n)
           I == {i \in 1 .. Len(a) : peticion[a[i]].op = "escribir"}
           k == IF I # {} THEN Max(I) ELSE 0
           v == IF k = 0 THEN disco[b] ELSE peticion[a[k]].valor
<1>1. /\ disco' = [disco EXCEPT ![b] = v]
      /\ peticion' = [p \in Procesos |->
                        IF p \in ToSet(a)
                        THEN [op |-> peticion[p].op, bloque |-> b, hecha |-> TRUE, valor |-> v]
                        ELSE peticion[p]]
      /\ espera' = [espera EXCEPT ![b] = SubSeq(s, n + 1, Len(s))]
  BY DEF Dev!Servir, Dev!UltimaQueEscribe, Dev!SelectLastInSeq, Dev!Max, Max, Dev!ToSet, ToSet
<1>2. s \in Seq(Procesos) /\ espera \in [Bloques -> Seq(Procesos)] /\ disco \in [Bloques -> ValoresBloque]
  BY DEF InvFS, Colas, TiposFS
<1>3. /\ a \in Seq(Procesos) /\ Len(a) = n /\ DOMAIN a = 1 .. n /\ n \in Nat
      /\ \A i \in 1 .. n : a[i] = s[i]
      /\ Len(SubSeq(s, n + 1, Len(s))) = Len(s) - n
      /\ \A i \in 1 .. Len(s) - n : SubSeq(s, n + 1, Len(s))[i] = s[n + i]
  BY <1>2, Partir, LenProperties
<1>4. ToSet(a) = {s[j] : j \in 1 .. n}
  BY <1>3 DEF ToSet
<1>5. ASSUME b \notin Datos PROVE v = peticion[s[n]].valor
  <2>1. \A i \in 1 .. n : peticion[a[i]].op = "escribir"
    <3>1. ASSUME NEW i \in 1 .. n PROVE peticion[s[i]].op = "escribir"
      <4>1. s[i] \in Procesos /\ peticion[s[i]] # NULL /\ peticion[s[i]].bloque = b
        <5>1. i \in 1 .. Len(s)
          BY <1>2, LenProperties
        <5> QED BY <1>2, <5>1, DentroDe DEF InvFS, Colas
      <4> QED BY <1>5, <4>1, QuienPide DEF InvFS
    <3> QED BY <1>3, <3>1
  <2>2. n \in I /\ I \in SUBSET (1 .. n) /\ n \in Nat
    BY <1>3, <2>1
  <2>3. k \in I /\ n <= k
    BY <2>2, MaximoDe
  <2> HIDE DEF k, I
  <2>4. k = n
    BY <2>2, <2>3
  <2> QED BY <1>3, <2>4
<1>6. w = v /\ \A x \in Bloques \ {b} : disco'[x] = disco[x] /\ espera'[x] = espera[x]
  BY <1>1, <1>2
<1>7. espera'[b] = SubSeq(s, n + 1, Len(s))
  BY <1>1, <1>2
<1> HIDE DEF v
<1>8. \A j \in 1 .. n : peticion'[s[j]].hecha
  <2>1. \A j \in 1 .. n : s[j] \in ToSet(a) /\ s[j] \in Procesos
    BY <1>2, <1>3, <1>4, DentroDe
  <2> QED BY <1>1, <2>1
<1>9. \A q \in Procesos : (\A j \in 1 .. n : s[j] # q) => peticion'[q] = peticion[q]
  BY <1>1, <1>4
<1> QED BY <1>3, <1>5, <1>6, <1>7, <1>8, <1>9

LEMMA FotosServir ==
    ASSUME InvFS, InvFS', InvFotos, Servir
    PROVE  InvFotos'
<1>1. PICK b \in Bloques : \E n \in 1 .. Len(espera[b]) : Dev!Servir(b, n)
  BY DEF Servir
<1>2. PICK n \in 1 .. Len(espera[b]) : Dev!Servir(b, n)
  BY <1>1
<1>3. UNCHANGED <<llamada, inodos, mapaInodos, mapaBloques>>
  BY DEF Servir, volumen, procesos
<1>w. PICK w : w = disco'[b]
  OBVIOUS
<1>4. /\ b \notin Datos => w = peticion[espera[b][n]].valor
      /\ \A x \in Bloques \ {b} : disco'[x] = disco[x] /\ espera'[x] = espera[x]
      /\ Len(espera'[b]) = Len(espera[b]) - n
      /\ \A k \in 1 .. Len(espera[b]) - n : espera'[b][k] = espera[b][n + k]
      /\ \A j \in 1 .. n : peticion'[espera[b][j]].hecha
      /\ \A q \in Procesos : (\A j \in 1 .. n : espera[b][j] # q) => peticion'[q] = peticion[q]
  BY <1>2, <1>w, ServirFotos
<1>5. /\ espera \in [Bloques -> Seq(Procesos)] /\ \A x \in Bloques : Len(espera[x]) \in Nat
      /\ \A x \in Bloques : \A k \in 1 .. Len(espera[x]) :
            espera[x][k] \in Procesos /\ peticion[espera[x][k]].bloque = x
  <2>1. \A x \in Bloques : espera[x] \in Seq(Procesos)
    BY DEF InvFS, Colas
  <2> QED BY <2>1, DentroDe, LenProperties DEF InvFS, Colas
<1>6. ASSUME NEW q \in Procesos, peticion[q].bloque # b PROVE peticion'[q] = peticion[q]
  <2>1. \A j \in 1 .. n : espera[b][j] # q
    BY <1>5, <1>6
  <2> QED BY <1>4, <2>1
<1>7. \A q \in Procesos : En(q, "sincronizar")' => En(q, "sincronizar") /\ peticion[q].bloque = llamada[q].bloque
  BY <1>3 DEF En, InvFS, LlamadasBien
<1>8. MemoriaCubre'
  BY <1>3 DEF InvFotos, MemoriaCubre, CubreMemoria, EnMemoria, En
<1>9. ASSUME NEW q \in Procesos, En(q, "sincronizar")', NEW x \in Bloques, x # b
      PROVE  Pasado(q, x)' <=> Pasado(q, x)
  BY <1>3, <1>6, <1>7, <1>9 DEF Pasado
<1>10. ASSUME NEW q \in Procesos, En(q, "sincronizar")', Pasado(q, b)'
       PROVE  Pasado(q, b) \/ \E j \in 1 .. n : espera[b][j] = q
  BY <1>3, <1>4, <1>10 DEF Pasado
<1>11. ASSUME NEW q \in Procesos, En(q, "sincronizar")', NEW x \in Bloques \ Datos,
              NEW k \in 1 .. Len(espera'[x]), Precede(q, x, k)'
       PROVE  Cubre(llamada'[q].foto, x, peticion'[espera'[x][k]].valor)
  <2>1. CASE x # b
    <3>1. espera'[x] = espera[x] /\ Precede(q, x, k)
      BY <1>4, <1>9, <1>11, <2>1 DEF Precede
    <3>2. peticion'[espera[x][k]] = peticion[espera[x][k]]
      BY <1>5, <1>6, <2>1, <3>1
    <3> QED BY <1>3, <1>7, <1>11, <3>1, <3>2 DEF InvFotos, ColaCubre
  <2>2. CASE x = b
    <3>1. /\ Len(espera[b]) \in Nat /\ n + k \in 1 .. Len(espera[b]) /\ n \in Nat /\ k \in Nat
          /\ espera'[b][k] = espera[b][n + k]
      BY <1>4, <1>5, <1>11, <2>2
    <3>2. peticion'[espera[b][n + k]] = peticion[espera[b][n + k]]
      <4>1. \A j \in 1 .. n : espera[b][j] # espera[b][n + k]
        <5>1. IsInjective(espera[b]) /\ DOMAIN espera[b] = 1 .. Len(espera[b])
          BY <1>5, LenProperties DEF InvFS, Colas
        <5>2. \A j \in 1 .. n : j \in 1 .. Len(espera[b]) /\ j # n + k
          BY <3>1
        <5> QED BY <3>1, <5>1, <5>2 DEF IsInjective
      <4> QED BY <1>4, <1>5, <3>1, <4>1
    <3>3. Precede(q, b, n + k)
      <4>1. CASE Pasado(q, b)'
        <5>1. CASE Pasado(q, b)
          BY <5>1 DEF Precede
        <5>2. ASSUME NEW j \in 1 .. n, espera[b][j] = q PROVE Precede(q, b, n + k)
          <6>1. j \in 1 .. n + k
            BY <3>1
          <6> QED BY <5>2, <6>1 DEF Precede
        <5> QED BY <1>10, <1>11, <4>1, <5>1, <5>2
      <4>2. ASSUME NEW j \in 1 .. k, espera'[b][j] = q PROVE Precede(q, b, n + k)
        <5>1. j \in 1 .. Len(espera[b]) - n /\ n + j \in 1 .. n + k
          BY <3>1
        <5> QED BY <1>4, <4>2, <5>1 DEF Precede
      <4> QED BY <1>11, <2>2, <4>1, <4>2 DEF Precede
    <3> QED BY <1>3, <1>7, <1>11, <2>2, <3>1, <3>2, <3>3 DEF InvFotos, ColaCubre
  <2> QED BY <2>1, <2>2
<1>12. ASSUME NEW q \in Procesos, En(q, "sincronizar")', NEW x \in Bloques \ Datos, Pasado(q, x)'
       PROVE  Cubre(llamada'[q].foto, x, disco'[x])
  <2>1. CASE x # b
    BY <1>3, <1>4, <1>7, <1>9, <1>12, <2>1 DEF InvFotos, DiscoCubre
  <2>2. CASE x = b
    <3>1. Precede(q, b, n)
      BY <1>10, <1>12, <2>2 DEF Precede
    <3> QED BY <1>3, <1>4, <1>7, <1>12, <1>w, <2>2, <3>1 DEF InvFotos, ColaCubre
  <2> QED BY <2>1, <2>2
<1> QED BY <1>8, <1>11, <1>12 DEF InvFotos, ColaCubre, DiscoCubre

(* No call synchronises when there are no calls.                           *)
NadieSincroniza == \A p \in Procesos : ~En(p, "sincronizar")

LEMMA FotosDeNadie == NadieSincroniza => InvFotos
BY DEF NadieSincroniza, InvFotos, MemoriaCubre, ColaCubre, DiscoCubre

LEMMA FotosDeNadieDespues == NadieSincroniza' => InvFotos'
BY FotosDeNadie, PTL

LEMMA FotosInicial == Init => InvFotos
<1>1. Init => NadieSincroniza
  BY DEF Init, Arrancar, NadieSincroniza, En
<1> QED BY <1>1, FotosDeNadie

LEMMA FotosMontarApagon ==
    ASSUME InvFS, MontarVolumen \/ Apagon
    PROVE  InvFotos'
<1>1. \A p \in Procesos : llamada'[p] = NULL
  <2>1. CASE MontarVolumen
    BY <2>1 DEF MontarVolumen, procesos, InvFS, Desmontado
  <2>2. CASE Apagon
    BY <2>2 DEF Apagon
  <2> QED BY <2>1, <2>2
<1>2. NadieSincroniza'
  BY <1>1 DEF NadieSincroniza, En
<1> QED BY <1>2, FotosDeNadieDespues

LEMMA FotosCerrar ==
    ASSUME InvFS, InvFS', InvFotos, NEW p \in Procesos, Cerrar(p)
    PROVE  InvFotos'
BY FotosProceso, FotosMontarApagon DEF Cerrar

LEMMA FotosQuieto == InvFotos /\ UNCHANGED vars => InvFotos'
BY DEF InvFotos, MemoriaCubre, CubreMemoria, ColaCubre, DiscoCubre, Precede, Pasado, En, EnMemoria,
       vars, dispositivo, volumen, procesos

LEMMA InvFotosInductivo == InvFS /\ InvFS' /\ InvFotos /\ [Next]_vars => InvFotos'
<1> SUFFICES ASSUME InvFS, InvFS', InvFotos, [Next]_vars PROVE InvFotos'
  OBVIOUS
<1>1. CASE \E p \in Procesos, q \in Procesos : CrearProceso(p, q)
  BY <1>1, FotosProceso
<1>2. CASE \E p \in Procesos, n \in Nombres : Abrir(p, n)
  BY <1>2, FotosAbrir
<1>3. CASE \E p \in Procesos, n \in Tamanyos : LeerFichero(p, n) \/ EscribirFichero(p, n)
  BY <1>3, FotosLeerFichero, FotosEscribirFichero
<1>4. ASSUME NEW p \in Procesos,
             \/ Cerrar(p) \/ FinLeer(p) \/ GrabarBloque(p) \/ FinEscribir(p)
             \/ Sincronizar(p) \/ SeguirSincronizar(p) \/ FinSincronizar(p)
      PROVE  InvFotos'
  BY <1>4, FotosCerrar, FotosFin, FotosGrabarBloque, FotosSincronizar, FotosSeguirSincronizar
<1>5. CASE MontarVolumen \/ Apagon
  BY <1>5, FotosMontarApagon
<1>6. CASE Servir
  BY <1>6, FotosServir
<1>7. CASE UNCHANGED vars
  BY <1>7, FotosQuieto
<1> QED BY <1>1, <1>2, <1>3, <1>4, <1>5, <1>6, <1>7 DEF Next

(* tablaMontajes.c:190, sincronizarVolumen writes all the changes made up  *)
(* to then: when it ends, the device has every block marked, every inode   *)
(* and every size there were when it began, whatever other calls did.      *)
THEOREM SiempreSincronizado == Spec => TodoSincronizado
<1>1. InvFS /\ InvFotos =>
         \A p \in Procesos : FinSincronizar(p) =>
            LET f == llamada[p].foto
            IN  /\ f.mapaInodos \subseteq disco[BloqueMapaInodos]
                /\ f.mapaBloques \subseteq disco[BloqueMapaDatos]
                /\ \A i \in Inodos : f.inodos[i] # NULL =>
                     /\ EnDisco(i).nombre = f.inodos[i].nombre
                     /\ EnDisco(i).tamanyo >= f.inodos[i].tamanyo
  <2> SUFFICES ASSUME InvFS, InvFotos, NEW p \in Procesos, FinSincronizar(p), NEW f,
                      f = llamada[p].foto
               PROVE  /\ f.mapaInodos \subseteq disco[BloqueMapaInodos]
                      /\ f.mapaBloques \subseteq disco[BloqueMapaDatos]
                      /\ \A i \in Inodos : f.inodos[i] # NULL =>
                           /\ disco[BloqueInodo(i)].nombre = f.inodos[i].nombre
                           /\ disco[BloqueInodo(i)].tamanyo >= f.inodos[i].tamanyo
    BY DEF EnDisco
  <2>1. En(p, "sincronizar") /\ peticion[p].hecha /\ SiguienteBloque(llamada[p].bloque) = 0
    BY DEF FinSincronizar, Dev!Terminar, En
  <2>2. \A x \in Bloques \ Datos : Cubre(f, x, disco[x])
    BY <2>1, PasadosCubren
  <2>3. /\ BloqueMapaInodos \in Bloques \ Datos /\ BloqueMapaDatos \in Bloques \ Datos
        /\ \A i \in Inodos : BloqueInodo(i) \in Bloques \ Datos
    BY Disposicion DEF BloqueMapaInodos, BloqueMapaDatos
  <2> QED BY <2>2, <2>3 DEF Cubre
<1>2. InvFS /\ InvFotos /\ [Next]_vars => InvFS' /\ InvFotos'
  BY InvFSInductivo, InvFotosInductivo
<1>3. Init => InvFS /\ InvFotos
  BY InicialFS, FotosInicial
<1> QED BY <1>1, <1>2, <1>3, PTL DEF Spec, TodoSincronizado
=============================================================================
