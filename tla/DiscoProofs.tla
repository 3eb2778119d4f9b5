---------------------------- MODULE DiscoProofs ----------------------------
(***************************************************************************)
(* Proofs about Disco, for any number of processes, blocks and addresses   *)
(* and any failures: the memory and the queue of requests are right, and   *)
(* the driver implements BloquesAtomicos.                                  *)
(***************************************************************************)
EXTENDS Disco, SecuenciasLemas

-----------------------------------------------------------------------------
(* The inductive invariant                                                 *)

(* TypeOKDisco without the bounds of a count and of the queue, which       *)
(* follow from the rest.                                                   *)
Tipos ==
    /\ disco \in [Bloques -> Valores]
    /\ dma \in {"parado", "en curso", "terminado"} /\ tareaSW \in BOOLEAN
    /\ peticiones \in [Direcciones -> Peticion \cup {NULL}]
    /\ peticionActual \in Direcciones \cup {NULL}
    /\ listaPeticiones \in Seq(Direcciones)
    /\ pide \in [Procesos -> Pide \cup {NULL}]
    /\ fallos \in 0 .. MaxFallos
    /\ \A d \in Ocupadas : peticiones[d].operacion = "escribir" => peticiones[d].bloque \in Valores

EnCola == ToSet(listaPeticiones)
Pendientes == EnCola \cup ({peticionActual} \ {NULL})

(* The device and the request in service.                                  *)
Servicio ==
    /\ tareaSW => dma = "terminado"
    /\ dma # "parado" => peticionActual # NULL
    /\ peticionActual # NULL /\ dma = "parado" => fallos > 0
    /\ peticionActual = NULL => listaPeticiones = <<>>

(* The queue: requests that are in memory, once each, one for a block.     *)
Cola ==
    /\ IsInjective(listaPeticiones) /\ peticionActual \notin EnCola
    /\ Pendientes \subseteq Ocupadas
    /\ \A d, e \in EnCola : peticiones[d].numBloque = peticiones[e].numBloque => d = e

(* Each process in a request: of its own block, and not ready until the    *)
(* request has left the queue and the service.                             *)
Esperas ==
    \A p \in Procesos : pide[p] # NULL =>
        /\ pide[p].peticion \in Ocupadas
        /\ pide[p].bloque = peticiones[pide[p].peticion].numBloque
        /\ pide[p].op = "escribir" => pide[p].valor \in Valores
        /\ pide[p].estado = "LISTO" => pide[p].peticion \notin Pendientes
        /\ pide[p].estado = "BLOQUEADO" => pide[p].peticion \in Pendientes \/ fallos > 0

Bloqueados(d) == {p \in Usuarios(d) : pide[p].estado = "BLOQUEADO"}

(* A request counts its processes and lists those that wait.               *)
Cuentas ==
    \A d \in Ocupadas :
        /\ Abandonada(d) => peticiones[d].numPeticiones <= Cardinality(Procesos)
        /\ ~Abandonada(d) =>
              /\ peticiones[d].numPeticiones = Cardinality(Usuarios(d))
              /\ IsInjective(peticiones[d].listaProcesosBloqueados)
              /\ ToSet(peticiones[d].listaProcesosBloqueados) = Bloqueados(d)

(* What a request not served yet will do: what the last of its writes      *)
(* asks, or a read.  f: what the processes of the list l ask.              *)
UltimaEscritura(f, l, op, v) ==
    IF op = "leer" THEN \A i \in 1 .. Len(l) : f[l[i]].op = "leer"
    ELSE \E k \in 1 .. Len(l) :
           /\ f[l[k]].op = "escribir" /\ f[l[k]].valor = v
           /\ \A i \in k + 1 .. Len(l) : f[l[i]].op = "leer"

(* Being served, or waiting in the queue for it.                           *)
SinServir(d) ==
    d \in Pendientes /\ ~Abandonada(d) /\ (d = peticionActual => dma # "terminado")

Efectos ==
    \A d \in Direcciones : SinServir(d) =>
        UltimaEscritura(pide, peticiones[d].listaProcesosBloqueados,
                        peticiones[d].operacion, peticiones[d].bloque)

Inv == Tipos /\ Servicio /\ Cola /\ Esperas /\ Cuentas /\ Efectos

-----------------------------------------------------------------------------
(* Lemmas                                                                  *)

LEMMA NULLAparte ==
    /\ NULL \notin Peticion /\ NULL \notin Pide /\ NULL \notin Direcciones
    /\ IsFiniteSet(Procesos)
BY NULLAssumption, DiscoAssumption

(* What is in memory is a request, and what a process waits for is one.    *)
LEMMA EnMemoria ==
    ASSUME Tipos
    PROVE  /\ \A d \in Ocupadas : d \in Direcciones /\ peticiones[d] \in Peticion
           /\ \A p \in Procesos : pide[p] # NULL => pide[p] \in Pide
           /\ EnCola \subseteq Direcciones
           /\ \A i \in 1 .. Len(listaPeticiones) : listaPeticiones[i] \in EnCola
<1>1. listaPeticiones \in Seq(Direcciones) /\ DOMAIN listaPeticiones = 1 .. Len(listaPeticiones)
  BY LenProperties DEF Tipos
<1>2. \A i \in 1 .. Len(listaPeticiones) : listaPeticiones[i] \in Direcciones
  BY <1>1, ElementOfSeq
<1> QED BY <1>1, <1>2 DEF Tipos, Ocupadas, EnCola, ToSet

(* The users of a request are finite in number.                            *)
LEMMA UsuariosFinitos ==
    \A d : IsFiniteSet(Usuarios(d)) /\ Usuarios(d) \subseteq Procesos
BY DiscoAssumption, FS_Subset DEF Usuarios

(* The effect of a request depends on what its processes ask and no more.  *)
LEMMA MismoEfecto ==
    ASSUME NEW f, NEW g, NEW l \in Seq(Procesos), NEW op, NEW v,
           \A q \in ToSet(l) : g[q].op = f[q].op /\ g[q].valor = f[q].valor,
           UltimaEscritura(f, l, op, v)
    PROVE  UltimaEscritura(g, l, op, v)
<1>1. Len(l) \in Nat /\ \A i \in 1 .. Len(l) : l[i] \in ToSet(l)
  BY LenProperties DEF ToSet
<1>2. \A i \in 1 .. Len(l) : g[l[i]].op = f[l[i]].op /\ g[l[i]].valor = f[l[i]].valor
  BY <1>1
<1>3. CASE op = "leer"
  BY <1>2, <1>3 DEF UltimaEscritura
<1>4. CASE op # "leer"
  <2>1. PICK k \in 1 .. Len(l) : /\ f[l[k]].op = "escribir" /\ f[l[k]].valor = v
                                 /\ \A i \in k + 1 .. Len(l) : f[l[i]].op = "leer"
    BY <1>4 DEF UltimaEscritura
  <2>2. \A i \in k + 1 .. Len(l) : i \in 1 .. Len(l)
    BY <1>1
  <2>3. \A i \in k + 1 .. Len(l) : g[l[i]].op = "leer"
    BY <1>2, <2>1, <2>2
  <2> QED BY <1>2, <1>4, <2>1, <2>3 DEF UltimaEscritura
<1> QED BY <1>3, <1>4

(* One more process at the end: a read leaves the effect, a write is it.   *)
LEMMA EfectoDelUltimo ==
    ASSUME NEW f, NEW l \in Seq(Procesos), NEW p \in Procesos, NEW op, NEW v
    PROVE  /\ f[p].op = "leer" /\ UltimaEscritura(f, l, op, v)
                => UltimaEscritura(f, Append(l, p), op, v)
           /\ f[p].op = "escribir" => UltimaEscritura(f, Append(l, p), "escribir", f[p].valor)
<1> DEFINE t == Append(l, p)
<1>1. /\ Len(l) \in Nat /\ Len(t) = Len(l) + 1 /\ t[Len(l) + 1] = p
      /\ \A i \in 1 .. Len(l) : t[i] = l[i]
  BY AppendProperties, LenProperties
<1> HIDE DEF t
<1>2. ASSUME f[p].op = "leer", UltimaEscritura(f, l, op, v)
      PROVE  UltimaEscritura(f, t, op, v)
  <2>1. CASE op = "leer"
    <3>1. \A i \in 1 .. Len(l) : f[l[i]].op = "leer"
      BY <1>2, <2>1 DEF UltimaEscritura
    <3>2. \A i \in 1 .. Len(t) : i \in 1 .. Len(l) \/ i = Len(l) + 1
      BY <1>1
    <3>3. \A i \in 1 .. Len(t) : f[t[i]].op = "leer"
      BY <1>1, <1>2, <3>1, <3>2
    <3> QED BY <2>1, <3>3 DEF UltimaEscritura
  <2>2. CASE op # "leer"
    <3>1. PICK k \in 1 .. Len(l) : /\ f[l[k]].op = "escribir" /\ f[l[k]].valor = v
                                   /\ \A i \in k + 1 .. Len(l) : f[l[i]].op = "leer"
      BY <1>2, <2>2 DEF UltimaEscritura
    <3>2. k \in 1 .. Len(t) /\ \A i \in k + 1 .. Len(t) : i \in k + 1 .. Len(l) \/ i = Len(l) + 1
      BY <1>1
    <3>3. \A i \in k + 1 .. Len(l) : t[i] = l[i]
      BY <1>1
    <3>4. \A i \in k + 1 .. Len(t) : f[t[i]].op = "leer"
      BY <1>1, <1>2, <3>1, <3>2, <3>3
    <3> QED BY <1>1, <2>2, <3>1, <3>2, <3>4 DEF UltimaEscritura
  <2> QED BY <2>1, <2>2
<1>3. ASSUME f[p].op = "escribir" PROVE UltimaEscritura(f, t, "escribir", f[p].valor)
  <2>1. Len(l) + 1 \in 1 .. Len(t) /\ Len(l) + 1 + 1 .. Len(t) = {}
    BY <1>1
  <2> QED BY <1>1, <1>3, <2>1 DEF UltimaEscritura
<1> QED BY <1>2, <1>3 DEF t

(* A request not abandoned has users; those of one pending all wait.       *)
LEMMA ConUsuarios ==
    ASSUME Inv
    PROVE  /\ \A d \in Ocupadas : ~Abandonada(d) => Usuarios(d) # {}
           /\ \A d \in Pendientes : Bloqueados(d) = Usuarios(d)
<1>1. ASSUME NEW d \in Ocupadas, ~Abandonada(d) PROVE Usuarios(d) # {}
  <2>1. peticiones[d].numPeticiones # 0 /\ peticiones[d].numPeticiones = Cardinality(Usuarios(d))
    BY <1>1, EnMemoria DEF Inv, Cuentas, Peticion
  <2> QED BY <2>1, FS_EmptySet
<1>2. ASSUME NEW d \in Pendientes PROVE Bloqueados(d) = Usuarios(d)
  BY EnMemoria DEF Inv, Esperas, Bloqueados, Usuarios, Pide
<1> QED BY <1>1, <1>2

(* That of a request not served yet is kept when its processes and it are. *)
LEMMA EfectoQueSigue ==
    ASSUME Inv, NEW e \in Direcciones, SinServir(e), \A q \in Bloqueados(e) : pide'[q] = pide[q]
    PROVE  UltimaEscritura(pide', peticiones[e].listaProcesosBloqueados,
                           peticiones[e].operacion, peticiones[e].bloque)
<1> DEFINE l == peticiones[e].listaProcesosBloqueados
<1>1. e \in Ocupadas /\ peticiones[e] \in Peticion
  BY EnMemoria DEF Inv, Cola, SinServir
<1>2. l \in Seq(Procesos) /\ \A q \in ToSet(l) : pide'[q] = pide[q]
  BY <1>1 DEF Inv, Cuentas, SinServir, Peticion
<1>3. UltimaEscritura(pide, l, peticiones[e].operacion, peticiones[e].bloque)
  BY DEF Inv, Efectos
<1> HIDE DEF l
<1>4. UltimaEscritura(pide', l, peticiones[e].operacion, peticiones[e].bloque)
  BY <1>2, <1>3, MismoEfecto
<1> QED BY <1>4 DEF l

(* The search of the queue: a queued request for the block, or none.       *)
LEMMA Buscar ==
    Tipos => \A b :
        /\ BuscarListaPeticiones(b) = NULL => \A e \in EnCola : peticiones[e].numBloque # b
        /\ BuscarListaPeticiones(b) # NULL =>
              /\ BuscarListaPeticiones(b) \in EnCola
              /\ peticiones[BuscarListaPeticiones(b)].numBloque = b
<1> SUFFICES ASSUME Tipos, NEW b
             PROVE  /\ BuscarListaPeticiones(b) = NULL =>
                          \A e \in EnCola : peticiones[e].numBloque # b
                    /\ BuscarListaPeticiones(b) # NULL =>
                          /\ BuscarListaPeticiones(b) \in EnCola
                          /\ peticiones[BuscarListaPeticiones(b)].numBloque = b
  OBVIOUS
<1> DEFINE I == {i \in 1 .. Len(listaPeticiones) : peticiones[listaPeticiones[i]].numBloque = b}
<1>1. BuscarListaPeticiones(b) = LET k == IF I # {} THEN Min(I) ELSE 0
                                 IN  IF k = 0 THEN NULL ELSE listaPeticiones[k]
  BY DEF BuscarListaPeticiones, SelectInSeq
<1>2. listaPeticiones \in Seq(Direcciones) /\ DOMAIN listaPeticiones = 1 .. Len(listaPeticiones)
  BY LenProperties DEF Tipos
<1>3. I \in SUBSET Nat /\ \A i \in I : i # 0
  BY <1>2
<1>4. CASE I = {}
  <2>1. BuscarListaPeticiones(b) = NULL
    BY <1>1, <1>4
  <2>2. \A e \in EnCola : peticiones[e].numBloque # b
    BY <1>2, <1>4 DEF EnCola, ToSet
  <2> QED BY <2>1, <2>2
<1>5. CASE I # {}
  <2>1. Min(I) \in I
    BY <1>3, <1>5, MinimoDe
  <2>2. BuscarListaPeticiones(b) = listaPeticiones[Min(I)]
    BY <1>1, <1>3, <1>5, <2>1
  <2>3. listaPeticiones[Min(I)] \in EnCola /\ peticiones[listaPeticiones[Min(I)]].numBloque = b
    BY <1>2, <2>1 DEF EnCola, ToSet
  <2>4. listaPeticiones[Min(I)] # NULL
    BY <2>3, EnMemoria, NULLAparte
  <2> QED BY <2>2, <2>3, <2>4
<1> QED BY <1>4, <1>5

-----------------------------------------------------------------------------
(* The steps                                                               *)

(* What the steps do, in the words of the invariant.                       *)

(* p runs again and leaves the request at d.                               *)
Reanudada(p, d) ==
    /\ pide[p] # NULL /\ pide[p].peticion = d /\ pide'[p] = NULL
    /\ \A q \in Procesos : q # p => pide'[q] = pide[q]
    /\ pide' \in [Procesos -> Pide \cup {NULL}]
    /\ UNCHANGED <<disco, dma, tareaSW, peticionActual, listaPeticiones, fallos>>
    /\ d \in Ocupadas /\ d \notin Pendientes /\ ~Abandonada(d) /\ p \notin Bloqueados(d)
    /\ Usuarios(d)' = Usuarios(d) \ {p} /\ Bloqueados(d)' = Bloqueados(d)
    /\ \A e : e # d => Usuarios(e)' = Usuarios(e) /\ Bloqueados(e)' = Bloqueados(e)
    /\ Cardinality(Usuarios(d)') = peticiones[d].numPeticiones - 1
    /\ \A e : Abandonada(e)' <=> Abandonada(e)
    /\ peticiones' \in [Direcciones -> Peticion \cup {NULL}]
    /\ Ocupadas' \subseteq Ocupadas /\ Ocupadas \ {d} \subseteq Ocupadas'
    /\ d \notin Ocupadas' => Usuarios(d)' = {}
    /\ \A e \in Ocupadas' :
          /\ e # d => peticiones'[e] = peticiones[e]
          /\ peticiones'[e].numBloque = peticiones[e].numBloque
          /\ peticiones'[e].operacion = peticiones[e].operacion
          /\ peticiones'[e].bloque = peticiones[e].bloque
          /\ peticiones'[e].listaProcesosBloqueados = peticiones[e].listaProcesosBloqueados
    /\ d \in Ocupadas' => peticiones'[d].numPeticiones = peticiones[d].numPeticiones - 1
    /\ Pendientes' = Pendientes /\ EnCola' = EnCola /\ Pendientes \subseteq Ocupadas'

LEMMA ReanudarHace ==
    ASSUME Inv, NEW p \in Procesos, Reanudar(p)
    PROVE  \E d \in Direcciones : Reanudada(p, d)
<1>1. PICK d \in Direcciones : d = pide[p].peticion
  BY EnMemoria DEF Inv, Reanudar, Pide
<1>2. /\ pide[p] # NULL /\ pide[p] \in Pide /\ pide[p].estado = "LISTO"
      /\ d \in Ocupadas /\ d \notin Pendientes /\ p \in Usuarios(d) /\ p \notin Bloqueados(d)
      /\ d # peticionActual /\ peticiones[d] \in Peticion
      /\ peticiones[d].numPeticiones = Cardinality(Usuarios(d))
  <2>1. pide[p] # NULL /\ pide[p] \in Pide /\ pide[p].estado = "LISTO"
    BY EnMemoria DEF Inv, Reanudar
  <2>2. d \in Ocupadas /\ d \notin Pendientes /\ p \in Usuarios(d) /\ p \notin Bloqueados(d)
    BY <1>1, <2>1 DEF Inv, Esperas, Usuarios, Bloqueados
  <2>3. d # peticionActual /\ peticiones[d] \in Peticion
    BY <2>2, EnMemoria, NULLAparte DEF Pendientes, Inv
  <2> QED BY <2>1, <2>2, <2>3 DEF Inv, Cuentas, Abandonada
<1>3. /\ pide' = [pide EXCEPT ![p] = NULL]
      /\ UNCHANGED <<disco, dma, tareaSW, peticionActual, listaPeticiones, fallos>>
  BY DEF Reanudar, dispositivo
<1>4. /\ Usuarios(d)' = Usuarios(d) \ {p} /\ Bloqueados(d)' = Bloqueados(d)
      /\ \A e : e # d => Usuarios(e)' = Usuarios(e) /\ Bloqueados(e)' = Bloqueados(e)
  BY <1>1, <1>2, <1>3 DEF Inv, Tipos, Usuarios, Bloqueados
<1>5. Cardinality(Usuarios(d)') = peticiones[d].numPeticiones - 1
  BY <1>2, <1>4, UsuariosFinitos, FS_RemoveElement
<1>6. \A e : Abandonada(e)' <=> Abandonada(e)
  BY <1>2, <1>3, <1>4 DEF Abandonada
<1>7. /\ peticiones' \in [Direcciones -> Peticion \cup {NULL}]
      /\ Ocupadas' \subseteq Ocupadas /\ Ocupadas \ {d} \subseteq Ocupadas'
      /\ d \notin Ocupadas' => Usuarios(d)' = {}
      /\ \A e \in Ocupadas' : /\ e # d => peticiones'[e] = peticiones[e]
                              /\ peticiones'[e].numBloque = peticiones[e].numBloque
                              /\ peticiones'[e].operacion = peticiones[e].operacion
                              /\ peticiones'[e].bloque = peticiones[e].bloque
                              /\ peticiones'[e].listaProcesosBloqueados =
                                    peticiones[e].listaProcesosBloqueados
      /\ d \in Ocupadas' => peticiones'[d].numPeticiones = peticiones[d].numPeticiones - 1
  <2>1. CASE peticiones[d].numPeticiones = 1
    <3>1. peticiones' = [peticiones EXCEPT ![d] = NULL]
      BY <1>1, <2>1 DEF Reanudar, SoltarPeticion
    <3>2. Usuarios(d)' = {}
      BY <1>4, <1>5, <2>1, UsuariosFinitos, FS_Subset, FS_EmptySet
    <3> QED BY <1>2, <3>1, <3>2 DEF Inv, Tipos, Ocupadas
  <2>2. CASE peticiones[d].numPeticiones # 1
    <3>1. peticiones' = [peticiones EXCEPT ![d].numPeticiones = @ - 1]
      BY <1>1, <2>2 DEF Reanudar, SoltarPeticion
    <3> DEFINE n == peticiones[d].numPeticiones
    <3>2. n - 1 \in Nat \ {0}
      BY <1>2, <2>2 DEF Peticion
    <3>3. /\ peticiones'[d] \in Peticion
          /\ peticiones'[d].numPeticiones = peticiones[d].numPeticiones - 1
          /\ peticiones'[d].numBloque = peticiones[d].numBloque
          /\ peticiones'[d].operacion = peticiones[d].operacion
          /\ peticiones'[d].bloque = peticiones[d].bloque
          /\ peticiones'[d].listaProcesosBloqueados = peticiones[d].listaProcesosBloqueados
      BY <1>2, <3>1, <3>2 DEF Inv, Tipos, Peticion
    <3> QED BY <1>2, <3>1, <3>3, NULLAparte DEF Inv, Tipos, Ocupadas
  <2> QED BY <2>1, <2>2
<1>8. Pendientes' = Pendientes /\ EnCola' = EnCola /\ Pendientes \subseteq Ocupadas'
  BY <1>2, <1>3, <1>7 DEF Inv, Cola, Pendientes, EnCola
<1>9. /\ pide' \in [Procesos -> Pide \cup {NULL}] /\ pide'[p] = NULL
      /\ \A q \in Procesos : q # p => pide'[q] = pide[q]
  BY <1>3 DEF Inv, Tipos
<1>10. ~Abandonada(d)
  BY <1>2 DEF Abandonada
<1> QED BY <1>1, <1>2, <1>3, <1>4, <1>5, <1>6, <1>7, <1>8, <1>9, <1>10 DEF Reanudada

(* A process runs again and its request loses it.                          *)
LEMMA ReanudarCumple ==
    ASSUME Inv, NEW p \in Procesos, NEW d \in Direcciones, Reanudada(p, d)
    PROVE  Inv'
<1>1. Tipos'
  BY DEF Reanudada, Inv, Tipos
<1>2. Servicio'
  BY DEF Reanudada, Inv, Servicio
<1>3. Cola'
  BY DEF Reanudada, Inv, Cola, Pendientes
<1>4. Esperas'
  <2>1. ASSUME NEW q \in Procesos, pide'[q] # NULL
        PROVE  /\ pide'[q].peticion \in Ocupadas'
               /\ pide'[q].bloque = peticiones'[pide'[q].peticion].numBloque
               /\ pide'[q].op = "escribir" => pide'[q].valor \in Valores
               /\ pide'[q].estado = "LISTO" => pide'[q].peticion \notin Pendientes'
               /\ pide'[q].estado = "BLOQUEADO" => pide'[q].peticion \in Pendientes' \/ fallos' > 0
    <3>1. q # p /\ pide'[q] = pide[q] /\ pide[q] # NULL
      BY <2>1 DEF Reanudada
    <3>2. pide[q].peticion = d => q \in Usuarios(d)'
      BY <3>1 DEF Usuarios
    <3>3. pide[q].peticion \in Ocupadas'
      BY <3>1, <3>2 DEF Reanudada, Inv, Esperas
    <3> QED BY <3>1, <3>3 DEF Reanudada, Inv, Esperas
  <2> QED BY <2>1 DEF Esperas
<1>5. Cuentas'
  <2>1. ASSUME NEW e \in Ocupadas'
        PROVE  /\ Abandonada(e)' => peticiones'[e].numPeticiones <= Cardinality(Procesos)
               /\ ~Abandonada(e)' =>
                    /\ peticiones'[e].numPeticiones = Cardinality(Usuarios(e)')
                    /\ IsInjective(peticiones'[e].listaProcesosBloqueados)
                    /\ ToSet(peticiones'[e].listaProcesosBloqueados) = Bloqueados(e)'
    <3>1. CASE e = d
      BY <3>1 DEF Reanudada, Inv, Cuentas
    <3>2. CASE e # d
      <4>1. e \in Ocupadas /\ peticiones'[e] = peticiones[e]
        BY <3>2 DEF Reanudada
      <4> QED BY <3>2, <4>1 DEF Reanudada, Inv, Cuentas
    <3> QED BY <3>1, <3>2
  <2> QED BY <2>1 DEF Cuentas
<1>6. Efectos'
  <2>1. ASSUME NEW e \in Direcciones, SinServir(e)'
        PROVE  UltimaEscritura(pide', peticiones'[e].listaProcesosBloqueados,
                               peticiones'[e].operacion, peticiones'[e].bloque)
    <3>1. SinServir(e) /\ e # d /\ e \in Ocupadas /\ peticiones'[e] = peticiones[e]
      BY <2>1 DEF Reanudada, SinServir, Inv, Cola
    <3>2. \A q \in Bloqueados(e) : pide'[q] = pide[q]
      BY <3>1 DEF Reanudada, Bloqueados, Usuarios
    <3> QED BY <3>1, <3>2, EfectoQueSigue
  <2> QED BY <2>1 DEF Efectos
<1> QED BY <1>1, <1>2, <1>3, <1>4, <1>5, <1>6 DEF Inv

(* p begins to wait in the request at d.                                   *)
Espera(p, op, b, v, d) ==
    /\ pide[p] = NULL /\ pide' \in [Procesos -> Pide \cup {NULL}] /\ pide'[p] # NULL
    /\ pide'[p] = [op |-> op, bloque |-> b, valor |-> v, peticion |-> d, estado |-> "BLOQUEADO"]
    /\ \A q \in Procesos : q # p => pide'[q] = pide[q]
    /\ Usuarios(d)' = Usuarios(d) \cup {p} /\ Bloqueados(d)' = Bloqueados(d) \cup {p}
    /\ p \notin Usuarios(d) /\ p \notin Bloqueados(d)
    /\ \A e : e # d => Usuarios(e)' = Usuarios(e) /\ Bloqueados(e)' = Bloqueados(e)
    /\ \A e : p \notin Bloqueados(e)
    /\ Cardinality(Usuarios(d)') = Cardinality(Usuarios(d)) + 1
    /\ Cardinality(Usuarios(d)') <= Cardinality(Procesos)

LEMMA Esperando ==
    ASSUME Inv, NEW p \in Procesos, NEW op \in Operaciones, NEW b \in Bloques,
           NEW v \in Valores \cup {NULL}, NEW d \in Direcciones,
           EnUsuario(p), Esperar(p, op, b, v, d)
    PROVE  Espera(p, op, b, v, d)
<1> DEFINE r == [op |-> op, bloque |-> b, valor |-> v, peticion |-> d, estado |-> "BLOQUEADO"]
<1>1. pide[p] = NULL /\ pide' = [pide EXCEPT ![p] = r] /\ pide \in [Procesos -> Pide \cup {NULL}]
  BY DEF EnUsuario, Esperar, Inv, Tipos
<1>2. r \in Pide /\ r # NULL
  <2>1. r \in Pide
    BY DEF Pide
  <2> QED BY <2>1, NULLAparte
<1>3. r.estado = "BLOQUEADO" /\ r.peticion = d
  OBVIOUS
<1> HIDE DEF r
<1>4. pide'[p] = r /\ \A q \in Procesos : q # p => pide'[q] = pide[q]
  BY <1>1
<1>5. /\ Usuarios(d)' = Usuarios(d) \cup {p} /\ Bloqueados(d)' = Bloqueados(d) \cup {p}
      /\ p \notin Usuarios(d) /\ p \notin Bloqueados(d)
      /\ \A e : e # d => Usuarios(e)' = Usuarios(e) /\ Bloqueados(e)' = Bloqueados(e)
  BY <1>1, <1>2, <1>3, <1>4 DEF Usuarios, Bloqueados
<1>6. Cardinality(Usuarios(d)') = Cardinality(Usuarios(d)) + 1
  BY <1>5, UsuariosFinitos, FS_AddElement
<1>7. Usuarios(d)' \subseteq Procesos
  BY DEF Usuarios
<1>8. Cardinality(Usuarios(d)') <= Cardinality(Procesos)
  BY <1>7, NULLAparte, FS_Subset
<1>9. pide' \in [Procesos -> Pide \cup {NULL}]
  BY <1>1, <1>2
<1>10. \A e : p \notin Bloqueados(e)
  BY <1>1 DEF Bloqueados, Usuarios
<1> QED BY <1>1, <1>2, <1>4, <1>5, <1>6, <1>8, <1>9, <1>10 DEF r, Espera

(* The request at d, of block b, is joined by p.                           *)
Unida(p, op, b, v, d) ==
    /\ Espera(p, op, b, v, d)
    /\ UNCHANGED <<disco, dma, tareaSW, peticionActual, listaPeticiones, fallos>>
    /\ d \in EnCola /\ d \in Pendientes /\ d \in Ocupadas /\ d # peticionActual
    /\ ~Abandonada(d) /\ peticiones[d].numBloque = b /\ peticiones[d] \in Peticion
    /\ peticiones' \in [Direcciones -> Peticion \cup {NULL}] /\ Ocupadas' = Ocupadas
    /\ \A e \in Direcciones : e # d => peticiones'[e] = peticiones[e]
    /\ \A e \in Ocupadas : peticiones'[e].numBloque = peticiones[e].numBloque
    /\ peticiones'[d].numPeticiones = peticiones[d].numPeticiones + 1
    /\ peticiones'[d].listaProcesosBloqueados = Append(peticiones[d].listaProcesosBloqueados, p)
    /\ peticiones'[d].bloque = IF op = "escribir" THEN v ELSE peticiones[d].bloque
    /\ peticiones'[d].operacion = IF op = "escribir" THEN op ELSE peticiones[d].operacion
    /\ Pendientes' = Pendientes /\ EnCola' = EnCola
    /\ \A e : Abandonada(e)' <=> Abandonada(e)

LEMMA UnirseHace ==
    ASSUME Inv, NEW p \in Procesos, NEW op \in Operaciones, NEW b \in Bloques,
           NEW v \in Valores \cup {NULL}, PeticionBloque(p, op, b, v),
           NEW d, d = BuscarListaPeticiones(b), d # NULL
    PROVE  d \in Direcciones /\ Unida(p, op, b, v, d)
<1>1. /\ d \in EnCola /\ d \in Pendientes /\ d \in Ocupadas /\ d \in Direcciones
      /\ d # peticionActual /\ ~Abandonada(d)
      /\ peticiones[d].numBloque = b /\ peticiones[d] \in Peticion
  <2>1. d \in EnCola /\ peticiones[d].numBloque = b
    BY Buscar DEF Inv
  <2> QED BY <2>1, EnMemoria DEF Inv, Cola, Pendientes, Abandonada
<1>2. /\ EnUsuario(p) /\ Esperar(p, op, b, v, d) /\ UnirsePeticion(p, op, b, v, d)
      /\ UNCHANGED <<disco, dma, tareaSW, peticionActual, listaPeticiones, fallos>>
  BY DEF PeticionBloque, UnirsePeticion
<1>3. Espera(p, op, b, v, d)
  BY <1>1, <1>2, Esperando
<1> DEFINE l == peticiones[d].listaProcesosBloqueados
           v2 == IF op = "escribir" THEN v ELSE peticiones[d].bloque
           op2 == IF op = "escribir" THEN op ELSE peticiones[d].operacion
<1>4. /\ peticiones'[d] \in Peticion
      /\ peticiones'[d].numBloque = b
      /\ peticiones'[d].numPeticiones = peticiones[d].numPeticiones + 1
      /\ peticiones'[d].listaProcesosBloqueados = Append(l, p)
      /\ peticiones'[d].bloque = v2 /\ peticiones'[d].operacion = op2
      /\ \A e \in Direcciones : e # d => peticiones'[e] = peticiones[e]
      /\ DOMAIN peticiones' = Direcciones /\ peticiones' = [e \in Direcciones |-> peticiones'[e]]
  <2>1. /\ peticiones' = [peticiones EXCEPT ![d].numPeticiones = @ + 1,
                          ![d].listaProcesosBloqueados = Append(@, p),
                          ![d].bloque = IF op = "escribir" THEN v ELSE @,
                          ![d].operacion = IF op = "escribir" THEN op ELSE @]
        /\ peticiones \in [Direcciones -> Peticion \cup {NULL}]
    BY <1>2 DEF UnirsePeticion, Inv, Tipos
  <2>2. v2 \in Valores \cup {NULL} /\ op2 \in Operaciones
    BY <1>1 DEF Peticion
  <2>3. peticiones[d].numPeticiones \in Nat \ {0} /\ l \in Seq(Procesos)
    BY <1>1 DEF Peticion
  <2> HIDE DEF l
  <2>4. Append(l, p) \in Seq(Procesos)
    BY <2>3
  <2> QED BY <1>1, <2>1, <2>2, <2>3, <2>4 DEF Peticion, l
<1>5. /\ peticiones' \in [Direcciones -> Peticion \cup {NULL}]
      /\ Ocupadas' = Ocupadas
      /\ \A e \in Ocupadas : peticiones'[e].numBloque = peticiones[e].numBloque
  BY <1>1, <1>4, NULLAparte DEF Inv, Tipos, Ocupadas
<1>6. /\ Pendientes' = Pendientes /\ EnCola' = EnCola
      /\ \A e : Abandonada(e)' <=> Abandonada(e)
  BY <1>1, <1>2, <1>3 DEF Pendientes, EnCola, Abandonada, Espera
<1> HIDE DEF l
<1> QED BY <1>1, <1>2, <1>3, <1>4, <1>5, <1>6 DEF Unida, l

(* A process joins a queued request.                                       *)
LEMMA UnirseCumple ==
    ASSUME Inv, NEW p \in Procesos, NEW op \in Operaciones, NEW b \in Bloques,
           NEW v \in Valores \cup {NULL}, op = "escribir" => v \in Valores,
           NEW d \in Direcciones, Unida(p, op, b, v, d)
    PROVE  Inv'
<1>1. Tipos'
  <2>1. ASSUME NEW e \in Ocupadas', peticiones'[e].operacion = "escribir"
        PROVE  peticiones'[e].bloque \in Valores
    BY <2>1 DEF Unida, Inv, Tipos, Ocupadas
  <2> QED BY <2>1 DEF Unida, Espera, Inv, Tipos
<1>2. Servicio'
  BY DEF Unida, Inv, Servicio
<1>3. Cola'
  <2>1. EnCola \subseteq Ocupadas
    BY DEF Inv, Cola, Pendientes
  <2> QED BY <2>1 DEF Unida, Inv, Cola
<1>4. Esperas'
  <2>1. ASSUME NEW q \in Procesos, pide'[q] # NULL
        PROVE  /\ pide'[q].peticion \in Ocupadas'
               /\ pide'[q].bloque = peticiones'[pide'[q].peticion].numBloque
               /\ pide'[q].op = "escribir" => pide'[q].valor \in Valores
               /\ pide'[q].estado = "LISTO" => pide'[q].peticion \notin Pendientes'
               /\ pide'[q].estado = "BLOQUEADO" => pide'[q].peticion \in Pendientes' \/ fallos' > 0
    BY <2>1 DEF Unida, Espera, Inv, Esperas
  <2> QED BY <2>1 DEF Esperas
<1>5. Cuentas'
  <2>1. ASSUME NEW e \in Ocupadas
        PROVE  /\ Abandonada(e)' => peticiones'[e].numPeticiones <= Cardinality(Procesos)
               /\ ~Abandonada(e)' =>
                    /\ peticiones'[e].numPeticiones = Cardinality(Usuarios(e)')
                    /\ IsInjective(peticiones'[e].listaProcesosBloqueados)
                    /\ ToSet(peticiones'[e].listaProcesosBloqueados) = Bloqueados(e)'
    <3>1. CASE e = d
      <4> DEFINE l == peticiones[d].listaProcesosBloqueados
      <4>1. l \in Seq(Procesos) /\ IsInjective(l) /\ ToSet(l) = Bloqueados(d)
        BY DEF Unida, Inv, Cuentas, Peticion
      <4> HIDE DEF l
      <4>2. IsInjective(Append(l, p)) /\ ToSet(Append(l, p)) = Bloqueados(d)'
        BY <4>1, Insertar DEF Unida, Espera
      <4> QED BY <3>1, <4>2 DEF Unida, Espera, Inv, Cuentas, l
    <3>2. CASE e # d
      BY <3>2 DEF Unida, Espera, Inv, Cuentas, Ocupadas
    <3> QED BY <3>1, <3>2
  <2> QED BY <2>1 DEF Unida, Cuentas
<1>6. Efectos'
  <2>1. ASSUME NEW e \in Direcciones, SinServir(e)'
        PROVE  UltimaEscritura(pide', peticiones'[e].listaProcesosBloqueados,
                               peticiones'[e].operacion, peticiones'[e].bloque)
    <3>1. SinServir(e) /\ \A q \in Bloqueados(e) : pide'[q] = pide[q]
      BY <2>1 DEF Unida, Espera, SinServir, Bloqueados, Usuarios
    <3> DEFINE l == peticiones[e].listaProcesosBloqueados
    <3>2. UltimaEscritura(pide', l, peticiones[e].operacion, peticiones[e].bloque)
      BY <3>1, EfectoQueSigue
    <3>3. CASE e # d
      BY <3>2, <3>3 DEF Unida
    <3>4. CASE e = d
      <4>1. pide'[p].op = op /\ pide'[p].valor = v
        BY DEF Unida, Espera
      <4>2. l \in Seq(Procesos)
        BY <3>4 DEF Unida, Peticion
      <4> HIDE DEF l
      <4>3. UltimaEscritura(pide', Append(l, p),
                            IF op = "escribir" THEN op ELSE peticiones[e].operacion,
                            IF op = "escribir" THEN v ELSE peticiones[e].bloque)
        BY <3>2, <4>1, <4>2, EfectoDelUltimo DEF Operaciones
      <4> QED BY <3>4, <4>3 DEF Unida, l
    <3> QED BY <3>3, <3>4
  <2> QED BY <2>1 DEF Efectos
<1> QED BY <1>1, <1>2, <1>3, <1>4, <1>5, <1>6 DEF Inv

(* The step adds at d the request of p for block b.                        *)
Creada(p, op, b, v, d) ==
    /\ d \in Direcciones /\ d # NULL /\ d \notin Ocupadas /\ d \notin Pendientes
    /\ Usuarios(d) = {} /\ Bloqueados(d) = {}
    /\ Ocupadas' = Ocupadas \cup {d}
    /\ peticiones' \in [Direcciones -> Peticion \cup {NULL}]
    /\ peticiones'[d] \in Peticion
    /\ \A e \in Ocupadas : e # d /\ peticiones'[e] = peticiones[e]
    /\ peticiones'[d].numBloque = b /\ peticiones'[d].operacion = op
    /\ peticiones'[d].numPeticiones = 1
    /\ peticiones'[d].listaProcesosBloqueados = <<p>>
    /\ peticiones'[d].bloque = IF op = "escribir" THEN v ELSE NULL
    /\ Pendientes' = Pendientes \cup {d}
    /\ EnCola' \subseteq EnCola \cup {d} /\ EnCola \subseteq EnCola'
    /\ d \in EnCola' => peticionActual # NULL /\ peticionActual' = peticionActual
    /\ peticionActual' \in Direcciones \cup {NULL}
    /\ listaPeticiones' \in Seq(Direcciones)
    /\ Cola'

(* A request is created for a block nobody waits for in the queue.         *)
LEMMA Creando ==
    ASSUME Inv, NEW p \in Procesos, NEW op \in Operaciones, NEW b \in Bloques,
           NEW v \in Valores \cup {NULL}, op = "escribir" => v \in Valores,
           NEW d \in Direcciones, NEW lanzada \in BOOLEAN, BuscarListaPeticiones(b) = NULL,
           Libre(d), CrearPeticion(p, op, b, v, d, lanzada)
    PROVE  Creada(p, op, b, v, d)
<1> DEFINE r == [numBloque |-> b, operacion |-> op, numPeticiones |-> 1,
                 listaProcesosBloqueados |-> <<p>>,
                 bloque |-> IF op = "escribir" THEN v ELSE NULL]
<1>1. /\ d \in Direcciones /\ d # NULL /\ peticiones[d] = NULL
      /\ peticiones' = [peticiones EXCEPT ![d] = r]
  BY NULLAparte DEF Libre, CrearPeticion
<1>2. r \in Peticion /\ r # NULL
  <2>1. <<p>> \in Seq(Procesos)
    OBVIOUS
  <2>2. r \in Peticion
    BY <2>1 DEF Peticion
  <2> QED BY <2>2, NULLAparte
<1>3. /\ r.numBloque = b /\ r.operacion = op /\ r.numPeticiones = 1
      /\ r.listaProcesosBloqueados = <<p>>
      /\ r.bloque = IF op = "escribir" THEN v ELSE NULL
  OBVIOUS
<1> HIDE DEF r
<1>4. d \notin Ocupadas /\ d \notin Pendientes /\ Usuarios(d) = {} /\ Bloqueados(d) = {}
  BY <1>1 DEF Ocupadas, Inv, Cola, Esperas, Usuarios, Bloqueados
<1>5. /\ peticiones' \in [Direcciones -> Peticion \cup {NULL}] /\ peticiones'[d] = r
      /\ \A e \in Ocupadas : e # d /\ peticiones'[e] = peticiones[e]
      /\ Ocupadas' = Ocupadas \cup {d}
  BY <1>1, <1>2 DEF Inv, Tipos, Ocupadas
<1>6. /\ Pendientes' = Pendientes \cup {d}
      /\ EnCola' \subseteq EnCola \cup {d} /\ EnCola \subseteq EnCola'
      /\ d \in EnCola' => peticionActual # NULL /\ peticionActual' = peticionActual
      /\ peticionActual' \in Direcciones \cup {NULL} /\ peticionActual' \notin EnCola'
      /\ listaPeticiones' \in Seq(Direcciones) /\ IsInjective(listaPeticiones')
  <2>1. CASE peticionActual = NULL
    <3>1. peticionActual' = d /\ listaPeticiones' = listaPeticiones
      BY <2>1 DEF CrearPeticion
    <3> QED BY <1>1, <1>4, <2>1, <3>1 DEF Inv, Tipos, Cola, Pendientes, EnCola
  <2>2. CASE peticionActual # NULL
    <3>1. peticionActual' = peticionActual /\ listaPeticiones' = Append(listaPeticiones, d)
      BY <2>2 DEF CrearPeticion
    <3>2. /\ listaPeticiones' \in Seq(Direcciones) /\ IsInjective(listaPeticiones')
          /\ ToSet(listaPeticiones') = ToSet(listaPeticiones) \cup {d}
      BY <1>1, <1>4, <3>1, Insertar DEF Inv, Tipos, Cola, Pendientes, EnCola
    <3> QED BY <1>1, <1>4, <2>2, <3>1, <3>2 DEF Inv, Tipos, Cola, Pendientes, EnCola
  <2> QED BY <2>1, <2>2
<1>7. Cola'
  <2>1. \A e \in EnCola : peticiones[e].numBloque # b
    BY Buscar DEF Inv
  <2>2. EnCola \subseteq Ocupadas
    BY DEF Inv, Cola, Pendientes
  <2>3. \A e, g \in EnCola' : peticiones'[e].numBloque = peticiones'[g].numBloque => e = g
    <3>1. SUFFICES ASSUME NEW e \in EnCola', NEW g \in EnCola',
                          peticiones'[e].numBloque = peticiones'[g].numBloque
                   PROVE  e = g
      OBVIOUS
    <3>2. \A h \in EnCola' : h # d => /\ h \in EnCola /\ peticiones'[h] = peticiones[h]
                                      /\ peticiones'[h].numBloque # b
      BY <1>5, <1>6, <2>1, <2>2
    <3>3. CASE e # d /\ g # d
      BY <3>1, <3>2, <3>3 DEF Inv, Cola
    <3>4. CASE e = d \/ g = d
      BY <1>3, <1>5, <3>1, <3>2, <3>4
    <3> QED BY <3>3, <3>4
  <2>4. Pendientes' \subseteq Ocupadas'
    BY <1>5, <1>6 DEF Inv, Cola
  <2> QED BY <1>6, <2>3, <2>4 DEF Cola
<1> QED BY <1>1, <1>2, <1>3, <1>4, <1>5, <1>6, <1>7 DEF Creada

(* A process creates the request it waits in.                              *)
LEMMA CrearCumple ==
    ASSUME Inv, NEW p \in Procesos, NEW op \in Operaciones, NEW b \in Bloques,
           NEW v \in Valores \cup {NULL}, op = "escribir" => v \in Valores,
           PeticionBloque(p, op, b, v), BuscarListaPeticiones(b) = NULL
    PROVE  Inv'
<1>1. PICK d \in Direcciones : /\ Libre(d) /\ CrearPeticion(p, op, b, v, d, TRUE)
                               /\ Esperar(p, op, b, v, d)
  BY DEF PeticionBloque
<1>2. EnUsuario(p) /\ UNCHANGED <<disco, tareaSW, fallos>>
  BY DEF PeticionBloque
<1>3. Espera(p, op, b, v, d)
  BY <1>1, <1>2, Esperando
<1>4. /\ d \in Direcciones /\ d # NULL /\ d \notin Ocupadas /\ d \notin Pendientes
      /\ Usuarios(d) = {} /\ Bloqueados(d) = {}
      /\ Ocupadas' = Ocupadas \cup {d}
      /\ peticiones' \in [Direcciones -> Peticion \cup {NULL}]
      /\ \A e \in Ocupadas : e # d /\ peticiones'[e] = peticiones[e]
      /\ peticiones'[d].numBloque = b /\ peticiones'[d].operacion = op
      /\ peticiones'[d].numPeticiones = 1
      /\ peticiones'[d].listaProcesosBloqueados = <<p>>
      /\ peticiones'[d].bloque = IF op = "escribir" THEN v ELSE NULL
  <2>1. Creada(p, op, b, v, d)
    BY <1>1, Creando
  <2> QED BY <2>1 DEF Creada
<1>5. /\ Pendientes' = Pendientes \cup {d}
      /\ peticionActual' \in Direcciones \cup {NULL} /\ listaPeticiones' \in Seq(Direcciones)
      /\ Cola'
  <2>1. Creada(p, op, b, v, d)
    BY <1>1, Creando
  <2> QED BY <2>1 DEF Creada
<1>6. /\ peticionActual = NULL => /\ peticionActual' = d /\ dma' = "en curso"
                                  /\ listaPeticiones' = listaPeticiones
      /\ peticionActual # NULL => peticionActual' = peticionActual /\ dma' = dma
  BY <1>1 DEF CrearPeticion
<1>7. /\ \A e \in Ocupadas : Abandonada(e)' <=> Abandonada(e)
      /\ ~Abandonada(d)'
  BY <1>2, <1>3, <1>4, <1>6, NULLAparte DEF Abandonada, Ocupadas, Espera
<1>8. Tipos'
  BY <1>2, <1>3, <1>4, <1>5, <1>6 DEF Inv, Tipos, Espera
<1>9. Servicio'
  BY <1>2, <1>4, <1>6, NULLAparte DEF Inv, Servicio
<1>10. Esperas'
  <2>1. ASSUME NEW q \in Procesos, pide'[q] # NULL
        PROVE  /\ pide'[q].peticion \in Ocupadas'
               /\ pide'[q].bloque = peticiones'[pide'[q].peticion].numBloque
               /\ pide'[q].op = "escribir" => pide'[q].valor \in Valores
               /\ pide'[q].estado = "LISTO" => pide'[q].peticion \notin Pendientes'
               /\ pide'[q].estado = "BLOQUEADO" => pide'[q].peticion \in Pendientes' \/ fallos' > 0
    <3>1. CASE q = p
      BY <1>3, <1>4, <1>5, <3>1 DEF Espera
    <3>2. CASE q # p
      BY <1>2, <1>3, <1>4, <1>5, <2>1, <3>2 DEF Inv, Esperas, Espera
    <3> QED BY <3>1, <3>2
  <2> QED BY <2>1 DEF Esperas
<1>11. Cuentas'
  <2>1. ASSUME NEW e \in Ocupadas'
        PROVE  /\ Abandonada(e)' => peticiones'[e].numPeticiones <= Cardinality(Procesos)
               /\ ~Abandonada(e)' =>
                    /\ peticiones'[e].numPeticiones = Cardinality(Usuarios(e)')
                    /\ IsInjective(peticiones'[e].listaProcesosBloqueados)
                    /\ ToSet(peticiones'[e].listaProcesosBloqueados) = Bloqueados(e)'
    <3>1. CASE e = d
      <4>1. Cardinality(Usuarios(d)') = 1
        BY <1>3, <1>4, FS_EmptySet DEF Espera
      <4>2. IsInjective(<<p>>) /\ ToSet(<<p>>) = {p}
        BY DEF IsInjective, ToSet
      <4> QED BY <1>3, <1>4, <1>7, <3>1, <4>1, <4>2 DEF Espera
    <3>2. CASE e # d
      BY <1>3, <1>4, <1>7, <3>2 DEF Inv, Cuentas, Espera
    <3> QED BY <3>1, <3>2
  <2> QED BY <2>1 DEF Cuentas
<1>12. Efectos'
  <2>1. ASSUME NEW e \in Direcciones, SinServir(e)'
        PROVE  UltimaEscritura(pide', peticiones'[e].listaProcesosBloqueados,
                               peticiones'[e].operacion, peticiones'[e].bloque)
    <3>1. CASE e = d
      <4>1. pide'[p].op = op /\ pide'[p].valor = v
        BY <1>3 DEF Espera
      <4>2. Append(<<>>, p) = <<p>> /\ <<>> \in Seq(Procesos) /\ Len(<<>>) = 0
        OBVIOUS
      <4>3. UltimaEscritura(pide', <<>>, "leer", NULL)
        BY DEF UltimaEscritura
      <4>4. UltimaEscritura(pide', <<p>>, op, IF op = "escribir" THEN v ELSE NULL)
        BY <4>1, <4>2, <4>3, EfectoDelUltimo DEF Operaciones
      <4> QED BY <1>4, <3>1, <4>4
    <3>2. CASE e # d
      <4>1. SinServir(e) /\ e \in Ocupadas
        BY <1>4, <1>5, <1>6, <1>7, <2>1, <3>2, NULLAparte DEF SinServir, Inv, Cola, Pendientes
      <4>2. \A q \in Bloqueados(e) : pide'[q] = pide[q]
        BY <1>3 DEF Espera, Bloqueados, Usuarios
      <4> QED BY <1>4, <4>1, <4>2, EfectoQueSigue
    <3> QED BY <3>1, <3>2
  <2> QED BY <2>1 DEF Efectos
<1> QED BY <1>5, <1>8, <1>9, <1>10, <1>11, <1>12 DEF Inv

(* A request whose first transfer does not start: its process goes on.     *)
LEMMA FallidaCumple ==
    ASSUME Inv, NEW p \in Procesos, NEW op \in Operaciones, NEW b \in Bloques,
           NEW v \in Valores \cup {NULL}, op = "escribir" => v \in Valores,
           PeticionFallida(p, op, b, v)
    PROVE  Inv'
<1>1. PICK d \in Direcciones : Libre(d) /\ CrearPeticion(p, op, b, v, d, FALSE)
  BY DEF PeticionFallida
<1>2. /\ UNCHANGED <<disco, tareaSW, pide>> /\ peticionActual = NULL
      /\ BuscarListaPeticiones(b) = NULL /\ fallos' \in 0 .. MaxFallos /\ fallos' > 0
  <2>1. fallos < MaxFallos /\ fallos' = fallos + 1 /\ fallos \in 0 .. MaxFallos
    BY DEF PeticionFallida, Inv, Tipos
  <2>2. fallos' \in 0 .. MaxFallos /\ fallos' > 0
    BY <2>1, DiscoAssumption
  <2> QED BY <2>2 DEF PeticionFallida
<1>3. /\ d \in Direcciones /\ d # NULL /\ d \notin Ocupadas /\ d \notin Pendientes
      /\ Usuarios(d) = {} /\ Bloqueados(d) = {}
      /\ Ocupadas' = Ocupadas \cup {d}
      /\ peticiones' \in [Direcciones -> Peticion \cup {NULL}]
      /\ \A e \in Ocupadas : e # d /\ peticiones'[e] = peticiones[e]
      /\ peticiones'[d].numBloque = b /\ peticiones'[d].operacion = op
      /\ peticiones'[d].numPeticiones = 1
      /\ peticiones'[d].bloque = IF op = "escribir" THEN v ELSE NULL
  <2>1. Creada(p, op, b, v, d)
    BY <1>1, <1>2, Creando
  <2> QED BY <2>1 DEF Creada
<1>4. /\ Pendientes' = Pendientes \cup {d} /\ listaPeticiones' \in Seq(Direcciones) /\ Cola'
  <2>1. Creada(p, op, b, v, d)
    BY <1>1, <1>2, Creando
  <2> QED BY <2>1 DEF Creada
<1>5. peticionActual' = d /\ dma' = "parado" /\ listaPeticiones' = listaPeticiones
  BY <1>1, <1>2 DEF CrearPeticion
<1>6. /\ \A e : Usuarios(e)' = Usuarios(e) /\ Bloqueados(e)' = Bloqueados(e)
  BY <1>2 DEF Usuarios, Bloqueados
<1>7. /\ Abandonada(d)' /\ \A e \in Ocupadas : ~Abandonada(e)' /\ ~Abandonada(e)
  BY <1>2, <1>3, <1>5, <1>6, NULLAparte DEF Abandonada, Ocupadas
<1>8. Tipos'
  BY <1>2, <1>3, <1>4, <1>5 DEF Inv, Tipos
<1>9. Servicio' 
  BY <1>2, <1>3, <1>5 DEF Inv, Servicio
<1>10. Esperas'
  BY <1>2, <1>3, <1>4 DEF Inv, Esperas
<1>11. Cuentas'
  <2>1. 1 <= Cardinality(Procesos)
    <3>1. Cardinality({p}) = 1 /\ IsFiniteSet({p}) /\ {p} \in SUBSET Procesos
      BY FS_Singleton
    <3> QED BY <3>1, NULLAparte, FS_Subset
  <2> QED BY <1>3, <1>6, <1>7, <2>1 DEF Inv, Cuentas
<1>12. Efectos'
  BY <1>2, <1>3, <1>4, <1>5, <1>7 DEF Inv, Efectos, SinServir, Cola, Servicio, Pendientes, EnCola
<1> QED BY <1>4, <1>8, <1>9, <1>10, <1>11, <1>12 DEF Inv

(* The transfer of the request at a, the one in service, ends.             *)
Terminada(a) ==
    /\ a = peticionActual /\ a # NULL /\ a \in Ocupadas /\ a \in Pendientes
    /\ peticiones[a] \in Peticion
    /\ dma = "en curso" /\ dma' = "terminado" /\ tareaSW' \in BOOLEAN
    /\ UNCHANGED <<peticionActual, listaPeticiones, pide>>
    /\ fallos' \in 0 .. MaxFallos /\ (fallos > 0 => fallos' > 0)
    /\ disco' = [disco EXCEPT ![peticiones[a].numBloque] = peticiones'[a].bloque]
    /\ peticiones' \in [Direcciones -> Peticion \cup {NULL}]
    /\ \A e \in Direcciones : e # a => peticiones'[e] = peticiones[e]
    /\ \A e \in Ocupadas :
          /\ peticiones'[e].numBloque = peticiones[e].numBloque
          /\ peticiones'[e].operacion = peticiones[e].operacion
          /\ peticiones'[e].numPeticiones = peticiones[e].numPeticiones
          /\ peticiones'[e].listaProcesosBloqueados = peticiones[e].listaProcesosBloqueados
    /\ peticiones'[a].bloque = IF peticiones[a].operacion = "escribir" THEN peticiones[a].bloque
                               ELSE disco[peticiones[a].numBloque]
    /\ peticiones'[a].bloque \in Valores
    /\ Pendientes' = Pendientes /\ EnCola' = EnCola /\ Ocupadas' = Ocupadas
    /\ \A e : Usuarios(e)' = Usuarios(e) /\ Bloqueados(e)' = Bloqueados(e)
    /\ \A e : ~Abandonada(e) /\ ~Abandonada(e)'

LEMMA HWHace ==
    ASSUME Inv, InterrupcionHW
    PROVE  \E a \in Direcciones : Terminada(a)
<1>1. PICK a \in Direcciones : /\ a = peticionActual /\ a # NULL /\ a \in Ocupadas
                               /\ a \in Pendientes /\ peticiones[a] \in Peticion
  BY EnMemoria, NULLAparte DEF InterrupcionHW, Inv, Servicio, Cola, Pendientes
<1>2. /\ dma = "en curso" /\ dma' = "terminado" /\ tareaSW' \in BOOLEAN
      /\ UNCHANGED <<peticionActual, listaPeticiones, pide>>
  BY DEF InterrupcionHW, Inv, Tipos
<1>3. fallos' \in 0 .. MaxFallos /\ (fallos > 0 => fallos' > 0)
  <2>1. /\ fallos' = fallos \/ (fallos < MaxFallos /\ fallos' = fallos + 1)
        /\ fallos \in 0 .. MaxFallos
    BY DEF InterrupcionHW, Inv, Tipos
  <2> QED BY <2>1, DiscoAssumption
<1> DEFINE b == peticiones[a].numBloque
<1>4. /\ disco' = [disco EXCEPT ![b] = peticiones'[a].bloque]
      /\ \A e \in Direcciones : e # a => peticiones'[e] = peticiones[e]
      /\ peticiones' = [e \in Direcciones |-> peticiones'[e]]
      /\ peticiones'[a] \in Peticion
      /\ peticiones'[a].numBloque = peticiones[a].numBloque
      /\ peticiones'[a].operacion = peticiones[a].operacion
      /\ peticiones'[a].numPeticiones = peticiones[a].numPeticiones
      /\ peticiones'[a].listaProcesosBloqueados = peticiones[a].listaProcesosBloqueados
      /\ peticiones'[a].bloque = IF peticiones[a].operacion = "escribir" THEN peticiones[a].bloque
                                 ELSE disco[b]
      /\ peticiones'[a].bloque \in Valores
  <2>1. CASE peticiones[a].operacion = "escribir"
    <3>1. disco' = [disco EXCEPT ![b] = peticiones[a].bloque] /\ peticiones' = peticiones
      BY <1>1, <2>1 DEF InterrupcionHW
    <3>2. peticiones[a].bloque \in Valores
      BY <1>1, <2>1 DEF Inv, Tipos
    <3> QED BY <1>1, <2>1, <3>1, <3>2 DEF Inv, Tipos
  <2>2. CASE peticiones[a].operacion # "escribir"
    <3>1. peticiones' = [peticiones EXCEPT ![a].bloque = disco[b]] /\ disco' = disco
      BY <1>1, <2>2 DEF InterrupcionHW
    <3>2. disco[b] \in Valores /\ disco' = [disco EXCEPT ![b] = disco[b]]
      BY <1>1, <3>1 DEF Inv, Tipos, Peticion
    <3> HIDE DEF b
    <3>3. /\ peticiones'[a] \in Peticion
          /\ peticiones'[a].numBloque = peticiones[a].numBloque
          /\ peticiones'[a].operacion = peticiones[a].operacion
          /\ peticiones'[a].numPeticiones = peticiones[a].numPeticiones
          /\ peticiones'[a].listaProcesosBloqueados = peticiones[a].listaProcesosBloqueados
          /\ peticiones'[a].bloque = disco[b]
      BY <1>1, <3>1, <3>2 DEF Inv, Tipos, Peticion
    <3> QED BY <1>1, <2>2, <3>1, <3>2, <3>3 DEF Inv, Tipos
  <2> QED BY <2>1, <2>2
<1>5. /\ peticiones' \in [Direcciones -> Peticion \cup {NULL}]
      /\ \A e \in Ocupadas :
            /\ peticiones'[e].numBloque = peticiones[e].numBloque
            /\ peticiones'[e].operacion = peticiones[e].operacion
            /\ peticiones'[e].numPeticiones = peticiones[e].numPeticiones
            /\ peticiones'[e].listaProcesosBloqueados = peticiones[e].listaProcesosBloqueados
  BY <1>4 DEF Inv, Tipos, Ocupadas
<1>6. /\ \A e : Usuarios(e)' = Usuarios(e) /\ Bloqueados(e)' = Bloqueados(e)
      /\ Pendientes' = Pendientes /\ EnCola' = EnCola /\ Ocupadas' = Ocupadas
  BY <1>1, <1>2, <1>4, NULLAparte DEF Usuarios, Bloqueados, Pendientes, EnCola, Ocupadas
<1>7. \A e : ~Abandonada(e) /\ ~Abandonada(e)'
  BY <1>2 DEF Abandonada
<1> QED BY <1>1, <1>2, <1>3, <1>4, <1>5, <1>6, <1>7 DEF Terminada

LEMMA HWCumple ==
    ASSUME Inv, NEW a \in Direcciones, Terminada(a)
    PROVE  Inv'
<1>1. Tipos'
  <2>1. \A e \in Ocupadas : peticiones'[e].operacion = "escribir" => peticiones'[e].bloque \in Valores
    BY DEF Terminada, Inv, Tipos, Ocupadas
  <2>2. disco' \in [Bloques -> Valores]
    BY DEF Terminada, Inv, Tipos, Peticion
  <2> QED BY <2>1, <2>2 DEF Terminada, Inv, Tipos
<1>2. Servicio'
  BY DEF Terminada, Inv, Servicio
<1>3. Cola'
  <2>1. EnCola \subseteq Ocupadas
    BY DEF Inv, Cola, Pendientes
  <2>2. \A e \in Ocupadas : peticiones'[e].numBloque = peticiones[e].numBloque
    BY DEF Terminada
  <2>3. \A d, e \in EnCola : peticiones[d].numBloque = peticiones[e].numBloque => d = e
    BY DEF Inv, Cola
  <2>4. \A d, e \in EnCola : peticiones'[d].numBloque = peticiones'[e].numBloque => d = e
    BY <2>1, <2>2, <2>3
  <2> QED BY <2>4 DEF Terminada, Inv, Cola
<1>4. Esperas'
  BY DEF Terminada, Inv, Esperas
<1>5. Cuentas'
  BY DEF Terminada, Inv, Cuentas
<1>6. Efectos'
  <2>1. ASSUME NEW e \in Direcciones, SinServir(e)'
        PROVE  e # a /\ SinServir(e)
    BY <2>1 DEF Terminada, SinServir
  <2> QED BY <2>1 DEF Terminada, Inv, Efectos
<1> QED BY <1>1, <1>2, <1>3, <1>4, <1>5, <1>6 DEF Inv

(* The next request comes into service.                                    *)
LEMMA Extraer ==
    ASSUME Inv, tareaSW, ExtraerListaPeticiones
    PROVE  /\ peticionActual # NULL /\ peticionActual \in Ocupadas
           /\ peticionActual' \in Direcciones \cup {NULL}
           /\ listaPeticiones' \in Seq(Direcciones) /\ IsInjective(listaPeticiones')
           /\ EnCola = EnCola' \cup ({peticionActual'} \ {NULL})
           /\ peticionActual' \notin EnCola'
           /\ Pendientes' = EnCola /\ Pendientes' = Pendientes \ {peticionActual}
           /\ peticionActual' # NULL => peticionActual' \in EnCola
           /\ peticionActual' = NULL => listaPeticiones' = <<>>
<1>1. peticionActual # NULL /\ peticionActual \in Ocupadas
  BY DEF Inv, Servicio, Cola, Pendientes
<1>2. CASE listaPeticiones = <<>>
  <2>1. peticionActual' = NULL /\ listaPeticiones' = <<>>
    BY <1>2 DEF ExtraerListaPeticiones
  <2>2. EnCola = {} /\ EnCola' = {}
    BY <1>2, <2>1 DEF EnCola, ToSet
  <2>3. Pendientes = {peticionActual} /\ Pendientes' = {}
    BY <1>1, <2>1, <2>2 DEF Pendientes
  <2>4. listaPeticiones' \in Seq(Direcciones) /\ IsInjective(listaPeticiones')
    BY <2>1 DEF IsInjective
  <2> QED BY <1>1, <2>1, <2>2, <2>3, <2>4
<1>3. CASE listaPeticiones # <<>>
  <2>1. /\ peticionActual' = Head(listaPeticiones) /\ listaPeticiones' = Tail(listaPeticiones)
        /\ listaPeticiones \in Seq(Direcciones) /\ IsInjective(listaPeticiones)
    BY <1>3 DEF ExtraerListaPeticiones, Inv, Tipos, Cola
  <2>2. /\ peticionActual' \in EnCola /\ peticionActual' \in Direcciones
        /\ listaPeticiones' \in Seq(Direcciones) /\ IsInjective(listaPeticiones')
        /\ EnCola = EnCola' \cup {peticionActual'} /\ peticionActual' \notin EnCola'
    BY <1>3, <2>1, Eliminar DEF EnCola
  <2>3. peticionActual' # NULL
    BY <2>2, NULLAparte
  <2> QED BY <1>1, <2>2, <2>3 DEF Inv, Cola, Pendientes
<1> QED BY <1>2, <1>3

(* The request at a leaves the service, with its processes ready or, when  *)
(* the next transfer does not start, as they were.                         *)
Relevada(a) ==
    /\ a = peticionActual /\ a # NULL /\ a \in Ocupadas /\ a \notin EnCola /\ dma = "terminado"
    /\ disco' = disco /\ tareaSW' = FALSE
    /\ dma' \in {"parado", "en curso"} /\ (dma' = "en curso" => peticionActual' # NULL)
    /\ dma' = "parado" => peticionActual' = NULL \/ fallos' > 0
    /\ fallos' \in 0 .. MaxFallos /\ (fallos > 0 => fallos' > 0)
    /\ peticionActual' \in Direcciones \cup {NULL} /\ peticionActual' \notin EnCola'
    /\ listaPeticiones' \in Seq(Direcciones) /\ IsInjective(listaPeticiones')
    /\ peticionActual' # NULL => peticionActual' \in EnCola
    /\ peticionActual' = NULL => listaPeticiones' = <<>>
    /\ EnCola = EnCola' \cup ({peticionActual'} \ {NULL})
    /\ Pendientes' = EnCola /\ Pendientes' = Pendientes \ {a}
    /\ peticiones' \in [Direcciones -> Peticion \cup {NULL}] /\ Ocupadas' = Ocupadas
    /\ \A e \in Direcciones : e # a => peticiones'[e] = peticiones[e]
    /\ \A e \in Ocupadas : /\ peticiones'[e].numBloque = peticiones[e].numBloque
                           /\ peticiones'[e].operacion = peticiones[e].operacion
                           /\ peticiones'[e].numPeticiones = peticiones[e].numPeticiones
                           /\ peticiones'[e].bloque = peticiones[e].bloque
    /\ pide' \in [Procesos -> Pide \cup {NULL}]
    /\ \A q \in Procesos :
          /\ q \notin Usuarios(a) => pide'[q] = pide[q]
          /\ q \in Usuarios(a) =>
                /\ pide'[q] # NULL /\ pide'[q].op = pide[q].op
                /\ pide'[q].bloque = pide[q].bloque
                /\ pide'[q].valor = pide[q].valor /\ pide'[q].peticion = a
                /\ pide'[q].estado = "LISTO" \/ fallos' > 0
    /\ \A e : Usuarios(e)' = Usuarios(e)
    /\ \A e : e # a => Bloqueados(e)' = Bloqueados(e)
    /\ IsInjective(peticiones'[a].listaProcesosBloqueados)
    /\ ToSet(peticiones'[a].listaProcesosBloqueados) = Bloqueados(a)'
    /\ \A e \in Ocupadas : ~Abandonada(e) /\ ~Abandonada(e)'

LEMMA SWHace ==
    ASSUME Inv, InterrupcionSW
    PROVE  \E a \in Direcciones : Relevada(a)
<1>1. /\ tareaSW /\ ExtraerListaPeticiones /\ tareaSW' = FALSE
      /\ dma' = IF peticionActual' = NULL THEN "parado" ELSE "en curso"
      /\ DespertarTodos(peticionActual)
      /\ UNCHANGED <<disco, fallos>> /\ fallos' \in 0 .. MaxFallos
  BY DEF InterrupcionSW, Inv, Tipos
<1>2. /\ peticionActual # NULL /\ peticionActual \in Ocupadas
      /\ peticionActual' \in Direcciones \cup {NULL} /\ peticionActual' \notin EnCola'
      /\ listaPeticiones' \in Seq(Direcciones) /\ IsInjective(listaPeticiones')
      /\ EnCola = EnCola' \cup ({peticionActual'} \ {NULL})
      /\ Pendientes' = EnCola /\ Pendientes' = Pendientes \ {peticionActual}
      /\ peticionActual' # NULL => peticionActual' \in EnCola
      /\ peticionActual' = NULL => listaPeticiones' = <<>>
  BY <1>1, Extraer
<1>3. PICK a \in Direcciones : /\ a = peticionActual /\ a \in Ocupadas /\ a \notin EnCola
                               /\ peticiones[a] \in Peticion /\ dma = "terminado"
  BY <1>1, <1>2, EnMemoria DEF Inv, Servicio
<1>4. /\ peticiones' \in [Direcciones -> Peticion \cup {NULL}] /\ Ocupadas' = Ocupadas
      /\ \A e \in Direcciones : e # a => peticiones'[e] = peticiones[e]
      /\ peticiones'[a].listaProcesosBloqueados = <<>>
      /\ \A e \in Ocupadas : /\ peticiones'[e].numBloque = peticiones[e].numBloque
                             /\ peticiones'[e].operacion = peticiones[e].operacion
                             /\ peticiones'[e].numPeticiones = peticiones[e].numPeticiones
                             /\ peticiones'[e].bloque = peticiones[e].bloque
  <2>1. /\ peticiones' = [peticiones EXCEPT ![a].listaProcesosBloqueados = <<>>]
        /\ peticiones \in [Direcciones -> Peticion \cup {NULL}]
    BY <1>1, <1>3 DEF DespertarTodos, Inv, Tipos
  <2>2. <<>> \in Seq(Procesos)
    OBVIOUS
  <2>3. /\ peticiones'[a] \in Peticion
        /\ peticiones'[a].numBloque = peticiones[a].numBloque
        /\ peticiones'[a].operacion = peticiones[a].operacion
        /\ peticiones'[a].numPeticiones = peticiones[a].numPeticiones
        /\ peticiones'[a].listaProcesosBloqueados = <<>>
        /\ peticiones'[a].bloque = peticiones[a].bloque
    BY <1>3, <2>1, <2>2 DEF Peticion
  <2> QED BY <1>3, <2>1, <2>3, NULLAparte DEF Ocupadas
<1>5. ToSet(peticiones[a].listaProcesosBloqueados) = Usuarios(a)
  BY <1>2, <1>3, ConUsuarios DEF Inv, Cuentas, Abandonada, Pendientes
<1>6. pide' = [p \in Procesos |-> IF p \in Usuarios(a) THEN [pide[p] EXCEPT !.estado = "LISTO"]
                                 ELSE pide[p]]
  BY <1>1, <1>3, <1>5 DEF DespertarTodos
<1>7. \A p \in Procesos :
        /\ p \in Usuarios(a) => /\ pide'[p] \in Pide /\ pide'[p] # NULL
                                /\ pide'[p].op = pide[p].op /\ pide'[p].bloque = pide[p].bloque
                                /\ pide'[p].valor = pide[p].valor
                                /\ pide'[p].peticion = a /\ pide'[p].estado = "LISTO"
        /\ p \notin Usuarios(a) => pide'[p] = pide[p]
  <2>1. ASSUME NEW p \in Procesos, p \in Usuarios(a)
        PROVE  /\ pide'[p] \in Pide /\ pide'[p] # NULL
               /\ pide'[p].op = pide[p].op /\ pide'[p].bloque = pide[p].bloque
               /\ pide'[p].valor = pide[p].valor
               /\ pide'[p].peticion = a /\ pide'[p].estado = "LISTO"
    <3>1. pide[p] \in Pide /\ pide[p].peticion = a
      BY <2>1, EnMemoria DEF Inv, Usuarios
    <3>2. pide'[p] = [pide[p] EXCEPT !.estado = "LISTO"]
      BY <1>6, <2>1
    <3>3. /\ pide'[p] \in Pide
          /\ pide'[p].op = pide[p].op /\ pide'[p].bloque = pide[p].bloque
          /\ pide'[p].valor = pide[p].valor
          /\ pide'[p].peticion = pide[p].peticion /\ pide'[p].estado = "LISTO"
      BY <3>1, <3>2 DEF Pide
    <3> QED BY <3>1, <3>3, NULLAparte
  <2> QED BY <1>6, <2>1
<1>8. /\ pide' \in [Procesos -> Pide \cup {NULL}]
      /\ \A e : Usuarios(e)' = Usuarios(e)
      /\ \A e : e # a => Bloqueados(e)' = Bloqueados(e)
      /\ IsInjective(peticiones'[a].listaProcesosBloqueados)
      /\ ToSet(peticiones'[a].listaProcesosBloqueados) = Bloqueados(a)'
  <2>1. pide' \in [Procesos -> Pide \cup {NULL}]
    BY <1>6, <1>7 DEF Inv, Tipos
  <2>2. ASSUME NEW e PROVE Usuarios(e)' = Usuarios(e)
    BY <1>7 DEF Usuarios
  <2>3. ASSUME NEW e, e # a PROVE Bloqueados(e)' = Bloqueados(e)
    BY <1>7, <2>2, <2>3 DEF Bloqueados, Usuarios
  <2>4. Bloqueados(a)' = {}
    <3>1. \A p \in Usuarios(a) : pide'[p].estado # "BLOQUEADO"
      BY <1>7 DEF Usuarios
    <3> QED BY <2>2, <3>1 DEF Bloqueados
  <2>5. IsInjective(<<>>) /\ ToSet(<<>>) = {}
    BY DEF IsInjective, ToSet
  <2> QED BY <1>4, <2>1, <2>2, <2>3, <2>4, <2>5
<1>9. \A e \in Ocupadas : ~Abandonada(e) /\ ~Abandonada(e)'
  BY <1>1, <1>3, NULLAparte DEF Abandonada, Ocupadas
<1> QED BY <1>1, <1>2, <1>3, <1>4, <1>7, <1>8, <1>9 DEF Relevada

LEMMA SWFallidaHace ==
    ASSUME Inv, InterrupcionSWFallida
    PROVE  \E a \in Direcciones : Relevada(a)
<1>1. /\ tareaSW /\ ExtraerListaPeticiones /\ tareaSW' = FALSE
      /\ dma' = "parado" /\ UNCHANGED <<disco, peticiones, pide>>
  BY DEF InterrupcionSWFallida
<1>2. fallos' \in 0 .. MaxFallos /\ fallos' > 0
  <2>1. fallos < MaxFallos /\ fallos' = fallos + 1 /\ fallos \in 0 .. MaxFallos
    BY DEF InterrupcionSWFallida, Inv, Tipos
  <2> QED BY <2>1, DiscoAssumption
<1>3. /\ peticionActual # NULL /\ peticionActual \in Ocupadas
      /\ peticionActual' \in Direcciones \cup {NULL} /\ peticionActual' \notin EnCola'
      /\ listaPeticiones' \in Seq(Direcciones) /\ IsInjective(listaPeticiones')
      /\ EnCola = EnCola' \cup ({peticionActual'} \ {NULL})
      /\ Pendientes' = EnCola /\ Pendientes' = Pendientes \ {peticionActual}
      /\ peticionActual' # NULL => peticionActual' \in EnCola
      /\ peticionActual' = NULL => listaPeticiones' = <<>>
  BY <1>1, Extraer
<1>4. PICK a \in Direcciones : /\ a = peticionActual /\ a \in Ocupadas /\ a \notin EnCola
                               /\ dma = "terminado"
  BY <1>1, <1>3, EnMemoria DEF Inv, Servicio
<1>5. /\ \A e : Usuarios(e)' = Usuarios(e) /\ Bloqueados(e)' = Bloqueados(e)
      /\ Ocupadas' = Ocupadas
  BY <1>1 DEF Usuarios, Bloqueados, Ocupadas
<1>6. \A e \in Ocupadas : ~Abandonada(e) /\ ~Abandonada(e)'
  BY <1>4, <1>5, ConUsuarios DEF Abandonada
<1>7. /\ IsInjective(peticiones[a].listaProcesosBloqueados)
      /\ ToSet(peticiones[a].listaProcesosBloqueados) = Bloqueados(a)
  BY <1>4, <1>6 DEF Inv, Cuentas
<1>8. \A q \in Usuarios(a) : pide[q] # NULL /\ pide[q].peticion = a
  BY DEF Usuarios
<1>9. /\ pide' \in [Procesos -> Pide \cup {NULL}]
      /\ peticiones' \in [Direcciones -> Peticion \cup {NULL}]
  BY <1>1 DEF Inv, Tipos
<1> QED BY <1>1, <1>2, <1>3, <1>4, <1>5, <1>6, <1>7, <1>8, <1>9 DEF Relevada

(* interrupcionSW_disco, whether the next transfer starts or not.          *)
LEMMA RelevoCumple ==
    ASSUME Inv, NEW a \in Direcciones, Relevada(a)
    PROVE  Inv'
<1>1. Tipos'
  BY DEF Relevada, Inv, Tipos
<1>2. Servicio'
  BY DEF Relevada, Servicio
<1>3. Cola'
  <2>1. Pendientes' \subseteq Ocupadas' /\ EnCola' \subseteq EnCola /\ EnCola \subseteq Ocupadas
    BY DEF Relevada, Inv, Cola, Pendientes
  <2>2. \A d, e \in EnCola' : peticiones'[d].numBloque = peticiones'[e].numBloque => d = e
    BY <2>1 DEF Relevada, Inv, Cola
  <2> QED BY <2>1, <2>2 DEF Relevada, Cola
<1>4. Esperas'
  <2>1. ASSUME NEW q \in Procesos, pide'[q] # NULL
        PROVE  /\ pide'[q].peticion \in Ocupadas'
               /\ pide'[q].bloque = peticiones'[pide'[q].peticion].numBloque
               /\ pide'[q].op = "escribir" => pide'[q].valor \in Valores
               /\ pide'[q].estado = "LISTO" => pide'[q].peticion \notin Pendientes'
               /\ pide'[q].estado = "BLOQUEADO" => pide'[q].peticion \in Pendientes' \/ fallos' > 0
    <3>1. /\ a \in Ocupadas /\ a \notin Pendientes' /\ Pendientes' = Pendientes \ {a}
          /\ Ocupadas' = Ocupadas /\ (fallos > 0 => fallos' > 0)
          /\ \A e \in Ocupadas : peticiones'[e].numBloque = peticiones[e].numBloque
      BY DEF Relevada
    <3>2. CASE q \in Usuarios(a)
      <4>1. /\ pide'[q].op = pide[q].op /\ pide'[q].bloque = pide[q].bloque
            /\ pide'[q].valor = pide[q].valor /\ pide'[q].peticion = a
            /\ pide'[q].estado = "LISTO" \/ fallos' > 0
        BY <3>2 DEF Relevada
      <4>2. /\ pide[q].bloque = peticiones[a].numBloque
            /\ pide[q].op = "escribir" => pide[q].valor \in Valores
        BY <3>2 DEF Inv, Esperas, Usuarios
      <4> QED BY <3>1, <4>1, <4>2
    <3>3. CASE q \notin Usuarios(a)
      <4>1. pide'[q] = pide[q]
        BY <3>3 DEF Relevada
      <4>2. pide[q] # NULL /\ pide[q].peticion # a
        BY <2>1, <3>3, <4>1 DEF Usuarios
      <4> QED BY <3>1, <4>1, <4>2 DEF Inv, Esperas
    <3> QED BY <3>2, <3>3
  <2> QED BY <2>1 DEF Esperas
<1>5. Cuentas'
  <2>1. ASSUME NEW e \in Ocupadas
        PROVE  /\ peticiones'[e].numPeticiones = Cardinality(Usuarios(e)')
               /\ IsInjective(peticiones'[e].listaProcesosBloqueados)
               /\ ToSet(peticiones'[e].listaProcesosBloqueados) = Bloqueados(e)'
    <3>1. CASE e = a
      BY <3>1 DEF Relevada, Inv, Cuentas
    <3>2. CASE e # a
      <4>1. peticiones'[e] = peticiones[e]
        BY <3>2 DEF Relevada, Ocupadas
      <4> QED BY <3>2, <4>1 DEF Relevada, Inv, Cuentas
    <3> QED BY <3>1, <3>2
  <2> QED BY <2>1 DEF Relevada, Cuentas
<1>6. Efectos'
  <2>1. ASSUME NEW e \in Direcciones, SinServir(e)'
        PROVE  UltimaEscritura(pide', peticiones'[e].listaProcesosBloqueados,
                               peticiones'[e].operacion, peticiones'[e].bloque)
    <3>1. SinServir(e) /\ e # a /\ peticiones'[e] = peticiones[e]
      BY <2>1 DEF Relevada, SinServir, Inv, Cola
    <3>2. \A q \in Bloqueados(e) : pide'[q] = pide[q]
      BY <3>1 DEF Relevada, Bloqueados, Usuarios
    <3> QED BY <3>1, <3>2, EfectoQueSigue
  <2> QED BY <2>1 DEF Efectos
<1> QED BY <1>1, <1>2, <1>3, <1>4, <1>5, <1>6 DEF Inv

-----------------------------------------------------------------------------
(* The theorems                                                            *)

LEMMA InicialCumple == Init => Inv
<1> SUFFICES ASSUME Init PROVE Inv
  OBVIOUS
<1>1. /\ Ocupadas = {} /\ EnCola = {} /\ Pendientes = {} /\ Bloques # {}
      /\ \A p \in Procesos : pide[p] = NULL
  BY DiscoAssumption DEF Init, Ocupadas, EnCola, Pendientes, ToSet, Bloques
<1>2. Tipos
  <2>1. /\ disco \in [Bloques -> Valores] /\ dma = "parado" /\ tareaSW = FALSE
        /\ peticiones = [d \in Direcciones |-> NULL] /\ peticionActual = NULL
        /\ listaPeticiones = <<>> /\ pide = [p \in Procesos |-> NULL]
    BY DEF Init
  <2>2. fallos \in 0 .. MaxFallos
    BY DiscoAssumption DEF Init
  <2>3. /\ peticiones \in [Direcciones -> Peticion \cup {NULL}]
        /\ pide \in [Procesos -> Pide \cup {NULL}]
    BY <2>1
  <2>4. listaPeticiones \in Seq(Direcciones)
    BY <2>1
  <2> QED BY <1>1, <2>1, <2>2, <2>3, <2>4 DEF Tipos
<1>3. IsInjective(listaPeticiones)
  BY DEF Init, IsInjective
<1> QED BY <1>1, <1>2, <1>3 DEF Init, Inv, Servicio, Cola, Esperas, Cuentas, Efectos, SinServir

LEMMA PasoCumple == Inv /\ [Next]_vars => Inv'
<1> SUFFICES ASSUME Inv, [Next]_vars PROVE Inv'
  OBVIOUS
<1>1. \A p \in Procesos : Escribe[p] \subseteq Valores
  BY DiscoAssumption
<1>2. ASSUME NEW p \in Procesos, NEW b \in Bloques, NEW op \in Operaciones,
             NEW v \in Valores \cup {NULL}, op = "escribir" => v \in Valores,
             PeticionBloque(p, op, b, v)
      PROVE  Inv'
  BY <1>2, UnirseHace, UnirseCumple, CrearCumple
<1>3. ASSUME NEW p \in Procesos, NEW b \in Bloques, NEW op \in Operaciones,
             NEW v \in Valores \cup {NULL}, op = "escribir" => v \in Valores,
             PeticionFallida(p, op, b, v)
      PROVE  Inv'
  BY <1>3, FallidaCumple
<1>4. ASSUME NEW p \in Procesos, NEW b \in Bloques,
             \/ PeticionBloque(p, "leer", b, NULL)
             \/ \E v \in Escribe[p] : PeticionBloque(p, "escribir", b, v)
             \/ PeticionFallida(p, "leer", b, NULL)
             \/ \E v \in Escribe[p] : PeticionFallida(p, "escribir", b, v)
      PROVE  Inv'
  BY <1>1, <1>2, <1>3, <1>4 DEF Operaciones
<1>5. ASSUME NEW p \in Procesos, Reanudar(p) PROVE Inv'
  BY <1>5, ReanudarHace, ReanudarCumple
<1>6. CASE InterrupcionHW
  BY <1>6, HWHace, HWCumple
<1>7. CASE InterrupcionSW
  BY <1>7, SWHace, RelevoCumple
<1>8. CASE InterrupcionSWFallida
  BY <1>8, SWFallidaHace, RelevoCumple
<1>9. CASE UNCHANGED vars
  <2>1. UNCHANGED <<disco, dma, tareaSW, peticiones, peticionActual, listaPeticiones, pide, fallos>>
    BY <1>9 DEF vars, dispositivo, cola
  <2>2. Ocupadas' = Ocupadas /\ EnCola' = EnCola /\ Pendientes' = Pendientes
    BY <2>1 DEF Ocupadas, EnCola, Pendientes
  <2>3. \A d : Usuarios(d)' = Usuarios(d) /\ Bloqueados(d)' = Bloqueados(d)
    BY <2>1 DEF Usuarios, Bloqueados
  <2>4. \A d : (Abandonada(d)' <=> Abandonada(d)) /\ (SinServir(d)' <=> SinServir(d))
    BY <2>1, <2>2, <2>3 DEF Abandonada, SinServir
  <2>5. Tipos' /\ Servicio' /\ Cola' /\ Esperas'
    BY <2>1, <2>2 DEF Inv, Tipos, Servicio, Cola, Esperas
  <2>6. Cuentas' /\ Efectos'
    BY <2>1, <2>2, <2>3, <2>4 DEF Inv, Cuentas, Efectos
  <2> QED BY <2>5, <2>6 DEF Inv
<1> QED BY <1>4, <1>5, <1>6, <1>7, <1>8, <1>9 DEF Next

THEOREM InvCumple == Spec => []Inv
<1> QED BY InicialCumple, PasoCumple, PTL DEF Spec

(* A queue without two requests for one block fits in the device.          *)
LEMMA ColaAcotada ==
    ASSUME Inv
    PROVE  Len(listaPeticiones) <= NumBloques
<1> DEFINE l == listaPeticiones
           f == [i \in 1 .. Len(l) |-> peticiones[l[i]].numBloque]
<1>1. l \in Seq(Direcciones) /\ Len(l) \in Nat /\ DOMAIN l = 1 .. Len(l)
  BY LenProperties DEF Inv, Tipos
<1>2. \A i \in 1 .. Len(l) : l[i] \in EnCola /\ l[i] \in Ocupadas
  BY EnMemoria DEF Inv, Cola, Pendientes
<1>3. \A i \in 1 .. Len(l) : f[i] \in Bloques
  BY <1>2, EnMemoria DEF Inv, Peticion
<1>4. \A i, j \in 1 .. Len(l) : f[i] = f[j] => i = j
  <2>1. \A i, j \in 1 .. Len(l) : f[i] = f[j] => l[i] = l[j]
    BY <1>2 DEF Inv, Cola
  <2> QED BY <1>1, <2>1 DEF Inv, Cola, IsInjective
<1>5. f \in Injection(1 .. Len(l), Bloques)
  BY <1>3, <1>4 DEF Injection, IsInjective
<1>6. IsFiniteSet(Bloques) /\ Cardinality(Bloques) = NumBloques
  BY DiscoAssumption, FS_Interval DEF Bloques
<1>7. Cardinality(1 .. Len(l)) = Len(l)
  BY <1>1, FS_Interval
<1> HIDE DEF f
<1>8. Cardinality(1 .. Len(l)) <= Cardinality(Bloques)
  BY <1>5, <1>6, FS_Injection
<1> QED BY <1>6, <1>7, <1>8

(* TypeOKDisco: the queue of the disk is never longer than the blocks of   *)
(* the device, nor a count higher than the processes there are.            *)
THEOREM TypeOKDiscoCumple == Spec => []TypeOKDisco
<1>1. ASSUME Inv PROVE TypeOKDisco
  <2>1. ASSUME NEW d \in Ocupadas PROVE peticiones[d].numPeticiones <= Cardinality(Procesos)
    <3>1. Cardinality(Usuarios(d)) <= Cardinality(Procesos)
      BY UsuariosFinitos, NULLAparte, FS_Subset
    <3> QED BY <1>1, <3>1 DEF Inv, Cuentas
  <2> QED BY <1>1, <2>1, ColaAcotada DEF Inv, Tipos, TypeOKDisco
<1> QED BY <1>1, InvCumple, PTL

(* ReferenciasExactas: no process waits in a request that was freed, and   *)
(* no request outlives its processes.                                      *)
THEOREM ReferenciasExactasCumple == Spec => []ReferenciasExactas
<1>1. Inv => ReferenciasExactas
  BY DEF Inv, Esperas, Cuentas, ReferenciasExactas
<1> QED BY <1>1, InvCumple, PTL

(* ColaCoherente: who waits is in the list of its own request, which the   *)
(* interrupt will come to.                                                 *)
THEOREM ColaCoherenteCumple == Spec => []ColaCoherente
<1>1. ASSUME Inv PROVE ColaCoherente
  <2>1. ASSUME NEW d \in Ocupadas, ~Abandonada(d)
        PROVE  /\ IsInjective(peticiones[d].listaProcesosBloqueados)
               /\ ToSet(peticiones[d].listaProcesosBloqueados) =
                     {p \in Usuarios(d) : pide[p].estado = "BLOQUEADO"}
               /\ peticiones[d].listaProcesosBloqueados # <<>> =>
                     d = peticionActual \/ d \in ToSet(listaPeticiones) \/ fallos > 0
    <3>1. /\ IsInjective(peticiones[d].listaProcesosBloqueados)
          /\ ToSet(peticiones[d].listaProcesosBloqueados) = Bloqueados(d)
      BY <1>1, <2>1 DEF Inv, Cuentas
    <3>2. ASSUME peticiones[d].listaProcesosBloqueados # <<>>
          PROVE  d \in Pendientes \/ fallos > 0
      <4>1. peticiones[d].listaProcesosBloqueados \in Seq(Procesos)
        BY <1>1, EnMemoria DEF Inv, Peticion
      <4>2. PICK p : p \in ToSet(peticiones[d].listaProcesosBloqueados)
        BY <3>2, <4>1, Eliminar
      <4> QED BY <1>1, <3>1, <4>2 DEF Inv, Esperas, Bloqueados, Usuarios
    <3> QED BY <3>1, <3>2 DEF Bloqueados, Pendientes, EnCola
  <2> QED BY <1>1, <2>1 DEF Inv, Cola, Servicio, ColaCoherente, EnCola
<1> QED BY <1>1, InvCumple, PTL

-----------------------------------------------------------------------------
(* The driver implements BloquesAtomicos: each of its steps is a step of   *)
(* the device that serves blocks one at a time, or none.  Lemmas.          *)

LEMMA PrimerosDe ==
    ASSUME NEW S, NEW s \in Seq(S), NEW t \in Seq(S)
    PROVE  /\ SubSeq(s \o t, 1, Len(s)) = s
           /\ SubSeq(s \o t, Len(s) + 1, Len(s \o t)) = t
           /\ Len(s) <= Len(s \o t)
<1>1. /\ s \o t \in Seq(S) /\ Len(s) \in Nat /\ Len(t) \in Nat /\ Len(s \o t) = Len(s) + Len(t)
      /\ \A i \in 1 .. Len(s) + Len(t) : (s \o t)[i] = IF i <= Len(s) THEN s[i] ELSE t[i - Len(s)]
  BY ConcatProperties, LenProperties
<1> DEFINE u == s \o t
<1>2. \A i \in 1 .. Len(u) : u[i] \in S
  BY <1>1, ElementOfSeq
<1> HIDE DEF u
<1>3. SubSeq(u, 1, Len(s)) = s
  <2> DEFINE w == SubSeq(u, 1, Len(s))
  <2>1. \A i \in 1 .. Len(s) : u[i] \in S
    BY <1>1, <1>2 DEF u
  <2>2. w \in Seq(S) /\ Len(w) = Len(s) /\ \A i \in 1 .. Len(s) : w[i] = u[i]
    BY <1>1, <2>1, SubSeqProperties
  <2>3. \A i \in 1 .. Len(s) : w[i] = s[i]
    BY <1>1, <2>2 DEF u
  <2> HIDE DEF w
  <2> QED BY <2>2, <2>3, SeqEqual DEF w
<1>4. SubSeq(u, Len(s) + 1, Len(u)) = t
  <2> DEFINE w == SubSeq(u, Len(s) + 1, Len(u))
  <2>1. \A i \in Len(s) + 1 .. Len(u) : u[i] \in S
    BY <1>1, <1>2 DEF u
  <2>2. Len(s) + 1 \in Int /\ Len(u) \in Int /\ Len(u) - (Len(s) + 1) + 1 = Len(t)
    BY <1>1 DEF u
  <2>3. /\ w \in Seq(S)
        /\ Len(w) = IF Len(s) + 1 <= Len(u) THEN Len(u) - (Len(s) + 1) + 1 ELSE 0
        /\ \A i \in 1 .. Len(u) - (Len(s) + 1) + 1 : w[i] = u[Len(s) + 1 + i - 1]
    BY <2>1, <2>2, SubSeqProperties
  <2>4. Len(w) = Len(t)
    BY <1>1, <2>2, <2>3 DEF u
  <2>5. \A i \in 1 .. Len(t) : w[i] = t[i]
    <3>1. SUFFICES ASSUME NEW i \in 1 .. Len(t) PROVE w[i] = t[i]
      OBVIOUS
    <3>2. w[i] = u[Len(s) + 1 + i - 1]
      BY <2>2, <2>3
    <3>3. Len(s) + 1 + i - 1 = Len(s) + i /\ Len(s) + i \in 1 .. Len(s) + Len(t) /\ ~(Len(s) + i <= Len(s))
          /\ Len(s) + i - Len(s) = i
      BY <1>1
    <3> QED BY <1>1, <3>2, <3>3 DEF u
  <2> HIDE DEF w
  <2> QED BY <2>3, <2>4, <2>5, SeqEqual DEF w
<1> QED BY <1>1, <1>3, <1>4 DEF u

LEMMA EnPedido ==
    ASSUME NEW S, NEW s \in Seq(S), NEW t \in Seq(S), NEW e \in S
    PROVE  /\ s \o Append(t, e) = Append(s \o t, e)
           /\ s \o <<e>> = Append(s, e)
           /\ s \o <<>> = s /\ <<>> \o s = s
<1>1. <<e>> \in Seq(S) /\ s \o t \in Seq(S)
  BY ConcatProperties
<1>2. Append(t, e) = t \o <<e>> /\ Append(s \o t, e) = (s \o t) \o <<e>> /\ Append(s, e) = s \o <<e>>
  BY <1>1, AppendIsConcat
<1>3. (s \o t) \o <<e>> = s \o (t \o <<e>>)
  BY <1>1, ConcatAssociative
<1> QED BY <1>2, <1>3, ConcatEmptySeq

(* The lists of who waits for a block.                                     *)
Actual(b) == IF EnServicio(b) THEN peticionActual ELSE NULL

LEMMA ListasTipo ==
    Inv => \A b : /\ BuscarListaPeticiones(b) \in Ocupadas \cup {NULL}
                  /\ Actual(b) \in Ocupadas \cup {NULL}
                  /\ Lista(BuscarListaPeticiones(b)) \in Seq(Procesos)
                  /\ Lista(Actual(b)) \in Seq(Procesos)
                  /\ EnEspera(b) = Lista(Actual(b)) \o Lista(BuscarListaPeticiones(b))
<1> SUFFICES ASSUME Inv, NEW b
             PROVE  /\ BuscarListaPeticiones(b) \in Ocupadas \cup {NULL}
                    /\ Actual(b) \in Ocupadas \cup {NULL}
                    /\ Lista(BuscarListaPeticiones(b)) \in Seq(Procesos)
                    /\ Lista(Actual(b)) \in Seq(Procesos)
                    /\ EnEspera(b) = Lista(Actual(b)) \o Lista(BuscarListaPeticiones(b))
  OBVIOUS
<1>1. BuscarListaPeticiones(b) \in Ocupadas \cup {NULL} /\ Actual(b) \in Ocupadas \cup {NULL}
  BY Buscar DEF Inv, Cola, Pendientes, Actual, EnServicio
<1>2. \A d \in Ocupadas \cup {NULL} : Lista(d) \in Seq(Procesos)
  BY EnMemoria DEF Inv, Lista, Peticion
<1> QED BY <1>1, <1>2 DEF EnEspera, Actual

LEMMA ListasTipoPrimado ==
    (Inv => \A b : /\ BuscarListaPeticiones(b) \in Ocupadas \cup {NULL}
                   /\ Actual(b) \in Ocupadas \cup {NULL}
                   /\ Lista(BuscarListaPeticiones(b)) \in Seq(Procesos)
                   /\ Lista(Actual(b)) \in Seq(Procesos)
                   /\ EnEspera(b) = Lista(Actual(b)) \o Lista(BuscarListaPeticiones(b)))'
BY ListasTipo, PTL

LEMMA BuscarDe ==
    Inv => /\ \A e \in EnCola : BuscarListaPeticiones(peticiones[e].numBloque) = e
           /\ \A b : (\A e \in EnCola : peticiones[e].numBloque # b) =>
                        BuscarListaPeticiones(b) = NULL
<1> SUFFICES ASSUME Inv
             PROVE  /\ \A e \in EnCola : BuscarListaPeticiones(peticiones[e].numBloque) = e
                    /\ \A b : (\A e \in EnCola : peticiones[e].numBloque # b) =>
                                 BuscarListaPeticiones(b) = NULL
  OBVIOUS
<1>1. \A d, e \in EnCola : peticiones[d].numBloque = peticiones[e].numBloque => d = e
  BY DEF Inv, Cola
<1>2. \A b : /\ BuscarListaPeticiones(b) = NULL => \A e \in EnCola : peticiones[e].numBloque # b
             /\ BuscarListaPeticiones(b) # NULL =>
                   /\ BuscarListaPeticiones(b) \in EnCola
                   /\ peticiones[BuscarListaPeticiones(b)].numBloque = b
  BY Buscar DEF Inv
<1> QED BY <1>1, <1>2

LEMMA BuscarDePrimado ==
    (Inv => /\ \A e \in EnCola : BuscarListaPeticiones(peticiones[e].numBloque) = e
            /\ \A b : (\A e \in EnCola : peticiones[e].numBloque # b) =>
                         BuscarListaPeticiones(b) = NULL)'
BY BuscarDe, PTL

(* With the same queue the search finds the same.                          *)
LEMMA BuscarIgual ==
    ASSUME Inv, Inv', EnCola' = EnCola,
           \A e \in EnCola : peticiones'[e].numBloque = peticiones[e].numBloque
    PROVE  \A b : BuscarListaPeticiones(b)' = BuscarListaPeticiones(b)
<1> SUFFICES ASSUME NEW b PROVE BuscarListaPeticiones(b)' = BuscarListaPeticiones(b)
  OBVIOUS
<1>1. CASE \E e \in EnCola : peticiones[e].numBloque = b
  <2>1. PICK e \in EnCola : peticiones[e].numBloque = b
    BY <1>1
  <2>2. BuscarListaPeticiones(b) = e
    BY <2>1, BuscarDe
  <2>3. peticiones'[e].numBloque = b /\ e \in EnCola'
    BY <2>1
  <2>4. BuscarListaPeticiones(b)' = e
    BY <2>3, BuscarDePrimado
  <2> QED BY <2>2, <2>4
<1>2. CASE \A e \in EnCola : peticiones[e].numBloque # b
  <2>1. BuscarListaPeticiones(b) = NULL
    BY <1>2, BuscarDe
  <2>2. \A e \in EnCola' : peticiones'[e].numBloque # b
    BY <1>2
  <2>3. BuscarListaPeticiones(b)' = NULL
    BY <2>2, BuscarDePrimado
  <2> QED BY <2>1, <2>3
<1> QED BY <1>1, <1>2

(* A process in a request is seen as one.                                  *)
LEMMA VistaDePeticion ==
    Inv => \A p \in Procesos :
              /\ pide[p] = NULL => Vista(p) = NULL
              /\ pide[p] # NULL =>
                    /\ Vista(p) # NULL /\ Vista(p).op = pide[p].op
                    /\ Vista(p).bloque = pide[p].bloque
                    /\ Vista(p).hecha = Hecha(pide[p].peticion)
                    /\ Vista(p).valor = IF Hecha(pide[p].peticion)
                                        THEN peticiones[pide[p].peticion].bloque ELSE pide[p].valor
<1> SUFFICES ASSUME Inv, NEW p \in Procesos
             PROVE  /\ pide[p] = NULL => Vista(p) = NULL
                    /\ pide[p] # NULL =>
                          /\ Vista(p) # NULL /\ Vista(p).op = pide[p].op
                          /\ Vista(p).bloque = pide[p].bloque
                          /\ Vista(p).hecha = Hecha(pide[p].peticion)
                          /\ Vista(p).valor = IF Hecha(pide[p].peticion)
                                              THEN peticiones[pide[p].peticion].bloque
                                              ELSE pide[p].valor
  OBVIOUS
<1>1. CASE pide[p] # NULL
  <2> DEFINE d == pide[p].peticion
             v == IF Hecha(d) THEN peticiones[d].bloque ELSE pide[p].valor
  <2>1. /\ pide[p].op \in Operaciones /\ pide[p].bloque \in Bloques
        /\ pide[p].valor \in Valores \cup {NULL} /\ peticiones[d].bloque \in Valores \cup {NULL}
    BY <1>1, EnMemoria DEF Inv, Esperas, Pide, Peticion
  <2>2. v \in Valores \cup {NULL} /\ Hecha(d) \in BOOLEAN
    BY <2>1 DEF Hecha
  <2>3. Vista(p) = [op |-> pide[p].op, bloque |-> pide[p].bloque, hecha |-> Hecha(d), valor |-> v]
    BY <1>1 DEF Vista
  <2> HIDE DEF d, v
  <2>4. Vista(p) \in [op : Operaciones, bloque : Bloques, valor : Valores \cup {NULL}, hecha : BOOLEAN]
    BY <2>1, <2>2, <2>3
  <2>5. Vista(p) # NULL
    BY <2>4, NULLAssumption
  <2>6. /\ Vista(p).op = pide[p].op /\ Vista(p).bloque = pide[p].bloque
        /\ Vista(p).hecha = Hecha(d) /\ Vista(p).valor = v
    BY <2>3
  <2> QED BY <1>1, <2>5, <2>6 DEF d, v
<1>2. CASE pide[p] = NULL
  BY <1>2 DEF Vista
<1> QED BY <1>1, <1>2

(* What a process sees of its request changes with it or when it is served.*)
LEMMA VistaIgual ==
    ASSUME Inv, NEW q \in Procesos,
           pide'[q] = NULL <=> pide[q] = NULL,
           pide[q] # NULL =>
              /\ pide'[q].op = pide[q].op /\ pide'[q].bloque = pide[q].bloque
              /\ pide'[q].valor = pide[q].valor /\ pide'[q].peticion = pide[q].peticion
              /\ Hecha(pide[q].peticion)' <=> Hecha(pide[q].peticion)
              /\ Hecha(pide[q].peticion) =>
                    peticiones'[pide[q].peticion].bloque = peticiones[pide[q].peticion].bloque
    PROVE  Vista(q)' = Vista(q)
<1>1. CASE pide[q] = NULL
  BY <1>1 DEF Vista
<1>2. CASE pide[q] # NULL
  <2> DEFINE e == pide[q].peticion
  <2>1. pide'[q].peticion = e
    BY <1>2
  <2>2. Hecha(e)' = Hecha(e)
    BY <1>2 DEF Hecha
  <2>3. Hecha(e) => peticiones'[e].bloque = peticiones[e].bloque
    BY <1>2
  <2>4. Vista(q) = [op |-> pide[q].op, bloque |-> pide[q].bloque, hecha |-> Hecha(e),
                    valor |-> IF Hecha(e) THEN peticiones[e].bloque ELSE pide[q].valor]
    BY <1>2 DEF Vista
  <2>5. Vista(q)' = [op |-> pide[q].op, bloque |-> pide[q].bloque, hecha |-> Hecha(e)',
                     valor |-> IF Hecha(e)' THEN peticiones'[e].bloque ELSE pide[q].valor]
    BY <1>2, <2>1 DEF Vista
  <2> HIDE DEF e
  <2> QED BY <2>2, <2>3, <2>4, <2>5
<1> QED BY <1>1, <1>2

-----------------------------------------------------------------------------
(* The steps                                                               *)

(* A process is seen to ask, in a request not served yet.                  *)
LEMMA VistaAlPedir ==
    ASSUME Inv, Inv', NEW p \in Procesos, NEW op, NEW b, NEW v, NEW d \in Direcciones,
           Espera(p, op, b, v, d), ~Hecha(d)', d \in Ocupadas => ~Hecha(d),
           \A e \in Ocupadas : e # d => /\ Hecha(e)' <=> Hecha(e)
                                        /\ peticiones'[e].bloque = peticiones[e].bloque
    PROVE  /\ Vista(p) = NULL
           /\ [q \in Procesos |-> Vista(q)]' =
                 [[q \in Procesos |-> Vista(q)] EXCEPT
                     ![p] = [op |-> op, bloque |-> b, valor |-> v, hecha |-> FALSE]]
<1> DEFINE r == [op |-> op, bloque |-> b, valor |-> v, hecha |-> FALSE]
<1>1. Vista(p) = NULL
  BY DEF Espera, Vista
<1>2. Vista(p)' = r
  <2>1. pide'[p] # NULL /\ pide'[p].op = op /\ pide'[p].bloque = b /\ pide'[p].valor = v
        /\ pide'[p].peticion = d
    BY DEF Espera
  <2>2. Hecha(d)' = FALSE
    BY DEF Hecha
  <2> QED BY <2>1, <2>2 DEF Vista
<1>3. ASSUME NEW q \in Procesos, q # p PROVE Vista(q)' = Vista(q)
  <2>1. pide'[q] = pide[q]
    BY <1>3 DEF Espera
  <2>2. CASE pide[q] = NULL
    BY <2>1, <2>2 DEF Vista
  <2>3. CASE pide[q] # NULL
    <3> DEFINE e == pide[q].peticion
    <3>1. e \in Ocupadas /\ pide'[q].peticion = e
      BY <2>1, <2>3 DEF Inv, Esperas
    <3>2. Hecha(e)' = Hecha(e)
      BY <3>1 DEF Hecha
    <3>3. Hecha(e) => peticiones'[e].bloque = peticiones[e].bloque
      BY <3>1
    <3>4. Vista(q) = [op |-> pide[q].op, bloque |-> pide[q].bloque, hecha |-> Hecha(e),
                      valor |-> IF Hecha(e) THEN peticiones[e].bloque ELSE pide[q].valor]
      BY <2>3 DEF Vista
    <3>5. Vista(q)' = [op |-> pide[q].op, bloque |-> pide[q].bloque, hecha |-> Hecha(e)',
                       valor |-> IF Hecha(e)' THEN peticiones'[e].bloque ELSE pide[q].valor]
      BY <2>1, <2>3, <3>1 DEF Vista
    <3> HIDE DEF e
    <3> QED BY <3>2, <3>3, <3>4, <3>5
  <2> QED BY <2>2, <2>3
<1> HIDE DEF r
<1>4. [q \in Procesos |-> Vista(q)]' = [[q \in Procesos |-> Vista(q)] EXCEPT ![p] = r]
  BY <1>2, <1>3
<1> QED BY <1>1, <1>4 DEF r

(* Joining a queued request is asking.                                     *)
LEMMA UnirsePide ==
    ASSUME Inv, Inv', NEW p \in Procesos, NEW op \in Operaciones, NEW b \in Bloques,
           NEW v \in Valores \cup {NULL}, NEW d \in Direcciones, Unida(p, op, b, v, d)
    PROVE  Abstracta!Pedir(p, op, b, v)
<1>1. /\ Espera(p, op, b, v, d) /\ disco' = disco
      /\ UNCHANGED <<dma, peticionActual, listaPeticiones>>
      /\ d \in EnCola /\ d \in Ocupadas /\ d # peticionActual /\ d # NULL
      /\ peticiones[d].numBloque = b /\ peticiones[d] \in Peticion
      /\ peticiones'[d].listaProcesosBloqueados = Append(peticiones[d].listaProcesosBloqueados, p)
      /\ EnCola' = EnCola /\ Ocupadas' = Ocupadas
      /\ \A e : Abandonada(e)' <=> Abandonada(e)
  BY NULLAparte DEF Unida
<1>2. /\ \A e \in Direcciones : e # d => peticiones'[e] = peticiones[e]
      /\ \A e \in Ocupadas : peticiones'[e].numBloque = peticiones[e].numBloque
  BY DEF Unida
<1>3. /\ \A e : Hecha(e)' <=> Hecha(e)
      /\ ~Hecha(d) /\ ~Hecha(d)'
  BY <1>1 DEF Hecha, EnCola
<1>4. \A e \in Ocupadas : e # d => peticiones'[e].bloque = peticiones[e].bloque
  BY <1>2 DEF Ocupadas
<1>5. /\ Vista(p) = NULL
      /\ [q \in Procesos |-> Vista(q)]' =
            [[q \in Procesos |-> Vista(q)] EXCEPT
                ![p] = [op |-> op, bloque |-> b, valor |-> v, hecha |-> FALSE]]
  BY <1>1, <1>3, <1>4, VistaAlPedir
<1>6. EnCola \subseteq Ocupadas
  BY DEF Inv, Cola, Pendientes
<1>7. \A c : BuscarListaPeticiones(c)' = BuscarListaPeticiones(c)
  BY <1>1, <1>2, <1>6, BuscarIgual
<1>8. peticionActual \in Ocupadas \cup {NULL} /\ Ocupadas \subseteq Direcciones
  BY DEF Inv, Cola, Pendientes, Ocupadas
<1>9. \A c : Actual(c)' = Actual(c)
  BY <1>1, <1>2, <1>8 DEF Actual, EnServicio
<1>10. \A e \in Ocupadas \cup {NULL} : e # d => Lista(e)' = Lista(e)
  BY <1>2, <1>8 DEF Lista
<1>11. \A c : /\ Actual(c) \in Ocupadas \cup {NULL} /\ Actual(c) # d
              /\ BuscarListaPeticiones(c) \in Ocupadas \cup {NULL}
              /\ Lista(BuscarListaPeticiones(c)) \in Seq(Procesos)
              /\ Lista(Actual(c)) \in Seq(Procesos)
              /\ EnEspera(c) = Lista(Actual(c)) \o Lista(BuscarListaPeticiones(c))
  BY <1>1, ListasTipo DEF Actual
<1>12. \A c : EnEspera(c)' = Lista(Actual(c))' \o Lista(BuscarListaPeticiones(c))'
  BY ListasTipoPrimado
<1>13. BuscarListaPeticiones(b) = d
  BY <1>1, BuscarDe
<1>14. ASSUME NEW c \in Bloques, c # b PROVE EnEspera(c)' = EnEspera(c)
  <2>1. BuscarListaPeticiones(c) # d
    BY <1>1, <1>14, Buscar DEF Inv
  <2>2. /\ Lista(Actual(c))' = Lista(Actual(c))
        /\ Lista(BuscarListaPeticiones(c))' = Lista(BuscarListaPeticiones(c))
    BY <1>7, <1>9, <1>10, <1>11, <2>1 DEF Lista
  <2> QED BY <1>11, <1>12, <2>2
<1>15. EnEspera(b)' = Append(EnEspera(b), p)
  <2>1. Lista(Actual(b))' = Lista(Actual(b))
    BY <1>9, <1>10, <1>11 DEF Lista
  <2>2. Lista(BuscarListaPeticiones(b))' = Append(Lista(BuscarListaPeticiones(b)), p)
    BY <1>1, <1>7, <1>13 DEF Lista
  <2> DEFINE s == Lista(Actual(b)) 
             t == Lista(BuscarListaPeticiones(b))
  <2>3. s \in Seq(Procesos) /\ t \in Seq(Procesos) /\ EnEspera(b) = s \o t
        /\ EnEspera(b)' = s \o Append(t, p)
    BY <1>11, <1>12, <2>1, <2>2
  <2> HIDE DEF s, t
  <2> QED BY <2>3, EnPedido
<1>16. [c \in Bloques |-> EnEspera(c)]' =
          [[c \in Bloques |-> EnEspera(c)] EXCEPT ![b] = Append(@, p)]
  BY <1>14, <1>15
<1> QED BY <1>1, <1>5, <1>16 DEF Abstracta!Pedir

(* So is creating one.                                                     *)
LEMMA CrearPide ==
    ASSUME Inv, Inv', NEW p \in Procesos, NEW op \in Operaciones, NEW b \in Bloques,
           NEW v \in Valores \cup {NULL}, op = "escribir" => v \in Valores,
           PeticionBloque(p, op, b, v), BuscarListaPeticiones(b) = NULL
    PROVE  Abstracta!Pedir(p, op, b, v)
<1>1. PICK d \in Direcciones : /\ Libre(d) /\ CrearPeticion(p, op, b, v, d, TRUE)
                               /\ Esperar(p, op, b, v, d)
  BY DEF PeticionBloque
<1>2. EnUsuario(p) /\ UNCHANGED <<disco, tareaSW, fallos>>
  BY DEF PeticionBloque
<1>3. Espera(p, op, b, v, d)
  BY <1>1, <1>2, Esperando
<1>4. /\ d # NULL /\ d \notin Ocupadas /\ d \notin EnCola /\ Ocupadas' = Ocupadas \cup {d}
      /\ \A e \in Ocupadas : e # d /\ peticiones'[e] = peticiones[e]
      /\ peticiones'[d].numBloque = b
      /\ peticiones'[d].listaProcesosBloqueados = <<p>>
  <2>1. Creada(p, op, b, v, d)
    BY <1>1, Creando
  <2> QED BY <2>1 DEF Creada, Pendientes
<1>5. /\ EnCola \subseteq Ocupadas /\ (peticionActual = NULL => EnCola = {})
      /\ peticionActual \in Ocupadas \cup {NULL}
      /\ \A e \in EnCola : peticiones[e].numBloque # b
  <2>1. \A e \in EnCola : peticiones[e].numBloque # b
    BY Buscar DEF Inv
  <2> QED BY <2>1 DEF Inv, Cola, Pendientes, Servicio, EnCola, ToSet
<1>6. /\ peticionActual = NULL => /\ peticionActual' = d /\ dma' = "en curso"
                                  /\ listaPeticiones' = listaPeticiones /\ EnCola' = EnCola
      /\ peticionActual # NULL => /\ peticionActual' = peticionActual /\ dma' = dma
                                  /\ EnCola' = EnCola \cup {d}
  <2>1. CASE peticionActual = NULL
    BY <1>1, <2>1 DEF CrearPeticion, EnCola
  <2>2. CASE peticionActual # NULL
    <3>1. listaPeticiones' = Append(listaPeticiones, d) /\ listaPeticiones \in Seq(Direcciones)
      BY <1>1, <2>2 DEF CrearPeticion, Inv, Tipos
    <3>2. EnCola' = EnCola \cup {d}
      BY <3>1, Insertar DEF EnCola
    <3> QED BY <1>1, <2>2, <3>2 DEF CrearPeticion
  <2> QED BY <2>1, <2>2
<1>7. /\ ~Hecha(d)'
      /\ \A e \in Ocupadas : /\ Hecha(e)' <=> Hecha(e)
                             /\ peticiones'[e].bloque = peticiones[e].bloque
  BY <1>4, <1>5, <1>6, NULLAparte DEF Hecha, EnCola, Ocupadas
<1>8. /\ Vista(p) = NULL
      /\ [q \in Procesos |-> Vista(q)]' =
            [[q \in Procesos |-> Vista(q)] EXCEPT
                ![p] = [op |-> op, bloque |-> b, valor |-> v, hecha |-> FALSE]]
  BY <1>3, <1>4, <1>7, VistaAlPedir
<1>9. /\ \A e \in Ocupadas : Abandonada(e)' <=> Abandonada(e)
      /\ ~Abandonada(d)'
  BY <1>2, <1>3, <1>4, <1>6, NULLAparte DEF Abandonada, Espera, Ocupadas
<1>10. \A c : EnEspera(c) = Lista(Actual(c)) \o Lista(BuscarListaPeticiones(c))
  BY ListasTipo
<1>11. \A c : EnEspera(c)' = Lista(Actual(c))' \o Lista(BuscarListaPeticiones(c))'
  BY ListasTipoPrimado
<1>12. \A c : c # b => BuscarListaPeticiones(c)' = BuscarListaPeticiones(c)
  <2>1. SUFFICES ASSUME NEW c, c # b PROVE BuscarListaPeticiones(c)' = BuscarListaPeticiones(c)
    OBVIOUS
  <2>2. CASE \E e \in EnCola : peticiones[e].numBloque = c
    <3>1. PICK e \in EnCola : peticiones[e].numBloque = c
      BY <2>2
    <3>2. peticiones'[e].numBloque = c /\ e \in EnCola'
      BY <1>4, <1>5, <1>6, <3>1
    <3>3. BuscarListaPeticiones(c)' = e
      BY <3>2, BuscarDePrimado
    <3> QED BY <3>1, <3>3, BuscarDe
  <2>3. CASE \A e \in EnCola : peticiones[e].numBloque # c
    <3>1. \A e \in EnCola' : peticiones'[e].numBloque # c
      BY <1>4, <1>5, <1>6, <2>1, <2>3
    <3>2. BuscarListaPeticiones(c)' = NULL
      BY <3>1, BuscarDePrimado
    <3> QED BY <2>3, <3>2, BuscarDe
  <2> QED BY <2>2, <2>3
<1>13. \A e \in Ocupadas \cup {NULL} : Lista(e)' = Lista(e)
  BY <1>4 DEF Lista
<1>14. ASSUME NEW c \in Bloques, c # b PROVE EnEspera(c)' = EnEspera(c)
  <2>1. Actual(c)' = Actual(c)
    BY <1>4, <1>5, <1>6, <1>9, <1>14 DEF Actual, EnServicio
  <2>2. /\ Actual(c) \in Ocupadas \cup {NULL}
        /\ BuscarListaPeticiones(c) \in Ocupadas \cup {NULL}
    BY ListasTipo
  <2>3. /\ Lista(Actual(c))' = Lista(Actual(c))
        /\ Lista(BuscarListaPeticiones(c))' = Lista(BuscarListaPeticiones(c))
    BY <1>12, <1>13, <1>14, <2>1, <2>2 DEF Lista
  <2> QED BY <1>10, <1>11, <2>3
<1>15. EnEspera(b)' = Append(EnEspera(b), p)
  <2>1. Lista(BuscarListaPeticiones(b)) = <<>> /\ Lista(NULL)' = <<>> /\ Lista(d)' = <<p>>
    BY <1>4 DEF Lista
  <2>2. CASE peticionActual = NULL
    <3>1. Actual(b) = NULL /\ Lista(Actual(b)) = <<>>
      BY <2>2 DEF Actual, EnServicio, Lista
    <3>2. Actual(b)' = d
      BY <1>4, <1>6, <1>9, <2>2 DEF Actual, EnServicio
    <3>3. BuscarListaPeticiones(b)' = NULL
      BY <1>4, <1>5, <1>6, <2>2, BuscarDePrimado
    <3>4. Lista(Actual(b))' = <<p>> /\ Lista(BuscarListaPeticiones(b))' = <<>>
      BY <2>1, <3>2, <3>3 DEF Lista
    <3>5. EnEspera(b)' = <<p>> \o <<>> /\ EnEspera(b) = <<>> \o <<>>
      BY <1>10, <1>11, <2>1, <3>1, <3>4
    <3>6. <<p>> \in Seq(Procesos) /\ <<>> \in Seq(Procesos)
      OBVIOUS
    <3>7. <<p>> \o <<>> = <<p>> /\ <<>> \o <<>> = <<>>
      BY <3>6, ConcatEmptySeq
    <3> QED BY <3>5, <3>7
  <2>3. CASE peticionActual # NULL
    <3>1. Actual(b)' = Actual(b) /\ Actual(b) \in Ocupadas \cup {NULL}
      BY <1>4, <1>5, <1>6, <1>9, <2>3 DEF Actual, EnServicio
    <3>2. Lista(Actual(b))' = Lista(Actual(b)) /\ Lista(Actual(b)) \in Seq(Procesos)
      BY <1>13, <3>1, ListasTipo DEF Lista
    <3>3. BuscarListaPeticiones(b)' = d
      BY <1>4, <1>6, <2>3, BuscarDePrimado
    <3>4. Lista(BuscarListaPeticiones(b))' = <<p>>
      BY <2>1, <3>3 DEF Lista
    <3>5. <<>> \in Seq(Procesos)
      OBVIOUS
    <3> DEFINE s == Lista(Actual(b))
    <3>6. EnEspera(b)' = s \o <<p>> /\ EnEspera(b) = s \o <<>> /\ s \in Seq(Procesos)
      BY <1>10, <1>11, <2>1, <3>2, <3>4
    <3> HIDE DEF s
    <3> QED BY <3>5, <3>6, EnPedido
  <2> QED BY <2>2, <2>3
<1>16. [c \in Bloques |-> EnEspera(c)]' =
          [[c \in Bloques |-> EnEspera(c)] EXCEPT ![b] = Append(@, p)]
  BY <1>14, <1>15
<1> QED BY <1>2, <1>8, <1>16 DEF Abstracta!Pedir

(* A request whose transfer does not start is not seen.                    *)
LEMMA FallidaNoSeVe ==
    ASSUME Inv, Inv', NEW p \in Procesos, NEW op \in Operaciones, NEW b \in Bloques,
           NEW v \in Valores \cup {NULL}, op = "escribir" => v \in Valores,
           PeticionFallida(p, op, b, v)
    PROVE  UNCHANGED Abstracta!vars
<1>1. PICK d \in Direcciones : Libre(d) /\ CrearPeticion(p, op, b, v, d, FALSE)
  BY DEF PeticionFallida
<1>2. /\ disco' = disco /\ pide' = pide /\ peticionActual = NULL
      /\ BuscarListaPeticiones(b) = NULL
  BY DEF PeticionFallida
<1>3. fallos' > 0
  <2>1. fallos' = fallos + 1 /\ fallos \in 0 .. MaxFallos
    BY DEF PeticionFallida, Inv, Tipos
  <2> QED BY <2>1, DiscoAssumption
<1>4. /\ d # NULL /\ d \notin Ocupadas /\ Ocupadas' = Ocupadas \cup {d} /\ Usuarios(d) = {}
      /\ \A e \in Ocupadas : e # d /\ peticiones'[e] = peticiones[e]
  <2>1. Creada(p, op, b, v, d)
    BY <1>1, <1>2, Creando
  <2> QED BY <2>1 DEF Creada
<1>5. /\ peticionActual' = d /\ dma' = "parado" /\ listaPeticiones' = listaPeticiones
      /\ listaPeticiones = <<>> /\ EnCola = {} /\ EnCola' = {}
  BY <1>1, <1>2 DEF CrearPeticion, Inv, Servicio, EnCola, ToSet
<1>6. Abandonada(d)'
  BY <1>2, <1>3, <1>4, <1>5 DEF Abandonada, Usuarios
<1>7. ASSUME NEW q \in Procesos PROVE Vista(q)' = Vista(q)
  <2>1. ASSUME pide[q] # NULL PROVE pide[q].peticion \in Ocupadas
    BY <2>1 DEF Inv, Esperas
  <2>2. \A e \in Ocupadas : Hecha(e) /\ Hecha(e)'
    BY <1>2, <1>4, <1>5, NULLAparte DEF Hecha, EnCola, Ocupadas
  <2> QED BY <1>2, <1>4, <2>1, <2>2, VistaIgual
<1>8. ASSUME NEW c \in Bloques PROVE EnEspera(c)' = EnEspera(c)
  <2>1. Actual(c) = NULL /\ Actual(c)' = NULL
    BY <1>2, <1>5, <1>6 DEF Actual, EnServicio
  <2>2. BuscarListaPeticiones(c) = NULL
    BY <1>5, BuscarDe
  <2>3. BuscarListaPeticiones(c)' = NULL
    BY <1>5, BuscarDePrimado
  <2>4. /\ Lista(Actual(c)) = <<>> /\ Lista(BuscarListaPeticiones(c)) = <<>>
        /\ Lista(Actual(c))' = <<>> /\ Lista(BuscarListaPeticiones(c))' = <<>>
    BY <2>1, <2>2, <2>3 DEF Lista
  <2>5. EnEspera(c) = <<>> \o <<>>
    BY <2>4, ListasTipo
  <2>6. EnEspera(c)' = <<>> \o <<>>
    BY <2>4, ListasTipoPrimado
  <2> QED BY <2>5, <2>6
<1> QED BY <1>2, <1>7, <1>8 DEF Abstracta!vars

(* The service of a request that passes to the next is not seen.           *)
LEMMA RelevoNoSeVe ==
    ASSUME Inv, Inv', NEW a \in Direcciones, Relevada(a)
    PROVE  UNCHANGED Abstracta!vars
<1>1. /\ a = peticionActual /\ a \in Ocupadas /\ a \notin EnCola /\ dma = "terminado"
      /\ disco' = disco /\ dma' # "terminado" /\ a # NULL
      /\ peticionActual' \in Direcciones \cup {NULL} /\ peticionActual' \notin EnCola'
      /\ peticionActual' # NULL => peticionActual' \in EnCola
      /\ EnCola = EnCola' \cup ({peticionActual'} \ {NULL})
      /\ Ocupadas' = Ocupadas
  BY DEF Relevada
<1>2. /\ \A e \in Direcciones : e # a => peticiones'[e] = peticiones[e]
      /\ \A e \in Ocupadas : /\ peticiones'[e].numBloque = peticiones[e].numBloque
                             /\ peticiones'[e].bloque = peticiones[e].bloque
      /\ \A e \in Ocupadas : ~Abandonada(e) /\ ~Abandonada(e)'
  BY DEF Relevada
<1>3. \A q \in Procesos :
          /\ q \notin Usuarios(a) => pide'[q] = pide[q]
          /\ q \in Usuarios(a) =>
                /\ pide'[q] # NULL /\ pide'[q].op = pide[q].op
                /\ pide'[q].bloque = pide[q].bloque
                /\ pide'[q].valor = pide[q].valor /\ pide'[q].peticion = a
  BY Zenon DEF Relevada
<1>4. EnCola \subseteq Ocupadas /\ Ocupadas \subseteq Direcciones
  BY DEF Inv, Cola, Pendientes, Ocupadas
<1>5. \A e \in Ocupadas : Hecha(e)' <=> Hecha(e)
  BY <1>1, <1>4, NULLAparte DEF Hecha, EnCola
<1>6. ASSUME NEW q \in Procesos PROVE Vista(q)' = Vista(q)
  <2>1. ASSUME pide[q] # NULL PROVE pide[q].peticion \in Ocupadas
    BY <2>1 DEF Inv, Esperas
  <2>2. CASE q \in Usuarios(a)
    <3>1. pide[q] # NULL /\ pide[q].peticion = a
      BY <2>2 DEF Usuarios
    <3>2. /\ pide'[q] # NULL /\ pide'[q].op = pide[q].op
          /\ pide'[q].bloque = pide[q].bloque
          /\ pide'[q].valor = pide[q].valor /\ pide'[q].peticion = a
      BY <1>3, <2>2
    <3> QED BY <1>1, <1>2, <1>5, <3>1, <3>2, VistaIgual
  <2>3. CASE q \notin Usuarios(a)
    <3>1. pide'[q] = pide[q]
      BY <1>3, <2>3
    <3> QED BY <1>2, <1>5, <2>1, <3>1, VistaIgual
  <2> QED BY <2>2, <2>3
<1>7. ASSUME NEW c \in Bloques PROVE EnEspera(c)' = EnEspera(c)
  <2>1. Actual(c) = NULL
    BY <1>1 DEF Actual, EnServicio
  <2>2. \A e \in Ocupadas \cup {NULL} : e # a => Lista(e)' = Lista(e)
    BY <1>2, <1>4 DEF Lista
  <2>3. /\ Lista(NULL) = <<>> /\ Lista(NULL)' = <<>>
        /\ EnEspera(c) = Lista(Actual(c)) \o Lista(BuscarListaPeticiones(c))
        /\ BuscarListaPeticiones(c) \in Ocupadas \cup {NULL}
        /\ Lista(BuscarListaPeticiones(c)) \in Seq(Procesos)
    BY ListasTipo DEF Lista
  <2>4. EnEspera(c)' = Lista(Actual(c))' \o Lista(BuscarListaPeticiones(c))'
    BY ListasTipoPrimado
  <2> DEFINE t == Lista(BuscarListaPeticiones(c))
  <2>5. EnEspera(c) = <<>> \o t
    BY <2>1, <2>3
  <2>6. BuscarListaPeticiones(c) # NULL => BuscarListaPeticiones(c) \in EnCola
    BY Buscar DEF Inv
  <2>7. t \o <<>> = t /\ <<>> \o t = t
    BY <2>3, ConcatEmptySeq
  <2>8. CASE peticionActual' # NULL /\ peticiones[peticionActual'].numBloque = c
    <3>1. PICK n \in EnCola : n = peticionActual' /\ peticiones[n].numBloque = c
      BY <1>1, <2>8
    <3>2. n \in Ocupadas /\ n # NULL /\ n # a /\ ~Abandonada(n)' /\ peticiones'[n].numBloque = c
      BY <1>1, <1>2, <1>4, <3>1, NULLAparte
    <3>3. BuscarListaPeticiones(c) = n
      BY <3>1, BuscarDe
    <3>4. Actual(c)' = n
      BY <1>1, <3>1, <3>2 DEF Actual, EnServicio
    <3>5. BuscarListaPeticiones(c)' = NULL
      <4>1. \A e \in EnCola' : peticiones'[e].numBloque # c
        <5>1. SUFFICES ASSUME NEW e \in EnCola' PROVE peticiones'[e].numBloque # c
          OBVIOUS
        <5>2. e \in EnCola /\ e # n
          BY <1>1, <3>1
        <5> QED BY <1>2, <1>4, <3>1, <5>2 DEF Inv, Cola
      <4> QED BY <4>1, BuscarDePrimado
    <3>6. Lista(n)' = Lista(n)
      BY <2>2, <3>2
    <3>7. Lista(Actual(c))' = t /\ Lista(BuscarListaPeticiones(c))' = <<>>
      BY <2>3, <3>3, <3>4, <3>5, <3>6 DEF Lista
    <3> HIDE DEF t
    <3> QED BY <2>4, <2>5, <2>7, <3>7
  <2>9. CASE ~(peticionActual' # NULL /\ peticiones[peticionActual'].numBloque = c)
    <3>1. Actual(c)' = NULL
      BY <1>1, <1>2, <1>4, <2>9 DEF Actual, EnServicio
    <3>2. BuscarListaPeticiones(c)' = BuscarListaPeticiones(c)
      <4>1. CASE \E e \in EnCola : peticiones[e].numBloque = c
        <5>1. PICK e \in EnCola : peticiones[e].numBloque = c
          BY <4>1
        <5>2. e \in EnCola' /\ peticiones'[e].numBloque = c
          BY <1>1, <1>2, <1>4, <2>9, <5>1
        <5>3. BuscarListaPeticiones(c)' = e
          BY <5>2, BuscarDePrimado
        <5> QED BY <5>1, <5>3, BuscarDe
      <4>2. CASE \A e \in EnCola : peticiones[e].numBloque # c
        <5>1. \A e \in EnCola' : peticiones'[e].numBloque # c
          BY <1>1, <1>2, <1>4, <4>2
        <5>2. BuscarListaPeticiones(c)' = NULL
          BY <5>1, BuscarDePrimado
        <5> QED BY <4>2, <5>2, BuscarDe
      <4> QED BY <4>1, <4>2
    <3>3. BuscarListaPeticiones(c) # a
      BY <1>1, <2>6
    <3>4. Lista(Actual(c))' = <<>> /\ Lista(BuscarListaPeticiones(c))' = t
      BY <2>2, <2>3, <3>1, <3>2, <3>3 DEF Lista
    <3> HIDE DEF t
    <3> QED BY <2>4, <2>5, <3>4
  <2> QED BY <2>8, <2>9
<1> QED BY <1>1, <1>6, <1>7 DEF Abstracta!vars

(* A process that runs again has had its request served.                   *)
LEMMA ReanudarTermina ==
    ASSUME Inv, Inv', NEW p \in Procesos, NEW d \in Direcciones, Reanudada(p, d)
    PROVE  Abstracta!Terminar(p)
<1>1. /\ pide[p] # NULL /\ pide[p].peticion = d /\ pide'[p] = NULL
      /\ \A q \in Procesos : q # p => pide'[q] = pide[q]
      /\ UNCHANGED <<disco, dma, peticionActual, listaPeticiones>>
      /\ d \in Ocupadas /\ d \notin Pendientes /\ EnCola' = EnCola
      /\ Pendientes \subseteq Ocupadas' /\ Ocupadas' \subseteq Ocupadas
      /\ \A e : Abandonada(e)' <=> Abandonada(e)
  BY DEF Reanudada
<1>2. \A e \in Ocupadas' :
         /\ peticiones'[e].numBloque = peticiones[e].numBloque
         /\ peticiones'[e].bloque = peticiones[e].bloque
         /\ peticiones'[e].listaProcesosBloqueados = peticiones[e].listaProcesosBloqueados
  BY DEF Reanudada
<1>3. EnCola \subseteq Pendientes /\ peticionActual \in Pendientes \cup {NULL} /\ d # NULL
  BY NULLAparte DEF Pendientes
<1>4. Hecha(d) /\ \A e : Hecha(e)' <=> Hecha(e)
  BY <1>1, <1>3 DEF Hecha, EnCola
<1>5. Vista(p) # NULL /\ Vista(p).hecha
  BY <1>1, <1>4, VistaDePeticion
<1>6. Vista(p)' = NULL
  BY <1>1 DEF Vista
<1>7. ASSUME NEW q \in Procesos, q # p PROVE Vista(q)' = Vista(q)
  <2>1. pide'[q] = pide[q]
    BY <1>1, <1>7
  <2>2. ASSUME pide[q] # NULL PROVE pide[q].peticion \in Ocupadas'
    BY <2>1, <2>2 DEF Inv, Esperas
  <2> QED BY <1>2, <1>4, <2>1, <2>2, VistaIgual
<1>8. [q \in Procesos |-> Vista(q)]' = [[q \in Procesos |-> Vista(q)] EXCEPT ![p] = NULL]
  BY <1>6, <1>7
<1>9. ASSUME NEW c \in Bloques PROVE EnEspera(c)' = EnEspera(c)
  <2>1. \A e \in Pendientes \cup {NULL} : Lista(e)' = Lista(e)
    BY <1>1, <1>2 DEF Lista
  <2>2. Actual(c)' = Actual(c) /\ Actual(c) \in Pendientes \cup {NULL}
    BY <1>1, <1>2, <1>3 DEF Actual, EnServicio
  <2>3. BuscarListaPeticiones(c)' = BuscarListaPeticiones(c)
    BY <1>1, <1>2, <1>3, BuscarIgual
  <2>4. BuscarListaPeticiones(c) \in Pendientes \cup {NULL}
    BY <1>3, Buscar DEF Inv
  <2>5. /\ Lista(Actual(c))' = Lista(Actual(c))
        /\ Lista(BuscarListaPeticiones(c))' = Lista(BuscarListaPeticiones(c))
    BY <2>1, <2>2, <2>3, <2>4 DEF Lista
  <2> QED BY <2>5, ListasTipo, ListasTipoPrimado
<1>10. [c \in Bloques |-> EnEspera(c)]' = [c \in Bloques |-> EnEspera(c)]
  BY <1>9
<1> QED BY <1>1, <1>5, <1>8, <1>10 DEF Abstracta!Terminar

(* The last write of a list, as Servir finds it.                           *)
Escriben(g, l) == {i \in 1 .. Len(l) : g[l[i]].op = "escribir"}

Dejan(g, l, op, v) ==
    /\ op = "leer" => Escriben(g, l) = {}
    /\ op # "leer" => /\ Escriben(g, l) # {}
                      /\ Max(Escriben(g, l)) \in 1 .. Len(l)
                      /\ g[l[Max(Escriben(g, l))]].valor = v

LEMMA UltimaDeLaLista ==
    ASSUME NEW f, NEW g, NEW l \in Seq(Procesos), NEW op \in Operaciones, NEW v,
           \A q \in ToSet(l) : g[q].op = f[q].op /\ g[q].valor = f[q].valor,
           UltimaEscritura(f, l, op, v)
    PROVE  Dejan(g, l, op, v)
<1>1. Len(l) \in Nat
  BY LenProperties
<1>2. \A i \in 1 .. Len(l) : g[l[i]].op = f[l[i]].op /\ g[l[i]].valor = f[l[i]].valor
  <2>1. \A i \in 1 .. Len(l) : l[i] \in ToSet(l)
    BY LenProperties DEF ToSet
  <2> QED BY <2>1
<1>3. CASE op = "leer"
  <2>1. \A i \in 1 .. Len(l) : f[l[i]].op = "leer"
    BY <1>3 DEF UltimaEscritura
  <2> QED BY <1>2, <1>3, <2>1 DEF Escriben, Dejan
<1>4. CASE op # "leer"
  <2>1. PICK k \in 1 .. Len(l) : /\ f[l[k]].op = "escribir" /\ f[l[k]].valor = v
                                 /\ \A i \in k + 1 .. Len(l) : f[l[i]].op = "leer"
    BY <1>4 DEF UltimaEscritura
  <2>2. PICK I : I = Escriben(g, l)
    OBVIOUS
  <2>3. k \in I /\ k \in Int /\ \A i \in I : i \in 1 .. Len(l) /\ i \in Int
    BY <1>1, <1>2, <2>1, <2>2 DEF Escriben
  <2>4. \A i \in I : i <= k
    <3>1. SUFFICES ASSUME NEW i \in I, ~(i <= k) PROVE FALSE
      OBVIOUS
    <3>2. i \in k + 1 .. Len(l) /\ i \in 1 .. Len(l)
      BY <1>1, <2>3, <3>1
    <3>3. f[l[i]].op = "leer" /\ g[l[i]].op = "escribir"
      BY <2>1, <2>2, <3>2 DEF Escriben
    <3> QED BY <1>2, <3>2, <3>3
  <2>5. \A i \in I : k >= i
    BY <2>3, <2>4
  <2>6. Max(I) \in I /\ \A i \in I : Max(I) >= i
    BY <2>3, <2>5 DEF Max
  <2>7. PICK m : m = Max(I)
    OBVIOUS
  <2>8. m \in Int /\ m >= k /\ k >= m
    BY <2>3, <2>5, <2>6, <2>7
  <2>9. m = k
    BY <2>3, <2>8
  <2> QED BY <1>2, <1>4, <2>1, <2>2, <2>3, <2>7, <2>9 DEF Dejan
<1> QED BY <1>3, <1>4

(* Servir, from g and e to h and f.                                        *)
Sirve(g, h, e, f, b, n) ==
    LET S == SubSeq(e[b], 1, n)
        k == Abstracta!UltimaQueEscribe(g, S)
        v == IF k = 0 THEN disco[b] ELSE g[S[k]].valor
    IN  /\ n <= Len(e[b])
        /\ disco' = [disco EXCEPT ![b] = v]
        /\ h = [p \in Procesos |->
                  IF p \in Abstracta!ToSet(S)
                  THEN [op |-> g[p].op, bloque |-> b, hecha |-> TRUE, valor |-> v]
                  ELSE g[p]]
        /\ f = [e EXCEPT ![b] = SubSeq(e[b], n + 1, Len(e[b]))]

(* The end of a transfer serves all the processes of its request.          *)
LEMMA HWSirve ==
    ASSUME Inv, Inv', NEW a \in Direcciones, Terminada(a)
    PROVE  \E b \in Bloques : \E n \in 1 .. Len([c \in Bloques |-> EnEspera(c)][b]) :
              Abstracta!Servir(b, n)
<1>1. /\ a = peticionActual /\ a # NULL /\ a \in Ocupadas /\ a \in Pendientes
      /\ peticiones[a] \in Peticion
      /\ dma = "en curso" /\ dma' = "terminado"
      /\ UNCHANGED <<peticionActual, listaPeticiones, pide>>
      /\ EnCola' = EnCola /\ Ocupadas' = Ocupadas
      /\ \A e : ~Abandonada(e) /\ ~Abandonada(e)'
  BY DEF Terminada
<1>2. /\ \A e \in Direcciones : e # a => peticiones'[e] = peticiones[e]
      /\ \A e \in Ocupadas :
            /\ peticiones'[e].numBloque = peticiones[e].numBloque
            /\ peticiones'[e].listaProcesosBloqueados = peticiones[e].listaProcesosBloqueados
  BY DEF Terminada
<1>3. PICK b \in Bloques, l \in Seq(Procesos), op \in Operaciones, x \in Valores \cup {NULL} :
         /\ b = peticiones[a].numBloque /\ l = peticiones[a].listaProcesosBloqueados
         /\ op = peticiones[a].operacion /\ x = peticiones[a].bloque
  BY <1>1 DEF Peticion
<1>4. PICK w : w = IF op = "escribir" THEN x ELSE disco[b]
  OBVIOUS
<1>5. disco' = [disco EXCEPT ![b] = w] /\ peticiones'[a].bloque = w
  BY <1>3, <1>4 DEF Terminada
<1>6. a \notin EnCola /\ EnCola \subseteq Ocupadas /\ Ocupadas \subseteq Direcciones
  BY <1>1 DEF Inv, Cola, Pendientes, Ocupadas
<1>7. ToSet(l) = Usuarios(a) /\ l # <<>>
  <2>1. ToSet(l) = Bloqueados(a) /\ Bloqueados(a) = Usuarios(a) /\ Usuarios(a) # {}
    BY <1>1, <1>3, ConUsuarios DEF Inv, Cuentas
  <2>2. l # <<>>
    BY <2>1 DEF ToSet
  <2> QED BY <2>1, <2>2
<1>8. UltimaEscritura(pide, l, op, x)
  BY <1>1, <1>3 DEF Inv, Efectos, SinServir
<1>9. /\ ~Hecha(a) /\ Hecha(a)'
      /\ \A e : e # a => (Hecha(e)' <=> Hecha(e))
  BY <1>1, <1>6 DEF Hecha, EnCola
<1>10. PICK g : g = [q \in Procesos |-> Vista(q)]
  OBVIOUS
<1>11. \A q \in Usuarios(a) : /\ q \in Procesos /\ g[q].op = pide[q].op
                              /\ g[q].valor = pide[q].valor
                              /\ pide[q] # NULL /\ pide[q].peticion = a /\ pide[q].bloque = b
  <2>1. SUFFICES ASSUME NEW q \in Usuarios(a)
                 PROVE  /\ q \in Procesos /\ g[q].op = pide[q].op
                        /\ g[q].valor = pide[q].valor
                        /\ pide[q] # NULL /\ pide[q].peticion = a /\ pide[q].bloque = b
    OBVIOUS
  <2>2. q \in Procesos /\ pide[q] # NULL /\ pide[q].peticion = a
    BY DEF Usuarios
  <2>3. pide[q].bloque = b
    BY <1>3, <2>2 DEF Inv, Esperas
  <2>4. Vista(q).op = pide[q].op /\ Vista(q).valor = pide[q].valor
    BY <1>9, <2>2, VistaDePeticion
  <2> QED BY <1>10, <2>2, <2>3, <2>4
<1>12. PICK k : k = IF Escriben(g, l) # {} THEN Max(Escriben(g, l)) ELSE 0
  OBVIOUS
<1>13. w = IF k = 0 THEN disco[b] ELSE g[l[k]].valor
  <2>1. \A q \in ToSet(l) : g[q].op = pide[q].op /\ g[q].valor = pide[q].valor
    BY <1>7, <1>11
  <2>2. Dejan(g, l, op, x)
    <3>1. PICK f : f = pide
      OBVIOUS
    <3>2. /\ \A q \in ToSet(l) : g[q].op = f[q].op /\ g[q].valor = f[q].valor
          /\ UltimaEscritura(f, l, op, x)
      BY <1>8, <2>1, <3>1
    <3> QED BY <3>2, UltimaDeLaLista
  <2>3. CASE op = "leer"
    BY <1>4, <1>12, <2>2, <2>3 DEF Dejan
  <2>4. CASE op = "escribir"
    <3>1. k \in 1 .. Len(l) /\ g[l[k]].valor = x
      BY <1>12, <2>2, <2>4 DEF Dejan
    <3> QED BY <1>4, <2>4, <3>1
  <2> QED BY <2>3, <2>4 DEF Operaciones
<1>14. PICK t : t = Lista(BuscarListaPeticiones(b))
  OBVIOUS
<1>15. EnEspera(b) = l \o t /\ t \in Seq(Procesos)
  <2>1. Actual(b) = a /\ Lista(a) = l
    BY <1>1, <1>3 DEF Actual, EnServicio, Lista
  <2> QED BY <1>14, <2>1, ListasTipo
<1>16. \A c : Lista(BuscarListaPeticiones(c))' = Lista(BuscarListaPeticiones(c))
  <2>1. \A c : BuscarListaPeticiones(c)' = BuscarListaPeticiones(c)
    BY <1>1, <1>2, <1>6, BuscarIgual
  <2>2. \A c : BuscarListaPeticiones(c) \in Ocupadas \cup {NULL}
    BY ListasTipo
  <2> QED BY <1>2, <2>1, <2>2 DEF Lista
<1>17. \A c : Actual(c)' = NULL /\ Lista(Actual(c))' = <<>>
  BY <1>1 DEF Actual, EnServicio, Lista
<1>18. EnEspera(b)' = t
  <2>1. EnEspera(b)' = <<>> \o t
    BY <1>14, <1>16, <1>17, ListasTipoPrimado
  <2> QED BY <1>15, <2>1, ConcatEmptySeq
<1>19. ASSUME NEW c \in Bloques, c # b PROVE EnEspera(c)' = EnEspera(c)
  <2>1. Actual(c) = NULL /\ Lista(Actual(c)) = <<>>
    BY <1>1, <1>3, <1>19 DEF Actual, EnServicio, Lista
  <2>2. EnEspera(c)' = <<>> \o Lista(BuscarListaPeticiones(c))
    BY <1>16, <1>17, ListasTipoPrimado
  <2>3. EnEspera(c) = <<>> \o Lista(BuscarListaPeticiones(c))
    BY <2>1, ListasTipo
  <2> QED BY <2>2, <2>3
<1>20. ASSUME NEW q \in Procesos, q \in Usuarios(a)
       PROVE  Vista(q)' = [op |-> Vista(q).op, bloque |-> b, hecha |-> TRUE, valor |-> w]
  <2>1. pide[q] # NULL /\ pide[q].peticion = a /\ pide[q].bloque = b
    BY <1>11, <1>20
  <2>2. Vista(q).op = pide[q].op
    BY <1>10, <1>11, <1>20
  <2>3. Hecha(a)' = TRUE
    BY <1>9 DEF Hecha
  <2> QED BY <1>1, <1>5, <2>1, <2>2, <2>3 DEF Vista
<1>21. ASSUME NEW q \in Procesos, q \notin Usuarios(a) PROVE Vista(q)' = Vista(q)
  <2>1. pide'[q] = pide[q] /\ (pide[q] # NULL => pide[q].peticion # a)
    BY <1>1, <1>21 DEF Usuarios
  <2>2. ASSUME pide[q] # NULL PROVE pide[q].peticion \in Direcciones
    BY <2>2, EnMemoria DEF Inv, Pide
  <2> QED BY <1>2, <1>9, <2>1, <2>2, VistaIgual
<1>22. PICK n, e : n = Len(l) /\ e = [c \in Bloques |-> EnEspera(c)]
  OBVIOUS
<1>23. e[b] = l \o t
  BY <1>15, <1>22
<1>24. /\ n \in Nat \ {0} /\ n <= Len(e[b]) /\ SubSeq(e[b], 1, n) = l
       /\ SubSeq(e[b], n + 1, Len(e[b])) = t /\ Len(e[b]) \in Nat
  <2>1. n \in Nat \ {0}
    BY <1>7, <1>22, EmptySeq
  <2>2. Len(l \o t) \in Nat
    BY <1>15, ConcatProperties, LenProperties
  <2> QED BY <1>15, <1>22, <1>23, <2>1, <2>2, PrimerosDe
<1>25. [q \in Procesos |-> Vista(q)]' =
          [p \in Procesos |-> IF p \in ToSet(l)
                              THEN [op |-> g[p].op, bloque |-> b, hecha |-> TRUE, valor |-> w]
                              ELSE g[p]]
  BY <1>7, <1>10, <1>20, <1>21
<1>26. [c \in Bloques |-> EnEspera(c)]' = [e EXCEPT ![b] = SubSeq(@, n + 1, Len(@))]
  BY <1>18, <1>19, <1>22, <1>24
<1>27. Abstracta!UltimaQueEscribe(g, l) = k
  BY <1>12 DEF Abstracta!UltimaQueEscribe, Abstracta!SelectLastInSeq, Abstracta!Max, Max, Escriben
<1>28. n \in 1 .. Len(e[b])
  BY <1>24
<1>29. Abstracta!Servir(b, n)
  <2>1. PICK S, v : S = SubSeq(e[b], 1, n) /\ v = IF k = 0 THEN disco[b] ELSE g[S[k]].valor
    OBVIOUS
  <2>2. S = l /\ v = w /\ Abstracta!ToSet(S) = ToSet(l)
    BY <1>13, <1>24, <2>1 DEF Abstracta!ToSet, ToSet
  <2>3. Abstracta!UltimaQueEscribe(g, S) = k
    BY <1>27, <2>2
  <2>4. /\ n <= Len(e[b])
        /\ disco' = [disco EXCEPT ![b] = v]
    BY <1>5, <1>24, <2>2
  <2>5. [q \in Procesos |-> Vista(q)]' =
            [p \in Procesos |-> IF p \in Abstracta!ToSet(S)
                                THEN [op |-> g[p].op, bloque |-> b, hecha |-> TRUE, valor |-> v]
                                ELSE g[p]]
    BY <1>25, <2>2
  <2>6. [c \in Bloques |-> EnEspera(c)]' = [e EXCEPT ![b] = SubSeq(e[b], n + 1, Len(e[b]))]
    BY <1>26
  <2>7. Sirve(g, [q \in Procesos |-> Vista(q)]', e, [c \in Bloques |-> EnEspera(c)]', b, n)
    BY <2>1, <2>3, <2>4, <2>5, <2>6 DEF Sirve
  <2>8. Sirve([q \in Procesos |-> Vista(q)], [q \in Procesos |-> Vista(q)]',
              [c \in Bloques |-> EnEspera(c)], [c \in Bloques |-> EnEspera(c)]', b, n)
    BY <1>10, <1>22, <2>7
  <2> QED BY <2>8 DEF Sirve, Abstracta!Servir
<1> QED BY <1>22, <1>28, <1>29

-----------------------------------------------------------------------------
(* The refinement                                                          *)

LEMMA InicialAbstracto == Init => Abstracta!Init
<1> SUFFICES ASSUME Init PROVE Abstracta!Init
  OBVIOUS
<1>1. /\ disco \in [Bloques -> Valores] /\ peticionActual = NULL /\ listaPeticiones = <<>>
      /\ \A q \in Procesos : pide[q] = NULL
  BY DEF Init
<1>2. [q \in Procesos |-> Vista(q)] = [q \in Procesos |-> NULL]
  BY <1>1 DEF Vista
<1>3. Inv
  BY InicialCumple
<1>4. ASSUME NEW c \in Bloques PROVE EnEspera(c) = <<>>
  <2>1. EnCola = {}
    BY <1>1 DEF EnCola, ToSet
  <2>2. Actual(c) = NULL /\ BuscarListaPeticiones(c) = NULL
    BY <1>1, <1>3, <2>1, BuscarDe DEF Actual, EnServicio
  <2>3. EnEspera(c) = <<>> \o <<>>
    BY <1>3, <2>2, ListasTipo DEF Lista
  <2>4. <<>> \in Seq(Procesos)
    OBVIOUS
  <2> QED BY <2>3, <2>4, ConcatEmptySeq
<1>5. [c \in Bloques |-> EnEspera(c)] = [c \in Bloques |-> <<>>]
  BY <1>4
<1> QED BY <1>1, <1>2, <1>5 DEF Abstracta!Init, Abstracta!Reposo

LEMMA PasoAbstracto ==
    Inv /\ Inv' /\ [Next]_vars => [Abstracta!Next]_Abstracta!vars
<1> SUFFICES ASSUME Inv, Inv', [Next]_vars PROVE [Abstracta!Next]_Abstracta!vars
  OBVIOUS
<1>1. ASSUME NEW p \in Procesos, NEW b \in Bloques, NEW op \in Operaciones,
             NEW v \in Valores \cup {NULL}, op = "leer" => v = NULL,
             op = "escribir" => v \in Valores, PeticionBloque(p, op, b, v)
      PROVE  Abstracta!Pedir(p, op, b, v)
  <2>1. CASE BuscarListaPeticiones(b) = NULL
    BY <1>1, <2>1, CrearPide
  <2>2. CASE BuscarListaPeticiones(b) # NULL
    BY <1>1, <2>2, UnirseHace, UnirsePide
  <2> QED BY <2>1, <2>2
<1>2. ASSUME NEW p \in Procesos, NEW b \in Bloques, NEW op \in Operaciones,
             NEW v \in Valores \cup {NULL}, op = "escribir" => v \in Valores,
             PeticionFallida(p, op, b, v)
      PROVE  UNCHANGED Abstracta!vars
  BY <1>2, FallidaNoSeVe
<1>3. \A p \in Procesos : Escribe[p] \subseteq Valores
  BY DiscoAssumption
<1>4. ASSUME NEW p \in Procesos, NEW b \in Bloques,
             \/ PeticionBloque(p, "leer", b, NULL)
             \/ \E v \in Escribe[p] : PeticionBloque(p, "escribir", b, v)
      PROVE  Abstracta!Next
  <2>1. \/ Abstracta!Pedir(p, "leer", b, NULL)
        \/ \E v \in Valores : Abstracta!Pedir(p, "escribir", b, v)
    BY <1>1, <1>3, <1>4 DEF Operaciones
  <2> QED BY <2>1 DEF Abstracta!Next
<1>5. ASSUME NEW p \in Procesos, NEW b \in Bloques,
             \/ PeticionFallida(p, "leer", b, NULL)
             \/ \E v \in Escribe[p] : PeticionFallida(p, "escribir", b, v)
      PROVE  UNCHANGED Abstracta!vars
  BY <1>2, <1>3, <1>5 DEF Operaciones
<1>6. ASSUME NEW p \in Procesos, Reanudar(p) PROVE Abstracta!Next
  <2>1. Abstracta!Terminar(p)
    BY <1>6, ReanudarHace, ReanudarTermina
  <2> QED BY <2>1 DEF Abstracta!Next
<1>7. CASE InterrupcionHW
  <2>1. \E b \in Bloques : \E n \in 1 .. Len([c \in Bloques |-> EnEspera(c)][b]) :
           Abstracta!Servir(b, n)
    BY <1>7, HWHace, HWSirve
  <2> QED BY <2>1 DEF Abstracta!Next
<1>8. CASE InterrupcionSW
  BY <1>8, SWHace, RelevoNoSeVe
<1>9. CASE InterrupcionSWFallida
  BY <1>9, SWFallidaHace, RelevoNoSeVe
<1>10. CASE UNCHANGED vars
  <2>1. UNCHANGED <<disco, dma, peticiones, peticionActual, listaPeticiones, pide, fallos>>
    BY <1>10 DEF vars, dispositivo, cola
  <2>2. /\ EnCola' = EnCola /\ \A e \in EnCola : peticiones'[e].numBloque = peticiones[e].numBloque
        /\ \A e : (Abandonada(e)' <=> Abandonada(e)) /\ (Hecha(e)' <=> Hecha(e))
    BY <2>1 DEF EnCola, Abandonada, Usuarios, Hecha
  <2>3. ASSUME NEW q \in Procesos PROVE Vista(q)' = Vista(q)
    BY <2>1, <2>2, VistaIgual
  <2>4. ASSUME NEW c \in Bloques PROVE EnEspera(c)' = EnEspera(c)
    <3>1. BuscarListaPeticiones(c)' = BuscarListaPeticiones(c)
      BY <2>2, BuscarIgual
    <3>2. Actual(c)' = Actual(c)
      BY <2>1, <2>2 DEF Actual, EnServicio
    <3>3. /\ Lista(Actual(c))' = Lista(Actual(c))
          /\ Lista(BuscarListaPeticiones(c))' = Lista(BuscarListaPeticiones(c))
      BY <2>1, <3>1, <3>2 DEF Lista
    <3> QED BY <3>3, ListasTipo, ListasTipoPrimado
  <2> QED BY <2>1, <2>3, <2>4 DEF Abstracta!vars
<1> QED BY <1>4, <1>5, <1>6, <1>7, <1>8, <1>9, <1>10 DEF Next

(* The driver implements the device that serves each request at one moment *)
(* (peticionBloque_disco and its two interrupt handlers): the queue, the   *)
(* requests joined for a block, the one address that several processes     *)
(* hold, transfers that fail to start and interrupts lost are never seen,  *)
(* by any number of processes.                                             *)
THEOREM ImplementaBloquesCumple == Spec => ImplementaBloques
<1>1. Init => Abstracta!Init
  BY InicialAbstracto
<1>2. Inv /\ Inv' /\ [Next]_vars => [Abstracta!Next]_Abstracta!vars
  BY PasoAbstracto
<1> QED BY <1>1, <1>2, InvCumple, PTL DEF Spec, ImplementaBloques, Abstracta!Spec
=============================================================================
