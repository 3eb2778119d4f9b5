------------------------------ MODULE DiscoFS ------------------------------
(***************************************************************************)
(* The file system of the Minikernel: modulo_discoFS.c with the tables of  *)
(* inodes, mounts and descriptors it works on.  One volume, over a device  *)
(* that keeps what BloquesAtomicos promises (module Disco does).  A file   *)
(* has one block.                                                          *)
(*                                                                         *)
(* A process leaves the CPU only to wait for the device, so each action is *)
(* what it does between two waits; what it keeps across a wait is in       *)
(* llamada.  The machine may stop at any moment and start again with what  *)
(* the device has.                                                         *)
(***************************************************************************)
EXTENDS Integers, FiniteSetsExt, SequencesExt

CONSTANTS
    Procesos, Inicial,   \* processes, and the one started by the kernel
    Nombres,             \* names of files
    NumInodos,           \* inodes of the volume
    NumDatos,            \* bound: data blocks; enough for the volume not to fill up
    FS_BLOCK_SIZE,       \* bytes of a block
    Tamanyos,            \* bound: sizes a process asks to read or write
    Direcciones,         \* addresses malloc has for the data of the descriptors
    Basura,              \* what free may leave in the data of a descriptor
    MaxAbiertos,         \* bound: descriptors opened in all
    MaxSincronizar,      \* bound: calls to sincronizarVolumen in all
    MaxApagones,         \* bound: times the machine stops
    NULL

ASSUME DiscoFSAssumption ==
    /\ Inicial \in Procesos
    /\ NumInodos \in Nat \ {0} /\ NumDatos \in Nat \ {0} /\ FS_BLOCK_SIZE \in Nat \ {0}
    /\ Tamanyos \subseteq Nat \ {0} /\ Basura \subseteq Int /\ MaxAbiertos \in Nat /\ MaxSincronizar \in Nat
    /\ MaxApagones \in Nat
    /\ NULL \notin Nombres

(* Layout: superblock, one block of each map, inodes, data.                *)
BloqueSuper == 1
BloqueMapaInodos == 2
BloqueMapaDatos == 3
Inodos == 0 .. NumInodos - 1
BloqueInodo(i) == 4 + i
Datos == 4 + NumInodos .. 3 + NumInodos + NumDatos
Bloques == 1 .. 3 + NumInodos + NumDatos

VARIABLES
    disco, peticion, espera,   \* the device
    montado,       \* the volume is mounted
    inodos,        \* tablaInodos: each inode of the volume in memory, or NULL
    mapaInodos, mapaBloques,   \* the maps in memory: what is in use
    creados,       \* the processes there are
    desc,          \* per process, its descriptor (one at most), or NULL
    reservados,    \* the addresses that malloc has given and free not taken back
    byteSiguiente, \* per address, the byte_siguiente a descriptor reads there
    llamada,       \* per process, its system call, NULL outside
    contenido,     \* history: per inode, the bytes written to its file
    mezclado,      \* history: the inodes two calls have written at once
    compartido,    \* history: two processes have used one descriptor at once
    sinMapa,       \* history: data blocks assigned during a sincronizarVolumen
    apagones, cruzado,  \* histories of the times the machine stopped
    abiertos, sincronizados   \* descriptors opened and synchronisations so far

dispositivo == <<disco, peticion, espera>>
volumen == <<montado, inodos, mapaInodos, mapaBloques>>
procesos == <<creados, desc, reservados, byteSiguiente, llamada>>
historias == <<contenido, mezclado, compartido, sinMapa, apagones, cruzado, abiertos, sincronizados>>
vars == <<dispositivo, volumen, procesos, historias>>

Dev == INSTANCE BloquesAtomicos WITH Valores <- {}

(* An inode and a data block never written.                                *)
InodoVacio == [nombre |-> NULL, tamanyo |-> 0, bloqueDirecto |-> 0]
BloqueVacio == [k \in 1 .. FS_BLOCK_SIZE |-> NULL]

(* What boot and a stop leave of the memory.                               *)
Arrancar ==
    /\ peticion = [p \in Procesos |-> NULL]
    /\ espera = [b \in Bloques |-> <<>>]
    /\ montado = FALSE
    /\ inodos = [i \in Inodos |-> NULL]
    /\ mapaInodos = {} /\ mapaBloques = {}
    /\ creados = {Inicial}
    /\ desc = [p \in Procesos |-> NULL]
    /\ reservados = {} /\ byteSiguiente = [d \in Direcciones |-> NULL]
    /\ llamada = [p \in Procesos |-> NULL]

(* A volume just formatted.                                                *)
Init ==
    /\ Arrancar
    /\ disco = [b \in Bloques |->
                  CASE b \in {BloqueSuper, BloqueMapaInodos, BloqueMapaDatos} -> {}
                    [] b \in Datos -> BloqueVacio
                    [] OTHER -> InodoVacio]
    /\ contenido = [i \in Inodos |-> BloqueVacio]
    /\ mezclado = {}
    /\ compartido = FALSE
    /\ sinMapa = {}
    /\ apagones = 0 /\ cruzado = FALSE /\ abiertos = 0 /\ sincronizados = 0

-----------------------------------------------------------------------------
(* A stop of the machine                                                   *)

EnDisco(i) == disco[BloqueInodo(i)]

(* The inodes on the device with a block that the map there has free.      *)
SinMarcar ==
    {i \in Inodos :
        EnDisco(i).tamanyo > 0 /\ EnDisco(i).bloqueDirecto \notin disco[BloqueMapaDatos]}

(* The device keeps what had been written, and no more.                    *)
Apagon ==
    /\ apagones < MaxApagones
    /\ apagones' = apagones + 1
    /\ cruzado' = (cruzado \/ SinMarcar # {})
    /\ peticion' = [p \in Procesos |-> NULL]
    /\ espera' = [b \in Bloques |-> <<>>]
    /\ montado' = FALSE
    /\ inodos' = [i \in Inodos |-> NULL]
    /\ mapaInodos' = {} /\ mapaBloques' = {}
    /\ creados' = {Inicial}
    /\ desc' = [p \in Procesos |-> NULL]
    /\ reservados' = {} /\ byteSiguiente' = [d \in Direcciones |-> NULL]
    /\ llamada' = [p \in Procesos |-> NULL]
    /\ mezclado' = {} /\ sinMapa' = {}
    /\ UNCHANGED <<disco, contenido, compartido, abiertos, sincronizados>>

-----------------------------------------------------------------------------
(* Processes and descriptors                                               *)

Libre(p) == p \in creados /\ llamada[p] = NULL

(* crearTarea: the child gets a copy of the descriptors, which shares      *)
(* their datosPropiosDescFichero.                                          *)
CrearProceso(p, q) ==
    /\ Libre(p) /\ montado /\ q \notin creados
    /\ creados' = creados \cup {q}
    /\ desc' = [desc EXCEPT ![q] = desc[p]]
    /\ UNCHANGED <<dispositivo, volumen, reservados, byteSiguiente, llamada, historias>>

(* buscarNombreInodo_discoFS.                                              *)
ConNombre(n) == {i \in Inodos : inodos[i] # NULL /\ inodos[i].nombre = n}

(* Mutant: the free inode found is not marked.                             *)
CrearSinMarcar(i, n) ==
    /\ mapaInodos # Inodos /\ i = Min(Inodos \ mapaInodos)
    /\ UNCHANGED mapaInodos
    /\ inodos' = [inodos EXCEPT ![i] = [InodoVacio EXCEPT !.nombre = n]]

(* reservarInodo_discoFS, crearInodo_discoFS, iniciarNuevoInodo_discoFS.   *)
CrearInodo(i, n) ==
    /\ mapaInodos # Inodos /\ i = Min(Inodos \ mapaInodos)
    /\ mapaInodos' = mapaInodos \cup {i}
    /\ inodos' = [inodos EXCEPT ![i] = [InodoVacio EXCEPT !.nombre = n]]

(* abrirFichero, crearDescFichero_discoFS, abrirFichero_discoFS: no wait   *)
(* in between.  A volume with no free inode gives a descriptor of no file, *)
(* which the bound leaves out.                                             *)
Abrir(p, n) ==
    /\ Libre(p) /\ montado /\ desc[p] = NULL /\ abiertos < MaxAbiertos
    /\ abiertos' = abiertos + 1
    /\ \E i \in Inodos :
         /\ IF ConNombre(n) # {}
            THEN i \in ConNombre(n) /\ UNCHANGED <<inodos, mapaInodos>>
            ELSE CrearInodo(i, n)
         /\ \E d \in Direcciones \ reservados :
              /\ reservados' = reservados \cup {d}
              /\ byteSiguiente' = [byteSiguiente EXCEPT ![d] = 0]
              /\ desc' = [desc EXCEPT ![p] = [inodo |-> i, datos |-> d]]
    /\ UNCHANGED <<dispositivo, montado, mapaBloques, creados, llamada,
                   contenido, mezclado, compartido, sinMapa, apagones, cruzado, sincronizados>>

Comparten(p) == {q \in creados \ {p} : desc[q] # NULL /\ desc[q].datos = desc[p].datos}

(* cerrarFichero_discoFS: liberarEntradaTablaDescFicheros frees the data   *)
(* of the descriptor, whoever else has its address and goes on using it.   *)
Liberar(p) ==
    /\ desc[p].datos \in reservados
    /\ reservados' = reservados \ {desc[p].datos}
    /\ \E x \in IF Comparten(p) = {} THEN {NULL} ELSE Basura :
         byteSiguiente' = [byteSiguiente EXCEPT ![desc[p].datos] = x]
    /\ desc' = [desc EXCEPT ![p] = NULL]
    /\ compartido' = (compartido \/ Comparten(p) # {})
    /\ UNCHANGED <<dispositivo, volumen, creados, llamada,
                   contenido, mezclado, sinMapa, apagones, cruzado, abiertos, sincronizados>>

(* Data freed already: the C library stops the program, and the machine    *)
(* with it.                                                                *)
Cerrar(p) ==
    /\ Libre(p) /\ desc[p] # NULL
    /\ \/ Liberar(p)
       \/ desc[p].datos \notin reservados /\ Apagon

-----------------------------------------------------------------------------
(* Reading and writing                                                     *)

Inodo(p) == inodos[desc[p].inodo]
Siguiente(p) == byteSiguiente[desc[p].datos]

(* The size that is left from s to fin.                                    *)
Recortar(n, s, fin) == IF s + n >= fin THEN fin - s ELSE n

UsarDescriptor(p) ==
    compartido' = (compartido \/ \E q \in Comparten(p) : llamada[q] # NULL)

(* mapearBloque_discoFS: a file of size 0 has no block.                    *)
MapearBloque(p) == IF Inodo(p).tamanyo > 0 THEN Inodo(p).bloqueDirecto ELSE NULL

(* leerFichero_discoFS up to its wait.  With nothing to read it returns.   *)
(* A position that free left below 0 asks for block -1 of an empty file,   *)
(* which the device fails: failures are in Disco.                          *)
LeerFichero(p, n) ==
    /\ Libre(p) /\ desc[p] # NULL /\ MapearBloque(p) # NULL
    /\ Inodo(p).tamanyo <= FS_BLOCK_SIZE /\ Siguiente(p) < Inodo(p).tamanyo
    /\ Dev!Pedir(p, "leer", MapearBloque(p), NULL)
    /\ llamada' = [llamada EXCEPT
           ![p] = [fase |-> "leer", n |-> Recortar(n, Siguiente(p), Inodo(p).tamanyo)]]
    /\ UsarDescriptor(p)
    /\ UNCHANGED <<volumen, creados, desc, reservados, byteSiguiente,
                   contenido, mezclado, sinMapa, apagones, cruzado, abiertos, sincronizados>>

(* Its end: copy from the position there is now, and move it.              *)
FinLeer(p) ==
    /\ llamada[p] # NULL /\ llamada[p].fase = "leer"
    /\ Dev!Terminar(p)
    /\ byteSiguiente' = [byteSiguiente EXCEPT ![desc[p].datos] = @ + llamada[p].n]
    /\ llamada' = [llamada EXCEPT ![p] = NULL]
    /\ UNCHANGED <<volumen, creados, desc, reservados, historias>>

(* Mutant: the search of a free block does not mark it.                    *)
ReservarSinMarcar(b) ==
    b = Min(Datos \ mapaBloques) /\ UNCHANGED mapaBloques

(* reservarBloque_discoFS: the first free block.  A full volume is beyond  *)
(* the bound.                                                              *)
ReservarBloque(b) ==
    /\ Datos \ mapaBloques # {}
    /\ b = Min(Datos \ mapaBloques)
    /\ mapaBloques' = mapaBloques \cup {b}

(* Mutant: the file has the size of its block from the moment it gets it.  *)
AsignarConTamanyo(p, b) ==
    /\ ReservarBloque(b)
    /\ inodos' = [inodos EXCEPT ![desc[p].inodo].bloqueDirecto = b,
                                ![desc[p].inodo].tamanyo = FS_BLOCK_SIZE]
    /\ UNCHANGED sinMapa

(* asignarNuevoBloque_discoFS.                                             *)
AsignarNuevoBloque(p, b) ==
    /\ ReservarBloque(b)
    /\ inodos' = [inodos EXCEPT ![desc[p].inodo].bloqueDirecto = b]
    /\ sinMapa' = IF \E q \in creados : llamada[q] # NULL /\ llamada[q].fase = "sincronizar"
                  THEN sinMapa \cup {b} ELSE sinMapa

Escribiendo(i) ==
    {q \in creados : llamada[q] # NULL /\ llamada[q].fase \in {"modificar", "grabar"}
                     /\ desc[q].inodo = i}

(* escribirFichero_discoFS up to its first wait: a file without block gets *)
(* one, and the block is read.  At the end of the block it returns.        *)
EscribirFichero(p, n) ==
    /\ Libre(p) /\ desc[p] # NULL
    /\ Inodo(p).tamanyo <= FS_BLOCK_SIZE /\ Siguiente(p) < FS_BLOCK_SIZE
    /\ \E b \in Datos :
         /\ IF MapearBloque(p) # NULL
            THEN b = MapearBloque(p) /\ UNCHANGED <<mapaBloques, inodos, sinMapa>>
            ELSE AsignarNuevoBloque(p, b)
         /\ Dev!Pedir(p, "leer", b, NULL)
         /\ llamada' = [llamada EXCEPT
                ![p] = [fase |-> "modificar", bloque |-> b,
                        n |-> Recortar(n, Siguiente(p), FS_BLOCK_SIZE)]]
    /\ UsarDescriptor(p)
    /\ mezclado' = IF Escribiendo(desc[p].inodo) # {} THEN mezclado \cup {desc[p].inodo}
                   ELSE mezclado
    /\ UNCHANGED <<montado, mapaInodos, creados, desc, reservados, byteSiguiente,
                   contenido, apagones, cruzado, abiertos, sincronizados>>

(* The bytes of v with n of them, from the position s, written by p.       *)
Poner(v, s, n, p) == [k \in 1 .. FS_BLOCK_SIZE |-> IF k \in s + 1 .. s + n THEN p ELSE v[k]]

(* Mutant: the block is written without what it had.                       *)
ModificarSinLeer(p, v) == Poner(BloqueVacio, Siguiente(p), llamada[p].n, p)

(* The bytes of the process in the block it read.                          *)
Modificar(p, v) == Poner(v, Siguiente(p), llamada[p].n, p)

(* escribirFichero_discoFS between its two waits: change the block and     *)
(* write it.  The device's answer and the next request are one step.       *)
GrabarBloque(p) ==
    /\ llamada[p] # NULL /\ llamada[p].fase = "modificar"
    /\ peticion[p].hecha
    /\ LET v == Modificar(p, peticion[p].valor)
           b == llamada[p].bloque
       IN  /\ peticion' = [peticion EXCEPT
                  ![p] = [op |-> "escribir", bloque |-> b, valor |-> v, hecha |-> FALSE]]
           /\ espera' = [espera EXCEPT ![b] = Append(@, p)]
    /\ llamada' = [llamada EXCEPT ![p] = [fase |-> "grabar", n |-> @.n]]
    /\ contenido' = [contenido EXCEPT
           ![desc[p].inodo] = Poner(@, Siguiente(p), llamada[p].n, p)]
    /\ UNCHANGED <<disco, volumen, creados, desc, reservados, byteSiguiente,
                   mezclado, compartido, sinMapa, apagones, cruzado, abiertos, sincronizados>>

(* The file grows up to the position.                                      *)
AjustarTamanyo(p, s) ==
    inodos' = [inodos EXCEPT ![desc[p].inodo].tamanyo = IF s > @ THEN s ELSE @]

(* Its end: move the position and the size.                                *)
FinEscribir(p) ==
    /\ llamada[p] # NULL /\ llamada[p].fase = "grabar"
    /\ Dev!Terminar(p)
    /\ byteSiguiente' = [byteSiguiente EXCEPT ![desc[p].datos] = @ + llamada[p].n]
    /\ AjustarTamanyo(p, byteSiguiente'[desc[p].datos])
    /\ llamada' = [llamada EXCEPT ![p] = NULL]
    /\ UNCHANGED <<montado, mapaInodos, mapaBloques, creados, desc, reservados, historias>>

-----------------------------------------------------------------------------
(* Synchronising, mounting, stopping                                       *)

(* What is written to block b of the volume when its turn comes.           *)
EnMemoria(b) ==
    CASE b = BloqueSuper -> {}
      [] b = BloqueMapaInodos -> mapaInodos
      [] b = BloqueMapaDatos -> mapaBloques
      [] OTHER -> inodos[b - 4]

(* Mutant: the inodes go first.                                            *)
SiguienteAlReves(b) ==
    LET quedan == {i \in Inodos : BloqueInodo(i) > b /\ inodos[i] # NULL}
    IN  IF b = BloqueMapaDatos THEN 0
        ELSE IF b = BloqueMapaInodos THEN BloqueMapaDatos
        ELSE IF quedan = {} THEN BloqueMapaInodos ELSE BloqueInodo(Min(quedan))

(* Mutant: the last inode is left out.                                     *)
SiguienteSinUltimo(b) ==
    LET quedan == {i \in Inodos : BloqueInodo(i) > b /\ inodos[i] # NULL /\ i + 1 # NumInodos}
    IN  IF b < BloqueMapaDatos THEN b + 1
        ELSE IF quedan = {} THEN 0 ELSE BloqueInodo(Min(quedan))

(* The order of sincronizarVolumen_discoFS: superblock, maps, and the      *)
(* inodes that are then in memory.  The block after b, or 0.               *)
SiguienteBloque(b) ==
    LET quedan == {i \in Inodos : BloqueInodo(i) > b /\ inodos[i] # NULL}
    IN  IF b < BloqueMapaDatos THEN b + 1
        ELSE IF quedan = {} THEN 0 ELSE BloqueInodo(Min(quedan))

Foto == [inodos |-> inodos, mapaInodos |-> mapaInodos, mapaBloques |-> mapaBloques]

(* sincronizarVolumen_discoFS up to its first wait.                        *)
Sincronizar(p) ==
    /\ Libre(p) /\ montado
    /\ sincronizados < MaxSincronizar
    /\ sincronizados' = sincronizados + 1
    /\ Dev!Pedir(p, "escribir", BloqueSuper, EnMemoria(BloqueSuper))
    /\ llamada' = [llamada EXCEPT
           ![p] = [fase |-> "sincronizar", bloque |-> BloqueSuper, foto |-> Foto]]
    /\ UNCHANGED <<volumen, creados, desc, reservados, byteSiguiente,
                   contenido, mezclado, compartido, sinMapa, apagones, cruzado, abiertos>>

(* From one wait to the next.                                              *)
SeguirSincronizar(p) ==
    /\ llamada[p] # NULL /\ llamada[p].fase = "sincronizar"
    /\ peticion[p].hecha
    /\ LET b == SiguienteBloque(llamada[p].bloque)
       IN  /\ b # 0
           /\ peticion' = [peticion EXCEPT
                  ![p] = [op |-> "escribir", bloque |-> b, valor |-> EnMemoria(b), hecha |-> FALSE]]
           /\ espera' = [espera EXCEPT ![b] = Append(@, p)]
           /\ llamada' = [llamada EXCEPT ![p].bloque = b]
    /\ UNCHANGED <<disco, volumen, creados, desc, reservados, byteSiguiente, historias>>

FinSincronizar(p) ==
    /\ llamada[p] # NULL /\ llamada[p].fase = "sincronizar"
    /\ SiguienteBloque(llamada[p].bloque) = 0
    /\ Dev!Terminar(p)
    /\ llamada' = [llamada EXCEPT ![p] = NULL]
    /\ UNCHANGED <<volumen, creados, desc, reservados, byteSiguiente, historias>>

(* montarVolumen_discoFS.  Bound: programs start when it has returned, so  *)
(* nothing happens between its waits and it is one step.                   *)
MontarVolumen ==
    /\ ~montado
    /\ montado' = TRUE
    /\ mapaInodos' = disco[BloqueMapaInodos]
    /\ mapaBloques' = disco[BloqueMapaDatos]
    /\ inodos' = [i \in Inodos |->
                    IF i \in disco[BloqueMapaInodos] THEN disco[BloqueInodo(i)] ELSE NULL]
    /\ contenido' = [i \in Inodos |->
                       IF inodos'[i] # NULL /\ inodos'[i].tamanyo > 0
                       THEN disco[inodos'[i].bloqueDirecto] ELSE BloqueVacio]
    /\ UNCHANGED <<dispositivo, procesos, mezclado, compartido, sinMapa, apagones, cruzado, abiertos, sincronizados>>

Servir ==
    /\ \E b \in Bloques : \E n \in 1 .. Len(espera[b]) : Dev!Servir(b, n)
    /\ UNCHANGED <<volumen, procesos, historias>>

Next ==
    \/ \E p \in Procesos, q \in Procesos : CrearProceso(p, q)
    \/ \E p \in Procesos, n \in Nombres : Abrir(p, n)
    \/ \E p \in Procesos, n \in Tamanyos : LeerFichero(p, n) \/ EscribirFichero(p, n)
    \/ \E p \in Procesos :
         \/ Cerrar(p)
         \/ FinLeer(p)
         \/ GrabarBloque(p)
         \/ FinEscribir(p)
         \/ Sincronizar(p)
         \/ SeguirSincronizar(p)
         \/ FinSincronizar(p)
    \/ MontarVolumen
    \/ Servir
    \/ Apagon

Spec == Init /\ [][Next]_vars

-----------------------------------------------------------------------------
(* Properties                                                              *)

(* The blocks a file has or a call is writing for it.                      *)
BloquesDe(i) ==
    {b \in Datos :
        \/ inodos[i] # NULL /\ inodos[i].tamanyo > 0 /\ b = inodos[i].bloqueDirecto
        \/ \E q \in Escribiendo(i) : llamada[q].fase = "modificar" /\ b = llamada[q].bloque}

InodosPosibles ==
    [nombre : Nombres \cup {NULL}, tamanyo : 0 .. FS_BLOCK_SIZE, bloqueDirecto : Datos \cup {0}]

(* The records there are in memory and in the blocks; NULL is none.        *)
RegistrosInodo ==
    [nombre : Nombres \cup {NULL}, tamanyo : Nat, bloqueDirecto : Datos \cup {0}]
Contenidos == [1 .. FS_BLOCK_SIZE -> Procesos \cup {NULL}]
ValoresBloque == (SUBSET Inodos) \cup (SUBSET Datos) \cup RegistrosInodo \cup Contenidos
Peticiones ==
    [op : {"leer", "escribir"}, bloque : Bloques, valor : ValoresBloque \cup {NULL}, hecha : BOOLEAN]
Descriptores == [inodo : Inodos, datos : Direcciones]
Fotos ==
    [inodos : [Inodos -> RegistrosInodo \cup {NULL}], mapaInodos : SUBSET Inodos,
     mapaBloques : SUBSET Datos]
Llamadas ==
    [fase : {"leer", "grabar"}, n : Nat \ {0}]
        \cup [fase : {"modificar"}, bloque : Datos, n : Nat \ {0}]
        \cup [fase : {"sincronizar"}, bloque : Bloques \ Datos, foto : Fotos]

ASSUME NULLAssumption ==
    NULL \notin Nat \cup RegistrosInodo \cup Peticiones \cup Descriptores \cup Llamadas

(* Types; the map of inodes says which inodes there are in memory, and a   *)
(* descriptor has an inode and data of its own or shared with a relative.  *)
TypeOKFS ==
    /\ mapaInodos = {i \in Inodos : inodos[i] # NULL}
    /\ mapaBloques \subseteq Datos /\ sinMapa \subseteq Datos
    /\ \A i \in mapaInodos : compartido \/ inodos[i] \in InodosPosibles
    /\ \A p \in Procesos : desc[p] # NULL =>
          p \in creados /\ desc[p].inodo \in mapaInodos /\ byteSiguiente[desc[p].datos] \in Int
    /\ \A p \in Procesos : llamada[p] # NULL =>
          /\ p \in creados /\ peticion[p] # NULL
          /\ llamada[p].fase # "sincronizar" => desc[p] # NULL /\ llamada[p].n \in Nat \ {0}

(* No two files have a block in common and every block of a file is in the *)
(* map (reservarBloque_discoFS, asignarNuevoBloque_discoFS), whatever      *)
(* calls wait and after any stop, except one that found on the device an   *)
(* inode whose block was not in its map.                                   *)
BloquesSeparados ==
    ~cruzado => \A i \in Inodos :
        /\ BloquesDe(i) \subseteq mapaBloques
        /\ \A j \in Inodos \ {i} : BloquesDe(i) \cap BloquesDe(j) = {}

(* Read, change and write of a block (lines 223 to 229) with waits in      *)
(* between: what a file has is the bytes written to it, up to its size,    *)
(* once the calls have ended and unless two of them were at it at once.    *)
ContenidoEscrito ==
    ~cruzado => \A i \in Inodos :
        (inodos[i] # NULL /\ i \notin mezclado /\ Escribiendo(i) = {} /\ ~compartido) =>
            \A k \in 1 .. inodos[i].tamanyo :
                disco[inodos[i].bloqueDirecto][k] = contenido[i][k]

(* A size cut before the wait is used after it (lines 162 to 175), while   *)
(* other calls write the file: what a read copies is in the block and has  *)
(* no byte that was not there when the file has had it written, unless two *)
(* calls wrote at once or the descriptor was shared.                       *)
LecturaEscrita ==
    ~cruzado /\ ~compartido => \A p \in Procesos :
        (llamada[p] # NULL /\ llamada[p].fase = "leer" /\ peticion[p].hecha
            /\ desc[p].inodo \notin mezclado) =>
            \A k \in Siguiente(p) + 1 .. Siguiente(p) + llamada[p].n :
                /\ k <= FS_BLOCK_SIZE
                /\ contenido[desc[p].inodo][k] # NULL => peticion[p].valor[k] # NULL

(* The bytes a call copies are in the block (lines 172 and 226).           *)
Desborda(p) ==
    \/ Siguiente(p) < 0
    \/ Siguiente(p) + llamada[p].n > FS_BLOCK_SIZE

CopiaDentro ==
    \A p \in Procesos :
        (llamada[p] # NULL /\ llamada[p].fase \in {"leer", "modificar"} /\ peticion[p].hecha)
            => ~Desborda(p)

(* tablaMontajes.c:190, sincronizarVolumen writes all the changes made up  *)
(* to then: when it ends the device has every block marked and every size  *)
(* there was when it began, even if other calls went on meanwhile.         *)
TodoSincronizado ==
    [][\A p \in Procesos : FinSincronizar(p) =>
         LET f == llamada[p].foto
         IN  /\ f.mapaInodos \subseteq disco[BloqueMapaInodos]
             /\ f.mapaBloques \subseteq disco[BloqueMapaDatos]
             /\ \A i \in Inodos : f.inodos[i] # NULL =>
                  /\ EnDisco(i).nombre = f.inodos[i].nombre
                  /\ EnDisco(i).tamanyo >= f.inodos[i].tamanyo]_vars

(* What a stop would leave, at any moment: an inode on the device has its  *)
(* block in the map on the device, since the maps go before the inodes,    *)
(* unless the block was assigned in the middle of a sincronizarVolumen;    *)
(* and no two inodes there have the same block.                            *)
ApagonSeguro ==
    ~cruzado =>
        /\ \A i \in SinMarcar : EnDisco(i).bloqueDirecto \in sinMapa
        /\ \A i, j \in disco[BloqueMapaInodos] :
             (i # j /\ EnDisco(i).tamanyo > 0 /\ EnDisco(j).tamanyo > 0) =>
                 EnDisco(i).bloqueDirecto # EnDisco(j).bloqueDirecto

(* A file keeps the block it was given (line 215 asks for a new one only   *)
(* if there is none).                                                      *)
BloqueUnico ==
    [][\A i \in Inodos : (inodos[i] # NULL /\ inodos'[i] # NULL /\ inodos[i].bloqueDirecto # 0)
          => inodos'[i].bloqueDirecto = inodos[i].bloqueDirecto]_vars
=============================================================================
