------------------------------ MODULE Parking ------------------------------
(***************************************************************************)
(* The car park of Practica 3 (parking.c): the main thread, the thread     *)
(* that manages the park and one thread per car, with one mutex and two    *)
(* condition variables.                                                    *)
(*                                                                         *)
(* What a thread does while it holds the mutex is one step, except the     *)
(* update of waitingCars, which other threads make without the mutex: its  *)
(* read and its write are two.  A turn of a loop that finds nothing to do  *)
(* and changes nothing is left out.                                        *)
(***************************************************************************)
EXTENDS Integers, FiniteSets, FiniteSetsExt

CONSTANTS
    Coches,          \* bound: the cars the user may enter in all
    Plantas,         \* bound: the floors the user may ask for
    parkingPlaces,
    SizeofPuntero,   \* sizeof(parkingStatus): what the loops over floors run to
    IntsPorPuntero,  \* sizeof(int*) / sizeof(int)
    Ajenos,          \* bound: what memory that is not the array's may have
    NULL

ASSUME ParkingAssumption ==
    /\ Plantas \subseteq Nat \ {0} /\ parkingPlaces \in Nat \ {0}
    /\ SizeofPuntero \in Nat \ {0} /\ IntsPorPuntero \in Nat \ {0}
    /\ Ajenos \subseteq Int /\ Ajenos # {}
    /\ IsFiniteSet(Coches) /\ "main" \notin Coches /\ NULL \notin Coches \cup {"main"}

VARIABLES
    parkingFloors,  \* the argument of the program
    mutex,          \* who holds it between two steps, or NULL
    occupation,
    waitingCars,
    parkingStatus,  \* free places of each floor, and what follows them
    principal,      \* main: "lee", "espera" after reading 0, "fin"
    gestor,         \* parking: "activo", or "duerme" in parkingSleeping
    coche,          \* per car, where its thread is
    leido,          \* per car, the waitingCars it has read to change it
    floor           \* per car, its local floor, or NULL

(* What the threads change.                                                *)
vars == <<mutex, occupation, waitingCars, parkingStatus, principal, gestor, coche, leido, floor>>

maxCars == parkingFloors * parkingPlaces

(* Where a car may be, in the order it goes; "ordena" is in carOrder.      *)
Fases == {"ausente", "creado", "sumando", "fuera", "entrando", "dentro",
          "ordena", "llamado", "aparcado", "acabado"}

(* The array has parkingFloors pointers, not ints.  With fewer floors than *)
(* the loops run to, these may go past it, into memory that is not its own *)
(* and others write; what the program breaks there is not modelled.  With  *)
(* more, the last floors are never looked at.                              *)
Ajenas == {f \in 1 .. SizeofPuntero : f > IntsPorPuntero * parkingFloors}
Visibles == {f \in 1 .. SizeofPuntero : f <= parkingFloors}

(* parkingInit.                                                            *)
Init ==
    /\ parkingFloors \in Plantas
    /\ mutex = NULL
    /\ occupation = 0 /\ waitingCars = 0
    /\ \E sinIniciar \in Ajenos :
         parkingStatus = [f \in 1 .. SizeofPuntero + 1 |->
                            IF f <= SizeofPuntero THEN parkingPlaces ELSE sinIniciar]
    /\ principal = "lee"
    /\ gestor = "activo"
    /\ coche = [c \in Coches |-> "ausente"]
    /\ leido = [c \in Coches |-> NULL]
    /\ floor = [c \in Coches |-> NULL]

Pasa(c, a, b) == coche[c] = a /\ coche' = [coche EXCEPT ![c] = b]

-----------------------------------------------------------------------------
(* main: a car of those the user has typed; a thread of its own.           *)
CrearCoche(c) ==
    /\ principal = "lee" /\ Pasa(c, "ausente", "creado")
    /\ UNCHANGED <<mutex, occupation, waitingCars, parkingStatus, principal, gestor, leido, floor>>

(* main reads a 0.                                                         *)
LeerCero ==
    /\ principal = "lee" /\ principal' = "espera"
    /\ UNCHANGED <<mutex, occupation, waitingCars, parkingStatus, gestor, coche, leido, floor>>

(* Mutant: only the cars outside are looked at.                            *)
SinMirarDentro == waitingCars = 0

(* Nobody in the park and nobody waiting for it.                           *)
ParkingVacio == occupation = 0 /\ waitingCars = 0

(* main leaves its loop with the mutex locked, and the process ends.       *)
Terminar ==
    /\ principal = "espera" /\ mutex = NULL /\ ParkingVacio
    /\ mutex' = "main" /\ principal' = "fin"
    /\ UNCHANGED <<occupation, waitingCars, parkingStatus, gestor, coche, leido, floor>>

-----------------------------------------------------------------------------
(* parking: with nobody in it the thread sleeps.                           *)
GestorDuerme ==
    /\ gestor = "activo" /\ mutex = NULL /\ occupation = 0
    /\ gestor' = "duerme"
    /\ UNCHANGED <<mutex, occupation, waitingCars, parkingStatus, principal, coche, leido, floor>>

(* Mutant: having ordered one to park, the thread sleeps again.            *)
OrdenarYDormir ==
    /\ gestor = "activo" /\ mutex = NULL /\ occupation # 0
    /\ \E c \in Coches : Pasa(c, "ordena", "llamado")
    /\ gestor' = "duerme"
    /\ UNCHANGED <<mutex, occupation, waitingCars, parkingStatus, principal, leido, floor>>

(* parking orders one of the cars that wait in carOrder, if there is one.  *)
Ordenar ==
    /\ gestor = "activo" /\ mutex = NULL /\ occupation # 0
    /\ \E c \in Coches : Pasa(c, "ordena", "llamado")
    /\ UNCHANGED <<mutex, occupation, waitingCars, parkingStatus, principal, gestor, leido, floor>>

(* A wait on a condition variable may end for no reason.                   *)
DespertarSinSenyal ==
    /\ \/ gestor = "duerme" /\ gestor' = "activo" /\ UNCHANGED coche
       \/ (\E c \in Coches : Pasa(c, "ordena", "llamado")) /\ UNCHANGED gestor
    /\ principal # "fin"
    /\ UNCHANGED <<mutex, occupation, waitingCars, parkingStatus, principal, leido, floor>>

-----------------------------------------------------------------------------
(* car: waitingCars++ without the mutex, its read and its write.           *)
LlegarLee(c) ==
    /\ Pasa(c, "creado", "sumando") /\ principal # "fin"
    /\ leido' = [leido EXCEPT ![c] = waitingCars]
    /\ UNCHANGED <<mutex, occupation, waitingCars, parkingStatus, principal, gestor, floor>>

LlegarEscribe(c) ==
    /\ Pasa(c, "sumando", "fuera") /\ principal # "fin"
    /\ waitingCars' = leido[c] + 1
    /\ leido' = [leido EXCEPT ![c] = NULL]
    /\ UNCHANGED <<mutex, occupation, parkingStatus, principal, gestor, floor>>

(* Mutant: the comparison with maxCars lets one more in.                   *)
CabeUnoMas == occupation <= maxCars

HaySitio == occupation < maxCars

(* The car takes the mutex, sees there is room and starts waitingCars--.   *)
EntrarLee(c) ==
    /\ mutex = NULL /\ HaySitio
    /\ Pasa(c, "fuera", "entrando")
    /\ mutex' = c
    /\ leido' = [leido EXCEPT ![c] = waitingCars]
    /\ UNCHANGED <<occupation, waitingCars, parkingStatus, principal, gestor, floor>>

(* It ends it, is counted inside and releases the mutex.                   *)
Entrar(c) ==
    /\ Pasa(c, "entrando", "dentro")
    /\ waitingCars' = leido[c] - 1
    /\ leido' = [leido EXCEPT ![c] = NULL]
    /\ occupation' = occupation + 1
    /\ mutex' = NULL
    /\ UNCHANGED <<parkingStatus, principal, gestor, floor>>

(* After a sleep it wakes the thread of the park and waits for its order.  *)
PedirOrden(c) ==
    /\ mutex = NULL
    /\ Pasa(c, "dentro", "ordena")
    /\ gestor' = "activo"
    /\ UNCHANGED <<mutex, occupation, waitingCars, parkingStatus, principal, leido, floor>>

(* What parkCar finds, with that in the memory of others.                  *)
Visto(ajeno) ==
    [f \in 1 .. SizeofPuntero + 1 |-> IF f \in Ajenas THEN ajeno[f] ELSE parkingStatus[f]]

(* Mutant: the search of a place does not take it.                         *)
parkCarSinOcupar(visto) ==
    LET libres == {f \in 1 .. SizeofPuntero : visto[f] > 0}
    IN  [status |-> visto, planta |-> IF libres = {} THEN SizeofPuntero + 1 ELSE Min(libres)]

(* The first floor with a free place; one past the loop if there is none.  *)
parkCar(visto) ==
    LET libres == {f \in 1 .. SizeofPuntero : visto[f] > 0}
    IN  IF libres = {} THEN [status |-> visto, planta |-> SizeofPuntero + 1]
        ELSE [status |-> [visto EXCEPT ![Min(libres)] = @ - 1], planta |-> Min(libres)]

(* It has the order, or believes so, and the mutex.                        *)
Aparcar(c) ==
    /\ mutex = NULL
    /\ Pasa(c, "llamado", "aparcado")
    /\ \E ajeno \in [Ajenas -> Ajenos] :
         LET hallado == parkCar(Visto(ajeno))
         IN  /\ parkingStatus' = hallado.status
             /\ floor' = [floor EXCEPT ![c] = hallado.planta]
    /\ UNCHANGED <<mutex, occupation, waitingCars, principal, gestor, leido>>

(* removeCar, and the car is out.                                          *)
Salir(c) ==
    /\ mutex = NULL
    /\ Pasa(c, "aparcado", "acabado")
    /\ parkingStatus' = [parkingStatus EXCEPT ![floor[c]] = @ + 1]
    /\ floor' = [floor EXCEPT ![c] = NULL]
    /\ occupation' = occupation - 1
    /\ UNCHANGED <<mutex, waitingCars, principal, gestor, leido>>

(* The steps of a thread.  A thread has one to make at a time.             *)
PasoCoche(c) ==
    \/ LlegarLee(c) \/ LlegarEscribe(c) \/ EntrarLee(c) \/ Entrar(c)
    \/ PedirOrden(c) \/ Aparcar(c) \/ Salir(c)
PasoGestor == GestorDuerme \/ Ordenar

Next ==
    /\ \/ LeerCero \/ Terminar
       \/ PasoGestor \/ DespertarSinSenyal
       \/ \E c \in Coches : CrearCoche(c) \/ PasoCoche(c)
    /\ UNCHANGED parkingFloors

Spec == Init /\ [][Next]_<<parkingFloors, vars>>

(* Every thread runs, and one that wants the mutex, which is free again    *)
(* and again, some day gets it.                                            *)
Justicia ==
    /\ SF_vars(Terminar) /\ SF_vars(PasoGestor)
    /\ \A c \in Coches : SF_vars(PasoCoche(c))

SpecJusta == Spec /\ Justicia

-----------------------------------------------------------------------------
(* Properties                                                              *)

Dentro == {c \in Coches : coche[c] \in {"dentro", "ordena", "llamado", "aparcado"}}
Aparcados(f) == {c \in Coches : coche[c] = "aparcado" /\ floor[c] = f}

(* Types, and who holds the mutex between two steps.                       *)
TypeOKParking ==
    /\ occupation \in 0 .. maxCars /\ waitingCars \in Int
    /\ parkingFloors \in Plantas
    /\ parkingStatus \in [1 .. SizeofPuntero + 1 -> Int]
    /\ \A f \in Visibles : parkingStatus[f] \in Nat
    /\ principal \in {"lee", "espera", "fin"} /\ gestor \in {"activo", "duerme"}
    /\ coche \in [Coches -> Fases]
    /\ leido \in [Coches -> Int \cup {NULL}]
    /\ floor \in [Coches -> 1 .. SizeofPuntero + 1 \cup {NULL}]
    /\ \A c \in Coches : mutex = c <=> coche[c] = "entrando"
    /\ mutex = "main" <=> principal = "fin"

(* occupation is the cars inside, never more than the places: two cars     *)
(* that saw the last one free do not both take it (car, lines 215 to 217). *)
AforoRespetado ==
    occupation = Cardinality(Dentro) /\ occupation <= maxCars

(* parkCar and removeCar: the loop to sizeof(parkingStatus), whatever the  *)
(* floors are, never gives a car one that does not exist, and the free     *)
(* places of a floor it looks at are those its cars leave, in whatever     *)
(* order they come and go or wake with no order.                           *)
PlazasExactas ==
    /\ \A c \in Coches : coche[c] = "aparcado" => floor[c] \in 1 .. parkingFloors
    /\ \A f \in Visibles :
          parkingStatus[f] + Cardinality(Aparcados(f)) = parkingPlaces

(* However wrong waitingCars has become, main does not end with a car      *)
(* inside (lines 100 to 105).                                              *)
NadieDentroAlFinal == principal = "fin" => Dentro = {}

Esperan == {c \in Coches : coche[c] \in {"fuera", "entrando"}}

(* After a 0 main ends some day: the cars all leave, and it sees it, as    *)
(* long as no update of waitingCars (line 211) has been lost.              *)
TerminaTrasCero ==
    principal = "espera" ~> principal = "fin" \/ waitingCars # Cardinality(Esperan)

(* Signals on carOrder are lost when nobody waits for them, and the thread *)
(* of the park sleeps without a car having signalled it: even so, every    *)
(* car that gets in gets out.                                              *)
QuienEntraSale == \A c \in Coches : coche[c] = "dentro" ~> coche[c] = "acabado"

(* Neither a car inside nor main waits for ever.                           *)
NadieSeQueda == QuienEntraSale /\ TerminaTrasCero

(* parking.c:97: after a 0, wait for the vehicles to end entering and      *)
(* leaving.                                                                *)
EsperaATodos ==
    principal = "fin" => \A c \in Coches : coche[c] \in {"ausente", "acabado"}

(* parking.c:168, parkCar looks for a place on the floors one after        *)
(* another: no floor has more cars than places.                            *)
PlazasDeTodas ==
    \A f \in 1 .. parkingFloors : Cardinality(Aparcados(f)) <= parkingPlaces
=============================================================================
