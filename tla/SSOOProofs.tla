------------------------------ MODULE SSOOProofs ------------------------------
(***************************************************************************)
(* Proofs about the two programs of SSOO.  Parking, for any number of      *)
(* cars, floors and places: who is inside, and where.  MiniShell, for any  *)
(* orders, processes, pipes and failures of fork: who holds which end of   *)
(* which pipe, whom a shell waits for, and what may still be running when  *)
(* it goes back to its prompt.                                             *)
(***************************************************************************)
EXTENDS Parking, MiniShell, SecuenciasLemas

-----------------------------------------------------------------------------
(* Parking                                                                 *)

(* What the properties need to be inductive: the value a car has read of   *)
(* waitingCars, the room it saw while it holds the mutex, and its floor.   *)
LocalesCoche ==
    \A c \in Coches :
        /\ coche[c] \in {"sumando", "entrando"} => leido[c] \in Int
        /\ coche[c] = "entrando" => occupation < maxCars
        /\ coche[c] = "aparcado" => floor[c] \in 1 .. SizeofPuntero + 1

Inv ==
    /\ TypeOKParking
    /\ LocalesCoche
    /\ AforoRespetado
    /\ NadieDentroAlFinal

-----------------------------------------------------------------------------
(* Lemmas                                                                  *)

LEMMA PlazasNaturales ==
    ASSUME parkingFloors \in Plantas
    PROVE  /\ parkingFloors \in Nat \ {0} /\ parkingPlaces \in Nat \ {0} /\ maxCars \in Nat
           /\ SizeofPuntero \in Nat \ {0}
           /\ \A f \in Visibles : /\ f \in 1 .. SizeofPuntero /\ f \in 1 .. SizeofPuntero + 1
                                  /\ f \in Int /\ f <= parkingFloors /\ f \notin Ajenas
<1>1. /\ parkingFloors \in Nat \ {0} /\ parkingPlaces \in Nat \ {0}
      /\ SizeofPuntero \in Nat \ {0} /\ IntsPorPuntero \in Nat \ {0}
  BY ParkingAssumption
<1>2. maxCars \in Nat
  BY <1>1 DEF maxCars
<1>3. IntsPorPuntero * parkingFloors >= parkingFloors /\ IntsPorPuntero * parkingFloors \in Nat
  BY <1>1
<1>4. ASSUME NEW f \in Visibles
      PROVE  /\ f \in 1 .. SizeofPuntero /\ f \in 1 .. SizeofPuntero + 1
             /\ f \in Int /\ f <= parkingFloors /\ ~(f > IntsPorPuntero * parkingFloors)
  <2>1. f \in 1 .. SizeofPuntero /\ f <= parkingFloors
    BY DEF Visibles
  <2>2. PICK n \in Nat : n = IntsPorPuntero * parkingFloors /\ n >= parkingFloors
    BY <1>3
  <2> QED BY <1>1, <2>1, <2>2
<1> QED BY <1>1, <1>2, <1>4 DEF Ajenas

(* A step of car c from a to b, and nobody else.                           *)
LEMMA PasaCambia ==
    ASSUME coche \in [Coches -> Fases], NEW c \in Coches, NEW a, NEW b \in Fases, Pasa(c, a, b)
    PROVE  /\ coche' \in [Coches -> Fases]
           /\ coche[c] = a /\ coche'[c] = b
           /\ \A d \in Coches \ {c} : coche'[d] = coche[d]
BY DEF Pasa

Adentro == {"dentro", "ordena", "llamado", "aparcado"}

(* The cars inside before and after that step.                             *)
LEMMA DentroCambia ==
    ASSUME coche \in [Coches -> Fases], NEW c \in Coches, NEW a, NEW b \in Fases, Pasa(c, a, b)
    PROVE  /\ (a \in Adentro <=> b \in Adentro) => Dentro' = Dentro
           /\ a \notin Adentro /\ b \in Adentro => c \notin Dentro /\ Dentro' = Dentro \cup {c}
           /\ a \in Adentro /\ b \notin Adentro => c \in Dentro /\ Dentro' = Dentro \ {c}
<1>1. /\ coche[c] = a /\ coche'[c] = b
      /\ \A d \in Coches \ {c} : coche'[d] = coche[d]
  BY PasaCambia
<1>2. /\ Dentro = {d \in Coches : coche[d] \in Adentro}
      /\ Dentro' = {d \in Coches : coche'[d] \in Adentro}
  BY DEF Dentro, Adentro
<1> QED BY <1>1, <1>2

LEMMA DentroFinito == IsFiniteSet(Dentro) /\ Cardinality(Dentro) \in Nat
<1>1. Dentro \in SUBSET Coches
  BY DEF Dentro
<1> QED BY <1>1, FS_Subset, FS_CardinalityType, ParkingAssumption

(* A set of naturals that is not empty has a least element: that of the    *)
(* smallest of the intervals from 0 to its elements.                       *)
LEMMA MinEsta ==
    ASSUME NEW S \in SUBSET Nat, S # {}
    PROVE  Min(S) \in S /\ \A y \in S : Min(S) <= y
<1> DEFINE T == {0 .. n : n \in S}
<1>1. T \subseteq FiniteSubsetsOf(Nat) /\ T # {}
  <2>1. ASSUME NEW n \in S PROVE 0 .. n \in FiniteSubsetsOf(Nat)
    <3>1. 0 .. n \in SUBSET Nat
      OBVIOUS
    <3>2. IsFiniteSet(0 .. n)
      BY FS_Interval
    <3> QED BY <3>1, <3>2 DEF FiniteSubsetsOf
  <2> QED BY <2>1
<1>2. IsWellFoundedOn(StrictSubsetOrdering(Nat), FiniteSubsetsOf(Nat))
  BY FS_StrictSubsetOrderingWellFounded
<1>3. PICK X \in T : \A Y \in T : ~ (<<Y, X>> \in StrictSubsetOrdering(Nat))
  <2> HIDE DEF T
  <2> QED BY <1>1, <1>2, WFMin
<1>4. PICK x \in S : X = 0 .. x
  BY <1>3
<1>5. ASSUME NEW y \in S PROVE x <= y
  <2>1. 0 .. y \in T /\ 0 .. y \in SUBSET Nat /\ X \in SUBSET Nat
    BY <1>4
  <2>2. ~ (0 .. y \subseteq 0 .. x /\ 0 .. y # 0 .. x)
    BY <1>3, <1>4, <2>1 DEF StrictSubsetOrdering
  <2>3. y < x => 0 .. y \subseteq 0 .. x /\ x \in 0 .. x /\ x \notin 0 .. y
    OBVIOUS
  <2> QED BY <2>2, <2>3
<1> QED BY <1>5 DEF Min

LEMMA VistoEs ==
    ASSUME parkingFloors \in Plantas, parkingStatus \in [1 .. SizeofPuntero + 1 -> Int],
           NEW ajeno \in [Ajenas -> Ajenos]
    PROVE  /\ Visto(ajeno) \in [1 .. SizeofPuntero + 1 -> Int]
           /\ \A f \in Visibles : Visto(ajeno)[f] = parkingStatus[f]
<1>1. \A f \in Ajenas : ajeno[f] \in Int
  BY ParkingAssumption
<1> QED BY <1>1, PlazasNaturales DEF Visto

(* parkCar gives a position of the array or the one after the loop's last, *)
(* and leaves naturals where there were.                                   *)
LEMMA parkCarTipos ==
    ASSUME parkingFloors \in Plantas, NEW v \in [1 .. SizeofPuntero + 1 -> Int],
           \A f \in Visibles : v[f] \in Nat
    PROVE  /\ parkCar(v).status \in [1 .. SizeofPuntero + 1 -> Int]
           /\ parkCar(v).planta \in 1 .. SizeofPuntero + 1
           /\ \A f \in Visibles : parkCar(v).status[f] \in Nat
<1> DEFINE libres == {f \in 1 .. SizeofPuntero : v[f] > 0}
<1>0. SizeofPuntero \in Nat /\ \A f \in Visibles : f \in 1 .. SizeofPuntero + 1
  BY PlazasNaturales
<1>1. CASE libres = {}
  BY <1>0, <1>1 DEF parkCar
<1>2. CASE libres # {}
  <2>1. PICK m \in libres : m = Min(libres)
    <3>1. libres \in SUBSET Nat
      OBVIOUS
    <3> QED BY <1>2, <3>1, MinEsta
  <2>2. m \in 1 .. SizeofPuntero + 1 /\ v[m] \in Int /\ v[m] > 0 /\ v[m] - 1 \in Nat
    BY <1>0, <2>1
  <2>3. parkCar(v) = [status |-> [v EXCEPT ![m] = @ - 1], planta |-> m]
    BY <1>2, <2>1 DEF parkCar
  <2>4. /\ [v EXCEPT ![m] = @ - 1] \in [1 .. SizeofPuntero + 1 -> Int]
        /\ \A f \in Visibles : [v EXCEPT ![m] = @ - 1][f] \in Nat
    BY <1>0, <2>2
  <2> QED BY <2>2, <2>3, <2>4
<1> QED BY <1>1, <1>2

-----------------------------------------------------------------------------
(* The invariant                                                           *)

LEMMA InicioCumple == Init => Inv
<1> SUFFICES ASSUME Init PROVE Inv
  OBVIOUS
<1>0. parkingFloors \in Plantas
  BY DEF Init
<1>1. maxCars \in Nat /\ SizeofPuntero \in Nat /\ parkingPlaces \in Nat
  BY <1>0, PlazasNaturales
<1>2. occupation \in 0 .. maxCars /\ occupation = 0 /\ occupation <= maxCars
  <2>1. occupation = 0
    BY DEF Init
  <2>2. 0 <= maxCars
    BY <1>1
  <2>3. 0 \in 0 .. maxCars
    BY <1>1, <2>2
  <2> QED BY <2>1, <2>2, <2>3
<1>3. /\ parkingStatus \in [1 .. SizeofPuntero + 1 -> Int]
      /\ \A f \in Visibles : parkingStatus[f] \in Nat
  <2>1. PICK x \in Int : parkingStatus = [f \in 1 .. SizeofPuntero + 1 |->
                              IF f <= SizeofPuntero THEN parkingPlaces ELSE x]
    BY ParkingAssumption DEF Init
  <2>2. \A f \in Visibles : f \in 1 .. SizeofPuntero + 1 /\ f <= SizeofPuntero
    BY <1>1 DEF Visibles
  <2> QED BY <1>1, <2>1, <2>2
<1>4. TypeOKParking
  <2>1. /\ coche \in [Coches -> Fases] /\ leido \in [Coches -> Int \cup {NULL}]
        /\ floor \in [Coches -> 1 .. SizeofPuntero + 1 \cup {NULL}]
    BY DEF Init, Fases
  <2>2. waitingCars = 0 /\ principal = "lee" /\ gestor = "activo" /\ mutex = NULL
    BY DEF Init
  <2>3. \A c \in Coches : coche[c] = "ausente"
    BY DEF Init
  <2>4. /\ \A c \in Coches : mutex = c <=> coche[c] = "entrando"
        /\ mutex = "main" <=> principal = "fin"
    BY <2>2, <2>3, ParkingAssumption
  <2>5. waitingCars \in Int
    BY <2>2
  <2> QED BY <1>0, <1>2, <1>3, <2>1, <2>2, <2>4, <2>5 DEF TypeOKParking
<1>5. Dentro = {}
  BY DEF Init, Dentro
<1>6. AforoRespetado
  BY <1>2, <1>5, FS_EmptySet DEF AforoRespetado
<1> QED BY <1>4, <1>5, <1>6 DEF Inv, LocalesCoche, NadieDentroAlFinal, Init

(* A car that moves without getting in or out, and without the mutex.      *)
LEMMA CocheSigue ==
    ASSUME Inv, NEW c \in Coches, NEW a, NEW b \in Fases, Pasa(c, a, b),
           a \in Adentro <=> b \in Adentro, a # "entrando", b # "entrando",
           UNCHANGED <<parkingFloors, mutex, occupation, principal>>
    PROVE  /\ AforoRespetado' /\ NadieDentroAlFinal'
           /\ coche' \in [Coches -> Fases]
           /\ \A d \in Coches : mutex' = d <=> coche'[d] = "entrando"
<1>1. coche \in [Coches -> Fases]
  BY DEF Inv, TypeOKParking
<1>2. Dentro' = Dentro
  BY <1>1, DentroCambia
<1>3. maxCars' = maxCars
  BY DEF maxCars
<1>4. /\ coche' \in [Coches -> Fases]
      /\ coche[c] = a /\ coche'[c] = b
      /\ \A d \in Coches \ {c} : coche'[d] = coche[d]
  BY <1>1, PasaCambia
<1> QED BY <1>2, <1>3, <1>4 DEF Inv, AforoRespetado, NadieDentroAlFinal, TypeOKParking

LEMMA PasoCumple == Inv /\ [Next]_<<parkingFloors, vars>> => Inv'
<1> SUFFICES ASSUME Inv, [Next]_<<parkingFloors, vars>> PROVE Inv'
  OBVIOUS
<1> USE DEF Fases, Adentro
<1>0. /\ parkingFloors \in Plantas /\ parkingFloors' = parkingFloors
      /\ maxCars \in Nat /\ maxCars' = maxCars /\ Visibles' = Visibles
      /\ SizeofPuntero \in Nat /\ "main" \notin Coches /\ NULL \notin Coches /\ NULL # "main"
  <2>1. parkingFloors \in Plantas /\ parkingFloors' = parkingFloors
    BY DEF Inv, TypeOKParking, Next
  <2> QED BY <2>1, PlazasNaturales, ParkingAssumption DEF maxCars, Visibles
<1>1. TypeOKParking /\ LocalesCoche /\ AforoRespetado /\ NadieDentroAlFinal
  BY DEF Inv
<1>t. coche \in [Coches -> Fases]
  BY <1>1 DEF TypeOKParking
<1>2. CASE UNCHANGED vars
  BY <1>0, <1>1, <1>2 DEF vars, Inv, TypeOKParking, LocalesCoche, AforoRespetado, NadieDentroAlFinal,
                    Dentro, maxCars
<1>3. CASE LeerCero
  BY <1>0, <1>1, <1>3 DEF LeerCero, Inv, TypeOKParking, LocalesCoche, AforoRespetado,
                    NadieDentroAlFinal, Dentro, maxCars
<1>4. CASE Terminar
  <2>1. Dentro = {} /\ Dentro' = Dentro
    BY <1>1, <1>4, DentroFinito, FS_EmptySet DEF Terminar, ParkingVacio, AforoRespetado, Dentro
  <2>2. TypeOKParking'
    BY <1>0, <1>1, <1>4 DEF Terminar, TypeOKParking
  <2> QED BY <1>0, <1>1, <1>4, <2>1, <2>2 DEF Terminar, Inv, LocalesCoche, AforoRespetado, NadieDentroAlFinal
<1>5. CASE GestorDuerme
  BY <1>0, <1>1, <1>5 DEF GestorDuerme, Inv, TypeOKParking, LocalesCoche, AforoRespetado,
                    NadieDentroAlFinal, Dentro, maxCars
<1>6. ASSUME NEW c \in Coches, Pasa(c, "ordena", "llamado"), gestor' \in {"activo", "duerme"},
             UNCHANGED <<mutex, occupation, waitingCars, parkingStatus, principal, leido, floor>>
      PROVE  Inv'
  <2>1. /\ AforoRespetado' /\ NadieDentroAlFinal' /\ coche' \in [Coches -> Fases]
        /\ \A d \in Coches : mutex' = d <=> coche'[d] = "entrando"
    BY <1>0, <1>6, CocheSigue
  <2>2. coche'[c] = "llamado" /\ \A d \in Coches \ {c} : coche'[d] = coche[d]
    BY <1>t, <1>6, PasaCambia
  <2>3. TypeOKParking'
    BY <1>0, <1>1, <1>6, <2>1 DEF TypeOKParking
  <2>4. LocalesCoche'
    BY <1>0, <1>1, <1>6, <2>2 DEF LocalesCoche
  <2> QED BY <2>1, <2>3, <2>4 DEF Inv
<1>7. CASE Ordenar
  <2>1. gestor' \in {"activo", "duerme"}
    BY <1>7 DEF Ordenar
  <2> QED BY <1>6, <1>7, <2>1 DEF Ordenar
<1>8. CASE DespertarSinSenyal
  <2>1. CASE \E c \in Coches : Pasa(c, "ordena", "llamado") /\ UNCHANGED gestor
    <3>1. gestor' \in {"activo", "duerme"}
      BY <1>1, <2>1 DEF TypeOKParking
    <3> QED BY <1>6, <1>8, <2>1, <3>1 DEF DespertarSinSenyal
  <2>2. CASE gestor' = "activo" /\ UNCHANGED coche
    BY <1>0, <1>1, <1>8, <2>2 DEF DespertarSinSenyal, Inv, TypeOKParking, LocalesCoche, AforoRespetado,
                            NadieDentroAlFinal, Dentro, maxCars
  <2> QED BY <1>8, <2>1, <2>2 DEF DespertarSinSenyal
<1>9. ASSUME NEW c \in Coches, CrearCoche(c) \/ PasoCoche(c) PROVE Inv'
  <2>1. CASE CrearCoche(c)
    <3>1. Pasa(c, "ausente", "creado")
      BY <2>1 DEF CrearCoche
    <3>2. UNCHANGED <<mutex, occupation, waitingCars, parkingStatus, principal, gestor, leido, floor>>
      BY <2>1 DEF CrearCoche
    <3>3. /\ AforoRespetado' /\ NadieDentroAlFinal' /\ coche' \in [Coches -> Fases]
          /\ \A d \in Coches : mutex' = d <=> coche'[d] = "entrando"
      BY <1>0, <3>1, <3>2, CocheSigue
    <3>4. coche'[c] = "creado" /\ \A d \in Coches \ {c} : coche'[d] = coche[d]
      BY <1>t, <3>1, PasaCambia
    <3>5. TypeOKParking' /\ LocalesCoche'
      BY <1>0, <1>1, <3>2, <3>3, <3>4 DEF TypeOKParking, LocalesCoche
    <3> QED BY <3>3, <3>5 DEF Inv
  <2>2. CASE LlegarLee(c)
    <3>1. Pasa(c, "creado", "sumando")
      BY <2>2 DEF LlegarLee
    <3>2. /\ UNCHANGED <<mutex, occupation, waitingCars, parkingStatus, principal, gestor, floor>>
          /\ leido' = [leido EXCEPT ![c] = waitingCars]
      BY <2>2 DEF LlegarLee
    <3>3. /\ AforoRespetado' /\ NadieDentroAlFinal' /\ coche' \in [Coches -> Fases]
          /\ \A d \in Coches : mutex' = d <=> coche'[d] = "entrando"
      BY <1>0, <3>1, <3>2, CocheSigue
    <3>4. coche'[c] = "sumando" /\ \A d \in Coches \ {c} : coche'[d] = coche[d]
      BY <1>t, <3>1, PasaCambia
    <3>5. TypeOKParking' /\ LocalesCoche'
      BY <1>0, <1>1, <3>2, <3>3, <3>4 DEF TypeOKParking, LocalesCoche
    <3> QED BY <3>3, <3>5 DEF Inv
  <2>3. CASE LlegarEscribe(c)
    <3>1. Pasa(c, "sumando", "fuera")
      BY <2>3 DEF LlegarEscribe
    <3>2. /\ UNCHANGED <<mutex, occupation, parkingStatus, principal, gestor, floor>>
          /\ leido' = [leido EXCEPT ![c] = NULL]
          /\ waitingCars' = leido[c] + 1
      BY <2>3 DEF LlegarEscribe
    <3>3. /\ AforoRespetado' /\ NadieDentroAlFinal' /\ coche' \in [Coches -> Fases]
          /\ \A d \in Coches : mutex' = d <=> coche'[d] = "entrando"
      BY <1>0, <3>1, <3>2, CocheSigue
    <3>4. coche[c] = "sumando" /\ coche'[c] = "fuera" /\ \A d \in Coches \ {c} : coche'[d] = coche[d]
      BY <1>t, <3>1, PasaCambia
    <3>5. waitingCars' \in Int
      BY <1>1, <3>2, <3>4 DEF LocalesCoche
    <3>6. TypeOKParking' /\ LocalesCoche'
      BY <1>0, <1>1, <3>2, <3>3, <3>4, <3>5 DEF TypeOKParking, LocalesCoche
    <3> QED BY <3>3, <3>6 DEF Inv
  <2>4. CASE EntrarLee(c)
    <3>1. /\ Pasa(c, "fuera", "entrando") /\ mutex = NULL /\ mutex' = c /\ occupation < maxCars
          /\ leido' = [leido EXCEPT ![c] = waitingCars]
          /\ UNCHANGED <<occupation, waitingCars, parkingStatus, principal, gestor, floor>>
      BY <2>4 DEF EntrarLee, HaySitio
    <3>2. /\ coche' \in [Coches -> Fases]
          /\ coche'[c] = "entrando" /\ \A d \in Coches \ {c} : coche'[d] = coche[d]
      BY <1>t, <3>1, PasaCambia
    <3>3. Dentro' = Dentro
      BY <1>t, <3>1, DentroCambia
    <3>4. principal # "fin"
      BY <1>0, <1>1, <3>1 DEF TypeOKParking
    <3>5. TypeOKParking'
      BY <1>0, <1>1, <3>1, <3>2, <3>4 DEF TypeOKParking
    <3>6. LocalesCoche'
      BY <1>0, <1>1, <3>1, <3>2 DEF LocalesCoche, TypeOKParking
    <3> QED BY <1>0, <1>1, <3>1, <3>3, <3>5, <3>6 DEF Inv, AforoRespetado, NadieDentroAlFinal
  <2>5. CASE Entrar(c)
    <3>1. /\ Pasa(c, "entrando", "dentro") /\ mutex' = NULL
          /\ leido' = [leido EXCEPT ![c] = NULL]
          /\ waitingCars' = leido[c] - 1 /\ occupation' = occupation + 1
          /\ UNCHANGED <<parkingStatus, principal, gestor, floor>>
      BY <2>5 DEF Entrar
    <3>2. /\ coche' \in [Coches -> Fases]
          /\ coche[c] = "entrando" /\ coche'[c] = "dentro"
          /\ \A d \in Coches \ {c} : coche'[d] = coche[d]
      BY <1>t, <3>1, PasaCambia
    <3>3. Dentro' = Dentro \cup {c} /\ c \notin Dentro
      BY <1>t, <3>1, DentroCambia
    <3>4. occupation < maxCars /\ leido[c] \in Int /\ mutex = c
      BY <1>1, <3>2 DEF LocalesCoche, TypeOKParking
    <3>5. \A d \in Coches : coche'[d] # "entrando"
      BY <1>1, <3>2, <3>4 DEF TypeOKParking
    <3>6. principal # "fin"
      BY <1>0, <1>1, <3>4 DEF TypeOKParking
    <3>a. occupation \in 0 .. maxCars /\ occupation = Cardinality(Dentro)
      BY <1>0, <1>1 DEF AforoRespetado, TypeOKParking
    <3>b. occupation' \in 0 .. maxCars /\ occupation' <= maxCars /\ waitingCars' \in Int
      BY <1>0, <3>1, <3>4, <3>a
    <3>c. occupation' = Cardinality(Dentro')
      BY <3>1, <3>3, <3>a, DentroFinito, FS_AddElement
    <3>7. AforoRespetado'
      BY <1>0, <3>b, <3>c DEF AforoRespetado
    <3>d. /\ leido' \in [Coches -> Int \cup {NULL}]
          /\ \A d \in Coches : mutex' # d
      BY <1>0, <1>1, <3>1 DEF TypeOKParking
    <3>8. TypeOKParking'
      BY <1>0, <1>1, <3>1, <3>2, <3>5, <3>6, <3>b, <3>d DEF TypeOKParking
    <3>9. LocalesCoche'
      BY <1>0, <1>1, <3>1, <3>2, <3>5 DEF LocalesCoche, TypeOKParking
    <3> QED BY <3>1, <3>6, <3>7, <3>8, <3>9 DEF Inv, NadieDentroAlFinal
  <2>6. CASE PedirOrden(c)
    <3>1. /\ Pasa(c, "dentro", "ordena") /\ gestor' = "activo"
          /\ UNCHANGED <<mutex, occupation, waitingCars, parkingStatus, principal, leido, floor>>
      BY <2>6 DEF PedirOrden
    <3>2. /\ AforoRespetado' /\ NadieDentroAlFinal' /\ coche' \in [Coches -> Fases]
          /\ \A d \in Coches : mutex' = d <=> coche'[d] = "entrando"
      BY <1>0, <3>1, CocheSigue
    <3>3. coche'[c] = "ordena" /\ \A d \in Coches \ {c} : coche'[d] = coche[d]
      BY <1>t, <3>1, PasaCambia
    <3>4. TypeOKParking' /\ LocalesCoche'
      BY <1>0, <1>1, <3>1, <3>2, <3>3 DEF TypeOKParking, LocalesCoche
    <3> QED BY <3>2, <3>4 DEF Inv
  <2>7. CASE Aparcar(c)
    <3>1. /\ Pasa(c, "llamado", "aparcado")
          /\ UNCHANGED <<mutex, occupation, waitingCars, principal, gestor, leido>>
      BY <2>7 DEF Aparcar
    <3>a. PICK ajeno \in [Ajenas -> Ajenos] :
             /\ parkingStatus' = parkCar(Visto(ajeno)).status
             /\ floor' = [floor EXCEPT ![c] = parkCar(Visto(ajeno)).planta]
      BY <2>7 DEF Aparcar
    <3>2. /\ AforoRespetado' /\ NadieDentroAlFinal' /\ coche' \in [Coches -> Fases]
          /\ \A d \in Coches : mutex' = d <=> coche'[d] = "entrando"
      BY <1>0, <3>1, CocheSigue
    <3>3. coche'[c] = "aparcado" /\ \A d \in Coches \ {c} : coche'[d] = coche[d]
      BY <1>t, <3>1, PasaCambia
    <3>4. /\ parkingStatus' \in [1 .. SizeofPuntero + 1 -> Int]
          /\ \A f \in Visibles : parkingStatus'[f] \in Nat
          /\ floor' \in [Coches -> 1 .. SizeofPuntero + 1 \cup {NULL}]
          /\ floor'[c] \in 1 .. SizeofPuntero + 1
          /\ \A d \in Coches \ {c} : floor'[d] = floor[d]
      <4>1. /\ Visto(ajeno) \in [1 .. SizeofPuntero + 1 -> Int]
            /\ \A f \in Visibles : Visto(ajeno)[f] \in Nat
        BY <1>0, <1>1, VistoEs DEF TypeOKParking
      <4> QED BY <1>0, <1>1, <3>a, <4>1, parkCarTipos DEF TypeOKParking
    <3>5. TypeOKParking' /\ LocalesCoche'
      BY <1>0, <1>1, <3>1, <3>2, <3>3, <3>4 DEF TypeOKParking, LocalesCoche
    <3> QED BY <3>2, <3>5 DEF Inv
  <2>8. CASE Salir(c)
    <3>1. /\ Pasa(c, "aparcado", "acabado") /\ mutex = NULL
          /\ parkingStatus' = [parkingStatus EXCEPT ![floor[c]] = @ + 1]
          /\ floor' = [floor EXCEPT ![c] = NULL]
          /\ occupation' = occupation - 1
          /\ UNCHANGED <<mutex, waitingCars, principal, gestor, leido>>
      BY <2>8 DEF Salir
    <3>2. /\ coche' \in [Coches -> Fases]
          /\ coche[c] = "aparcado" /\ coche'[c] = "acabado"
          /\ \A d \in Coches \ {c} : coche'[d] = coche[d]
      BY <1>t, <3>1, PasaCambia
    <3>3. Dentro' = Dentro \ {c} /\ c \in Dentro
      BY <1>t, <3>1, DentroCambia
    <3>4. principal # "fin" /\ \A d \in Coches : coche[d] # "entrando"
      BY <1>0, <1>1, <3>1 DEF TypeOKParking
    <3>5. occupation > 0 /\ occupation' = Cardinality(Dentro')
      BY <1>1, <3>1, <3>3, DentroFinito, FS_RemoveElement, FS_EmptySet DEF AforoRespetado
    <3>a. occupation \in 0 .. maxCars
      BY <1>1 DEF TypeOKParking
    <3>b. occupation' \in 0 .. maxCars /\ occupation' <= maxCars
      BY <1>0, <3>1, <3>5, <3>a
    <3>c. /\ floor[c] \in 1 .. SizeofPuntero + 1
          /\ parkingStatus \in [1 .. SizeofPuntero + 1 -> Int]
          /\ \A f \in Visibles : parkingStatus[f] \in Nat /\ f \in 1 .. SizeofPuntero + 1
      BY <1>0, <1>1, <3>2, PlazasNaturales DEF LocalesCoche, TypeOKParking
    <3>6. /\ parkingStatus' \in [1 .. SizeofPuntero + 1 -> Int]
          /\ \A f \in Visibles : parkingStatus'[f] \in Nat
      BY <3>1, <3>c
    <3>d. /\ floor' \in [Coches -> 1 .. SizeofPuntero + 1 \cup {NULL}]
          /\ \A d \in Coches \ {c} : floor'[d] = floor[d]
      BY <1>1, <3>1 DEF TypeOKParking
    <3>e. \A d \in Coches : mutex' # d /\ coche'[d] # "entrando"
      BY <1>0, <3>1, <3>2, <3>4
    <3>7. TypeOKParking'
      BY <1>0, <1>1, <3>1, <3>2, <3>4, <3>6, <3>b, <3>d, <3>e DEF TypeOKParking
    <3>8. LocalesCoche'
      BY <1>0, <1>1, <3>1, <3>2, <3>d, <3>e DEF LocalesCoche
    <3>9. AforoRespetado'
      BY <1>0, <3>5, <3>b DEF AforoRespetado
    <3> QED BY <3>1, <3>4, <3>7, <3>8, <3>9 DEF Inv, NadieDentroAlFinal
  <2> QED BY <1>9, <2>1, <2>2, <2>3, <2>4, <2>5, <2>6, <2>7, <2>8 DEF PasoCoche
<1> QED BY <1>2, <1>3, <1>4, <1>5, <1>7, <1>8, <1>9 DEF Next, PasoGestor

THEOREM InvSiempre == Spec => []Inv
<1>1. Init => Inv
  BY InicioCumple
<1>2. Inv /\ [Next]_<<parkingFloors, vars>> => Inv'
  BY PasoCumple
<1> QED BY <1>1, <1>2, PTL DEF Spec

(* The types of parking.c, and who holds the mutex.                        *)
THEOREM TiposDelParking == Spec => []TypeOKParking
<1>1. Inv => TypeOKParking
  BY DEF Inv
<1> QED BY <1>1, InvSiempre, PTL

(* car, lines 213 to 223: for any number of cars the test of occupation    *)
(* and its update under the mutex keep the park within its places.         *)
THEOREM AforoSiempre == Spec => []AforoRespetado
<1>1. Inv => AforoRespetado
  BY DEF Inv
<1> QED BY <1>1, InvSiempre, PTL

(* main, lines 99 to 105: it never ends with a car inside.                 *)
THEOREM NadieDentro == Spec => []NadieDentroAlFinal
<1>1. Inv => NadieDentroAlFinal
  BY DEF Inv
<1> QED BY <1>1, InvSiempre, PTL

-----------------------------------------------------------------------------
(* The places of each floor                                                *)

LEMMA AparcadosFinitos ==
    \A f : /\ IsFiniteSet(Aparcados(f)) /\ Cardinality(Aparcados(f)) \in Nat
           /\ ExistsBijection(1 .. Cardinality(Aparcados(f)), Aparcados(f))
<1>1. \A f : Aparcados(f) \in SUBSET Coches
  BY DEF Aparcados
<1> QED BY <1>1, FS_Subset, FS_CardinalityType, ParkingAssumption

(* If the loop looks at every floor, a car that is about to park finds one *)
(* that is not full: were they all full, the cars parked would be as many  *)
(* as the places, and this one is inside too.  h numbers the cars parked   *)
(* by floor and place.                                                     *)
LEMMA HayPlaza ==
    ASSUME Inv, PlazasExactas, parkingFloors <= SizeofPuntero, NEW c \in Coches, coche[c] = "llamado"
    PROVE  \E f \in Visibles : parkingStatus[f] > 0
<1> SUFFICES ASSUME \A f \in Visibles : ~(parkingStatus[f] > 0) PROVE FALSE
  OBVIOUS
<1>1. /\ parkingFloors \in Nat \ {0} /\ parkingPlaces \in Nat \ {0} /\ maxCars \in Nat
      /\ SizeofPuntero \in Nat \ {0}
  BY PlazasNaturales DEF Inv, TypeOKParking
<1>2. \A f \in 1 .. parkingFloors : Cardinality(Aparcados(f)) = parkingPlaces
  <2>1. SUFFICES ASSUME NEW f \in 1 .. parkingFloors
                 PROVE  Cardinality(Aparcados(f)) = parkingPlaces
    OBVIOUS
  <2>2. f \in Visibles
    BY <1>1 DEF Visibles
  <2>3. parkingStatus[f] \in Nat
    BY <2>2 DEF Inv, TypeOKParking
  <2>4. parkingStatus[f] = 0
    BY <2>2, <2>3
  <2>5. parkingStatus[f] + Cardinality(Aparcados(f)) = parkingPlaces
    BY <2>2 DEF PlazasExactas
  <2> QED BY <2>4, <2>5, AparcadosFinitos
<1> DEFINE F == 1 .. parkingFloors
           P == 1 .. parkingPlaces
           B == [f \in F |-> CHOOSE b : b \in Bijection(P, Aparcados(f))]
           h == [x \in F \X P |-> B[x[1]][x[2]]]
           T == Dentro \ {c}
<1>3. \A f \in F : B[f] \in Bijection(P, Aparcados(f))
  <2>1. SUFFICES ASSUME NEW f \in F PROVE B[f] \in Bijection(P, Aparcados(f))
    OBVIOUS
  <2>2. ExistsBijection(P, Aparcados(f))
    BY <1>2, AparcadosFinitos
  <2> QED BY <2>2 DEF ExistsBijection
<1>4. \A f \in F, i \in P : B[f][i] \in Aparcados(f)
  BY <1>3 DEF Bijection, Injection
<1>5. \A f \in F : \A i, j \in P : B[f][i] = B[f][j] => i = j
  BY <1>3 DEF Bijection, Injection, IsInjective
<1>6. \A f : Aparcados(f) \subseteq T
  BY DEF Aparcados, Dentro
<1> HIDE DEF B, T
<1>7. h \in Injection(F \X P, T)
  <2>1. h \in [F \X P -> T]
    BY <1>4, <1>6
  <2>2. ASSUME NEW x \in F \X P, NEW y \in F \X P, h[x] = h[y] PROVE x = y
    <3>1. PICK f \in F, i \in P, g \in F, j \in P : x = <<f, i>> /\ y = <<g, j>>
      OBVIOUS
    <3>2. h[x] = B[f][i] /\ h[y] = B[g][j]
      BY <3>1
    <3>3. B[f][i] \in Aparcados(f) /\ B[g][j] \in Aparcados(g)
      BY <1>4
    <3>4. f = g
      BY <2>2, <3>2, <3>3 DEF Aparcados
    <3> QED BY <1>5, <2>2, <3>1, <3>2, <3>4
  <2> HIDE DEF h
  <2> QED BY <2>1, <2>2 DEF Injection, IsInjective
<1>8. IsFiniteSet(T) /\ Cardinality(T) = Cardinality(Dentro) - 1
  <2>1. c \in Dentro
    BY DEF Dentro
  <2> QED BY <2>1, DentroFinito, FS_RemoveElement DEF T
<1>9. Cardinality(F \X P) <= Cardinality(T)
  <2> HIDE DEF h, F, P
  <2> QED BY <1>7, <1>8, FS_Injection
<1>10. Cardinality(F \X P) = maxCars
  <2>1. IsFiniteSet(F) /\ Cardinality(F) = parkingFloors
    BY <1>1, FS_Interval
  <2>2. IsFiniteSet(P) /\ Cardinality(P) = parkingPlaces
    BY <1>1, FS_Interval
  <2> HIDE DEF F, P
  <2>3. Cardinality(F \X P) = Cardinality(F) * Cardinality(P)
    BY <2>1, <2>2, FS_Product
  <2> QED BY <2>1, <2>2, <2>3 DEF maxCars
<1>11. Cardinality(Dentro) <= maxCars /\ Cardinality(Dentro) \in Nat
  BY DentroFinito DEF Inv, AforoRespetado
<1> QED BY <1>1, <1>8, <1>9, <1>10, <1>11

(* So parkCar gives it a floor of the park: one with a place free, or one  *)
(* the loop does not look at.                                              *)
LEMMA parkCarPlanta ==
    ASSUME Inv, PlazasExactas, NEW c \in Coches, coche[c] = "llamado",
           NEW ajeno \in [Ajenas -> Ajenos]
    PROVE  \E g \in 1 .. parkingFloors :
             /\ g = parkCar(Visto(ajeno)).planta
             /\ \A f \in Visibles : parkCar(Visto(ajeno)).status[f] =
                   IF f = g THEN parkingStatus[f] - 1 ELSE parkingStatus[f]
<1>v. PICK v : v = Visto(ajeno)
  OBVIOUS
<1> DEFINE libres == {f \in 1 .. SizeofPuntero : v[f] > 0}
<1>0. parkingFloors \in Plantas /\ parkingStatus \in [1 .. SizeofPuntero + 1 -> Int]
  BY DEF Inv, TypeOKParking
<1>1. /\ parkingFloors \in Nat \ {0} /\ SizeofPuntero \in Nat \ {0}
      /\ \A f \in Visibles : f \in 1 .. SizeofPuntero /\ f \in 1 .. SizeofPuntero + 1 /\ f <= parkingFloors
  BY <1>0, PlazasNaturales
<1>2. /\ v \in [1 .. SizeofPuntero + 1 -> Int]
      /\ \A f \in Visibles : v[f] = parkingStatus[f]
  BY <1>0, <1>v, VistoEs
<1>3. parkingFloors <= SizeofPuntero => \E f \in Visibles : f \in libres
  BY <1>1, <1>2, HayPlaza
<1>4. CASE libres = {}
  <2>1. parkCar(v) = [status |-> v, planta |-> SizeofPuntero + 1]
    BY <1>4 DEF parkCar
  <2>2. SizeofPuntero + 1 \in 1 .. parkingFloors
    BY <1>1, <1>3, <1>4
  <2>3. \A f \in Visibles : f # SizeofPuntero + 1
    BY <1>1
  <2> QED BY <1>2, <1>v, <2>1, <2>2, <2>3
<1>5. CASE libres # {}
  <2>1. libres \in SUBSET Nat
    OBVIOUS
  <2>2. PICK m \in libres : m = Min(libres) /\ \A f \in libres : m <= f
    BY <1>5, <2>1, MinEsta
  <2>3. m \in 1 .. parkingFloors /\ m \in 1 .. SizeofPuntero + 1
    BY <1>1, <1>3, <2>2
  <2>4. parkCar(v) = [status |-> [v EXCEPT ![m] = @ - 1], planta |-> m]
    BY <1>5, <2>2 DEF parkCar
  <2>5. \A f \in Visibles : [v EXCEPT ![m] = @ - 1][f] = IF f = m THEN parkingStatus[f] - 1
                                                         ELSE parkingStatus[f]
    BY <1>1, <1>2, <2>3
  <2> QED BY <1>v, <2>3, <2>4, <2>5
<1> QED BY <1>4, <1>5

LEMMA PlazasInicio == Init => PlazasExactas
<1> SUFFICES ASSUME Init PROVE PlazasExactas
  OBVIOUS
<1>0. parkingFloors \in Plantas
  BY DEF Init
<1>1. \A f : Aparcados(f) = {}
  BY DEF Init, Aparcados
<1>2. \A f \in Visibles : parkingStatus[f] = parkingPlaces
  <2>1. \A f \in Visibles : f \in 1 .. SizeofPuntero + 1 /\ f <= SizeofPuntero
    BY <1>0, PlazasNaturales DEF Visibles
  <2> QED BY <2>1 DEF Init
<1>3. \A c \in Coches : coche[c] # "aparcado"
  BY DEF Init
<1>4. parkingPlaces \in Nat /\ \A f : Cardinality(Aparcados(f)) = 0
  BY <1>0, <1>1, FS_EmptySet, PlazasNaturales
<1>5. \A f \in Visibles : parkingStatus[f] + Cardinality(Aparcados(f)) = parkingPlaces
  BY <1>2, <1>4
<1> QED BY <1>3, <1>5 DEF PlazasExactas

(* A car that moves without parking or leaving its place.                  *)
LEMMA PlazasSiguen ==
    ASSUME Inv, PlazasExactas, NEW c \in Coches, NEW a, NEW b \in Fases, Pasa(c, a, b),
           a # "aparcado", b # "aparcado", UNCHANGED <<parkingFloors, parkingStatus, floor>>
    PROVE  PlazasExactas'
<1>1. /\ coche[c] = a /\ coche'[c] = b
      /\ \A d \in Coches \ {c} : coche'[d] = coche[d]
  BY PasaCambia DEF Inv, TypeOKParking
<1>2. \A f : Aparcados(f)' = Aparcados(f)
  BY <1>1 DEF Aparcados
<1> QED BY <1>1, <1>2 DEF PlazasExactas, Visibles

LEMMA PlazasPaso == Inv /\ PlazasExactas /\ [Next]_<<parkingFloors, vars>> => PlazasExactas'
<1> SUFFICES ASSUME Inv, PlazasExactas, [Next]_<<parkingFloors, vars>> PROVE PlazasExactas'
  OBVIOUS
<1> USE DEF Fases
<1>0. parkingFloors' = parkingFloors /\ Visibles' = Visibles
  BY DEF Next, Visibles
<1>1. ASSUME UNCHANGED <<parkingStatus, coche, floor>> PROVE PlazasExactas'
  BY <1>0, <1>1 DEF PlazasExactas, Aparcados
<1>2. ASSUME NEW c \in Coches, Pasa(c, "ordena", "llamado"), UNCHANGED <<parkingStatus, floor>>
      PROVE  PlazasExactas'
  BY <1>0, <1>2, PlazasSiguen
<1>3. CASE LeerCero \/ Terminar \/ GestorDuerme \/ UNCHANGED vars
  BY <1>1, <1>3 DEF LeerCero, Terminar, GestorDuerme, vars
<1>4. CASE Ordenar \/ DespertarSinSenyal
  BY <1>1, <1>2, <1>4 DEF Ordenar, DespertarSinSenyal
<1>5. ASSUME NEW c \in Coches,
             \/ CrearCoche(c) \/ LlegarLee(c) \/ LlegarEscribe(c) \/ EntrarLee(c)
             \/ Entrar(c) \/ PedirOrden(c)
      PROVE  PlazasExactas'
  <2>1. /\ UNCHANGED <<parkingStatus, floor>>
        /\ \E a, b \in Fases : Pasa(c, a, b) /\ a # "aparcado" /\ b # "aparcado"
    BY <1>5 DEF CrearCoche, LlegarLee, LlegarEscribe, EntrarLee, Entrar, PedirOrden
  <2> QED BY <1>0, <2>1, PlazasSiguen
<1>6. /\ parkingFloors \in Nat \ {0} /\ parkingPlaces \in Nat \ {0} /\ SizeofPuntero \in Nat
      /\ coche \in [Coches -> Fases]
      /\ floor \in [Coches -> 1 .. SizeofPuntero + 1 \cup {NULL}]
      /\ parkingStatus \in [1 .. SizeofPuntero + 1 -> Int]
      /\ \A f \in Visibles : parkingStatus[f] \in Nat /\ f \in 1 .. SizeofPuntero + 1
  BY PlazasNaturales DEF Inv, TypeOKParking
<1>8. ASSUME NEW c \in Coches, Aparcar(c) PROVE PlazasExactas'
  <2>1. Pasa(c, "llamado", "aparcado")
    BY <1>8 DEF Aparcar
  <2>a. PICK ajeno \in [Ajenas -> Ajenos] :
           /\ parkingStatus' = parkCar(Visto(ajeno)).status
           /\ floor' = [floor EXCEPT ![c] = parkCar(Visto(ajeno)).planta]
    BY <1>8 DEF Aparcar
  <2>2. /\ coche[c] = "llamado" /\ coche'[c] = "aparcado"
        /\ \A d \in Coches \ {c} : coche'[d] = coche[d]
    BY <1>6, <2>1, PasaCambia
  <2>3. PICK g \in 1 .. parkingFloors :
           /\ g = parkCar(Visto(ajeno)).planta
           /\ \A f \in Visibles : parkingStatus'[f] = IF f = g THEN parkingStatus[f] - 1
                                                      ELSE parkingStatus[f]
    BY <2>a, <2>2, parkCarPlanta
  <2>4. floor'[c] = g /\ \A d \in Coches \ {c} : floor'[d] = floor[d]
    BY <1>6, <2>a, <2>3
  <2>5. /\ c \notin Aparcados(g) /\ Aparcados(g)' = Aparcados(g) \cup {c}
        /\ \A f : f # g => Aparcados(f)' = Aparcados(f)
    BY <2>2, <2>4 DEF Aparcados
  <2>6. Cardinality(Aparcados(g)') = Cardinality(Aparcados(g)) + 1
    BY <2>5, AparcadosFinitos, FS_AddElement
  <2>7. ASSUME NEW f \in Visibles
        PROVE  parkingStatus'[f] + Cardinality(Aparcados(f)') = parkingPlaces
    <3>1. parkingStatus[f] + Cardinality(Aparcados(f)) = parkingPlaces
      BY DEF PlazasExactas
    <3>2. parkingStatus[f] \in Nat /\ Cardinality(Aparcados(f)) \in Nat
      BY <1>6, AparcadosFinitos
    <3>3. CASE f = g
      BY <2>3, <2>6, <3>1, <3>2, <3>3
    <3>4. CASE f # g
      BY <2>3, <2>5, <3>1, <3>4
    <3> QED BY <3>3, <3>4
  <2> QED BY <1>0, <2>2, <2>4, <2>7 DEF PlazasExactas
<1>9. ASSUME NEW c \in Coches, Salir(c) PROVE PlazasExactas'
  <2>1. /\ Pasa(c, "aparcado", "acabado")
        /\ parkingStatus' = [parkingStatus EXCEPT ![floor[c]] = @ + 1]
        /\ floor' = [floor EXCEPT ![c] = NULL]
    BY <1>9 DEF Salir
  <2>2. /\ coche[c] = "aparcado" /\ coche'[c] = "acabado"
        /\ \A d \in Coches \ {c} : coche'[d] = coche[d]
    BY <1>6, <2>1, PasaCambia
  <2>3. PICK g \in 1 .. parkingFloors : g = floor[c]
    BY <2>2 DEF PlazasExactas
  <2>4. \A d \in Coches \ {c} : floor'[d] = floor[d]
    BY <1>6, <2>1
  <2>5. /\ c \in Aparcados(g) /\ Aparcados(g)' = Aparcados(g) \ {c}
        /\ \A f : f # g => Aparcados(f)' = Aparcados(f)
    BY <2>2, <2>3, <2>4 DEF Aparcados
  <2>6. Cardinality(Aparcados(g)') = Cardinality(Aparcados(g)) - 1
    BY <2>5, AparcadosFinitos, FS_RemoveElement
  <2>7. ASSUME NEW f \in Visibles
        PROVE  parkingStatus'[f] + Cardinality(Aparcados(f)') = parkingPlaces
    <3>1. parkingStatus[f] + Cardinality(Aparcados(f)) = parkingPlaces
      BY DEF PlazasExactas
    <3>2. parkingStatus'[f] = IF f = g THEN parkingStatus[f] + 1 ELSE parkingStatus[f]
      BY <1>6, <2>1, <2>3
    <3>3. parkingStatus[f] \in Nat /\ Cardinality(Aparcados(f)) \in Nat
      BY <1>6, AparcadosFinitos
    <3>4. CASE f = g
      BY <2>6, <3>1, <3>2, <3>3, <3>4
    <3>5. CASE f # g
      BY <2>5, <3>1, <3>2, <3>5
    <3> QED BY <3>4, <3>5
  <2> QED BY <1>0, <2>2, <2>4, <2>7 DEF PlazasExactas
<1> QED BY <1>3, <1>4, <1>5, <1>8, <1>9 DEF Next, PasoGestor, PasoCoche

(* parkCar and removeCar: the loop over floors runs to the size of a       *)
(* pointer, and for any number of floors, fewer or more than that, no car  *)
(* is ever given one that does not exist, and the free places of a floor   *)
(* the loop looks at are what its cars leave.                              *)
THEOREM PlazasSiempre == Spec => []PlazasExactas
<1>1. Init => PlazasExactas
  BY PlazasInicio
<1>2. Inv /\ PlazasExactas /\ [Next]_<<parkingFloors, vars>> => PlazasExactas'
  BY PlazasPaso
<1> QED BY <1>1, <1>2, InvSiempre, PTL DEF Spec

-----------------------------------------------------------------------------
(* MiniShell                                                               *)

-----------------------------------------------------------------------------
(* The inductive invariant                                                 *)

Descriptores == Tuberias \cup {EXTERNO}
Registros ==
    [padre : Procesos \cup {INIT}, fase : FasesShell, orden : Ordenes \cup {SinOrden}, i : 1 .. 3,
     hijo : Procesos \cup {NINGUNO}, fd : [1 .. 2 -> Descriptores], abiertas : SUBSET Tuberias,
     entra : Descriptores, sale : Descriptores, resto : Nat, lee : BOOLEAN, fondo : BOOLEAN]

(* A process in the middle of an order is at one of its commands.          *)
EnOrden(r) ==
    r.fase \in {"lanza", "cierra", "espera", "nuevo"} =>
        r.orden \in Ordenes /\ r.i <= Len(r.orden.progs)

Tipos ==
    /\ proc \in [Procesos -> Registros] /\ \A p \in Procesos : EnOrden(proc[p])
    /\ tubo \in [Tuberias -> 0 .. CAPACIDAD]
    /\ ordenes \in 0 .. MaxOrdenes /\ fallos \in 0 .. MaxFallos

(* The child it has just created is its own and nobody has collected it.   *)
Creado(r) == r.fase \in {"cierra", "espera"}
SuHijo ==
    \A p \in Procesos : Creado(proc[p]) =>
        /\ proc[p].hijo \in Procesos
        /\ proc[proc[p].hijo].padre = p /\ proc[proc[p].hijo].fase # "libre"

(* The pipes an order needs: the one before its command, until it has been *)
(* created and closed, and the one after it, once it has been opened.      *)
Antes(r) == IF r.i > 1 THEN {r.fd[r.i - 1]} ELSE {}
Despues(r) == IF r.i < Len(r.orden.progs) THEN {r.fd[r.i]} ELSE {}
SoloLasSuyas(r) ==
    r.abiertas \subseteq CASE r.fase = "lanza" -> Antes(r)
                           [] r.fase \in {"cierra", "nuevo"} -> Antes(r) \cup Despues(r)
                           [] r.fase = "espera" -> Despues(r)
                           [] OTHER -> {}
Cerrados == fallos = 0 => \A p \in Procesos : SoloLasSuyas(proc[p])

(* A process that runs and was not created in the background is the child  *)
(* its father waits for, or is going to.                                   *)
Delante(r) == r.fase \notin {"libre", "zombi"} /\ ~r.fondo
Esperado ==
    \A p, q \in Procesos : Delante(proc[q]) /\ proc[q].padre = p =>
        Creado(proc[p]) /\ proc[p].hijo = q /\ ~proc[p].orden.bg

InvShell == Tipos /\ SuHijo /\ Cerrados /\ Esperado

-----------------------------------------------------------------------------
(* The records of the processes                                            *)

LEMMA Constantes ==
    /\ SHELL \in Procesos /\ INIT \notin Procesos /\ Procesos \subseteq Nat /\ Tuberias \subseteq Nat
    /\ EXTERNO \notin Tuberias /\ EXTERNO = NINGUNO /\ CAPACIDAD \in Nat \ {0}
    /\ \A o \in Ordenes : /\ o.progs \in Seq(Programas) /\ Len(o.progs) \in 1 .. 3
                          /\ \A k \in 1 .. Len(o.progs) : o.progs[k] \in Programas
                          /\ o.bg \in BOOLEAN
BY MiniShellAssumption DEF SHELL, INIT, Procesos, Tuberias, EXTERNO, NINGUNO

LEMMA SinTuberias == <<NINGUNO, NINGUNO>> \in [1 .. 2 -> Descriptores]
<1>1. NINGUNO \in Descriptores
  BY DEF NINGUNO, EXTERNO, Descriptores
<1> QED BY <1>1

LEMMA LibreBien ==
    Libre \in Registros /\ Libre.fase = "libre" /\ Libre.padre = INIT /\ Libre.abiertas = {}
<1>1. Libre \in Registros
  BY SinTuberias DEF Libre, Registros, FasesShell, Descriptores, NINGUNO, INIT
<1> QED BY <1>1 DEF Libre

LEMMA ZombiBien ==
    ASSUME NEW f \in Procesos \cup {INIT}, NEW r,
           r = [Libre EXCEPT !.fase = "zombi", !.padre = f]
    PROVE  r \in Registros /\ r.fase = "zombi" /\ r.padre = f /\ r.abiertas = {}
BY LibreBien DEF Registros, FasesShell

(* Back to the prompt, with what it holds.                                 *)
LEMMA AlBucleBien ==
    ASSUME NEW r \in Registros
    PROVE  /\ AlBucle(r) \in Registros /\ AlBucle(r).fase = "lee"
           /\ AlBucle(r).padre = r.padre /\ AlBucle(r).fondo = r.fondo
           /\ AlBucle(r).abiertas = r.abiertas
<1>1. PICK v : v = <<NINGUNO, NINGUNO>>
  OBVIOUS
<1>2. AlBucle(r) = [r EXCEPT !.fase = "lee", !.orden = SinOrden, !.i = 1, !.hijo = NINGUNO, !.fd = v]
  BY <1>1 DEF AlBucle
<1>3. v \in [1 .. 2 -> Descriptores]
  BY <1>1, SinTuberias
<1>4. PICK s : s = AlBucle(r)
  OBVIOUS
<1>5. s = [r EXCEPT !.fase = "lee", !.orden = SinOrden, !.i = 1, !.hijo = NINGUNO, !.fd = v]
  BY <1>2, <1>4
<1>6. s.fase = "lee" /\ s.padre = r.padre /\ s.fondo = r.fondo /\ s.abiertas = r.abiertas
  BY <1>5 DEF Registros
<1>7. s = [padre |-> r.padre, fase |-> "lee", orden |-> SinOrden, i |-> 1, hijo |-> NINGUNO,
           fd |-> v, abiertas |-> r.abiertas, entra |-> r.entra, sale |-> r.sale,
           resto |-> r.resto, lee |-> r.lee, fondo |-> r.fondo]
  BY <1>5 DEF Registros
<1>8. s \in Registros
  BY <1>3, <1>7 DEF Registros, FasesShell
<1> QED BY <1>4, <1>6, <1>8

(* A pipe for the next command of an order.                                *)
LEMMA ConTuberiaBien ==
    ASSUME Tipos, NEW p \in Procesos, proc[p].fase = "lanza", HayTuberia(p)
    PROVE  /\ ConTuberia(p) \in Registros /\ ConTuberia(p).fase = "lanza"
           /\ ConTuberia(p).padre = proc[p].padre /\ ConTuberia(p).fondo = proc[p].fondo
           /\ ConTuberia(p).orden = proc[p].orden /\ ConTuberia(p).i = proc[p].i
           /\ SoloLasSuyas(proc[p]) =>
                 ConTuberia(p).abiertas \subseteq Antes(ConTuberia(p)) \cup Despues(ConTuberia(p))
           /\ VaciarNueva(p) => tubo' \in [Tuberias -> 0 .. CAPACIDAD]
<1> DEFINE r == proc[p]  n == Len(r.orden.progs)
<1>1. r \in Registros /\ r.orden \in Ordenes /\ r.i \in 1 .. 3 /\ r.i <= n /\ n \in 1 .. 3
  <2>1. r \in Registros /\ r.orden \in Ordenes /\ r.i <= n
    BY DEF Tipos, EnOrden
  <2> QED BY <2>1, Constantes DEF Registros
<1>2. CASE ~(r.i < n)
  <2>1. ConTuberia(p) = r
    BY <1>2 DEF ConTuberia
  <2>2. VaciarNueva(p) => tubo' = tubo
    BY <1>2 DEF VaciarNueva
  <2> QED BY <1>1, <2>1, <2>2 DEF Tipos, SoloLasSuyas
<1>3. CASE r.i < n
  <2>1. Min(TuberiasLibres) \in TuberiasLibres
    <3>1. TuberiasLibres # {} /\ TuberiasLibres \in SUBSET Nat
      BY <1>3, Constantes DEF HayTuberia, TuberiasLibres
    <3> QED BY <3>1, MinimoDe
  <2>2. PICK t \in Tuberias : t = Min(TuberiasLibres)
    BY <2>1 DEF TuberiasLibres
  <2>3. ConTuberia(p) = [r EXCEPT !.fd[r.i] = t, !.abiertas = r.abiertas \cup {t}]
    BY <1>3, <2>2 DEF ConTuberia
  <2>4. VaciarNueva(p) => tubo' = [tubo EXCEPT ![t] = 0]
    BY <1>3, <2>2 DEF VaciarNueva
  <2> HIDE DEF r, n
  <2>5. r.i \in 1 .. 2
    BY <1>1, <1>3
  <2>6. PICK s : s = [r EXCEPT !.fd[r.i] = t, !.abiertas = r.abiertas \cup {t}]
    OBVIOUS
  <2>7. /\ s \in Registros /\ s.fase = r.fase /\ s.padre = r.padre /\ s.fondo = r.fondo
        /\ s.orden = r.orden /\ s.i = r.i /\ s.abiertas = r.abiertas \cup {t}
        /\ s.fd = [r.fd EXCEPT ![r.i] = t]
    BY <1>1, <2>5, <2>6 DEF Registros, Descriptores
  <2>8. s.fd[r.i] = t /\ (r.i > 1 => s.fd[r.i - 1] = r.fd[r.i - 1])
    BY <1>1, <2>5, <2>7 DEF Registros
  <2>9. Antes(s) = Antes(r) /\ Despues(s) = {t}
    BY <1>1, <1>3, <2>7, <2>8 DEF Antes, Despues, n
  <2>10. VaciarNueva(p) => tubo' \in [Tuberias -> 0 .. CAPACIDAD]
    BY <2>4, Constantes DEF Tipos
  <2>11. SoloLasSuyas(r) => r.abiertas \subseteq Antes(r)
    BY DEF SoloLasSuyas, r
  <2> QED BY <2>3, <2>6, <2>7, <2>9, <2>10, <2>11 DEF r
<1> QED BY <1>2, <1>3

(* Fields that a step changes in a record.                                 *)
LEMMA CambiarFase ==
    ASSUME NEW r \in Registros, NEW f \in FasesShell, NEW s, s = [r EXCEPT !.fase = f]
    PROVE  /\ s \in Registros /\ s.fase = f
           /\ s.padre = r.padre /\ s.fondo = r.fondo /\ s.hijo = r.hijo /\ s.orden = r.orden
           /\ s.i = r.i /\ s.fd = r.fd /\ s.abiertas = r.abiertas
BY DEF Registros

-----------------------------------------------------------------------------
(* The steps                                                               *)

(* A step that changes one process, which is still there: what it launched *)
(* in the foreground is what it waits for.                                 *)
LEMMA UnoCambia ==
    ASSUME InvShell, NEW p \in Procesos, NEW s \in Registros, EnOrden(s),
           proc' = [proc EXCEPT ![p] = s], tubo' \in [Tuberias -> 0 .. CAPACIDAD],
           ordenes' \in 0 .. MaxOrdenes, fallos' \in 0 .. MaxFallos,
           fallos' = 0 => fallos = 0 /\ SoloLasSuyas(s),
           s.padre = proc[p].padre, s.fondo = proc[p].fondo,
           proc[p].fase \notin {"libre", "zombi"}, s.fase # "libre",
           Creado(s) => Creado(proc[p]) /\ s.hijo = proc[p].hijo,
           \A q \in Procesos : Delante(proc[q]) /\ proc[q].padre = p =>
              Creado(s) /\ s.hijo = q /\ ~s.orden.bg
    PROVE  InvShell'
<1>1. /\ proc' \in [Procesos -> Registros] /\ proc'[p] = s
      /\ \A q \in Procesos \ {p} : proc'[q] = proc[q]
  BY DEF InvShell, Tipos
<1>2. Tipos'
  BY <1>1 DEF InvShell, Tipos, EnOrden
<1>3. \A q \in Procesos : /\ proc'[q].padre = proc[q].padre
                          /\ proc'[q].fase = "libre" => proc[q].fase = "libre"
                          /\ Delante(proc'[q]) => Delante(proc[q])
                          /\ Creado(proc'[q]) => Creado(proc[q]) /\ proc'[q].hijo = proc[q].hijo
  BY <1>1 DEF Delante
<1>4. SuHijo'
  BY <1>3 DEF InvShell, SuHijo
<1>5. Cerrados'
  BY <1>1 DEF InvShell, Cerrados
<1>6. Esperado'
  BY <1>1, <1>3 DEF InvShell, Esperado
<1> QED BY <1>2, <1>4, <1>5, <1>6 DEF InvShell

(* The record of a process, and the order it is at.                        *)
LEMMA Registro ==
    ASSUME InvShell, NEW p \in Procesos
    PROVE  /\ proc[p] \in Registros /\ EnOrden(proc[p]) /\ (fallos = 0 => SoloLasSuyas(proc[p]))
           /\ ~Creado(proc[p]) => \A q \in Procesos : ~(Delante(proc[q]) /\ proc[q].padre = p)
BY DEF InvShell, Tipos, Cerrados, Esperado

(* A line taken from the input of a shell.                                 *)
LEMMA PasoLeerLinea ==
    ASSUME InvShell, NEW p \in Procesos, LeerLinea(p)
    PROVE  tubo' \in [Tuberias -> 0 .. CAPACIDAD]
<1>1. CASE proc[p].entra = EXTERNO
  BY <1>1 DEF LeerLinea, InvShell, Tipos
<1>2. CASE proc[p].entra # EXTERNO
  <2>1. PICK t \in Tuberias : t = proc[p].entra
    BY <1>2, Registro DEF Registros, Descriptores
  <2>2. /\ tubo[t] > 0 /\ tubo' = [tubo EXCEPT ![t] = tubo[t] - 1]
        /\ tubo \in [Tuberias -> 0 .. CAPACIDAD]
    BY <1>2, <2>1 DEF LeerLinea, InvShell, Tipos
  <2>3. tubo[t] - 1 \in 0 .. CAPACIDAD
    BY <2>2, Constantes
  <2> QED BY <2>2, <2>3
<1> QED BY <1>1, <1>2

LEMMA PasoLeerOrden ==
    ASSUME InvShell, NEW p \in Procesos, LeerOrden(p)
    PROVE  InvShell'
<1>1. PICK o \in Ordenes : proc' = [proc EXCEPT ![p].fase = "lanza", ![p].orden = o, ![p].i = 1]
  BY DEF LeerOrden
<1>2. PICK r : r = proc[p]
  OBVIOUS
<1>3. PICK s : s = [r EXCEPT !.fase = "lanza", !.orden = o, !.i = 1]
  OBVIOUS
<1>4. /\ proc[p].fase = "lee" /\ r \in Registros /\ proc \in [Procesos -> Registros]
      /\ fallos = 0 => r.abiertas = {}
  BY <1>2, Registro DEF LeerOrden, LeerLinea, SoloLasSuyas, InvShell, Tipos
<1>5. proc' = [proc EXCEPT ![p] = s]
  BY <1>1, <1>2, <1>3, <1>4
<1>6. /\ s.fase = "lanza" /\ s.orden = o /\ s.i = 1 /\ s.padre = r.padre /\ s.fondo = r.fondo
      /\ s.abiertas = r.abiertas
  BY <1>3, <1>4 DEF Registros
<1>7. s \in Registros
  <2>1. s = [padre |-> r.padre, fase |-> "lanza", orden |-> o, i |-> 1, hijo |-> r.hijo,
             fd |-> r.fd, abiertas |-> r.abiertas, entra |-> r.entra, sale |-> r.sale,
             resto |-> r.resto, lee |-> r.lee, fondo |-> r.fondo]
    BY <1>3, <1>4 DEF Registros
  <2> QED BY <1>4, <2>1 DEF Registros, FasesShell
<1>8. EnOrden(s) /\ (fallos = 0 => SoloLasSuyas(s))
  <2>1. o \in Ordenes /\ 1 <= Len(o.progs)
    <3> DEFINE n == Len(o.progs)
    <3>1. n \in 1 .. 3
      BY Constantes
    <3> HIDE DEF n
    <3>2. 1 <= n
      BY <3>1
    <3> QED BY <3>2 DEF n
  <2>2. fallos = 0 => s.abiertas = {}
    BY <1>4, <1>6
  <2>3. EnOrden(s)
    BY <1>6, <2>1 DEF EnOrden
  <2> QED BY <2>2, <2>3 DEF SoloLasSuyas
<1>9. /\ tubo' \in [Tuberias -> 0 .. CAPACIDAD] /\ ordenes' \in 0 .. MaxOrdenes
      /\ fallos' = fallos /\ fallos \in 0 .. MaxFallos
  BY PasoLeerLinea, MiniShellAssumption DEF LeerOrden, InvShell, Tipos
<1>10. \A q \in Procesos : ~(Delante(proc[q]) /\ proc[q].padre = p)
  BY <1>4, Registro DEF Creado
<1> QED BY <1>2, <1>4, <1>5, <1>6, <1>7, <1>8, <1>9, <1>10, UnoCambia DEF Creado

LEMMA PasoLanzarFalla ==
    ASSUME InvShell, NEW p \in Procesos, LanzarFalla(p)
    PROVE  InvShell'
<1>1. PICK s : s = AlBucle(ConTuberia(p))
  OBVIOUS
<1>2. /\ proc[p].fase = "lanza" /\ HayTuberia(p) /\ VaciarNueva(p)
      /\ proc' = [proc EXCEPT ![p] = s]
      /\ fallos < MaxFallos /\ fallos' = fallos + 1 /\ ordenes' = ordenes
  BY <1>1 DEF LanzarFalla
<1>3. /\ s \in Registros /\ s.fase = "lee" /\ s.padre = proc[p].padre /\ s.fondo = proc[p].fondo
      /\ tubo' \in [Tuberias -> 0 .. CAPACIDAD]
  BY <1>1, <1>2, ConTuberiaBien, AlBucleBien DEF InvShell
<1>4. fallos' \in 0 .. MaxFallos /\ fallos' # 0 /\ ordenes' \in 0 .. MaxOrdenes
  BY <1>2, MiniShellAssumption DEF InvShell, Tipos
<1>5. \A q \in Procesos : ~(Delante(proc[q]) /\ proc[q].padre = p)
  BY <1>2, Registro DEF Creado
<1> QED BY <1>2, <1>3, <1>4, <1>5, UnoCambia DEF Creado, EnOrden

(* What follows when the child of a command needs no more waiting for.     *)
LEMMA SiguienteBien ==
    ASSUME NEW r \in Registros, EnOrden(r), r.fase \in {"cierra", "espera"}, NEW s, s = Siguiente(r)
    PROVE  /\ s \in Registros /\ EnOrden(s) /\ s.fase \in {"lanza", "lee"}
           /\ s.padre = r.padre /\ s.fondo = r.fondo
           /\ r.abiertas \subseteq Despues(r) => SoloLasSuyas(s)
<1> DEFINE n == Len(r.orden.progs)
<1>1. r.orden \in Ordenes /\ r.i \in 1 .. 3 /\ r.i <= n /\ n \in 1 .. 3
  <2>1. r.orden \in Ordenes /\ r.i <= n
    BY DEF EnOrden
  <2> QED BY <2>1, Constantes DEF Registros
<1>2. CASE r.i < n
  <2>1. s = [r EXCEPT !.fase = "lanza", !.i = r.i + 1]
    BY <1>2 DEF Siguiente
  <2>2. /\ s.fase = "lanza" /\ s.i = r.i + 1 /\ s.padre = r.padre /\ s.fondo = r.fondo
        /\ s.orden = r.orden /\ s.abiertas = r.abiertas /\ s.fd = r.fd
    BY <2>1 DEF Registros
  <2> HIDE DEF n
  <2>3. r.i + 1 \in 1 .. 3 /\ r.i + 1 <= n /\ r.i + 1 > 1 /\ (r.i + 1) - 1 = r.i
    BY <1>1, <1>2
  <2>4. s \in Registros
    BY <2>1, <2>3 DEF Registros, FasesShell
  <2>5. EnOrden(s)
    BY <1>1, <2>2, <2>3 DEF EnOrden, n
  <2>6. Antes(s) = {r.fd[r.i]} /\ Despues(r) = {r.fd[r.i]}
    BY <1>2, <2>2, <2>3 DEF Antes, Despues, n
  <2> QED BY <2>2, <2>4, <2>5, <2>6 DEF SoloLasSuyas
<1>3. CASE ~(r.i < n)
  <2>1. s = AlBucle(r) /\ Despues(r) = {}
    BY <1>3 DEF Siguiente, Despues
  <2> QED BY <2>1, AlBucleBien DEF EnOrden, SoloLasSuyas
<1> QED BY <1>2, <1>3

LEMMA PasoCerrar ==
    ASSUME InvShell, NEW p \in Procesos, Cerrar(p)
    PROVE  InvShell'
<1>1. PICK r : r = [proc[p] EXCEPT !.abiertas = proc[p].abiertas \ CierraPadre(proc[p])]
  OBVIOUS
<1>2. PICK s : s = IF r.orden.bg THEN Siguiente(r) ELSE [r EXCEPT !.fase = "espera"]
  OBVIOUS
<1>3. /\ proc[p].fase = "cierra" /\ proc' = [proc EXCEPT ![p] = s]
      /\ UNCHANGED <<tubo, ordenes, fallos>>
  BY <1>1, <1>2 DEF Cerrar
<1>4. proc[p] \in Registros /\ EnOrden(proc[p]) /\ (fallos = 0 => SoloLasSuyas(proc[p]))
  BY Registro
<1>5. /\ r \in Registros /\ r.fase = "cierra" /\ r.padre = proc[p].padre /\ r.fondo = proc[p].fondo
      /\ r.hijo = proc[p].hijo /\ r.orden = proc[p].orden /\ r.i = proc[p].i /\ r.fd = proc[p].fd
      /\ r.abiertas = proc[p].abiertas \ CierraPadre(proc[p])
  BY <1>1, <1>3, <1>4 DEF Registros
<1>6. EnOrden(r) /\ r.orden \in Ordenes /\ r.i \in 1 .. 3
  BY <1>3, <1>4, <1>5 DEF EnOrden, Registros
<1>7. fallos = 0 => r.abiertas \subseteq Despues(r)
  <2>1. fallos = 0 => proc[p].abiertas \subseteq Antes(r) \cup Despues(r)
    BY <1>3, <1>4, <1>5 DEF SoloLasSuyas, Antes, Despues
  <2>2. Antes(r) \subseteq CierraPadre(proc[p])
    <3>1. r.i \in {1, 2, 3}
      BY <1>6
    <3> QED BY <1>5, <3>1 DEF Antes, CierraPadre
  <2> QED BY <1>5, <2>1, <2>2
<1>8. /\ s \in Registros /\ EnOrden(s) /\ s.padre = r.padre /\ s.fondo = r.fondo
      /\ fallos = 0 => SoloLasSuyas(s)
      /\ r.orden.bg => s.fase \in {"lanza", "lee"}
      /\ ~r.orden.bg => s.fase = "espera" /\ s.hijo = r.hijo /\ s.orden = r.orden
  <2>1. CASE r.orden.bg
    BY <1>2, <1>5, <1>6, <1>7, <2>1, SiguienteBien
  <2>2. CASE ~r.orden.bg
    <3>1. /\ s \in Registros /\ s.fase = "espera" /\ s.padre = r.padre /\ s.fondo = r.fondo
          /\ s.hijo = r.hijo /\ s.orden = r.orden /\ s.i = r.i /\ s.fd = r.fd
          /\ s.abiertas = r.abiertas
      BY <1>2, <1>5, <2>2, CambiarFase DEF FasesShell
    <3>2. EnOrden(s) /\ Despues(s) = Despues(r)
      BY <1>5, <1>6, <3>1 DEF EnOrden, Despues
    <3> QED BY <1>7, <2>2, <3>1, <3>2 DEF SoloLasSuyas
  <2> QED BY <2>1, <2>2
<1>9. \A q \in Procesos : Delante(proc[q]) /\ proc[q].padre = p =>
         proc[p].hijo = q /\ ~proc[p].orden.bg
  BY DEF InvShell, Esperado
<1> QED BY <1>3, <1>5, <1>8, <1>9, UnoCambia DEF Creado, InvShell, Tipos

(* The child: its input, its output, and the ends it closes, which are all *)
(* those it got from its father.                                           *)
LEMMA CierraTodo ==
    ASSUME NEW r \in Registros, r.fase = "nuevo", EnOrden(r), SoloLasSuyas(r)
    PROVE  r.abiertas \ CierraHijo(r) = {}
<1>1. r.orden \in Ordenes /\ r.i \in {1, 2, 3} /\ r.i <= Len(r.orden.progs)
  BY DEF EnOrden, Registros
<1>2. Len(r.orden.progs) \in 1 .. 3
  BY <1>1, Constantes
<1>3. r.abiertas \subseteq Antes(r) \cup Despues(r)
  BY DEF SoloLasSuyas
<1>4. CASE r.i = 1
  <2>1. Antes(r) = {} /\ Despues(r) \subseteq {r.fd[1]} /\ CierraHijo(r) = {r.fd[1]}
    BY <1>4 DEF Antes, Despues, CierraHijo
  <2> QED BY <1>3, <2>1
<1>5. CASE r.i = 2
  <2>1. Antes(r) = {r.fd[1]} /\ Despues(r) \subseteq {r.fd[2]} /\ CierraHijo(r) = {r.fd[1], r.fd[2]}
    BY <1>5 DEF Antes, Despues, CierraHijo
  <2> QED BY <1>3, <2>1
<1>6. CASE r.i = 3
  <2>1. Antes(r) = {r.fd[2]} /\ Despues(r) = {} /\ CierraHijo(r) = {r.fd[2]}
    <3> DEFINE n == Len(r.orden.progs)
    <3>1. n \in 1 .. 3
      BY <1>2
    <3> HIDE DEF n
    <3>2. ~(3 < n)
      BY <3>1
    <3> QED BY <1>6, <3>2 DEF Antes, Despues, CierraHijo, n
  <2> QED BY <1>3, <2>1
<1> QED BY <1>1, <1>4, <1>5, <1>6

LEMMA PasoPreparar ==
    ASSUME InvShell, NEW p \in Procesos, Preparar(p)
    PROVE  InvShell'
<1> DEFINE r == proc[p]
           n == Len(r.orden.progs)
           prog == r.orden.progs[r.i]
           e == IF r.i > 1 THEN r.fd[r.i - 1] ELSE r.entra
           x == IF r.i < n THEN r.fd[r.i] ELSE r.sale
           h(entra, sale) == [AlBucle(r) EXCEPT !.entra = entra, !.sale = sale,
                                                !.abiertas = @ \ CierraHijo(r)]
<1>1. r.fase = "nuevo" /\ UNCHANGED <<tubo, ordenes, fallos>>
  BY DEF Preparar
<1>2. PICK entra \in Redirigido(e, r.i = n /\ r.orden.desde),
           sale \in Redirigido(x, r.i = n /\ r.orden.hacia) :
         proc' = [proc EXCEPT ![p] =
                    IF prog.existe
                    THEN [h(entra, sale) EXCEPT !.fase = "corre", !.resto = prog.emite, !.lee = prog.lee]
                    ELSE h(entra, sale)]
  BY DEF Preparar
<1>3. /\ r \in Registros /\ EnOrden(r) /\ (fallos = 0 => SoloLasSuyas(r))
      /\ \A q \in Procesos : ~(Delante(proc[q]) /\ proc[q].padre = p)
  BY <1>1, Registro DEF Creado
<1>4. /\ r.orden \in Ordenes /\ r.i \in 1 .. 3 /\ r.i <= n /\ n \in 1 .. 3
      /\ prog \in Programas
  <2>1. r.orden \in Ordenes /\ r.i \in 1 .. 3 /\ r.i <= n
    BY <1>1, <1>3 DEF EnOrden, Registros
  <2>2. n \in 1 .. 3 /\ \A k \in 1 .. n : r.orden.progs[k] \in Programas
    BY <2>1, Constantes
  <2> HIDE DEF r, n
  <2>3. r.i \in 1 .. n
    BY <2>1, <2>2
  <2> QED BY <2>1, <2>2, <2>3
<1>5. entra \in Descriptores /\ sale \in Descriptores
  <2>1. r.fd \in [1 .. 2 -> Descriptores] /\ r.entra \in Descriptores /\ r.sale \in Descriptores
    BY <1>3 DEF Registros
  <2> HIDE DEF r, n
  <2>2. /\ r.i > 1 => r.i - 1 \in 1 .. 2
        /\ r.i < n => r.i \in 1 .. 2
    BY <1>4
  <2>3. e \in Descriptores /\ x \in Descriptores
    BY <2>1, <2>2
  <2>4. EXTERNO \in Descriptores
    BY DEF Descriptores
  <2> QED BY <1>2, <2>3, <2>4 DEF Redirigido
<1>6. PICK a : a = AlBucle(r)
  OBVIOUS
<1>7. /\ a \in Registros /\ a.fase = "lee" /\ a.padre = r.padre /\ a.fondo = r.fondo
      /\ a.abiertas = r.abiertas
  BY <1>3, <1>6, AlBucleBien
<1>8. PICK c : c = a.abiertas \ CierraHijo(r)
  OBVIOUS
<1>9. PICK s : s = h(entra, sale)
  OBVIOUS
<1>10. s = [a EXCEPT !.entra = entra, !.sale = sale, !.abiertas = c]
  BY <1>6, <1>8, <1>9
<1> HIDE DEF r, n, e, x, h
<1>11. /\ s \in Registros /\ s.fase = "lee" /\ s.padre = r.padre /\ s.fondo = r.fondo
       /\ s.abiertas = c
  BY <1>5, <1>7, <1>8, <1>10 DEF Registros
<1>12. fallos = 0 => c = {}
  BY <1>1, <1>3, <1>7, <1>8, CierraTodo
<1>13. PICK y : y = IF prog.existe
                    THEN [s EXCEPT !.fase = "corre", !.resto = prog.emite, !.lee = prog.lee] ELSE s
  OBVIOUS
<1>14. proc' = [proc EXCEPT ![p] = y]
  BY <1>2, <1>9, <1>13
<1>15. /\ y \in Registros /\ y.fase \in {"lee", "corre"} /\ y.padre = r.padre /\ y.fondo = r.fondo
       /\ y.abiertas = c
  <2>1. CASE prog.existe
    <3>1. y = [s EXCEPT !.fase = "corre", !.resto = prog.emite, !.lee = prog.lee]
      BY <1>13, <2>1
    <3>2. prog.emite \in Nat /\ prog.lee \in BOOLEAN
      BY <1>4 DEF Programas
    <3> HIDE DEF prog
    <3> QED BY <1>11, <3>1, <3>2 DEF Registros, FasesShell
  <2>2. CASE ~prog.existe
    BY <1>11, <1>13, <2>2
  <2> QED BY <2>1, <2>2
<1>16. EnOrden(y) /\ ~Creado(y) /\ (fallos = 0 => SoloLasSuyas(y))
  BY <1>12, <1>15 DEF EnOrden, Creado, SoloLasSuyas
<1> QED BY <1>1, <1>3, <1>14, <1>15, <1>16, UnoCambia DEF InvShell, Tipos, r

LEMMA PasoLanzar ==
    ASSUME InvShell, NEW p \in Procesos, Lanzar(p)
    PROVE  InvShell'
<1>1. PICK r : r = ConTuberia(p)
  OBVIOUS
<1>2. /\ proc[p].fase = "lanza" /\ HayTuberia(p) /\ VaciarNueva(p) /\ ProcesosLibres # {}
      /\ UNCHANGED <<ordenes, fallos>>
  BY DEF Lanzar
<1>3. PICK q \in ProcesosLibres : q = Min(ProcesosLibres)
  <2>1. ProcesosLibres \in SUBSET Nat
    BY Constantes DEF ProcesosLibres
  <2> QED BY <1>2, <2>1, MinimoDe
<1>4. q \in Procesos /\ proc[q].fase = "libre" /\ q # p
  BY <1>2, <1>3 DEF ProcesosLibres
<1>5. /\ r \in Registros /\ r.fase = "lanza" /\ r.padre = proc[p].padre /\ r.fondo = proc[p].fondo
      /\ r.orden = proc[p].orden /\ r.i = proc[p].i
      /\ fallos = 0 => r.abiertas \subseteq Antes(r) \cup Despues(r)
      /\ tubo' \in [Tuberias -> 0 .. CAPACIDAD]
  BY <1>1, <1>2, Registro, ConTuberiaBien DEF InvShell
<1>6. PICK s, c : /\ s = [r EXCEPT !.fase = "cierra", !.hijo = q]
                  /\ c = [r EXCEPT !.fase = "nuevo", !.padre = p, !.fondo = r.orden.bg]
  OBVIOUS
<1>7. proc' = [proc EXCEPT ![p] = s, ![q] = c]
  BY <1>1, <1>3, <1>6 DEF Lanzar
<1>8. r.orden \in Ordenes /\ r.i <= Len(r.orden.progs) /\ r.orden.bg \in BOOLEAN
  BY <1>2, <1>5, Registro, Constantes DEF EnOrden
<1>9. /\ s \in Registros /\ s.fase = "cierra" /\ s.hijo = q /\ s.padre = r.padre /\ s.fondo = r.fondo
      /\ s.orden = r.orden /\ s.i = r.i /\ s.fd = r.fd /\ s.abiertas = r.abiertas
  BY <1>4, <1>5, <1>6 DEF Registros, FasesShell
<1>10. /\ c \in Registros /\ c.fase = "nuevo" /\ c.padre = p /\ c.fondo = r.orden.bg
       /\ c.orden = r.orden /\ c.i = r.i /\ c.fd = r.fd /\ c.abiertas = r.abiertas
  BY <1>5, <1>6, <1>8 DEF Registros, FasesShell
<1>11. /\ proc' \in [Procesos -> Registros] /\ proc'[p] = s /\ proc'[q] = c
       /\ \A x \in Procesos \ {p, q} : proc'[x] = proc[x]
  BY <1>4, <1>7, <1>9, <1>10 DEF InvShell, Tipos
<1>12. Tipos'
  <2>1. EnOrden(s) /\ EnOrden(c)
    BY <1>8, <1>9, <1>10 DEF EnOrden
  <2>2. \A x \in Procesos : EnOrden(proc'[x])
    BY <1>11, <2>1 DEF InvShell, Tipos
  <2> QED BY <1>2, <1>5, <1>11, <2>2 DEF InvShell, Tipos, EnOrden
<1>13. SuHijo'
  <2>1. ASSUME NEW x \in Procesos, Creado(proc'[x])
        PROVE  /\ proc'[x].hijo \in Procesos
               /\ proc'[proc'[x].hijo].padre = x /\ proc'[proc'[x].hijo].fase # "libre"
    <3>1. CASE x = p
      BY <1>4, <1>9, <1>10, <1>11, <3>1
    <3>2. CASE x = q
      BY <1>10, <1>11, <2>1, <3>2 DEF Creado
    <3>3. CASE x \notin {p, q}
      <4>1. /\ proc'[x] = proc[x] /\ proc[x].hijo \in Procesos
            /\ proc[proc[x].hijo].padre = x /\ proc[proc[x].hijo].fase # "libre"
        BY <1>11, <2>1, <3>3 DEF InvShell, SuHijo
      <4>2. proc[x].hijo # q
        BY <1>4, <4>1
      <4> QED BY <1>5, <1>9, <1>11, <4>1, <4>2
    <3> QED BY <3>1, <3>2, <3>3
  <2> QED BY <2>1 DEF SuHijo
<1>14. Cerrados'
  <2>1. fallos = 0 => SoloLasSuyas(s) /\ SoloLasSuyas(c)
    BY <1>5, <1>9, <1>10 DEF SoloLasSuyas, Antes, Despues
  <2> QED BY <1>2, <1>11, <2>1 DEF InvShell, Cerrados
<1>15. Esperado'
  <2>1. ASSUME NEW f \in Procesos, NEW y \in Procesos, Delante(proc'[y]), proc'[y].padre = f
        PROVE  Creado(proc'[f]) /\ proc'[f].hijo = y /\ ~proc'[f].orden.bg
    <3>1. CASE y = q
      BY <1>9, <1>10, <1>11, <2>1, <3>1 DEF Delante, Creado
    <3>2. CASE y # q
      <4>1. Delante(proc[y]) /\ proc[y].padre = f
        BY <1>2, <1>5, <1>9, <1>11, <2>1, <3>2 DEF Delante
      <4>2. Creado(proc[f]) /\ proc[f].hijo = y /\ ~proc[f].orden.bg
        BY <4>1 DEF InvShell, Esperado
      <4>3. f \notin {p, q}
        BY <1>2, <1>4, <4>2 DEF Creado
      <4> QED BY <1>11, <4>2, <4>3
    <3> QED BY <3>1, <3>2
  <2> QED BY <2>1 DEF Esperado
<1> QED BY <1>12, <1>13, <1>14, <1>15 DEF InvShell

LEMMA PasoRecoger ==
    ASSUME InvShell, NEW p \in Procesos, Recoger(p)
    PROVE  InvShell'
<1>1. PICK q \in Procesos :
         /\ proc[q].fase = "zombi" /\ proc[q].padre = p
         /\ proc' = [proc EXCEPT ![q] = Libre,
                                 ![p] = IF q = proc[p].hijo THEN Siguiente(@) ELSE @]
  BY DEF Recoger
<1>2. proc[p].fase = "espera" /\ UNCHANGED <<tubo, ordenes, fallos>> /\ q # p
  BY <1>1 DEF Recoger
<1>3. PICK s : s = IF q = proc[p].hijo THEN Siguiente(proc[p]) ELSE proc[p]
  OBVIOUS
<1>4. proc[p] \in Registros /\ EnOrden(proc[p]) /\ (fallos = 0 => SoloLasSuyas(proc[p]))
  BY Registro
<1>5. /\ s \in Registros /\ EnOrden(s) /\ (fallos = 0 => SoloLasSuyas(s))
      /\ s.padre = proc[p].padre /\ s.fondo = proc[p].fondo /\ s.fase \in {"lanza", "lee", "espera"}
      /\ q # proc[p].hijo => s = proc[p]
      /\ q = proc[p].hijo => ~Creado(s)
  <2>1. CASE q = proc[p].hijo
    <3>1. s = Siguiente(proc[p])
      BY <1>3, <2>1
    <3>2. fallos = 0 => proc[p].abiertas \subseteq Despues(proc[p])
      BY <1>2, <1>4 DEF SoloLasSuyas
    <3> QED BY <1>2, <1>4, <2>1, <3>1, <3>2, SiguienteBien DEF Creado
  <2>2. CASE q # proc[p].hijo
    BY <1>2, <1>3, <1>4, <2>2
  <2> QED BY <2>1, <2>2
<1>6. /\ proc' \in [Procesos -> Registros] /\ proc'[p] = s /\ proc'[q] = Libre
      /\ \A x \in Procesos \ {p, q} : proc'[x] = proc[x]
  BY <1>1, <1>2, <1>3, <1>5, LibreBien DEF InvShell, Tipos
<1>7. Tipos'
  <2>1. \A x \in Procesos : EnOrden(proc'[x])
    BY <1>5, <1>6, LibreBien DEF InvShell, Tipos, EnOrden
  <2> QED BY <1>2, <1>6, <2>1 DEF InvShell, Tipos, EnOrden
<1>8. SuHijo'
  <2>1. ASSUME NEW x \in Procesos, Creado(proc'[x])
        PROVE  /\ proc'[x].hijo \in Procesos
               /\ proc'[proc'[x].hijo].padre = x /\ proc'[proc'[x].hijo].fase # "libre"
    <3>1. proc'[x] = proc[x] /\ Creado(proc[x]) /\ (x = p => q # proc[p].hijo) /\ x # q
      BY <1>5, <1>6, <2>1, LibreBien DEF Creado
    <3>2. /\ proc[x].hijo \in Procesos
          /\ proc[proc[x].hijo].padre = x /\ proc[proc[x].hijo].fase # "libre"
      BY <3>1 DEF InvShell, SuHijo
    <3>3. proc[x].hijo # q
      BY <1>1, <3>1, <3>2
    <3> QED BY <1>5, <1>6, <3>1, <3>2, <3>3
  <2> QED BY <2>1 DEF SuHijo
<1>9. Cerrados'
  <2>1. SoloLasSuyas(Libre)
    BY LibreBien DEF SoloLasSuyas
  <2> QED BY <1>2, <1>5, <1>6, <2>1 DEF InvShell, Cerrados
<1>10. Esperado'
  <2>1. ASSUME NEW f \in Procesos, NEW y \in Procesos, Delante(proc'[y]), proc'[y].padre = f
        PROVE  Creado(proc'[f]) /\ proc'[f].hijo = y /\ ~proc'[f].orden.bg
    <3>1. y # q
      BY <1>6, <2>1, LibreBien DEF Delante
    <3>2. Delante(proc[y]) /\ proc[y].padre = f
      BY <1>2, <1>5, <1>6, <2>1, <3>1 DEF Delante
    <3>3. Creado(proc[f]) /\ proc[f].hijo = y /\ ~proc[f].orden.bg
      BY <3>2 DEF InvShell, Esperado
    <3>4. proc'[f] = proc[f]
      BY <1>1, <1>5, <1>6, <3>1, <3>3 DEF Creado
    <3> QED BY <3>3, <3>4
  <2> QED BY <2>1 DEF Esperado
<1> QED BY <1>7, <1>8, <1>9, <1>10 DEF InvShell

(* A process ends: its father has a zombie, and its children no father.    *)
LEMMA PasoMorir ==
    ASSUME InvShell, NEW p \in Procesos, proc[p].fase \in {"lee", "corre"}, Morir(p),
           tubo' \in [Tuberias -> 0 .. CAPACIDAD], UNCHANGED <<ordenes, fallos>>
    PROVE  InvShell'
<1>1. PICK z : z = [Libre EXCEPT !.fase = "zombi", !.padre = proc[p].padre]
  OBVIOUS
<1>2. /\ z \in Registros /\ z.fase = "zombi" /\ z.padre = proc[p].padre /\ z.abiertas = {}
  <2>1. proc[p].padre \in Procesos \cup {INIT}
    BY Registro DEF Registros
  <2> QED BY <1>1, <2>1, ZombiBien
<1>3. proc' = [q \in Procesos |->
                 IF q = p THEN IF proc[p].padre = INIT THEN Libre ELSE z
                 ELSE IF proc[q].padre # p THEN proc[q]
                 ELSE IF proc[q].fase = "zombi" THEN Libre ELSE [proc[q] EXCEPT !.padre = INIT]]
  BY <1>1 DEF Morir
<1>4. ASSUME NEW q \in Procesos, q # p, proc[q].padre # p PROVE proc'[q] = proc[q]
  BY <1>3, <1>4
<1>5. proc'[p] = IF proc[p].padre = INIT THEN Libre ELSE z
  BY <1>3
<1>6. ASSUME NEW q \in Procesos, q # p, proc[q].padre = p
      PROVE  /\ proc'[q] \in Registros /\ proc'[q].padre = INIT
             /\ \/ proc'[q] = Libre
                \/ /\ proc'[q].fase = proc[q].fase /\ proc'[q].fondo = proc[q].fondo
                   /\ proc'[q].hijo = proc[q].hijo /\ proc'[q].orden = proc[q].orden
                   /\ proc'[q].i = proc[q].i /\ proc'[q].fd = proc[q].fd
                   /\ proc'[q].abiertas = proc[q].abiertas
             /\ Creado(proc[q]) => proc'[q] # Libre
  <2>1. proc[q] \in Registros
    BY Registro
  <2>2. CASE proc[q].fase = "zombi"
    <3>1. proc'[q] = Libre
      BY <1>3, <1>6, <2>2
    <3> QED BY <2>2, <3>1, LibreBien DEF Creado
  <2>3. CASE proc[q].fase # "zombi"
    <3>1. proc'[q] = [proc[q] EXCEPT !.padre = INIT]
      BY <1>3, <1>6, <2>3
    <3>2. PICK v : v = [proc[q] EXCEPT !.padre = INIT]
      OBVIOUS
    <3>3. /\ v \in Registros /\ v.padre = INIT /\ v.fase = proc[q].fase /\ v.fondo = proc[q].fondo
          /\ v.hijo = proc[q].hijo /\ v.orden = proc[q].orden
          /\ v.i = proc[q].i /\ v.fd = proc[q].fd /\ v.abiertas = proc[q].abiertas
      BY <2>1, <3>2 DEF Registros
    <3>4. Creado(proc[q]) => v.fase # "libre"
      BY <3>3 DEF Creado
    <3> QED BY <3>1, <3>2, <3>3, <3>4, LibreBien
  <2> QED BY <2>2, <2>3
<1>7. ASSUME NEW q \in Procesos
      PROVE  /\ proc'[q] \in Registros /\ EnOrden(proc'[q])
             /\ fallos = 0 => SoloLasSuyas(proc'[q])
  <2>0. proc[q] \in Registros /\ EnOrden(proc[q]) /\ (fallos = 0 => SoloLasSuyas(proc[q]))
    BY Registro
  <2>1. CASE q = p
    BY <1>2, <1>5, <2>1, LibreBien DEF EnOrden, SoloLasSuyas
  <2>2. CASE q # p /\ proc[q].padre # p
    BY <1>4, <2>0, <2>2
  <2>3. CASE q # p /\ proc[q].padre = p
    <3>1. CASE proc'[q] = Libre
      BY <3>1, LibreBien DEF EnOrden, SoloLasSuyas
    <3>2. CASE proc'[q] # Libre
      BY <1>6, <2>0, <2>3, <3>2 DEF EnOrden, SoloLasSuyas, Antes, Despues
    <3> QED BY <3>1, <3>2
  <2> QED BY <2>1, <2>2, <2>3
<1>8. ASSUME NEW q \in Procesos, Creado(proc'[q])
      PROVE  q # p /\ Creado(proc[q]) /\ proc'[q].hijo = proc[q].hijo
  <2>1. q # p
    BY <1>2, <1>5, <1>8, LibreBien DEF Creado
  <2> QED BY <1>4, <1>6, <1>8, <2>1, LibreBien DEF Creado
<1>9. SuHijo'
  <2>1. ASSUME NEW q \in Procesos, Creado(proc'[q])
        PROVE  /\ proc'[q].hijo \in Procesos
               /\ proc'[proc'[q].hijo].padre = q /\ proc'[proc'[q].hijo].fase # "libre"
    <3>1. PICK h : h = proc[q].hijo
      OBVIOUS
    <3>2. /\ q # p /\ proc'[q].hijo = h /\ h \in Procesos
          /\ proc[h].padre = q /\ proc[h].fase # "libre"
      BY <1>8, <2>1, <3>1 DEF InvShell, SuHijo
    <3>3. CASE h = p
      BY <1>2, <1>5, <3>2, <3>3, Constantes
    <3>4. CASE h # p
      BY <1>4, <3>2, <3>4
    <3> QED BY <3>2, <3>3, <3>4
  <2> QED BY <2>1 DEF SuHijo
<1>10. Esperado'
  <2>1. ASSUME NEW f \in Procesos, NEW y \in Procesos, Delante(proc'[y]), proc'[y].padre = f
        PROVE  Creado(proc'[f]) /\ proc'[f].hijo = y /\ ~proc'[f].orden.bg
    <3>1. y # p
      BY <1>2, <1>5, <2>1, LibreBien DEF Delante
    <3>2. proc[y].padre # p /\ proc'[y] = proc[y]
      BY <1>4, <1>6, <2>1, <3>1, Constantes
    <3>3. Creado(proc[f]) /\ proc[f].hijo = y /\ ~proc[f].orden.bg /\ f # p
      BY <2>1, <3>2 DEF InvShell, Esperado
    <3>4. CASE proc[f].padre # p
      BY <1>4, <3>3, <3>4
    <3>5. CASE proc[f].padre = p
      BY <1>6, <3>3, <3>5 DEF Creado
    <3> QED BY <3>4, <3>5
  <2> QED BY <2>1 DEF Esperado
<1>11. Tipos'
  <2>1. proc' \in [Procesos -> Registros]
    BY <1>3, <1>7
  <2> QED BY <1>7, <2>1 DEF InvShell, Tipos, EnOrden
<1>12. Cerrados'
  BY <1>7 DEF Cerrados
<1> QED BY <1>9, <1>10, <1>11, <1>12 DEF InvShell

LEMMA PasoFin ==
    ASSUME InvShell, NEW p \in Procesos, FinEntrada(p) \/ TerminarPrograma(p)
    PROVE  InvShell'
<1>1. /\ proc[p].fase \in {"lee", "corre"} /\ Morir(p) /\ UNCHANGED <<tubo, ordenes, fallos>>
  BY DEF FinEntrada, TerminarPrograma
<1> QED BY <1>1, PasoMorir DEF InvShell, Tipos

(* A program that goes on, with less to write or more.                     *)
LEMMA SigueCorriendo ==
    ASSUME InvShell, NEW p \in Procesos, proc[p].fase = "corre", NEW k \in Nat,
           proc' = [proc EXCEPT ![p].resto = k],
           tubo' \in [Tuberias -> 0 .. CAPACIDAD], UNCHANGED <<ordenes, fallos>>
    PROVE  InvShell'
<1>1. PICK s : s = [proc[p] EXCEPT !.resto = k]
  OBVIOUS
<1>2. /\ proc[p] \in Registros /\ EnOrden(proc[p]) /\ (fallos = 0 => SoloLasSuyas(proc[p]))
      /\ \A q \in Procesos : ~(Delante(proc[q]) /\ proc[q].padre = p)
  BY Registro DEF Creado
<1>3. /\ s \in Registros /\ s.fase = "corre" /\ s.padre = proc[p].padre /\ s.fondo = proc[p].fondo
      /\ s.abiertas = proc[p].abiertas
  BY <1>1, <1>2 DEF Registros
<1>4. proc' = [proc EXCEPT ![p] = s]
  BY <1>1 DEF InvShell, Tipos
<1>5. EnOrden(s) /\ (fallos = 0 => SoloLasSuyas(s))
  BY <1>2, <1>3 DEF EnOrden, SoloLasSuyas
<1> QED BY <1>2, <1>3, <1>4, <1>5, UnoCambia DEF Creado, InvShell, Tipos

LEMMA PasoEscribir ==
    ASSUME InvShell, NEW p \in Procesos, Escribir(p)
    PROVE  InvShell'
<1>1. /\ proc[p].fase = "corre" /\ proc[p].resto > 0 /\ UNCHANGED <<ordenes, fallos>>
      /\ proc[p].resto \in Nat /\ proc[p].sale \in Descriptores
      /\ tubo \in [Tuberias -> 0 .. CAPACIDAD]
  BY Registro DEF Escribir, Registros, InvShell, Tipos
<1>2. CASE proc' = [proc EXCEPT ![p].resto = 0] /\ UNCHANGED tubo
  BY <1>1, <1>2, SigueCorriendo
<1>3. ASSUME proc[p].sale # EXTERNO, Cabe(proc[p].sale),
             proc' = [proc EXCEPT ![p].resto = @ - 1],
             tubo' = [tubo EXCEPT ![proc[p].sale] = @ + 1]
      PROVE  InvShell'
  <2>1. PICK t \in Tuberias : t = proc[p].sale
    BY <1>1, <1>3 DEF Descriptores
  <2>2. tubo' \in [Tuberias -> 0 .. CAPACIDAD]
    <3>1. tubo[t] + 1 \in 0 .. CAPACIDAD
      BY <1>1, <1>3, <2>1, Constantes DEF Cabe
    <3> QED BY <1>1, <1>3, <2>1, <3>1
  <2>3. PICK k \in Nat : k = proc[p].resto - 1
    BY <1>1
  <2>4. proc' = [proc EXCEPT ![p].resto = k]
    BY <1>3, <2>3
  <2> QED BY <1>1, <2>2, <2>4, SigueCorriendo
<1>4. CASE Morir(p) /\ UNCHANGED tubo
  BY <1>1, <1>4, PasoMorir
<1> QED BY <1>2, <1>3, <1>4 DEF Escribir

LEMMA PasoLeerDato ==
    ASSUME InvShell, NEW p \in Procesos, LeerDato(p)
    PROVE  InvShell'
<1>1. /\ proc[p].fase = "corre" /\ UNCHANGED <<ordenes, fallos>>
      /\ proc' = [proc EXCEPT ![p].resto = 1]
      /\ tubo \in [Tuberias -> 0 .. CAPACIDAD]
  BY DEF LeerDato, InvShell, Tipos
<1>2. PICK t \in Tuberias : /\ tubo[t] > 0
                            /\ tubo' = [tubo EXCEPT ![t] = tubo[t] - 1]
  <2>1. proc[p].entra \in Tuberias
    BY Registro DEF LeerDato, Registros, Descriptores
  <2> QED BY <2>1 DEF LeerDato
<1>3. tubo' \in [Tuberias -> 0 .. CAPACIDAD]
  <2>1. tubo[t] - 1 \in 0 .. CAPACIDAD
    BY <1>1, <1>2, Constantes
  <2> QED BY <1>1, <1>2, <2>1
<1> QED BY <1>1, <1>3, SigueCorriendo

(* The processes as they were.                                             *)
LEMMA ProcesosQuietos ==
    ASSUME InvShell, proc' = proc, tubo' \in [Tuberias -> 0 .. CAPACIDAD],
           UNCHANGED <<ordenes, fallos>>
    PROVE  InvShell'
BY DEF InvShell, Tipos, EnOrden, SuHijo, Cerrados, Esperado

LEMMA InicialShell == InitShell => InvShell
<1> SUFFICES ASSUME InitShell PROVE InvShell
  OBVIOUS
<1>1. PICK s : s = [Libre EXCEPT !.fase = "lee"]
  OBVIOUS
<1>2. /\ s \in Registros /\ s.fase = "lee" /\ s.padre = INIT /\ s.abiertas = {}
  BY <1>1, LibreBien DEF Registros, FasesShell
<1>3. /\ proc \in [Procesos -> Registros]
      /\ \A p \in Procesos : proc[p] = s \/ proc[p] = Libre
  BY <1>1, <1>2, LibreBien DEF InitShell
<1>4. Tipos
  BY <1>2, <1>3, LibreBien, MiniShellAssumption DEF InitShell, Tipos, EnOrden
<1>5. SuHijo /\ Cerrados
  BY <1>2, <1>3, LibreBien DEF SuHijo, Creado, Cerrados, SoloLasSuyas
<1>6. Esperado
  BY <1>2, <1>3, LibreBien, Constantes DEF Esperado, Delante
<1> QED BY <1>4, <1>5, <1>6 DEF InvShell

LEMMA InvShellInductivo == InvShell /\ [NextShell]_varsShell => InvShell'
<1> SUFFICES ASSUME InvShell, [NextShell]_varsShell PROVE InvShell'
  OBVIOUS
<1>1. ASSUME NEW p \in Procesos, LineaVacia(p) PROVE InvShell'
  <2>1. proc' = proc /\ UNCHANGED <<ordenes, fallos>> /\ LeerLinea(p)
    BY <1>1 DEF LineaVacia
  <2> QED BY <2>1, PasoLeerLinea, ProcesosQuietos
<1>2. CASE UNCHANGED varsShell
  BY <1>2, ProcesosQuietos DEF varsShell, InvShell, Tipos
<1>3. ASSUME NEW p \in Procesos, \/ LeerOrden(p) \/ FinEntrada(p) \/ LanzarFalla(p)
                                 \/ PasoShell(p) \/ PasoPrograma(p)
      PROVE  InvShell'
  BY <1>3, PasoLeerOrden, PasoFin, PasoLanzarFalla, PasoLanzar, PasoCerrar, PasoRecoger,
     PasoPreparar, PasoEscribir, PasoLeerDato DEF PasoShell, PasoPrograma
<1> QED BY <1>1, <1>2, <1>3 DEF NextShell

-----------------------------------------------------------------------------
(* The theorems                                                            *)

LEMMA InvShellSiempre == SpecShell => []InvShell
BY InicialShell, InvShellInductivo, PTL DEF SpecShell

(* Types, the units of text in each pipe, and that the child a shell waits *)
(* for (main.c, while (wait(&status) != pid)) is still its own and not yet *)
(* collected.                                                              *)
THEOREM TiposDelShell == SpecShell => []TypeOKShell
<1>1. InvShell => TypeOKShell
  BY DEF InvShell, Tipos, SuHijo, Creado, TypeOKShell, Registros, Descriptores
<1> QED BY <1>1, InvShellSiempre, PTL

(* executeCommandsPiped: while no fork fails, a shell at its prompt holds  *)
(* no pipe and a program only those of its input and output.               *)
THEOREM DescriptoresSiempreCerrados == SpecShell => []DescriptoresCerrados
<1>1. InvShell => DescriptoresCerrados
  BY DEF InvShell, Cerrados, SoloLasSuyas, DescriptoresCerrados
<1> QED BY <1>1, InvShellSiempre, PTL

(* A shell is back at its prompt only when every process it launched in    *)
(* the foreground has ended, though wait collects any child.               *)
THEOREM PrimerPlanoSiempreAcabado == SpecShell => []PrimerPlanoAcabado
<1>1. InvShell => PrimerPlanoAcabado
  BY DEF InvShell, Esperado, Delante, Creado, PrimerPlanoAcabado
<1> QED BY <1>1, InvShellSiempre, PTL
===============================================================================
