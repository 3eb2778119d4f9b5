-------------------------- MODULE BloquesAtomicos --------------------------
(***************************************************************************)
(* What the disk driver promises to the processes: every request takes     *)
(* effect once, at some moment between its call and its return, and those  *)
(* for the same block in the order of their calls.  Requests for a block   *)
(* may be served together, and then the reads of the group get what its    *)
(* writes leave.                                                           *)
(***************************************************************************)
EXTENDS Integers, SequencesExt

CONSTANTS Procesos, Bloques, NULL

VARIABLES
    disco,      \* the value each block of the device has
    peticion,   \* per process, the request it waits for, or NULL
    espera      \* per block, the processes not served yet, in order of call

vars == <<disco, peticion, espera>>

Pedir(p, op, b, v) ==
    /\ peticion[p] = NULL
    /\ peticion' = [peticion EXCEPT
                        ![p] = [op |-> op, bloque |-> b, valor |-> v, hecha |-> FALSE]]
    /\ espera' = [espera EXCEPT ![b] = Append(@, p)]
    /\ UNCHANGED disco

(* The last place of S whose process writes, by what f says they ask, or 0.*)
UltimaQueEscribe(f, S) == SelectLastInSeq(S, LAMBDA p : f[p].op = "escribir")

(* Serve the first n requests for a block.                                 *)
Servir(b, n) ==
    LET S == SubSeq(espera[b], 1, n)
        k == UltimaQueEscribe(peticion, S)
        v == IF k = 0 THEN disco[b] ELSE peticion[S[k]].valor
    IN  /\ n <= Len(espera[b])
        /\ disco' = [disco EXCEPT ![b] = v]
        /\ peticion' = [p \in Procesos |->
                          IF p \in ToSet(S)
                          THEN [op |-> peticion[p].op, bloque |-> b, hecha |-> TRUE,
                                valor |-> v]
                          ELSE peticion[p]]
        /\ espera' = [espera EXCEPT ![b] = SubSeq(@, n + 1, Len(@))]

(* The call returns; a read gives the value it was served with.            *)
Terminar(p) ==
    /\ peticion[p] # NULL /\ peticion[p].hecha
    /\ peticion' = [peticion EXCEPT ![p] = NULL]
    /\ UNCHANGED <<disco, espera>>

Reposo ==
    /\ peticion = [p \in Procesos |-> NULL]
    /\ espera = [b \in Bloques |-> <<>>]

-----------------------------------------------------------------------------
(* The device by itself, with processes that ask for anything.             *)
CONSTANT Valores

Init == disco \in [Bloques -> Valores] /\ Reposo

Next ==
    \/ \E p \in Procesos, b \in Bloques :
         \/ Pedir(p, "leer", b, NULL)
         \/ \E v \in Valores : Pedir(p, "escribir", b, v)
    \/ \E b \in Bloques : \E n \in 1 .. Len(espera[b]) : Servir(b, n)
    \/ \E p \in Procesos : Terminar(p)

Spec == Init /\ [][Next]_vars
=============================================================================
