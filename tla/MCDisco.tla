------------------------------ MODULE MCDisco ------------------------------
(* Small instance of Disco for TLC.  One address more than there are       *)
(* processes: a request that failed to start keeps its own.                *)
EXTENDS Disco

MCProcesos == 1 .. 3
MCDirecciones == 1 .. 4
MCEscribe == << {"v"}, {"w"}, {} >>
MCValores == {"v", "w"}

(* A device with the same contents everywhere: what it had is as good as   *)
(* what is written to it.                                                  *)
MCInit == Init /\ disco = [b \in Bloques |-> "v"]
SpecMC == MCInit /\ [][Next]_vars /\ Justicia
=============================================================================
