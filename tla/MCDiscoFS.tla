------------------------------ MODULE MCDiscoFS ------------------------------
(* Small instances of DiscoFS for TLC.                                     *)
EXTENDS DiscoFS

CONSTANTS n1, n2, d1, d2

MCProcesos == 1 .. 2
MCNombres == {n1, n2}
MCDirecciones == {d1, d2}
MCSimetria == Permutations(MCNombres) \cup Permutations(MCDirecciones)
MCTamanyos == {2}
MCUno == {1}
MCBasura == {3}
MCBasuraNegativa == {-1}
=============================================================================
