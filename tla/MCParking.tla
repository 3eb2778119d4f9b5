----------------------------- MODULE MCParking -----------------------------
(* Small instances of Parking for TLC.                                     *)
EXTENDS Parking

CONSTANTS c1, c2, c3

MCCoches == {c1, c2, c3}
MCPlantas == {1, 2, 3}
MCAjenos == {0, 1}
=============================================================================
