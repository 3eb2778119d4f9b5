---------------------------- MODULE MCMiniShell ----------------------------
(* Small instance of MiniShell for TLC: programs that write one unit, more *)
(* than a pipe holds, or nothing, one that copies, and one that is missing.*)
EXTENDS MiniShell

Eco == [existe |-> TRUE, emite |-> 1, lee |-> FALSE]
Mucho == [existe |-> TRUE, emite |-> CAPACIDAD + 1, lee |-> FALSE]
Calla == [existe |-> TRUE, emite |-> 0, lee |-> FALSE]
Copia == [existe |-> TRUE, emite |-> 0, lee |-> TRUE]
Falta == [existe |-> FALSE, emite |-> 0, lee |-> FALSE]

Orden(progs, bg, desde) == [progs |-> progs, bg |-> bg, desde |-> desde, hacia |-> desde]

MCOrdenes ==
    { Orden(<<Eco>>, FALSE, FALSE), Orden(<<Falta>>, TRUE, FALSE),
      Orden(<<Mucho, Copia>>, TRUE, FALSE), Orden(<<Mucho, Copia>>, FALSE, FALSE),
      Orden(<<Eco, Falta>>, TRUE, TRUE), Orden(<<Falta, Calla>>, FALSE, FALSE),
      Orden(<<Eco, Copia, Copia>>, FALSE, FALSE), Orden(<<Mucho, Copia, Falta>>, TRUE, FALSE),
      Orden(<<Mucho, Falta, Copia>>, TRUE, FALSE) }
=============================================================================
