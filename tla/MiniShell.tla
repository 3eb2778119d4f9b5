----------------------------- MODULE MiniShell -----------------------------
(***************************************************************************)
(* main.c of the MiniShell: the loop that reads orders, executeCommand and *)
(* executeCommandsPiped, with the processes they create, the ends of pipes *)
(* each process holds, and the waits.  A child whose execvp fails returns  *)
(* to the loop of main and goes on as a shell, with the input and output   *)
(* it had been given.  The history of orders is left out: an order taken   *)
(* from it is an order like the others.                                    *)
(***************************************************************************)
EXTENDS Integers, SequencesExt, FiniteSetsExt

CONSTANTS
    Ordenes,       \* bound: orders that may be read
    MaxProcesos,   \* bound: processes at a time
    MaxTuberias,   \* bound: pipes at a time
    MaxOrdenes,    \* bound: orders read
    MaxFallos,     \* bound: calls to fork that fail
    CAPACIDAD      \* what a pipe holds

(* A program writes emite units of text and, if it reads, a copy of each   *)
(* unit it gets.  It may not exist.                                        *)
Programas == [existe : BOOLEAN, emite : Nat, lee : BOOLEAN]

(* The programs of a pipeline, and the options &, < and > of its order.    *)
ASSUME MiniShellAssumption ==
    /\ \A o \in Ordenes : /\ o.progs \in Seq(Programas) /\ Len(o.progs) \in 1 .. 3
                          /\ {o.bg, o.desde, o.hacia} \subseteq BOOLEAN
    /\ MaxProcesos \in Nat \ {0} /\ MaxTuberias \in Nat
    /\ MaxOrdenes \in Nat /\ MaxFallos \in Nat /\ CAPACIDAD \in Nat \ {0}

INIT == 0                      \* the father of orphans
SHELL == 1
Procesos == 1 .. MaxProcesos
NINGUNO == 0
EXTERNO == 0                   \* the terminal, or a file
Tuberias == 1 .. MaxTuberias

SinOrden == [progs |-> <<>>, bg |-> FALSE, desde |-> FALSE, hacia |-> FALSE]

FasesShell == {"libre", "lee", "lanza", "cierra", "espera", "nuevo", "corre", "zombi"}

VARIABLES
    proc,      \* per process: father, point of the code, variables, descriptors
    tubo,      \* units of text in each pipe
    ordenes, fallos

varsShell == <<proc, tubo, ordenes, fallos>>

(* fd are the variables fd1 and fd2, and abiertas the pipes whose two ends *)
(* the process holds apart from its standard input and output; resto is    *)
(* what a program has yet to write.  fondo is a history variable: the      *)
(* process was created by an order in the background.                      *)
Libre == [padre |-> INIT, fase |-> "libre", orden |-> SinOrden, i |-> 1, hijo |-> NINGUNO,
          fd |-> <<NINGUNO, NINGUNO>>, abiertas |-> {}, entra |-> EXTERNO, sale |-> EXTERNO,
          resto |-> 0, lee |-> FALSE, fondo |-> FALSE]

InitShell ==
    /\ proc = [p \in Procesos |-> IF p = SHELL THEN [Libre EXCEPT !.fase = "lee"] ELSE Libre]
    /\ tubo = [t \in Tuberias |-> 0]
    /\ ordenes = 0 /\ fallos = 0

Tiene(p, t) == t \in proc[p].abiertas
Lectores(t) == {p \in Procesos : Tiene(p, t) \/ proc[p].entra = t}
Escritores(t) == {p \in Procesos : Tiene(p, t) \/ proc[p].sale = t}

-----------------------------------------------------------------------------
(* The loop of main                                                        *)

(* A line from the input of shell p, which may be a pipe.                  *)
LeerLinea(p) ==
    /\ proc[p].fase = "lee"
    /\ IF proc[p].entra = EXTERNO THEN UNCHANGED tubo
       ELSE tubo[proc[p].entra] > 0 /\ tubo' = [tubo EXCEPT ![proc[p].entra] = @ - 1]

LeerOrden(p) ==
    /\ LeerLinea(p)
    /\ ordenes < MaxOrdenes /\ ordenes' = ordenes + 1
    /\ \E o \in Ordenes : proc' = [proc EXCEPT ![p].fase = "lanza", ![p].orden = o, ![p].i = 1]
    /\ UNCHANGED fallos

(* An empty line, a syntax error, or more than three commands.             *)
LineaVacia(p) ==
    /\ LeerLinea(p)
    /\ proc[p].entra # EXTERNO
    /\ UNCHANGED <<proc, ordenes, fallos>>

(* Process p ends: its father will get it, and its children lose theirs.   *)
Morir(p) ==
    proc' = [q \in Procesos |->
        IF q = p
        THEN IF proc[p].padre = INIT THEN Libre
             ELSE [Libre EXCEPT !.fase = "zombi", !.padre = proc[p].padre]
        ELSE IF proc[q].padre # p THEN proc[q]
        ELSE IF proc[q].fase = "zombi" THEN Libre ELSE [proc[q] EXCEPT !.padre = INIT]]

SinEntrada(p) ==
    proc[p].entra # EXTERNO => tubo[proc[p].entra] = 0 /\ Escritores(proc[p].entra) = {}

(* End of the input of a shell.                                            *)
FinEntrada(p) ==
    /\ proc[p].fase = "lee" /\ SinEntrada(p)
    /\ Morir(p)
    /\ UNCHANGED <<tubo, ordenes, fallos>>

-----------------------------------------------------------------------------
(* executeCommand and executeCommandsPiped, in the father                  *)

TuberiasLibres == {t \in Tuberias : Lectores(t) \cup Escritores(t) = {}}
ProcesosLibres == {p \in Procesos \ {SHELL} : proc[p].fase = "libre"}

(* The turn of shell p begins: a pipe before each child but the last.      *)
ConTuberia(p) ==
    LET r == proc[p]  t == Min(TuberiasLibres)
    IN  IF r.i < Len(r.orden.progs)
        THEN [r EXCEPT !.fd[r.i] = t, !.abiertas = @ \cup {t}]
        ELSE r

HayTuberia(p) == proc[p].i < Len(proc[p].orden.progs) => TuberiasLibres # {}

VaciarNueva(p) ==
    tubo' = IF proc[p].i < Len(proc[p].orden.progs)
            THEN [tubo EXCEPT ![Min(TuberiasLibres)] = 0] ELSE tubo

Lanzar(p) ==
    /\ proc[p].fase = "lanza" /\ HayTuberia(p) /\ ProcesosLibres # {}
    /\ LET q == Min(ProcesosLibres)  r == ConTuberia(p)
       IN  proc' = [proc EXCEPT
               ![p] = [r EXCEPT !.fase = "cierra", !.hijo = q],
               ![q] = [r EXCEPT !.fase = "nuevo", !.padre = p, !.fondo = r.orden.bg]]
    /\ VaciarNueva(p)
    /\ UNCHANGED <<ordenes, fallos>>

(* Back in main; the variables of the call are lost.                       *)
AlBucle(r) ==
    [r EXCEPT !.fase = "lee", !.orden = SinOrden, !.i = 1, !.hijo = NINGUNO,
              !.fd = <<NINGUNO, NINGUNO>>]

(* fork fails: the pipes stay open.                                        *)
LanzarFalla(p) ==
    /\ proc[p].fase = "lanza" /\ HayTuberia(p)
    /\ fallos < MaxFallos /\ fallos' = fallos + 1
    /\ proc' = [proc EXCEPT ![p] = AlBucle(ConTuberia(p))]
    /\ VaciarNueva(p)
    /\ UNCHANGED ordenes

(* The next command of the order, or back to main.                         *)
Siguiente(r) ==
    IF r.i < Len(r.orden.progs) THEN [r EXCEPT !.fase = "lanza", !.i = @ + 1] ELSE AlBucle(r)

(* Mutant: the second pipe is not closed.                                  *)
CierraSoloPrimera(r) == IF r.i = 2 THEN {r.fd[1]} ELSE {}

(* The pipes the father closes, those of the child it has just created.    *)
CierraPadre(r) ==
    CASE r.i = 2 -> {r.fd[1]}
      [] r.i = 3 -> {r.fd[2]}
      [] OTHER -> {}

Cerrar(p) ==
    LET r == [proc[p] EXCEPT !.abiertas = @ \ CierraPadre(proc[p])]
    IN  /\ proc[p].fase = "cierra"
        /\ proc' = [proc EXCEPT ![p] =
               IF r.orden.bg THEN Siguiente(r) ELSE [r EXCEPT !.fase = "espera"]]
        /\ UNCHANGED <<tubo, ordenes, fallos>>

(* Mutant: one wait, for any child.                                        *)
RecogerUno(p) ==
    /\ proc[p].fase = "espera"
    /\ \E q \in Procesos :
          /\ proc[q].fase = "zombi" /\ proc[q].padre = p
          /\ proc' = [proc EXCEPT ![q] = Libre, ![p] = Siguiente(@)]
    /\ UNCHANGED <<tubo, ordenes, fallos>>

(* Mutant: the comparison of the loop of waits, the other way round.       *)
RecogerAlReves(p) ==
    /\ proc[p].fase = "espera"
    /\ \E q \in Procesos :
          /\ proc[q].fase = "zombi" /\ proc[q].padre = p
          /\ proc' = [proc EXCEPT ![q] = Libre,
                                  ![p] = IF q # proc[p].hijo THEN Siguiente(@) ELSE @]
    /\ UNCHANGED <<tubo, ordenes, fallos>>

(* wait: any child that has ended, of this order or of an earlier one.     *)
Recoger(p) ==
    /\ proc[p].fase = "espera"
    /\ \E q \in Procesos :
          /\ proc[q].fase = "zombi" /\ proc[q].padre = p
          /\ proc' = [proc EXCEPT ![q] = Libre,
                                  ![p] = IF q = proc[p].hijo THEN Siguiente(@) ELSE @]
    /\ UNCHANGED <<tubo, ordenes, fallos>>

-----------------------------------------------------------------------------
(* executeCommand and executeCommandsPiped, in the child                   *)

(* Mutant: the second child does not close the first pipe.                 *)
CierraSoloSegunda(r) == {r.fd[2]}

(* The pipes the child closes, once their ends are its input and output.   *)
CierraHijo(r) ==
    CASE r.i = 1 -> {r.fd[1]}
      [] r.i = 2 -> {r.fd[1], r.fd[2]}
      [] r.i = 3 -> {r.fd[2]}

(* redirectOutput, only for the last command: a file that does not open    *)
(* leaves what there was.                                                  *)
Redirigido(descriptor, pedido) == {descriptor} \cup (IF pedido THEN {EXTERNO} ELSE {})

(* Input and output of the child and execvp.  An input, an output and a    *)
(* program: a shell when there is no such program.                         *)
Preparar(q) ==
    LET r == proc[q]
        n == Len(r.orden.progs)
        e == IF r.i > 1 THEN r.fd[r.i - 1] ELSE r.entra
        s == IF r.i < n THEN r.fd[r.i] ELSE r.sale
        prog == r.orden.progs[r.i]
    IN  /\ r.fase = "nuevo"
        /\ \E entra \in Redirigido(e, r.i = n /\ r.orden.desde),
              sale \in Redirigido(s, r.i = n /\ r.orden.hacia) :
              LET hijo == [AlBucle(r) EXCEPT !.entra = entra, !.sale = sale,
                                             !.abiertas = @ \ CierraHijo(r)]
              IN  proc' = [proc EXCEPT ![q] =
                      IF prog.existe
                      THEN [hijo EXCEPT !.fase = "corre", !.resto = prog.emite, !.lee = prog.lee]
                      ELSE hijo]
        /\ UNCHANGED <<tubo, ordenes, fallos>>

-----------------------------------------------------------------------------
(* The programs and the pipes                                              *)

Cabe(t) == tubo[t] < CAPACIDAD

(* A write: outside, into a pipe with room, or into one that nobody reads, *)
(* which kills the program (SIGPIPE).                                      *)
Escribir(q) ==
    LET t == proc[q].sale
    IN  /\ proc[q].fase = "corre" /\ proc[q].resto > 0
        /\ \/ /\ t = EXTERNO
              /\ proc' = [proc EXCEPT ![q].resto = 0] /\ UNCHANGED tubo
           \/ /\ t # EXTERNO /\ Lectores(t) # {} /\ Cabe(t)
              /\ proc' = [proc EXCEPT ![q].resto = @ - 1]
              /\ tubo' = [tubo EXCEPT ![t] = @ + 1]
           \/ /\ t # EXTERNO /\ Lectores(t) = {}
              /\ Morir(q) /\ UNCHANGED tubo
        /\ UNCHANGED <<ordenes, fallos>>

LeerDato(q) ==
    LET t == proc[q].entra
    IN  /\ proc[q].fase = "corre" /\ proc[q].lee /\ proc[q].resto = 0
        /\ t # EXTERNO /\ tubo[t] > 0
        /\ tubo' = [tubo EXCEPT ![t] = @ - 1]
        /\ proc' = [proc EXCEPT ![q].resto = 1]
        /\ UNCHANGED <<ordenes, fallos>>

(* A program that reads ends with its input.                               *)
TerminarPrograma(q) ==
    /\ proc[q].fase = "corre" /\ proc[q].resto = 0
    /\ proc[q].lee => SinEntrada(q)
    /\ Morir(q)
    /\ UNCHANGED <<tubo, ordenes, fallos>>

PasoShell(p) == Lanzar(p) \/ Cerrar(p) \/ Recoger(p)
PasoPrograma(q) == Preparar(q) \/ Escribir(q) \/ LeerDato(q) \/ TerminarPrograma(q)

NextShell == \E p \in Procesos :
    \/ LeerOrden(p) \/ LineaVacia(p) \/ FinEntrada(p)
    \/ PasoShell(p) \/ LanzarFalla(p) \/ PasoPrograma(p)

SpecShell == InitShell /\ [][NextShell]_varsShell

(* The processes run.  A shell that is not the first gets the end of its   *)
(* input some day, or the lines of its pipe: the user ends the session of  *)
(* a command that did not exist.                                           *)
JusticiaShell ==
    /\ WF_varsShell(PasoShell(SHELL))
    /\ \A p \in Procesos \ {SHELL} :
          WF_varsShell(PasoShell(p) \/ PasoPrograma(p) \/ FinEntrada(p) \/ LineaVacia(p))

SpecShellJusta == SpecShell /\ JusticiaShell

-----------------------------------------------------------------------------
(* Properties                                                              *)

(* Types; a pipe holds no more than its size, only who waits or has just   *)
(* created a child remembers it, and that child is its own and not yet     *)
(* collected: otherwise while (wait(&status) != pid) would never end.      *)
TypeOKShell ==
    /\ \A p \in Procesos :
          /\ proc[p].padre \in Procesos \cup {INIT} /\ proc[p].fase \in FasesShell
          /\ proc[p].entra \in Tuberias \cup {EXTERNO} /\ proc[p].sale \in Tuberias \cup {EXTERNO}
          /\ proc[p].abiertas \subseteq Tuberias /\ proc[p].resto \in Nat
          /\ proc[p].fase \in {"cierra", "espera"} =>
                /\ proc[p].hijo \in Procesos
                /\ proc[proc[p].hijo].padre = p /\ proc[proc[p].hijo].fase # "libre"
    /\ \A t \in Tuberias : tubo[t] \in 0 .. CAPACIDAD
    /\ ordenes \in 0 .. MaxOrdenes /\ fallos \in 0 .. MaxFallos

(* A shell at its prompt holds no pipe, and a program only those of its    *)
(* input and output, however orders in the background and shells inside    *)
(* shells pile up, unless a fork failed: a forgotten end would keep the    *)
(* reader of the pipe waiting, or its writer alive.                        *)
DescriptoresCerrados ==
    fallos = 0 =>
        \A p \in Procesos : proc[p].fase \in {"lee", "corre"} => proc[p].abiertas = {}

(* "Padre espera a que el hijo termine": when a shell is back at its       *)
(* prompt, what it still has running was launched in the background, even  *)
(* if the waits of an order have collected children of another.            *)
PrimerPlanoAcabado ==
    \A p, q \in Procesos :
        /\ proc[p].fase = "lee" /\ proc[q].padre = p
        /\ proc[q].fase \in {"nuevo", "lee", "lanza", "cierra", "espera", "corre"}
        => proc[q].fondo

(* A program writes to a full pipe that only shells hold: in the           *)
(* foreground the reader is created after the writer has ended.            *)
Atasco ==
    \E q \in Procesos :
        LET t == proc[q].sale
        IN  /\ proc[q].fase = "corre" /\ proc[q].resto > 0
            /\ t # EXTERNO /\ tubo[t] = CAPACIDAD
            /\ \A p \in Lectores(t) : proc[p].fase = "espera"

(* When no more orders come, every wait of a shell and every program of a  *)
(* pipeline ends, in the foreground or in the background, unless a fork    *)
(* failed or a program writes more than a pipe holds before its reader     *)
(* exists.                                                                 *)
TodoTermina ==
    <>[](\/ fallos > 0
         \/ Atasco
         \/ \A p \in Procesos : proc[p].fase \notin {"espera", "corre"})
=============================================================================
