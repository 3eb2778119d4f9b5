# Verification of the UC3M practicals

TLA+ models, TLC runs and TLAPS proofs for the repository `mvaello/UC3M`: the
practicals of three courses, whose largest program is the *Minikernel*, a small
operating system. The models follow the code in `src/`; `PROJECT.json` maps each
definition to the lines it stands for.

## 1. The system

### The Minikernel (`src/DSSOO/Minikernel Parte 3/`)

Parts 1, 2 and 3 are three stages of one kernel, and Part 3 contains the others:
Part 3 is the one modelled. It runs on a simulated machine (`HAL.o.bak`, only a
binary) with one CPU and three interrupt levels: clock (3), devices (2),
software interrupt (1). Paths below are relative to `minikernel/`.

| Component | State | Operations | What makes it correct |
|---|---|---|---|
| Scheduler and process table, `nucleoBasico/ListaBCP_Planificador.c` | `tablaProcesos`, `procesoActual`, `listaListos`, `listaPrioridad`, `listaDurmiendo`; one link `siguiente` per BCP | insert at the end, insert in order of waking up, remove the first, `planificador`, free slot | a process is in one list at most, and its state says in which; no ready process is starved |
| Interrupts, `nucleoBasico/Interrupciones_Excepciones.c` | `ticks`, the ring `listaTareasPend` | `interrupcionReloj`, `interrupcionSoftware`, `despertarDormidos`, `planificarRodaja`, `esperaInterrupcion`, device interrupts, exceptions | tasks run once and in order; nobody due stays asleep, even if the ring discards tasks |
| System calls, `nucleoBasico/LlamadasSistema.c` | the BCPs | create (two priorities), end, sleep, pid, time, files, volumes | a sleeper sleeps the time it asked and wakes up |
| Start-up, `minikernel.c` | | tables, vectors, drivers, process `init` | |
| Keyboard, `modulosCargables/modulo_teclado.c`, `tablasDinamicas/bufferCaracteres.c` | ring of characters, list of blocked readers | hardware handler, software task, read | no wake-up is lost; a reader woken gets a character |
| Disk, `modulosCargables/modulo_disco.c`, `tablasDinamicas/listaPeticiones.c` | current request, queue of requests | block request (merged with a pending one), hardware handler, software task | each request is served once, all its processes are woken, none runs on freed memory |
| discoFS, `modulosCargables/modulo_discoFS.c`, tables of inodes, mounts and file systems | maps of inodes and blocks, inodes in memory | mount, synchronise, open, read, write | no block belongs to two files; what is read is what was written; what is synchronised is what memory had |
| Descriptors and devices, `tablasDinamicas/tablaDescFicheros.c`, `tablaDispositivos.c`, `tablaDrivers.c` | one table per process, one of devices | open, read, write, seek, close; copied to each child | entries are reserved once |
| Screen, debugFS | none | output | |

They interact through shared memory and function tables. A system call runs with the
software interrupt masked; an interrupt handler only touches its device, the ring of
tasks and the counter, and leaves the rest to a software task; a task touches the lists.
A call on a file goes from the descriptor to discoFS, which asks the disk driver for
blocks and waits for each one. A call that must wait puts its process in a list, takes
another from `planificador`, and, if there is none, runs the tasks itself in an idle
loop until there is.

The hard parts: interrupts between any two steps (also of another handler), a
ring that discards when full, a context switch in the middle of the loop that
runs the tasks, an idle loop that runs on the stack of a process that is blocked
or even dead, and tests made before a switch and used after it.

### The other programs

| Program | State and concurrency | Hard part | What makes it correct |
|---|---|---|---|
| `SSOO/Practica 3 .../parking.c` | a thread per car, one for the park, a mutex, two conditions | `waitingCars++` outside the mutex; signals that name nobody | never more cars than places; every car that enters leaves; the program ends |
| `SSDD/Colas de Mensajes/cadena_montaje.c` | a father and three processes over two bounded message queues | a failing process unlinks the queues of the others; all must agree on the number of messages; queues outlive the program | the output is the input in lower case; nobody waits for ever; no queue is left |
| `SSDD/Sockets 1`, `Sockets 2` | a thread per client, hand-over of the socket through `busy`, a stream each way | several messages in one read; commands broken half-way | client and thread stay in step; totals are those of the whole file, if its chars are ASCII |
| `SSOO/Practica 2 (MiniShell)` | processes of a pipeline, pipes, background | forgotten ends of pipes; `wait` collects any child; children that go on as shells | pipelines end; the prompt waits for its own children |
| `SSDD/RPC`, `SSDD/gSOAP` | a counter per operation | none | |
| `SSOO/Practica 1`, `Ejercicios` | sequential | none | |
| `SSDD/Sockets 2/gnu` | vendored getopt | | |

## 2. Modules

| Module | What it is |
|---|---|
| `ListaBCP` | the process lists as sequences, and `planificador`, as operators |
| `Nucleo` | the kernel: processes, clock, tasks, round robin, idle loop |
| `PlazoSleep` | `Nucleo` with a history variable that measures how long each process sleeps |
| `TareasPend` | the ring of pending tasks, one memory access at a time |
| `ColasBCP` | abstract specification: what the list functions promise |
| `ListaEnlazada` | the lists with pointers; implements `ColasBCP` |
| `Teclado` | the keyboard driver composed with `Nucleo` |
| `BloquesAtomicos` | abstract specification: a device that serves blocks one at a time |
| `Disco` | the disk driver; implements `BloquesAtomicos` |
| `DiscoFS` | the file system, over `BloquesAtomicos`, with a machine that stops |
| `Parking` | the car park |
| `CadenaMontaje` | the assembly line over message queues |
| `Sockets` | server and clients of both versions |
| `MiniShell` | the shell, its processes and pipes; like those of `CadenaMontaje`, its `Init`, `Next` and `Spec` carry its name, since one module proves about it and another program |
| `MC*` | values of the constants for TLC |
| `SecuenciasLemas` | lemmas on sequences used as queues, for all the proofs |
| `ListaEnlazadaProofs`, `NucleoProofs`, `TareasPendProofs`, `DiscoProofs`, `DiscoFSProofs` | the proofs about each component of the kernel; those of `Teclado` are in `NucleoProofs` |
| `SSOOProofs`, `SSDDProofs` | the proofs about the other programs: `Parking` and `MiniShell`; `Sockets` and `CadenaMontaje` |

`TareasPend` and `ListaEnlazada` justify from below what `Nucleo` takes as given:
that the clock inserting a task, or the kernel taking one, is one step, and that a list of
linked BCPs is a sequence.
The second needs each process to be in one list at most, which is what `Nucleo`
is proved to keep (`Particion`). `Disco` does the same for `DiscoFS`, which is
written over `BloquesAtomicos`, the specification `Disco` is proved to implement.

### From the code to Nucleo

* A BCP is its number. `estado`, `prioridad`, `ticksDespertar`, `rodaja` are the
  fields; `contexto[p]` stands for `contextoRegs`, and tells where `p` goes on:
  in its program, after the `cambio_contexto` of its system call, or inside the
  loop of `interrupcionSoftware` where it was preempted.
* `modo` is what the CPU does: one of those for `procesoActual`, or the idle loop
  of a call (`espera`) or of `liberarProceso` (`esperaFin`), or nothing.
* `listos[PRIORIDAD_ALTA]` is `listaPrioridad`, `listos[PRIORIDAD_NORMAL]` is
  `listaListos`.
* `intSW` is the software interrupt activated and not yet delivered (not a
  counter); `tarea` is the task under way.
* A system call up to its context switch is one action: the software interrupt
  is masked, so that only the clock's and the devices' handlers run meanwhile,
  and they touch nothing the call reads, except `ticks`, read once by
  `sis_sleep`, and the ring of characters, read once by `peticionCaracter`.
  The idle loop is not part of that action: it has steps of its own (tasks taken
  and executed, `FinEspera`), between which anything may interrupt.
* Each task is taken (`ObtenerTarea`) and executed as separate steps, and
  `despertarDormidos` takes a step per process, so that the clock can come in
  between.
* `init` stays `LISTO` while it runs first, as the code leaves it; a process
  chosen by `liberarProceso` stays `LISTO` too. `Particion` allows both.
* The last process to end stops the machine, inside `liberar_imagen`: `Apagar`.
* `pid` and `time` change nothing. A failed creation changes nothing.

### From the code to Teclado

The actions of `Nucleo` are used as they are, with the driver's task and two more
points of a system call: `leer` (about to ask for a character) and `extraer`
(back from the switch of `peticionCaracter_teclado`). `RecibirCaracter` is a turn
of the loop of `leerFichero_teclado`, which ignores the result: after a failed
extraction any character may be in the user's buffer.

`interrupcionHW_teclado` runs at level 2 and the clock interrupts it. Its insertion is
a step for each load and store of `lista->ultimo` that matters (`manejador`, `indice`):
`InterrupcionHWTeclado` up to the first load, `PonerFuncion`, `CargarUltimo`, `PonerUltimo`.
A clock in between may put its task over the keyboard's, leave whatever the slot had
in the ring (the task of another device, or a null function, on which the kernel stops:
`Panico`), drop its own tasks, or empty a ring it had filled. `donde` tells where the
keyboard's task is by then. `perdidas` is a history variable: how many tasks of the
characters now in the buffer have been lost, by a full ring or in one of these ways.

### TareasPend and ListaEnlazada

In `TareasPend` the handler of a device is a small program (test, load the index,
store a field, ...), and the clock's two insertions are one step, since nothing
interrupts them; they may come between any two steps of the handler. The consumer
only moves when no handler is active. Two history variables say what the ring should
be: `cola`, the tasks accepted and not yet run, and `roto`, that the clock has fallen
inside a device's insertion and the ring has not been empty since. In
`ListaEnlazada` the header of each list and the link of each process are
variables; links of processes taken out are left as they were.

### From the code to Disco and BloquesAtomicos

* A request is a record in memory, at an address `malloc` returns; `peticiones` is
  that memory, `NULL` where it is free. `peticionActual` and `listaPeticiones` hold
  addresses, as in the code.
* `PeticionBloque` is `peticionBloque_disco` up to its context switch (join the
  queued request for the block, or create one and start it or queue it), and
  `Reanudar` the part after it: count down and free. `pide` are its locals.
* `InterrupcionHW` is the end of a transfer with `interrupcionHW_disco`, and
  `InterrupcionSW` the task. `PeticionFallida` and `InterrupcionSWFallida` are the
  returns after a DMA that does not start; the ring of tasks may be full as well.
* The scheduler is left to `Nucleo`: any process that is ready may go on. Nothing
  else runs between two waits of a call, so each action is one step of the CPU.
* A block has a value. What it has and who waits for it map to `BloquesAtomicos`:
  a request takes effect when its transfer ends, although each process gets
  the data later, from memory that must still be there.

### From the code to DiscoFS

* One volume: superblock, a block for each map, a block per inode, and the data.
  A file has one block (`bloqueDirecto`), as in the code.
* Each system call is cut at its waits for the device, and `llamada` keeps what its
  locals have across them: a read is one request, a write smaller than a block two,
  a synchronisation one for each map and inode.
* `desc` is a process's table of descriptors, with one entry: a second descriptor of
  one process adds nothing to what two processes do. `CrearProceso` copies it, so that
  both have the address of the same `datosPropiosDescFichero`, as `crearTarea` does;
  `byteSiguiente` has the position at each address and `reservados` are those not freed.
* `Cerrar` frees that address, whoever else has it. Who goes on using it reads what the C
  library left there (`Basura`) and writes it; another file opened meanwhile may be given
  the same address; and closing it again stops the machine, since the C library aborts the
  program. `GrabarBloque` copies wherever the position is, though only the bytes inside the
  block are modelled.
* `Apagon` stops the machine at any moment: the memory goes and the device stays.
* Histories: `contenido` is what has been written to each file. `mezclado`,
  `compartido`, `cruzado` and `sinMapa` record the cases in which the code makes no
  promise: two writes of one file at once, a descriptor that two processes use at
  once, an inode found on the device whose block is not in the map there, a block
  assigned in the middle of a synchronisation. The properties exclude exactly them.

### From the code to Parking

The phase of each car is where its thread is in `car`; a step is what it does with
the mutex held, but `waitingCars++` and `waitingCars--` are a read and a write,
because the first is made without the mutex. The conditions are the sets of threads
in a phase; a wait may end without a signal. The number of floors is an argument of the
program, any positive number. `parkingStatus` has as many entries as the loops visit,
`SizeofPuntero`, which is the size of a pointer in the code, and one more, that of the
car for which `parkCar` finds no place; which nobody initialises if it is of a floor.
With few floors the loops leave the array (`Ajenas`), and `parkCar` finds there what others
have written (`Visto`); with many they do not reach the last ones.

### From the code to CadenaMontaje

A queue has a name, which `mq_unlink` takes away, and goes on living while somebody
has it open: a queue is named by its name and its creator. Each child is a sequence
of calls (`fase`): open, receive or send, close, unlink; any one of them may fail and
then the child does what the code does there. `Relanzar` is the program killed at any
moment and launched again over what was left.

### From the code to Sockets

`exacta` chooses the version: in Sockets 2 a single read asks for the bytes of the code,
of the rest of the header or of a block, in Sockets 1 for whatever has come. No read is
repeated if it gets less, so the model assumes that what a write sends arrives whole. A
file is a sequence of chars, which are signed: what one adds to a hash (`Peso`) may be
negative, and `Local` and `Acumular` are unsigned, modulo `UINT`. `ida` and `vuelta` are
the two directions of a connection, as what each read of the exact version asks for.
`busy`, `principal` and the phase `creado` of a thread are the hand-over of the socket.
A client may die at any moment, its own file may fail in the middle of a command, and a
thread may not be created.

### From the code to MiniShell

Each process has its father, its point of the code, its variables `fd1` and `fd2`, its
standard input and output and the pipes it has open besides; the two ends of a pipe
are opened, copied and closed together everywhere in the code, so a pipe counts as
open or not. A program writes some text, or copies what it reads, or does not exist.
A child whose `execvp` fails goes back to the loop of `main`.

## 3. Runs

| Run | What it shows |
|---|---|
| `plazo` | three processes, two priorities, a ring of three tasks that often discards, wake-up times 0 or 2 ticks away: types, `Particion`, `DormidosOrdenados`, `NingunRetraso`, and nobody wakes up before its time (`DuermeSuPlazo`) |
| `nucleo_vivo` | liveness, with three processes, two priorities, three ticks of the clock, sleeps of 0 and 1 second and a ring of two tasks: every sleeper is made ready, every ready process runs (`ListoEjecuta`; one of normal priority unless there is always one of high) |
| `tareas` | two devices and a clock that comes anywhere: the ring is the queue of the tasks accepted, full or not, and what a clock inside an insertion spoils is gone when the ring next empties |
| `tareas_disp` | that clock leaves the device's task overwritten, or not at the end of the ring: section 5 |
| `lista_enlazada` | the pointer lists implement the queues, with four processes in two lists |
| `teclado` | two processes read and sleep: lists shared with the driver, no wake-up lost but by a full ring or by a clock inside the handler, and no reader blocked for ever beside a character whose task was not lost |
| `disco` | three processes, two blocks, four addresses, one failure of the DMA or of the ring: memory of requests, queue, `ImplementaBloques`, every request ends |
| `discofs` | two processes, two names, blocks of three bytes and writes of two, so that some are cut, one stop of the machine and one synchronisation; descriptors are inherited and closed by either: blocks of files, contents, what a read finds, what a synchronisation and a stop leave |
| `parking` | three cars, floors of one place, one, two or three of them with loops that visit two: places counted, nobody inside at the end, nobody waits for ever |
| `cadena` | three files (one ends in the middle of a block, one fills it, one is longer than the queues), one call that fails, two launches |
| `sockets` | two clients, both versions of the server, three files (one whose only block adds less than zero, one whose last block is empty, one whose last block adds less than zero to a larger total), two commands, one failure |
| `minishell` | two orders of nine, of one to three commands, in the foreground and in the background, with programs that are missing or write more than a pipe holds, and a fork that fails |

`MCTecladoTres.cfg` is a larger instance of `teclado`, with three processes, for the
safety properties alone. It takes longer: `tlc -config MCTecladoTres.cfg MCTeclado`. The
configurations of section 5 are the others that are no run.

Bounds. In the kernel, three processes give every shape the lists can have: two in
one list and one in another, two equal times with a third inserted, somebody to run
while two wait. `MAX_TAREAS = 4` makes a ring of three tasks, which two clock
interrupts overflow; in `nucleo_vivo` it is 3, and one fills it. Three ticks there let
a process be woken while another sleeps on, and a switch in the middle of the loop of
tasks leave sleepers behind. The counter stops at `MaxTicks` while interrupts go on; a process
only sleeps until a time the counter gets past, so that nobody sleeps for ever because
of the bound. `MOD` stands for 2^32 and is out of reach except in
`MCPlazoDesborde.cfg`, where it is 8. A slice of one tick makes each clock interrupt a
switch, the case with most interleavings. The ring of characters has two usable
places, so that it fills and wraps; of the keyboard's ring of tasks, the first of the
clock's tasks may be the last that fits, or both, or none.

In the other modules: three processes and two blocks put two processes in one request
and another in the queue; one address more than processes is enough, since a request
without processes is freed, but for one whose first transfer failed. Two processes make
every race of discoFS, whose calls never involve three; the data blocks are enough for
the volume not to fill up, since a file that takes a second block needs the room. Three
cars for one, two or three places make some wait outside and two compete for an order;
the floors may be fewer than those the loops visit, as many, or more. An unsigned int of
16 wraps around with a negative block, and is no multiple of 3, the modulus, as 2^32 is
none of that of the code. Two launches are one to leave queues and one to find them. Two
commands are enough for one to find what the one before left in the connection. Two
orders put one in the background beside another, and shells inside shells read more.

Fairness. The clock is periodic and the kernel's own code does not stop: weak
fairness of the clock, of the delivery of the software interrupt, and of the
tasks. The loops of `interrupcionSoftware` and of the idle process end when they
find the ring empty, even if the clock fills it again at once: strong fairness.
`RelojLento` says that time and again all the pending tasks get done, since a
clock interrupt comes each 10 ms and a task takes microseconds; without it a
clock that never lets the tasks finish would starve every process. Nothing is
assumed of programs or of the user at the keyboard.

In `Disco` the device ends its transfers, tasks run and a ready process gets the CPU,
which is what `ListoEjecuta` says of the kernel. In `Parking` each thread runs, and the
mutex, which is free again and again, is got some day by each that wants it (strong
fairness): the code has loops that take it and release it without end. In
`CadenaMontaje`, `Sockets` and `MiniShell` processes and threads run (weak fairness); no
order, command, failure or kill has to happen. In `MiniShell` the input of a shell other
than the first ends some day: the user ends the session of a command that did not exist.
So `TodoTermina` says nothing against that session; see section 5, number 16. `DiscoFS`
has no liveness property: its calls are sequences of requests, each of which ends
(`TodaPeticionTermina`).

Each property of a passing run has a mutant: an operator beside the definition it
replaces, marked `Mutant`, with which TLC finds the property violated.

## 4. Proofs

Everything listed here holds for every value of the constants that their `ASSUME`s
allow: any number of processes, tasks, keys, blocks, inodes, cars, failures or stops.
`SecuenciasLemas` has what the proofs need of sequences: members and injectivity after
inserting, removing or taking the first ones, the position an ordered insertion chooses.

### The lists of BCPs (`ListaEnlazadaProofs`)

* `EnlacesImplementanColas`: `Spec => ImplementaColas`, the refinement of `ColasBCP`. The
  invariant `InvEnlaces` says that there are sequences, one for each list, that the
  pointers represent (`Representan`): `primero` and `ultimo` are their ends, the link of each
  process is the next one and that of the last is `NULL`, no process is in two, and the
  lists of sleepers are in order. An operation moves one header and two links at most, so
  `Enlazar` and `Desenlazar` show which sequences the new pointers represent, whichever
  of the four cases of `insertarOrdenadoListaBCP` put the process there. That the walk from
  `primero` reads those sequences and no others (`UnicosRecorridos`) is the part about
  the recursive `Avanzar`: the sequence satisfies its equation, and of another function
  that did, the least place where they differ would be impossible. The order of the
  sleepers is needed by the refinement: `insertarOrdenadoListaBCP` looks at `ultimo` before it
  walks.

### The kernel (`NucleoProofs`)

* `TiposCorrectos` and `CadaProcesoEnSuLista`: `Spec => []TypeOK` and
  `Spec => []Particion`. The invariant is `Inv == TypeOK /\ Particion`, inductive as it
  stands: the two ready queues, the sleepers and the running process are disjoint, and
  each step moves one process from one of them to another. Three facts carry it: what
  the members of a queue are after an insertion (`Miembros`), what is left of the
  queues once `planificador` has taken the first (`Reparto`), and that lists without
  common members stay so (`Separadas`).
* `DormidosSiempreOrdenados`: `Spec => []DormidosOrdenados`, from `InsertarEnOrden` on
  `insertarOrdenadoListaBCP`, and `Particion`, because a process that calls sleep changes
  its `ticksDespertar`: it must not be in the list already.
* `NingunDespertarPerdido`: `Spec => []NingunRetraso` if `MaxTicks < MOD` (the counter
  does not wrap). `NingunRetraso` is not inductive: when the ring is full the clock
  discards the new `despertarDormidos`, and one must be there already. The strengthening
  is `EnPares`: the ring alternates the two kinds of task, with a `planificarRodaja` in
  front or not, so a full ring of two usable places or more has one (hence
  `MAX_TAREAS >= 3`).
* `NadieDespiertaAntes`: `SpecPlazo => DuermeSuPlazo`, an action property, under the same
  condition. The invariant ties the history to the code: what a sleeper has left to
  sleep is no more than `ticksDespertar - ticks`, or nothing, so whoever is woken with
  `ticksDespertar < ticks` has slept enough.

### The ring of tasks (`TareasPendProofs`)

* `AnilloSiempreCola`: `Spec => []BufferEsCola`, with the clock anywhere. `EsCola(T, p, u, c, k)`
  says that the slots from `p` to `u` hold the queue `c` but its first `k` tasks; the
  invariant says of each point of the handler and of the software task which of its
  accesses are done, what index it has loaded, and that the ring was not full when the
  handler looked. All that is while the ring is not spoilt (`roto`); of a spoilt one it
  keeps the types, and what matters is that it ends: when `primero` reaches `ultimo` nothing
  is left of it. The arithmetic of the ring is done once, in `CuentasDelAnillo`.

### The keyboard (`NucleoProofs`)

* `TiposDelTeclado`, `LectoresEnSuLista` and `TeclaDespierta`: `SpecTeclado =>` always
  `TypeOKTeclado`, `ParticionTeclado`, `SinDespertarPerdido`. The driver has a list of its
  own that shares the link of the BCPs with the kernel's. For the proof its readers are kept
  out of the kernel's lists, as the running process is, and so the kernel's lemmas
  on `Reparto` serve unchanged for the actions of the kernel. The count of
  `SinDespertarPerdido` needs two facts more: a task is under way only inside
  `interrupcionSoftware`, and a reader that comes back from its switch still has
  something to read (`PuntosTeclado`). The steps of the handler need a third, `InvInsercion`:
  what the clock has put in the ring since the handler loaded its index are tasks of
  its own, so that storing the function goes over no task of the keyboard. So a character
  without a wake-up is always one of those counted in `perdidas`.

### The disk driver (`DiscoProofs`)

* `TypeOKDiscoCumple`, `ReferenciasExactasCumple`, `ColaCoherenteCumple`: the memory and the
  queue of requests. The invariant has a part for each thing a step relies on: `Servicio`
  (the device is stopped with a request in service only after a failure), `Cola` (the
  requests pending are in memory, once each, and no two queued ones for a block), `Esperas` (a
  process that is ready again has a request that is not pending, so that its return
  frees nothing the driver still reaches), `Cuentas` (the count of a request is its processes,
  its list those that wait). That `Len(listaPeticiones) <= NumBloques` follows from
  `Cola` by counting blocks.
* `ImplementaBloquesCumple`: `Spec => ImplementaBloques`, the refinement of
  `BloquesAtomicos`. It needs one more part, `Efectos`: a request that writes has the value
  of the last of its processes that writes, and one that reads has no writer. Then each
  step of the driver is a step of the device or none: joining or creating a request is
  `Pedir`, the end of a transfer serves all the processes of the request (`Servir`), the
  return of a process is `Terminar`, and tasks, launches and failures are not seen. Those
  who wait for a block are the list of the request in service followed by that of the
  queued one; `EnPedido` and `PrimerosDe` say what joining and serving do to it.

### discoFS (`DiscoFSProofs`)

* `TiposDelSistema`, `BloquesSiempreSeparados`, `ApagonSiempreSeguro`: `Spec =>` always
  `TypeOKFS`, `BloquesSeparados`, `ApagonSeguro`, also after a process has closed a descriptor
  that another goes on using. None is inductive: a block of a file is not only in its inode in memory.
  * `Separados` collects the blocks of an inode wherever they are (`Suyos`): in memory, if
    the file has bytes or a call is writing it; in a call that waits to change a block; in a
    request that will write the inode; on the device. All those are marked, and of no
    other inode. An inode in memory without bytes whose calls have ended is left out on
    purpose: two first writes at once may leave a block that nobody has
    (section 5, number 6).
  * `MapaAntes` is the order of `sincronizarVolumen_discoFS`: a request that writes the map of
    blocks takes all those in use but the ones assigned meanwhile (`sinMapa`), and a call
    past the map left them on the device; so every inode written, or to be, has its
    block there or in `sinMapa`.
  * `Propios` and `Caben`: while no two processes have used one descriptor at once, its data
    are not freed, two calls on files have different positions, what each copies fits, and
    no inode is longer than a block, in memory, in a request or on the device.
  * `Colas` and `LlamadasBien`: who is in the queue of a block, and which request each call
    waits for. A step of the device serves the first requests of a queue: `Deja` is what it
    leaves, and what each served one gets is what some request for that block was to write
    or what there was (`ServirDeja`), which is all the other parts use.
* `ContenidoSiempreEscrito`: `Spec => []ContenidoEscrito`. A second invariant, `InvDatos`,
  proved on top of the first: who may change the block of a file between the read and the
  write of `escribirFichero_discoFS`.
  * `UnEscritor` and `SuBloque`: a file that no two calls have been at has one call writing
    it at most, in the block its inode has. `GrabanLoSuyo`: a call that writes a block, even one
    whose file has since got another, writes a marked one that no other file has. So
    the block of a file is written only by the call at it (`SuUnicoEscritor`).
  * `MismoInodo` and `Posiciones`: descriptors with the same data are of one inode, and
    their position is not past its end, so a write leaves no hole.
  * `DatosInodos` and `DatosLlamadas`: the bytes written to a file are on the device if nobody
    writes it, and those of a call at it in what it read, in what it is going to write
    and, once served, on the device.
  A step that is not of the calls that write is covered by one lemma (`QuietosDatos`).
* `SiempreSincronizado`: `Spec => TodoSincronizado`, an action property. The invariant is
  `InvFotos`, about what a call that synchronises found in memory when it began
  (its `foto`): memory has no less now (`MemoriaCubre`), since names stay and sizes and
  maps only grow; every request for a block that is not after its own writes no less
  (`ColaCubre`), since the requests for a block are served in order and each takes what
  memory has when it is made; so what the call has passed is on the device
  (`DiscoCubre`), even if another synchronisation wrote it again. The inodes it skips
  were not in memory, so `foto` does not have them (`SaltadosDe`).

### The car park (`SSOOProofs`)

* `TiposDelParking`, `AforoSiempre` and `NadieDentro`: `Spec =>` always `TypeOKParking`,
  `AforoRespetado`, `NadieDentroAlFinal`. The invariant is the three and `LocalesCoche`: the
  car that holds the mutex between the read and the write of `waitingCars` saw
  `occupation < maxCars`, and nobody else can have changed it since; a parked car
  has a floor. `occupation` is the cardinality of the cars inside, so each step of a
  car comes with a lemma on how it changes that set. `NadieDentroAlFinal` follows from
  it and from main, which ends holding the mutex with `occupation = 0`: it holds
  however wrong `waitingCars` is. `parkCar` takes the first floor with a place; that
  there is a first is proved from the well-founded induction of the library.
* `PlazasSiempre`: `Spec => []PlazasExactas`, for any number of floors, fewer or more than the
  loop visits. That a loop that runs past the last floor always stops before it is a
  pigeonhole: a car parks with `occupation <= maxCars`, itself among them, and if no floor had
  a place the cars parked would be all the places. If the loop does not reach the last
  floor, the car goes to the next one, which is of the park, but whose places nobody counts
  (section 5).

### The shell (`SSOOProofs`)

* `TiposDelShell`, `DescriptoresSiempreCerrados` and `PrimerPlanoSiempreAcabado`: `SpecShell =>`
  always `TypeOKShell`, `DescriptoresCerrados`, `PrimerPlanoAcabado`, for any orders, number
  of processes and pipes, whatever a pipe holds and whichever `fork` fails. None is inductive,
  since they speak of a shell at its prompt and the steps that matter come before. `Cerrados`
  says of each moment of an order which pipes the process may hold: the one before its
  command (`Antes`) until it has closed it, and the one after it (`Despues`) once it has been
  opened; a child inherits what its father holds, and closes it. It is about executions
  where no `fork` has failed, as the property is. `Esperado` says that a process that runs and was
  not created in the background is the child that its father has just created and is going to
  wait for: a shell has one at most. That needs `SuHijo`: the child just created is still
  its own and nobody has collected it, though `wait` collects any child.

### The socket server (`SSDDProofs`)

* `TiposDelServidor`, `SesionSiempreEnOrden` and `ResultadoSiempreCorrecto`: `Spec =>` always
  `TypeOKSockets`, `SesionEnOrden`, `ResultadoCorrecto`, for any number of clients and any files;
  that the total is that of the whole file, of the files `CabeEnUint` describes.
  The properties speak of a client at its prompt, so the invariant says for every other
  moment what is in its connection each way and where its thread is (`Conexion`): while it
  sends a file, the thread has not read the command (`Empieza`), or has read its code
  (`LeidoCodigo`, in Sockets 2), or waits for the block the client is at, and for ever if it
  took that block with the header (`AlDia`, in Sockets 1), or has answered it with the total
  up to that block (`Respondido`). A client whose own file broke a command leaves the thread
  at one of the first three (`Rota`), and from there it can only leave; of one that has left,
  what matters is that the thread still finds messages it can read (`Forma`). A step is
  of one connection, so each comes with a lemma about `Conexion` alone and another that
  leaves the others as they were. `Espera` is the hand-over: at most one thread is starting,
  main waits for it with `busy`, and who is still to be accepted has no thread.
* `ResultadoCorrecto` has two halves. `MismoTotal`, that both sides have the same total, is in
  the invariant above. `TotalDelFichero`, that it is the total of the whole file, needs a second
  one, `InvTotal`: while the client sends a file its total is that of the blocks answered
  (`Parcial`), and the answer it has not read adds the block it sent. That block by block is
  the same as all at once (`Parciales`) is an induction over the file, made without an
  induction theorem: the sums of its beginnings, as a function of their length
  (`Cuenta`), exist and are unique because there would be a first length without one, or at
  which two differ; a block adds the difference between two values of that function,
  and remainders by `HASH_MOD` may be taken in between (`RestoDeSuma`); and those by `UINT`
  too if `HASH_MOD` is not used (swap), or if they change nothing (`CabeEnUint`: no block takes
  the total out of an unsigned int).
* `SinNegativosCabe`: a file without chars of 128 or more satisfies `CabeEnUint`, since a block
  adds at most `BUFFER * (HASH_MOD - 1)`.

### The assembly line (`SSDDProofs`)

* `TiposDeLaCadena`, `SalidaSiempreCorrecta` and `ColasSiempreBorradas`: `SpecCadena =>` always
  `TypeOKCadena`, `SalidaCorrecta`, `ColasBorradas`, for any inputs, `tolower`, sizes of block and
  of queue, failures and launches. What the children send is known beforehand: `Mensaje(q, e, i)`
  is the number of blocks, or a block of the input `e`, in lower case in the second queue. The
  invariant (`InvCadena`) says that four counters of messages explain the state: the first
  child has sent `i1`, the second has received `i2` and sent `j2`, the third has received
  `i3`. `Etapa1` to `Etapa3` say what each child is at by then, and `Enlace` what is between
  two of them: the queue holds the messages `j + 1 .. i` and no other, or the two have opened
  different queues, because somebody removed the name in between, and whoever receives waits
  for ever with nothing received. That is what keeps a wrong output out when a child fails
  and removes the queues of the others. Two facts join it to the properties: the blocks one
  after another are the file (`LoEscrito`), and the last child to use a name is the one
  that removes it. Of a launch that found queues of another, the invariant keeps only the
  types.
* `NuncaEsperaMutua`: `SpecCadena => []SinEsperaMutua`, the safety half of `CadenaTermina`,
  for every size of file and of queue: while no call fails and no queue was left, the children
  never wait all for one another over full and empty queues. Who waits to receive has an
  empty queue (`EnlaceVacio`), so who fills it has room, or waits in turn for the one before,
  and the first waits for nobody. `InvUnidas` is what makes the queues of both the same one:
  while nobody fails, the name stays until who receives has received everything, so
  that the `O_CREAT` of whoever opens later opens the same queue.
* The four ask for `CabeEnLaCola`: no input has more than 2^24 - 1 blocks. The number of
  blocks travels as four chars, and line 217 shifts the last one by 8 instead of 24, so
  that what the second child reads is what the first one sent up to there and no further
  (`IteracionesHastaTope`; number 17 of section 5).

### Assumptions

The named `ASSUME`s of the modules, which TLC evaluates on every run: sizes are positive,
the ring of tasks has two usable places or more in `Nucleo`, the two priorities differ,
`Inicial` is a process, and a total with one block more fits in an unsigned int
(`HASH_MOD * (BUFFER + 1) <= UINT`: in the code, 1,000,000 times 1025, below 2^32).
`NULL` is none of the values that share a variable with it: neither a process nor
a task nor a car; in `Disco` and in `DiscoFS` no record of those there can be (`NULLAssumption`);
in `Teclado` not the name of a task. In `ListaEnlazada` no list is used with
both insertions, as in the code, and the wake-up times are naturals. In `CadenaMontaje` the
inputs are sequences of characters that `tolower` knows, none empty (`main` refuses an empty
file), and `SIN_COLA` is no queue.

### Only model-checked

* `LecturaEscrita`, that a read finds in the block what had been written to its file.
* Liveness, out of the prover's reach: `ListoEjecuta`, `LectorAtendido`, `TodaPeticionTermina`,
  `NadieSeQueda` and the like.

## 5. Where the code and its comments disagree

One is a run, `tareas_disp`. The others have a configuration of their own, which finds
the violation in a few seconds: `tlc -config MCTecladoRobo.cfg MCTeclado`, and so on.
Paths of the first ten are under `minikernel/`.

1. `tareas_disp` (`InsertaAlFinal`), `nucleoBasico/Interrupciones_Excepciones.c:57`:
   `insertarUltimaTareaPend` "inserta una tarea al final del buffer de tareas
   pendientes" (line 47), but an insertion by a device handler interrupted by the clock
   shares its slot with the clock's tasks: a task is lost, or gets the data of another.
2. `MCTecladoRobo.cfg` (`ExtraeConExito`), `modulosCargables/modulo_teclado.c:140`: a
   reader tests the buffer before it blocks and not when it runs again, and each key
   leaves a task even if somebody has taken the key already. A reader can be woken
   with the buffer empty; `extraerBufferCaracteres` returns -1, nobody looks, and the
   read goes on with whatever the user's buffer had. The comment at line 156: "cuando
   vuelva a ejecutar, obtener caracter y terminar con exito".
3. `MCTecladoAlta.cfg` (`PrioridadRespetada`), `modulo_teclado.c:216`: a reader is woken
   with `insertarListaListos` even if its priority is high, so it waits behind the
   others (the disk uses `insertarPrioridadesListaBCP`). It gets back to its
   queue at its next preemption.
4. `MCNucleoTareas.cfg` (`TareasAgotadas`), `Interrupciones_Excepciones.c:256`:
   `planificarRodaja` switches inside `interrupcionSoftware`, and what is left in the
   ring waits for the next interrupt or idle loop. It delays tasks up to a tick;
   `NingunRetraso` and the liveness properties hold all the same.
5. `MCPlazoDesborde.cfg` (`DuermeSuPlazo`), `nucleoBasico/LlamadasSistema.c:352`: the
   wake-up time is an unsigned sum that wraps around (after 497 days, or for a sleep
   of 42 949 673 s): the process is woken at the next tick.
6. `MCDiscoFSDoble.cfg` (`BloqueUnico`), `modulosCargables/modulo_discoFS.c:217`: two
   first writes of a file each give it a block; the second replaces the first, which
   stays marked and belongs to nobody.
7. A DMA that fails to start in `interrupcionSW_disco` (`modulo_disco.c:331`) leaves the
   processes of the request that had just ended blocked for ever, and one in
   `peticionBloque_disco` leaves its request as the current one: `ColaCoherente`
   and `TodaPeticionTermina` except those cases.
8. `MCTecladoPerdida.cfg` (`NingunaTareaPerdida`), `modulo_teclado.c:188`: the task of a
   key is lost if the ring of tasks is full, or in the way of number 1, and a reader stays
   blocked beside its character until another key comes. The task is there to "despertar
   procesos bloqueados esperando una tecla" (line 200).
9. `MCDiscoFSCopia.cfg` (`CopiaDentro`), `modulo_discoFS.c:163`: a call cuts what it is going
   to copy by the position, waits for the block, and copies from the position there is
   then. A child has the same `datosPropiosDescFichero` as its father
   (`LlamadasSistema.c:122`): if one moves the position while the other waits, or closes
   the descriptor, which frees them (`tablaDescFicheros.c:250`), the copy leaves the block.
   To close it in both frees the same memory twice.
10. `modulo_discoFS.c:571`: a block assigned while `sincronizarVolumen` is past its map is
   not marked on the device, and the inode may be. After a stop the block is assigned
   again, and two files have it. It is the case that `ApagonSeguro` excludes (`sinMapa`), and
   what follows from it the one that the other properties of discoFS do (`cruzado`).
11. `MCParkingFin.cfg` (`EsperaATodos`), `parking.c:97`: main waits for `waitingCars` and
   `occupation` to be 0, but a car that has a thread and has not counted itself yet,
   or whose increment was lost, is not waited for.
12. `MCParkingPlantas.cfg` (`PlazasDeTodas`), `parking.c:68`: the loops over the floors go to
   the size of a pointer, 8 in a machine of 64 bits. With nine floors or more the cars that
   find no place on the first eight all go to the ninth, however many they are; with three
   or fewer the loops go past the array.
13. `MCSocketsCheck.cfg` (`CheckDelServidor`), `Sockets 2/client.c:358`: `check` starts
   at `CHECK_OK` and an attempt broken by the client's own file prints that the check
   was right.
14. `MCSocketsHash.cfg` (`TotalDeCualquierFichero`), `Sockets 2/server.c:319`: chars are
   signed and `hash_local` is not, so a block with chars of 128 or more may add less than
   zero, wrap modulo 2^32, and take the total away from that of the file. Client and server
   agree all the same, since both do it.
15. In Sockets 1 the server reads the header and the first block together if both
   have come (`Sockets 1/server.c:163`); it then waits for a block and the client for an
   answer. `OrdenTermina` is stated for Sockets 2.
16. MiniShell, `main.c`: in the foreground each command of a pipeline is waited for
   before the next one is created (284), so that one that writes more than a pipe
   holds never ends (`Atasco`); a child whose `execvp` fails (270) goes on as a shell with
   the pipeline's input and output, and its father waits until the user ends that session;
   `<` is applied to the last command and not to the first (253, 264); the pipes of a call
   are left open when a fork fails (221).
17. `cadena_montaje.c:217`: the last byte of the number of blocks is shifted by 8 where
   24 was meant: wrong from 2^24 blocks.

## 6. Not modelled

* Memory images, stacks and registers: inside the HAL; no kernel decision depends
  on them but the end of the last process.
* Options, loading of modules and creation of devices: before any interrupt.
* The descriptors of the raw disk device: a position and a call to `peticionBloque`.
* Of discoFS: a volume that fills up, programs that run while it is mounted (the mount
  is one step), several volumes and file systems, tables of descriptors, inodes or mounts
  that fill up (the code goes on with an index of -1), errors of the device. Of a copy past
  its block, the bytes outside; of freed data, what writing there does to the C library;
  the 32 bits of a position.
* The clock in the middle of `interrupcionHW_disco` when it inserts its task: `TareasPend`
  has what it does to the ring, `Teclado` what it does to a driver, and in `Disco` the task
  is inserted in one step or lost.
* What the car park breaks when its loops write outside the array.
* Screen and debugFS: output, no state that another part reads.
* Parts 1 and 2 of the Minikernel: earlier stages of the same files.
* The user library and programs of the Minikernel: the processes of `Nucleo` make any
  sequence of calls, which contains theirs.
* The history and the parser of the MiniShell: an order taken from the history is an
  order like the others.
* Of the sockets: errors of `read` and `write`, reads that get a part of what a write sent
  (`Sockets 2/server.c`, 220, 299 and 374, read once and do not look at how much came: the rest
  would be taken for the next message), parsing of arguments, and the client in
  Java, which sends the messages of the one in C.
* RPC and gSOAP: the operations of the sockets' server as remote calls. The calls of a
  client go one after another and each counter has its mutex; the transport is
  generated code. The exercises: short sequential programs. Vendored getopt.

About two thirds of the repository's lines are in those items: Parts 1 and 2 of the
Minikernel alone are more than a third, then user programs, the second copies of the
sockets' code, Java, RPC, gSOAP and vendored getopt. Of the rest, much is menus,
messages and parsing of arguments.

## 7. Plan

Done: the modules of section 2, each with its run, and the proofs of section 4.

Every safety invariant and every action property that a run checks is now a theorem, but
for `LecturaEscrita`.
Proofs to come:

1. `LecturaEscrita`, on top of `InvDatos`: the bytes below the size a read has seen are on
   the device from then until its request is served.
2. The safety half of the other liveness properties, as `NuncaEsperaMutua` is that of
   `CadenaTermina`: that somebody can always go on, in the server (`TodoAcaba`), the disk
   (`TodaPeticionTermina`) and the parking (`NadieSeQueda`).
