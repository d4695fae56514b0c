# T.U.K.I. in TLA+

TLA+ models of *The Ultimate Kernel Implementation*, a simulation of an
operating system in five kinds of program (consola, kernel, cpu, memoria,
filesystem) that talk over TCP. The modules are translated from the C source;
`PROJECT.json` names the lines each definition stands for. Names of operations,
queues and semaphores are those of the code.

## The system

| Component | State | Operations | Hard part |
|---|---|---|---|
| **Memoria** (`memoria/`) | list of holes, list of active segments, one segment table per process, the bytes | create/delete table, create/delete segment, compact, read, write | coalescing, two lists that must agree, compaction in place |
| **Kernel: queues and schedulers** (`planificador_*.c`) | NEW, READY, EXEC, BLOCK, EXIT; the state in each pcb; counting semaphores | admit, dispatch, move between queues | six kinds of thread move pcbs by the state they find |
| **Kernel: consoles** (`i_console.c`) | one thread per console, a semaphore in each pcb | create a process, wait for its end, answer | a shared queue of ended processes |
| **Kernel: thread of the CPU** (`i_cpu.c`) | the pcb in EXEC | one branch per code the CPU returns | gives the CPU back or resends the context, once, in every branch |
| **Kernel: resources** (`i_cpu.c`) | instances and a queue per resource | WAIT, SIGNAL | the counter goes negative and must agree with the queue |
| **Kernel: thread of the file system** (`i_file_system.c`) | queue of requests | send a request, receive the answer, make the process ready | races with the thread that blocks the process |
| **Kernel: open files** (`i_cpu.c`, `planificador_utils.c`) | global table, queue of pids per file, table per pcb | F_OPEN, F_CLOSE, F_SEEK | who owns a file, who is woken |
| **Kernel: protocol with memory** (`planificador_utils.c`) | `mutex_socket_memoria`, `puede_compactar`, copies of the tables | request, compaction, resend | two mutexes, one of them handed to another thread |
| **File system** (`filesystem/`) | bitmap, FCBs, blocks | open, create, truncate, read, write | persistence in two places, block arithmetic |
| **CPU** (`cpu/`) | registers, the context it was sent | instruction cycle, address translation | registers that are strings, arrays that are not cleared, which code it returns |
| **Consola** (`consola/`) | none | parse, send, wait | none |
| **Shared** (`shared/`) | none | serialise programs, contexts, tables | what a copy keeps of what it copies |

The consoles connect to the kernel and each sends one program. The kernel asks
memoria for tables and segments, the filesystem for files, and sends one context
at a time to the CPU, which returns it with a code. The CPU and the filesystem
read and write memoria directly, with physical addresses translated before.
Inside the kernel the threads share the queues and meet at semaphores.

What makes each component correct:

- *Memoria*: every byte has one owner; free space is never fragmented by the
  bookkeeping; a process sees its own segments only, and compaction is invisible.
- *Queues and schedulers*: a process is in the queue of its state and in no
  other; semaphores count what they stand for; the CPU runs the process that is
  in EXEC and stores what comes back in its pcb; the degree of multiprogramming
  holds; nobody starves.
- *Consoles*: each console is told how its own process ended.
- *Resources*: the counter says how many processes wait.
- *Open files*: one process at a time has a file open, and its close wakes the
  first that waits.
- *Protocol with memory*: no compaction during a transfer; after it, the kernel's
  copies of the tables are those of memoria; no thread unlocks another's lock.
- *CPU*: a program finds its registers and its memory as it left them, whoever ran in
  between, and reaches nobody else's bytes.
- *File system*: a block belongs to one file at most, the bitmap says which are
  taken, also after a crash; what was written is read back.

## Modules

| Module | What it is |
|---|---|
| `SegmentosPorProceso` | what memoria promises, with no addresses |
| `Memoria` | memoria as it is written; refines the former |
| `Planificacion` | the kernel's queues, schedulers and threads |
| `FileSystem` | the file system's bitmap, blocks and FCBs |
| `Candados` | what the table of open files promises: a lock per file, with a fair queue |
| `ArchivosAbiertos` | the table as the kernel's threads use it; refines the former |
| `Compactacion` | kernel, memoria, CPU and file system around the segment tables; extends `Memoria` |
| `ProgramasAislados` | what the CPU promises: registers and memory per program |
| `Cpu` | the instruction cycle and the copies of the registers; refines the former |
| `MemoriaProofs`, `PlanificacionSiempreProofs`, `PlanificacionProofs`, `FileSystemProofs`, `ArchivosAbiertosProofs`, `CompactacionProofs`, `CpuProofs` | the theorems of each |
| `SecuenciasProofs` | lemmas about sequences that those proofs share |
| `MCMemoria`, `MCPlanificacion`, `MCFileSystem`, `MCArchivosAbiertos`, `MCCompactacion`, `MCCpu` | symmetry sets and values for TLC |

### Memoria

`huecos`, `segmentos`, `tablas`, `id` and `espacio` are `huecos_libres`,
`segmentos_activos`, `tablas_segmentos`, the descriptor counter and the bytes.
The lists are sets whose order is known (holes by base, segments by descriptor),
so "the first that ..." and "the last of the smallest" can still be said:
`list_get_minimum` keeps the later of two equal holes, and so does `MejorHueco`.
One request of the kernel is one action, named as the C function, except the two
loops that change state at each turn (`liberar_huecos_ocupados`,
`compactar_memoria`), one turn per action. The code deletes a table in two passes, the holes
of all its segments first and the lists afterwards; here a segment leaves the list in the
turn that frees it, as nobody reads the lists between the two passes. `fase` is where the thread that serves
the kernel is, and `pendiente` the request the kernel resends after a compaction.
Writes of the CPU and of the file system (`escribir_en_direccion`) interleave with all
of it, except while a compaction is in progress: the kernel holds
`puede_compactar` then, and the CPU is not running.

The environment is restricted to what the kernel and the programs of `consola/`
do: positive pids, one table per process, no segment 0, no segment of zero bytes.
`fase = "colgado"` is a kernel told twice to compact, which waits for a mutex it
holds; `"caido"` is memoria reading through a NULL segment.

### SegmentosPorProceso and the refinement

A table per process, an identifier and a content per descriptor. The mapping
hides the addresses: the content of a descriptor is read through its base, and a
table that is being deleted is gone at once. Compaction must then be a stutter,
and `OUT_OF_MEMORY` and `NEEDS_TO_COMPACT` are told apart by free bytes only.

### Planificacion

`estado`, `motivo` and `restan` are fields of the pcbs; `cola[c]` are the queues of
`colas_planificacion`; `sem[s]` the four counting semaphores that matter between
threads. The others are in the state they count: `proceso_enviado` is the length of
`contextos`, `request_file_system` that of `cola_archivos`, `sem_exit_proceso` the
set of pcbs it is posted in. Each thread has a variable for where it is:

| Thread | Variable | Actions |
|---|---|---|
| console of `p` | `consola[p]`, `recogido[p]` | `crear_proceso`, `AnunciarProceso`, `RecogerExit`, `respuesta_proceso` |
| P_LARGO | `largo` | `EsperarNuevo`, `solicitar_nueva_tabla_de_segmento`, `AdmitirProceso` |
| P_CORTO | `corto`, `candidato` | `EsperarCPU`, `EsperarReady`, `planificar`, `pasar_a_cola_exec` |
| CPU | `hilo_cpu` | `TomarDeExec`, one `Procesar...` per code, `WaitConcedido`/`WaitBloqueado`, `SignalDespierta`/`SignalLibera`, `RevisarEstado`/`RevisarEnExec`, `TurnoPerdido`, `PedirFS` and the three steps of the block that follows it |
| file system | `en_fs` | `TomarPedido`, `recibir_respuesta_fs`, or `RespuestaEnExec`, `SacarDeExec`, `PonerEnReady` |
| sleep of `p` | `en_io` | `bloqueo_io` |

An action goes from one point where another thread can change what the code reads
to the next. `pasar_a_cola_blocked` is one step after IO and WAIT, where nobody else
looks for the process, and three after a request to the file system, whose answer
may come between them. The CPU thread serves one code at a time and the request
of a thread to memoria is one step. It peeks the head of `cola_exec` when
`proceso_enviado` is posted (`TomarDeExec`), and what the CPU returns is stored in that
pcb whatever process it is of.

`RESPUESTA_TARDIA` separates two regimes. With *late* answers the file system answers
after the kernel has blocked the process that waits. With *early* ones it answers at any
moment: it may find the process in EXEC, and then `pasar_a_cola_ready` reads the state
(`RespuestaEnExec`), pops `cola_exec` into the same variable (`SacarDeExec`) and makes
ready what it popped (`PonerEnReady`). The thread of the CPU may block the process and the
scheduler dispatch another between the first two, and it is that one which becomes ready
while it runs; or the queue is empty and the kernel reads through NULL. The calls of
`pasar_a_cola_ready` by the other threads are one step each, also with early answers.

The CPU is what it returns: any code of `OPERACIONES`, and after `LARGO` of them one
that ends the process. HRRN compares ratios that depend on clocks, so sorting gives any
permutation and an ordered insertion any place. `caido` marks a NULL or freed pcb
read by the kernel; nothing happens after it.

### FileSystem

`bitmap` is the set of blocks whose bit is set, `disco[b]` the content of a block
(pointers or one value), `fcb_disco` the files of `PATH_FCB` and `lista_fcb` their
copy in memory. `hilo` is where the program is in the request it serves, with its
local variables. An action ends where the program sleeps `RETARDO_ACCESO_BLOQUE`,
after each access to a block: `aumentar_tamanio_archivo` is `CrearBloqueDirecto`,
`CrearBloqueIndirecto`, `CrearBloqueDeDatos` (one block each),
`sincronizar_punteros_bloque_indirecto` and `TerminarAumento`, which writes the FCB.
`disminuir_tamanio_archivo` sleeps only when it reads its pointers, before it changes
anything. F_WRITE reads the file, changes its copy and writes the blocks back, one
`EscribirBloque` each. `iniciar_fs` is the program killed in any of these sleeps and
started again: the bitmap is mapped and the blocks are written with `fwrite` and
`fclose`, so both are as they were, and the FCBs are read again.

Nothing in the code compares an F_WRITE with the size of the file. One to an empty file writes
the block its FCB names, 0 or the one it had before it was emptied, which may be
another file's by now. The model has it when `ESCRITURAS_DENTRO` is FALSE; the programs of
`consola/` truncate a file before they write to it, and `file_system` and the theorems
assume it. A write past the end of a file that is not empty copies past a buffer and is left
out.

Numbers that are no block keep the meaning they have in the code: 0 is also `NULL` for
an indirect block, -1 is what a full disk gives, and the four bytes of nines after the
pointers are read as a pointer if there are fewer pointers than the size says.

### ArchivosAbiertos and Candados

`archivos_abiertos` is the global table, by names, in the order of `list_add`;
`puntero` and `cola_bloqueados` are fields of its entries. F_OPEN looks the file up in
the thread of the CPU (`PedirApertura`, `EsperarArchivo`), and the entry is added by the
thread of the file system (`RespuestaApertura`), after the file is created if it has
to be (`fs_crear_archivo`), while the first thread waits for `f_open_done`. F_CLOSE is
`CerrarUltimo` or `CerrarYDespertar`. A request is served from the pcb's current
instruction and the entry of its file *when its turn comes* (`enviar_request_fs`).
`caido` is a thread that reads through an entry or a pcb that is not there. The history
variable `usa` says which files each program was told it has.

Programs open files they do not have open, and use and close the ones they have.
In the mapping to `Candados` the owner of a file is the program that `usa` it.
`EXIT` closes nothing (`cerrar_archivos_asociados` is commented out), so a lock may never
be given back, and two programs may wait for each other: `Candados` allows both, and
`EsperaTermina` says that nothing else keeps a program waiting.

### Compactacion

The module extends `Memoria`: an action of the memory module is now taken on a request
in the socket (`pedido`), and leaves an answer (`contestacion`) that carries the tables as
they are then. `hilo_largo` and `hilo_cpu` are the two threads that send requests, with
the process and what it asks for; `tabla_segmento` is the kernel's copy in each pcb and
`contexto` the copy in the CPU. `procesar_respuesta_memoria` calls itself: its calls are the
steps `RecibirCompactar`, `PedirCompactacion`, `RecibirCompactada` and the second
`RecibirSegmento`. OUT_OF_MEMORY is `RecibirSinMemoria`, then a request to delete the
table, then `DesbloquearOtraVez`. A transfer keeps the logical address it comes from, so
that the bytes it uses can be compared with those of the program at any moment.

`ajeno` says that a thread unlocked the mutex another one holds, and the model stops
there: POSIX leaves it undefined, and two threads then read one socket.

### Cpu and ProgramasAislados

Registers are arrays of characters that end in a zero. `strcpy`, `strncpy` and `strlen` are
what they are in C, on arrays of `ANCHO[r] + 1`; `setear_registro`,
`actualizar_registros_pcb` and `limpiar_registros_cpu` are the three copies of `cpu.c`, with
what each leaves as it was: `AX` and `BX` are loaded up to the end of the string, and of
all registers only `AX` is emptied (`sizeof` is that of a pointer). In
`ProgramasAislados` a register is a string, and the bytes MOV_OUT writes after
its end are zeros except for `AX` and `BX` (`CON_RESTO`), where they may be
those of the program before. The mapping reads a register where it is at the moment: in
`registros_cpu` for the program in the CPU, in the pcb for the others.

`en_exec` is the head of `cola_exec`, where `actualizar_pcb` stores what comes back;
the pid of the context is not looked at. `ejecutar_proceso(p, e)` moves `e` to EXEC and
sends the context of `p`. They are the same process under FIFO; under HRRN they may
differ, as `despacho_hrrn` shows. Answers of the file system are late here.

## Runs

All run with `CHECK_DEADLOCK FALSE`: the system stops when every program has been
answered, and the modelled code also has real ends (`colgado`, `caido`).

| Run | Module and constants | Properties |
|---|---|---|
| `memoria_best` | BEST, 5 bytes with two values, 1 of them segment 0, two processes, one id, sizes 1..2, 5 descriptors | `TypeOK`, `Particion`, `HuecosConsolidados`, `TablasConsistentes`, `CompactacionCompleta`, `ImplementaSegmentos`, `CompactacionConserva` |
| `memoria_compacta` | WORST, 6 bytes, two ids, 6 descriptors | `CompactacionAlcanza` is violated |
| `planificacion_hrrn` | HRRN, 3 processes, degree 2, every operation, programs of 2, a resource with no instances, early answers | `TypeOK`, `ReadyContados`, `GradoRespetado`, `RecursosContados` |
| `planificacion_fifo` | FIFO, 3 processes, degree 2, programs of 3, late answers | `TurnoUnico`, `ExitContados`, `EnUnaSolaCola`, `DespachoCorrecto`, `TablasSincronizables`, `DiagramaDeEstados`, `TerminaOEsperaRecurso` |
| `file_system` | 6 blocks of 2 bytes, two files, one of them with block 0 at the start and never emptied, room for every request, no write to an empty file, one restart | `TypeOK`, `DuenioUnico`, `RespuestaPersistida`, `SinFugas`, `ArchivosConservados` |
| `respuesta_propia` | FIFO, `EXIT` and `SEG_FAULT` | `RespuestaPropia` is violated |
| `solo_en_ready` | FIFO, `EXIT` and `F_READ` | `SoloEnReady` is violated |
| `despacho_hrrn` | HRRN, `EXIT` and `IO` | `DespachoCorrecto` is violated |
| `indirecto_existe` | no files at the start, any of them may be emptied and then written, no restart | `IndirectoExiste` is violated |
| `archivos_abiertos` | 3 programs of 3 requests, 2 files that exist or not | `TypeOK`, `UsoExclusivo`, `ColaDeEspera`, `PedidoEstable`, `ImplementaCandados`, `EsperaTermina` |
| `compactacion` | FIRST, 5 bytes, 1 of them segment 0, two processes, one id, sizes 1..2, 5 descriptors | `TypeOKTodo`, `UnaSolicitud`, `PedidoConTabla`, `CopiasAlDia`, `AccesosPropios`, `TransferenciaQuieta`, `SolicitudTermina` |
| `cpu` | FIFO, 2 programs of 3 instructions, AX and CX of 2 bytes, EAX of 3, operands of 1 and 3 letters, 3 bytes of memory each | `TypeOK`, `ImplementaAislados` |

**Bounds.** In memoria, two processes and sizes 1 and 2 in four free bytes (five in
`memoria_compacta`) are the least with holes on both sides of a freed segment, two holes of equal and of
different size to choose from, a request that fits only after compaction, and
segments whose creation order is not their address order; `MAX_DESCRIPTOR` caps a
counter that is never reset. In the scheduler, three processes with degree 2 are
the least where one waits in NEW, one in READY or blocked and one runs, and where
two consoles race for `cola_exit` while a third is admitted; two requests per
program let a process come back from BLOCK or READY and end; three let it come
back twice, or hold a resource while it blocks. The resource has no instances at
first in `planificacion_hrrn`, as some resources of the repository's
configurations, so a SIGNAL wakes the process that waits; in `planificacion_fifo`
it has one, which a process may keep to its end while two wait for it.
In the file system, a file of three blocks takes four with its indirect one, so two
such files do not fit in six blocks and blocks change owner; the sizes include two that
are no multiple of the block, and the restart comes at any of the sleeps.
In the table of open files, three programs and two files are the least with two that
wait for one file, so that their order matters, and with a cycle. In `compactacion`, two
segments of two processes in four free bytes are the least where one must move to make
room for the other: a compaction that moves the table of a process other than the one
that asked, a compaction that waits for a transfer, and the foreign unlock all happen; two
compactions for one request (`colgado`) take the six bytes of `memoria_compacta`. In
`cpu`, two programs of three instructions are the least where one sets a register, leaves
the CPU and stores it after the other has used the same register; operands are shorter
than a register, longer than one of two bytes, and as long as one of three. The three
fits are each used by a run.

**What the runs show.** With late answers, in every interleaving one turn of the CPU
exists (proved for HRRN too) and a console that wakes finds a pcb to pop; each
process is in one queue, that of its state, the arrows of the diagram of states
are the only ones taken, the tables of memoria are those of the processes between
admission and exit, and under FIFO the CPU runs the process that is in EXEC.

With early answers little of this is left: a process may be in two queues, be ready while it
runs, wait for a resource and be chosen all the same, end twice, or have its context stored
in another. What `planificacion_hrrn` shows is what still holds then:
`sem_ready_proceso` counts READY, places in the degree of multiprogramming are neither lost
nor made, and a resource's counter is the length of its queue, whoever is in it.
`TurnoUnico` also holds with early answers if no program makes a segment (proved); with
CREATE_SEGMENT, after which the thread decides by the state of the pcb, a context
may be sent twice or never.

In the file system, whatever grows, shrinks or is written with something in it, and wherever
the program is killed, a block has one owner at most, a file never has a block that is free, what
it had is there after the restart, and only the restart loses blocks.

Without a mutex around the table of open files, F_OPEN and F_CLOSE are nevertheless a
lock with a fair queue, because the thread of the CPU waits for the answer to the one request
that may add an entry. What a pending request of the file system needs of the entry,
the pointer above all, is as it was when the program asked.
In the protocol with memoria, one thread talks at a time, memoria is asked about tables it
has, every copy of a table is right when it is used, an address of the CPU reaches only
bytes of the program, and what a transfer uses does not move before its answer. Every
request ends. All of this up to the first foreign unlock, which is reachable: after
OUT_OF_MEMORY `procesar_create_segment` unlocks `mutex_socket_memoria` once more, and the
long-term scheduler may hold it by then.
In the CPU, under FIFO, no program can tell that another ran in between by its registers, its
memory or its program counter, except for what `AX` and `BX` have after the end of
their string. Under HRRN it is not so: after the dispatch of `despacho_hrrn` the registers
and the program counter of one program are stored in the pcb of another, which loses its
own (TLC finds `ImplementaAislados` violated with `ALGORITMO = "HRRN"`).

**Where the code does not do what it says.**

- `memoria_compacta`. `compactar_memoria` walks the segments in the order they were
  created. If a newer segment lies below an older one, holes remain, the request
  resent after the compaction is told to compact again, and the kernel waits for
  `puede_compactar`, which it holds. `memoria.c:132` says there will be space.
- `respuesta_propia`. A console waits for its own process and pops the first of
  `cola_exit`. `README.md:14` of the repository says the answer goes to the process's
  own console.
- `solo_en_ready`. The request is posted to the file system thread before the process
  is blocked. An answer in between finds it in EXEC, makes it ready, and the block
  that follows puts it in BLOCK too; or the block comes first, and it is another process, or
  NULL, that is taken out of `cola_exec` (`SacarDeExec`). The file system of the repository's configuration
  sleeps fifteen seconds in every access to a block (`RETARDO_ACCESO_BLOQUE`), and F_READ and
  F_WRITE access one at least, which is why `planificacion_fifo` asks what holds with
  `RESPUESTA_TARDIA`.
- `despacho_hrrn`. Between `proximo_proceso_hrrn` and the pop, a process may be inserted at
  the head of `cola_ready`: one process is moved to EXEC, the context of another is
  sent, and what comes back is stored in the first.
- `indirecto_existe`. `PUNTERO_INDIRECTO` is compared with `NULL`, which is also the
  number of the first block. A file whose indirect block is that one is read as one
  block, and the next time it grows it gets another indirect block and loses the
  pointers of the first. `file_system` asks what holds while the first block is taken.

A full disk is in `FileSystem` and in no run: `aumentar_tamanio_archivo` returns the
blocks the file has plus those it was asked for, so `truncar_archivo` never finds fewer
than it needs, and the file gets block -1 and an answer of F_TRUNCATE_OK. `file_system`
asks what holds with room for every request (`HAY_LUGAR`).

## Fairness

`SpecJusta` adds weak fairness of each thread: of each console once it has sent
its program, of the sleep of each process, of both schedulers, of the CPU thread
and of the file system thread. They are POSIX threads in infinite loops, blocked
only at the semaphores and mutexes in their guards; a semaphore has one waiter in
all cases but `puede_compactar`, so weak fairness is enough. That the CPU and the
file system answer, and that `sleep` returns, is assumed. Creating a process is not
fair: no console has to connect. Programs are straight lines, so they end after
`LARGO` requests.

`TerminaOEsperaRecurso` says that every console is answered, except when its process
waits for a resource nobody signals (a process that ends keeps its instances), or when
such processes hold every place in the degree of multiprogramming. It is checked
without `F_READ_FUERA` (the turn of the CPU is lost) and `OUT_OF_MEMORY` (the kernel
may read a freed pcb), with which the code does not promise it. The kernel only logs
`F_OP_ERROR`, but the file system never answers it.

In `ArchivosAbiertos`, the scheduler and the two threads are fair; that a program
goes on to its end, and so closes what it has or exits, is part of the fairness of the
thread that waits for it. In `Compactacion`, the two threads, memoria and the file system
are fair and the programs are not: a request in progress ends whether or not any program
takes another step. Weak fairness of the thread of the CPU is enough although it waits for
mutexes: the long-term scheduler, which could take `mutex_socket_memoria` over and over,
admits each process once, and only the thread of the CPU takes `puede_compactar`. Nothing is
said of how long the long-term scheduler waits, since POSIX mutexes are not fair.
`SolicitudTermina` excepts the second compaction of `memoria_compacta` and the foreign
unlock.

## Proofs

The theorems hold for every value of the constants that the named assumptions allow:
any number of processes, files, resources, blocks, bytes and identifiers, any degree,
any length of the programs. TLC finds every inductive invariant true in the runs of its
module (with the quantifiers over all records or all numbers of `CpuProofs` and
`FileSystemProofs` given their bounds).

| Module | Theorem | What it states |
|---|---|---|
| `MemoriaProofs` | `SiempreTypeOK`, `SiempreParticion`, `SiempreConsolidados`, `SiempreTablasConsistentes` | four invariants of `memoria_best` |
| | `CompactarConserva` | `CompactacionConserva`: no byte of a segment changes in a turn of the loop |
| | `CompactacionEnOrden` | `CompactacionCompleta`: segments that lie in creation order are left with one hole at most |
| `PlanificacionSiempreProofs` | `TipoCorrecto`, `ReadyBienContado`, `GradoNuncaExcedido`, `RecursosBienContados` | four invariants, under any algorithm and with answers of the file system at any moment |
| `PlanificacionProofs` | `UnSoloTurno` | `TurnoUnico`, with answers at any moment unless a program makes a segment, with late ones in any case |
| | `ExitBienContado`, `UnaColaPorProceso`, `TablasDelKernel`, `SegunElDiagrama` | `ExitContados`, `EnUnaSolaCola`, `TablasSincronizables`, `DiagramaDeEstados`, if answers come late |
| | `DespachoEnFifo` | `DespachoCorrecto`, if answers come late and the algorithm is not HRRN |
| `ArchivosAbiertosProofs` | `TipoCorrecto`, `ExclusionDeArchivos`, `EsperaOrdenada`, `PedidosEstables` | the three invariants and the action property |
| | `CandadosImplementados` | the table refines `Candados` |
| `CompactacionProofs` | `MemoriaEnSuEntorno` | `SpecTodo => Spec`: the composed system is a behaviour of `Memoria` |
| | `TipoCorrectoTodo`, `UnaSolicitudPorVez`, `SiempreConTabla`, `CopiasSiempreAlDia`, `SiempreAccesosPropios`, `SiempreQuieta` | the six invariants of `compactacion` |
| `CpuProofs` | `TipoCorrecto` | the type invariant, under any algorithm |
| | `ProgramasAisladosImplementados` | the CPU refines `ProgramasAislados`, if the algorithm is not HRRN |
| `FileSystemProofs` | `TipoCorrecto`, `RespuestasPersistidas` | two invariants, on a full disk too |
| | `BloquesConDuenio`, `BloquesSinFugas`, `ContenidoConservado` | `DuenioUnico`, `SinFugas`, `ArchivosConservados`, under `Hipotesis` |

**Memoria.** None of the four invariants is inductive by itself: that coalescing keeps the partition needs
that a segment's bytes are in no hole; that the hole on the left is *the* one needs
that holes do not overlap; that deleting a table frees each segment once needs that
tables share segment 0 only. `Invariante` is their conjunction. The argument has three
layers: `Consolidar` says what `consolidar_huecos_contiguos` does to a list of
disjoint, separated holes (it covers the same bytes and the new ones, and stays
disjoint and separated); `LiberarSegmento`, `OcuparHueco` and `MoverSegmento` turn that
into what freeing, allocating and moving do to a partition, with no mention of the
state; one lemma per kind of step applies them, and `PasoValido` goes through
`Next`. `MoverConserva` is the arithmetic of `memmove` over overlapping ranges.
`CompactacionEnOrden` needs the invariant of the loop, `Compactados`: no hole lies before
the end of a segment already visited. A move keeps the order of addresses, so the order
may be assumed of all the turns from the last one backwards; and in that order a
segment has no hole below it but the one it touches (`SinHuecoTrasVisitar`), which it
jumps over. `memoria_compacta` is what happens in another order.

**Planificacion.** There are two invariants, one for each regime. `Siempre` holds with answers at
any moment, and so cannot say which queue a process is in: an early answer makes
that false. It says that `cola_new` holds the processes in NEW, that whatever else the
threads and the other queues hold has left NEW (`YaAdmitidos`), and that lengths agree with
semaphores and counters; each insertion into READY posts its semaphore once and each place of the degree is
counted from the admission to the answer of the console, whatever happens in between.

`Tardio` strengthens it for late answers: the life of a process and its console (`Vida`), one queue
per process, that of its state, with the steps of the block that follows a request (`Lugar`),
one resource and one pending request per process (`UnRecurso`, `UnPedido`), and one holder of
the turn of the CPU, which `cola_exec` agrees with (`Turno`). The hypothesis is used where the
file system answers: the process that waits is in BLOCK then, so no thread is in the middle
of moving it, and the steps of an early answer cannot be taken (`NuncaEnExec`). `DespachoEnFifo` adds
that the candidate of the scheduler is the head of `cola_ready`, which only a process inserted
ahead of it could change. Each action has a lemma, and under it one step per part it disturbs.

**ArchivosAbiertos.** `UsoExclusivo` needs to know whom each queue holds
(`ColaDeEspera`) and what each pending request and each point of the
thread of the CPU say of the table (`PedidosCoherentes`): the thread of the file system adds the entry that
the thread of the CPU did not find, and nothing adds it in between because that thread waits.
The refinement maps each action to `Tomar`, `Esperar`, `Soltar` or a stutter.

**Compactacion.** `InvarianteTodo` says what each of the two threads, the socket and
memoria are doing when one of them is at a given point (`Preguntado`, `Contestado`,
`Fases`), whose tables and copies are the same then (`Copias`), and who holds
`puede_compactar` and where the segment of each transfer is (`Transfieren`). The mutex
`mutex_socket_memoria` protects as long as nobody unlocks it for another (`ajeno`);
what does not depend on it holds afterwards too. `MemoriaEnSuEntorno` needs that invariant:
`Memoria` assumes positive pids, one table per process and no second request in the middle
of one, and the kernel keeps to it. With it all the theorems of `MemoriaProofs` are
theorems of the composed system, and the invariant of memoria is a part of this one.

**Cpu.** `strlen` is a `CHOOSE` of a least position, and what the three copies do to a
register is stated of arrays of any width that end in a zero: what is read back is
the string that was written, cut to the width, and the bytes after its end are zeros
in all registers but `AX` and `BX` (`RestoEnCero`). This is the part
of the invariant the refinement needs, because MOV_OUT writes those bytes too. That a context
is stored in the pcb it came from is where the refinement needs that the algorithm is not HRRN:
the process in EXEC is then the one whose context was sent.

**FileSystem.** A block in use is named by the file and the position (`Bloque(f, i)`, 0 for the
indirect block). The invariant says that no two of these names are one block (`SinCompartir`),
also of those that only the FCB in memory knows; that their bits are set (`Reservados`); that the
pointers on the disk are those in memory, or a prefix of them until
`sincronizar_punteros_bloque_indirecto` (`Archivos`); and what the request in progress has
read or reserved and still has to write, at each sleep (`Etapas`). A restart forgets what is only in
memory: what it keeps is the prefix, whose contents no growing file has touched, and the
new blocks are zeros (`EnCero`).
`Hipotesis` says that requests fit (`HAY_LUGAR`), that nobody writes to an empty file
(`ESCRITURAS_DENTRO`) and that block 0 is the first block of
a file that is never emptied, so that `NULL` is the number of no indirect block. The run
`file_system` satisfies it. TLC shows what happens without each: a request that does not fit
makes two uses of a block (`DuenioUnico` is violated in that run with `HAY_LUGAR = FALSE`), a
write to a file just created goes to block 0, which is another file's (`ArchivosConservados` is
violated with `ESCRITURAS_DENTRO = FALSE`), and with an
indirect block 0, which `indirecto_existe` reaches, a file loses blocks and contents
(`SinFugas` and `ArchivosConservados` are violated). `DuenioUnico` alone held without
the part about block 0 in the instances tried (six blocks, and five with one restart);
the argument uses it, and whether it is necessary is open.

**Assumptions on constants** are named in the module that declares them. Those that say more than
a type: `NADIE` and `"NINGUNO"` are no process, thread, context or file; the numbers of
segments are natural numbers, as parts of an address; the sizes of segments are not zero
and do not exceed `TAM_MAX_SEGMENTO`; registers have at least one byte, the operands of
programs are strings of letters without the terminator; the files found at the start of
`FileSystem` have one block each, not the same one.
`PROCESOS` is finite where processes are counted.

**Only model-checked.** Liveness (`TerminaOEsperaRecurso`, `EsperaTermina`,
`SolicitudTermina`), which needs fairness and `ENABLED`. `ImplementaSegmentos`: its guards
compare with sums of sizes over the holes and over the segments, whose equality is an
induction over a finite set. What the code does not do is shown by the runs that expect a violation.

## Not modelled

List operations of the library are atomic: the unsynchronised `list_sort`,
`list_add_in_index` and `list_remove_element` of the kernel are undefined behaviour
when they meet, and any order of whole operations is what is kept. `pid_contador++` is
not synchronised either; pids are the processes themselves here. HRRN's clocks and
estimates (the ratio of a process that finds `cola_ready` empty counts from an earlier
wait), logging, sockets, parsing, start-up and shutdown are left out. Programs that
use a file they did not open, or an address outside their segments' numbers, are
left out too: the code reads through NULL. TCP is assumed to
deliver in order. In the file system, a program killed outside its sleeps (between the
bitmap and the FCB of a file that shrinks, or while it writes the FCB), a computer that
stops before its cache is written, more pointers than a block holds, and writes past
the end of a file that is not empty are left out; positions inside a block are not told apart.

## Plan

1. `Memoria`, `SegmentosPorProceso`, `MemoriaProofs`. *Done.*
2. `Planificacion`. *Done.*
3. `FileSystem`. *Done.* To come: its abstract specification, a file as a sequence of
   blocks.
4. `Candados`, `ArchivosAbiertos`. *Done.*
5. `Compactacion`. *Done.*
6. `ProgramasAislados`, `Cpu`. *Done.*
7. `ArchivosAbiertosProofs`. *Done.*
8. `CompactacionProofs`, with the composition theorem. *Done.*
9. `PlanificacionSiempreProofs`, `PlanificacionProofs`. *Done.*
10. `CpuProofs`. *Done.*
11. `FileSystemProofs`. *Done* under `Hipotesis`. To come: `DuenioUnico` without the part
    about block 0, or the counterexample.
12. The steps of `Memoria` mapped to those of `SegmentosPorProceso`, given that the free
    bytes of both agree.
