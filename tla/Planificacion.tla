---------------------------- MODULE Planificacion ----------------------------
(***************************************************************************)
(* The scheduler of the kernel (kernel/): the life of a process from the   *)
(* console that sends its program to the answer that console gets, through *)
(* the queues NEW, READY, EXEC, BLOCK and EXIT.  Six kinds of thread share *)
(* the queues and meet at semaphores: one per console, the long-term and   *)
(* the short-term scheduler, the thread that talks to the CPU, the thread  *)
(* that talks to the file system and one per process in IO.                *)
(*                                                                         *)
(* Abstractions.  An action is what a thread does between two points where *)
(* another thread can change what it reads.  The CPU runs a context up to  *)
(* the next instruction that returns to the kernel; which one it is, out   *)
(* of OPERACIONES, is free, and a program has at most LARGO of them: one   *)
(* with none left never returns.  The HRRN ratios depend on clocks:        *)
(* sorting by them gives any order.  Memory answers at once and is seen as *)
(* the set of processes that have a table.  F_READ stands for F_WRITE too, *)
(* which takes the same path; SIGUE for the requests that return to the    *)
(* same process whatever the answer (F_SEEK, F_CLOSE, DELETE_SEGMENT).     *)
(* F_OPEN is not modelled here.                                            *)
(*                                                                         *)
(* An answer of the file system that comes before the kernel has blocked   *)
(* the process (RESPUESTA_TARDIA = FALSE) can make a process ready while   *)
(* it runs.  The model goes on from there, but the other threads still     *)
(* take a process out of its queue in one step, and a pcb that was freed   *)
(* reads as it was left: only RevisarEstado lets such a read kill the      *)
(* kernel.                                                                 *)
(***************************************************************************)
EXTENDS Integers, FiniteSets, SequencesExt

CONSTANTS PROCESOS, NADIE,
          RECURSOS, INSTANCIAS,  \* the resources and how many there are of each
          GRADO,                 \* GRADO_MAX_MULTIPROGRAMACION
          ALGORITMO,             \* "FIFO" or "HRRN"
          OPERACIONES,           \* what a program may ask of the kernel
          LARGO,                 \* bound on the requests of a program
          RESPUESTA_TARDIA       \* the file system answers after the kernel has
                                 \* blocked the process that waits for it

ASSUME ConstantesValidas ==
         /\ IsFiniteSet(PROCESOS) /\ NADIE \notin PROCESOS
         /\ INSTANCIAS \in [RECURSOS -> Nat]
         /\ GRADO \in Nat \ {0} /\ LARGO \in Nat \ {0}
         /\ RESPUESTA_TARDIA \in BOOLEAN

VARIABLES
  estado, motivo,   \* of each pcb
  restan,           \* requests its program can still make (its program_counter)
  cola,             \* colas_planificacion: new, ready, exec, block and exit
  instancias, cola_bloqueados,    \* of each t_recurso
  procesos_en_kernel,
  con_tabla,        \* processes with a segment table in the memory module
  caido,            \* the kernel died
  sem,              \* sem_nuevo_proceso, sem_grado_multiprogramacion,
                    \* sem_ready_proceso and cpu_liberada
  sem_exit_proceso, \* the pcbs whose semaphore is posted
  largo, corto,     \* where the two schedulers are
  candidato,        \* the pcb the short-term scheduler peeked
  contextos,        \* sent to the CPU; proceso_enviado counts them
  hilo_cpu,         \* the thread that talks to the CPU: step and pcb
  en_io,            \* processes with a thread that sleeps for them
  cola_archivos,    \* requests to the file system; request_file_system counts them
  en_fs,            \* what the file system thread is at, if anything: the request
                    \* it serves, or a pcb it is taking from EXEC to READY
  puede_compactar,  \* the mutex is held
  consola,          \* where the thread of each console is
  recogido,         \* the pcb that thread popped from cola_exit
  respuesta         \* what it sent

pcbs     == <<estado, motivo, restan>>
recursos == <<instancias, cola_bloqueados>>
kernel   == <<procesos_en_kernel, con_tabla, caido>>
hilos    == <<largo, corto, candidato>>
cpu      == <<contextos, hilo_cpu>>
esperas  == <<en_io, cola_archivos, en_fs, puede_compactar>>
consolas == <<consola, recogido, respuesta>>
vars == <<pcbs, cola, recursos, kernel, sem, sem_exit_proceso, hilos, cpu,
          esperas, consolas>>

-----------------------------------------------------------------------------
(* Start *)

Colas     == {"new", "ready", "exec", "block", "exit"}
Semaforos == {"nuevo", "grado", "ready", "cpu"}

Recibiendo == [paso |-> "recibir", pcb |-> NADIE]

Init ==
  /\ estado = [p \in PROCESOS |-> "NINGUNO"]
  /\ motivo = [p \in PROCESOS |-> "NOT_DEFINED"]
  /\ restan = [p \in PROCESOS |-> LARGO]
  /\ cola = [c \in Colas |-> <<>>]
  /\ instancias = INSTANCIAS
  /\ cola_bloqueados = [r \in RECURSOS |-> <<>>]
  /\ procesos_en_kernel = {} /\ con_tabla = {} /\ caido = FALSE
  /\ sem = [s \in Semaforos |-> CASE s = "grado" -> GRADO
                                 [] s = "cpu" -> 1
                                 [] OTHER -> 0]
  /\ sem_exit_proceso = {}
  /\ largo = "nuevo" /\ corto = "cpu" /\ candidato = NADIE
  /\ contextos = <<>> /\ hilo_cpu = Recibiendo
  /\ en_io = {} /\ cola_archivos = <<>> /\ en_fs = <<>>
  /\ puede_compactar = FALSE
  /\ consola = [p \in PROCESOS |-> "inicio"]
  /\ recogido = [p \in PROCESOS |-> NADIE]
  /\ respuesta = [p \in PROCESOS |-> "NINGUNA"]

-----------------------------------------------------------------------------
(* Semaphores, and moves between queues *)

\* Mutants: a wait that does not wait; posts that leave a binary semaphore, do
\* not give back the degree or do not release the CPU; a pop that peeks.
PasarSinEsperar(s) == sem' = [sem EXCEPT ![s] = @ - 1]
PostBinario(S) == sem' = [s \in Semaforos |-> IF s \in S THEN 1 ELSE sem[s]]
PostSinGrado(S) ==
  sem' = [s \in Semaforos |-> IF s \in S \ {"grado"} THEN sem[s] + 1 ELSE sem[s]]
PostSinCPU(S) ==
  sem' = [s \in Semaforos |-> IF s \in S \ {"cpu"} THEN sem[s] + 1 ELSE sem[s]]
PeekEnVezDePop(c) == c

sem_wait(s) == sem[s] > 0 /\ sem' = [sem EXCEPT ![s] = @ - 1]
sem_post(S) == sem' = [s \in Semaforos |-> IF s \in S THEN sem[s] + 1 ELSE sem[s]]

\* Popping an empty queue gives NULL and leaves it empty.
squeue_pop(c) == IF c = <<>> THEN <<>> ELSE Tail(c)

\* Where a process enters READY: at the end, or, in HRRN and for a process that
\* was waiting, where its ratio says.
Lugares(esperaba) == IF ALGORITMO = "HRRN" /\ esperaba
                     THEN 1 .. Len(cola["ready"]) + 1 ELSE {Len(cola["ready"]) + 1}

\* Mutant: a process that leaves BLOCK stays in cola_block too.
QuitarSalvoDeBlock(p) ==
  CASE estado[p] = "NEW"   -> [cola EXCEPT !["new"] = squeue_pop(@)]
    [] estado[p] = "EXEC"  -> [cola EXCEPT !["exec"] = squeue_pop(@)]
    [] OTHER               -> cola

\* The queues without p, found where its state says.
quitar_de_cola_actual(p) ==
  CASE estado[p] = "NEW"   -> [cola EXCEPT !["new"] = squeue_pop(@)]
    [] estado[p] = "EXEC"  -> [cola EXCEPT !["exec"] = squeue_pop(@)]
    [] estado[p] = "BLOCK" -> [cola EXCEPT !["block"] = RemoveFirst(@, p)]
    [] OTHER               -> cola

\* pasar_a_cola_ready goes on with the pcb it pops, whatever pcb it was given;
\* pasar_a_cola_ready_en_orden, with the one it was given.
EnOrden(esperaba) == ALGORITMO = "HRRN" /\ esperaba

Movido(p, esperaba) ==
  CASE ~EnOrden(esperaba) /\ estado[p] = "NEW"   -> Head(cola["new"])
    [] ~EnOrden(esperaba) /\ estado[p] = "EXEC"  -> Head(cola["exec"])
    [] OTHER                                     -> p

ExecVacia(p, esperaba) ==
  ~EnOrden(esperaba) /\ estado[p] = "EXEC" /\ cola["exec"] = <<>>

\* The thread that calls it posts S too before it waits for anything.  A pcb popped
\* from an empty cola_exec is NULL, and its timer is read.
pasar_a_cola_ready(p, esperaba, S) ==
  \/ /\ ~ExecVacia(p, esperaba)
     /\ \E i \in Lugares(esperaba) :
          cola' = [quitar_de_cola_actual(p) EXCEPT
                     !["ready"] = InsertAt(@, i, Movido(p, esperaba))]
     /\ estado' = [estado EXCEPT ![Movido(p, esperaba)] = "READY"]
     /\ sem_post(S \cup {"ready"})
     /\ UNCHANGED caido
  \/ /\ ExecVacia(p, esperaba)
     /\ caido' = TRUE
     /\ UNCHANGED <<cola, estado, sem>>

\* Mutant: the pcb that ends keeps the state EXEC.
ExitSinEstado(p, m) ==
  /\ cola' = [cola EXCEPT !["exec"] = squeue_pop(@), !["exit"] = Append(@, p)]
  /\ estado' = estado
  /\ motivo' = [motivo EXCEPT ![p] = m]
  /\ sem_exit_proceso' = sem_exit_proceso \cup {p}

pasar_a_cola_exit(p, m) ==
  /\ cola' = [cola EXCEPT !["exec"] = squeue_pop(@), !["exit"] = Append(@, p)]
  /\ estado' = [estado EXCEPT ![p] = "EXIT"]
  /\ motivo' = [motivo EXCEPT ![p] = m]
  /\ sem_exit_proceso' = sem_exit_proceso \cup {p}

\* The context of p goes to the CPU, after those in s, and proceso_enviado is
\* posted.
ejecutar_proceso(s, p, instrucciones) ==
  contextos' = Append(s, [pcb |-> p, restan |-> instrucciones])

-----------------------------------------------------------------------------
(* The thread of a console *)

crear_proceso(p) ==
  /\ ~caido /\ consola[p] = "inicio"
  /\ estado' = [estado EXCEPT ![p] = "NEW"]
  /\ cola' = [cola EXCEPT !["new"] = Append(@, p)]
  /\ consola' = [consola EXCEPT ![p] = "anuncia"]
  /\ UNCHANGED <<motivo, restan, recursos, kernel, sem, sem_exit_proceso, hilos,
                 cpu, esperas, recogido, respuesta>>

AnunciarProceso(p) ==
  /\ ~caido /\ consola[p] = "anuncia"
  /\ procesos_en_kernel' = procesos_en_kernel \cup {p}
  /\ sem_post({"nuevo"})
  /\ consola' = [consola EXCEPT ![p] = "espera"]
  /\ UNCHANGED <<pcbs, cola, recursos, con_tabla, caido, sem_exit_proceso, hilos,
                 cpu, esperas, recogido, respuesta>>

\* The console waits for its own process and takes the first of cola_exit.
RecogerExit(p) ==
  /\ ~caido /\ consola[p] = "espera"
  /\ p \in sem_exit_proceso
  /\ sem_exit_proceso' = sem_exit_proceso \ {p}
  /\ recogido' = [recogido EXCEPT ![p] = Head(cola["exit"])]
  /\ cola' = [cola EXCEPT !["exit"] = squeue_pop(@)]
  /\ procesos_en_kernel' = procesos_en_kernel \ {Head(cola["exit"])}
  /\ consola' = [consola EXCEPT ![p] = "responde"]
  /\ UNCHANGED <<pcbs, recursos, con_tabla, caido, sem, hilos, cpu, esperas,
                 respuesta>>

\* It answers with the exit code of the pcb it popped, which the console of that
\* process may have freed, and frees the pcb it created.
respuesta_proceso(p) ==
  /\ ~caido /\ consola[p] = "responde"
  /\ sem_post({"grado"})
  /\ respuesta' = [respuesta EXCEPT ![p] =
       IF estado[recogido[p]] = "DESTRUIDO" THEN "BASURA" ELSE motivo[recogido[p]]]
  /\ estado' = [estado EXCEPT ![p] = "DESTRUIDO"]
  /\ consola' = [consola EXCEPT ![p] = "fin"]
  /\ UNCHANGED <<motivo, restan, cola, recursos, kernel, sem_exit_proceso, hilos,
                 cpu, esperas, recogido>>

-----------------------------------------------------------------------------
(* The long-term scheduler *)

EsperarNuevo ==
  /\ ~caido /\ largo = "nuevo"
  /\ sem_wait("nuevo")
  /\ largo' = "grado"
  /\ UNCHANGED <<pcbs, cola, recursos, kernel, sem_exit_proceso, corto, candidato,
                 cpu, esperas, consolas>>

\* The first of cola_new gets its segment table.
solicitar_nueva_tabla_de_segmento ==
  /\ ~caido /\ largo = "grado"
  /\ sem_wait("grado")
  /\ con_tabla' = con_tabla \cup {Head(cola["new"])}
  /\ largo' = "admitir"
  /\ UNCHANGED <<pcbs, cola, recursos, procesos_en_kernel, caido,
                 sem_exit_proceso, corto, candidato, cpu, esperas, consolas>>

AdmitirProceso ==
  /\ ~caido /\ largo = "admitir"
  /\ pasar_a_cola_ready(Head(cola["new"]), FALSE, {})
  /\ largo' = "nuevo"
  /\ UNCHANGED <<motivo, restan, recursos, procesos_en_kernel, con_tabla,
                 sem_exit_proceso, corto, candidato, cpu, esperas, consolas>>

-----------------------------------------------------------------------------
(* The short-term scheduler *)

EsperarCPU ==
  /\ ~caido /\ corto = "cpu"
  /\ sem_wait("cpu")
  /\ corto' = "ready"
  /\ UNCHANGED <<pcbs, cola, recursos, kernel, sem_exit_proceso, largo, candidato,
                 cpu, esperas, consolas>>

EsperarReady ==
  /\ ~caido /\ corto = "ready"
  /\ sem_wait("ready")
  /\ corto' = "elegir"
  /\ UNCHANGED <<pcbs, cola, recursos, kernel, sem_exit_proceso, largo, candidato,
                 cpu, esperas, consolas>>

Permutaciones(s) ==
  {[i \in DOMAIN s |-> s[f[i]]] : f \in Bijection(DOMAIN s, DOMAIN s)}

\* Mutant: the last of cola_ready is chosen.
UltimoDeReady(s) == s[Len(s)]

PrimeroDeReady(s) == Head(s)

\* Peeks the head of cola_ready; HRRN sorts the queue before it does.
planificar ==
  /\ ~caido /\ corto = "elegir"
  /\ \E s \in IF ALGORITMO = "HRRN" THEN Permutaciones(cola["ready"])
              ELSE {cola["ready"]} :
       /\ cola' = [cola EXCEPT !["ready"] = s]
       /\ candidato' = PrimeroDeReady(s)
  /\ corto' = "despachar"
  /\ UNCHANGED <<pcbs, recursos, kernel, sem, sem_exit_proceso, largo, cpu,
                 esperas, consolas>>

\* Pops the head of cola_ready into EXEC, then sends the context of the pcb that
\* was peeked.
pasar_a_cola_exec ==
  /\ ~caido /\ corto = "despachar"
  /\ LET p == Head(cola["ready"]) IN
       /\ cola' = [cola EXCEPT !["ready"] = squeue_pop(@), !["exec"] = Append(@, p)]
       /\ estado' = [estado EXCEPT ![p] = "EXEC"]
  /\ ejecutar_proceso(contextos, candidato, restan[candidato])
  /\ candidato' = NADIE
  /\ corto' = "cpu"
  /\ UNCHANGED <<motivo, restan, recursos, kernel, sem, sem_exit_proceso, largo,
                 hilo_cpu, esperas, consolas>>

-----------------------------------------------------------------------------
(* The thread that talks to the CPU.  Once a context is sent it peeks the head
   of cola_exec, before the CPU returns the context with one of the requests of
   OPERACIONES; it stores the context in the pcb it peeked, p, and serves the
   request for it.  The last request of a program ends it. *)

TomarDeExec ==
  /\ ~caido /\ hilo_cpu = Recibiendo
  /\ contextos # <<>> /\ cola["exec"] # <<>>
  /\ hilo_cpu' = [paso |-> "atender", pcb |-> Head(cola["exec"])]
  /\ UNCHANGED <<pcbs, cola, recursos, kernel, sem, sem_exit_proceso, hilos,
                 contextos, esperas, consolas>>

\* The pcb is NULL, and the context is stored in it when it comes back.
TomarDeExecVacia ==
  /\ ~caido /\ hilo_cpu = Recibiendo
  /\ contextos # <<>> /\ cola["exec"] = <<>>
  /\ caido' = TRUE
  /\ UNCHANGED <<pcbs, cola, recursos, procesos_en_kernel, con_tabla, sem,
                 sem_exit_proceso, hilos, cpu, esperas, consolas>>

Terminales == {"EXIT", "SEG_FAULT", "RESOURCE_NOT_FOUND", "OUT_OF_MEMORY"}

Devuelto(p, op) ==
  /\ ~caido /\ hilo_cpu = [paso |-> "atender", pcb |-> p]
  /\ op \in OPERACIONES
  /\ Head(contextos).restan > 0
  /\ Head(contextos).restan = 1 => op \in Terminales
  /\ restan' = [restan EXCEPT ![p] = Head(contextos).restan - 1]

ProcesarYield ==
  \E p \in PROCESOS :
    /\ Devuelto(p, "YIELD")
    /\ pasar_a_cola_ready(p, FALSE, {"cpu"})
    /\ contextos' = Tail(contextos) /\ hilo_cpu' = Recibiendo
    /\ UNCHANGED <<motivo, recursos, procesos_en_kernel, con_tabla,
                   sem_exit_proceso, hilos, esperas, consolas>>

\* Mutant: the segment table of the process is not deleted.
ConservarTabla(p) == con_tabla' = con_tabla

solicitar_eliminar_tabla_de_segmento(p) == con_tabla' = con_tabla \ {p}

\* EXIT, SEG_FAULT, or WAIT or SIGNAL of a resource that does not exist; and
\* CREATE_SEGMENT with no memory left, after which the thread looks again at
\* the state of the pcb.
ProcesarFin ==
  \E p \in PROCESOS, op \in Terminales :
    /\ Devuelto(p, op)
    /\ solicitar_eliminar_tabla_de_segmento(p)
    /\ pasar_a_cola_exit(p, IF op = "EXIT" THEN "SUCCESS" ELSE op)
    /\ sem_post({"cpu"})
    /\ contextos' = Tail(contextos)
    /\ hilo_cpu' = IF op = "OUT_OF_MEMORY" THEN [paso |-> "revisar", pcb |-> p]
                                           ELSE Recibiendo
    /\ UNCHANGED <<recursos, procesos_en_kernel, caido, hilos, esperas, consolas>>

\* A pcb that is not in EXEC is not sent back to the CPU; but its console may have
\* freed it, and then what is read may send it.
RevisarEstado ==
  /\ ~caido /\ hilo_cpu.paso = "revisar"
  /\ estado[hilo_cpu.pcb] # "EXEC"
  /\ hilo_cpu' = Recibiendo
  /\ caido' \in {FALSE, estado[hilo_cpu.pcb] = "DESTRUIDO"}
  /\ UNCHANGED <<pcbs, cola, recursos, procesos_en_kernel, con_tabla, sem,
                 sem_exit_proceso, hilos, contextos, esperas, consolas>>

\* In the meantime the file system thread made it ready and the short-term
\* scheduler chose it: its context is sent once more.
RevisarEnExec ==
  /\ ~caido /\ hilo_cpu.paso = "revisar"
  /\ estado[hilo_cpu.pcb] = "EXEC"
  /\ hilo_cpu' = Recibiendo
  /\ ejecutar_proceso(contextos, hilo_cpu.pcb, restan[hilo_cpu.pcb])
  /\ UNCHANGED <<pcbs, cola, recursos, kernel, sem, sem_exit_proceso, hilos,
                 esperas, consolas>>

ProcesarIO ==
  \E p \in PROCESOS :
    /\ Devuelto(p, "IO")
    /\ cola' = [cola EXCEPT !["exec"] = squeue_pop(@), !["block"] = Append(@, p)]
    /\ estado' = [estado EXCEPT ![p] = "BLOCK"]
    /\ en_io' = en_io \cup {p}
    /\ sem_post({"cpu"})
    /\ contextos' = Tail(contextos) /\ hilo_cpu' = Recibiendo
    /\ UNCHANGED <<motivo, recursos, kernel, sem_exit_proceso, hilos,
                   cola_archivos, en_fs, puede_compactar, consolas>>

\* The context the thread has stored in p goes back to the CPU.
seguir_ejecutando(p) ==
  ejecutar_proceso(Tail(contextos), p, restan'[p]) /\ hilo_cpu' = Recibiendo

\* Mutant: a resource is taken with no instances left.
WaitDeMas ==
  \E p \in PROCESOS, r \in RECURSOS :
    /\ Devuelto(p, "WAIT")
    /\ instancias[r] >= 0
    /\ instancias' = [instancias EXCEPT ![r] = @ - 1]
    /\ seguir_ejecutando(p)
    /\ UNCHANGED <<estado, motivo, cola, cola_bloqueados, kernel, sem,
                   sem_exit_proceso, hilos, esperas, consolas>>

\* The resource is taken, and the process goes on, or its queue grows.
WaitConcedido ==
  \E p \in PROCESOS, r \in RECURSOS :
    /\ Devuelto(p, "WAIT")
    /\ instancias[r] > 0
    /\ instancias' = [instancias EXCEPT ![r] = @ - 1]
    /\ seguir_ejecutando(p)
    /\ UNCHANGED <<estado, motivo, cola, cola_bloqueados, kernel, sem,
                   sem_exit_proceso, hilos, esperas, consolas>>

WaitBloqueado ==
  \E p \in PROCESOS, r \in RECURSOS :
    /\ Devuelto(p, "WAIT")
    /\ instancias[r] <= 0
    /\ instancias' = [instancias EXCEPT ![r] = @ - 1]
    /\ cola' = [cola EXCEPT !["exec"] = squeue_pop(@)]
    /\ estado' = [estado EXCEPT ![p] = "BLOCK_RECURSO"]
    /\ cola_bloqueados' = [cola_bloqueados EXCEPT ![r] = Append(@, p)]
    /\ sem_post({"cpu"})
    /\ contextos' = Tail(contextos) /\ hilo_cpu' = Recibiendo
    /\ UNCHANGED <<motivo, kernel, sem_exit_proceso, hilos, esperas, consolas>>

\* SIGNAL wakes the first process that waits, if any; the one that signals
\* keeps the CPU.
SignalDespierta ==
  \E p \in PROCESOS, r \in RECURSOS :
    /\ Devuelto(p, "SIGNAL")
    /\ instancias[r] < 0
    /\ instancias' = [instancias EXCEPT ![r] = @ + 1]
    /\ pasar_a_cola_ready(Head(cola_bloqueados[r]), TRUE, {})
    /\ cola_bloqueados' = [cola_bloqueados EXCEPT ![r] = squeue_pop(@)]
    /\ seguir_ejecutando(p)
    /\ UNCHANGED <<motivo, procesos_en_kernel, con_tabla, sem_exit_proceso, hilos,
                   esperas, consolas>>

SignalLibera ==
  \E p \in PROCESOS, r \in RECURSOS :
    /\ Devuelto(p, "SIGNAL")
    /\ instancias[r] >= 0
    /\ instancias' = [instancias EXCEPT ![r] = @ + 1]
    /\ seguir_ejecutando(p)
    /\ UNCHANGED <<estado, motivo, cola, cola_bloqueados, kernel, sem,
                   sem_exit_proceso, hilos, esperas, consolas>>

\* A request that leaves the process on the CPU; CREATE_SEGMENT, if the process
\* still is in EXEC.
ProcesarYSeguir ==
  \E p \in PROCESOS, op \in {"SIGUE", "CREATE_SEGMENT"} :
    /\ Devuelto(p, op)
    /\ op = "CREATE_SEGMENT" => estado[p] = "EXEC"
    /\ seguir_ejecutando(p)
    /\ UNCHANGED <<estado, motivo, cola, recursos, kernel, sem, sem_exit_proceso,
                   hilos, esperas, consolas>>

\* F_READ of an address out of its segment comes back with a code the thread
\* does not know, and a segment was made for a process that is no longer in EXEC:
\* the thread logs it, and nobody releases the CPU.
TurnoPerdido ==
  \E p \in PROCESOS, op \in {"F_READ_FUERA", "CREATE_SEGMENT"} :
    /\ Devuelto(p, op)
    /\ op = "CREATE_SEGMENT" => estado[p] # "EXEC"
    /\ contextos' = Tail(contextos) /\ hilo_cpu' = Recibiendo
    /\ UNCHANGED <<estado, motivo, cola, recursos, kernel, sem, sem_exit_proceso,
                   hilos, esperas, consolas>>

\* F_READ and F_TRUNCATE: the request is posted to the file system thread first;
\* F_READ takes puede_compactar before that.
PedirFS ==
  \E p \in PROCESOS, op \in {"F_READ", "F_TRUNCATE"} :
    /\ Devuelto(p, op)
    /\ op = "F_READ" => ~puede_compactar
    /\ puede_compactar' = (puede_compactar \/ op = "F_READ")
    /\ cola_archivos' = Append(cola_archivos, [pcb |-> p, op |-> op])
    /\ hilo_cpu' = [paso |-> "quitar", pcb |-> p]
    /\ contextos' = Tail(contextos)
    /\ UNCHANGED <<estado, motivo, cola, recursos, kernel, sem, sem_exit_proceso,
                   hilos, en_io, en_fs, consolas>>

\* Then pasar_a_cola_blocked, in the steps the file system thread can see.
QuitarDeExec ==
  /\ ~caido /\ hilo_cpu.paso = "quitar"
  /\ cola' = [cola EXCEPT !["exec"] = squeue_pop(@)]
  /\ hilo_cpu' = [hilo_cpu EXCEPT !.paso = "bloquear"]
  /\ UNCHANGED <<pcbs, recursos, kernel, sem, sem_exit_proceso, hilos, contextos,
                 esperas, consolas>>

BloquearPorFS ==
  /\ ~caido /\ hilo_cpu.paso = "bloquear"
  /\ estado' = [estado EXCEPT ![hilo_cpu.pcb] = "BLOCK"]
  /\ hilo_cpu' = [hilo_cpu EXCEPT !.paso = "encolar"]
  /\ UNCHANGED <<motivo, restan, cola, recursos, kernel, sem, sem_exit_proceso,
                 hilos, contextos, esperas, consolas>>

EncolarPorFS ==
  /\ ~caido /\ hilo_cpu.paso = "encolar"
  /\ cola' = [cola EXCEPT !["block"] = Append(@, hilo_cpu.pcb)]
  /\ sem_post({"cpu"})
  /\ hilo_cpu' = Recibiendo
  /\ UNCHANGED <<pcbs, recursos, kernel, sem_exit_proceso, hilos, contextos,
                 esperas, consolas>>

-----------------------------------------------------------------------------
(* The thread that sleeps for a process in IO *)

bloqueo_io(p) ==
  /\ ~caido /\ p \in en_io
  /\ en_io' = en_io \ {p}
  /\ pasar_a_cola_ready(p, TRUE, {})
  /\ UNCHANGED <<motivo, restan, recursos, procesos_en_kernel, con_tabla,
                 sem_exit_proceso, hilos, cpu, cola_archivos, en_fs,
                 puede_compactar, consolas>>

-----------------------------------------------------------------------------
(* The thread that talks to the file system *)

TomarPedido ==
  /\ ~caido /\ en_fs = <<>>
  /\ cola_archivos # <<>>
  /\ en_fs' = <<Head(cola_archivos)>>
  /\ cola_archivos' = Tail(cola_archivos)
  /\ UNCHANGED <<pcbs, cola, recursos, kernel, sem, sem_exit_proceso, hilos, cpu,
                 en_io, puede_compactar, consolas>>

\* The file system has answered the request of p.  It never answers F_OP_ERROR,
\* not even on a full disk (see CrearBloqueDeDatos in FileSystem).
Respondido(p) ==
  /\ ~caido /\ en_fs # <<>>
  /\ en_fs[1].pcb = p /\ en_fs[1].op \in {"F_READ", "F_TRUNCATE"}
  /\ RESPUESTA_TARDIA => hilo_cpu.pcb # p
  /\ puede_compactar' = (puede_compactar /\ en_fs[1].op # "F_READ")
  /\ UNCHANGED <<motivo, restan, recursos, procesos_en_kernel, con_tabla,
                 sem_exit_proceso, hilos, cpu, en_io, cola_archivos, consolas>>

recibir_respuesta_fs(p) ==
  /\ Respondido(p)
  /\ estado[p] # "EXEC"
  /\ pasar_a_cola_ready(p, FALSE, {})
  /\ en_fs' = <<>>

\* The state is EXEC, as the process is not blocked yet: pasar_a_cola_ready, in the
\* steps the other threads can see.  Which pcb it pops is decided after the state
\* was read: by then the thread that talks to the CPU may have blocked p and the
\* short-term scheduler put another process in cola_exec.
RespuestaEnExec(p) ==
  /\ Respondido(p)
  /\ estado[p] = "EXEC"
  /\ en_fs' = <<[pcb |-> p, op |-> "sacar"]>>
  /\ UNCHANGED <<estado, cola, sem, caido>>

SacarDeExec ==
  /\ ~caido /\ en_fs # <<>>
  /\ en_fs[1].op = "sacar"
  /\ \/ /\ cola["exec"] # <<>>
        /\ cola' = [cola EXCEPT !["exec"] = squeue_pop(@)]
        /\ en_fs' = <<[pcb |-> Head(cola["exec"]), op |-> "poner"]>>
        /\ UNCHANGED caido
     \/ /\ cola["exec"] = <<>>
        /\ caido' = TRUE
        /\ UNCHANGED <<cola, en_fs>>
  /\ UNCHANGED <<pcbs, recursos, procesos_en_kernel, con_tabla, sem,
                 sem_exit_proceso, hilos, cpu, en_io, cola_archivos,
                 puede_compactar, consolas>>

PonerEnReady(p) ==
  /\ ~caido /\ en_fs = <<[pcb |-> p, op |-> "poner"]>>
  /\ cola' = [cola EXCEPT !["ready"] = Append(@, p)]
  /\ estado' = [estado EXCEPT ![p] = "READY"]
  /\ sem_post({"ready"})
  /\ en_fs' = <<>>
  /\ UNCHANGED <<motivo, restan, recursos, kernel, sem_exit_proceso, hilos, cpu,
                 en_io, cola_archivos, puede_compactar, consolas>>

-----------------------------------------------------------------------------
hilo_consola(p) == AnunciarProceso(p) \/ RecogerExit(p) \/ respuesta_proceso(p)

planificador_largo_plazo ==
  EsperarNuevo \/ solicitar_nueva_tabla_de_segmento \/ AdmitirProceso

planificador_corto_plazo ==
  EsperarCPU \/ EsperarReady \/ planificar \/ pasar_a_cola_exec

manejar_respuesta_cpu ==
  \/ TomarDeExec \/ TomarDeExecVacia
  \/ ProcesarYield \/ ProcesarFin \/ RevisarEstado \/ RevisarEnExec \/ ProcesarIO
  \/ WaitConcedido \/ WaitBloqueado \/ SignalDespierta \/ SignalLibera
  \/ ProcesarYSeguir \/ TurnoPerdido
  \/ PedirFS \/ QuitarDeExec \/ BloquearPorFS \/ EncolarPorFS

procesar_file_system ==
  \/ TomarPedido
  \/ \E p \in PROCESOS : recibir_respuesta_fs(p) \/ RespuestaEnExec(p) \/ PonerEnReady(p)
  \/ SacarDeExec

Next ==
  \/ \E p \in PROCESOS : crear_proceso(p) \/ hilo_consola(p) \/ bloqueo_io(p)
  \/ planificador_largo_plazo
  \/ planificador_corto_plazo
  \/ manejar_respuesta_cpu
  \/ procesar_file_system

Spec == Init /\ [][Next]_vars

\* Every thread of the kernel runs, the CPU and the file system answer and a
\* sleep ends.  No console has to start a process.
Equidad ==
  /\ \A p \in PROCESOS : WF_vars(hilo_consola(p)) /\ WF_vars(bloqueo_io(p))
  /\ WF_vars(planificador_largo_plazo)
  /\ WF_vars(planificador_corto_plazo)
  /\ WF_vars(manejar_respuesta_cpu)
  /\ WF_vars(procesar_file_system)

SpecJusta == Spec /\ Equidad

-----------------------------------------------------------------------------
(* Properties *)

Veces(p, s) == Cardinality({i \in DOMAIN s : s[i] = p})
Uno(b) == IF b THEN 1 ELSE 0

\* Every variable has its type.
TypeOK ==
  /\ estado \in [PROCESOS -> {"NINGUNO", "NEW", "READY", "EXEC", "BLOCK",
                              "BLOCK_RECURSO", "EXIT", "DESTRUIDO"}]
  /\ motivo \in [PROCESOS -> {"NOT_DEFINED", "SUCCESS"} \cup Terminales]
  /\ restan \in [PROCESOS -> 0 .. LARGO]
  /\ cola \in [Colas -> Seq(PROCESOS)]
  /\ cola_bloqueados \in [RECURSOS -> Seq(PROCESOS)]
  /\ instancias \in [RECURSOS -> Int]
  /\ procesos_en_kernel \subseteq PROCESOS /\ con_tabla \subseteq PROCESOS
  /\ sem \in [Semaforos -> Nat]
  /\ sem_exit_proceso \subseteq PROCESOS
  /\ largo \in {"nuevo", "grado", "admitir"}
  /\ corto \in {"cpu", "ready", "elegir", "despachar"}
  /\ candidato \in PROCESOS \cup {NADIE}
  /\ contextos \in Seq([pcb : PROCESOS, restan : 0 .. LARGO])
  /\ hilo_cpu \in [paso : {"recibir", "atender", "revisar", "quitar", "bloquear",
                            "encolar"},
                    pcb : PROCESOS \cup {NADIE}]
  /\ en_io \subseteq PROCESOS
  /\ cola_archivos \in Seq([pcb : PROCESOS, op : {"F_READ", "F_TRUNCATE"}])
  /\ en_fs \in Seq([pcb : PROCESOS, op : {"F_READ", "F_TRUNCATE", "sacar", "poner"}])
  /\ Len(en_fs) <= 1
  /\ puede_compactar \in BOOLEAN
  /\ consola \in [PROCESOS -> {"inicio", "anuncia", "espera", "responde", "fin"}]
  /\ recogido \in [PROCESOS -> PROCESOS \cup {NADIE}]
  /\ respuesta \in [PROCESOS -> {"NINGUNA", "BASURA", "SUCCESS"} \cup Terminales]
  /\ caido \in BOOLEAN

\* The CPU is one: its turn is in the semaphore, with the short-term scheduler,
\* in a context sent to the CPU or with the thread that serves what came back,
\* and in one of them only, whoever posts cpu_liberada in between.  A turn is
\* only ever lost by a code the kernel does not expect, or with the kernel itself.
\* With early answers of the file system it is so as long as no program makes a
\* segment: that request is the one after which the thread decides by the state
\* of the pcb.
Turnos == sem["cpu"] + Uno(corto # "cpu") + Len(contextos)
          + Uno(hilo_cpu.paso \in {"quitar", "bloquear", "encolar"})
EstadoFiable ==
  RESPUESTA_TARDIA \/ OPERACIONES \cap {"CREATE_SEGMENT", "OUT_OF_MEMORY"} = {}
TurnoUnico ==
  EstadoFiable => /\ Turnos <= 1
                  /\ ~caido /\ "F_READ_FUERA" \notin OPERACIONES => Turnos = 1

\* sem_ready_proceso counts cola_ready, less the process the short-term
\* scheduler waited for, although five places post it from three kinds of
\* thread: the scheduler never peeks an empty queue nor sleeps by a full one.
ReadyContados ==
  Len(cola["ready"]) = sem["ready"] + Uno(corto \in {"elegir", "despachar"})

\* The degree of multiprogramming: the processes admitted whose console has not
\* been answered never exceed GRADO, and every place not in use is in the
\* semaphore or with the long-term scheduler, even if early answers of the file
\* system leave a process in two queues and it ends twice.
GradoRespetado ==
  Cardinality({p \in PROCESOS : estado[p] \notin {"NINGUNO", "NEW"} /\ consola[p] # "fin"})
  + sem["grado"] + Uno(largo = "admitir") = GRADO

\* A resource with instances left blocks nobody, and one without them owes as
\* many instances as there are pcbs in its queue, so that a SIGNAL never pops an
\* empty queue nor leaves one with nobody to wake it.  Early answers may queue a
\* process that does not wait (EnUnaSolaCola says when none does).
RecursosContados ==
  \A r \in RECURSOS :
    Len(cola_bloqueados[r]) = IF instancias[r] < 0 THEN -instancias[r] ELSE 0

\* With late answers of the file system, a console that wakes finds a process in
\* cola_exit to pop, even if another console took its own.  An early answer may
\* end a process twice, for one console that collects it.
ExitContados == Len(cola["exit"]) = Cardinality(sem_exit_proceso)

\* With late answers of the file system, a process is in the queue of its state
\* and in no other, once; while the thread that talks to the CPU blocks it, in
\* none.  SoloEnReady says what an early answer breaks.
EnUnaSolaCola ==
  \A p \in PROCESOS :
    LET en_paso(a) == hilo_cpu = [paso |-> a, pcb |-> p]
        terminado  == estado[p] = "EXIT" \/ estado[p] = "DESTRUIDO"
    IN  /\ Veces(p, cola["new"]) = Uno(estado[p] = "NEW")
        /\ Veces(p, cola["ready"]) = Uno(estado[p] = "READY")
        /\ Veces(p, cola["exec"]) = Uno(estado[p] = "EXEC" /\ ~en_paso("bloquear"))
        /\ Veces(p, cola["block"]) = Uno(estado[p] = "BLOCK" /\ ~en_paso("encolar"))
        /\ Veces(p, cola["exit"]) =
             Uno(terminado /\ \A q \in PROCESOS : recogido[q] # p)
        /\ Cardinality({r \in RECURSOS : p \in ToSet(cola_bloqueados[r])}) =
             Uno(estado[p] = "BLOCK_RECURSO")

\* The context the CPU runs is that of the process the kernel believes to be in
\* EXEC, into which it will store what comes back: between the peek and the pop
\* of cola_ready nothing enters it ahead of the process that was peeked.  So it is
\* in FIFO with late answers of the file system: HRRN puts a process ahead, and an
\* early answer takes the one the CPU runs out of cola_exec.
DespachoCorrecto ==
  contextos # <<>> => /\ cola["exec"] # <<>>
                      /\ Head(contextos).pcb = Head(cola["exec"])

\* With late answers of the file system,
\* a compaction finds in procesos_en_kernel the process of every table that the
\* memory module lists, unless its console has not registered it yet (another
\* console's post let the long-term scheduler admit it); and the processes that
\* have a table are those between admission and exit.
TablasSincronizables ==
  /\ \A p \in con_tabla : p \in procesos_en_kernel \/ consola[p] = "anuncia"
  /\ \A p \in PROCESOS :
       IF estado[p] = "NEW"
       THEN p \in con_tabla => largo = "admitir" /\ p = Head(cola["new"])
       ELSE p \in con_tabla <=>
            estado[p] \in {"READY", "EXEC", "BLOCK", "BLOCK_RECURSO"}

\* The diagram of states: with late answers of the file system no thread moves a
\* process along an arrow it does not have, such as out of EXIT or from READY to
\* BLOCK, which an early answer brings about.
Transiciones ==
  {<<"NINGUNO", "NEW">>, <<"NEW", "READY">>, <<"READY", "EXEC">>, <<"EXEC", "READY">>,
   <<"EXEC", "BLOCK">>, <<"EXEC", "BLOCK_RECURSO">>, <<"EXEC", "EXIT">>,
   <<"BLOCK", "READY">>, <<"BLOCK_RECURSO", "READY">>, <<"EXIT", "DESTRUIDO">>}
DiagramaDeEstados ==
  [][\A p \in PROCESOS : estado'[p] # estado[p] =>
       <<estado[p], estado'[p]>> \in Transiciones]_vars

\* Nobody starves: in the end every console that sent a program is answered,
\* except those whose process waits for a resource that is not signalled and,
\* if such processes fill the degree of multiprogramming, those still in NEW.
EsperanRecurso == {p \in PROCESOS : estado[p] = "BLOCK_RECURSO"}
TerminaOEsperaRecurso ==
  <>[](\A p \in PROCESOS :
         \/ consola[p] \in {"inicio", "fin"}
         \/ p \in EsperanRecurso
         \/ estado[p] = "NEW" /\ Cardinality(EsperanRecurso) = GRADO)

\* README.md:14: when a process ends the kernel returns a message "a su Consola
\* correspondiente": each console is told how its own process ended.
RespuestaPropia ==
  \A p \in PROCESOS : consola[p] = "fin" => respuesta[p] = motivo[p]

\* planificador_utils.h:110-113: pasar_a_cola_ready takes the pcb out of its
\* queue and passes it to READY, so a process in READY is in no other queue.
SoloEnReady ==
  \A p \in ToSet(cola["ready"]) : p \notin ToSet(cola["exec"]) \cup ToSet(cola["block"])
=============================================================================
