-------------------------- MODULE ArchivosAbiertos --------------------------
(***************************************************************************)
(* The global table of open files of the kernel: F_OPEN, F_CLOSE, F_SEEK,  *)
(* F_READ, F_WRITE and F_TRUNCATE, as the thread that talks to the CPU and *)
(* the one that talks to the file system carry them out.  The first thread *)
(* keeps the CPU while a file is opened; a process that opens a file that  *)
(* is open already waits in the queue of the file.                         *)
(*                                                                         *)
(* Abstractions.  Every process is admitted at the start and the scheduler *)
(* is FIFO; cola_block is the set of processes in the state BLOCK, since   *)
(* it is only searched.  A request is blocked and sent in one step: the    *)
(* race between the two is in Planificacion.  tabla_archivos_abiertos of a *)
(* pcb and cant_aperturas are written and never read, and are left out, as *)
(* is the content of files.  F_READ stands for F_WRITE too, except that    *)
(* only procesar_f_read reads the entry of the file.                       *)
(***************************************************************************)
EXTENDS Naturals, SequencesExt, FiniteSets

CONSTANTS PROCESOS, NADIE, ARCHIVOS,
          POSICIONES,   \* arguments of F_SEEK
          LARGO         \* bound on the requests of a program

ASSUME ConstantesValidas ==
         /\ IsFiniteSet(PROCESOS) /\ NADIE \notin PROCESOS
         /\ POSICIONES \subseteq Nat
         /\ LARGO \in Nat

VARIABLES
  estado, instruccion, restan,  \* of each pcb: its state, the instruction before
                                \* its program_counter, those it has left
  cola_ready, cola_exec,        \* cola_exec holds the process in EXEC, or NADIE
  archivos_abiertos,            \* the table: names, in the order they were added
  puntero, cola_bloqueados,     \* of the t_archivo_abierto of each name
  hilo_cpu,                     \* the thread of the CPU waits for it or for f_open_done
  f_open_done,
  cola_archivos, en_fs,         \* requests to the file system, and the one it has
  existe,                       \* files the file system has
  caido,                        \* the kernel read through a NULL entry or pcb
  usa                           \* history: the files each program has open

pcbs  == <<estado, instruccion, restan>>
tabla == <<archivos_abiertos, puntero, cola_bloqueados>>
fs    == <<cola_archivos, en_fs, existe>>
vars  == <<pcbs, cola_ready, cola_exec, tabla, hilo_cpu, f_open_done, fs, caido, usa>>

Operaciones == {"F_OPEN", "F_READ", "F_WRITE", "F_TRUNCATE"}
Ninguna == <<"ninguna", NADIE>>

Init ==
  /\ estado = [p \in PROCESOS |-> "READY"]
  /\ instruccion = [p \in PROCESOS |-> Ninguna]
  /\ restan = [p \in PROCESOS |-> LARGO]
  /\ cola_ready = SetToSeq(PROCESOS) /\ cola_exec = NADIE
  /\ archivos_abiertos = <<>>
  /\ puntero = [f \in ARCHIVOS |-> 0]
  /\ cola_bloqueados = [f \in ARCHIVOS |-> <<>>]
  /\ hilo_cpu = "recibir" /\ f_open_done = 0
  /\ cola_archivos = <<>> /\ en_fs = NADIE
  /\ existe \in SUBSET ARCHIVOS
  /\ caido = FALSE
  /\ usa = [p \in PROCESOS |-> {}]

-----------------------------------------------------------------------------
(* Helpers *)

\* Mutant: every file looks closed to F_OPEN and open to the rest.
NuncaAbierto(f) == FALSE

\* obtener_archivo_abierto finds an entry.
EstaAbierto(f) == Contains(archivos_abiertos, f)

\* Mutants: the last that came is woken; the entry goes although others wait.
DespertarUltimo(f) ==
  [sigue |-> Last(cola_bloqueados[f]), resto |-> Front(cola_bloqueados[f])]
CerrarSiempre(f) == TRUE

ADesbloquear(f) ==
  [sigue |-> Head(cola_bloqueados[f]), resto |-> Tail(cola_bloqueados[f])]
SinEsperas(f) == Len(cola_bloqueados[f]) < 1

pasar_a_cola_ready(p) ==
  /\ cola_ready' = Append(cola_ready, p)
  /\ estado' = [estado EXCEPT ![p] = "READY"]

pasar_a_cola_blocked(p) ==
  /\ cola_exec' = NADIE
  /\ estado' = [estado EXCEPT ![p] = "BLOCK"]

-----------------------------------------------------------------------------
(* The short-term scheduler, and what the CPU returns *)

planificar ==
  /\ ~caido /\ cola_exec = NADIE /\ cola_ready # <<>>
  /\ cola_exec' = Head(cola_ready)
  /\ cola_ready' = Tail(cola_ready)
  /\ estado' = [estado EXCEPT ![Head(cola_ready)] = "EXEC"]
  /\ UNCHANGED <<instruccion, restan, tabla, hilo_cpu, f_open_done, fs, caido, usa>>

\* The process in EXEC returns with a request for f.  Programs open files they
\* do not have open, and use and close the ones they have.
Devuelto(p, op, f) ==
  /\ ~caido /\ hilo_cpu = "recibir"
  /\ cola_exec = p /\ restan[p] > 0
  /\ f \in usa[p] <=> op # "F_OPEN"
  /\ instruccion' = [instruccion EXCEPT ![p] = <<op, f>>]
  /\ restan' = [restan EXCEPT ![p] = @ - 1]

-----------------------------------------------------------------------------
(* The thread of the CPU *)

\* F_OPEN of a file nobody has open: the process stays in EXEC.
PedirApertura(p, f) ==
  /\ Devuelto(p, "F_OPEN", f)
  /\ ~EstaAbierto(f)
  /\ cola_archivos' = Append(cola_archivos, p)
  /\ hilo_cpu' = "f_open_done"
  /\ UNCHANGED <<estado, cola_ready, cola_exec, tabla, f_open_done, en_fs, existe,
                 caido, usa>>

\* Mutant: the answer to F_OPEN is not waited for.
SeguirSinEsperar ==
  /\ ~caido /\ hilo_cpu = "f_open_done"
  /\ hilo_cpu' = "recibir"
  /\ UNCHANGED <<pcbs, cola_ready, cola_exec, tabla, fs, f_open_done, caido, usa>>

EsperarApertura ==
  /\ ~caido /\ hilo_cpu = "f_open_done" /\ f_open_done > 0
  /\ f_open_done' = f_open_done - 1
  /\ hilo_cpu' = "recibir"
  /\ UNCHANGED <<pcbs, cola_ready, cola_exec, tabla, fs, caido, usa>>

\* F_OPEN of an open file, whoever has it open.
EsperarArchivo(p, f) ==
  /\ Devuelto(p, "F_OPEN", f)
  /\ EstaAbierto(f)
  /\ pasar_a_cola_blocked(p)
  /\ cola_bloqueados' = [cola_bloqueados EXCEPT ![f] = Append(@, p)]
  /\ UNCHANGED <<cola_ready, archivos_abiertos, puntero, hilo_cpu, f_open_done, fs,
                 caido, usa>>

\* F_CLOSE of a file that nobody waits for, or that is not open.
CerrarUltimo(p, f) ==
  /\ Devuelto(p, "F_CLOSE", f)
  /\ EstaAbierto(f) => SinEsperas(f)
  /\ archivos_abiertos' = RemoveFirst(archivos_abiertos, f)
  /\ usa' = [usa EXCEPT ![p] = @ \ {f}]
  /\ UNCHANGED <<estado, cola_ready, cola_exec, puntero, cola_bloqueados, hilo_cpu,
                 f_open_done, fs, caido>>

\* F_CLOSE with processes waiting: the entry is kept as it is, pointer included,
\* and the first of them runs on as if its F_OPEN had opened the file.
CerrarYDespertar(p, f) ==
  /\ Devuelto(p, "F_CLOSE", f)
  /\ EstaAbierto(f) /\ ~SinEsperas(f)
  /\ LET q == ADesbloquear(f).sigue IN
       /\ cola_bloqueados' = [cola_bloqueados EXCEPT ![f] = ADesbloquear(f).resto]
       /\ IF estado[q] = "BLOCK"
          THEN pasar_a_cola_ready(q) /\ UNCHANGED caido
          ELSE caido' = TRUE /\ UNCHANGED <<cola_ready, estado>>
       /\ usa' = [r \in PROCESOS |-> IF r = q THEN usa[q] \cup {f}
                                     ELSE IF r = p THEN usa[p] \ {f} ELSE usa[r]]
  /\ UNCHANGED <<cola_exec, archivos_abiertos, puntero, hilo_cpu, f_open_done, fs>>

ejecutar_f_seek(p, f, n) ==
  /\ Devuelto(p, "F_SEEK", f)
  /\ puntero' = IF EstaAbierto(f) THEN [puntero EXCEPT ![f] = n] ELSE puntero
  /\ UNCHANGED <<estado, cola_ready, cola_exec, archivos_abiertos, cola_bloqueados,
                 hilo_cpu, f_open_done, fs, caido, usa>>

\* F_READ, F_WRITE and F_TRUNCATE block the process; F_READ logs the pointer of
\* the entry first.
PedirFS(p, op, f) ==
  /\ Devuelto(p, op, f)
  /\ op \in Operaciones \ {"F_OPEN"}
  /\ IF op = "F_READ" /\ ~EstaAbierto(f)
     THEN caido' = TRUE /\ UNCHANGED <<cola_archivos, cola_exec, estado>>
     ELSE /\ cola_archivos' = Append(cola_archivos, p)
          /\ pasar_a_cola_blocked(p)
          /\ UNCHANGED caido
  /\ UNCHANGED <<cola_ready, tabla, hilo_cpu, f_open_done, en_fs, existe, usa>>

\* EXIT closes no file: the call to cerrar_archivos_asociados is commented out.
Terminar(p) ==
  /\ ~caido /\ hilo_cpu = "recibir" /\ cola_exec = p
  /\ cola_exec' = NADIE
  /\ estado' = [estado EXCEPT ![p] = "EXIT"]
  /\ UNCHANGED <<instruccion, restan, cola_ready, tabla, hilo_cpu, f_open_done, fs,
                 caido, usa>>

-----------------------------------------------------------------------------
(* The thread of the file system *)

\* The request names the process; its instruction says what is asked, and the
\* entry of the file where to read or write.
enviar_request_fs ==
  /\ ~caido /\ en_fs = NADIE /\ cola_archivos # <<>>
  /\ LET p == Head(cola_archivos)
         op == instruccion[p][1]
         f == instruccion[p][2] IN
       /\ en_fs' = p
       /\ caido' = (op \in {"F_READ", "F_WRITE"} /\ ~EstaAbierto(f))
  /\ cola_archivos' = Tail(cola_archivos)
  /\ UNCHANGED <<pcbs, cola_ready, cola_exec, tabla, hilo_cpu, f_open_done, existe, usa>>

\* F_NOT_EXISTS: the file is created and the F_OPEN sent again.
fs_crear_archivo ==
  /\ ~caido /\ en_fs # NADIE
  /\ instruccion[en_fs][1] = "F_OPEN"
  /\ instruccion[en_fs][2] \notin existe
  /\ existe' = existe \cup {instruccion[en_fs][2]}
  /\ UNCHANGED <<pcbs, cola_ready, cola_exec, tabla, hilo_cpu, f_open_done,
                 cola_archivos, en_fs, caido, usa>>

\* The entry is made if there is none; it is added to the table in any case.
AgregarEntrada(p, f) ==
  /\ archivos_abiertos' = Append(archivos_abiertos, f)
  /\ IF EstaAbierto(f) THEN UNCHANGED <<puntero, cola_bloqueados>>
     ELSE /\ puntero' = [puntero EXCEPT ![f] = 0]
          /\ cola_bloqueados' = [cola_bloqueados EXCEPT ![f] = <<>>]
  /\ f_open_done' = f_open_done + 1
  /\ usa' = [usa EXCEPT ![p] = @ \cup {f}]

RespuestaApertura ==
  /\ ~caido /\ en_fs # NADIE
  /\ instruccion[en_fs][1] = "F_OPEN"
  /\ instruccion[en_fs][2] \in existe
  /\ AgregarEntrada(en_fs, instruccion[en_fs][2])
  /\ en_fs' = NADIE
  /\ UNCHANGED <<pcbs, cola_ready, cola_exec, hilo_cpu, cola_archivos, existe, caido>>

recibir_respuesta_fs ==
  /\ ~caido /\ en_fs # NADIE
  /\ instruccion[en_fs][1] # "F_OPEN"
  /\ IF EstaAbierto(instruccion[en_fs][2])
     THEN pasar_a_cola_ready(en_fs) /\ UNCHANGED caido
     ELSE caido' = TRUE /\ UNCHANGED <<cola_ready, estado>>
  /\ en_fs' = NADIE
  /\ UNCHANGED <<instruccion, restan, cola_exec, tabla, hilo_cpu, f_open_done,
                 cola_archivos, existe, usa>>

-----------------------------------------------------------------------------
procesar_contexto ==
  \/ EsperarApertura
  \/ \E p \in PROCESOS :
       \/ Terminar(p)
       \/ \E f \in ARCHIVOS :
            \/ PedirApertura(p, f) \/ EsperarArchivo(p, f)
            \/ CerrarUltimo(p, f) \/ CerrarYDespertar(p, f)
            \/ \E n \in POSICIONES : ejecutar_f_seek(p, f, n)
            \/ \E op \in Operaciones : PedirFS(p, op, f)

procesar_file_system ==
  enviar_request_fs \/ fs_crear_archivo \/ RespuestaApertura \/ recibir_respuesta_fs

Next == planificar \/ procesar_contexto \/ procesar_file_system

Spec == Init /\ [][Next]_vars

\* The two threads and the scheduler run whenever they can, the file system
\* answers and programs go on to their end.
SpecJusta == Spec /\ WF_vars(planificar) /\ WF_vars(procesar_contexto)
                  /\ WF_vars(procesar_file_system)

-----------------------------------------------------------------------------
(* Properties *)

Instrucciones == {Ninguna} \cup (Operaciones \cup {"F_CLOSE", "F_SEEK"}) \X ARCHIVOS

\* Every variable has its type, cola_ready and cola_exec hold the processes in
\* those states, and the table has one entry per file.
TypeOK ==
  /\ estado \in [PROCESOS -> {"READY", "EXEC", "BLOCK", "EXIT"}]
  /\ restan \in [PROCESOS -> 0 .. LARGO]
  /\ instruccion \in [PROCESOS -> Instrucciones]
  /\ cola_ready \in Seq(PROCESOS) /\ IsInjective(cola_ready)
  /\ ToSet(cola_ready) = {p \in PROCESOS : estado[p] = "READY"}
  /\ {p \in PROCESOS : estado[p] = "EXEC"} = {cola_exec} \ {NADIE}
  /\ archivos_abiertos \in Seq(ARCHIVOS) /\ IsInjective(archivos_abiertos)
  /\ puntero \in [ARCHIVOS -> POSICIONES \cup {0}]
  /\ cola_bloqueados \in [ARCHIVOS -> Seq(PROCESOS)]
  /\ hilo_cpu \in {"recibir", "f_open_done"} /\ f_open_done \in {0, 1}
  /\ en_fs \in PROCESOS \cup {NADIE}
  /\ cola_archivos \in Seq(PROCESOS) /\ IsInjective(cola_archivos)
  /\ existe \subseteq ARCHIVOS /\ caido \in BOOLEAN
  /\ usa \in [PROCESOS -> SUBSET ARCHIVOS]

Usuarios(f)  == {p \in PROCESOS : f \in usa[p]}
Esperando(p) == {f \in ARCHIVOS : Contains(cola_bloqueados[f], p)}

\* A program that F_OPEN let go on is the only one that has the file, the table
\* has its entry, and no thread of the kernel reads through a missing one: the
\* lookup of procesar_f_open and the list_add of the other thread, with the
\* answer of the file system in between, are as good as one step.
UsoExclusivo ==
  /\ ~caido
  /\ \A f \in ARCHIVOS : Cardinality(Usuarios(f)) <= 1
  /\ \A f \in ARCHIVOS : Usuarios(f) # {} => EstaAbierto(f)

\* Those in the queue of a file are in cola_block because of an F_OPEN of that
\* file, once; nobody is blocked by F_OPEN and in no queue; and a queue belongs
\* to an entry of the table.  So F_CLOSE finds the pcb that it must wake.
ColaDeEspera ==
  /\ \A f \in ARCHIVOS :
       /\ IsInjective(cola_bloqueados[f])
       /\ cola_bloqueados[f] # <<>> => EstaAbierto(f)
       /\ ToSet(cola_bloqueados[f]) =
            {p \in PROCESOS : estado[p] = "BLOCK" /\ instruccion[p] = <<"F_OPEN", f>>}

\* The file of a request that is queued or at the file system.
Pedido(p) ==
  IF (p = en_fs \/ Contains(cola_archivos, p)) /\ instruccion[p][1] # "F_OPEN"
  THEN {instruccion[p][2]} ELSE {}

\* From F_READ, F_WRITE or F_TRUNCATE to its answer nobody closes the file, gets
\* it, or moves the pointer that enviar_request_fs reads when its turn comes.
PedidoEstable ==
  [][\A p \in PROCESOS : \A f \in Pedido(p) :
       f \in Pedido(p)' =>
         /\ puntero'[f] = puntero[f]
         /\ EstaAbierto(f)'
         /\ Usuarios(f)' = Usuarios(f)]_vars

\* The one that has f, as the lock sees it.
Duenio(f) == IF Usuarios(f) = {} THEN NADIE ELSE CHOOSE p \in PROCESOS : p \in Usuarios(f)

Abstracto == INSTANCE Candados
               WITH duenio <- [f \in ARCHIVOS |-> Duenio(f)], espera <- cola_bloqueados

\* The table and its two threads implement the lock that programs count on:
\* F_OPEN takes a free file, F_CLOSE gives it to the one that came first.
ImplementaCandados == Abstracto!Spec

\* Every file that somebody in S waits for is in the hands of S or of programs
\* that ended without closing it.
SinSalida(S) ==
  \A p \in S :
    /\ Esperando(p) # {}
    /\ \A f \in Esperando(p) :
         Usuarios(f) # {} /\ \A q \in Usuarios(f) : q \in S \/ estado[q] = "EXIT"

\* Who waits for a file gets it, unless it waits for a program that ended, or
\* for one that waits, in the end, for itself: no wake-up is lost.
EsperaTermina ==
  \A p \in PROCESOS :
    (Esperando(p) # {}) ~>
      (Esperando(p) = {} \/ \E S \in SUBSET PROCESOS : p \in S /\ SinSalida(S))
==============================================================================
