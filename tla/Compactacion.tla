---------------------------- MODULE Compactacion ----------------------------
(***************************************************************************)
(* The kernel, the memory module, the CPU and the file system together:    *)
(* who talks to memory and when, the copies of the segment tables that the *)
(* kernel and the CPU work with, and the compaction, which must not move   *)
(* what somebody has the physical address of.                              *)
(*                                                                         *)
(* The memory module is the module Memoria; each of its requests is now    *)
(* sent by a thread of the kernel that holds mutex_socket_memoria, and its *)
(* answer carries the tables as they are then.                             *)
(*                                                                         *)
(* Abstractions.  The schedulers pick any process; the degree of           *)
(* multiprogramming, IO, resources and open files are in other modules.    *)
(* F_READ and F_WRITE are one request.  A program names segments it has;   *)
(* CREATE_SEGMENT is not asked for when the bound on descriptors would     *)
(* leave it without an answer.  The model stops (ajeno) when a thread      *)
(* unlocks mutex_socket_memoria and another one holds it: from then on two *)
(* threads read one socket.                                                *)
(***************************************************************************)
EXTENDS Memoria, Sequences

CONSTANTS NADIE,
          TAM_MAX_SEGMENTO   \* of the configuration of the CPU

ASSUME TamanioMaximo ==
         /\ TAM_MAX_SEGMENTO \in Nat \ {0}
         /\ \A t \in TAMANIOS \cup {TAM_SEGMENTO_0} : t <= TAM_MAX_SEGMENTO
\* NADIE is no thread, and the number of a segment is a part of an address.
ASSUME NombresDistintos == NADIE \notin {"cpu", "largo"} /\ IDS \subseteq Nat

VARIABLES
  estado,                  \* of each pcb
  tabla_segmento,          \* of each pcb: descriptor -> segment, as memory sent it
  contexto,                \* the table sent to the CPU with the process in EXEC
  mutex_socket_memoria,    \* the thread that holds it, or NADIE
  puede_compactar,         \* TRUE when it is free
  hilo_cpu, hilo_largo,    \* what the two threads that talk to memory are at
  pedido, contestacion,    \* a request memory has not taken, an answer not read
  transferencias,          \* F_READ and F_WRITE at the file system
  ajeno                    \* a thread unlocked a mutex that another one held

memoria == <<huecos, segmentos, tablas, id, espacio, fase, pendiente, cursor,
             aLiberar, respuesta>>
kernel  == <<estado, tabla_segmento, contexto, transferencias>>
mutexes == <<mutex_socket_memoria, puede_compactar, ajeno>>
socket  == <<pedido, contestacion>>
todo    == <<memoria, kernel, mutexes, socket, hilo_cpu, hilo_largo>>

Libre == [paso |-> "recibir", pid |-> NADIE, pide |-> NADIE]

\* A table as enviar_tabla_segmento and enviar_procesos_actualizados send it.
serializar_tabla_segmentos(p) == Restrict(segmentos, tablas[p])

InitTodo ==
  /\ Init
  /\ estado = [p \in PIDS |-> "NEW"]
  /\ tabla_segmento = [p \in PIDS |-> <<>>]
  /\ contexto = <<>>
  /\ mutex_socket_memoria = NADIE /\ puede_compactar = TRUE /\ ajeno = FALSE
  /\ hilo_cpu = Libre /\ hilo_largo = Libre
  /\ pedido = NADIE /\ contestacion = NADIE
  /\ transferencias = {}

-----------------------------------------------------------------------------
(* The MMU of the CPU *)

obtener_segmento(dir, tabla) ==
  LET iguales == {d \in DOMAIN tabla :
                    tabla[d].segmento_id = dir \div TAM_MAX_SEGMENTO}
  IN  tabla[CHOOSE d \in iguales : \A e \in iguales : d <= e]

\* Mutant: an off-by-one in the comparison with the size.
TraducirUnoMas(dir, tabla, n) ==
  LET desplazamiento == dir % TAM_MAX_SEGMENTO
      s == obtener_segmento(dir, tabla)
  IN  IF desplazamiento + n > s.tam + 1 THEN -1 ELSE s.inicio + desplazamiento

traducir_a_direccion_fisica(dir, tabla, n) ==
  LET desplazamiento == dir % TAM_MAX_SEGMENTO
      s == obtener_segmento(dir, tabla)
  IN  IF desplazamiento + n > s.tam THEN -1 ELSE s.inicio + desplazamiento

\* Logical addresses of the segments of a table.
Logicas(tabla) ==
  {tabla[d].segmento_id * TAM_MAX_SEGMENTO + o :
     d \in DOMAIN tabla, o \in 0 .. TAM_MAX_SEGMENTO - 1}
Largos == 1 .. TAM_MAX_SEGMENTO

-----------------------------------------------------------------------------
(* Mutexes *)

Bloquear(hilo) ==
  /\ mutex_socket_memoria = NADIE
  /\ mutex_socket_memoria' = hilo
  /\ UNCHANGED <<puede_compactar, ajeno>>

\* Whoever holds it, pthread_mutex_unlock frees it.
Desbloquear(hilo) ==
  /\ mutex_socket_memoria' = NADIE
  /\ ajeno' = (mutex_socket_memoria \notin {NADIE, hilo})

-----------------------------------------------------------------------------
(* The long-term scheduler: solicitar_nueva_tabla_de_segmento *)

\* Mutant: the request is sent without the mutex.
PedirTablaSinMutex(p) ==
  /\ hilo_largo = Libre /\ estado[p] = "NEW" /\ pedido = NADIE
  /\ mutex_socket_memoria' = "largo"
  /\ pedido' = <<"CREATE_TABLE", p>>
  /\ hilo_largo' = [paso |-> "respuesta", pid |-> p, pide |-> "CREATE_TABLE"]
  /\ UNCHANGED <<memoria, kernel, puede_compactar, ajeno, contestacion, hilo_cpu>>

PedirTabla(p) ==
  /\ hilo_largo = Libre /\ estado[p] = "NEW"
  /\ Bloquear("largo")
  /\ pedido' = <<"CREATE_TABLE", p>>
  /\ hilo_largo' = [paso |-> "respuesta", pid |-> p, pide |-> "CREATE_TABLE"]
  /\ UNCHANGED <<memoria, kernel, contestacion, hilo_cpu>>

RecibirTabla ==
  /\ hilo_largo.paso = "respuesta" /\ contestacion # NADIE
  /\ tabla_segmento' = [tabla_segmento EXCEPT ![hilo_largo.pid] =
                          contestacion.tablas[hilo_largo.pid]]
  /\ estado' = [estado EXCEPT ![hilo_largo.pid] = "READY"]
  /\ Desbloquear("largo")
  /\ contestacion' = NADIE /\ hilo_largo' = Libre
  /\ UNCHANGED <<memoria, contexto, transferencias, puede_compactar, pedido, hilo_cpu>>

-----------------------------------------------------------------------------
(* The short-term scheduler, and the process in the CPU *)

\* planificar and ejecutar_proceso.
planificar(p) ==
  /\ \A q \in PIDS : estado[q] # "EXEC"
  /\ estado[p] = "READY"
  /\ estado' = [estado EXCEPT ![p] = "EXEC"]
  /\ contexto' = tabla_segmento[p]
  /\ UNCHANGED <<memoria, tabla_segmento, transferencias, mutexes, socket, hilo_cpu,
                 hilo_largo>>

\* The CPU returns the process in EXEC and the thread that waits for it goes on.
Devuelto(p) == estado[p] = "EXEC" /\ hilo_cpu = Libre

DevolverYield(p) ==
  /\ Devuelto(p)
  /\ estado' = [estado EXCEPT ![p] = "READY"]
  /\ contexto' = <<>>
  /\ UNCHANGED <<memoria, tabla_segmento, transferencias, mutexes, socket, hilo_cpu,
                 hilo_largo>>

\* CREATE_SEGMENT, DELETE_SEGMENT, EXIT or a SEG_FAULT.
PedidosDe(tabla) ==
  {<<"CREATE_SEGMENT", i, t>> : i \in IF id < MAX_DESCRIPTOR THEN IDS ELSE {}, t \in TAMANIOS}
  \cup {<<"DELETE_SEGMENT", tabla[d].segmento_id>> : d \in DOMAIN tabla \ {Compartido}}
  \cup {<<"DELETE_TABLE">>}

DevolverPedido(p, que) ==
  /\ Devuelto(p)
  /\ hilo_cpu' = [paso |-> "pedir", pid |-> p, pide |-> que]
  /\ contexto' = <<>>
  /\ UNCHANGED <<memoria, estado, tabla_segmento, transferencias, mutexes, socket,
                 hilo_largo>>

\* F_READ and F_WRITE, with the address the MMU translated; the thread then waits
\* for puede_compactar.
DevolverTransferencia(p, dir, n) ==
  LET fisica == traducir_a_direccion_fisica(dir, contexto, n) IN
  /\ Devuelto(p)
  /\ fisica # -1
  /\ hilo_cpu' = [paso |-> "transferir", pid |-> p,
                  pide |-> [logica |-> dir, fisica |-> fisica, largo |-> n]]
  /\ contexto' = <<>>
  /\ UNCHANGED <<memoria, estado, tabla_segmento, transferencias, mutexes, socket,
                 hilo_largo>>

\* Mutant: the lock that enviar_request_fs has commented out is in neither place.
TransferirSinMutex ==
  /\ hilo_cpu.paso = "transferir"
  /\ transferencias' = transferencias \cup {<<hilo_cpu.pid, hilo_cpu.pide>>}
  /\ estado' = [estado EXCEPT ![hilo_cpu.pid] = "BLOCK"]
  /\ hilo_cpu' = Libre
  /\ UNCHANGED <<memoria, tabla_segmento, contexto, mutexes, socket, hilo_largo>>

Transferir ==
  /\ hilo_cpu.paso = "transferir" /\ puede_compactar
  /\ puede_compactar' = FALSE
  /\ transferencias' = transferencias \cup {<<hilo_cpu.pid, hilo_cpu.pide>>}
  /\ estado' = [estado EXCEPT ![hilo_cpu.pid] = "BLOCK"]
  /\ hilo_cpu' = Libre
  /\ UNCHANGED <<memoria, tabla_segmento, contexto, mutex_socket_memoria, ajeno, socket,
                 hilo_largo>>

\* Mutant: the answer of the file system leaves puede_compactar locked.
RespuestaSinLiberar(t) ==
  /\ t \in transferencias
  /\ transferencias' = transferencias \ {t}
  /\ estado' = [estado EXCEPT ![t[1]] = "READY"]
  /\ UNCHANGED <<memoria, tabla_segmento, contexto, mutexes, socket, hilo_cpu, hilo_largo>>

\* F_READ_OK and F_WRITE_OK: the transfer is done.
recibir_respuesta_fs(t) ==
  /\ t \in transferencias
  /\ transferencias' = transferencias \ {t}
  /\ puede_compactar' = TRUE
  /\ estado' = [estado EXCEPT ![t[1]] = "READY"]
  /\ UNCHANGED <<memoria, tabla_segmento, contexto, mutex_socket_memoria, ajeno, socket,
                 hilo_cpu, hilo_largo>>

-----------------------------------------------------------------------------
(* The thread of the CPU and the memory module *)

\* procesar_create_segment, procesar_delete_segment and
\* solicitar_eliminar_tabla_de_segmento up to the wait for the answer.
Pedir ==
  /\ hilo_cpu.paso \in {"pedir", "sin memoria"}
  /\ Bloquear("cpu")
  /\ pedido' = <<hilo_cpu.pide[1], hilo_cpu.pid>> \o Tail(hilo_cpu.pide)
  /\ hilo_cpu' = [hilo_cpu EXCEPT !.paso =
                    IF @ = "pedir" THEN "respuesta" ELSE "respuesta sin memoria"]
  /\ UNCHANGED <<memoria, kernel, contestacion, hilo_largo>>

Recibe(pasos, codigos) ==
  /\ hilo_cpu.paso \in pasos
  /\ contestacion # NADIE /\ contestacion.codigo \in codigos
  /\ contestacion' = NADIE

\* MEMORY_SEGMENT_CREATED and _DELETED: the table is copied and the process goes
\* on.  A creation that needed a compaction gives puede_compactar back.
RecibirSegmento ==
  LET p == hilo_cpu.pid IN
  /\ Recibe({"respuesta", "reenviado"}, {"SEGMENT_CREATED", "SEGMENT_DELETED"})
  /\ tabla_segmento' = [tabla_segmento EXCEPT ![p] = contestacion.tablas[p]]
  /\ contexto' = contestacion.tablas[p]
  /\ puede_compactar' = (puede_compactar \/ hilo_cpu.paso = "reenviado")
  /\ Desbloquear("cpu")
  /\ hilo_cpu' = Libre
  /\ UNCHANGED <<memoria, estado, transferencias, pedido, hilo_largo>>

\* Mutant: the process whose table is gone is run again.
ListoTrasEliminar ==
  /\ Recibe({"respuesta", "respuesta sin memoria"}, {"TABLE_DELETED"})
  /\ estado' = [estado EXCEPT ![hilo_cpu.pid] = "READY"]
  /\ Desbloquear("cpu")
  /\ hilo_cpu' = Libre
  /\ UNCHANGED <<memoria, tabla_segmento, contexto, transferencias, puede_compactar,
                 pedido, hilo_largo>>

\* MEMORY_SEGMENT_TABLE_DELETED: the process ends and the CPU is free.  After
\* OUT_OF_MEMORY procesar_create_segment still has its unlock to do.
RecibirEliminada ==
  /\ Recibe({"respuesta", "respuesta sin memoria"}, {"TABLE_DELETED"})
  /\ estado' = [estado EXCEPT ![hilo_cpu.pid] = "EXIT"]
  /\ Desbloquear("cpu")
  /\ hilo_cpu' = IF hilo_cpu.paso = "respuesta" THEN Libre
                 ELSE [hilo_cpu EXCEPT !.paso = "desbloquear"]
  /\ UNCHANGED <<memoria, tabla_segmento, contexto, transferencias, puede_compactar,
                 pedido, hilo_largo>>

DesbloquearOtraVez ==
  /\ hilo_cpu.paso = "desbloquear"
  /\ Desbloquear("cpu")
  /\ hilo_cpu' = Libre
  /\ UNCHANGED <<memoria, kernel, puede_compactar, socket, hilo_largo>>

\* MEMORY_ERROR_OUT_OF_MEMORY: the mutex is unlocked to ask for the deletion of
\* the table.  Memory never gives this answer to a request it put off.
RecibirSinMemoria ==
  /\ Recibe({"respuesta"}, {"OUT_OF_MEMORY"})
  /\ Desbloquear("cpu")
  /\ hilo_cpu' = [hilo_cpu EXCEPT !.paso = "sin memoria", !.pide = <<"DELETE_TABLE">>]
  /\ UNCHANGED <<memoria, kernel, puede_compactar, pedido, hilo_largo>>

\* MEMORY_NEEDS_TO_COMPACT, the first time or in answer to the request resent.
RecibirCompactar ==
  /\ Recibe({"respuesta", "reenviado"}, {"NEEDS_TO_COMPACT"})
  /\ hilo_cpu' = [hilo_cpu EXCEPT !.paso = "compactar"]
  /\ UNCHANGED <<memoria, kernel, mutexes, pedido, hilo_largo>>

PedirCompactacion ==
  /\ hilo_cpu.paso = "compactar" /\ puede_compactar
  /\ puede_compactar' = FALSE
  /\ pedido' = <<"COMPACT">>
  /\ hilo_cpu' = [hilo_cpu EXCEPT !.paso = "compactando"]
  /\ UNCHANGED <<memoria, kernel, mutex_socket_memoria, ajeno, contestacion, hilo_largo>>

\* Mutant: only the table of the process that asked is copied.
SincronizarSolo(ts, p) ==
  tabla_segmento' = [tabla_segmento EXCEPT ![p] = ts[p]]

\* Of every process memory lists; the others keep what they had.
sincronizar_tablas_procesos(ts, p) ==
  tabla_segmento' = [q \in PIDS |-> IF q \in DOMAIN ts THEN ts[q] ELSE tabla_segmento[q]]

\* MEMORY_COMPACT: the tables are copied and the request sent again.
RecibirCompactada ==
  /\ Recibe({"compactando"}, {"COMPACTED"})
  /\ sincronizar_tablas_procesos(contestacion.tablas, hilo_cpu.pid)
  /\ pedido' = <<hilo_cpu.pide[1], hilo_cpu.pid>> \o Tail(hilo_cpu.pide)
  /\ hilo_cpu' = [hilo_cpu EXCEPT !.paso = "reenviado"]
  /\ UNCHANGED <<memoria, estado, contexto, transferencias, mutexes, hilo_largo>>

-----------------------------------------------------------------------------
(* The thread of the memory module that serves the kernel *)

Contestar(quienes) ==
  contestacion' = [codigo |-> respuesta',
                   tablas |-> [q \in quienes |-> serializar_tabla_segmentos(q)']]

AtenderConRespuesta ==
  /\ pedido # NADIE
  /\ \/ pedido[1] = "CREATE_TABLE" /\ crear_tabla_segmento(pedido[2])
     \/ /\ pedido[1] = "CREATE_SEGMENT"
        /\ \/ crear_segmento(pedido[2], pedido[3], pedido[4])
           \/ CrearSinLugarContiguo(pedido[2], pedido[3], pedido[4])
           \/ CrearSinMemoria(pedido[2], pedido[3], pedido[4])
     \/ pedido[1] = "DELETE_SEGMENT" /\ delete_segmento(pedido[2], pedido[3])
  /\ Contestar({pedido[2]})
  /\ pedido' = NADIE

AtenderSinRespuesta ==
  /\ pedido # NADIE
  /\ \/ pedido[1] = "DELETE_TABLE" /\ destroy_tabla_segmento(pedido[2])
     \/ pedido[1] = "COMPACT" /\ IniciarCompactacion
  /\ pedido' = NADIE
  /\ UNCHANGED contestacion

procesar_kernel ==
  /\ \/ AtenderConRespuesta
     \/ AtenderSinRespuesta
     \/ (liberar_huecos_ocupados \/ compactar_memoria) /\ UNCHANGED socket
     \/ TablaEliminada /\ Contestar({}) /\ UNCHANGED pedido
     \/ TerminarCompactacion /\ Contestar(DOMAIN tablas) /\ UNCHANGED pedido
  /\ UNCHANGED <<kernel, mutexes, hilo_cpu, hilo_largo>>

-----------------------------------------------------------------------------
HiloLargo == RecibirTabla \/ \E p \in PIDS : PedirTabla(p)

HiloCpu == \/ Transferir \/ Pedir
           \/ RecibirSegmento \/ RecibirEliminada \/ DesbloquearOtraVez
           \/ RecibirSinMemoria \/ RecibirCompactar \/ PedirCompactacion
           \/ RecibirCompactada

FileSystem == \E t \in transferencias : recibir_respuesta_fs(t)

Cpu == \E p \in PIDS :
         \/ DevolverYield(p)
         \/ \E que \in PedidosDe(contexto) : DevolverPedido(p, que)
         \/ \E dir \in Logicas(contexto), n \in Largos : DevolverTransferencia(p, dir, n)

NextTodo == /\ ~ajeno
            /\ \/ HiloLargo \/ HiloCpu \/ FileSystem \/ procesar_kernel \/ Cpu
               \/ \E p \in PIDS : planificar(p)

SpecTodo == InitTodo /\ [][NextTodo]_todo

\* Threads run whenever they can, memory and the file system answer.
SpecJusta == SpecTodo /\ WF_todo(~ajeno /\ HiloLargo) /\ WF_todo(~ajeno /\ HiloCpu)
                      /\ WF_todo(~ajeno /\ FileSystem)
                      /\ WF_todo(~ajeno /\ procesar_kernel)

-----------------------------------------------------------------------------
(* Properties *)

\* The threads that wait for an answer of memory.
EsperanRespuesta ==
  {h \in {"cpu", "largo"} :
     (IF h = "cpu" THEN hilo_cpu ELSE hilo_largo).paso \in
       {"respuesta", "respuesta sin memoria", "reenviado", "compactando"}}

\* Every variable has its type, and puede_compactar is taken while one transfer
\* is at the file system or while the thread of the CPU compacts, never both.
TypeOKTodo ==
  /\ TypeOK
  /\ estado \in [PIDS -> {"NEW", "READY", "EXEC", "BLOCK", "EXIT"}]
  /\ \A p \in PIDS : DOMAIN tabla_segmento[p] \subseteq Descriptores
  /\ mutex_socket_memoria \in {NADIE, "cpu", "largo"}
  /\ puede_compactar \in BOOLEAN /\ ajeno \in BOOLEAN
  /\ Cardinality(transferencias)
       + (IF hilo_cpu.paso \in {"compactando", "reenviado"} \/ fase = "colgado" THEN 1 ELSE 0)
     = (IF puede_compactar THEN 0 ELSE 1)

\* One thread at a time talks to memory: who waits for an answer holds
\* mutex_socket_memoria, and what is in the socket is its request or its answer.
\* The second unlock of the OUT_OF_MEMORY branch is the only thing that can break
\* it, and does so as soon as the other thread is waiting.
UnaSolicitud ==
  ~ajeno =>
    /\ EsperanRespuesta \subseteq {mutex_socket_memoria}
    /\ pedido = NADIE \/ contestacion = NADIE
    /\ (pedido # NADIE \/ contestacion # NADIE) => EsperanRespuesta # {}

\* Memory is asked about tables it has, and for a table it does not have, and
\* never while it compacts or waits for a request to be resent: what it assumes
\* of the kernel and does not check (a missing table is answered with 1, not
\* NULL).
PedidoConTabla ==
  pedido # NADIE =>
    /\ pedido[1] # "COMPACT" => (pedido[2] \in DOMAIN tablas <=> pedido[1] # "CREATE_TABLE")
    /\ fase = CASE pedido[1] = "COMPACT"         -> "compactar"
                [] hilo_cpu.paso = "reenviado"   -> "reenviar"
                [] OTHER                         -> "libre"

\* When nobody is talking to memory the kernel's copy of every table is the
\* table, wherever a compaction moved its segments; and so is, at any moment,
\* the copy that the CPU is working with.
CopiasAlDia ==
  /\ mutex_socket_memoria = NADIE /\ ~ajeno =>
       /\ {p \in PIDS : estado[p] \in {"READY", "EXEC", "BLOCK"}} = DOMAIN tablas
       /\ \A p \in DOMAIN tablas : tabla_segmento[p] = serializar_tabla_segmentos(p)
  /\ \A p \in PIDS : Devuelto(p) =>
       p \in DOMAIN tablas /\ contexto = serializar_tabla_segmentos(p)

\* The bytes from f on, n of them, are those of the logical address dir of p, all
\* inside the first segment of p with that number, and no compaction is moving
\* them.
SonDe(p, dir, f, n) ==
  /\ fase \notin {"compactando", "caido"}
  /\ p \in DOMAIN tablas
  /\ \E d \in tablas[p] :
       LET o == dir - segmentos[d].segmento_id * TAM_MAX_SEGMENTO IN
       /\ \A e \in tablas[p] : segmentos[e].segmento_id = segmentos[d].segmento_id => d <= e
       /\ o >= 0 /\ o + n <= segmentos[d].tam
       /\ f = segmentos[d].inicio + o

\* Whatever logical address and length a program uses, MOV_IN, MOV_OUT and F_READ
\* reach only bytes of its own segment, where memory has it at that moment.
AccesosPropios ==
  \A p \in PIDS : Devuelto(p) =>
    \A dir \in Logicas(contexto), n \in Largos :
      LET f == traducir_a_direccion_fisica(dir, contexto, n) IN
        f # -1 => SonDe(p, dir, f, n)

\* From the translation in the CPU to the answer of the file system the segment
\* of a transfer is not moved, freed or given to another.
TransferenciaQuieta ==
  LET enCurso == transferencias \cup
                 IF hilo_cpu.paso = "transferir" THEN {<<hilo_cpu.pid, hilo_cpu.pide>>} ELSE {}
  IN  \A t \in enCurso : SonDe(t[1], t[2].logica, t[2].fisica, t[2].largo)

\* Every request of a process comes to an end, those that have to wait for a
\* transfer before they compact included, unless memory asks for a second
\* compaction (CompactacionAlcanza of Memoria) or a mutex was unlocked twice.
SolicitudTermina ==
  (hilo_cpu # Libre) ~> (hilo_cpu = Libre \/ fase = "colgado" \/ ajeno)
==============================================================================
