------------------------------- MODULE Memoria -------------------------------
(***************************************************************************)
(* The memory module (memoria/): contiguous allocation of segments with a  *)
(* list of holes, first / best / worst fit, coalescing of freed space and  *)
(* compaction.                                                             *)
(*                                                                         *)
(* Abstractions.  huecos_libres is kept sorted by base, so it is a set     *)
(* whose order is that of the bases.  Descriptors come from a counter and  *)
(* lists only append them, so segmentos_activos and every table are sets   *)
(* whose order is that of the descriptors.  A request of the kernel is one *)
(* step, except for the two loops that change state at each turn: freeing  *)
(* the segments of a table and compacting, one turn per step.  The thread  *)
(* that serves the CPU or the file system reads and writes bytes between   *)
(* those steps, except while the kernel holds puede_compactar.             *)
(*                                                                         *)
(* Environment.  Processes are named by positive pids, a program never     *)
(* names segment 0 and never asks for zero bytes, and the kernel asks for  *)
(* a table once per process: the kernel and the programs of consola/ do    *)
(* so, this code does not check it.                                        *)
(***************************************************************************)
EXTENDS Integers, FiniteSets, FiniteSetsExt, Functions

CONSTANTS TAM_MEMORIA, TAM_SEGMENTO_0,
          ALGORITMO,       \* "FIRST", "BEST" or "WORST"
          PIDS, IDS,       \* process ids, and segment ids the programs use
          TAMANIOS,        \* sizes the programs ask for
          VALORES,         \* values of a byte
          MAX_DESCRIPTOR   \* bound on the descriptor counter

ASSUME TamaniosValidos ==
         /\ TAM_SEGMENTO_0 \in Nat \ {0}
         /\ TAM_MEMORIA \in Nat /\ TAM_MEMORIA > TAM_SEGMENTO_0
         /\ TAMANIOS \subseteq Nat \ {0}
         /\ MAX_DESCRIPTOR \in Nat \ {0}
ASSUME IdentificadoresValidos ==
         /\ 0 \notin PIDS /\ 0 \notin IDS
         /\ VALORES # {}

VARIABLES
  huecos,      \* espacio_usuario->huecos_libres
  segmentos,   \* segmentos_activos: descriptor -> t_segmento
  tablas,      \* tablas_segmentos: pid -> descriptors in its table
  id,          \* the next descriptor
  espacio,     \* espacio_usuario->espacio_usuario, byte by byte
  fase,        \* where the thread that serves the kernel is
  pendiente,   \* the request the kernel resends after a compaction
  cursor,      \* the segment the compaction loop moved last
  aLiberar,    \* segments of the deleted table still to be freed
  respuesta    \* the last answer sent to the kernel

vars == <<huecos, segmentos, tablas, id, espacio, fase, pendiente, cursor,
          aLiberar, respuesta>>

-----------------------------------------------------------------------------
(* Data *)

Direcciones == 0 .. TAM_MEMORIA - 1
Hueco == [inicio : Direcciones, fin : Direcciones]
Segmento == [segmento_id : IDS \cup {0}, inicio : Direcciones,
             tam : TAMANIOS \cup {TAM_SEGMENTO_0}]
Descriptores == 1 .. MAX_DESCRIPTOR
Pedido == PIDS \X IDS \X TAMANIOS
Compartido == 1     \* the descriptor of segment 0

Activos == DOMAIN segmentos

\* Mutant: the last byte of a hole is not counted.
TamanioSinUltimo(h) == h.fin - h.inicio

tamanio_hueco(h) == h.fin - h.inicio + 1
memoria_disponible == MapThenSumSet(tamanio_hueco, huecos)

Candidatos(t) == {h \in huecos : tamanio_hueco(h) >= t}

\* list_get_minimum and list_get_maximum fold with a comparison that keeps the
\* later of two equal elements, and the list is ordered by base.
PrimerHueco(h, C) == \A k \in C : h.inicio <= k.inicio
MejorHueco(h, C) == \A k \in C :
  \/ tamanio_hueco(h) < tamanio_hueco(k)
  \/ tamanio_hueco(h) = tamanio_hueco(k) /\ h.inicio >= k.inicio
PeorHueco(h, C) == \A k \in C :
  \/ tamanio_hueco(h) > tamanio_hueco(k)
  \/ tamanio_hueco(h) = tamanio_hueco(k) /\ h.inicio >= k.inicio

buscar_hueco(h, C) == CASE ALGORITMO = "BEST"  -> MejorHueco(h, C)
                        [] ALGORITMO = "FIRST" -> PrimerHueco(h, C)
                        [] OTHER               -> PeorHueco(h, C)

\* Mutants: the new space merges with the hole before it only; the new hole is
\* one byte too long.
ConsolidarSoloIzquierda(hs, ini, t) ==
  LET izquierdo == {h \in hs : h.fin = ini - 1}
  IN  (hs \ izquierdo) \cup
      {[inicio |-> IF izquierdo = {} THEN ini
                   ELSE (CHOOSE h \in izquierdo : TRUE).inicio,
        fin    |-> ini + t - 1]}
ConsolidarUnByteDeMas(hs, ini, t) ==
  LET derecho == {h \in hs : h.inicio = ini + t}
  IN  (hs \ derecho) \cup
      {[inicio |-> ini,
        fin    |-> IF derecho = {} THEN ini + t
                   ELSE (CHOOSE h \in derecho : TRUE).fin]}

\* The holes once the space [ini, ini + t) is free too: it merges with the hole
\* that ends just before it and the one that starts just after it.
consolidar_huecos_contiguos(hs, ini, t) ==
  LET izquierdo == {h \in hs : h.fin = ini - 1}
      derecho   == {h \in hs : h.inicio = ini + t}
  IN  (hs \ (izquierdo \cup derecho)) \cup
      {[inicio |-> IF izquierdo = {} THEN ini
                   ELSE (CHOOSE h \in izquierdo : TRUE).inicio,
        fin    |-> IF derecho = {} THEN ini + t - 1
                   ELSE (CHOOSE h \in derecho : TRUE).fin]}

\* Mutant: the byte at the new floor is left out of the hole.
ActualizarSaltandoUno(hs, h, piso) ==
  (hs \ {h}) \cup IF piso >= h.fin THEN {} ELSE {[h EXCEPT !.inicio = piso + 1]}

\* A hole whose floor is raised; an empty one is removed.
actualizar_hueco(hs, h, piso) ==
  (hs \ {h}) \cup IF piso > h.fin THEN {} ELSE {[h EXCEPT !.inicio = piso]}

-----------------------------------------------------------------------------
(* Start: one hole; segment 0 is placed before any client connects. *)

Init ==
  /\ huecos = {[inicio |-> TAM_SEGMENTO_0, fin |-> TAM_MEMORIA - 1]}
  /\ segmentos = [d \in {Compartido} |->
                    [segmento_id |-> 0, inicio |-> 0, tam |-> TAM_SEGMENTO_0]]
  /\ tablas = <<>>
  /\ id = 2
  /\ \E v \in VALORES : espacio = [a \in Direcciones |-> v]
  /\ fase = "libre"
  /\ pendiente = {}
  /\ cursor = 0
  /\ aLiberar = {}
  /\ respuesta = "ninguna"

-----------------------------------------------------------------------------
(* Requests of the kernel *)

\* MEMORY_CREATE_TABLE: every table starts with the shared segment 0.
crear_tabla_segmento(p) ==
  /\ fase = "libre"
  /\ p \notin DOMAIN tablas
  /\ tablas' = [q \in DOMAIN tablas \cup {p} |->
                  IF q = p THEN {Compartido} ELSE tablas[q]]
  /\ respuesta' = "TABLE_CREATED"
  /\ UNCHANGED <<huecos, segmentos, id, espacio, fase, pendiente, cursor, aLiberar>>

\* A new request, or the one the kernel resends once the memory is compacted.
Recibido(p, i, t) ==
  /\ p \in DOMAIN tablas
  /\ id <= MAX_DESCRIPTOR
  /\ fase = "libre" \/ (fase = "reenviar" /\ pendiente = {<<p, i, t>>})
  /\ id' = id + 1

\* MEMORY_CREATE_SEGMENT with a hole that is large enough.
crear_segmento(p, i, t) ==
  /\ Recibido(p, i, t)
  /\ \E h \in Candidatos(t) :
       /\ buscar_hueco(h, Candidatos(t))
       /\ huecos' = actualizar_hueco(huecos, h, h.inicio + t)
       /\ segmentos' = [d \in Activos \cup {id} |->
            IF d = id THEN [segmento_id |-> i, inicio |-> h.inicio, tam |-> t]
            ELSE segmentos[d]]
  /\ tablas' = [tablas EXCEPT ![p] = @ \cup {id}]
  /\ fase' = "libre"
  /\ pendiente' = {}
  /\ respuesta' = "SEGMENT_CREATED"
  /\ UNCHANGED <<espacio, cursor, aLiberar>>

\* The total is there but no hole is large enough.  The kernel holds
\* mutex_socket_memoria and takes puede_compactar until it has resent the
\* request; told to compact a second time, it waits for the mutex it holds.
CrearSinLugarContiguo(p, i, t) ==
  /\ Recibido(p, i, t)
  /\ Candidatos(t) = {}
  /\ memoria_disponible >= t
  /\ fase' = IF fase = "libre" THEN "compactar" ELSE "colgado"
  /\ pendiente' = {<<p, i, t>>}
  /\ respuesta' = "NEEDS_TO_COMPACT"
  /\ UNCHANGED <<huecos, segmentos, tablas, espacio, cursor, aLiberar>>

CrearSinMemoria(p, i, t) ==
  /\ Recibido(p, i, t)
  /\ Candidatos(t) = {}
  /\ memoria_disponible < t
  /\ fase' = "libre"
  /\ pendiente' = {}
  /\ respuesta' = "OUT_OF_MEMORY"
  /\ UNCHANGED <<huecos, segmentos, tablas, espacio, cursor, aLiberar>>

\* MEMORY_DELETE_SEGMENT: the first segment of the table with that id.
delete_segmento(p, i) ==
  /\ fase = "libre"
  /\ p \in DOMAIN tablas
  /\ \E d \in tablas[p] :
       /\ segmentos[d].segmento_id = i
       /\ \A e \in tablas[p] : segmentos[e].segmento_id = i => d <= e
       /\ huecos' = consolidar_huecos_contiguos(huecos, segmentos[d].inicio,
                                                segmentos[d].tam)
       /\ segmentos' = Restrict(segmentos, Activos \ {d})
       /\ tablas' = [tablas EXCEPT ![p] = @ \ {d}]
  /\ respuesta' = "SEGMENT_DELETED"
  /\ UNCHANGED <<id, espacio, fase, pendiente, cursor, aLiberar>>

\* The segment is read for the log line before it is compared with NULL.
DeleteSegmentoInexistente(p, i) ==
  /\ fase = "libre"
  /\ p \in DOMAIN tablas
  /\ \A d \in tablas[p] : segmentos[d].segmento_id # i
  /\ fase' = "caido"
  /\ UNCHANGED <<huecos, segmentos, tablas, id, espacio, pendiente, cursor,
                 aLiberar, respuesta>>

\* Mutant: segment 0 is freed with the rest of the table.
DestruirConSegmento0(p) ==
  /\ fase = "libre"
  /\ p \in DOMAIN tablas
  /\ aLiberar' = tablas[p]
  /\ tablas' = Restrict(tablas, DOMAIN tablas \ {p})
  /\ fase' = "liberando"
  /\ UNCHANGED <<huecos, segmentos, id, espacio, pendiente, cursor, respuesta>>

\* MEMORY_DELETE_TABLE: the segments of the table go, all but segment 0.  The code
\* frees the space of all of them (liberar_huecos_ocupados), takes them out of
\* segmentos_activos in a second pass (destroy_elementos_tabla) and drops the table
\* last.  One thread serves tables, segments and compactions, and the accesses of
\* the CPU and the file system read no list, so nobody sees the three apart: here
\* the table goes first and each segment with its space.
destroy_tabla_segmento(p) ==
  /\ fase = "libre"
  /\ p \in DOMAIN tablas
  /\ aLiberar' = {d \in tablas[p] : segmentos[d].segmento_id # 0}
  /\ tablas' = Restrict(tablas, DOMAIN tablas \ {p})
  /\ fase' = "liberando"
  /\ UNCHANGED <<huecos, segmentos, id, espacio, pendiente, cursor, respuesta>>

liberar_huecos_ocupados ==
  /\ fase = "liberando"
  /\ \E d \in aLiberar :
       /\ \A e \in aLiberar : d <= e
       /\ huecos' = consolidar_huecos_contiguos(huecos, segmentos[d].inicio,
                                                segmentos[d].tam)
       /\ segmentos' = Restrict(segmentos, Activos \ {d})
       /\ aLiberar' = aLiberar \ {d}
  /\ UNCHANGED <<tablas, id, espacio, fase, pendiente, cursor, respuesta>>

TablaEliminada ==
  /\ fase = "liberando"
  /\ aLiberar = {}
  /\ fase' = "libre"
  /\ respuesta' = "TABLE_DELETED"
  /\ UNCHANGED <<huecos, segmentos, tablas, id, espacio, pendiente, cursor, aLiberar>>

-----------------------------------------------------------------------------
(* MEMORY_COMPACT: the active segments in the order they were created; each
   moves down over the hole just below it, if there is one. *)

IniciarCompactacion ==
  /\ fase = "compactar"
  /\ fase' = "compactando"
  /\ cursor' = 0
  /\ UNCHANGED <<huecos, segmentos, tablas, id, espacio, pendiente, aLiberar, respuesta>>

SiguienteAMover(d) == /\ d \in Activos
                      /\ d > cursor
                      /\ \A e \in Activos : e > cursor => d <= e

\* Mutants: an off-by-one in the search for the hole below a segment; a copy
\* that leaves the last byte of the segment behind.
HuecoDebajoUnoMas(s) == {h \in huecos : h.fin = s.inicio - 2}
MemmoveCorto(destino, origen, t) ==
  [a \in Direcciones |-> IF a \in destino .. destino + t - 2
                         THEN espacio[origen + (a - destino)] ELSE espacio[a]]

HuecoDebajo(s) == {h \in huecos : h.fin = s.inicio - 1}

memmove(destino, origen, t) ==
  [a \in Direcciones |-> IF a \in destino .. destino + t - 1
                         THEN espacio[origen + (a - destino)] ELSE espacio[a]]

compactar_memoria ==
  /\ fase = "compactando"
  /\ \E d \in Activos :
       /\ SiguienteAMover(d)
       /\ cursor' = d
       /\ LET s == segmentos[d] IN
          \/ /\ HuecoDebajo(s) = {}
             /\ UNCHANGED <<huecos, segmentos, espacio>>
          \/ \E h \in HuecoDebajo(s) :
               /\ espacio' = memmove(h.inicio, s.inicio, s.tam)
               /\ segmentos' = [segmentos EXCEPT ![d].inicio = h.inicio]
               /\ huecos' = consolidar_huecos_contiguos(huecos \ {h},
                              h.inicio + s.tam, tamanio_hueco(h))
  /\ UNCHANGED <<tablas, id, fase, pendiente, aLiberar, respuesta>>

TerminarCompactacion ==
  /\ fase = "compactando"
  /\ \A d \in Activos : d <= cursor
  /\ fase' = "reenviar"
  /\ cursor' = 0
  /\ respuesta' = "COMPACTED"
  /\ UNCHANGED <<huecos, segmentos, tablas, id, espacio, pendiente, aLiberar>>

-----------------------------------------------------------------------------
(* Writes of the CPU and of the file system: one byte of a segment in the
   table of the process they act for. *)

escribir_en_direccion(p, d, o, v) ==
  /\ fase \in {"libre", "liberando"}
  /\ o < segmentos[d].tam
  /\ espacio' = [espacio EXCEPT ![segmentos[d].inicio + o] = v]
  /\ UNCHANGED <<huecos, segmentos, tablas, id, fase, pendiente, cursor,
                 aLiberar, respuesta>>

-----------------------------------------------------------------------------
Next ==
  \/ \E p \in PIDS : crear_tabla_segmento(p) \/ destroy_tabla_segmento(p)
  \/ \E p \in PIDS, i \in IDS, t \in TAMANIOS :
       \/ crear_segmento(p, i, t)
       \/ CrearSinLugarContiguo(p, i, t)
       \/ CrearSinMemoria(p, i, t)
  \/ \E p \in PIDS, i \in IDS :
       delete_segmento(p, i) \/ DeleteSegmentoInexistente(p, i)
  \/ liberar_huecos_ocupados
  \/ TablaEliminada
  \/ IniciarCompactacion
  \/ compactar_memoria
  \/ TerminarCompactacion
  \/ \E p \in DOMAIN tablas, v \in VALORES : \E d \in tablas[p], o \in Direcciones :
       escribir_en_direccion(p, d, o, v)

Spec == Init /\ [][Next]_vars

-----------------------------------------------------------------------------
(* Properties *)

\* Every variable has its type, and no segment waits to be freed unless a table
\* is being deleted.
TypeOK ==
  /\ huecos \subseteq Hueco
  /\ Activos \subseteq Descriptores
  /\ segmentos \in [Activos -> Segmento]
  /\ DOMAIN tablas \subseteq PIDS
  /\ tablas \in [DOMAIN tablas -> SUBSET Descriptores]
  /\ id \in 2 .. MAX_DESCRIPTOR + 1
  /\ espacio \in [Direcciones -> VALORES]
  /\ fase \in {"libre", "liberando", "compactar", "compactando", "reenviar",
               "colgado", "caido"}
  /\ pendiente \in SUBSET Pedido
  /\ cursor \in 0 .. MAX_DESCRIPTOR
  /\ aLiberar \in SUBSET Descriptores
  /\ fase # "liberando" => aLiberar = {}
  /\ respuesta \in {"ninguna", "TABLE_CREATED", "TABLE_DELETED", "SEGMENT_CREATED",
       "SEGMENT_DELETED", "NEEDS_TO_COMPACT", "OUT_OF_MEMORY", "COMPACTED"}

\* Holes and segments lie in the memory, are not empty and do not overlap, and
\* between them they cover it.
EsParticion(hs, segs) ==
  /\ \A h \in hs : h.inicio <= h.fin
  /\ \A d \in DOMAIN segs : segs[d].inicio + segs[d].tam <= TAM_MEMORIA
  /\ \A h, k \in hs : h # k => h.fin < k.inicio \/ k.fin < h.inicio
  /\ \A h \in hs, d \in DOMAIN segs :
       h.fin < segs[d].inicio \/ segs[d].inicio + segs[d].tam <= h.inicio
  /\ \A d, e \in DOMAIN segs : d # e =>
       \/ segs[d].inicio + segs[d].tam <= segs[e].inicio
       \/ segs[e].inicio + segs[e].tam <= segs[d].inicio
  /\ \A a \in Direcciones :
       \/ \E h \in hs : h.inicio <= a /\ a <= h.fin
       \/ \E d \in DOMAIN segs : segs[d].inicio <= a /\ a < segs[d].inicio + segs[d].tam

\* Every byte of the memory is in exactly one hole or one active segment: no
\* byte is given to two segments and none is lost, whatever the order of
\* allocations, deletions and compaction moves (also between two moves).
Particion == EsParticion(huecos, segmentos)

\* Free space that is contiguous is one hole: consolidar_huecos_contiguos never
\* leaves two holes side by side, so "no hole is large enough" means that no
\* contiguous space is.
EstanSeparados(hs) == \A h, k \in hs : h.fin + 1 # k.inicio
HuecosConsolidados == EstanSeparados(huecos)

\* The two lists a segment is in agree: an active segment other than segment 0
\* is in exactly one table, or in the table that is being deleted; a table only
\* lists active segments; segment 0, and no other, is active and in every table;
\* and the next descriptor is newer than that of any active segment.
TablasConsistentes ==
  /\ Compartido \in Activos /\ Compartido \notin aLiberar
  /\ \A d \in Activos : d < id /\ (segmentos[d].segmento_id = 0 <=> d = Compartido)
  /\ aLiberar \subseteq Activos
  /\ \A p \in DOMAIN tablas :
       Compartido \in tablas[p] /\ tablas[p] \subseteq Activos \ aLiberar
  /\ \A p, q \in DOMAIN tablas : p # q => tablas[p] \cap tablas[q] = {Compartido}
  /\ Activos = {Compartido} \cup aLiberar \cup UNION {tablas[p] : p \in DOMAIN tablas}

\* A compaction of segments whose creation order is their address order leaves
\* one hole at most: the case compactar_memoria is written for.
CompactacionCompleta ==
  /\ fase = "reenviar"
  /\ \A d, e \in Activos : d < e => segmentos[d].inicio < segmentos[e].inicio
  => Cardinality(huecos) <= 1

\* What memoria.c:132 logs when it asks for a compaction: there will be
\* contiguous space after it.  compactar_memoria visits the segments in creation
\* order and a segment only jumps over the hole just below it, so it is not so.
CompactacionAlcanza ==
  fase = "reenviar" => \A pedido \in pendiente : Candidatos(pedido[3]) # {}

\* The module implements SegmentosPorProceso: seen from the processes, every
\* operation touches only the table it names, compaction is invisible, and a
\* request is refused or put off exactly by the free bytes there are.
Visibles == Activos \ (aLiberar \cup {Compartido})
Bytes(d) == [o \in 0 .. segmentos[d].tam - 1 |-> espacio[segmentos[d].inicio + o]]

Abstracta == INSTANCE SegmentosPorProceso WITH
  CAPACIDAD      <- TAM_MEMORIA - TAM_SEGMENTO_0,
  TAM_COMPARTIDO <- TAM_SEGMENTO_0,
  DESCRIPTORES   <- Descriptores \ {Compartido},
  tablas         <- [p \in DOMAIN tablas |-> tablas[p] \ {Compartido}],
  ids            <- [d \in Visibles |-> segmentos[d].segmento_id],
  contenido      <- [d \in Visibles |-> Bytes(d)],
  compartido     <- Bytes(Compartido)

ImplementaSegmentos == Abstracta!Spec

\* A turn of the compaction loop moves a segment with all its bytes and touches
\* no other: compactar_memoria may slide a segment over the space it occupies,
\* and next to segments it has moved already or has still to move.
CompactacionConserva ==
  [][fase = "compactando" => Activos' = Activos /\ \A d \in Activos : Bytes(d)' = Bytes(d)]_vars
==============================================================================
