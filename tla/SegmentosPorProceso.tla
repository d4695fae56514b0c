------------------------- MODULE SegmentosPorProceso -------------------------
(***************************************************************************)
(* What the memory module promises to the rest of the system, with no      *)
(* addresses in it: a process owns a table of segments, each with an       *)
(* identifier and its own bytes; one further segment, number 0, is shared  *)
(* by every table.  A write changes the one segment it addresses.  Where   *)
(* the bytes are kept, which hole a segment is placed in and when memory   *)
(* is compacted cannot be observed.  Memoria.tla implements this           *)
(* specification under the refinement mapping it gives.                    *)
(***************************************************************************)
EXTENDS Integers, FiniteSets, FiniteSetsExt, Functions

CONSTANTS CAPACIDAD,   \* bytes available to the segments of all processes
          TAM_COMPARTIDO, \* bytes of the shared segment 0
          PIDS, IDS, TAMANIOS, VALORES, DESCRIPTORES

VARIABLES tablas,      \* pid -> the descriptors in the table of the process
          ids,         \* descriptor -> the segment_id the program uses
          contenido,   \* descriptor -> offset -> byte
          compartido,  \* offset -> byte, for segment 0
          respuesta    \* the last answer sent to the kernel

vars == <<tablas, ids, contenido, compartido, respuesta>>

Tamanio(d) == Cardinality(DOMAIN contenido[d])
Ocupado == MapThenSumSet(Tamanio, DOMAIN contenido)
Contenidos(t) == [0 .. t - 1 -> VALORES]

\* Only the named descriptors survive.
Conservar(D) == /\ ids' = Restrict(ids, D)
                /\ contenido' = Restrict(contenido, D)

Init == /\ tablas = <<>>
        /\ ids = <<>>
        /\ contenido = <<>>
        /\ compartido \in Contenidos(TAM_COMPARTIDO)
        /\ respuesta = "ninguna"

CrearTabla(p) ==
  /\ p \notin DOMAIN tablas
  /\ tablas' = [q \in DOMAIN tablas \cup {p} |-> IF q = p THEN {} ELSE tablas[q]]
  /\ respuesta' = "TABLE_CREATED"
  /\ UNCHANGED <<ids, contenido, compartido>>

\* The table and every segment in it go at once; the answer comes later.
EliminarTabla(p) ==
  /\ p \in DOMAIN tablas
  /\ tablas' = Restrict(tablas, DOMAIN tablas \ {p})
  /\ Conservar(DOMAIN contenido \ tablas[p])
  /\ UNCHANGED <<compartido, respuesta>>

\* A new segment holds whatever its bytes held before: memory is not cleared.
CrearSegmento(p, i, t) ==
  /\ p \in DOMAIN tablas
  /\ Ocupado + t <= CAPACIDAD
  /\ \E d \in DESCRIPTORES \ DOMAIN contenido, c \in Contenidos(t) :
       /\ tablas' = [tablas EXCEPT ![p] = @ \cup {d}]
       /\ ids' = [e \in DOMAIN ids \cup {d} |-> IF e = d THEN i ELSE ids[e]]
       /\ contenido' = [e \in DOMAIN contenido \cup {d} |->
                          IF e = d THEN c ELSE contenido[e]]
  /\ respuesta' = "SEGMENT_CREATED"
  /\ UNCHANGED compartido

\* A request is refused for good only when the bytes really are not there ...
RechazarSegmento(p, t) ==
  /\ p \in DOMAIN tablas
  /\ Ocupado + t > CAPACIDAD
  /\ respuesta' = "OUT_OF_MEMORY"
  /\ UNCHANGED <<tablas, ids, contenido, compartido>>

\* ... and put off until a compaction only when they are.
AplazarSegmento(p, t) ==
  /\ p \in DOMAIN tablas
  /\ Ocupado + t <= CAPACIDAD
  /\ respuesta' = "NEEDS_TO_COMPACT"
  /\ UNCHANGED <<tablas, ids, contenido, compartido>>

EliminarSegmento(p, i) ==
  /\ p \in DOMAIN tablas
  /\ \E d \in tablas[p] :
       /\ ids[d] = i
       /\ tablas' = [tablas EXCEPT ![p] = @ \ {d}]
       /\ Conservar(DOMAIN contenido \ {d})
  /\ respuesta' = "SEGMENT_DELETED"
  /\ UNCHANGED compartido

Responder(r) == /\ respuesta' = r
                /\ UNCHANGED <<tablas, ids, contenido, compartido>>

Escribir(p, v) ==
  /\ p \in DOMAIN tablas
  /\ \/ \E d \in tablas[p] : \E o \in DOMAIN contenido[d] :
          /\ contenido' = [contenido EXCEPT ![d][o] = v]
          /\ UNCHANGED compartido
     \/ \E o \in DOMAIN compartido :
          /\ compartido' = [compartido EXCEPT ![o] = v]
          /\ UNCHANGED contenido
  /\ UNCHANGED <<tablas, ids, respuesta>>

Next == \/ \E p \in PIDS : CrearTabla(p) \/ EliminarTabla(p)
        \/ \E p \in PIDS, t \in TAMANIOS :
             \/ \E i \in IDS : CrearSegmento(p, i, t)
             \/ RechazarSegmento(p, t)
             \/ AplazarSegmento(p, t)
        \/ \E p \in PIDS, i \in IDS : EliminarSegmento(p, i)
        \/ \E p \in PIDS, v \in VALORES : Escribir(p, v)
        \/ \E r \in {"TABLE_DELETED", "COMPACTED"} : Responder(r)

Spec == Init /\ [][Next]_vars
==============================================================================
