----------------------------- MODULE FileSystem -----------------------------
(***************************************************************************)
(* The file system (filesystem/): a bitmap, the blocks and one FCB per     *)
(* file.  The bitmap is mapped from its file and the blocks are written    *)
(* straight to theirs, so both outlive the program; the FCBs are kept in   *)
(* memory and written to the disk at the end of F_TRUNCATE.                *)
(*                                                                         *)
(* The kernel sends one request and waits for its answer.  The program     *)
(* sleeps RETARDO_ACCESO_BLOQUE after each access to a block: an action    *)
(* goes from one of these sleeps to the next, and it may be killed in any  *)
(* of them.                                                                *)
(*                                                                         *)
(* Abstractions.  Sizes are in bytes, what is written and where in whole   *)
(* blocks, each with one value.  No file has more blocks than the pointers *)
(* that fit in a block.  F_OPEN and F_READ change nothing here.  Nothing   *)
(* in the code stops an F_WRITE past the end of a file.  One to an empty   *)
(* file goes to whatever block its FCB names, its own or not; the model    *)
(* has it unless ESCRITURAS_DENTRO.  Any other copies past the memory the  *)
(* file was read into and is left out.                                     *)
(***************************************************************************)
EXTENDS Integers, FiniteSets, FiniteSetsExt, Sequences

CONSTANTS ARCHIVOS, VALORES,
          BLOCK_COUNT, BLOCK_SIZE,
          TAMANIOS,    \* the sizes programs ask for, of each file
          FCBS,        \* the files found at the start, of one block each
          HAY_LUGAR,   \* programs never ask for more blocks than are free
          ESCRITURAS_DENTRO,  \* programs never write to an empty file
          CAIDAS       \* bound on the times the program is killed

ASSUME ConstantesValidas ==
         /\ BLOCK_COUNT \in Nat \ {0} /\ BLOCK_SIZE \in Nat \ {0}
         /\ TAMANIOS \in [ARCHIVOS -> SUBSET Nat]
         /\ DOMAIN FCBS \subseteq ARCHIVOS /\ "NINGUNO" \notin ARCHIVOS
         /\ FCBS \in [DOMAIN FCBS -> [tamanio : {BLOCK_SIZE}, directo : 0 .. BLOCK_COUNT - 1,
                                      indirecto : {0}]]
         /\ \A f, g \in DOMAIN FCBS : FCBS[f].directo = FCBS[g].directo => f = g
         /\ HAY_LUGAR \in BOOLEAN /\ ESCRITURAS_DENTRO \in BOOLEAN /\ CAIDAS \in Nat

VARIABLES
  bitmap,      \* the blocks whose bit is set
  disco,       \* the content of each block
  fcb_disco,   \* the FCBs in PATH_FCB
  lista_fcb,   \* the FCBs in memory
  hilo,        \* where the program is, and its local variables
  caidas

vars == <<bitmap, disco, fcb_disco, lista_fcb, hilo, caidas>>

Bloques == 0 .. BLOCK_COUNT - 1
NULO       == 0          \* PUNTERO_INDIRECTO == NULL
SIN_BLOQUE == -1         \* what obtener_bloque_libre returns of a full disk
RELLENO    == 151587081  \* four bytes with a 9, after the pointers

\* A block holds pointers or data.
Contenido(p, v) == [punteros |-> p, dato |-> v]
BloqueCero == Contenido(<<>>, "CERO")
Dato(v) == Contenido(<<>>, v)

Libre == [paso |-> "libre", archivo |-> "NINGUNO", faltan |-> 0, punteros |-> <<>>,
          pendientes |-> <<>>]

Init ==
  /\ fcb_disco = FCBS /\ lista_fcb = FCBS
  /\ bitmap = {FCBS[f].directo : f \in DOMAIN FCBS}
  /\ disco = [b \in Bloques |-> BloqueCero]
  /\ hilo = Libre
  /\ caidas = 0

-----------------------------------------------------------------------------
(* Blocks *)

Libres == Bloques \ bitmap
obtener_bloque_libre == IF Libres = {} THEN SIN_BLOQUE ELSE Min(Libres)

\* Block -1 is sought before the start of the file, which fails and leaves the
\* first block to be read; other numbers that are no block read what malloc gave.
Leer(d, b) == CASE b \in Bloques   -> d[b]
                [] b = SIN_BLOQUE  -> d[0]
                [] OTHER           -> Dato("BASURA")

\* Written out of the blocks, nothing reads it again.
escribir_en_bloque(b, c) ==
  disco' = IF b \in Bloques THEN [disco EXCEPT ![b] = c] ELSE disco

\* Mutants: the bit is not set; the block keeps what an earlier file left.
SinReservar(b) == bitmap' = bitmap /\ escribir_en_bloque(b, BloqueCero)
SinCeros(b) == bitmap' = bitmap \cup ({b} \cap Bloques) /\ disco' = disco

\* A bit that is not of a block is not in the bitmap.
crear_bloque(b) ==
  /\ bitmap' = bitmap \cup ({b} \cap Bloques)
  /\ escribir_en_bloque(b, BloqueCero)

\* The i-th pointer in block c.
Puntero(c, i) == CASE i <= Len(c.punteros) -> c.punteros[i]
                   [] c = BloqueCero       -> NULO
                   [] OTHER                -> RELLENO

Cantidad(x) == x.tamanio \div BLOCK_SIZE

leer_bloque_indirecto(d, x) ==
  [i \in 1 .. Cantidad(x) - 1 |-> Puntero(Leer(d, x.indirecto), i)]

-----------------------------------------------------------------------------
(* F_CREATE, which the kernel sends when F_OPEN finds no file *)

crear_archivo(f) ==
  /\ hilo = Libre
  /\ f \notin DOMAIN lista_fcb
  /\ LET x == [tamanio |-> 0, directo |-> 0, indirecto |-> NULO]
         Con(fcbs) == [g \in DOMAIN fcbs \cup {f} |-> IF g = f THEN x ELSE fcbs[g]]
     IN  /\ lista_fcb' = Con(lista_fcb)
         /\ fcb_disco' = Con(fcb_disco)
  /\ UNCHANGED <<bitmap, disco, hilo, caidas>>

-----------------------------------------------------------------------------
(* F_TRUNCATE *)

\* The blocks a file of FCB x takes to grow by n: one more if it has no indirect
\* block and will have two blocks.
Necesita(x, n) ==
  IF n > 0 /\ x.indirecto = NULO /\ Cantidad(x) + n > 1 THEN n + 1 ELSE n

\* The division is of integers: ceil has nothing to round.
truncar_archivo(f, nuevo) ==
  /\ hilo = Libre
  /\ f \in DOMAIN lista_fcb
  /\ LET x == lista_fcb[f] IN
       \/ /\ nuevo > x.tamanio
          /\ LET n == (nuevo - x.tamanio) \div BLOCK_SIZE IN
               /\ HAY_LUGAR => Necesita(x, n) <= Cardinality(Libres)
               /\ hilo' = [Libre EXCEPT
                    !.archivo = f, !.faltan = n,
                    !.paso = IF n = 0 THEN "actualizar" ELSE "aumentar",
                    !.punteros = IF x.indirecto = NULO THEN <<>>
                                 ELSE leer_bloque_indirecto(disco, x)]
       \/ /\ nuevo < x.tamanio
          /\ hilo' = [Libre EXCEPT
               !.archivo = f, !.paso = "disminuir",
               !.faltan = (x.tamanio - nuevo) \div BLOCK_SIZE,
               !.punteros = leer_bloque_indirecto(disco, x)]
  /\ UNCHANGED <<bitmap, disco, fcb_disco, lista_fcb, caidas>>

(* aumentar_tamanio_archivo, one block at a time *)

\* Mutant: the loop goes on until it has made a block too many.
UnBloqueDeMas(ultimo) ==
  [hilo EXCEPT !.faltan = @ - 1, !.paso = IF hilo.faltan = 0 THEN ultimo ELSE "aumentar"]

Avanzar(ultimo) ==
  [hilo EXCEPT !.faltan = @ - 1, !.paso = IF hilo.faltan = 1 THEN ultimo ELSE "aumentar"]

CrearBloqueDirecto(f) ==
  /\ hilo.archivo = f /\ hilo.paso = "aumentar"
  /\ Cantidad(lista_fcb[f]) = 0
  /\ crear_bloque(obtener_bloque_libre)
  /\ lista_fcb' = [lista_fcb EXCEPT ![f].directo = obtener_bloque_libre,
                                    ![f].tamanio = @ + BLOCK_SIZE]
  /\ hilo' = Avanzar("actualizar")
  /\ UNCHANGED <<fcb_disco, caidas>>

FaltaIndirecto(x) == x.indirecto = NULO

CrearBloqueIndirecto(f) ==
  /\ hilo.archivo = f /\ hilo.paso = "aumentar"
  /\ Cantidad(lista_fcb[f]) > 0
  /\ FaltaIndirecto(lista_fcb[f])
  /\ crear_bloque(obtener_bloque_libre)
  /\ lista_fcb' = [lista_fcb EXCEPT ![f].indirecto = obtener_bloque_libre]
  /\ hilo' = [hilo EXCEPT !.paso = "datos", !.punteros = <<>>]
  /\ UNCHANGED <<fcb_disco, caidas>>

CrearBloqueDeDatos(f) ==
  /\ hilo.archivo = f
  /\ \/ hilo.paso = "datos"
     \/ /\ hilo.paso = "aumentar"
        /\ Cantidad(lista_fcb[f]) > 0
        /\ ~FaltaIndirecto(lista_fcb[f])
  /\ crear_bloque(obtener_bloque_libre)
  /\ lista_fcb' = [lista_fcb EXCEPT ![f].tamanio = @ + BLOCK_SIZE]
  /\ hilo' = [Avanzar("sincronizar") EXCEPT
                !.punteros = Append(@, obtener_bloque_libre)]
  /\ UNCHANGED <<fcb_disco, caidas>>

sincronizar_punteros_bloque_indirecto(f) ==
  /\ hilo.archivo = f /\ hilo.paso = "sincronizar"
  /\ escribir_en_bloque(lista_fcb[f].indirecto, Contenido(hilo.punteros, "PUNTEROS"))
  /\ hilo' = [hilo EXCEPT !.paso = "actualizar"]
  /\ UNCHANGED <<bitmap, fcb_disco, lista_fcb, caidas>>

\* Mutant: the FCB stays in memory.
NoActualizar(f, x) == fcb_disco' = fcb_disco

actualizar_fcb(f, x) == fcb_disco' = [fcb_disco EXCEPT ![f] = x]

TerminarAumento(f) ==
  /\ hilo.archivo = f /\ hilo.paso = "actualizar"
  /\ actualizar_fcb(f, lista_fcb[f])
  /\ hilo' = Libre
  /\ UNCHANGED <<bitmap, disco, lista_fcb, caidas>>

\* Mutant: the indirect block is not freed.
SinElIndirecto(x, p, n) ==
  LET queda == Cantidad(x) - n IN
  {p[i] : i \in {j \in DOMAIN p : j >= queda}}
  \cup (IF n > 0 /\ queda = 0 THEN {x.directo} ELSE {})

\* What a file with the pointers p frees to lose n blocks: the last ones, its
\* indirect block when one block is left, and that block if none is.
Liberados(x, p, n) ==
  LET queda == Cantidad(x) - n IN
  {p[i] : i \in {j \in DOMAIN p : j >= queda}}
  \cup (IF p # <<>> /\ queda <= 1 THEN {x.indirecto} ELSE {})
  \cup (IF n > 0 /\ queda = 0 THEN {x.directo} ELSE {})

\* Nothing sleeps between the bitmap and the FCB.
disminuir_tamanio_archivo(f) ==
  /\ hilo.archivo = f /\ hilo.paso = "disminuir"
  /\ LET x == lista_fcb[f]
         queda == Cantidad(x) - hilo.faltan
         y == [x EXCEPT !.tamanio = @ - hilo.faltan * BLOCK_SIZE,
                        !.indirecto = IF queda <= 1 /\ Cantidad(x) > 1 THEN NULO ELSE @]
     IN  /\ bitmap' = bitmap \ Liberados(x, hilo.punteros, hilo.faltan)
         /\ lista_fcb' = [lista_fcb EXCEPT ![f] = y]
         /\ actualizar_fcb(f, y)
  /\ hilo' = Libre
  /\ UNCHANGED <<disco, caidas>>

-----------------------------------------------------------------------------
(* F_WRITE of n blocks from block k on.  All the file is read, except the second
   block of a file of two; what is read is changed and written back: the direct
   block only if n = 1.  Of an empty file one block is read too. *)

BloquesEnMemoria(x) ==
  IF Cantidad(x) = 0 /\ ~ESCRITURAS_DENTRO THEN 1 ELSE Cantidad(x)

escribir_archivo(f, k, n, v) ==
  /\ hilo = Libre
  /\ f \in DOMAIN lista_fcb
  /\ k + n <= BloquesEnMemoria(lista_fcb[f])
  /\ LET x == lista_fcb[f]
         p == leer_bloque_indirecto(disco, x)
         leido(i) == IF i = 1 \/ Len(p) > 1 THEN Leer(disco, (<<x.directo>> \o p)[i]).dato
                     ELSE "BASURA"
         obtener_n_punteros == IF n > 1 THEN <<x.directo>> \o p ELSE <<x.directo>>
     IN  hilo' = [Libre EXCEPT
           !.archivo = f, !.paso = "escribir",
           !.pendientes = [i \in DOMAIN obtener_n_punteros |->
             [bloque |-> obtener_n_punteros[i],
              dato |-> IF i \in k + 1 .. k + n THEN v ELSE leido(i)]]]
  /\ UNCHANGED <<bitmap, disco, fcb_disco, lista_fcb, caidas>>

EscribirBloque(f) ==
  /\ hilo.archivo = f /\ hilo.paso = "escribir"
  /\ escribir_en_bloque(Head(hilo.pendientes).bloque, Dato(Head(hilo.pendientes).dato))
  /\ hilo' = IF Len(hilo.pendientes) = 1 THEN Libre
             ELSE [hilo EXCEPT !.pendientes = Tail(@)]
  /\ UNCHANGED <<bitmap, fcb_disco, lista_fcb, caidas>>

-----------------------------------------------------------------------------
(* The program is killed and started again: iniciar_FCBs reads the FCBs. *)

iniciar_fs ==
  /\ caidas < CAIDAS
  /\ caidas' = caidas + 1
  /\ lista_fcb' = fcb_disco
  /\ hilo' = Libre
  /\ UNCHANGED <<bitmap, disco, fcb_disco>>

Next ==
  \/ \E f \in ARCHIVOS :
       \/ crear_archivo(f)
       \/ \E nuevo \in TAMANIOS[f] : truncar_archivo(f, nuevo)
       \/ CrearBloqueDirecto(f) \/ CrearBloqueIndirecto(f) \/ CrearBloqueDeDatos(f)
       \/ sincronizar_punteros_bloque_indirecto(f) \/ TerminarAumento(f)
       \/ disminuir_tamanio_archivo(f)
       \/ \E k \in Bloques, n \in 1 .. BLOCK_COUNT, v \in VALORES :
            escribir_archivo(f, k, n, v)
       \/ EscribirBloque(f)
  \/ iniciar_fs

Spec == Init /\ [][Next]_vars

-----------------------------------------------------------------------------
(* Properties *)

Punteros == Bloques \cup {SIN_BLOQUE, RELLENO}
FCB == [tamanio : Nat, directo : Punteros, indirecto : Punteros]
Datos == VALORES \cup {"CERO", "PUNTEROS", "BASURA"}

\* Every variable has its type, and a request in progress is of a file that
\* exists and has something left to do.
TypeOK ==
  /\ bitmap \subseteq Bloques
  /\ disco \in [Bloques -> [punteros : Seq(Punteros), dato : Datos]]
  /\ DOMAIN lista_fcb \subseteq ARCHIVOS
  /\ lista_fcb \in [DOMAIN lista_fcb -> FCB] /\ fcb_disco \in [DOMAIN lista_fcb -> FCB]
  /\ hilo \in [paso : {"libre", "aumentar", "datos", "sincronizar", "actualizar",
                       "disminuir", "escribir"},
               archivo : ARCHIVOS \cup {"NINGUNO"}, faltan : Nat,
               punteros : Seq(Punteros),
               pendientes : Seq([bloque : Punteros, dato : Datos])]
  /\ hilo # Libre => hilo.archivo \in DOMAIN lista_fcb
  /\ hilo.paso \in {"aumentar", "datos"} => hilo.faltan > 0
  /\ hilo.paso = "escribir" => hilo.pendientes # <<>>
  /\ caidas \in 0 .. CAIDAS

Creciendo(f) ==
  hilo.archivo = f /\ hilo.paso \in {"aumentar", "datos", "sincronizar", "actualizar"}

\* The blocks of a file: the direct one, the indirect one and those it points to.
BloquesDe(f) ==
  LET x == lista_fcb[f] IN
  (IF x.tamanio > 0 THEN <<x.directo>> ELSE <<>>)
  \o (IF Cantidad(x) > 1 \/ (hilo.archivo = f /\ hilo.paso = "datos")
      THEN <<x.indirecto>> ELSE <<>>)
  \o (IF Creciendo(f) THEN hilo.punteros ELSE leer_bloque_indirecto(disco, x))

Usos(b) == UNION {{<<f, i>> : i \in {j \in DOMAIN BloquesDe(f) : BloquesDe(f)[j] = b}} :
                  f \in DOMAIN lista_fcb}

\* A block has one owner at most, in one place, and a block with an owner has its
\* bit set: also while a file grows and after a restart.  So it is with room for
\* every request, no F_WRITE to an empty file (which writes a block of nobody or of
\* another file, even its indirect one) and the first block in a file that is never
\* emptied.
DuenioUnico ==
  \A b \in Bloques : /\ Cardinality(Usos(b)) <= 1
                     /\ Usos(b) # {} => b \in bitmap

\* Only a program that is killed loses blocks: in any other step, a block whose
\* bit is set and has no owner was like that before; under the same conditions.
Perdidos == {b \in bitmap : Usos(b) = {}}
SinFugas == [][caidas' = caidas => Perdidos' \subseteq Perdidos]_vars

\* What a file on the disk has in its blocks.
DatosDe(d, x) ==
  [i \in 1 .. Cantidad(x) |->
     Leer(d, IF i = 1 THEN x.directo ELSE leer_bloque_indirecto(d, x)[i - 1]).dato]

\* What the disk has of a file changes only by an F_WRITE of that file and at the
\* end of an F_TRUNCATE of it, which keeps what it had up to the smaller size and
\* adds zeros: a restart finds a file as it was before a truncation or after it.
\* Under the same conditions; what the F_WRITE of a file leaves in that file is not
\* said here.
ArchivosConservados ==
  [][\A f \in DOMAIN fcb_disco :
       LET antes   == DatosDe(disco, fcb_disco[f])
           despues == DatosDe(disco', fcb_disco'[f])
       IN  \/ despues = antes
           \/ hilo.archivo = f /\ hilo.paso = "escribir"
           \/ /\ hilo.archivo = f /\ hilo.paso \in {"actualizar", "disminuir"}
              /\ \A i \in DOMAIN despues :
                   despues[i] = IF i \in DOMAIN antes THEN antes[i] ELSE "CERO"]_vars

\* Between requests the FCBs in memory are those on the disk: a program killed
\* after an answer loses nothing of what it answered.
RespuestaPersistida == hilo = Libre => lista_fcb = fcb_disco

\* filesystem.c:662: from the second block on, "se revisa si existe el puntero
\* indirecto. Si no, se crea": a file of two blocks or more has one.
IndirectoExiste ==
  \A f \in DOMAIN lista_fcb : Cantidad(lista_fcb[f]) > 1 => lista_fcb[f].indirecto # NULO
=============================================================================
