--------------------------- MODULE FileSystemProofs ---------------------------
(***************************************************************************)
(* The file system keeps its FCBs on the disk and never gives a block to   *)
(* two files, for every number and size of blocks, every set of files and  *)
(* sizes, and wherever the program is killed.                              *)
(***************************************************************************)
EXTENDS FileSystem, SecuenciasProofs

Contenidos == [punteros : Seq(Punteros), dato : Datos]
Pedidos    == [bloque : Punteros, dato : Datos]
Pasos      == {"libre", "aumentar", "datos", "sincronizar", "actualizar", "disminuir",
               "escribir"}
Hilos      == [paso : Pasos, archivo : ARCHIVOS \cup {"NINGUNO"}, faltan : Nat,
               punteros : Seq(Punteros), pendientes : Seq(Pedidos)]

-----------------------------------------------------------------------------
(* Blocks and FCBs *)

LEMMA Tamanios ==
  /\ BLOCK_COUNT \in Nat \ {0} /\ BLOCK_SIZE \in Nat \ {0} /\ CAIDAS \in Nat
  /\ 0 \in Bloques /\ Bloques \subseteq Nat /\ Bloques \subseteq Punteros
  /\ NULO \in Punteros /\ SIN_BLOQUE \in Punteros /\ RELLENO \in Punteros
  /\ NULO = 0 /\ SIN_BLOQUE \notin Bloques
BY ConstantesValidas DEF Bloques, Punteros, NULO, SIN_BLOQUE, RELLENO

LEMMA CeroEs == BloqueCero \in Contenidos /\ BloqueCero.dato = "CERO"
BY DEF BloqueCero, Contenido, Contenidos, Datos

LEMMA DatoEs ==
  ASSUME NEW v \in Datos
  PROVE  Dato(v) \in Contenidos /\ Dato(v).dato = v
BY DEF Dato, Contenido, Contenidos

LEMMA LeerEs ==
  ASSUME NEW d \in [Bloques -> Contenidos], NEW b
  PROVE  /\ Leer(d, b) \in Contenidos /\ Leer(d, b).dato \in Datos
         /\ b \in Bloques => Leer(d, b) = d[b]
<1>1. "BASURA" \in Datos
  BY DEF Datos
<1>2. CASE b \in Bloques
  BY <1>2, Tamanios DEF Leer, Contenidos
<1>3. CASE b \notin Bloques /\ b = SIN_BLOQUE
  BY <1>3, Tamanios DEF Leer, Contenidos
<1>4. CASE b \notin Bloques /\ b # SIN_BLOQUE
  <2>1. Leer(d, b) = Dato("BASURA")
    BY <1>4 DEF Leer
  <2> QED BY <1>1, <1>4, <2>1, DatoEs
<1> QED BY <1>2, <1>3, <1>4

LEMMA PunteroEs ==
  ASSUME NEW c \in Contenidos, NEW i \in Nat \ {0}
  PROVE  Puntero(c, i) \in Punteros
<1>1. CASE i <= Len(c.punteros)
  <2>1. c.punteros[i] \in Punteros
    BY <1>1, ElementOfSeq DEF Contenidos
  <2>2. c # BloqueCero
    <3>1. BloqueCero.punteros = <<>> /\ Len(<<>>) = 0
      BY DEF BloqueCero, Contenido
    <3> QED BY <1>1, <3>1
  <2> QED BY <1>1, <2>1, <2>2 DEF Puntero
<1>2. CASE ~ (i <= Len(c.punteros)) /\ c = BloqueCero
  BY <1>2, Tamanios DEF Puntero
<1>3. CASE ~ (i <= Len(c.punteros)) /\ c # BloqueCero
  BY <1>3, Tamanios DEF Puntero
<1> QED BY <1>1, <1>2, <1>3

LEMMA CantidadEs ==
  ASSUME NEW x, x.tamanio \in Nat
  PROVE  Cantidad(x) \in Nat /\ Cantidad(x) * BLOCK_SIZE <= x.tamanio
<1>1. PICK t \in Nat, d \in Nat \ {0} : t = x.tamanio /\ d = BLOCK_SIZE
  BY Tamanios
<1>2. (t \div d) \in Nat
  OBVIOUS
<1>3. d * (t \div d) <= t
  OBVIOUS
<1>4. d * (t \div d) = (t \div d) * d
  BY <1>2
<1> QED BY <1>1, <1>2, <1>3, <1>4 DEF Cantidad

LEMMA IndirectoEs ==
  ASSUME NEW d \in [Bloques -> Contenidos], NEW x \in FCB
  PROVE  LET p == leer_bloque_indirecto(d, x)
         IN  /\ p \in Seq(Punteros)
             /\ Len(p) = IF Cantidad(x) = 0 THEN 0 ELSE Cantidad(x) - 1
             /\ DOMAIN p = 1 .. Cantidad(x) - 1
             /\ \A i \in 1 .. Cantidad(x) - 1 : p[i] = Puntero(Leer(d, x.indirecto), i)
<1>1. PICK c \in Nat : c = Cantidad(x)
  BY CantidadEs DEF FCB
<1>2. Leer(d, x.indirecto) \in Contenidos
  BY LeerEs
<1>3. \A i \in 1 .. c - 1 : Puntero(Leer(d, x.indirecto), i) \in Punteros
  BY <1>2, PunteroEs
<1>4. PICK p : p = leer_bloque_indirecto(d, x)
  OBVIOUS
<1>5. p = [i \in 1 .. c - 1 |-> Puntero(Leer(d, x.indirecto), i)]
  BY <1>1, <1>4 DEF leer_bloque_indirecto
<1>6. PICK m \in Nat : m = IF c = 0 THEN 0 ELSE c - 1
  BY <1>1
<1>7. 1 .. c - 1 = 1 .. m
  BY <1>6
<1>8. p \in [1 .. m -> Punteros]
  BY <1>3, <1>5, <1>7
<1>9. p \in Seq(Punteros) /\ Len(p) = m
  BY <1>8
<1> QED BY <1>1, <1>4, <1>5, <1>6, <1>7, <1>9

LEMMA LibreEs ==
  ASSUME bitmap \subseteq Bloques
  PROVE  /\ obtener_bloque_libre \in Punteros
         /\ Libres # {} => obtener_bloque_libre \in Libres
         /\ IsFiniteSet(Libres) /\ Cardinality(Libres) \in Nat
         /\ Cardinality(Libres) > 0 => Libres # {}
<1>1. Libres \in SUBSET Nat /\ Libres \subseteq Bloques
  BY Tamanios DEF Libres
<1>2. Libres # {} => Min(Libres) \in Libres
  BY <1>1, MinimoExiste
<1>3. IsFiniteSet(Bloques)
  BY Tamanios, FS_Interval DEF Bloques
<1>4. IsFiniteSet(Libres)
  BY <1>1, <1>3, FS_Subset
<1>5. Cardinality(Libres) \in Nat /\ (Libres = {} => Cardinality(Libres) = 0)
  BY <1>4, FS_CardinalityType, FS_EmptySet
<1>6. obtener_bloque_libre \in Punteros /\ (Libres # {} => obtener_bloque_libre \in Libres)
  <2>1. CASE Libres = {}
    BY <2>1, Tamanios DEF obtener_bloque_libre
  <2>2. CASE Libres # {}
    <3>1. obtener_bloque_libre = Min(Libres)
      BY <2>2 DEF obtener_bloque_libre
    <3> QED BY <1>1, <1>2, <2>2, <3>1, Tamanios
  <2> QED BY <2>1, <2>2
<1> QED BY <1>4, <1>5, <1>6

LEMMA EscribirEs ==
  ASSUME disco \in [Bloques -> Contenidos], NEW b, NEW c \in Contenidos,
         escribir_en_bloque(b, c)
  PROVE  /\ disco' \in [Bloques -> Contenidos]
         /\ \A e \in Bloques : disco'[e] = IF e = b THEN c ELSE disco[e]
<1>1. CASE b \in Bloques
  BY <1>1 DEF escribir_en_bloque
<1>2. CASE b \notin Bloques
  BY <1>2 DEF escribir_en_bloque
<1> QED BY <1>1, <1>2

LEMMA CrearEs ==
  ASSUME disco \in [Bloques -> Contenidos], bitmap \subseteq Bloques, NEW b, crear_bloque(b)
  PROVE  /\ disco' \in [Bloques -> Contenidos]
         /\ \A e \in Bloques : disco'[e] = IF e = b THEN BloqueCero ELSE disco[e]
         /\ bitmap' \subseteq Bloques /\ bitmap \subseteq bitmap'
         /\ b \in Bloques => bitmap' = bitmap \cup {b}
<1>1. escribir_en_bloque(b, BloqueCero) /\ bitmap' = bitmap \cup ({b} \cap Bloques)
  BY DEF crear_bloque
<1> QED BY <1>1, CeroEs, EscribirEs

-----------------------------------------------------------------------------
(* Types, and what is in memory and on the disk *)

\* An FCB in memory is the one on the disk, but for that of the file that grows.
EnDisco ==
  /\ DOMAIN fcb_disco = DOMAIN lista_fcb
  /\ \A f \in DOMAIN lista_fcb : Creciendo(f) \/ fcb_disco[f] = lista_fcb[f]

\* A file does not lose more than it has.
Alcanza ==
  hilo.paso = "disminuir" => hilo.faltan * BLOCK_SIZE <= lista_fcb[hilo.archivo].tamanio

Basico == TypeOK /\ EnDisco /\ Alcanza

LEMMA Tipado ==
  ASSUME Basico
  PROVE  /\ bitmap \subseteq Bloques /\ disco \in [Bloques -> Contenidos]
         /\ DOMAIN lista_fcb \subseteq ARCHIVOS /\ DOMAIN fcb_disco = DOMAIN lista_fcb
         /\ lista_fcb \in [DOMAIN lista_fcb -> FCB] /\ fcb_disco \in [DOMAIN lista_fcb -> FCB]
         /\ hilo \in Hilos
         /\ hilo # Libre => hilo.archivo \in DOMAIN lista_fcb
         /\ hilo.paso \in {"aumentar", "datos"} => hilo.faltan > 0
         /\ hilo.paso = "escribir" => hilo.pendientes # <<>>
         /\ caidas \in 0 .. CAIDAS
BY DEF Basico, TypeOK, EnDisco, Contenidos, Hilos, Pasos, Pedidos

LEMMA HacerTipos ==
  ASSUME bitmap \subseteq Bloques, disco \in [Bloques -> Contenidos],
         DOMAIN lista_fcb \subseteq ARCHIVOS,
         lista_fcb \in [DOMAIN lista_fcb -> FCB], fcb_disco \in [DOMAIN lista_fcb -> FCB],
         hilo \in Hilos, hilo # Libre => hilo.archivo \in DOMAIN lista_fcb,
         hilo.paso \in {"aumentar", "datos"} => hilo.faltan > 0,
         hilo.paso = "escribir" => hilo.pendientes # <<>>, caidas \in 0 .. CAIDAS
  PROVE  TypeOK
BY DEF TypeOK, Contenidos, Hilos, Pasos, Pedidos

LEMMA LibreHilo ==
  /\ Libre \in Hilos /\ Libre.paso = "libre" /\ Libre.archivo = "NINGUNO"
  /\ Libre.faltan = 0 /\ Libre.punteros = <<>> /\ Libre.pendientes = <<>>
BY DEF Libre, Hilos, Pasos

LEMMA InicialBasico == Init => Basico
<1> SUFFICES ASSUME Init PROVE Basico
  OBVIOUS
<1>1. disco \in [Bloques -> Contenidos]
  BY CeroEs DEF Init
<1>2. \A f \in DOMAIN FCBS : FCBS[f] \in FCB /\ FCBS[f].directo \in Bloques
  <2>1. ASSUME NEW f \in DOMAIN FCBS PROVE FCBS[f] \in FCB /\ FCBS[f].directo \in Bloques
    <3>1. FCBS[f] \in [tamanio : {BLOCK_SIZE}, directo : Bloques, indirecto : {0}]
      BY ConstantesValidas DEF Bloques
    <3>2. BLOCK_SIZE \in Nat /\ 0 \in Punteros /\ Bloques \subseteq Punteros
      BY Tamanios
    <3> QED BY <3>1, <3>2 DEF FCB
  <2> QED BY <2>1
<1>3. DOMAIN FCBS \subseteq ARCHIVOS /\ FCBS = [f \in DOMAIN FCBS |-> FCBS[f]]
  BY ConstantesValidas
<1>4. TypeOK
  BY <1>1, <1>2, <1>3, LibreHilo, Tamanios DEF Init, TypeOK, Contenidos, Hilos, Pasos, Pedidos
<1>5. EnDisco /\ Alcanza
  BY LibreHilo DEF Init, EnDisco, Alcanza
<1> QED BY <1>4, <1>5 DEF Basico

-----------------------------------------------------------------------------
(* What each action does *)

\* F_TRUNCATE to a bigger size.
Agrandar(f, nuevo) ==
  LET x == lista_fcb[f]
      n == (nuevo - x.tamanio) \div BLOCK_SIZE
  IN  /\ nuevo > x.tamanio /\ hilo = Libre /\ f \in DOMAIN lista_fcb
      /\ HAY_LUGAR => Necesita(x, n) <= Cardinality(Libres)
      /\ hilo' = [Libre EXCEPT
           !.archivo = f, !.faltan = n,
           !.paso = IF n = 0 THEN "actualizar" ELSE "aumentar",
           !.punteros = IF x.indirecto = NULO THEN <<>> ELSE leer_bloque_indirecto(disco, x)]
      /\ UNCHANGED <<bitmap, disco, fcb_disco, lista_fcb, caidas>>

\* F_TRUNCATE to a smaller size.
Achicar(f, nuevo) ==
  LET x == lista_fcb[f]
  IN  /\ nuevo < x.tamanio /\ hilo = Libre /\ f \in DOMAIN lista_fcb
      /\ hilo' = [Libre EXCEPT
           !.archivo = f, !.paso = "disminuir",
           !.faltan = (x.tamanio - nuevo) \div BLOCK_SIZE,
           !.punteros = leer_bloque_indirecto(disco, x)]
      /\ UNCHANGED <<bitmap, disco, fcb_disco, lista_fcb, caidas>>

LEMMA TruncarEs ==
  ASSUME NEW f, NEW nuevo, truncar_archivo(f, nuevo)
  PROVE  Agrandar(f, nuevo) \/ Achicar(f, nuevo)
BY DEF truncar_archivo, Agrandar, Achicar

LEMMA AgrandarEs ==
  ASSUME Basico, NEW f \in ARCHIVOS, NEW nuevo \in Nat, Agrandar(f, nuevo)
  PROVE  \E n \in Nat :
           /\ hilo = Libre /\ f \in DOMAIN lista_fcb
           /\ HAY_LUGAR => Necesita(lista_fcb[f], n) <= Cardinality(Libres)
           /\ hilo' \in Hilos /\ hilo'.archivo = f /\ hilo'.faltan = n
           /\ hilo'.paso = IF n = 0 THEN "actualizar" ELSE "aumentar"
           /\ hilo'.punteros = IF lista_fcb[f].indirecto = NULO THEN <<>>
                               ELSE leer_bloque_indirecto(disco, lista_fcb[f])
           /\ UNCHANGED <<bitmap, disco, fcb_disco, lista_fcb, caidas>>
<1>1. f \in DOMAIN lista_fcb /\ nuevo > lista_fcb[f].tamanio
  BY DEF Agrandar
<1>2. lista_fcb[f] \in FCB /\ disco \in [Bloques -> Contenidos]
  BY <1>1, Tipado
<1>3. PICK k \in Nat : k = nuevo - lista_fcb[f].tamanio
  BY <1>1, <1>2 DEF FCB
<1>4. PICK d \in Nat \ {0} : d = BLOCK_SIZE
  BY Tamanios
<1>5. (k \div d) \in Nat
  OBVIOUS
<1>6. PICK n \in Nat : n = (nuevo - lista_fcb[f].tamanio) \div BLOCK_SIZE
  BY <1>3, <1>4, <1>5
<1>7. PICK p \in Seq(Punteros) :
        p = IF lista_fcb[f].indirecto = NULO THEN <<>>
            ELSE leer_bloque_indirecto(disco, lista_fcb[f])
  <2>1. <<>> \in Seq(Punteros)
    OBVIOUS
  <2> QED BY <1>2, <2>1, IndirectoEs
<1>8. hilo' = [Libre EXCEPT !.archivo = f, !.faltan = n,
                            !.paso = IF n = 0 THEN "actualizar" ELSE "aumentar",
                            !.punteros = p]
  BY <1>6, <1>7 DEF Agrandar
<1>9. /\ hilo' \in Hilos /\ hilo'.archivo = f /\ hilo'.faltan = n
      /\ hilo'.paso = IF n = 0 THEN "actualizar" ELSE "aumentar"
      /\ hilo'.punteros = p
  BY <1>8, LibreHilo DEF Hilos, Pasos
<1>10. /\ hilo = Libre
       /\ HAY_LUGAR => Necesita(lista_fcb[f], n) <= Cardinality(Libres)
       /\ UNCHANGED <<bitmap, disco, fcb_disco, lista_fcb, caidas>>
  BY <1>6 DEF Agrandar
<1> QED BY <1>1, <1>7, <1>9, <1>10

LEMMA AchicarEs ==
  ASSUME Basico, NEW f \in ARCHIVOS, NEW nuevo \in Nat, Achicar(f, nuevo)
  PROVE  \E n \in Nat :
           /\ hilo = Libre /\ f \in DOMAIN lista_fcb
           /\ n * BLOCK_SIZE <= lista_fcb[f].tamanio - nuevo
           /\ hilo' \in Hilos /\ hilo'.archivo = f /\ hilo'.faltan = n
           /\ hilo'.paso = "disminuir"
           /\ hilo'.punteros = leer_bloque_indirecto(disco, lista_fcb[f])
           /\ UNCHANGED <<bitmap, disco, fcb_disco, lista_fcb, caidas>>
<1>1. f \in DOMAIN lista_fcb /\ nuevo < lista_fcb[f].tamanio
  BY DEF Achicar
<1>2. lista_fcb[f] \in FCB /\ disco \in [Bloques -> Contenidos]
  BY <1>1, Tipado
<1>3. PICK k \in Nat : k = lista_fcb[f].tamanio - nuevo
  BY <1>1, <1>2 DEF FCB
<1>4. PICK d \in Nat \ {0} : d = BLOCK_SIZE
  BY Tamanios
<1>5. (k \div d) \in Nat
  OBVIOUS
<1>6. d * (k \div d) <= k
  OBVIOUS
<1>7. d * (k \div d) = (k \div d) * d
  BY <1>5
<1>8. PICK n \in Nat : /\ n = (lista_fcb[f].tamanio - nuevo) \div BLOCK_SIZE
                       /\ n * BLOCK_SIZE <= lista_fcb[f].tamanio - nuevo
  BY <1>3, <1>4, <1>5, <1>6, <1>7
<1>9. PICK p \in Seq(Punteros) : p = leer_bloque_indirecto(disco, lista_fcb[f])
  BY <1>2, IndirectoEs
<1>10. hilo' = [Libre EXCEPT !.archivo = f, !.paso = "disminuir", !.faltan = n,
                             !.punteros = p]
  BY <1>8, <1>9 DEF Achicar
<1>11. /\ hilo' \in Hilos /\ hilo'.archivo = f /\ hilo'.faltan = n
       /\ hilo'.paso = "disminuir" /\ hilo'.punteros = p
  BY <1>10, LibreHilo DEF Hilos, Pasos
<1>12. hilo = Libre /\ UNCHANGED <<bitmap, disco, fcb_disco, lista_fcb, caidas>>
  BY DEF Achicar
<1> QED BY <1>1, <1>8, <1>9, <1>11, <1>12

LEMMA AvanzarEs ==
  ASSUME hilo \in Hilos, hilo.faltan > 0, NEW u \in Pasos, NEW h, h = Avanzar(u)
  PROVE  /\ h \in Hilos /\ h.archivo = hilo.archivo /\ h.faltan = hilo.faltan - 1
         /\ h.paso = IF hilo.faltan = 1 THEN u ELSE "aumentar"
         /\ h.punteros = hilo.punteros /\ h.pendientes = hilo.pendientes
<1>1. PICK n \in Nat : n = hilo.faltan - 1
  BY DEF Hilos
<1>2. PICK s \in Pasos : s = IF hilo.faltan = 1 THEN u ELSE "aumentar"
  BY DEF Pasos
<1>3. h = [hilo EXCEPT !.faltan = n, !.paso = s]
  BY <1>1, <1>2 DEF Avanzar
<1> QED BY <1>1, <1>2, <1>3 DEF Hilos

\* A file as it is after a block more.
Crecido(x, y) == y \in FCB /\ y.tamanio = x.tamanio + BLOCK_SIZE /\ y.indirecto = x.indirecto

LEMMA CrearDirectoEs ==
  ASSUME Basico, NEW f \in ARCHIVOS, CrearBloqueDirecto(f)
  PROVE  /\ f \in DOMAIN lista_fcb /\ hilo.archivo = f /\ hilo.paso = "aumentar"
         /\ hilo.faltan > 0 /\ Cantidad(lista_fcb[f]) = 0
         /\ crear_bloque(obtener_bloque_libre)
         /\ \E y : /\ Crecido(lista_fcb[f], y) /\ y.directo = obtener_bloque_libre
                   /\ lista_fcb' = [lista_fcb EXCEPT ![f] = y]
         /\ hilo' \in Hilos /\ hilo'.archivo = f /\ hilo'.faltan = hilo.faltan - 1
         /\ hilo'.paso = IF hilo.faltan = 1 THEN "actualizar" ELSE "aumentar"
         /\ hilo'.punteros = hilo.punteros
         /\ UNCHANGED <<fcb_disco, caidas>>
<1>1. /\ hilo.archivo = f /\ hilo.paso = "aumentar" /\ Cantidad(lista_fcb[f]) = 0
      /\ crear_bloque(obtener_bloque_libre)
      /\ hilo' = Avanzar("actualizar") /\ UNCHANGED <<fcb_disco, caidas>>
  BY DEF CrearBloqueDirecto
<1>2. hilo \in Hilos /\ f \in DOMAIN lista_fcb /\ hilo.faltan > 0
  BY <1>1, Tipado, LibreHilo
<1>3. /\ hilo' \in Hilos /\ hilo'.archivo = f /\ hilo'.faltan = hilo.faltan - 1
      /\ hilo'.paso = IF hilo.faltan = 1 THEN "actualizar" ELSE "aumentar"
      /\ hilo'.punteros = hilo.punteros
  <2>1. "actualizar" \in Pasos
    BY DEF Pasos
  <2> QED BY <1>1, <1>2, <2>1, AvanzarEs
<1>4. PICK x \in FCB, b \in Punteros, m \in Nat :
        x = lista_fcb[f] /\ b = obtener_bloque_libre /\ m = x.tamanio + BLOCK_SIZE
  <2>1. lista_fcb[f] \in FCB /\ obtener_bloque_libre \in Punteros /\ BLOCK_SIZE \in Nat
    BY <1>2, Tipado, LibreEs, Tamanios
  <2> QED BY <2>1 DEF FCB
<1>5. PICK y : y = [x EXCEPT !.directo = b, !.tamanio = m]
  OBVIOUS
<1>6. Crecido(x, y) /\ y.directo = b
  BY <1>4, <1>5 DEF Crecido, FCB
<1>7. lista_fcb' = [lista_fcb EXCEPT ![f] = y]
  <2>1. lista_fcb' = [lista_fcb EXCEPT ![f].directo = b, ![f].tamanio = @ + BLOCK_SIZE]
    BY <1>4 DEF CrearBloqueDirecto
  <2>2. @ = [lista_fcb EXCEPT ![f] = [[x EXCEPT !.directo = b] EXCEPT !.tamanio = m]]
    BY <1>2, <1>4, Tipado DEF FCB
  <2> QED BY <1>5, <2>1, <2>2
<1> QED BY <1>1, <1>2, <1>3, <1>4, <1>6, <1>7

LEMMA CrearIndirectoEs ==
  ASSUME Basico, NEW f \in ARCHIVOS, CrearBloqueIndirecto(f)
  PROVE  /\ f \in DOMAIN lista_fcb /\ hilo.archivo = f /\ hilo.paso = "aumentar"
         /\ hilo.faltan > 0 /\ Cantidad(lista_fcb[f]) > 0 /\ lista_fcb[f].indirecto = NULO
         /\ crear_bloque(obtener_bloque_libre)
         /\ \E y \in FCB : /\ y.tamanio = lista_fcb[f].tamanio
                           /\ y.directo = lista_fcb[f].directo
                           /\ y.indirecto = obtener_bloque_libre
                           /\ lista_fcb' = [lista_fcb EXCEPT ![f] = y]
         /\ hilo' \in Hilos /\ hilo'.archivo = f /\ hilo'.faltan = hilo.faltan
         /\ hilo'.paso = "datos" /\ hilo'.punteros = <<>>
         /\ UNCHANGED <<fcb_disco, caidas>>
<1>1. /\ hilo.archivo = f /\ hilo.paso = "aumentar" /\ Cantidad(lista_fcb[f]) > 0
      /\ lista_fcb[f].indirecto = NULO
      /\ crear_bloque(obtener_bloque_libre)
      /\ lista_fcb' = [lista_fcb EXCEPT ![f].indirecto = obtener_bloque_libre]
      /\ hilo' = [hilo EXCEPT !.paso = "datos", !.punteros = <<>>]
      /\ UNCHANGED <<fcb_disco, caidas>>
  BY DEF CrearBloqueIndirecto, FaltaIndirecto
<1>2. hilo \in Hilos /\ f \in DOMAIN lista_fcb /\ hilo.faltan > 0
  BY <1>1, Tipado, LibreHilo
<1>3. /\ hilo' \in Hilos /\ hilo'.archivo = f /\ hilo'.faltan = hilo.faltan
      /\ hilo'.paso = "datos" /\ hilo'.punteros = <<>>
  <2>1. <<>> \in Seq(Punteros)
    OBVIOUS
  <2>2. PICK p \in Seq(Punteros) : p = <<>>
    BY <2>1
  <2>3. hilo' = [hilo EXCEPT !.paso = "datos", !.punteros = p]
    BY <1>1, <2>2
  <2>4. hilo' \in Hilos /\ hilo'.archivo = f /\ hilo'.faltan = hilo.faltan
    BY <1>1, <1>2, <2>3 DEF Hilos, Pasos
  <2>5. hilo'.paso = "datos" /\ hilo'.punteros = p
    BY <1>2, <2>3 DEF Hilos
  <2> QED BY <2>2, <2>4, <2>5
<1>4. PICK x \in FCB, b \in Punteros : x = lista_fcb[f] /\ b = obtener_bloque_libre
  BY <1>2, Tipado, LibreEs
<1>5. PICK y : y = [x EXCEPT !.indirecto = b]
  OBVIOUS
<1>6. y \in FCB /\ y.tamanio = x.tamanio /\ y.directo = x.directo /\ y.indirecto = b
  BY <1>5 DEF FCB
<1>7. lista_fcb' = [lista_fcb EXCEPT ![f] = y]
  BY <1>1, <1>2, <1>4, <1>5, Tipado
<1> QED BY <1>1, <1>2, <1>3, <1>4, <1>6, <1>7

LEMMA CrearDatosEs ==
  ASSUME Basico, NEW f \in ARCHIVOS, CrearBloqueDeDatos(f)
  PROVE  /\ f \in DOMAIN lista_fcb /\ hilo.archivo = f /\ hilo.faltan > 0
         /\ \/ hilo.paso = "datos"
            \/ /\ hilo.paso = "aumentar" /\ Cantidad(lista_fcb[f]) > 0
               /\ lista_fcb[f].indirecto # NULO
         /\ crear_bloque(obtener_bloque_libre)
         /\ \E y : /\ Crecido(lista_fcb[f], y) /\ y.directo = lista_fcb[f].directo
                   /\ lista_fcb' = [lista_fcb EXCEPT ![f] = y]
         /\ hilo' \in Hilos /\ hilo'.archivo = f /\ hilo'.faltan = hilo.faltan - 1
         /\ hilo'.paso = IF hilo.faltan = 1 THEN "sincronizar" ELSE "aumentar"
         /\ hilo'.punteros = Append(hilo.punteros, obtener_bloque_libre)
         /\ UNCHANGED <<fcb_disco, caidas>>
<1>1. /\ hilo.archivo = f
      /\ \/ hilo.paso = "datos"
         \/ /\ hilo.paso = "aumentar" /\ Cantidad(lista_fcb[f]) > 0
            /\ lista_fcb[f].indirecto # NULO
      /\ crear_bloque(obtener_bloque_libre)
      /\ lista_fcb' = [lista_fcb EXCEPT ![f].tamanio = @ + BLOCK_SIZE]
      /\ hilo' = [Avanzar("sincronizar") EXCEPT
                    !.punteros = Append(@, obtener_bloque_libre)]
      /\ UNCHANGED <<fcb_disco, caidas>>
  BY DEF CrearBloqueDeDatos, FaltaIndirecto
<1>2. hilo \in Hilos /\ f \in DOMAIN lista_fcb /\ hilo.faltan > 0
  BY <1>1, Tipado, LibreHilo
<1>3. PICK x \in FCB, b \in Punteros, m \in Nat :
        x = lista_fcb[f] /\ b = obtener_bloque_libre /\ m = x.tamanio + BLOCK_SIZE
  <2>1. lista_fcb[f] \in FCB /\ obtener_bloque_libre \in Punteros /\ BLOCK_SIZE \in Nat
    BY <1>2, Tipado, LibreEs, Tamanios
  <2> QED BY <2>1 DEF FCB
<1>4. PICK h : h = Avanzar("sincronizar")
  OBVIOUS
<1>5. /\ h \in Hilos /\ h.archivo = f /\ h.faltan = hilo.faltan - 1
      /\ h.paso = IF hilo.faltan = 1 THEN "sincronizar" ELSE "aumentar"
      /\ h.punteros = hilo.punteros
  <2>1. "sincronizar" \in Pasos
    BY DEF Pasos
  <2> QED BY <1>1, <1>2, <1>4, <2>1, AvanzarEs
<1>6. PICK p \in Seq(Punteros) : p = Append(hilo.punteros, b)
  BY <1>2, AppendProperties DEF Hilos
<1>7. hilo' = [h EXCEPT !.punteros = p]
  BY <1>1, <1>3, <1>4, <1>5, <1>6
<1>8. /\ hilo' \in Hilos /\ hilo'.archivo = f /\ hilo'.faltan = hilo.faltan - 1
      /\ hilo'.paso = IF hilo.faltan = 1 THEN "sincronizar" ELSE "aumentar"
      /\ hilo'.punteros = p
  BY <1>5, <1>7 DEF Hilos
<1>9. PICK y : y = [x EXCEPT !.tamanio = m]
  OBVIOUS
<1>10. Crecido(x, y) /\ y.directo = x.directo
  BY <1>3, <1>9 DEF Crecido, FCB
<1>11. lista_fcb' = [lista_fcb EXCEPT ![f] = y]
  BY <1>1, <1>2, <1>3, <1>9, Tipado
<1> QED BY <1>1, <1>2, <1>3, <1>6, <1>8, <1>10, <1>11

LEMMA SincronizarEs ==
  ASSUME Basico, NEW f \in ARCHIVOS, sincronizar_punteros_bloque_indirecto(f)
  PROVE  /\ f \in DOMAIN lista_fcb /\ hilo.archivo = f /\ hilo.paso = "sincronizar"
         /\ Contenido(hilo.punteros, "PUNTEROS") \in Contenidos
         /\ Contenido(hilo.punteros, "PUNTEROS").punteros = hilo.punteros
         /\ escribir_en_bloque(lista_fcb[f].indirecto, Contenido(hilo.punteros, "PUNTEROS"))
         /\ hilo' \in Hilos /\ hilo'.archivo = f /\ hilo'.paso = "actualizar"
         /\ hilo'.punteros = hilo.punteros
         /\ UNCHANGED <<bitmap, fcb_disco, lista_fcb, caidas>>
<1>1. /\ hilo.archivo = f /\ hilo.paso = "sincronizar"
      /\ escribir_en_bloque(lista_fcb[f].indirecto, Contenido(hilo.punteros, "PUNTEROS"))
      /\ hilo' = [hilo EXCEPT !.paso = "actualizar"]
      /\ UNCHANGED <<bitmap, fcb_disco, lista_fcb, caidas>>
  BY DEF sincronizar_punteros_bloque_indirecto
<1>2. hilo \in Hilos /\ f \in DOMAIN lista_fcb
  BY <1>1, Tipado, LibreHilo
<1>3. /\ hilo' \in Hilos /\ hilo'.archivo = f /\ hilo'.paso = "actualizar"
      /\ hilo'.punteros = hilo.punteros
  BY <1>1, <1>2 DEF Hilos, Pasos
<1>4. PICK p \in Seq(Punteros) : p = hilo.punteros
  BY <1>2 DEF Hilos
<1>5. Contenido(p, "PUNTEROS") \in Contenidos /\ Contenido(p, "PUNTEROS").punteros = p
  BY DEF Contenido, Contenidos, Datos
<1> QED BY <1>1, <1>2, <1>3, <1>4, <1>5

LEMMA TerminarEs ==
  ASSUME Basico, NEW f \in ARCHIVOS, TerminarAumento(f)
  PROVE  /\ f \in DOMAIN lista_fcb /\ hilo.archivo = f /\ hilo.paso = "actualizar"
         /\ fcb_disco' = [fcb_disco EXCEPT ![f] = lista_fcb[f]]
         /\ hilo' = Libre
         /\ UNCHANGED <<bitmap, disco, lista_fcb, caidas>>
<1>1. /\ hilo.archivo = f /\ hilo.paso = "actualizar"
      /\ fcb_disco' = [fcb_disco EXCEPT ![f] = lista_fcb[f]]
      /\ hilo' = Libre
      /\ UNCHANGED <<bitmap, disco, lista_fcb, caidas>>
  BY DEF TerminarAumento, actualizar_fcb
<1>2. f \in DOMAIN lista_fcb
  BY <1>1, Tipado, LibreHilo
<1> QED BY <1>1, <1>2

LEMMA DisminuirEs ==
  ASSUME Basico, NEW f \in ARCHIVOS, disminuir_tamanio_archivo(f)
  PROVE  /\ f \in DOMAIN lista_fcb /\ hilo.archivo = f /\ hilo.paso = "disminuir"
         /\ bitmap' = bitmap \ Liberados(lista_fcb[f], hilo.punteros, hilo.faltan)
         /\ \E y \in FCB :
              /\ y.tamanio = lista_fcb[f].tamanio - hilo.faltan * BLOCK_SIZE
              /\ y.directo = lista_fcb[f].directo
              /\ y.indirecto = IF Cantidad(lista_fcb[f]) - hilo.faltan <= 1
                                  /\ Cantidad(lista_fcb[f]) > 1
                               THEN NULO ELSE lista_fcb[f].indirecto
              /\ lista_fcb' = [lista_fcb EXCEPT ![f] = y]
              /\ fcb_disco' = [fcb_disco EXCEPT ![f] = y]
         /\ hilo' = Libre
         /\ UNCHANGED <<disco, caidas>>
<1>1. hilo.archivo = f /\ hilo.paso = "disminuir" /\ hilo' = Libre /\ UNCHANGED <<disco, caidas>>
  BY DEF disminuir_tamanio_archivo
<1>2. hilo \in Hilos /\ f \in DOMAIN lista_fcb
  BY <1>1, Tipado, LibreHilo
<1>3. hilo.faltan * BLOCK_SIZE <= lista_fcb[f].tamanio
  BY <1>1 DEF Basico, Alcanza
<1>4. PICK x \in FCB : x = lista_fcb[f]
  BY <1>2, Tipado
<1>5. PICK n \in Nat, d \in Nat : n = hilo.faltan /\ d = BLOCK_SIZE
  BY <1>2, Tamanios DEF Hilos
<1>6. PICK m \in Nat : m = x.tamanio - hilo.faltan * BLOCK_SIZE
  <2>1. n * d \in Nat
    OBVIOUS
  <2> QED BY <1>3, <1>4, <1>5, <2>1 DEF FCB
<1>7. PICK c \in Punteros :
        c = IF Cantidad(x) - hilo.faltan <= 1 /\ Cantidad(x) > 1 THEN NULO ELSE x.indirecto
  BY Tamanios DEF FCB
<1>8. PICK y : y = [x EXCEPT !.tamanio = m, !.indirecto = c]
  OBVIOUS
<1>9. /\ y \in FCB /\ y.tamanio = m /\ y.directo = x.directo /\ y.indirecto = c
  BY <1>8 DEF FCB
<1>10. y = [x EXCEPT !.tamanio = @ - hilo.faltan * BLOCK_SIZE,
                     !.indirecto = IF Cantidad(x) - hilo.faltan <= 1 /\ Cantidad(x) > 1
                                   THEN NULO ELSE @]
  BY <1>6, <1>7, <1>8
<1>11. /\ bitmap' = bitmap \ Liberados(x, hilo.punteros, hilo.faltan)
       /\ lista_fcb' = [lista_fcb EXCEPT ![f] = y]
       /\ fcb_disco' = [fcb_disco EXCEPT ![f] = y]
  BY <1>4, <1>10 DEF disminuir_tamanio_archivo, actualizar_fcb
<1> QED BY <1>1, <1>2, <1>4, <1>6, <1>7, <1>9, <1>11

\* The blocks of a file, the direct one first.
BloquesDeDatos(d, x) == <<x.directo>> \o leer_bloque_indirecto(d, x)

LEMMA BloquesDeDatosEs ==
  ASSUME NEW d \in [Bloques -> Contenidos], NEW x \in FCB, NEW s, s = BloquesDeDatos(d, x)
  PROVE  /\ s \in Seq(Punteros)
         /\ Len(s) = IF Cantidad(x) = 0 THEN 1 ELSE Cantidad(x)
         /\ s[1] = x.directo
         /\ \A i \in 2 .. Cantidad(x) : s[i] = leer_bloque_indirecto(d, x)[i - 1]
<1>1. PICK p \in Seq(Punteros) :
        /\ p = leer_bloque_indirecto(d, x)
        /\ Len(p) = IF Cantidad(x) = 0 THEN 0 ELSE Cantidad(x) - 1
  BY IndirectoEs
<1>2. PICK c \in Nat : c = Cantidad(x)
  BY CantidadEs DEF FCB
<1>3. PICK b \in Punteros : b = x.directo
  BY DEF FCB
<1>4. PICK u \in Seq(Punteros) : u = <<b>> /\ Len(u) = 1 /\ u[1] = b
  <2>1. <<b>> \in Seq(Punteros) /\ Len(<<b>>) = 1 /\ <<b>>[1] = b
    OBVIOUS
  <2> QED BY <2>1
<1>5. /\ u \o p \in Seq(Punteros) /\ Len(u \o p) = 1 + Len(p)
      /\ \A i \in 1 .. 1 + Len(p) : (u \o p)[i] = IF i <= 1 THEN u[i] ELSE p[i - 1]
  BY <1>4, ConcatProperties
<1>6. s = u \o p
  BY <1>1, <1>3, <1>4 DEF BloquesDeDatos
<1>7. Len(p) \in Nat /\ Len(p) = IF c = 0 THEN 0 ELSE c - 1
  BY <1>1, <1>2
<1>8. s[1] = b /\ \A i \in 2 .. c : s[i] = p[i - 1]
  BY <1>4, <1>5, <1>6, <1>7
<1>9. s \in Seq(Punteros) /\ Len(s) = IF c = 0 THEN 1 ELSE c
  BY <1>5, <1>6, <1>7
<1> HIDE DEF BloquesDeDatos
<1>10. /\ Len(s) = IF Cantidad(x) = 0 THEN 1 ELSE Cantidad(x)
       /\ s[1] = x.directo
  BY <1>2, <1>3, <1>8, <1>9
<1>11. \A i \in 2 .. Cantidad(x) : s[i] = leer_bloque_indirecto(d, x)[i - 1]
  BY <1>1, <1>2, <1>8
<1> QED BY <1>9, <1>10, <1>11

LEMMA EscribirArchivoEs ==
  ASSUME Basico, NEW f \in ARCHIVOS, NEW k \in Bloques, NEW n \in 1 .. BLOCK_COUNT,
         NEW v \in VALORES, escribir_archivo(f, k, n, v),
         k + n <= Cantidad(lista_fcb[f])
  PROVE  /\ hilo = Libre /\ f \in DOMAIN lista_fcb /\ Cantidad(lista_fcb[f]) > 0
         /\ hilo' \in Hilos /\ hilo'.archivo = f /\ hilo'.paso = "escribir"
         /\ hilo'.pendientes # <<>>
         /\ \A i \in 1 .. Len(hilo'.pendientes) :
              /\ i <= Cantidad(lista_fcb[f])
              /\ hilo'.pendientes[i].bloque = BloquesDeDatos(disco, lista_fcb[f])[i]
         /\ UNCHANGED <<bitmap, disco, fcb_disco, lista_fcb, caidas>>
<1>1. /\ hilo = Libre /\ f \in DOMAIN lista_fcb /\ k + n <= Cantidad(lista_fcb[f])
      /\ UNCHANGED <<bitmap, disco, fcb_disco, lista_fcb, caidas>>
  BY DEF escribir_archivo
<1>2. PICK x \in FCB : x = lista_fcb[f]
  BY <1>1, Tipado
<1>3. PICK c \in Nat : c = Cantidad(x) /\ c > 0 /\ k + n <= c
  <2>1. Cantidad(x) \in Nat /\ k \in Nat /\ BLOCK_COUNT \in Nat
    BY CantidadEs, Tamanios DEF FCB
  <2> QED BY <1>1, <1>2, <2>1
<1>4. disco \in [Bloques -> Contenidos]
  BY Tipado
<1>5. PICK s : s = BloquesDeDatos(disco, x)
  OBVIOUS
<1>6. s \in Seq(Punteros) /\ Len(s) = c /\ s[1] = x.directo
  BY <1>3, <1>4, <1>5, BloquesDeDatosEs
<1>7. PICK p : p = leer_bloque_indirecto(disco, x)
  OBVIOUS
<1> DEFINE leido(i) == IF i = 1 \/ Len(p) > 1 THEN Leer(disco, s[i]).dato ELSE "BASURA"
<1>8. PICK o \in Seq(Punteros) : /\ o = IF n > 1 THEN s ELSE <<x.directo>>
                                 /\ Len(o) \in 1 .. c
                                 /\ \A i \in 1 .. Len(o) : o[i] = s[i]
  <2>1. CASE n > 1
    BY <1>3, <1>6, <2>1
  <2>2. CASE ~ (n > 1)
    <3>1. PICK b \in Punteros : b = x.directo
      BY DEF FCB
    <3>2. PICK u \in Seq(Punteros) : u = <<b>> /\ Len(u) = 1 /\ u[1] = b
      <4>1. <<b>> \in Seq(Punteros) /\ Len(<<b>>) = 1 /\ <<b>>[1] = b
        OBVIOUS
      <4> QED BY <4>1
    <3>3. u = IF n > 1 THEN s ELSE <<x.directo>>
      BY <2>2, <3>1, <3>2
    <3>4. Len(u) \in 1 .. c /\ \A i \in 1 .. Len(u) : u[i] = s[i]
      BY <1>3, <1>6, <3>1, <3>2
    <3> QED BY <3>3, <3>4
  <2> QED BY <2>1, <2>2
<1>9. \A i \in 1 .. Len(o) : (IF i \in k + 1 .. k + n THEN v ELSE leido(i)) \in Datos
  <2>1. v \in Datos /\ "BASURA" \in Datos
    BY DEF Datos
  <2> QED BY <1>4, <2>1, LeerEs
<1>10. PICK q : q = [i \in DOMAIN o |-> [bloque |-> o[i],
                                        dato |-> IF i \in k + 1 .. k + n THEN v ELSE leido(i)]]
  OBVIOUS
<1>11. /\ q \in Seq(Pedidos) /\ Len(q) = Len(o) /\ \A i \in 1 .. Len(o) : q[i].bloque = o[i]
  <2> HIDE DEF leido
  <2>1. DOMAIN o = 1 .. Len(o) /\ Len(o) \in Nat /\ \A i \in 1 .. Len(o) : o[i] \in Punteros
    BY LenProperties, ElementOfSeq
  <2>2. q \in [1 .. Len(o) -> Pedidos]
    BY <1>9, <1>10, <2>1 DEF Pedidos
  <2>3. \A i \in 1 .. Len(o) : q[i].bloque = o[i]
    BY <1>10, <2>1
  <2> QED BY <2>1, <2>2, <2>3
<1>12. hilo' = [Libre EXCEPT !.archivo = f, !.paso = "escribir", !.pendientes = q]
  BY <1>2, <1>5, <1>7, <1>8, <1>10 DEF escribir_archivo, BloquesDeDatos
<1>13. /\ hilo' \in Hilos /\ hilo'.archivo = f /\ hilo'.paso = "escribir"
       /\ hilo'.pendientes = q
  <2> HIDE DEF leido
  <2> QED BY <1>11, <1>12, LibreHilo DEF Hilos, Pasos
<1>14. q # <<>>
  <2>1. Len(q) >= 1 /\ Len(<<>>) = 0
    BY <1>8, <1>11
  <2> QED BY <2>1
<1>15. \A i \in 1 .. Len(q) : i <= c /\ q[i].bloque = s[i]
  BY <1>3, <1>8, <1>11
<1> QED BY <1>1, <1>2, <1>3, <1>5, <1>13, <1>14, <1>15

\* An F_WRITE goes past the end of a file only if it is empty.
LEMMA DentroOVacio ==
  ASSUME Basico, NEW f \in ARCHIVOS, NEW k \in Bloques, NEW n \in 1 .. BLOCK_COUNT,
         NEW v \in VALORES, escribir_archivo(f, k, n, v)
  PROVE  \/ k + n <= Cantidad(lista_fcb[f])
         \/ ~ ESCRITURAS_DENTRO /\ k = 0 /\ n = 1
<1>1. k \in Nat /\ n \in Nat /\ n >= 1
  BY Tamanios DEF Bloques
<1> QED BY <1>1 DEF escribir_archivo, BloquesEnMemoria

\* Then it is of one block, the one the FCB has as direct.
LEMMA EscribirVacioEs ==
  ASSUME Basico, NEW f \in ARCHIVOS, NEW v \in VALORES, escribir_archivo(f, 0, 1, v)
  PROVE  /\ hilo = Libre /\ f \in DOMAIN lista_fcb
         /\ hilo' \in Hilos /\ hilo'.archivo = f /\ hilo'.paso = "escribir"
         /\ hilo'.pendientes # <<>>
         /\ UNCHANGED <<bitmap, disco, fcb_disco, lista_fcb, caidas>>
<1>1. /\ hilo = Libre /\ f \in DOMAIN lista_fcb
      /\ UNCHANGED <<bitmap, disco, fcb_disco, lista_fcb, caidas>>
  BY DEF escribir_archivo
<1>2. PICK x \in FCB : x = lista_fcb[f]
  BY <1>1, Tipado
<1>3. PICK p, s : p = leer_bloque_indirecto(disco, x) /\ s = BloquesDeDatos(disco, x)
  OBVIOUS
<1> DEFINE leido(i) == IF i = 1 \/ Len(p) > 1 THEN Leer(disco, s[i]).dato ELSE "BASURA"
<1>4. PICK o \in Seq(Punteros) : /\ o = IF 1 > 1 THEN s ELSE <<x.directo>>
                                 /\ DOMAIN o = {1} /\ o[1] = x.directo
  <2>1. PICK b \in Punteros : b = x.directo
    BY DEF FCB
  <2>2. <<b>> \in Seq(Punteros) /\ DOMAIN <<b>> = {1} /\ <<b>>[1] = b
    OBVIOUS
  <2>3. <<b>> = IF 1 > 1 THEN s ELSE <<x.directo>>
    BY <2>1
  <2> QED BY <2>1, <2>2, <2>3
<1>5. PICK q : q = [i \in DOMAIN o |-> [bloque |-> o[i],
                                       dato |-> IF i \in 0 + 1 .. 0 + 1 THEN v ELSE leido(i)]]
  OBVIOUS
<1>6. q \in Seq(Pedidos) /\ q # <<>>
  <2>1. x.directo \in Punteros
    BY DEF FCB
  <2>2. q = [i \in 1 .. 1 |-> [bloque |-> x.directo, dato |-> v]]
    <3> HIDE DEF leido
    <3> QED BY <1>4, <1>5
  <2>3. PICK r \in Pedidos : r = [bloque |-> x.directo, dato |-> v]
    BY <2>1 DEF Pedidos, Datos
  <2>4. q = [i \in 1 .. 1 |-> r]
    BY <2>2, <2>3
  <2>5. PICK m \in Nat : m = 1
    OBVIOUS
  <2>6. q \in [1 .. m -> Pedidos]
    BY <2>4, <2>5
  <2>7. q \in Seq(Pedidos) /\ Len(q) = m
    BY <2>6
  <2>8. q = <<>> => Len(q) = 0
    OBVIOUS
  <2> QED BY <2>5, <2>7, <2>8
<1>7. hilo' = [Libre EXCEPT !.archivo = f, !.paso = "escribir", !.pendientes = q]
  BY <1>2, <1>3, <1>4, <1>5 DEF escribir_archivo, BloquesDeDatos
<1> HIDE DEF leido
<1> QED BY <1>1, <1>6, <1>7, LibreHilo DEF Hilos, Pasos

LEMMA EscribirBloqueEs ==
  ASSUME Basico, NEW f \in ARCHIVOS, EscribirBloque(f)
  PROVE  /\ f \in DOMAIN lista_fcb /\ hilo.archivo = f /\ hilo.paso = "escribir"
         /\ Len(hilo.pendientes) \in Nat \ {0}
         /\ Dato(hilo.pendientes[1].dato) \in Contenidos
         /\ escribir_en_bloque(hilo.pendientes[1].bloque, Dato(hilo.pendientes[1].dato))
         /\ \/ hilo' = Libre
            \/ /\ hilo' \in Hilos /\ hilo'.archivo = f /\ hilo'.paso = "escribir"
               /\ hilo'.pendientes # <<>>
               /\ Len(hilo'.pendientes) = Len(hilo.pendientes) - 1
               /\ \A i \in 1 .. Len(hilo'.pendientes) :
                    hilo'.pendientes[i] = hilo.pendientes[i + 1]
         /\ UNCHANGED <<bitmap, fcb_disco, lista_fcb, caidas>>
<1>1. /\ hilo.archivo = f /\ hilo.paso = "escribir"
      /\ escribir_en_bloque(Head(hilo.pendientes).bloque, Dato(Head(hilo.pendientes).dato))
      /\ hilo' = IF Len(hilo.pendientes) = 1 THEN Libre
                 ELSE [hilo EXCEPT !.pendientes = Tail(@)]
      /\ UNCHANGED <<bitmap, fcb_disco, lista_fcb, caidas>>
  BY DEF EscribirBloque
<1>2. hilo \in Hilos /\ f \in DOMAIN lista_fcb /\ hilo.pendientes # <<>>
  BY <1>1, Tipado, LibreHilo
<1>3. PICK q \in Seq(Pedidos) : q = hilo.pendientes /\ q # <<>>
  BY <1>2 DEF Hilos
<1>4. /\ Head(q) = q[1] /\ q[1] \in Pedidos /\ Len(q) \in Nat \ {0}
      /\ Tail(q) \in Seq(Pedidos) /\ Len(Tail(q)) = Len(q) - 1
      /\ \A i \in 1 .. Len(q) - 1 : Tail(q)[i] = q[i + 1]
  <2>1. Len(q) \in Nat /\ Len(q) # 0
    <3>1. Len(q) \in Nat
      OBVIOUS
    <3>2. Len(q) = 0 => q = <<>>
      OBVIOUS
    <3> QED BY <1>3, <3>1, <3>2
  <2>2. q[1] \in Pedidos
    BY <2>1, ElementOfSeq
  <2> QED BY <2>1, <2>2
<1>5. Dato(q[1].dato) \in Contenidos
  BY <1>4, DatoEs DEF Pedidos
<1>6. ASSUME Len(q) # 1
      PROVE  /\ hilo' \in Hilos /\ hilo'.archivo = f /\ hilo'.paso = "escribir"
             /\ hilo'.pendientes # <<>>
             /\ Len(hilo'.pendientes) = Len(q) - 1
             /\ \A i \in 1 .. Len(hilo'.pendientes) : hilo'.pendientes[i] = q[i + 1]
  <2>1. PICK t \in Seq(Pedidos) : t = Tail(q)
    BY <1>4
  <2>2. hilo' = [hilo EXCEPT !.pendientes = t]
    BY <1>1, <1>3, <1>6, <2>1
  <2>3. /\ hilo' \in Hilos /\ hilo'.archivo = f /\ hilo'.paso = "escribir"
        /\ hilo'.pendientes = t
    BY <1>1, <1>2, <2>2 DEF Hilos
  <2>4. Len(t) = Len(q) - 1 /\ \A i \in 1 .. Len(t) : t[i] = q[i + 1]
    BY <1>4, <2>1
  <2>5. t # <<>>
    <3>1. Len(t) # 0 /\ Len(<<>>) = 0
      BY <1>4, <1>6, <2>4
    <3> QED BY <3>1
  <2> QED BY <2>3, <2>4, <2>5
<1>7. Len(q) = 1 => hilo' = Libre
  BY <1>1, <1>3
<1> QED BY <1>1, <1>2, <1>3, <1>4, <1>5, <1>6, <1>7

-----------------------------------------------------------------------------
(* Types and the disk: every action *)

\* Only the file of the request in progress can be out of date on the disk.
LEMMA UnoCambia ==
  ASSUME Basico, NEW f \in DOMAIN lista_fcb, NEW y \in FCB,
         lista_fcb' = [lista_fcb EXCEPT ![f] = y]
  PROVE  /\ DOMAIN lista_fcb' = DOMAIN lista_fcb
         /\ lista_fcb' \in [DOMAIN lista_fcb -> FCB]
         /\ lista_fcb'[f] = y
         /\ \A g \in DOMAIN lista_fcb \ {f} : lista_fcb'[g] = lista_fcb[g]
BY Tipado

\* A step of a file that grows.
LEMMA PasoCrecer ==
  ASSUME Basico, NEW f \in DOMAIN lista_fcb, hilo.archivo = f,
         hilo.paso \in {"aumentar", "datos", "sincronizar", "actualizar"},
         bitmap' \subseteq Bloques, disco' \in [Bloques -> Contenidos],
         DOMAIN lista_fcb' = DOMAIN lista_fcb, lista_fcb' \in [DOMAIN lista_fcb -> FCB],
         \A g \in DOMAIN lista_fcb \ {f} : lista_fcb'[g] = lista_fcb[g],
         hilo' \in Hilos, hilo'.archivo = f,
         hilo'.paso \in {"aumentar", "datos", "sincronizar", "actualizar"},
         hilo'.paso \in {"aumentar", "datos"} => hilo'.faltan > 0,
         UNCHANGED <<fcb_disco, caidas>>
  PROVE  Basico'
<1>1. TypeOK'
  BY Tipado DEF TypeOK, Contenidos, Hilos, Pasos, Pedidos
<1>2. EnDisco'
  BY DEF Basico, EnDisco, Creciendo
<1>3. Alcanza'
  BY DEF Alcanza
<1> QED BY <1>1, <1>2, <1>3 DEF Basico

\* The request is over, or it is one that changes no FCB in memory alone.
LEMMA PasoIgualado ==
  ASSUME Basico, bitmap' \subseteq Bloques, disco' \in [Bloques -> Contenidos],
         DOMAIN lista_fcb' \subseteq ARCHIVOS, lista_fcb' \in [DOMAIN lista_fcb' -> FCB],
         hilo' \in Hilos, hilo' # Libre => hilo'.archivo \in DOMAIN lista_fcb',
         hilo'.paso \in {"libre", "disminuir", "escribir"},
         hilo'.paso = "escribir" => hilo'.pendientes # <<>>, Alcanza',
         fcb_disco' = lista_fcb', caidas' \in 0 .. CAIDAS
  PROVE  Basico'
<1>1. TypeOK'
  BY DEF TypeOK, Contenidos, Hilos, Pasos, Pedidos
<1>2. EnDisco'
  BY DEF EnDisco
<1> QED BY <1>1, <1>2 DEF Basico

LEMMA Igualados ==
  ASSUME Basico, hilo.paso \notin {"aumentar", "datos", "sincronizar", "actualizar"}
  PROVE  fcb_disco = lista_fcb
<1>1. \A f \in DOMAIN lista_fcb : fcb_disco[f] = lista_fcb[f]
  BY DEF Basico, EnDisco, Creciendo
<1> QED BY <1>1, Tipado

LEMMA PasoBasicoCrear ==
  ASSUME Basico, NEW f \in ARCHIVOS, crear_archivo(f)
  PROVE  Basico'
<1>1. PICK x \in FCB : x = [tamanio |-> 0, directo |-> 0, indirecto |-> NULO]
  BY Tamanios DEF FCB
<1>2. /\ hilo = Libre /\ UNCHANGED <<bitmap, disco, hilo, caidas>>
      /\ lista_fcb' = [g \in DOMAIN lista_fcb \cup {f} |-> IF g = f THEN x ELSE lista_fcb[g]]
      /\ fcb_disco' = [g \in DOMAIN fcb_disco \cup {f} |-> IF g = f THEN x ELSE fcb_disco[g]]
  BY <1>1 DEF crear_archivo
<1>3. fcb_disco' = lista_fcb'
  BY <1>2, LibreHilo, Igualados
<1>4. DOMAIN lista_fcb' \subseteq ARCHIVOS /\ lista_fcb' \in [DOMAIN lista_fcb' -> FCB]
  BY <1>2, Tipado
<1>5. Alcanza' /\ hilo' = Libre /\ bitmap' \subseteq Bloques /\ caidas' \in 0 .. CAIDAS
      /\ disco' \in [Bloques -> Contenidos]
  BY <1>2, LibreHilo, Tipado DEF Alcanza
<1> QED BY <1>3, <1>4, <1>5, LibreHilo, PasoIgualado

LEMMA PasoBasicoTruncar ==
  ASSUME Basico, NEW f \in ARCHIVOS, NEW nuevo \in Nat, truncar_archivo(f, nuevo)
  PROVE  Basico'
<1>1. CASE Agrandar(f, nuevo)
  <2>1. PICK n \in Nat :
          /\ hilo = Libre /\ f \in DOMAIN lista_fcb
          /\ hilo' \in Hilos /\ hilo'.archivo = f /\ hilo'.faltan = n
          /\ hilo'.paso = IF n = 0 THEN "actualizar" ELSE "aumentar"
          /\ UNCHANGED <<bitmap, disco, fcb_disco, lista_fcb, caidas>>
    BY <1>1, AgrandarEs
  <2>2. TypeOK'
    BY <2>1, Tipado DEF TypeOK, Contenidos, Hilos, Pasos, Pedidos
  <2>3. EnDisco' /\ Alcanza'
    BY <2>1, LibreHilo, Igualados, Tipado DEF EnDisco, Alcanza
  <2> QED BY <2>2, <2>3 DEF Basico
<1>2. CASE Achicar(f, nuevo)
  <2>1. PICK n \in Nat :
          /\ hilo = Libre /\ f \in DOMAIN lista_fcb
          /\ n * BLOCK_SIZE <= lista_fcb[f].tamanio - nuevo
          /\ hilo' \in Hilos /\ hilo'.archivo = f /\ hilo'.faltan = n
          /\ hilo'.paso = "disminuir"
          /\ UNCHANGED <<bitmap, disco, fcb_disco, lista_fcb, caidas>>
    BY <1>2, AchicarEs
  <2>2. Alcanza'
    <3>1. PICK t \in Nat, b \in Nat : t = lista_fcb[f].tamanio /\ b = n * BLOCK_SIZE
      BY <2>1, Tamanios, Tipado DEF FCB
    <3>2. b <= t
      BY <2>1, <3>1
    <3> QED BY <2>1, <3>1, <3>2 DEF Alcanza
  <2>3. fcb_disco' = lista_fcb'
    BY <2>1, LibreHilo, Igualados
  <2> QED BY <2>1, <2>2, <2>3, Tipado, PasoIgualado
<1> QED BY <1>1, <1>2, TruncarEs

LEMMA PasoBasicoDirecto ==
  ASSUME Basico, NEW f \in ARCHIVOS, CrearBloqueDirecto(f)
  PROVE  Basico'
<1>1. /\ f \in DOMAIN lista_fcb /\ hilo.archivo = f /\ hilo.paso = "aumentar"
      /\ hilo.faltan > 0 /\ crear_bloque(obtener_bloque_libre)
      /\ hilo' \in Hilos /\ hilo'.archivo = f /\ hilo'.faltan = hilo.faltan - 1
      /\ hilo'.paso = IF hilo.faltan = 1 THEN "actualizar" ELSE "aumentar"
      /\ UNCHANGED <<fcb_disco, caidas>>
  BY CrearDirectoEs
<1>2. PICK y \in FCB : lista_fcb' = [lista_fcb EXCEPT ![f] = y]
  BY CrearDirectoEs DEF Crecido
<1>3. bitmap' \subseteq Bloques /\ disco' \in [Bloques -> Contenidos]
  BY <1>1, Tipado, CrearEs
<1>4. hilo'.paso = "aumentar" => hilo'.faltan > 0
  BY <1>1, Tipado DEF Hilos
<1> QED BY <1>1, <1>2, <1>3, <1>4, UnoCambia, PasoCrecer

LEMMA PasoBasicoIndirecto ==
  ASSUME Basico, NEW f \in ARCHIVOS, CrearBloqueIndirecto(f)
  PROVE  Basico'
<1>1. /\ f \in DOMAIN lista_fcb /\ hilo.archivo = f /\ hilo.paso = "aumentar"
      /\ hilo.faltan > 0 /\ crear_bloque(obtener_bloque_libre)
      /\ hilo' \in Hilos /\ hilo'.archivo = f /\ hilo'.faltan = hilo.faltan
      /\ hilo'.paso = "datos"
      /\ UNCHANGED <<fcb_disco, caidas>>
  BY CrearIndirectoEs
<1>2. PICK y \in FCB : lista_fcb' = [lista_fcb EXCEPT ![f] = y]
  BY CrearIndirectoEs
<1>3. bitmap' \subseteq Bloques /\ disco' \in [Bloques -> Contenidos]
  BY <1>1, Tipado, CrearEs
<1> QED BY <1>1, <1>2, <1>3, UnoCambia, PasoCrecer

LEMMA PasoBasicoDatos ==
  ASSUME Basico, NEW f \in ARCHIVOS, CrearBloqueDeDatos(f)
  PROVE  Basico'
<1>1. /\ f \in DOMAIN lista_fcb /\ hilo.archivo = f /\ hilo.paso \in {"aumentar", "datos"}
      /\ hilo.faltan > 0 /\ crear_bloque(obtener_bloque_libre)
      /\ hilo' \in Hilos /\ hilo'.archivo = f /\ hilo'.faltan = hilo.faltan - 1
      /\ hilo'.paso = IF hilo.faltan = 1 THEN "sincronizar" ELSE "aumentar"
      /\ UNCHANGED <<fcb_disco, caidas>>
  BY CrearDatosEs
<1>2. PICK y \in FCB : lista_fcb' = [lista_fcb EXCEPT ![f] = y]
  BY CrearDatosEs DEF Crecido
<1>3. bitmap' \subseteq Bloques /\ disco' \in [Bloques -> Contenidos]
  BY <1>1, Tipado, CrearEs
<1>4. hilo'.paso = "aumentar" => hilo'.faltan > 0
  BY <1>1, Tipado DEF Hilos
<1> QED BY <1>1, <1>2, <1>3, <1>4, UnoCambia, PasoCrecer

LEMMA PasoBasicoSincronizar ==
  ASSUME Basico, NEW f \in ARCHIVOS, sincronizar_punteros_bloque_indirecto(f)
  PROVE  Basico'
<1>1. disco' \in [Bloques -> Contenidos]
  BY Tipado, SincronizarEs, EscribirEs
<1>2. bitmap' \subseteq Bloques /\ lista_fcb' = lista_fcb
  BY Tipado, SincronizarEs
<1> QED BY <1>1, <1>2, Tipado, SincronizarEs, PasoCrecer

LEMMA PasoBasicoTerminar ==
  ASSUME Basico, NEW f \in ARCHIVOS, TerminarAumento(f)
  PROVE  Basico'
<1>1. /\ f \in DOMAIN lista_fcb /\ hilo.archivo = f /\ hilo.paso = "actualizar"
      /\ fcb_disco' = [fcb_disco EXCEPT ![f] = lista_fcb[f]]
      /\ hilo' = Libre
      /\ UNCHANGED <<bitmap, disco, lista_fcb, caidas>>
  BY TerminarEs
<1>2. fcb_disco' = lista_fcb'
  <2>1. \A g \in DOMAIN lista_fcb \ {f} : fcb_disco[g] = lista_fcb[g]
    BY <1>1 DEF Basico, EnDisco, Creciendo
  <2> QED BY <1>1, <2>1, Tipado
<1>3. Alcanza'
  BY <1>1, LibreHilo DEF Alcanza
<1> QED BY <1>1, <1>2, <1>3, LibreHilo, Tipado, PasoIgualado

LEMMA PasoBasicoDisminuir ==
  ASSUME Basico, NEW f \in ARCHIVOS, disminuir_tamanio_archivo(f)
  PROVE  Basico'
<1>1. /\ f \in DOMAIN lista_fcb /\ hilo.archivo = f /\ hilo.paso = "disminuir"
      /\ bitmap' \subseteq bitmap /\ hilo' = Libre /\ UNCHANGED <<disco, caidas>>
  BY DisminuirEs
<1>2. PICK y \in FCB : /\ lista_fcb' = [lista_fcb EXCEPT ![f] = y]
                       /\ fcb_disco' = [fcb_disco EXCEPT ![f] = y]
  BY DisminuirEs
<1>3. fcb_disco' = lista_fcb'
  BY <1>1, <1>2, Igualados
<1>4. Alcanza'
  BY <1>1, LibreHilo DEF Alcanza
<1>5. DOMAIN lista_fcb' \subseteq ARCHIVOS /\ lista_fcb' \in [DOMAIN lista_fcb' -> FCB]
  BY <1>1, <1>2, Tipado, UnoCambia
<1> QED BY <1>1, <1>3, <1>4, <1>5, LibreHilo, Tipado, PasoIgualado

LEMMA PasoBasicoPedir ==
  ASSUME Basico, NEW f \in ARCHIVOS, NEW k \in Bloques, NEW n \in 1 .. BLOCK_COUNT,
         NEW v \in VALORES, escribir_archivo(f, k, n, v)
  PROVE  Basico'
<1>1. /\ hilo = Libre /\ f \in DOMAIN lista_fcb
      /\ hilo' \in Hilos /\ hilo'.archivo = f /\ hilo'.paso = "escribir"
      /\ hilo'.pendientes # <<>>
      /\ UNCHANGED <<bitmap, disco, fcb_disco, lista_fcb, caidas>>
  BY DentroOVacio, EscribirArchivoEs, EscribirVacioEs
<1>2. fcb_disco' = lista_fcb'
  BY <1>1, LibreHilo, Igualados
<1>3. Alcanza'
  BY <1>1 DEF Alcanza
<1> QED BY <1>1, <1>2, <1>3, Tipado, PasoIgualado

LEMMA PasoBasicoEscribir ==
  ASSUME Basico, NEW f \in ARCHIVOS, EscribirBloque(f)
  PROVE  Basico'
<1>1. /\ f \in DOMAIN lista_fcb /\ hilo.archivo = f /\ hilo.paso = "escribir"
      /\ \/ hilo' = Libre
         \/ /\ hilo' \in Hilos /\ hilo'.archivo = f /\ hilo'.paso = "escribir"
            /\ hilo'.pendientes # <<>>
      /\ UNCHANGED <<bitmap, fcb_disco, lista_fcb, caidas>>
  BY EscribirBloqueEs
<1>2. disco' \in [Bloques -> Contenidos]
  BY Tipado, EscribirBloqueEs, EscribirEs
<1>3. fcb_disco' = lista_fcb'
  BY <1>1, Igualados
<1>4. Alcanza'
  BY <1>1, LibreHilo DEF Alcanza
<1> QED BY <1>1, <1>2, <1>3, <1>4, LibreHilo, Tipado, PasoIgualado

LEMMA PasoBasicoCaida ==
  ASSUME Basico, iniciar_fs
  PROVE  Basico'
<1>1. /\ caidas < CAIDAS /\ caidas' = caidas + 1 /\ lista_fcb' = fcb_disco
      /\ hilo' = Libre /\ UNCHANGED <<bitmap, disco, fcb_disco>>
  BY DEF iniciar_fs
<1>2. caidas' \in 0 .. CAIDAS
  BY <1>1, Tamanios, Tipado
<1>3. Alcanza'
  BY <1>1, LibreHilo DEF Alcanza
<1> QED BY <1>1, <1>2, <1>3, LibreHilo, Tipado, PasoIgualado

LEMMA PasoBasico == Basico /\ [Next]_vars => Basico'
<1> SUFFICES ASSUME Basico, [Next]_vars PROVE Basico'
  OBVIOUS
<1>1. ASSUME NEW f \in ARCHIVOS, NEW nuevo \in TAMANIOS[f], truncar_archivo(f, nuevo)
      PROVE  Basico'
  <2>1. nuevo \in Nat
    BY ConstantesValidas
  <2> QED BY <1>1, <2>1, PasoBasicoTruncar
<1>2. ASSUME UNCHANGED vars PROVE Basico'
  BY <1>2 DEF Basico, TypeOK, EnDisco, Alcanza, Creciendo, vars
<1> QED BY <1>1, <1>2, PasoBasicoCrear, PasoBasicoDirecto, PasoBasicoIndirecto,
           PasoBasicoDatos, PasoBasicoSincronizar, PasoBasicoTerminar, PasoBasicoDisminuir,
           PasoBasicoPedir, PasoBasicoEscribir, PasoBasicoCaida DEF Next

LEMMA SiempreBasico == Spec => []Basico
<1>1. Basico /\ [Next]_vars => Basico'
  BY PasoBasico
<1> QED BY <1>1, InicialBasico, PTL DEF Spec

\* The bitmap, the blocks, the FCBs and the request in progress keep their types
\* also on a full disk and after the program is killed in the middle of a request.
THEOREM TipoCorrecto == Spec => []TypeOK
<1>1. Basico => TypeOK
  BY DEF Basico
<1> QED BY <1>1, SiempreBasico, PTL

\* F_CREATE and F_TRUNCATE answer after actualizar_fcb: no FCB in memory differs
\* from the one on the disk when there is no request in progress.
THEOREM RespuestasPersistidas == Spec => []RespuestaPersistida
<1>1. Basico => RespuestaPersistida
  BY LibreHilo, Igualados DEF RespuestaPersistida
<1> QED BY <1>1, SiempreBasico, PTL

-----------------------------------------------------------------------------
(* Whose each block is *)

\* The pointers of a file: while it grows, those the program has in memory.
PunterosDe(f) ==
  IF Creciendo(f) THEN hilo.punteros ELSE leer_bloque_indirecto(disco, lista_fcb[f])

\* The places of a file where it has a block: 0 is the indirect block, i > 0 the
\* i-th block of its data.
Lugares(f) ==
  {i \in Nat : IF i = 0 THEN lista_fcb[f].indirecto # NULO ELSE i <= Cantidad(lista_fcb[f])}

Bloque(f, i) ==
  IF i = 0 THEN lista_fcb[f].indirecto
  ELSE IF i = 1 THEN lista_fcb[f].directo ELSE PunterosDe(f)[i - 1]

SinCompartir ==
  \A f, g \in DOMAIN lista_fcb : \A i \in Lugares(f), j \in Lugares(g) :
    Bloque(f, i) = Bloque(g, j) => f = g /\ i = j

Reservados == \A f \in DOMAIN lista_fcb : \A i \in Lugares(f) : Bloque(f, i) \in bitmap

BienFormado(x) == x.tamanio = Cantidad(x) * BLOCK_SIZE

\* A file has whole blocks, an indirect block from the second on, and a pointer
\* for each block after the first.
Forma(f) ==
  LET c == Cantidad(lista_fcb[f]) IN
  /\ BienFormado(lista_fcb[f]) /\ BienFormado(fcb_disco[f])
  /\ lista_fcb[f].indirecto # NULO <=> c > 1 \/ (hilo.archivo = f /\ hilo.paso = "datos")
  /\ Creciendo(f) => Len(hilo.punteros) = IF c = 0 THEN 0 ELSE c - 1

\* What a restart finds of a file, the first blocks of what it has.
Guardado(f) ==
  LET x == lista_fcb[f]
      y == fcb_disco[f]
  IN  /\ Cantidad(y) <= Cantidad(x)
      /\ Cantidad(y) > 0 => y.directo = x.directo
      /\ y.indirecto = IF Cantidad(y) > 1 THEN x.indirecto ELSE NULO
      /\ \A i \in 1 .. Cantidad(y) - 1 : Puntero(disco[y.indirecto], i) = PunterosDe(f)[i]

Archivos == \A f \in DOMAIN lista_fcb : Forma(f) /\ Guardado(f)

\* What is left to do of the request in progress.
Etapas ==
  LET f == hilo.archivo
      x == lista_fcb[f]
  IN  /\ hilo.paso = "aumentar" => Necesita(x, hilo.faltan) <= Cardinality(Libres)
      /\ hilo.paso = "datos" => Cantidad(x) = 1 /\ hilo.faltan <= Cardinality(Libres)
      /\ hilo.paso = "sincronizar" => Cantidad(x) > 1
      /\ hilo.paso \in {"actualizar", "disminuir"} =>
           \A i \in 1 .. Cantidad(x) - 1 :
             hilo.punteros[i] = leer_bloque_indirecto(disco, x)[i]
      /\ hilo.paso = "disminuir" => Len(hilo.punteros) = IF Cantidad(x) = 0 THEN 0
                                                         ELSE Cantidad(x) - 1
      /\ hilo.paso = "escribir" =>
           \A i \in 1 .. Len(hilo.pendientes) :
             \E j \in Lugares(f) : j > 0 /\ hilo.pendientes[i].bloque = Bloque(f, j)

\* Programs ask for no more than there is, nor write to an empty file, whose direct
\* block may be another's, and block 0, whose number is that of no indirect block,
\* is the first one of a file that is never emptied.
Primero == CHOOSE f \in DOMAIN FCBS : FCBS[f].directo = 0
Hipotesis ==
  /\ HAY_LUGAR /\ ESCRITURAS_DENTRO
  /\ Primero \in DOMAIN FCBS /\ FCBS[Primero].directo = 0
  /\ \A n \in TAMANIOS[Primero] : n >= BLOCK_SIZE

CeroOcupado ==
  /\ Primero \in DOMAIN lista_fcb
  /\ Cantidad(fcb_disco[Primero]) > 0 /\ lista_fcb[Primero].directo = 0
  /\ hilo.archivo = Primero /\ hilo.paso = "disminuir" =>
       hilo.faltan < Cantidad(lista_fcb[Primero])

\* The blocks a restart does not find are still in zeros.
EnCero ==
  \A f \in DOMAIN lista_fcb :
    \A i \in Cantidad(fcb_disco[f]) + 1 .. Cantidad(lista_fcb[f]) :
      disco[Bloque(f, i)].dato = "CERO"

Invariante ==
  Basico /\ Hipotesis /\ SinCompartir /\ Reservados /\ Archivos /\ Etapas /\ CeroOcupado
  /\ EnCero

LEMMA CantidadMas ==
  ASSUME NEW x \in FCB, NEW y \in FCB, y.tamanio = x.tamanio + BLOCK_SIZE
  PROVE  Cantidad(y) = Cantidad(x) + 1 /\ (BienFormado(x) => BienFormado(y))
<1>1. PICK t \in Nat, d \in Nat \ {0} : t = x.tamanio /\ d = BLOCK_SIZE
  BY Tamanios DEF FCB
<1>2. (t + d) \div d = (t \div d) + 1
  OBVIOUS
<1>3. PICK c \in Nat : c = t \div d
  OBVIOUS
<1>4. Cantidad(x) = c /\ Cantidad(y) = c + 1
  BY <1>1, <1>2, <1>3 DEF Cantidad
<1>5. c * d + d = (c + 1) * d
  OBVIOUS
<1> QED BY <1>1, <1>4, <1>5 DEF BienFormado

LEMMA CantidadIgual ==
  ASSUME NEW x, NEW y, y.tamanio = x.tamanio
  PROVE  Cantidad(y) = Cantidad(x) /\ (BienFormado(x) => BienFormado(y))
BY DEF Cantidad, BienFormado

LEMMA CantidadMenos ==
  ASSUME NEW x \in FCB, NEW y \in FCB, NEW n \in Nat, BienFormado(x),
         n * BLOCK_SIZE <= x.tamanio, y.tamanio = x.tamanio - n * BLOCK_SIZE
  PROVE  n <= Cantidad(x) /\ Cantidad(y) = Cantidad(x) - n /\ BienFormado(y)
<1>1. PICK c \in Nat, d \in Nat \ {0} :
        c = Cantidad(x) /\ d = BLOCK_SIZE /\ x.tamanio = c * d
  BY Tamanios, CantidadEs DEF FCB, BienFormado
<1>2. n <= c
  <2>1. n * d <= c * d
    BY <1>1
  <2> QED BY <2>1
<1>3. PICK m \in Nat : m = c - n
  BY <1>2
<1>4. c * d - n * d = m * d
  BY <1>2, <1>3
<1>5. (m * d) \div d = m
  OBVIOUS
<1>6. Cantidad(y) = m
  BY <1>1, <1>4, <1>5 DEF Cantidad
<1> QED BY <1>1, <1>2, <1>3, <1>4, <1>6 DEF BienFormado

\* The size of a file is zero when it has no blocks.
LEMMA CantidadCero ==
  ASSUME NEW x \in FCB, BienFormado(x)
  PROVE  x.tamanio > 0 <=> Cantidad(x) > 0
<1>1. PICK c \in Nat, d \in Nat \ {0} : c = Cantidad(x) /\ d = BLOCK_SIZE
  BY Tamanios, CantidadEs DEF FCB
<1>2. c > 0 => c * d > 0
  OBVIOUS
<1>3. c = 0 => c * d = 0
  OBVIOUS
<1>4. x.tamanio = c * d
  BY <1>1 DEF BienFormado
<1> QED BY <1>1, <1>2, <1>3, <1>4

\* The pointers in a block that nothing writes are the same.
LEMMA LeerIgual ==
  ASSUME NEW d \in [Bloques -> Contenidos], NEW e \in [Bloques -> Contenidos], NEW x \in FCB,
         Cantidad(x) > 1 => x.indirecto \in Bloques /\ e[x.indirecto] = d[x.indirecto]
  PROVE  leer_bloque_indirecto(e, x) = leer_bloque_indirecto(d, x)
<1>1. PICK c \in Nat : c = Cantidad(x)
  BY CantidadEs DEF FCB
<1>2. c > 1 => Leer(e, x.indirecto) = Leer(d, x.indirecto)
  BY <1>1, LeerEs
<1>3. /\ leer_bloque_indirecto(e, x) = [i \in 1 .. c - 1 |-> Puntero(Leer(e, x.indirecto), i)]
      /\ leer_bloque_indirecto(d, x) = [i \in 1 .. c - 1 |-> Puntero(Leer(d, x.indirecto), i)]
  BY <1>1 DEF leer_bloque_indirecto
<1>4. c <= 1 => 1 .. c - 1 = {}
  OBVIOUS
<1> QED BY <1>1, <1>2, <1>3, <1>4

LEMMA LeerDirecto ==
  ASSUME NEW d \in [Bloques -> Contenidos], NEW x \in FCB, x.indirecto \in Bloques,
         NEW i \in 1 .. Cantidad(x) - 1
  PROVE  leer_bloque_indirecto(d, x)[i] = Puntero(d[x.indirecto], i)
BY IndirectoEs, LeerEs

\* The facts about a file that the steps need.
LEMMA Archivo ==
  ASSUME Invariante, NEW f \in DOMAIN lista_fcb
  PROVE  /\ lista_fcb[f] \in FCB /\ fcb_disco[f] \in FCB
         /\ Cantidad(lista_fcb[f]) \in Nat /\ Cantidad(fcb_disco[f]) \in Nat
         /\ Forma(f) /\ Guardado(f)
         /\ PunterosDe(f) \in Seq(Punteros)
         /\ Len(PunterosDe(f)) = IF Cantidad(lista_fcb[f]) = 0 THEN 0
                                 ELSE Cantidad(lista_fcb[f]) - 1
         /\ \A i \in Lugares(f) : /\ i \in Nat /\ Bloque(f, i) \in bitmap
                                  /\ Bloque(f, i) \in Bloques
         /\ 0 \in Lugares(f) <=> lista_fcb[f].indirecto # NULO
         /\ \A i \in Nat \ {0} : i \in Lugares(f) <=> i <= Cantidad(lista_fcb[f])
<1>1. /\ lista_fcb[f] \in FCB /\ fcb_disco[f] \in FCB /\ hilo \in Hilos
      /\ disco \in [Bloques -> Contenidos] /\ bitmap \subseteq Bloques
  BY Tipado DEF Invariante
<1>2. Cantidad(lista_fcb[f]) \in Nat /\ Cantidad(fcb_disco[f]) \in Nat
  BY <1>1, CantidadEs DEF FCB
<1>3. Forma(f) /\ Guardado(f)
  BY DEF Invariante, Archivos
<1>4. /\ PunterosDe(f) \in Seq(Punteros)
      /\ Len(PunterosDe(f)) = IF Cantidad(lista_fcb[f]) = 0 THEN 0
                              ELSE Cantidad(lista_fcb[f]) - 1
  <2>1. CASE Creciendo(f)
    BY <1>1, <1>3, <2>1 DEF PunterosDe, Forma, Hilos
  <2>2. CASE ~ Creciendo(f)
    BY <1>1, <2>2, IndirectoEs DEF PunterosDe
  <2> QED BY <2>1, <2>2
<1>5. \A i \in Lugares(f) : i \in Nat /\ Bloque(f, i) \in bitmap /\ Bloque(f, i) \in Bloques
  BY <1>1 DEF Invariante, Reservados, Lugares
<1>6. 0 \in Lugares(f) <=> lista_fcb[f].indirecto # NULO
  BY DEF Lugares
<1>7. \A i \in Nat \ {0} : i \in Lugares(f) <=> i <= Cantidad(lista_fcb[f])
  BY DEF Lugares
<1> QED BY <1>1, <1>2, <1>3, <1>4, <1>5, <1>6, <1>7

\* A new block is not of any file, nor block 0.
LEMMA BloqueNuevo ==
  ASSUME Invariante, Cardinality(Libres) > 0, NEW b, b = obtener_bloque_libre
  PROVE  b \in Bloques /\ b \notin bitmap /\ b # 0
<1>1. bitmap \subseteq Bloques
  BY Tipado DEF Invariante
<1>2. b \in Bloques /\ b \notin bitmap
  BY <1>1, LibreEs DEF Libres
<1>3. 0 \in bitmap
  <2>1. Primero \in DOMAIN lista_fcb /\ lista_fcb[Primero].directo = 0
        /\ Cantidad(fcb_disco[Primero]) > 0
    BY DEF Invariante, CeroOcupado
  <2>2. 1 <= Cantidad(lista_fcb[Primero])
    BY <2>1, Archivo DEF Guardado
  <2>3. 1 \in Lugares(Primero) /\ Bloque(Primero, 1) = 0
    BY <2>1, <2>2, Archivo DEF Bloque
  <2> QED BY <2>1, <2>3, Archivo
<1> QED BY <1>2, <1>3

\* Taking a free block leaves one free block less.
LEMMA UnoMenos ==
  ASSUME bitmap \subseteq Bloques, NEW b \in Bloques, b \notin bitmap,
         bitmap' = bitmap \cup {b}
  PROVE  Cardinality(Libres') = Cardinality(Libres) - 1
<1>1. Libres' = Libres \ {b} /\ b \in Libres
  BY DEF Libres
<1> QED BY <1>1, LibreEs, FS_RemoveElement

\* Nobody shares a block after a step in which blocks stay where they are, but for
\* one that was free.
LEMMA SiguenSinCompartir ==
  ASSUME Invariante, NEW e,
         \A g \in DOMAIN lista_fcb' : \A i \in Lugares(g)' :
           \/ /\ g \in DOMAIN lista_fcb /\ i \in Lugares(g)
              /\ Bloque(g, i)' = Bloque(g, i) /\ Bloque(g, i) \in bitmap'
           \/ <<g, i>> = e /\ Bloque(g, i)' \notin bitmap /\ Bloque(g, i)' \in bitmap'
  PROVE  SinCompartir' /\ Reservados'
<1>1. Reservados'
  BY DEF Reservados
<1>2. ASSUME NEW f \in DOMAIN lista_fcb', NEW g \in DOMAIN lista_fcb',
             NEW i \in Lugares(f)', NEW j \in Lugares(g)', Bloque(f, i)' = Bloque(g, j)'
      PROVE  f = g /\ i = j
  <2>1. CASE <<f, i>> = e /\ <<g, j>> = e
    BY <2>1
  <2>2. CASE <<f, i>> = e /\ Bloque(f, i)' \notin bitmap /\ <<g, j>> # e
    BY <1>2, <2>2 DEF Invariante, Reservados
  <2>3. CASE <<g, j>> = e /\ Bloque(g, j)' \notin bitmap /\ <<f, i>> # e
    BY <1>2, <2>3 DEF Invariante, Reservados
  <2>4. CASE /\ f \in DOMAIN lista_fcb /\ i \in Lugares(f) /\ Bloque(f, i)' = Bloque(f, i)
             /\ g \in DOMAIN lista_fcb /\ j \in Lugares(g) /\ Bloque(g, j)' = Bloque(g, j)
    BY <1>2, <2>4 DEF Invariante, SinCompartir
  <2> QED BY <2>1, <2>2, <2>3, <2>4 DEF Invariante, Reservados
<1>3. SinCompartir'
  BY <1>2 DEF SinCompartir
<1> QED BY <1>1, <1>3

LEMMA InicialInvariante == Hipotesis /\ Init => Invariante
<1> SUFFICES ASSUME Hipotesis, Init PROVE Invariante
  OBVIOUS
<1>1. Basico
  BY InicialBasico
<1>2. /\ lista_fcb = FCBS /\ fcb_disco = FCBS /\ hilo = Libre
      /\ bitmap = {FCBS[f].directo : f \in DOMAIN FCBS}
  BY DEF Init
<1>3. ASSUME NEW f \in DOMAIN FCBS
      PROVE  /\ Cantidad(FCBS[f]) = 1 /\ BienFormado(FCBS[f]) /\ FCBS[f].indirecto = NULO
             /\ Lugares(f) = {1} /\ Bloque(f, 1) = FCBS[f].directo
  <2>1. FCBS[f].tamanio = BLOCK_SIZE /\ FCBS[f].indirecto = NULO
    BY ConstantesValidas, Tamanios
  <2>2. PICK d \in Nat \ {0} : d = BLOCK_SIZE
    BY Tamanios
  <2>3. (1 * d) \div d = 1 /\ 1 * d = d
    OBVIOUS
  <2>4. Cantidad(FCBS[f]) = 1 /\ BienFormado(FCBS[f])
    BY <2>1, <2>2, <2>3 DEF Cantidad, BienFormado
  <2>5. Lugares(f) = {1}
    BY <1>2, <2>1, <2>4 DEF Lugares
  <2> QED BY <1>2, <2>1, <2>4, <2>5 DEF Bloque
<1>4. SinCompartir
  <2>1. \A f, g \in DOMAIN FCBS : FCBS[f].directo = FCBS[g].directo => f = g
    BY ConstantesValidas
  <2> QED BY <1>2, <1>3, <2>1 DEF SinCompartir
<1>5. Reservados
  BY <1>2, <1>3 DEF Reservados
<1>6. Archivos
  <2>1. ASSUME NEW f \in DOMAIN FCBS PROVE Forma(f) /\ Guardado(f)
    BY <1>2, <1>3, <2>1, LibreHilo DEF Forma, Guardado, Creciendo
  <2> QED BY <1>2, <2>1 DEF Archivos
<1>7. Etapas
  BY <1>2, LibreHilo DEF Etapas
<1>8. CeroOcupado
  BY <1>2, <1>3, LibreHilo DEF Hipotesis, CeroOcupado
<1>9. EnCero
  BY <1>2, <1>3 DEF EnCero
<1> QED BY <1>1, <1>4, <1>5, <1>6, <1>7, <1>8, <1>9 DEF Invariante

\* A file that neither grows nor changes keeps all it had, if nothing writes its
\* indirect block.
LEMMA Quieto ==
  ASSUME Invariante, Basico', NEW g \in DOMAIN lista_fcb,
         g \in DOMAIN lista_fcb', lista_fcb'[g] = lista_fcb[g],
         fcb_disco'[g] = fcb_disco[g], ~ Creciendo(g), ~ Creciendo(g)',
         lista_fcb[g].indirecto # NULO => disco'[lista_fcb[g].indirecto]
                                            = disco[lista_fcb[g].indirecto]
  PROVE  /\ Lugares(g)' = Lugares(g)
         /\ \A i \in Lugares(g) : Bloque(g, i)' = Bloque(g, i)
         /\ leer_bloque_indirecto(disco, lista_fcb[g])' = leer_bloque_indirecto(disco, lista_fcb[g])
         /\ Forma(g)' /\ Guardado(g)'
<1>1. Lugares(g)' = Lugares(g)
  BY DEF Lugares
<1>2. PICK x \in FCB : x = lista_fcb[g] /\ x = fcb_disco[g]
  BY Archivo DEF Invariante, Basico, EnDisco
<1>3. disco \in [Bloques -> Contenidos] /\ disco' \in [Bloques -> Contenidos]
  BY Tipado DEF Invariante, Basico, TypeOK, Contenidos
<1>4. (hilo.archivo = g => hilo.paso # "datos") /\ (hilo'.archivo = g => hilo'.paso # "datos")
  BY DEF Creciendo
<1>5. /\ x.indirecto # NULO <=> Cantidad(x) > 1
      /\ x.indirecto # NULO => x.indirecto \in Bloques
  BY <1>2, <1>4, Archivo DEF Forma, Bloque
<1>6. leer_bloque_indirecto(disco', x) = leer_bloque_indirecto(disco, x)
  BY <1>2, <1>3, <1>5, LeerIgual
<1>7. PunterosDe(g)' = PunterosDe(g)
  BY <1>2, <1>6 DEF PunterosDe
<1>8. \A i \in Lugares(g) : Bloque(g, i)' = Bloque(g, i)
  BY <1>7 DEF Bloque
<1>9. Forma(g)'
  BY <1>2, <1>4, Archivo DEF Forma
<1>10. Guardado(g)'
  BY <1>2, <1>5, <1>7, Archivo DEF Guardado
<1> QED BY <1>1, <1>2, <1>6, <1>8, <1>9, <1>10

\* The blocks of a file that keep their bit stay in their places.
Sigue(g) ==
  /\ g \in DOMAIN lista_fcb'
  /\ \A i \in Lugares(g) :
       Bloque(g, i) \in bitmap' => i \in Lugares(g)' /\ Bloque(g, i)' = Bloque(g, i)

ConDuenio(b) == \E f \in DOMAIN lista_fcb : \E i \in Lugares(f) : Bloque(f, i) = b

\* A step that loses no block: those of a file that keep their bit stay in it, and
\* those that are taken are of a file.
Cuidado ==
  /\ \A g \in DOMAIN lista_fcb : Sigue(g)
  /\ \A b \in bitmap' \ bitmap : ConDuenio(b)'

\* A step in which no file grows.
LEMMA PasoQuieto ==
  ASSUME Invariante, Basico', lista_fcb' = lista_fcb, fcb_disco' = fcb_disco,
         bitmap' = bitmap,
         \A g \in DOMAIN lista_fcb : ~ Creciendo(g) /\ ~ Creciendo(g)',
         \A g \in DOMAIN lista_fcb :
           lista_fcb[g].indirecto # NULO => disco'[lista_fcb[g].indirecto]
                                              = disco[lista_fcb[g].indirecto],
         Etapas',
         hilo'.archivo = Primero /\ hilo'.paso = "disminuir" =>
           hilo'.faltan < Cantidad(lista_fcb[Primero])
  PROVE  Invariante' /\ Cuidado
<1>1. \A g \in DOMAIN lista_fcb :
        /\ Lugares(g)' = Lugares(g)
        /\ \A i \in Lugares(g) : Bloque(g, i)' = Bloque(g, i)
        /\ Forma(g)' /\ Guardado(g)'
  BY Quieto
<1>2. SinCompartir' /\ Reservados'
  BY <1>1, SiguenSinCompartir DEF Invariante, Reservados
<1>3. Archivos'
  BY <1>1 DEF Archivos
<1>4. CeroOcupado'
  BY DEF Invariante, CeroOcupado
<1>5. EnCero'
  <2>1. \A g \in DOMAIN lista_fcb : fcb_disco[g] = lista_fcb[g]
    BY DEF Invariante, Basico, EnDisco
  <2>2. \A g \in DOMAIN lista_fcb : Cantidad(lista_fcb[g]) \in Nat
    BY Archivo
  <2> QED BY <2>1, <2>2 DEF EnCero
<1>6. Cuidado
  BY <1>1 DEF Cuidado, Sigue
<1> QED BY <1>2, <1>3, <1>4, <1>5, <1>6 DEF Invariante, Hipotesis

\* No file grows in the steps of the other requests.
LEMMA NadieCrece ==
  ASSUME hilo.paso \in {"libre", "disminuir", "escribir"}
  PROVE  \A g : ~ Creciendo(g)
BY DEF Creciendo

LEMMA PasoAchicar ==
  ASSUME Invariante, Basico', NEW f \in ARCHIVOS, NEW nuevo \in TAMANIOS[f],
         Achicar(f, nuevo)
  PROVE  Invariante' /\ Cuidado
<1>1. nuevo \in Nat
  BY ConstantesValidas
<1>2. Basico /\ Hipotesis
  BY DEF Invariante
<1>3. PICK n \in Nat :
        /\ hilo = Libre /\ f \in DOMAIN lista_fcb
        /\ n * BLOCK_SIZE <= lista_fcb[f].tamanio - nuevo
        /\ hilo' \in Hilos /\ hilo'.archivo = f /\ hilo'.faltan = n
        /\ hilo'.paso = "disminuir"
        /\ hilo'.punteros = leer_bloque_indirecto(disco, lista_fcb[f])
        /\ UNCHANGED <<bitmap, disco, fcb_disco, lista_fcb, caidas>>
  BY <1>1, <1>2, AchicarEs
<1>4. PICK x \in FCB : x = lista_fcb[f] /\ BienFormado(x)
  BY <1>3, Archivo DEF Forma
<1>5. Etapas'
  <2>1. disco \in [Bloques -> Contenidos]
    BY <1>2, Tipado
  <2>2. PICK p : p = leer_bloque_indirecto(disco, x)
    OBVIOUS
  <2>3. Len(p) = IF Cantidad(x) = 0 THEN 0 ELSE Cantidad(x) - 1
    BY <2>1, <2>2, IndirectoEs
  <2>4. hilo'.punteros = p /\ leer_bloque_indirecto(disco', lista_fcb'[f]) = p
    BY <1>3, <1>4, <2>2
  <2>5. lista_fcb'[f] = x
    BY <1>3, <1>4
  <2> QED BY <1>3, <2>3, <2>4, <2>5 DEF Etapas
<1>6. ASSUME f = Primero PROVE n < Cantidad(x)
  <2>1. nuevo >= BLOCK_SIZE
    BY <1>2, <1>6 DEF Hipotesis
  <2>2. PICK c \in Nat, d \in Nat \ {0} : c = Cantidad(x) /\ d = BLOCK_SIZE
    BY <1>4, CantidadEs, Tamanios DEF FCB
  <2>3. n * d <= c * d - nuevo /\ nuevo >= d
    BY <1>3, <1>4, <2>1, <2>2 DEF BienFormado
  <2>4. n >= c => n * d >= c * d
    OBVIOUS
  <2>5. n * d \in Nat /\ c * d \in Nat
    OBVIOUS
  <2>6. ~ (n >= c)
    BY <1>1, <2>3, <2>4, <2>5
  <2> QED BY <2>2, <2>6
<1>7. \A g \in DOMAIN lista_fcb : ~ Creciendo(g) /\ ~ Creciendo(g)'
  BY <1>3, LibreHilo DEF Creciendo
<1> QED BY <1>3, <1>4, <1>5, <1>6, <1>7, PasoQuieto

LEMMA PasoPedir ==
  ASSUME Invariante, Basico', NEW f \in ARCHIVOS, NEW k \in Bloques,
         NEW n \in 1 .. BLOCK_COUNT, NEW v \in VALORES, escribir_archivo(f, k, n, v)
  PROVE  Invariante' /\ Cuidado
<1>1. Basico
  BY DEF Invariante
<1>2. /\ hilo = Libre /\ f \in DOMAIN lista_fcb
      /\ hilo' \in Hilos /\ hilo'.archivo = f /\ hilo'.paso = "escribir"
      /\ \A i \in 1 .. Len(hilo'.pendientes) :
           /\ i <= Cantidad(lista_fcb[f])
           /\ hilo'.pendientes[i].bloque = BloquesDeDatos(disco, lista_fcb[f])[i]
      /\ UNCHANGED <<bitmap, disco, fcb_disco, lista_fcb, caidas>>
  <2>1. ESCRITURAS_DENTRO
    BY DEF Invariante, Hipotesis
  <2> QED BY <1>1, <2>1, DentroOVacio, EscribirArchivoEs
<1>3. \A g \in DOMAIN lista_fcb : ~ Creciendo(g) /\ ~ Creciendo(g)'
  BY <1>2, LibreHilo DEF Creciendo
<1>4. ASSUME NEW i \in 1 .. Len(hilo'.pendientes)
      PROVE  i \in Lugares(f)' /\ i > 0 /\ hilo'.pendientes[i].bloque = Bloque(f, i)'
  <2>1. PICK x \in FCB : x = lista_fcb[f]
    BY <1>2, Archivo
  <2>2. PICK c \in Nat : c = Cantidad(x)
    BY <2>1, CantidadEs DEF FCB
  <2>3. i \in Nat /\ i > 0 /\ i <= c
    BY <1>2, <2>1, <2>2
  <2>4. i \in Lugares(f)'
    BY <1>2, <2>1, <2>2, <2>3 DEF Lugares
  <2>5. disco \in [Bloques -> Contenidos]
    BY <1>1, Tipado
  <2>6. PICK s : s = BloquesDeDatos(disco, x)
    OBVIOUS
  <2>7. s[1] = x.directo /\ \A j \in 2 .. c : s[j] = leer_bloque_indirecto(disco, x)[j - 1]
    BY <2>2, <2>5, <2>6, BloquesDeDatosEs
  <2>8. hilo'.pendientes[i].bloque = s[i]
    BY <1>2, <2>1, <2>6
  <2>9. CASE i = 1
    <3>1. Bloque(f, i)' = lista_fcb'[f].directo
      BY <2>9 DEF Bloque
    <3>2. s[i] = x.directo
      BY <2>7, <2>9
    <3> QED BY <1>2, <2>1, <2>3, <2>4, <2>8, <3>1, <3>2
  <2>10. CASE i # 1
    <3>1. Bloque(f, i)' = leer_bloque_indirecto(disco, x)[i - 1]
      BY <1>2, <1>3, <2>1, <2>3, <2>10 DEF Bloque, PunterosDe
    <3> QED BY <2>3, <2>4, <2>7, <2>8, <2>10, <3>1
  <2> QED BY <2>9, <2>10
<1>5. Etapas'
  BY <1>2, <1>4 DEF Etapas
<1> QED BY <1>2, <1>3, <1>5, PasoQuieto

LEMMA PasoEscribir ==
  ASSUME Invariante, Basico', NEW f \in ARCHIVOS, EscribirBloque(f)
  PROVE  Invariante' /\ Cuidado
<1>1. Basico
  BY DEF Invariante
<1>2. /\ f \in DOMAIN lista_fcb /\ hilo.archivo = f /\ hilo.paso = "escribir"
      /\ Len(hilo.pendientes) \in Nat \ {0}
      /\ UNCHANGED <<bitmap, fcb_disco, lista_fcb, caidas>>
  BY <1>1, EscribirBloqueEs
<1>3. PICK c \in Contenidos : escribir_en_bloque(hilo.pendientes[1].bloque, c)
  BY <1>1, EscribirBloqueEs
<1>4. PICK j \in Lugares(f) : j > 0 /\ hilo.pendientes[1].bloque = Bloque(f, j)
  BY <1>2 DEF Invariante, Etapas
<1>5. ASSUME NEW g \in DOMAIN lista_fcb, lista_fcb[g].indirecto # NULO
      PROVE  disco'[lista_fcb[g].indirecto] = disco[lista_fcb[g].indirecto]
  <2>1. 0 \in Lugares(g) /\ Bloque(g, 0) = lista_fcb[g].indirecto
    BY <1>5, Archivo DEF Bloque
  <2>2. Bloque(g, 0) # Bloque(f, j) /\ Bloque(g, 0) \in Bloques
    BY <1>2, <1>4, <2>1, Archivo DEF Invariante, SinCompartir
  <2> QED BY <1>1, <1>3, <1>4, <2>1, <2>2, Tipado, EscribirEs
<1>6. hilo'.paso \in {"libre", "escribir"}
  BY <1>1, LibreHilo, EscribirBloqueEs
<1>7. \A g \in DOMAIN lista_fcb : ~ Creciendo(g) /\ ~ Creciendo(g)'
  BY <1>2, <1>6 DEF Creciendo
<1>8. Etapas'
  <2>1. CASE hilo' = Libre
    BY <2>1, LibreHilo DEF Etapas
  <2>2. CASE hilo' # Libre
    <3>1. /\ hilo'.archivo = f /\ hilo'.paso = "escribir" /\ hilo' \in Hilos
          /\ Len(hilo'.pendientes) = Len(hilo.pendientes) - 1
          /\ \A i \in 1 .. Len(hilo'.pendientes) :
               hilo'.pendientes[i] = hilo.pendientes[i + 1]
      BY <1>1, <2>2, EscribirBloqueEs
    <3>2. ASSUME NEW i \in 1 .. Len(hilo'.pendientes)
          PROVE  \E q \in Lugares(f)' : q > 0 /\ hilo'.pendientes[i].bloque = Bloque(f, q)'
      <4>1. i + 1 \in 1 .. Len(hilo.pendientes)
        BY <1>2, <3>1
      <4>2. PICK q \in Lugares(f) :
              q > 0 /\ hilo.pendientes[i + 1].bloque = Bloque(f, q)
        BY <1>2, <4>1 DEF Invariante, Etapas
      <4>3. fcb_disco[f] = lista_fcb[f] /\ ~ Creciendo(f) /\ ~ Creciendo(f)'
        BY <1>2, <1>7 DEF Invariante, Basico, EnDisco
      <4>4. Lugares(f)' = Lugares(f) /\ Bloque(f, q)' = Bloque(f, q)
        BY <1>2, <1>5, <4>2, <4>3, Quieto
      <4> QED BY <3>1, <3>2, <4>2, <4>4
    <3> QED BY <3>1, <3>2 DEF Etapas
  <2> QED BY <2>1, <2>2
<1> QED BY <1>2, <1>5, <1>6, <1>7, <1>8, PasoQuieto

\* What a step on file f leaves as it was of the others; where the blocks of f are
\* after it; and that those the disk does not know of are zeros.
ElRestoIgual(f) ==
  /\ f \in DOMAIN lista_fcb' /\ DOMAIN lista_fcb' = DOMAIN lista_fcb \cup {f}
  /\ \A g \in DOMAIN lista_fcb \ {f} :
       /\ lista_fcb'[g] = lista_fcb[g] /\ fcb_disco'[g] = fcb_disco[g]
       /\ ~ Creciendo(g) /\ ~ Creciendo(g)'
       /\ lista_fcb[g].indirecto # NULO => disco'[lista_fcb[g].indirecto]
                                            = disco[lista_fcb[g].indirecto]
       /\ \A i \in Lugares(g) : Bloque(g, i) \in bitmap'
LugaresNuevos(f, nuevo) ==
  \A i \in Lugares(f)' :
    \/ /\ f \in DOMAIN lista_fcb /\ i \in Lugares(f)
       /\ Bloque(f, i)' = Bloque(f, i) /\ Bloque(f, i) \in bitmap'
    \/ i = nuevo /\ Bloque(f, i)' \notin bitmap /\ Bloque(f, i)' \in bitmap'
NuevosEnCero(f) ==
  \A i \in Cantidad(fcb_disco'[f]) + 1 .. Cantidad(lista_fcb'[f]) :
    disco'[Bloque(f, i)'].dato = "CERO"

\* A step of the request of one file: the other files keep what they had.
LEMMA PasoDeUno ==
  ASSUME Invariante, Basico', NEW f, ElRestoIgual(f), NEW nuevo, LugaresNuevos(f, nuevo),
         Forma(f)', Guardado(f)', Etapas', NuevosEnCero(f),
         f = Primero => Cantidad(fcb_disco'[f]) > 0 /\ lista_fcb'[f].directo = 0,
         hilo'.paso # "disminuir"
  PROVE  Invariante' /\ \A g \in DOMAIN lista_fcb \ {f} : Sigue(g)
<1> USE DEF ElRestoIgual, LugaresNuevos, NuevosEnCero
<1>1. ASSUME NEW g \in DOMAIN lista_fcb', g # f
      PROVE  /\ g \in DOMAIN lista_fcb /\ lista_fcb'[g] = lista_fcb[g]
             /\ fcb_disco'[g] = fcb_disco[g] /\ fcb_disco[g] = lista_fcb[g]
             /\ Lugares(g)' = Lugares(g)
             /\ \A i \in Lugares(g) : Bloque(g, i)' = Bloque(g, i) /\ Bloque(g, i) \in bitmap'
             /\ Forma(g)' /\ Guardado(g)'
  <2>1. g \in DOMAIN lista_fcb
    BY <1>1
  <2>2. fcb_disco[g] = lista_fcb[g]
    BY <1>1, <2>1 DEF Invariante, Basico, EnDisco
  <2>3. /\ Lugares(g)' = Lugares(g)
        /\ \A i \in Lugares(g) : Bloque(g, i)' = Bloque(g, i)
        /\ Forma(g)' /\ Guardado(g)'
    BY <1>1, <2>1, Quieto
  <2> QED BY <1>1, <2>1, <2>2, <2>3
<1>2. SinCompartir' /\ Reservados'
  <2>1. PICK e : e = <<f, nuevo>>
    OBVIOUS
  <2>2. ASSUME NEW g \in DOMAIN lista_fcb', NEW i \in Lugares(g)'
        PROVE  \/ /\ g \in DOMAIN lista_fcb /\ i \in Lugares(g)
                  /\ Bloque(g, i)' = Bloque(g, i) /\ Bloque(g, i) \in bitmap'
               \/ <<g, i>> = e /\ Bloque(g, i)' \notin bitmap /\ Bloque(g, i)' \in bitmap'
    BY <1>1, <2>1, <2>2
  <2> QED BY <2>2, SiguenSinCompartir
<1>3. Archivos'
  BY <1>1 DEF Archivos
<1>4. CeroOcupado'
  <2>1. /\ Primero \in DOMAIN lista_fcb
        /\ Cantidad(fcb_disco[Primero]) > 0 /\ lista_fcb[Primero].directo = 0
    BY DEF Invariante, CeroOcupado
  <2>2. Primero \in DOMAIN lista_fcb'
    BY <2>1
  <2>3. Cantidad(fcb_disco'[Primero]) > 0 /\ lista_fcb'[Primero].directo = 0
    BY <1>1, <2>1, <2>2
  <2> QED BY <2>2, <2>3 DEF CeroOcupado
<1>5. EnCero'
  <2>1. ASSUME NEW g \in DOMAIN lista_fcb', g # f,
               NEW i \in Cantidad(fcb_disco'[g]) + 1 .. Cantidad(lista_fcb'[g])
        PROVE  FALSE
    <3>1. Cantidad(lista_fcb[g]) \in Nat
      BY <1>1, <2>1, Archivo
    <3>2. fcb_disco'[g] = lista_fcb[g] /\ lista_fcb'[g] = lista_fcb[g]
      BY <1>1, <2>1
    <3> QED BY <2>1, <3>1, <3>2
  <2> QED BY <2>1 DEF EnCero
<1>6. \A g \in DOMAIN lista_fcb \ {f} : Sigue(g)
  BY <1>1 DEF Sigue
<1> QED BY <1>2, <1>3, <1>4, <1>5, <1>6 DEF Invariante, Hipotesis

LEMMA PasoCrear ==
  ASSUME Invariante, Basico', NEW f \in ARCHIVOS, crear_archivo(f)
  PROVE  Invariante' /\ Cuidado
<1>1. PICK x \in FCB : /\ x = [tamanio |-> 0, directo |-> 0, indirecto |-> NULO]
                       /\ x.tamanio = 0 /\ x.indirecto = NULO
  <2>1. PICK x : x = [tamanio |-> 0, directo |-> 0, indirecto |-> NULO]
    OBVIOUS
  <2>2. x \in FCB /\ x.tamanio = 0 /\ x.indirecto = NULO
    BY <2>1, Tamanios DEF FCB
  <2> QED BY <2>1, <2>2
<1>2. /\ hilo = Libre /\ f \notin DOMAIN lista_fcb
      /\ UNCHANGED <<bitmap, disco, hilo, caidas>>
      /\ lista_fcb' = [g \in DOMAIN lista_fcb \cup {f} |-> IF g = f THEN x ELSE lista_fcb[g]]
      /\ fcb_disco' = [g \in DOMAIN fcb_disco \cup {f} |-> IF g = f THEN x ELSE fcb_disco[g]]
  BY <1>1 DEF crear_archivo
<1>3. DOMAIN fcb_disco = DOMAIN lista_fcb
  BY DEF Invariante, Basico, EnDisco
<1>4. lista_fcb'[f] = x /\ fcb_disco'[f] = x
  BY <1>2
<1>5. Cantidad(x) = 0 /\ BienFormado(x)
  <2>1. PICK d \in Nat \ {0} : d = BLOCK_SIZE
    BY Tamanios
  <2>2. 0 \div d = 0 /\ 0 * d = 0
    OBVIOUS
  <2> QED BY <1>1, <2>1, <2>2 DEF Cantidad, BienFormado
<1>6. \A g : ~ Creciendo(g) /\ ~ Creciendo(g)'
  BY <1>2, LibreHilo DEF Creciendo
<1>7. Lugares(f)' = {}
  BY <1>1, <1>4, <1>5 DEF Lugares
<1>8. Forma(f)' /\ Guardado(f)'
  BY <1>1, <1>2, <1>4, <1>5, <1>6, LibreHilo DEF Forma, Guardado
<1>9. Etapas'
  BY <1>2, LibreHilo DEF Etapas
<1>10. f # Primero
  BY <1>2 DEF Invariante, CeroOcupado
<1>11. \A g \in DOMAIN lista_fcb : \A i \in Lugares(g) : Bloque(g, i) \in bitmap'
  BY <1>2 DEF Invariante, Reservados
<1>12. 1 .. 0 = {} /\ 0 + 1 = 1
  OBVIOUS
<1>13. Cantidad(fcb_disco'[f]) + 1 .. Cantidad(lista_fcb'[f]) = {}
  BY <1>4, <1>5, <1>12
<1>14. hilo'.paso # "disminuir"
  BY <1>2, LibreHilo
<1>15. \A g \in DOMAIN lista_fcb \ {f} :
         lista_fcb'[g] = lista_fcb[g] /\ fcb_disco'[g] = fcb_disco[g]
  BY <1>2, <1>3
<1>16. f \in DOMAIN lista_fcb' /\ DOMAIN lista_fcb' = DOMAIN lista_fcb \cup {f}
  BY <1>2
<1>17. Invariante' /\ \A g \in DOMAIN lista_fcb \ {f} : Sigue(g)
  <2>1. ElRestoIgual(f)
    BY <1>2, <1>6, <1>11, <1>15 DEF ElRestoIgual
  <2>2. LugaresNuevos(f, 0)
    BY <1>7 DEF LugaresNuevos
  <2>3. NuevosEnCero(f)
    BY <1>13 DEF NuevosEnCero
  <2> QED BY <1>8, <1>9, <1>10, <1>14, <2>1, <2>2, <2>3, PasoDeUno
<1> QED BY <1>2, <1>17 DEF Cuidado


LEMMA PasoAgrandar ==
  ASSUME Invariante, Basico', NEW f \in ARCHIVOS, NEW nuevo \in Nat, Agrandar(f, nuevo)
  PROVE  Invariante' /\ Cuidado
<1>1. Basico /\ HAY_LUGAR
  BY DEF Invariante, Hipotesis
<1>2. PICK n \in Nat :
        /\ hilo = Libre /\ f \in DOMAIN lista_fcb
        /\ Necesita(lista_fcb[f], n) <= Cardinality(Libres)
        /\ hilo' \in Hilos /\ hilo'.archivo = f /\ hilo'.faltan = n
        /\ hilo'.paso = IF n = 0 THEN "actualizar" ELSE "aumentar"
        /\ hilo'.punteros = IF lista_fcb[f].indirecto = NULO THEN <<>>
                            ELSE leer_bloque_indirecto(disco, lista_fcb[f])
        /\ UNCHANGED <<bitmap, disco, fcb_disco, lista_fcb, caidas>>
  BY <1>1, AgrandarEs
<1>3. PICK x \in FCB : x = lista_fcb[f] /\ x = fcb_disco[f]
  BY <1>1, <1>2, LibreHilo, Igualados, Archivo
<1>4. PICK c \in Nat : c = Cantidad(x)
  BY <1>3, CantidadEs DEF FCB
<1>5. PICK p \in Seq(Punteros) : p = leer_bloque_indirecto(disco, x)
  BY <1>1, Tipado, IndirectoEs
<1>6. Len(p) = IF c = 0 THEN 0 ELSE c - 1
  BY <1>1, <1>4, <1>5, Tipado, IndirectoEs
<1>7. x.indirecto # NULO <=> c > 1
  BY <1>2, <1>3, <1>4, LibreHilo, Archivo DEF Forma
<1>8. hilo'.punteros = p
  <2>1. CASE x.indirecto = NULO
    <3>1. Len(p) = 0
      BY <1>6, <1>7, <2>1
    <3>2. p = <<>>
      BY <3>1
    <3> QED BY <1>2, <1>3, <2>1, <3>2
  <2>2. CASE x.indirecto # NULO
    BY <1>2, <1>3, <1>5, <2>2
  <2> QED BY <2>1, <2>2
<1>9. ~ Creciendo(f) /\ Creciendo(f)'
  BY <1>2, LibreHilo DEF Creciendo
<1>10. PunterosDe(f) = p /\ PunterosDe(f)' = p
  BY <1>3, <1>5, <1>8, <1>9 DEF PunterosDe
<1>11. Lugares(f)' = Lugares(f)
  BY <1>2 DEF Lugares
<1>12. \A i : Bloque(f, i)' = Bloque(f, i)
  BY <1>2, <1>10 DEF Bloque
<1>13. Forma(f)'
  <2>1. BienFormado(x)
    BY <1>2, <1>3, Archivo DEF Forma
  <2> QED BY <1>2, <1>3, <1>4, <1>6, <1>7, <1>8, <2>1 DEF Forma
<1>14. Guardado(f)'
  <2>1. Guardado(f)
    BY <1>2, Archivo
  <2> QED BY <1>2, <1>10, <2>1 DEF Guardado
<1>15. Etapas'
  <2>1. n # 0 => Necesita(lista_fcb'[f], n) <= Cardinality(Libres')
    BY <1>2 DEF Libres
  <2>2. leer_bloque_indirecto(disco', lista_fcb'[f]) = p
    BY <1>2, <1>3, <1>5
  <2> QED BY <1>2, <1>8, <2>1, <2>2 DEF Etapas
<1>16. \A g \in DOMAIN lista_fcb \ {f} : ~ Creciendo(g) /\ ~ Creciendo(g)'
  BY <1>2, LibreHilo DEF Creciendo
<1>17. f = Primero => Cantidad(fcb_disco'[f]) > 0 /\ lista_fcb'[f].directo = 0
  BY <1>2 DEF Invariante, CeroOcupado
<1>18. hilo'.paso # "disminuir"
  BY <1>2
<1>19. \A g \in DOMAIN lista_fcb : \A i \in Lugares(g) : Bloque(g, i) \in bitmap'
  BY <1>2 DEF Invariante, Reservados
<1>20. Cantidad(fcb_disco'[f]) + 1 .. Cantidad(lista_fcb'[f]) = {}
  BY <1>2, <1>3, <1>4
<1>21. Invariante' /\ \A g \in DOMAIN lista_fcb \ {f} : Sigue(g)
  <2>1. ElRestoIgual(f)
    BY <1>2, <1>16, <1>19 DEF ElRestoIgual
  <2>2. LugaresNuevos(f, 0)
    BY <1>2, <1>11, <1>12, <1>19 DEF LugaresNuevos
  <2>3. NuevosEnCero(f)
    BY <1>20 DEF NuevosEnCero
  <2> QED BY <1>13, <1>14, <1>15, <1>17, <1>18, <2>1, <2>2, <2>3, PasoDeUno
<1>22. Sigue(f)
  BY <1>2, <1>11, <1>12 DEF Sigue
<1> QED BY <1>2, <1>21, <1>22 DEF Cuidado


\* Taking a free block touches no block that has an owner.
LEMMA BloquesAlCrear ==
  ASSUME Invariante, NEW b \in Bloques, b \notin bitmap, crear_bloque(b),
         NEW g \in DOMAIN lista_fcb, NEW i \in Lugares(g)
  PROVE  /\ Bloque(g, i) \in bitmap' /\ Bloque(g, i) # b
         /\ disco'[Bloque(g, i)] = disco[Bloque(g, i)]
<1>1. disco \in [Bloques -> Contenidos] /\ bitmap \subseteq Bloques
  BY Tipado DEF Invariante
<1>2. Bloque(g, i) \in bitmap /\ Bloque(g, i) \in Bloques
  BY Archivo
<1> QED BY <1>1, <1>2, CrearEs

\* What a step that takes a block for file f does to the other files.
LEMMA OtrosAlCrear ==
  ASSUME Invariante, NEW f \in DOMAIN lista_fcb, NEW b \in Bloques, b \notin bitmap,
         crear_bloque(b), hilo.archivo = f, hilo'.archivo = f,
         NEW y \in FCB, lista_fcb' = [lista_fcb EXCEPT ![f] = y], UNCHANGED fcb_disco
  PROVE  /\ DOMAIN lista_fcb' = DOMAIN lista_fcb \cup {f} /\ f \in DOMAIN lista_fcb'
         /\ lista_fcb'[f] = y
         /\ \A g \in DOMAIN lista_fcb \ {f} :
              /\ lista_fcb'[g] = lista_fcb[g] /\ fcb_disco'[g] = fcb_disco[g]
              /\ ~ Creciendo(g) /\ ~ Creciendo(g)'
              /\ lista_fcb[g].indirecto # NULO => disco'[lista_fcb[g].indirecto]
                                                   = disco[lista_fcb[g].indirecto]
         /\ \A g \in DOMAIN lista_fcb : \A i \in Lugares(g) :
              /\ Bloque(g, i) \in bitmap' /\ Bloque(g, i) # b
              /\ disco'[Bloque(g, i)] = disco[Bloque(g, i)]
         /\ b \in bitmap' /\ disco'[b].dato = "CERO"
         /\ Cardinality(Libres') = Cardinality(Libres) - 1
<1>1. Basico
  BY DEF Invariante
<1>2. /\ disco \in [Bloques -> Contenidos] /\ bitmap \subseteq Bloques
  BY <1>1, Tipado
<1>3. /\ \A e \in Bloques : disco'[e] = IF e = b THEN BloqueCero ELSE disco[e]
      /\ bitmap' = bitmap \cup {b}
  BY <1>2, CrearEs
<1>4. /\ lista_fcb'[f] = y /\ DOMAIN lista_fcb' = DOMAIN lista_fcb
      /\ \A g \in DOMAIN lista_fcb \ {f} : lista_fcb'[g] = lista_fcb[g]
  BY <1>1, UnoCambia
<1>5. ASSUME NEW g \in DOMAIN lista_fcb, NEW i \in Lugares(g)
      PROVE  /\ Bloque(g, i) \in bitmap' /\ Bloque(g, i) # b
             /\ disco'[Bloque(g, i)] = disco[Bloque(g, i)]
  BY <1>5, BloquesAlCrear
<1>6. ASSUME NEW g \in DOMAIN lista_fcb, lista_fcb[g].indirecto # NULO
      PROVE  disco'[lista_fcb[g].indirecto] = disco[lista_fcb[g].indirecto]
  <2>1. 0 \in Lugares(g) /\ Bloque(g, 0) = lista_fcb[g].indirecto
    BY <1>6, Archivo DEF Bloque
  <2> QED BY <1>5, <2>1
<1>7. \A g \in DOMAIN lista_fcb \ {f} : ~ Creciendo(g) /\ ~ Creciendo(g)'
  BY DEF Creciendo
<1>8. Cardinality(Libres') = Cardinality(Libres) - 1
  BY <1>2, <1>3, UnoMenos
<1>9. b \in bitmap' /\ disco'[b].dato = "CERO"
  BY <1>3, CeroEs
<1> QED BY <1>4, <1>5, <1>6, <1>7, <1>8, <1>9

LEMMA PasoDirecto ==
  ASSUME Invariante, Basico', NEW f \in ARCHIVOS, CrearBloqueDirecto(f)
  PROVE  Invariante' /\ Cuidado
<1>1. Basico
  BY DEF Invariante
<1>2. /\ f \in DOMAIN lista_fcb /\ hilo.archivo = f /\ hilo.paso = "aumentar"
      /\ hilo.faltan > 0 /\ Cantidad(lista_fcb[f]) = 0
      /\ crear_bloque(obtener_bloque_libre)
      /\ hilo' \in Hilos /\ hilo'.archivo = f /\ hilo'.faltan = hilo.faltan - 1
      /\ hilo'.paso = IF hilo.faltan = 1 THEN "actualizar" ELSE "aumentar"
      /\ hilo'.punteros = hilo.punteros /\ UNCHANGED fcb_disco
  BY <1>1, CrearDirectoEs
<1>3. PICK y \in FCB : /\ Crecido(lista_fcb[f], y) /\ y.directo = obtener_bloque_libre
                       /\ lista_fcb' = [lista_fcb EXCEPT ![f] = y]
  BY <1>1, CrearDirectoEs DEF Crecido
<1>4. PICK x \in FCB : x = lista_fcb[f] /\ Cantidad(x) = 0 /\ BienFormado(x)
  BY <1>2, Archivo DEF Forma
<1>5. PICK n \in Nat : n = hilo.faltan /\ n > 0
  BY <1>1, <1>2, Tipado DEF Hilos
<1>6. x.indirecto = NULO /\ Len(hilo.punteros) = 0
  BY <1>2, <1>4, Archivo DEF Forma, Creciendo
<1>7. PICK r \in Nat : r = Cardinality(Libres)
  BY <1>1, Tipado, LibreEs
<1>8. (IF n > 1 THEN n + 1 ELSE n) <= r
  <2>1. Necesita(x, n) <= r
    BY <1>2, <1>4, <1>5, <1>7 DEF Invariante, Etapas
  <2> QED BY <1>4, <1>5, <1>6, <2>1 DEF Necesita
<1>9. PICK b \in Bloques : b = obtener_bloque_libre /\ b \notin bitmap /\ b # 0
  BY <1>5, <1>7, <1>8, BloqueNuevo
<1>10. Cantidad(y) = 1 /\ BienFormado(y) /\ y.indirecto = NULO
  BY <1>3, <1>4, <1>6, CantidadMas DEF Crecido
<1>11. lista_fcb'[f] = y /\ Cardinality(Libres') = r - 1 /\ b \in bitmap'
       /\ disco'[b].dato = "CERO"
  BY ZenonT(40), <1>2, <1>3, <1>7, <1>9, OtrosAlCrear
<1>12. Lugares(f)' = {1} /\ Bloque(f, 1)' = b
  BY <1>3, <1>9, <1>10, <1>11 DEF Lugares, Bloque
<1>13. PICK z \in FCB : z = fcb_disco[f] /\ Cantidad(z) = 0 /\ BienFormado(z)
                        /\ z.indirecto = NULO
  <2>1. Cantidad(fcb_disco[f]) \in Nat /\ Cantidad(fcb_disco[f]) <= 0 /\ fcb_disco[f] \in FCB
    BY <1>2, <1>4, Archivo DEF Guardado
  <2> QED BY <1>2, <2>1, Archivo DEF Guardado, Forma
<1>14. fcb_disco'[f] = z
  BY <1>2, <1>13
<1>15. Forma(f)'
  BY <1>2, <1>6, <1>10, <1>11, <1>13, <1>14 DEF Forma
<1>16. Guardado(f)'
  BY <1>10, <1>11, <1>13, <1>14 DEF Guardado
<1>17. Etapas'
  <2>1. CASE n = 1
    BY <1>2, <1>5, <1>10, <1>11, <2>1 DEF Etapas
  <2>2. CASE n > 1
    <3>1. Necesita(y, n - 1) = n
      BY <1>10, <2>2 DEF Necesita
    <3>2. n <= r - 1
      BY <1>8, <2>2
    <3> QED BY <1>2, <1>5, <1>11, <2>2, <3>1, <3>2 DEF Etapas
  <2> QED BY <1>5, <2>1, <2>2
<1>18. f # Primero
  BY <1>13 DEF Invariante, CeroOcupado
<1>19. \A i \in Cantidad(fcb_disco'[f]) + 1 .. Cantidad(lista_fcb'[f]) :
         disco'[Bloque(f, i)'].dato = "CERO"
  <2>1. \A i \in 0 + 1 .. 1 : i = 1
    OBVIOUS
  <2> QED BY <1>10, <1>11, <1>12, <1>13, <1>14, <2>1
<1>20. hilo'.paso # "disminuir"
  BY <1>2
<1>21. /\ DOMAIN lista_fcb' = DOMAIN lista_fcb \cup {f} /\ f \in DOMAIN lista_fcb'
       /\ \A g \in DOMAIN lista_fcb \ {f} :
            /\ lista_fcb'[g] = lista_fcb[g] /\ fcb_disco'[g] = fcb_disco[g]
            /\ ~ Creciendo(g) /\ ~ Creciendo(g)'
            /\ lista_fcb[g].indirecto # NULO => disco'[lista_fcb[g].indirecto]
                                                 = disco[lista_fcb[g].indirecto]
       /\ \A g \in DOMAIN lista_fcb : \A i \in Lugares(g) : Bloque(g, i) \in bitmap'
  BY <1>2, <1>3, <1>9, OtrosAlCrear
<1>22. Invariante' /\ \A g \in DOMAIN lista_fcb \ {f} : Sigue(g)
  <2>1. ElRestoIgual(f)
    BY <1>21 DEF ElRestoIgual
  <2>2. LugaresNuevos(f, 1)
    BY <1>9, <1>11, <1>12 DEF LugaresNuevos
  <2>3. NuevosEnCero(f)
    BY <1>19 DEF NuevosEnCero
  <2> QED BY <1>15, <1>16, <1>17, <1>18, <1>20, <2>1, <2>2, <2>3, PasoDeUno
<1>23. Lugares(f) = {}
  BY <1>4, <1>6 DEF Lugares
<1>24. Sigue(f)
  BY <1>21, <1>23 DEF Sigue
<1>25. ConDuenio(b)'
  BY <1>12, <1>21 DEF ConDuenio
<1>26. bitmap' \ bitmap = {b}
  BY <1>1, <1>2, <1>9, Tipado, CrearEs
<1> QED BY <1>22, <1>24, <1>25, <1>26 DEF Cuidado


LEMMA PasoIndirecto ==
  ASSUME Invariante, Basico', NEW f \in ARCHIVOS, CrearBloqueIndirecto(f)
  PROVE  Invariante' /\ Cuidado
<1>1. Basico
  BY DEF Invariante
<1>2. /\ f \in DOMAIN lista_fcb /\ hilo.archivo = f /\ hilo.paso = "aumentar"
      /\ hilo.faltan > 0 /\ Cantidad(lista_fcb[f]) > 0 /\ lista_fcb[f].indirecto = NULO
      /\ crear_bloque(obtener_bloque_libre)
      /\ hilo' \in Hilos /\ hilo'.archivo = f /\ hilo'.faltan = hilo.faltan
      /\ hilo'.paso = "datos" /\ hilo'.punteros = <<>> /\ UNCHANGED fcb_disco
  BY <1>1, CrearIndirectoEs
<1>3. PICK y \in FCB : /\ y.tamanio = lista_fcb[f].tamanio
                       /\ y.directo = lista_fcb[f].directo
                       /\ y.indirecto = obtener_bloque_libre
                       /\ lista_fcb' = [lista_fcb EXCEPT ![f] = y]
  BY <1>1, CrearIndirectoEs
<1>4. PICK x \in FCB : x = lista_fcb[f] /\ Cantidad(x) = 1 /\ BienFormado(x)
  <2>1. Cantidad(lista_fcb[f]) \in Nat /\ ~ (Cantidad(lista_fcb[f]) > 1)
        /\ BienFormado(lista_fcb[f]) /\ lista_fcb[f] \in FCB
    BY <1>2, Archivo DEF Forma
  <2> QED BY <1>2, <2>1
<1>5. PICK n \in Nat : n = hilo.faltan /\ n > 0
  BY <1>1, <1>2, Tipado DEF Hilos
<1>6. PICK r \in Nat : r = Cardinality(Libres)
  BY <1>1, Tipado, LibreEs
<1>7. n + 1 <= r
  <2>1. Necesita(x, n) <= r
    BY <1>2, <1>4, <1>5, <1>6 DEF Invariante, Etapas
  <2> QED BY <1>2, <1>4, <1>5, <2>1 DEF Necesita
<1>8. PICK b \in Bloques : /\ b = obtener_bloque_libre /\ b \notin bitmap /\ b # NULO
                          /\ crear_bloque(b)
  <2>1. Cardinality(Libres) > 0
    BY <1>5, <1>6, <1>7
  <2>2. PICK b : b = obtener_bloque_libre
    OBVIOUS
  <2>3. b \in Bloques /\ b \notin bitmap /\ b # 0
    BY <2>1, <2>2, BloqueNuevo
  <2> QED BY <1>2, <2>2, <2>3, Tamanios
<1>9. Cantidad(y) = 1 /\ BienFormado(y)
  BY <1>3, <1>4, CantidadIgual
<1>10. /\ lista_fcb'[f] = y /\ Cardinality(Libres') = r - 1 /\ b \in bitmap'
       /\ \A g \in DOMAIN lista_fcb : \A i \in Lugares(g) :
            /\ Bloque(g, i) \in bitmap' /\ Bloque(g, i) # b
            /\ disco'[Bloque(g, i)] = disco[Bloque(g, i)]
  BY <1>2, <1>3, <1>6, <1>8, OtrosAlCrear
<1>11. Lugares(f) = {1} /\ Lugares(f)' = {0, 1}
  BY <1>2, <1>3, <1>4, <1>8, <1>9, <1>10 DEF Lugares
<1>12. Bloque(f, 0)' = b /\ Bloque(f, 1)' = Bloque(f, 1)
  BY <1>3, <1>4, <1>8, <1>10 DEF Bloque
<1>13. PICK z \in FCB : /\ z = fcb_disco[f] /\ BienFormado(z) /\ z.indirecto = NULO
                        /\ Cantidad(z) \in Nat /\ Cantidad(z) <= 1
                        /\ Cantidad(z) > 0 => z.directo = y.directo
  <2>1. PICK m \in Nat : m = Cantidad(fcb_disco[f])
    BY <1>2, Archivo
  <2>2. /\ m <= 1
        /\ m > 0 => fcb_disco[f].directo = x.directo
        /\ fcb_disco[f].indirecto = IF m > 1 THEN x.indirecto ELSE NULO
    BY <1>2, <1>4, <2>1, Archivo DEF Guardado
  <2>3. BienFormado(fcb_disco[f]) /\ fcb_disco[f] \in FCB
    BY <1>2, Archivo DEF Forma
  <2>4. fcb_disco[f].indirecto = NULO
    BY <2>1, <2>2
  <2> QED BY <1>3, <1>4, <2>1, <2>2, <2>3, <2>4
<1>14. fcb_disco'[f] = z
  BY <1>2, <1>13
<1>15. Forma(f)'
  <2>1. hilo'.paso = "datos" /\ Len(hilo'.punteros) = 0
    BY <1>2
  <2>2. y.indirecto # NULO
    BY <1>3, <1>8
  <2> QED BY <1>2, <1>9, <1>10, <1>13, <1>14, <2>1, <2>2 DEF Forma
<1>16. Guardado(f)'
  BY <1>9, <1>10, <1>13, <1>14 DEF Guardado
<1>17. Etapas'
  BY <1>2, <1>5, <1>7, <1>9, <1>10 DEF Etapas
<1>18. f = Primero => Cantidad(fcb_disco'[f]) > 0 /\ lista_fcb'[f].directo = 0
  BY <1>3, <1>10, <1>13, <1>14 DEF Invariante, CeroOcupado
<1>19. ASSUME NEW i \in Cantidad(fcb_disco'[f]) + 1 .. Cantidad(lista_fcb'[f])
       PROVE  disco'[Bloque(f, i)'].dato = "CERO"
  <2>1. i = 1
    BY <1>9, <1>10, <1>13, <1>14
  <2>2. 1 \in Cantidad(fcb_disco[f]) + 1 .. Cantidad(lista_fcb[f])
    BY <1>4, <1>9, <1>10, <1>13, <1>14, <2>1
  <2>3. disco[Bloque(f, 1)].dato = "CERO"
    BY <1>2, <2>2 DEF Invariante, EnCero
  <2> QED BY <1>2, <1>10, <1>11, <1>12, <2>1, <2>3
<1>20. hilo'.paso # "disminuir"
  BY <1>2
<1>21. /\ DOMAIN lista_fcb' = DOMAIN lista_fcb \cup {f} /\ f \in DOMAIN lista_fcb'
       /\ \A g \in DOMAIN lista_fcb \ {f} :
            /\ lista_fcb'[g] = lista_fcb[g] /\ fcb_disco'[g] = fcb_disco[g]
            /\ ~ Creciendo(g) /\ ~ Creciendo(g)'
            /\ lista_fcb[g].indirecto # NULO => disco'[lista_fcb[g].indirecto]
                                                 = disco[lista_fcb[g].indirecto]
       /\ \A g \in DOMAIN lista_fcb : \A i \in Lugares(g) : Bloque(g, i) \in bitmap'
  BY <1>2, <1>3, <1>8, OtrosAlCrear
<1>22. \A i \in Lugares(f)' :
         \/ /\ f \in DOMAIN lista_fcb /\ i \in Lugares(f)
            /\ Bloque(f, i)' = Bloque(f, i) /\ Bloque(f, i) \in bitmap'
         \/ i = 0 /\ Bloque(f, i)' \notin bitmap /\ Bloque(f, i)' \in bitmap'
  BY <1>2, <1>8, <1>10, <1>11, <1>12
<1>23. Invariante' /\ \A g \in DOMAIN lista_fcb \ {f} : Sigue(g)
  <2>1. ElRestoIgual(f)
    BY <1>21 DEF ElRestoIgual
  <2>2. LugaresNuevos(f, 0)
    BY <1>22 DEF LugaresNuevos
  <2>3. NuevosEnCero(f)
    BY <1>19 DEF NuevosEnCero
  <2> QED BY <1>15, <1>16, <1>17, <1>18, <1>20, <2>1, <2>2, <2>3, PasoDeUno
<1>24. Sigue(f)
  BY <1>11, <1>12, <1>21 DEF Sigue
<1>25. ConDuenio(b)'
  BY <1>11, <1>12, <1>21 DEF ConDuenio
<1>26. bitmap' \ bitmap = {b}
  BY <1>1, <1>8, Tipado, CrearEs
<1> QED BY <1>23, <1>24, <1>25, <1>26 DEF Cuidado


LEMMA PasoDatos ==
  ASSUME Invariante, Basico', NEW f \in ARCHIVOS, CrearBloqueDeDatos(f)
  PROVE  Invariante' /\ Cuidado
<1>1. Basico
  BY DEF Invariante
<1>2. /\ f \in DOMAIN lista_fcb /\ hilo.archivo = f /\ hilo.faltan > 0
      /\ \/ hilo.paso = "datos"
         \/ /\ hilo.paso = "aumentar" /\ Cantidad(lista_fcb[f]) > 0
            /\ lista_fcb[f].indirecto # NULO
      /\ crear_bloque(obtener_bloque_libre)
      /\ hilo' \in Hilos /\ hilo'.archivo = f /\ hilo'.faltan = hilo.faltan - 1
      /\ hilo'.paso = IF hilo.faltan = 1 THEN "sincronizar" ELSE "aumentar"
      /\ hilo'.punteros = Append(hilo.punteros, obtener_bloque_libre)
      /\ UNCHANGED fcb_disco
  BY <1>1, CrearDatosEs
<1>3. PICK y \in FCB : /\ Crecido(lista_fcb[f], y) /\ y.directo = lista_fcb[f].directo
                       /\ lista_fcb' = [lista_fcb EXCEPT ![f] = y]
  BY <1>1, CrearDatosEs DEF Crecido
<1>4. PICK x \in FCB : x = lista_fcb[f] /\ BienFormado(x)
  BY <1>2, Archivo DEF Forma
<1>5. PICK c \in Nat : c = Cantidad(x)
  BY <1>4, CantidadEs DEF FCB
<1>6. PICK n \in Nat : n = hilo.faltan /\ n > 0
  BY <1>1, <1>2, Tipado DEF Hilos
<1>7. PICK p : p = hilo.punteros /\ p \in Seq(Punteros)
  BY <1>1, Tipado DEF Hilos
<1>8. Creciendo(f) /\ c > 0 /\ x.indirecto # NULO /\ Len(p) = c - 1
  <2>1. Creciendo(f)
    BY <1>2 DEF Creciendo
  <2>2. c > 0 /\ x.indirecto # NULO
    BY <1>2, <1>4, <1>5, Archivo DEF Forma, Invariante, Etapas
  <2>3. Len(p) = IF c = 0 THEN 0 ELSE c - 1
    BY <1>2, <1>4, <1>5, <1>7, <2>1, Archivo DEF Forma
  <2> QED BY <2>1, <2>2, <2>3
<1>9. PICK r \in Nat : r = Cardinality(Libres)
  BY <1>1, Tipado, LibreEs
<1>10. n <= r
  <2>1. CASE hilo.paso = "datos"
    BY <1>6, <1>9, <2>1 DEF Invariante, Etapas
  <2>2. CASE hilo.paso = "aumentar"
    <3>1. Necesita(x, n) <= r
      BY <1>2, <1>4, <1>6, <1>9, <2>2 DEF Invariante, Etapas
    <3> QED BY <1>8, <3>1 DEF Necesita
  <2> QED BY <1>2, <2>1, <2>2
<1>11. PICK b \in Bloques : /\ b = obtener_bloque_libre /\ b \notin bitmap /\ b \in Punteros
                           /\ crear_bloque(b)
  <2>1. Cardinality(Libres) > 0
    BY <1>6, <1>9, <1>10
  <2>2. PICK b : b = obtener_bloque_libre
    OBVIOUS
  <2>3. b \in Bloques /\ b \notin bitmap
    BY <2>1, <2>2, BloqueNuevo
  <2> QED BY <1>2, <2>2, <2>3, Tamanios
<1>12. /\ Cantidad(y) = c + 1 /\ BienFormado(y) /\ y.indirecto = x.indirecto
       /\ y.directo = x.directo
  BY <1>3, <1>4, <1>5, CantidadMas DEF Crecido
<1>13. /\ lista_fcb'[f] = y /\ Cardinality(Libres') = r - 1 /\ b \in bitmap'
       /\ disco'[b].dato = "CERO"
       /\ \A g \in DOMAIN lista_fcb : \A i \in Lugares(g) :
            /\ Bloque(g, i) \in bitmap' /\ Bloque(g, i) # b
            /\ disco'[Bloque(g, i)] = disco[Bloque(g, i)]
  <2>1. /\ f \in DOMAIN lista_fcb /\ hilo.archivo = f /\ hilo'.archivo = f
        /\ lista_fcb' = [lista_fcb EXCEPT ![f] = y] /\ UNCHANGED fcb_disco
    BY <1>2, <1>3
  <2>2. /\ lista_fcb'[f] = y /\ b \in bitmap' /\ disco'[b].dato = "CERO"
        /\ Cardinality(Libres') = Cardinality(Libres) - 1
    BY <1>11, <2>1, OtrosAlCrear
  <2>3. ASSUME NEW g \in DOMAIN lista_fcb, NEW i \in Lugares(g)
        PROVE  /\ Bloque(g, i) \in bitmap' /\ Bloque(g, i) # b
               /\ disco'[Bloque(g, i)] = disco[Bloque(g, i)]
    BY <1>11, <2>3, BloquesAlCrear
  <2> QED BY <1>9, <2>2, <2>3
<1>14. PICK q :
         /\ q = hilo'.punteros /\ Len(q) = c /\ q[c] = b
         /\ \A i \in 1 .. c - 1 : q[i] = p[i]
  <2>1. /\ Append(p, b) \in Seq(Punteros) /\ Len(Append(p, b)) = Len(p) + 1
        /\ Append(p, b)[Len(p) + 1] = b
        /\ \A i \in 1 .. Len(p) : Append(p, b)[i] = p[i]
    BY <1>7, <1>11
  <2>2. Len(p) + 1 = c
    BY <1>8
  <2> QED BY SMTT(20), <1>2, <1>7, <1>8, <1>11, <2>1, <2>2
<1>15. Creciendo(f)' /\ PunterosDe(f) = p /\ PunterosDe(f)' = q
  BY <1>2, <1>7, <1>8, <1>14 DEF Creciendo, PunterosDe
<1>16. ASSUME NEW i \in Lugares(f)'
       PROVE  \/ i \in Lugares(f) /\ Bloque(f, i)' = Bloque(f, i)
              \/ i = c + 1 /\ Bloque(f, i)' = b
  <2>1. i \in Nat /\ (i = 0 \/ i <= c + 1)
    BY <1>12, <1>13, <1>16 DEF Lugares
  <2>2. CASE i = 0
    BY <1>4, <1>8, <1>12, <1>13, <2>2 DEF Lugares, Bloque
  <2>3. CASE i = 1
    BY <1>4, <1>5, <1>8, <1>12, <1>13, <2>3 DEF Lugares, Bloque
  <2>4. CASE i > 1 /\ i <= c
    <3>1. i \in Lugares(f)
      BY <1>4, <1>5, <2>1, <2>4 DEF Lugares
    <3>2. Bloque(f, i) = p[i - 1] /\ Bloque(f, i)' = q[i - 1]
      BY <1>15, <2>1, <2>4 DEF Bloque
    <3>3. i - 1 \in 1 .. c - 1
      BY <2>1, <2>4
    <3> QED BY <1>14, <3>1, <3>2, <3>3
  <2>5. CASE i = c + 1
    <3>1. Bloque(f, i)' = q[i - 1] /\ i - 1 = c
      BY <1>8, <1>15, <2>5 DEF Bloque
    <3> QED BY <1>14, <2>5, <3>1
  <2> QED BY <2>1, <2>2, <2>3, <2>4, <2>5
<1>17. PICK z \in FCB : /\ z = fcb_disco[f] /\ fcb_disco'[f] = z /\ BienFormado(z)
                        /\ Cantidad(z) \in Nat /\ Cantidad(z) <= c
                        /\ Cantidad(z) > 0 => z.directo = x.directo
                        /\ z.indirecto = IF Cantidad(z) > 1 THEN x.indirecto ELSE NULO
                        /\ \A i \in 1 .. Cantidad(z) - 1 :
                             Puntero(disco[z.indirecto], i) = p[i]
  BY <1>2, <1>4, <1>5, <1>15, Archivo DEF Forma, Guardado
<1>18. Forma(f)'
  BY <1>2, <1>8, <1>12, <1>13, <1>14, <1>17 DEF Forma
<1>19. Guardado(f)'
  <2>1. ASSUME NEW i \in 1 .. Cantidad(z) - 1
        PROVE  Puntero(disco'[z.indirecto], i) = q[i]
    <3>1. z.indirecto = x.indirecto
      BY <1>17, <2>1
    <3>2. 0 \in Lugares(f) /\ Bloque(f, 0) = x.indirecto
      BY <1>4, <1>8 DEF Lugares, Bloque
    <3>3. disco'[z.indirecto] = disco[z.indirecto]
      BY <1>2, <1>13, <3>1, <3>2
    <3>4. i \in 1 .. c - 1
      BY <1>17, <2>1
    <3> QED BY <1>14, <1>17, <2>1, <3>3, <3>4
  <2>2. Cantidad(z) <= c + 1
    BY <1>17
  <2> QED BY <1>12, <1>13, <1>15, <1>17, <2>1, <2>2 DEF Guardado
<1>20. Etapas'
  <2>1. CASE n = 1
    BY <1>2, <1>6, <1>8, <1>12, <1>13, <2>1 DEF Etapas
  <2>2. CASE n > 1
    <3>1. Necesita(y, n - 1) = n - 1
      BY <1>8, <1>12, <2>2 DEF Necesita
    <3>2. n - 1 <= r - 1
      BY <1>10
    <3> QED BY <1>2, <1>6, <1>13, <2>2, <3>1, <3>2 DEF Etapas
  <2> QED BY <1>6, <2>1, <2>2
<1>21. f = Primero => Cantidad(fcb_disco'[f]) > 0 /\ lista_fcb'[f].directo = 0
  BY <1>4, <1>12, <1>13, <1>17 DEF Invariante, CeroOcupado
<1>22. ASSUME NEW i \in Cantidad(fcb_disco'[f]) + 1 .. Cantidad(lista_fcb'[f])
       PROVE  disco'[Bloque(f, i)'].dato = "CERO"
  <2>1. i \in Cantidad(z) + 1 .. c + 1 /\ i \in Nat /\ i > 0
    BY <1>12, <1>13, <1>17
  <2>2. i \in Lugares(f)'
    BY <1>12, <1>13, <2>1 DEF Lugares
  <2>3. CASE i = c + 1
    <3>1. i \notin Lugares(f)
      BY <1>4, <1>5, <2>1, <2>3 DEF Lugares
    <3> QED BY <1>13, <1>16, <2>2, <3>1
  <2>4. CASE i # c + 1
    <3>1. i \in Lugares(f) /\ Bloque(f, i)' = Bloque(f, i)
      BY <1>16, <2>2, <2>4
    <3>2. i \in Cantidad(fcb_disco[f]) + 1 .. Cantidad(lista_fcb[f])
      BY <1>4, <1>5, <1>17, <2>1, <2>4
    <3>3. disco[Bloque(f, i)].dato = "CERO"
      BY <1>2, <3>2 DEF Invariante, EnCero
    <3> QED BY <1>2, <1>13, <3>1, <3>3
  <2> QED BY <2>3, <2>4
<1>23. hilo'.paso # "disminuir"
  BY <1>2
<1>24. /\ DOMAIN lista_fcb' = DOMAIN lista_fcb \cup {f} /\ f \in DOMAIN lista_fcb'
       /\ \A g \in DOMAIN lista_fcb \ {f} :
            /\ lista_fcb'[g] = lista_fcb[g] /\ fcb_disco'[g] = fcb_disco[g]
            /\ ~ Creciendo(g) /\ ~ Creciendo(g)'
            /\ lista_fcb[g].indirecto # NULO => disco'[lista_fcb[g].indirecto]
                                                 = disco[lista_fcb[g].indirecto]
       /\ \A g \in DOMAIN lista_fcb : \A i \in Lugares(g) : Bloque(g, i) \in bitmap'
  BY <1>2, <1>3, <1>11, OtrosAlCrear
<1>25. PICK e : e = c + 1
  OBVIOUS
<1>26. \A i \in Lugares(f)' :
         \/ /\ f \in DOMAIN lista_fcb /\ i \in Lugares(f)
            /\ Bloque(f, i)' = Bloque(f, i) /\ Bloque(f, i) \in bitmap'
         \/ i = e /\ Bloque(f, i)' \notin bitmap /\ Bloque(f, i)' \in bitmap'
  BY <1>2, <1>11, <1>13, <1>16, <1>25
<1>27. /\ f \in DOMAIN lista_fcb'
       /\ DOMAIN lista_fcb' = DOMAIN lista_fcb \cup {f}
       /\ \A g \in DOMAIN lista_fcb \ {f} :
            /\ lista_fcb'[g] = lista_fcb[g] /\ fcb_disco'[g] = fcb_disco[g]
            /\ ~ Creciendo(g) /\ ~ Creciendo(g)'
            /\ lista_fcb[g].indirecto # NULO => disco'[lista_fcb[g].indirecto]
                                                 = disco[lista_fcb[g].indirecto]
            /\ \A i \in Lugares(g) : Bloque(g, i) \in bitmap'
  BY <1>24
<1>28. Invariante' /\ \A g \in DOMAIN lista_fcb \ {f} : Sigue(g)
  <2>1. ElRestoIgual(f)
    BY <1>27 DEF ElRestoIgual
  <2>2. LugaresNuevos(f, e)
    BY <1>26 DEF LugaresNuevos
  <2>3. NuevosEnCero(f)
    BY <1>22 DEF NuevosEnCero
  <2> QED BY <1>18, <1>19, <1>20, <1>21, <1>23, <2>1, <2>2, <2>3, PasoDeUno
<1>29. c + 1 \in Lugares(f)' /\ Lugares(f) \subseteq Lugares(f)' /\ c + 1 \notin Lugares(f)
  BY <1>4, <1>5, <1>12, <1>13 DEF Lugares
<1>30. Sigue(f)
  BY <1>16, <1>27, <1>29 DEF Sigue
<1>31. ConDuenio(b)'
  BY <1>16, <1>27, <1>29 DEF ConDuenio
<1>32. bitmap' \ bitmap = {b}
  BY <1>1, <1>11, Tipado, CrearEs
<1> QED BY <1>28, <1>30, <1>31, <1>32 DEF Cuidado


LEMMA PasoSincronizar ==
  ASSUME Invariante, Basico', NEW f \in ARCHIVOS, sincronizar_punteros_bloque_indirecto(f)
  PROVE  Invariante' /\ Cuidado
<1>1. Basico
  BY DEF Invariante
<1>2. /\ f \in DOMAIN lista_fcb /\ hilo.archivo = f /\ hilo.paso = "sincronizar"
      /\ hilo'.archivo = f /\ hilo'.paso = "actualizar" /\ hilo'.punteros = hilo.punteros
      /\ UNCHANGED <<bitmap, fcb_disco, lista_fcb, caidas>>
  BY <1>1, SincronizarEs
<1>3. PICK w \in Contenidos : /\ w.punteros = hilo.punteros
                              /\ escribir_en_bloque(lista_fcb[f].indirecto, w)
  BY <1>1, SincronizarEs
<1>4. PICK x \in FCB : x = lista_fcb[f]
  BY <1>2, Archivo
<1>5. Creciendo(f) /\ Creciendo(f)'
  BY <1>2 DEF Creciendo
<1>6. PICK c \in Nat : c = Cantidad(x) /\ c > 1 /\ x.indirecto # NULO
                       /\ Len(hilo.punteros) = c - 1
  <2>1. Cantidad(x) \in Nat /\ Cantidad(x) > 1
    BY <1>2, <1>4, Archivo DEF Invariante, Etapas
  <2> QED BY <1>2, <1>4, <1>5, <2>1, Archivo DEF Forma
<1>7. 0 \in Lugares(f) /\ Bloque(f, 0) = x.indirecto /\ x.indirecto \in Bloques
  BY <1>2, <1>4, <1>6, Archivo DEF Bloque
<1>8. /\ disco'[x.indirecto] = w
      /\ \A e \in Bloques \ {x.indirecto} : disco'[e] = disco[e]
  BY <1>1, <1>3, <1>4, <1>7, Tipado, EscribirEs
<1>9. \A i \in 1 .. c - 1 : Puntero(disco'[x.indirecto], i) = hilo.punteros[i]
  <2>1. ASSUME NEW i \in 1 .. c - 1 PROVE Puntero(w, i) = w.punteros[i]
    <3>1. i <= Len(w.punteros) /\ i >= 1
      BY <1>3, <1>6, <2>1
    <3>2. BloqueCero.punteros = <<>> /\ Len(<<>>) = 0
      BY DEF BloqueCero, Contenido
    <3>3. w # BloqueCero
      BY <3>1, <3>2
    <3> QED BY <3>1, <3>3 DEF Puntero
  <2> QED BY <1>3, <1>8, <2>1
<1>10. Lugares(f)' = Lugares(f) /\ \A i : Bloque(f, i)' = Bloque(f, i)
  BY <1>2, <1>5 DEF Lugares, Bloque, PunterosDe
<1>11. Forma(f)'
  <2>1. Forma(f)
    BY <1>2, Archivo
  <2> QED BY <1>2, <1>4, <1>5, <1>6, <2>1 DEF Forma
<1>12. Guardado(f)'
  <2>1. Guardado(f) /\ Cantidad(fcb_disco[f]) \in Nat
    BY <1>2, Archivo
  <2>2. ASSUME NEW i \in 1 .. Cantidad(fcb_disco[f]) - 1
        PROVE  Puntero(disco'[fcb_disco[f].indirecto], i) = hilo.punteros[i]
    <3>1. fcb_disco[f].indirecto = x.indirecto /\ i \in 1 .. c - 1
      BY <1>4, <1>6, <2>1, <2>2 DEF Guardado
    <3> QED BY <1>9, <3>1
  <2> QED BY <1>2, <1>5, <2>1, <2>2 DEF Guardado, PunterosDe
<1>13. Etapas'
  <2>1. ASSUME NEW i \in 1 .. Cantidad(x) - 1
        PROVE  hilo'.punteros[i] = leer_bloque_indirecto(disco', x)[i]
    <3>1. disco' \in [Bloques -> Contenidos]
      BY Tipado DEF Basico, TypeOK, Contenidos
    <3> QED BY <1>2, <1>6, <1>7, <1>9, <2>1, <3>1, LeerDirecto
  <2> QED BY <1>2, <1>4, <2>1 DEF Etapas
<1>14. f = Primero => Cantidad(fcb_disco'[f]) > 0 /\ lista_fcb'[f].directo = 0
  BY <1>2 DEF Invariante, CeroOcupado
<1>15. ASSUME NEW i \in Cantidad(fcb_disco'[f]) + 1 .. Cantidad(lista_fcb'[f])
       PROVE  disco'[Bloque(f, i)'].dato = "CERO"
  <2>1. /\ i \in Cantidad(fcb_disco[f]) + 1 .. Cantidad(lista_fcb[f])
        /\ Cantidad(fcb_disco[f]) \in Nat
    BY <1>2, Archivo
  <2>2. i \in Lugares(f) /\ i # 0
    BY <1>2, <2>1, Archivo
  <2>3. Bloque(f, i) # x.indirecto /\ Bloque(f, i) \in Bloques
    BY <1>2, <1>7, <2>2, Archivo DEF Invariante, SinCompartir
  <2>4. disco[Bloque(f, i)].dato = "CERO"
    BY <1>2, <2>1 DEF Invariante, EnCero
  <2> QED BY <1>8, <1>10, <2>3, <2>4
<1>16. ASSUME NEW g \in DOMAIN lista_fcb \ {f}
       PROVE  /\ lista_fcb'[g] = lista_fcb[g] /\ fcb_disco'[g] = fcb_disco[g]
              /\ ~ Creciendo(g) /\ ~ Creciendo(g)'
              /\ lista_fcb[g].indirecto # NULO => disco'[lista_fcb[g].indirecto]
                                                   = disco[lista_fcb[g].indirecto]
              /\ \A i \in Lugares(g) : Bloque(g, i) \in bitmap'
  <2>1. lista_fcb[g].indirecto # NULO =>
          /\ 0 \in Lugares(g) /\ Bloque(g, 0) = lista_fcb[g].indirecto
          /\ Bloque(g, 0) \in Bloques
    BY <1>16, Archivo DEF Bloque
  <2>2. lista_fcb[g].indirecto # NULO => lista_fcb[g].indirecto # x.indirecto
    BY <1>2, <1>7, <1>16, <2>1 DEF Invariante, SinCompartir
  <2> QED BY <1>2, <1>8, <1>16, <2>1, <2>2 DEF Creciendo, Invariante, Reservados
<1>17. hilo'.paso # "disminuir" /\ f \in DOMAIN lista_fcb'
       /\ DOMAIN lista_fcb' = DOMAIN lista_fcb \cup {f}
  BY <1>2
<1>18. \A i \in Lugares(f)' : /\ f \in DOMAIN lista_fcb /\ i \in Lugares(f)
                              /\ Bloque(f, i)' = Bloque(f, i) /\ Bloque(f, i) \in bitmap'
  BY <1>2, <1>10 DEF Invariante, Reservados
<1>19. Invariante' /\ \A g \in DOMAIN lista_fcb \ {f} : Sigue(g)
  <2>1. ElRestoIgual(f)
    BY <1>16, <1>17 DEF ElRestoIgual
  <2>2. LugaresNuevos(f, 0)
    BY <1>18 DEF LugaresNuevos
  <2>3. NuevosEnCero(f)
    BY <1>15 DEF NuevosEnCero
  <2> QED BY <1>11, <1>12, <1>13, <1>14, <1>17, <2>1, <2>2, <2>3, PasoDeUno
<1>20. Sigue(f)
  BY <1>2, <1>10 DEF Sigue
<1> QED BY <1>2, <1>19, <1>20 DEF Cuidado


LEMMA PasoTerminar ==
  ASSUME Invariante, Basico', NEW f \in ARCHIVOS, TerminarAumento(f)
  PROVE  Invariante' /\ Cuidado
<1>1. Basico
  BY DEF Invariante
<1>2. /\ f \in DOMAIN lista_fcb /\ hilo.archivo = f /\ hilo.paso = "actualizar"
      /\ fcb_disco' = [fcb_disco EXCEPT ![f] = lista_fcb[f]]
      /\ hilo' = Libre
      /\ UNCHANGED <<bitmap, disco, lista_fcb, caidas>>
  BY <1>1, TerminarEs
<1>3. PICK x \in FCB : x = lista_fcb[f] /\ BienFormado(x)
  BY <1>2, Archivo DEF Forma
<1>4. PICK c \in Nat : c = Cantidad(x)
  BY <1>3, CantidadEs DEF FCB
<1>5. /\ fcb_disco'[f] = x /\ lista_fcb'[f] = x
      /\ \A g \in DOMAIN lista_fcb \ {f} : fcb_disco'[g] = fcb_disco[g]
  BY <1>1, <1>2, <1>3, Tipado
<1>6. Creciendo(f) /\ ~ Creciendo(f)'
  BY <1>2, LibreHilo DEF Creciendo
<1>7. x.indirecto # NULO <=> c > 1
  BY <1>2, <1>3, <1>4, Archivo DEF Forma
<1>8. disco \in [Bloques -> Contenidos]
  BY <1>1, Tipado
<1>9. \A i \in 1 .. c - 1 : PunterosDe(f)[i] = leer_bloque_indirecto(disco, x)[i]
  BY <1>2, <1>3, <1>4, <1>6 DEF PunterosDe, Invariante, Etapas
<1>10. PunterosDe(f)' = leer_bloque_indirecto(disco, x)
  BY <1>2, <1>3, <1>6 DEF PunterosDe
<1>11. Lugares(f)' = Lugares(f)
  BY <1>2 DEF Lugares
<1>12. ASSUME NEW i \in Lugares(f) PROVE Bloque(f, i)' = Bloque(f, i)
  <2>1. CASE i \in {0, 1}
    BY <1>2, <2>1 DEF Bloque
  <2>2. CASE i \notin {0, 1}
    <3>1. i - 1 \in 1 .. c - 1
      BY <1>3, <1>4, <1>12, <2>2 DEF Lugares
    <3> QED BY <1>9, <1>10, <2>2, <3>1 DEF Bloque
  <2> QED BY <2>1, <2>2
<1>13. Forma(f)'
  BY <1>2, <1>3, <1>4, <1>5, <1>6, <1>7, LibreHilo DEF Forma
<1>14. Guardado(f)'
  <2>1. ASSUME NEW i \in 1 .. c - 1
        PROVE  Puntero(disco[x.indirecto], i) = leer_bloque_indirecto(disco, x)[i]
    <3>1. 0 \in Lugares(f) /\ Bloque(f, 0) = x.indirecto
      BY <1>2, <1>3, <1>7, <2>1, Archivo DEF Bloque
    <3>2. x.indirecto \in Bloques
      BY <1>2, <3>1, Archivo
    <3> QED BY <1>4, <1>8, <2>1, <3>2, LeerDirecto
  <2> QED BY <1>2, <1>4, <1>5, <1>7, <1>10, <2>1 DEF Guardado
<1>15. Etapas' /\ hilo'.paso # "disminuir"
  BY <1>2, LibreHilo DEF Etapas
<1>16. f = Primero => Cantidad(fcb_disco'[f]) > 0 /\ lista_fcb'[f].directo = 0
  <2>1. Guardado(f) /\ Cantidad(fcb_disco[f]) \in Nat
    BY <1>2, Archivo
  <2> QED BY <1>2, <1>3, <1>4, <1>5, <2>1 DEF Guardado, Invariante, CeroOcupado
<1>17. Cantidad(fcb_disco'[f]) + 1 .. Cantidad(lista_fcb'[f]) = {}
  BY <1>4, <1>5
<1>18. ASSUME NEW g \in DOMAIN lista_fcb \ {f}
       PROVE  /\ lista_fcb'[g] = lista_fcb[g] /\ fcb_disco'[g] = fcb_disco[g]
              /\ ~ Creciendo(g) /\ ~ Creciendo(g)'
              /\ lista_fcb[g].indirecto # NULO => disco'[lista_fcb[g].indirecto]
                                                   = disco[lista_fcb[g].indirecto]
              /\ \A i \in Lugares(g) : Bloque(g, i) \in bitmap'
  BY <1>2, <1>5, <1>18, LibreHilo DEF Creciendo, Invariante, Reservados
<1>19. f \in DOMAIN lista_fcb' /\ DOMAIN lista_fcb' = DOMAIN lista_fcb \cup {f}
  BY <1>2
<1>20. \A i \in Lugares(f)' : /\ f \in DOMAIN lista_fcb /\ i \in Lugares(f)
                              /\ Bloque(f, i)' = Bloque(f, i) /\ Bloque(f, i) \in bitmap'
  BY <1>2, <1>11, <1>12 DEF Invariante, Reservados
<1>21. Invariante' /\ \A g \in DOMAIN lista_fcb \ {f} : Sigue(g)
  <2>1. ElRestoIgual(f)
    BY <1>18, <1>19 DEF ElRestoIgual
  <2>2. LugaresNuevos(f, 0)
    BY <1>20 DEF LugaresNuevos
  <2>3. NuevosEnCero(f)
    BY <1>17 DEF NuevosEnCero
  <2> QED BY <1>13, <1>14, <1>15, <1>16, <2>1, <2>2, <2>3, PasoDeUno
<1>22. Sigue(f)
  BY <1>2, <1>11, <1>12 DEF Sigue
<1> QED BY <1>2, <1>21, <1>22 DEF Cuidado


\* The blocks that a file loses are its own, and no longer in any of its places.
LEMMA LiberadosEs ==
  ASSUME Invariante, NEW f \in DOMAIN lista_fcb, hilo.archivo = f, hilo.paso = "disminuir",
         NEW z, z \in Liberados(lista_fcb[f], hilo.punteros, hilo.faltan)
  PROVE  \E i \in Lugares(f) :
           /\ z = Bloque(f, i)
           /\ i = 0 => Cantidad(lista_fcb[f]) - hilo.faltan <= 1
           /\ i > 0 => i > Cantidad(lista_fcb[f]) - hilo.faltan
<1>1. PICK x \in FCB : x = lista_fcb[f]
  BY Archivo
<1>2. PICK c \in Nat : c = Cantidad(x)
  BY <1>1, CantidadEs DEF FCB
<1>3. PICK n \in Nat : n = hilo.faltan
  BY Tipado DEF Invariante, Hilos
<1>4. PICK p : p = hilo.punteros /\ p \in Seq(Punteros)
               /\ Len(p) = IF c = 0 THEN 0 ELSE c - 1
  BY <1>1, <1>2, Tipado DEF Invariante, Hilos, Etapas
<1>5. ~ Creciendo(f)
  BY DEF Creciendo
<1>6. DOMAIN p = 1 .. Len(p)
  BY <1>4
<1>7. ASSUME NEW j \in 1 .. c - 1 PROVE j + 1 \in Lugares(f) /\ Bloque(f, j + 1) = p[j]
  <2>1. p[j] = leer_bloque_indirecto(disco, x)[j]
    BY <1>1, <1>2, <1>4, <1>7 DEF Invariante, Etapas
  <2>2. j + 1 \in Nat /\ j + 1 # 0 /\ j + 1 # 1 /\ j + 1 <= c /\ (j + 1) - 1 = j
    BY <1>7
  <2> QED BY <1>1, <1>2, <1>5, <2>1, <2>2 DEF Lugares, Bloque, PunterosDe
<1>8. \/ \E j \in 1 .. Len(p) : j >= c - n /\ z = p[j]
      \/ p # <<>> /\ c - n <= 1 /\ z = x.indirecto
      \/ n > 0 /\ c - n = 0 /\ z = x.directo
  BY <1>1, <1>2, <1>3, <1>4, <1>6 DEF Liberados
<1>9. CASE \E j \in 1 .. Len(p) : j >= c - n /\ z = p[j]
  <2>1. PICK j \in 1 .. Len(p) : j >= c - n /\ z = p[j]
    BY <1>9
  <2>2. j \in 1 .. c - 1
    BY <1>4, <2>1
  <2>3. j + 1 \in Nat /\ j + 1 # 0 /\ j + 1 > c - n
    BY <2>1, <2>2
  <2> QED BY <1>1, <1>2, <1>3, <1>7, <2>1, <2>2, <2>3
<1>10. CASE p # <<>> /\ c - n <= 1 /\ z = x.indirecto
  <2>1. Len(p) # 0
    BY <1>4, <1>10
  <2>2. c > 1
    BY <1>4, <2>1
  <2>3. 0 \in Lugares(f) /\ Bloque(f, 0) = z
    BY <1>1, <1>2, <1>10, <2>2, Archivo DEF Forma, Bloque
  <2> QED BY <1>1, <1>2, <1>3, <1>10, <2>3
<1>11. CASE n > 0 /\ c - n = 0 /\ z = x.directo
  <2>1. 1 \in Lugares(f) /\ Bloque(f, 1) = z /\ 1 > c - n
    BY <1>1, <1>2, <1>11, Archivo DEF Bloque
  <2> QED BY <1>1, <1>2, <1>3, <2>1
<1> QED BY <1>8, <1>9, <1>10, <1>11

\* A block that a file does not lose has its place in what is left.
LEMMA NoLiberadosEs ==
  ASSUME Invariante, NEW f \in DOMAIN lista_fcb, hilo.archivo = f, hilo.paso = "disminuir",
         NEW i \in Lugares(f),
         Bloque(f, i) \notin Liberados(lista_fcb[f], hilo.punteros, hilo.faltan)
  PROVE  /\ i = 0 => Cantidad(lista_fcb[f]) - hilo.faltan > 1
         /\ i > 0 => i <= Cantidad(lista_fcb[f]) - hilo.faltan
<1>1. PICK x \in FCB : x = lista_fcb[f]
  BY Archivo
<1>2. PICK c \in Nat : c = Cantidad(x)
  BY <1>1, CantidadEs DEF FCB
<1>3. PICK n \in Nat : n = hilo.faltan
  BY Tipado DEF Invariante, Hilos
<1>4. PICK p : p = hilo.punteros /\ p \in Seq(Punteros)
               /\ Len(p) = IF c = 0 THEN 0 ELSE c - 1
  BY <1>1, <1>2, Tipado DEF Invariante, Hilos, Etapas
<1>5. ~ Creciendo(f)
  BY DEF Creciendo
<1>6. DOMAIN p = 1 .. Len(p)
  BY <1>4
<1>7. /\ \A j \in 1 .. Len(p) : j >= c - n => p[j] # Bloque(f, i)
      /\ p # <<>> /\ c - n <= 1 => x.indirecto # Bloque(f, i)
      /\ n > 0 /\ c - n = 0 => x.directo # Bloque(f, i)
  BY <1>1, <1>2, <1>3, <1>4, <1>6 DEF Liberados
<1>8. CASE i = 0
  <2>1. c > 1
    BY <1>1, <1>2, <1>8, Archivo DEF Forma
  <2>2. p # <<>>
    BY <1>4, <2>1
  <2>3. x.indirecto = Bloque(f, i)
    BY <1>1, <1>8 DEF Bloque
  <2> QED BY <1>1, <1>2, <1>3, <1>7, <1>8, <2>2, <2>3
<1>9. CASE i = 1
  <2>1. c > 0 /\ x.directo = Bloque(f, i)
    BY <1>1, <1>2, <1>9, Archivo DEF Bloque
  <2>2. n <= c
    <3>1. n * BLOCK_SIZE <= x.tamanio /\ BienFormado(x)
      BY <1>1, <1>3, Archivo DEF Forma, Invariante, Basico, Alcanza
    <3>2. PICK d \in Nat \ {0} : d = BLOCK_SIZE
      BY Tamanios
    <3>3. n * d <= c * d
      BY <1>2, <3>1, <3>2 DEF BienFormado
    <3> QED BY <3>3
  <2> QED BY <1>1, <1>2, <1>3, <1>7, <1>9, <2>1, <2>2
<1>10. CASE i > 1
  <2>1. i \in Nat /\ i <= c
    BY <1>1, <1>2, <1>10, Archivo
  <2>2. i - 1 \in 1 .. c - 1 /\ i - 1 \in 1 .. Len(p)
    BY <1>4, <1>10, <2>1
  <2>3. p[i - 1] = leer_bloque_indirecto(disco, x)[i - 1]
    BY <1>1, <1>2, <1>4, <2>2 DEF Invariante, Etapas
  <2>4. p[i - 1] = Bloque(f, i)
    BY <1>1, <1>5, <1>10, <2>1, <2>3 DEF Bloque, PunterosDe
  <2>5. ~ (i - 1 >= c - n)
    BY <1>7, <2>2, <2>4
  <2> QED BY <1>1, <1>2, <1>3, <1>10, <2>1, <2>5
<1> QED BY <1>8, <1>9, <1>10, Archivo

LEMMA PasoDisminuir ==
  ASSUME Invariante, Basico', NEW f \in ARCHIVOS, disminuir_tamanio_archivo(f)
  PROVE  Invariante' /\ Cuidado
<1>1. Basico
  BY DEF Invariante
<1>2. /\ f \in DOMAIN lista_fcb /\ hilo.archivo = f /\ hilo.paso = "disminuir"
      /\ bitmap' = bitmap \ Liberados(lista_fcb[f], hilo.punteros, hilo.faltan)
      /\ hilo' = Libre /\ UNCHANGED <<disco, caidas>>
  BY <1>1, DisminuirEs
<1>3. PICK x \in FCB : x = lista_fcb[f] /\ BienFormado(x)
  BY <1>2, Archivo DEF Forma
<1>4. PICK c \in Nat : c = Cantidad(x)
  BY <1>3, CantidadEs DEF FCB
<1>5. PICK n \in Nat : n = hilo.faltan
  BY <1>1, Tipado DEF Hilos
<1>6. PICK y \in FCB :
        /\ y.tamanio = x.tamanio - n * BLOCK_SIZE /\ y.directo = x.directo
        /\ y.indirecto = IF c - n <= 1 /\ c > 1 THEN NULO ELSE x.indirecto
        /\ lista_fcb' = [lista_fcb EXCEPT ![f] = y]
        /\ fcb_disco' = [fcb_disco EXCEPT ![f] = y]
  BY <1>1, <1>3, <1>4, <1>5, DisminuirEs
<1>7. PICK m \in Nat : m = c - n /\ n <= c /\ Cantidad(y) = m /\ BienFormado(y)
  <2>1. n * BLOCK_SIZE <= x.tamanio
    BY <1>2, <1>3, <1>5 DEF Invariante, Basico, Alcanza
  <2>2. n <= Cantidad(x) /\ Cantidad(y) = Cantidad(x) - n /\ BienFormado(y)
    BY <1>3, <1>6, <2>1, CantidadMenos
  <2> QED BY <1>4, <2>2
<1>8. /\ fcb_disco'[f] = y /\ lista_fcb'[f] = y /\ DOMAIN lista_fcb' = DOMAIN lista_fcb
      /\ \A g \in DOMAIN lista_fcb \ {f} :
           lista_fcb'[g] = lista_fcb[g] /\ fcb_disco'[g] = fcb_disco[g]
  BY <1>1, <1>2, <1>6, Tipado
<1>9. ~ Creciendo(f) /\ ~ Creciendo(f)'
  BY <1>2, LibreHilo DEF Creciendo
<1>10. /\ x.indirecto # NULO <=> c > 1
       /\ y.indirecto # NULO <=> m > 1
       /\ m > 1 => y.indirecto = x.indirecto
  <2>1. x.indirecto # NULO <=> c > 1
    BY <1>2, <1>3, <1>4, Archivo DEF Forma
  <2>2. m > 1 => ~ (c - n <= 1) /\ c > 1
    BY <1>7
  <2>3. m <= 1 => c - n <= 1
    BY <1>7
  <2> QED BY <1>6, <2>1, <2>2, <2>3
<1>11. disco \in [Bloques -> Contenidos]
  BY <1>1, Tipado
<1>12. ASSUME NEW i \in 1 .. m - 1
       PROVE  /\ leer_bloque_indirecto(disco, y)[i] = Puntero(disco[y.indirecto], i)
              /\ leer_bloque_indirecto(disco, y)[i] = leer_bloque_indirecto(disco, x)[i]
  <2>1. m > 1 /\ c > 1 /\ i \in 1 .. c - 1
    BY <1>7, <1>12
  <2>2. 0 \in Lugares(f) /\ Bloque(f, 0) = x.indirecto
    BY <1>2, <1>3, <1>10, <2>1, Archivo DEF Bloque
  <2>3. x.indirecto \in Bloques /\ y.indirecto = x.indirecto
    BY <1>2, <1>10, <2>1, <2>2, Archivo
  <2> QED BY <1>4, <1>7, <1>11, <1>12, <2>1, <2>3, LeerDirecto
<1>13. ASSUME NEW i \in Lugares(f)'
       PROVE  i \in Lugares(f) /\ Bloque(f, i)' = Bloque(f, i)
  <2>1. i \in Nat /\ (IF i = 0 THEN m > 1 ELSE i <= m)
    BY <1>7, <1>8, <1>10, <1>13 DEF Lugares
  <2>2. i \in Lugares(f)
    BY <1>3, <1>4, <1>7, <1>10, <2>1 DEF Lugares
  <2>3. CASE i = 0
    BY <1>3, <1>8, <1>10, <2>1, <2>2, <2>3 DEF Bloque
  <2>4. CASE i = 1
    BY <1>3, <1>6, <1>8, <2>2, <2>4 DEF Bloque
  <2>5. CASE i > 1
    <3>1. i - 1 \in 1 .. m - 1
      BY <2>1, <2>5
    <3>2. Bloque(f, i)' = leer_bloque_indirecto(disco, y)[i - 1]
      BY <1>2, <1>8, <1>9, <2>1, <2>5 DEF Bloque, PunterosDe
    <3>3. Bloque(f, i) = leer_bloque_indirecto(disco, x)[i - 1]
      BY <1>3, <1>9, <2>1, <2>5 DEF Bloque, PunterosDe
    <3> QED BY <1>12, <2>2, <3>1, <3>2, <3>3
  <2> QED BY <2>1, <2>3, <2>4, <2>5
<1>14. ASSUME NEW g \in DOMAIN lista_fcb, NEW j \in Lugares(g), Bloque(g, j) \notin bitmap'
       PROVE  g = f /\ j \notin Lugares(f)'
  <2>1. Bloque(g, j) \in bitmap
    BY DEF Invariante, Reservados
  <2>2. Bloque(g, j) \in Liberados(lista_fcb[f], hilo.punteros, hilo.faltan)
    BY <1>2, <1>14, <2>1
  <2>3. PICK i \in Lugares(f) :
          /\ Bloque(g, j) = Bloque(f, i)
          /\ i = 0 => c - n <= 1
          /\ i > 0 => i > c - n
    BY <1>2, <1>3, <1>4, <1>5, <2>2, LiberadosEs
  <2>4. g = f /\ j = i
    BY <1>2, <2>3 DEF Invariante, SinCompartir
  <2>5. i \notin Lugares(f)'
    BY <1>7, <1>8, <1>10, <2>3 DEF Lugares
  <2> QED BY <2>4, <2>5
<1>15. Forma(f)'
  BY <1>2, <1>7, <1>8, <1>9, <1>10, LibreHilo DEF Forma
<1>16. Guardado(f)'
  <2>1. PunterosDe(f)' = leer_bloque_indirecto(disco, y)
    BY <1>2, <1>8, <1>9 DEF PunterosDe
  <2> QED BY <1>2, <1>7, <1>8, <1>10, <1>12, <2>1 DEF Guardado
<1>17. Etapas' /\ hilo'.paso # "disminuir"
  BY <1>2, LibreHilo DEF Etapas
<1>18. f = Primero => Cantidad(fcb_disco'[f]) > 0 /\ lista_fcb'[f].directo = 0
  <2>1. f = Primero => n < c /\ x.directo = 0
    BY <1>2, <1>3, <1>4, <1>5 DEF Invariante, CeroOcupado
  <2> QED BY <1>6, <1>7, <1>8, <2>1
<1>19. Cantidad(fcb_disco'[f]) + 1 .. Cantidad(lista_fcb'[f]) = {}
  BY <1>7, <1>8
<1>20. ASSUME NEW g \in DOMAIN lista_fcb \ {f}
       PROVE  /\ lista_fcb'[g] = lista_fcb[g] /\ fcb_disco'[g] = fcb_disco[g]
              /\ ~ Creciendo(g) /\ ~ Creciendo(g)'
              /\ lista_fcb[g].indirecto # NULO => disco'[lista_fcb[g].indirecto]
                                                   = disco[lista_fcb[g].indirecto]
              /\ \A i \in Lugares(g) : Bloque(g, i) \in bitmap'
  BY <1>2, <1>8, <1>14, <1>20, LibreHilo DEF Creciendo
<1>21. f \in DOMAIN lista_fcb' /\ DOMAIN lista_fcb' = DOMAIN lista_fcb \cup {f}
  BY <1>2, <1>8
<1>22. \A i \in Lugares(f)' : /\ f \in DOMAIN lista_fcb /\ i \in Lugares(f)
                              /\ Bloque(f, i)' = Bloque(f, i) /\ Bloque(f, i) \in bitmap'
  BY <1>2, <1>13, <1>14
<1>23. Invariante' /\ \A g \in DOMAIN lista_fcb \ {f} : Sigue(g)
  <2>1. ElRestoIgual(f)
    BY <1>20, <1>21 DEF ElRestoIgual
  <2>2. LugaresNuevos(f, 0)
    BY <1>22 DEF LugaresNuevos
  <2>3. NuevosEnCero(f)
    BY <1>19 DEF NuevosEnCero
  <2> QED BY <1>15, <1>16, <1>17, <1>18, <2>1, <2>2, <2>3, PasoDeUno
<1>24. ASSUME NEW i \in Lugares(f), Bloque(f, i) \in bitmap'
       PROVE  i \in Lugares(f)' /\ Bloque(f, i)' = Bloque(f, i)
  <2>1. Bloque(f, i) \notin Liberados(x, hilo.punteros, n)
    BY <1>2, <1>3, <1>5, <1>24
  <2>2. i \in Nat /\ (i = 0 => m > 1) /\ (i > 0 => i <= m)
    BY <1>2, <1>3, <1>4, <1>5, <1>7, <2>1, NoLiberadosEs, Archivo
  <2>3. i \in Lugares(f)'
    BY <1>7, <1>8, <1>10, <2>2 DEF Lugares
  <2> QED BY <1>13, <2>3
<1>25. Sigue(f)
  BY <1>21, <1>24 DEF Sigue
<1> QED BY <1>2, <1>23, <1>25 DEF Cuidado


LEMMA PasoCaida ==
  ASSUME Invariante, Basico', iniciar_fs
  PROVE  Invariante'
<1>1. Basico
  BY DEF Invariante
<1>2. lista_fcb' = fcb_disco /\ hilo' = Libre /\ UNCHANGED <<bitmap, disco, fcb_disco>>
  BY DEF iniciar_fs
<1>3. Etapas' /\ hilo'.paso # "disminuir" /\ \A g : ~ Creciendo(g)'
  BY <1>2, LibreHilo DEF Etapas, Creciendo
<1>4. CASE fcb_disco = lista_fcb /\ \A g \in DOMAIN lista_fcb : ~ Creciendo(g)
  BY <1>2, <1>3, <1>4, PasoQuieto
<1>5. CASE \E g \in DOMAIN lista_fcb : Creciendo(g)
  <2>1. PICK f \in DOMAIN lista_fcb : Creciendo(f)
    BY <1>5
  <2>2. \A g \in DOMAIN lista_fcb \ {f} : ~ Creciendo(g) /\ fcb_disco[g] = lista_fcb[g]
    BY <1>1, <2>1 DEF Creciendo, Basico, EnDisco
  <2>3. PICK x \in FCB, y \in FCB : x = lista_fcb[f] /\ y = fcb_disco[f]
    BY Archivo
  <2>4. PICK c \in Nat, m \in Nat : c = Cantidad(x) /\ m = Cantidad(y)
    BY <2>3, CantidadEs DEF FCB
  <2>5. /\ m <= c /\ BienFormado(y)
        /\ m > 0 => y.directo = x.directo
        /\ y.indirecto = IF m > 1 THEN x.indirecto ELSE NULO
        /\ \A i \in 1 .. m - 1 : Puntero(disco[y.indirecto], i) = PunterosDe(f)[i]
    BY <2>3, <2>4, Archivo DEF Forma, Guardado
  <2>6. y.indirecto # NULO <=> m > 1
    <3>1. c > 1 => x.indirecto # NULO
      BY <2>3, <2>4, Archivo DEF Forma
    <3> QED BY <2>5, <3>1
  <2>7. disco \in [Bloques -> Contenidos]
    BY <1>1, Tipado
  <2>8. lista_fcb'[f] = y /\ fcb_disco'[f] = y
    BY <1>2, <2>3
  <2>9. PunterosDe(f)' = leer_bloque_indirecto(disco, y)
    BY <1>2, <1>3, <2>8 DEF PunterosDe
  <2>10. ASSUME NEW i \in 1 .. m - 1
         PROVE  /\ leer_bloque_indirecto(disco, y)[i] = Puntero(disco[y.indirecto], i)
                /\ leer_bloque_indirecto(disco, y)[i] = PunterosDe(f)[i]
    <3>1. m > 1 /\ y.indirecto = x.indirecto
      BY <2>5, <2>10
    <3>2. 0 \in Lugares(f) /\ Bloque(f, 0) = x.indirecto
      BY <2>3, <2>6, <3>1, Archivo DEF Bloque
    <3>3. y.indirecto \in Bloques
      BY <3>1, <3>2, Archivo
    <3> QED BY <2>4, <2>5, <2>7, <2>10, <3>3, LeerDirecto
  <2>11. ASSUME NEW i \in Lugares(f)'
         PROVE  i \in Lugares(f) /\ Bloque(f, i)' = Bloque(f, i)
    <3>1. i \in Nat /\ (IF i = 0 THEN m > 1 ELSE i <= m)
      BY <2>4, <2>6, <2>8, <2>11 DEF Lugares
    <3>2. i \in Lugares(f)
      BY <2>3, <2>4, <2>5, <2>6, <3>1 DEF Lugares
    <3>3. CASE i = 0
      BY <2>3, <2>5, <2>8, <3>1, <3>2, <3>3 DEF Bloque
    <3>4. CASE i = 1
      BY <2>3, <2>5, <2>8, <3>1, <3>2, <3>4 DEF Bloque
    <3>5. CASE i > 1
      <4>1. i - 1 \in 1 .. m - 1
        BY <3>1, <3>5
      <4>2. Bloque(f, i)' = leer_bloque_indirecto(disco, y)[i - 1]
        BY <2>9, <3>1, <3>5 DEF Bloque
      <4>3. Bloque(f, i) = PunterosDe(f)[i - 1]
        BY <3>1, <3>5 DEF Bloque
      <4> QED BY <2>10, <3>2, <4>1, <4>2, <4>3
    <3> QED BY <3>1, <3>3, <3>4, <3>5
  <2>12. Forma(f)'
    BY <1>2, <1>3, <2>4, <2>5, <2>6, <2>8, LibreHilo DEF Forma
  <2>13. Guardado(f)'
    BY <1>2, <2>4, <2>6, <2>8, <2>9, <2>10 DEF Guardado
  <2>14. f = Primero => Cantidad(fcb_disco'[f]) > 0 /\ lista_fcb'[f].directo = 0
    BY <2>3, <2>4, <2>5, <2>8 DEF Invariante, CeroOcupado
  <2>15. Cantidad(fcb_disco'[f]) + 1 .. Cantidad(lista_fcb'[f]) = {}
    BY <2>4, <2>8
  <2>16. DOMAIN lista_fcb' = DOMAIN lista_fcb \cup {f} /\ f \in DOMAIN lista_fcb'
    BY <1>1, <1>2 DEF Basico, EnDisco
  <2>17. ASSUME NEW g \in DOMAIN lista_fcb \ {f}
         PROVE  /\ lista_fcb'[g] = lista_fcb[g] /\ fcb_disco'[g] = fcb_disco[g]
                /\ ~ Creciendo(g) /\ ~ Creciendo(g)'
                /\ lista_fcb[g].indirecto # NULO => disco'[lista_fcb[g].indirecto]
                                                     = disco[lista_fcb[g].indirecto]
                /\ \A i \in Lugares(g) : Bloque(g, i) \in bitmap'
    BY <1>2, <1>3, <2>2, <2>17 DEF Invariante, Reservados
  <2>18. \A i \in Lugares(f)' : /\ f \in DOMAIN lista_fcb /\ i \in Lugares(f)
                                /\ Bloque(f, i)' = Bloque(f, i) /\ Bloque(f, i) \in bitmap'
    BY <1>2, <2>11 DEF Invariante, Reservados
  <2> QED
    <3>1. ElRestoIgual(f)
      BY <2>16, <2>17 DEF ElRestoIgual
    <3>2. LugaresNuevos(f, 0)
      BY <2>18 DEF LugaresNuevos
    <3>3. NuevosEnCero(f)
      BY <2>15 DEF NuevosEnCero
    <3> QED BY <1>3, <2>12, <2>13, <2>14, <3>1, <3>2, <3>3, PasoDeUno
<1>6. (\A g \in DOMAIN lista_fcb : ~ Creciendo(g)) => fcb_disco = lista_fcb
  <2>1. ASSUME \A g \in DOMAIN lista_fcb : ~ Creciendo(g)
        PROVE  \A g \in DOMAIN lista_fcb : fcb_disco[g] = lista_fcb[g]
    BY <1>1, <2>1 DEF Basico, EnDisco
  <2> QED BY <1>1, <2>1, Tipado
<1> QED BY <1>4, <1>5, <1>6

LEMMA PasoInvariante == Invariante /\ [Next]_vars => Invariante'
<1> SUFFICES ASSUME Invariante, [Next]_vars PROVE Invariante'
  OBVIOUS
<1>1. Basico'
  BY PasoBasico DEF Invariante
<1>2. ASSUME NEW f \in ARCHIVOS, NEW nuevo \in TAMANIOS[f], truncar_archivo(f, nuevo)
      PROVE  Invariante'
  <2>1. nuevo \in Nat
    BY ConstantesValidas
  <2> QED BY <1>1, <1>2, <2>1, TruncarEs, PasoAgrandar, PasoAchicar
<1>3. ASSUME UNCHANGED vars PROVE Invariante'
  <2>1. \A f, i : Lugares(f)' = Lugares(f) /\ Bloque(f, i)' = Bloque(f, i)
                  /\ PunterosDe(f)' = PunterosDe(f)
    BY <1>3 DEF Lugares, Bloque, PunterosDe, Creciendo, vars
  <2>2. SinCompartir' /\ Reservados'
    BY <1>3, <2>1 DEF SinCompartir, Reservados, Invariante, vars
  <2>3. Archivos'
    BY <1>3, <2>1 DEF Archivos, Forma, Guardado, Creciendo, Invariante, vars
  <2>4. Etapas'
    BY <1>3, <2>1 DEF Etapas, Libres, Invariante, vars
  <2>5. CeroOcupado' /\ EnCero'
    BY <1>3, <2>1 DEF CeroOcupado, EnCero, Invariante, vars
  <2> QED BY <1>1, <2>2, <2>3, <2>4, <2>5 DEF Invariante, Hipotesis
<1> QED BY <1>1, <1>2, <1>3, PasoCrear, PasoDirecto, PasoIndirecto, PasoDatos,
           PasoSincronizar, PasoTerminar, PasoDisminuir, PasoPedir, PasoEscribir, PasoCaida
        DEF Next

LEMMA SiempreInvariante ==
  ASSUME Hipotesis
  PROVE  Spec => []Invariante
<1>1. Init => Invariante
  BY InicialInvariante
<1>2. Invariante /\ [Next]_vars => Invariante'
  BY PasoInvariante
<1> QED BY <1>1, <1>2, PTL DEF Spec

\* The place of the k-th block that BloquesDe lists.
Lugar(k) == IF k = 1 THEN 1 ELSE IF k = 2 THEN 0 ELSE k - 1

LEMMA BloquesDeEs ==
  ASSUME Invariante, NEW f \in DOMAIN lista_fcb
  PROVE  /\ \A k \in DOMAIN BloquesDe(f) :
              /\ k \in Nat \ {0} /\ Lugar(k) \in Lugares(f)
              /\ BloquesDe(f)[k] = Bloque(f, Lugar(k))
         /\ \A i \in Lugares(f) : \E k \in DOMAIN BloquesDe(f) : Lugar(k) = i
<1>1. PICK x \in FCB : x = lista_fcb[f] /\ BienFormado(x)
  BY Archivo DEF Forma
<1>2. PICK c \in Nat : c = Cantidad(x)
  BY <1>1, CantidadEs DEF FCB
<1>3. PICK p : p = PunterosDe(f) /\ p \in Seq(Punteros)
               /\ Len(p) = IF c = 0 THEN 0 ELSE c - 1
  BY <1>1, <1>2, Archivo
<1>4. x.directo \in Punteros /\ x.indirecto \in Punteros
  BY DEF FCB
<1>5. x.tamanio > 0 <=> c > 0
  BY <1>1, <1>2, CantidadCero
<1>6. /\ (c > 1 \/ (hilo.archivo = f /\ hilo.paso = "datos")) <=> x.indirecto # NULO
      /\ x.indirecto # NULO => c > 0
  <2>1. hilo.archivo = f /\ hilo.paso = "datos" => c = 1
    BY <1>1, <1>2 DEF Invariante, Etapas
  <2> QED BY <1>1, <1>2, <2>1, Archivo DEF Forma
<1>7. PICK s, t : /\ s = IF c > 0 THEN <<x.directo>> ELSE <<>>
                  /\ t = IF x.indirecto # NULO THEN <<x.indirecto>> ELSE <<>>
  OBVIOUS
<1>8. BloquesDe(f) = (s \o t) \o p
  BY <1>1, <1>2, <1>3, <1>5, <1>6, <1>7 DEF BloquesDe, PunterosDe
<1>9. CASE c = 0
  <2>1. s = <<>> /\ t = <<>> /\ p = <<>>
    BY <1>3, <1>6, <1>7, <1>9
  <2>2. BloquesDe(f) = <<>>
    BY <1>8, <2>1
  <2>3. DOMAIN BloquesDe(f) = {}
    BY <2>2
  <2>4. Lugares(f) = {}
    BY <1>1, <1>2, <1>6, <1>9 DEF Lugares
  <2> QED BY <2>3, <2>4
<1>10. CASE c > 0 /\ x.indirecto = NULO
  <2>1. c = 1
    BY <1>2, <1>6, <1>10
  <2>2. s = <<x.directo>> /\ t = <<>> /\ p = <<>>
    BY <1>3, <1>7, <1>10, <2>1
  <2>3. BloquesDe(f) = <<x.directo>>
    BY <1>8, <2>2
  <2>4. DOMAIN BloquesDe(f) = {1} /\ BloquesDe(f)[1] = x.directo
    BY <2>3
  <2>5. Lugares(f) = {1}
    BY <1>1, <1>2, <1>10, <2>1 DEF Lugares
  <2>6. Bloque(f, 1) = x.directo /\ Lugar(1) = 1
    BY <1>1 DEF Bloque, Lugar
  <2> QED BY <2>4, <2>5, <2>6
<1>11. CASE c > 0 /\ x.indirecto # NULO
  <2>1. PICK q : q = s \o t
    OBVIOUS
  <2>2. q \in Seq(Punteros) /\ Len(q) = 2 /\ q[1] = x.directo /\ q[2] = x.indirecto
    <3>1. s \in Seq(Punteros) /\ Len(s) = 1 /\ s[1] = x.directo
      BY <1>4, <1>7, <1>11
    <3>2. t \in Seq(Punteros) /\ Len(t) = 1 /\ t[1] = x.indirecto
      BY <1>4, <1>7, <1>11
    <3>3. /\ q \in Seq(Punteros) /\ Len(q) = Len(s) + Len(t)
          /\ \A i \in 1 .. Len(s) + Len(t) :
               q[i] = IF i <= Len(s) THEN s[i] ELSE t[i - Len(s)]
      BY <2>1, <3>1, <3>2, ConcatProperties
    <3>4. q[1] = s[1] /\ q[2] = t[1]
      BY <3>1, <3>2, <3>3
    <3> QED BY <3>1, <3>2, <3>3, <3>4
  <2>3. PICK r : r = BloquesDe(f)
    OBVIOUS
  <2>4. r = q \o p
    BY <1>8, <2>1, <2>3
  <2>6. /\ DOMAIN r = 1 .. c + 1 /\ r[1] = x.directo /\ r[2] = x.indirecto
        /\ \A k \in 3 .. c + 1 : r[k] = p[k - 2]
    <3>1. Len(p) = c - 1
      BY <1>3, <1>11
    <3>2. /\ r \in Seq(Punteros) /\ Len(r) = Len(q) + Len(p)
          /\ \A k \in 1 .. Len(q) + Len(p) :
               r[k] = IF k <= Len(q) THEN q[k] ELSE p[k - Len(q)]
      BY <1>3, <2>2, <2>4, ConcatProperties
    <3>3. Len(q) + Len(p) = c + 1
      BY <2>2, <3>1
    <3>4. DOMAIN r = 1 .. c + 1
      BY <3>2, <3>3
    <3>5. \A k \in 1 .. c + 1 : r[k] = IF k <= 2 THEN q[k] ELSE p[k - 2]
      BY <2>2, <3>2, <3>3
    <3> QED BY <1>11, <2>2, <3>4, <3>5
  <2>7. \A i \in Nat : i \in Lugares(f) <=> i <= c
    BY <1>1, <1>2, <1>11 DEF Lugares
  <2>8. ASSUME NEW k \in 1 .. c + 1
        PROVE  k \in Nat \ {0} /\ Lugar(k) \in Lugares(f) /\ r[k] = Bloque(f, Lugar(k))
    <3>1. CASE k = 1
      BY <1>1, <1>11, <2>6, <2>7, <3>1 DEF Lugar, Bloque
    <3>2. CASE k = 2
      BY <1>1, <1>11, <2>6, <2>7, <3>2 DEF Lugar, Bloque
    <3>3. CASE k \in 3 .. c + 1
      <4>1. Lugar(k) = k - 1 /\ k - 1 \in Nat /\ k - 1 <= c
        BY <3>3 DEF Lugar
      <4>2. k - 1 \in Lugares(f)
        BY <2>7, <4>1
      <4>3. Bloque(f, k - 1) = p[(k - 1) - 1]
        BY <1>3, <3>3 DEF Bloque
      <4>4. (k - 1) - 1 = k - 2
        BY <3>3
      <4> QED BY <2>6, <3>3, <4>1, <4>2, <4>3, <4>4
    <3> QED BY <3>1, <3>2, <3>3
  <2>9. ASSUME NEW i \in Lugares(f) PROVE \E k \in 1 .. c + 1 : Lugar(k) = i
    <3>1. i \in Nat /\ i <= c
      BY <2>7, <2>9 DEF Lugares
    <3>2. CASE i = 0
      <4>1. 2 \in 1 .. c + 1 /\ Lugar(2) = 0
        BY <1>11 DEF Lugar
      <4> QED BY <3>2, <4>1
    <3>3. CASE i = 1
      <4>1. 1 \in 1 .. c + 1 /\ Lugar(1) = 1
        BY <1>11 DEF Lugar
      <4> QED BY <3>3, <4>1
    <3>4. CASE i > 1
      <4>1. i + 1 \in 1 .. c + 1 /\ Lugar(i + 1) = i
        BY <3>1, <3>4 DEF Lugar
      <4> QED BY <4>1
    <3> QED BY <3>1, <3>2, <3>3, <3>4
  <2> QED BY <2>3, <2>6, <2>8, <2>9
<1> QED BY <1>9, <1>10, <1>11

LEMMA UsosEs ==
  ASSUME Invariante, NEW b
  PROVE  /\ \A e \in Usos(b) : \E f \in DOMAIN lista_fcb : \E k \in DOMAIN BloquesDe(f) :
              e = <<f, k>> /\ BloquesDe(f)[k] = b
         /\ Usos(b) # {} <=> \E f \in DOMAIN lista_fcb : \E i \in Lugares(f) : Bloque(f, i) = b
<1>1. \A e \in Usos(b) : \E f \in DOMAIN lista_fcb : \E k \in DOMAIN BloquesDe(f) :
        e = <<f, k>> /\ BloquesDe(f)[k] = b
  BY DEF Usos
<1>2. ASSUME Usos(b) # {}
      PROVE  \E f \in DOMAIN lista_fcb : \E i \in Lugares(f) : Bloque(f, i) = b
  BY <1>1, <1>2, BloquesDeEs
<1>3. ASSUME NEW f \in DOMAIN lista_fcb, NEW i \in Lugares(f), Bloque(f, i) = b
      PROVE  Usos(b) # {}
  <2>1. PICK k \in DOMAIN BloquesDe(f) : Lugar(k) = i
    BY BloquesDeEs
  <2>2. BloquesDe(f)[k] = b
    BY <1>3, <2>1, BloquesDeEs
  <2>3. <<f, k>> \in Usos(b)
    BY <2>1, <2>2 DEF Usos
  <2> QED BY <2>3
<1> QED BY <1>1, <1>2, <1>3

\* Programs that ask for no more blocks than are free never get a block twice: not
\* while a file grows and its pointers are only in memory, not after a restart
\* that forgets them, and not for two files.
THEOREM BloquesConDuenio ==
  ASSUME Hipotesis
  PROVE  Spec => []DuenioUnico
<1>1. ASSUME Invariante PROVE DuenioUnico
  <2>1. ASSUME NEW b \in Bloques
        PROVE  Cardinality(Usos(b)) <= 1 /\ (Usos(b) # {} => b \in bitmap)
    <3>1. ASSUME NEW d \in Usos(b), NEW e \in Usos(b) PROVE d = e
      <4>1. PICK f \in DOMAIN lista_fcb : \E k \in DOMAIN BloquesDe(f) :
              d = <<f, k>> /\ BloquesDe(f)[k] = b
        BY <1>1, UsosEs
      <4>2. PICK k \in DOMAIN BloquesDe(f) : d = <<f, k>> /\ BloquesDe(f)[k] = b
        BY <4>1
      <4>3. PICK g \in DOMAIN lista_fcb : \E j \in DOMAIN BloquesDe(g) :
              e = <<g, j>> /\ BloquesDe(g)[j] = b
        BY <1>1, UsosEs
      <4>4. PICK j \in DOMAIN BloquesDe(g) : e = <<g, j>> /\ BloquesDe(g)[j] = b
        BY <4>3
      <4>5. /\ k \in Nat \ {0} /\ Lugar(k) \in Lugares(f) /\ Bloque(f, Lugar(k)) = b
            /\ j \in Nat \ {0} /\ Lugar(j) \in Lugares(g) /\ Bloque(g, Lugar(j)) = b
        BY <1>1, <4>2, <4>4, BloquesDeEs
      <4>6. f = g /\ Lugar(k) = Lugar(j)
        BY <1>1, <4>5 DEF Invariante, SinCompartir
      <4>7. k = j
        BY <4>5, <4>6 DEF Lugar
      <4> QED BY <4>2, <4>4, <4>6, <4>7
    <3>2. Cardinality(Usos(b)) <= 1
      <4>1. CASE Usos(b) = {}
        BY <4>1, FS_EmptySet
      <4>2. CASE Usos(b) # {}
        <5>1. PICK e : Usos(b) = {e}
          BY <3>1, <4>2
        <5> QED BY <5>1, FS_Singleton
      <4> QED BY <4>1, <4>2
    <3>3. Usos(b) # {} => b \in bitmap
      BY <1>1, UsosEs DEF Invariante, Reservados
    <3> QED BY <3>2, <3>3
  <2> QED BY <2>1 DEF DuenioUnico
<1> QED BY <1>1, SiempreInvariante, PTL

-----------------------------------------------------------------------------
(* Blocks without an owner *)

\* The blocks nobody owns, by places.
Huerfanos == {b \in bitmap : ~ ConDuenio(b)}

LEMMA PerdidosEs == Invariante => Perdidos = Huerfanos
<1> SUFFICES ASSUME Invariante PROVE Perdidos = Huerfanos
  OBVIOUS
<1>1. \A b : Usos(b) # {} <=> ConDuenio(b)
  BY UsosEs DEF ConDuenio
<1> QED BY <1>1 DEF Perdidos, Huerfanos

LEMMA PasoCuidado ==
  ASSUME Invariante, Next, caidas' = caidas
  PROVE  Cuidado
<1>1. Basico'
  BY PasoBasico DEF Invariante
<1>2. ASSUME NEW f \in ARCHIVOS, NEW nuevo \in TAMANIOS[f], truncar_archivo(f, nuevo)
      PROVE  Cuidado
  <2>1. nuevo \in Nat
    BY ConstantesValidas
  <2> QED BY <1>1, <1>2, <2>1, TruncarEs, PasoAgrandar, PasoAchicar
<1>3. ~ iniciar_fs
  <2>1. caidas \in Nat
    BY Tamanios, Tipado DEF Invariante
  <2> QED BY <2>1 DEF iniciar_fs
<1> QED BY <1>1, <1>2, <1>3, PasoCrear, PasoDirecto, PasoIndirecto, PasoDatos,
           PasoSincronizar, PasoTerminar, PasoDisminuir, PasoPedir, PasoEscribir
        DEF Next

\* F_TRUNCATE frees every block that the file no longer uses, and the bit of a new
\* block is set only for a file that keeps it: nothing is lost but by a program that
\* is killed in the middle of a request.
THEOREM BloquesSinFugas ==
  ASSUME Hipotesis
  PROVE  Spec => SinFugas
<1>1. ASSUME Invariante, Perdidos = Huerfanos, (Perdidos = Huerfanos)', Next, caidas' = caidas
      PROVE  Perdidos' \subseteq Perdidos
  <2>1. Cuidado
    BY <1>1, PasoCuidado
  <2>2. ASSUME NEW b \in Huerfanos' PROVE b \in Huerfanos
    <3>1. b \in bitmap' /\ ~ ConDuenio(b)'
      BY <2>2 DEF Huerfanos
    <3>2. b \in bitmap
      BY <2>1, <3>1 DEF Cuidado
    <3>3. ASSUME ConDuenio(b) PROVE FALSE
      <4>1. PICK g \in DOMAIN lista_fcb : \E i \in Lugares(g) : Bloque(g, i) = b
        BY <3>3 DEF ConDuenio
      <4>2. PICK i \in Lugares(g) : Bloque(g, i) = b
        BY <4>1
      <4>3. g \in DOMAIN lista_fcb' /\ i \in Lugares(g)' /\ Bloque(g, i)' = b
        BY <2>1, <3>1, <4>2 DEF Cuidado, Sigue
      <4> QED BY <3>1, <4>3 DEF ConDuenio
    <3> QED BY <3>2, <3>3 DEF Huerfanos
  <2> QED BY <1>1, <2>2
<1>2. Invariante /\ Perdidos = Huerfanos /\ (Perdidos = Huerfanos)' /\ [Next]_vars
        => [caidas' = caidas => Perdidos' \subseteq Perdidos]_vars
  BY <1>1
<1> QED BY <1>2, PerdidosEs, SiempreInvariante, PTL DEF Spec, SinFugas

-----------------------------------------------------------------------------
(* What the files have *)

DatosLeidos ==
  \A f \in DOMAIN fcb_disco :
    DatosDe(disco, fcb_disco[f])
      = [i \in 1 .. Cantidad(fcb_disco[f]) |-> disco[Bloque(f, i)].dato]

LEMMA DatosEs == Invariante => DatosLeidos
<1> SUFFICES ASSUME Invariante, NEW f \in DOMAIN fcb_disco
             PROVE  DatosDe(disco, fcb_disco[f])
                      = [i \in 1 .. Cantidad(fcb_disco[f]) |-> disco[Bloque(f, i)].dato]
  BY DEF DatosLeidos
<1>1. f \in DOMAIN lista_fcb /\ disco \in [Bloques -> Contenidos]
  BY Tipado DEF Invariante
<1>2. PICK x \in FCB, y \in FCB : x = lista_fcb[f] /\ y = fcb_disco[f]
  BY <1>1, Archivo
<1>3. PICK c \in Nat, m \in Nat : c = Cantidad(x) /\ m = Cantidad(y)
  BY <1>2, CantidadEs DEF FCB
<1>4. /\ m <= c
      /\ m > 0 => y.directo = x.directo
      /\ y.indirecto = IF m > 1 THEN x.indirecto ELSE NULO
      /\ \A i \in 1 .. m - 1 : Puntero(disco[y.indirecto], i) = PunterosDe(f)[i]
  BY <1>1, <1>2, <1>3, Archivo DEF Guardado
<1>5. ASSUME NEW i \in 1 .. m
      PROVE  Leer(disco, IF i = 1 THEN y.directo
                         ELSE leer_bloque_indirecto(disco, y)[i - 1]) = disco[Bloque(f, i)]
  <2>1. i \in Nat \ {0} /\ i <= c
    BY <1>3, <1>4, <1>5
  <2>2. i \in Lugares(f) /\ Bloque(f, i) \in Bloques
    BY <1>1, <1>2, <1>3, <2>1, Archivo
  <2>3. Leer(disco, Bloque(f, i)) = disco[Bloque(f, i)]
    BY <1>1, <2>2, LeerEs
  <2>4. CASE i = 1
    BY <1>2, <1>4, <1>5, <2>3, <2>4 DEF Bloque
  <2>5. CASE i # 1
    <3>1. i - 1 \in 1 .. m - 1 /\ m > 1 /\ c > 1
      BY <1>4, <1>5, <2>5
    <3>2. 0 \in Lugares(f) /\ Bloque(f, 0) = x.indirecto
      BY <1>1, <1>2, <1>3, <3>1, Archivo DEF Forma, Bloque
    <3>3. y.indirecto \in Bloques
      BY <1>1, <1>4, <3>1, <3>2, Archivo
    <3>4. leer_bloque_indirecto(disco, y)[i - 1] = Puntero(disco[y.indirecto], i - 1)
      BY <1>1, <1>3, <3>1, <3>3, LeerDirecto
    <3>5. Bloque(f, i) = PunterosDe(f)[i - 1]
      BY <2>1, <2>5 DEF Bloque
    <3> QED BY <1>4, <2>3, <2>5, <3>1, <3>4, <3>5
  <2> QED BY <2>4, <2>5
<1> QED BY <1>2, <1>3, <1>5 DEF DatosDe

\* A file whose FCB on the disk stays, and whose blocks of data nothing writes.
LEMMA DatosQuietos ==
  ASSUME Invariante, DatosLeidos, DatosLeidos', Cuidado,
         NEW f \in DOMAIN fcb_disco, f \in DOMAIN fcb_disco', fcb_disco'[f] = fcb_disco[f],
         \A i \in Lugares(f) :
           i > 0 => /\ Bloque(f, i) \in bitmap'
                    /\ disco'[Bloque(f, i)].dato = disco[Bloque(f, i)].dato
  PROVE  DatosDe(disco', fcb_disco'[f]) = DatosDe(disco, fcb_disco[f])
<1>1. f \in DOMAIN lista_fcb
  BY Tipado DEF Invariante
<1>2. PICK m \in Nat : m = Cantidad(fcb_disco[f]) /\ m <= Cantidad(lista_fcb[f])
  BY <1>1, Archivo DEF Guardado
<1>3. ASSUME NEW i \in 1 .. m
      PROVE  disco'[Bloque(f, i)'].dato = disco[Bloque(f, i)].dato
  <2>1. i \in Lugares(f) /\ i > 0
    BY <1>1, <1>2, <1>3, Archivo
  <2>2. Bloque(f, i)' = Bloque(f, i)
    BY <1>1, <2>1 DEF Cuidado, Sigue
  <2> QED BY <2>1, <2>2
<1>4. DatosDe(disco, fcb_disco[f]) = [i \in 1 .. m |-> disco[Bloque(f, i)].dato]
  BY <1>2 DEF DatosLeidos
<1>5. DatosDe(disco', fcb_disco'[f]) = [i \in 1 .. m |-> disco'[Bloque(f, i)'].dato]
  BY <1>2 DEF DatosLeidos
<1> QED BY <1>3, <1>4, <1>5

\* What the disk has of a file after a step, by what it had.
Conserva(f) ==
  LET antes   == DatosDe(disco, fcb_disco[f])
      despues == DatosDe(disco', fcb_disco'[f])
  IN  \/ despues = antes
      \/ hilo.archivo = f /\ hilo.paso = "escribir"
      \/ /\ hilo.archivo = f /\ hilo.paso \in {"actualizar", "disminuir"}
         /\ \A i \in DOMAIN despues :
              despues[i] = IF i \in DOMAIN antes THEN antes[i] ELSE "CERO"

LEMMA ConservaAlCrear ==
  ASSUME Invariante, DatosLeidos, DatosLeidos', Cuidado, NEW f \in DOMAIN fcb_disco,
         UNCHANGED fcb_disco, NEW b \in Bloques, b \notin bitmap, crear_bloque(b)
  PROVE  Conserva(f)
<1>1. f \in DOMAIN lista_fcb
  BY Tipado DEF Invariante
<1>2. \A i \in Lugares(f) : /\ Bloque(f, i) \in bitmap'
                            /\ disco'[Bloque(f, i)] = disco[Bloque(f, i)]
  BY <1>1, BloquesAlCrear
<1>3. DatosDe(disco', fcb_disco'[f]) = DatosDe(disco, fcb_disco[f])
  BY <1>2, DatosQuietos
<1> QED BY <1>3 DEF Conserva

\* There is a free block for each block that aumentar_tamanio_archivo makes.
LEMMA SiempreHayBloque ==
  ASSUME Invariante, NEW g \in ARCHIVOS,
         CrearBloqueDirecto(g) \/ CrearBloqueIndirecto(g) \/ CrearBloqueDeDatos(g)
  PROVE  /\ \E b \in Bloques : b \notin bitmap /\ crear_bloque(b)
         /\ UNCHANGED fcb_disco
<1>1. Basico
  BY DEF Invariante
<1>2. /\ hilo.archivo = g /\ hilo.faltan > 0 /\ hilo.paso \in {"aumentar", "datos"}
      /\ crear_bloque(obtener_bloque_libre) /\ UNCHANGED fcb_disco
  BY <1>1, CrearDirectoEs, CrearIndirectoEs, CrearDatosEs
<1>3. PICK n \in Nat : n = hilo.faltan
  BY <1>1, Tipado DEF Hilos
<1>4. PICK r \in Nat : r = Cardinality(Libres)
  BY <1>1, Tipado, LibreEs
<1>5. n <= r
  <2>1. CASE hilo.paso = "datos"
    BY <1>3, <1>4, <2>1 DEF Invariante, Etapas
  <2>2. CASE hilo.paso = "aumentar"
    <3>1. Necesita(lista_fcb[g], n) <= r
      BY <1>2, <1>3, <1>4, <2>2 DEF Invariante, Etapas
    <3>2. Necesita(lista_fcb[g], n) \in {n, n + 1}
      BY DEF Necesita
    <3> QED BY <3>1, <3>2
  <2> QED BY <1>2, <2>1, <2>2
<1>6. Cardinality(Libres) > 0
  BY <1>2, <1>3, <1>4, <1>5
<1>7. PICK b : b = obtener_bloque_libre
  OBVIOUS
<1>8. b \in Bloques /\ b \notin bitmap
  BY <1>6, <1>7, BloqueNuevo
<1> QED BY <1>2, <1>7, <1>8

LEMMA ConservaAlSincronizar ==
  ASSUME Invariante, DatosLeidos, DatosLeidos', Cuidado, NEW f \in DOMAIN fcb_disco,
         NEW g \in ARCHIVOS, sincronizar_punteros_bloque_indirecto(g)
  PROVE  Conserva(f)
<1>1. Basico /\ f \in DOMAIN lista_fcb
  BY Tipado DEF Invariante
<1>2. /\ g \in DOMAIN lista_fcb /\ hilo.archivo = g /\ hilo.paso = "sincronizar"
      /\ UNCHANGED <<bitmap, fcb_disco, lista_fcb, caidas>>
  BY <1>1, SincronizarEs
<1>3. PICK w \in Contenidos : escribir_en_bloque(lista_fcb[g].indirecto, w)
  BY <1>1, SincronizarEs
<1>4. Cantidad(lista_fcb[g]) > 1
  BY <1>2 DEF Invariante, Etapas
<1>5. 0 \in Lugares(g) /\ Bloque(g, 0) = lista_fcb[g].indirecto
  BY <1>2, <1>4, Archivo DEF Forma, Bloque
<1>6. ASSUME NEW i \in Lugares(f), i > 0
      PROVE  Bloque(f, i) \in bitmap' /\ disco'[Bloque(f, i)] = disco[Bloque(f, i)]
  <2>1. Bloque(f, i) \in bitmap /\ Bloque(f, i) \in Bloques
    BY <1>1, Archivo
  <2>2. Bloque(f, i) # lista_fcb[g].indirecto
    BY <1>1, <1>2, <1>5, <1>6 DEF Invariante, SinCompartir
  <2> QED BY <1>1, <1>2, <1>3, <2>1, <2>2, Tipado, EscribirEs
<1>7. DatosDe(disco', fcb_disco'[f]) = DatosDe(disco, fcb_disco[f])
  BY <1>2, <1>6, DatosQuietos
<1> QED BY <1>7 DEF Conserva

LEMMA ConservaAlEscribir ==
  ASSUME Invariante, DatosLeidos, DatosLeidos', Cuidado, NEW f \in DOMAIN fcb_disco,
         NEW g \in ARCHIVOS, EscribirBloque(g)
  PROVE  Conserva(f)
<1>1. Basico /\ f \in DOMAIN lista_fcb
  BY Tipado DEF Invariante
<1>2. /\ g \in DOMAIN lista_fcb /\ hilo.archivo = g /\ hilo.paso = "escribir"
      /\ Len(hilo.pendientes) \in Nat \ {0}
      /\ UNCHANGED <<bitmap, fcb_disco, lista_fcb, caidas>>
  BY <1>1, EscribirBloqueEs
<1>3. PICK w \in Contenidos : escribir_en_bloque(hilo.pendientes[1].bloque, w)
  BY <1>1, EscribirBloqueEs
<1>4. PICK j \in Lugares(g) : hilo.pendientes[1].bloque = Bloque(g, j)
  BY <1>2 DEF Invariante, Etapas
<1>5. CASE f = g
  BY <1>2, <1>5 DEF Conserva
<1>6. CASE f # g
  <2>1. ASSUME NEW i \in Lugares(f)
        PROVE  Bloque(f, i) \in bitmap' /\ disco'[Bloque(f, i)] = disco[Bloque(f, i)]
    <3>1. Bloque(f, i) \in bitmap /\ Bloque(f, i) \in Bloques
      BY <1>1, Archivo
    <3>2. Bloque(f, i) # Bloque(g, j)
      BY <1>1, <1>2, <1>6 DEF Invariante, SinCompartir
    <3> QED BY <1>1, <1>2, <1>3, <1>4, <3>1, <3>2, Tipado, EscribirEs
  <2>2. DatosDe(disco', fcb_disco'[f]) = DatosDe(disco, fcb_disco[f])
    BY <1>2, <2>1, DatosQuietos
  <2> QED BY <2>2 DEF Conserva
<1> QED BY <1>5, <1>6

\* The end of a truncation: the blocks that stay have what they had, and the new ones
\* are still as crear_bloque left them.
LEMMA ConservaAlTruncar ==
  ASSUME Invariante, DatosLeidos, DatosLeidos', Cuidado, NEW f \in DOMAIN fcb_disco,
         f \in DOMAIN fcb_disco', Cantidad(fcb_disco'[f]) \in Nat,
         hilo.archivo = f, hilo.paso \in {"actualizar", "disminuir"}, UNCHANGED disco,
         Cantidad(fcb_disco'[f]) <= Cantidad(lista_fcb[f]),
         \A i \in 1 .. Cantidad(fcb_disco'[f]) : Bloque(f, i) \in bitmap'
  PROVE  Conserva(f)
<1>1. f \in DOMAIN lista_fcb
  BY Tipado DEF Invariante
<1>2. PICK m \in Nat, n \in Nat, c \in Nat :
        /\ m = Cantidad(fcb_disco[f]) /\ n = Cantidad(fcb_disco'[f])
        /\ c = Cantidad(lista_fcb[f]) /\ n <= c
  BY <1>1, Archivo
<1>3. DatosDe(disco, fcb_disco[f]) = [i \in 1 .. m |-> disco[Bloque(f, i)].dato]
  BY <1>2 DEF DatosLeidos
<1>4. DatosDe(disco', fcb_disco'[f]) = [i \in 1 .. n |-> disco[Bloque(f, i)'].dato]
  BY <1>2 DEF DatosLeidos
<1>5. ASSUME NEW i \in 1 .. n
      PROVE  /\ Bloque(f, i)' = Bloque(f, i)
             /\ i \notin 1 .. m => disco[Bloque(f, i)].dato = "CERO"
  <2>1. i \in Lugares(f) /\ Bloque(f, i) \in bitmap'
    BY <1>1, <1>2, <1>5, Archivo
  <2>2. Bloque(f, i)' = Bloque(f, i)
    BY <1>1, <2>1 DEF Cuidado, Sigue
  <2>3. i \notin 1 .. m => i \in m + 1 .. c
    BY <1>2, <1>5
  <2>4. i \notin 1 .. m => disco[Bloque(f, i)].dato = "CERO"
    BY <1>1, <1>2, <2>3 DEF Invariante, EnCero
  <2> QED BY <2>2, <2>4
<1>6. PICK antes, despues : /\ antes = DatosDe(disco, fcb_disco[f])
                            /\ despues = DatosDe(disco', fcb_disco'[f])
  OBVIOUS
<1>7. \A i \in DOMAIN despues : despues[i] = IF i \in DOMAIN antes THEN antes[i] ELSE "CERO"
  BY <1>3, <1>4, <1>5, <1>6
<1> QED BY <1>6, <1>7 DEF Conserva

LEMMA ConservaAlTerminar ==
  ASSUME Invariante, DatosLeidos, DatosLeidos', Cuidado, NEW f \in DOMAIN fcb_disco,
         NEW g \in ARCHIVOS, TerminarAumento(g)
  PROVE  Conserva(f)
<1>1. Basico /\ f \in DOMAIN lista_fcb
  BY Tipado DEF Invariante
<1>2. /\ g \in DOMAIN lista_fcb /\ hilo.archivo = g /\ hilo.paso = "actualizar"
      /\ fcb_disco' = [fcb_disco EXCEPT ![g] = lista_fcb[g]]
      /\ UNCHANGED <<bitmap, disco, lista_fcb, caidas>>
  BY <1>1, TerminarEs
<1>3. CASE f # g
  BY <1>2, <1>3 DEF Conserva
<1>4. CASE f = g
  <2>1. fcb_disco'[f] = lista_fcb[f] /\ f \in DOMAIN fcb_disco'
    BY <1>2, <1>4
  <2>2. Cantidad(lista_fcb[f]) \in Nat
    BY <1>1, Archivo
  <2>3. \A i \in 1 .. Cantidad(lista_fcb[f]) : Bloque(f, i) \in bitmap'
    BY <1>1, <1>2, <2>2, Archivo
  <2>4. Cantidad(fcb_disco'[f]) \in Nat /\ Cantidad(fcb_disco'[f]) <= Cantidad(lista_fcb[f])
    BY <2>1, <2>2
  <2> QED BY <1>2, <1>4, <2>1, <2>3, <2>4, ConservaAlTruncar
<1> QED BY <1>3, <1>4

LEMMA ConservaAlDisminuir ==
  ASSUME Invariante, DatosLeidos, DatosLeidos', Cuidado, NEW f \in DOMAIN fcb_disco,
         NEW g \in ARCHIVOS, disminuir_tamanio_archivo(g)
  PROVE  Conserva(f)
<1>1. Basico /\ f \in DOMAIN lista_fcb
  BY Tipado DEF Invariante
<1>2. /\ g \in DOMAIN lista_fcb /\ hilo.archivo = g /\ hilo.paso = "disminuir"
      /\ bitmap' = bitmap \ Liberados(lista_fcb[g], hilo.punteros, hilo.faltan)
      /\ UNCHANGED <<disco, caidas>>
  BY <1>1, DisminuirEs
<1>3. PICK y \in FCB :
        /\ y.tamanio = lista_fcb[g].tamanio - hilo.faltan * BLOCK_SIZE
        /\ fcb_disco' = [fcb_disco EXCEPT ![g] = y]
  BY <1>1, DisminuirEs
<1>4. CASE f # g
  BY <1>2, <1>3, <1>4 DEF Conserva
<1>5. CASE f = g
  <2>1. fcb_disco'[f] = y /\ f \in DOMAIN fcb_disco'
    BY <1>3, <1>5
  <2>2. PICK x \in FCB : x = lista_fcb[f] /\ BienFormado(x)
    BY <1>1, Archivo DEF Forma
  <2>3. PICK n \in Nat : n = hilo.faltan
    BY <1>1, Tipado DEF Hilos
  <2>4. /\ n <= Cantidad(x) /\ Cantidad(y) = Cantidad(x) - n
    <3>1. n * BLOCK_SIZE <= x.tamanio /\ y.tamanio = x.tamanio - n * BLOCK_SIZE
      BY <1>1, <1>2, <1>3, <1>5, <2>2, <2>3 DEF Basico, Alcanza
    <3> QED BY <2>2, <2>3, <3>1, CantidadMenos
  <2>5. PICK c \in Nat, m \in Nat : c = Cantidad(x) /\ m = Cantidad(y) /\ m = c - n
    BY <2>2, <2>4, CantidadEs DEF FCB
  <2>6. ASSUME NEW i \in 1 .. m PROVE Bloque(f, i) \in bitmap'
    <3>1. i \in Lugares(f) /\ Bloque(f, i) \in bitmap
      BY <1>1, <2>2, <2>5, <2>6, Archivo
    <3>2. ASSUME Bloque(f, i) \in Liberados(lista_fcb[g], hilo.punteros, hilo.faltan)
          PROVE  FALSE
      <4>1. PICK j \in Lugares(g) : /\ Bloque(f, i) = Bloque(g, j)
                                    /\ j > 0 => j > c - n
        BY <1>2, <1>5, <2>2, <2>3, <2>5, <3>2, LiberadosEs
      <4>2. i = j
        <5>1. SinCompartir
          BY DEF Invariante
        <5>2. f \in DOMAIN lista_fcb /\ g \in DOMAIN lista_fcb
          BY <1>1, <1>2
        <5>3. i \in Lugares(f) /\ j \in Lugares(g) /\ Bloque(f, i) = Bloque(g, j)
          BY <3>1, <4>1
        <5>4. \A u \in Lugares(f), v \in Lugares(g) : Bloque(f, u) = Bloque(g, v) => u = v
          BY <5>1, <5>2 DEF SinCompartir
        <5> QED BY <5>3, <5>4
      <4>3. i > 0 /\ i <= c - n
        BY <2>5, <2>6
      <4>4. j > 0 => j > c - n
        BY <4>1
      <4> QED BY <2>5, <2>6, <4>2, <4>3, <4>4
    <3> QED BY <1>2, <3>1, <3>2
  <2>7. m <= c
    BY <2>5
  <2> QED BY <1>2, <1>5, <2>1, <2>2, <2>5, <2>6, <2>7, ConservaAlTruncar
<1> QED BY <1>4, <1>5

LEMMA PasoConserva ==
  ASSUME Invariante, DatosLeidos, DatosLeidos', Next, NEW f \in DOMAIN fcb_disco
  PROVE  Conserva(f)
<1>1. Basico
  BY DEF Invariante
<1>2. CASE iniciar_fs
  BY <1>2 DEF iniciar_fs, Conserva
<1>3. ASSUME NEW g \in ARCHIVOS, crear_archivo(g) PROVE Conserva(f)
  <2>1. disco' = disco /\ fcb_disco'[f] = fcb_disco[f]
    <3>1. g \notin DOMAIN fcb_disco
      BY <1>1, <1>3 DEF crear_archivo, Basico, EnDisco
    <3> QED BY <1>3, <3>1 DEF crear_archivo
  <2> QED BY <2>1 DEF Conserva
<1>4. ASSUME NEW g \in ARCHIVOS, NEW nuevo \in TAMANIOS[g], truncar_archivo(g, nuevo)
      PROVE  Conserva(f)
  BY <1>4 DEF truncar_archivo, Conserva
<1>5. ASSUME NEW g \in ARCHIVOS, NEW k \in Bloques, NEW n \in 1 .. BLOCK_COUNT,
             NEW v \in VALORES, escribir_archivo(g, k, n, v)
      PROVE  Conserva(f)
  BY <1>5 DEF escribir_archivo, Conserva
<1>6. ASSUME caidas' = caidas PROVE Cuidado
  BY <1>6, PasoCuidado
<1>7. ASSUME NEW g \in ARCHIVOS,
             CrearBloqueDirecto(g) \/ CrearBloqueIndirecto(g) \/ CrearBloqueDeDatos(g)
      PROVE  Conserva(f)
  <2>1. caidas' = caidas
    BY <1>7 DEF CrearBloqueDirecto, CrearBloqueIndirecto, CrearBloqueDeDatos
  <2>2. PICK b \in Bloques : b \notin bitmap /\ crear_bloque(b)
    BY <1>7, SiempreHayBloque
  <2>3. UNCHANGED fcb_disco
    BY <1>7, SiempreHayBloque
  <2> QED BY <1>6, <2>1, <2>2, <2>3, ConservaAlCrear
<1>8. ASSUME NEW g \in ARCHIVOS,
             \/ sincronizar_punteros_bloque_indirecto(g) \/ EscribirBloque(g)
             \/ TerminarAumento(g) \/ disminuir_tamanio_archivo(g)
      PROVE  Conserva(f)
  <2>1. caidas' = caidas
    BY <1>8 DEF sincronizar_punteros_bloque_indirecto, EscribirBloque, TerminarAumento,
                disminuir_tamanio_archivo
  <2> QED BY <1>6, <1>8, <2>1, ConservaAlSincronizar, ConservaAlEscribir, ConservaAlTerminar,
             ConservaAlDisminuir
<1> QED BY <1>2, <1>3, <1>4, <1>5, <1>7, <1>8 DEF Next

\* The disk has of each file what its last F_WRITE and F_TRUNCATE left: no request of
\* another file writes its blocks, and a restart finds it as it was before a
\* truncation or after it, with zeros in what is new.
THEOREM ContenidoConservado ==
  ASSUME Hipotesis
  PROVE  Spec => ArchivosConservados
<1>1. ASSUME Invariante, DatosLeidos, DatosLeidos', Next, NEW f \in DOMAIN fcb_disco
      PROVE  LET antes   == DatosDe(disco, fcb_disco[f])
                 despues == DatosDe(disco', fcb_disco'[f])
             IN  \/ despues = antes
                 \/ hilo.archivo = f /\ hilo.paso = "escribir"
                 \/ /\ hilo.archivo = f /\ hilo.paso \in {"actualizar", "disminuir"}
                    /\ \A i \in DOMAIN despues :
                         despues[i] = IF i \in DOMAIN antes THEN antes[i] ELSE "CERO"
  BY <1>1, PasoConserva DEF Conserva
<1>2. Invariante /\ DatosLeidos /\ DatosLeidos' /\ [Next]_vars
        => [\A f \in DOMAIN fcb_disco :
              LET antes   == DatosDe(disco, fcb_disco[f])
                  despues == DatosDe(disco', fcb_disco'[f])
              IN  \/ despues = antes
                  \/ hilo.archivo = f /\ hilo.paso = "escribir"
                  \/ /\ hilo.archivo = f /\ hilo.paso \in {"actualizar", "disminuir"}
                     /\ \A i \in DOMAIN despues :
                          despues[i] = IF i \in DOMAIN antes THEN antes[i] ELSE "CERO"]_vars
  BY <1>1
<1> QED BY <1>2, DatosEs, SiempreInvariante, PTL DEF Spec, ArchivosConservados
==============================================================================
