-------------------------- MODULE CompactacionProofs --------------------------
(***************************************************************************)
(* The threads of the kernel, the memory module, the CPU and the file      *)
(* system agree on the tables of segments and on what may be moved, for    *)
(* every size of memory, set of processes and algorithm.                   *)
(***************************************************************************)
EXTENDS Compactacion, MemoriaProofs, SecuenciasProofs

\* The thread of the CPU from its lock of mutex_socket_memoria to its unlock; that
\* of the long-term scheduler, the same.
EnMemoria == {"respuesta", "respuesta sin memoria", "compactar", "compactando", "reenviado"}
Ocupado   == hilo_cpu.paso \in EnMemoria
Pasos     == EnMemoria \cup {"recibir", "pedir", "transferir", "sin memoria", "desbloquear"}

PideCreacion == \E i \in IDS, t \in TAMANIOS : hilo_cpu.pide = <<"CREATE_SEGMENT", i, t>>
PideBorrado  == \E i \in IDS : hilo_cpu.pide = <<"DELETE_SEGMENT", i>>
PideEliminar == hilo_cpu.pide = <<"DELETE_TABLE">>

\* The two threads; the process that one of them serves is where it left it.
Hilos ==
  /\ estado \in [PIDS -> {"NEW", "READY", "EXEC", "BLOCK", "EXIT"}]
  /\ DOMAIN tabla_segmento = PIDS
  /\ \A p \in PIDS : DOMAIN tabla_segmento[p] \subseteq Descriptores
  /\ \A p, q \in PIDS : estado[p] = "EXEC" /\ estado[q] = "EXEC" => p = q
  /\ DOMAIN hilo_cpu = {"paso", "pid", "pide"} /\ hilo_cpu.paso \in Pasos
  /\ hilo_cpu.paso = "recibir" <=> hilo_cpu = Libre
  /\ hilo_cpu.paso # "recibir" => hilo_cpu.pid \in PIDS
  /\ hilo_cpu.paso \notin {"recibir", "desbloquear"} => estado[hilo_cpu.pid] = "EXEC"
  /\ hilo_cpu.paso \in {"pedir", "respuesta"} => PideCreacion \/ PideBorrado \/ PideEliminar
  /\ hilo_cpu.paso \in {"sin memoria", "respuesta sin memoria"} => PideEliminar
  /\ hilo_cpu.paso \in {"compactar", "compactando", "reenviado"} => PideCreacion
  /\ hilo_largo.paso = "respuesta" => hilo_largo.pid \in PIDS /\ estado[hilo_largo.pid] = "NEW"
  /\ hilo_largo.paso # "respuesta" => hilo_largo = Libre

\* One of them at most talks to memory, and that one holds the mutex until the other
\* is robbed of it.
Candados ==
  /\ mutex_socket_memoria \in {NADIE, "cpu", "largo"}
  /\ puede_compactar \in BOOLEAN /\ ajeno \in BOOLEAN
  /\ ~ (Ocupado /\ hilo_largo.paso = "respuesta")
  /\ ~ajeno => /\ mutex_socket_memoria = "cpu" <=> Ocupado
               /\ mutex_socket_memoria = "largo" <=> hilo_largo.paso = "respuesta"

\* The request of the thread of the CPU, as it is sent.
Enviado ==
  \/ \E i \in IDS, t \in TAMANIOS : /\ hilo_cpu.pide = <<"CREATE_SEGMENT", i, t>>
                                    /\ pedido = <<"CREATE_SEGMENT", hilo_cpu.pid, i, t>>
  \/ \E i \in IDS : /\ hilo_cpu.pide = <<"DELETE_SEGMENT", i>>
                    /\ pedido = <<"DELETE_SEGMENT", hilo_cpu.pid, i>>
  \/ PideEliminar /\ pedido = <<"DELETE_TABLE", hilo_cpu.pid>>

\* What is in the socket, who sent it and what memory was doing then.
Preguntado ==
  pedido # NADIE =>
    /\ contestacion = NADIE
    /\ \/ /\ hilo_largo.paso = "respuesta" /\ pedido = <<"CREATE_TABLE", hilo_largo.pid>>
          /\ fase = "libre" /\ hilo_largo.pid \notin DOMAIN tablas
       \/ hilo_cpu.paso = "compactando" /\ pedido = <<"COMPACT">> /\ fase = "compactar"
       \/ /\ Enviado /\ hilo_cpu.pid \in DOMAIN tablas
          /\ tabla_segmento[hilo_cpu.pid] = serializar_tabla_segmentos(hilo_cpu.pid)
          /\ \/ hilo_cpu.paso \in {"respuesta", "respuesta sin memoria"} /\ fase = "libre"
             \/ hilo_cpu.paso = "reenviado" /\ fase = "reenviar"

TablaNueva(p) == /\ p \in DOMAIN tablas
                 /\ contestacion.tablas[p] = serializar_tabla_segmentos(p)

Contestado ==
  contestacion # NADIE =>
    /\ pedido = NADIE
    /\ \/ hilo_largo.paso = "respuesta" /\ fase = "libre" /\ TablaNueva(hilo_largo.pid)
       \/ /\ contestacion.codigo \in {"SEGMENT_CREATED", "SEGMENT_DELETED"}
          /\ hilo_cpu.paso \in {"respuesta", "reenviado"} /\ fase = "libre"
          /\ TablaNueva(hilo_cpu.pid) /\ ~ PideEliminar
       \/ /\ contestacion.codigo = "OUT_OF_MEMORY"
          /\ hilo_cpu.paso \in {"respuesta", "reenviado"} /\ fase = "libre"
          /\ hilo_cpu.pid \in DOMAIN tablas /\ ~ PideEliminar
          /\ tabla_segmento[hilo_cpu.pid] = serializar_tabla_segmentos(hilo_cpu.pid)
       \/ /\ contestacion.codigo = "TABLE_DELETED"
          /\ hilo_cpu.paso \in {"respuesta", "respuesta sin memoria"} /\ fase = "libre"
          /\ hilo_cpu.pid \notin DOMAIN tablas /\ PideEliminar
       \/ /\ contestacion.codigo = "NEEDS_TO_COMPACT" /\ PideCreacion
          /\ \/ hilo_cpu.paso = "respuesta" /\ fase = "compactar"
             \/ hilo_cpu.paso = "reenviado" /\ fase = "colgado"
       \/ /\ contestacion.codigo = "COMPACTED"
          /\ hilo_cpu.paso = "compactando" /\ fase = "reenviar"
          /\ DOMAIN contestacion.tablas = DOMAIN tablas
          /\ \A q \in DOMAIN tablas : TablaNueva(q)

\* Memory is free unless it serves the thread of the CPU.
Fases ==
  /\ fase # "caido"
  /\ fase = "liberando" =>
       /\ hilo_cpu.paso \in {"respuesta", "respuesta sin memoria"} /\ PideEliminar
       /\ hilo_cpu.pid \notin DOMAIN tablas /\ contestacion = NADIE
  /\ fase = "compactar" => hilo_cpu.paso \in {"respuesta", "compactar", "compactando"}
  /\ fase = "compactando" => hilo_cpu.paso = "compactando" /\ contestacion = NADIE
  /\ fase = "reenviar" => hilo_cpu.paso \in {"compactando", "reenviado"}
  /\ fase = "colgado" => hilo_cpu.paso \in {"reenviado", "compactar"}
  /\ hilo_cpu.paso = "compactar" => fase \in {"compactar", "colgado"}

\* The processes that have a table, and the copies of it, save those of the process
\* a thread is talking to memory about, and all while they are moved.
Copias ==
  /\ \A q \in PIDS :
       \/ hilo_largo.paso = "respuesta" /\ q = hilo_largo.pid
       \/ /\ hilo_cpu.paso \in {"respuesta", "respuesta sin memoria"} /\ PideEliminar
          /\ q = hilo_cpu.pid
       \/ q \in DOMAIN tablas <=> estado[q] \in {"READY", "EXEC", "BLOCK"}
  /\ \A q \in DOMAIN tablas :
       \/ fase = "compactando" \/ (fase = "reenviar" /\ hilo_cpu.paso = "compactando")
       \/ hilo_largo.paso = "respuesta" /\ q = hilo_largo.pid
       \/ Ocupado /\ q = hilo_cpu.pid
       \/ tabla_segmento[q] = serializar_tabla_segmentos(q)
  /\ \A p \in PIDS : estado[p] = "EXEC" /\ hilo_cpu.paso \in {"recibir", "desbloquear"} =>
       contexto = serializar_tabla_segmentos(p)

\* puede_compactar is with the only transfer there is, or with a compaction; a
\* process in a transfer is in BLOCK, and its bytes are where the MMU said.
Transfieren ==
  /\ puede_compactar <=> /\ transferencias = {}
                         /\ hilo_cpu.paso \notin {"compactando", "reenviado"}
                         /\ fase # "colgado"
  /\ transferencias # {} => /\ hilo_cpu.paso \notin {"compactando", "reenviado"}
                            /\ fase # "colgado"
  /\ \A t, u \in transferencias : t = u
  /\ \A t \in transferencias : t[1] \in PIDS /\ estado[t[1]] = "BLOCK"
  /\ TransferenciaQuieta

InvarianteTodo == /\ Invariante /\ Hilos /\ Candados /\ Preguntado /\ Contestado
                  /\ Fases /\ Copias /\ Transfieren

-----------------------------------------------------------------------------
(* Operators *)

\* The parts of a logical address.
LEMMA Direccion ==
  ASSUME NEW T \in Nat, T > 0
  PROVE  /\ \A a \in Nat : /\ a \div T \in Nat /\ a % T \in 0 .. T - 1
                           /\ a = (a \div T) * T + (a % T)
         /\ \A a \in Nat, o \in 0 .. T - 1 : (a * T + o) \div T = a
<1>1. ASSUME NEW a \in Nat
      PROVE  /\ a \div T \in Nat /\ a % T \in 0 .. T - 1
             /\ a = (a \div T) * T + (a % T)
  <2>1. a \div T \in Int
    OBVIOUS
  <2>2. a \div T >= 0
    OBVIOUS
  <2>3. a % T \in 0 .. T - 1
    OBVIOUS
  <2>4. a = (a \div T) * T + (a % T)
    OBVIOUS
  <2> QED BY <2>1, <2>2, <2>3, <2>4
<1>2. ASSUME NEW a \in Nat, NEW o \in 0 .. T - 1
      PROVE  (a * T + o) \div T = a
  <2>1. a * T + o \in Nat
    OBVIOUS
  <2>2. PICK q \in Nat : q = (a * T + o) \div T
    BY <1>1, <2>1
  <2>3. PICK r \in 0 .. T - 1 : a * T + o = q * T + r
    BY <1>1, <2>1, <2>2
  <2>4. ASSUME q < a PROVE FALSE
    <3>1. PICK k \in Nat : a = q + 1 + k
      <4>1. a - q - 1 \in Nat
        BY <2>4
      <4> QED BY <4>1
    <3>2. a * T = q * T + T + k * T
      BY <3>1
    <3>3. k * T \in Nat /\ q * T \in Nat
      OBVIOUS
    <3> QED BY <2>3, <3>2, <3>3
  <2>5. ASSUME a < q PROVE FALSE
    <3>1. PICK k \in Nat : q = a + 1 + k
      <4>1. q - a - 1 \in Nat
        BY <2>5
      <4> QED BY <4>1
    <3>2. q * T = a * T + T + k * T
      BY <3>1
    <3>3. k * T \in Nat /\ a * T \in Nat
      OBVIOUS
    <3> QED BY <2>3, <3>2, <3>3
  <2> QED BY <2>2, <2>4, <2>5
<1> QED BY <1>1, <1>2

\* The code of a request and the process it is about, before its other arguments.
LEMMA Sobre ==
  ASSUME NEW a, NEW p, NEW i, NEW t
  PROVE  /\ <<a, p>> \o Tail(<<a, i, t>>) = <<a, p, i, t>>
         /\ <<a, p>> \o Tail(<<a, i>>) = <<a, p, i>>
         /\ <<a, p>> \o Tail(<<a>>) = <<a, p>>
<1> DEFINE S == {a, p, i, t}
          q == <<a, p>>
<1>1. ASSUME NEW s \in Seq(S), s # <<>>
      PROVE  /\ q \o Tail(s) \in Seq(S)
             /\ Len(q \o Tail(s)) = Len(s) + 1
             /\ (q \o Tail(s))[1] = a /\ (q \o Tail(s))[2] = p
             /\ \A n \in 3 .. Len(s) + 1 : (q \o Tail(s))[n] = s[n - 1]
  <2>1. /\ q \in Seq(S) /\ Len(q) = 2 /\ q[1] = a /\ q[2] = p
    OBVIOUS
  <2>2. /\ Tail(s) \in Seq(S) /\ Len(Tail(s)) = Len(s) - 1
        /\ \A n \in 1 .. Len(Tail(s)) : Tail(s)[n] = s[n + 1]
    BY <1>1, HeadTailProperties
  <2>3. Len(s) \in Nat /\ Len(s) > 0
    BY <1>1, LenProperties, EmptySeq
  <2> HIDE DEF q, S
  <2>4. /\ q \o Tail(s) \in Seq(S) /\ Len(q \o Tail(s)) = Len(q) + Len(Tail(s))
        /\ \A n \in 1 .. Len(q) + Len(Tail(s)) : (q \o Tail(s))[n] =
             IF n <= Len(q) THEN q[n] ELSE Tail(s)[n - Len(q)]
    BY <2>1, <2>2, ConcatProperties
  <2> QED BY <2>1, <2>2, <2>3, <2>4
<1>2. ASSUME NEW s \in Seq(S), s # <<>>, NEW u \in Seq(S), Len(u) = Len(s) + 1,
             u[1] = a, u[2] = p, \A n \in 3 .. Len(u) : u[n] = s[n - 1]
      PROVE  q \o Tail(s) = u
  <2>1. Len(s) \in Nat
    BY <1>2, LenProperties
  <2>2. \A n \in 1 .. Len(u) : (q \o Tail(s))[n] = u[n]
    BY <1>1, <1>2, <2>1
  <2> HIDE DEF q, S
  <2> QED BY <1>1, <1>2, <2>1, <2>2, SeqEqual
<1>3. q \o Tail(<<a, i, t>>) = <<a, p, i, t>>
  <2>1. /\ <<a, i, t>> \in Seq(S) /\ <<a, i, t>> # <<>>
        /\ <<a, p, i, t>> \in Seq(S)
    OBVIOUS
  <2>2. /\ Len(<<a, p, i, t>>) = Len(<<a, i, t>>) + 1
        /\ <<a, p, i, t>>[1] = a /\ <<a, p, i, t>>[2] = p
        /\ \A n \in 3 .. Len(<<a, p, i, t>>) : <<a, p, i, t>>[n] = <<a, i, t>>[n - 1]
    OBVIOUS
  <2> HIDE DEF q, S
  <2> QED BY <1>2, <2>1, <2>2, Zenon
<1>4. q \o Tail(<<a, i>>) = <<a, p, i>>
  <2>1. /\ <<a, i>> \in Seq(S) /\ <<a, i>> # <<>>
        /\ <<a, p, i>> \in Seq(S)
    OBVIOUS
  <2>2. /\ Len(<<a, p, i>>) = Len(<<a, i>>) + 1
        /\ <<a, p, i>>[1] = a /\ <<a, p, i>>[2] = p
        /\ \A n \in 3 .. Len(<<a, p, i>>) : <<a, p, i>>[n] = <<a, i>>[n - 1]
    OBVIOUS
  <2> HIDE DEF q, S
  <2> QED BY <1>2, <2>1, <2>2, Zenon
<1>5. q \o Tail(<<a>>) = <<a, p>>
  <2>1. /\ <<a>> \in Seq(S) /\ <<a>> # <<>>
        /\ <<a, p>> \in Seq(S)
    OBVIOUS
  <2>2. /\ Len(<<a, p>>) = Len(<<a>>) + 1
        /\ <<a, p>>[1] = a /\ <<a, p>>[2] = p
        /\ \A n \in 3 .. Len(<<a, p>>) : <<a, p>>[n] = <<a>>[n - 1]
    OBVIOUS
  <2> HIDE DEF q, S
  <2> QED BY <1>2, <2>1, <2>2, Zenon
<1> QED BY <1>3, <1>4, <1>5

\* A copy of a table: its descriptors and their segments.
LEMMA Serializada ==
  ASSUME NEW p
  PROVE  /\ DOMAIN serializar_tabla_segmentos(p) = tablas[p]
         /\ \A d \in tablas[p] : serializar_tabla_segmentos(p)[d] = segmentos[d]
BY DEF serializar_tabla_segmentos, Restrict

\* What memory's invariant says to the other components.
LEMMA Tablas ==
  ASSUME Invariante
  PROVE  /\ DOMAIN tablas \subseteq PIDS
         /\ \A p \in DOMAIN tablas : /\ tablas[p] \subseteq Activos
                                     /\ tablas[p] \subseteq Descriptores
                                     /\ Compartido \in tablas[p]
         /\ \A d \in Activos : /\ segmentos[d] \in Segmento
                               /\ segmentos[d].segmento_id \in IDS \cup {0}
                               /\ d # Compartido => segmentos[d].segmento_id \in IDS
BY DEF Invariante, TypeOK, TablasConsistentes, Segmento

\* The transfers between the translation of their address and the answer of the
\* file system.
EnCurso == transferencias \cup
           IF hilo_cpu.paso = "transferir" THEN {<<hilo_cpu.pid, hilo_cpu.pide>>} ELSE {}

\* The segments of p are where they were.
Intacta(p) == /\ p \in DOMAIN tablas => p \in DOMAIN tablas'
              /\ tablas'[p] = tablas[p]
              /\ \A d \in tablas[p] : segmentos'[d] = segmentos[d]

LEMMA IntactaSerializa ==
  ASSUME NEW p, Intacta(p)
  PROVE  serializar_tabla_segmentos(p)' = serializar_tabla_segmentos(p)
BY DEF Intacta, serializar_tabla_segmentos, Restrict

LEMMA SonDeSigue ==
  ASSUME NEW p, NEW dir, NEW f, NEW n, SonDe(p, dir, f, n), Intacta(p),
         fase' \notin {"compactando", "caido"}
  PROVE  SonDe(p, dir, f, n)'
BY DEF SonDe, Intacta

LEMMA QuietasSiguen ==
  ASSUME TransferenciaQuieta, EnCurso' \subseteq EnCurso,
         fase' \notin {"compactando", "caido"}, \A t \in EnCurso : Intacta(t[1])
  PROVE  TransferenciaQuieta'
<1>1. ASSUME NEW t, t \in EnCurso'
      PROVE  SonDe(t[1], t[2].logica, t[2].fisica, t[2].largo)'
  <2>1. SonDe(t[1], t[2].logica, t[2].fisica, t[2].largo) /\ Intacta(t[1])
    BY <1>1 DEF TransferenciaQuieta, EnCurso
  <2> QED BY <2>1, SonDeSigue
<1> QED BY <1>1 DEF TransferenciaQuieta, EnCurso

\* A step of the kernel, of the CPU or of the file system: memory stays as it is.
LEMMA MemoriaQuieta ==
  ASSUME InvarianteTodo, UNCHANGED memoria
  PROVE  /\ Invariante'
         /\ UNCHANGED <<fase, tablas, segmentos>>
         /\ \A p : serializar_tabla_segmentos(p)' = serializar_tabla_segmentos(p)
         /\ EnCurso' \subseteq EnCurso => TransferenciaQuieta'
<1>1. Invariante' /\ UNCHANGED <<fase, tablas, segmentos>>
  BY PasoValido DEF InvarianteTodo, memoria, vars
<1>2. \A p : serializar_tabla_segmentos(p)' = serializar_tabla_segmentos(p)
  BY <1>1 DEF serializar_tabla_segmentos
<1>3. ASSUME EnCurso' \subseteq EnCurso PROVE TransferenciaQuieta'
  <2>1. TransferenciaQuieta
    BY DEF InvarianteTodo, Transfieren
  <2>2. CASE EnCurso = {}
    BY <1>3, <2>2 DEF TransferenciaQuieta, EnCurso
  <2>3. CASE EnCurso # {}
    <3>1. fase \notin {"compactando", "caido"}
      BY <2>1, <2>3 DEF TransferenciaQuieta, EnCurso, SonDe
    <3>2. \A t \in EnCurso : Intacta(t[1])
      BY <1>1 DEF Intacta
    <3> QED BY <1>1, <1>3, <2>1, <3>1, <3>2, QuietasSiguen
  <2> QED BY <2>2, <2>3
<1> QED BY <1>1, <1>2, <1>3

\* One value of a function changes.
LEMMA Cambia ==
  ASSUME NEW D, NEW S, NEW f \in [D -> S], NEW q \in D, NEW v \in S,
         NEW g, g = [f EXCEPT ![q] = v]
  PROVE  /\ g \in [D -> S] /\ g[q] = v
         /\ \A r \in D \ {q} : g[r] = f[r]
OBVIOUS

\* What a program reaches through the MMU is in the segment it names.
LEMMA Alcance ==
  ASSUME Invariante, fase \notin {"compactando", "caido"}, NEW p, p \in DOMAIN tablas,
         NEW tabla, tabla = serializar_tabla_segmentos(p),
         NEW dir \in Logicas(tabla), NEW n \in Largos,
         traducir_a_direccion_fisica(dir, tabla, n) # -1
  PROVE  SonDe(p, dir, traducir_a_direccion_fisica(dir, tabla, n), n)
<1> DEFINE T == TAM_MAX_SEGMENTO
<1>1. T \in Nat /\ T > 0
  BY TamanioMaximo
<1>2. /\ DOMAIN tabla = tablas[p] /\ \A d \in tablas[p] : tabla[d] = segmentos[d]
  BY Serializada
<1>3. /\ tablas[p] \subseteq Nat
      /\ \A d \in tablas[p] : segmentos[d] \in Segmento /\ segmentos[d].segmento_id \in Nat
  <2>1. tablas[p] \subseteq Descriptores /\ tablas[p] \subseteq Activos
    BY Tablas
  <2>2. \A d \in Activos : segmentos[d] \in Segmento /\ segmentos[d].segmento_id \in IDS \cup {0}
    BY Tablas
  <2>3. Descriptores \subseteq Nat
    BY TamaniosValidos DEF Descriptores
  <2>4. IDS \cup {0} \subseteq Nat
    BY NombresDistintos
  <2> QED BY <2>1, <2>2, <2>3, <2>4
<1>4. PICK a \in tablas[p], o \in 0 .. T - 1 : dir = segmentos[a].segmento_id * T + o
  BY <1>2 DEF Logicas
<1>5. dir \in Nat
  <2>1. PICK k \in Nat : k = segmentos[a].segmento_id
    BY <1>3
  <2>2. k * T \in Nat
    BY <1>1, <2>1
  <2>3. dir = k * T + o
    BY <1>4, <2>1
  <2> QED BY <2>2, <2>3, <1>1
<1>6. PICK k \in Nat : /\ k = dir \div T /\ dir % T \in 0 .. T - 1 /\ dir = k * T + (dir % T)
                       /\ k = segmentos[a].segmento_id
  <2>1. /\ dir \div T \in Nat /\ dir % T \in 0 .. T - 1
        /\ dir = (dir \div T) * T + (dir % T)
    BY <1>1, <1>5, Direccion
  <2>2. segmentos[a].segmento_id \in Nat
    BY <1>3
  <2>3. dir \div T = segmentos[a].segmento_id
    BY <1>1, <1>4, <2>2, Direccion
  <2> QED BY <2>1, <2>3
<1> DEFINE I == {d \in DOMAIN tabla : tabla[d].segmento_id = dir \div T}
<1>7. I = {d \in tablas[p] : segmentos[d].segmento_id = k}
  BY <1>2, <1>6
<1>8. I \in SUBSET Nat /\ a \in I
  BY <1>3, <1>6, <1>7
<1>9. PICK m \in I : \A e \in I : m <= e
  <2> HIDE DEF I
  <2> QED BY <1>8, MinimoExiste
<1>10. (CHOOSE d \in I : \A e \in I : d <= e) = m
  <2>1. \A d \in I : (\A e \in I : d <= e) => d = m
    BY <1>8, <1>9
  <2> HIDE DEF I
  <2> QED BY <1>9, <2>1
<1>11. obtener_segmento(dir, tabla) = segmentos[m]
  BY <1>2, <1>7, <1>10 DEF obtener_segmento
<1>12. PICK s \in Segmento : s = segmentos[m]
  BY <1>3, <1>7, <1>9
<1>13. PICK f : f = traducir_a_direccion_fisica(dir, tabla, n)
  OBVIOUS
<1>14. (dir % T) + n <= s.tam /\ f = s.inicio + (dir % T)
  <2>1. s.tam \in Nat /\ s.inicio \in Nat /\ n \in Nat
    BY <1>12, Naturales, TamanioMaximo DEF Largos
  <2>2. PICK r \in 0 .. T - 1 : r = dir % T
    BY <1>6
  <2>3. f = IF r + n > s.tam THEN -1 ELSE s.inicio + r
    BY <1>11, <1>12, <1>13, <2>2 DEF traducir_a_direccion_fisica
  <2>4. f # -1
    BY <1>13
  <2> QED BY <2>1, <2>2, <2>3, <2>4
<1>15. m \in tablas[p] /\ s.segmento_id = k
  BY <1>7, <1>9, <1>12
<1>16. dir - s.segmento_id * T = dir % T
  <2>1. PICK r \in 0 .. T - 1 : r = dir % T /\ dir = k * T + r
    BY <1>6
  <2>2. k * T \in Nat
    BY <1>1
  <2>3. dir - k * T = r
    BY <2>1, <2>2
  <2> QED BY <1>15, <2>1, <2>3
<1>17. \A e \in tablas[p] : segmentos[e].segmento_id = segmentos[m].segmento_id => m <= e
  BY <1>7, <1>9, <1>12, <1>15
<1>18. dir % T >= 0
  BY <1>1, <1>6
<1>19. SonDe(p, dir, f, n)
  BY <1>12, <1>14, <1>15, <1>16, <1>17, <1>18 DEF SonDe
<1> QED BY <1>13, <1>19

\* While nobody holds mutex_socket_memoria nobody talks to memory.
LEMMA Callada ==
  ASSUME InvarianteTodo, ~ajeno, mutex_socket_memoria = NADIE
  PROVE  /\ ~ Ocupado /\ hilo_largo = Libre
         /\ pedido = NADIE /\ contestacion = NADIE /\ fase = "libre"
<1>1. ~ Ocupado /\ hilo_largo = Libre /\ hilo_largo.paso # "respuesta"
  BY NombresDistintos DEF InvarianteTodo, Candados, Hilos
<1>2. pedido = NADIE /\ contestacion = NADIE
  BY <1>1 DEF InvarianteTodo, Preguntado, Contestado, Ocupado, EnMemoria
<1>3. fase = "libre"
  BY <1>1 DEF InvarianteTodo, Invariante, TypeOK, Fases, Ocupado, EnMemoria
<1> QED BY <1>1, <1>2, <1>3

\* An answer is for the thread that waits for one.
LEMMA Respondido ==
  ASSUME InvarianteTodo, contestacion # NADIE
  PROVE  /\ pedido = NADIE
         /\ hilo_largo.paso = "respuesta" =>
              /\ ~ Ocupado /\ fase = "libre" /\ hilo_largo.pid \in DOMAIN tablas
              /\ contestacion.tablas[hilo_largo.pid] =
                   serializar_tabla_segmentos(hilo_largo.pid)
         /\ Ocupado =>
              /\ hilo_largo.paso # "respuesta"
              /\ contestacion.codigo \in {"SEGMENT_CREATED", "SEGMENT_DELETED"} =>
                   /\ fase = "libre" /\ hilo_cpu.pid \in DOMAIN tablas
                   /\ contestacion.tablas[hilo_cpu.pid] =
                        serializar_tabla_segmentos(hilo_cpu.pid)
              /\ contestacion.codigo = "NEEDS_TO_COMPACT" =>
                   /\ PideCreacion
                   /\ \/ hilo_cpu.paso = "respuesta" /\ fase = "compactar"
                      \/ hilo_cpu.paso = "reenviado" /\ fase = "colgado"
              /\ contestacion.codigo = "COMPACTED" =>
                   /\ hilo_cpu.paso = "compactando" /\ fase = "reenviar"
                   /\ DOMAIN contestacion.tablas = DOMAIN tablas
                   /\ \A q \in DOMAIN tablas :
                        contestacion.tablas[q] = serializar_tabla_segmentos(q)
BY DEF InvarianteTodo, Contestado, Candados, Ocupado, EnMemoria, TablaNueva

LEMMA PasoPedirTabla ==
  ASSUME InvarianteTodo, ~ajeno, NEW p \in PIDS, PedirTabla(p)
  PROVE  InvarianteTodo'
<1> USE DEF PedirTabla, Bloquear, kernel, mutexes, socket
<1>1. /\ Invariante' /\ UNCHANGED <<fase, tablas, segmentos>>
      /\ \A q : serializar_tabla_segmentos(q)' = serializar_tabla_segmentos(q)
      /\ EnCurso' \subseteq EnCurso => TransferenciaQuieta'
  BY MemoriaQuieta
<1>2. Hilos'
  BY <1>1 DEF InvarianteTodo, Hilos, PideCreacion, PideBorrado, PideEliminar
<1>3. Candados'
  BY <1>1, NombresDistintos DEF InvarianteTodo, Candados, Ocupado
<1>4. Preguntado'
  <2>1. contestacion' = NADIE /\ fase' = "libre" /\ hilo_largo'.paso = "respuesta"
        /\ hilo_largo'.pid = p /\ pedido' = <<"CREATE_TABLE", p>>
    BY <1>1, Callada
  <2>2. p \notin DOMAIN tablas
    BY Callada DEF InvarianteTodo, Copias, Libre, Ocupado, EnMemoria
  <2> QED BY <1>1, <2>1, <2>2 DEF Preguntado
<1>5. Contestado'
  BY <1>1, Callada DEF Contestado
<1>6. Fases'
  BY <1>1 DEF InvarianteTodo, Fases, PideEliminar
<1>7. Copias'
  BY <1>1 DEF InvarianteTodo, Copias, Ocupado, PideEliminar, Libre
<1>8. Transfieren'
  <2>1. EnCurso' \subseteq EnCurso
    BY <1>1 DEF EnCurso
  <2> QED BY <1>1, <2>1 DEF InvarianteTodo, Transfieren
<1> QED BY <1>1, <1>2, <1>3, <1>4, <1>5, <1>6, <1>7, <1>8 DEF InvarianteTodo

LEMMA PasoRecibirTabla ==
  ASSUME InvarianteTodo, ~ajeno, RecibirTabla
  PROVE  InvarianteTodo'
<1> USE DEF RecibirTabla, Desbloquear, kernel, mutexes, socket
<1>1. /\ Invariante' /\ UNCHANGED <<fase, tablas, segmentos>>
      /\ \A q : serializar_tabla_segmentos(q)' = serializar_tabla_segmentos(q)
      /\ EnCurso' \subseteq EnCurso => TransferenciaQuieta'
  BY MemoriaQuieta
<1>2. PICK q \in DOMAIN tablas : q = hilo_largo.pid
  BY Respondido
<1>0. /\ q \in PIDS /\ estado[q] = "NEW" /\ ~ Ocupado
      /\ contestacion.tablas[q] = serializar_tabla_segmentos(q)
      /\ DOMAIN serializar_tabla_segmentos(q) \subseteq Descriptores
  <2>1. q \in PIDS /\ estado[q] = "NEW"
    BY <1>2 DEF InvarianteTodo, Hilos
  <2>2. ~ Ocupado /\ contestacion.tablas[q] = serializar_tabla_segmentos(q)
    BY <1>2, Respondido
  <2>3. DOMAIN serializar_tabla_segmentos(q) = tablas[q]
    BY Serializada
  <2>4. tablas[q] \subseteq Descriptores
    BY Tablas DEF InvarianteTodo
  <2> QED BY <2>1, <2>2, <2>3, <2>4
<1>a. /\ tabla_segmento' = [tabla_segmento EXCEPT ![q] = serializar_tabla_segmentos(q)]
      /\ estado' = [estado EXCEPT ![q] = "READY"]
  BY <1>2, <1>0
<1>9. Hilos'
  <2>1. /\ estado' \in [PIDS -> {"NEW", "READY", "EXEC", "BLOCK", "EXIT"}]
        /\ estado'[q] = "READY" /\ \A r \in PIDS \ {q} : estado'[r] = estado[r]
    <3>1. estado \in [PIDS -> {"NEW", "READY", "EXEC", "BLOCK", "EXIT"}]
      BY DEF InvarianteTodo, Hilos
    <3> HIDE DEF RecibirTabla
    <3> QED BY <1>0, <1>a, <3>1
  <2>2. /\ DOMAIN tabla_segmento' = PIDS
        /\ \A r \in PIDS : DOMAIN tabla_segmento'[r] \subseteq Descriptores
    <3>1. DOMAIN tabla_segmento = PIDS
          /\ \A r \in PIDS : DOMAIN tabla_segmento[r] \subseteq Descriptores
      BY DEF InvarianteTodo, Hilos
    <3>2. PICK T : T = serializar_tabla_segmentos(q)
      OBVIOUS
    <3> QED BY <1>0, <1>a, <3>1, <3>2
  <2>3. UNCHANGED hilo_cpu /\ hilo_largo' = Libre
    OBVIOUS
  <2>4. (PideCreacion' <=> PideCreacion) /\ (PideBorrado' <=> PideBorrado)
        /\ (PideEliminar' <=> PideEliminar)
    BY <2>3 DEF PideCreacion, PideBorrado, PideEliminar
  <2> HIDE DEF RecibirTabla, kernel, mutexes, socket
  <2> QED BY ZenonT(40), <1>0, <2>1, <2>2, <2>3, <2>4 DEF InvarianteTodo, Hilos, Libre
<1>3. Candados'
  BY <1>1, NombresDistintos DEF InvarianteTodo, Candados, Ocupado, Libre
<1>4. Preguntado'
  BY <1>1 DEF InvarianteTodo, Preguntado
<1>5. Contestado'
  BY <1>1 DEF Contestado
<1>6. Fases'
  BY <1>1 DEF InvarianteTodo, Fases
<1>7. Copias'
  <2>1. /\ estado'[q] = "READY" /\ \A r \in PIDS \ {q} : estado'[r] = estado[r]
        /\ tabla_segmento'[q] = serializar_tabla_segmentos(q)
        /\ \A r \in PIDS \ {q} : tabla_segmento'[r] = tabla_segmento[r]
    BY <1>0, <1>a DEF InvarianteTodo, Hilos
  <2>2. UNCHANGED hilo_cpu /\ UNCHANGED contexto /\ hilo_largo' = Libre
    OBVIOUS
  <2>3. (Ocupado' <=> Ocupado) /\ (PideEliminar' <=> PideEliminar)
    BY <2>2 DEF Ocupado, PideEliminar
  <2>4. DOMAIN tablas \subseteq PIDS
    BY Tablas DEF InvarianteTodo
  <2> QED BY ZenonT(40), <1>0, <1>1, <1>2, <2>1, <2>2, <2>3, <2>4 DEF InvarianteTodo, Copias, Libre
<1>8. Transfieren'
  <2>1. EnCurso' \subseteq EnCurso
    BY <1>1 DEF EnCurso
  <2> QED BY <1>1, <2>1 DEF InvarianteTodo, Transfieren, Hilos
<1> QED BY <1>1, <1>3, <1>4, <1>9, <1>5, <1>6, <1>7, <1>8 DEF InvarianteTodo

LEMMA PasoPlanificar ==
  ASSUME InvarianteTodo, ~ajeno, NEW p \in PIDS, planificar(p)
  PROVE  InvarianteTodo'
<1> USE DEF planificar, kernel, mutexes, socket
<1>1. /\ Invariante' /\ UNCHANGED <<fase, tablas, segmentos>>
      /\ \A q : serializar_tabla_segmentos(q)' = serializar_tabla_segmentos(q)
      /\ EnCurso' \subseteq EnCurso => TransferenciaQuieta'
  BY MemoriaQuieta
<1>2. Hilos'
  BY ZenonT(40), <1>1 DEF InvarianteTodo, Hilos
<1>3. Candados'
  BY <1>1, NombresDistintos DEF InvarianteTodo, Candados, Ocupado
<1>4. Preguntado'
  BY <1>1 DEF InvarianteTodo, Preguntado, Enviado, PideEliminar
<1>5. Contestado'
  BY ZenonT(40), <1>1 DEF InvarianteTodo, Contestado, TablaNueva, PideCreacion, PideEliminar
<1>6. Fases'
  BY <1>1 DEF InvarianteTodo, Fases, PideEliminar
<1>7. Copias'
  BY ZenonT(40), <1>1 DEF InvarianteTodo, Copias, Hilos, Ocupado, EnMemoria, Fases
<1>8. Transfieren'
  <2>1. EnCurso' \subseteq EnCurso
    BY <1>1 DEF EnCurso
  <2> QED BY <1>1, <2>1 DEF InvarianteTodo, Transfieren
<1> QED BY <1>1, <1>2, <1>3, <1>4, <1>5, <1>6, <1>7, <1>8 DEF InvarianteTodo

LEMMA PasoDevolverYield ==
  ASSUME InvarianteTodo, ~ajeno, NEW p \in PIDS, DevolverYield(p)
  PROVE  InvarianteTodo'
<1> USE DEF DevolverYield, Devuelto, kernel, mutexes, socket
<1>1. /\ Invariante' /\ UNCHANGED <<fase, tablas, segmentos>>
      /\ \A q : serializar_tabla_segmentos(q)' = serializar_tabla_segmentos(q)
      /\ EnCurso' \subseteq EnCurso => TransferenciaQuieta'
  BY MemoriaQuieta
<1>2. Hilos'
  BY <1>1 DEF InvarianteTodo, Hilos
<1>3. Candados'
  BY <1>1, NombresDistintos DEF InvarianteTodo, Candados, Ocupado
<1>4. Preguntado'
  BY <1>1 DEF InvarianteTodo, Preguntado, Libre
<1>5. Contestado'
  BY <1>1 DEF InvarianteTodo, Contestado, TablaNueva, Libre
<1>6. Fases'
  BY <1>1 DEF InvarianteTodo, Fases, Libre
<1>7. Copias'
  BY <1>1 DEF InvarianteTodo, Copias, Hilos, Ocupado
<1>8. Transfieren'
  <2>1. EnCurso' \subseteq EnCurso
    BY <1>1 DEF EnCurso
  <2> QED BY <1>1, <2>1 DEF InvarianteTodo, Transfieren
<1> QED BY <1>1, <1>2, <1>3, <1>4, <1>5, <1>6, <1>7, <1>8 DEF InvarianteTodo

LEMMA PasoDevolverPedido ==
  ASSUME InvarianteTodo, ~ajeno, NEW p \in PIDS, NEW que \in PedidosDe(contexto), DevolverPedido(p, que)
  PROVE  InvarianteTodo'
<1> USE DEF DevolverPedido, Devuelto, kernel, mutexes, socket
<1>1. /\ Invariante' /\ UNCHANGED <<fase, tablas, segmentos>>
      /\ \A q : serializar_tabla_segmentos(q)' = serializar_tabla_segmentos(q)
      /\ EnCurso' \subseteq EnCurso => TransferenciaQuieta'
  BY MemoriaQuieta
<1>2. \/ \E i \in IDS, t \in TAMANIOS : que = <<"CREATE_SEGMENT", i, t>>
      \/ \E i \in IDS : que = <<"DELETE_SEGMENT", i>>
      \/ que = <<"DELETE_TABLE">>
  <2>1. p \in DOMAIN tablas /\ contexto = serializar_tabla_segmentos(p)
    BY DEF InvarianteTodo, Copias, Hilos
  <2>2. ASSUME NEW d \in DOMAIN contexto, d # Compartido
        PROVE  contexto[d].segmento_id \in IDS
    BY <2>1, <2>2, Tablas, Serializada DEF InvarianteTodo
  <2> QED BY <2>2 DEF PedidosDe
<1>9. Hilos'
  BY <1>1, <1>2 DEF InvarianteTodo, Hilos, Pasos, PideCreacion, PideBorrado, PideEliminar
<1>3. Candados'
  BY <1>1, NombresDistintos DEF InvarianteTodo, Candados, Ocupado, EnMemoria, Libre
<1>4. Preguntado'
  BY <1>1 DEF InvarianteTodo, Preguntado, Libre
<1>5. Contestado'
  BY <1>1 DEF InvarianteTodo, Contestado, TablaNueva, Libre
<1>6. Fases'
  BY <1>1 DEF InvarianteTodo, Fases, Libre
<1>7. Copias'
  BY <1>1 DEF InvarianteTodo, Copias, Ocupado, EnMemoria, Libre
<1>8. Transfieren'
  <2>1. EnCurso' \subseteq EnCurso
    BY <1>1 DEF EnCurso
  <2> QED BY <1>1, <2>1 DEF InvarianteTodo, Transfieren, Libre
<1> QED BY <1>1, <1>3, <1>4, <1>9, <1>5, <1>6, <1>7, <1>8 DEF InvarianteTodo

LEMMA PasoTransferir ==
  ASSUME InvarianteTodo, ~ajeno, Transferir
  PROVE  InvarianteTodo'
<1> USE DEF Transferir, kernel, mutexes, socket
<1>1. /\ Invariante' /\ UNCHANGED <<fase, tablas, segmentos>>
      /\ \A q : serializar_tabla_segmentos(q)' = serializar_tabla_segmentos(q)
      /\ EnCurso' \subseteq EnCurso => TransferenciaQuieta'
  BY MemoriaQuieta
<1>2. Hilos'
  BY <1>1 DEF InvarianteTodo, Hilos, Pasos, Libre
<1>3. Candados'
  BY <1>1, NombresDistintos DEF InvarianteTodo, Candados, Ocupado, EnMemoria, Libre
<1>4. Preguntado'
  BY <1>1 DEF InvarianteTodo, Preguntado
<1>5. Contestado'
  BY <1>1 DEF InvarianteTodo, Contestado, TablaNueva
<1>6. Fases'
  BY <1>1 DEF InvarianteTodo, Fases, Libre
<1>7. Copias'
  BY <1>1 DEF InvarianteTodo, Copias, Hilos, Ocupado, EnMemoria
<1>8. Transfieren'
  <2>1. PICK q \in PIDS : /\ q = hilo_cpu.pid /\ estado[q] = "EXEC"
                          /\ transferencias' = {<<q, hilo_cpu.pide>>}
                          /\ estado' = [estado EXCEPT ![q] = "BLOCK"]
    BY DEF InvarianteTodo, Hilos, Transfieren
  <2>2. EnCurso' \subseteq EnCurso
    BY <2>1 DEF EnCurso, Libre
  <2>3. hilo_cpu'.paso = "recibir" /\ fase' # "colgado"
    BY <1>1 DEF Libre, InvarianteTodo, Transfieren
  <2>4. \A t \in transferencias' : t[1] \in PIDS /\ estado'[t[1]] = "BLOCK"
    BY <2>1 DEF InvarianteTodo, Hilos
  <2>5. /\ puede_compactar' <=> /\ transferencias' = {}
                                /\ hilo_cpu'.paso \notin {"compactando", "reenviado"}
                                /\ fase' # "colgado"
        /\ \A t, u \in transferencias' : t = u
    BY <2>1
  <2> QED BY <1>1, <2>2, <2>3, <2>4, <2>5 DEF Transfieren
<1> QED BY <1>1, <1>2, <1>3, <1>4, <1>5, <1>6, <1>7, <1>8 DEF InvarianteTodo

LEMMA PasoRespuestaFs ==
  ASSUME InvarianteTodo, ~ajeno, NEW t \in transferencias, recibir_respuesta_fs(t)
  PROVE  InvarianteTodo'
<1> USE DEF recibir_respuesta_fs, kernel, mutexes, socket
<1>0. PICK r \in PIDS : r = t[1]
  BY DEF InvarianteTodo, Transfieren
<1>a. /\ estado[r] = "BLOCK" /\ transferencias' = {}
      /\ estado' = [estado EXCEPT ![r] = "READY"]
      /\ estado' \in [PIDS -> {"NEW", "READY", "EXEC", "BLOCK", "EXIT"}]
      /\ estado'[r] = "READY" /\ \A s \in PIDS \ {r} : estado'[s] = estado[s]
  BY <1>0 DEF InvarianteTodo, Transfieren, Hilos
<1>1. /\ Invariante' /\ UNCHANGED <<fase, tablas, segmentos>>
      /\ \A q : serializar_tabla_segmentos(q)' = serializar_tabla_segmentos(q)
      /\ EnCurso' \subseteq EnCurso => TransferenciaQuieta'
  BY MemoriaQuieta
<1>2. Hilos'
  <2>1. UNCHANGED <<hilo_cpu, hilo_largo, tabla_segmento>>
    OBVIOUS
  <2>2. (PideCreacion' <=> PideCreacion) /\ (PideBorrado' <=> PideBorrado)
        /\ (PideEliminar' <=> PideEliminar)
    BY DEF PideCreacion, PideBorrado, PideEliminar
  <2> HIDE DEF recibir_respuesta_fs, kernel, mutexes, socket
  <2> QED BY <1>a, <2>1, <2>2 DEF InvarianteTodo, Hilos
<1>3. Candados'
  BY <1>1, NombresDistintos DEF InvarianteTodo, Candados, Ocupado
<1>4. Preguntado'
  BY <1>1 DEF InvarianteTodo, Preguntado, Enviado, PideEliminar
<1>5. Contestado'
  BY ZenonT(40), <1>1 DEF InvarianteTodo, Contestado, TablaNueva, PideCreacion, PideEliminar
<1>6. Fases'
  BY <1>1 DEF InvarianteTodo, Fases, PideEliminar
<1>7. Copias'
  BY <1>a, <1>1 DEF InvarianteTodo, Copias, Ocupado, PideEliminar
<1>8. Transfieren'
  <2>1. EnCurso' \subseteq EnCurso
    BY <1>1 DEF EnCurso
  <2> QED BY <1>1, <2>1 DEF InvarianteTodo, Transfieren
<1> QED BY <1>1, <1>2, <1>3, <1>4, <1>5, <1>6, <1>7, <1>8 DEF InvarianteTodo

\* A request is of one kind.
LEMMA UnPedido == /\ PideCreacion => ~ PideBorrado /\ ~ PideEliminar
                  /\ PideBorrado => ~ PideEliminar
BY DEF PideCreacion, PideBorrado, PideEliminar

LEMMA PasoDevolverTransferencia ==
  ASSUME InvarianteTodo, ~ajeno, NEW p \in PIDS, NEW dir \in Logicas(contexto), NEW n \in Largos,
         DevolverTransferencia(p, dir, n)
  PROVE  InvarianteTodo'
<1>0. PICK f : f = traducir_a_direccion_fisica(dir, contexto, n)
  OBVIOUS
<1>1. /\ Invariante' /\ UNCHANGED <<fase, tablas, segmentos>>
      /\ \A q : serializar_tabla_segmentos(q)' = serializar_tabla_segmentos(q)
  BY MemoriaQuieta DEF DevolverTransferencia
<1>2. /\ f # -1 /\ estado[p] = "EXEC" /\ hilo_cpu = Libre
      /\ hilo_cpu' = [paso |-> "transferir", pid |-> p,
                      pide |-> [logica |-> dir, fisica |-> f, largo |-> n]]
      /\ UNCHANGED <<estado, tabla_segmento, transferencias, puede_compactar, ajeno>>
      /\ UNCHANGED <<mutex_socket_memoria, pedido, contestacion, hilo_largo>>
  BY <1>0 DEF DevolverTransferencia, Devuelto, mutexes, socket
<1>3. /\ hilo_cpu.paso = "recibir" /\ hilo_cpu'.paso = "transferir" /\ hilo_cpu'.pid = p
      /\ hilo_cpu'.pide = [logica |-> dir, fisica |-> f, largo |-> n]
      /\ DOMAIN hilo_cpu' = {"paso", "pid", "pide"} /\ hilo_cpu' # Libre
  BY <1>2 DEF Libre
<1>4. p \in DOMAIN tablas /\ contexto = serializar_tabla_segmentos(p)
  BY <1>2, <1>3 DEF InvarianteTodo, Copias, Hilos
<1>5. Hilos'
  BY <1>2, <1>3 DEF InvarianteTodo, Hilos, Pasos
<1>6. Candados'
  BY <1>2, <1>3 DEF InvarianteTodo, Candados, Ocupado, EnMemoria
<1>7. Preguntado'
  BY <1>1, <1>2, <1>3 DEF InvarianteTodo, Preguntado
<1>8. Contestado'
  BY <1>1, <1>2, <1>3 DEF InvarianteTodo, Contestado, TablaNueva
<1>9. Fases'
  BY <1>1, <1>2, <1>3 DEF InvarianteTodo, Fases
<1>10. Copias'
  BY <1>1, <1>2, <1>3 DEF InvarianteTodo, Copias, Ocupado, EnMemoria
<1>11. fase \notin {"compactando", "caido"}
  BY <1>3 DEF InvarianteTodo, Fases
<1>12. SonDe(p, dir, f, n)
  BY <1>0, <1>2, <1>4, <1>11, Alcance DEF InvarianteTodo
<1>13. Transfieren'
  <2>1. \A q : Intacta(q)
    BY <1>1 DEF Intacta
  <2>2. SonDe(p, dir, f, n)'
    BY <1>1, <1>11, <1>12, <2>1, SonDeSigue
  <2>3. ASSUME NEW t \in transferencias
        PROVE  SonDe(t[1], t[2].logica, t[2].fisica, t[2].largo)'
    <3>1. SonDe(t[1], t[2].logica, t[2].fisica, t[2].largo)
      BY <2>3 DEF InvarianteTodo, Transfieren, TransferenciaQuieta
    <3> QED BY <1>1, <1>11, <2>1, <3>1, SonDeSigue
  <2>4. PICK w : w = [logica |-> dir, fisica |-> f, largo |-> n]
    OBVIOUS
  <2>5. w.logica = dir /\ w.fisica = f /\ w.largo = n
    BY <2>4
  <2>6. EnCurso' = transferencias \cup {<<p, w>>}
    BY <1>2, <1>3, <2>4 DEF EnCurso
  <2>7. \A t \in EnCurso' : SonDe(t[1], t[2].logica, t[2].fisica, t[2].largo)'
    <3>1. <<p, w>>[1] = p /\ <<p, w>>[2] = w
      OBVIOUS
    <3>2. ASSUME NEW t, t = <<p, w>>
          PROVE  SonDe(t[1], t[2].logica, t[2].fisica, t[2].largo)'
      BY <2>2, <2>5, <3>2
    <3> QED BY <2>3, <2>6, <3>2
  <2>8. TransferenciaQuieta'
    BY <2>7 DEF TransferenciaQuieta, EnCurso
  <2> QED BY <1>1, <1>2, <1>3, <2>8 DEF InvarianteTodo, Transfieren
<1> QED BY <1>1, <1>5, <1>6, <1>7, <1>8, <1>9, <1>10, <1>13 DEF InvarianteTodo

\* The thread of the CPU sends what the program asked for, with its process.
LEMMA Envio ==
  ASSUME PideCreacion \/ PideBorrado \/ PideEliminar,
         pedido' = <<hilo_cpu.pide[1], hilo_cpu.pid>> \o Tail(hilo_cpu.pide),
         hilo_cpu'.pid = hilo_cpu.pid, hilo_cpu'.pide = hilo_cpu.pide
  PROVE  Enviado'
<1>1. CASE PideCreacion
  <2>1. PICK i \in IDS, t \in TAMANIOS : hilo_cpu.pide = <<"CREATE_SEGMENT", i, t>>
    BY <1>1 DEF PideCreacion
  <2>2. hilo_cpu.pide[1] = "CREATE_SEGMENT"
    BY <2>1
  <2>3. <<"CREATE_SEGMENT", hilo_cpu.pid>> \o Tail(<<"CREATE_SEGMENT", i, t>>) = <<"CREATE_SEGMENT", hilo_cpu.pid, i, t>>
    BY Sobre, ZenonT(40)
  <2>4. pedido' = <<"CREATE_SEGMENT", hilo_cpu.pid, i, t>>
    BY <2>1, <2>2, <2>3, Zenon
  <2> QED BY <2>1, <2>4 DEF Enviado, PideEliminar
<1>2. CASE PideBorrado
  <2>1. PICK i \in IDS : hilo_cpu.pide = <<"DELETE_SEGMENT", i>>
    BY <1>2 DEF PideBorrado
  <2>2. hilo_cpu.pide[1] = "DELETE_SEGMENT"
    BY <2>1
  <2>3. <<"DELETE_SEGMENT", hilo_cpu.pid>> \o Tail(<<"DELETE_SEGMENT", i>>) = <<"DELETE_SEGMENT", hilo_cpu.pid, i>>
    BY Sobre, Zenon
  <2>4. pedido' = <<"DELETE_SEGMENT", hilo_cpu.pid, i>>
    BY <2>1, <2>2, <2>3, Zenon
  <2> QED BY <2>1, <2>4 DEF Enviado, PideEliminar
<1>3. CASE PideEliminar
  <2>1. hilo_cpu.pide = <<"DELETE_TABLE">>
    BY <1>3 DEF PideEliminar
  <2>2. hilo_cpu.pide[1] = "DELETE_TABLE"
    BY <2>1
  <2>3. <<"DELETE_TABLE", hilo_cpu.pid>> \o Tail(<<"DELETE_TABLE">>) = <<"DELETE_TABLE", hilo_cpu.pid>>
    BY Sobre, Zenon
  <2>4. pedido' = <<"DELETE_TABLE", hilo_cpu.pid>>
    BY <2>1, <2>2, <2>3, Zenon
  <2> QED BY <2>1, <2>4 DEF Enviado, PideEliminar
<1> QED BY <1>1, <1>2, <1>3

LEMMA PasoPedir ==
  ASSUME InvarianteTodo, ~ajeno, Pedir
  PROVE  InvarianteTodo'
<1> USE DEF Pedir, Bloquear, kernel, mutexes, socket
<1>1. /\ Invariante' /\ UNCHANGED <<fase, tablas, segmentos>>
      /\ \A q : serializar_tabla_segmentos(q)' = serializar_tabla_segmentos(q)
      /\ EnCurso' \subseteq EnCurso => TransferenciaQuieta'
  BY MemoriaQuieta
<1>2. Hilos'
   BY <1>1 DEF InvarianteTodo, Hilos, Pasos, EnMemoria, PideCreacion, PideBorrado,
              PideEliminar, Libre
<1>3. Candados'
  BY <1>1, NombresDistintos DEF InvarianteTodo, Candados, Hilos, Ocupado, EnMemoria
<1>4. Preguntado'
  <2>1. hilo_cpu'.pid = hilo_cpu.pid /\ hilo_cpu'.pide = hilo_cpu.pide
        /\ hilo_cpu'.paso \in {"respuesta", "respuesta sin memoria"}
    BY DEF InvarianteTodo, Hilos
  <2>2. PideCreacion \/ PideBorrado \/ PideEliminar
    BY DEF InvarianteTodo, Hilos
  <2>3. Enviado'
    <3>1. pedido' = <<hilo_cpu.pide[1], hilo_cpu.pid>> \o Tail(hilo_cpu.pide)
      OBVIOUS
    <3> QED BY <2>1, <2>2, <3>1, Envio
  <2>4. hilo_cpu.pid \in DOMAIN tablas
        /\ tabla_segmento[hilo_cpu.pid] = serializar_tabla_segmentos(hilo_cpu.pid)
    BY Callada DEF InvarianteTodo, Copias, Hilos
  <2> QED BY <1>1, <2>1, <2>3, <2>4, Callada DEF Preguntado
<1>5. Contestado'
  BY <1>1, Callada DEF Contestado
<1>6. Fases'
  BY <1>1 DEF InvarianteTodo, Fases, Hilos
<1>7. Copias'
  BY <1>1 DEF InvarianteTodo, Copias, Hilos, Ocupado, EnMemoria
<1>8. Transfieren'
  <2>1. EnCurso' \subseteq EnCurso
    BY <1>1 DEF EnCurso, InvarianteTodo, Hilos
  <2> QED BY <1>1, <2>1 DEF InvarianteTodo, Transfieren, Hilos
<1> QED BY <1>1, <1>2, <1>3, <1>4, <1>5, <1>6, <1>7, <1>8 DEF InvarianteTodo

LEMMA PasoRecibirSegmento ==
  ASSUME InvarianteTodo, ~ajeno, RecibirSegmento
  PROVE  InvarianteTodo'
<1> USE DEF RecibirSegmento, Recibe, Desbloquear, kernel, mutexes, socket
<1>1. /\ Invariante' /\ UNCHANGED <<fase, tablas, segmentos>>
      /\ \A q : serializar_tabla_segmentos(q)' = serializar_tabla_segmentos(q)
      /\ EnCurso' \subseteq EnCurso => TransferenciaQuieta'
  BY MemoriaQuieta
<1>2. PICK p \in DOMAIN tablas : p = hilo_cpu.pid
  BY Respondido DEF Ocupado, EnMemoria
<1>0. /\ p \in PIDS /\ estado[p] = "EXEC" /\ Ocupado /\ fase = "libre"
      /\ hilo_largo.paso # "respuesta" /\ hilo_cpu.paso \in {"respuesta", "reenviado"}
      /\ contestacion.tablas[p] = serializar_tabla_segmentos(p)
      /\ DOMAIN serializar_tabla_segmentos(p) \subseteq Descriptores
  <2>1. Ocupado
    BY DEF Ocupado, EnMemoria
  <2>2. p \in PIDS /\ estado[p] = "EXEC"
    BY <1>2 DEF InvarianteTodo, Hilos
  <2>3. DOMAIN serializar_tabla_segmentos(p) = tablas[p]
    BY Serializada
  <2>4. tablas[p] \subseteq Descriptores
    BY Tablas DEF InvarianteTodo
  <2>5. /\ fase = "libre" /\ hilo_largo.paso # "respuesta"
        /\ contestacion.tablas[p] = serializar_tabla_segmentos(p)
    BY <1>2, <2>1, Respondido
  <2> QED BY <2>1, <2>2, <2>3, <2>4, <2>5
<1>a. /\ tabla_segmento' = [tabla_segmento EXCEPT ![p] = serializar_tabla_segmentos(p)]
      /\ contexto' = serializar_tabla_segmentos(p)
      /\ hilo_cpu' = Libre /\ hilo_cpu'.paso = "recibir"
      /\ UNCHANGED <<estado, hilo_largo, transferencias>>
      /\ puede_compactar' = (puede_compactar \/ hilo_cpu.paso = "reenviado")
  BY <1>2, <1>0 DEF Libre
<1>b. /\ DOMAIN tabla_segmento = PIDS
      /\ \A r \in PIDS : DOMAIN tabla_segmento[r] \subseteq Descriptores
  BY DEF InvarianteTodo, Hilos
<1>c. /\ DOMAIN tabla_segmento' = PIDS
      /\ tabla_segmento'[p] = serializar_tabla_segmentos(p)
      /\ \A r \in PIDS \ {p} : tabla_segmento'[r] = tabla_segmento[r]
  <2> HIDE DEF RecibirSegmento, kernel, mutexes, socket
  <2> QED BY <1>0, <1>a, <1>b
<1>9. Hilos'
  <2>1. \A r \in PIDS : DOMAIN tabla_segmento'[r] \subseteq Descriptores
    <3> HIDE DEF RecibirSegmento, kernel, mutexes, socket
    <3> QED BY <1>0, <1>b, <1>c
  <2> HIDE DEF RecibirSegmento, kernel, mutexes, socket
  <2> QED BY <1>a, <1>c, <2>1 DEF InvarianteTodo, Hilos, Pasos, Libre
<1>3. Candados'
  BY <1>1, NombresDistintos DEF InvarianteTodo, Candados, Ocupado, EnMemoria, Libre
<1>4. Preguntado'
  BY <1>1 DEF InvarianteTodo, Preguntado
<1>5. Contestado'
  BY <1>1 DEF Contestado
<1>6. Fases'
  BY <1>1 DEF InvarianteTodo, Fases, Contestado, Libre
<1>7. Copias'
  <2>1. DOMAIN tablas \subseteq PIDS
    BY Tablas DEF InvarianteTodo
  <2> HIDE DEF RecibirSegmento, kernel, mutexes, socket
  <2>2. ASSUME NEW q \in PIDS
        PROVE  \/ hilo_largo'.paso = "respuesta" /\ q = hilo_largo'.pid
               \/ q \in DOMAIN tablas' <=> estado'[q] \in {"READY", "EXEC", "BLOCK"}
    BY <1>0, <1>1, <1>2, <1>a DEF InvarianteTodo, Copias
  <2>3. \A q \in DOMAIN tablas' : tabla_segmento'[q] = serializar_tabla_segmentos(q)'
    BY <1>0, <1>1, <1>2, <1>c, <2>1 DEF InvarianteTodo, Copias
  <2>4. \A q \in PIDS : estado'[q] = "EXEC" => contexto' = serializar_tabla_segmentos(q)'
    BY <1>0, <1>1, <1>a DEF InvarianteTodo, Hilos
  <2> QED BY <2>2, <2>3, <2>4 DEF Copias
<1>8. Transfieren'
  <2>1. EnCurso' \subseteq EnCurso
    BY <1>a DEF EnCurso
  <2> HIDE DEF RecibirSegmento, kernel, mutexes, socket
  <2> QED BY <1>0, <1>1, <1>a, <2>1 DEF InvarianteTodo, Transfieren
<1> QED BY <1>1, <1>3, <1>4, <1>9, <1>5, <1>6, <1>7, <1>8 DEF InvarianteTodo

LEMMA PasoRecibirEliminada ==
  ASSUME InvarianteTodo, ~ajeno, RecibirEliminada
  PROVE  InvarianteTodo'
<1> USE DEF RecibirEliminada, Recibe, Desbloquear, kernel, mutexes, socket
<1>1. /\ Invariante' /\ UNCHANGED <<fase, tablas, segmentos>>
      /\ \A q : serializar_tabla_segmentos(q)' = serializar_tabla_segmentos(q)
      /\ EnCurso' \subseteq EnCurso => TransferenciaQuieta'
  BY MemoriaQuieta
<1>2. Hilos'
  BY <1>1 DEF InvarianteTodo, Hilos, Pasos, Libre
<1>3. Candados'
  BY <1>1, NombresDistintos DEF InvarianteTodo, Candados, Hilos, Ocupado, EnMemoria, Libre
<1>4. Preguntado'
  BY <1>1 DEF InvarianteTodo, Preguntado
<1>5. Contestado'
  BY <1>1 DEF Contestado
<1>6. Fases'
  BY <1>1 DEF InvarianteTodo, Fases, Contestado, Hilos, Libre
<1>7. Copias'
  BY <1>1 DEF InvarianteTodo, Copias, Contestado, Candados, Hilos, Ocupado, EnMemoria
<1>8. Transfieren'
  <2>1. EnCurso' \subseteq EnCurso
    BY <1>1 DEF EnCurso, Libre, InvarianteTodo, Hilos
  <2> QED BY <1>1, <2>1 DEF InvarianteTodo, Transfieren, Hilos, Libre
<1> QED BY <1>1, <1>2, <1>3, <1>4, <1>5, <1>6, <1>7, <1>8 DEF InvarianteTodo

LEMMA PasoDesbloquearOtraVez ==
  ASSUME InvarianteTodo, ~ajeno, DesbloquearOtraVez
  PROVE  InvarianteTodo'
<1> USE DEF DesbloquearOtraVez, Desbloquear, kernel, mutexes, socket
<1>1. /\ Invariante' /\ UNCHANGED <<fase, tablas, segmentos>>
      /\ \A q : serializar_tabla_segmentos(q)' = serializar_tabla_segmentos(q)
      /\ EnCurso' \subseteq EnCurso => TransferenciaQuieta'
  BY MemoriaQuieta
<1>2. Hilos'
  BY <1>1 DEF InvarianteTodo, Hilos, Pasos, Libre
<1>3. Candados'
  BY <1>1, NombresDistintos DEF InvarianteTodo, Candados, Ocupado, EnMemoria, Libre
<1>4. Preguntado'
  BY <1>1 DEF InvarianteTodo, Preguntado
<1>5. Contestado'
  BY <1>1 DEF InvarianteTodo, Contestado, TablaNueva
<1>6. Fases'
  BY <1>1 DEF InvarianteTodo, Fases, Libre
<1>7. Copias'
  BY <1>1 DEF InvarianteTodo, Copias, Ocupado, EnMemoria
<1>8. Transfieren'
  <2>1. EnCurso' \subseteq EnCurso
    BY <1>1 DEF EnCurso, Libre
  <2> QED BY <1>1, <2>1 DEF InvarianteTodo, Transfieren, Libre
<1> QED BY <1>1, <1>2, <1>3, <1>4, <1>5, <1>6, <1>7, <1>8 DEF InvarianteTodo

LEMMA PasoRecibirSinMemoria ==
  ASSUME InvarianteTodo, ~ajeno, RecibirSinMemoria
  PROVE  InvarianteTodo'
<1> USE DEF RecibirSinMemoria, Recibe, Desbloquear, kernel, mutexes, socket
<1>1. /\ Invariante' /\ UNCHANGED <<fase, tablas, segmentos>>
      /\ \A q : serializar_tabla_segmentos(q)' = serializar_tabla_segmentos(q)
      /\ EnCurso' \subseteq EnCurso => TransferenciaQuieta'
  BY MemoriaQuieta
<1>2. Hilos'
  BY <1>1 DEF InvarianteTodo, Hilos, Pasos, PideEliminar, Libre
<1>3. Candados'
  BY <1>1, NombresDistintos DEF InvarianteTodo, Candados, Hilos, Ocupado, EnMemoria
<1>4. Preguntado'
  BY <1>1 DEF InvarianteTodo, Preguntado
<1>5. Contestado'
  BY <1>1 DEF Contestado
<1>6. Fases'
  BY <1>1 DEF InvarianteTodo, Fases, Contestado, Hilos
<1>7. Copias'
  BY <1>1 DEF InvarianteTodo, Copias, Contestado, Candados, Hilos, Ocupado, EnMemoria
<1>8. Transfieren'
  <2>1. EnCurso' \subseteq EnCurso
    BY <1>1 DEF EnCurso
  <2> QED BY <1>1, <2>1 DEF InvarianteTodo, Transfieren
<1> QED BY <1>1, <1>2, <1>3, <1>4, <1>5, <1>6, <1>7, <1>8 DEF InvarianteTodo

LEMMA PasoRecibirCompactar ==
  ASSUME InvarianteTodo, ~ajeno, RecibirCompactar
  PROVE  InvarianteTodo'
<1> USE DEF RecibirCompactar, Recibe, kernel, mutexes, socket
<1>1. /\ Invariante' /\ UNCHANGED <<fase, tablas, segmentos>>
      /\ \A q : serializar_tabla_segmentos(q)' = serializar_tabla_segmentos(q)
      /\ EnCurso' \subseteq EnCurso => TransferenciaQuieta'
  BY MemoriaQuieta
<1>0. /\ hilo_cpu.paso \in {"respuesta", "reenviado"} /\ PideCreacion
      /\ \/ hilo_cpu.paso = "respuesta" /\ fase = "compactar"
         \/ hilo_cpu.paso = "reenviado" /\ fase = "colgado"
  BY Respondido DEF Ocupado, EnMemoria
<1>a. /\ DOMAIN hilo_cpu' = DOMAIN hilo_cpu
      /\ hilo_cpu'.paso = "compactar"
      /\ hilo_cpu'.pid = hilo_cpu.pid /\ hilo_cpu'.pide = hilo_cpu.pide
      /\ hilo_cpu' # Libre
      /\ UNCHANGED <<estado, tabla_segmento, contexto, transferencias, puede_compactar,
                     hilo_largo>>
  BY DEF InvarianteTodo, Hilos, Libre
<1>2. Hilos'
  <2> HIDE DEF RecibirCompactar, kernel, mutexes, socket
  <2> QED BY ZenonT(40), <1>0, <1>a DEF InvarianteTodo, Hilos, Pasos, EnMemoria, PideCreacion
<1>3. Candados'
  BY <1>1, NombresDistintos DEF InvarianteTodo, Candados, Hilos, Ocupado, EnMemoria
<1>4. Preguntado'
  BY <1>1 DEF InvarianteTodo, Preguntado
<1>5. Contestado'
  BY <1>1 DEF Contestado
<1>6. Fases'
  BY <1>1 DEF InvarianteTodo, Fases, Contestado, Candados, Hilos, Ocupado, EnMemoria
<1>7. Copias'
  <2> HIDE DEF RecibirCompactar, kernel, mutexes, socket
  <2>1. Ocupado' /\ Ocupado /\ ~ PideEliminar
    BY <1>0, <1>a, UnPedido DEF Ocupado, EnMemoria
  <2> QED BY <1>0, <1>1, <1>a, <2>1 DEF InvarianteTodo, Copias
<1>8. Transfieren'
  <2>1. EnCurso' \subseteq EnCurso
    BY <1>0, <1>a DEF EnCurso
  <2> HIDE DEF RecibirCompactar, kernel, mutexes, socket
  <2> QED BY <1>0, <1>1, <1>a, <2>1 DEF InvarianteTodo, Transfieren
<1> QED BY <1>1, <1>2, <1>3, <1>4, <1>5, <1>6, <1>7, <1>8 DEF InvarianteTodo

LEMMA PasoPedirCompactacion ==
  ASSUME InvarianteTodo, ~ajeno, PedirCompactacion
  PROVE  InvarianteTodo'
<1> USE DEF PedirCompactacion, kernel, mutexes, socket
<1>1. /\ Invariante' /\ UNCHANGED <<fase, tablas, segmentos>>
      /\ \A q : serializar_tabla_segmentos(q)' = serializar_tabla_segmentos(q)
      /\ EnCurso' \subseteq EnCurso => TransferenciaQuieta'
  BY MemoriaQuieta
<1>0. /\ fase = "compactar" /\ pedido = NADIE /\ contestacion = NADIE
  <2>1. fase \in {"compactar", "colgado"} /\ fase # "colgado"
    BY DEF InvarianteTodo, Fases, Transfieren
  <2>2. pedido = NADIE
    BY <2>1 DEF InvarianteTodo, Preguntado
  <2>3. contestacion = NADIE
    BY <2>1 DEF InvarianteTodo, Contestado
  <2> QED BY <2>1, <2>2, <2>3
<1>2. Hilos'
  BY <1>1 DEF InvarianteTodo, Hilos, Pasos, EnMemoria, PideCreacion, Libre
<1>3. Candados'
  BY <1>1, NombresDistintos DEF InvarianteTodo, Candados, Hilos, Ocupado, EnMemoria
<1>4. Preguntado'
  <2>1. hilo_cpu'.paso = "compactando"
    BY DEF InvarianteTodo, Hilos
  <2> QED BY <1>0, <1>1, <2>1 DEF Preguntado
<1>5. Contestado'
  BY <1>1 DEF InvarianteTodo, Contestado, Candados, Ocupado, EnMemoria
<1>6. Fases'
  <2>1. hilo_cpu'.paso = "compactando"
    BY DEF InvarianteTodo, Hilos
  <2> HIDE DEF PedirCompactacion
  <2> QED BY <1>0, <1>1, <2>1 DEF Fases
<1>7. Copias'
  BY <1>1 DEF InvarianteTodo, Copias, Ocupado, EnMemoria
<1>8. Transfieren'
  <2>1. EnCurso' \subseteq EnCurso
    BY <1>1 DEF EnCurso
  <2> QED BY <1>1, <2>1 DEF InvarianteTodo, Transfieren
<1> QED BY <1>1, <1>2, <1>3, <1>4, <1>5, <1>6, <1>7, <1>8 DEF InvarianteTodo

LEMMA PasoRecibirCompactada ==
  ASSUME InvarianteTodo, ~ajeno, RecibirCompactada
  PROVE  InvarianteTodo'
<1> USE DEF RecibirCompactada, Recibe, sincronizar_tablas_procesos, kernel, mutexes, socket
<1>1. /\ Invariante' /\ UNCHANGED <<fase, tablas, segmentos>>
      /\ \A q : serializar_tabla_segmentos(q)' = serializar_tabla_segmentos(q)
      /\ EnCurso' \subseteq EnCurso => TransferenciaQuieta'
  BY MemoriaQuieta
<1>0. /\ hilo_cpu.paso = "compactando" /\ fase = "reenviar" /\ hilo_largo.paso # "respuesta"
      /\ DOMAIN contestacion.tablas = DOMAIN tablas /\ DOMAIN tablas \subseteq PIDS
      /\ \A q \in DOMAIN tablas : contestacion.tablas[q] = serializar_tabla_segmentos(q)
      /\ PideCreacion /\ hilo_cpu.pid \in PIDS /\ estado[hilo_cpu.pid] = "EXEC"
  <2>1. Ocupado /\ hilo_cpu.paso = "compactando"
    BY DEF Ocupado, EnMemoria
  <2>2. PideCreacion /\ hilo_cpu.pid \in PIDS /\ estado[hilo_cpu.pid] = "EXEC"
    BY <2>1 DEF InvarianteTodo, Hilos
  <2>3. DOMAIN tablas \subseteq PIDS
    BY Tablas DEF InvarianteTodo
  <2> QED BY <2>1, <2>2, <2>3, Respondido
<1>a. /\ DOMAIN hilo_cpu' = DOMAIN hilo_cpu
      /\ hilo_cpu'.paso = "reenviado"
      /\ hilo_cpu'.pid = hilo_cpu.pid /\ hilo_cpu'.pide = hilo_cpu.pide
      /\ hilo_cpu' # Libre
      /\ contestacion' = NADIE
      /\ UNCHANGED <<estado, contexto, transferencias, puede_compactar, hilo_largo>>
  BY DEF InvarianteTodo, Hilos, Libre
<1>b. /\ DOMAIN tabla_segmento' = PIDS
      /\ \A q \in PIDS \ DOMAIN tablas : tabla_segmento'[q] = tabla_segmento[q]
      /\ \A q \in DOMAIN tablas : tabla_segmento'[q] = serializar_tabla_segmentos(q)
  <2>1. tabla_segmento' = [q \in PIDS |-> IF q \in DOMAIN tablas THEN contestacion.tablas[q]
                                          ELSE tabla_segmento[q]]
    BY <1>0
  <2> HIDE DEF RecibirCompactada, sincronizar_tablas_procesos, kernel, mutexes, socket
  <2> QED BY <1>0, <2>1
<1>2. Hilos'
  <2>1. ASSUME NEW q \in PIDS PROVE DOMAIN tabla_segmento'[q] \subseteq Descriptores
    <3>1. DOMAIN tabla_segmento[q] \subseteq Descriptores
      BY DEF InvarianteTodo, Hilos
    <3>2. q \in DOMAIN tablas => DOMAIN serializar_tabla_segmentos(q) \subseteq Descriptores
      BY Tablas, Serializada DEF InvarianteTodo
    <3> HIDE DEF RecibirCompactada, sincronizar_tablas_procesos, kernel, mutexes, socket
    <3> QED BY <1>b, <3>1, <3>2
  <2> HIDE DEF RecibirCompactada, sincronizar_tablas_procesos, kernel, mutexes, socket
  <2> QED BY <1>0, <1>a, <1>b, <2>1 DEF InvarianteTodo, Hilos, Pasos, EnMemoria, PideCreacion
<1>3. Candados'
  BY <1>1, NombresDistintos DEF InvarianteTodo, Candados, Hilos, Ocupado, EnMemoria
<1>4. Preguntado'
  <2>1. pedido' = <<hilo_cpu.pide[1], hilo_cpu.pid>> \o Tail(hilo_cpu.pide)
    OBVIOUS
  <2>2. Enviado'
    BY <1>0, <1>a, <2>1, Envio
  <2>3. hilo_cpu.pid \in DOMAIN tablas
    BY <1>0 DEF InvarianteTodo, Copias
  <2> HIDE DEF RecibirCompactada, sincronizar_tablas_procesos, kernel, mutexes, socket
  <2> QED BY <1>0, <1>1, <1>a, <1>b, <2>2, <2>3 DEF Preguntado
<1>5. Contestado'
  BY <1>1 DEF Contestado
<1>6. Fases'
  BY <1>1 DEF InvarianteTodo, Fases, Contestado, Hilos
<1>7. Copias'
  <2> HIDE DEF RecibirCompactada, sincronizar_tablas_procesos, kernel, mutexes, socket
  <2>1. Ocupado' /\ Ocupado /\ ~ PideEliminar
    BY <1>0, <1>a, UnPedido DEF Ocupado, EnMemoria
  <2> QED BY <1>0, <1>1, <1>a, <1>b, <2>1 DEF InvarianteTodo, Copias
<1>8. Transfieren'
  <2>1. EnCurso' \subseteq EnCurso
    BY <1>1 DEF EnCurso
  <2> QED BY <1>1, <2>1 DEF InvarianteTodo, Transfieren
<1> QED BY <1>1, <1>2, <1>3, <1>4, <1>5, <1>6, <1>7, <1>8 DEF InvarianteTodo

-----------------------------------------------------------------------------
(* The steps of the memory module *)

\* The request in the socket, argument by argument.
LEMMA PedidoLeido ==
  ASSUME InvarianteTodo, pedido # NADIE
  PROVE  /\ contestacion = NADIE
         /\ pedido[1] = "CREATE_TABLE" =>
              /\ hilo_largo.paso = "respuesta" /\ pedido[2] = hilo_largo.pid
              /\ fase = "libre" /\ hilo_largo.pid \notin DOMAIN tablas
         /\ pedido[1] = "CREATE_SEGMENT" =>
              /\ PideCreacion /\ pedido[2] = hilo_cpu.pid
              /\ pedido[3] \in IDS /\ pedido[4] \in TAMANIOS
         /\ pedido[1] = "DELETE_SEGMENT" =>
              /\ PideBorrado /\ pedido[2] = hilo_cpu.pid /\ pedido[3] \in IDS
         /\ pedido[1] = "DELETE_TABLE" => PideEliminar /\ pedido[2] = hilo_cpu.pid
         /\ pedido[1] \in {"CREATE_SEGMENT", "DELETE_SEGMENT", "DELETE_TABLE"} =>
              /\ hilo_cpu.pid \in DOMAIN tablas
              /\ tabla_segmento[hilo_cpu.pid] = serializar_tabla_segmentos(hilo_cpu.pid)
              /\ \/ hilo_cpu.paso \in {"respuesta", "respuesta sin memoria"} /\ fase = "libre"
                 \/ hilo_cpu.paso = "reenviado" /\ fase = "reenviar"
         /\ pedido[1] = "COMPACT" => hilo_cpu.paso = "compactando" /\ fase = "compactar"
<1>1. /\ contestacion = NADIE
      /\ \/ /\ hilo_largo.paso = "respuesta" /\ pedido = <<"CREATE_TABLE", hilo_largo.pid>>
            /\ fase = "libre" /\ hilo_largo.pid \notin DOMAIN tablas
         \/ hilo_cpu.paso = "compactando" /\ pedido = <<"COMPACT">> /\ fase = "compactar"
         \/ /\ Enviado /\ hilo_cpu.pid \in DOMAIN tablas
            /\ tabla_segmento[hilo_cpu.pid] = serializar_tabla_segmentos(hilo_cpu.pid)
            /\ \/ hilo_cpu.paso \in {"respuesta", "respuesta sin memoria"} /\ fase = "libre"
               \/ hilo_cpu.paso = "reenviado" /\ fase = "reenviar"
  BY DEF InvarianteTodo, Preguntado
<1>2. CASE pedido = <<"CREATE_TABLE", hilo_largo.pid>>
  <2>1. pedido[1] = "CREATE_TABLE" /\ pedido[2] = hilo_largo.pid
    BY <1>2
  <2>2. ~ Enviado /\ pedido # <<"COMPACT">>
    BY <2>1 DEF Enviado
  <2>3. /\ contestacion = NADIE /\ hilo_largo.paso = "respuesta"
        /\ fase = "libre" /\ hilo_largo.pid \notin DOMAIN tablas
    BY <1>1, <2>2
  <2> QED BY <2>1, <2>3
<1>3. CASE pedido = <<"COMPACT">>
  <2>1. pedido[1] = "COMPACT"
    BY <1>3
  <2>2. ~ Enviado /\ pedido # <<"CREATE_TABLE", hilo_largo.pid>>
    BY <2>1 DEF Enviado
  <2>3. contestacion = NADIE /\ hilo_cpu.paso = "compactando" /\ fase = "compactar"
    BY <1>1, <2>2
  <2> QED BY <2>1, <2>3
<1>4. CASE Enviado
  <2>1. \/ /\ pedido[1] = "CREATE_SEGMENT" /\ PideCreacion /\ pedido[2] = hilo_cpu.pid
           /\ pedido[3] \in IDS /\ pedido[4] \in TAMANIOS
        \/ /\ pedido[1] = "DELETE_SEGMENT" /\ PideBorrado /\ pedido[2] = hilo_cpu.pid
           /\ pedido[3] \in IDS
        \/ pedido[1] = "DELETE_TABLE" /\ PideEliminar /\ pedido[2] = hilo_cpu.pid
    <3>1. ASSUME NEW i \in IDS, NEW t \in TAMANIOS, hilo_cpu.pide = <<"CREATE_SEGMENT", i, t>>,
                 pedido = <<"CREATE_SEGMENT", hilo_cpu.pid, i, t>>
          PROVE  /\ pedido[1] = "CREATE_SEGMENT" /\ PideCreacion /\ pedido[2] = hilo_cpu.pid
                 /\ pedido[3] \in IDS /\ pedido[4] \in TAMANIOS
      BY <3>1 DEF PideCreacion
    <3>2. ASSUME NEW i \in IDS, hilo_cpu.pide = <<"DELETE_SEGMENT", i>>,
                 pedido = <<"DELETE_SEGMENT", hilo_cpu.pid, i>>
          PROVE  /\ pedido[1] = "DELETE_SEGMENT" /\ PideBorrado /\ pedido[2] = hilo_cpu.pid
                 /\ pedido[3] \in IDS
      BY <3>2 DEF PideBorrado
    <3>3. ASSUME PideEliminar, pedido = <<"DELETE_TABLE", hilo_cpu.pid>>
          PROVE  pedido[1] = "DELETE_TABLE" /\ PideEliminar /\ pedido[2] = hilo_cpu.pid
      BY <3>3
    <3> QED BY <1>4, <3>1, <3>2, <3>3 DEF Enviado
  <2>2. pedido # <<"CREATE_TABLE", hilo_largo.pid>> /\ pedido # <<"COMPACT">>
    BY <2>1
  <2>3. /\ hilo_cpu.pid \in DOMAIN tablas
        /\ tabla_segmento[hilo_cpu.pid] = serializar_tabla_segmentos(hilo_cpu.pid)
        /\ \/ hilo_cpu.paso \in {"respuesta", "respuesta sin memoria"} /\ fase = "libre"
           \/ hilo_cpu.paso = "reenviado" /\ fase = "reenviar"
    BY <1>1, <2>2
  <2> HIDE DEF Enviado
  <2> QED BY <1>1, <2>1, <2>3
<1> QED BY <1>1, <1>2, <1>3, <1>4

KernelQuieto == UNCHANGED <<kernel, mutexes, hilo_cpu, hilo_largo>>

LEMMA HilosSiguen ==
  ASSUME InvarianteTodo, KernelQuieto
  PROVE  Hilos' /\ Candados'
<1>1. /\ UNCHANGED <<estado, tabla_segmento, hilo_cpu, hilo_largo, mutex_socket_memoria>>
      /\ UNCHANGED <<puede_compactar, ajeno>>
  BY DEF KernelQuieto, kernel, mutexes
<1>2. Hilos'
  BY <1>1 DEF InvarianteTodo, Hilos, PideCreacion, PideBorrado, PideEliminar
<1>3. Candados'
  BY <1>1 DEF InvarianteTodo, Candados, Ocupado
<1> QED BY <1>2, <1>3

LEMMA TransferenciasSiguen ==
  ASSUME InvarianteTodo, KernelQuieto,
         fase' \notin {"compactando", "caido"}, fase # "colgado",
         fase' = "colgado" => hilo_cpu.paso = "reenviado",
         \A q \in DOMAIN tablas :
           estado[q] = "BLOCK" \/ (hilo_cpu.paso = "transferir" /\ q = hilo_cpu.pid)
             => Intacta(q)
  PROVE  Transfieren'
<1>1. UNCHANGED <<estado, transferencias, hilo_cpu, puede_compactar>>
  BY DEF KernelQuieto, kernel, mutexes
<1>2. EnCurso' = EnCurso
  BY <1>1 DEF EnCurso
<1>3. ASSUME NEW t \in EnCurso PROVE Intacta(t[1])
  <2>1. t[1] \in DOMAIN tablas
    BY <1>3 DEF InvarianteTodo, Transfieren, TransferenciaQuieta, EnCurso, SonDe
  <2>2. estado[t[1]] = "BLOCK" \/ (hilo_cpu.paso = "transferir" /\ t[1] = hilo_cpu.pid)
    BY <1>3 DEF InvarianteTodo, Transfieren, EnCurso
  <2> QED BY <2>1, <2>2
<1>4. TransferenciaQuieta'
  BY <1>2, <1>3, QuietasSiguen DEF InvarianteTodo, Transfieren
<1> QED BY <1>1, <1>4 DEF InvarianteTodo, Transfieren

LEMMA CopiasSiguen ==
  ASSUME InvarianteTodo, KernelQuieto, NEW p \in PIDS,
         \/ hilo_largo.paso = "respuesta" /\ p = hilo_largo.pid
         \/ /\ Ocupado /\ p = hilo_cpu.pid
            /\ \/ DOMAIN tablas' = DOMAIN tablas
               \/ hilo_cpu.paso \in {"respuesta", "respuesta sin memoria"} /\ PideEliminar,
         DOMAIN tablas' \ {p} = DOMAIN tablas \ {p},
         fase # "compactando", ~ (fase = "reenviar" /\ hilo_cpu.paso = "compactando"),
         \A q \in DOMAIN tablas \ {p} : Intacta(q)
  PROVE  Copias'
<1>1. UNCHANGED <<estado, tabla_segmento, contexto, hilo_cpu, hilo_largo>>
  BY DEF KernelQuieto, kernel
<1>2. (Ocupado' <=> Ocupado) /\ (PideEliminar' <=> PideEliminar)
  BY <1>1 DEF Ocupado, PideEliminar
<1>3. \A q \in DOMAIN tablas \ {p} :
        serializar_tabla_segmentos(q)' = serializar_tabla_segmentos(q)
  BY IntactaSerializa
<1>4. ASSUME NEW q \in PIDS
      PROVE  \/ hilo_largo.paso = "respuesta" /\ q = hilo_largo.pid
             \/ /\ hilo_cpu.paso \in {"respuesta", "respuesta sin memoria"} /\ PideEliminar
                /\ q = hilo_cpu.pid
             \/ q \in DOMAIN tablas' <=> estado[q] \in {"READY", "EXEC", "BLOCK"}
  BY DEF InvarianteTodo, Copias
<1>5. ASSUME NEW q \in DOMAIN tablas'
      PROVE  \/ hilo_largo.paso = "respuesta" /\ q = hilo_largo.pid
             \/ Ocupado /\ q = hilo_cpu.pid
             \/ tabla_segmento[q] = serializar_tabla_segmentos(q)'
  BY <1>3 DEF InvarianteTodo, Copias
<1>6. ASSUME NEW q \in PIDS, estado[q] = "EXEC", hilo_cpu.paso \in {"recibir", "desbloquear"}
      PROVE  contexto = serializar_tabla_segmentos(q)'
  <2>1. hilo_largo.paso = "respuesta" /\ p = hilo_largo.pid /\ estado[p] = "NEW"
    BY <1>6 DEF Ocupado, EnMemoria, InvarianteTodo, Hilos
  <2>2. q # p /\ q \in DOMAIN tablas /\ contexto = serializar_tabla_segmentos(q)
    BY <1>6, <2>1 DEF InvarianteTodo, Copias
  <2> QED BY <1>3, <2>2
<1> QED BY <1>1, <1>2, <1>4, <1>5, <1>6 DEF Copias

\* Memory serves one process and leaves the tables of the others alone.
LEMMA MarcoCrear ==
  ASSUME Invariante, NEW p, NEW i, NEW t, crear_segmento(p, i, t)
  PROVE  DOMAIN tablas' = DOMAIN tablas /\ \A q \in DOMAIN tablas \ {p} : Intacta(q)
<1>1. /\ DOMAIN tablas' = DOMAIN tablas
      /\ \A q \in DOMAIN tablas \ {p} : tablas'[q] = tablas[q]
  BY DEF crear_segmento
<1>2. id \notin Activos
  BY DEF Invariante, TypeOK, TablasConsistentes
<1>3. \A d \in Activos : segmentos'[d] = segmentos[d]
  BY <1>2 DEF crear_segmento
<1>4. \A q \in DOMAIN tablas : tablas[q] \subseteq Activos
  BY Tablas
<1> QED BY <1>1, <1>3, <1>4 DEF Intacta

LEMMA MarcoBorrar ==
  ASSUME Invariante, NEW p, NEW i \in IDS, delete_segmento(p, i)
  PROVE  DOMAIN tablas' = DOMAIN tablas /\ \A q \in DOMAIN tablas \ {p} : Intacta(q)
<1>1. p \in DOMAIN tablas
  BY DEF delete_segmento
<1>2. PICK d \in tablas[p] : /\ segmentos[d].segmento_id = i
                             /\ segmentos' = Restrict(segmentos, Activos \ {d})
                             /\ tablas' = [tablas EXCEPT ![p] = @ \ {d}]
  BY DEF delete_segmento
<1>3. d # Compartido
  BY <1>1, <1>2, IdentificadoresValidos DEF Invariante, TablasConsistentes
<1>4. ASSUME NEW q \in DOMAIN tablas \ {p}
      PROVE  Intacta(q)
  <2>1. d \notin tablas[q] /\ tablas[q] \subseteq Activos
    BY <1>1, <1>2, <1>3, <1>4 DEF Invariante, TablasConsistentes
  <2>2. \A e \in tablas[q] : segmentos'[e] = segmentos[e]
    BY <1>2, <2>1 DEF Restrict
  <2> QED BY <1>2, <2>2 DEF Intacta
<1> QED BY <1>2, <1>4

LEMMA MarcoLiberar ==
  ASSUME Invariante, liberar_huecos_ocupados
  PROVE  DOMAIN tablas' = DOMAIN tablas /\ \A q \in DOMAIN tablas : Intacta(q)
<1>1. PICK d \in aLiberar : segmentos' = Restrict(segmentos, Activos \ {d})
  BY DEF liberar_huecos_ocupados
<1>2. ASSUME NEW q \in DOMAIN tablas
      PROVE  d \notin tablas[q] /\ tablas[q] \subseteq Activos
  BY <1>1, <1>2 DEF Invariante, TablasConsistentes
<1>3. ASSUME NEW q \in DOMAIN tablas
      PROVE  \A e \in tablas[q] : segmentos'[e] = segmentos[e]
  BY <1>1, <1>2 DEF Restrict
<1> QED BY <1>3 DEF Intacta, liberar_huecos_ocupados

LEMMA KernelIgual ==
  ASSUME KernelQuieto
  PROVE  /\ UNCHANGED <<estado, tabla_segmento, contexto, transferencias, hilo_cpu, hilo_largo>>
         /\ (Ocupado' <=> Ocupado) /\ (PideCreacion' <=> PideCreacion)
         /\ (PideBorrado' <=> PideBorrado) /\ (PideEliminar' <=> PideEliminar)
<1>1. UNCHANGED <<estado, tabla_segmento, contexto, transferencias, hilo_cpu, hilo_largo>>
  BY DEF KernelQuieto, kernel
<1> QED BY <1>1 DEF Ocupado, PideCreacion, PideBorrado, PideEliminar

\* The process the thread of the CPU talks to memory about is in EXEC, that of the
\* long-term scheduler in NEW.
LEMMA Atendidos ==
  ASSUME InvarianteTodo
  PROVE  /\ Ocupado => /\ hilo_cpu.pid \in PIDS /\ estado[hilo_cpu.pid] = "EXEC"
                       /\ hilo_largo.paso # "respuesta" /\ hilo_cpu.paso # "transferir"
         /\ hilo_largo.paso = "respuesta" =>
              hilo_largo.pid \in PIDS /\ estado[hilo_largo.pid] = "NEW" /\ ~ Ocupado
         /\ hilo_cpu.paso = "transferir" => estado[hilo_cpu.pid] = "EXEC"
BY DEF InvarianteTodo, Hilos, Candados, Ocupado, EnMemoria

\* The table of a new process.
LEMMA PasoCrearTabla ==
  ASSUME InvarianteTodo, KernelQuieto, pedido # NADIE, pedido[1] = "CREATE_TABLE",
         crear_tabla_segmento(pedido[2]), Contestar({pedido[2]}), pedido' = NADIE
  PROVE  InvarianteTodo'
<1>1. PICK p \in PIDS : /\ p = hilo_largo.pid /\ p = pedido[2] /\ p \notin DOMAIN tablas
                        /\ estado[p] = "NEW"
  BY PedidoLeido, Atendidos
<1>2. /\ hilo_largo.paso = "respuesta" /\ fase = "libre" /\ ~ Ocupado
      /\ hilo_cpu.paso \notin {"respuesta", "respuesta sin memoria", "reenviado"}
  BY PedidoLeido, Atendidos DEF Ocupado, EnMemoria
<1>3. /\ tablas' = [q \in DOMAIN tablas \cup {p} |-> IF q = p THEN {Compartido} ELSE tablas[q]]
      /\ fase' = "libre" /\ segmentos' = segmentos
      /\ contestacion'.tablas = [q \in {p} |-> serializar_tabla_segmentos(q)']
  BY <1>1, <1>2 DEF crear_tabla_segmento, Contestar
<1>4. DOMAIN tablas' \ {p} = DOMAIN tablas \ {p} /\ \A q \in DOMAIN tablas : Intacta(q)
  BY <1>1, <1>3 DEF Intacta
<1>5. Invariante'
  BY <1>1, PasoValido DEF InvarianteTodo, Next
<1>6. Hilos' /\ Candados'
  BY HilosSiguen
<1>7. Preguntado'
  BY DEF Preguntado
<1>8. Contestado'
  <2>1. contestacion'.tablas[p] = serializar_tabla_segmentos(p)'
    BY <1>3
  <2>2. p \in DOMAIN tablas'
    BY <1>3
  <2> QED BY <1>1, <1>2, <1>3, <2>1, <2>2, KernelIgual DEF Contestado, TablaNueva
<1>9. Fases'
  BY <1>2, <1>3, KernelIgual DEF InvarianteTodo, Fases
<1>10. Copias'
  BY <1>1, <1>2, <1>4, CopiasSiguen
<1>11. Transfieren'
  BY <1>2, <1>3, <1>4, TransferenciasSiguen
<1> QED BY <1>5, <1>6, <1>7, <1>8, <1>9, <1>10, <1>11 DEF InvarianteTodo

\* A segment is asked for, for the first time or after the compaction.
LEMMA PideSegmento ==
  ASSUME InvarianteTodo, pedido # NADIE, pedido[1] \in {"CREATE_SEGMENT", "DELETE_SEGMENT"}
  PROVE  /\ hilo_cpu.pid \in PIDS /\ hilo_cpu.pid \in DOMAIN tablas
         /\ estado[hilo_cpu.pid] = "EXEC" /\ pedido[2] = hilo_cpu.pid
         /\ pedido[1] = "CREATE_SEGMENT" =>
              PideCreacion /\ pedido[3] \in IDS /\ pedido[4] \in TAMANIOS
         /\ pedido[1] = "DELETE_SEGMENT" => pedido[3] \in IDS /\ hilo_cpu.paso = "respuesta"
         /\ Ocupado /\ hilo_largo.paso # "respuesta" /\ ~ PideEliminar
         /\ tabla_segmento[hilo_cpu.pid] = serializar_tabla_segmentos(hilo_cpu.pid)
         /\ \/ hilo_cpu.paso = "respuesta" /\ fase = "libre"
            \/ hilo_cpu.paso = "reenviado" /\ fase = "reenviar"
<1>1. hilo_cpu.paso \in {"respuesta", "respuesta sin memoria", "reenviado"}
  BY PedidoLeido
<1>2. Ocupado
  BY <1>1 DEF Ocupado, EnMemoria
<1>3. /\ hilo_cpu.pid \in PIDS /\ estado[hilo_cpu.pid] = "EXEC"
      /\ hilo_largo.paso # "respuesta"
  BY <1>2, Atendidos
<1>4. PideCreacion \/ PideBorrado
  BY PedidoLeido
<1>5. ~ PideEliminar
  BY <1>4, UnPedido
<1>6. hilo_cpu.paso # "respuesta sin memoria"
  BY <1>5 DEF InvarianteTodo, Hilos
<1>7. pedido[1] = "DELETE_SEGMENT" => hilo_cpu.paso # "reenviado"
  BY UnPedido, PedidoLeido DEF InvarianteTodo, Hilos
<1> QED BY <1>1, <1>2, <1>3, <1>5, <1>6, <1>7, PedidoLeido

\* The answer of memory once it created or deleted a segment of the process, or said
\* that it cannot.
LEMMA PasoSegmento ==
  ASSUME InvarianteTodo, KernelQuieto,
         pedido # NADIE, pedido[1] \in {"CREATE_SEGMENT", "DELETE_SEGMENT"},
         Invariante', DOMAIN tablas' = DOMAIN tablas,
         \A q \in DOMAIN tablas \ {hilo_cpu.pid} : Intacta(q),
         \/ respuesta' \in {"SEGMENT_CREATED", "SEGMENT_DELETED"} /\ fase' = "libre"
         \/ /\ respuesta' = "OUT_OF_MEMORY" /\ fase' = "libre"
            /\ Intacta(hilo_cpu.pid)
         \/ /\ respuesta' = "NEEDS_TO_COMPACT" /\ pedido[1] = "CREATE_SEGMENT"
            /\ fase' = IF fase = "libre" THEN "compactar" ELSE "colgado",
         Contestar({pedido[2]}), pedido' = NADIE
  PROVE  InvarianteTodo'
<1>1. PICK p \in PIDS : /\ p = hilo_cpu.pid /\ p = pedido[2] /\ p \in DOMAIN tablas
                        /\ estado[p] = "EXEC"
                        /\ tabla_segmento[p] = serializar_tabla_segmentos(p)
  BY PideSegmento
<1>2. /\ Ocupado /\ hilo_largo.paso # "respuesta" /\ ~ PideEliminar
      /\ \/ hilo_cpu.paso = "respuesta" /\ fase = "libre"
         \/ hilo_cpu.paso = "reenviado" /\ fase = "reenviar"
      /\ pedido[1] = "CREATE_SEGMENT" => PideCreacion
  BY PideSegmento
<1>3. contestacion'.tablas[p] = serializar_tabla_segmentos(p)' /\ contestacion'.codigo = respuesta'
  BY <1>1 DEF Contestar
<1>6. Hilos' /\ Candados'
  BY HilosSiguen
<1>7. Preguntado'
  BY DEF Preguntado
<1>8. Contestado'
  <2>1. CASE respuesta' \in {"SEGMENT_CREATED", "SEGMENT_DELETED"} /\ fase' = "libre"
    BY <1>1, <1>2, <1>3, <2>1, KernelIgual DEF Contestado, TablaNueva
  <2>2. CASE respuesta' = "OUT_OF_MEMORY" /\ fase' = "libre" /\ Intacta(hilo_cpu.pid)
    <3>1. serializar_tabla_segmentos(p)' = serializar_tabla_segmentos(p)
      BY <1>1, <2>2, IntactaSerializa
    <3> QED BY <1>1, <1>2, <1>3, <2>2, <3>1, KernelIgual DEF Contestado
  <2>3. CASE /\ respuesta' = "NEEDS_TO_COMPACT" /\ pedido[1] = "CREATE_SEGMENT"
             /\ fase' = IF fase = "libre" THEN "compactar" ELSE "colgado"
    BY <1>2, <1>3, <2>3, KernelIgual DEF Contestado
  <2> QED BY <2>1, <2>2, <2>3
<1>9. Fases'
  BY <1>2, KernelIgual DEF InvarianteTodo, Fases
<1>10. Copias'
  BY <1>1, <1>2, CopiasSiguen
<1>11. Transfieren'
  <2>1. \A q \in DOMAIN tablas :
          estado[q] = "BLOCK" \/ (hilo_cpu.paso = "transferir" /\ q = hilo_cpu.pid)
            => Intacta(q)
    BY <1>1, <1>2
  <2>2. /\ fase' \notin {"compactando", "caido"} /\ fase # "colgado"
        /\ fase' = "colgado" => hilo_cpu.paso = "reenviado"
    BY <1>2
  <2> QED BY <2>1, <2>2, TransferenciasSiguen
<1> QED BY <1>6, <1>7, <1>8, <1>9, <1>10, <1>11 DEF InvarianteTodo

LEMMA PasoCrearSegmento ==
  ASSUME InvarianteTodo, KernelQuieto, pedido # NADIE, pedido[1] = "CREATE_SEGMENT",
         \/ crear_segmento(pedido[2], pedido[3], pedido[4])
         \/ CrearSinLugarContiguo(pedido[2], pedido[3], pedido[4])
         \/ CrearSinMemoria(pedido[2], pedido[3], pedido[4]),
         Contestar({pedido[2]}), pedido' = NADIE
  PROVE  InvarianteTodo'
<1>1. PICK p \in PIDS : p = hilo_cpu.pid /\ p = pedido[2] /\ p \in DOMAIN tablas
  BY PideSegmento
<1>2. PICK i \in IDS : i = pedido[3]
  BY PideSegmento
<1>3. PICK t \in TAMANIOS : t = pedido[4]
  BY PideSegmento
<1>4. crear_segmento(p, i, t) \/ CrearSinLugarContiguo(p, i, t) \/ CrearSinMemoria(p, i, t)
  BY <1>1, <1>2, <1>3
<1>5. Invariante'
  BY <1>4, PasoValido DEF InvarianteTodo, Next
<1>6. CASE crear_segmento(p, i, t)
  <2>1. DOMAIN tablas' = DOMAIN tablas /\ \A q \in DOMAIN tablas \ {p} : Intacta(q)
    BY <1>6, MarcoCrear DEF InvarianteTodo
  <2>2. respuesta' = "SEGMENT_CREATED" /\ fase' = "libre"
    BY <1>6 DEF crear_segmento
  <2> QED BY <1>1, <1>5, <2>1, <2>2, PasoSegmento
<1>7. CASE CrearSinLugarContiguo(p, i, t)
  <2>1. UNCHANGED <<segmentos, tablas>>
    BY <1>7 DEF CrearSinLugarContiguo
  <2>2. DOMAIN tablas' = DOMAIN tablas /\ \A q \in DOMAIN tablas : Intacta(q)
    BY <2>1 DEF Intacta
  <2>3. /\ respuesta' = "NEEDS_TO_COMPACT"
        /\ fase' = IF fase = "libre" THEN "compactar" ELSE "colgado"
    BY <1>7 DEF CrearSinLugarContiguo
  <2> QED BY <1>1, <1>5, <2>2, <2>3, PasoSegmento
<1>8. CASE CrearSinMemoria(p, i, t)
  <2>1. UNCHANGED <<segmentos, tablas>> /\ respuesta' = "OUT_OF_MEMORY" /\ fase' = "libre"
    BY <1>8 DEF CrearSinMemoria
  <2>2. DOMAIN tablas' = DOMAIN tablas /\ \A q \in DOMAIN tablas : Intacta(q)
    BY <2>1 DEF Intacta
  <2> QED BY <1>1, <1>5, <2>1, <2>2, PasoSegmento
<1> QED BY <1>4, <1>6, <1>7, <1>8

LEMMA PasoBorrarSegmento ==
  ASSUME InvarianteTodo, KernelQuieto, pedido # NADIE, pedido[1] = "DELETE_SEGMENT",
         delete_segmento(pedido[2], pedido[3]), Contestar({pedido[2]}), pedido' = NADIE
  PROVE  InvarianteTodo'
<1>1. PICK p \in PIDS : p = hilo_cpu.pid /\ p = pedido[2] /\ p \in DOMAIN tablas
  BY PideSegmento
<1>2. PICK i \in IDS : i = pedido[3]
  BY PideSegmento
<1>3. delete_segmento(p, i)
  BY <1>1, <1>2
<1>4. Invariante'
  BY <1>3, PasoValido DEF InvarianteTodo, Next
<1>5. DOMAIN tablas' = DOMAIN tablas /\ \A q \in DOMAIN tablas \ {p} : Intacta(q)
  BY <1>3, MarcoBorrar DEF InvarianteTodo
<1>6. respuesta' = "SEGMENT_DELETED" /\ fase' = "libre"
  BY <1>3 DEF delete_segmento
<1> QED BY <1>1, <1>4, <1>5, <1>6, PasoSegmento

\* The table of a process that ends is taken out; its segments are freed one by one.
LEMMA PasoEliminarTabla ==
  ASSUME InvarianteTodo, KernelQuieto, pedido # NADIE, pedido[1] = "DELETE_TABLE",
         destroy_tabla_segmento(pedido[2]), pedido' = NADIE, UNCHANGED contestacion
  PROVE  InvarianteTodo'
<1>1. PICK p \in DOMAIN tablas : p = hilo_cpu.pid /\ p = pedido[2]
  BY PedidoLeido
<1>2. /\ hilo_cpu.paso \in {"respuesta", "respuesta sin memoria"} /\ PideEliminar
      /\ contestacion = NADIE /\ fase = "libre"
  <2>1. PideEliminar /\ hilo_cpu.paso # "reenviado"
    BY PedidoLeido, UnPedido DEF InvarianteTodo, Hilos
  <2> QED BY <2>1, PedidoLeido
<1>3. Ocupado
  BY <1>2 DEF Ocupado, EnMemoria
<1>4. p \in PIDS /\ estado[p] = "EXEC"
  BY <1>1, <1>3, Atendidos
<1>5. tablas' = Restrict(tablas, DOMAIN tablas \ {p}) /\ segmentos' = segmentos /\ fase' = "liberando"
  BY <1>1 DEF destroy_tabla_segmento
<1>6. DOMAIN tablas' = DOMAIN tablas \ {p} /\ \A q \in DOMAIN tablas \ {p} : Intacta(q)
  BY <1>5 DEF Intacta, Restrict
<1>7. Invariante'
  BY <1>1, <1>4, PasoValido DEF InvarianteTodo, Next
<1>8. Hilos' /\ Candados' /\ Preguntado' /\ Contestado'
  BY <1>2, HilosSiguen DEF Preguntado, Contestado
<1>9. Fases'
  BY <1>1, <1>2, <1>5, <1>6, KernelIgual DEF InvarianteTodo, Fases
<1>10. Copias'
  BY <1>1, <1>2, <1>3, <1>4, <1>6, CopiasSiguen
<1>11. Transfieren'
  <2>1. \A q \in DOMAIN tablas :
          estado[q] = "BLOCK" \/ (hilo_cpu.paso = "transferir" /\ q = hilo_cpu.pid)
            => Intacta(q)
    BY <1>1, <1>2, <1>4, <1>6
  <2>2. /\ fase' \notin {"compactando", "caido"} /\ fase # "colgado" /\ fase' # "colgado"
    BY <1>2, <1>5
  <2> QED BY <2>1, <2>2, TransferenciasSiguen
<1> QED BY <1>7, <1>8, <1>9, <1>10, <1>11 DEF InvarianteTodo

\* Between two segments of the table that is being deleted.
LEMMA PasoLiberarUno ==
  ASSUME InvarianteTodo, KernelQuieto, liberar_huecos_ocupados, UNCHANGED socket
  PROVE  InvarianteTodo'
<1>1. /\ hilo_cpu.paso \in {"respuesta", "respuesta sin memoria"} /\ PideEliminar
      /\ contestacion = NADIE /\ fase = "liberando" /\ fase' = fase
      /\ hilo_cpu.pid \notin DOMAIN tablas /\ pedido = NADIE
  <2>1. fase = "liberando" /\ fase' = fase
    BY DEF liberar_huecos_ocupados
  <2>2. pedido = NADIE
    BY <2>1 DEF InvarianteTodo, Preguntado
  <2> QED BY <2>1, <2>2 DEF InvarianteTodo, Fases
<1>2. Ocupado
  BY <1>1 DEF Ocupado, EnMemoria
<1>3. PICK p \in PIDS : p = hilo_cpu.pid
  BY <1>2, Atendidos
<1>4. DOMAIN tablas' = DOMAIN tablas /\ \A q \in DOMAIN tablas : Intacta(q)
  BY MarcoLiberar DEF InvarianteTodo
<1>5. Invariante'
  BY PasoValido DEF InvarianteTodo, Next
<1>6. contestacion' = NADIE /\ pedido' = NADIE
  BY <1>1 DEF socket
<1>7. Hilos' /\ Candados' /\ Preguntado' /\ Contestado'
  BY <1>6, HilosSiguen DEF Preguntado, Contestado
<1>8. Fases'
  BY <1>1, <1>4, <1>6, KernelIgual DEF InvarianteTodo, Fases
<1>9. Copias'
  BY <1>1, <1>2, <1>3, <1>4, CopiasSiguen
<1>10. Transfieren'
  BY <1>1, <1>4, TransferenciasSiguen
<1> QED BY <1>5, <1>7, <1>8, <1>9, <1>10 DEF InvarianteTodo

LEMMA PasoTablaEliminada ==
  ASSUME InvarianteTodo, KernelQuieto, TablaEliminada, Contestar({}), UNCHANGED pedido
  PROVE  InvarianteTodo'
<1>1. /\ hilo_cpu.paso \in {"respuesta", "respuesta sin memoria"} /\ PideEliminar
      /\ fase = "liberando" /\ fase' = "libre" /\ UNCHANGED <<tablas, segmentos>>
      /\ hilo_cpu.pid \notin DOMAIN tablas /\ pedido = NADIE
      /\ contestacion'.codigo = "TABLE_DELETED"
  <2>1. /\ fase = "liberando" /\ fase' = "libre" /\ UNCHANGED <<tablas, segmentos>>
        /\ respuesta' = "TABLE_DELETED"
    BY DEF TablaEliminada
  <2>2. pedido = NADIE
    BY <2>1 DEF InvarianteTodo, Preguntado
  <2>3. contestacion'.codigo = "TABLE_DELETED"
    BY <2>1 DEF Contestar
  <2> QED BY <2>1, <2>2, <2>3 DEF InvarianteTodo, Fases
<1>2. Ocupado
  BY <1>1 DEF Ocupado, EnMemoria
<1>3. PICK p \in PIDS : p = hilo_cpu.pid
  BY <1>2, Atendidos
<1>4. DOMAIN tablas' = DOMAIN tablas /\ \A q \in DOMAIN tablas : Intacta(q)
  BY <1>1 DEF Intacta
<1>5. Invariante'
  BY PasoValido DEF InvarianteTodo, Next
<1>6. Hilos' /\ Candados' /\ Preguntado'
  BY <1>1, HilosSiguen DEF Preguntado
<1>7. Contestado'
  BY <1>1, KernelIgual DEF Contestado
<1>8. Fases'
  BY <1>1, KernelIgual DEF InvarianteTodo, Fases
<1>9. Copias'
  BY <1>1, <1>2, <1>3, <1>4, CopiasSiguen
<1>10. Transfieren'
  BY <1>1, <1>4, TransferenciasSiguen
<1> QED BY <1>5, <1>6, <1>7, <1>8, <1>9, <1>10 DEF InvarianteTodo

\* A compaction: nobody has a translated address while segments move, and every copy
\* is renewed before it is used.
LEMMA Compactando ==
  ASSUME InvarianteTodo, KernelQuieto, hilo_cpu.paso = "compactando",
         UNCHANGED tablas, \/ fase' = "compactando"
                           \/ fase' = "reenviar"
  PROVE  Hilos' /\ Candados' /\ Copias' /\ Transfieren'
<1>1. Hilos' /\ Candados'
  BY HilosSiguen
<1>2. Copias'
  <2>1. \A q \in PIDS :
       \/ hilo_largo.paso = "respuesta" /\ q = hilo_largo.pid
       \/ q \in DOMAIN tablas <=> estado[q] \in {"READY", "EXEC", "BLOCK"}
    BY DEF InvarianteTodo, Copias
  <2> QED BY <2>1, KernelIgual DEF Copias
<1>3. Transfieren'
  <2>1. transferencias = {} /\ ~ puede_compactar
    BY DEF InvarianteTodo, Transfieren
  <2>2. transferencias' = {} /\ ~ puede_compactar' /\ hilo_cpu' = hilo_cpu
    BY <2>1 DEF KernelQuieto, kernel, mutexes
  <2> QED BY <2>2 DEF Transfieren, TransferenciaQuieta
<1> QED BY <1>1, <1>2, <1>3

LEMMA PasoIniciar ==
  ASSUME InvarianteTodo, KernelQuieto, pedido # NADIE, pedido[1] = "COMPACT",
         IniciarCompactacion, pedido' = NADIE, UNCHANGED contestacion
  PROVE  InvarianteTodo'
<1>1. /\ hilo_cpu.paso = "compactando" /\ contestacion' = NADIE
      /\ fase' = "compactando" /\ UNCHANGED tablas
  BY PedidoLeido DEF IniciarCompactacion
<1>2. Invariante'
  BY PasoValido DEF InvarianteTodo, Next
<1>3. Preguntado' /\ Contestado'
  BY <1>1 DEF Preguntado, Contestado
<1>4. Fases'
  BY <1>1, KernelIgual DEF Fases
<1> QED BY <1>1, <1>2, <1>3, <1>4, Compactando DEF InvarianteTodo

LEMMA PasoCompactarUno ==
  ASSUME InvarianteTodo, KernelQuieto, compactar_memoria, UNCHANGED socket
  PROVE  InvarianteTodo'
<1>1. fase = "compactando" /\ fase' = "compactando" /\ UNCHANGED tablas
  BY DEF compactar_memoria
<1>2. hilo_cpu.paso = "compactando" /\ contestacion' = NADIE /\ pedido' = NADIE
  BY <1>1 DEF InvarianteTodo, Fases, Preguntado, socket
<1>3. Invariante'
  BY PasoValido DEF InvarianteTodo, Next
<1>4. Preguntado' /\ Contestado'
  BY <1>2 DEF Preguntado, Contestado
<1>5. Fases'
  BY <1>1, <1>2, KernelIgual DEF Fases
<1> QED BY <1>1, <1>2, <1>3, <1>4, <1>5, Compactando DEF InvarianteTodo

LEMMA PasoTerminar ==
  ASSUME InvarianteTodo, KernelQuieto, TerminarCompactacion, Contestar(DOMAIN tablas),
         UNCHANGED pedido
  PROVE  InvarianteTodo'
<1>1. /\ fase = "compactando" /\ fase' = "reenviar" /\ UNCHANGED tablas
      /\ respuesta' = "COMPACTED"
  BY DEF TerminarCompactacion
<1>2. hilo_cpu.paso = "compactando" /\ pedido' = NADIE
  BY <1>1 DEF InvarianteTodo, Fases, Preguntado
<1>3. Invariante'
  BY PasoValido DEF InvarianteTodo, Next
<1>4. Preguntado'
  BY <1>2 DEF Preguntado
<1>5. /\ contestacion'.codigo = "COMPACTED"
      /\ contestacion'.tablas = [q \in DOMAIN tablas |-> serializar_tabla_segmentos(q)']
  BY <1>1 DEF Contestar
<1>6. Contestado'
  BY <1>1, <1>2, <1>5, KernelIgual DEF Contestado, TablaNueva
<1>7. Fases'
  BY <1>1, <1>2, KernelIgual DEF Fases
<1> QED BY <1>1, <1>2, <1>3, <1>4, <1>6, <1>7, Compactando DEF InvarianteTodo

-----------------------------------------------------------------------------
(* The invariant of the specification *)

LEMMA InicioValidoTodo == InitTodo => InvarianteTodo
<1> SUFFICES ASSUME InitTodo PROVE InvarianteTodo
  OBVIOUS
<1> USE DEF InitTodo
<1>1. Invariante
  BY InicioValido
<1>2. DOMAIN tablas = {} /\ fase = "libre"
  BY DEF Init
<1>3. /\ Libre.paso = "recibir" /\ DOMAIN Libre = {"paso", "pid", "pide"}
      /\ hilo_cpu.paso = "recibir" /\ hilo_largo.paso = "recibir"
  BY DEF Libre
<1>4. Hilos
  <2>1. /\ DOMAIN tabla_segmento = PIDS
        /\ \A p \in PIDS : DOMAIN tabla_segmento[p] \subseteq Descriptores
    OBVIOUS
  <2>2. estado \in [PIDS -> {"NEW", "READY", "EXEC", "BLOCK", "EXIT"}]
        /\ \A p \in PIDS : estado[p] = "NEW"
    OBVIOUS
  <2> QED BY <1>3, <2>1, <2>2 DEF Hilos, Pasos
<1>5. Candados
  BY <1>3, NombresDistintos DEF Candados, Ocupado, EnMemoria
<1>6. Preguntado /\ Contestado
  BY DEF Preguntado, Contestado
<1>7. Fases
  BY <1>2, <1>3 DEF Fases
<1>8. Copias
  BY <1>2, <1>3 DEF Copias
<1>9. Transfieren
  BY <1>2, <1>3 DEF Transfieren, TransferenciaQuieta
<1> QED BY <1>1, <1>4, <1>5, <1>6, <1>7, <1>8, <1>9 DEF InvarianteTodo

\* A turn of the thread of memory is one of its steps.
LEMMA PasoDeMemoria ==
  ASSUME InvarianteTodo, procesar_kernel
  PROVE  InvarianteTodo' /\ Next
<1>1. KernelQuieto
  BY DEF procesar_kernel, KernelQuieto
<1>2. CASE AtenderConRespuesta
  <2>1. pedido # NADIE /\ pedido' = NADIE /\ Contestar({pedido[2]})
    BY <1>2 DEF AtenderConRespuesta
  <2>2. CASE pedido[1] = "CREATE_TABLE" /\ crear_tabla_segmento(pedido[2])
    <3>1. PICK p \in PIDS : p = pedido[2]
      BY <2>1, <2>2, PedidoLeido, Atendidos
    <3> QED BY <1>1, <2>1, <2>2, <3>1, PasoCrearTabla DEF Next
  <2>3. CASE /\ pedido[1] = "CREATE_SEGMENT"
             /\ \/ crear_segmento(pedido[2], pedido[3], pedido[4])
                \/ CrearSinLugarContiguo(pedido[2], pedido[3], pedido[4])
                \/ CrearSinMemoria(pedido[2], pedido[3], pedido[4])
    <3>1. InvarianteTodo'
      BY <1>1, <2>1, <2>3, PasoCrearSegmento
    <3>2. pedido[2] \in PIDS /\ pedido[3] \in IDS /\ pedido[4] \in TAMANIOS
      BY <2>1, <2>3, PideSegmento
    <3> QED BY <2>3, <3>1, <3>2 DEF Next
  <2>4. CASE pedido[1] = "DELETE_SEGMENT" /\ delete_segmento(pedido[2], pedido[3])
    <3>1. pedido[2] \in PIDS /\ pedido[3] \in IDS
      BY <2>1, <2>4, PideSegmento
    <3> QED BY <1>1, <2>1, <2>4, <3>1, PasoBorrarSegmento DEF Next
  <2> QED BY <1>2, <2>2, <2>3, <2>4 DEF AtenderConRespuesta
<1>3. CASE AtenderSinRespuesta
  <2>1. pedido # NADIE /\ pedido' = NADIE /\ UNCHANGED contestacion
    BY <1>3 DEF AtenderSinRespuesta
  <2>2. CASE pedido[1] = "DELETE_TABLE" /\ destroy_tabla_segmento(pedido[2])
    <3>1. pedido[2] \in PIDS
      BY <2>1, <2>2, PedidoLeido, Tablas DEF InvarianteTodo
    <3> QED BY <1>1, <2>1, <2>2, <3>1, PasoEliminarTabla DEF Next
  <2>3. CASE pedido[1] = "COMPACT" /\ IniciarCompactacion
    BY <1>1, <2>1, <2>3, PasoIniciar DEF Next
  <2> QED BY <1>3, <2>2, <2>3 DEF AtenderSinRespuesta
<1>4. CASE (liberar_huecos_ocupados \/ compactar_memoria) /\ UNCHANGED socket
  BY <1>1, <1>4, PasoLiberarUno, PasoCompactarUno DEF Next
<1>5. CASE TablaEliminada /\ Contestar({}) /\ UNCHANGED pedido
  BY <1>1, <1>5, PasoTablaEliminada DEF Next
<1>6. CASE TerminarCompactacion /\ Contestar(DOMAIN tablas) /\ UNCHANGED pedido
  BY <1>1, <1>6, PasoTerminar DEF Next
<1> QED BY <1>2, <1>3, <1>4, <1>5, <1>6 DEF procesar_kernel

\* A thread of the kernel, the CPU or the file system leaves memory alone.
LEMMA PasoDelKernel ==
  ASSUME InvarianteTodo, ~ajeno,
         HiloLargo \/ HiloCpu \/ FileSystem \/ Cpu \/ \E p \in PIDS : planificar(p)
  PROVE  InvarianteTodo' /\ UNCHANGED memoria
<1>1. CASE HiloLargo
  <2>1. CASE RecibirTabla
    BY <2>1, PasoRecibirTabla DEF RecibirTabla
  <2>2. ASSUME NEW p \in PIDS, PedirTabla(p) PROVE InvarianteTodo' /\ UNCHANGED memoria
    BY <2>2, PasoPedirTabla DEF PedirTabla
  <2> QED BY <1>1, <2>1, <2>2 DEF HiloLargo
<1>2. CASE HiloCpu
  <2>1. CASE Transferir
    BY <2>1, PasoTransferir DEF Transferir
  <2>2. CASE Pedir
    BY <2>2, PasoPedir DEF Pedir
  <2>3. CASE RecibirSegmento
    BY <2>3, PasoRecibirSegmento DEF RecibirSegmento
  <2>4. CASE RecibirEliminada
    BY <2>4, PasoRecibirEliminada DEF RecibirEliminada
  <2>5. CASE DesbloquearOtraVez
    BY <2>5, PasoDesbloquearOtraVez DEF DesbloquearOtraVez
  <2>6. CASE RecibirSinMemoria
    BY <2>6, PasoRecibirSinMemoria DEF RecibirSinMemoria
  <2>7. CASE RecibirCompactar
    BY <2>7, PasoRecibirCompactar DEF RecibirCompactar
  <2>8. CASE PedirCompactacion
    BY <2>8, PasoPedirCompactacion DEF PedirCompactacion
  <2>9. CASE RecibirCompactada
    BY <2>9, PasoRecibirCompactada DEF RecibirCompactada
  <2> QED BY <1>2, <2>1, <2>2, <2>3, <2>4, <2>5, <2>6, <2>7, <2>8, <2>9 DEF HiloCpu
<1>3. CASE FileSystem
  <2>1. PICK t \in transferencias : recibir_respuesta_fs(t)
    BY <1>3 DEF FileSystem
  <2> QED BY <2>1, PasoRespuestaFs DEF recibir_respuesta_fs
<1>4. CASE Cpu
  <2>1. PICK p \in PIDS :
          \/ DevolverYield(p)
          \/ \E que \in PedidosDe(contexto) : DevolverPedido(p, que)
          \/ \E dir \in Logicas(contexto), n \in Largos : DevolverTransferencia(p, dir, n)
    BY <1>4 DEF Cpu
  <2>2. CASE DevolverYield(p)
    BY <2>2, PasoDevolverYield DEF DevolverYield
  <2>3. ASSUME NEW que \in PedidosDe(contexto), DevolverPedido(p, que)
        PROVE  InvarianteTodo' /\ UNCHANGED memoria
    BY <2>3, PasoDevolverPedido DEF DevolverPedido
  <2>4. ASSUME NEW dir \in Logicas(contexto), NEW n \in Largos, DevolverTransferencia(p, dir, n)
        PROVE  InvarianteTodo' /\ UNCHANGED memoria
    BY <2>4, PasoDevolverTransferencia DEF DevolverTransferencia
  <2> QED BY <2>1, <2>2, <2>3, <2>4
<1>5. ASSUME NEW p \in PIDS, planificar(p) PROVE InvarianteTodo' /\ UNCHANGED memoria
  BY <1>5, PasoPlanificar DEF planificar
<1> QED BY <1>1, <1>2, <1>3, <1>4, <1>5

LEMMA QuietoTodo == InvarianteTodo /\ UNCHANGED todo => InvarianteTodo'
<1> SUFFICES ASSUME InvarianteTodo, UNCHANGED todo PROVE InvarianteTodo'
  OBVIOUS
<1>1. UNCHANGED <<memoria, kernel, mutexes, socket, hilo_cpu, hilo_largo>>
  BY DEF todo
<1>2. KernelQuieto
  BY <1>1 DEF KernelQuieto
<1>3. /\ Invariante' /\ UNCHANGED <<fase, tablas, segmentos>>
      /\ \A q : serializar_tabla_segmentos(q)' = serializar_tabla_segmentos(q)
      /\ EnCurso' \subseteq EnCurso => TransferenciaQuieta'
  BY <1>1, MemoriaQuieta
<1>4. Hilos' /\ Candados'
  BY <1>2, HilosSiguen
<1>5. UNCHANGED <<pedido, contestacion>>
  BY <1>1 DEF socket
<1>6. Preguntado'
  BY <1>2, <1>3, <1>5, KernelIgual DEF InvarianteTodo, Preguntado, Enviado
<1>7. Contestado'
  BY ZenonT(40), <1>2, <1>3, <1>5, KernelIgual DEF InvarianteTodo, Contestado, TablaNueva
<1>8. Fases'
  BY <1>2, <1>3, <1>5, KernelIgual DEF InvarianteTodo, Fases
<1>9. Copias'
  BY <1>2, <1>3, KernelIgual DEF InvarianteTodo, Copias
<1>10. Transfieren'
  <2>1. UNCHANGED <<transferencias, hilo_cpu, estado, puede_compactar>>
    BY <1>1 DEF kernel, mutexes
  <2>2. EnCurso' \subseteq EnCurso
    BY <2>1 DEF EnCurso
  <2> QED BY <1>3, <2>1, <2>2 DEF InvarianteTodo, Transfieren
<1> QED BY <1>3, <1>4, <1>6, <1>7, <1>8, <1>9, <1>10 DEF InvarianteTodo

LEMMA PasoValidoTodo ==
  InvarianteTodo /\ [NextTodo]_todo => InvarianteTodo' /\ [Next]_vars
<1> SUFFICES ASSUME InvarianteTodo, [NextTodo]_todo PROVE InvarianteTodo' /\ [Next]_vars
  OBVIOUS
<1>1. CASE NextTodo
  <2>1. CASE procesar_kernel
    BY <2>1, PasoDeMemoria
  <2>2. CASE ~ procesar_kernel
    BY <1>1, <2>2, PasoDelKernel DEF NextTodo, memoria, vars
  <2> QED BY <2>1, <2>2
<1>2. CASE UNCHANGED todo
  BY <1>2, QuietoTodo DEF todo, memoria, vars
<1> QED BY <1>1, <1>2

-----------------------------------------------------------------------------
(* Theorems *)

LEMMA SiempreInvarianteTodo == SpecTodo => []InvarianteTodo
<1>1. InvarianteTodo /\ [NextTodo]_todo => InvarianteTodo'
  BY PasoValidoTodo
<1> QED BY <1>1, InicioValidoTodo, PTL DEF SpecTodo

\* The threads of the kernel keep to what Memoria assumes of whoever sends it
\* requests (identifiers in range, a table once per process, no deletion of a segment
\* that is not there): composed with them memory is still a behaviour of Memoria, and
\* its theorems hold of the whole system.
THEOREM MemoriaEnSuEntorno == SpecTodo => Spec
<1>1. InitTodo => Init
  BY DEF InitTodo
<1>2. InvarianteTodo /\ [NextTodo]_todo => [Next]_vars
  BY PasoValidoTodo
<1> QED BY <1>1, <1>2, SiempreInvarianteTodo, PTL DEF SpecTodo, Spec

\* Every variable has its type, and puede_compactar is with the one transfer or with
\* the compaction, never with both and never with nobody.
THEOREM TipoCorrectoTodo == SpecTodo => []TypeOKTodo
<1>1. ASSUME InvarianteTodo PROVE TypeOKTodo
  <2>1. TypeOK
    BY <1>1 DEF InvarianteTodo, Invariante
  <2>2. /\ estado \in [PIDS -> {"NEW", "READY", "EXEC", "BLOCK", "EXIT"}]
        /\ \A p \in PIDS : DOMAIN tabla_segmento[p] \subseteq Descriptores
    BY <1>1 DEF InvarianteTodo, Hilos
  <2>3. /\ mutex_socket_memoria \in {NADIE, "cpu", "largo"}
        /\ puede_compactar \in BOOLEAN /\ ajeno \in BOOLEAN
    BY <1>1 DEF InvarianteTodo, Candados
  <2>4. CASE transferencias = {}
    <3>1. Cardinality(transferencias) = 0
      BY <2>4, FS_EmptySet
    <3>2. puede_compactar <=>
            ~ (hilo_cpu.paso \in {"compactando", "reenviado"} \/ fase = "colgado")
      BY <1>1, <2>4 DEF InvarianteTodo, Transfieren
    <3> QED BY <2>1, <2>2, <2>3, <3>1, <3>2 DEF TypeOKTodo
  <2>5. CASE transferencias # {}
    <3>1. PICK t : t \in transferencias
      BY <2>5
    <3>2. transferencias = {t}
      BY <1>1, <3>1 DEF InvarianteTodo, Transfieren
    <3>3. Cardinality(transferencias) = 1
      BY <3>2, FS_Singleton
    <3>4. /\ ~ (hilo_cpu.paso \in {"compactando", "reenviado"} \/ fase = "colgado")
          /\ ~ puede_compactar
      BY <1>1, <2>5 DEF InvarianteTodo, Transfieren
    <3> QED BY <2>1, <2>2, <2>3, <3>3, <3>4 DEF TypeOKTodo
  <2> QED BY <2>4, <2>5
<1> QED BY <1>1, SiempreInvarianteTodo, PTL

\* As long as no thread was robbed of mutex_socket_memoria, who waits for an answer
\* holds it, and the socket has its request or its answer and nothing else.
THEOREM UnaSolicitudPorVez == SpecTodo => []UnaSolicitud
<1>1. ASSUME InvarianteTodo PROVE UnaSolicitud
  <2> SUFFICES ASSUME ~ajeno
               PROVE  /\ EsperanRespuesta \subseteq {mutex_socket_memoria}
                      /\ pedido = NADIE \/ contestacion = NADIE
                      /\ (pedido # NADIE \/ contestacion # NADIE) => EsperanRespuesta # {}
    BY DEF UnaSolicitud
  <2>1. /\ "cpu" \in EsperanRespuesta <=>
             hilo_cpu.paso \in {"respuesta", "respuesta sin memoria", "reenviado", "compactando"}
        /\ "largo" \in EsperanRespuesta <=>
             hilo_largo.paso \in {"respuesta", "respuesta sin memoria", "reenviado", "compactando"}
        /\ EsperanRespuesta \subseteq {"cpu", "largo"}
    BY DEF EsperanRespuesta
  <2>2. hilo_largo.paso \in {"respuesta", "respuesta sin memoria", "reenviado", "compactando"}
          => hilo_largo.paso = "respuesta"
    <3>1. hilo_largo.paso # "respuesta" => hilo_largo = Libre
      BY <1>1 DEF InvarianteTodo, Hilos
    <3>2. Libre.paso = "recibir"
      BY DEF Libre
    <3> QED BY <3>1, <3>2
  <2>3. EsperanRespuesta \subseteq {mutex_socket_memoria}
    BY <1>1, <2>1, <2>2 DEF InvarianteTodo, Candados, Ocupado, EnMemoria
  <2>4. pedido = NADIE \/ contestacion = NADIE
    BY <1>1 DEF InvarianteTodo, Preguntado
  <2>5. CASE pedido # NADIE
    <3>1. \/ hilo_largo.paso = "respuesta"
          \/ hilo_cpu.paso \in {"respuesta", "respuesta sin memoria", "reenviado", "compactando"}
      BY <1>1, <2>5 DEF InvarianteTodo, Preguntado
    <3> QED BY <2>1, <2>3, <2>4, <3>1
  <2>6. CASE contestacion # NADIE
    <3>1. \/ hilo_largo.paso = "respuesta"
          \/ hilo_cpu.paso \in {"respuesta", "respuesta sin memoria", "reenviado", "compactando"}
      BY <1>1, <2>6 DEF InvarianteTodo, Contestado
    <3> QED BY <2>1, <2>3, <2>4, <3>1
  <2> QED BY <2>3, <2>4, <2>5, <2>6
<1> QED BY <1>1, SiempreInvarianteTodo, PTL

\* Memory is only asked about tables it has, and to compact or to try again only when
\* it said so.
THEOREM SiempreConTabla == SpecTodo => []PedidoConTabla
<1>1. ASSUME InvarianteTodo PROVE PedidoConTabla
  <2> SUFFICES ASSUME pedido # NADIE
               PROVE  /\ pedido[1] # "COMPACT" =>
                           (pedido[2] \in DOMAIN tablas <=> pedido[1] # "CREATE_TABLE")
                      /\ fase = CASE pedido[1] = "COMPACT"       -> "compactar"
                                  [] hilo_cpu.paso = "reenviado" -> "reenviar"
                                  [] OTHER                       -> "libre"
    BY DEF PedidoConTabla
  <2>1. pedido[1] \in {"CREATE_TABLE", "COMPACT", "CREATE_SEGMENT", "DELETE_SEGMENT",
                       "DELETE_TABLE"}
    <3>1. \/ pedido = <<"CREATE_TABLE", hilo_largo.pid>> \/ pedido = <<"COMPACT">> \/ Enviado
      BY <1>1 DEF InvarianteTodo, Preguntado
    <3>2. Enviado => pedido[1] \in {"CREATE_SEGMENT", "DELETE_SEGMENT", "DELETE_TABLE"}
      BY DEF Enviado
    <3> QED BY <3>1, <3>2
  <2>2. CASE pedido[1] = "COMPACT"
    BY <1>1, <2>2, PedidoLeido
  <2>3. CASE pedido[1] = "CREATE_TABLE"
    <3>1. hilo_cpu.paso # "reenviado"
      BY <1>1, <2>3, PedidoLeido, Atendidos DEF Ocupado, EnMemoria
    <3> QED BY <1>1, <2>3, <3>1, PedidoLeido
  <2>4. CASE pedido[1] \in {"CREATE_SEGMENT", "DELETE_SEGMENT", "DELETE_TABLE"}
    BY <1>1, <2>4, PedidoLeido
  <2> QED BY <2>1, <2>2, <2>3, <2>4
<1> QED BY <1>1, SiempreInvarianteTodo, PTL

\* When nobody talks to memory the kernel has every table as memory has it, and the CPU
\* always works with the table as it is.
THEOREM CopiasSiempreAlDia == SpecTodo => []CopiasAlDia
<1>1. ASSUME InvarianteTodo PROVE CopiasAlDia
  <2>1. ASSUME mutex_socket_memoria = NADIE, ~ajeno
        PROVE  /\ {p \in PIDS : estado[p] \in {"READY", "EXEC", "BLOCK"}} = DOMAIN tablas
               /\ \A p \in DOMAIN tablas : tabla_segmento[p] = serializar_tabla_segmentos(p)
    <3>1. ~ Ocupado /\ hilo_largo.paso # "respuesta" /\ fase = "libre"
      BY <1>1, <2>1, Callada DEF Libre
    <3>2. hilo_cpu.paso \notin {"respuesta", "respuesta sin memoria"}
      BY <3>1 DEF Ocupado, EnMemoria
    <3>3. DOMAIN tablas \subseteq PIDS
      BY <1>1, Tablas DEF InvarianteTodo
    <3> QED BY <1>1, <3>1, <3>2, <3>3 DEF InvarianteTodo, Copias
  <2>2. ASSUME NEW p \in PIDS, Devuelto(p)
        PROVE  p \in DOMAIN tablas /\ contexto = serializar_tabla_segmentos(p)
    <3>1. estado[p] = "EXEC" /\ hilo_cpu.paso = "recibir"
      BY <2>2 DEF Devuelto, Libre
    <3> QED BY <1>1, <3>1 DEF InvarianteTodo, Copias, Hilos
  <2> QED BY <2>1, <2>2 DEF CopiasAlDia
<1> QED BY <1>1, SiempreInvarianteTodo, PTL

\* Whatever logical address and length a program uses, the MMU gives it bytes of the
\* segment it names or none, with the table as memory has it then.
THEOREM SiempreAccesosPropios == SpecTodo => []AccesosPropios
<1>1. ASSUME InvarianteTodo PROVE AccesosPropios
  <2> SUFFICES ASSUME NEW p \in PIDS, Devuelto(p),
                      NEW dir \in Logicas(contexto), NEW n \in Largos,
                      traducir_a_direccion_fisica(dir, contexto, n) # -1
               PROVE  SonDe(p, dir, traducir_a_direccion_fisica(dir, contexto, n), n)
    BY DEF AccesosPropios
  <2>1. estado[p] = "EXEC" /\ hilo_cpu.paso = "recibir"
    BY DEF Devuelto, Libre
  <2>2. p \in DOMAIN tablas /\ contexto = serializar_tabla_segmentos(p)
    BY <1>1, <2>1 DEF InvarianteTodo, Copias, Hilos
  <2>3. fase \notin {"compactando", "caido"}
    BY <1>1, <2>1 DEF InvarianteTodo, Fases
  <2> QED BY <1>1, <2>2, <2>3, Alcance DEF InvarianteTodo
<1> QED BY <1>1, SiempreInvarianteTodo, PTL

\* The segment of a transfer stays where the MMU found it until the file system
\* answers: puede_compactar is enough, whatever the other processes create and delete.
THEOREM SiempreQuieta == SpecTodo => []TransferenciaQuieta
<1>1. InvarianteTodo => TransferenciaQuieta
  BY DEF InvarianteTodo, Transfieren
<1> QED BY <1>1, SiempreInvarianteTodo, PTL
==============================================================================
