----------------------- MODULE ArchivosAbiertosProofs -----------------------
(***************************************************************************)
(* The table of open files gives each file to one program at a time and    *)
(* implements the lock of Candados, for any number of programs and files.  *)
(***************************************************************************)
EXTENDS ArchivosAbiertos, SecuenciasProofs

Pendiente(p) == p = en_fs \/ p \in ToSet(cola_archivos)

\* A request that is queued or at the file system is of a blocked process that
\* has the file, or it is the F_OPEN the thread of the CPU waits for, of a file
\* that nobody has opened in the meantime.
PedidosCoherentes ==
  /\ en_fs \notin ToSet(cola_archivos)
  /\ \A p \in PROCESOS : Pendiente(p) =>
       \/ estado[p] = "BLOCK" /\ instruccion[p][1] # "F_OPEN" /\ instruccion[p][2] \in usa[p]
       \/ /\ estado[p] = "EXEC" /\ hilo_cpu = "f_open_done" /\ f_open_done = 0
          /\ instruccion[p][1] = "F_OPEN" /\ ~ EstaAbierto(instruccion[p][2])
  /\ hilo_cpu = "recibir" => f_open_done = 0

\* A file has one user at most, and an entry exactly when it has one.
UsuarioUnico ==
  /\ ~ caido
  /\ \A p, q \in PROCESOS : \A f \in usa[p] \cap usa[q] : p = q
  /\ \A f \in ARCHIVOS : EstaAbierto(f) <=> \E p \in PROCESOS : f \in usa[p]

\* None of the four is inductive alone: a file is given to one program because no
\* F_OPEN of an open file reaches the file system, that is so because the thread
\* of the CPU waits for the answer, and the one F_CLOSE wakes is there because
\* its queue holds exactly those that F_OPEN blocked.
Invariante == TypeOK /\ PedidosCoherentes /\ UsuarioUnico /\ ColaDeEspera

LEMMA InicioValido == Init => Invariante
<1> SUFFICES ASSUME Init PROVE Invariante
  OBVIOUS
<1>1. /\ cola_ready \in Seq(PROCESOS) /\ IsInjective(cola_ready)
      /\ ToSet(cola_ready) = PROCESOS
  BY ConstantesValidas, DeConjunto DEF Init
<1>2. TypeOK
  <2>1. restan \in [PROCESOS -> 0 .. LARGO]
    BY ConstantesValidas DEF Init
  <2>2. /\ ToSet(cola_ready) = {p \in PROCESOS : estado[p] = "READY"}
        /\ {p \in PROCESOS : estado[p] = "EXEC"} = {cola_exec} \ {NADIE}
    BY <1>1 DEF Init
  <2>3. archivos_abiertos \in Seq(ARCHIVOS) /\ cola_archivos \in Seq(PROCESOS)
        /\ cola_bloqueados \in [ARCHIVOS -> Seq(PROCESOS)]
    BY EmptySeq DEF Init
  <2> QED BY <1>1, <2>1, <2>2, <2>3, Vacia DEF Init, TypeOK, Instrucciones
<1>3. \A f : ~ EstaAbierto(f)
  BY DEF Init, EstaAbierto, Contains
<1>4. PedidosCoherentes
  BY Vacia, ConstantesValidas DEF Init, PedidosCoherentes, Pendiente
<1>5. UsuarioUnico
  BY <1>3 DEF Init, UsuarioUnico
<1>6. ColaDeEspera
  BY <1>3, Vacia DEF Init, ColaDeEspera
<1> QED BY <1>2, <1>4, <1>5, <1>6 DEF Invariante

\* What each kind of step needs of the state before it.
LEMMA Hechos ==
  ASSUME Invariante
  PROVE  /\ \A f : EstaAbierto(f) <=> f \in ToSet(archivos_abiertos)
         /\ \A p : p \in ToSet(cola_ready) <=> p \in PROCESOS /\ estado[p] = "READY"
         /\ \A p \in PROCESOS : estado[p] = "EXEC" <=> p = cola_exec
         /\ \A p \in PROCESOS : Pendiente(p) => estado[p] \in {"BLOCK", "EXEC"}
         /\ \A p \in PROCESOS : Pendiente(p) /\ hilo_cpu = "recibir" => estado[p] = "BLOCK"
<1>1. \A f : EstaAbierto(f) <=> f \in ToSet(archivos_abiertos)
  BY Pertenece DEF Invariante, TypeOK, EstaAbierto
<1>2. \A p : p \in ToSet(cola_ready) <=> p \in PROCESOS /\ estado[p] = "READY"
  BY DEF Invariante, TypeOK
<1>3. \A p \in PROCESOS : estado[p] = "EXEC" <=> p = cola_exec
  BY ConstantesValidas DEF Invariante, TypeOK
<1>4. \A p \in PROCESOS : Pendiente(p) => estado[p] \in {"BLOCK", "EXEC"}
  BY DEF Invariante, PedidosCoherentes
<1>5. \A p \in PROCESOS : Pendiente(p) /\ hilo_cpu = "recibir" => estado[p] = "BLOCK"
  BY DEF Invariante, PedidosCoherentes
<1> QED BY <1>1, <1>2, <1>3, <1>4, <1>5

LEMMA PasoPlanificar ==
  ASSUME Invariante, planificar
  PROVE  Invariante'
<1> USE DEF planificar, Invariante
<1> DEFINE q == Head(cola_ready)
<1>1. /\ q \in PROCESOS /\ q \in ToSet(cola_ready)
      /\ Tail(cola_ready) \in Seq(PROCESOS) /\ IsInjective(Tail(cola_ready))
      /\ ToSet(cola_ready) = ToSet(Tail(cola_ready)) \cup {q}
      /\ q \notin ToSet(Tail(cola_ready))
  BY Sacar DEF TypeOK
<1> HIDE DEF q
<1>2. estado[q] = "READY" /\ \A p \in PROCESOS : estado[p] # "EXEC"
  BY <1>1, Hechos, ConstantesValidas
<1>3. /\ cola_ready' = Tail(cola_ready) /\ cola_exec' = q
      /\ estado' = [estado EXCEPT ![q] = "EXEC"]
  BY DEF q
<1>4. \A p \in PROCESOS : estado'[p] = IF p = q THEN "EXEC" ELSE estado[p]
  BY <1>1, <1>3 DEF TypeOK
<1>5. TypeOK'
  <2>1. ToSet(cola_ready') = {p \in PROCESOS : estado'[p] = "READY"}
    BY <1>1, <1>3, <1>4, Hechos
  <2>2. {p \in PROCESOS : estado'[p] = "EXEC"} = {cola_exec'} \ {NADIE}
    BY <1>1, <1>2, <1>3, <1>4, ConstantesValidas
  <2> QED BY <1>1, <1>3, <2>1, <2>2 DEF TypeOK, tabla, fs
<1>6. PedidosCoherentes'
  BY <1>1, <1>2, <1>3, <1>4, Hechos DEF PedidosCoherentes, Pendiente, EstaAbierto, tabla, fs
<1>7. UsuarioUnico'
  BY DEF UsuarioUnico, EstaAbierto, tabla
<1>8. ColaDeEspera'
  <2>1. \A p \in PROCESOS : estado'[p] = "BLOCK" <=> estado[p] = "BLOCK"
    BY <1>2, <1>4
  <2> QED BY <2>1 DEF ColaDeEspera, EstaAbierto, tabla
<1> QED BY <1>5, <1>6, <1>7, <1>8

\* What the thread of the CPU knows when a process returns with a request.
LEMMA AlDevolver ==
  ASSUME Invariante, NEW p \in PROCESOS, NEW op, NEW f, Devuelto(p, op, f)
  PROVE  /\ estado[p] = "EXEC" /\ cola_exec = p /\ p # NADIE /\ f_open_done = 0
         /\ ~ Pendiente(p)
         /\ f \in usa[p] <=> op # "F_OPEN"
         /\ restan' \in [PROCESOS -> 0 .. LARGO]
         /\ instruccion' = [instruccion EXCEPT ![p] = <<op, f>>]
         /\ \A q \in PROCESOS :
              instruccion'[q] = IF q = p THEN <<op, f>> ELSE instruccion[q]
<1> USE DEF Devuelto, Invariante
<1>1. estado[p] = "EXEC" /\ cola_exec = p /\ p # NADIE
  BY Hechos, ConstantesValidas
<1>2. ~ Pendiente(p) /\ f_open_done = 0
  BY <1>1, Hechos DEF PedidosCoherentes
<1>3. restan' \in [PROCESOS -> 0 .. LARGO]
  <2>1. restan[p] \in 0 .. LARGO /\ restan[p] > 0
    BY DEF TypeOK
  <2>2. restan[p] - 1 \in 0 .. LARGO
    BY <2>1, ConstantesValidas
  <2> QED BY <2>2 DEF TypeOK
<1>4. \A q \in PROCESOS : instruccion'[q] = IF q = p THEN <<op, f>> ELSE instruccion[q]
  BY DEF TypeOK
<1> QED BY <1>1, <1>2, <1>3, <1>4

\* A step after which p is blocked, or keeps the CPU, with a request queued.
LEMMA PasoPedir ==
  ASSUME Invariante, NEW p \in PROCESOS, NEW f \in ARCHIVOS,
         \/ PedirApertura(p, f)
         \/ \E op \in Operaciones : PedirFS(p, op, f)
  PROVE  Invariante'
<1> USE DEF Invariante
<1>1. PICK op \in Operaciones :
        /\ Devuelto(p, op, f)
        /\ \/ op = "F_OPEN" /\ PedirApertura(p, f)
           \/ op # "F_OPEN" /\ PedirFS(p, op, f)
  BY DEF PedirApertura, PedirFS, Operaciones
<1>2. /\ estado[p] = "EXEC" /\ cola_exec = p /\ p # NADIE /\ f_open_done = 0
      /\ ~ Pendiente(p)
      /\ f \in usa[p] <=> op # "F_OPEN"
      /\ restan' \in [PROCESOS -> 0 .. LARGO]
      /\ \A q \in PROCESOS : instruccion'[q] = IF q = p THEN <<op, f>> ELSE instruccion[q]
      /\ instruccion' = [instruccion EXCEPT ![p] = <<op, f>>]
  BY <1>1, AlDevolver
<1>3. /\ cola_archivos' = Append(cola_archivos, p) /\ caido' = FALSE
      /\ \/ /\ op = "F_OPEN" /\ ~ EstaAbierto(f) /\ hilo_cpu' = "f_open_done"
            /\ UNCHANGED <<estado, cola_exec>>
         \/ /\ op # "F_OPEN" /\ UNCHANGED hilo_cpu
            /\ estado' = [estado EXCEPT ![p] = "BLOCK"] /\ cola_exec' = NADIE
      /\ UNCHANGED <<cola_ready, archivos_abiertos, puntero, cola_bloqueados, f_open_done,
                     en_fs, existe, usa>>
  <2>0. caido = FALSE
    BY DEF TypeOK, UsuarioUnico
  <2>1. CASE op = "F_OPEN"
    BY <2>0, <2>1, <1>1 DEF PedirApertura, tabla
  <2>2. CASE op # "F_OPEN"
    <3>1. EstaAbierto(f)
      BY <2>2, <1>2 DEF UsuarioUnico
    <3> QED BY <2>0, <2>2, <3>1, <1>1 DEF PedirFS, tabla, pasar_a_cola_blocked
  <2> QED BY <2>1, <2>2
<1>4. /\ Append(cola_archivos, p) \in Seq(PROCESOS) /\ IsInjective(Append(cola_archivos, p))
      /\ ToSet(Append(cola_archivos, p)) = ToSet(cola_archivos) \cup {p}
  BY <1>2, Agregar DEF TypeOK, Pendiente
<1>5. /\ \A q \in PROCESOS : q # p => estado'[q] = estado[q]
      /\ \/ op = "F_OPEN" /\ estado'[p] = "EXEC"
         \/ op # "F_OPEN" /\ estado'[p] = "BLOCK"
      /\ estado' \in [PROCESOS -> {"READY", "EXEC", "BLOCK", "EXIT"}]
  <2>1. estado \in [PROCESOS -> {"READY", "EXEC", "BLOCK", "EXIT"}]
    BY DEF TypeOK
  <2>2. CASE estado' = estado /\ op = "F_OPEN"
    BY <2>1, <2>2, <1>2
  <2>3. CASE estado' = [estado EXCEPT ![p] = "BLOCK"] /\ op # "F_OPEN"
    BY <2>1, <2>3
  <2> HIDE DEF Invariante
  <2> QED BY <1>3, <2>2, <2>3
<1>6. hilo_cpu' \in {"recibir", "f_open_done"} /\ cola_exec' \in {p, NADIE}
  BY <1>1, <1>2, <1>3 DEF Devuelto
<1>7. TypeOK'
  <2>1. ToSet(cola_ready') = {q \in PROCESOS : estado'[q] = "READY"}
    BY <1>2, <1>3, <1>5, Hechos
  <2>2. {q \in PROCESOS : estado'[q] = "EXEC"} = {cola_exec'} \ {NADIE}
    BY <1>2, <1>3, <1>5, Hechos, ConstantesValidas
  <2>3. instruccion' \in [PROCESOS -> Instrucciones]
    BY <1>2 DEF TypeOK, Instrucciones
  <2>4. /\ cola_ready' \in Seq(PROCESOS) /\ IsInjective(cola_ready')
        /\ archivos_abiertos' \in Seq(ARCHIVOS) /\ IsInjective(archivos_abiertos')
        /\ puntero' \in [ARCHIVOS -> POSICIONES \cup {0}]
        /\ cola_bloqueados' \in [ARCHIVOS -> Seq(PROCESOS)]
        /\ f_open_done' \in {0, 1} /\ en_fs' \in PROCESOS \cup {NADIE}
        /\ existe' \subseteq ARCHIVOS /\ usa' \in [PROCESOS -> SUBSET ARCHIVOS]
    <3> HIDE DEF Invariante
    <3> QED BY <1>3 DEF TypeOK, Invariante
  <2> HIDE DEF Invariante
  <2> QED BY <1>2, <1>3, <1>4, <1>5, <1>6, <2>1, <2>2, <2>3, <2>4 DEF TypeOK
<1>8. PedidosCoherentes'
  <2>1. en_fs' \notin ToSet(cola_archivos')
    BY <1>2, <1>3, <1>4 DEF PedidosCoherentes, Pendiente
  <2>2. ASSUME NEW q \in PROCESOS, Pendiente(q)'
        PROVE \/ estado'[q] = "BLOCK" /\ instruccion'[q][1] # "F_OPEN" /\ instruccion'[q][2] \in usa'[q]
              \/ /\ estado'[q] = "EXEC" /\ hilo_cpu' = "f_open_done" /\ f_open_done' = 0
                 /\ instruccion'[q][1] = "F_OPEN" /\ ~ EstaAbierto(instruccion[q][2])'
    <3>1. CASE q = p
      BY <3>1, <1>2, <1>3, <1>5 DEF EstaAbierto
    <3>2. CASE q # p
      <4>1. Pendiente(q)
        BY <2>2, <3>2, <1>3, <1>4 DEF Pendiente
      <4>2. estado[q] = "BLOCK"
        BY <4>1, <1>1, Hechos DEF Devuelto
      <4> QED BY <3>2, <4>1, <4>2, <1>2, <1>3, <1>5 DEF PedidosCoherentes
    <3> QED BY <3>1, <3>2
  <2>3. f_open_done' = 0
    BY <1>2, <1>3
  <2> HIDE DEF Invariante
  <2> QED BY <2>1, <2>2, <2>3 DEF PedidosCoherentes
<1>9. UsuarioUnico'
  BY <1>3 DEF UsuarioUnico, EstaAbierto
<1>10. ColaDeEspera'
  <2>1. ASSUME NEW q \in PROCESOS, NEW g \in ARCHIVOS
        PROVE  estado'[q] = "BLOCK" /\ instruccion'[q] = <<"F_OPEN", g>>
               <=> estado[q] = "BLOCK" /\ instruccion[q] = <<"F_OPEN", g>>
    BY <1>2, <1>5
  <2> QED BY <2>1, <1>3 DEF ColaDeEspera, EstaAbierto
<1> QED BY <1>7, <1>8, <1>9, <1>10

LEMMA PasoEsperarArchivo ==
  ASSUME Invariante, NEW p \in PROCESOS, NEW f \in ARCHIVOS, EsperarArchivo(p, f)
  PROVE  Invariante'
<1> USE DEF Invariante, EsperarArchivo, pasar_a_cola_blocked
<1>1. /\ estado[p] = "EXEC" /\ cola_exec = p /\ p # NADIE /\ f_open_done = 0
      /\ ~ Pendiente(p)
      /\ restan' \in [PROCESOS -> 0 .. LARGO]
      /\ \A q \in PROCESOS : instruccion'[q] = IF q = p THEN <<"F_OPEN", f>> ELSE instruccion[q]
      /\ instruccion' = [instruccion EXCEPT ![p] = <<"F_OPEN", f>>]
  BY AlDevolver
<1>2. /\ \A q \in PROCESOS : estado'[q] = IF q = p THEN "BLOCK" ELSE estado[q]
      /\ \A g \in ARCHIVOS :
           cola_bloqueados'[g] = IF g = f THEN Append(cola_bloqueados[f], p) ELSE cola_bloqueados[g]
      /\ cola_bloqueados[f] \in Seq(PROCESOS) /\ hilo_cpu = "recibir"
  BY DEF TypeOK, Devuelto
<1>3. p \notin ToSet(cola_bloqueados[f]) /\ IsInjective(cola_bloqueados[f])
  BY <1>1 DEF ColaDeEspera
<1>4. /\ Append(cola_bloqueados[f], p) \in Seq(PROCESOS)
      /\ IsInjective(Append(cola_bloqueados[f], p))
      /\ ToSet(Append(cola_bloqueados[f], p)) = ToSet(cola_bloqueados[f]) \cup {p}
  BY <1>2, <1>3, Agregar
<1>5. TypeOK'
  <2>1. ToSet(cola_ready') = {q \in PROCESOS : estado'[q] = "READY"}
    BY <1>1, <1>2, Hechos
  <2>2. {q \in PROCESOS : estado'[q] = "EXEC"} = {cola_exec'} \ {NADIE}
    BY <1>1, <1>2, Hechos
  <2>3. instruccion' \in [PROCESOS -> Instrucciones]
    BY <1>1 DEF TypeOK, Instrucciones, Operaciones
  <2>4. cola_bloqueados' \in [ARCHIVOS -> Seq(PROCESOS)]
    BY <1>4 DEF TypeOK
  <2> QED BY <1>1, <2>1, <2>2, <2>3, <2>4 DEF TypeOK, fs
<1>6. PedidosCoherentes'
  <2>1. \A q \in PROCESOS : Pendiente(q)' => Pendiente(q) /\ q # p
    BY <1>1 DEF Pendiente, fs
  <2> QED BY <2>1, <1>1, <1>2, Hechos DEF PedidosCoherentes, fs
<1>7. UsuarioUnico'
  BY DEF UsuarioUnico, EstaAbierto
<1>8. ColaDeEspera'
  <2>1. ASSUME NEW g \in ARCHIVOS
        PROVE  /\ IsInjective(cola_bloqueados'[g])
               /\ cola_bloqueados'[g] # <<>> => EstaAbierto(g)'
               /\ ToSet(cola_bloqueados'[g]) =
                    {q \in PROCESOS : estado'[q] = "BLOCK" /\ instruccion'[q] = <<"F_OPEN", g>>}
    <3>1. CASE g = f
      <4>1. EstaAbierto(f)'
        BY DEF EstaAbierto
      <4>2. ToSet(cola_bloqueados[f]) =
              {q \in PROCESOS : estado[q] = "BLOCK" /\ instruccion[q] = <<"F_OPEN", f>>}
        BY DEF ColaDeEspera
      <4> QED BY <3>1, <4>1, <4>2, <1>1, <1>2, <1>4
    <3>2. CASE g # f
      <4>1. \A q \in PROCESOS :
              estado'[q] = "BLOCK" /\ instruccion'[q] = <<"F_OPEN", g>>
              <=> estado[q] = "BLOCK" /\ instruccion[q] = <<"F_OPEN", g>>
        BY <3>2, <1>1, <1>2
      <4> QED BY <3>2, <4>1, <1>2 DEF ColaDeEspera, EstaAbierto
    <3> QED BY <3>1, <3>2
  <2> QED BY <2>1 DEF ColaDeEspera
<1> QED BY <1>5, <1>6, <1>7, <1>8

LEMMA PasoEsperarApertura ==
  ASSUME Invariante, EsperarApertura
  PROVE  Invariante'
<1>1. /\ f_open_done = 1 /\ f_open_done' = 0 /\ hilo_cpu' = "recibir" /\ caido' = FALSE
      /\ UNCHANGED <<estado, instruccion, restan, cola_ready, cola_exec, archivos_abiertos,
                     puntero, cola_bloqueados, cola_archivos, en_fs, existe, usa>>
  BY DEF EsperarApertura, Invariante, TypeOK, pcbs, tabla, fs
<1>2. TypeOK'
  BY <1>1 DEF Invariante, TypeOK
<1>3. PedidosCoherentes'
  BY <1>1 DEF Invariante, PedidosCoherentes, Pendiente, EstaAbierto
<1>4. UsuarioUnico' /\ ColaDeEspera'
  BY <1>1 DEF Invariante, UsuarioUnico, ColaDeEspera, EstaAbierto
<1> QED BY <1>2, <1>3, <1>4 DEF Invariante

\* Who closes a file has it; if the entry goes, nobody is left in its queue.
LEMMA AlCerrarUltimo ==
  ASSUME Invariante, NEW p \in PROCESOS, NEW f \in ARCHIVOS, CerrarUltimo(p, f)
  PROVE  f \in usa[p] /\ cola_bloqueados[f] = <<>>
<1>1. f \in usa[p]
  BY AlDevolver DEF CerrarUltimo
<1>2. EstaAbierto(f)
  BY <1>1 DEF Invariante, UsuarioUnico
<1>3. cola_bloqueados[f] \in Seq(PROCESOS) /\ Len(cola_bloqueados[f]) < 1
  BY <1>2 DEF CerrarUltimo, SinEsperas, Invariante, TypeOK
<1> QED BY <1>1, <1>3, EmptySeq, LenProperties

\* F_CLOSE of a file nobody waits for: the entry goes with its only user.
LEMMA PasoCerrarUltimo ==
  ASSUME Invariante, NEW p \in PROCESOS, NEW f \in ARCHIVOS, CerrarUltimo(p, f)
  PROVE  Invariante'
<1>1. /\ estado[p] = "EXEC" /\ ~ Pendiente(p) /\ f \in usa[p]
      /\ restan' \in [PROCESOS -> 0 .. LARGO]
      /\ \A q \in PROCESOS : instruccion'[q] = IF q = p THEN <<"F_CLOSE", f>> ELSE instruccion[q]
      /\ instruccion' = [instruccion EXCEPT ![p] = <<"F_CLOSE", f>>]
  BY AlDevolver DEF CerrarUltimo
<1>2. /\ archivos_abiertos' = RemoveFirst(archivos_abiertos, f)
      /\ usa' = [usa EXCEPT ![p] = @ \ {f}]
      /\ caido' = FALSE
      /\ UNCHANGED <<estado, cola_ready, cola_exec, puntero, cola_bloqueados, hilo_cpu,
                     f_open_done, cola_archivos, en_fs, existe>>
  BY DEF CerrarUltimo, Devuelto, fs, Invariante, TypeOK
<1>3. cola_bloqueados[f] = <<>>
  BY AlCerrarUltimo
<1>4. /\ archivos_abiertos' \in Seq(ARCHIVOS) /\ IsInjective(archivos_abiertos')
      /\ \A g : EstaAbierto(g)' <=> EstaAbierto(g) /\ g # f
  <2>1. /\ archivos_abiertos' \in Seq(ARCHIVOS) /\ IsInjective(archivos_abiertos')
        /\ ToSet(archivos_abiertos') = ToSet(archivos_abiertos) \ {f}
    BY <1>2, QuitarUno DEF Invariante, TypeOK
  <2>2. \A g : EstaAbierto(g)' <=> g \in ToSet(archivos_abiertos')
    BY <2>1, Pertenece DEF EstaAbierto
  <2> QED BY <2>1, <2>2, Hechos
<1>5. \A q \in PROCESOS : usa'[q] = IF q = p THEN usa[p] \ {f} ELSE usa[q]
  BY <1>2 DEF Invariante, TypeOK
<1>6. TypeOK'
  <2>1. instruccion' \in [PROCESOS -> Instrucciones]
    BY <1>1 DEF Invariante, TypeOK, Instrucciones
  <2> QED BY <1>1, <1>2, <1>4, <2>1 DEF Invariante, TypeOK
<1>7. PedidosCoherentes'
  <2>1. hilo_cpu = "recibir"
    BY DEF CerrarUltimo, Devuelto
  <2>2. \A q \in PROCESOS : Pendiente(q)' => Pendiente(q) /\ q # p
    BY <1>1, <1>2 DEF Pendiente
  <2> QED BY <2>1, <2>2, <1>1, <1>2, <1>5, Hechos DEF Invariante, PedidosCoherentes
<1>8. UsuarioUnico'
  BY <1>1, <1>2, <1>4, <1>5 DEF Invariante, UsuarioUnico
<1>9. ColaDeEspera'
  <2>1. \A q \in PROCESOS, g \in ARCHIVOS :
          estado'[q] = "BLOCK" /\ instruccion'[q] = <<"F_OPEN", g>>
          <=> estado[q] = "BLOCK" /\ instruccion[q] = <<"F_OPEN", g>>
    BY <1>1, <1>2
  <2> QED BY <2>1, <1>2, <1>3, <1>4 DEF Invariante, ColaDeEspera
<1> QED BY <1>6, <1>7, <1>8, <1>9 DEF Invariante

\* Who is woken is blocked on this file and on nothing else, and its pcb is there.
LEMMA AlDespertar ==
  ASSUME Invariante, NEW p \in PROCESOS, NEW f \in ARCHIVOS, CerrarYDespertar(p, f)
  PROVE  LET q == Head(cola_bloqueados[f])
             r == Tail(cola_bloqueados[f]) IN
         /\ q \in PROCESOS /\ r \in Seq(PROCESOS) /\ IsInjective(r) /\ q \notin ToSet(r)
         /\ ToSet(cola_bloqueados[f]) = ToSet(r) \cup {q}
         /\ cola_bloqueados[f] # <<>>
         /\ f \in usa[p]
         /\ estado[q] = "BLOCK" /\ instruccion[q] = <<"F_OPEN", f>> /\ q # p /\ ~ Pendiente(q)
         /\ cola_bloqueados' = [cola_bloqueados EXCEPT ![f] = r]
         /\ cola_ready' = Append(cola_ready, q)
         /\ estado' = [estado EXCEPT ![q] = "READY"]
         /\ usa' = [x \in PROCESOS |-> IF x = q THEN usa[q] \cup {f}
                                       ELSE IF x = p THEN usa[p] \ {f} ELSE usa[x]]
         /\ caido' = FALSE
         /\ UNCHANGED <<cola_exec, archivos_abiertos, puntero, hilo_cpu, f_open_done,
                        cola_archivos, en_fs, existe>>
<1> DEFINE q == Head(cola_bloqueados[f])
           r == Tail(cola_bloqueados[f])
<1>1. /\ estado[p] = "EXEC" /\ ~ Pendiente(p) /\ f \in usa[p] /\ hilo_cpu = "recibir"
      /\ restan' \in [PROCESOS -> 0 .. LARGO]
      /\ \A x \in PROCESOS : instruccion'[x] = IF x = p THEN <<"F_CLOSE", f>> ELSE instruccion[x]
      /\ instruccion' = [instruccion EXCEPT ![p] = <<"F_CLOSE", f>>]
  <2>1. Devuelto(p, "F_CLOSE", f)
    BY DEF CerrarYDespertar
  <2>2. hilo_cpu = "recibir"
    BY <2>1 DEF Devuelto
  <2> QED BY <2>1, <2>2, AlDevolver
<1>2. cola_bloqueados[f] # <<>>
  BY DEF CerrarYDespertar, SinEsperas
<1>3. /\ q \in PROCESOS /\ r \in Seq(PROCESOS) /\ IsInjective(r) /\ q \notin ToSet(r)
      /\ ToSet(cola_bloqueados[f]) = ToSet(r) \cup {q}
  <2>1. cola_bloqueados[f] \in Seq(PROCESOS) /\ IsInjective(cola_bloqueados[f])
    BY DEF Invariante, TypeOK, ColaDeEspera
  <2> QED BY <2>1, <1>2, Sacar
<1>4. estado[q] = "BLOCK" /\ instruccion[q] = <<"F_OPEN", f>> /\ q # p /\ ~ Pendiente(q)
  <2>1. estado[q] = "BLOCK" /\ instruccion[q] = <<"F_OPEN", f>>
    BY <1>3 DEF Invariante, ColaDeEspera
  <2> HIDE DEF q
  <2> QED BY <1>1, <1>3, <2>1 DEF Invariante, PedidosCoherentes
<1>5. /\ cola_bloqueados' = [cola_bloqueados EXCEPT ![f] = r]
      /\ cola_ready' = Append(cola_ready, q)
      /\ estado' = [estado EXCEPT ![q] = "READY"]
      /\ usa' = [x \in PROCESOS |-> IF x = q THEN usa[q] \cup {f}
                                    ELSE IF x = p THEN usa[p] \ {f} ELSE usa[x]]
      /\ caido' = FALSE
      /\ UNCHANGED <<cola_exec, archivos_abiertos, puntero, hilo_cpu, f_open_done,
                     cola_archivos, en_fs, existe>>
  BY <1>4 DEF CerrarYDespertar, Devuelto, ADesbloquear, pasar_a_cola_ready, fs, Invariante, TypeOK
<1> QED BY <1>1, <1>2, <1>3, <1>4, <1>5

\* F_CLOSE of a file somebody waits for: it changes hands.
LEMMA PasoCerrarYDespertar ==
  ASSUME Invariante, NEW p \in PROCESOS, NEW f \in ARCHIVOS, CerrarYDespertar(p, f)
  PROVE  Invariante'
<1> DEFINE q == Head(cola_bloqueados[f])
           r == Tail(cola_bloqueados[f])
<1>1. /\ estado[p] = "EXEC" /\ ~ Pendiente(p) /\ f \in usa[p] /\ hilo_cpu = "recibir"
      /\ restan' \in [PROCESOS -> 0 .. LARGO]
      /\ \A x \in PROCESOS : instruccion'[x] = IF x = p THEN <<"F_CLOSE", f>> ELSE instruccion[x]
      /\ instruccion' = [instruccion EXCEPT ![p] = <<"F_CLOSE", f>>]
  <2>1. Devuelto(p, "F_CLOSE", f)
    BY DEF CerrarYDespertar
  <2>2. hilo_cpu = "recibir"
    BY <2>1 DEF Devuelto
  <2> QED BY <2>1, <2>2, AlDevolver
<1>2. /\ q \in PROCESOS /\ r \in Seq(PROCESOS) /\ IsInjective(r) /\ q \notin ToSet(r)
      /\ ToSet(cola_bloqueados[f]) = ToSet(r) \cup {q}
      /\ cola_bloqueados[f] # <<>>
      /\ f \in usa[p]
      /\ estado[q] = "BLOCK" /\ instruccion[q] = <<"F_OPEN", f>> /\ q # p /\ ~ Pendiente(q)
      /\ cola_bloqueados' = [cola_bloqueados EXCEPT ![f] = r]
      /\ cola_ready' = Append(cola_ready, q)
      /\ estado' = [estado EXCEPT ![q] = "READY"]
      /\ usa' = [x \in PROCESOS |-> IF x = q THEN usa[q] \cup {f}
                                    ELSE IF x = p THEN usa[p] \ {f} ELSE usa[x]]
      /\ caido' = FALSE
      /\ UNCHANGED <<cola_exec, archivos_abiertos, puntero, hilo_cpu, f_open_done,
                     cola_archivos, en_fs, existe>>
  BY AlDespertar
<1> HIDE DEF q, r
<1>3. /\ \A x \in PROCESOS : estado'[x] = IF x = q THEN "READY" ELSE estado[x]
      /\ \A x \in PROCESOS : usa'[x] = IF x = q THEN usa[q] \cup {f}
                                        ELSE IF x = p THEN usa[p] \ {f} ELSE usa[x]
      /\ \A g \in ARCHIVOS : cola_bloqueados'[g] = IF g = f THEN r ELSE cola_bloqueados[g]
      /\ \A g : EstaAbierto(g)' <=> EstaAbierto(g)
  BY <1>2 DEF Invariante, TypeOK, EstaAbierto
<1>4. /\ cola_ready' \in Seq(PROCESOS) /\ IsInjective(cola_ready')
      /\ ToSet(cola_ready') = ToSet(cola_ready) \cup {q}
  <2>1. q \notin ToSet(cola_ready)
    BY <1>2, Hechos
  <2> QED BY <2>1, <1>2, Agregar DEF Invariante, TypeOK
<1>5. TypeOK'
  <2>1. ToSet(cola_ready') = {x \in PROCESOS : estado'[x] = "READY"}
    BY <1>2, <1>3, <1>4, Hechos
  <2>2. {x \in PROCESOS : estado'[x] = "EXEC"} = {cola_exec'} \ {NADIE}
    BY <1>2, <1>3 DEF Invariante, TypeOK
  <2>3. instruccion' \in [PROCESOS -> Instrucciones]
    BY <1>1 DEF Invariante, TypeOK, Instrucciones
  <2>4. estado' \in [PROCESOS -> {"READY", "EXEC", "BLOCK", "EXIT"}]
        /\ cola_bloqueados' \in [ARCHIVOS -> Seq(PROCESOS)]
        /\ usa' \in [PROCESOS -> SUBSET ARCHIVOS]
    BY <1>2 DEF Invariante, TypeOK
  <2> QED BY <1>1, <1>2, <1>4, <2>1, <2>2, <2>3, <2>4 DEF Invariante, TypeOK
<1>6. PedidosCoherentes'
  <2>1. \A x \in PROCESOS : Pendiente(x)' => Pendiente(x) /\ x # p /\ x # q
    BY <1>1, <1>2 DEF Pendiente
  <2> QED BY <2>1, <1>1, <1>2, <1>3, Hechos DEF Invariante, PedidosCoherentes
<1>7. UsuarioUnico'
  <2>1. \A x \in PROCESOS : f \in usa[x] <=> x = p
    BY <1>1 DEF Invariante, UsuarioUnico
  <2>2. \A x \in PROCESOS : f \in usa'[x] <=> x = q
    BY <2>1, <1>2, <1>3
  <2>3. \A x \in PROCESOS, g \in ARCHIVOS : g # f => (g \in usa'[x] <=> g \in usa[x])
    BY <1>3
  <2>4. usa' \in [PROCESOS -> SUBSET ARCHIVOS]
    BY <1>5 DEF TypeOK
  <2>5. ASSUME NEW x \in PROCESOS, NEW y \in PROCESOS, NEW g \in usa'[x] \cap usa'[y]
        PROVE  x = y
    BY <2>2, <2>3, <2>4, <2>5 DEF Invariante, UsuarioUnico
  <2>6. ASSUME NEW g \in ARCHIVOS
        PROVE  EstaAbierto(g)' <=> \E x \in PROCESOS : g \in usa'[x]
    BY <2>1, <2>2, <2>3, <1>2, <1>3 DEF Invariante, UsuarioUnico
  <2> QED BY <2>5, <2>6, <1>2 DEF UsuarioUnico
<1>8. ColaDeEspera'
  <2>1. \A x \in PROCESOS, g \in ARCHIVOS :
          estado'[x] = "BLOCK" /\ instruccion'[x] = <<"F_OPEN", g>>
          <=> x # q /\ estado[x] = "BLOCK" /\ instruccion[x] = <<"F_OPEN", g>>
    BY <1>1, <1>3
  <2>2. ASSUME NEW g \in ARCHIVOS
        PROVE  /\ IsInjective(cola_bloqueados'[g])
               /\ cola_bloqueados'[g] # <<>> => EstaAbierto(g)'
               /\ ToSet(cola_bloqueados'[g]) =
                    {x \in PROCESOS : estado'[x] = "BLOCK" /\ instruccion'[x] = <<"F_OPEN", g>>}
    <3>1. CASE g = f
      <4>1. EstaAbierto(f)
        BY DEF CerrarYDespertar
      <4>2. ToSet(cola_bloqueados[f]) =
              {x \in PROCESOS : estado[x] = "BLOCK" /\ instruccion[x] = <<"F_OPEN", f>>}
        BY DEF Invariante, ColaDeEspera
      <4> QED BY <3>1, <4>1, <4>2, <2>1, <1>2, <1>3
    <3>2. CASE g # f
      <4>1. \A x \in PROCESOS :
              estado'[x] = "BLOCK" /\ instruccion'[x] = <<"F_OPEN", g>>
              <=> estado[x] = "BLOCK" /\ instruccion[x] = <<"F_OPEN", g>>
        BY <2>1, <3>2, <1>2
      <4> QED BY <3>2, <4>1, <1>3 DEF Invariante, ColaDeEspera
    <3> QED BY <3>1, <3>2
  <2> QED BY <2>2 DEF ColaDeEspera
<1> QED BY <1>5, <1>6, <1>7, <1>8 DEF Invariante

LEMMA PasoSeek ==
  ASSUME Invariante, NEW p \in PROCESOS, NEW f \in ARCHIVOS, NEW n \in POSICIONES,
         ejecutar_f_seek(p, f, n)
  PROVE  Invariante'
<1>1. /\ estado[p] = "EXEC" /\ ~ Pendiente(p)
      /\ restan' \in [PROCESOS -> 0 .. LARGO]
      /\ \A q \in PROCESOS : instruccion'[q] = IF q = p THEN <<"F_SEEK", f>> ELSE instruccion[q]
      /\ instruccion' = [instruccion EXCEPT ![p] = <<"F_SEEK", f>>]
  BY AlDevolver DEF ejecutar_f_seek
<1>2. /\ puntero' \in [ARCHIVOS -> POSICIONES \cup {0}] /\ caido' = FALSE
      /\ UNCHANGED <<estado, cola_ready, cola_exec, archivos_abiertos, cola_bloqueados,
                     hilo_cpu, f_open_done, cola_archivos, en_fs, existe, usa>>
  BY DEF ejecutar_f_seek, Devuelto, fs, Invariante, TypeOK
<1>3. TypeOK'
  <2>1. instruccion' \in [PROCESOS -> Instrucciones]
    BY <1>1 DEF Invariante, TypeOK, Instrucciones
  <2> QED BY <1>1, <1>2, <2>1 DEF Invariante, TypeOK
<1>4. PedidosCoherentes'
  <2>1. \A q \in PROCESOS : Pendiente(q)' => Pendiente(q) /\ q # p
    BY <1>1, <1>2 DEF Pendiente
  <2> QED BY <2>1, <1>1, <1>2 DEF Invariante, PedidosCoherentes, EstaAbierto
<1>5. UsuarioUnico'
  BY <1>2 DEF Invariante, UsuarioUnico, EstaAbierto
<1>6. ColaDeEspera'
  <2>1. \A q \in PROCESOS, g \in ARCHIVOS :
          estado'[q] = "BLOCK" /\ instruccion'[q] = <<"F_OPEN", g>>
          <=> estado[q] = "BLOCK" /\ instruccion[q] = <<"F_OPEN", g>>
    BY <1>1, <1>2
  <2> QED BY <2>1, <1>2 DEF Invariante, ColaDeEspera, EstaAbierto
<1> QED BY <1>3, <1>4, <1>5, <1>6 DEF Invariante

LEMMA PasoTerminar ==
  ASSUME Invariante, NEW p \in PROCESOS, Terminar(p)
  PROVE  Invariante'
<1>1. /\ hilo_cpu = "recibir" /\ cola_exec = p /\ cola_exec' = NADIE
      /\ estado' = [estado EXCEPT ![p] = "EXIT"]
      /\ UNCHANGED <<instruccion, restan, cola_ready, archivos_abiertos, puntero, cola_bloqueados,
                     hilo_cpu, f_open_done, cola_archivos, en_fs, existe, caido, usa>>
  BY DEF Terminar, tabla, fs
<1>2. /\ estado[p] = "EXEC" /\ ~ Pendiente(p)
      /\ \A q \in PROCESOS : estado'[q] = IF q = p THEN "EXIT" ELSE estado[q]
  BY <1>1, Hechos DEF Invariante, TypeOK
<1>3. TypeOK'
  <2>1. ToSet(cola_ready') = {q \in PROCESOS : estado'[q] = "READY"}
    BY <1>1, <1>2, Hechos
  <2>2. {q \in PROCESOS : estado'[q] = "EXEC"} = {cola_exec'} \ {NADIE}
    BY <1>1, <1>2, Hechos
  <2> QED BY <1>1, <2>1, <2>2 DEF Invariante, TypeOK
<1>4. PedidosCoherentes'
  <2>1. \A q \in PROCESOS : Pendiente(q)' => Pendiente(q) /\ q # p
    BY <1>1, <1>2 DEF Pendiente
  <2> QED BY <2>1, <1>1, <1>2 DEF Invariante, PedidosCoherentes, EstaAbierto
<1>5. UsuarioUnico'
  BY <1>1 DEF Invariante, UsuarioUnico, EstaAbierto
<1>6. ColaDeEspera'
  <2>1. \A q \in PROCESOS : estado'[q] = "BLOCK" <=> estado[q] = "BLOCK"
    BY <1>2
  <2> QED BY <2>1, <1>1 DEF Invariante, ColaDeEspera, EstaAbierto
<1> QED BY <1>3, <1>4, <1>5, <1>6 DEF Invariante

\* The request that is sent is of a process that has its file, so its entry is there.
LEMMA PasoEnviar ==
  ASSUME Invariante, enviar_request_fs
  PROVE  Invariante'
<1> DEFINE p == Head(cola_archivos)
<1>1. /\ p \in PROCESOS /\ p \in ToSet(cola_archivos)
      /\ Tail(cola_archivos) \in Seq(PROCESOS) /\ IsInjective(Tail(cola_archivos))
      /\ ToSet(cola_archivos) = ToSet(Tail(cola_archivos)) \cup {p}
      /\ p \notin ToSet(Tail(cola_archivos))
  BY Sacar DEF enviar_request_fs, Invariante, TypeOK
<1>2. /\ en_fs' = p /\ cola_archivos' = Tail(cola_archivos)
      /\ caido' = (instruccion[p][1] \in {"F_READ", "F_WRITE"} /\ ~ EstaAbierto(instruccion[p][2]))
      /\ UNCHANGED <<estado, instruccion, restan, cola_ready, cola_exec, archivos_abiertos,
                     puntero, cola_bloqueados, hilo_cpu, f_open_done, existe, usa>>
  BY DEF enviar_request_fs, pcbs, tabla
<1> HIDE DEF p
<1>3. caido' = FALSE
  <2>1. CASE instruccion[p][1] \in {"F_READ", "F_WRITE"}
    <3>1. Pendiente(p) /\ instruccion[p][1] # "F_OPEN"
      BY <2>1, <1>1 DEF Pendiente
    <3>2. instruccion[p][2] \in usa[p]
      BY <3>1, <1>1 DEF Invariante, PedidosCoherentes
    <3>3. instruccion[p][2] \in ARCHIVOS
      BY <3>2, <1>1 DEF Invariante, TypeOK
    <3> QED BY <3>2, <3>3, <1>1, <1>2 DEF Invariante, UsuarioUnico
  <2> QED BY <2>1, <1>2
<1>4. TypeOK'
  BY <1>1, <1>2, <1>3 DEF Invariante, TypeOK
<1>5. PedidosCoherentes'
  <2>1. \A q \in PROCESOS : Pendiente(q)' => Pendiente(q)
    BY <1>1, <1>2 DEF Pendiente
  <2> QED BY <2>1, <1>1, <1>2 DEF Invariante, PedidosCoherentes, EstaAbierto
<1>6. UsuarioUnico' /\ ColaDeEspera'
  BY <1>2, <1>3 DEF Invariante, UsuarioUnico, ColaDeEspera, EstaAbierto
<1> QED BY <1>4, <1>5, <1>6 DEF Invariante

LEMMA PasoCrear ==
  ASSUME Invariante, fs_crear_archivo
  PROVE  Invariante'
<1>1. /\ UNCHANGED <<estado, instruccion, restan, cola_ready, cola_exec, archivos_abiertos,
                     puntero, cola_bloqueados, hilo_cpu, f_open_done, cola_archivos, en_fs,
                     caido, usa>>
      /\ en_fs # NADIE /\ instruccion[en_fs][1] = "F_OPEN"
      /\ existe' = existe \cup {instruccion[en_fs][2]}
  BY DEF fs_crear_archivo, pcbs, tabla
<1>2. instruccion[en_fs][2] \in ARCHIVOS
  <2>1. en_fs \in PROCESOS /\ instruccion[en_fs][1] = "F_OPEN"
    BY <1>1 DEF Invariante, TypeOK
  <2> QED BY <2>1 DEF Invariante, TypeOK, Instrucciones, Ninguna
<1>3. TypeOK'
  BY <1>1, <1>2 DEF Invariante, TypeOK
<1>4. PedidosCoherentes' /\ UsuarioUnico' /\ ColaDeEspera'
  BY <1>1 DEF Invariante, PedidosCoherentes, Pendiente, UsuarioUnico, ColaDeEspera, EstaAbierto
<1> QED BY <1>3, <1>4 DEF Invariante

\* The file that the file system opened is still nobody's, with no entry and an
\* empty queue.
LEMMA AlAbrir ==
  ASSUME Invariante, RespuestaApertura
  PROVE  LET g == instruccion[en_fs][2] IN
         /\ en_fs \in PROCESOS /\ estado[en_fs] = "EXEC"
         /\ hilo_cpu = "f_open_done" /\ f_open_done = 0
         /\ g \in ARCHIVOS /\ ~ EstaAbierto(g) /\ cola_bloqueados[g] = <<>>
         /\ \A q \in PROCESOS : g \notin usa[q]
<1> DEFINE g == instruccion[en_fs][2]
<1>1. en_fs \in PROCESOS /\ instruccion[en_fs][1] = "F_OPEN"
  BY DEF RespuestaApertura, Invariante, TypeOK
<1>2. g \in ARCHIVOS
  BY <1>1 DEF Invariante, TypeOK, Instrucciones, Ninguna
<1>3. /\ estado[en_fs] = "EXEC" /\ hilo_cpu = "f_open_done" /\ f_open_done = 0
      /\ ~ EstaAbierto(g)
  BY <1>1 DEF Pendiente, Invariante, PedidosCoherentes
<1>4. \A q \in PROCESOS : g \notin usa[q]
  BY <1>2, <1>3 DEF Invariante, UsuarioUnico
<1>5. cola_bloqueados[g] = <<>>
  BY <1>2, <1>3 DEF Invariante, ColaDeEspera
<1> QED BY <1>1, <1>2, <1>3, <1>4, <1>5

LEMMA PasoAbrir ==
  ASSUME Invariante, RespuestaApertura
  PROVE  Invariante'
<1> DEFINE e == en_fs
           g == instruccion[en_fs][2]
<1>1. /\ e \in PROCESOS /\ estado[e] = "EXEC"
      /\ hilo_cpu = "f_open_done" /\ f_open_done = 0
      /\ g \in ARCHIVOS /\ ~ EstaAbierto(g) /\ cola_bloqueados[g] = <<>>
      /\ \A q \in PROCESOS : g \notin usa[q]
  BY AlAbrir
<1>2. /\ archivos_abiertos' = Append(archivos_abiertos, g)
      /\ puntero' = [puntero EXCEPT ![g] = 0]
      /\ cola_bloqueados' = cola_bloqueados
      /\ f_open_done' = 1
      /\ usa' = [usa EXCEPT ![e] = @ \cup {g}]
      /\ en_fs' = NADIE /\ caido' = FALSE
      /\ UNCHANGED <<estado, instruccion, restan, cola_ready, cola_exec, hilo_cpu,
                     cola_archivos, existe>>
  <2>1. [cola_bloqueados EXCEPT ![g] = <<>>] = cola_bloqueados
    BY <1>1 DEF Invariante, TypeOK
  <2> QED BY <2>1, <1>1 DEF RespuestaApertura, AgregarEntrada, pcbs, Invariante, TypeOK
<1>3. /\ archivos_abiertos' \in Seq(ARCHIVOS) /\ IsInjective(archivos_abiertos')
      /\ \A h : EstaAbierto(h)' <=> EstaAbierto(h) \/ h = g
  <2>1. g \notin ToSet(archivos_abiertos)
    BY <1>1, Hechos
  <2>2. /\ archivos_abiertos' \in Seq(ARCHIVOS) /\ IsInjective(archivos_abiertos')
        /\ ToSet(archivos_abiertos') = ToSet(archivos_abiertos) \cup {g}
    BY <2>1, <1>1, <1>2, Agregar DEF Invariante, TypeOK
  <2>3. \A h : EstaAbierto(h)' <=> h \in ToSet(archivos_abiertos')
    BY <2>2, Pertenece DEF EstaAbierto
  <2> QED BY <2>2, <2>3, Hechos
<1> HIDE DEF g
<1>4. \A q \in PROCESOS : usa'[q] = IF q = e THEN usa[e] \cup {g} ELSE usa[q]
  BY <1>2 DEF Invariante, TypeOK
<1>5. TypeOK'
  <2>1. /\ puntero' \in [ARCHIVOS -> POSICIONES \cup {0}]
        /\ usa' \in [PROCESOS -> SUBSET ARCHIVOS]
    BY <1>1, <1>2 DEF Invariante, TypeOK
  <2> QED BY <1>2, <1>3, <2>1 DEF Invariante, TypeOK
<1>6. PedidosCoherentes'
  <2>1. en_fs' \notin ToSet(cola_archivos')
    BY <1>2, Pertenece, ConstantesValidas DEF Invariante, TypeOK
  <2>2. ASSUME NEW q \in PROCESOS, Pendiente(q)'
        PROVE  estado'[q] = "BLOCK" /\ instruccion'[q][1] # "F_OPEN" /\ instruccion'[q][2] \in usa'[q]
    <3>1. q \in ToSet(cola_archivos) /\ q # e
      BY <2>2, <1>2, ConstantesValidas DEF Pendiente, Invariante, PedidosCoherentes
    <3>2. Pendiente(q) /\ estado[q] # "EXEC"
      BY <3>1, <1>1, Hechos DEF Pendiente
    <3> QED BY <3>1, <3>2, <1>2, <1>4 DEF Invariante, PedidosCoherentes
  <2> QED BY <2>1, <2>2, <1>1, <1>2 DEF PedidosCoherentes
<1>7. UsuarioUnico'
  <2>1. usa' \in [PROCESOS -> SUBSET ARCHIVOS]
    BY <1>5 DEF TypeOK
  <2>2. ASSUME NEW x \in PROCESOS, NEW y \in PROCESOS, NEW h \in usa'[x] \cap usa'[y]
        PROVE  x = y
    BY <1>1, <1>4 DEF Invariante, UsuarioUnico
  <2>3. ASSUME NEW h \in ARCHIVOS
        PROVE  EstaAbierto(h)' <=> \E x \in PROCESOS : h \in usa'[x]
    BY <1>1, <1>3, <1>4 DEF Invariante, UsuarioUnico
  <2> QED BY <2>2, <2>3, <1>2 DEF UsuarioUnico
<1>8. ColaDeEspera'
  BY <1>2, <1>3 DEF Invariante, ColaDeEspera
<1> QED BY <1>5, <1>6, <1>7, <1>8 DEF Invariante

LEMMA PasoResponder ==
  ASSUME Invariante, recibir_respuesta_fs
  PROVE  Invariante'
<1> DEFINE e == en_fs
<1>1. e \in PROCESOS /\ Pendiente(e) /\ instruccion[e][1] # "F_OPEN"
  BY DEF recibir_respuesta_fs, Pendiente, Invariante, TypeOK
<1>2. estado[e] = "BLOCK" /\ EstaAbierto(instruccion[e][2])
  <2>1. estado[e] = "BLOCK" /\ instruccion[e][2] \in usa[e]
    BY <1>1 DEF Invariante, PedidosCoherentes
  <2>2. instruccion[e][2] \in ARCHIVOS
    BY <2>1, <1>1 DEF Invariante, TypeOK
  <2> QED BY <2>1, <2>2, <1>1 DEF Invariante, UsuarioUnico
<1>3. /\ cola_ready' = Append(cola_ready, e) /\ estado' = [estado EXCEPT ![e] = "READY"]
      /\ en_fs' = NADIE
      /\ UNCHANGED <<instruccion, restan, cola_exec, archivos_abiertos, puntero, cola_bloqueados,
                     hilo_cpu, f_open_done, cola_archivos, existe, caido, usa>>
  BY <1>2 DEF recibir_respuesta_fs, pasar_a_cola_ready, tabla
<1>4. /\ \A q \in PROCESOS : estado'[q] = IF q = e THEN "READY" ELSE estado[q]
      /\ e \notin ToSet(cola_archivos)
  BY <1>3 DEF Invariante, TypeOK, PedidosCoherentes
<1>5. /\ cola_ready' \in Seq(PROCESOS) /\ IsInjective(cola_ready')
      /\ ToSet(cola_ready') = ToSet(cola_ready) \cup {e}
  <2>1. e \notin ToSet(cola_ready)
    BY <1>2, Hechos
  <2> QED BY <2>1, <1>1, <1>3, Agregar DEF Invariante, TypeOK
<1> HIDE DEF e
<1>6. TypeOK'
  <2>1. ToSet(cola_ready') = {q \in PROCESOS : estado'[q] = "READY"}
    BY <1>1, <1>4, <1>5, Hechos
  <2>2. {q \in PROCESOS : estado'[q] = "EXEC"} = {cola_exec'} \ {NADIE}
    BY <1>2, <1>3, <1>4 DEF Invariante, TypeOK
  <2>3. estado' \in [PROCESOS -> {"READY", "EXEC", "BLOCK", "EXIT"}]
    BY <1>3 DEF Invariante, TypeOK
  <2> QED BY <1>3, <1>5, <2>1, <2>2, <2>3 DEF Invariante, TypeOK
<1>7. PedidosCoherentes'
  <2>1. en_fs' \notin ToSet(cola_archivos')
    BY <1>3, Pertenece, ConstantesValidas DEF Invariante, TypeOK
  <2>2. \A q \in PROCESOS : Pendiente(q)' => Pendiente(q) /\ q # e
    BY <1>3, <1>4, ConstantesValidas DEF Pendiente
  <2> QED BY <2>1, <2>2, <1>3, <1>4 DEF Invariante, PedidosCoherentes, EstaAbierto
<1>8. UsuarioUnico'
  BY <1>3 DEF Invariante, UsuarioUnico, EstaAbierto
<1>9. ColaDeEspera'
  <2>1. \A q \in PROCESOS, g \in ARCHIVOS :
          estado'[q] = "BLOCK" /\ instruccion'[q] = <<"F_OPEN", g>>
          <=> estado[q] = "BLOCK" /\ instruccion[q] = <<"F_OPEN", g>>
    BY <1>1, <1>3, <1>4
  <2> QED BY <2>1, <1>3 DEF Invariante, ColaDeEspera, EstaAbierto
<1> QED BY <1>6, <1>7, <1>8, <1>9 DEF Invariante

LEMMA PasoValido ==
  ASSUME Invariante, [Next]_vars
  PROVE  Invariante'
<1>1. CASE planificar
  BY <1>1, PasoPlanificar
<1>2. CASE procesar_contexto
  <2>1. CASE EsperarApertura
    BY <2>1, PasoEsperarApertura
  <2>2. ASSUME NEW p \in PROCESOS, Terminar(p)
        PROVE  Invariante'
    BY <2>2, PasoTerminar
  <2>3. ASSUME NEW p \in PROCESOS, NEW f \in ARCHIVOS,
               \/ PedirApertura(p, f)
               \/ \E op \in Operaciones : PedirFS(p, op, f)
        PROVE  Invariante'
    BY <2>3, PasoPedir
  <2>4. ASSUME NEW p \in PROCESOS, NEW f \in ARCHIVOS, EsperarArchivo(p, f)
        PROVE  Invariante'
    BY <2>4, PasoEsperarArchivo
  <2>5. ASSUME NEW p \in PROCESOS, NEW f \in ARCHIVOS,
               CerrarUltimo(p, f) \/ CerrarYDespertar(p, f)
        PROVE  Invariante'
    BY <2>5, PasoCerrarUltimo, PasoCerrarYDespertar
  <2>6. ASSUME NEW p \in PROCESOS, NEW f \in ARCHIVOS, NEW n \in POSICIONES,
               ejecutar_f_seek(p, f, n)
        PROVE  Invariante'
    BY <2>6, PasoSeek
  <2> QED BY <1>2, <2>1, <2>2, <2>3, <2>4, <2>5, <2>6 DEF procesar_contexto
<1>3. CASE procesar_file_system
  BY <1>3, PasoEnviar, PasoCrear, PasoAbrir, PasoResponder DEF procesar_file_system
<1>4. CASE UNCHANGED vars
  BY <1>4 DEF vars, pcbs, tabla, fs, Invariante, TypeOK, PedidosCoherentes, Pendiente,
              UsuarioUnico, ColaDeEspera, EstaAbierto
<1> QED BY <1>1, <1>2, <1>3, <1>4 DEF Next

-----------------------------------------------------------------------------
(* What the table guarantees in every state and every step *)

\* The inductive invariant holds always: the three threads agree on the state of
\* every process and on who has every file.
THEOREM SiempreInvariante == Spec => []Invariante
<1>1. Init => Invariante
  BY InicioValido
<1>2. Invariante /\ [Next]_vars => Invariante'
  BY PasoValido
<1> QED BY <1>1, <1>2, PTL DEF Spec

\* Every variable keeps its type, and cola_ready and cola_exec hold exactly the
\* processes in READY and in EXEC.
THEOREM TipoCorrecto == Spec => []TypeOK
<1>1. Invariante => TypeOK
  BY DEF Invariante
<1> QED BY <1>1, SiempreInvariante, PTL

\* Two programs never have the same file open, an open file has its entry, and
\* the kernel reads through no missing entry or pcb, whatever the number of
\* programs and files and however the threads interleave.
THEOREM ExclusionDeArchivos == Spec => []UsoExclusivo
<1>1. ASSUME Invariante PROVE UsoExclusivo
  <2>1. ASSUME NEW f \in ARCHIVOS PROVE Cardinality(Usuarios(f)) <= 1
    <3>1. CASE Usuarios(f) = {}
      BY <3>1, FS_EmptySet
    <3>2. ASSUME NEW p \in Usuarios(f) PROVE Cardinality(Usuarios(f)) <= 1
      <4>1. Usuarios(f) = {p}
        BY <1>1 DEF Usuarios, Invariante, UsuarioUnico
      <4>2. Cardinality(Usuarios(f)) = 1
        BY <4>1, FS_Singleton
      <4> QED BY <4>2
    <3> QED BY <3>1, <3>2
  <2>2. \A f \in ARCHIVOS : Usuarios(f) # {} => EstaAbierto(f)
    BY <1>1 DEF Usuarios, Invariante, UsuarioUnico
  <2> QED BY <2>1, <2>2, <1>1 DEF UsoExclusivo, Invariante, UsuarioUnico
<1> QED BY <1>1, SiempreInvariante, PTL

\* The queue of a file holds exactly the processes that its F_OPEN blocked, each
\* once: F_CLOSE always finds the pcb that it must wake.
THEOREM EsperaOrdenada == Spec => []ColaDeEspera
<1>1. Invariante => ColaDeEspera
  BY DEF Invariante
<1> QED BY <1>1, SiempreInvariante, PTL

\* What a request that is under way is about.
LEMMA DePedido ==
  ASSUME Invariante, NEW p \in PROCESOS, NEW f \in Pedido(p)
  PROVE  /\ estado[p] = "BLOCK" /\ f \in usa[p] /\ f \in ARCHIVOS
         /\ EstaAbierto(f) /\ Usuarios(f) = {p}
<1>1. Pendiente(p) /\ instruccion[p][1] # "F_OPEN" /\ f = instruccion[p][2]
  BY Pertenece DEF Pedido, Pendiente, Invariante, TypeOK
<1>2. estado[p] = "BLOCK" /\ f \in usa[p]
  BY <1>1 DEF Invariante, PedidosCoherentes
<1>3. f \in ARCHIVOS
  BY <1>2 DEF Invariante, TypeOK
<1> QED BY <1>2, <1>3 DEF Usuarios, Invariante, UsuarioUnico

\* While the file system works for a program, nothing that the other programs or
\* threads do closes its file, hands it over or moves the pointer of its entry.
THEOREM PedidosEstables == Spec => PedidoEstable
<1> DEFINE Estable == \A p \in PROCESOS : \A f \in Pedido(p) :
                        f \in Pedido(p)' =>
                          /\ puntero'[f] = puntero[f]
                          /\ EstaAbierto(f)'
                          /\ Usuarios(f)' = Usuarios(f)
<1>1. (Invariante => \A p \in PROCESOS : \A f \in Pedido(p) : EstaAbierto(f) /\ Usuarios(f) = {p})'
  <2>1. Invariante => \A p \in PROCESOS : \A f \in Pedido(p) : EstaAbierto(f) /\ Usuarios(f) = {p}
    BY DePedido
  <2> QED BY <2>1, PTL
<1>2. ASSUME Invariante, Invariante', Next PROVE Estable
  <2> SUFFICES ASSUME NEW p \in PROCESOS, NEW f \in Pedido(p), f \in Pedido(p)'
               PROVE  puntero'[f] = puntero[f] /\ EstaAbierto(f)' /\ Usuarios(f)' = Usuarios(f)
    OBVIOUS
  <2>1. estado[p] = "BLOCK" /\ f \in usa[p] /\ f \in ARCHIVOS /\ EstaAbierto(f) /\ Usuarios(f) = {p}
    BY <1>2, DePedido
  <2>2. EstaAbierto(f)' /\ Usuarios(f)' = {p}
    BY <1>1, <1>2
  <2>3. puntero'[f] = puntero[f]
    <3>1. ASSUME NEW r \in PROCESOS, NEW g \in ARCHIVOS, NEW n \in POSICIONES,
                 ejecutar_f_seek(r, g, n)
          PROVE  puntero'[f] = puntero[f]
      <4>1. estado[r] = "EXEC" /\ g \in usa[r]
        BY <3>1, <1>2, AlDevolver DEF ejecutar_f_seek
      <4>2. f # g
        BY <4>1, <2>1, <1>2 DEF Invariante, UsuarioUnico
      <4> QED BY <4>2, <3>1 DEF ejecutar_f_seek
    <3>2. CASE RespuestaApertura
      <4>1. f # instruccion[en_fs][2]
        BY <3>2, <1>2, <2>1, AlAbrir
      <4>2. puntero' = puntero \/ puntero' = [puntero EXCEPT ![instruccion[en_fs][2]] = 0]
        BY <3>2 DEF RespuestaApertura, AgregarEntrada
      <4>3. puntero \in [ARCHIVOS -> POSICIONES \cup {0}]
        BY <1>2 DEF Invariante, TypeOK
      <4> QED BY <4>1, <4>2, <4>3, <2>1
    <3> QED BY <1>2, <3>1, <3>2
          DEF Next, planificar, procesar_contexto, procesar_file_system, EsperarApertura, Terminar,
              PedirApertura, PedirFS, EsperarArchivo, CerrarUltimo, CerrarYDespertar,
              enviar_request_fs, fs_crear_archivo, recibir_respuesta_fs, tabla
  <2> QED BY <2>1, <2>2, <2>3
<1>3. Invariante /\ Invariante' /\ [Next]_vars => [Estable]_vars
  BY <1>2
<1> HIDE DEF Estable
<1>4. Spec => [][Estable]_vars
  BY <1>3, SiempreInvariante, PTL DEF Spec
<1> QED BY <1>4 DEF PedidoEstable, Estable

-----------------------------------------------------------------------------
(* The table implements the lock *)

\* The owner that the lock sees is the one that has the file.
LEMMA Duenios ==
  ASSUME Invariante, NEW f \in ARCHIVOS
  PROVE  /\ \A p \in PROCESOS : Duenio(f) = p <=> f \in usa[p]
         /\ Duenio(f) = NADIE <=> ~ EstaAbierto(f)
<1>1. CASE Usuarios(f) = {}
  BY <1>1, ConstantesValidas DEF Duenio, Usuarios, Invariante, UsuarioUnico
<1>2. ASSUME NEW q \in Usuarios(f)
      PROVE  /\ \A p \in PROCESOS : Duenio(f) = p <=> f \in usa[p]
             /\ Duenio(f) = NADIE <=> ~ EstaAbierto(f)
  <2>1. Usuarios(f) = {q} /\ q \in PROCESOS
    BY DEF Usuarios, Invariante, UsuarioUnico
  <2>2. Duenio(f) = q
    BY <2>1 DEF Duenio
  <2> QED BY <2>1, <2>2, ConstantesValidas DEF Usuarios, Invariante, UsuarioUnico
<1> QED BY <1>1, <1>2

\* A step that changes only who has f, and gives it to q or to nobody.
LEMMA CambiaDuenio ==
  ASSUME NEW f \in ARCHIVOS, NEW q \in PROCESOS \cup {NADIE},
         Usuarios(f)' = {q} \ {NADIE},
         \A g \in ARCHIVOS : g # f => Usuarios(g)' = Usuarios(g)
  PROVE  [g \in ARCHIVOS |-> Duenio(g)'] = [[g \in ARCHIVOS |-> Duenio(g)] EXCEPT ![f] = q]
<1>1. Duenio(f)' = q
  BY ConstantesValidas DEF Duenio
<1>2. ASSUME NEW g \in ARCHIVOS, g # f PROVE Duenio(g)' = Duenio(g)
  <2>1. Usuarios(g)' = Usuarios(g)
    BY <1>2
  <2> QED BY <2>1 DEF Duenio
<1> QED BY <1>1, <1>2

LEMMA ImplementaInicio == Init => Abstracto!Init
BY DEF Init, Abstracto!Init, Duenio, Usuarios

\* Nobody is in a queue while it runs.
LEMMA NoEspera ==
  ASSUME Invariante, NEW p \in PROCESOS, estado[p] = "EXEC"
  PROVE  \A g \in ARCHIVOS : p \notin Abstracto!Esperan(g)
BY DEF Abstracto!Esperan, Invariante, ColaDeEspera, ToSet

LEMMA ImplementaPaso ==
  ASSUME Invariante, [Next]_vars
  PROVE  [Abstracto!Next]_(Abstracto!vars)
<1> DEFINE D == [g \in ARCHIVOS |-> Duenio(g)]
<1>1. CASE UNCHANGED <<usa, cola_bloqueados>>
  BY <1>1 DEF Abstracto!vars, Duenio, Usuarios
<1>2. CASE RespuestaApertura
  <2>1. PICK e \in PROCESOS, f \in ARCHIVOS : e = en_fs /\ f = instruccion[en_fs][2]
    BY <1>2, AlAbrir
  <2>2. /\ estado[e] = "EXEC" /\ ~ EstaAbierto(f) /\ cola_bloqueados[f] = <<>>
        /\ \A q \in PROCESOS : f \notin usa[q]
    BY <2>1, <1>2, AlAbrir
  <2>3. UNCHANGED cola_bloqueados /\ usa' = [usa EXCEPT ![e] = @ \cup {f}]
    <3>1. [cola_bloqueados EXCEPT ![f] = <<>>] = cola_bloqueados
      BY <2>2 DEF Invariante, TypeOK
    <3> QED BY <3>1, <2>1, <2>2, <1>2 DEF RespuestaApertura, AgregarEntrada
  <2>4. \A q \in PROCESOS : usa'[q] = IF q = e THEN usa[q] \cup {f} ELSE usa[q]
    BY <2>3 DEF Invariante, TypeOK
  <2>5. Usuarios(f)' = {e} \ {NADIE} /\ \A g \in ARCHIVOS : g # f => Usuarios(g)' = Usuarios(g)
    BY <2>2, <2>4, ConstantesValidas DEF Usuarios
  <2>6. D' = [D EXCEPT ![f] = e]
    BY <2>5, CambiaDuenio
  <2>7. D[f] = NADIE
    BY <2>2, Duenios
  <2>8. Abstracto!Tomar(e, f)
    BY <2>2, <2>3, <2>6, <2>7, NoEspera DEF Abstracto!Tomar
  <2> QED BY <2>8 DEF Abstracto!Next
<1>3. ASSUME NEW p \in PROCESOS, NEW f \in ARCHIVOS, EsperarArchivo(p, f)
      PROVE  Abstracto!Next
  <2>1. estado[p] = "EXEC" /\ f \notin usa[p]
    BY <1>3, AlDevolver DEF EsperarArchivo
  <2>2. D[f] \notin {NADIE, p}
    BY <2>1, <1>3, Duenios DEF EsperarArchivo
  <2>3. D' = D /\ cola_bloqueados' = [cola_bloqueados EXCEPT ![f] = Append(@, p)]
    BY <1>3 DEF EsperarArchivo, Duenio, Usuarios
  <2>4. Abstracto!Esperar(p, f)
    BY <2>1, <2>2, <2>3, NoEspera DEF Abstracto!Esperar
  <2> QED BY <2>4 DEF Abstracto!Next
<1>4. ASSUME NEW p \in PROCESOS, NEW f \in ARCHIVOS, CerrarUltimo(p, f)
      PROVE  Abstracto!Next
  <2>1. f \in usa[p] /\ cola_bloqueados[f] = <<>>
    BY <1>4, AlCerrarUltimo
  <2>2. /\ \A q \in PROCESOS : usa'[q] = IF q = p THEN usa[q] \ {f} ELSE usa[q]
        /\ UNCHANGED cola_bloqueados
    BY <1>4 DEF CerrarUltimo, Invariante, TypeOK
  <2>3. Usuarios(f)' = {} /\ \A g \in ARCHIVOS : g # f => Usuarios(g)' = Usuarios(g)
    BY <2>1, <2>2 DEF Usuarios, Invariante, UsuarioUnico
  <2>4. D' = [D EXCEPT ![f] = NADIE]
    BY <2>3, CambiaDuenio
  <2>5. D[f] = p
    BY <2>1, Duenios
  <2>6. Abstracto!Soltar(p, f)
    BY <2>1, <2>2, <2>4, <2>5 DEF Abstracto!Soltar
  <2> QED BY <2>6 DEF Abstracto!Next
<1>5. ASSUME NEW p \in PROCESOS, NEW f \in ARCHIVOS, CerrarYDespertar(p, f)
      PROVE  Abstracto!Next
  <2> DEFINE q == Head(cola_bloqueados[f])
  <2>1. /\ q \in PROCESOS /\ q # p /\ f \in usa[p] /\ cola_bloqueados[f] # <<>>
        /\ cola_bloqueados' = [cola_bloqueados EXCEPT ![f] = Tail(@)]
        /\ usa' = [x \in PROCESOS |-> IF x = q THEN usa[q] \cup {f}
                                      ELSE IF x = p THEN usa[p] \ {f} ELSE usa[x]]
    BY <1>5, AlDespertar
  <2> HIDE DEF q
  <2>2. Usuarios(f)' = {q} /\ \A g \in ARCHIVOS : g # f => Usuarios(g)' = Usuarios(g)
    BY <2>1 DEF Usuarios, Invariante, UsuarioUnico
  <2>3. D' = [D EXCEPT ![f] = q]
    BY <2>1, <2>2, CambiaDuenio, ConstantesValidas
  <2>4. D[f] = p
    BY <2>1, Duenios
  <2>5. Abstracto!Soltar(p, f)
    BY <2>1, <2>3, <2>4 DEF Abstracto!Soltar, q
  <2> QED BY <2>5 DEF Abstracto!Next
<1>6. CASE UNCHANGED vars
  BY <1>1, <1>6 DEF vars, tabla
<1> QED BY <1>1, <1>2, <1>3, <1>4, <1>5, <1>6
      DEF Next, planificar, procesar_contexto, procesar_file_system, EsperarApertura, Terminar,
          PedirApertura, PedirFS, ejecutar_f_seek, enviar_request_fs, fs_crear_archivo,
          recibir_respuesta_fs, tabla

\* The table of open files is a refinement of one lock per file with a queue in
\* order of arrival: every step of the threads takes, waits for or hands over a
\* lock, or is none of its business.
THEOREM CandadosImplementados == Spec => ImplementaCandados
<1>1. Init => Abstracto!Init
  BY ImplementaInicio
<1>2. Invariante /\ [Next]_vars => [Abstracto!Next]_(Abstracto!vars)
  BY ImplementaPaso
<1>3. Spec => Abstracto!Spec
  BY <1>1, <1>2, SiempreInvariante, PTL DEF Spec, Abstracto!Spec
<1> QED BY <1>3 DEF ImplementaCandados
==============================================================================
