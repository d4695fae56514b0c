---------------------- MODULE PlanificacionSiempreProofs ----------------------
(***************************************************************************)
(* What holds of Planificacion whenever the file system answers, even when *)
(* an early answer leaves a process in two queues or makes it ready while  *)
(* it runs: the counts of cola_new, cola_ready and the queues of the       *)
(* resources, the degree of multiprogramming and the turn of the CPU.      *)
(* None of them rests on the queue of a process agreeing with its state:   *)
(* it is enough that whoever leaves NEW never comes back to it.            *)
(***************************************************************************)
EXTENDS Planificacion, SecuenciasProofs

En(c, p)   == p \in ToSet(cola[c])
Admitidos  == {p \in PROCESOS : estado[p] \notin {"NINGUNO", "NEW"}}
Activos    == {p \in Admitidos : consola[p] # "fin"}
Anunciando == {p \in PROCESOS : consola[p] = "anuncia"}
Estados    == {"NINGUNO", "NEW", "READY", "EXEC", "BLOCK", "BLOCK_RECURSO", "EXIT",
               "DESTRUIDO"}

\* sem_nuevo_proceso counts cola_new, less the processes whose console is about to
\* post it, and the one the long-term scheduler is admitting.
NuevosContados ==
  Len(cola["new"]) = sem["nuevo"] + Uno(largo # "nuevo") + Cardinality(Anunciando)

\* cola_new holds the processes in NEW.
EnNuevos == /\ IsInjective(cola["new"])
            /\ \A p \in PROCESOS : En("new", p) <=> estado[p] = "NEW"

\* Every other list holds processes that have left NEW, and so does every thread.
YaAdmitidos ==
  /\ \A p \in PROCESOS : En("ready", p) \/ En("exec", p) => p \in Admitidos
  /\ \A r \in RECURSOS : ToSet(cola_bloqueados[r]) \subseteq Admitidos
  /\ en_io \subseteq Admitidos /\ sem_exit_proceso \subseteq Admitidos
  /\ \A e \in ToSet(cola_archivos) \cup ToSet(en_fs) : e.pcb \in Admitidos
  /\ hilo_cpu.paso # "recibir" => hilo_cpu.pcb \in Admitidos

\* A console that wakes finds a pcb in cola_exit, and the pcb has its exit code.
AlTerminar ==
  /\ Cardinality(sem_exit_proceso) <= Len(cola["exit"])
  /\ \A p \in PROCESOS :
       /\ consola[p] = "inicio" => estado[p] = "NINGUNO"
       /\ consola[p] \in {"responde", "fin"} => p \in Admitidos
       /\ consola[p] = "responde" =>
            recogido[p] \in PROCESOS /\ motivo[recogido[p]] # "NOT_DEFINED"
       /\ En("exit", p) => motivo[p] # "NOT_DEFINED"

\* The thread that talks to the CPU has a context to serve, and looks at the state
\* of a pcb after CREATE_SEGMENT only.
TurnoCierto == Turnos <= 1 /\ (~caido /\ "F_READ_FUERA" \notin OPERACIONES => Turnos = 1)
SinRevisar  == OPERACIONES \cap {"CREATE_SEGMENT", "OUT_OF_MEMORY"} = {}
EnCPU ==
  /\ hilo_cpu.paso = "atender" => contextos # <<>>
  /\ hilo_cpu.paso = "revisar" => "OUT_OF_MEMORY" \in OPERACIONES
  /\ corto = "despachar" => candidato \in PROCESOS
  /\ SinRevisar => TurnoCierto

Siempre == /\ TypeOK /\ ReadyContados /\ NuevosContados /\ GradoRespetado /\ RecursosContados
           /\ EnNuevos /\ YaAdmitidos /\ AlTerminar /\ EnCPU

-----------------------------------------------------------------------------
(* Queues and counts *)

\* A set that gains an element, or loses one.
LEMMA UnoMas ==
  ASSUME NEW A \in SUBSET PROCESOS, NEW p \in PROCESOS, p \notin A
  PROVE  Cardinality(A) \in Nat /\ Cardinality(A \cup {p}) = Cardinality(A) + 1
<1>1. IsFiniteSet(A)
  BY ConstantesValidas, FS_Subset
<1> QED BY <1>1, FS_CardinalityType, FS_AddElement

LEMMA UnoMenos ==
  ASSUME NEW A \in SUBSET PROCESOS, NEW p \in A
  PROVE  Cardinality(A) \in Nat /\ Cardinality(A \ {p}) = Cardinality(A) - 1
<1>1. IsFiniteSet(A)
  BY ConstantesValidas, FS_Subset
<1> QED BY <1>1, FS_CardinalityType, FS_RemoveElement

LEMMA Contables ==
  /\ Cardinality(Activos) \in Nat /\ Cardinality(Anunciando) \in Nat
  /\ \A S \in SUBSET PROCESOS : Cardinality(S) \in Nat
<1>1. \A S \in SUBSET PROCESOS : Cardinality(S) \in Nat
  BY ConstantesValidas, FS_Subset, FS_CardinalityType
<1>2. Activos \in SUBSET PROCESOS /\ Anunciando \in SUBSET PROCESOS
  BY DEF Activos, Admitidos, Anunciando
<1> QED BY <1>1, <1>2

\* squeue_pop of a queue that is not empty.
LEMMA Desencolar ==
  ASSUME NEW s \in Seq(PROCESOS)
  PROVE  /\ squeue_pop(s) \in Seq(PROCESOS)
         /\ IsInjective(s) => IsInjective(squeue_pop(s))
         /\ s # <<>> => /\ Len(squeue_pop(s)) = Len(s) - 1
                        /\ Head(s) \in PROCESOS /\ Head(s) \in ToSet(s)
                        /\ ToSet(s) = ToSet(squeue_pop(s)) \cup {Head(s)}
                        /\ IsInjective(s) => Head(s) \notin ToSet(squeue_pop(s))
<1>1. CASE s = <<>>
  BY <1>1, EmptySeq DEF squeue_pop
<1>2. CASE s # <<>>
  BY <1>2, Sacar DEF squeue_pop
<1> QED BY <1>1, <1>2

\* Whoever is left in a queue that was popped was in it.
LEMMA Quedan ==
  ASSUME NEW s \in Seq(PROCESOS)
  PROVE  ToSet(squeue_pop(s)) \subseteq ToSet(s)
<1>1. CASE s = <<>>
  BY <1>1 DEF squeue_pop
<1>2. CASE s # <<>>
  BY <1>2, Desencolar
<1> QED BY <1>1, <1>2

\* The queues are sequences of processes, and the length of each is a number.
LEMMA ColasValidas ==
  ASSUME TypeOK
  PROVE  /\ \A c \in Colas : cola[c] \in Seq(PROCESOS) /\ Len(cola[c]) \in Nat
         /\ \A c \in Colas : cola[c] = <<>> <=> Len(cola[c]) = 0
         /\ \A c \in Colas : \A p : En(c, p) => p \in PROCESOS
<1>1. \A c \in Colas : cola[c] \in Seq(PROCESOS)
  BY DEF TypeOK
<1>2. ASSUME NEW c \in Colas
      PROVE  Len(cola[c]) \in Nat /\ (cola[c] = <<>> <=> Len(cola[c]) = 0)
  BY <1>1, LenProperties, EmptySeq
<1>3. ASSUME NEW c \in Colas, NEW p, En(c, p)
      PROVE  p \in PROCESOS
  BY <1>1, <1>3, Pertenece DEF En
<1> QED BY <1>1, <1>2, <1>3

LEMMA InicioSiempre == Init => Siempre
<1> SUFFICES ASSUME Init PROVE Siempre
  OBVIOUS
<1>1. /\ \A c \in Colas : cola[c] = <<>>
      /\ sem["cpu"] = 1 /\ sem["ready"] = 0 /\ sem["nuevo"] = 0 /\ sem["grado"] = GRADO
      /\ hilo_cpu.paso = "recibir"
  BY DEF Init, Semaforos, Recibiendo
<1>2. ToSet(<<>>) = {} /\ IsInjective(<<>>) /\ Len(<<>>) = 0
  BY Vacia
<1>3. \A c \in Colas : \A p : ~ En(c, p)
  BY <1>1, <1>2 DEF En
<1>4. TypeOK
  <2>1. sem \in [Semaforos -> Nat]
    BY ConstantesValidas DEF Init, Semaforos
  <2>2. /\ cola \in [Colas -> Seq(PROCESOS)] /\ cola_bloqueados \in [RECURSOS -> Seq(PROCESOS)]
        /\ contextos \in Seq([pcb : PROCESOS, restan : 0 .. LARGO])
        /\ cola_archivos \in Seq([pcb : PROCESOS, op : {"F_READ", "F_TRUNCATE"}])
        /\ en_fs \in Seq([pcb : PROCESOS, op : {"F_READ", "F_TRUNCATE", "sacar", "poner"}])
        /\ Len(en_fs) <= 1
    BY EmptySeq DEF Init
  <2>3. /\ instancias \in [RECURSOS -> Int] /\ restan \in [PROCESOS -> 0 .. LARGO]
    BY ConstantesValidas DEF Init
  <2> QED BY <2>1, <2>2, <2>3 DEF Init, TypeOK, Recibiendo, Terminales
<1>5. /\ Cardinality(Anunciando) = 0 /\ Cardinality(sem_exit_proceso) = 0
      /\ Cardinality({p \in PROCESOS : estado[p] \notin {"NINGUNO", "NEW"} /\ consola[p] # "fin"}) = 0
  <2>1. /\ Anunciando = {} /\ sem_exit_proceso = {}
        /\ {p \in PROCESOS : estado[p] \notin {"NINGUNO", "NEW"} /\ consola[p] # "fin"} = {}
    BY DEF Init, Anunciando
  <2> QED BY <2>1, FS_EmptySet
<1>6. ReadyContados /\ NuevosContados /\ GradoRespetado
  BY <1>1, <1>2, <1>5, ConstantesValidas
    DEF Init, ReadyContados, NuevosContados, GradoRespetado, Uno, Colas
<1>7. RecursosContados /\ EnNuevos
  BY <1>1, <1>2, <1>3, ConstantesValidas DEF Init, RecursosContados, EnNuevos, Colas
<1>8. YaAdmitidos
  BY <1>1, <1>2, <1>3 DEF Init, YaAdmitidos, Admitidos, Colas
<1>9. AlTerminar
  BY <1>1, <1>2, <1>3, <1>5 DEF Init, AlTerminar, Colas
<1>10. EnCPU
  BY <1>1, <1>2 DEF Init, EnCPU, TurnoCierto, Turnos, Uno, Recibiendo
<1> QED BY <1>4, <1>6, <1>7, <1>8, <1>9, <1>10 DEF Siempre

-----------------------------------------------------------------------------
(* Steps that admit no process and answer no console *)

Interno ==
  /\ cola'["new"] = cola["new"]
  /\ sem'["nuevo"] = sem["nuevo"] /\ sem'["grado"] = sem["grado"]
  /\ largo' = largo /\ consola' = consola
  /\ \A p \in PROCESOS : estado'[p] = estado[p] \/ (p \in Admitidos /\ p \in Admitidos')

LEMMA InternoSigue ==
  ASSUME Siempre, Interno
  PROVE  /\ NuevosContados' /\ GradoRespetado' /\ EnNuevos'
         /\ Admitidos' = Admitidos
         /\ \A p \in PROCESOS : /\ consola'[p] = "inicio" => estado'[p] = "NINGUNO"
                                /\ consola'[p] \in {"responde", "fin"} => p \in Admitidos'
<1>1. \A p \in PROCESOS : /\ p \in Admitidos' <=> p \in Admitidos
                          /\ estado'[p] = "NEW" <=> estado[p] = "NEW"
                          /\ estado'[p] = "NINGUNO" <=> estado[p] = "NINGUNO"
  BY DEF Interno, Admitidos
<1>2. Admitidos' = Admitidos /\ Anunciando' = Anunciando
  BY <1>1 DEF Interno, Admitidos, Anunciando
<1>3. {p \in PROCESOS : estado'[p] \notin {"NINGUNO", "NEW"} /\ consola'[p] # "fin"}
        = {p \in PROCESOS : estado[p] \notin {"NINGUNO", "NEW"} /\ consola[p] # "fin"}
  BY <1>1 DEF Interno
<1>4. NuevosContados' /\ GradoRespetado'
  BY <1>2, <1>3 DEF Siempre, Interno, NuevosContados, GradoRespetado
<1>5. EnNuevos'
  BY <1>1 DEF Siempre, Interno, EnNuevos, En
<1> QED BY <1>1, <1>2, <1>4, <1>5 DEF Siempre, Interno, AlTerminar

\* Such a step that ends no process, and keeps what the other threads hold.
LEMMA AlTerminarIgual ==
  ASSUME Siempre, Interno, cola'["exit"] = cola["exit"],
         UNCHANGED <<motivo, sem_exit_proceso, recogido>>
  PROVE  AlTerminar'
BY InternoSigue DEF Siempre, AlTerminar, Interno, En

\* The turn of the CPU passes from one place to another, or is kept.
LEMMA TurnoIgual ==
  ASSUME TurnoCierto, Turnos' = Turnos, caido => caido'
  PROVE  TurnoCierto'
BY DEF TurnoCierto
-----------------------------------------------------------------------------
(* The threads of the consoles *)

LEMMA SiempreCrear ==
  ASSUME Siempre, NEW p \in PROCESOS, crear_proceso(p)
  PROVE  Siempre'
<1>1. /\ consola[p] = "inicio" /\ estado[p] = "NINGUNO" /\ ~ En("new", p)
      /\ cola["new"] \in Seq(PROCESOS) /\ IsInjective(cola["new"])
  BY DEF crear_proceso, Siempre, TypeOK, Colas, AlTerminar, EnNuevos
<1>2. /\ \A q \in PROCESOS : estado'[q] = IF q = p THEN "NEW" ELSE estado[q]
      /\ \A q \in PROCESOS : consola'[q] = IF q = p THEN "anuncia" ELSE consola[q]
      /\ \A c \in Colas : cola'[c] = IF c = "new" THEN Append(cola["new"], p) ELSE cola[c]
      /\ UNCHANGED <<motivo, restan, instancias, cola_bloqueados, procesos_en_kernel, con_tabla,
                     caido, sem, sem_exit_proceso, largo, corto, candidato, contextos, hilo_cpu,
                     en_io, cola_archivos, en_fs, puede_compactar, recogido, respuesta>>
  BY DEF crear_proceso, recursos, kernel, hilos, cpu, esperas, Siempre, TypeOK
<1>3. /\ cola'["new"] \in Seq(PROCESOS) /\ Len(cola'["new"]) = Len(cola["new"]) + 1
      /\ IsInjective(cola'["new"])
      /\ \A q : En("new", q)' <=> En("new", q) \/ q = p
      /\ \A c \in Colas \ {"new"} : \A q : En(c, q)' <=> En(c, q)
  <2>1. cola'["new"] = Append(cola["new"], p)
    BY <1>2 DEF Colas
  <2>2. p \notin ToSet(cola["new"])
    BY <1>1 DEF En
  <2>3. ToSet(cola'["new"]) = ToSet(cola["new"]) \cup {p}
    BY <1>1, <2>1, Agregar
  <2> QED BY <1>1, <1>2, <2>1, <2>2, <2>3, Agregar DEF En
<1>4. TypeOK'
  <2>1. cola' \in [Colas -> Seq(PROCESOS)]
    BY <1>3 DEF crear_proceso, Siempre, TypeOK, Colas
  <2>2. /\ estado' \in [PROCESOS -> {"NINGUNO", "NEW", "READY", "EXEC", "BLOCK",
                                     "BLOCK_RECURSO", "EXIT", "DESTRUIDO"}]
        /\ consola' \in [PROCESOS -> {"inicio", "anuncia", "espera", "responde", "fin"}]
    BY DEF crear_proceso, Siempre, TypeOK
  <2> QED BY <1>2, <2>1, <2>2 DEF Siempre, TypeOK
<1>5. Admitidos' = Admitidos
  BY <1>1, <1>2 DEF Admitidos
<1>6. NuevosContados' /\ GradoRespetado'
  <2>1. Anunciando' = Anunciando \cup {p} /\ p \notin Anunciando /\ Anunciando \subseteq PROCESOS
    BY <1>1, <1>2 DEF Anunciando
  <2>2. Cardinality(Anunciando') = Cardinality(Anunciando) + 1 /\ Cardinality(Anunciando) \in Nat
    BY <2>1, UnoMas
  <2>3. Len(cola["new"]) \in Nat /\ sem["nuevo"] \in Nat
    BY ColasValidas DEF Siempre, TypeOK, Semaforos, Colas
  <2>4. NuevosContados'
    <3>1. Len(cola["new"]) = sem["nuevo"] + Uno(largo # "nuevo") + Cardinality(Anunciando)
      BY DEF Siempre, NuevosContados
    <3>2. Len(cola'["new"]) = sem["nuevo"] + Uno(largo # "nuevo") + Cardinality(Anunciando')
      BY <3>1, <2>2, <2>3, <1>3 DEF Uno
    <3> QED BY <3>2, <1>2 DEF NuevosContados
  <2>5. {q \in PROCESOS : estado'[q] \notin {"NINGUNO", "NEW"} /\ consola'[q] # "fin"}
          = {q \in PROCESOS : estado[q] \notin {"NINGUNO", "NEW"} /\ consola[q] # "fin"}
    BY <1>1, <1>2
  <2> QED BY <2>4, <2>5, <1>2 DEF Siempre, GradoRespetado
<1>7. ReadyContados' /\ RecursosContados' /\ EnNuevos'
  BY <1>1, <1>2, <1>3 DEF Siempre, ReadyContados, RecursosContados, EnNuevos, Colas
<1>8. YaAdmitidos' /\ EnCPU'
  BY <1>2, <1>3, <1>5 DEF Siempre, YaAdmitidos, EnCPU, TurnoCierto, Turnos, Colas
<1>9. AlTerminar'
  BY <1>1, <1>2, <1>3, <1>5 DEF Siempre, AlTerminar, Colas
<1> QED BY <1>4, <1>6, <1>7, <1>8, <1>9 DEF Siempre

LEMMA SiempreAnunciar ==
  ASSUME Siempre, NEW p \in PROCESOS, AnunciarProceso(p)
  PROVE  Siempre'
<1>1. /\ consola[p] = "anuncia" /\ procesos_en_kernel' = procesos_en_kernel \cup {p}
      /\ \A q \in PROCESOS : consola'[q] = IF q = p THEN "espera" ELSE consola[q]
      /\ \A s \in Semaforos : sem'[s] = IF s = "nuevo" THEN sem["nuevo"] + 1 ELSE sem[s]
      /\ UNCHANGED <<estado, motivo, restan, cola, instancias, cola_bloqueados, con_tabla,
                     caido, sem_exit_proceso, largo, corto, candidato, contextos, hilo_cpu,
                     en_io, cola_archivos, en_fs, puede_compactar, recogido, respuesta>>
  BY DEF AnunciarProceso, sem_post, pcbs, recursos, hilos, cpu, esperas, Siempre, TypeOK
<1>2. (\A c, q : En(c, q)' <=> En(c, q)) /\ Admitidos' = Admitidos
  BY <1>1 DEF En, Admitidos
<1>3. TypeOK'
  <2>1. sem' \in [Semaforos -> Nat]
    BY DEF AnunciarProceso, sem_post, Siempre, TypeOK
  <2>2. consola' \in [PROCESOS -> {"inicio", "anuncia", "espera", "responde", "fin"}]
    BY DEF AnunciarProceso, Siempre, TypeOK
  <2> QED BY <1>1, <2>1, <2>2 DEF Siempre, TypeOK
<1>4. NuevosContados' /\ GradoRespetado'
  <2>1. Anunciando' = Anunciando \ {p} /\ p \in Anunciando /\ Anunciando \subseteq PROCESOS
    BY <1>1 DEF Anunciando
  <2>2. Cardinality(Anunciando') = Cardinality(Anunciando) - 1 /\ Cardinality(Anunciando) \in Nat
    BY <2>1, UnoMenos
  <2>3. Len(cola["new"]) \in Nat /\ sem["nuevo"] \in Nat
    BY ColasValidas DEF Siempre, TypeOK, Semaforos, Colas
  <2>4. NuevosContados'
    BY SMTT(20), <2>2, <2>3, <1>1 DEF Siempre, NuevosContados, Uno, Semaforos
  <2>5. {q \in PROCESOS : estado'[q] \notin {"NINGUNO", "NEW"} /\ consola'[q] # "fin"}
          = {q \in PROCESOS : estado[q] \notin {"NINGUNO", "NEW"} /\ consola[q] # "fin"}
    BY <1>1
  <2> QED BY <2>4, <2>5, <1>1 DEF Siempre, GradoRespetado, Semaforos
<1>5. ReadyContados' /\ RecursosContados' /\ EnNuevos'
  BY <1>1, <1>2 DEF Siempre, ReadyContados, RecursosContados, EnNuevos, Semaforos
<1>6. YaAdmitidos' /\ EnCPU'
  BY <1>1, <1>2 DEF Siempre, YaAdmitidos, EnCPU, TurnoCierto, Turnos, Semaforos
<1>7. AlTerminar'
  BY <1>1, <1>2 DEF Siempre, AlTerminar
<1> QED BY <1>3, <1>4, <1>5, <1>6, <1>7 DEF Siempre

\* A console finds a process in cola_exit, though not always its own.
LEMMA SiempreRecoger ==
  ASSUME Siempre, NEW p \in PROCESOS, RecogerExit(p)
  PROVE  Siempre'
<1> DEFINE h == Head(cola["exit"])
<1>1. /\ p \in sem_exit_proceso /\ consola[p] = "espera" /\ p \in Admitidos
      /\ cola["exit"] \in Seq(PROCESOS) /\ sem_exit_proceso \in SUBSET PROCESOS
  BY DEF RecogerExit, Siempre, TypeOK, YaAdmitidos, Colas
<1>2. /\ Cardinality(sem_exit_proceso) \in Nat
      /\ Cardinality(sem_exit_proceso \ {p}) = Cardinality(sem_exit_proceso) - 1
      /\ Cardinality(sem_exit_proceso \ {p}) \in Nat
  BY <1>1, UnoMenos, Contables
<1>3. cola["exit"] # <<>> /\ Cardinality(sem_exit_proceso) <= Len(cola["exit"])
      /\ Len(cola["exit"]) \in Nat
  <2>1. Cardinality(sem_exit_proceso) <= Len(cola["exit"])
    BY DEF Siempre, AlTerminar
  <2> QED BY <2>1, <1>1, <1>2, EmptySeq, LenProperties
<1>4. /\ h \in PROCESOS /\ h \in ToSet(cola["exit"])
      /\ squeue_pop(cola["exit"]) \in Seq(PROCESOS)
      /\ Len(squeue_pop(cola["exit"])) = Len(cola["exit"]) - 1
      /\ ToSet(cola["exit"]) = ToSet(squeue_pop(cola["exit"])) \cup {h}
  BY <1>1, <1>3, Desencolar
<1>5. /\ \A q \in PROCESOS : consola'[q] = IF q = p THEN "responde" ELSE consola[q]
      /\ \A q \in PROCESOS : recogido'[q] = IF q = p THEN h ELSE recogido[q]
      /\ \A c \in Colas : cola'[c] = IF c = "exit" THEN squeue_pop(cola["exit"]) ELSE cola[c]
      /\ sem_exit_proceso' = sem_exit_proceso \ {p}
      /\ procesos_en_kernel' = procesos_en_kernel \ {h}
      /\ UNCHANGED <<estado, motivo, restan, instancias, cola_bloqueados, con_tabla, caido, sem,
                     largo, corto, candidato, contextos, hilo_cpu, en_io, cola_archivos, en_fs,
                     puede_compactar, respuesta>>
  BY DEF RecogerExit, pcbs, recursos, hilos, cpu, esperas, Siempre, TypeOK
<1>6. TypeOK'
  <2>1. /\ cola' \in [Colas -> Seq(PROCESOS)]
        /\ consola' \in [PROCESOS -> {"inicio", "anuncia", "espera", "responde", "fin"}]
        /\ recogido' \in [PROCESOS -> PROCESOS \cup {NADIE}]
    BY <1>4 DEF RecogerExit, Siempre, TypeOK, Colas
  <2> QED BY <1>1, <1>5, <2>1 DEF Siempre, TypeOK
<1>7. motivo[h] # "NOT_DEFINED"
  BY <1>4 DEF Siempre, AlTerminar, En
<1> HIDE DEF h
<1>8. /\ \A q : En("exit", q)' => En("exit", q)
      /\ \A c \in Colas \ {"exit"} : \A q : En(c, q)' <=> En(c, q)
      /\ Admitidos' = Admitidos
  BY <1>4, <1>5 DEF En, Colas, Admitidos
<1>9. NuevosContados' /\ GradoRespetado'
  <2>1. Anunciando' = Anunciando
    BY <1>1, <1>5 DEF Anunciando
  <2>2. {q \in PROCESOS : estado'[q] \notin {"NINGUNO", "NEW"} /\ consola'[q] # "fin"}
          = {q \in PROCESOS : estado[q] \notin {"NINGUNO", "NEW"} /\ consola[q] # "fin"}
    BY <1>1, <1>5
  <2> QED BY <2>1, <2>2, <1>5 DEF Siempre, NuevosContados, GradoRespetado, Colas
<1>10. ReadyContados' /\ RecursosContados' /\ EnNuevos'
  BY <1>5, <1>8 DEF Siempre, ReadyContados, RecursosContados, EnNuevos, Colas
<1>11. YaAdmitidos' /\ EnCPU'
  BY <1>5, <1>8 DEF Siempre, YaAdmitidos, EnCPU, TurnoCierto, Turnos, Colas
<1>12. AlTerminar'
  <2>1. Cardinality(sem_exit_proceso') <= Len(cola'["exit"])
    BY <1>2, <1>3, <1>4, <1>5 DEF Colas
  <2> QED BY <2>1, <1>1, <1>4, <1>5, <1>7, <1>8 DEF Siempre, AlTerminar
<1> QED BY <1>6, <1>9, <1>10, <1>11, <1>12 DEF Siempre

LEMMA SiempreResponder ==
  ASSUME Siempre, NEW p \in PROCESOS, respuesta_proceso(p)
  PROVE  Siempre'
<1>1. /\ consola[p] = "responde" /\ p \in Admitidos
      /\ recogido[p] \in PROCESOS /\ motivo[recogido[p]] # "NOT_DEFINED"
  BY DEF respuesta_proceso, Siempre, AlTerminar
<1>2. /\ \A q \in PROCESOS : estado'[q] = IF q = p THEN "DESTRUIDO" ELSE estado[q]
      /\ \A q \in PROCESOS : consola'[q] = IF q = p THEN "fin" ELSE consola[q]
      /\ \A s \in Semaforos : sem'[s] = IF s = "grado" THEN sem["grado"] + 1 ELSE sem[s]
      /\ UNCHANGED <<motivo, restan, cola, instancias, cola_bloqueados, procesos_en_kernel,
                     con_tabla, caido, sem_exit_proceso, largo, corto, candidato, contextos,
                     hilo_cpu, en_io, cola_archivos, en_fs, puede_compactar, recogido>>
  BY DEF respuesta_proceso, sem_post, recursos, kernel, hilos, cpu, esperas, Siempre, TypeOK
<1>3. TypeOK'
  <2>1. sem' \in [Semaforos -> Nat]
    BY DEF respuesta_proceso, sem_post, Siempre, TypeOK
  <2>2. /\ estado' \in [PROCESOS -> {"NINGUNO", "NEW", "READY", "EXEC", "BLOCK",
                                     "BLOCK_RECURSO", "EXIT", "DESTRUIDO"}]
        /\ consola' \in [PROCESOS -> {"inicio", "anuncia", "espera", "responde", "fin"}]
    BY DEF respuesta_proceso, Siempre, TypeOK
  <2>3. respuesta' \in [PROCESOS -> {"NINGUNA", "BASURA", "SUCCESS"} \cup Terminales]
    <3>1. motivo[recogido[p]] \in {"SUCCESS"} \cup Terminales
      BY <1>1 DEF Siempre, TypeOK
    <3> QED BY <3>1 DEF respuesta_proceso, Siempre, TypeOK
  <2> QED BY <1>2, <2>1, <2>2, <2>3 DEF Siempre, TypeOK
<1>4. (\A c, q : En(c, q)' <=> En(c, q)) /\ Admitidos' = Admitidos
  BY <1>1, <1>2 DEF En, Admitidos
<1>5. NuevosContados' /\ GradoRespetado'
  <2> DEFINE A == {q \in PROCESOS : estado[q] \notin {"NINGUNO", "NEW"} /\ consola[q] # "fin"}
  <2>1. Anunciando' = Anunciando
    BY <1>1, <1>2 DEF Anunciando
  <2>2. A' = A \ {p} /\ p \in A /\ A \in SUBSET PROCESOS
    BY <1>1, <1>2 DEF Admitidos
  <2>3. Cardinality(A') = Cardinality(A) - 1 /\ Cardinality(A) \in Nat
    BY <2>2, UnoMenos
  <2>4. /\ sem["grado"] \in Nat /\ sem'["grado"] = sem["grado"] + 1
        /\ sem'["nuevo"] = sem["nuevo"]
    BY <1>2 DEF Siempre, TypeOK, Semaforos
  <2>5. Cardinality(A) + sem["grado"] + Uno(largo = "admitir") = GRADO
    BY DEF Siempre, GradoRespetado
  <2> HIDE DEF A
  <2>6. Cardinality(A') + sem'["grado"] + Uno(largo' = "admitir") = GRADO
    BY <2>3, <2>4, <2>5, <1>2 DEF Uno
  <2> USE DEF A
  <2>7. GradoRespetado'
    BY <2>6 DEF GradoRespetado
  <2> QED BY <2>1, <2>4, <2>7, <1>2 DEF Siempre, NuevosContados
<1>6. ReadyContados' /\ RecursosContados' /\ EnNuevos'
  BY <1>1, <1>2, <1>4 DEF Siempre, ReadyContados, RecursosContados, EnNuevos, Semaforos, Admitidos
<1>7. YaAdmitidos' /\ EnCPU'
  BY <1>2, <1>4 DEF Siempre, YaAdmitidos, EnCPU, TurnoCierto, Turnos, Semaforos
<1>8. AlTerminar'
  BY <1>1, <1>2, <1>4 DEF Siempre, AlTerminar
<1> QED BY <1>3, <1>5, <1>6, <1>7, <1>8 DEF Siempre
-----------------------------------------------------------------------------
(* What pasar_a_cola_ready does: the pcb it moves, which need not be the one it was
   given, has left NEW or is the one being admitted. *)

Entra(q, S) ==
  /\ cola' \in [Colas -> Seq(PROCESOS)]
  /\ estado' \in [PROCESOS -> Estados]
  /\ sem' \in [Semaforos -> Nat]
  /\ \A x \in PROCESOS : estado'[x] = IF x = q THEN "READY" ELSE estado[x]
  /\ \A s \in Semaforos : sem'[s] = IF s \in S \cup {"ready"} THEN sem[s] + 1 ELSE sem[s]
  /\ Len(cola'["ready"]) = Len(cola["ready"]) + 1
  /\ \A x : En("ready", x)' <=> En("ready", x) \/ x = q
  /\ \A x : En("exec", x)' => En("exec", x)
  /\ cola'["exit"] = cola["exit"]
  /\ caido' = caido

SinPcb == caido' = TRUE /\ UNCHANGED <<cola, estado, sem>>

LEMMA AlQuitar ==
  ASSUME Siempre, NEW p \in PROCESOS
  PROVE  LET c == quitar_de_cola_actual(p) IN
         /\ c \in [Colas -> Seq(PROCESOS)]
         /\ c["ready"] = cola["ready"] /\ c["exit"] = cola["exit"]
         /\ c["new"] = IF estado[p] = "NEW" THEN squeue_pop(cola["new"]) ELSE cola["new"]
         /\ ToSet(c["exec"]) \subseteq ToSet(cola["exec"])
<1>1. \A k \in Colas : cola[k] \in Seq(PROCESOS)
  BY DEF Siempre, TypeOK
<1>2. /\ \A k \in Colas : squeue_pop(cola[k]) \in Seq(PROCESOS)
      /\ ToSet(squeue_pop(cola["exec"])) \subseteq ToSet(cola["exec"])
      /\ RemoveFirst(cola["block"], p) \in Seq(PROCESOS)
  BY <1>1, Desencolar, Quedan, QuitarTipo DEF Colas
<1>3. CASE estado[p] = "NEW"
  BY <1>3, <1>2 DEF quitar_de_cola_actual, Siempre, TypeOK, Colas
<1>4. CASE estado[p] = "EXEC"
  BY <1>4, <1>2 DEF quitar_de_cola_actual, Siempre, TypeOK, Colas
<1>5. CASE estado[p] = "BLOCK"
  BY <1>5, <1>2 DEF quitar_de_cola_actual, Siempre, TypeOK, Colas
<1>6. CASE estado[p] \notin {"NEW", "EXEC", "BLOCK"}
  BY <1>6, <1>2 DEF quitar_de_cola_actual, Siempre, TypeOK, Colas
<1> QED BY <1>3, <1>4, <1>5, <1>6

LEMMA AlEntrar ==
  ASSUME Siempre, NEW p \in PROCESOS, NEW b, NEW S, pasar_a_cola_ready(p, b, S),
         estado[p] = "NEW" => p = Head(cola["new"])
  PROVE  \/ SinPcb
         \/ /\ Entra(Movido(p, b), S)
            /\ Movido(p, b) = p \/ Movido(p, b) \in Admitidos
            /\ cola'["new"] = IF estado[p] = "NEW" THEN squeue_pop(cola["new"]) ELSE cola["new"]
<1>1. CASE ExecVacia(p, b)
  BY <1>1 DEF pasar_a_cola_ready, SinPcb
<1>2. CASE ~ ExecVacia(p, b)
  <2> DEFINE q == Movido(p, b)
             c == quitar_de_cola_actual(p)
  <2>1. q = p \/ (q = Head(cola["exec"]) /\ cola["exec"] # <<>>)
    <3>1. CASE EnOrden(b)
      BY <3>1 DEF Movido
    <3>2. CASE ~ EnOrden(b) /\ estado[p] = "NEW"
      BY <3>2 DEF Movido
    <3>3. CASE ~ EnOrden(b) /\ estado[p] = "EXEC"
      BY <3>3, <1>2 DEF Movido, ExecVacia
    <3>4. CASE ~ EnOrden(b) /\ estado[p] \notin {"NEW", "EXEC"}
      BY <3>4 DEF Movido
    <3> QED BY <3>1, <3>2, <3>3, <3>4
  <2>2. q \in PROCESOS /\ (q = p \/ q \in Admitidos)
    <3>1. CASE q = p
      BY <3>1
    <3>2. CASE q = Head(cola["exec"]) /\ cola["exec"] # <<>>
      <4>1. cola["exec"] \in Seq(PROCESOS)
        BY DEF Siempre, TypeOK, Colas
      <4> QED BY <3>2, <4>1, Desencolar DEF Siempre, YaAdmitidos, En
    <3> QED BY <2>1, <3>1, <3>2
  <2> HIDE DEF q
  <2>3. PICK i \in Lugares(b) :
          /\ cola' = [c EXCEPT !["ready"] = InsertAt(@, i, q)]
          /\ estado' = [estado EXCEPT ![q] = "READY"]
          /\ sem_post(S \cup {"ready"})
          /\ caido' = caido
    BY <1>2 DEF pasar_a_cola_ready, q
  <2>4. /\ c \in [Colas -> Seq(PROCESOS)]
        /\ c["ready"] = cola["ready"] /\ c["exit"] = cola["exit"]
        /\ c["new"] = IF estado[p] = "NEW" THEN squeue_pop(cola["new"]) ELSE cola["new"]
        /\ ToSet(c["exec"]) \subseteq ToSet(cola["exec"])
    BY AlQuitar
  <2>5. cola["ready"] \in Seq(PROCESOS) /\ Len(cola["ready"]) \in Nat
    BY ColasValidas DEF Siempre, Colas
  <2>6. i \in 1 .. Len(cola["ready"]) + 1
    BY <2>5 DEF Lugares
  <2> DEFINE t == InsertAt(cola["ready"], i, q)
  <2>7. t \in Seq(PROCESOS) /\ Len(t) = Len(cola["ready"]) + 1 /\ ToSet(t) = ToSet(cola["ready"]) \cup {q}
    BY <2>2, <2>5, <2>6, Insertar
  <2> HIDE DEF t
  <2>8. /\ cola' \in [Colas -> Seq(PROCESOS)] /\ cola'["ready"] = t
        /\ \A k \in Colas \ {"ready"} : cola'[k] = c[k]
    BY <2>3, <2>4, <2>7 DEF t, Colas
  <2>9. /\ estado' \in [PROCESOS -> Estados]
        /\ \A x \in PROCESOS : estado'[x] = IF x = q THEN "READY" ELSE estado[x]
    BY <2>2, <2>3 DEF Siempre, TypeOK, Estados
  <2>10. /\ sem' \in [Semaforos -> Nat]
         /\ \A s \in Semaforos : sem'[s] = IF s \in S \cup {"ready"} THEN sem[s] + 1 ELSE sem[s]
    BY <2>3 DEF sem_post, Siempre, TypeOK
  <2>11. /\ \A x : En("ready", x)' <=> En("ready", x) \/ x = q
         /\ \A x : En("exec", x)' => En("exec", x)
         /\ cola'["exit"] = cola["exit"] /\ cola'["new"] = c["new"]
    BY <2>4, <2>7, <2>8 DEF En, Colas
  <2>12. Entra(q, S)
    BY <2>3, <2>4, <2>7, <2>8, <2>9, <2>10, <2>11 DEF Entra
  <2> QED BY <2>2, <2>4, <2>11, <2>12 DEF q
<1> QED BY <1>1, <1>2

\* The short-term scheduler finds a process in cola_ready, and the long-term one a
\* process in cola_new.
LEMMA HayReady ==
  ASSUME Siempre, corto \in {"elegir", "despachar"}
  PROVE  cola["ready"] # <<>> /\ cola["ready"] \in Seq(PROCESOS) /\ Len(cola["ready"]) \in Nat
<1>1. /\ cola["ready"] \in Seq(PROCESOS) /\ Len(cola["ready"]) \in Nat
      /\ cola["ready"] = <<>> <=> Len(cola["ready"]) = 0
      /\ sem["ready"] \in Nat
  BY ColasValidas DEF Siempre, TypeOK, Colas, Semaforos
<1>2. Len(cola["ready"]) = sem["ready"] + 1
  BY DEF Siempre, ReadyContados, Uno
<1> QED BY <1>1, <1>2

LEMMA HayNuevo ==
  ASSUME Siempre, largo # "nuevo"
  PROVE  /\ cola["new"] # <<>> /\ Head(cola["new"]) \in PROCESOS
         /\ En("new", Head(cola["new"])) /\ estado[Head(cola["new"])] = "NEW"
<1>1. /\ cola["new"] \in Seq(PROCESOS) /\ Len(cola["new"]) \in Nat
      /\ cola["new"] = <<>> <=> Len(cola["new"]) = 0
      /\ sem["nuevo"] \in Nat /\ Cardinality(Anunciando) \in Nat
  BY ColasValidas, Contables DEF Siempre, TypeOK, Colas, Semaforos
<1>2. Len(cola["new"]) = sem["nuevo"] + 1 + Cardinality(Anunciando)
  BY DEF Siempre, NuevosContados, Uno
<1>3. cola["new"] # <<>>
  BY <1>1, <1>2
<1> QED BY <1>1, <1>3, Desencolar DEF Siempre, EnNuevos, En
-----------------------------------------------------------------------------
(* The schedulers *)

LEMMA SiempreEsperarNuevo ==
  ASSUME Siempre, EsperarNuevo
  PROVE  Siempre'
<1>1. /\ largo = "nuevo" /\ largo' = "grado" /\ sem["nuevo"] > 0
      /\ \A s \in Semaforos : sem'[s] = IF s = "nuevo" THEN sem["nuevo"] - 1 ELSE sem[s]
      /\ UNCHANGED <<estado, motivo, restan, cola, instancias, cola_bloqueados,
                     procesos_en_kernel, con_tabla, caido, sem_exit_proceso, corto, candidato,
                     contextos, hilo_cpu, en_io, cola_archivos, en_fs, puede_compactar, consola,
                     recogido, respuesta>>
  BY DEF EsperarNuevo, sem_wait, pcbs, recursos, kernel, cpu, esperas, consolas, Siempre, TypeOK
<1>2. (\A c, q : En(c, q)' <=> En(c, q)) /\ Admitidos' = Admitidos /\ Anunciando' = Anunciando
  BY <1>1 DEF En, Admitidos, Anunciando
<1>3. TypeOK'
  <2>1. sem' \in [Semaforos -> Nat]
    BY <1>1 DEF EsperarNuevo, sem_wait, Siempre, TypeOK, Semaforos
  <2> QED BY <1>1, <2>1 DEF Siempre, TypeOK
<1>4. NuevosContados'
  <2>1. sem["nuevo"] \in Nat /\ Cardinality(Anunciando) \in Nat
    BY Contables DEF Siempre, TypeOK, Semaforos
  <2>2. Len(cola["new"]) = sem["nuevo"] + 0 + Cardinality(Anunciando)
    BY <1>1 DEF Siempre, NuevosContados, Uno
  <2>3. sem'["nuevo"] = sem["nuevo"] - 1
    BY <1>1 DEF Semaforos
  <2> QED BY <2>1, <2>2, <2>3, <1>1, <1>2 DEF NuevosContados, Uno
<1>5. ReadyContados' /\ RecursosContados' /\ EnNuevos' /\ GradoRespetado'
  BY <1>1, <1>2 DEF Siempre, ReadyContados, RecursosContados, EnNuevos, GradoRespetado, Semaforos, Uno
<1>6. YaAdmitidos' /\ EnCPU' /\ AlTerminar'
  BY <1>1, <1>2 DEF Siempre, YaAdmitidos, EnCPU, TurnoCierto, Turnos, AlTerminar, Semaforos
<1> QED BY <1>3, <1>4, <1>5, <1>6 DEF Siempre

LEMMA SiempreSolicitarTabla ==
  ASSUME Siempre, solicitar_nueva_tabla_de_segmento
  PROVE  Siempre'
<1>1. /\ largo = "grado" /\ largo' = "admitir" /\ sem["grado"] > 0
      /\ con_tabla' = con_tabla \cup {Head(cola["new"])}
      /\ \A s \in Semaforos : sem'[s] = IF s = "grado" THEN sem["grado"] - 1 ELSE sem[s]
      /\ UNCHANGED <<estado, motivo, restan, cola, instancias, cola_bloqueados,
                     procesos_en_kernel, caido, sem_exit_proceso, corto, candidato, contextos,
                     hilo_cpu, en_io, cola_archivos, en_fs, puede_compactar, consola, recogido,
                     respuesta>>
  BY DEF solicitar_nueva_tabla_de_segmento, sem_wait, pcbs, recursos, cpu, esperas, consolas,
         Siempre, TypeOK
<1>2. (\A c, q : En(c, q)' <=> En(c, q)) /\ Admitidos' = Admitidos /\ Anunciando' = Anunciando
  BY <1>1 DEF En, Admitidos, Anunciando
<1>3. TypeOK'
  <2>1. sem' \in [Semaforos -> Nat]
    BY <1>1 DEF solicitar_nueva_tabla_de_segmento, sem_wait, Siempre, TypeOK, Semaforos
  <2>2. con_tabla' \subseteq PROCESOS
    BY <1>1, HayNuevo DEF Siempre, TypeOK
  <2> QED BY <1>1, <2>1, <2>2 DEF Siempre, TypeOK
<1>4. GradoRespetado'
  <2> DEFINE n == Cardinality({q \in PROCESOS : estado[q] \notin {"NINGUNO", "NEW"} /\ consola[q] # "fin"})
  <2>1. n \in Nat /\ n' = n
    BY <1>1, Contables
  <2>2. n + sem["grado"] + 0 = GRADO /\ sem["grado"] \in Nat /\ sem'["grado"] = sem["grado"] - 1
    BY <1>1 DEF Siempre, GradoRespetado, Uno, TypeOK, Semaforos
  <2> HIDE DEF n
  <2>3. n' + sem'["grado"] + 1 = GRADO
    BY <2>1, <2>2
  <2> QED BY <2>3, <1>1 DEF GradoRespetado, Uno, n
<1>5. ReadyContados' /\ RecursosContados' /\ EnNuevos' /\ NuevosContados'
  BY <1>1, <1>2 DEF Siempre, ReadyContados, RecursosContados, EnNuevos, NuevosContados, Semaforos, Uno
<1>6. YaAdmitidos' /\ EnCPU' /\ AlTerminar'
  BY <1>1, <1>2 DEF Siempre, YaAdmitidos, EnCPU, TurnoCierto, Turnos, AlTerminar, Semaforos
<1> QED BY <1>3, <1>4, <1>5, <1>6 DEF Siempre

LEMMA SiempreAdmitir ==
  ASSUME Siempre, AdmitirProceso
  PROVE  Siempre'
<1>1. /\ largo = "admitir" /\ largo' = "nuevo"
      /\ UNCHANGED <<motivo, restan, instancias, cola_bloqueados, procesos_en_kernel, con_tabla,
                     sem_exit_proceso, corto, candidato, contextos, hilo_cpu, en_io,
                     cola_archivos, en_fs, puede_compactar, consola, recogido, respuesta>>
  BY DEF AdmitirProceso, recursos, cpu, esperas, consolas
<1>2. PICK h \in PROCESOS : h = Head(cola["new"])
  BY <1>1, HayNuevo
<1>3. estado[h] = "NEW" /\ cola["new"] # <<>> /\ pasar_a_cola_ready(h, FALSE, {})
  BY <1>1, <1>2, HayNuevo DEF AdmitirProceso
<1>4. /\ ~ ExecVacia(h, FALSE) /\ Movido(h, FALSE) = h
      /\ ~ SinPcb
  <2>1. ~ ExecVacia(h, FALSE) /\ Movido(h, FALSE) = h
    BY <1>2, <1>3 DEF ExecVacia, Movido, EnOrden
  <2>2. estado' = [estado EXCEPT ![h] = "READY"]
    BY <1>3, <2>1 DEF pasar_a_cola_ready
  <2> QED BY <2>1, <2>2, <1>3 DEF SinPcb, Siempre, TypeOK
<1>5. Entra(h, {}) /\ cola'["new"] = squeue_pop(cola["new"])
  BY <1>2, <1>3, <1>4, AlEntrar
<1>6. /\ squeue_pop(cola["new"]) \in Seq(PROCESOS) /\ IsInjective(squeue_pop(cola["new"]))
      /\ Len(squeue_pop(cola["new"])) = Len(cola["new"]) - 1
      /\ ToSet(cola["new"]) = ToSet(squeue_pop(cola["new"])) \cup {h}
      /\ h \notin ToSet(squeue_pop(cola["new"]))
  <2>1. cola["new"] \in Seq(PROCESOS) /\ IsInjective(cola["new"])
    BY DEF Siempre, TypeOK, EnNuevos, Colas
  <2> QED BY <1>2, <1>3, <2>1, Desencolar
<1>7. /\ \A q \in PROCESOS : estado'[q] = IF q = h THEN "READY" ELSE estado[q]
      /\ sem'["ready"] = sem["ready"] + 1 /\ sem'["nuevo"] = sem["nuevo"]
      /\ sem'["grado"] = sem["grado"] /\ sem'["cpu"] = sem["cpu"]
      /\ caido' = caido /\ cola'["exit"] = cola["exit"]
      /\ Len(cola'["ready"]) = Len(cola["ready"]) + 1
      /\ \A q : En("new", q)' <=> En("new", q) /\ q # h
      /\ \A q : En("ready", q)' <=> En("ready", q) \/ q = h
      /\ \A q : En("exec", q)' => En("exec", q)
  BY <1>5, <1>6 DEF Entra, En, Semaforos
<1>8. TypeOK'
  BY <1>1, <1>5, <1>7 DEF Siempre, TypeOK, Entra, Estados
<1>9. Admitidos' = Admitidos \cup {h} /\ consola[h] \notin {"inicio", "responde", "fin"}
  BY <1>3, <1>7 DEF Admitidos, Siempre, AlTerminar
<1>10. GradoRespetado'
  <2> DEFINE A == {q \in PROCESOS : estado[q] \notin {"NINGUNO", "NEW"} /\ consola[q] # "fin"}
  <2>1. A' = A \cup {h} /\ h \notin A /\ A \in SUBSET PROCESOS
    BY <1>1, <1>3, <1>7, <1>9
  <2>2. Cardinality(A') = Cardinality(A) + 1 /\ Cardinality(A) \in Nat
    BY <2>1, UnoMas
  <2>3. Cardinality(A) + sem["grado"] + 1 = GRADO /\ sem["grado"] \in Nat
    BY <1>1 DEF Siempre, GradoRespetado, Uno, TypeOK, Semaforos
  <2> HIDE DEF A
  <2>4. Cardinality(A') + sem'["grado"] + 0 = GRADO
    BY <2>2, <2>3, <1>7
  <2> QED BY <2>4, <1>1 DEF GradoRespetado, Uno, A
<1>11. NuevosContados' /\ ReadyContados'
  <2>1. /\ sem["ready"] \in Nat /\ sem["nuevo"] \in Nat /\ Cardinality(Anunciando) \in Nat
        /\ Len(cola["ready"]) \in Nat /\ Len(cola["new"]) \in Nat /\ Anunciando' = Anunciando
    BY <1>1, ColasValidas, Contables DEF Siempre, TypeOK, Semaforos, Colas, Anunciando
  <2>2. Len(cola["new"]) = sem["nuevo"] + 1 + Cardinality(Anunciando)
    BY <1>1 DEF Siempre, NuevosContados, Uno
  <2>3. Len(cola["ready"]) = sem["ready"] + Uno(corto \in {"elegir", "despachar"})
    BY DEF Siempre, ReadyContados
  <2>4. NuevosContados'
    BY <2>1, <2>2, <1>1, <1>5, <1>6, <1>7 DEF NuevosContados, Uno
  <2>5. ReadyContados'
    BY <2>1, <2>3, <1>1, <1>7 DEF ReadyContados, Uno
  <2> QED BY <2>4, <2>5
<1>12. RecursosContados' /\ EnNuevos'
  BY <1>1, <1>3, <1>5, <1>6, <1>7 DEF Siempre, RecursosContados, EnNuevos
<1>13. YaAdmitidos' /\ EnCPU'
  BY <1>1, <1>7, <1>9 DEF Siempre, YaAdmitidos, EnCPU, TurnoCierto, Turnos
<1>14. AlTerminar'
  BY <1>1, <1>7, <1>9 DEF Siempre, AlTerminar, En
<1> QED BY <1>8, <1>10, <1>11, <1>12, <1>13, <1>14 DEF Siempre
\* The rest of the invariant, for the steps that admit no process and end none.
LEMMA SiempreInterno ==
  ASSUME Siempre, Interno, cola'["exit"] = cola["exit"],
         UNCHANGED <<motivo, sem_exit_proceso, recogido>>,
         TypeOK', ReadyContados', RecursosContados', YaAdmitidos', EnCPU'
  PROVE  Siempre'
BY InternoSigue, AlTerminarIgual DEF Siempre

LEMMA Numeros ==
  ASSUME TypeOK
  PROVE  /\ \A s \in Semaforos : sem[s] \in Nat
         /\ sem["cpu"] \in Nat /\ sem["ready"] \in Nat
         /\ Len(contextos) \in Nat /\ (contextos = <<>> <=> Len(contextos) = 0)
<1>1. \A s \in Semaforos : sem[s] \in Nat
  BY DEF TypeOK
<1>2. contextos \in Seq([pcb : PROCESOS, restan : 0 .. LARGO])
  BY DEF TypeOK
<1>3. Len(contextos) \in Nat /\ (contextos = <<>> <=> Len(contextos) = 0)
  BY <1>2, LenProperties, EmptySeq
<1> QED BY <1>1, <1>3 DEF Semaforos

LEMMA SiempreEsperarCPU ==
  ASSUME Siempre, EsperarCPU
  PROVE  Siempre'
<1>1. /\ corto = "cpu" /\ corto' = "ready" /\ sem["cpu"] > 0
      /\ \A s \in Semaforos : sem'[s] = IF s = "cpu" THEN sem["cpu"] - 1 ELSE sem[s]
      /\ UNCHANGED <<estado, motivo, restan, cola, instancias, cola_bloqueados,
                     procesos_en_kernel, con_tabla, caido, sem_exit_proceso, largo, candidato,
                     contextos, hilo_cpu, en_io, cola_archivos, en_fs, puede_compactar, consola,
                     recogido, respuesta>>
  BY DEF EsperarCPU, sem_wait, pcbs, recursos, kernel, cpu, esperas, consolas, Siempre, TypeOK
<1>2. (\A c, q : En(c, q)' <=> En(c, q)) /\ Admitidos' = Admitidos
  BY <1>1 DEF En, Admitidos
<1>3. TypeOK'
  <2>1. sem' \in [Semaforos -> Nat]
    BY <1>1 DEF EsperarCPU, sem_wait, Siempre, TypeOK, Semaforos
  <2> QED BY <1>1, <2>1 DEF Siempre, TypeOK
<1>4. Interno
  BY <1>1 DEF Interno, Semaforos
<1>5. ReadyContados' /\ RecursosContados' /\ YaAdmitidos'
  BY <1>1, <1>2 DEF Siempre, ReadyContados, RecursosContados, YaAdmitidos, Semaforos
<1>6. EnCPU'
  <2>1. Turnos' = Turnos
    BY <1>1, Numeros DEF Siempre, Turnos, Uno, Semaforos
  <2> QED BY <1>1, <2>1 DEF Siempre, EnCPU, TurnoCierto
<1> QED BY <1>1, <1>3, <1>4, <1>5, <1>6, SiempreInterno

LEMMA SiempreEsperarReady ==
  ASSUME Siempre, EsperarReady
  PROVE  Siempre'
<1>1. /\ corto = "ready" /\ corto' = "elegir" /\ sem["ready"] > 0
      /\ \A s \in Semaforos : sem'[s] = IF s = "ready" THEN sem["ready"] - 1 ELSE sem[s]
      /\ UNCHANGED <<estado, motivo, restan, cola, instancias, cola_bloqueados,
                     procesos_en_kernel, con_tabla, caido, sem_exit_proceso, largo, candidato,
                     contextos, hilo_cpu, en_io, cola_archivos, en_fs, puede_compactar, consola,
                     recogido, respuesta>>
  BY DEF EsperarReady, sem_wait, pcbs, recursos, kernel, cpu, esperas, consolas, Siempre, TypeOK
<1>2. (\A c, q : En(c, q)' <=> En(c, q)) /\ Admitidos' = Admitidos
  BY <1>1 DEF En, Admitidos
<1>3. TypeOK'
  <2>1. sem' \in [Semaforos -> Nat]
    BY <1>1 DEF EsperarReady, sem_wait, Siempre, TypeOK, Semaforos
  <2> QED BY <1>1, <2>1 DEF Siempre, TypeOK
<1>4. Interno
  BY <1>1 DEF Interno, Semaforos
<1>5. ReadyContados'
  BY <1>1, Numeros DEF Siempre, ReadyContados, Semaforos, Uno
<1>6. RecursosContados' /\ YaAdmitidos'
  BY <1>1, <1>2 DEF Siempre, RecursosContados, YaAdmitidos
<1>7. EnCPU'
  BY <1>1, Numeros DEF Siempre, EnCPU, TurnoCierto, Turnos, Uno, Semaforos
<1> QED BY <1>1, <1>3, <1>4, <1>5, <1>6, <1>7, SiempreInterno

LEMMA SiemprePlanificar ==
  ASSUME Siempre, planificar
  PROVE  Siempre'
<1>1. /\ corto = "elegir" /\ corto' = "despachar"
      /\ UNCHANGED <<estado, motivo, restan, instancias, cola_bloqueados, procesos_en_kernel,
                     con_tabla, caido, sem, sem_exit_proceso, largo, contextos, hilo_cpu, en_io,
                     cola_archivos, en_fs, puede_compactar, consola, recogido, respuesta>>
  BY DEF planificar, pcbs, recursos, kernel, cpu, esperas, consolas
<1>2. cola["ready"] # <<>> /\ cola["ready"] \in Seq(PROCESOS) /\ Len(cola["ready"]) \in Nat
  BY <1>1, HayReady
<1>3. PICK s : /\ s \in IF ALGORITMO = "HRRN" THEN Permutaciones(cola["ready"]) ELSE {cola["ready"]}
               /\ cola' = [cola EXCEPT !["ready"] = s]
               /\ candidato' = PrimeroDeReady(s)
  BY DEF planificar
<1>4. s \in Seq(PROCESOS) /\ Len(s) = Len(cola["ready"]) /\ ToSet(s) = ToSet(cola["ready"])
  <2>1. CASE s = cola["ready"]
    BY <2>1, <1>2
  <2>2. CASE s \in Permutaciones(cola["ready"])
    BY <2>2, <1>2, Reordenar DEF Permutaciones
  <2> QED BY <1>3, <2>1, <2>2
<1>5. s # <<>> /\ Head(s) \in PROCESOS
  BY <1>2, <1>4, Pertenece, Desencolar
<1>6. /\ cola' \in [Colas -> Seq(PROCESOS)] /\ cola'["ready"] = s
      /\ \A c \in Colas \ {"ready"} : cola'[c] = cola[c]
  BY <1>3, <1>4 DEF Siempre, TypeOK, Colas
<1>7. (\A c \in Colas : \A q : En(c, q)' <=> En(c, q)) /\ Admitidos' = Admitidos
  BY <1>1, <1>4, <1>6 DEF En, Admitidos
<1>8. TypeOK'
  BY <1>1, <1>3, <1>5, <1>6 DEF Siempre, TypeOK, PrimeroDeReady
<1>9. Interno /\ cola'["exit"] = cola["exit"]
  BY <1>1, <1>6 DEF Interno, Colas
<1>10. ReadyContados'
  BY <1>1, <1>4, <1>6 DEF Siempre, ReadyContados, Uno
<1>11. RecursosContados' /\ YaAdmitidos'
  BY <1>1, <1>7 DEF Siempre, RecursosContados, YaAdmitidos, Colas
<1>12. EnCPU'
  BY <1>1, <1>3, <1>5 DEF Siempre, EnCPU, TurnoCierto, Turnos, Uno, PrimeroDeReady
<1> QED BY <1>1, <1>8, <1>9, <1>10, <1>11, <1>12, SiempreInterno

LEMMA SiempreDespachar ==
  ASSUME Siempre, pasar_a_cola_exec
  PROVE  Siempre'
<1> DEFINE h == Head(cola["ready"])
<1>1. /\ corto = "despachar" /\ corto' = "cpu" /\ candidato' = NADIE
      /\ contextos' = Append(contextos, [pcb |-> candidato, restan |-> restan[candidato]])
      /\ UNCHANGED <<motivo, restan, instancias, cola_bloqueados, procesos_en_kernel, con_tabla,
                     caido, sem, sem_exit_proceso, largo, hilo_cpu, en_io, cola_archivos, en_fs,
                     puede_compactar, consola, recogido, respuesta>>
  BY DEF pasar_a_cola_exec, ejecutar_proceso, recursos, kernel, esperas, consolas
<1>2. cola["ready"] # <<>> /\ cola["ready"] \in Seq(PROCESOS) /\ Len(cola["ready"]) \in Nat
  BY <1>1, HayReady
<1>3. /\ h \in PROCESOS /\ En("ready", h) /\ h \in Admitidos
      /\ squeue_pop(cola["ready"]) \in Seq(PROCESOS)
      /\ Len(squeue_pop(cola["ready"])) = Len(cola["ready"]) - 1
      /\ ToSet(squeue_pop(cola["ready"])) \subseteq ToSet(cola["ready"])
  BY <1>2, Desencolar DEF En, Siempre, YaAdmitidos
<1>4. /\ cola' = [cola EXCEPT !["ready"] = squeue_pop(@), !["exec"] = Append(@, h)]
      /\ estado' = [estado EXCEPT ![h] = "EXEC"]
  BY DEF pasar_a_cola_exec
<1> HIDE DEF h
<1>5. /\ Append(cola["exec"], h) \in Seq(PROCESOS)
      /\ ToSet(Append(cola["exec"], h)) = ToSet(cola["exec"]) \cup {h}
  BY <1>3, Agregar DEF Siempre, TypeOK, Colas
<1>6. /\ cola' \in [Colas -> Seq(PROCESOS)]
      /\ cola'["ready"] = squeue_pop(cola["ready"]) /\ cola'["exec"] = Append(cola["exec"], h)
      /\ cola'["new"] = cola["new"] /\ cola'["exit"] = cola["exit"]
  BY <1>3, <1>4, <1>5 DEF Siempre, TypeOK, Colas
<1>7. /\ estado' \in [PROCESOS -> Estados]
      /\ \A q \in PROCESOS : estado'[q] = IF q = h THEN "EXEC" ELSE estado[q]
  BY <1>3, <1>4 DEF Siempre, TypeOK, Estados
<1>8. /\ contextos' \in Seq([pcb : PROCESOS, restan : 0 .. LARGO])
      /\ Len(contextos') = Len(contextos) + 1
  <2>1. candidato \in PROCESOS /\ restan[candidato] \in 0 .. LARGO
    BY <1>1 DEF Siempre, EnCPU, TypeOK
  <2>2. /\ [pcb |-> candidato, restan |-> restan[candidato]] \in [pcb : PROCESOS, restan : 0 .. LARGO]
        /\ contextos \in Seq([pcb : PROCESOS, restan : 0 .. LARGO])
    BY <2>1 DEF Siempre, TypeOK
  <2> QED BY <2>2, <1>1, Agregar
<1>9. TypeOK'
  BY <1>1, <1>6, <1>7, <1>8 DEF Siempre, TypeOK, Estados
<1>10. Interno /\ Admitidos' = Admitidos
  BY <1>1, <1>3, <1>6, <1>7 DEF Interno, Admitidos
<1>11. ReadyContados'
  BY <1>1, <1>2, <1>3, <1>6, Numeros DEF Siempre, ReadyContados, Uno
<1>12. RecursosContados'
  BY <1>1 DEF Siempre, RecursosContados
<1>13. YaAdmitidos'
  <2>1. \A q : /\ En("ready", q)' => En("ready", q)
               /\ En("exec", q)' => En("exec", q) \/ q = h
    BY <1>3, <1>5, <1>6 DEF En
  <2> QED BY <2>1, <1>1, <1>3, <1>10 DEF Siempre, YaAdmitidos
<1>14. EnCPU'
  <2>1. Turnos' = Turnos
    <3>1. sem["cpu"] \in Nat /\ Len(contextos) \in Nat /\ Len(contextos') = Len(contextos) + 1
      BY <1>8, Numeros DEF Siempre
    <3>2. sem'["cpu"] = sem["cpu"] /\ hilo_cpu' = hilo_cpu /\ corto = "despachar" /\ corto' = "cpu"
      BY <1>1
    <3> QED BY <3>1, <3>2 DEF Turnos, Uno
  <2>2. contextos' # <<>>
    <3>1. Len(contextos) \in Nat
      BY Numeros DEF Siempre
    <3>2. Len(contextos') # 0
      BY <3>1, <1>8
    <3> QED BY <3>2, <1>8, EmptySeq
  <2> QED BY <1>1, <2>1, <2>2 DEF Siempre, EnCPU, TurnoCierto
<1> QED BY <1>1, <1>6, <1>9, <1>10, <1>11, <1>12, <1>13, <1>14, SiempreInterno
-----------------------------------------------------------------------------
(* The thread that talks to the CPU *)

\* A process that has left NEW is given to pasar_a_cola_ready.
LEMMA AlPasarAReady ==
  ASSUME Siempre, NEW p \in Admitidos, NEW b, NEW S, pasar_a_cola_ready(p, b, S),
         S \subseteq {"cpu"}, UNCHANGED <<largo, corto, consola>>
  PROVE  /\ cola' \in [Colas -> Seq(PROCESOS)] /\ estado' \in [PROCESOS -> Estados]
         /\ sem' \in [Semaforos -> Nat] /\ caido' \in BOOLEAN
         /\ Interno /\ cola'["exit"] = cola["exit"] /\ ReadyContados'
         /\ Admitidos' = Admitidos
         /\ \A x \in PROCESOS : En("ready", x)' \/ En("exec", x)' => x \in Admitidos
         /\ caido => caido'
         /\ "cpu" \notin S => sem'["cpu"] = sem["cpu"]
         /\ "cpu" \in S => \/ caido' /\ sem'["cpu"] = sem["cpu"]
                           \/ sem'["cpu"] = sem["cpu"] + 1
<1>1. p \in PROCESOS /\ estado[p] # "NEW"
  BY DEF Admitidos
<1>2. CASE SinPcb
  <2>1. UNCHANGED <<cola, estado, sem>> /\ caido' = TRUE
    BY <1>2 DEF SinPcb
  <2>2. ReadyContados' /\ Interno /\ Admitidos' = Admitidos
    BY <2>1 DEF Siempre, ReadyContados, Interno, Admitidos
  <2> QED BY <2>1, <2>2 DEF Siempre, TypeOK, Estados, YaAdmitidos, En
<1>3. CASE /\ Entra(Movido(p, b), S)
           /\ Movido(p, b) = p \/ Movido(p, b) \in Admitidos
           /\ cola'["new"] = IF estado[p] = "NEW" THEN squeue_pop(cola["new"]) ELSE cola["new"]
  <2> DEFINE q == Movido(p, b)
  <2>1. q \in Admitidos /\ Entra(q, S) /\ cola'["new"] = cola["new"]
    BY <1>1, <1>3
  <2> HIDE DEF q
  <2>2. /\ cola' \in [Colas -> Seq(PROCESOS)] /\ estado' \in [PROCESOS -> Estados]
        /\ sem' \in [Semaforos -> Nat] /\ caido' = caido /\ cola'["exit"] = cola["exit"]
        /\ Len(cola'["ready"]) = Len(cola["ready"]) + 1
        /\ \A x \in PROCESOS : estado'[x] = IF x = q THEN "READY" ELSE estado[x]
        /\ \A x : En("ready", x)' <=> En("ready", x) \/ x = q
        /\ \A x : En("exec", x)' => En("exec", x)
        /\ \A s \in Semaforos : sem'[s] = IF s \in S \cup {"ready"} THEN sem[s] + 1 ELSE sem[s]
    BY <2>1 DEF Entra
  <2>3. /\ sem'["ready"] = sem["ready"] + 1
        /\ sem'["nuevo"] = sem["nuevo"] /\ sem'["grado"] = sem["grado"]
        /\ sem'["cpu"] = IF "cpu" \in S THEN sem["cpu"] + 1 ELSE sem["cpu"]
    BY <2>2 DEF Semaforos
  <2>4. Admitidos' = Admitidos
    BY <2>1, <2>2 DEF Admitidos
  <2>5. Interno
    BY <2>1, <2>2, <2>3, <2>4 DEF Interno, Admitidos
  <2>6. ReadyContados'
    <3>1. /\ Len(cola["ready"]) = sem["ready"] + Uno(corto \in {"elegir", "despachar"})
          /\ sem["ready"] \in Nat /\ Len(cola["ready"]) \in Nat
      BY Numeros, ColasValidas DEF Siempre, ReadyContados, Colas
    <3> QED BY <3>1, <2>2, <2>3 DEF ReadyContados, Uno
  <2> QED BY <2>1, <2>2, <2>3, <2>4, <2>5, <2>6 DEF Siempre, TypeOK, YaAdmitidos
<1> QED BY <1>1, <1>2, <1>3, AlEntrar

LEMMA AlDevolver ==
  ASSUME Siempre, NEW p \in PROCESOS, NEW op, Devuelto(p, op)
  PROVE  /\ hilo_cpu.paso = "atender" /\ hilo_cpu.pcb = p /\ p \in Admitidos
         /\ op \in OPERACIONES /\ ~ caido
         /\ Len(contextos) \in Nat \ {0}
         /\ Tail(contextos) \in Seq([pcb : PROCESOS, restan : 0 .. LARGO])
         /\ Len(Tail(contextos)) = Len(contextos) - 1
         /\ restan' \in [PROCESOS -> 0 .. LARGO]
<1>1. hilo_cpu.paso = "atender" /\ hilo_cpu.pcb = p /\ op \in OPERACIONES /\ ~ caido
  BY DEF Devuelto
<1>2. p \in Admitidos /\ contextos # <<>>
  BY <1>1 DEF Siempre, YaAdmitidos, EnCPU
<1>3. contextos \in Seq([pcb : PROCESOS, restan : 0 .. LARGO])
  BY DEF Siempre, TypeOK
<1>4. /\ Tail(contextos) \in Seq([pcb : PROCESOS, restan : 0 .. LARGO])
      /\ Len(Tail(contextos)) = Len(contextos) - 1
      /\ Head(contextos) \in [pcb : PROCESOS, restan : 0 .. LARGO]
  BY <1>2, <1>3, Sacar
<1>5. Len(contextos) \in Nat \ {0}
  BY <1>2, Numeros DEF Siempre
<1>6. restan' \in [PROCESOS -> 0 .. LARGO]
  <2>1. Head(contextos).restan \in 0 .. LARGO /\ Head(contextos).restan > 0
    BY <1>4 DEF Devuelto
  <2>2. Head(contextos).restan - 1 \in 0 .. LARGO
    BY <2>1, ConstantesValidas
  <2> QED BY <2>2 DEF Devuelto, Siempre, TypeOK
<1> QED BY <1>1, <1>2, <1>4, <1>5, <1>6

LEMMA AlSeguir ==
  ASSUME Siempre, NEW p \in PROCESOS, NEW op, Devuelto(p, op), seguir_ejecutando(p)
  PROVE  /\ contextos' \in Seq([pcb : PROCESOS, restan : 0 .. LARGO])
         /\ Len(contextos') = Len(contextos) /\ hilo_cpu' = Recibiendo
<1> DEFINE C == [pcb : PROCESOS, restan : 0 .. LARGO]
<1>1. /\ Tail(contextos) \in Seq(C) /\ Len(Tail(contextos)) = Len(contextos) - 1
      /\ Len(contextos) \in Nat \ {0} /\ restan' \in [PROCESOS -> 0 .. LARGO]
  BY AlDevolver
<1>2. [pcb |-> p, restan |-> restan'[p]] \in C
  BY <1>1
<1>3. contextos' = Append(Tail(contextos), [pcb |-> p, restan |-> restan'[p]])
  BY DEF seguir_ejecutando, ejecutar_proceso
<1> HIDE DEF C
<1>4. contextos' \in Seq(C) /\ Len(contextos') = Len(Tail(contextos)) + 1
  BY <1>1, <1>2, <1>3, Agregar
<1> QED BY <1>1, <1>4 DEF seguir_ejecutando, C

\* The thread is again where it receives a context; the turn went somewhere else,
\* unless the kernel died.
LEMMA TurnoEntregado ==
  ASSUME Siempre, hilo_cpu' = Recibiendo, UNCHANGED <<corto, candidato>>, caido => caido',
         Turnos' = Turnos \/ (Turnos' <= Turnos /\ Turnos \in Nat /\ Turnos' \in Nat /\ caido')
  PROVE  EnCPU'
<1>1. SinRevisar => TurnoCierto'
  BY DEF Siempre, EnCPU, TurnoCierto
<1> QED BY <1>1 DEF Siempre, EnCPU, Recibiendo, SinRevisar

\* The requests that leave every queue of pcbs as it is.
LEMMA SiempreEnElLugar ==
  ASSUME Siempre, NEW p \in PROCESOS, NEW op, Devuelto(p, op),
         UNCHANGED <<estado, motivo, cola, cola_bloqueados, kernel, sem, sem_exit_proceso, hilos,
                     esperas, consolas>>,
         instancias' \in [RECURSOS -> Int], RecursosContados',
         \/ seguir_ejecutando(p)
         \/ /\ contextos' = Tail(contextos) /\ hilo_cpu' = Recibiendo
            /\ op = "F_READ_FUERA" \/ op = "CREATE_SEGMENT"
  PROVE  Siempre'
<1>1. UNCHANGED <<estado, motivo, cola, cola_bloqueados, procesos_en_kernel, con_tabla, caido,
                  sem, sem_exit_proceso, largo, corto, candidato, en_io, cola_archivos, en_fs,
                  puede_compactar, consola, recogido, respuesta>>
  BY DEF kernel, hilos, esperas, consolas
<1>2. /\ hilo_cpu.paso = "atender" /\ hilo_cpu' = Recibiendo /\ hilo_cpu'.paso = "recibir"
      /\ restan' \in [PROCESOS -> 0 .. LARGO] /\ op \in OPERACIONES
      /\ contextos' \in Seq([pcb : PROCESOS, restan : 0 .. LARGO])
  <2>1. hilo_cpu.paso = "atender" /\ restan' \in [PROCESOS -> 0 .. LARGO] /\ op \in OPERACIONES
    BY AlDevolver
  <2>2. hilo_cpu' = Recibiendo /\ contextos' \in Seq([pcb : PROCESOS, restan : 0 .. LARGO])
    <3>1. CASE seguir_ejecutando(p)
      BY <3>1, AlSeguir
    <3>2. CASE contextos' = Tail(contextos) /\ hilo_cpu' = Recibiendo
      BY <3>2, AlDevolver
    <3> QED BY <3>1, <3>2
  <2> QED BY <2>1, <2>2 DEF Recibiendo
<1>3. (\A c, q : En(c, q)' <=> En(c, q)) /\ Admitidos' = Admitidos
  BY <1>1 DEF En, Admitidos
<1>4. TypeOK'
  BY <1>1, <1>2 DEF Siempre, TypeOK, Recibiendo
<1>5. Interno /\ ReadyContados'
  BY <1>1 DEF Interno, Siempre, ReadyContados
<1>6. YaAdmitidos'
  BY <1>1, <1>2, <1>3 DEF Siempre, YaAdmitidos
<1>7. EnCPU'
  <2>1. CASE seguir_ejecutando(p)
    <3>1. Len(contextos') = Len(contextos)
      BY <2>1, AlSeguir
    <3>2. Turnos' = Turnos
      BY <3>1, <1>1, <1>2 DEF Turnos, Uno
    <3> QED BY <3>2, <1>1, <1>2, TurnoEntregado
  <2>2. CASE /\ contextos' = Tail(contextos)
             /\ op = "F_READ_FUERA" \/ op = "CREATE_SEGMENT"
    <3>1. Len(contextos') = Len(contextos) - 1 /\ Len(contextos) \in Nat \ {0} /\ sem["cpu"] \in Nat
      BY <2>2, AlDevolver, Numeros DEF Siempre
    <3>2. Turnos' <= Turnos
      BY <3>1, <1>1, <1>2 DEF Turnos, Uno
    <3>3. Turnos' \in Int /\ Turnos \in Int
      BY <3>1, <1>1, <1>2 DEF Turnos, Uno
    <3>4. SinRevisar => "F_READ_FUERA" \in OPERACIONES
      BY <2>2, <1>2 DEF SinRevisar
    <3>5. SinRevisar => TurnoCierto'
      BY <3>2, <3>3, <3>4 DEF Siempre, EnCPU, TurnoCierto
    <3> QED BY <3>5, <1>1, <1>2 DEF Siempre, EnCPU, SinRevisar
  <2> QED BY <2>1, <2>2
<1> QED BY <1>1, <1>4, <1>5, <1>6, <1>7, SiempreInterno
LEMMA SiempreWaitConcedido ==
  ASSUME Siempre, WaitConcedido
  PROVE  Siempre'
<1>1. PICK p \in PROCESOS, r \in RECURSOS :
        /\ Devuelto(p, "WAIT") /\ instancias[r] > 0
        /\ instancias' = [instancias EXCEPT ![r] = @ - 1] /\ seguir_ejecutando(p)
        /\ UNCHANGED <<estado, motivo, cola, cola_bloqueados, kernel, sem, sem_exit_proceso,
                       hilos, esperas, consolas>>
  BY DEF WaitConcedido
<1>2. instancias \in [RECURSOS -> Int]
  BY DEF Siempre, TypeOK
<1>3. instancias' \in [RECURSOS -> Int]
  BY <1>1, <1>2
<1>4. RecursosContados'
  BY <1>1, <1>2 DEF Siempre, RecursosContados
<1> QED BY <1>1, <1>3, <1>4, SiempreEnElLugar

LEMMA SiempreSignalLibera ==
  ASSUME Siempre, SignalLibera
  PROVE  Siempre'
<1>1. PICK p \in PROCESOS, r \in RECURSOS :
        /\ Devuelto(p, "SIGNAL") /\ instancias[r] >= 0
        /\ instancias' = [instancias EXCEPT ![r] = @ + 1] /\ seguir_ejecutando(p)
        /\ UNCHANGED <<estado, motivo, cola, cola_bloqueados, kernel, sem, sem_exit_proceso,
                       hilos, esperas, consolas>>
  BY DEF SignalLibera
<1>2. instancias \in [RECURSOS -> Int]
  BY DEF Siempre, TypeOK
<1>3. instancias' \in [RECURSOS -> Int]
  BY <1>1, <1>2
<1>4. RecursosContados'
  BY <1>1, <1>2 DEF Siempre, RecursosContados
<1> QED BY <1>1, <1>3, <1>4, SiempreEnElLugar

LEMMA SiempreSeguir ==
  ASSUME Siempre, ProcesarYSeguir \/ TurnoPerdido
  PROVE  Siempre'
<1>1. PICK p \in PROCESOS, op \in {"SIGUE", "CREATE_SEGMENT", "F_READ_FUERA"} :
        /\ Devuelto(p, op)
        /\ UNCHANGED <<estado, motivo, cola, recursos, kernel, sem, sem_exit_proceso, hilos,
                       esperas, consolas>>
        /\ \/ seguir_ejecutando(p)
           \/ /\ contextos' = Tail(contextos) /\ hilo_cpu' = Recibiendo
              /\ op = "F_READ_FUERA" \/ op = "CREATE_SEGMENT"
  BY DEF ProcesarYSeguir, TurnoPerdido
<1>2. instancias' \in [RECURSOS -> Int] /\ cola_bloqueados' = cola_bloqueados
  BY <1>1 DEF Siempre, TypeOK, recursos
<1>3. RecursosContados'
  BY <1>1, <1>2 DEF Siempre, RecursosContados, recursos
<1> QED BY <1>1, <1>2, <1>3, SiempreEnElLugar

LEMMA SiempreYield ==
  ASSUME Siempre, ProcesarYield
  PROVE  Siempre'
<1>1. PICK p \in PROCESOS :
        /\ Devuelto(p, "YIELD") /\ pasar_a_cola_ready(p, FALSE, {"cpu"})
        /\ contextos' = Tail(contextos) /\ hilo_cpu' = Recibiendo
        /\ UNCHANGED <<motivo, recursos, procesos_en_kernel, con_tabla, sem_exit_proceso, hilos,
                       esperas, consolas>>
  BY DEF ProcesarYield
<1>2. UNCHANGED <<motivo, instancias, cola_bloqueados, procesos_en_kernel, con_tabla,
                  sem_exit_proceso, largo, corto, candidato, en_io, cola_archivos, en_fs,
                  puede_compactar, consola, recogido, respuesta>>
  BY <1>1 DEF recursos, hilos, esperas, consolas
<1>3. /\ hilo_cpu.paso = "atender" /\ p \in Admitidos /\ Len(contextos) \in Nat \ {0}
      /\ contextos' \in Seq([pcb : PROCESOS, restan : 0 .. LARGO])
      /\ Len(contextos') = Len(contextos) - 1
      /\ restan' \in [PROCESOS -> 0 .. LARGO]
  BY <1>1, AlDevolver
<1>4. /\ cola' \in [Colas -> Seq(PROCESOS)] /\ estado' \in [PROCESOS -> Estados]
      /\ sem' \in [Semaforos -> Nat] /\ caido' \in BOOLEAN
      /\ Interno /\ cola'["exit"] = cola["exit"] /\ ReadyContados'
      /\ Admitidos' = Admitidos
      /\ \A x \in PROCESOS : En("ready", x)' \/ En("exec", x)' => x \in Admitidos
      /\ caido => caido'
      /\ \/ caido' /\ sem'["cpu"] = sem["cpu"]
         \/ sem'["cpu"] = sem["cpu"] + 1
  BY <1>1, <1>2, <1>3, AlPasarAReady
<1>5. TypeOK'
  BY <1>1, <1>2, <1>3, <1>4 DEF Siempre, TypeOK, Recibiendo, Estados
<1>6. RecursosContados' /\ YaAdmitidos'
  BY <1>1, <1>2, <1>4 DEF Siempre, RecursosContados, YaAdmitidos, Recibiendo
<1>7. EnCPU'
  <2>1. sem["cpu"] \in Nat /\ hilo_cpu'.paso = "recibir"
    BY <1>1, Numeros DEF Siempre, Recibiendo
  <2>2. CASE caido' /\ sem'["cpu"] = sem["cpu"]
    <3>1. Turnos' <= Turnos /\ Turnos \in Nat /\ Turnos' \in Nat
      BY <2>1, <2>2, <1>2, <1>3 DEF Turnos, Uno
    <3> QED BY <2>2, <3>1, <1>1, <1>2, <1>4, TurnoEntregado
  <2>3. CASE sem'["cpu"] = sem["cpu"] + 1
    <3>1. corto' = corto /\ hilo_cpu.paso \notin {"quitar", "bloquear", "encolar"}
          /\ hilo_cpu'.paso \notin {"quitar", "bloquear", "encolar"}
          /\ Len(contextos') = Len(contextos) - 1 /\ Len(contextos) \in Nat
      BY <2>1, <1>2, <1>3
    <3>2. Turnos' = Turnos
      BY <2>1, <2>3, <3>1 DEF Turnos, Uno
    <3> QED BY <3>2, <1>1, <1>2, <1>4, TurnoEntregado
  <2> QED BY <1>4, <2>2, <2>3
<1> QED BY <1>2, <1>4, <1>5, <1>6, <1>7, SiempreInterno

LEMMA SiempreSignalDespierta ==
  ASSUME Siempre, SignalDespierta
  PROVE  Siempre'
<1>1. PICK p \in PROCESOS, r \in RECURSOS :
        /\ Devuelto(p, "SIGNAL") /\ instancias[r] < 0
        /\ instancias' = [instancias EXCEPT ![r] = @ + 1]
        /\ pasar_a_cola_ready(Head(cola_bloqueados[r]), TRUE, {})
        /\ cola_bloqueados' = [cola_bloqueados EXCEPT ![r] = squeue_pop(@)]
        /\ seguir_ejecutando(p)
        /\ UNCHANGED <<motivo, procesos_en_kernel, con_tabla, sem_exit_proceso, hilos, esperas,
                       consolas>>
  BY DEF SignalDespierta
<1>2. UNCHANGED <<motivo, procesos_en_kernel, con_tabla, sem_exit_proceso, largo, corto, candidato,
                  en_io, cola_archivos, en_fs, puede_compactar, consola, recogido, respuesta>>
  BY <1>1 DEF hilos, esperas, consolas
<1>3. /\ hilo_cpu.paso = "atender" /\ hilo_cpu' = Recibiendo
      /\ contextos' \in Seq([pcb : PROCESOS, restan : 0 .. LARGO])
      /\ Len(contextos') = Len(contextos)
      /\ restan' \in [PROCESOS -> 0 .. LARGO]
  BY <1>1, AlDevolver, AlSeguir
<1> DEFINE s == cola_bloqueados[r]
<1>4. /\ s \in Seq(PROCESOS) /\ instancias[r] \in Int /\ Len(s) = -instancias[r]
      /\ instancias' \in [RECURSOS -> Int]
  BY <1>1 DEF Siempre, TypeOK, RecursosContados
<1>5. s # <<>>
  BY <1>1, <1>4, EmptySeq
<1>6. /\ Head(s) \in Admitidos /\ squeue_pop(s) \in Seq(PROCESOS)
      /\ Len(squeue_pop(s)) = Len(s) - 1 /\ ToSet(squeue_pop(s)) \subseteq ToSet(s)
  <2>1. Head(s) \in ToSet(s) /\ ToSet(s) \subseteq Admitidos
    BY <1>4, <1>5, Desencolar DEF Siempre, YaAdmitidos
  <2>2. /\ squeue_pop(s) \in Seq(PROCESOS) /\ Len(squeue_pop(s)) = Len(s) - 1
        /\ ToSet(s) = ToSet(squeue_pop(s)) \cup {Head(s)}
    BY <1>4, <1>5, Desencolar
  <2> QED BY <2>1, <2>2
<1>7. /\ cola' \in [Colas -> Seq(PROCESOS)] /\ estado' \in [PROCESOS -> Estados]
      /\ sem' \in [Semaforos -> Nat] /\ caido' \in BOOLEAN
      /\ Interno /\ cola'["exit"] = cola["exit"] /\ ReadyContados'
      /\ Admitidos' = Admitidos
      /\ \A x \in PROCESOS : En("ready", x)' \/ En("exec", x)' => x \in Admitidos
      /\ caido => caido'
      /\ sem'["cpu"] = sem["cpu"]
  <2> DEFINE h == Head(cola_bloqueados[r])
             S == {}
  <2>1. S \subseteq {"cpu"} /\ "cpu" \notin S
    OBVIOUS
  <2>2. h \in Admitidos /\ pasar_a_cola_ready(h, TRUE, S)
    BY <1>1, <1>6
  <2> HIDE DEF h, S
  <2> QED BY <1>2, <2>1, <2>2, AlPasarAReady
<1>8. /\ cola_bloqueados' \in [RECURSOS -> Seq(PROCESOS)]
      /\ \A x \in RECURSOS : cola_bloqueados'[x] = IF x = r THEN squeue_pop(s) ELSE cola_bloqueados[x]
  BY <1>1, <1>6 DEF Siempre, TypeOK
<1>9. TypeOK'
  BY <1>2, <1>3, <1>4, <1>7, <1>8 DEF Siempre, TypeOK, Recibiendo, Estados
<1>10. RecursosContados'
  <2>1. ASSUME NEW x \in RECURSOS
        PROVE  Len(cola_bloqueados'[x]) = IF instancias'[x] < 0 THEN -instancias'[x] ELSE 0
    <3>1. CASE x = r
      <4>1. instancias'[r] = instancias[r] + 1
        BY <1>1 DEF Siempre, TypeOK
      <4> QED BY <4>1, <3>1, <1>1, <1>4, <1>6, <1>8
    <3>2. CASE x # r
      BY <3>2, <1>1, <1>8 DEF Siempre, TypeOK, RecursosContados
    <3> QED BY <3>1, <3>2
  <2> QED BY <2>1 DEF RecursosContados
<1>11. YaAdmitidos'
  BY <1>2, <1>3, <1>6, <1>7, <1>8 DEF Siempre, YaAdmitidos, Recibiendo
<1>12. EnCPU'
  <2>1. hilo_cpu'.paso = "recibir"
    BY <1>3 DEF Recibiendo
  <2>2. Turnos' = Turnos
    BY <2>1, <1>2, <1>3, <1>7 DEF Turnos, Uno
  <2> QED BY <2>2, <1>2, <1>3, <1>7, TurnoEntregado
<1> QED BY <1>2, <1>7, <1>9, <1>10, <1>11, <1>12, SiempreInterno
\* The turn goes back to the short-term scheduler.
LEMMA TurnoLiberado ==
  ASSUME Siempre, hilo_cpu.paso = "atender", UNCHANGED <<corto, candidato, caido>>,
         \/ hilo_cpu'.paso = "recibir"
         \/ hilo_cpu'.paso = "revisar" /\ "OUT_OF_MEMORY" \in OPERACIONES,
         Len(contextos) \in Nat \ {0}, Len(contextos') = Len(contextos) - 1,
         sem'["cpu"] = sem["cpu"] + 1
  PROVE  EnCPU'
<1>1. sem["cpu"] \in Nat
  BY Numeros DEF Siempre
<1>2. Turnos' = Turnos
  BY <1>1 DEF Turnos, Uno
<1> QED BY <1>2 DEF Siempre, EnCPU, TurnoCierto, SinRevisar

\* A process leaves cola_exec.
LEMMA AlSacarDeExec ==
  ASSUME Siempre
  PROVE  /\ squeue_pop(cola["exec"]) \in Seq(PROCESOS)
         /\ ToSet(squeue_pop(cola["exec"])) \subseteq ToSet(cola["exec"])
         /\ cola["exec"] # <<>> => Head(cola["exec"]) \in Admitidos
<1>1. cola["exec"] \in Seq(PROCESOS)
  BY DEF Siempre, TypeOK, Colas
<1>2. cola["exec"] # <<>> => Head(cola["exec"]) \in PROCESOS /\ En("exec", Head(cola["exec"]))
  BY <1>1, Desencolar DEF En
<1> QED BY <1>1, <1>2, Desencolar, Quedan DEF Siempre, YaAdmitidos

LEMMA SiempreIO ==
  ASSUME Siempre, ProcesarIO
  PROVE  Siempre'
<1>1. PICK p \in PROCESOS :
        /\ Devuelto(p, "IO")
        /\ cola' = [cola EXCEPT !["exec"] = squeue_pop(@), !["block"] = Append(@, p)]
        /\ estado' = [estado EXCEPT ![p] = "BLOCK"]
        /\ en_io' = en_io \cup {p}
        /\ sem_post({"cpu"})
        /\ contextos' = Tail(contextos) /\ hilo_cpu' = Recibiendo
        /\ UNCHANGED <<motivo, recursos, kernel, sem_exit_proceso, hilos, cola_archivos, en_fs,
                       puede_compactar, consolas>>
  BY DEF ProcesarIO
<1>2. /\ UNCHANGED <<motivo, instancias, cola_bloqueados, procesos_en_kernel, con_tabla, caido,
                     sem_exit_proceso, largo, corto, candidato, cola_archivos, en_fs,
                     puede_compactar, consola, recogido, respuesta>>
      /\ hilo_cpu'.paso = "recibir"
  BY <1>1 DEF recursos, kernel, hilos, consolas, Recibiendo
<1>3. /\ hilo_cpu.paso = "atender" /\ p \in Admitidos /\ Len(contextos) \in Nat \ {0}
      /\ contextos' \in Seq([pcb : PROCESOS, restan : 0 .. LARGO])
      /\ Len(contextos') = Len(contextos) - 1 /\ restan' \in [PROCESOS -> 0 .. LARGO]
  BY <1>1, AlDevolver
<1>4. /\ sem' \in [Semaforos -> Nat] /\ sem'["cpu"] = sem["cpu"] + 1
      /\ sem'["nuevo"] = sem["nuevo"] /\ sem'["grado"] = sem["grado"]
      /\ sem'["ready"] = sem["ready"]
  BY <1>1 DEF sem_post, Siempre, TypeOK, Semaforos
<1>5. Append(cola["block"], p) \in Seq(PROCESOS)
  BY Agregar DEF Siempre, TypeOK, Colas
<1>6. /\ cola' \in [Colas -> Seq(PROCESOS)] /\ cola'["exec"] = squeue_pop(cola["exec"])
      /\ cola'["new"] = cola["new"] /\ cola'["exit"] = cola["exit"]
      /\ cola'["ready"] = cola["ready"]
  BY <1>1, <1>5, AlSacarDeExec DEF Siempre, TypeOK, Colas
<1>7. /\ estado' \in [PROCESOS -> Estados]
      /\ \A q \in PROCESOS : estado'[q] = IF q = p THEN "BLOCK" ELSE estado[q]
  BY <1>1 DEF Siempre, TypeOK, Estados
<1>8. TypeOK'
  <2>1. TypeOK
    BY DEF Siempre
  <2>2. hilo_cpu' = Recibiendo /\ en_io' = en_io \cup {p}
    BY <1>1
  <2> QED BY <2>1, <2>2, <1>2, <1>3, <1>4, <1>6, <1>7 DEF TypeOK, Recibiendo, Estados
<1>9. Interno /\ Admitidos' = Admitidos
  BY <1>2, <1>3, <1>4, <1>6, <1>7 DEF Interno, Admitidos
<1>10. ReadyContados' /\ RecursosContados'
  BY <1>2, <1>4, <1>6 DEF Siempre, ReadyContados, RecursosContados
<1>11. YaAdmitidos'
  <2>1. \A x : (En("ready", x)' => En("ready", x)) /\ (En("exec", x)' => En("exec", x))
    BY <1>6, AlSacarDeExec DEF En
  <2> QED BY <2>1, <1>1, <1>2, <1>3, <1>9 DEF Siempre, YaAdmitidos
<1>12. EnCPU'
  BY <1>2, <1>3, <1>4, TurnoLiberado
<1> QED BY <1>2, <1>6, <1>8, <1>9, <1>10, <1>11, <1>12, SiempreInterno

LEMMA SiempreWaitBloqueado ==
  ASSUME Siempre, WaitBloqueado
  PROVE  Siempre'
<1>1. PICK p \in PROCESOS, r \in RECURSOS :
        /\ Devuelto(p, "WAIT") /\ instancias[r] <= 0
        /\ instancias' = [instancias EXCEPT ![r] = @ - 1]
        /\ cola' = [cola EXCEPT !["exec"] = squeue_pop(@)]
        /\ estado' = [estado EXCEPT ![p] = "BLOCK_RECURSO"]
        /\ cola_bloqueados' = [cola_bloqueados EXCEPT ![r] = Append(@, p)]
        /\ sem_post({"cpu"})
        /\ contextos' = Tail(contextos) /\ hilo_cpu' = Recibiendo
        /\ UNCHANGED <<motivo, kernel, sem_exit_proceso, hilos, esperas, consolas>>
  BY DEF WaitBloqueado
<1>2. /\ UNCHANGED <<motivo, procesos_en_kernel, con_tabla, caido, sem_exit_proceso, largo, corto,
                     candidato, en_io, cola_archivos, en_fs, puede_compactar, consola, recogido,
                     respuesta>>
      /\ hilo_cpu'.paso = "recibir"
  BY <1>1 DEF kernel, hilos, esperas, consolas, Recibiendo
<1>3. /\ hilo_cpu.paso = "atender" /\ p \in Admitidos /\ Len(contextos) \in Nat \ {0}
      /\ contextos' \in Seq([pcb : PROCESOS, restan : 0 .. LARGO])
      /\ Len(contextos') = Len(contextos) - 1 /\ restan' \in [PROCESOS -> 0 .. LARGO]
  BY <1>1, AlDevolver
<1>4. /\ sem' \in [Semaforos -> Nat] /\ sem'["cpu"] = sem["cpu"] + 1
      /\ sem'["nuevo"] = sem["nuevo"] /\ sem'["grado"] = sem["grado"]
      /\ sem'["ready"] = sem["ready"]
  <2>1. sem \in [Semaforos -> Nat] /\ sem_post({"cpu"})
    BY <1>1 DEF Siempre, TypeOK
  <2> QED BY <2>1 DEF sem_post, Semaforos
<1> DEFINE s == cola_bloqueados[r]
<1>5. /\ s \in Seq(PROCESOS) /\ Append(s, p) \in Seq(PROCESOS)
      /\ Len(Append(s, p)) = Len(s) + 1 /\ ToSet(Append(s, p)) = ToSet(s) \cup {p}
      /\ instancias[r] \in Int /\ Len(s) = IF instancias[r] < 0 THEN -instancias[r] ELSE 0
  <2>1. s \in Seq(PROCESOS) /\ instancias[r] \in Int
    BY DEF Siempre, TypeOK
  <2>2. Len(s) = IF instancias[r] < 0 THEN -instancias[r] ELSE 0
    BY DEF Siempre, RecursosContados
  <2> HIDE DEF s
  <2> QED BY <2>1, <2>2, Agregar
<1>6. /\ cola' \in [Colas -> Seq(PROCESOS)] /\ cola'["exec"] = squeue_pop(cola["exec"])
      /\ cola'["new"] = cola["new"] /\ cola'["exit"] = cola["exit"]
      /\ cola'["ready"] = cola["ready"]
  BY <1>1, AlSacarDeExec DEF Siempre, TypeOK, Colas
<1>7. /\ estado' \in [PROCESOS -> Estados]
      /\ \A q \in PROCESOS : estado'[q] = IF q = p THEN "BLOCK_RECURSO" ELSE estado[q]
  BY <1>1 DEF Siempre, TypeOK, Estados
<1>8. /\ cola_bloqueados' \in [RECURSOS -> Seq(PROCESOS)] /\ instancias' \in [RECURSOS -> Int]
      /\ \A x \in RECURSOS : cola_bloqueados'[x] = IF x = r THEN Append(s, p) ELSE cola_bloqueados[x]
      /\ \A x \in RECURSOS : instancias'[x] = IF x = r THEN instancias[r] - 1 ELSE instancias[x]
  <2>1. cola_bloqueados \in [RECURSOS -> Seq(PROCESOS)] /\ instancias \in [RECURSOS -> Int]
    BY DEF Siempre, TypeOK
  <2>2. /\ cola_bloqueados' = [cola_bloqueados EXCEPT ![r] = Append(s, p)]
        /\ instancias' = [instancias EXCEPT ![r] = @ - 1]
    BY <1>1
  <2> HIDE DEF s
  <2> QED BY <2>1, <2>2, <1>5
<1>9. TypeOK'
  <2>1. TypeOK
    BY DEF Siempre
  <2>2. hilo_cpu' = Recibiendo
    BY <1>1
  <2> QED BY <2>1, <2>2, <1>2, <1>3, <1>4, <1>6, <1>7, <1>8 DEF TypeOK, Recibiendo, Estados
<1>10. Interno /\ Admitidos' = Admitidos
  <2>1. estado[p] \notin {"NINGUNO", "NEW"}
    BY <1>3 DEF Admitidos
  <2>2. \A q \in PROCESOS : /\ estado'[q] = "NEW" <=> estado[q] = "NEW"
                            /\ estado'[q] = "NINGUNO" <=> estado[q] = "NINGUNO"
    BY <2>1, <1>7
  <2> QED BY <2>2, <1>2, <1>4, <1>6 DEF Interno, Admitidos
<1>11. ReadyContados'
  BY <1>2, <1>4, <1>6 DEF Siempre, ReadyContados
<1>12. RecursosContados'
  <2>1. ASSUME NEW x \in RECURSOS
        PROVE  Len(cola_bloqueados'[x]) = IF instancias'[x] < 0 THEN -instancias'[x] ELSE 0
    <3>1. CASE x = r
      BY <3>1, <1>1, <1>5, <1>8
    <3>2. CASE x # r
      BY <3>2, <1>8 DEF Siempre, RecursosContados
    <3> QED BY <3>1, <3>2
  <2> QED BY <2>1 DEF RecursosContados
<1>13. YaAdmitidos'
  <2>1. \A x : (En("ready", x)' => En("ready", x)) /\ (En("exec", x)' => En("exec", x))
    BY <1>6, AlSacarDeExec DEF En
  <2> QED BY <2>1, <1>2, <1>3, <1>5, <1>8, <1>10 DEF Siempre, YaAdmitidos
<1>14. EnCPU'
  BY <1>2, <1>3, <1>4, TurnoLiberado
<1> QED BY <1>2, <1>6, <1>9, <1>10, <1>11, <1>12, <1>13, <1>14, SiempreInterno

\* A pcb that ends: it is in cola_exit with its exit code, and its semaphore is posted.
LEMMA SiempreFin ==
  ASSUME Siempre, ProcesarFin
  PROVE  Siempre'
<1>1. PICK p \in PROCESOS, op \in Terminales :
        /\ Devuelto(p, op)
        /\ solicitar_eliminar_tabla_de_segmento(p)
        /\ pasar_a_cola_exit(p, IF op = "EXIT" THEN "SUCCESS" ELSE op)
        /\ sem_post({"cpu"})
        /\ contextos' = Tail(contextos)
        /\ hilo_cpu' = IF op = "OUT_OF_MEMORY" THEN [paso |-> "revisar", pcb |-> p] ELSE Recibiendo
        /\ UNCHANGED <<recursos, procesos_en_kernel, caido, hilos, esperas, consolas>>
  BY DEF ProcesarFin
<1>2. UNCHANGED <<instancias, cola_bloqueados, procesos_en_kernel, caido, largo, corto, candidato,
                  en_io, cola_archivos, en_fs, puede_compactar, consola, recogido, respuesta>>
  BY <1>1 DEF recursos, hilos, esperas, consolas
<1>3. /\ hilo_cpu.paso = "atender" /\ p \in Admitidos /\ Len(contextos) \in Nat \ {0}
      /\ contextos' \in Seq([pcb : PROCESOS, restan : 0 .. LARGO])
      /\ Len(contextos') = Len(contextos) - 1 /\ restan' \in [PROCESOS -> 0 .. LARGO]
      /\ op \in OPERACIONES
  BY <1>1, AlDevolver
<1>4. /\ sem' \in [Semaforos -> Nat] /\ sem'["cpu"] = sem["cpu"] + 1
      /\ sem'["nuevo"] = sem["nuevo"] /\ sem'["grado"] = sem["grado"]
      /\ sem'["ready"] = sem["ready"]
  BY <1>1 DEF sem_post, Siempre, TypeOK, Semaforos
<1> DEFINE m == IF op = "EXIT" THEN "SUCCESS" ELSE op
<1>5. /\ cola["exit"] \in Seq(PROCESOS) /\ Append(cola["exit"], p) \in Seq(PROCESOS)
      /\ Len(Append(cola["exit"], p)) = Len(cola["exit"]) + 1 /\ Len(cola["exit"]) \in Nat
      /\ ToSet(Append(cola["exit"], p)) = ToSet(cola["exit"]) \cup {p}
  BY Agregar, LenProperties DEF Siempre, TypeOK, Colas
<1>6. /\ cola' \in [Colas -> Seq(PROCESOS)] /\ cola'["exec"] = squeue_pop(cola["exec"])
      /\ cola'["new"] = cola["new"] /\ cola'["exit"] = Append(cola["exit"], p)
      /\ cola'["ready"] = cola["ready"]
  BY <1>1, <1>5, AlSacarDeExec DEF pasar_a_cola_exit, Siempre, TypeOK, Colas
<1>7. m \in ({"SUCCESS"} \cup Terminales) /\ m # "NOT_DEFINED"
  BY DEF Terminales
<1>8. /\ estado' \in [PROCESOS -> Estados]
      /\ \A q \in PROCESOS : estado'[q] = IF q = p THEN "EXIT" ELSE estado[q]
      /\ motivo' \in [PROCESOS -> {"NOT_DEFINED", "SUCCESS"} \cup Terminales]
      /\ \A q \in PROCESOS : motivo'[q] = IF q = p THEN m ELSE motivo[q]
      /\ sem_exit_proceso' = sem_exit_proceso \cup {p}
      /\ con_tabla' = con_tabla \ {p}
  BY <1>1, <1>7 DEF pasar_a_cola_exit, solicitar_eliminar_tabla_de_segmento, Siempre, TypeOK, Estados
<1> HIDE DEF m
<1>9. /\ hilo_cpu'.paso # "recibir" => hilo_cpu'.pcb = p
      /\ hilo_cpu' \in [paso : {"recibir", "atender", "revisar", "quitar", "bloquear", "encolar"},
                        pcb : PROCESOS \cup {NADIE}]
      /\ \/ hilo_cpu'.paso = "recibir"
         \/ hilo_cpu'.paso = "revisar" /\ "OUT_OF_MEMORY" \in OPERACIONES
  <2>1. CASE op = "OUT_OF_MEMORY"
    BY <2>1, <1>1, <1>3
  <2>2. CASE op # "OUT_OF_MEMORY"
    BY <2>2, <1>1 DEF Recibiendo
  <2> QED BY <2>1, <2>2
<1>10. TypeOK'
  BY <1>2, <1>3, <1>4, <1>6, <1>8, <1>9 DEF Siempre, TypeOK, Estados
<1>11. Interno /\ Admitidos' = Admitidos
  BY <1>2, <1>3, <1>4, <1>6, <1>8 DEF Interno, Admitidos
<1>12. ReadyContados' /\ RecursosContados'
  BY <1>2, <1>4, <1>6 DEF Siempre, ReadyContados, RecursosContados
<1>13. YaAdmitidos'
  <2>1. \A x : (En("ready", x)' => En("ready", x)) /\ (En("exec", x)' => En("exec", x))
    BY <1>6, AlSacarDeExec DEF En
  <2>2. hilo_cpu'.paso # "recibir" => hilo_cpu'.pcb \in Admitidos'
    BY <1>3, <1>9, <1>11
  <2>3. sem_exit_proceso' \subseteq Admitidos'
    BY <1>3, <1>8, <1>11 DEF Siempre, YaAdmitidos
  <2> QED BY <2>1, <2>2, <2>3, <1>2, <1>11 DEF Siempre, YaAdmitidos
<1>14. EnCPU'
  BY <1>2, <1>3, <1>4, <1>9, TurnoLiberado
<1>15. AlTerminar'
  <2>1. Cardinality(sem_exit_proceso') <= Len(cola'["exit"])
    <3>1. /\ sem_exit_proceso \in SUBSET PROCESOS /\ Cardinality(sem_exit_proceso) \in Nat
          /\ Cardinality(sem_exit_proceso) <= Len(cola["exit"])
      BY Contables DEF Siempre, TypeOK, AlTerminar
    <3>2. CASE p \in sem_exit_proceso
      <4>1. sem_exit_proceso' = sem_exit_proceso
        BY <3>2, <1>8
      <4> QED BY <4>1, <3>1, <1>5, <1>6
    <3>3. CASE p \notin sem_exit_proceso
      <4>1. Cardinality(sem_exit_proceso') = Cardinality(sem_exit_proceso) + 1
        BY <3>1, <3>3, <1>8, UnoMas
      <4> QED BY <4>1, <3>1, <1>5, <1>6
    <3> QED BY <3>2, <3>3
  <2>2. \A q : En("exit", q)' <=> En("exit", q) \/ q = p
    BY <1>5, <1>6 DEF En
  <2>3. ASSUME NEW q \in PROCESOS
        PROVE  motivo[q] # "NOT_DEFINED" => motivo'[q] # "NOT_DEFINED"
    BY <1>7, <1>8
  <2> QED BY <2>1, <2>2, <2>3, <1>2, <1>7, <1>8, <1>11, InternoSigue DEF Siempre, AlTerminar
<1> QED BY <1>10, <1>11, <1>12, <1>13, <1>14, <1>15, InternoSigue DEF Siempre
\* A step of the thread that changes no queue and no semaphore.
LEMMA SiempreSinMover ==
  ASSUME Siempre,
         UNCHANGED <<motivo, restan, cola, instancias, cola_bloqueados, procesos_en_kernel,
                     con_tabla, sem, sem_exit_proceso, largo, corto, candidato, en_io, consola,
                     recogido, respuesta>>,
         estado' \in [PROCESOS -> Estados], Admitidos' = Admitidos,
         \A p \in PROCESOS : estado'[p] = estado[p] \/ (p \in Admitidos /\ p \in Admitidos'),
         caido' \in BOOLEAN,
         contextos' \in Seq([pcb : PROCESOS, restan : 0 .. LARGO]),
         hilo_cpu' \in [paso : {"recibir", "atender", "revisar", "quitar", "bloquear", "encolar"},
                        pcb : PROCESOS \cup {NADIE}],
         hilo_cpu'.paso # "recibir" => hilo_cpu'.pcb \in Admitidos,
         cola_archivos' \in Seq([pcb : PROCESOS, op : {"F_READ", "F_TRUNCATE"}]),
         en_fs' \in Seq([pcb : PROCESOS, op : {"F_READ", "F_TRUNCATE", "sacar", "poner"}]),
         Len(en_fs') <= 1,
         \A e \in ToSet(cola_archivos') \cup ToSet(en_fs') : e.pcb \in Admitidos,
         puede_compactar' \in BOOLEAN,
         EnCPU'
  PROVE  Siempre'
<1>1. TypeOK'
  BY DEF Siempre, TypeOK, Estados
<1>2. Interno /\ ReadyContados' /\ RecursosContados'
  BY DEF Interno, Siempre, ReadyContados, RecursosContados
<1>3. YaAdmitidos'
  BY DEF Siempre, YaAdmitidos, En
<1> QED BY <1>1, <1>2, <1>3, SiempreInterno

LEMMA SiempreTomarDeExec ==
  ASSUME Siempre, TomarDeExec \/ TomarDeExecVacia
  PROVE  Siempre'
<1>1. UNCHANGED <<estado, motivo, restan, cola, instancias, cola_bloqueados, procesos_en_kernel,
                  con_tabla, sem, sem_exit_proceso, largo, corto, candidato, en_io, consola,
                  recogido, respuesta, contextos, cola_archivos, en_fs, puede_compactar>>
  BY DEF TomarDeExec, TomarDeExecVacia, pcbs, recursos, kernel, hilos, cpu, esperas, consolas
<1>2. /\ caido' \in BOOLEAN /\ ~ caido /\ hilo_cpu.paso = "recibir" /\ contextos # <<>>
      /\ \/ hilo_cpu' = hilo_cpu
         \/ hilo_cpu' = [paso |-> "atender", pcb |-> Head(cola["exec"])] /\ cola["exec"] # <<>>
  <2>1. ~ caido /\ hilo_cpu = Recibiendo /\ contextos # <<>>
    BY DEF TomarDeExec, TomarDeExecVacia
  <2>2. caido' \in BOOLEAN
    <3>1. CASE TomarDeExec
      BY <3>1 DEF TomarDeExec, kernel, Siempre, TypeOK
    <3>2. CASE TomarDeExecVacia
      BY <3>2 DEF TomarDeExecVacia
    <3> QED BY <3>1, <3>2
  <2>3. \/ hilo_cpu' = hilo_cpu
        \/ hilo_cpu' = [paso |-> "atender", pcb |-> Head(cola["exec"])] /\ cola["exec"] # <<>>
    BY DEF TomarDeExec, TomarDeExecVacia, cpu
  <2> QED BY <2>1, <2>2, <2>3 DEF Recibiendo
<1>3. /\ hilo_cpu' \in [paso : {"recibir", "atender", "revisar", "quitar", "bloquear", "encolar"},
                        pcb : PROCESOS \cup {NADIE}]
      /\ hilo_cpu'.paso # "recibir" => hilo_cpu'.pcb \in Admitidos
      /\ hilo_cpu'.paso \in {"recibir", "atender"}
  <2>1. CASE hilo_cpu' = hilo_cpu
    BY <2>1, <1>2 DEF Siempre, TypeOK
  <2>2. CASE hilo_cpu' = [paso |-> "atender", pcb |-> Head(cola["exec"])] /\ cola["exec"] # <<>>
    BY <2>2, AlSacarDeExec DEF Admitidos
  <2> QED BY <1>2, <2>1, <2>2
<1>4. EnCPU'
  <2>1. Turnos' = Turnos
    BY <1>1, <1>2, <1>3 DEF Turnos, Uno
  <2> QED BY <2>1, <1>1, <1>2, <1>3 DEF Siempre, EnCPU, TurnoCierto, SinRevisar
<1>5. Admitidos' = Admitidos
  BY <1>1 DEF Admitidos
<1>6. TypeOK /\ estado' \in [PROCESOS -> Estados]
      /\ \A e \in ToSet(cola_archivos) \cup ToSet(en_fs) : e.pcb \in Admitidos
  BY <1>1 DEF Siempre, TypeOK, Estados, YaAdmitidos
<1> QED BY <1>1, <1>2, <1>3, <1>4, <1>5, <1>6, SiempreSinMover DEF TypeOK

LEMMA SiempreRevisarEstado ==
  ASSUME Siempre, RevisarEstado
  PROVE  Siempre'
<1>1. UNCHANGED <<estado, motivo, restan, cola, instancias, cola_bloqueados, procesos_en_kernel,
                  con_tabla, sem, sem_exit_proceso, largo, corto, candidato, en_io, consola,
                  recogido, respuesta, contextos, cola_archivos, en_fs, puede_compactar>>
  BY DEF RevisarEstado, pcbs, recursos, hilos, esperas, consolas
<1>2. /\ hilo_cpu.paso = "revisar" /\ hilo_cpu' = Recibiendo /\ ~ caido /\ caido' \in BOOLEAN
      /\ hilo_cpu'.paso = "recibir"
  BY DEF RevisarEstado, Recibiendo
<1>3. EnCPU'
  <2>1. Turnos' = Turnos
    BY <1>1, <1>2 DEF Turnos, Uno
  <2> QED BY <2>1, <1>1, <1>2, TurnoEntregado
<1>4. /\ Admitidos' = Admitidos /\ TypeOK /\ estado' \in [PROCESOS -> Estados]
      /\ \A e \in ToSet(cola_archivos) \cup ToSet(en_fs) : e.pcb \in Admitidos
  BY <1>1 DEF Siempre, TypeOK, Estados, YaAdmitidos, Admitidos
<1>5. hilo_cpu' \in [paso : {"recibir", "atender", "revisar", "quitar", "bloquear", "encolar"},
                     pcb : PROCESOS \cup {NADIE}]
  BY <1>2 DEF Recibiendo
<1> QED BY <1>1, <1>2, <1>3, <1>4, <1>5, SiempreSinMover DEF TypeOK

LEMMA SiempreRevisarEnExec ==
  ASSUME Siempre, RevisarEnExec
  PROVE  Siempre'
<1> DEFINE C == [pcb : PROCESOS, restan : 0 .. LARGO]
<1>1. /\ UNCHANGED <<estado, motivo, restan, cola, instancias, cola_bloqueados,
                     procesos_en_kernel, con_tabla, sem, sem_exit_proceso, largo, corto, candidato,
                     en_io, consola, recogido, respuesta, cola_archivos, en_fs, puede_compactar,
                     caido>>
      /\ hilo_cpu.paso = "revisar" /\ hilo_cpu' = Recibiendo /\ hilo_cpu'.paso = "recibir"
      /\ contextos' = Append(contextos, [pcb |-> hilo_cpu.pcb, restan |-> restan[hilo_cpu.pcb]])
  BY DEF RevisarEnExec, ejecutar_proceso, pcbs, recursos, kernel, hilos, esperas, consolas, Recibiendo
<1>2. contextos' \in Seq(C)
  <2>1. hilo_cpu.pcb \in PROCESOS
    BY <1>1 DEF Siempre, YaAdmitidos, Admitidos
  <2>2. restan[hilo_cpu.pcb] \in 0 .. LARGO /\ contextos \in Seq(C)
    BY <2>1 DEF Siempre, TypeOK
  <2>3. [pcb |-> hilo_cpu.pcb, restan |-> restan[hilo_cpu.pcb]] \in C
    BY <2>1, <2>2
  <2> HIDE DEF C
  <2> QED BY <2>2, <2>3, <1>1, Agregar
<1>3. EnCPU'
  BY <1>1 DEF Siempre, EnCPU, SinRevisar
<1>4. /\ Admitidos' = Admitidos /\ TypeOK /\ estado' \in [PROCESOS -> Estados]
      /\ \A e \in ToSet(cola_archivos) \cup ToSet(en_fs) : e.pcb \in Admitidos
  BY <1>1 DEF Siempre, TypeOK, Estados, YaAdmitidos, Admitidos
<1>5. hilo_cpu' \in [paso : {"recibir", "atender", "revisar", "quitar", "bloquear", "encolar"},
                     pcb : PROCESOS \cup {NADIE}]
  BY <1>1 DEF Recibiendo
<1> QED BY <1>1, <1>2, <1>3, <1>4, <1>5, SiempreSinMover DEF TypeOK
LEMMA SiemprePedirFS ==
  ASSUME Siempre, PedirFS
  PROVE  Siempre'
<1>1. PICK p \in PROCESOS, op \in {"F_READ", "F_TRUNCATE"} :
        /\ Devuelto(p, op)
        /\ puede_compactar' = (puede_compactar \/ op = "F_READ")
        /\ cola_archivos' = Append(cola_archivos, [pcb |-> p, op |-> op])
        /\ hilo_cpu' = [paso |-> "quitar", pcb |-> p]
        /\ contextos' = Tail(contextos)
        /\ UNCHANGED <<estado, motivo, cola, recursos, kernel, sem, sem_exit_proceso, hilos,
                       en_io, en_fs, consolas>>
  BY DEF PedirFS
<1>2. UNCHANGED <<estado, motivo, cola, instancias, cola_bloqueados, procesos_en_kernel, con_tabla,
                  caido, sem, sem_exit_proceso, largo, corto, candidato, en_io, en_fs, consola,
                  recogido, respuesta>>
  BY <1>1 DEF recursos, kernel, hilos, consolas
<1>3. /\ hilo_cpu.paso = "atender" /\ p \in Admitidos /\ Len(contextos) \in Nat \ {0}
      /\ contextos' \in Seq([pcb : PROCESOS, restan : 0 .. LARGO])
      /\ Len(contextos') = Len(contextos) - 1 /\ restan' \in [PROCESOS -> 0 .. LARGO]
  BY <1>1, AlDevolver
<1> DEFINE E == [pcb : PROCESOS, op : {"F_READ", "F_TRUNCATE"}]
           e == [pcb |-> p, op |-> op]
<1>4. e \in E /\ cola_archivos \in Seq(E) /\ e.pcb = p
  BY DEF Siempre, TypeOK
<1>5. cola_archivos' \in Seq(E) /\ ToSet(cola_archivos') = ToSet(cola_archivos) \cup {e}
  <2> HIDE DEF E
  <2> QED BY <1>1, <1>4, Agregar
<1>6. puede_compactar' \in BOOLEAN
  BY <1>1
<1>7. Admitidos' = Admitidos /\ \A c, q : En(c, q)' <=> En(c, q)
  BY <1>2 DEF Admitidos, En
<1>8. TypeOK'
  BY <1>1, <1>2, <1>3, <1>5, <1>6 DEF Siempre, TypeOK
<1>9. Interno /\ ReadyContados' /\ RecursosContados'
  BY <1>2 DEF Interno, Siempre, ReadyContados, RecursosContados
<1>10. YaAdmitidos'
  <2>1. hilo_cpu'.pcb \in Admitidos'
    BY <1>1, <1>3, <1>7
  <2>2. \A d \in ToSet(cola_archivos') \cup ToSet(en_fs') : d.pcb \in Admitidos'
    BY <1>2, <1>3, <1>4, <1>5, <1>7 DEF Siempre, YaAdmitidos
  <2> QED BY <2>1, <2>2, <1>2, <1>7 DEF Siempre, YaAdmitidos
<1>11. EnCPU'
  <2>1. hilo_cpu'.paso = "quitar" /\ sem["cpu"] \in Nat
    BY <1>1, Numeros DEF Siempre
  <2>2. Turnos' = Turnos
    BY <2>1, <1>2, <1>3 DEF Turnos, Uno
  <2> QED BY <2>1, <2>2, <1>2 DEF Siempre, EnCPU, TurnoCierto, SinRevisar
<1> QED BY <1>2, <1>8, <1>9, <1>10, <1>11, SiempreInterno

LEMMA SiempreQuitarDeExec ==
  ASSUME Siempre, QuitarDeExec
  PROVE  Siempre'
<1>1. /\ UNCHANGED <<estado, motivo, restan, instancias, cola_bloqueados, procesos_en_kernel,
                     con_tabla, caido, sem, sem_exit_proceso, largo, corto, candidato, contextos,
                     en_io, cola_archivos, en_fs, puede_compactar, consola, recogido, respuesta>>
      /\ cola' = [cola EXCEPT !["exec"] = squeue_pop(@)]
      /\ hilo_cpu.paso = "quitar" /\ hilo_cpu' = [hilo_cpu EXCEPT !.paso = "bloquear"]
  BY DEF QuitarDeExec, pcbs, recursos, kernel, hilos, esperas, consolas
<1>2. /\ hilo_cpu' \in [paso : {"recibir", "atender", "revisar", "quitar", "bloquear", "encolar"},
                        pcb : PROCESOS \cup {NADIE}]
      /\ hilo_cpu'.paso = "bloquear" /\ hilo_cpu'.pcb \in Admitidos
  BY <1>1 DEF Siempre, TypeOK, YaAdmitidos
<1>3. /\ cola' \in [Colas -> Seq(PROCESOS)] /\ cola'["exec"] = squeue_pop(cola["exec"])
      /\ cola'["new"] = cola["new"] /\ cola'["exit"] = cola["exit"]
      /\ cola'["ready"] = cola["ready"]
  BY <1>1, AlSacarDeExec DEF Siempre, TypeOK, Colas
<1>4. TypeOK'
  BY <1>1, <1>2, <1>3 DEF Siempre, TypeOK
<1>5. Interno /\ ReadyContados' /\ RecursosContados' /\ Admitidos' = Admitidos
  BY <1>1, <1>3 DEF Interno, Siempre, ReadyContados, RecursosContados, Admitidos
<1>6. YaAdmitidos'
  <2>1. \A x : (En("ready", x)' => En("ready", x)) /\ (En("exec", x)' => En("exec", x))
    BY <1>3, AlSacarDeExec DEF En
  <2> QED BY <2>1, <1>1, <1>2, <1>5 DEF Siempre, YaAdmitidos
<1>7. EnCPU'
  <2>1. Turnos' = Turnos
    BY <1>1, <1>2 DEF Turnos, Uno
  <2> QED BY <2>1, <1>1, <1>2 DEF Siempre, EnCPU, TurnoCierto, SinRevisar
<1> QED BY <1>1, <1>3, <1>4, <1>5, <1>6, <1>7, SiempreInterno

LEMMA SiempreBloquearPorFS ==
  ASSUME Siempre, BloquearPorFS
  PROVE  Siempre'
<1>1. /\ UNCHANGED <<motivo, restan, cola, instancias, cola_bloqueados, procesos_en_kernel,
                     con_tabla, caido, sem, sem_exit_proceso, largo, corto, candidato, contextos,
                     en_io, cola_archivos, en_fs, puede_compactar, consola, recogido, respuesta>>
      /\ estado' = [estado EXCEPT ![hilo_cpu.pcb] = "BLOCK"]
      /\ hilo_cpu.paso = "bloquear" /\ hilo_cpu' = [hilo_cpu EXCEPT !.paso = "encolar"]
  BY DEF BloquearPorFS, recursos, kernel, hilos, esperas, consolas
<1>2. /\ hilo_cpu' \in [paso : {"recibir", "atender", "revisar", "quitar", "bloquear", "encolar"},
                        pcb : PROCESOS \cup {NADIE}]
      /\ hilo_cpu'.paso = "encolar" /\ hilo_cpu'.pcb \in Admitidos /\ hilo_cpu.pcb \in Admitidos
  BY <1>1 DEF Siempre, TypeOK, YaAdmitidos
<1>3. /\ estado' \in [PROCESOS -> Estados]
      /\ \A q \in PROCESOS : estado'[q] = IF q = hilo_cpu.pcb THEN "BLOCK" ELSE estado[q]
  BY <1>1, <1>2 DEF Siempre, TypeOK, Estados, Admitidos
<1>4. Admitidos' = Admitidos
  BY <1>2, <1>3 DEF Admitidos
<1>5. \A q \in PROCESOS : estado'[q] = estado[q] \/ (q \in Admitidos /\ q \in Admitidos')
  BY <1>2, <1>3, <1>4
<1>6. EnCPU'
  <2>1. Turnos' = Turnos
    BY <1>1, <1>2 DEF Turnos, Uno
  <2> QED BY <2>1, <1>1, <1>2 DEF Siempre, EnCPU, TurnoCierto, SinRevisar
<1>7. TypeOK /\ \A e \in ToSet(cola_archivos) \cup ToSet(en_fs) : e.pcb \in Admitidos
  BY DEF Siempre, YaAdmitidos
<1> QED BY <1>1, <1>2, <1>3, <1>4, <1>5, <1>6, <1>7, SiempreSinMover DEF TypeOK

LEMMA SiempreEncolarPorFS ==
  ASSUME Siempre, EncolarPorFS
  PROVE  Siempre'
<1>1. /\ UNCHANGED <<estado, motivo, restan, instancias, cola_bloqueados, procesos_en_kernel,
                     con_tabla, caido, sem_exit_proceso, largo, corto, candidato, contextos, en_io,
                     cola_archivos, en_fs, puede_compactar, consola, recogido, respuesta>>
      /\ cola' = [cola EXCEPT !["block"] = Append(@, hilo_cpu.pcb)]
      /\ hilo_cpu.paso = "encolar" /\ hilo_cpu' = Recibiendo /\ sem_post({"cpu"})
      /\ hilo_cpu'.paso = "recibir"
  BY DEF EncolarPorFS, pcbs, recursos, kernel, hilos, esperas, consolas, Recibiendo
<1>2. Append(cola["block"], hilo_cpu.pcb) \in Seq(PROCESOS)
  <2>1. hilo_cpu.pcb \in PROCESOS
    BY <1>1 DEF Siempre, YaAdmitidos, Admitidos
  <2> QED BY <2>1, Agregar DEF Siempre, TypeOK, Colas
<1>3. /\ cola' \in [Colas -> Seq(PROCESOS)]
      /\ \A c \in Colas \ {"block"} : cola'[c] = cola[c]
  BY <1>1, <1>2 DEF Siempre, TypeOK, Colas
<1>4. /\ sem' \in [Semaforos -> Nat] /\ sem'["cpu"] = sem["cpu"] + 1
      /\ sem'["nuevo"] = sem["nuevo"] /\ sem'["grado"] = sem["grado"]
      /\ sem'["ready"] = sem["ready"] /\ sem["cpu"] \in Nat
  BY <1>1 DEF sem_post, Siempre, TypeOK, Semaforos
<1>5. TypeOK'
  BY <1>1, <1>3, <1>4 DEF Siempre, TypeOK, Recibiendo
<1>6. Interno /\ ReadyContados' /\ RecursosContados' /\ Admitidos' = Admitidos
      /\ cola'["exit"] = cola["exit"]
  BY <1>1, <1>3, <1>4 DEF Interno, Siempre, ReadyContados, RecursosContados, Admitidos, Colas
<1>7. YaAdmitidos'
  BY <1>1, <1>3, <1>6 DEF Siempre, YaAdmitidos, En, Colas
<1>8. EnCPU'
  <2>1. Len(contextos) \in Nat
    BY Numeros DEF Siempre
  <2>2. Turnos' = Turnos
    <3>1. /\ contextos' = contextos /\ corto' = corto
          /\ Uno(hilo_cpu.paso \in {"quitar", "bloquear", "encolar"}) = 1
          /\ Uno(hilo_cpu'.paso \in {"quitar", "bloquear", "encolar"}) = 0
      BY <1>1 DEF Uno
    <3>2. Uno(corto # "cpu") \in Nat
      BY DEF Uno
    <3> QED BY <3>1, <3>2, <2>1, <1>4 DEF Turnos
  <2> QED BY <2>2, <1>1 DEF Siempre, EnCPU, TurnoCierto, SinRevisar
<1> QED BY <1>1, <1>5, <1>6, <1>7, <1>8, SiempreInterno

-----------------------------------------------------------------------------
(* The threads that wake a process *)

LEMMA SiempreBloqueoIO ==
  ASSUME Siempre, NEW p \in PROCESOS, bloqueo_io(p)
  PROVE  Siempre'
<1>1. /\ UNCHANGED <<motivo, restan, instancias, cola_bloqueados, procesos_en_kernel, con_tabla,
                     sem_exit_proceso, largo, corto, candidato, contextos, hilo_cpu, cola_archivos,
                     en_fs, puede_compactar, consola, recogido, respuesta>>
      /\ p \in en_io /\ en_io' = en_io \ {p} /\ ~ caido
  BY DEF bloqueo_io, recursos, hilos, cpu, consolas
<1>2. p \in Admitidos
  BY <1>1 DEF Siempre, YaAdmitidos
<1> DEFINE S == {}
<1>3. S \subseteq {"cpu"} /\ "cpu" \notin S /\ pasar_a_cola_ready(p, TRUE, S)
  BY DEF bloqueo_io
<1> HIDE DEF S
<1>4. /\ cola' \in [Colas -> Seq(PROCESOS)] /\ estado' \in [PROCESOS -> Estados]
      /\ sem' \in [Semaforos -> Nat] /\ caido' \in BOOLEAN
      /\ Interno /\ cola'["exit"] = cola["exit"] /\ ReadyContados'
      /\ Admitidos' = Admitidos /\ sem'["cpu"] = sem["cpu"]
      /\ \A x \in PROCESOS : En("ready", x)' \/ En("exec", x)' => x \in Admitidos
  BY <1>1, <1>2, <1>3, AlPasarAReady
<1>5. TypeOK'
  BY <1>1, <1>4 DEF Siempre, TypeOK, Estados
<1>6. RecursosContados' /\ YaAdmitidos'
  BY <1>1, <1>4 DEF Siempre, RecursosContados, YaAdmitidos
<1>7. EnCPU'
  <2>1. Turnos' = Turnos
    BY <1>1, <1>4 DEF Turnos, Uno
  <2> QED BY <2>1, <1>1 DEF Siempre, EnCPU, TurnoCierto, SinRevisar
<1> QED BY <1>1, <1>4, <1>5, <1>6, <1>7, SiempreInterno

LEMMA SiempreTomarPedido ==
  ASSUME Siempre, TomarPedido
  PROVE  Siempre'
<1>1. /\ UNCHANGED <<estado, motivo, restan, cola, instancias, cola_bloqueados, procesos_en_kernel,
                     con_tabla, caido, sem, sem_exit_proceso, largo, corto, candidato, contextos,
                     hilo_cpu, en_io, puede_compactar, consola, recogido, respuesta>>
      /\ en_fs = <<>> /\ cola_archivos # <<>>
      /\ en_fs' = <<Head(cola_archivos)>> /\ cola_archivos' = Tail(cola_archivos)
  BY DEF TomarPedido, pcbs, recursos, kernel, hilos, cpu, consolas
<1> DEFINE E == [pcb : PROCESOS, op : {"F_READ", "F_TRUNCATE"}]
           F == [pcb : PROCESOS, op : {"F_READ", "F_TRUNCATE", "sacar", "poner"}]
<1>2. cola_archivos \in Seq(E)
  BY DEF Siempre, TypeOK
<1>3. /\ cola_archivos' \in Seq(E) /\ Head(cola_archivos) \in E
      /\ ToSet(cola_archivos) = ToSet(cola_archivos') \cup {Head(cola_archivos)}
  <2> HIDE DEF E
  <2> QED BY <1>1, <1>2, Sacar
<1>4. Head(cola_archivos) \in F
  BY <1>3
<1>5. en_fs' \in Seq(F) /\ Len(en_fs') <= 1 /\ ToSet(en_fs') = {Head(cola_archivos)}
  <2> HIDE DEF F
  <2>1. Len(<<Head(cola_archivos)>>) = 1
    BY <1>4, Unitaria
  <2> QED BY <1>1, <1>4, <2>1, Unitaria
<1>6. \A e \in ToSet(cola_archivos') \cup ToSet(en_fs') : e.pcb \in Admitidos
  BY <1>3, <1>5 DEF Siempre, YaAdmitidos
<1>7. EnCPU' /\ Admitidos' = Admitidos
  BY <1>1 DEF Siempre, EnCPU, TurnoCierto, Turnos, SinRevisar, Admitidos
<1>8. /\ estado' \in [PROCESOS -> Estados]
      /\ caido' \in BOOLEAN /\ puede_compactar' \in BOOLEAN
      /\ contextos' \in Seq([pcb : PROCESOS, restan : 0 .. LARGO])
      /\ hilo_cpu' \in [paso : {"recibir", "atender", "revisar", "quitar", "bloquear", "encolar"},
                        pcb : PROCESOS \cup {NADIE}]
      /\ hilo_cpu'.paso # "recibir" => hilo_cpu'.pcb \in Admitidos
  BY <1>1 DEF Siempre, TypeOK, Estados, YaAdmitidos
<1>9. \A q \in PROCESOS : estado'[q] = estado[q]
  BY <1>1
<1> QED BY <1>1, <1>3, <1>5, <1>6, <1>7, <1>8, <1>9, SiempreSinMover
\* The request, or the pcb, that the file system thread is at.
LEMMA EnManos ==
  ASSUME Siempre, en_fs # <<>>
  PROVE  /\ ToSet(en_fs) = {en_fs[1]} /\ en_fs = <<en_fs[1]>>
         /\ en_fs[1] \in [pcb : PROCESOS, op : {"F_READ", "F_TRUNCATE", "sacar", "poner"}]
         /\ en_fs[1].pcb \in Admitidos
<1> DEFINE F == [pcb : PROCESOS, op : {"F_READ", "F_TRUNCATE", "sacar", "poner"}]
<1>1. en_fs \in Seq(F) /\ Len(en_fs) <= 1
  BY DEF Siempre, TypeOK
<1>2. PICK e \in F : en_fs = <<e>>
  <2> HIDE DEF F
  <2> QED BY <1>1, DeUno
<1>3. ToSet(en_fs) = {e} /\ en_fs[1] = e
  <2> HIDE DEF F
  <2> QED BY <1>2, Unitaria
<1> QED BY <1>2, <1>3 DEF Siempre, YaAdmitidos

LEMMA SiempreRespuesta ==
  ASSUME Siempre, NEW p \in PROCESOS, recibir_respuesta_fs(p)
  PROVE  Siempre'
<1>1. /\ UNCHANGED <<motivo, restan, instancias, cola_bloqueados, procesos_en_kernel, con_tabla,
                     sem_exit_proceso, largo, corto, candidato, contextos, hilo_cpu, en_io,
                     cola_archivos, consola, recogido, respuesta>>
      /\ en_fs # <<>> /\ en_fs[1].pcb = p /\ en_fs' = <<>> /\ ~ caido
      /\ puede_compactar' \in BOOLEAN
  BY DEF recibir_respuesta_fs, Respondido, recursos, hilos, cpu, consolas
<1>2. p \in Admitidos
  BY <1>1, EnManos
<1> DEFINE S == {}
<1>3. S \subseteq {"cpu"} /\ "cpu" \notin S /\ pasar_a_cola_ready(p, FALSE, S)
  BY DEF recibir_respuesta_fs
<1> HIDE DEF S
<1>4. /\ cola' \in [Colas -> Seq(PROCESOS)] /\ estado' \in [PROCESOS -> Estados]
      /\ sem' \in [Semaforos -> Nat] /\ caido' \in BOOLEAN
      /\ Interno /\ cola'["exit"] = cola["exit"] /\ ReadyContados'
      /\ Admitidos' = Admitidos /\ sem'["cpu"] = sem["cpu"]
      /\ \A x \in PROCESOS : En("ready", x)' \/ En("exec", x)' => x \in Admitidos
  BY <1>1, <1>2, <1>3, AlPasarAReady
<1>5. /\ en_fs' \in Seq([pcb : PROCESOS, op : {"F_READ", "F_TRUNCATE", "sacar", "poner"}])
      /\ Len(en_fs') <= 1 /\ ToSet(en_fs') = {}
  BY <1>1, EmptySeq, Vacia
<1>6. TypeOK'
  BY <1>1, <1>4, <1>5 DEF Siempre, TypeOK, Estados
<1>7. RecursosContados' /\ YaAdmitidos'
  BY <1>1, <1>4, <1>5 DEF Siempre, RecursosContados, YaAdmitidos
<1>8. EnCPU'
  <2>1. Turnos' = Turnos
    BY <1>1, <1>4 DEF Turnos, Uno
  <2> QED BY <2>1, <1>1 DEF Siempre, EnCPU, TurnoCierto, SinRevisar
<1> QED BY <1>1, <1>4, <1>6, <1>7, <1>8, SiempreInterno

LEMMA SiempreRespuestaEnExec ==
  ASSUME Siempre, NEW p \in PROCESOS, RespuestaEnExec(p)
  PROVE  Siempre'
<1>1. /\ UNCHANGED <<estado, motivo, restan, cola, instancias, cola_bloqueados, procesos_en_kernel,
                     con_tabla, caido, sem, sem_exit_proceso, largo, corto, candidato, contextos,
                     hilo_cpu, en_io, cola_archivos, consola, recogido, respuesta>>
      /\ en_fs # <<>> /\ en_fs[1].pcb = p /\ en_fs' = <<[pcb |-> p, op |-> "sacar"]>>
      /\ puede_compactar' \in BOOLEAN
  BY DEF RespuestaEnExec, Respondido, recursos, hilos, cpu, consolas
<1> DEFINE F == [pcb : PROCESOS, op : {"F_READ", "F_TRUNCATE", "sacar", "poner"}]
           e == [pcb |-> p, op |-> "sacar"]
<1>2. e \in F /\ e.pcb \in Admitidos
  BY <1>1, EnManos
<1>3. en_fs' \in Seq(F) /\ Len(en_fs') <= 1 /\ ToSet(en_fs') = {e}
  <2> HIDE DEF F
  <2>1. Len(<<e>>) = 1
    BY <1>2, Unitaria
  <2> QED BY <1>1, <1>2, <2>1, Unitaria
<1> HIDE DEF e
<1>4. \A d \in ToSet(cola_archivos') \cup ToSet(en_fs') : d.pcb \in Admitidos
  BY <1>1, <1>2, <1>3 DEF Siempre, YaAdmitidos
<1>5. EnCPU' /\ Admitidos' = Admitidos
  BY <1>1 DEF Siempre, EnCPU, TurnoCierto, Turnos, SinRevisar, Admitidos
<1>6. /\ estado' \in [PROCESOS -> Estados]
      /\ caido' \in BOOLEAN
      /\ cola_archivos' \in Seq([pcb : PROCESOS, op : {"F_READ", "F_TRUNCATE"}])
      /\ contextos' \in Seq([pcb : PROCESOS, restan : 0 .. LARGO])
      /\ hilo_cpu' \in [paso : {"recibir", "atender", "revisar", "quitar", "bloquear", "encolar"},
                        pcb : PROCESOS \cup {NADIE}]
      /\ hilo_cpu'.paso # "recibir" => hilo_cpu'.pcb \in Admitidos
  BY <1>1 DEF Siempre, TypeOK, Estados, YaAdmitidos
<1>7. \A q \in PROCESOS : estado'[q] = estado[q]
  BY <1>1
<1> QED BY <1>1, <1>3, <1>4, <1>5, <1>6, <1>7, SiempreSinMover

LEMMA SiempreSacarDeExec ==
  ASSUME Siempre, SacarDeExec
  PROVE  Siempre'
<1>1. /\ UNCHANGED <<estado, motivo, restan, instancias, cola_bloqueados, procesos_en_kernel,
                     con_tabla, sem, sem_exit_proceso, largo, corto, candidato, contextos,
                     hilo_cpu, en_io, cola_archivos, puede_compactar, consola, recogido, respuesta>>
      /\ ~ caido /\ en_fs # <<>>
  BY DEF SacarDeExec, pcbs, recursos, hilos, cpu, consolas
<1>2. CASE /\ cola["exec"] # <<>>
           /\ cola' = [cola EXCEPT !["exec"] = squeue_pop(@)]
           /\ en_fs' = <<[pcb |-> Head(cola["exec"]), op |-> "poner"]>>
           /\ caido' = caido
  <2> DEFINE F == [pcb : PROCESOS, op : {"F_READ", "F_TRUNCATE", "sacar", "poner"}]
             e == [pcb |-> Head(cola["exec"]), op |-> "poner"]
  <2>1. e \in F /\ e.pcb \in Admitidos
    BY <1>2, AlSacarDeExec DEF Admitidos
  <2>2. en_fs' \in Seq(F) /\ Len(en_fs') <= 1 /\ ToSet(en_fs') = {e}
    <3> HIDE DEF F
    <3>1. Len(<<e>>) = 1
      BY <2>1, Unitaria
    <3> QED BY <1>2, <2>1, <3>1, Unitaria
  <2> HIDE DEF e
  <2>3. /\ cola' \in [Colas -> Seq(PROCESOS)] /\ cola'["exec"] = squeue_pop(cola["exec"])
        /\ cola'["new"] = cola["new"] /\ cola'["exit"] = cola["exit"]
        /\ cola'["ready"] = cola["ready"]
    BY <1>2, AlSacarDeExec DEF Siempre, TypeOK, Colas
  <2>4. TypeOK'
    BY <1>1, <1>2, <2>2, <2>3 DEF Siempre, TypeOK
  <2>5. Interno /\ ReadyContados' /\ RecursosContados' /\ Admitidos' = Admitidos
    BY <1>1, <2>3 DEF Interno, Siempre, ReadyContados, RecursosContados, Admitidos
  <2>6. YaAdmitidos'
    <3>1. \A x : (En("ready", x)' => En("ready", x)) /\ (En("exec", x)' => En("exec", x))
      BY <2>3, AlSacarDeExec DEF En
    <3>2. \A d \in ToSet(cola_archivos') \cup ToSet(en_fs') : d.pcb \in Admitidos'
      BY <1>1, <2>1, <2>2, <2>5 DEF Siempre, YaAdmitidos
    <3> QED BY <3>1, <3>2, <1>1, <2>5 DEF Siempre, YaAdmitidos
  <2>7. EnCPU'
    BY <1>1, <1>2 DEF Siempre, EnCPU, TurnoCierto, Turnos, SinRevisar
  <2> QED BY <1>1, <2>3, <2>4, <2>5, <2>6, <2>7, SiempreInterno
<1>3. CASE caido' = TRUE /\ UNCHANGED <<cola, en_fs>>
  <2>1. EnCPU' /\ Admitidos' = Admitidos
    BY <1>1, <1>3 DEF Siempre, EnCPU, TurnoCierto, Turnos, SinRevisar, Admitidos
  <2>2. TypeOK'
    BY <1>1, <1>3 DEF Siempre, TypeOK
  <2>3. Interno /\ ReadyContados' /\ RecursosContados' /\ YaAdmitidos'
    BY <1>1, <1>3, <2>1 DEF Interno, Siempre, ReadyContados, RecursosContados, YaAdmitidos, En
  <2> QED BY <1>1, <1>3, <2>1, <2>2, <2>3, SiempreInterno
<1> QED BY <1>2, <1>3 DEF SacarDeExec

LEMMA SiemprePonerEnReady ==
  ASSUME Siempre, NEW p \in PROCESOS, PonerEnReady(p)
  PROVE  Siempre'
<1>1. /\ UNCHANGED <<motivo, restan, instancias, cola_bloqueados, procesos_en_kernel, con_tabla,
                     caido, sem_exit_proceso, largo, corto, candidato, contextos, hilo_cpu, en_io,
                     cola_archivos, puede_compactar, consola, recogido, respuesta>>
      /\ en_fs = <<[pcb |-> p, op |-> "poner"]>> /\ en_fs' = <<>>
      /\ cola' = [cola EXCEPT !["ready"] = Append(@, p)]
      /\ estado' = [estado EXCEPT ![p] = "READY"] /\ sem_post({"ready"})
  BY DEF PonerEnReady, recursos, kernel, hilos, cpu, consolas
<1>2. p \in Admitidos
  <2>1. en_fs # <<>> /\ en_fs[1].pcb = p
    BY <1>1
  <2> QED BY <2>1, EnManos
<1>3. /\ Append(cola["ready"], p) \in Seq(PROCESOS) /\ Len(cola["ready"]) \in Nat
      /\ Len(Append(cola["ready"], p)) = Len(cola["ready"]) + 1
      /\ ToSet(Append(cola["ready"], p)) = ToSet(cola["ready"]) \cup {p}
  BY Agregar, LenProperties DEF Siempre, TypeOK, Colas
<1>4. /\ cola' \in [Colas -> Seq(PROCESOS)] /\ cola'["ready"] = Append(cola["ready"], p)
      /\ cola'["new"] = cola["new"] /\ cola'["exit"] = cola["exit"]
      /\ cola'["exec"] = cola["exec"]
  BY <1>1, <1>3 DEF Siempre, TypeOK, Colas
<1>5. /\ sem' \in [Semaforos -> Nat] /\ sem'["cpu"] = sem["cpu"]
      /\ sem'["nuevo"] = sem["nuevo"] /\ sem'["grado"] = sem["grado"]
      /\ sem'["ready"] = sem["ready"] + 1 /\ sem["ready"] \in Nat
  BY <1>1 DEF sem_post, Siempre, TypeOK, Semaforos
<1>6. /\ estado' \in [PROCESOS -> Estados]
      /\ \A q \in PROCESOS : estado'[q] = IF q = p THEN "READY" ELSE estado[q]
  BY <1>1 DEF Siempre, TypeOK, Estados
<1>7. /\ en_fs' \in Seq([pcb : PROCESOS, op : {"F_READ", "F_TRUNCATE", "sacar", "poner"}])
      /\ Len(en_fs') <= 1 /\ ToSet(en_fs') = {}
  BY <1>1, EmptySeq, Vacia
<1>8. TypeOK'
  <2>1. TypeOK
    BY DEF Siempre
  <2>2. UNCHANGED <<motivo, restan, instancias, cola_bloqueados, procesos_en_kernel, con_tabla,
                    caido, sem_exit_proceso, largo, corto, candidato, contextos, hilo_cpu, en_io,
                    cola_archivos, puede_compactar, consola, recogido, respuesta>>
    BY <1>1
  <2>3. cola' \in [Colas -> Seq(PROCESOS)] /\ sem' \in [Semaforos -> Nat]
    BY <1>4, <1>5
  <2> QED BY <2>1, <2>2, <2>3, <1>6, <1>7 DEF TypeOK, Estados
<1>9. Interno /\ Admitidos' = Admitidos
  BY <1>1, <1>2, <1>4, <1>5, <1>6 DEF Interno, Admitidos
<1>10. ReadyContados'
  <2>1. Len(cola["ready"]) = sem["ready"] + Uno(corto \in {"elegir", "despachar"})
    BY DEF Siempre, ReadyContados
  <2> QED BY <2>1, <1>1, <1>3, <1>4, <1>5 DEF ReadyContados, Uno
<1>11. RecursosContados' /\ YaAdmitidos'
  <2>1. \A x : (En("ready", x)' <=> En("ready", x) \/ x = p) /\ (En("exec", x)' <=> En("exec", x))
    BY <1>3, <1>4 DEF En
  <2> QED BY <2>1, <1>1, <1>2, <1>7, <1>9 DEF Siempre, RecursosContados, YaAdmitidos
<1>12. EnCPU'
  BY <1>1, <1>5 DEF Siempre, EnCPU, TurnoCierto, Turnos, SinRevisar
<1> QED BY <1>1, <1>4, <1>8, <1>9, <1>10, <1>11, <1>12, SiempreInterno

-----------------------------------------------------------------------------
(* The theorems *)

LEMMA SiempreSigue ==
  ASSUME Siempre, [Next]_vars
  PROVE  Siempre'
<1>1. CASE \E p \in PROCESOS : crear_proceso(p) \/ hilo_consola(p) \/ bloqueo_io(p)
  BY <1>1, SiempreCrear, SiempreAnunciar, SiempreRecoger, SiempreResponder, SiempreBloqueoIO
    DEF hilo_consola
<1>2. CASE planificador_largo_plazo \/ planificador_corto_plazo
  BY <1>2, SiempreEsperarNuevo, SiempreSolicitarTabla, SiempreAdmitir, SiempreEsperarCPU,
     SiempreEsperarReady, SiemprePlanificar, SiempreDespachar
    DEF planificador_largo_plazo, planificador_corto_plazo
<1>3. CASE manejar_respuesta_cpu
  BY <1>3, SiempreTomarDeExec, SiempreYield, SiempreFin, SiempreRevisarEstado,
     SiempreRevisarEnExec, SiempreIO, SiempreWaitConcedido, SiempreWaitBloqueado,
     SiempreSignalDespierta, SiempreSignalLibera, SiempreSeguir, SiemprePedirFS,
     SiempreQuitarDeExec, SiempreBloquearPorFS, SiempreEncolarPorFS
    DEF manejar_respuesta_cpu
<1>4. CASE procesar_file_system
  BY <1>4, SiempreTomarPedido, SiempreRespuesta, SiempreRespuestaEnExec, SiempreSacarDeExec,
     SiemprePonerEnReady
    DEF procesar_file_system
<1>5. CASE UNCHANGED vars
  <2>1. UNCHANGED <<estado, motivo, restan, cola, instancias, cola_bloqueados, procesos_en_kernel,
                    con_tabla, caido, sem, sem_exit_proceso, largo, corto, candidato, contextos,
                    hilo_cpu, en_io, cola_archivos, en_fs, puede_compactar, consola, recogido,
                    respuesta>>
    BY <1>5 DEF vars, pcbs, recursos, kernel, hilos, cpu, esperas, consolas
  <2>2. Admitidos' = Admitidos /\ \A c, q : En(c, q)' <=> En(c, q)
    BY <2>1 DEF Admitidos, En
  <2>3. TypeOK'
    BY <2>1 DEF Siempre, TypeOK
  <2>4. Interno /\ ReadyContados' /\ RecursosContados' /\ YaAdmitidos' /\ EnCPU'
    BY <2>1, <2>2 DEF Interno, Siempre, ReadyContados, RecursosContados, YaAdmitidos, EnCPU,
                      TurnoCierto, Turnos
  <2> QED BY <2>1, <2>3, <2>4, SiempreInterno
<1> QED BY <1>1, <1>2, <1>3, <1>4, <1>5 DEF Next

\* The counts of cola_new, cola_ready and the queues of the resources, the degree of
\* multiprogramming and the pcbs the threads hold: an invariant for any number of
\* processes and resources, any algorithm and answers of the file system at any
\* moment.
THEOREM SiempreInvariante == Spec => []Siempre
<1>1. Init => Siempre
  BY InicioSiempre
<1>2. Siempre /\ [Next]_vars => Siempre'
  BY SiempreSigue
<1> QED BY <1>1, <1>2, PTL DEF Spec

\* Every variable has its type: no thread takes a pcb out of an empty queue without
\* the kernel dying of it, and no console reads the pcb of nobody.
THEOREM TipoCorrecto == Spec => []TypeOK
<1>1. Siempre => TypeOK
  BY DEF Siempre
<1> QED BY <1>1, SiempreInvariante, PTL

\* sem_ready_proceso counts cola_ready.
THEOREM ReadyBienContado == Spec => []ReadyContados
<1>1. Siempre => ReadyContados
  BY DEF Siempre
<1> QED BY <1>1, SiempreInvariante, PTL

\* The degree of multiprogramming is never exceeded, and no place in it is lost.
THEOREM GradoNuncaExcedido == Spec => []GradoRespetado
<1>1. Siempre => GradoRespetado
  BY DEF Siempre
<1> QED BY <1>1, SiempreInvariante, PTL

\* A resource owes as many instances as there are pcbs in its queue.
THEOREM RecursosBienContados == Spec => []RecursosContados
<1>1. Siempre => RecursosContados
  BY DEF Siempre
<1> QED BY <1>1, SiempreInvariante, PTL
=============================================================================
