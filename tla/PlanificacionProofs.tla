------------------------- MODULE PlanificacionProofs -------------------------
(***************************************************************************)
(* What holds of Planificacion when the file system answers after the      *)
(* kernel has blocked the process that waits for it (RESPUESTA_TARDIA):    *)
(* no two threads move the same process at once, and so queues, states,    *)
(* consoles, segment tables and the turn of the CPU agree.  With early     *)
(* answers only PlanificacionSiempreProofs holds.                          *)
(***************************************************************************)
EXTENDS PlanificacionSiempreProofs

EnMemoria     == {"READY", "EXEC", "BLOCK", "BLOCK_RECURSO"}
Terminado(p)  == estado[p] \in {"EXIT", "DESTRUIDO"}
Pendiente(p)  == \E e \in ToSet(cola_archivos) \cup ToSet(en_fs) : e.pcb = p
EnPaso(a, p)  == hilo_cpu.paso = a /\ hilo_cpu.pcb = p
EnRecurso(p)  == \E r \in RECURSOS : p \in ToSet(cola_bloqueados[r])

\* A console and its process: the pcb is freed by its console and by no other, and
\* the table of a process is made when it leaves NEW and deleted when it ends.
VidaDe(p) ==
  /\ En("exit", p) <=> Terminado(p) /\ \A q \in PROCESOS : recogido[q] # p
  /\ consola[p] = "inicio" <=> estado[p] = "NINGUNO"
  /\ consola[p] = "fin" <=> estado[p] = "DESTRUIDO"
  /\ consola[p] = "responde" => estado[p] = "EXIT"
  /\ p \in sem_exit_proceso => estado[p] = "EXIT" /\ consola[p] \in {"anuncia", "espera"}
  /\ recogido[p] = NADIE <=> consola[p] \in {"inicio", "anuncia", "espera"}
  /\ \A q \in PROCESOS : recogido[q] = p => Terminado(p)
  /\ estado[p] # "NINGUNO" /\ ~ Terminado(p) => p \in procesos_en_kernel \/ consola[p] = "anuncia"
  /\ estado[p] # "NEW" => (p \in con_tabla <=> estado[p] \in EnMemoria)
  /\ estado[p] = "NEW" => (p \in con_tabla <=> largo = "admitir" /\ p = Head(cola["new"]))

Vida == ExitContados /\ IsInjective(cola["exit"]) /\ \A p \in PROCESOS : VidaDe(p)

\* A process is in the queue of its state; who sleeps or waits for the file system
\* is blocked, or being blocked by the thread that talks to the CPU.
LugarDe(p) ==
  /\ En("ready", p) <=> estado[p] = "READY"
  /\ En("exec", p) <=> estado[p] = "EXEC" /\ ~ EnPaso("bloquear", p)
  /\ En("block", p) <=> estado[p] = "BLOCK" /\ ~ EnPaso("encolar", p)
  /\ EnRecurso(p) <=> estado[p] = "BLOCK_RECURSO"
  /\ EnPaso("quitar", p) \/ EnPaso("bloquear", p) => Pendiente(p) /\ estado[p] = "EXEC"
  /\ EnPaso("encolar", p) => Pendiente(p) /\ estado[p] = "BLOCK"
  /\ p \in en_io => estado[p] = "BLOCK" /\ ~ Pendiente(p)
  /\ Pendiente(p) => estado[p] = "BLOCK" \/ EnPaso("quitar", p) \/ EnPaso("bloquear", p)

Lugar == /\ IsInjective(cola["ready"]) /\ IsInjective(cola["block"])
         /\ \A p \in PROCESOS : LugarDe(p)

\* A process waits in the queue of one resource, once.
UnRecurso ==
  /\ \A r \in RECURSOS : IsInjective(cola_bloqueados[r])
  /\ \A p \in PROCESOS : \A r, s \in RECURSOS :
       p \in ToSet(cola_bloqueados[r]) /\ p \in ToSet(cola_bloqueados[s]) => r = s

\* A process waits for one answer of the file system.
UnPedido ==
  /\ \A i, j \in DOMAIN cola_archivos : cola_archivos[i].pcb = cola_archivos[j].pcb => i = j
  /\ \A e \in ToSet(en_fs), d \in ToSet(cola_archivos) : e.pcb # d.pcb
  /\ \A e \in ToSet(en_fs) : e.op \in {"F_READ", "F_TRUNCATE"}

\* cola_exec holds the process that has the turn of the CPU, until the thread that
\* talks to the CPU takes it out.
Turno ==
  /\ TurnoCierto
  /\ Len(cola["exec"]) <= 1
  /\ contextos # <<>> => cola["exec"] # <<>>
  /\ cola["exec"] # <<>> =>
       sem["cpu"] = 0 /\ corto = "cpu" /\ hilo_cpu.paso \notin {"bloquear", "encolar"}
  /\ hilo_cpu.paso = "recibir" <=> hilo_cpu.pcb = NADIE
  /\ hilo_cpu.paso = "atender" => hilo_cpu.pcb = Head(cola["exec"])
  /\ hilo_cpu.paso = "revisar" => Terminado(hilo_cpu.pcb)

Tardio == Siempre /\ Vida /\ Lugar /\ UnRecurso /\ UnPedido /\ Turno

-----------------------------------------------------------------------------
(* What a step keeps *)

LEMMA InicioTardio == Init => Tardio
<1> SUFFICES ASSUME Init PROVE Tardio
  OBVIOUS
<1>1. Siempre
  BY InicioSiempre
<1>2. /\ \A c \in Colas : cola[c] = <<>>
      /\ hilo_cpu.paso = "recibir" /\ hilo_cpu.pcb = NADIE
      /\ sem["cpu"] = 1 /\ corto = "cpu" /\ contextos = <<>> /\ Len(contextos) = 0
      /\ \A p \in PROCESOS : estado[p] = "NINGUNO"
  BY DEF Init, Recibiendo, Semaforos
<1>3. ToSet(<<>>) = {} /\ IsInjective(<<>>) /\ Len(<<>>) = 0 /\ DOMAIN <<>> = {}
  BY Vacia
<1>4. \A c \in Colas : \A p : ~ En(c, p)
  BY <1>2, <1>3 DEF En
<1>5. (\A p : ~ Pendiente(p)) /\ (\A p : ~ EnRecurso(p))
  BY <1>3 DEF Init, Pendiente, EnRecurso
<1>6. Vida
  <2>1. Cardinality(sem_exit_proceso) = 0
    BY FS_EmptySet DEF Init
  <2>2. \A p \in PROCESOS : VidaDe(p)
    BY <1>2, <1>4, ConstantesValidas DEF Init, VidaDe, Terminado, EnMemoria, Colas
  <2> QED BY <2>1, <2>2, <1>2, <1>3 DEF Vida, ExitContados, Colas
<1>7. Lugar
  BY <1>2, <1>3, <1>4, <1>5 DEF Init, Lugar, LugarDe, EnPaso, Colas
<1>8. UnRecurso /\ UnPedido
  BY <1>3 DEF Init, UnRecurso, UnPedido
<1>9. Turno
  <2>1. Turnos = 1
    BY <1>2 DEF Turnos, Uno
  <2> QED BY <2>1, <1>2, <1>3 DEF Turno, TurnoCierto, Colas
<1> QED BY <1>1, <1>6, <1>7, <1>8, <1>9 DEF Tardio

\* A step that admits no process and ends none.
MismaVida ==
  /\ cola'["new"] = cola["new"] /\ cola'["exit"] = cola["exit"]
  /\ UNCHANGED <<procesos_en_kernel, con_tabla, sem_exit_proceso, consola, recogido>>
  /\ largo' = "admitir" <=> largo = "admitir"
  /\ \A p \in PROCESOS : estado'[p] = estado[p] \/ {estado[p], estado'[p]} \subseteq EnMemoria

LEMMA VidaIgual ==
  ASSUME Tardio, MismaVida
  PROVE  Vida'
<1>1. /\ UNCHANGED <<procesos_en_kernel, con_tabla, sem_exit_proceso, consola, recogido>>
      /\ cola'["new"] = cola["new"] /\ cola'["exit"] = cola["exit"]
      /\ largo' = "admitir" <=> largo = "admitir"
  BY DEF MismaVida
<1>2. ASSUME NEW p \in PROCESOS
      PROVE  VidaDe(p)'
  <2>1. VidaDe(p)
    BY DEF Tardio, Vida
  <2>2. \/ estado'[p] = estado[p]
        \/ estado[p] \in EnMemoria /\ estado'[p] \in EnMemoria
    BY DEF MismaVida
  <2>3. /\ estado'[p] = "NEW" <=> estado[p] = "NEW"
        /\ estado'[p] = "NINGUNO" <=> estado[p] = "NINGUNO"
        /\ estado'[p] = "EXIT" <=> estado[p] = "EXIT"
        /\ estado'[p] = "DESTRUIDO" <=> estado[p] = "DESTRUIDO"
        /\ estado'[p] \in EnMemoria <=> estado[p] \in EnMemoria
    BY <2>2 DEF EnMemoria
  <2> QED BY <1>1, <2>1, <2>3 DEF VidaDe, Terminado, En
<1>3. ExitContados' /\ IsInjective(cola'["exit"])
  BY <1>1 DEF Tardio, Vida, ExitContados
<1> QED BY <1>2, <1>3 DEF Vida

\* A step that moves no process in or out of the queues of LugarDe.
MismoLugar(p) ==
  /\ \/ estado'[p] = estado[p]
     \/ estado[p] \notin EnMemoria /\ estado'[p] \notin EnMemoria
  /\ En("ready", p)' <=> En("ready", p)
  /\ En("exec", p)' <=> En("exec", p)
  /\ En("block", p)' <=> En("block", p)
  /\ EnRecurso(p)' <=> EnRecurso(p)
  /\ p \in en_io' <=> p \in en_io
  /\ Pendiente(p)' <=> Pendiente(p)
  /\ EnPaso("quitar", p)' <=> EnPaso("quitar", p)
  /\ EnPaso("bloquear", p)' <=> EnPaso("bloquear", p)
  /\ EnPaso("encolar", p)' <=> EnPaso("encolar", p)

LEMMA LugarIgual ==
  ASSUME Tardio, NEW p \in PROCESOS, MismoLugar(p)
  PROVE  LugarDe(p)'
<1>1. LugarDe(p)
  BY DEF Tardio, Lugar
<1>2. /\ estado'[p] = "READY" <=> estado[p] = "READY"
      /\ estado'[p] = "EXEC" <=> estado[p] = "EXEC"
      /\ estado'[p] = "BLOCK" <=> estado[p] = "BLOCK"
      /\ estado'[p] = "BLOCK_RECURSO" <=> estado[p] = "BLOCK_RECURSO"
  BY DEF MismoLugar, EnMemoria
<1> QED BY <1>1, <1>2 DEF LugarDe, MismoLugar

LEMMA LugarSalvo ==
  ASSUME Tardio, NEW p \in PROCESOS, LugarDe(p)',
         IsInjective(cola'["ready"]), IsInjective(cola'["block"]),
         \A q \in PROCESOS : q # p => MismoLugar(q)
  PROVE  Lugar'
<1>1. ASSUME NEW q \in PROCESOS
      PROVE  LugarDe(q)'
  BY LugarIgual
<1> QED BY <1>1 DEF Lugar

\* The thread that talks to the CPU and its turn are left alone.
LEMMA TurnoSigue ==
  ASSUME Tardio, cola'["exec"] = cola["exec"], sem'["cpu"] = sem["cpu"],
         UNCHANGED <<corto, contextos, hilo_cpu>>, caido => caido',
         \A p \in PROCESOS : Terminado(p) => Terminado(p)'
  PROVE  Turno'
<1>1. Turnos' = Turnos
  BY DEF Turnos
<1>2. hilo_cpu.paso = "revisar" => Terminado(hilo_cpu.pcb)'
  <2>1. hilo_cpu.paso = "revisar" => hilo_cpu.pcb \in PROCESOS
    BY DEF Tardio, Siempre, YaAdmitidos, Admitidos
  <2> QED BY <2>1 DEF Tardio, Turno
<1> QED BY <1>1, <1>2 DEF Tardio, Turno, TurnoCierto, Terminado

\* A step of a console, of the long-term scheduler or of nobody.
Quieto ==
  /\ \A c \in {"ready", "exec", "block"} : cola'[c] = cola[c]
  /\ sem'["cpu"] = sem["cpu"]
  /\ UNCHANGED <<cola_bloqueados, corto, contextos, hilo_cpu, en_io, cola_archivos, en_fs, caido>>
  /\ \A p \in PROCESOS : \/ estado'[p] = estado[p]
                         \/ /\ estado[p] \notin EnMemoria /\ estado'[p] \notin EnMemoria
                            /\ Terminado(p) => Terminado(p)'

LEMMA PasoQuieto ==
  ASSUME Tardio, Quieto
  PROVE  Lugar' /\ UnRecurso' /\ UnPedido' /\ Turno'
<1>1. /\ cola'["ready"] = cola["ready"] /\ cola'["exec"] = cola["exec"]
      /\ cola'["block"] = cola["block"] /\ sem'["cpu"] = sem["cpu"]
      /\ cola_bloqueados' = cola_bloqueados /\ corto' = corto /\ contextos' = contextos
      /\ hilo_cpu' = hilo_cpu /\ en_io' = en_io /\ cola_archivos' = cola_archivos
      /\ en_fs' = en_fs /\ caido' = caido
  BY DEF Quieto
<1>2. \A p \in PROCESOS : MismoLugar(p)
  BY <1>1 DEF Quieto, MismoLugar, En, EnRecurso, Pendiente, EnPaso
<1>3. Lugar'
  BY <1>1, <1>2, LugarIgual DEF Tardio, Lugar
<1>4. UnRecurso' /\ UnPedido'
  BY <1>1 DEF Tardio, UnRecurso, UnPedido
<1>5. \A p \in PROCESOS : Terminado(p) => Terminado(p)'
  BY DEF Quieto, Terminado
<1> QED BY <1>1, <1>3, <1>4, <1>5, TurnoSigue

-----------------------------------------------------------------------------
(* The threads of the consoles and the long-term scheduler *)

LEMMA TardioCrear ==
  ASSUME Tardio, Siempre', NEW p \in PROCESOS, crear_proceso(p)
  PROVE  Tardio'
<1>1. /\ consola[p] = "inicio" /\ estado[p] = "NINGUNO"
      /\ cola["new"] \in Seq(PROCESOS)
  BY DEF crear_proceso, Tardio, Vida, VidaDe, Siempre, TypeOK, Colas
<1>2. /\ \A q \in PROCESOS : estado'[q] = IF q = p THEN "NEW" ELSE estado[q]
      /\ \A q \in PROCESOS : consola'[q] = IF q = p THEN "anuncia" ELSE consola[q]
      /\ \A c \in Colas : cola'[c] = IF c = "new" THEN Append(cola["new"], p) ELSE cola[c]
      /\ UNCHANGED <<cola_bloqueados, procesos_en_kernel, con_tabla, caido, sem,
                     sem_exit_proceso, largo, corto, contextos, hilo_cpu, en_io, cola_archivos,
                     en_fs, recogido>>
  BY DEF crear_proceso, recursos, kernel, hilos, cpu, esperas, Tardio, Siempre, TypeOK
<1>3. Quieto
  BY <1>1, <1>2 DEF Quieto, Colas, EnMemoria, Terminado
<1>4. largo = "admitir" => /\ Head(cola'["new"]) = Head(cola["new"])
                           /\ Head(cola["new"]) # p
  <2>1. largo = "admitir" => cola["new"] # <<>> /\ estado[Head(cola["new"])] = "NEW"
    BY HayNuevo DEF Tardio
  <2>2. cola'["new"] = Append(cola["new"], p)
    BY <1>2 DEF Colas
  <2> QED BY <2>1, <2>2, <1>1, Agregar
<1>5. ASSUME NEW q \in PROCESOS
      PROVE  VidaDe(q)'
  <2>1. VidaDe(q) /\ (En("exit", q)' <=> En("exit", q))
    BY <1>2 DEF Tardio, Vida, En, Colas
  <2>2. CASE q = p
    <3>1. /\ estado'[p] = "NEW" /\ consola'[p] = "anuncia"
          /\ \A x \in PROCESOS : recogido'[x] # p
          /\ p \notin con_tabla' /\ p \notin sem_exit_proceso' /\ recogido'[p] = NADIE
          /\ ~ En("exit", p)'
      BY <2>1, <2>2, <1>1, <1>2 DEF VidaDe, Terminado, EnMemoria
    <3> QED BY <3>1, <2>2, <1>2, <1>4 DEF VidaDe, Terminado
  <2>3. CASE q # p
    <3>1. estado'[q] = estado[q] /\ consola'[q] = consola[q]
      BY <2>3, <1>2
    <3> QED BY <3>1, <2>1, <1>2, <1>4 DEF VidaDe, Terminado
  <2> QED BY <2>2, <2>3
<1>6. ExitContados' /\ IsInjective(cola'["exit"])
  BY <1>2 DEF Tardio, Vida, ExitContados, Colas
<1> QED BY <1>3, <1>5, <1>6, PasoQuieto DEF Tardio, Vida

LEMMA TardioAnunciar ==
  ASSUME Tardio, Siempre', NEW p \in PROCESOS, AnunciarProceso(p)
  PROVE  Tardio'
<1>1. /\ consola[p] = "anuncia" /\ procesos_en_kernel' = procesos_en_kernel \cup {p}
      /\ \A q \in PROCESOS : consola'[q] = IF q = p THEN "espera" ELSE consola[q]
      /\ sem'["cpu"] = sem["cpu"]
      /\ UNCHANGED <<estado, cola, cola_bloqueados, con_tabla, caido, sem_exit_proceso, largo,
                     corto, contextos, hilo_cpu, en_io, cola_archivos, en_fs, recogido>>
  BY DEF AnunciarProceso, sem_post, pcbs, recursos, hilos, cpu, esperas, Tardio, Siempre, TypeOK,
         Semaforos
<1>2. Quieto
  BY <1>1 DEF Quieto
<1>3. ASSUME NEW q \in PROCESOS
      PROVE  VidaDe(q)'
  BY <1>1 DEF Tardio, Vida, VidaDe, Terminado, En
<1>4. ExitContados' /\ IsInjective(cola'["exit"])
  BY <1>1 DEF Tardio, Vida, ExitContados
<1> QED BY <1>2, <1>3, <1>4, PasoQuieto DEF Tardio, Vida

LEMMA TardioRecoger ==
  ASSUME Tardio, Siempre', NEW p \in PROCESOS, RecogerExit(p)
  PROVE  Tardio'
<1> DEFINE h == Head(cola["exit"])
<1>1. /\ p \in sem_exit_proceso /\ consola[p] = "espera" /\ estado[p] = "EXIT"
      /\ recogido[p] = NADIE /\ cola["exit"] \in Seq(PROCESOS) /\ IsInjective(cola["exit"])
      /\ sem_exit_proceso \in SUBSET PROCESOS
  BY DEF RecogerExit, Tardio, Vida, VidaDe, Siempre, TypeOK, Colas
<1>2. /\ Cardinality(sem_exit_proceso) \in Nat
      /\ Cardinality(sem_exit_proceso \ {p}) = Cardinality(sem_exit_proceso) - 1
      /\ Cardinality(sem_exit_proceso \ {p}) \in Nat
  BY <1>1, UnoMenos, Contables
<1>3. cola["exit"] # <<>> /\ Len(cola["exit"]) = Cardinality(sem_exit_proceso)
  <2>1. Len(cola["exit"]) = Cardinality(sem_exit_proceso)
    BY DEF Tardio, Vida, ExitContados
  <2> QED BY <2>1, <1>1, <1>2, EmptySeq
<1>4. /\ h \in PROCESOS /\ h \in ToSet(cola["exit"])
      /\ squeue_pop(cola["exit"]) \in Seq(PROCESOS) /\ IsInjective(squeue_pop(cola["exit"]))
      /\ Len(squeue_pop(cola["exit"])) = Len(cola["exit"]) - 1
      /\ ToSet(cola["exit"]) = ToSet(squeue_pop(cola["exit"])) \cup {h}
      /\ h \notin ToSet(squeue_pop(cola["exit"]))
  BY <1>1, <1>3, Desencolar
<1>5. /\ \A q \in PROCESOS : consola'[q] = IF q = p THEN "responde" ELSE consola[q]
      /\ \A q \in PROCESOS : recogido'[q] = IF q = p THEN h ELSE recogido[q]
      /\ \A c \in Colas : cola'[c] = IF c = "exit" THEN squeue_pop(cola["exit"]) ELSE cola[c]
      /\ sem_exit_proceso' = sem_exit_proceso \ {p}
      /\ procesos_en_kernel' = procesos_en_kernel \ {h}
      /\ UNCHANGED <<estado, cola_bloqueados, con_tabla, caido, sem, largo, corto, contextos,
                     hilo_cpu, en_io, cola_archivos, en_fs>>
  BY DEF RecogerExit, pcbs, recursos, hilos, cpu, esperas, Tardio, Siempre, TypeOK
<1> HIDE DEF h
<1>6. (\A q : En("exit", q)' <=> En("exit", q) /\ q # h) /\ En("exit", h)
  BY <1>4, <1>5 DEF En, Colas
<1>7. Terminado(h) /\ \A q \in PROCESOS : recogido[q] # h
  BY <1>4, <1>6 DEF Tardio, Vida, VidaDe
<1>8. Quieto
  BY <1>5 DEF Quieto, Colas
<1>9. ExitContados' /\ IsInjective(cola'["exit"])
  BY <1>2, <1>3, <1>4, <1>5 DEF ExitContados, Colas
<1>10. ASSUME NEW q \in PROCESOS
       PROVE  VidaDe(q)'
  <2>1. VidaDe(q)
    BY DEF Tardio, Vida
  <2>2. En("exit", q)' <=> Terminado(q)' /\ \A x \in PROCESOS : recogido'[x] # q
    <3>1. CASE q = h
      BY <3>1, <1>5, <1>6
    <3>2. CASE q # h
      <4>1. \A x \in PROCESOS : recogido'[x] = q <=> recogido[x] = q
        BY <3>2, <1>1, <1>5, ConstantesValidas
      <4> QED BY <3>2, <4>1, <2>1, <1>5, <1>6 DEF Terminado, VidaDe
    <3> QED BY <3>1, <3>2
  <2>3. ASSUME NEW x \in PROCESOS, recogido'[x] = q
        PROVE  Terminado(q)'
    BY <2>1, <2>3, <1>5, <1>7 DEF VidaDe, Terminado
  <2>4. estado'[q] # "NINGUNO" /\ ~ Terminado(q)' =>
          q \in procesos_en_kernel' \/ consola'[q] = "anuncia"
    BY <2>1, <1>1, <1>5, <1>7 DEF VidaDe, Terminado
  <2>5. cola'["new"] = cola["new"]
    BY <1>5 DEF Colas
  <2>6. CASE q = p
    <3>1. /\ consola'[q] = "responde" /\ recogido'[q] = h /\ q \notin sem_exit_proceso'
          /\ estado'[q] = "EXIT" /\ h # NADIE
      BY <2>6, <1>1, <1>4, <1>5, ConstantesValidas
    <3> QED BY <3>1, <2>1, <2>2, <2>3, <2>4, <1>5 DEF VidaDe, Terminado
  <2>7. CASE q # p
    <3>1. /\ consola'[q] = consola[q] /\ recogido'[q] = recogido[q] /\ estado'[q] = estado[q]
          /\ q \in sem_exit_proceso' <=> q \in sem_exit_proceso
      BY <2>7, <1>5
    <3> QED BY <3>1, <2>1, <2>2, <2>3, <2>4, <2>5, <1>5 DEF VidaDe, Terminado
  <2> QED BY <2>6, <2>7
<1> QED BY <1>8, <1>9, <1>10, PasoQuieto DEF Tardio, Vida

LEMMA TardioResponder ==
  ASSUME Tardio, Siempre', NEW p \in PROCESOS, respuesta_proceso(p)
  PROVE  Tardio'
<1>1. consola[p] = "responde" /\ estado[p] = "EXIT" /\ p \notin sem_exit_proceso
  BY DEF respuesta_proceso, Tardio, Vida, VidaDe
<1>2. /\ \A q \in PROCESOS : estado'[q] = IF q = p THEN "DESTRUIDO" ELSE estado[q]
      /\ \A q \in PROCESOS : consola'[q] = IF q = p THEN "fin" ELSE consola[q]
      /\ sem'["cpu"] = sem["cpu"]
      /\ UNCHANGED <<cola, cola_bloqueados, procesos_en_kernel, con_tabla, caido,
                     sem_exit_proceso, largo, corto, contextos, hilo_cpu, en_io, cola_archivos,
                     en_fs, recogido>>
  BY DEF respuesta_proceso, sem_post, recursos, kernel, hilos, cpu, esperas, Tardio, Siempre,
         TypeOK, Semaforos
<1>3. Quieto
  BY <1>1, <1>2 DEF Quieto, Terminado, EnMemoria
<1>4. ASSUME NEW q \in PROCESOS
      PROVE  VidaDe(q)'
  <2>1. VidaDe(q) /\ (En("exit", q)' <=> En("exit", q))
    BY <1>2 DEF Tardio, Vida, En
  <2>2. CASE q = p
    BY <2>1, <2>2, <1>1, <1>2 DEF VidaDe, Terminado, EnMemoria
  <2>3. CASE q # p
    <3>1. estado'[q] = estado[q] /\ consola'[q] = consola[q]
      BY <2>3, <1>2
    <3> QED BY <3>1, <2>1, <1>2 DEF VidaDe, Terminado
  <2> QED BY <2>2, <2>3
<1>5. ExitContados' /\ IsInjective(cola'["exit"])
  BY <1>2 DEF Tardio, Vida, ExitContados
<1> QED BY <1>3, <1>4, <1>5, PasoQuieto DEF Tardio, Vida

LEMMA TardioEsperarNuevo ==
  ASSUME Tardio, Siempre', EsperarNuevo
  PROVE  Tardio'
<1>1. /\ largo = "nuevo" /\ largo' = "grado" /\ sem'["cpu"] = sem["cpu"]
      /\ UNCHANGED <<estado, cola, cola_bloqueados, procesos_en_kernel, con_tabla, caido,
                     sem_exit_proceso, corto, contextos, hilo_cpu, en_io, cola_archivos, en_fs,
                     consola, recogido>>
  BY DEF EsperarNuevo, sem_wait, pcbs, recursos, kernel, cpu, esperas, consolas, Tardio, Siempre,
         TypeOK, Semaforos
<1>2. Quieto /\ MismaVida
  BY <1>1 DEF Quieto, MismaVida
<1> QED BY <1>2, PasoQuieto, VidaIgual DEF Tardio

LEMMA TardioSolicitarTabla ==
  ASSUME Tardio, Siempre', solicitar_nueva_tabla_de_segmento
  PROVE  Tardio'
<1> DEFINE h == Head(cola["new"])
<1>1. /\ largo = "grado" /\ largo' = "admitir" /\ sem'["cpu"] = sem["cpu"]
      /\ con_tabla' = con_tabla \cup {h}
      /\ UNCHANGED <<estado, cola, cola_bloqueados, procesos_en_kernel, caido,
                     sem_exit_proceso, corto, contextos, hilo_cpu, en_io, cola_archivos, en_fs,
                     consola, recogido>>
  BY DEF solicitar_nueva_tabla_de_segmento, sem_wait, pcbs, recursos, cpu, esperas, consolas,
         Tardio, Siempre, TypeOK, Semaforos
<1>2. h \in PROCESOS /\ estado[h] = "NEW"
  BY <1>1, HayNuevo DEF Tardio
<1>3. Quieto
  BY <1>1 DEF Quieto
<1>4. ASSUME NEW q \in PROCESOS
      PROVE  VidaDe(q)'
  <2>1. VidaDe(q) /\ (En("exit", q)' <=> En("exit", q))
    BY <1>1 DEF Tardio, Vida, En
  <2> QED BY <2>1, <1>1, <1>2 DEF VidaDe, Terminado
<1>5. ExitContados' /\ IsInjective(cola'["exit"])
  BY <1>1 DEF Tardio, Vida, ExitContados
<1> QED BY <1>3, <1>4, <1>5, PasoQuieto DEF Tardio, Vida

-----------------------------------------------------------------------------
(* The schedulers *)

\* What pasar_a_cola_ready does to the queues and the semaphores, when the process
\* is where its state says.
Listo(p, S) ==
  /\ \A q \in PROCESOS : estado'[q] = IF q = p THEN "READY" ELSE estado[q]
  /\ sem'["cpu"] = IF "cpu" \in S THEN sem["cpu"] + 1 ELSE sem["cpu"]
  /\ Len(cola'["ready"]) = Len(cola["ready"]) + 1 /\ IsInjective(cola'["ready"])
  /\ \A q : En("ready", q)' <=> En("ready", q) \/ q = p
  /\ cola'["exit"] = cola["exit"]
  /\ cola'["new"] = IF estado[p] = "NEW" THEN squeue_pop(cola["new"]) ELSE cola["new"]
  /\ cola'["exec"] = IF estado[p] = "EXEC" THEN squeue_pop(cola["exec"]) ELSE cola["exec"]
  /\ cola'["block"] = IF estado[p] = "BLOCK" THEN RemoveFirst(cola["block"], p)
                      ELSE cola["block"]
  /\ caido' = caido
  /\ ALGORITMO # "HRRN" /\ cola["ready"] # <<>> => Head(cola'["ready"]) = Head(cola["ready"])

LEMMA AReady ==
  ASSUME Tardio, NEW p \in PROCESOS, NEW b, NEW S, pasar_a_cola_ready(p, b, S),
         estado[p] # "READY", estado[p] = "NEW" => p = Head(cola["new"]),
         estado[p] = "EXEC" => cola["exec"] = <<p>>
  PROVE  Listo(p, S)
<1>1. /\ \A c \in Colas : cola[c] \in Seq(PROCESOS) /\ squeue_pop(cola[c]) \in Seq(PROCESOS)
      /\ RemoveFirst(cola["block"], p) \in Seq(PROCESOS)
      /\ IsInjective(cola["ready"]) /\ p \notin ToSet(cola["ready"])
      /\ cola["ready"] \in Seq(PROCESOS) /\ Len(cola["ready"]) \in Nat
      /\ cola["ready"] # <<>> => Len(cola["ready"]) > 0
  <2>1. \A c \in Colas : cola[c] \in Seq(PROCESOS)
    BY ColasValidas DEF Tardio, Siempre
  <2>2. \A c \in Colas : squeue_pop(cola[c]) \in Seq(PROCESOS)
    BY <2>1, Desencolar
  <2>3. RemoveFirst(cola["block"], p) \in Seq(PROCESOS)
    BY <2>1, QuitarTipo DEF Colas
  <2>4. /\ cola["ready"] \in Seq(PROCESOS) /\ Len(cola["ready"]) \in Nat
        /\ cola["ready"] # <<>> => Len(cola["ready"]) > 0
    BY ColasValidas DEF Tardio, Siempre, Colas
  <2> QED BY <2>1, <2>2, <2>3, <2>4 DEF Tardio, Lugar, LugarDe, En
<1>2. Movido(p, b) = p /\ ~ ExecVacia(p, b)
  <2>1. estado[p] = "EXEC" => Head(cola["exec"]) = p /\ cola["exec"] # <<>>
    BY Unitaria
  <2> QED BY <2>1 DEF Movido, ExecVacia
<1>3. PICK i \in Lugares(b) :
        cola' = [quitar_de_cola_actual(p) EXCEPT !["ready"] = InsertAt(@, i, p)]
  BY <1>2 DEF pasar_a_cola_ready
<1>4. estado' = [estado EXCEPT ![p] = "READY"] /\ sem_post(S \cup {"ready"}) /\ caido' = caido
  BY <1>2 DEF pasar_a_cola_ready
<1>5. i \in 1 .. Len(cola["ready"]) + 1
      /\ (ALGORITMO # "HRRN" /\ cola["ready"] # <<>> => i # 1)
  BY <1>1, <1>3 DEF Lugares
<1> DEFINE t == InsertAt(cola["ready"], i, p)
<1>6. /\ t \in Seq(PROCESOS) /\ Len(t) = Len(cola["ready"]) + 1
      /\ i # 1 => Head(t) = Head(cola["ready"])
      /\ ToSet(t) = ToSet(cola["ready"]) \cup {p} /\ IsInjective(t)
  BY <1>1, <1>5, Insertar
<1>7. /\ quitar_de_cola_actual(p) \in [Colas -> Seq(PROCESOS)]
      /\ quitar_de_cola_actual(p)["ready"] = cola["ready"]
      /\ quitar_de_cola_actual(p)["exit"] = cola["exit"]
      /\ quitar_de_cola_actual(p)["new"] =
           IF estado[p] = "NEW" THEN squeue_pop(cola["new"]) ELSE cola["new"]
      /\ quitar_de_cola_actual(p)["exec"] =
           IF estado[p] = "EXEC" THEN squeue_pop(cola["exec"]) ELSE cola["exec"]
      /\ quitar_de_cola_actual(p)["block"] =
           IF estado[p] = "BLOCK" THEN RemoveFirst(cola["block"], p) ELSE cola["block"]
  <2>1. CASE estado[p] = "NEW"
    BY <2>1, <1>1 DEF quitar_de_cola_actual, Tardio, Siempre, TypeOK, Colas
  <2>2. CASE estado[p] = "EXEC"
    BY <2>2, <1>1 DEF quitar_de_cola_actual, Tardio, Siempre, TypeOK, Colas
  <2>3. CASE estado[p] = "BLOCK"
    BY <2>3, <1>1 DEF quitar_de_cola_actual, Tardio, Siempre, TypeOK, Colas
  <2>4. CASE estado[p] \notin {"NEW", "EXEC", "BLOCK"}
    BY <2>4, <1>1 DEF quitar_de_cola_actual, Tardio, Siempre, TypeOK, Colas
  <2> QED BY <2>1, <2>2, <2>3, <2>4
<1>8. /\ cola'["ready"] = t
      /\ \A c \in Colas \ {"ready"} : cola'[c] = quitar_de_cola_actual(p)[c]
  BY <1>3, <1>7 DEF Colas
<1> HIDE DEF t
<1>9. \A q \in PROCESOS : estado'[q] = IF q = p THEN "READY" ELSE estado[q]
  BY <1>4 DEF Tardio, Siempre, TypeOK
<1>10. sem'["cpu"] = IF "cpu" \in S THEN sem["cpu"] + 1 ELSE sem["cpu"]
  BY <1>4 DEF sem_post, Tardio, Siempre, TypeOK, Semaforos
<1>11. \A q : En("ready", q)' <=> En("ready", q) \/ q = p
  BY <1>6, <1>8 DEF En
<1> QED BY <1>4, <1>5, <1>6, <1>7, <1>8, <1>9, <1>10, <1>11 DEF Colas, Listo

\* What the threads hold of a process does not change.
MismasManos(q) ==
  /\ EnRecurso(q)' <=> EnRecurso(q)
  /\ q \in en_io' <=> q \in en_io
  /\ Pendiente(q)' <=> Pendiente(q)
  /\ EnPaso("quitar", q)' <=> EnPaso("quitar", q)
  /\ EnPaso("bloquear", q)' <=> EnPaso("bloquear", q)
  /\ EnPaso("encolar", q)' <=> EnPaso("encolar", q)

\* Nobody holds the process.
EnManosDeNadie(p) ==
  /\ ~ EnRecurso(p) /\ p \notin en_io /\ ~ Pendiente(p)
  /\ ~ EnPaso("quitar", p) /\ ~ EnPaso("bloquear", p) /\ ~ EnPaso("encolar", p)

\* pasar_a_cola_ready takes p out of the only queue it was in.
LEMMA LugarListo ==
  ASSUME Tardio, NEW p \in PROCESOS, NEW S, Listo(p, S),
         estado[p] = "EXEC" => cola["exec"] = <<p>>,
         EnManosDeNadie(p)', \A q \in PROCESOS : q # p => MismasManos(q)
  PROVE  Lugar'
<1>1. /\ estado'[p] = "READY" /\ En("ready", p)'
      /\ \A q \in PROCESOS : q # p => estado'[q] = estado[q] /\ (En("ready", q)' <=> En("ready", q))
  BY DEF Listo
<1>2. \A q \in PROCESOS : En("exec", q)' <=> En("exec", q) /\ q # p
  <2>1. CASE estado[p] = "EXEC"
    <3>1. cola["exec"] = <<p>> /\ cola'["exec"] = <<>>
      BY <2>1, Unitaria DEF Listo, squeue_pop
    <3>2. ToSet(cola["exec"]) = {p} /\ ToSet(cola'["exec"]) = {}
      BY <3>1, Unitaria, Vacia
    <3> QED BY <3>2 DEF En
  <2>2. CASE estado[p] # "EXEC"
    <3>1. ~ En("exec", p) /\ cola'["exec"] = cola["exec"]
      BY <2>2 DEF Listo, Tardio, Lugar, LugarDe
    <3> QED BY <3>1 DEF En
  <2> QED BY <2>1, <2>2
<1>3. IsInjective(cola'["block"]) /\ \A q \in PROCESOS : En("block", q)' <=> En("block", q) /\ q # p
  <2>1. cola["block"] \in Seq(PROCESOS) /\ IsInjective(cola["block"])
    BY DEF Tardio, Siempre, TypeOK, Colas, Lugar
  <2>2. CASE estado[p] = "BLOCK"
    <3>1. cola'["block"] = RemoveFirst(cola["block"], p)
      BY <2>2 DEF Listo
    <3>2. /\ ToSet(cola'["block"]) = ToSet(cola["block"]) \ {p}
          /\ IsInjective(cola'["block"])
      BY <2>1, <3>1, QuitarUno
    <3> QED BY <3>2 DEF En
  <2>3. CASE estado[p] # "BLOCK"
    <3>1. ~ En("block", p) /\ cola'["block"] = cola["block"]
      BY <2>3 DEF Listo, Tardio, Lugar, LugarDe
    <3> QED BY <3>1, <2>1 DEF En
  <2> QED BY <2>2, <2>3
<1>4. LugarDe(p)'
  BY <1>1, <1>2, <1>3 DEF LugarDe, EnManosDeNadie
<1>5. \A q \in PROCESOS : q # p => MismoLugar(q)
  BY <1>1, <1>2, <1>3 DEF MismoLugar, MismasManos
<1>6. IsInjective(cola'["ready"])
  BY DEF Listo
<1> QED BY <1>3, <1>4, <1>5, <1>6, LugarSalvo

LEMMA TardioAdmitir ==
  ASSUME Tardio, Siempre', AdmitirProceso
  PROVE  Tardio'
<1>1. /\ largo = "admitir" /\ largo' = "nuevo"
      /\ UNCHANGED <<cola_bloqueados, procesos_en_kernel, con_tabla, sem_exit_proceso, corto,
                     contextos, hilo_cpu, en_io, cola_archivos, en_fs, consola, recogido>>
  BY DEF AdmitirProceso, recursos, cpu, esperas, consolas
<1>2. PICK h \in PROCESOS : h = Head(cola["new"])
  BY <1>1, HayNuevo DEF Tardio
<1>3. /\ estado[h] = "NEW" /\ cola["new"] # <<>> /\ h \in con_tabla
  BY <1>1, <1>2, HayNuevo DEF Tardio, Vida, VidaDe
<1>4. Listo(h, {})
  BY <1>2, <1>3, AReady DEF AdmitirProceso
<1>5. /\ \A q \in PROCESOS : estado'[q] = IF q = h THEN "READY" ELSE estado[q]
      /\ sem'["cpu"] = sem["cpu"] /\ caido' = caido
      /\ cola'["exit"] = cola["exit"] /\ cola'["exec"] = cola["exec"]
  BY <1>3, <1>4 DEF Listo
<1>6. EnManosDeNadie(h)'
  BY <1>1, <1>3 DEF Tardio, Lugar, LugarDe, EnManosDeNadie, EnRecurso, Pendiente, EnPaso
<1>7. \A q \in PROCESOS : MismasManos(q)
  BY <1>1 DEF MismasManos, EnRecurso, Pendiente, EnPaso
<1>8. Lugar'
  BY <1>3, <1>4, <1>6, <1>7, LugarListo
<1>9. UnRecurso' /\ UnPedido'
  BY <1>1 DEF Tardio, UnRecurso, UnPedido
<1>10. Turno'
  <2>1. \A q \in PROCESOS : Terminado(q) => Terminado(q)'
    BY <1>3, <1>5 DEF Terminado
  <2> QED BY <2>1, <1>1, <1>5, TurnoSigue
<1>11. ASSUME NEW q \in PROCESOS
       PROVE  VidaDe(q)'
  <2>1. VidaDe(q) /\ (En("exit", q)' <=> En("exit", q))
    BY <1>5 DEF Tardio, Vida, En
  <2>2. CASE q = h
    BY <2>1, <2>2, <1>1, <1>3, <1>5 DEF VidaDe, Terminado, EnMemoria
  <2>3. CASE q # h
    <3>1. estado'[q] = estado[q] /\ q # Head(cola["new"])
      BY <2>3, <1>2, <1>5
    <3> QED BY <3>1, <2>1, <1>1 DEF VidaDe, Terminado
  <2> QED BY <2>2, <2>3
<1>12. ExitContados' /\ IsInjective(cola'["exit"])
  BY <1>1, <1>5 DEF Tardio, Vida, ExitContados
<1> QED BY <1>8, <1>9, <1>10, <1>11, <1>12 DEF Tardio, Vida

\* While the short-term scheduler has the turn nobody else is at the CPU.
LEMMA CPULibre ==
  ASSUME Tardio, corto # "cpu" \/ sem["cpu"] > 0
  PROVE  /\ cola["exec"] = <<>> /\ contextos = <<>> /\ hilo_cpu.paso \in {"recibir", "revisar"}
         /\ sem["cpu"] \in Nat /\ (corto # "cpu" => sem["cpu"] = 0)
<1>1. sem["cpu"] \in Nat /\ Len(contextos) \in Nat
  BY Numeros DEF Tardio, Siempre
<1>2. cola["exec"] = <<>> /\ contextos = <<>>
  BY <1>1 DEF Tardio, Turno
<1>3. hilo_cpu.paso \in {"recibir", "atender", "revisar", "quitar", "bloquear", "encolar"}
  BY DEF Tardio, Siempre, TypeOK
<1>4. hilo_cpu.paso # "atender"
  BY <1>2 DEF Tardio, Siempre, EnCPU
<1>5. sem["cpu"] + Uno(corto # "cpu") + Len(contextos)
      + Uno(hilo_cpu.paso \in {"quitar", "bloquear", "encolar"}) <= 1
  BY DEF Tardio, Turno, TurnoCierto, Turnos
<1> QED BY <1>1, <1>2, <1>3, <1>4, <1>5 DEF Uno

LEMMA TardioEsperarCPU ==
  ASSUME Tardio, Siempre', EsperarCPU
  PROVE  Tardio'
<1>1. /\ corto = "cpu" /\ corto' = "ready" /\ sem["cpu"] > 0 /\ sem'["cpu"] = sem["cpu"] - 1
      /\ UNCHANGED <<estado, cola, cola_bloqueados, procesos_en_kernel, con_tabla, caido,
                     sem_exit_proceso, largo, contextos, hilo_cpu, en_io, cola_archivos, en_fs,
                     consola, recogido>>
  BY DEF EsperarCPU, sem_wait, pcbs, recursos, kernel, cpu, esperas, consolas, Tardio, Siempre,
         TypeOK, Semaforos
<1>2. MismaVida
  BY <1>1 DEF MismaVida
<1>3. \A q \in PROCESOS : MismoLugar(q)
  BY <1>1 DEF MismoLugar, En, EnRecurso, Pendiente, EnPaso
<1>4. Lugar'
  BY <1>1, <1>3, LugarIgual DEF Tardio, Lugar
<1>5. UnRecurso' /\ UnPedido'
  BY <1>1 DEF Tardio, UnRecurso, UnPedido
<1>6. Turno'
  <2>1. /\ cola["exec"] = <<>> /\ contextos = <<>> /\ sem["cpu"] \in Nat
    BY <1>1, CPULibre
  <2>2. Turnos' = Turnos
    BY <2>1, <1>1 DEF Turnos, Uno
  <2>3. TurnoCierto'
    BY <2>2, <1>1 DEF Tardio, Turno, TurnoCierto
  <2> QED BY <2>1, <2>3, <1>1 DEF Tardio, Turno, Terminado
<1> QED BY <1>2, <1>4, <1>5, <1>6, VidaIgual DEF Tardio

LEMMA TardioEsperarReady ==
  ASSUME Tardio, Siempre', EsperarReady
  PROVE  Tardio'
<1>1. /\ corto = "ready" /\ corto' = "elegir" /\ sem'["cpu"] = sem["cpu"]
      /\ UNCHANGED <<estado, cola, cola_bloqueados, procesos_en_kernel, con_tabla, caido,
                     sem_exit_proceso, largo, contextos, hilo_cpu, en_io, cola_archivos, en_fs,
                     consola, recogido>>
  BY DEF EsperarReady, sem_wait, pcbs, recursos, kernel, cpu, esperas, consolas, Tardio, Siempre,
         TypeOK, Semaforos
<1>2. MismaVida
  BY <1>1 DEF MismaVida
<1>3. \A q \in PROCESOS : MismoLugar(q)
  BY <1>1 DEF MismoLugar, En, EnRecurso, Pendiente, EnPaso
<1>4. Lugar'
  BY <1>1, <1>3, LugarIgual DEF Tardio, Lugar
<1>5. UnRecurso' /\ UnPedido'
  BY <1>1 DEF Tardio, UnRecurso, UnPedido
<1>6. Turno'
  <2>1. Turnos' = Turnos
    BY <1>1 DEF Turnos, Uno
  <2>2. cola["exec"] = <<>>
    BY <1>1, CPULibre
  <2> QED BY <2>1, <2>2, <1>1 DEF Tardio, Turno, TurnoCierto, Terminado
<1> QED BY <1>2, <1>4, <1>5, <1>6, VidaIgual DEF Tardio

LEMMA TardioPlanificar ==
  ASSUME Tardio, Siempre', planificar
  PROVE  Tardio'
<1>1. /\ corto = "elegir" /\ corto' = "despachar"
      /\ UNCHANGED <<estado, cola_bloqueados, procesos_en_kernel, con_tabla, caido, sem,
                     sem_exit_proceso, largo, contextos, hilo_cpu, en_io, cola_archivos, en_fs,
                     consola, recogido>>
  BY DEF planificar, pcbs, recursos, kernel, cpu, esperas, consolas
<1>2. cola["ready"] \in Seq(PROCESOS) /\ IsInjective(cola["ready"]) /\ cola["exec"] = <<>>
  BY <1>1, CPULibre DEF Tardio, Siempre, TypeOK, Colas, Lugar
<1>3. PICK s \in IF ALGORITMO = "HRRN" THEN Permutaciones(cola["ready"]) ELSE {cola["ready"]} :
        cola' = [cola EXCEPT !["ready"] = s]
  BY DEF planificar
<1>4. ToSet(s) = ToSet(cola["ready"]) /\ IsInjective(s)
  <2>1. CASE s = cola["ready"]
    BY <2>1, <1>2
  <2>2. CASE s \in Permutaciones(cola["ready"])
    <3>1. PICK f \in Bijection(DOMAIN cola["ready"], DOMAIN cola["ready"]) :
            s = [i \in DOMAIN cola["ready"] |-> cola["ready"][f[i]]]
      BY <2>2 DEF Permutaciones
    <3> QED BY <3>1, <1>2, Reordenar
  <2> QED BY <2>1, <2>2, <1>3
<1>5. cola'["ready"] = s /\ \A c \in Colas \ {"ready"} : cola'[c] = cola[c]
  BY <1>3 DEF Tardio, Siempre, TypeOK, Colas
<1>6. MismaVida
  BY <1>1, <1>5 DEF MismaVida, Colas
<1>7. \A q \in PROCESOS : MismoLugar(q)
  BY <1>1, <1>4, <1>5 DEF MismoLugar, En, EnRecurso, Pendiente, EnPaso, Colas
<1>8. Lugar'
  BY <1>4, <1>5, <1>7, LugarIgual DEF Tardio, Lugar, Colas
<1>9. UnRecurso' /\ UnPedido'
  BY <1>1 DEF Tardio, UnRecurso, UnPedido
<1>10. Turno'
  <2>1. Turnos' = Turnos /\ cola'["exec"] = cola["exec"]
    BY <1>1, <1>5 DEF Turnos, Uno, Colas
  <2> QED BY <2>1, <1>1, <1>2 DEF Tardio, Turno, TurnoCierto, Terminado
<1> QED BY <1>6, <1>8, <1>9, <1>10, VidaIgual DEF Tardio

LEMMA TardioDespachar ==
  ASSUME Tardio, Siempre', pasar_a_cola_exec
  PROVE  Tardio'
<1>1. /\ corto = "despachar" /\ corto' = "cpu"
      /\ UNCHANGED <<cola_bloqueados, procesos_en_kernel, con_tabla, caido, sem,
                     sem_exit_proceso, largo, hilo_cpu, en_io, cola_archivos, en_fs, consola,
                     recogido>>
  BY DEF pasar_a_cola_exec, recursos, kernel, esperas, consolas
<1>2. /\ cola["exec"] = <<>> /\ contextos = <<>> /\ sem["cpu"] = 0
      /\ hilo_cpu.paso \in {"recibir", "revisar"}
  BY <1>1, CPULibre
<1>3. cola["ready"] \in Seq(PROCESOS) /\ cola["ready"] # <<>> /\ IsInjective(cola["ready"])
  BY <1>1, HayReady DEF Tardio, Lugar
<1>4. PICK p \in PROCESOS : p = Head(cola["ready"])
  BY <1>3, Desencolar
<1>5. /\ ToSet(cola["ready"]) = ToSet(squeue_pop(cola["ready"])) \cup {p}
      /\ p \notin ToSet(squeue_pop(cola["ready"])) /\ IsInjective(squeue_pop(cola["ready"]))
  BY <1>3, <1>4, Desencolar
<1>6. Append(<<>>, p) = <<p>> /\ ToSet(<<p>>) = {p} /\ Len(<<p>>) = 1 /\ <<p>> # <<>>
      /\ ToSet(<<>>) = {}
  BY Unitaria, Vacia
<1>7. /\ cola'["ready"] = squeue_pop(cola["ready"]) /\ cola'["exec"] = <<p>>
      /\ cola'["new"] = cola["new"] /\ cola'["exit"] = cola["exit"]
      /\ cola'["block"] = cola["block"]
      /\ \A q \in PROCESOS : estado'[q] = IF q = p THEN "EXEC" ELSE estado[q]
  <2>1. /\ cola' = [cola EXCEPT !["ready"] = squeue_pop(@), !["exec"] = Append(@, p)]
        /\ estado' = [estado EXCEPT ![p] = "EXEC"]
    BY <1>4 DEF pasar_a_cola_exec
  <2> QED BY <2>1, <1>2, <1>6 DEF Tardio, Siempre, TypeOK, Colas
<1>8. /\ \A q : En("ready", q)' <=> En("ready", q) /\ q # p
      /\ \A q : (En("exec", q)' <=> q = p) /\ ~ En("exec", q)
      /\ \A q : En("block", q)' <=> En("block", q)
  BY <1>2, <1>5, <1>6, <1>7 DEF En
<1>9. estado[p] = "READY"
  BY <1>5 DEF Tardio, Lugar, LugarDe, En
<1>10. MismaVida
  BY <1>1, <1>7, <1>9 DEF MismaVida, EnMemoria
<1>11. \A q \in PROCESOS : MismasManos(q)
  BY <1>1 DEF MismasManos, EnRecurso, Pendiente, EnPaso
<1>12. EnManosDeNadie(p) /\ ~ En("block", p)
  BY <1>2, <1>9 DEF Tardio, Lugar, LugarDe, EnManosDeNadie, EnPaso
<1>13. Lugar'
  <2>1. \A q \in PROCESOS : q # p => MismoLugar(q)
    BY <1>7, <1>8, <1>11 DEF MismoLugar, MismasManos
  <2>2. LugarDe(p)'
    BY <1>7, <1>8, <1>11, <1>12 DEF LugarDe, MismasManos, EnManosDeNadie
  <2> QED BY <2>1, <2>2, <1>5, <1>7, LugarSalvo DEF Tardio, Lugar
<1>14. UnRecurso' /\ UnPedido'
  BY <1>1 DEF Tardio, UnRecurso, UnPedido
<1>15. Turno'
  <2>1. Len(contextos') = 1
    <3>1. contextos' = Append(<<>>, [pcb |-> candidato, restan |-> restan[candidato]])
      BY <1>2 DEF pasar_a_cola_exec, ejecutar_proceso
    <3> QED BY <3>1
  <2>2. Turnos' = 1
    BY <2>1, <1>1, <1>2 DEF Turnos, Uno
  <2>3. TurnoCierto'
    BY <2>2 DEF TurnoCierto
  <2>4. hilo_cpu.paso = "revisar" => hilo_cpu.pcb \in PROCESOS /\ Terminado(hilo_cpu.pcb)'
    <3>1. hilo_cpu.paso = "revisar" => hilo_cpu.pcb \in PROCESOS /\ Terminado(hilo_cpu.pcb)
      BY DEF Tardio, Turno, Siempre, YaAdmitidos, Admitidos
    <3> QED BY <3>1, <1>1, <1>7, <1>9 DEF Terminado
  <2> QED BY <2>3, <2>4, <1>1, <1>2, <1>6, <1>7 DEF Tardio, Turno, Terminado
<1> QED BY <1>10, <1>13, <1>14, <1>15, VidaIgual DEF Tardio

-----------------------------------------------------------------------------
(* The thread that talks to the CPU *)

\* A step that moves no process and leaves none in the hands of the thread that
\* blocks processes.
NadieSeMueve ==
  /\ UNCHANGED <<estado, cola, cola_bloqueados, procesos_en_kernel, con_tabla,
                 sem_exit_proceso, largo, en_io, cola_archivos, en_fs, consola, recogido>>
  /\ {hilo_cpu.paso, hilo_cpu'.paso} \subseteq {"recibir", "atender", "revisar"}

LEMMA NadieMovido ==
  ASSUME Tardio, NadieSeMueve
  PROVE  Vida' /\ Lugar' /\ UnRecurso' /\ UnPedido'
<1>1. /\ UNCHANGED <<estado, cola, cola_bloqueados, procesos_en_kernel, con_tabla,
                     sem_exit_proceso, largo, en_io, cola_archivos, en_fs, consola, recogido>>
      /\ hilo_cpu.paso \in {"recibir", "atender", "revisar"}
      /\ hilo_cpu'.paso \in {"recibir", "atender", "revisar"}
  BY DEF NadieSeMueve
<1>2. MismaVida
  BY <1>1 DEF MismaVida
<1>3. \A q \in PROCESOS : MismoLugar(q)
  BY <1>1 DEF MismoLugar, En, EnRecurso, Pendiente, EnPaso
<1>4. Lugar'
  BY <1>1, <1>3, LugarIgual DEF Tardio, Lugar
<1> QED BY <1>1, <1>2, <1>4, VidaIgual DEF Tardio, UnRecurso, UnPedido

LEMMA TardioTomarDeExec ==
  ASSUME Tardio, Siempre', TomarDeExec \/ TomarDeExecVacia
  PROVE  Tardio'
<1>1. TomarDeExec
  <2>1. contextos # <<>> => cola["exec"] # <<>>
    BY DEF Tardio, Turno
  <2> QED BY <2>1 DEF TomarDeExecVacia
<1>2. /\ hilo_cpu.paso = "recibir" /\ cola["exec"] # <<>> /\ cola["exec"] \in Seq(PROCESOS)
      /\ hilo_cpu'.paso = "atender" /\ hilo_cpu'.pcb = Head(cola["exec"])
      /\ UNCHANGED <<cola, sem, corto, contextos, caido>>
  BY <1>1 DEF TomarDeExec, Recibiendo, hilos, kernel, Tardio, Siempre, TypeOK, Colas
<1>3. hilo_cpu'.pcb # NADIE
  BY <1>2, Desencolar, ConstantesValidas
<1>4. NadieSeMueve
  BY <1>1, <1>2 DEF TomarDeExec, NadieSeMueve, pcbs, recursos, kernel, hilos, esperas, consolas
<1>5. Turno'
  <2>1. Turnos' = Turnos
    BY <1>2 DEF Turnos, Uno
  <2> QED BY <2>1, <1>2, <1>3 DEF Tardio, Turno, TurnoCierto
<1> QED BY <1>4, <1>5, NadieMovido DEF Tardio

\* When the CPU returns a context, the process that gets it has the turn and is in
\* no queue but cola_exec.
Volvio(p) ==
  /\ hilo_cpu.paso = "atender" /\ hilo_cpu.pcb = p /\ ~ caido
  /\ cola["exec"] = <<p>> /\ squeue_pop(cola["exec"]) = <<>> /\ estado[p] = "EXEC"
  /\ corto = "cpu" /\ sem["cpu"] = 0 /\ Turnos = 1
  /\ Len(contextos) = 1 /\ Len(Tail(contextos)) = 0 /\ Tail(contextos) = <<>>
  /\ EnManosDeNadie(p) /\ ~ En("ready", p) /\ ~ En("block", p) /\ ~ En("exit", p)

LEMMA AlVolver ==
  ASSUME Tardio, NEW p \in PROCESOS, NEW op, Devuelto(p, op)
  PROVE  Volvio(p)
<1>1. /\ hilo_cpu.paso = "atender" /\ hilo_cpu.pcb = p /\ ~ caido
      /\ Len(contextos) \in Nat \ {0} /\ Len(Tail(contextos)) = Len(contextos) - 1
  BY AlDevolver DEF Tardio
<1>2. Len(contextos) = 1 /\ corto = "cpu" /\ sem["cpu"] = 0 /\ Turnos = 1
  <2>1. sem["cpu"] \in Nat
    BY Numeros DEF Tardio, Siempre
  <2>2. sem["cpu"] + Uno(corto # "cpu") + Len(contextos) + 0 <= 1
    BY <1>1 DEF Tardio, Turno, TurnoCierto, Turnos, Uno
  <2>3. Len(contextos) = 1 /\ corto = "cpu" /\ sem["cpu"] = 0
    BY <2>1, <2>2, <1>1 DEF Uno
  <2> QED BY <2>3, <1>1 DEF Turnos, Uno
<1>3. Tail(contextos) = <<>> /\ contextos # <<>>
  <2>1. PICK t \in Seq([pcb : PROCESOS, restan : 0 .. LARGO]) : t = Tail(contextos)
    BY AlDevolver DEF Tardio
  <2>2. Len(t) = 0
    BY <2>1, <1>1, <1>2
  <2>3. contextos # <<>>
    BY <1>2, Numeros DEF Tardio, Siempre
  <2> QED BY <2>1, <2>2, <2>3, EmptySeq
<1>4. cola["exec"] = <<p>>
  <2>1. cola["exec"] \in Seq(PROCESOS) /\ Len(cola["exec"]) <= 1 /\ cola["exec"] # <<>>
    BY <1>3 DEF Tardio, Siempre, TypeOK, Turno, Colas
  <2>2. PICK e \in PROCESOS : cola["exec"] = <<e>>
    BY <2>1, DeUno
  <2> QED BY <2>2, <1>1, Unitaria DEF Tardio, Turno
<1>5. squeue_pop(cola["exec"]) = <<>> /\ En("exec", p)
  BY <1>4, Unitaria DEF squeue_pop, En
<1>6. LugarDe(p) /\ VidaDe(p)
  BY DEF Tardio, Lugar, Vida
<1>7. estado[p] = "EXEC"
  BY <1>5, <1>6 DEF LugarDe
<1>8. EnManosDeNadie(p) /\ ~ En("ready", p) /\ ~ En("block", p) /\ ~ En("exit", p)
  BY <1>1, <1>6, <1>7 DEF LugarDe, VidaDe, EnManosDeNadie, EnPaso, Terminado
<1> QED BY <1>1, <1>2, <1>3, <1>4, <1>5, <1>7, <1>8 DEF Volvio

LEMMA UnTurno ==
  ASSUME Len(contextos') = 0, sem'["cpu"] = 1, corto' = "cpu",
         hilo_cpu'.paso \in {"recibir", "revisar"}
  PROVE  Turnos' = 1
BY DEF Turnos, Uno

\* The process leaves the CPU and cpu_liberada is posted.
LEMMA TurnoDevuelto ==
  ASSUME Tardio, NEW p \in PROCESOS, Volvio(p), cola'["exec"] = <<>>, contextos' = Tail(contextos),
         sem'["cpu"] = sem["cpu"] + 1, corto' = corto,
         \/ hilo_cpu' = Recibiendo
         \/ hilo_cpu'.paso = "revisar" /\ hilo_cpu'.pcb \in PROCESOS /\ Terminado(hilo_cpu.pcb)'
  PROVE  Turno'
<1>1. /\ sem'["cpu"] = 1 /\ corto' = "cpu" /\ contextos' = <<>> /\ Len(contextos') = 0
      /\ Len(cola'["exec"]) = 0
  BY DEF Volvio
<1>2. hilo_cpu'.paso \in {"recibir", "revisar"} /\ (hilo_cpu'.paso = "recibir" <=> hilo_cpu'.pcb = NADIE)
  BY ConstantesValidas DEF Recibiendo
<1>3. Turnos' = 1
  BY <1>1, <1>2, UnTurno
<1>4. hilo_cpu'.paso = "revisar" => Terminado(hilo_cpu.pcb)'
  BY DEF Recibiendo
<1> QED BY <1>1, <1>2, <1>3, <1>4 DEF Turno, TurnoCierto

\* The process keeps the CPU, or the turn is lost.
LEMMA TurnoEnCPU ==
  ASSUME Tardio, NEW p \in PROCESOS, Volvio(p), cola'["exec"] = cola["exec"],
         sem'["cpu"] = sem["cpu"], corto' = corto, hilo_cpu' = Recibiendo,
         Len(contextos') = 1 \/ (Len(contextos') = 0 /\ "F_READ_FUERA" \in OPERACIONES)
  PROVE  Turno'
<1>1. /\ sem'["cpu"] = 0 /\ corto' = "cpu" /\ cola'["exec"] = <<p>> /\ Len(<<p>>) = 1
      /\ <<p>> # <<>> /\ hilo_cpu'.paso = "recibir" /\ hilo_cpu'.pcb = NADIE
  BY Unitaria DEF Volvio, Recibiendo
<1>2. Turnos' = Len(contextos') /\ Len(contextos') \in {0, 1}
  BY <1>1 DEF Turnos, Uno
<1>3. TurnoCierto'
  BY <1>2 DEF TurnoCierto
<1> QED BY <1>1, <1>3 DEF Turno

\* A request that moves nobody.
LEMMA EnElLugar ==
  ASSUME Tardio, Siempre', NEW p \in PROCESOS, NEW op, Devuelto(p, op),
         UNCHANGED <<estado, motivo, cola, cola_bloqueados, kernel, sem, sem_exit_proceso, hilos,
                     esperas, consolas>>,
         \/ seguir_ejecutando(p)
         \/ /\ contextos' = Tail(contextos) /\ hilo_cpu' = Recibiendo
            /\ "F_READ_FUERA" \in OPERACIONES
  PROVE  Tardio'
<1>1. Volvio(p)
  BY AlVolver
<1>2. UNCHANGED <<estado, cola, cola_bloqueados, procesos_en_kernel, con_tabla, caido, sem,
                  sem_exit_proceso, largo, corto, en_io, cola_archivos, en_fs, consola, recogido>>
  BY DEF kernel, hilos, esperas, consolas
<1>3. hilo_cpu' = Recibiendo
  BY DEF seguir_ejecutando
<1>4. Len(contextos') = 1 \/ (Len(contextos') = 0 /\ "F_READ_FUERA" \in OPERACIONES)
  BY <1>1, AlSeguir DEF Volvio, Tardio
<1>5. Turno'
  BY <1>1, <1>2, <1>3, <1>4, TurnoEnCPU
<1>6. NadieSeMueve
  BY <1>1, <1>2, <1>3 DEF NadieSeMueve, Volvio, Recibiendo
<1> QED BY <1>5, <1>6, NadieMovido DEF Tardio

LEMMA TardioEnElLugar ==
  ASSUME Tardio, Siempre', WaitConcedido \/ SignalLibera \/ ProcesarYSeguir \/ TurnoPerdido
  PROVE  Tardio'
<1>1. CASE WaitConcedido
  BY <1>1, EnElLugar DEF WaitConcedido
<1>2. CASE SignalLibera
  BY <1>2, EnElLugar DEF SignalLibera
<1>3. CASE ProcesarYSeguir
  BY <1>3, EnElLugar DEF ProcesarYSeguir, recursos
<1>4. CASE TurnoPerdido
  <2>1. PICK p \in PROCESOS, op \in {"F_READ_FUERA", "CREATE_SEGMENT"} :
          /\ Devuelto(p, op)
          /\ op = "CREATE_SEGMENT" => estado[p] # "EXEC"
          /\ contextos' = Tail(contextos) /\ hilo_cpu' = Recibiendo
          /\ UNCHANGED <<estado, motivo, cola, recursos, kernel, sem, sem_exit_proceso, hilos,
                         esperas, consolas>>
    BY <1>4 DEF TurnoPerdido
  <2>2. op = "F_READ_FUERA" /\ op \in OPERACIONES
    BY <2>1, AlVolver DEF Volvio, Devuelto
  <2> QED BY <2>1, <2>2, EnElLugar DEF recursos
<1> QED BY <1>1, <1>2, <1>3, <1>4

LEMMA TardioRevisar ==
  ASSUME Tardio, Siempre', RevisarEstado \/ RevisarEnExec
  PROVE  Tardio'
<1>1. RevisarEstado
  <2>1. hilo_cpu.paso = "revisar" => Terminado(hilo_cpu.pcb)
    BY DEF Tardio, Turno
  <2> QED BY <2>1 DEF RevisarEnExec, Terminado
<1>2. /\ hilo_cpu.paso = "revisar" /\ hilo_cpu'.paso = "recibir" /\ hilo_cpu'.pcb = NADIE
      /\ UNCHANGED <<cola, sem, corto, contextos>> /\ ~ caido
  BY <1>1 DEF RevisarEstado, Recibiendo, hilos
<1>3. NadieSeMueve
  BY <1>1, <1>2 DEF RevisarEstado, NadieSeMueve, pcbs, recursos, hilos, esperas, consolas
<1>4. Turno'
  <2>1. Turnos' = Turnos
    BY <1>2 DEF Turnos, Uno
  <2> QED BY <2>1, <1>2 DEF Tardio, Turno, TurnoCierto
<1> QED BY <1>3, <1>4, NadieMovido DEF Tardio

\* The process that leaves the CPU, other than to READY.
LEMMA DejaCPU ==
  ASSUME Tardio, NEW p \in PROCESOS, Volvio(p), cola'["ready"] = cola["ready"],
         cola'["exec"] = <<>>, IsInjective(cola'["block"]),
         hilo_cpu'.paso \in {"recibir", "revisar"}, UNCHANGED <<cola_archivos, en_fs>>,
         estado'[p] \notin {"READY", "EXEC"},
         En("block", p)' <=> estado'[p] = "BLOCK", EnRecurso(p)' <=> estado'[p] = "BLOCK_RECURSO",
         p \in en_io' => estado'[p] = "BLOCK",
         \A q \in PROCESOS : q # p => /\ estado'[q] = estado[q]
                                      /\ En("block", q)' <=> En("block", q)
                                      /\ EnRecurso(q)' <=> EnRecurso(q)
                                      /\ q \in en_io' <=> q \in en_io
  PROVE  Lugar'
<1>1. \A q \in PROCESOS : (En("exec", q) <=> q = p) /\ ~ En("exec", q)'
  BY Unitaria, Vacia DEF Volvio, En
<1>2. \A q \in PROCESOS : /\ En("ready", q)' <=> En("ready", q)
                          /\ Pendiente(q)' <=> Pendiente(q)
  BY DEF En, Pendiente
<1>3. \A q \in PROCESOS : /\ ~ EnPaso("quitar", q) /\ ~ EnPaso("quitar", q)'
                          /\ ~ EnPaso("bloquear", q) /\ ~ EnPaso("bloquear", q)'
                          /\ ~ EnPaso("encolar", q) /\ ~ EnPaso("encolar", q)'
  BY DEF EnPaso, Volvio
<1>4. LugarDe(p)'
  BY <1>1, <1>2, <1>3 DEF LugarDe, Volvio, EnManosDeNadie
<1>5. \A q \in PROCESOS : q # p => MismoLugar(q)
  BY <1>1, <1>2, <1>3 DEF MismoLugar
<1> QED BY <1>4, <1>5, LugarSalvo DEF Tardio, Lugar

LEMMA TardioYield ==
  ASSUME Tardio, Siempre', ProcesarYield
  PROVE  Tardio'
<1>1. PICK p \in PROCESOS :
        /\ Devuelto(p, "YIELD") /\ pasar_a_cola_ready(p, FALSE, {"cpu"})
        /\ contextos' = Tail(contextos) /\ hilo_cpu' = Recibiendo
  BY DEF ProcesarYield
<1>2. UNCHANGED <<cola_bloqueados, procesos_en_kernel, con_tabla, sem_exit_proceso, largo, corto,
                  en_io, cola_archivos, en_fs, consola, recogido>>
  BY DEF ProcesarYield, recursos, hilos, esperas, consolas
<1>3. Volvio(p)
  BY <1>1, AlVolver
<1>4. Listo(p, {"cpu"})
  BY <1>1, <1>3, AReady DEF Volvio
<1>5. /\ \A q \in PROCESOS : estado'[q] = IF q = p THEN "READY" ELSE estado[q]
      /\ sem'["cpu"] = sem["cpu"] + 1
      /\ cola'["exit"] = cola["exit"] /\ cola'["exec"] = <<>> /\ cola'["new"] = cola["new"]
  BY <1>3, <1>4 DEF Listo, Volvio
<1>6. MismaVida
  BY <1>2, <1>3, <1>5 DEF MismaVida, Volvio, EnMemoria
<1>7. /\ EnManosDeNadie(p)' /\ \A q \in PROCESOS : MismasManos(q)
  BY <1>1, <1>2, <1>3
    DEF EnManosDeNadie, MismasManos, EnRecurso, Pendiente, EnPaso, Volvio, Recibiendo
<1>8. Lugar'
  BY <1>3, <1>4, <1>7, LugarListo DEF Volvio
<1>9. UnRecurso' /\ UnPedido'
  BY <1>2 DEF Tardio, UnRecurso, UnPedido
<1>10. Turno'
  BY <1>1, <1>2, <1>3, <1>5, TurnoDevuelto
<1> QED BY <1>6, <1>8, <1>9, <1>10, VidaIgual DEF Tardio

LEMMA TardioIO ==
  ASSUME Tardio, Siempre', ProcesarIO
  PROVE  Tardio'
<1>1. PICK p \in PROCESOS :
        /\ Devuelto(p, "IO") /\ contextos' = Tail(contextos) /\ hilo_cpu' = Recibiendo
        /\ cola' = [cola EXCEPT !["exec"] = squeue_pop(@), !["block"] = Append(@, p)]
        /\ estado' = [estado EXCEPT ![p] = "BLOCK"]
        /\ en_io' = en_io \cup {p}
        /\ sem_post({"cpu"})
  BY DEF ProcesarIO
<1>2. UNCHANGED <<cola_bloqueados, procesos_en_kernel, con_tabla, sem_exit_proceso, largo, corto,
                  cola_archivos, en_fs, consola, recogido>>
  BY DEF ProcesarIO, recursos, kernel, hilos, consolas
<1>3. Volvio(p)
  BY <1>1, AlVolver
<1>4. \A q \in PROCESOS : estado'[q] = IF q = p THEN "BLOCK" ELSE estado[q]
  BY <1>1 DEF Tardio, Siempre, TypeOK
<1>5. sem'["cpu"] = sem["cpu"] + 1
  BY <1>1 DEF sem_post, Semaforos, Tardio, Siempre, TypeOK
<1>6. PICK b \in Seq(PROCESOS) : b = Append(cola["block"], p) /\ IsInjective(b)
                                 /\ ToSet(b) = ToSet(cola["block"]) \cup {p}
  <2>1. cola["block"] \in Seq(PROCESOS) /\ IsInjective(cola["block"]) /\ p \notin ToSet(cola["block"])
    BY <1>3 DEF Tardio, Siempre, TypeOK, Colas, Lugar, Volvio, En
  <2>2. /\ Append(cola["block"], p) \in Seq(PROCESOS) /\ IsInjective(Append(cola["block"], p))
        /\ ToSet(Append(cola["block"], p)) = ToSet(cola["block"]) \cup {p}
    BY <2>1, Agregar
  <2> QED BY <2>2
<1>7. /\ cola'["exit"] = cola["exit"] /\ cola'["exec"] = <<>> /\ cola'["new"] = cola["new"]
      /\ cola'["ready"] = cola["ready"] /\ cola'["block"] = b
  <2>1. cola' = [cola EXCEPT !["exec"] = <<>>, !["block"] = b]
    BY <1>1, <1>3, <1>6 DEF Volvio
  <2> QED BY <2>1 DEF Tardio, Siempre, TypeOK, Colas
<1>8. MismaVida
  BY <1>2, <1>3, <1>4, <1>7 DEF MismaVida, Volvio, EnMemoria
<1>9. Lugar'
  <2>1. \A q \in PROCESOS : En("block", q)' <=> En("block", q) \/ q = p
    BY <1>6, <1>7 DEF En
  <2>2. \A q \in PROCESOS : EnRecurso(q)' <=> EnRecurso(q)
    BY <1>2 DEF EnRecurso
  <2>3. ~ EnRecurso(p)
    BY <1>3 DEF Volvio, EnManosDeNadie
  <2>4. \A q \in PROCESOS : q # p => (q \in en_io' <=> q \in en_io)
    BY <1>1
  <2>5. estado'[p] = "BLOCK" /\ hilo_cpu'.paso = "recibir" /\ UNCHANGED <<cola_archivos, en_fs>>
    BY <1>1, <1>2, <1>4 DEF Recibiendo
  <2> QED BY <2>1, <2>2, <2>3, <2>4, <2>5, <1>3, <1>4, <1>6, <1>7, DejaCPU
<1>10. UnRecurso' /\ UnPedido'
  BY <1>2 DEF Tardio, UnRecurso, UnPedido
<1>11. Turno'
  BY <1>1, <1>2, <1>3, <1>5, <1>7, TurnoDevuelto
<1> QED BY <1>8, <1>9, <1>10, <1>11, VidaIgual DEF Tardio

LEMMA TardioWaitBloqueado ==
  ASSUME Tardio, Siempre', WaitBloqueado
  PROVE  Tardio'
<1>1. PICK p \in PROCESOS, r \in RECURSOS :
        /\ Devuelto(p, "WAIT") /\ contextos' = Tail(contextos) /\ hilo_cpu' = Recibiendo
        /\ cola' = [cola EXCEPT !["exec"] = squeue_pop(@)]
        /\ estado' = [estado EXCEPT ![p] = "BLOCK_RECURSO"]
        /\ cola_bloqueados' = [cola_bloqueados EXCEPT ![r] = Append(@, p)]
        /\ sem_post({"cpu"})
  BY DEF WaitBloqueado
<1>2. UNCHANGED <<procesos_en_kernel, con_tabla, sem_exit_proceso, largo, corto, en_io,
                  cola_archivos, en_fs, consola, recogido>>
  BY DEF WaitBloqueado, kernel, hilos, esperas, consolas
<1>3. Volvio(p)
  BY <1>1, AlVolver
<1>4. \A q \in PROCESOS : estado'[q] = IF q = p THEN "BLOCK_RECURSO" ELSE estado[q]
  BY <1>1 DEF Tardio, Siempre, TypeOK
<1>5. sem'["cpu"] = sem["cpu"] + 1
  BY <1>1 DEF sem_post, Semaforos, Tardio, Siempre, TypeOK
<1>6. /\ cola'["exit"] = cola["exit"] /\ cola'["exec"] = <<>> /\ cola'["new"] = cola["new"]
      /\ cola'["ready"] = cola["ready"] /\ cola'["block"] = cola["block"]
  <2>1. cola' = [cola EXCEPT !["exec"] = <<>>]
    BY <1>1, <1>3 DEF Volvio
  <2> QED BY <2>1 DEF Tardio, Siempre, TypeOK, Colas
<1>7. MismaVida
  BY <1>2, <1>3, <1>4, <1>6 DEF MismaVida, Volvio, EnMemoria
<1>8. \A t \in RECURSOS : p \notin ToSet(cola_bloqueados[t])
  BY <1>3 DEF Volvio, EnManosDeNadie, EnRecurso
<1>9. PICK s \in Seq(PROCESOS) : s = Append(cola_bloqueados[r], p) /\ IsInjective(s)
                                 /\ ToSet(s) = ToSet(cola_bloqueados[r]) \cup {p}
  <2>1. cola_bloqueados[r] \in Seq(PROCESOS) /\ IsInjective(cola_bloqueados[r])
    BY DEF Tardio, Siempre, TypeOK, UnRecurso
  <2>2. /\ Append(cola_bloqueados[r], p) \in Seq(PROCESOS)
        /\ IsInjective(Append(cola_bloqueados[r], p))
        /\ ToSet(Append(cola_bloqueados[r], p)) = ToSet(cola_bloqueados[r]) \cup {p}
    BY <2>1, <1>8, Agregar
  <2> QED BY <2>2
<1>10. \A t \in RECURSOS : cola_bloqueados'[t] = IF t = r THEN s ELSE cola_bloqueados[t]
  <2>1. cola_bloqueados' = [cola_bloqueados EXCEPT ![r] = s]
    BY <1>1, <1>9
  <2> QED BY <2>1 DEF Tardio, Siempre, TypeOK
<1>11. \A t \in RECURSOS : \A q : q \in ToSet(cola_bloqueados'[t]) <=>
                                    q \in ToSet(cola_bloqueados[t]) \/ (t = r /\ q = p)
  BY <1>9, <1>10
<1>12. Lugar'
  <2>1. \A q \in PROCESOS : EnRecurso(q)' <=> EnRecurso(q) \/ q = p
    BY <1>11 DEF EnRecurso
  <2>2. \A q \in PROCESOS : En("block", q)' <=> En("block", q)
    BY <1>6 DEF En
  <2>3. IsInjective(cola'["block"])
    BY <1>6 DEF Tardio, Lugar
  <2>4. ~ En("block", p) /\ p \notin en_io'
    BY <1>2, <1>3 DEF Volvio, EnManosDeNadie
  <2>5. hilo_cpu'.paso = "recibir" /\ UNCHANGED <<cola_archivos, en_fs>>
    BY <1>1, <1>2 DEF Recibiendo
  <2>6. estado'[p] = "BLOCK_RECURSO" /\ \A q \in PROCESOS : q # p => estado'[q] = estado[q]
    BY <1>4
  <2>7. \A q \in PROCESOS : q \in en_io' <=> q \in en_io
    BY <1>2
  <2> QED BY <2>1, <2>2, <2>3, <2>4, <2>5, <2>6, <2>7, <1>3, <1>6, DejaCPU
<1>13. UnRecurso'
  <2>1. \A t \in RECURSOS : IsInjective(cola_bloqueados'[t])
    BY <1>9, <1>10 DEF Tardio, UnRecurso
  <2>2. ASSUME NEW q \in PROCESOS, NEW t \in RECURSOS, NEW u \in RECURSOS,
               q \in ToSet(cola_bloqueados'[t]), q \in ToSet(cola_bloqueados'[u])
        PROVE  t = u
    <3>1. CASE q = p
      BY <3>1, <2>2, <1>8, <1>11
    <3>2. CASE q # p
      BY <3>2, <2>2, <1>11 DEF Tardio, UnRecurso
    <3> QED BY <3>1, <3>2
  <2> QED BY <2>1, <2>2 DEF UnRecurso
<1>14. UnPedido'
  BY <1>2 DEF Tardio, UnPedido
<1>15. Turno'
  BY <1>1, <1>2, <1>3, <1>5, <1>6, TurnoDevuelto
<1> QED BY <1>7, <1>12, <1>13, <1>14, <1>15, VidaIgual DEF Tardio

LEMMA TardioSignalDespierta ==
  ASSUME Tardio, Siempre', SignalDespierta
  PROVE  Tardio'
<1>1. PICK p \in PROCESOS, r \in RECURSOS :
        /\ Devuelto(p, "SIGNAL") /\ instancias[r] < 0
        /\ pasar_a_cola_ready(Head(cola_bloqueados[r]), TRUE, {})
        /\ cola_bloqueados' = [cola_bloqueados EXCEPT ![r] = squeue_pop(@)]
        /\ seguir_ejecutando(p)
  BY DEF SignalDespierta
<1>2. UNCHANGED <<procesos_en_kernel, con_tabla, sem_exit_proceso, largo, corto, en_io,
                  cola_archivos, en_fs, consola, recogido>>
  BY DEF SignalDespierta, kernel, hilos, esperas, consolas
<1>3. Volvio(p)
  BY <1>1, AlVolver
<1>4. PICK s \in Seq(PROCESOS) : s = cola_bloqueados[r]
  BY DEF Tardio, Siempre, TypeOK
<1>5. s # <<>> /\ IsInjective(s)
  <2>1. IsInjective(s) /\ Len(s) = -instancias[r] /\ instancias[r] \in Int
    BY <1>1, <1>4 DEF Tardio, UnRecurso, Siempre, RecursosContados, TypeOK
  <2> QED BY <2>1, <1>1, EmptySeq
<1>6. PICK h \in PROCESOS : h = Head(s)
  BY <1>5, Desencolar
<1>7. /\ squeue_pop(s) \in Seq(PROCESOS) /\ IsInjective(squeue_pop(s))
      /\ h \in ToSet(s)
      /\ ToSet(s) = ToSet(squeue_pop(s)) \cup {h} /\ h \notin ToSet(squeue_pop(s))
  BY <1>5, <1>6, Desencolar
<1>8. EnRecurso(h)
  BY <1>4, <1>7 DEF EnRecurso
<1>9. estado[h] = "BLOCK_RECURSO" /\ h # p
  <2>1. estado[h] = "BLOCK_RECURSO"
    BY <1>8 DEF Tardio, Lugar, LugarDe
  <2> QED BY <2>1, <1>3 DEF Volvio
<1>10. Listo(h, {})
  BY <1>1, <1>4, <1>6, <1>9, AReady
<1>11. /\ \A q \in PROCESOS : estado'[q] = IF q = h THEN "READY" ELSE estado[q]
       /\ sem'["cpu"] = sem["cpu"]
       /\ cola'["exit"] = cola["exit"] /\ cola'["exec"] = cola["exec"] /\ cola'["new"] = cola["new"]
  BY <1>9, <1>10 DEF Listo
<1>12. MismaVida
  BY <1>2, <1>9, <1>11 DEF MismaVida, EnMemoria
<1>13. hilo_cpu' = Recibiendo /\ Len(contextos') = 1
  BY <1>1, <1>3, AlSeguir DEF Volvio, Tardio
<1>14. \A t \in RECURSOS : cola_bloqueados'[t] = IF t = r THEN squeue_pop(s) ELSE cola_bloqueados[t]
  <2>1. PICK x \in Seq(PROCESOS) : x = squeue_pop(s)
    BY <1>7
  <2>2. cola_bloqueados' = [cola_bloqueados EXCEPT ![r] = x]
    BY <1>1, <1>4, <2>1
  <2> QED BY <2>1, <2>2 DEF Tardio, Siempre, TypeOK
<1>15. \A t \in RECURSOS : \A q : q \in ToSet(cola_bloqueados'[t]) <=>
                                    q \in ToSet(cola_bloqueados[t]) /\ q # h
  <2>1. \A t \in RECURSOS : h \in ToSet(cola_bloqueados[t]) => t = r
    BY <1>4, <1>7 DEF Tardio, UnRecurso
  <2> QED BY <2>1, <1>4, <1>7, <1>14
<1>16. Lugar'
  <2>1. \A q : EnRecurso(q)' <=> EnRecurso(q) /\ q # h
    BY <1>15 DEF EnRecurso
  <2>2. \A q : ~ EnPaso("quitar", q) /\ ~ EnPaso("bloquear", q) /\ ~ EnPaso("encolar", q)
    BY <1>3 DEF EnPaso, Volvio
  <2>3. \A q : ~ EnPaso("quitar", q)' /\ ~ EnPaso("bloquear", q)' /\ ~ EnPaso("encolar", q)'
    BY <1>13 DEF EnPaso, Recibiendo
  <2>4. \A q : (Pendiente(q)' <=> Pendiente(q)) /\ (q \in en_io' <=> q \in en_io)
    BY <1>2 DEF Pendiente
  <2>5. h \notin en_io /\ ~ Pendiente(h)
    BY <2>2, <1>9 DEF Tardio, Lugar, LugarDe
  <2>6. EnManosDeNadie(h)'
    BY <2>1, <2>3, <2>4, <2>5 DEF EnManosDeNadie
  <2>7. \A q \in PROCESOS : q # h => MismasManos(q)
    BY <2>1, <2>2, <2>3, <2>4 DEF MismasManos
  <2> QED BY <2>6, <2>7, <1>9, <1>10, LugarListo
<1>17. UnRecurso'
  <2>1. \A t \in RECURSOS : IsInjective(cola_bloqueados'[t])
    BY <1>7, <1>14 DEF Tardio, UnRecurso
  <2> QED BY <2>1, <1>15 DEF Tardio, UnRecurso
<1>18. UnPedido'
  BY <1>2 DEF Tardio, UnPedido
<1>19. Turno'
  BY <1>2, <1>3, <1>11, <1>13, TurnoEnCPU
<1> QED BY <1>12, <1>16, <1>17, <1>18, <1>19, VidaIgual DEF Tardio

LEMMA TardioFin ==
  ASSUME Tardio, Siempre', ProcesarFin
  PROVE  Tardio'
<1>1. PICK p \in PROCESOS, op \in Terminales :
        /\ Devuelto(p, op) /\ contextos' = Tail(contextos)
        /\ con_tabla' = con_tabla \ {p}
        /\ cola' = [cola EXCEPT !["exec"] = squeue_pop(@), !["exit"] = Append(@, p)]
        /\ estado' = [estado EXCEPT ![p] = "EXIT"]
        /\ sem_exit_proceso' = sem_exit_proceso \cup {p}
        /\ sem_post({"cpu"})
        /\ hilo_cpu' = IF op = "OUT_OF_MEMORY" THEN [paso |-> "revisar", pcb |-> p]
                                               ELSE Recibiendo
  BY DEF ProcesarFin, pasar_a_cola_exit, solicitar_eliminar_tabla_de_segmento
<1>2. UNCHANGED <<cola_bloqueados, procesos_en_kernel, largo, corto, en_io, cola_archivos, en_fs,
                  consola, recogido>>
  BY DEF ProcesarFin, recursos, hilos, esperas, consolas
<1>3. Volvio(p)
  BY <1>1, AlVolver
<1>4. \A q \in PROCESOS : estado'[q] = IF q = p THEN "EXIT" ELSE estado[q]
  BY <1>1 DEF Tardio, Siempre, TypeOK
<1>5. sem'["cpu"] = sem["cpu"] + 1
  BY <1>1 DEF sem_post, Semaforos, Tardio, Siempre, TypeOK
<1>6. /\ estado[p] = "EXEC" /\ ~ Terminado(p) /\ p \notin sem_exit_proceso
      /\ p \notin ToSet(cola["exit"]) /\ \A q \in PROCESOS : recogido[q] # p
  BY <1>3 DEF Volvio, En, Terminado, Tardio, Vida, VidaDe
<1>7. PICK y \in Seq(PROCESOS) : /\ y = Append(cola["exit"], p) /\ IsInjective(y)
                                 /\ ToSet(y) = ToSet(cola["exit"]) \cup {p}
                                 /\ Len(y) = Len(cola["exit"]) + 1
  <2>1. cola["exit"] \in Seq(PROCESOS) /\ IsInjective(cola["exit"])
    BY DEF Tardio, Siempre, TypeOK, Colas, Vida
  <2> QED BY <2>1, <1>6, Agregar
<1>8. /\ cola'["exit"] = y /\ cola'["exec"] = <<>> /\ cola'["new"] = cola["new"]
      /\ cola'["ready"] = cola["ready"] /\ cola'["block"] = cola["block"]
  <2>1. cola' = [cola EXCEPT !["exec"] = <<>>, !["exit"] = y]
    BY <1>1, <1>3, <1>7 DEF Volvio
  <2> QED BY <2>1 DEF Tardio, Siempre, TypeOK, Colas
<1>9. hilo_cpu'.paso \in {"recibir", "revisar"}
      /\ (hilo_cpu' = Recibiendo \/ (hilo_cpu'.paso = "revisar" /\ hilo_cpu'.pcb = p))
  BY <1>1 DEF Recibiendo
<1>10. Vida'
  <2>1. ExitContados'
    <3>1. sem_exit_proceso \in SUBSET PROCESOS
      BY DEF Tardio, Siempre, TypeOK
    <3>2. Cardinality(sem_exit_proceso') = Cardinality(sem_exit_proceso) + 1
      BY <3>1, <1>1, <1>6, UnoMas
    <3> QED BY <3>2, <1>7, <1>8 DEF Tardio, Vida, ExitContados
  <2>2. \A q : En("exit", q)' <=> En("exit", q) \/ q = p
    BY <1>7, <1>8 DEF En
  <2>3. ASSUME NEW q \in PROCESOS
        PROVE  VidaDe(q)'
    <3>1. VidaDe(q)
      BY DEF Tardio, Vida
    <3>2. CASE q = p
      <4>1. /\ estado'[q] = "EXIT" /\ En("exit", q)' /\ q \notin con_tabla'
            /\ \A x \in PROCESOS : recogido'[x] # q
        BY <3>2, <2>2, <1>1, <1>2, <1>4, <1>6
      <4>2. consola[q] \in {"anuncia", "espera"}
        BY <3>1, <3>2, <1>6 DEF VidaDe, Terminado, Tardio, Siempre, TypeOK
      <4>3. recogido'[q] = NADIE
        BY <4>2, <3>1, <1>2 DEF VidaDe
      <4> QED BY <4>1, <4>2, <4>3, <1>2 DEF VidaDe, Terminado, EnMemoria
    <3>3. CASE q # p
      <4>1. estado'[q] = estado[q] /\ (q \in sem_exit_proceso' <=> q \in sem_exit_proceso)
            /\ (q \in con_tabla' <=> q \in con_tabla) /\ (En("exit", q)' <=> En("exit", q))
        BY <3>3, <2>2, <1>1, <1>4
      <4> QED BY <4>1, <3>1, <1>2, <1>8 DEF VidaDe, Terminado
    <3> QED BY <3>2, <3>3
  <2> QED BY <2>1, <2>3, <1>7, <1>8 DEF Vida
<1>11. Lugar'
  <2>1. \A q \in PROCESOS : /\ En("block", q)' <=> En("block", q)
                            /\ EnRecurso(q)' <=> EnRecurso(q)
                            /\ q \in en_io' <=> q \in en_io
    BY <1>2, <1>8 DEF En, EnRecurso
  <2>2. ~ En("block", p) /\ ~ EnRecurso(p) /\ p \notin en_io
    BY <1>3 DEF Volvio, EnManosDeNadie
  <2>3. IsInjective(cola'["block"])
    BY <1>8 DEF Tardio, Lugar
  <2>4. estado'[p] = "EXIT" /\ (\A q \in PROCESOS : q # p => estado'[q] = estado[q])
        /\ UNCHANGED <<cola_archivos, en_fs>>
    BY <1>2, <1>4
  <2> QED BY <2>1, <2>2, <2>3, <2>4, <1>3, <1>8, <1>9, DejaCPU
<1>12. UnRecurso' /\ UnPedido'
  BY <1>2 DEF Tardio, UnRecurso, UnPedido
<1>13. Turno'
  <2>1. hilo_cpu.pcb = p /\ Terminado(p)'
    BY <1>3, <1>4 DEF Volvio, Terminado
  <2>2. hilo_cpu'.paso = "revisar" => Terminado(hilo_cpu.pcb)'
    BY <2>1, <1>1, <1>4 DEF Recibiendo, Terminado
  <2> QED BY <2>2, <1>1, <1>2, <1>3, <1>5, <1>8, <1>9, TurnoDevuelto
<1> QED BY <1>10, <1>11, <1>12, <1>13 DEF Tardio

-----------------------------------------------------------------------------
(* The requests to the file system *)

\* While it blocks a process the thread has the turn of the CPU.
LEMMA TurnoDelHilo ==
  ASSUME Tardio, hilo_cpu.paso \in {"quitar", "bloquear", "encolar"}
  PROVE  /\ contextos = <<>> /\ Len(contextos) = 0 /\ corto = "cpu" /\ sem["cpu"] = 0
         /\ Turnos = 1 /\ hilo_cpu.pcb \in PROCESOS
<1>1. /\ sem["cpu"] \in Nat /\ Len(contextos) \in Nat
      /\ contextos = <<>> <=> Len(contextos) = 0
  BY Numeros DEF Tardio, Siempre
<1>2. sem["cpu"] + Uno(corto # "cpu") + Len(contextos) + 1 <= 1
  BY DEF Tardio, Turno, TurnoCierto, Turnos, Uno
<1>3. sem["cpu"] = 0 /\ Len(contextos) = 0 /\ corto = "cpu"
  BY <1>1, <1>2 DEF Uno
<1>4. hilo_cpu.pcb \in PROCESOS
  BY DEF Tardio, Siempre, YaAdmitidos, Admitidos
<1>5. Turnos = 1
  BY <1>3 DEF Turnos, Uno
<1> QED BY <1>1, <1>3, <1>4, <1>5

LEMMA TardioPedirFS ==
  ASSUME Tardio, Siempre', PedirFS
  PROVE  Tardio'
<1>1. PICK p \in PROCESOS, op \in {"F_READ", "F_TRUNCATE"} :
        /\ Devuelto(p, op) /\ contextos' = Tail(contextos)
        /\ cola_archivos' = Append(cola_archivos, [pcb |-> p, op |-> op])
        /\ hilo_cpu' = [paso |-> "quitar", pcb |-> p]
  BY DEF PedirFS
<1>2. UNCHANGED <<estado, cola, cola_bloqueados, procesos_en_kernel, con_tabla, caido, sem,
                  sem_exit_proceso, largo, corto, en_io, en_fs, consola, recogido>>
  BY DEF PedirFS, recursos, kernel, hilos, consolas
<1>3. Volvio(p)
  BY <1>1, AlVolver
<1>4. /\ contextos' = <<>> /\ Len(contextos') = 0
      /\ hilo_cpu'.paso = "quitar" /\ hilo_cpu'.pcb = p /\ p # NADIE
  BY <1>1, <1>3, ConstantesValidas DEF Volvio
<1> DEFINE P == [pcb : PROCESOS, op : {"F_READ", "F_TRUNCATE"}]
<1>5. PICK a \in Seq(P) : a = cola_archivos
  BY DEF Tardio, Siempre, TypeOK
<1>6. PICK e \in P : e = [pcb |-> p, op |-> op]
  OBVIOUS
<1>7. e.pcb = p /\ cola_archivos' = Append(a, e)
  BY <1>1, <1>5, <1>6
<1> HIDE DEF P
<1>8. /\ ToSet(Append(a, e)) = ToSet(a) \cup {e}
      /\ DOMAIN a = 1 .. Len(a) /\ DOMAIN Append(a, e) = 1 .. Len(a) + 1 /\ Len(a) \in Nat
      /\ \A i \in 1 .. Len(a) : Append(a, e)[i] = a[i]
      /\ Append(a, e)[Len(a) + 1] = e
  BY Agregar, AppendProperties, LenProperties
<1>9. (\A d \in ToSet(a) : d.pcb # p) /\ (\A d \in ToSet(en_fs) : d.pcb # p)
  BY <1>3, <1>5 DEF Volvio, EnManosDeNadie, Pendiente
<1>10. \A q : Pendiente(q)' <=> Pendiente(q) \/ q = p
  BY <1>2, <1>5, <1>7, <1>8 DEF Pendiente
<1>11. MismaVida
  BY <1>2 DEF MismaVida
<1>12. Lugar'
  <2>1. \A q \in PROCESOS : /\ ~ EnPaso("quitar", q) /\ (EnPaso("quitar", q)' <=> q = p)
                            /\ ~ EnPaso("bloquear", q) /\ ~ EnPaso("bloquear", q)'
                            /\ ~ EnPaso("encolar", q) /\ ~ EnPaso("encolar", q)'
    BY <1>3, <1>4 DEF EnPaso, Volvio
  <2>2. \A q \in PROCESOS : q # p => MismoLugar(q)
    BY <2>1, <1>2, <1>10 DEF MismoLugar, En, EnRecurso
  <2>3. LugarDe(p)'
    <3>1. En("exec", p)' /\ ~ En("ready", p)' /\ ~ En("block", p)' /\ ~ EnRecurso(p)'
      BY <1>2, <1>3, Unitaria DEF Volvio, EnManosDeNadie, En, EnRecurso
    <3>2. estado'[p] = "EXEC" /\ p \notin en_io' /\ Pendiente(p)'
      BY <1>2, <1>3, <1>10 DEF Volvio, EnManosDeNadie
    <3> QED BY <3>1, <3>2, <2>1 DEF LugarDe
  <2>4. IsInjective(cola'["ready"]) /\ IsInjective(cola'["block"])
    BY <1>2 DEF Tardio, Lugar
  <2> QED BY <2>2, <2>3, <2>4, LugarSalvo
<1>13. UnRecurso'
  BY <1>2 DEF Tardio, UnRecurso
<1>14. UnPedido'
  <2>1. \A k \in 1 .. Len(a) : Append(a, e)[k].pcb # p
    BY <1>8, <1>9 DEF ToSet
  <2>2. \A k, l \in 1 .. Len(a) : a[k].pcb = a[l].pcb => k = l
    BY <1>5, <1>8 DEF Tardio, UnPedido
  <2>3. ASSUME NEW i \in 1 .. Len(a) + 1, NEW j \in 1 .. Len(a) + 1,
               Append(a, e)[i].pcb = Append(a, e)[j].pcb
        PROVE  i = j
    <3>1. CASE i = Len(a) + 1 \/ j = Len(a) + 1
      BY <3>1, <2>1, <2>3, <1>7, <1>8
    <3>2. CASE i # Len(a) + 1 /\ j # Len(a) + 1
      <4>1. i \in 1 .. Len(a) /\ j \in 1 .. Len(a)
        BY <3>2, <1>8
      <4> QED BY <4>1, <2>2, <2>3, <1>8
    <3> QED BY <3>1, <3>2
  <2>4. \A d \in ToSet(en_fs'), f \in ToSet(cola_archivos') : d.pcb # f.pcb
    BY <1>2, <1>5, <1>7, <1>8, <1>9 DEF Tardio, UnPedido
  <2>5. \A d \in ToSet(en_fs') : d.op \in {"F_READ", "F_TRUNCATE"}
    BY <1>2 DEF Tardio, UnPedido
  <2> QED BY <2>3, <2>4, <2>5, <1>7, <1>8 DEF UnPedido
<1>15. Turno'
  <2>1. /\ sem'["cpu"] = 0 /\ corto' = "cpu" /\ cola'["exec"] = <<p>> /\ Len(<<p>>) = 1
        /\ <<p>> # <<>>
    BY <1>2, <1>3, Unitaria DEF Volvio
  <2>2. Turnos' = 1
    BY <2>1, <1>4 DEF Turnos, Uno
  <2>3. TurnoCierto'
    BY <2>2 DEF TurnoCierto
  <2> QED BY <2>1, <2>3, <1>4 DEF Turno
<1> QED BY <1>11, <1>12, <1>13, <1>14, <1>15, VidaIgual DEF Tardio

LEMMA TardioQuitarDeExec ==
  ASSUME Tardio, Siempre', QuitarDeExec
  PROVE  Tardio'
<1>1. /\ hilo_cpu.paso = "quitar" /\ hilo_cpu' = [hilo_cpu EXCEPT !.paso = "bloquear"]
      /\ cola' = [cola EXCEPT !["exec"] = squeue_pop(@)]
  BY DEF QuitarDeExec
<1>2. UNCHANGED <<estado, cola_bloqueados, procesos_en_kernel, con_tabla, caido, sem,
                  sem_exit_proceso, largo, corto, contextos, en_io, cola_archivos, en_fs, consola,
                  recogido>>
  BY DEF QuitarDeExec, pcbs, recursos, kernel, hilos, esperas, consolas
<1>3. PICK p \in PROCESOS : p = hilo_cpu.pcb
  BY <1>1, TurnoDelHilo
<1>4. hilo_cpu'.paso = "bloquear" /\ hilo_cpu'.pcb = p /\ p # NADIE
  BY <1>1, <1>3, ConstantesValidas DEF Tardio, Siempre, TypeOK
<1>5. EnPaso("quitar", p) /\ LugarDe(p)
  BY <1>1, <1>3 DEF EnPaso, Tardio, Lugar
<1>6. /\ estado[p] = "EXEC" /\ Pendiente(p) /\ En("exec", p)
      /\ ~ En("ready", p) /\ ~ En("block", p) /\ ~ EnRecurso(p) /\ p \notin en_io
  BY <1>1, <1>5 DEF LugarDe, EnPaso
<1>7. cola["exec"] = <<p>>
  <2>1. cola["exec"] \in Seq(PROCESOS) /\ Len(cola["exec"]) <= 1 /\ cola["exec"] # <<>>
    BY <1>6, Vacia DEF Tardio, Siempre, TypeOK, Colas, Turno, En
  <2>2. PICK e \in PROCESOS : cola["exec"] = <<e>>
    BY <2>1, DeUno
  <2>3. ToSet(cola["exec"]) = {e}
    BY <2>2, Unitaria
  <2> QED BY <2>2, <2>3, <1>6 DEF En
<1>8. /\ cola'["exec"] = <<>> /\ cola'["ready"] = cola["ready"] /\ cola'["block"] = cola["block"]
      /\ cola'["new"] = cola["new"] /\ cola'["exit"] = cola["exit"]
  <2>1. squeue_pop(cola["exec"]) = <<>>
    BY <1>7, Unitaria DEF squeue_pop
  <2>2. cola' = [cola EXCEPT !["exec"] = <<>>]
    BY <2>1, <1>1
  <2> QED BY <2>2 DEF Tardio, Siempre, TypeOK, Colas
<1>9. MismaVida
  BY <1>2, <1>8 DEF MismaVida
<1>10. Lugar'
  <2>1. \A q \in PROCESOS : /\ q # p => ~ EnPaso("quitar", q) /\ ~ EnPaso("bloquear", q)'
                            /\ ~ EnPaso("quitar", q)' /\ ~ EnPaso("bloquear", q)
                            /\ ~ EnPaso("encolar", q) /\ ~ EnPaso("encolar", q)'
                            /\ EnPaso("bloquear", p)'
    BY <1>1, <1>3, <1>4 DEF EnPaso
  <2>2. \A q \in PROCESOS : (En("exec", q) <=> q = p) /\ ~ En("exec", q)'
    BY <1>7, <1>8, Unitaria, Vacia DEF En
  <2>3. \A q : /\ En("ready", q)' <=> En("ready", q)
               /\ En("block", q)' <=> En("block", q)
               /\ EnRecurso(q)' <=> EnRecurso(q)
               /\ Pendiente(q)' <=> Pendiente(q)
    BY <1>2, <1>8 DEF En, EnRecurso, Pendiente
  <2>4. \A q \in PROCESOS : q # p => MismoLugar(q)
    BY <2>1, <2>2, <2>3, <1>2 DEF MismoLugar
  <2>5. LugarDe(p)'
    BY <2>1, <2>2, <2>3, <1>2, <1>6 DEF LugarDe
  <2>6. IsInjective(cola'["ready"]) /\ IsInjective(cola'["block"])
    BY <1>8 DEF Tardio, Lugar
  <2> QED BY <2>4, <2>5, <2>6, LugarSalvo
<1>11. UnRecurso' /\ UnPedido'
  BY <1>2 DEF Tardio, UnRecurso, UnPedido
<1>12. Turno'
  <2>1. Turnos' = Turnos
    BY <1>1, <1>2, <1>4 DEF Turnos, Uno
  <2>2. contextos' = <<>> /\ Len(cola'["exec"]) = 0 /\ cola'["exec"] = <<>>
    BY <1>1, <1>2, <1>8, TurnoDelHilo
  <2> QED BY <2>1, <2>2, <1>2, <1>4 DEF Tardio, Turno, TurnoCierto
<1> QED BY <1>9, <1>10, <1>11, <1>12, VidaIgual DEF Tardio

LEMMA TardioBloquearPorFS ==
  ASSUME Tardio, Siempre', BloquearPorFS
  PROVE  Tardio'
<1>1. /\ hilo_cpu.paso = "bloquear" /\ hilo_cpu' = [hilo_cpu EXCEPT !.paso = "encolar"]
      /\ estado' = [estado EXCEPT ![hilo_cpu.pcb] = "BLOCK"]
  BY DEF BloquearPorFS
<1>2. UNCHANGED <<cola, cola_bloqueados, procesos_en_kernel, con_tabla, caido, sem,
                  sem_exit_proceso, largo, corto, contextos, en_io, cola_archivos, en_fs, consola,
                  recogido>>
  BY DEF BloquearPorFS, recursos, kernel, hilos, esperas, consolas
<1>3. PICK p \in PROCESOS : p = hilo_cpu.pcb
  BY <1>1, TurnoDelHilo
<1>4. hilo_cpu'.paso = "encolar" /\ hilo_cpu'.pcb = p /\ p # NADIE
  BY <1>1, <1>3, ConstantesValidas DEF Tardio, Siempre, TypeOK
<1>5. \A q \in PROCESOS : estado'[q] = IF q = p THEN "BLOCK" ELSE estado[q]
  BY <1>1, <1>3 DEF Tardio, Siempre, TypeOK
<1>6. EnPaso("bloquear", p) /\ LugarDe(p)
  BY <1>1, <1>3 DEF EnPaso, Tardio, Lugar
<1>7. /\ estado[p] = "EXEC" /\ Pendiente(p) /\ ~ En("exec", p)
      /\ ~ En("ready", p) /\ ~ En("block", p) /\ ~ EnRecurso(p) /\ p \notin en_io
  BY <1>6 DEF LugarDe
<1>8. MismaVida
  BY <1>2, <1>5, <1>7 DEF MismaVida, EnMemoria
<1>9. Lugar'
  <2>1. \A q \in PROCESOS : /\ q # p => ~ EnPaso("bloquear", q) /\ ~ EnPaso("encolar", q)'
                            /\ ~ EnPaso("quitar", q) /\ ~ EnPaso("quitar", q)'
                            /\ ~ EnPaso("encolar", q) /\ ~ EnPaso("bloquear", q)'
                            /\ EnPaso("encolar", p)'
    BY <1>1, <1>3, <1>4 DEF EnPaso
  <2>2. \A q : /\ En("ready", q)' <=> En("ready", q)
               /\ En("exec", q)' <=> En("exec", q)
               /\ En("block", q)' <=> En("block", q)
               /\ EnRecurso(q)' <=> EnRecurso(q)
               /\ Pendiente(q)' <=> Pendiente(q)
    BY <1>2 DEF En, EnRecurso, Pendiente
  <2>3. \A q \in PROCESOS : q # p => MismoLugar(q)
    BY <2>1, <2>2, <1>2, <1>5 DEF MismoLugar
  <2>4. LugarDe(p)'
    BY <2>1, <2>2, <1>2, <1>5, <1>7 DEF LugarDe
  <2>5. IsInjective(cola'["ready"]) /\ IsInjective(cola'["block"])
    BY <1>2 DEF Tardio, Lugar
  <2> QED BY <2>3, <2>4, <2>5, LugarSalvo
<1>10. UnRecurso' /\ UnPedido'
  BY <1>2 DEF Tardio, UnRecurso, UnPedido
<1>11. Turno'
  <2>1. Turnos' = Turnos
    BY <1>1, <1>2, <1>4 DEF Turnos, Uno
  <2>2. contextos' = <<>> /\ cola'["exec"] = <<>>
    BY <1>1, <1>2, TurnoDelHilo DEF Tardio, Turno
  <2> QED BY <2>1, <2>2, <1>2, <1>4 DEF Tardio, Turno, TurnoCierto
<1> QED BY <1>8, <1>9, <1>10, <1>11, VidaIgual DEF Tardio

LEMMA TardioEncolarPorFS ==
  ASSUME Tardio, Siempre', EncolarPorFS
  PROVE  Tardio'
<1>1. /\ hilo_cpu.paso = "encolar" /\ hilo_cpu' = Recibiendo
      /\ cola' = [cola EXCEPT !["block"] = Append(@, hilo_cpu.pcb)]
      /\ sem_post({"cpu"})
  BY DEF EncolarPorFS
<1>2. UNCHANGED <<estado, cola_bloqueados, procesos_en_kernel, con_tabla, caido,
                  sem_exit_proceso, largo, corto, contextos, en_io, cola_archivos, en_fs, consola,
                  recogido>>
  BY DEF EncolarPorFS, pcbs, recursos, kernel, hilos, esperas, consolas
<1>3. PICK p \in PROCESOS : p = hilo_cpu.pcb
  BY <1>1, TurnoDelHilo
<1>4. hilo_cpu'.paso = "recibir" /\ hilo_cpu'.pcb = NADIE
  BY <1>1 DEF Recibiendo
<1>5. sem'["cpu"] = sem["cpu"] + 1
  BY <1>1 DEF sem_post, Semaforos, Tardio, Siempre, TypeOK
<1>6. EnPaso("encolar", p) /\ LugarDe(p)
  BY <1>1, <1>3 DEF EnPaso, Tardio, Lugar
<1>7. /\ estado[p] = "BLOCK" /\ Pendiente(p) /\ ~ En("exec", p)
      /\ ~ En("ready", p) /\ ~ En("block", p) /\ ~ EnRecurso(p) /\ p \notin en_io
  BY <1>6 DEF LugarDe
<1>8. PICK b \in Seq(PROCESOS) : b = Append(cola["block"], p) /\ IsInjective(b)
                                 /\ ToSet(b) = ToSet(cola["block"]) \cup {p}
  <2>1. cola["block"] \in Seq(PROCESOS) /\ IsInjective(cola["block"]) /\ p \notin ToSet(cola["block"])
    BY <1>7 DEF Tardio, Siempre, TypeOK, Colas, Lugar, En
  <2>2. /\ Append(cola["block"], p) \in Seq(PROCESOS) /\ IsInjective(Append(cola["block"], p))
        /\ ToSet(Append(cola["block"], p)) = ToSet(cola["block"]) \cup {p}
    BY <2>1, Agregar
  <2> QED BY <2>2
<1>9. /\ cola'["block"] = b /\ cola'["ready"] = cola["ready"] /\ cola'["exec"] = cola["exec"]
      /\ cola'["new"] = cola["new"] /\ cola'["exit"] = cola["exit"]
  <2>1. cola' = [cola EXCEPT !["block"] = b]
    BY <1>1, <1>3, <1>8
  <2> QED BY <2>1 DEF Tardio, Siempre, TypeOK, Colas
<1>10. MismaVida
  BY <1>2, <1>9 DEF MismaVida
<1>11. Lugar'
  <2>1. \A q \in PROCESOS : /\ q # p => ~ EnPaso("encolar", q)
                            /\ ~ EnPaso("quitar", q) /\ ~ EnPaso("quitar", q)'
                            /\ ~ EnPaso("bloquear", q) /\ ~ EnPaso("bloquear", q)'
                            /\ ~ EnPaso("encolar", q)'
    BY <1>1, <1>3, <1>4 DEF EnPaso
  <2>2. \A q : /\ En("ready", q)' <=> En("ready", q)
               /\ En("exec", q)' <=> En("exec", q)
               /\ En("block", q)' <=> En("block", q) \/ q = p
               /\ EnRecurso(q)' <=> EnRecurso(q)
               /\ Pendiente(q)' <=> Pendiente(q)
    BY <1>2, <1>8, <1>9 DEF En, EnRecurso, Pendiente
  <2>3. \A q \in PROCESOS : q # p => MismoLugar(q)
    BY <2>1, <2>2, <1>2 DEF MismoLugar
  <2>4. LugarDe(p)'
    BY <2>1, <2>2, <1>2, <1>7 DEF LugarDe
  <2>5. IsInjective(cola'["ready"]) /\ IsInjective(cola'["block"])
    BY <1>8, <1>9 DEF Tardio, Lugar
  <2> QED BY <2>3, <2>4, <2>5, LugarSalvo
<1>12. UnRecurso' /\ UnPedido'
  BY <1>2 DEF Tardio, UnRecurso, UnPedido
<1>13. Turno'
  <2>1. /\ Len(contextos') = 0 /\ contextos' = <<>> /\ corto' = "cpu" /\ sem'["cpu"] = 1
        /\ cola'["exec"] = <<>> /\ Len(<<>>) = 0
    BY <1>1, <1>2, <1>5, <1>9, TurnoDelHilo DEF Tardio, Turno
  <2>2. Turnos' = 1
    BY <2>1, <1>4, UnTurno
  <2> QED BY <2>1, <2>2, <1>4 DEF Turno, TurnoCierto
<1> QED BY <1>10, <1>11, <1>12, <1>13, VidaIgual DEF Tardio

LEMMA TardioBloqueoIO ==
  ASSUME Tardio, Siempre', NEW p \in PROCESOS, bloqueo_io(p)
  PROVE  Tardio'
<1>1. /\ p \in en_io /\ en_io' = en_io \ {p} /\ pasar_a_cola_ready(p, TRUE, {})
      /\ UNCHANGED <<cola_bloqueados, procesos_en_kernel, con_tabla, sem_exit_proceso, largo,
                     corto, contextos, hilo_cpu, cola_archivos, en_fs, consola, recogido>>
  BY DEF bloqueo_io, recursos, hilos, cpu, consolas
<1>2. LugarDe(p) /\ estado[p] = "BLOCK" /\ ~ Pendiente(p)
  BY <1>1 DEF Tardio, Lugar, LugarDe
<1>3. Listo(p, {})
  BY <1>1, <1>2, AReady
<1>4. /\ \A q \in PROCESOS : estado'[q] = IF q = p THEN "READY" ELSE estado[q]
      /\ sem'["cpu"] = sem["cpu"] /\ caido' = caido
      /\ cola'["exit"] = cola["exit"] /\ cola'["exec"] = cola["exec"] /\ cola'["new"] = cola["new"]
  BY <1>2, <1>3 DEF Listo
<1>5. MismaVida
  BY <1>1, <1>2, <1>4 DEF MismaVida, EnMemoria
<1>6. Lugar'
  <2>1. EnManosDeNadie(p)'
    <3>1. ~ EnRecurso(p) /\ ~ EnPaso("quitar", p) /\ ~ EnPaso("bloquear", p) /\ ~ EnPaso("encolar", p)
      BY <1>2 DEF LugarDe
    <3> QED BY <3>1, <1>1, <1>2 DEF EnManosDeNadie, EnRecurso, EnPaso, Pendiente
  <2>2. \A q \in PROCESOS : q # p => MismasManos(q)
    BY <1>1 DEF MismasManos, EnRecurso, Pendiente, EnPaso
  <2> QED BY <2>1, <2>2, <1>2, <1>3, LugarListo
<1>7. UnRecurso' /\ UnPedido'
  BY <1>1 DEF Tardio, UnRecurso, UnPedido
<1>8. Turno'
  <2>1. \A q \in PROCESOS : Terminado(q) => Terminado(q)'
    BY <1>2, <1>4 DEF Terminado
  <2> QED BY <2>1, <1>1, <1>4, TurnoSigue
<1> QED BY <1>5, <1>6, <1>7, <1>8, VidaIgual DEF Tardio

LEMMA TardioTomarPedido ==
  ASSUME Tardio, Siempre', TomarPedido
  PROVE  Tardio'
<1>1. /\ en_fs = <<>> /\ cola_archivos # <<>>
      /\ UNCHANGED <<estado, cola, cola_bloqueados, procesos_en_kernel, con_tabla, caido, sem,
                     sem_exit_proceso, largo, corto, contextos, hilo_cpu, en_io, consola,
                     recogido>>
  BY DEF TomarPedido, pcbs, recursos, kernel, hilos, cpu, consolas
<1> DEFINE P == [pcb : PROCESOS, op : {"F_READ", "F_TRUNCATE"}]
<1>2. PICK a \in Seq(P) : a = cola_archivos /\ a # <<>>
  BY <1>1 DEF Tardio, Siempre, TypeOK
<1>3. PICK e \in P : e = Head(a)
  BY <1>2, Sacar
<1>4. e.op \in {"F_READ", "F_TRUNCATE"}
  OBVIOUS
<1> HIDE DEF P
<1>5. cola_archivos' = Tail(a) /\ en_fs' = <<e>>
  BY <1>2, <1>3 DEF TomarPedido
<1>6. /\ Tail(a) \in Seq(P) /\ Len(Tail(a)) = Len(a) - 1 /\ Len(a) \in Nat /\ Len(a) > 0
      /\ a[1] = e /\ \A i \in 1 .. Len(a) - 1 : Tail(a)[i] = a[i + 1]
      /\ DOMAIN a = 1 .. Len(a) /\ DOMAIN Tail(a) = 1 .. Len(a) - 1
      /\ ToSet(a) = ToSet(Tail(a)) \cup {e}
  <2>1. /\ Tail(a) \in Seq(P) /\ Len(Tail(a)) = Len(a) - 1 /\ a[1] = e
        /\ \A i \in 1 .. Len(a) - 1 : Tail(a)[i] = a[i + 1]
    BY <1>2, <1>3, HeadTailProperties
  <2>2. Len(a) \in Nat /\ Len(a) > 0 /\ DOMAIN a = 1 .. Len(a)
    BY <1>2, LenProperties, EmptySeq
  <2>3. DOMAIN Tail(a) = 1 .. Len(a) - 1
    BY <2>1, LenProperties
  <2>4. ToSet(a) = ToSet(Tail(a)) \cup {e}
    BY <1>2, <1>3, Sacar
  <2> QED BY <2>1, <2>2, <2>3, <2>4
<1>7. ToSet(<<e>>) = {e}
  BY Unitaria
<1>8. \A q : Pendiente(q)' <=> Pendiente(q)
  BY <1>1, <1>2, <1>5, <1>6, <1>7, Vacia DEF Pendiente
<1>9. MismaVida
  BY <1>1 DEF MismaVida
<1>10. Lugar'
  <2>1. \A q \in PROCESOS : MismoLugar(q)
    BY <1>1, <1>8 DEF MismoLugar, En, EnRecurso, EnPaso
  <2> QED BY <2>1, <1>1, LugarIgual DEF Tardio, Lugar
<1>11. UnRecurso'
  BY <1>1 DEF Tardio, UnRecurso
<1>12. UnPedido'
  <2>1. \A i, j \in 1 .. Len(a) : a[i].pcb = a[j].pcb => i = j
    BY <1>2, <1>6 DEF Tardio, UnPedido
  <2>2. ASSUME NEW i \in 1 .. Len(a) - 1, NEW j \in 1 .. Len(a) - 1, Tail(a)[i].pcb = Tail(a)[j].pcb
        PROVE  i = j
    BY <2>1, <2>2, <1>6
  <2>3. ASSUME NEW i \in 1 .. Len(a) - 1
        PROVE  Tail(a)[i].pcb # e.pcb
    <3>1. 1 \in 1 .. Len(a) /\ i + 1 \in 1 .. Len(a) /\ i + 1 # 1
      BY <1>6
    <3> QED BY <3>1, <2>1, <1>6
  <2>4. \A d \in ToSet(<<e>>), f \in ToSet(Tail(a)) : d.pcb # f.pcb
    BY <2>3, <1>6, <1>7 DEF ToSet
  <2> QED BY <2>2, <2>4, <1>4, <1>5, <1>6, <1>7 DEF UnPedido
<1>13. Turno'
  BY <1>1, TurnoSigue DEF Terminado
<1> QED BY <1>9, <1>10, <1>11, <1>12, <1>13, VidaIgual DEF Tardio

\* The request that is answered is that of p, which no other request names.
LEMMA AlResponder ==
  ASSUME Tardio, RESPUESTA_TARDIA, NEW p \in PROCESOS, Respondido(p)
  PROVE  /\ Pendiente(p) /\ estado[p] = "BLOCK"
         /\ ~ EnPaso("quitar", p) /\ ~ EnPaso("bloquear", p) /\ ~ EnPaso("encolar", p)
         /\ \A d \in ToSet(cola_archivos) : d.pcb # p
         /\ \A d \in ToSet(en_fs) : d.pcb = p
<1>1. en_fs # <<>> /\ en_fs[1].pcb = p /\ hilo_cpu.pcb # p
  BY DEF Respondido
<1>2. PICK e : en_fs = <<e>> /\ ToSet(en_fs) = {e}
  <2> DEFINE P == [pcb : PROCESOS, op : {"F_READ", "F_TRUNCATE", "sacar", "poner"}]
  <2>1. en_fs \in Seq(P) /\ Len(en_fs) <= 1
    BY DEF Tardio, Siempre, TypeOK
  <2> HIDE DEF P
  <2> QED BY <2>1, <1>1, DeUno, Unitaria
<1>3. e.pcb = p
  BY <1>1, <1>2
<1>4. \A d \in ToSet(cola_archivos) : d.pcb # p
  BY <1>2, <1>3 DEF Tardio, UnPedido
<1>5. Pendiente(p)
  BY <1>2, <1>3 DEF Pendiente
<1>6. ~ EnPaso("quitar", p) /\ ~ EnPaso("bloquear", p) /\ ~ EnPaso("encolar", p)
  BY <1>1 DEF EnPaso
<1>7. estado[p] = "BLOCK"
  BY <1>5, <1>6 DEF Tardio, Lugar, LugarDe
<1> QED BY <1>2, <1>3, <1>4, <1>5, <1>6, <1>7

LEMMA TardioRespuesta ==
  ASSUME Tardio, Siempre', RESPUESTA_TARDIA, NEW p \in PROCESOS, recibir_respuesta_fs(p)
  PROVE  Tardio'
<1>1. Respondido(p) /\ pasar_a_cola_ready(p, FALSE, {}) /\ en_fs' = <<>>
  BY DEF recibir_respuesta_fs
<1>2. UNCHANGED <<cola_bloqueados, procesos_en_kernel, con_tabla, sem_exit_proceso, largo, corto,
                  contextos, hilo_cpu, en_io, cola_archivos, consola, recogido>>
  BY <1>1 DEF Respondido, recursos, hilos, cpu, consolas
<1>3. /\ Pendiente(p) /\ estado[p] = "BLOCK"
      /\ ~ EnPaso("quitar", p) /\ ~ EnPaso("bloquear", p) /\ ~ EnPaso("encolar", p)
      /\ \A d \in ToSet(cola_archivos) : d.pcb # p
      /\ \A d \in ToSet(en_fs) : d.pcb = p
  BY <1>1, AlResponder
<1>4. ToSet(en_fs') = {}
  BY <1>1, Vacia
<1>5. \A q : Pendiente(q)' <=> Pendiente(q) /\ q # p
  BY <1>2, <1>3, <1>4 DEF Pendiente
<1>6. Listo(p, {})
  BY <1>1, <1>3, AReady
<1>7. /\ \A q \in PROCESOS : estado'[q] = IF q = p THEN "READY" ELSE estado[q]
      /\ sem'["cpu"] = sem["cpu"] /\ caido' = caido
      /\ cola'["exit"] = cola["exit"] /\ cola'["exec"] = cola["exec"] /\ cola'["new"] = cola["new"]
  BY <1>3, <1>6 DEF Listo
<1>8. MismaVida
  BY <1>2, <1>3, <1>7 DEF MismaVida, EnMemoria
<1>9. Lugar'
  <2>1. p \notin en_io /\ ~ EnRecurso(p)
    BY <1>3 DEF Tardio, Lugar, LugarDe
  <2>2. EnManosDeNadie(p)'
    BY <2>1, <1>2, <1>3, <1>5 DEF EnManosDeNadie, EnRecurso, EnPaso
  <2>3. \A q \in PROCESOS : q # p => MismasManos(q)
    BY <1>2, <1>5 DEF MismasManos, EnRecurso, EnPaso
  <2> QED BY <2>2, <2>3, <1>3, <1>6, LugarListo
<1>10. UnRecurso' /\ UnPedido'
  BY <1>2, <1>4 DEF Tardio, UnRecurso, UnPedido
<1>11. Turno'
  <2>1. \A q \in PROCESOS : Terminado(q) => Terminado(q)'
    BY <1>3, <1>7 DEF Terminado
  <2> QED BY <2>1, <1>2, <1>7, TurnoSigue
<1> QED BY <1>8, <1>9, <1>10, <1>11, VidaIgual DEF Tardio

\* Late answers never find the process in EXEC.
LEMMA NuncaEnExec ==
  ASSUME Tardio, RESPUESTA_TARDIA
  PROVE  /\ ~ SacarDeExec
         /\ \A p \in PROCESOS : ~ RespuestaEnExec(p) /\ ~ PonerEnReady(p)
<1>1. ASSUME NEW p \in PROCESOS
      PROVE  ~ RespuestaEnExec(p)
  BY AlResponder DEF RespuestaEnExec
<1>2. en_fs # <<>> => en_fs[1].op \in {"F_READ", "F_TRUNCATE"}
  <2>1. SUFFICES ASSUME en_fs # <<>> PROVE en_fs[1].op \in {"F_READ", "F_TRUNCATE"}
    OBVIOUS
  <2> DEFINE P == [pcb : PROCESOS, op : {"F_READ", "F_TRUNCATE", "sacar", "poner"}]
  <2>2. en_fs \in Seq(P) /\ Len(en_fs) <= 1
    BY DEF Tardio, Siempre, TypeOK
  <2> HIDE DEF P
  <2>3. PICK e : en_fs = <<e>> /\ ToSet(en_fs) = {e}
    BY <2>1, <2>2, DeUno, Unitaria
  <2> QED BY <2>3 DEF Tardio, UnPedido
<1>3. ~ SacarDeExec
  BY <1>2 DEF SacarDeExec
<1>4. ASSUME NEW p \in PROCESOS, PonerEnReady(p)
      PROVE  FALSE
  <2>1. en_fs[1].op = "poner" /\ en_fs # <<>>
    BY <1>4 DEF PonerEnReady
  <2> QED BY <2>1, <1>2
<1> QED BY <1>1, <1>3, <1>4

LEMMA TardioSigue ==
  ASSUME Tardio, RESPUESTA_TARDIA, [Next]_vars
  PROVE  Tardio'
<1>1. Siempre'
  BY SiempreSigue DEF Tardio
<1>2. ASSUME NEW p \in PROCESOS, crear_proceso(p) \/ hilo_consola(p) \/ bloqueo_io(p)
      PROVE  Tardio'
  BY <1>1, <1>2, TardioCrear, TardioAnunciar, TardioRecoger, TardioResponder, TardioBloqueoIO
     DEF hilo_consola
<1>3. CASE planificador_largo_plazo
  BY <1>1, <1>3, TardioEsperarNuevo, TardioSolicitarTabla, TardioAdmitir
     DEF planificador_largo_plazo
<1>4. CASE planificador_corto_plazo
  BY <1>1, <1>4, TardioEsperarCPU, TardioEsperarReady, TardioPlanificar, TardioDespachar
     DEF planificador_corto_plazo
<1>5. CASE manejar_respuesta_cpu
  <2>1. CASE TomarDeExec \/ TomarDeExecVacia \/ RevisarEstado \/ RevisarEnExec
    BY <2>1, <1>1, TardioTomarDeExec, TardioRevisar
  <2>2. CASE WaitConcedido \/ SignalLibera \/ ProcesarYSeguir \/ TurnoPerdido
    BY <2>2, <1>1, TardioEnElLugar
  <2>3. CASE ProcesarYield \/ ProcesarFin \/ ProcesarIO \/ WaitBloqueado \/ SignalDespierta
    BY <2>3, <1>1, TardioYield, TardioFin, TardioIO, TardioWaitBloqueado, TardioSignalDespierta
  <2>4. CASE PedirFS \/ QuitarDeExec \/ BloquearPorFS \/ EncolarPorFS
    BY <2>4, <1>1, TardioPedirFS, TardioQuitarDeExec, TardioBloquearPorFS, TardioEncolarPorFS
  <2> QED BY <1>5, <2>1, <2>2, <2>3, <2>4 DEF manejar_respuesta_cpu
<1>6. CASE procesar_file_system
  <2>1. CASE TomarPedido
    BY <2>1, <1>1, TardioTomarPedido
  <2>2. ASSUME NEW p \in PROCESOS, recibir_respuesta_fs(p)
        PROVE  Tardio'
    BY <2>2, <1>1, TardioRespuesta
  <2> QED BY <1>6, <2>1, <2>2, NuncaEnExec DEF procesar_file_system
<1>7. CASE UNCHANGED vars
  <2>1. UNCHANGED <<estado, cola, cola_bloqueados, procesos_en_kernel, con_tabla, caido, sem,
                    sem_exit_proceso, largo, corto, contextos, hilo_cpu, en_io, cola_archivos,
                    en_fs, consola, recogido>>
    BY <1>7 DEF vars, pcbs, recursos, kernel, hilos, cpu, esperas, consolas
  <2>2. Quieto /\ MismaVida
    BY <2>1 DEF Quieto, MismaVida
  <2> QED BY <2>2, <1>1, PasoQuieto, VidaIgual DEF Tardio
<1> QED BY <1>2, <1>3, <1>4, <1>5, <1>6, <1>7 DEF Next

\* SIGNAL wakes a process that waits for the resource.
LEMMA DelRecurso ==
  ASSUME Tardio, NEW r \in RECURSOS, instancias[r] < 0
  PROVE  Head(cola_bloqueados[r]) \in PROCESOS /\ estado[Head(cola_bloqueados[r])] = "BLOCK_RECURSO"
<1>1. PICK s \in Seq(PROCESOS) : s = cola_bloqueados[r]
  BY DEF Tardio, Siempre, TypeOK
<1>2. Len(s) = -instancias[r] /\ instancias[r] \in Int
  BY <1>1 DEF Tardio, Siempre, RecursosContados, TypeOK
<1>3. s # <<>>
  BY <1>2, EmptySeq
<1>4. PICK h \in PROCESOS : h = Head(s) /\ h \in ToSet(s)
  BY <1>3, Sacar
<1>5. EnRecurso(h)
  BY <1>1, <1>4 DEF EnRecurso
<1> QED BY <1>1, <1>4, <1>5 DEF Tardio, Lugar, LugarDe

-----------------------------------------------------------------------------
(* Queues and states *)

\* In a queue without repetitions a process is once or not at all.
LEMMA VecesUno ==
  ASSUME NEW s \in Seq(PROCESOS), IsInjective(s), NEW p \in PROCESOS
  PROVE  Veces(p, s) = Uno(p \in ToSet(s))
<1>1. CASE p \in ToSet(s)
  <2>1. PICK i \in DOMAIN s : s[i] = p
    BY <1>1 DEF ToSet
  <2>2. {j \in DOMAIN s : s[j] = p} = {i}
    BY <2>1 DEF IsInjective
  <2>3. Cardinality({i}) = 1
    BY FS_Singleton
  <2> QED BY <1>1, <2>2, <2>3 DEF Veces, Uno
<1>2. CASE p \notin ToSet(s)
  <2>1. {j \in DOMAIN s : s[j] = p} = {}
    BY <1>2 DEF ToSet
  <2>2. Cardinality({}) = 0
    BY FS_EmptySet
  <2> QED BY <1>2, <2>1, <2>2 DEF Veces, Uno
<1> QED BY <1>1, <1>2

LEMMA UnaSolaCola ==
  ASSUME Tardio
  PROVE  EnUnaSolaCola
<1>1. /\ \A c \in Colas : cola[c] \in Seq(PROCESOS)
      /\ IsInjective(cola["new"]) /\ IsInjective(cola["ready"]) /\ IsInjective(cola["exit"])
      /\ IsInjective(cola["block"])
  BY DEF Tardio, Siempre, TypeOK, EnNuevos, Vida, Lugar
<1>2. IsInjective(cola["exec"])
  <2>1. cola["exec"] \in Seq(PROCESOS) /\ Len(cola["exec"]) <= 1
    BY <1>1 DEF Colas, Tardio, Turno
  <2>2. DOMAIN cola["exec"] = 1 .. Len(cola["exec"]) /\ Len(cola["exec"]) \in Nat
    BY <2>1, LenProperties
  <2> QED BY <2>1, <2>2 DEF IsInjective
<1>3. ASSUME NEW p \in PROCESOS
      PROVE  LET en_paso(a) == hilo_cpu = [paso |-> a, pcb |-> p]
                 terminado  == estado[p] = "EXIT" \/ estado[p] = "DESTRUIDO"
             IN  /\ Veces(p, cola["new"]) = Uno(estado[p] = "NEW")
                 /\ Veces(p, cola["ready"]) = Uno(estado[p] = "READY")
                 /\ Veces(p, cola["exec"]) = Uno(estado[p] = "EXEC" /\ ~en_paso("bloquear"))
                 /\ Veces(p, cola["block"]) = Uno(estado[p] = "BLOCK" /\ ~en_paso("encolar"))
                 /\ Veces(p, cola["exit"]) =
                      Uno(terminado /\ \A q \in PROCESOS : recogido[q] # p)
                 /\ Cardinality({r \in RECURSOS : p \in ToSet(cola_bloqueados[r])}) =
                      Uno(estado[p] = "BLOCK_RECURSO")
  <2>1. \A c \in Colas : Veces(p, cola[c]) = Uno(En(c, p))
    BY <1>1, <1>2, VecesUno DEF Colas, En
  <2>2. \A a : hilo_cpu = [paso |-> a, pcb |-> p] <=> EnPaso(a, p)
    <3>1. hilo_cpu \in [paso : {"recibir", "atender", "revisar", "quitar", "bloquear", "encolar"},
                        pcb : PROCESOS \cup {NADIE}]
      BY DEF Tardio, Siempre, TypeOK
    <3> QED BY <3>1 DEF EnPaso
  <2>3. LugarDe(p) /\ VidaDe(p)
    BY DEF Tardio, Lugar, Vida
  <2>4. Veces(p, cola["new"]) = Uno(estado[p] = "NEW")
    <3>1. En("new", p) <=> estado[p] = "NEW"
      BY DEF Tardio, Siempre, EnNuevos
    <3> QED BY <2>1, <3>1 DEF Uno, Colas
  <2>5. Veces(p, cola["ready"]) = Uno(estado[p] = "READY")
    <3>1. En("ready", p) <=> estado[p] = "READY"
      BY <2>3 DEF LugarDe
    <3> QED BY <2>1, <3>1 DEF Uno, Colas
  <2>6. Veces(p, cola["exec"]) = Uno(estado[p] = "EXEC" /\ ~ EnPaso("bloquear", p))
    <3>1. En("exec", p) <=> estado[p] = "EXEC" /\ ~ EnPaso("bloquear", p)
      BY <2>3 DEF LugarDe
    <3> QED BY <2>1, <3>1 DEF Uno, Colas
  <2>7. Veces(p, cola["block"]) = Uno(estado[p] = "BLOCK" /\ ~ EnPaso("encolar", p))
    <3>1. En("block", p) <=> estado[p] = "BLOCK" /\ ~ EnPaso("encolar", p)
      BY <2>3 DEF LugarDe
    <3> QED BY <2>1, <3>1 DEF Uno, Colas
  <2>8. Veces(p, cola["exit"]) =
          Uno((estado[p] = "EXIT" \/ estado[p] = "DESTRUIDO") /\ \A q \in PROCESOS : recogido[q] # p)
    <3>1. En("exit", p) <=> /\ estado[p] = "EXIT" \/ estado[p] = "DESTRUIDO"
                            /\ \A q \in PROCESOS : recogido[q] # p
      BY <2>3 DEF VidaDe, Terminado
    <3> QED BY <2>1, <3>1 DEF Uno, Colas
  <2>9. Cardinality({r \in RECURSOS : p \in ToSet(cola_bloqueados[r])}) =
          Uno(estado[p] = "BLOCK_RECURSO")
    <3>1. CASE estado[p] = "BLOCK_RECURSO"
      <4>1. PICK r \in RECURSOS : p \in ToSet(cola_bloqueados[r])
        BY <3>1, <2>3 DEF LugarDe, EnRecurso
      <4>2. {s \in RECURSOS : p \in ToSet(cola_bloqueados[s])} = {r}
        BY <4>1 DEF Tardio, UnRecurso
      <4>3. Cardinality({r}) = 1
        BY FS_Singleton
      <4> QED BY <3>1, <4>2, <4>3 DEF Uno
    <3>2. CASE estado[p] # "BLOCK_RECURSO"
      <4>1. {s \in RECURSOS : p \in ToSet(cola_bloqueados[s])} = {}
        BY <3>2, <2>3 DEF LugarDe, EnRecurso
      <4> QED BY <3>2, <4>1, FS_EmptySet DEF Uno
    <3> QED BY <3>1, <3>2
  <2> QED BY <2>2, <2>4, <2>5, <2>6, <2>7, <2>8, <2>9
<1> QED BY <1>3 DEF EnUnaSolaCola

\* No step moves a process along an arrow the diagram of states does not have.
PorElDiagrama ==
  \A p \in PROCESOS : estado'[p] # estado[p] => <<estado[p], estado'[p]>> \in Transiciones

LEMMA SoloTransiciones ==
  ASSUME Tardio, RESPUESTA_TARDIA, [Next]_vars
  PROVE  PorElDiagrama
<1>1. ASSUME NEW p \in PROCESOS, NEW e, <<estado[p], e>> \in Transiciones,
             estado' = [estado EXCEPT ![p] = e]
      PROVE  PorElDiagrama
  BY <1>1 DEF PorElDiagrama, Tardio, Siempre, TypeOK
<1>2. ASSUME estado' = estado
      PROVE  PorElDiagrama
  BY <1>2 DEF PorElDiagrama
<1>3. ASSUME NEW p \in PROCESOS, NEW S, Listo(p, S), <<estado[p], "READY">> \in Transiciones
      PROVE  PorElDiagrama
  BY <1>3 DEF PorElDiagrama, Listo
<1>4. ASSUME NEW p \in PROCESOS,
             crear_proceso(p) \/ AnunciarProceso(p) \/ RecogerExit(p) \/ respuesta_proceso(p)
      PROVE  PorElDiagrama
  <2>1. CASE AnunciarProceso(p) \/ RecogerExit(p)
    BY <2>1, <1>2 DEF AnunciarProceso, RecogerExit, pcbs
  <2>2. CASE crear_proceso(p)
    <3>1. estado' = [estado EXCEPT ![p] = "NEW"] /\ estado[p] = "NINGUNO"
      BY <2>2 DEF crear_proceso, Tardio, Vida, VidaDe
    <3> QED BY <3>1, <1>1 DEF PorElDiagrama, Transiciones
  <2>3. CASE respuesta_proceso(p)
    <3>1. estado' = [estado EXCEPT ![p] = "DESTRUIDO"] /\ estado[p] = "EXIT"
      BY <2>3 DEF respuesta_proceso, Tardio, Vida, VidaDe
    <3> QED BY <3>1, <1>1 DEF PorElDiagrama, Transiciones
  <2> QED BY <1>4, <2>1, <2>2, <2>3
<1>5. CASE \/ EsperarNuevo \/ solicitar_nueva_tabla_de_segmento \/ EsperarCPU \/ EsperarReady
           \/ planificar \/ TomarDeExec \/ TomarDeExecVacia \/ RevisarEstado \/ RevisarEnExec
           \/ WaitConcedido \/ SignalLibera \/ ProcesarYSeguir \/ TurnoPerdido \/ PedirFS
           \/ QuitarDeExec \/ EncolarPorFS \/ TomarPedido \/ UNCHANGED vars
  <2>1. estado' = estado
    BY <1>5 DEF EsperarNuevo, solicitar_nueva_tabla_de_segmento, EsperarCPU, EsperarReady,
                planificar, TomarDeExec, TomarDeExecVacia, RevisarEstado, RevisarEnExec,
                WaitConcedido, SignalLibera, ProcesarYSeguir, TurnoPerdido, PedirFS, QuitarDeExec,
                EncolarPorFS, TomarPedido, vars, pcbs
  <2> QED BY <2>1, <1>2
<1>6. CASE AdmitirProceso
  <2>1. largo = "admitir" /\ pasar_a_cola_ready(Head(cola["new"]), FALSE, {})
    BY <1>6 DEF AdmitirProceso
  <2>2. PICK h \in PROCESOS : h = Head(cola["new"]) /\ estado[h] = "NEW"
    BY <2>1, HayNuevo DEF Tardio
  <2>3. Listo(h, {})
    BY <2>1, <2>2, AReady
  <2> QED BY <2>2, <2>3, <1>3 DEF Transiciones
<1>7. CASE pasar_a_cola_exec
  <2>1. estado' = [estado EXCEPT ![Head(cola["ready"])] = "EXEC"] /\ corto = "despachar"
    BY <1>7 DEF pasar_a_cola_exec
  <2>2. PICK h \in PROCESOS : h = Head(cola["ready"]) /\ En("ready", h)
    BY <2>1, HayReady, Desencolar DEF Tardio, En
  <2>3. estado[h] = "READY"
    BY <2>2 DEF Tardio, Lugar, LugarDe
  <2> QED BY <2>1, <2>2, <2>3, <1>1 DEF PorElDiagrama, Transiciones
<1>8. CASE ProcesarFin \/ ProcesarIO \/ WaitBloqueado
  <2>1. PICK p \in PROCESOS, op \in OPERACIONES, e \in {"EXIT", "BLOCK", "BLOCK_RECURSO"} :
          Devuelto(p, op) /\ estado' = [estado EXCEPT ![p] = e]
    <3>1. CASE ProcesarFin
      BY <3>1 DEF ProcesarFin, pasar_a_cola_exit, Devuelto
    <3>2. CASE ProcesarIO \/ WaitBloqueado
      BY <3>2 DEF ProcesarIO, WaitBloqueado, Devuelto
    <3> QED BY <1>8, <3>1, <3>2
  <2>2. estado[p] = "EXEC"
    BY <2>1, AlVolver DEF Volvio
  <2> QED BY <2>1, <2>2, <1>1 DEF PorElDiagrama, Transiciones
<1>9. CASE ProcesarYield
  <2>1. PICK p \in PROCESOS : Devuelto(p, "YIELD") /\ pasar_a_cola_ready(p, FALSE, {"cpu"})
    BY <1>9 DEF ProcesarYield
  <2>2. cola["exec"] = <<p>> /\ estado[p] = "EXEC"
    BY <2>1, AlVolver DEF Volvio
  <2>3. Listo(p, {"cpu"})
    BY <2>1, <2>2, AReady
  <2> QED BY <2>2, <2>3, <1>3 DEF Transiciones
<1>10. CASE SignalDespierta
  <2>1. PICK r \in RECURSOS :
          instancias[r] < 0 /\ pasar_a_cola_ready(Head(cola_bloqueados[r]), TRUE, {})
    BY <1>10 DEF SignalDespierta
  <2>2. PICK h \in PROCESOS : h = Head(cola_bloqueados[r]) /\ estado[h] = "BLOCK_RECURSO"
    BY <2>1, DelRecurso
  <2>3. Listo(h, {})
    BY <2>1, <2>2, AReady
  <2> QED BY <2>2, <2>3, <1>3 DEF Transiciones
<1>11. CASE BloquearPorFS
  <2>1. hilo_cpu.paso = "bloquear" /\ estado' = [estado EXCEPT ![hilo_cpu.pcb] = "BLOCK"]
    BY <1>11 DEF BloquearPorFS
  <2>2. PICK p \in PROCESOS : p = hilo_cpu.pcb
    BY <2>1, TurnoDelHilo
  <2>3. estado[p] = "EXEC"
    BY <2>1, <2>2 DEF Tardio, Lugar, LugarDe, EnPaso
  <2> QED BY <2>1, <2>2, <2>3, <1>1 DEF PorElDiagrama, Transiciones
<1>12. ASSUME NEW p \in PROCESOS, bloqueo_io(p)
       PROVE  PorElDiagrama
  <2>1. p \in en_io /\ pasar_a_cola_ready(p, TRUE, {})
    BY <1>12 DEF bloqueo_io
  <2>2. estado[p] = "BLOCK"
    BY <2>1 DEF Tardio, Lugar, LugarDe
  <2>3. Listo(p, {})
    BY <2>1, <2>2, AReady
  <2> QED BY <2>2, <2>3, <1>3 DEF Transiciones
<1>13. ASSUME NEW p \in PROCESOS, recibir_respuesta_fs(p)
       PROVE  PorElDiagrama
  <2>1. Respondido(p) /\ pasar_a_cola_ready(p, FALSE, {})
    BY <1>13 DEF recibir_respuesta_fs
  <2>2. estado[p] = "BLOCK"
    BY <2>1, AlResponder
  <2>3. Listo(p, {})
    BY <2>1, <2>2, AReady
  <2> QED BY <2>2, <2>3, <1>3 DEF Transiciones
<1>14. ASSUME NEW p \in PROCESOS, crear_proceso(p) \/ hilo_consola(p)
       PROVE  PorElDiagrama
  BY <1>4, <1>14 DEF hilo_consola
<1>15. CASE planificador_largo_plazo \/ planificador_corto_plazo
  BY <1>5, <1>6, <1>7, <1>15 DEF planificador_largo_plazo, planificador_corto_plazo
<1>16. CASE manejar_respuesta_cpu
  BY <1>5, <1>8, <1>9, <1>10, <1>11, <1>16 DEF manejar_respuesta_cpu
<1>17. CASE procesar_file_system
  <2>1. CASE TomarPedido
    BY <2>1, <1>5
  <2>2. CASE \E p \in PROCESOS : recibir_respuesta_fs(p)
    BY <2>2, <1>13
  <2> QED BY <1>17, <2>1, <2>2, NuncaEnExec DEF procesar_file_system
<1>18. CASE UNCHANGED vars
  BY <1>5, <1>18
<1>19. CASE \E p \in PROCESOS : crear_proceso(p) \/ hilo_consola(p) \/ bloqueo_io(p)
  BY <1>12, <1>14, <1>19
<1>20. PorElDiagrama
  BY <1>15, <1>16, <1>17, <1>18, <1>19 DEF Next
<1> QED BY <1>20

-----------------------------------------------------------------------------
(* With FIFO nothing gets ahead of the process that was peeked, and so the context
   that is sent is that of the process in EXEC. *)

Despacho == /\ corto = "despachar" => candidato = Head(cola["ready"])
            /\ DespachoCorrecto

\* A step after which the process that was peeked is the head of cola_ready still,
\* and the context that was sent, that of cola_exec.
LEMMA DespachoIgual ==
  ASSUME Tardio, Despacho, corto' = corto, candidato' = candidato, contextos' = contextos,
         cola["ready"] # <<>> => Head(cola'["ready"]) = Head(cola["ready"]),
         contextos # <<>> => cola'["exec"] = cola["exec"]
  PROVE  Despacho'
<1>1. corto' = "despachar" => candidato' = Head(cola'["ready"])
  BY HayReady DEF Tardio, Despacho
<1>2. DespachoCorrecto'
  BY DEF Despacho, DespachoCorrecto
<1> QED BY <1>1, <1>2 DEF Despacho

\* A step that leaves the CPU to nobody.
LEMMA DespachoLibre ==
  ASSUME corto' # "despachar", contextos' = <<>>
  PROVE  Despacho'
BY DEF Despacho, DespachoCorrecto

\* The context that is sent alone is the first.
LEMMA Enviado ==
  ASSUME NEW p, NEW n, contextos' = Append(<<>>, [pcb |-> p, restan |-> n])
  PROVE  contextos' # <<>> /\ Head(contextos').pcb = p
<1>1. PICK c : c = [pcb |-> p, restan |-> n]
  OBVIOUS
<1>2. Append(<<>>, c) = <<c>> /\ <<c>> # <<>> /\ Head(<<c>>) = c
  BY Unitaria
<1> QED BY <1>1, <1>2

\* The process that keeps the CPU is the one in cola_exec.
LEMMA DespachoSigue ==
  ASSUME NEW p \in PROCESOS, Volvio(p), corto' = corto, cola'["exec"] = cola["exec"],
         seguir_ejecutando(p)
  PROVE  Despacho'
<1>1. corto' = "cpu" /\ cola'["exec"] = <<p>> /\ Tail(contextos) = <<>>
  BY DEF Volvio
<1>2. contextos' = Append(<<>>, [pcb |-> p, restan |-> restan'[p]])
  BY <1>1 DEF seguir_ejecutando, ejecutar_proceso
<1>3. Head(contextos').pcb = p
  BY <1>2, Enviado
<1>4. Head(cola'["exec"]) = p /\ cola'["exec"] # <<>>
  BY <1>1, Unitaria
<1> QED BY <1>1, <1>3, <1>4 DEF Despacho, DespachoCorrecto

LEMMA DespachoListo ==
  ASSUME Tardio, Despacho, ALGORITMO # "HRRN", NEW p \in PROCESOS, NEW S, Listo(p, S),
         estado[p] # "EXEC", UNCHANGED <<corto, candidato, contextos>>
  PROVE  Despacho'
<1>1. /\ cola["ready"] # <<>> => Head(cola'["ready"]) = Head(cola["ready"])
      /\ cola'["exec"] = cola["exec"]
  BY DEF Listo
<1> QED BY <1>1, DespachoIgual

LEMMA DespachoCPU ==
  ASSUME Tardio, Despacho, ALGORITMO # "HRRN", RESPUESTA_TARDIA, manejar_respuesta_cpu
  PROVE  Despacho'
<1>1. CASE TomarDeExec \/ TomarDeExecVacia
  <2>1. UNCHANGED <<corto, candidato, contextos, cola>>
    BY <1>1 DEF TomarDeExec, TomarDeExecVacia, hilos, cpu
  <2> QED BY <2>1, DespachoIgual
<1>2. CASE RevisarEstado \/ RevisarEnExec
  <2>1. RevisarEstado
    <3>1. hilo_cpu.paso = "revisar" => Terminado(hilo_cpu.pcb)
      BY DEF Tardio, Turno
    <3> QED BY <3>1, <1>2 DEF RevisarEnExec, Terminado
  <2>2. UNCHANGED <<corto, candidato, contextos, cola>>
    BY <2>1 DEF RevisarEstado, hilos
  <2> QED BY <2>2, DespachoIgual
<1>3. CASE ProcesarYield \/ ProcesarFin \/ ProcesarIO \/ WaitBloqueado \/ TurnoPerdido \/ PedirFS
  <2>1. PICK p \in PROCESOS, op \in OPERACIONES :
          Devuelto(p, op) /\ contextos' = Tail(contextos) /\ corto' = corto
    <3>1. CASE ProcesarYield \/ ProcesarIO \/ WaitBloqueado
      BY <3>1 DEF ProcesarYield, ProcesarIO, WaitBloqueado, hilos, Devuelto
    <3>2. CASE ProcesarFin \/ TurnoPerdido \/ PedirFS
      BY <3>2 DEF ProcesarFin, TurnoPerdido, PedirFS, hilos, Devuelto
    <3> QED BY <1>3, <3>1, <3>2
  <2>2. Volvio(p)
    BY <2>1, AlVolver
  <2>3. contextos' = <<>> /\ corto' # "despachar"
    BY <2>1, <2>2 DEF Volvio
  <2> QED BY <2>3, DespachoLibre
<1>4. CASE WaitConcedido \/ SignalLibera \/ ProcesarYSeguir
  <2>1. PICK p \in PROCESOS, op \in OPERACIONES :
          Devuelto(p, op) /\ corto' = corto /\ cola' = cola /\ seguir_ejecutando(p)
    BY <1>4 DEF WaitConcedido, SignalLibera, ProcesarYSeguir, hilos, Devuelto
  <2>2. Volvio(p)
    BY <2>1, AlVolver
  <2> QED BY <2>1, <2>2, DespachoSigue
<1>5. CASE SignalDespierta
  <2>1. PICK p \in PROCESOS, r \in RECURSOS :
          /\ Devuelto(p, "SIGNAL") /\ instancias[r] < 0 /\ corto' = corto
          /\ pasar_a_cola_ready(Head(cola_bloqueados[r]), TRUE, {})
          /\ seguir_ejecutando(p)
    BY <1>5 DEF SignalDespierta, hilos
  <2>2. Volvio(p)
    BY <2>1, AlVolver
  <2>3. PICK h \in PROCESOS : h = Head(cola_bloqueados[r]) /\ estado[h] = "BLOCK_RECURSO"
    BY <2>1, DelRecurso
  <2>4. Listo(h, {})
    BY <2>1, <2>3, AReady
  <2>5. cola'["exec"] = cola["exec"]
    BY <2>3, <2>4 DEF Listo
  <2> QED BY <2>1, <2>2, <2>5, DespachoSigue
<1>6. CASE QuitarDeExec \/ BloquearPorFS \/ EncolarPorFS
  <2>1. /\ hilo_cpu.paso \in {"quitar", "bloquear", "encolar"}
        /\ corto' = corto /\ contextos' = contextos
    BY <1>6 DEF QuitarDeExec, BloquearPorFS, EncolarPorFS, hilos
  <2>2. contextos' = <<>> /\ corto' # "despachar"
    BY <2>1, TurnoDelHilo
  <2> QED BY <2>2, DespachoLibre
<1> QED BY <1>1, <1>2, <1>3, <1>4, <1>5, <1>6 DEF manejar_respuesta_cpu

LEMMA DespachoSigueEnFifo ==
  ASSUME Tardio, Despacho, ALGORITMO # "HRRN", RESPUESTA_TARDIA, [Next]_vars
  PROVE  Despacho'
<1>1. ASSUME NEW p \in PROCESOS,
             crear_proceso(p) \/ AnunciarProceso(p) \/ RecogerExit(p) \/ respuesta_proceso(p)
      PROVE  Despacho'
  <2>1. /\ UNCHANGED <<corto, candidato, contextos>>
        /\ cola'["ready"] = cola["ready"] /\ cola'["exec"] = cola["exec"]
    <3>1. CASE crear_proceso(p)
      BY <3>1 DEF crear_proceso, hilos, cpu, Tardio, Siempre, TypeOK, Colas
    <3>2. CASE AnunciarProceso(p)
      BY <3>2 DEF AnunciarProceso, hilos, cpu
    <3>3. CASE RecogerExit(p)
      BY <3>3 DEF RecogerExit, hilos, cpu, Tardio, Siempre, TypeOK, Colas
    <3>4. CASE respuesta_proceso(p)
      BY <3>4 DEF respuesta_proceso, hilos, cpu
    <3> QED BY <1>1, <3>1, <3>2, <3>3, <3>4
  <2> QED BY <2>1, DespachoIgual
<1>2. CASE EsperarNuevo \/ solicitar_nueva_tabla_de_segmento
  <2>1. UNCHANGED <<corto, candidato, contextos, cola>>
    BY <1>2 DEF EsperarNuevo, solicitar_nueva_tabla_de_segmento, cpu
  <2> QED BY <2>1, DespachoIgual
<1>3. CASE AdmitirProceso
  <2>1. /\ largo = "admitir" /\ UNCHANGED <<corto, candidato, contextos>>
        /\ pasar_a_cola_ready(Head(cola["new"]), FALSE, {})
    BY <1>3 DEF AdmitirProceso, cpu
  <2>2. PICK p \in PROCESOS : p = Head(cola["new"]) /\ estado[p] = "NEW"
    BY <2>1, HayNuevo DEF Tardio
  <2>3. Listo(p, {})
    BY <2>1, <2>2, AReady
  <2> QED BY <2>1, <2>2, <2>3, DespachoListo
<1>4. CASE EsperarCPU \/ EsperarReady
  BY <1>4 DEF EsperarCPU, EsperarReady, cpu, Despacho, DespachoCorrecto
<1>5. CASE planificar
  <2>1. /\ corto = "elegir" /\ contextos' = contextos
        /\ cola' = [cola EXCEPT !["ready"] = cola["ready"]] /\ candidato' = Head(cola["ready"])
    BY <1>5 DEF planificar, PrimeroDeReady, cpu
  <2>2. contextos' = <<>> /\ candidato' = Head(cola'["ready"])
    BY <2>1, CPULibre DEF Tardio, Siempre, TypeOK, Colas
  <2> QED BY <2>2 DEF Despacho, DespachoCorrecto
<1>6. CASE pasar_a_cola_exec
  <2>1. /\ corto = "despachar" /\ corto' = "cpu"
        /\ cola' = [cola EXCEPT !["ready"] = squeue_pop(@),
                                !["exec"] = Append(@, Head(cola["ready"]))]
        /\ contextos' = Append(contextos, [pcb |-> candidato, restan |-> restan[candidato]])
    BY <1>6 DEF pasar_a_cola_exec, ejecutar_proceso
  <2>2. PICK p \in PROCESOS : p = Head(cola["ready"])
    BY <2>1, HayReady, Desencolar DEF Tardio
  <2>3. cola["exec"] = <<>> /\ contextos = <<>> /\ candidato = p
    BY <2>1, <2>2, CPULibre DEF Despacho
  <2>4. Head(contextos').pcb = p
    <3>1. contextos' = Append(<<>>, [pcb |-> p, restan |-> restan[candidato]])
      BY <2>1, <2>3
    <3> QED BY <3>1, Enviado
  <2>5. Append(<<>>, p) = <<p>> /\ <<p>> # <<>> /\ Head(<<p>>) = p
    BY Unitaria
  <2>6. cola'["exec"] = <<p>>
    BY <2>1, <2>2, <2>3, <2>5 DEF Tardio, Siempre, TypeOK, Colas
  <2> QED BY <2>1, <2>4, <2>5, <2>6 DEF Despacho, DespachoCorrecto
<1>7. ASSUME NEW p \in PROCESOS, bloqueo_io(p)
      PROVE  Despacho'
  <2>1. /\ p \in en_io /\ UNCHANGED <<corto, candidato, contextos>>
        /\ pasar_a_cola_ready(p, TRUE, {})
    BY <1>7 DEF bloqueo_io, hilos, cpu
  <2>2. estado[p] = "BLOCK"
    BY <2>1 DEF Tardio, Lugar, LugarDe
  <2>3. Listo(p, {})
    BY <2>1, <2>2, AReady
  <2> QED BY <2>1, <2>2, <2>3, DespachoListo
<1>8. CASE TomarPedido
  <2>1. UNCHANGED <<corto, candidato, contextos, cola>>
    BY <1>8 DEF TomarPedido, hilos, cpu
  <2> QED BY <2>1, DespachoIgual
<1>9. ASSUME NEW p \in PROCESOS, recibir_respuesta_fs(p)
      PROVE  Despacho'
  <2>1. Respondido(p) /\ pasar_a_cola_ready(p, FALSE, {})
    BY <1>9 DEF recibir_respuesta_fs
  <2>2. estado[p] = "BLOCK" /\ UNCHANGED <<corto, candidato, contextos>>
    BY <2>1, AlResponder DEF Respondido, hilos, cpu
  <2>3. Listo(p, {})
    BY <2>1, <2>2, AReady
  <2> QED BY <2>2, <2>3, DespachoListo
<1>10. CASE UNCHANGED vars
  <2>1. UNCHANGED <<corto, candidato, contextos, cola>>
    BY <1>10 DEF vars, hilos, cpu
  <2> QED BY <2>1, DespachoIgual
<1>11. CASE \E p \in PROCESOS : crear_proceso(p) \/ hilo_consola(p) \/ bloqueo_io(p)
  BY <1>1, <1>7, <1>11 DEF hilo_consola
<1>12. CASE planificador_largo_plazo \/ planificador_corto_plazo
  BY <1>2, <1>3, <1>4, <1>5, <1>6, <1>12 DEF planificador_largo_plazo, planificador_corto_plazo
<1>13. CASE procesar_file_system
  <2>1. CASE \E p \in PROCESOS : recibir_respuesta_fs(p)
    BY <2>1, <1>9
  <2> QED BY <1>8, <1>13, <2>1, NuncaEnExec DEF procesar_file_system
<1> QED BY <1>10, <1>11, <1>12, <1>13, DespachoCPU DEF Next

-----------------------------------------------------------------------------
(* What a reader should know *)

\* With late answers the agreement of queues, states, consoles and tables holds
\* in every state.
THEOREM TardiaInvariante ==
  ASSUME RESPUESTA_TARDIA
  PROVE  Spec => []Tardio
<1>1. Init => Tardio
  BY InicioTardio
<1>2. Tardio /\ [Next]_vars => Tardio'
  BY TardioSigue
<1> QED BY <1>1, <1>2, PTL DEF Spec

\* The turn of the CPU is in one place at a time: with late answers, or whatever the
\* answers as long as no program makes a segment.
THEOREM UnSoloTurno == Spec => []TurnoUnico
<1>1. Siempre => (EstadoFiable /\ ~ RESPUESTA_TARDIA => TurnoCierto)
  BY DEF EstadoFiable, SinRevisar, Siempre, EnCPU
<1>2. CASE RESPUESTA_TARDIA
  <2>1. Tardio => TurnoUnico
    BY DEF Tardio, Turno, TurnoCierto, TurnoUnico
  <2> QED BY <1>2, <2>1, TardiaInvariante, PTL
<1>3. CASE ~ RESPUESTA_TARDIA
  <2>1. Siempre => TurnoUnico
    BY <1>1, <1>3 DEF TurnoCierto, TurnoUnico
  <2> QED BY <2>1, SiempreInvariante, PTL
<1> QED BY <1>2, <1>3

\* A console that wakes finds a process in cola_exit.
THEOREM ExitBienContado ==
  ASSUME RESPUESTA_TARDIA
  PROVE  Spec => []ExitContados
<1>1. Tardio => ExitContados
  BY DEF Tardio, Vida
<1> QED BY <1>1, TardiaInvariante, PTL

\* Every process is in the queue of its state and in no other, once.
THEOREM UnaColaPorProceso ==
  ASSUME RESPUESTA_TARDIA
  PROVE  Spec => []EnUnaSolaCola
<1>1. Tardio => EnUnaSolaCola
  BY UnaSolaCola
<1> QED BY <1>1, TardiaInvariante, PTL

\* A process has a segment table from its admission to its end, and a compaction
\* finds it in procesos_en_kernel, unless its console has yet to register it.
THEOREM TablasDelKernel ==
  ASSUME RESPUESTA_TARDIA
  PROVE  Spec => []TablasSincronizables
<1>1. ASSUME Tardio PROVE TablasSincronizables
  <2>1. ASSUME NEW p \in PROCESOS
        PROVE  /\ p \in con_tabla => p \in procesos_en_kernel \/ consola[p] = "anuncia"
               /\ IF estado[p] = "NEW"
                  THEN p \in con_tabla => largo = "admitir" /\ p = Head(cola["new"])
                  ELSE p \in con_tabla <=>
                       estado[p] \in {"READY", "EXEC", "BLOCK", "BLOCK_RECURSO"}
    <3>1. VidaDe(p)
      BY <1>1 DEF Tardio, Vida
    <3> QED BY <3>1 DEF VidaDe, Terminado, EnMemoria
  <2>2. con_tabla \subseteq PROCESOS
    BY <1>1 DEF Tardio, Siempre, TypeOK
  <2> QED BY <2>1, <2>2 DEF TablasSincronizables
<1> QED BY <1>1, TardiaInvariante, PTL

\* No thread moves a process along an arrow the diagram of states does not have.
THEOREM SegunElDiagrama ==
  ASSUME RESPUESTA_TARDIA
  PROVE  Spec => DiagramaDeEstados
<1>1. Tardio /\ [Next]_vars => PorElDiagrama
  BY SoloTransiciones
<1>2. Tardio /\ [Next]_vars =>
        [\A p \in PROCESOS : estado'[p] # estado[p] =>
           <<estado[p], estado'[p]>> \in Transiciones]_vars
  BY <1>1 DEF PorElDiagrama
<1> QED BY <1>2, TardiaInvariante, PTL DEF Spec, DiagramaDeEstados

\* Under FIFO the CPU runs the process the kernel believes to be in EXEC: nothing
\* enters cola_ready ahead of the process that was peeked.  (Under HRRN a run shows
\* the opposite.)
THEOREM DespachoEnFifo ==
  ASSUME ALGORITMO # "HRRN", RESPUESTA_TARDIA
  PROVE  Spec => []DespachoCorrecto
<1>1. Init => Despacho
  BY DEF Init, Despacho, DespachoCorrecto
<1>2. Tardio /\ Despacho /\ [Next]_vars => Despacho'
  BY DespachoSigueEnFifo
<1>3. Despacho => DespachoCorrecto
  BY DEF Despacho
<1> QED BY <1>1, <1>2, <1>3, TardiaInvariante, PTL DEF Spec
=============================================================================
