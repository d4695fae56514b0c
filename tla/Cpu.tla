--------------------------------- MODULE Cpu ---------------------------------
(***************************************************************************)
(* The CPU: the instruction cycle, its registers, and the way a register   *)
(* travels, as a C string or as an array of bytes, between registros_cpu,  *)
(* the context of the process in the CPU and its pcb in the kernel.        *)
(*                                                                         *)
(* Abstractions.  Every instruction but SET, MOV_IN, MOV_OUT and EXIT      *)
(* returns the process to the kernel and it runs again later; what those   *)
(* requests do is in other modules.  The schedulers pick any process; the  *)
(* one they move to EXEC is the one whose context they send, except under  *)
(* HRRN, where another may enter READY ahead of it between the two         *)
(* (DespachoCorrecto in Planificacion).  The file system answers a process *)
(* after it is blocked, so that nobody takes it out of EXEC while it runs. *)
(* Memory is that of each program by itself, without residues of an        *)
(* earlier segment: Memoria and Compactacion show that the bytes an        *)
(* address reaches are its own.  An array of n + 1 chars is a function on  *)
(* 1 .. n + 1.                                                             *)
(***************************************************************************)
EXTENDS Naturals, Sequences

CONSTANTS PROCESOS, NADIE,
          REGISTROS_4, REGISTROS_8,   \* names, by the array they are in
          CON_RESTO,                  \* AX and BX
          ANCHO, TAM, NUL, LETRAS, CADENAS,
          ALGORITMO,                  \* "FIFO" or "HRRN"
          LARGO                       \* bound on the instructions of a program

REGISTROS == REGISTROS_4 \cup REGISTROS_8

ASSUME AnchosValidos ==
         /\ \A r \in REGISTROS : ANCHO[r] \in Nat \ {0} /\ ANCHO[r] <= TAM
         /\ CON_RESTO \subseteq REGISTROS_4 /\ NUL \notin LETRAS
         /\ NADIE \notin PROCESOS /\ LARGO \in Nat /\ TAM \in Nat
         /\ CADENAS \subseteq Seq(LETRAS)

VARIABLES
  estado,           \* of each pcb: "READY", "EXEC" or "EXIT"
  registros,        \* of each pcb: t_registro
  program_counter,  \* of each pcb
  en_exec,          \* the head of cola_exec
  proceso,          \* the context in the CPU: pid, program_counter, registros
  registros_cpu,
  espacio           \* the memory of each program

pcbs == <<estado, registros, program_counter, en_exec>>
vars == <<pcbs, proceso, registros_cpu, espacio>>

Bytes == LETRAS \cup {NUL}
Arreglo(r) == [1 .. ANCHO[r] + 1 -> Bytes]
Contextos == [pid : PROCESOS, program_counter : Nat,
              registros : [REGISTROS -> UNION {Arreglo(r) : r \in REGISTROS}]]
Ceros == [r \in REGISTROS |-> [k \in 1 .. ANCHO[r] + 1 |-> NUL]]

ASSUME NadieNoEsContexto == NADIE \notin Contextos

-----------------------------------------------------------------------------
(* The string functions of C.  An array without a terminator reads as if one
   came right after it. *)

strlen(b) ==
  CHOOSE n \in 0 .. Len(b) : /\ \A k \in 1 .. n : b[k] # NUL
                             /\ n = Len(b) \/ b[n + 1] = NUL

cadena(b) == SubSeq(b, 1, strlen(b))

strcpy(destino, origen) ==
  [k \in DOMAIN destino |-> IF k <= strlen(origen) THEN origen[k]
                            ELSE IF k = strlen(origen) + 1 THEN NUL ELSE destino[k]]

strncpy(destino, origen, n) ==
  [k \in DOMAIN destino |-> IF k > n THEN destino[k]
                            ELSE IF k <= strlen(origen) THEN origen[k] ELSE NUL]

-----------------------------------------------------------------------------
(* Registers *)

\* Mutant: the copy is one byte longer than the register.
CopiarUnoMas(regs, r, valor) ==
  [regs EXCEPT ![r] = strncpy(@, valor, ANCHO[r] + 1)]

set_valor_registro(regs, r, valor) ==
  [regs EXCEPT ![r] = strncpy(@, valor, ANCHO[r])]

\* Mutant: the registers of 8 bytes are left as they were.
SetearSoloDeCuatro(regs, r) ==
  IF r \in CON_RESTO THEN strcpy(registros_cpu[r], regs[r])
  ELSE IF r \in REGISTROS_8 THEN registros_cpu[r]
  ELSE strncpy(registros_cpu[r], regs[r], ANCHO[r] + 1)

\* AX and BX are copied up to their terminator, the rest padded with zeros.
setear_registro(regs, r) ==
  IF r \in CON_RESTO THEN strcpy(registros_cpu[r], regs[r])
  ELSE strncpy(registros_cpu[r], regs[r], ANCHO[r] + 1)

actualizar_registros_pcb(regs) ==
  [r \in REGISTROS |-> strcpy(regs[r], registros_cpu[r])]

\* The size it divides is that of a pointer: AX alone is emptied.
limpiar_registros_cpu(regs) ==
  [r \in REGISTROS |-> IF r = "AX" THEN strcpy(regs[r], <<>>) ELSE regs[r]]

-----------------------------------------------------------------------------
(* Contexts *)

\* What the kernel sends of a pcb.  Instructions and segments are left out.
enviar_contexto(p) ==
  [pid |-> p, program_counter |-> program_counter[p], registros |-> registros[p]]

\* Every array is copied whole, terminator included.
recibir_contexto(c) ==
  [c EXCEPT !.registros = [r \in REGISTROS |-> [k \in 1 .. ANCHO[r] + 1 |-> @[r][k]]]]

\* Into the pcb at the head of cola_exec, whatever the pid of the context.
actualizar_pcb(c) ==
  /\ registros' = [registros EXCEPT ![en_exec] = c.registros]
  /\ program_counter' = [program_counter EXCEPT ![en_exec] = c.program_counter]

-----------------------------------------------------------------------------
Init ==
  /\ estado = [p \in PROCESOS |-> "READY"]
  /\ registros = [p \in PROCESOS |-> Ceros]
  /\ program_counter = [p \in PROCESOS |-> 0]
  /\ en_exec = NADIE /\ proceso = NADIE
  /\ registros_cpu = Ceros
  /\ espacio = [p \in PROCESOS |-> [a \in 0 .. TAM - 1 |-> NUL]]

\* The kernel pops e from cola_ready into EXEC and sends the context of p, which
\* it had peeked; correr_servidor in the CPU.
ejecutar_proceso(p, e) ==
  /\ proceso = NADIE /\ estado[p] = "READY" /\ estado[e] = "READY"
  /\ ALGORITMO # "HRRN" => e = p
  /\ estado' = [estado EXCEPT ![e] = "EXEC"]
  /\ en_exec' = e
  /\ proceso' = recibir_contexto(enviar_contexto(p))
  /\ registros_cpu' = [r \in REGISTROS |-> setear_registro(registros[p], r)]
  /\ UNCHANGED <<registros, program_counter, espacio>>

\* ciclo_de_instruccion takes an instruction and counts it before it executes it.
Tomar == proceso # NADIE /\ proceso.program_counter < LARGO

Contar == proceso' = [proceso EXCEPT !.program_counter = @ + 1]

execute_set(r, valor) ==
  /\ Tomar /\ Contar
  /\ registros_cpu' = set_valor_registro(registros_cpu, r, valor)
  /\ UNCHANGED <<pcbs, espacio>>

\* Memory answers with a string: what follows a zero is not sent.
execute_mov_in(r, a) ==
  /\ Tomar /\ Contar
  /\ a + ANCHO[r] <= TAM
  /\ registros_cpu' =
       set_valor_registro(registros_cpu, r,
         cadena([k \in 1 .. ANCHO[r] |-> espacio[proceso.pid][a + k - 1]]))
  /\ UNCHANGED <<pcbs, espacio>>

\* The bytes of the register go whole.
execute_mov_out(r, a) ==
  /\ Tomar /\ Contar
  /\ a + ANCHO[r] <= TAM
  /\ espacio' = [espacio EXCEPT ![proceso.pid] =
       [b \in 0 .. TAM - 1 |-> IF b \in a .. a + ANCHO[r] - 1
                               THEN registros_cpu[r][b - a + 1] ELSE @[b]]]
  /\ UNCHANGED <<pcbs, registros_cpu>>

\* devolver_proceso; the pcb in EXEC is updated and leaves it.
devolver_proceso(e) ==
  /\ Tomar
  /\ actualizar_pcb(recibir_contexto(
       [proceso EXCEPT !.program_counter = @ + 1, !.registros = actualizar_registros_pcb(@)]))
  /\ estado' = [estado EXCEPT ![en_exec] = e]
  /\ en_exec' = NADIE
  /\ registros_cpu' = limpiar_registros_cpu(registros_cpu)
  /\ proceso' = NADIE
  /\ UNCHANGED espacio

\* An instruction of the kernel after which the process goes on, and EXIT or a
\* SEG_FAULT.
DevolverYSeguir == devolver_proceso("READY")
DevolverYTerminar == devolver_proceso("EXIT")

Next ==
  \/ \E p, e \in PROCESOS : ejecutar_proceso(p, e)
  \/ \E r \in REGISTROS :
       \/ \E valor \in CADENAS : execute_set(r, valor)
       \/ \E a \in 0 .. TAM - 1 : execute_mov_in(r, a) \/ execute_mov_out(r, a)
  \/ DevolverYSeguir
  \/ DevolverYTerminar

Spec == Init /\ [][Next]_vars

-----------------------------------------------------------------------------
(* Properties *)

\* Every variable has its type and every register, wherever it is, ends in a
\* zero that no operand is long enough to overwrite.
TypeOK ==
  LET EsRegistro(regs) == \A r \in REGISTROS : regs[r] \in Arreglo(r) /\ regs[r][ANCHO[r] + 1] = NUL
  IN  /\ estado \in [PROCESOS -> {"READY", "EXEC", "EXIT"}]
      /\ program_counter \in [PROCESOS -> 0 .. LARGO]
      /\ \A p \in PROCESOS : EsRegistro(registros[p])
      /\ EsRegistro(registros_cpu)
      /\ {p \in PROCESOS : estado[p] = "EXEC"} = {en_exec} \ {NADIE}
      /\ IF proceso = NADIE THEN en_exec = NADIE
         ELSE /\ en_exec \in PROCESOS /\ proceso.pid \in PROCESOS
              /\ EsRegistro(proceso.registros)
      /\ espacio \in [PROCESOS -> [0 .. TAM - 1 -> Bytes]]

\* The registers and the count of a program, in the CPU or in its pcb.
EnCpu(p) == proceso # NADIE /\ proceso.pid = p

Aislados == INSTANCE ProgramasAislados WITH
  registro <- [p \in PROCESOS |-> [r \in REGISTROS |->
                 cadena(IF EnCpu(p) THEN registros_cpu[r] ELSE registros[p][r])]],
  celdas   <- espacio,
  cuenta   <- [p \in PROCESOS |-> IF EnCpu(p) THEN proceso.program_counter
                                  ELSE program_counter[p]]

\* If the process in EXEC is the one whose context was sent (ALGORITMO # "HRRN"), a
\* program cannot tell that others used the CPU in between: whatever the
\* registers held, none is lost, mixed up or left over from another program, no
\* instruction is skipped or executed twice, and only what AX and BX hold after
\* the end of their string may be somebody else's.  Under HRRN what comes back
\* may be stored in the pcb of another process.
ImplementaAislados == Aislados!Spec
==============================================================================
