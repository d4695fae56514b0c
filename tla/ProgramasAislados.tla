-------------------------- MODULE ProgramasAislados --------------------------
(***************************************************************************)
(* What the CPU promises the programs: each has registers and memory of    *)
(* its own, and nobody else changes them.  A register holds a string,      *)
(* which SET and MOV_IN cut to its width; MOV_OUT writes the whole width,  *)
(* and what it writes after the end of the string is zeros, except for the *)
(* registers of CON_RESTO, where it may be anything.                       *)
(***************************************************************************)
EXTENDS Naturals, Sequences

CONSTANTS PROCESOS, REGISTROS, CON_RESTO,
          ANCHO,        \* of each register
          TAM,          \* bytes of the memory of a program
          NUL, LETRAS,
          CADENAS       \* operands of SET

VARIABLES registro,   \* of each program: register -> string
          celdas,     \* of each program: address -> byte
          cuenta      \* of each program: instructions executed

vars == <<registro, celdas, cuenta>>

Bytes == LETRAS \cup {NUL}

Init == /\ registro = [p \in PROCESOS |-> [r \in REGISTROS |-> <<>>]]
        /\ celdas = [p \in PROCESOS |-> [a \in 0 .. TAM - 1 |-> NUL]]
        /\ cuenta = [p \in PROCESOS |-> 0]

Cortada(s, n) == IF Len(s) <= n THEN s ELSE SubSeq(s, 1, n)

\* The string that starts at address a, of n bytes at most.
Cadena(bytes, a, n) ==
  LET fin == CHOOSE k \in 0 .. n : /\ \A j \in 0 .. k - 1 : bytes[a + j] # NUL
                                   /\ k = n \/ bytes[a + k] = NUL
  IN  [j \in 1 .. fin |-> bytes[a + j - 1]]

Set(p, r, s) ==
  /\ registro' = [registro EXCEPT ![p][r] = Cortada(s, ANCHO[r])]
  /\ UNCHANGED celdas

MovIn(p, r, a) ==
  /\ a + ANCHO[r] <= TAM
  /\ registro' = [registro EXCEPT ![p][r] = Cadena(celdas[p], a, ANCHO[r])]
  /\ UNCHANGED celdas

MovOut(p, r, a) ==
  /\ a + ANCHO[r] <= TAM
  /\ \E resto \in [1 .. ANCHO[r] -> IF r \in CON_RESTO THEN Bytes ELSE {NUL}] :
       celdas' = [celdas EXCEPT ![p] =
         [b \in 0 .. TAM - 1 |->
            IF b \notin a .. a + ANCHO[r] - 1 THEN @[b]
            ELSE IF b - a < Len(registro[p][r]) THEN registro[p][r][b - a + 1]
            ELSE IF b - a = Len(registro[p][r]) THEN NUL
            ELSE resto[b - a + 1]]]
  /\ UNCHANGED registro

Otra(p) == UNCHANGED <<registro, celdas>>

Paso(p) ==
  /\ \/ \E r \in REGISTROS, s \in CADENAS : Set(p, r, s)
     \/ \E r \in REGISTROS, a \in 0 .. TAM - 1 : MovIn(p, r, a) \/ MovOut(p, r, a)
     \/ Otra(p)
  /\ cuenta' = [cuenta EXCEPT ![p] = @ + 1]

Next == \E p \in PROCESOS : Paso(p)

Spec == Init /\ [][Next]_vars
==============================================================================
