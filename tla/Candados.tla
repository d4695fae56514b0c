------------------------------ MODULE Candados ------------------------------
(***************************************************************************)
(* What the table of open files promises the programs: F_OPEN and F_CLOSE  *)
(* are the lock and the unlock of the file, and those who wait get it in   *)
(* the order they asked for it.                                            *)
(***************************************************************************)
EXTENDS Sequences

CONSTANTS PROCESOS, ARCHIVOS, NADIE

VARIABLES duenio,   \* who has each file open
          espera    \* who waits for it, in order

vars == <<duenio, espera>>

Esperan(f) == {espera[f][i] : i \in DOMAIN espera[f]}

Init == /\ duenio = [f \in ARCHIVOS |-> NADIE]
        /\ espera = [f \in ARCHIVOS |-> <<>>]

Tomar(p, f) ==
  /\ duenio[f] = NADIE
  /\ \A g \in ARCHIVOS : p \notin Esperan(g)
  /\ duenio' = [duenio EXCEPT ![f] = p]
  /\ UNCHANGED espera

\* Only a file that somebody else has open is waited for.
Esperar(p, f) ==
  /\ duenio[f] \notin {NADIE, p}
  /\ \A g \in ARCHIVOS : p \notin Esperan(g)
  /\ espera' = [espera EXCEPT ![f] = Append(@, p)]
  /\ UNCHANGED duenio

Soltar(p, f) ==
  /\ duenio[f] = p
  /\ \/ espera[f] = <<>> /\ duenio' = [duenio EXCEPT ![f] = NADIE] /\ UNCHANGED espera
     \/ /\ espera[f] # <<>>
        /\ duenio' = [duenio EXCEPT ![f] = Head(espera[f])]
        /\ espera' = [espera EXCEPT ![f] = Tail(@)]

Next == \E p \in PROCESOS, f \in ARCHIVOS :
          Tomar(p, f) \/ Esperar(p, f) \/ Soltar(p, f)

Spec == Init /\ [][Next]_vars
==============================================================================
