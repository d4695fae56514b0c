------------------------------ MODULE MCMemoria ------------------------------
(* Memoria with the constants of a .cfg; the processes are interchangeable. *)
EXTENDS Memoria, TLC

Simetria == Permutations(PIDS) \cup Permutations(VALORES)
==============================================================================
