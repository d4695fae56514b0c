--------------------------- MODULE MCPlanificacion ---------------------------
(* Planificacion for TLC: the processes are interchangeable. *)
EXTENDS Planificacion

Simetria == Permutations(PROCESOS)
UnaInstancia == [r \in RECURSOS |-> 1]
SinInstancias == [r \in RECURSOS |-> 0]
=============================================================================
