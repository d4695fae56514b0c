--------------------------- MODULE MCCompactacion ---------------------------
(* Two processes and three bytes besides segment 0: a segment of one process
   that must move to make room for one of the other. *)
EXTENDS Compactacion

Dos == {1, 2}
UnId == {1}
UnoYDos == {1, 2}
UnValor == {0}
==============================================================================
