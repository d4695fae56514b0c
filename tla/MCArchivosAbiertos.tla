------------------------- MODULE MCArchivosAbiertos -------------------------
(* Three programs and two files: a queue with two that wait, and a cycle. *)
EXTENDS ArchivosAbiertos
CONSTANTS p1, p2, p3, f1, f2

Tres == {p1, p2, p3}
DosArchivos == {f1, f2}
Seeks == {1}
==============================================================================
