---------------------------- MODULE MCFileSystem ----------------------------
(* FileSystem for TLC: the sizes asked for and the files found at the start. *)
EXTENDS FileSystem, TLC

CONSTANTS a, b

Fcb(tamanio, directo) == [tamanio |-> tamanio, directo |-> directo, indirecto |-> NULO]

\* File a was made by an earlier run and has the first block; nobody empties it.
ConBloqueCero   == a :> Fcb(BLOCK_SIZE, 0)
PrimeroNoVacio  == (a :> {2, 4, 7}) @@ (b :> {0, 1, 4, 6})
Ninguno         == <<>>
CualquierTamanio == [f \in ARCHIVOS |-> {0, 2, 4, 6}]
=============================================================================
