-------------------------------- MODULE MCCpu --------------------------------
(* Two programs; registers of two and three bytes, for those of 4, 8 and 16;
   an operand shorter than both widths and one as long or longer. *)
EXTENDS Cpu

Dos == {"p1", "p2"}
Cuatro == {"AX", "CX"}
Ocho == {"EAX"}
SoloAX == {"AX"}
Anchos == [r \in {"AX", "CX", "EAX"} |-> IF r = "EAX" THEN 3 ELSE 2]
Letras == {"a", "b"}
Cadenas == {<<"a">>, <<"b", "b", "a">>}
==============================================================================
