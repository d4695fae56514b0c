------------------------------ MODULE CpuProofs ------------------------------
(***************************************************************************)
(* The CPU keeps the registers of each program apart, for every set of     *)
(* programs and registers and every width of these, when the context it    *)
(* has is that of the process in EXEC: the copies that strcpy and strncpy  *)
(* make on the way to the CPU and back lose no character and leave none    *)
(* behind.                                                                 *)
(***************************************************************************)
EXTENDS Cpu, SecuenciasProofs

-----------------------------------------------------------------------------
(* Strings *)

LEMMA StrlenEs ==
  ASSUME NEW b \in Seq(Bytes)
  PROVE  /\ strlen(b) \in 0 .. Len(b)
         /\ \A k \in 1 .. strlen(b) : b[k] # NUL
         /\ strlen(b) = Len(b) \/ b[strlen(b) + 1] = NUL
         /\ \A n \in 0 .. Len(b) :
              (\A k \in 1 .. n : b[k] # NUL) /\ (n = Len(b) \/ b[n + 1] = NUL)
                => strlen(b) = n
<1> DEFINE P(n) == (\A k \in 1 .. n : b[k] # NUL) /\ (n = Len(b) \/ b[n + 1] = NUL)
           I == {n \in 0 .. Len(b) : n = Len(b) \/ b[n + 1] = NUL}
<1>1. Len(b) \in Nat
  BY LenProperties
<1>2. Len(b) \in I /\ I \in SUBSET Nat
  BY <1>1
<1>3. PICK m \in I : \A k \in I : m <= k
  <2> HIDE DEF I
  <2> QED BY <1>2, MinimoExiste
<1>4. P(m) /\ m \in 0 .. Len(b)
  <2>1. ASSUME NEW k \in 1 .. m, b[k] = NUL PROVE FALSE
    <3>1. k - 1 \in I
      BY <1>1, <1>3, <2>1
    <3>2. m <= k - 1
      BY <1>3, <3>1
    <3>3. m \in Nat
      BY <1>2, <1>3
    <3> HIDE DEF I
    <3> QED BY <2>1, <3>2, <3>3
  <2> QED BY <1>3, <2>1
<1>5. \A n \in 0 .. Len(b) : P(n) => n = m
  <2>1. ASSUME NEW n \in 0 .. Len(b), P(n) PROVE n = m
    <3>1. m <= n
      BY <1>3, <2>1
    <3>2. ASSUME m < n PROVE FALSE
      <4>1. b[m + 1] = NUL /\ m + 1 \in 1 .. n
        BY <1>1, <1>4, <2>1, <3>2
      <4> QED BY <2>1, <4>1
    <3> QED BY <1>1, <1>4, <2>1, <3>1, <3>2
  <2> QED BY <2>1
<1>6. strlen(b) = CHOOSE n \in 0 .. Len(b) : P(n)
  BY DEF strlen
<1>7. strlen(b) = m
  <2> HIDE DEF P
  <2> QED BY <1>4, <1>5, <1>6
<1> QED BY <1>4, <1>5, <1>7

LEMMA CadenaEs ==
  ASSUME NEW b \in Seq(Bytes)
  PROVE  /\ cadena(b) \in Seq(LETRAS)
         /\ Len(cadena(b)) = strlen(b)
         /\ \A k \in 1 .. strlen(b) : cadena(b)[k] = b[k]
<1>1. Len(b) \in Nat /\ strlen(b) \in 0 .. Len(b) /\ \A k \in 1 .. strlen(b) : b[k] # NUL
  BY StrlenEs, LenProperties
<1>2. \A k \in 1 .. strlen(b) : b[k] \in LETRAS
  BY <1>1, ElementOfSeq DEF Bytes
<1>3. cadena(b) = [k \in 1 .. strlen(b) |-> b[k]]
  BY <1>1 DEF cadena
<1> QED BY <1>1, <1>2, <1>3

\* Two arrays with the same string in front have the same string.
LEMMA MismaCadena ==
  ASSUME NEW b \in Seq(Bytes), NEW s \in Seq(LETRAS), Len(s) <= Len(b),
         \A k \in 1 .. Len(s) : b[k] = s[k],
         Len(s) = Len(b) \/ b[Len(s) + 1] = NUL
  PROVE  cadena(b) = s /\ strlen(b) = Len(s)
<1>1. Len(s) \in Nat /\ Len(b) \in Nat /\ \A k \in 1 .. Len(s) : s[k] \in LETRAS
  BY LenProperties, ElementOfSeq
<1>2. strlen(b) = Len(s)
  <2>1. \A k \in 1 .. Len(s) : b[k] # NUL
    BY <1>1, AnchosValidos
  <2> QED BY <1>1, <2>1, StrlenEs
<1>3. cadena(b) \in Seq(LETRAS) /\ Len(cadena(b)) = Len(s)
      /\ \A k \in 1 .. Len(s) : cadena(b)[k] = s[k]
  BY <1>2, CadenaEs
<1> QED BY <1>2, <1>3, SeqEqual

\* strcpy into an array that is long enough.
LEMMA Copiar ==
  ASSUME NEW m \in Nat, NEW d \in [1 .. m -> Bytes], NEW o \in Seq(Bytes), strlen(o) < m,
         d[m] = NUL, NEW g, g = strcpy(d, o)
  PROVE  /\ g \in [1 .. m -> Bytes] /\ g[m] = NUL
         /\ cadena(g) = cadena(o)
<1>1. /\ strlen(o) \in Nat /\ Len(o) \in Nat /\ strlen(o) <= Len(o)
      /\ \A k \in 1 .. strlen(o) : o[k] \in Bytes
  BY StrlenEs, LenProperties, ElementOfSeq
<1>2. g = [k \in 1 .. m |-> IF k <= strlen(o) THEN o[k]
                            ELSE IF k = strlen(o) + 1 THEN NUL ELSE d[k]]
  BY DEF strcpy
<1>3. g \in [1 .. m -> Bytes]
  <2>1. NUL \in Bytes
    BY DEF Bytes
  <2> QED BY <1>1, <1>2, <2>1
<1>4. g \in Seq(Bytes) /\ Len(g) = m
  BY <1>3
<1>5. PICK s \in Seq(LETRAS) : /\ s = cadena(o) /\ Len(s) = strlen(o)
                               /\ \A k \in 1 .. strlen(o) : s[k] = o[k]
  BY CadenaEs
<1>6. (\A k \in 1 .. Len(s) : g[k] = s[k]) /\ g[Len(s) + 1] = NUL
  BY <1>1, <1>2, <1>5
<1>7. cadena(g) = s
  BY SMTT(20), <1>1, <1>4, <1>5, <1>6, MismaCadena
<1> QED BY <1>1, <1>2, <1>3, <1>5, <1>7

\* strncpy cuts the string to n characters and pads it with zeros up to them.
LEMMA CopiarN ==
  ASSUME NEW m \in Nat, NEW n \in 0 .. m, NEW d \in [1 .. m -> Bytes], NEW o \in Seq(Bytes),
         n = m \/ d[n + 1] = NUL, NEW g, g = strncpy(d, o, n)
  PROVE  /\ g \in [1 .. m -> Bytes]
         /\ cadena(g) = Aislados!Cortada(cadena(o), n)
         /\ strlen(g) <= n /\ strlen(g) <= strlen(o)
         /\ \A k \in strlen(g) + 1 .. n : g[k] = NUL
         /\ \A k \in n + 1 .. m : g[k] = d[k]
<1>1. /\ strlen(o) \in Nat /\ Len(o) \in Nat /\ strlen(o) <= Len(o)
      /\ \A k \in 1 .. strlen(o) : o[k] \in Bytes
  BY StrlenEs, LenProperties, ElementOfSeq
<1>2. g = [k \in 1 .. m |-> IF k > n THEN d[k] ELSE IF k <= strlen(o) THEN o[k] ELSE NUL]
  BY DEF strncpy
<1>3. g \in [1 .. m -> Bytes]
  <2>1. NUL \in Bytes
    BY DEF Bytes
  <2> QED BY <1>1, <1>2, <2>1
<1>4. g \in Seq(Bytes) /\ Len(g) = m
  BY <1>3
<1>5. PICK s \in Seq(LETRAS) : /\ s = cadena(o) /\ Len(s) = strlen(o)
                               /\ \A k \in 1 .. strlen(o) : s[k] = o[k]
  BY CadenaEs
<1>6. PICK c \in Seq(LETRAS) : /\ c = Aislados!Cortada(s, n)
                               /\ Len(c) = IF strlen(o) <= n THEN strlen(o) ELSE n
                               /\ \A k \in 1 .. Len(c) : c[k] = o[k]
  <2>1. CASE strlen(o) <= n
    BY <1>5, <2>1 DEF Aislados!Cortada
  <2>2. CASE ~ (strlen(o) <= n)
    <3>1. Aislados!Cortada(s, n) = SubSeq(s, 1, n)
      BY <1>5, <2>2 DEF Aislados!Cortada
    <3>2. SubSeq(s, 1, n) = [k \in 1 .. n |-> s[k]] /\ \A k \in 1 .. n : s[k] \in LETRAS
      BY <1>1, <1>5, <2>2, ElementOfSeq
    <3>3. PICK t : t = [k \in 1 .. n |-> s[k]]
      OBVIOUS
    <3>4. t \in Seq(LETRAS) /\ Len(t) = n /\ \A k \in 1 .. n : t[k] = o[k]
      <4>1. n \in Nat /\ t \in [1 .. n -> LETRAS]
        BY <3>2, <3>3
      <4>2. t \in Seq(LETRAS) /\ Len(t) = n
        BY <4>1
      <4>3. ASSUME NEW k \in 1 .. n PROVE t[k] = o[k]
        <5>1. k \in 1 .. strlen(o)
          BY <1>1, <2>2, <4>1
        <5> QED BY <1>5, <3>3, <5>1
      <4> QED BY <4>2, <4>3
    <3>5. t = Aislados!Cortada(s, n)
      BY <3>1, <3>2, <3>3
    <3> QED BY <2>2, <3>4, <3>5
  <2> QED BY <2>1, <2>2
<1>7. m \in Nat /\ n \in Nat /\ n <= m /\ Len(c) \in Nat /\ Len(c) <= n /\ Len(c) <= strlen(o)
  BY <1>1, <1>6
<1>8. \A k \in 1 .. Len(c) : g[k] = c[k]
  BY <1>1, <1>2, <1>6, <1>7
<1>9. \A k \in Len(c) + 1 .. n : g[k] = NUL
  BY <1>1, <1>2, <1>6, <1>7
<1>10. Len(c) = m \/ g[Len(c) + 1] = NUL
  <2>1. CASE Len(c) < n
    BY <1>7, <1>9, <2>1
  <2>2. CASE Len(c) = n /\ n < m
    BY <1>2, <1>7, <2>2
  <2> QED BY <1>7, <2>1, <2>2
<1>11. cadena(g) = c /\ strlen(g) = Len(c)
  BY <1>4, <1>7, <1>8, <1>10, MismaCadena
<1>12. \A k \in n + 1 .. m : g[k] = d[k]
  BY <1>2, <1>7
<1> QED BY <1>1, <1>3, <1>5, <1>6, <1>7, <1>9, <1>11, <1>12

\* A string that is not longer than the width is not cut.
LEMMA SinCortar ==
  ASSUME NEW n \in Nat, NEW s, Len(s) <= n
  PROVE  Aislados!Cortada(s, n) = s
BY DEF Aislados!Cortada

\* An operand has no zero in it.
LEMMA Operando ==
  ASSUME NEW s \in Seq(LETRAS)
  PROVE  s \in Seq(Bytes) /\ cadena(s) = s
<1>1. s \in Seq(Bytes)
  BY DEF Bytes
<1> QED BY <1>1, MismaCadena, LenProperties

LEMMA ConTerminador ==
  ASSUME NEW m \in Nat \ {0}, NEW b \in [1 .. m -> Bytes], b[m] = NUL
  PROVE  b \in Seq(Bytes) /\ Len(b) = m /\ strlen(b) \in 0 .. m - 1
<1>1. b \in Seq(Bytes) /\ Len(b) = m
  OBVIOUS
<1>2. strlen(b) \in 0 .. m /\ \A k \in 1 .. strlen(b) : b[k] # NUL
  BY <1>1, StrlenEs
<1> QED BY <1>1, <1>2

-----------------------------------------------------------------------------
(* Registers *)

\* A bank of registers: each one ends in a zero.
EsBanco(b) ==
  /\ b \in [REGISTROS -> UNION {Arreglo(r) : r \in REGISTROS}]
  /\ \A r \in REGISTROS : b[r] \in Arreglo(r) /\ b[r][ANCHO[r] + 1] = NUL

LEMMA RegistroEs ==
  ASSUME NEW b, EsBanco(b), NEW r \in REGISTROS
  PROVE  /\ ANCHO[r] \in Nat \ {0} /\ ANCHO[r] + 1 \in Nat \ {0}
         /\ b[r] \in [1 .. ANCHO[r] + 1 -> Bytes] /\ b[r][ANCHO[r] + 1] = NUL
         /\ b[r] \in Seq(Bytes) /\ Len(b[r]) = ANCHO[r] + 1
         /\ strlen(b[r]) \in 0 .. ANCHO[r]
<1>1. ANCHO[r] \in Nat \ {0} /\ ANCHO[r] + 1 \in Nat \ {0}
  BY AnchosValidos
<1>2. b[r] \in [1 .. ANCHO[r] + 1 -> Bytes] /\ b[r][ANCHO[r] + 1] = NUL
  BY DEF EsBanco, Arreglo
<1>3. b[r] \in Seq(Bytes) /\ Len(b[r]) = ANCHO[r] + 1 /\ strlen(b[r]) \in 0 .. ANCHO[r] + 1 - 1
  BY <1>1, <1>2, ConTerminador
<1> QED BY <1>1, <1>2, <1>3

\* A bank is made of its registers.
LEMMA HacerBanco ==
  ASSUME NEW b, b = [r \in REGISTROS |-> b[r]],
         \A r \in REGISTROS : b[r] \in Arreglo(r) /\ b[r][ANCHO[r] + 1] = NUL
  PROVE  EsBanco(b)
<1>1. \A r \in REGISTROS : b[r] \in UNION {Arreglo(q) : q \in REGISTROS}
  OBVIOUS
<1> QED BY <1>1 DEF EsBanco

LEMMA CerosEs == EsBanco(Ceros) /\ \A r \in REGISTROS : cadena(Ceros[r]) = <<>>
<1>1. ASSUME NEW r \in REGISTROS
      PROVE  Ceros[r] \in Arreglo(r) /\ Ceros[r][ANCHO[r] + 1] = NUL /\ Ceros[r][1] = NUL
  <2>1. NUL \in Bytes /\ ANCHO[r] \in Nat \ {0}
    BY AnchosValidos DEF Bytes
  <2>2. Ceros[r] = [k \in 1 .. ANCHO[r] + 1 |-> NUL]
    BY DEF Ceros
  <2> QED BY <2>1, <2>2 DEF Arreglo
<1>2. Ceros = [r \in REGISTROS |-> Ceros[r]]
  BY DEF Ceros
<1>3. EsBanco(Ceros)
  BY <1>1, <1>2, HacerBanco
<1>4. ASSUME NEW r \in REGISTROS PROVE cadena(Ceros[r]) = <<>>
  <2>1. <<>> \in Seq(LETRAS) /\ Len(<<>>) = 0
    OBVIOUS
  <2>2. PICK s \in Seq(LETRAS) : s = <<>> /\ Len(s) = 0
    BY <2>1
  <2>3. PICK b \in Seq(Bytes) : b = Ceros[r] /\ Len(b) \in Nat \ {0} /\ b[1] = NUL
    BY <1>1, <1>3, RegistroEs
  <2>4. /\ Len(s) <= Len(b) /\ \A k \in 1 .. Len(s) : b[k] = s[k]
        /\ Len(s) = Len(b) \/ b[Len(s) + 1] = NUL
    BY <2>2, <2>3
  <2>5. cadena(b) = s
    BY <2>4, MismaCadena
  <2> QED BY <2>2, <2>3, <2>5
<1> QED BY <1>3, <1>4

\* Sending a context and receiving it changes nothing of it.
LEMMA ContextoRecibido ==
  ASSUME NEW q, NEW n, NEW b, EsBanco(b),
         NEW c, c = [pid |-> q, program_counter |-> n, registros |-> b]
  PROVE  recibir_contexto(c) = c
<1>1. \A r \in REGISTROS : b[r] = [k \in 1 .. ANCHO[r] + 1 |-> b[r][k]]
  BY RegistroEs
<1>2. b = [r \in REGISTROS |-> b[r]]
  BY DEF EsBanco
<1>3. b = [r \in REGISTROS |-> [k \in 1 .. ANCHO[r] + 1 |-> b[r][k]]]
  BY <1>1, <1>2
<1>4. recibir_contexto(c)
        = [c EXCEPT !.registros = [r \in REGISTROS |-> [k \in 1 .. ANCHO[r] + 1 |-> b[r][k]]]]
  BY DEF recibir_contexto
<1>5. recibir_contexto(c) = [c EXCEPT !.registros = b]
  BY <1>3, <1>4
<1> QED BY <1>5

\* SET and MOV_IN cut the string to the width of the register, and fill the rest
\* of it with zeros.
LEMMA SetEs ==
  ASSUME NEW b, EsBanco(b), NEW r \in REGISTROS, NEW o \in Seq(Bytes),
         NEW g, g = set_valor_registro(b, r, o)
  PROVE  /\ EsBanco(g)
         /\ cadena(g[r]) = Aislados!Cortada(cadena(o), ANCHO[r])
         /\ \A q \in REGISTROS : q # r => g[q] = b[q]
         /\ \A k \in 1 .. ANCHO[r] + 1 : k > strlen(g[r]) => g[r][k] = NUL
<1>1. g = [b EXCEPT ![r] = strncpy(b[r], o, ANCHO[r])] /\ b = [q \in REGISTROS |-> b[q]]
  BY DEF set_valor_registro, EsBanco
<1>2. g[r] = strncpy(b[r], o, ANCHO[r]) /\ \A q \in REGISTROS : q # r => g[q] = b[q]
  BY <1>1
<1>3. PICK m \in Nat \ {0} : m = ANCHO[r] + 1 /\ ANCHO[r] \in 0 .. m
  BY RegistroEs
<1>4. b[r] \in [1 .. m -> Bytes] /\ b[r][ANCHO[r] + 1] = NUL /\ m \in Nat
  BY <1>3, RegistroEs
<1>5. /\ g[r] \in [1 .. m -> Bytes]
      /\ cadena(g[r]) = Aislados!Cortada(cadena(o), ANCHO[r])
      /\ strlen(g[r]) <= ANCHO[r]
      /\ \A k \in strlen(g[r]) + 1 .. ANCHO[r] : g[r][k] = NUL
      /\ \A k \in ANCHO[r] + 1 .. m : g[r][k] = b[r][k]
  <2>1. PICK n \in 0 .. m : n = ANCHO[r]
    BY <1>3
  <2>2. PICK d \in [1 .. m -> Bytes] : d = b[r] /\ d[n + 1] = NUL
    BY <1>4, <2>1
  <2>3. PICK x : x = g[r] /\ x = strncpy(d, o, n)
    BY <1>2, <2>1, <2>2
  <2>4. /\ x \in [1 .. m -> Bytes]
        /\ cadena(x) = Aislados!Cortada(cadena(o), n)
        /\ strlen(x) <= n
        /\ \A k \in strlen(x) + 1 .. n : x[k] = NUL
        /\ \A k \in n + 1 .. m : x[k] = d[k]
    BY <1>4, <2>2, <2>3, CopiarN
  <2> QED BY <2>1, <2>2, <2>3, <2>4
<1>6. g[r][ANCHO[r] + 1] = NUL
  BY <1>3, <1>4, <1>5
<1>7. EsBanco(g)
  <2>1. g = [q \in REGISTROS |-> g[q]]
    BY <1>1
  <2>2. ASSUME NEW q \in REGISTROS PROVE g[q] \in Arreglo(q) /\ g[q][ANCHO[q] + 1] = NUL
    BY <1>2, <1>3, <1>5, <1>6 DEF EsBanco, Arreglo
  <2> QED BY <2>1, <2>2, HacerBanco
<1>8. \A k \in 1 .. ANCHO[r] + 1 : k > strlen(g[r]) => g[r][k] = NUL
  <2>1. strlen(g[r]) \in Nat /\ ANCHO[r] \in Nat
    BY <1>7, RegistroEs
  <2> QED BY <1>3, <1>5, <1>6, <2>1
<1> QED BY <1>2, <1>5, <1>7, <1>8

\* Loading the registers of a process leaves their strings in the CPU, and only
\* those of CON_RESTO keep characters after the end of theirs.
LEMMA SetearEs ==
  ASSUME NEW b, EsBanco(b), EsBanco(registros_cpu),
         NEW g, g = [r \in REGISTROS |-> setear_registro(b, r)]
  PROVE  /\ EsBanco(g)
         /\ \A r \in REGISTROS : cadena(g[r]) = cadena(b[r])
         /\ \A r \in REGISTROS \ CON_RESTO : \A k \in 1 .. ANCHO[r] + 1 :
              k > strlen(g[r]) => g[r][k] = NUL
<1> DEFINE Bien(r) == /\ g[r] \in Arreglo(r) /\ g[r][ANCHO[r] + 1] = NUL
                      /\ cadena(g[r]) = cadena(b[r])
                      /\ r \notin CON_RESTO =>
                           \A k \in 1 .. ANCHO[r] + 1 : k > strlen(g[r]) => g[r][k] = NUL
<1>1. ASSUME NEW r \in REGISTROS PROVE Bien(r)
  <2>1. PICK m \in Nat \ {0} : m = ANCHO[r] + 1
    BY RegistroEs
  <2>2. /\ b[r] \in Seq(Bytes) /\ strlen(b[r]) \in Nat /\ strlen(b[r]) < m
        /\ registros_cpu[r] \in [1 .. m -> Bytes] /\ registros_cpu[r][m] = NUL
    BY <2>1, RegistroEs
  <2>3. g[r] = setear_registro(b, r)
    OBVIOUS
  <2>4. CASE r \in CON_RESTO
    <3>1. g[r] = strcpy(registros_cpu[r], b[r])
      BY <2>3, <2>4 DEF setear_registro
    <3>2. g[r] \in [1 .. m -> Bytes] /\ g[r][m] = NUL /\ cadena(g[r]) = cadena(b[r])
      <4>1. PICK d, o, x : d = registros_cpu[r] /\ o = b[r] /\ x = g[r]
        OBVIOUS
      <4>2. /\ d \in [1 .. m -> Bytes] /\ o \in Seq(Bytes) /\ strlen(o) < m
            /\ d[m] = NUL /\ x = strcpy(d, o)
        BY <2>2, <3>1, <4>1
      <4>3. x \in [1 .. m -> Bytes] /\ x[m] = NUL /\ cadena(x) = cadena(o)
        BY <4>2, Copiar
      <4> QED BY <4>1, <4>3
    <3> QED BY <2>1, <2>4, <3>2 DEF Arreglo
  <2>5. CASE r \notin CON_RESTO
    <3>1. g[r] = strncpy(registros_cpu[r], b[r], m)
      BY <2>1, <2>3, <2>5 DEF setear_registro
    <3>2. m \in 0 .. m
      OBVIOUS
    <3>3. /\ g[r] \in [1 .. m -> Bytes]
          /\ cadena(g[r]) = Aislados!Cortada(cadena(b[r]), m)
          /\ strlen(g[r]) <= strlen(b[r])
          /\ \A k \in strlen(g[r]) + 1 .. m : g[r][k] = NUL
      BY <2>2, <3>1, <3>2, CopiarN
    <3>4. Len(cadena(b[r])) <= m
      BY <2>2, CadenaEs
    <3>5. cadena(g[r]) = cadena(b[r])
      BY <3>3, <3>4, SinCortar
    <3>6. g[r] \in Seq(Bytes) /\ Len(g[r]) = m
      BY <3>3
    <3>7. strlen(g[r]) \in Nat
      BY <3>6, StrlenEs
    <3>8. \A k \in 1 .. m : k > strlen(g[r]) => g[r][k] = NUL
      BY <3>3, <3>7
    <3>9. g[r][m] = NUL
      BY <2>2, <3>3, <3>7, <3>8
    <3> QED BY <2>1, <3>3, <3>5, <3>8, <3>9 DEF Arreglo
  <2> QED BY <2>4, <2>5
<1>2. g = [r \in REGISTROS |-> g[r]]
  OBVIOUS
<1>3. EsBanco(g)
  BY <1>1, <1>2, HacerBanco
<1> QED BY <1>1, <1>3

\* Taking the registers back keeps the string of each, and nothing else of it.
LEMMA ActualizarEs ==
  ASSUME NEW b, EsBanco(b), EsBanco(registros_cpu), NEW g, g = actualizar_registros_pcb(b)
  PROVE  EsBanco(g) /\ \A r \in REGISTROS : cadena(g[r]) = cadena(registros_cpu[r])
<1>1. ASSUME NEW r \in REGISTROS
      PROVE  /\ g[r] \in Arreglo(r) /\ g[r][ANCHO[r] + 1] = NUL
             /\ cadena(g[r]) = cadena(registros_cpu[r])
  <2>1. PICK m \in Nat \ {0} : m = ANCHO[r] + 1
    BY RegistroEs
  <2>2. /\ registros_cpu[r] \in Seq(Bytes) /\ strlen(registros_cpu[r]) < m
        /\ b[r] \in [1 .. m -> Bytes] /\ b[r][m] = NUL
    BY <2>1, RegistroEs
  <2>3. g[r] = strcpy(b[r], registros_cpu[r])
    BY DEF actualizar_registros_pcb
  <2>4. g[r] \in [1 .. m -> Bytes] /\ g[r][m] = NUL /\ cadena(g[r]) = cadena(registros_cpu[r])
    BY <2>2, <2>3, Copiar
  <2> QED BY <2>1, <2>4 DEF Arreglo
<1>2. g = [r \in REGISTROS |-> g[r]]
  BY DEF actualizar_registros_pcb
<1> QED BY <1>1, <1>2, HacerBanco

LEMMA LimpiarEs ==
  ASSUME NEW b, EsBanco(b), NEW g, g = limpiar_registros_cpu(b)
  PROVE  EsBanco(g)
<1>1. ASSUME NEW r \in REGISTROS
      PROVE  g[r] \in Arreglo(r) /\ g[r][ANCHO[r] + 1] = NUL
  <2>1. PICK m \in Nat \ {0} : m = ANCHO[r] + 1
    BY RegistroEs
  <2>2. b[r] \in [1 .. m -> Bytes] /\ b[r][m] = NUL
    BY <2>1, RegistroEs
  <2>3. g[r] = IF r = "AX" THEN strcpy(b[r], <<>>) ELSE b[r]
    BY DEF limpiar_registros_cpu
  <2>4. PICK o \in Seq(Bytes) : o = <<>> /\ Len(o) = 0
    <3>1. <<>> \in Seq(Bytes) /\ Len(<<>>) = 0
      OBVIOUS
    <3> QED BY <3>1
  <2>5. strlen(o) < m
    <3>1. strlen(o) \in 0 .. Len(o)
      BY StrlenEs
    <3> QED BY <2>4, <3>1
  <2>6. strcpy(b[r], o) \in [1 .. m -> Bytes] /\ strcpy(b[r], o)[m] = NUL
    BY <2>2, <2>5, Copiar
  <2> QED BY <2>1, <2>2, <2>3, <2>4, <2>6 DEF Arreglo
<1>2. g = [r \in REGISTROS |-> g[r]]
  BY DEF limpiar_registros_cpu
<1> QED BY <1>1, <1>2, HacerBanco

\* The string that starts at an address is that of the bytes from there on.
LEMMA CadenaDeMemoria ==
  ASSUME NEW n \in Nat, NEW a \in Nat, a + n <= TAM, NEW x \in [0 .. TAM - 1 -> Bytes],
         NEW o \in [1 .. n -> Bytes], \A k \in 1 .. n : o[k] = x[a + k - 1]
  PROVE  /\ o \in Seq(Bytes) /\ Len(o) = n
         /\ Aislados!Cadena(x, a, n) = cadena(o)
<1> DEFINE P(k) == (\A j \in 0 .. k - 1 : x[a + j] # NUL) /\ (k = n \/ x[a + k] = NUL)
<1>1. TAM \in Nat /\ \A k \in 1 .. n : a + k - 1 \in 0 .. TAM - 1
  BY AnchosValidos
<1>2. o \in Seq(Bytes) /\ Len(o) = n
  BY <1>1
<1>3. PICK s : s = strlen(o) /\ s \in 0 .. n
  BY <1>2, StrlenEs
<1>4. P(s)
  <2>1. (\A k \in 1 .. s : o[k] # NUL) /\ (s = n \/ o[s + 1] = NUL)
    BY <1>2, <1>3, StrlenEs
  <2>2. ASSUME NEW j \in 0 .. s - 1 PROVE x[a + j] # NUL
    <3>1. j + 1 \in 1 .. s /\ j + 1 \in 1 .. n /\ a + (j + 1) - 1 = a + j
      BY <1>3
    <3> QED BY <2>1, <3>1
  <2>3. ASSUME s # n PROVE x[a + s] = NUL
    <3>1. s + 1 \in 1 .. n /\ a + (s + 1) - 1 = a + s
      BY <1>3, <2>3
    <3> QED BY <2>1, <2>3, <3>1
  <2> QED BY <2>2, <2>3
<1>5. \A k \in 0 .. n : P(k) => k = s
  <2>1. ASSUME NEW k \in 0 .. n, P(k) PROVE k = s
    <3>1. ASSUME k < s PROVE FALSE
      BY <1>3, <1>4, <2>1, <3>1
    <3>2. ASSUME s < k PROVE FALSE
      <4>1. s \in 0 .. k - 1 /\ s # n
        BY <1>3, <2>1, <3>2
      <4>2. x[a + s] = NUL
        BY <1>4, <4>1
      <4>3. x[a + s] # NUL
        BY <2>1, <4>1
      <4> QED BY <4>2, <4>3
    <3> QED BY <1>3, <3>1, <3>2
  <2> QED BY <2>1
<1>6. (CHOOSE k \in 0 .. n : P(k)) = s
  <2> HIDE DEF P
  <2> QED BY <1>3, <1>4, <1>5
<1>7. Aislados!Cadena(x, a, n) = [j \in 1 .. s |-> x[a + j - 1]]
  BY <1>6 DEF Aislados!Cadena
<1>8. cadena(o) = [j \in 1 .. s |-> o[j]]
  BY <1>2, <1>3 DEF cadena
<1>9. [j \in 1 .. s |-> o[j]] = [j \in 1 .. s |-> x[a + j - 1]]
  BY <1>3
<1> QED BY <1>2, <1>7, <1>8, <1>9

-----------------------------------------------------------------------------
(* The inductive invariant *)

Tipos ==
  /\ estado \in [PROCESOS -> {"READY", "EXEC", "EXIT"}]
  /\ program_counter \in [PROCESOS -> 0 .. LARGO]
  /\ DOMAIN registros = PROCESOS /\ registros = [p \in PROCESOS |-> registros[p]]
  /\ \A p \in PROCESOS : EsBanco(registros[p])
  /\ EsBanco(registros_cpu)
  /\ espacio \in [PROCESOS -> [0 .. TAM - 1 -> Bytes]]

\* The CPU is free and no process is in EXEC, or one is and the CPU has a context:
\* that of the process in EXEC, unless the algorithm is HRRN.
EnExec(q) ==
  /\ en_exec \in PROCESOS
  /\ ALGORITMO # "HRRN" => en_exec = q
  /\ \A p \in PROCESOS : estado[p] = "EXEC" <=> p = en_exec

EnEjecucion ==
  \/ proceso = NADIE /\ en_exec = NADIE /\ \A p \in PROCESOS : estado[p] # "EXEC"
  \/ /\ proceso # NADIE
     /\ \E q \in PROCESOS, n \in 0 .. LARGO : \E b :
          /\ proceso = [pid |-> q, program_counter |-> n, registros |-> b]
          /\ EsBanco(b) /\ EnExec(q)

\* While a process executes only AX and BX have characters after their string.
RestoEnCero ==
  proceso # NADIE =>
    \A r \in REGISTROS \ CON_RESTO : \A k \in 1 .. ANCHO[r] + 1 :
      k > strlen(registros_cpu[r]) => registros_cpu[r][k] = NUL

Invariante == Tipos /\ EnEjecucion /\ RestoEnCero

LEMMA Inicial == Init => Invariante
<1> SUFFICES ASSUME Init PROVE Invariante
  OBVIOUS
<1>1. NUL \in Bytes /\ LARGO \in Nat /\ 0 \in 0 .. LARGO
  BY AnchosValidos DEF Bytes
<1>2. Tipos
  BY <1>1, CerosEs DEF Init, Tipos
<1>3. EnEjecucion /\ RestoEnCero
  BY DEF Init, EnEjecucion, RestoEnCero
<1> QED BY <1>2, <1>3 DEF Invariante

\* What is known of the CPU when it takes an instruction.
LEMMA Tomada ==
  ASSUME Invariante, Tomar
  PROVE  \E q \in PROCESOS, n \in 0 .. LARGO : \E b :
           /\ proceso = [pid |-> q, program_counter |-> n, registros |-> b]
           /\ proceso.pid = q /\ proceso.program_counter = n /\ proceso.registros = b
           /\ n + 1 \in 0 .. LARGO /\ EsBanco(b)
           /\ EnExec(q)
<1>1. proceso # NADIE /\ proceso.program_counter < LARGO /\ LARGO \in Nat
  BY AnchosValidos DEF Tomar
<1>2. PICK q \in PROCESOS, n \in 0 .. LARGO :
        \E b : /\ proceso = [pid |-> q, program_counter |-> n, registros |-> b]
               /\ EsBanco(b) /\ EnExec(q)
  BY <1>1 DEF Invariante, EnEjecucion
<1>3. PICK b : /\ proceso = [pid |-> q, program_counter |-> n, registros |-> b]
               /\ EsBanco(b) /\ EnExec(q)
  BY <1>2
<1>4. proceso.pid = q /\ proceso.program_counter = n /\ proceso.registros = b
  BY <1>3
<1>5. n + 1 \in 0 .. LARGO
  BY <1>1, <1>4
<1> QED BY <1>3, <1>4, <1>5

LEMMA NoEsNadie ==
  ASSUME NEW q \in PROCESOS, NEW n \in Nat, NEW b, EsBanco(b)
  PROVE  [pid |-> q, program_counter |-> n, registros |-> b] # NADIE
BY NadieNoEsContexto DEF Contextos, EsBanco

\* The process goes on: its context is what it was, with one instruction more.
LEMMA Contado ==
  ASSUME Invariante, Tomar, Contar,
         NEW q \in PROCESOS, NEW n \in 0 .. LARGO, NEW b, EsBanco(b), n + 1 \in 0 .. LARGO,
         proceso = [pid |-> q, program_counter |-> n, registros |-> b]
  PROVE  /\ proceso' = [pid |-> q, program_counter |-> n + 1, registros |-> b]
         /\ proceso' # NADIE
         /\ proceso'.pid = q /\ proceso'.program_counter = n + 1
<1>1. proceso' = [pid |-> q, program_counter |-> n + 1, registros |-> b]
  BY DEF Contar
<1>2. n + 1 \in Nat
  OBVIOUS
<1>3. [pid |-> q, program_counter |-> n + 1, registros |-> b] # NADIE
  BY <1>2, NoEsNadie
<1> QED BY <1>1, <1>3

LEMMA EjecutarEs ==
  ASSUME Invariante, NEW q \in PROCESOS, NEW e \in PROCESOS, ejecutar_proceso(q, e)
  PROVE  /\ proceso' = [pid |-> q, program_counter |-> program_counter[q],
                        registros |-> registros[q]]
         /\ proceso' # NADIE /\ proceso'.pid = q
         /\ proceso'.program_counter = program_counter[q]
         /\ EsBanco(registros[q]) /\ program_counter[q] \in 0 .. LARGO
<1>1. EsBanco(registros[q]) /\ program_counter[q] \in 0 .. LARGO
  BY DEF Invariante, Tipos
<1>2. PICK c : c = [pid |-> q, program_counter |-> program_counter[q],
                    registros |-> registros[q]]
  OBVIOUS
<1>3. recibir_contexto(c) = c
  BY <1>1, <1>2, ContextoRecibido
<1>4. proceso' = c
  BY <1>2, <1>3 DEF ejecutar_proceso, enviar_contexto
<1>5. c # NADIE
  BY <1>1, <1>2, NoEsNadie
<1> QED BY <1>1, <1>2, <1>4, <1>5

LEMMA DevolverEs ==
  ASSUME Invariante, NEW e, devolver_proceso(e), Tomar,
         NEW q, NEW n \in 0 .. LARGO, NEW b, EsBanco(b),
         proceso = [pid |-> q, program_counter |-> n, registros |-> b]
  PROVE  \E g : /\ EsBanco(g)
                /\ \A r \in REGISTROS : cadena(g[r]) = cadena(registros_cpu[r])
                /\ registros' = [registros EXCEPT ![en_exec] = g]
                /\ program_counter' = [program_counter EXCEPT ![en_exec] = n + 1]
                /\ estado' = [estado EXCEPT ![en_exec] = e]
                /\ EsBanco(registros_cpu')
<1>1. EsBanco(registros_cpu)
  BY DEF Invariante, Tipos
<1>2. PICK g : g = actualizar_registros_pcb(b)
  OBVIOUS
<1>3. EsBanco(g) /\ \A r \in REGISTROS : cadena(g[r]) = cadena(registros_cpu[r])
  BY <1>1, <1>2, ActualizarEs
<1>4. PICK c : c = [pid |-> q, program_counter |-> n + 1, registros |-> g]
  OBVIOUS
<1>5. [proceso EXCEPT !.program_counter = @ + 1, !.registros = actualizar_registros_pcb(@)] = c
  <2>1. proceso.program_counter = n /\ proceso.registros = b
    OBVIOUS
  <2>2. [proceso EXCEPT !.program_counter = @ + 1, !.registros = actualizar_registros_pcb(@)]
          = [proceso EXCEPT !.program_counter = n + 1, !.registros = g]
    BY <1>2, <2>1
  <2>3. [proceso EXCEPT !.program_counter = n + 1, !.registros = g] = c
    <3>1. PICK m : m = n + 1
      OBVIOUS
    <3>2. PICK d : d = proceso /\ d = [pid |-> q, program_counter |-> n, registros |-> b]
      OBVIOUS
    <3>3. [d EXCEPT !.program_counter = m, !.registros = g]
            = [pid |-> q, program_counter |-> m, registros |-> g]
      <4>1. [d EXCEPT !.program_counter = m, !.registros = g]
              = [[d EXCEPT !.program_counter = m] EXCEPT !.registros = g]
        OBVIOUS
      <4>2. [d EXCEPT !.program_counter = m]
              = [pid |-> q, program_counter |-> m, registros |-> b]
        BY <3>2
      <4>3. [[pid |-> q, program_counter |-> m, registros |-> b] EXCEPT !.registros = g]
              = [pid |-> q, program_counter |-> m, registros |-> g]
        OBVIOUS
      <4> QED BY <4>1, <4>2, <4>3
    <3> QED BY <1>4, <3>1, <3>2, <3>3
  <2> QED BY <2>2, <2>3
<1>6. recibir_contexto(c) = c
  BY <1>3, <1>4, ContextoRecibido
<1>7. actualizar_pcb(c)
  BY <1>5, <1>6 DEF devolver_proceso
<1>8. /\ registros' = [registros EXCEPT ![en_exec] = g]
      /\ program_counter' = [program_counter EXCEPT ![en_exec] = n + 1]
  BY <1>4, <1>7 DEF actualizar_pcb
<1>9. estado' = [estado EXCEPT ![en_exec] = e]
  BY DEF devolver_proceso
<1>10. EsBanco(registros_cpu')
  <2>1. PICK x : x = limpiar_registros_cpu(registros_cpu)
    OBVIOUS
  <2>2. registros_cpu' = x
    BY <2>1 DEF devolver_proceso
  <2> QED BY <1>1, <2>1, <2>2, LimpiarEs
<1> QED BY <1>3, <1>8, <1>9, <1>10

-----------------------------------------------------------------------------
(* Each action keeps the invariant *)

LEMMA PasoEjecutar ==
  ASSUME Invariante, NEW q \in PROCESOS, NEW e \in PROCESOS, ejecutar_proceso(q, e)
  PROVE  Invariante'
<1>1. PICK g : g = [r \in REGISTROS |-> setear_registro(registros[q], r)]
  OBVIOUS
<1>2. registros_cpu' = g
  BY <1>1 DEF ejecutar_proceso
<1>3. EsBanco(registros[q]) /\ EsBanco(registros_cpu)
  BY DEF Invariante, Tipos
<1>4. /\ EsBanco(g)
      /\ \A r \in REGISTROS \ CON_RESTO : \A k \in 1 .. ANCHO[r] + 1 :
           k > strlen(g[r]) => g[r][k] = NUL
  BY <1>1, <1>3, SetearEs
<1>5. /\ estado' = [estado EXCEPT ![e] = "EXEC"] /\ proceso = NADIE
      /\ en_exec' = e /\ (ALGORITMO # "HRRN" => e = q)
  BY DEF ejecutar_proceso
<1>6. UNCHANGED <<registros, program_counter, espacio>>
  BY DEF ejecutar_proceso
<1>7. Tipos'
  BY <1>2, <1>4, <1>5, <1>6 DEF Invariante, Tipos
<1>8. EnEjecucion'
  <2>1. /\ proceso' = [pid |-> q, program_counter |-> program_counter[q],
                       registros |-> registros[q]]
        /\ proceso' # NADIE /\ program_counter[q] \in 0 .. LARGO
    BY EjecutarEs
  <2>2. EnExec(q)'
    BY <1>5 DEF Invariante, Tipos, EnEjecucion, EnExec
  <2> QED BY <1>3, <2>1, <2>2 DEF EnEjecucion
<1>9. RestoEnCero'
  BY <1>2, <1>4 DEF RestoEnCero
<1> QED BY <1>7, <1>8, <1>9 DEF Invariante

LEMMA PasoContar ==
  ASSUME Invariante, Tomar, Contar, UNCHANGED <<estado, en_exec>>
  PROVE  EnEjecucion'
<1>1. PICK q \in PROCESOS, n \in 0 .. LARGO :
        \E b : /\ proceso = [pid |-> q, program_counter |-> n, registros |-> b]
               /\ n + 1 \in 0 .. LARGO /\ EsBanco(b) /\ EnExec(q)
  BY Tomada
<1>2. PICK b : /\ proceso = [pid |-> q, program_counter |-> n, registros |-> b]
               /\ n + 1 \in 0 .. LARGO /\ EsBanco(b) /\ EnExec(q)
  BY <1>1
<1>3. PICK m \in 0 .. LARGO : m = n + 1
  BY <1>2
<1>4. proceso' = [pid |-> q, program_counter |-> m, registros |-> b] /\ proceso' # NADIE
  BY <1>2, <1>3, Contado
<1>5. EnExec(q)'
  BY <1>2 DEF EnExec
<1> QED BY <1>2, <1>4, <1>5 DEF EnEjecucion

\* SET and MOV_IN.
LEMMA PasoSet ==
  ASSUME Invariante, Tomar, Contar, UNCHANGED <<pcbs, espacio>>,
         NEW r \in REGISTROS, NEW o \in Seq(Bytes),
         registros_cpu' = set_valor_registro(registros_cpu, r, o)
  PROVE  Invariante'
<1>1. PICK b : b = registros_cpu
  OBVIOUS
<1>2. PICK g : g = set_valor_registro(b, r, o)
  OBVIOUS
<1>3. registros_cpu' = g
  BY <1>1, <1>2
<1>4. EsBanco(b)
  BY <1>1 DEF Invariante, Tipos
<1>5. /\ EsBanco(g)
      /\ \A q \in REGISTROS : q # r => g[q] = b[q]
      /\ \A k \in 1 .. ANCHO[r] + 1 : k > strlen(g[r]) => g[r][k] = NUL
  BY <1>2, <1>4, SetEs
<1>6. Tipos'
  BY <1>3, <1>5 DEF Invariante, Tipos, pcbs
<1>7. EnEjecucion'
  BY PasoContar DEF pcbs
<1>8. RestoEnCero'
  <2>1. ASSUME NEW q \in REGISTROS \ CON_RESTO, NEW k \in 1 .. ANCHO[q] + 1, k > strlen(g[q])
        PROVE  g[q][k] = NUL
    <3>1. CASE q = r
      BY <1>5, <2>1, <3>1
    <3>2. CASE q # r
      BY <1>1, <1>5, <2>1, <3>2 DEF Invariante, RestoEnCero, Tomar
    <3> QED BY <3>1, <3>2
  <2> QED BY <1>3, <2>1 DEF RestoEnCero
<1> QED BY <1>6, <1>7, <1>8 DEF Invariante

LEMMA OperandoDeSet ==
  ASSUME NEW valor \in CADENAS
  PROVE  valor \in Seq(Bytes) /\ cadena(valor) = valor
BY AnchosValidos, Operando

\* What MOV_IN reads.
LEMMA Leido ==
  ASSUME Invariante, NEW q \in PROCESOS, NEW r \in REGISTROS, NEW a \in 0 .. TAM - 1,
         a + ANCHO[r] <= TAM,
         NEW o, o = [k \in 1 .. ANCHO[r] |-> espacio[q][a + k - 1]]
  PROVE  /\ cadena(o) \in Seq(LETRAS) /\ Len(cadena(o)) <= ANCHO[r]
         /\ cadena(o) = Aislados!Cadena(espacio[q], a, ANCHO[r])
<1>1. ANCHO[r] \in Nat /\ a \in Nat
  BY AnchosValidos
<1>2. espacio[q] \in [0 .. TAM - 1 -> Bytes]
  BY DEF Invariante, Tipos
<1>3. /\ o \in Seq(Bytes) /\ Len(o) = ANCHO[r]
      /\ Aislados!Cadena(espacio[q], a, ANCHO[r]) = cadena(o)
  <2>1. PICK n \in Nat : n = ANCHO[r]
    BY <1>1
  <2>2. PICK x \in [0 .. TAM - 1 -> Bytes] : x = espacio[q]
    BY <1>2
  <2>3. o \in [1 .. n -> Bytes] /\ a + n <= TAM /\ \A k \in 1 .. n : o[k] = x[a + k - 1]
    <3>1. TAM \in Nat /\ \A k \in 1 .. n : a + k - 1 \in 0 .. TAM - 1
      BY <1>1, <2>1, AnchosValidos
    <3> QED BY <2>1, <2>2, <3>1
  <2>4. o \in Seq(Bytes) /\ Len(o) = n /\ Aislados!Cadena(x, a, n) = cadena(o)
    BY <1>1, <2>3, CadenaDeMemoria
  <2> QED BY <2>1, <2>2, <2>4
<1>4. cadena(o) \in Seq(LETRAS) /\ Len(cadena(o)) <= ANCHO[r]
  BY <1>1, <1>3, StrlenEs, CadenaEs
<1> QED BY <1>3, <1>4

LEMMA PasoMovOut ==
  ASSUME Invariante, NEW r \in REGISTROS, NEW a \in 0 .. TAM - 1, execute_mov_out(r, a)
  PROVE  Invariante'
<1>1. /\ Tomar /\ Contar /\ a + ANCHO[r] <= TAM /\ UNCHANGED <<pcbs, registros_cpu>>
      /\ espacio' = [espacio EXCEPT ![proceso.pid] =
           [x \in 0 .. TAM - 1 |-> IF x \in a .. a + ANCHO[r] - 1
                                   THEN registros_cpu[r][x - a + 1] ELSE @[x]]]
  BY DEF execute_mov_out
<1>2. PICK q \in PROCESOS : proceso.pid = q
  BY <1>1, Tomada
<1>3. PICK f : f = [x \in 0 .. TAM - 1 |-> IF x \in a .. a + ANCHO[r] - 1
                                           THEN registros_cpu[r][x - a + 1]
                                           ELSE espacio[q][x]]
  OBVIOUS
<1>4. espacio' = [espacio EXCEPT ![q] = f]
  BY <1>1, <1>2, <1>3
<1>5. EsBanco(registros_cpu) /\ espacio[q] \in [0 .. TAM - 1 -> Bytes]
  BY DEF Invariante, Tipos
<1>6. f \in [0 .. TAM - 1 -> Bytes]
  <2>1. ANCHO[r] \in Nat /\ registros_cpu[r] \in [1 .. ANCHO[r] + 1 -> Bytes]
    BY <1>5, RegistroEs
  <2>2. ASSUME NEW x \in a .. a + ANCHO[r] - 1 PROVE registros_cpu[r][x - a + 1] \in Bytes
    <3>1. x - a + 1 \in 1 .. ANCHO[r] + 1
      BY <2>1
    <3> QED BY <2>1, <3>1
  <2> QED BY <1>3, <1>5, <2>2
<1>7. Tipos'
  <2>1. espacio' \in [PROCESOS -> [0 .. TAM - 1 -> Bytes]]
    BY <1>4, <1>6 DEF Invariante, Tipos
  <2>2. UNCHANGED <<estado, registros, program_counter, registros_cpu>>
    BY <1>1 DEF pcbs
  <2> QED BY <2>1, <2>2 DEF Invariante, Tipos
<1>8. EnEjecucion'
  BY <1>1, PasoContar DEF pcbs
<1>9. RestoEnCero'
  BY <1>1 DEF Invariante, RestoEnCero, Tomar
<1> QED BY <1>7, <1>8, <1>9 DEF Invariante

LEMMA PasoDevolver ==
  ASSUME Invariante, NEW e \in {"READY", "EXIT"}, devolver_proceso(e)
  PROVE  Invariante'
<1>1. Tomar /\ proceso' = NADIE /\ en_exec' = NADIE /\ UNCHANGED espacio
  BY DEF devolver_proceso
<1>2. PICK q \in PROCESOS, n \in 0 .. LARGO :
        \E b : /\ proceso = [pid |-> q, program_counter |-> n, registros |-> b]
               /\ n + 1 \in 0 .. LARGO /\ EsBanco(b) /\ EnExec(q)
  BY <1>1, Tomada
<1>3. PICK b : /\ proceso = [pid |-> q, program_counter |-> n, registros |-> b]
               /\ n + 1 \in 0 .. LARGO /\ EsBanco(b) /\ EnExec(q)
  BY <1>2
<1>4. PICK g : /\ EsBanco(g)
               /\ registros' = [registros EXCEPT ![en_exec] = g]
               /\ program_counter' = [program_counter EXCEPT ![en_exec] = n + 1]
               /\ estado' = [estado EXCEPT ![en_exec] = e]
               /\ EsBanco(registros_cpu')
  BY <1>1, <1>3, DevolverEs
<1>5. Tipos'
  BY <1>1, <1>3, <1>4 DEF Invariante, Tipos, EnExec
<1>6. EnEjecucion'
  BY <1>1, <1>3, <1>4 DEF Invariante, Tipos, EnEjecucion, EnExec
<1>7. RestoEnCero'
  BY <1>1 DEF RestoEnCero
<1> QED BY <1>5, <1>6, <1>7 DEF Invariante

LEMMA Paso == Invariante /\ [Next]_vars => Invariante'
<1> SUFFICES ASSUME Invariante, [Next]_vars PROVE Invariante'
  OBVIOUS
<1>1. ASSUME NEW p \in PROCESOS, NEW e \in PROCESOS, ejecutar_proceso(p, e)
      PROVE  Invariante'
  BY <1>1, PasoEjecutar
<1>2. ASSUME NEW r \in REGISTROS, NEW valor \in CADENAS, execute_set(r, valor)
      PROVE  Invariante'
  <2>1. /\ Tomar /\ Contar /\ UNCHANGED <<pcbs, espacio>>
        /\ registros_cpu' = set_valor_registro(registros_cpu, r, valor)
    BY <1>2 DEF execute_set
  <2> QED BY <2>1, OperandoDeSet, PasoSet
<1>3. ASSUME NEW r \in REGISTROS, NEW a \in 0 .. TAM - 1, execute_mov_in(r, a)
      PROVE  Invariante'
  <2>1. /\ Tomar /\ Contar /\ UNCHANGED <<pcbs, espacio>> /\ a + ANCHO[r] <= TAM
        /\ registros_cpu' = set_valor_registro(registros_cpu, r,
             cadena([k \in 1 .. ANCHO[r] |-> espacio[proceso.pid][a + k - 1]]))
    BY <1>3 DEF execute_mov_in
  <2>2. PICK q \in PROCESOS : proceso.pid = q
    BY <2>1, Tomada
  <2>3. PICK o : o = [k \in 1 .. ANCHO[r] |-> espacio[q][a + k - 1]]
    OBVIOUS
  <2>4. cadena(o) \in Seq(Bytes)
    BY <2>1, <2>3, Leido, Operando
  <2>5. registros_cpu' = set_valor_registro(registros_cpu, r, cadena(o))
    BY <2>1, <2>2, <2>3
  <2> QED BY <2>1, <2>4, <2>5, PasoSet
<1>4. ASSUME NEW r \in REGISTROS, NEW a \in 0 .. TAM - 1, execute_mov_out(r, a)
      PROVE  Invariante'
  BY <1>4, PasoMovOut
<1>5. ASSUME DevolverYSeguir \/ DevolverYTerminar PROVE Invariante'
  BY <1>5, PasoDevolver DEF DevolverYSeguir, DevolverYTerminar
<1>6. ASSUME UNCHANGED vars PROVE Invariante'
  BY <1>6 DEF Invariante, Tipos, EnEjecucion, EnExec, RestoEnCero, vars, pcbs
<1> QED BY <1>1, <1>2, <1>3, <1>4, <1>5, <1>6 DEF Next

\* The invariant that makes the rest provable.
LEMMA SiempreInvariante == Spec => []Invariante
<1>1. Init => Invariante
  BY Inicial
<1>2. Invariante /\ [Next]_vars => Invariante'
  BY Paso
<1> QED BY <1>1, <1>2, PTL DEF Spec

\* Registers, contexts and memory keep their types whatever the programs execute and
\* whichever pcb the kernel stores a context in: every register ends in a zero.
THEOREM TipoCorrecto == Spec => []TypeOK
<1>1. Invariante => TypeOK
  <2> SUFFICES ASSUME Invariante PROVE TypeOK
    OBVIOUS
  <2>1. /\ estado \in [PROCESOS -> {"READY", "EXEC", "EXIT"}]
        /\ program_counter \in [PROCESOS -> 0 .. LARGO]
        /\ espacio \in [PROCESOS -> [0 .. TAM - 1 -> Bytes]]
    BY DEF Invariante, Tipos
  <2>2. /\ \A p \in PROCESOS : \A r \in REGISTROS :
             registros[p][r] \in Arreglo(r) /\ registros[p][r][ANCHO[r] + 1] = NUL
        /\ \A r \in REGISTROS :
             registros_cpu[r] \in Arreglo(r) /\ registros_cpu[r][ANCHO[r] + 1] = NUL
    BY DEF Invariante, Tipos, EsBanco
  <2>3. ASSUME proceso # NADIE
        PROVE  /\ en_exec \in PROCESOS /\ proceso.pid \in PROCESOS
               /\ \A r \in REGISTROS : /\ proceso.registros[r] \in Arreglo(r)
                                       /\ proceso.registros[r][ANCHO[r] + 1] = NUL
    <3>1. PICK q \in PROCESOS, n \in 0 .. LARGO : \E b :
                 /\ proceso = [pid |-> q, program_counter |-> n, registros |-> b]
                 /\ EsBanco(b) /\ EnExec(q)
      BY <2>3 DEF Invariante, EnEjecucion
    <3>2. PICK b : /\ proceso = [pid |-> q, program_counter |-> n, registros |-> b]
                   /\ EsBanco(b) /\ EnExec(q)
      BY <3>1
    <3>3. proceso.pid = q /\ proceso.registros = b /\ en_exec \in PROCESOS
      BY <3>2 DEF EnExec
    <3> QED BY <3>2, <3>3 DEF EsBanco
  <2>4. proceso = NADIE => en_exec = NADIE
    BY DEF Invariante, EnEjecucion
  <2>5. {p \in PROCESOS : estado[p] = "EXEC"} = {en_exec} \ {NADIE}
    BY AnchosValidos DEF Invariante, EnEjecucion, EnExec
  <2> QED BY <2>1, <2>2, <2>3, <2>4, <2>5 DEF TypeOK
<1> QED BY <1>1, SiempreInvariante, PTL

-----------------------------------------------------------------------------
(* Refinement *)

\* What the programs see.
RegistroDe(p, r) == cadena(IF EnCpu(p) THEN registros_cpu[r] ELSE registros[p][r])
Lecturas == [p \in PROCESOS |-> [r \in REGISTROS |-> RegistroDe(p, r)]]
Cuentas == [p \in PROCESOS |-> IF EnCpu(p) THEN proceso.program_counter
                               ELSE program_counter[p]]

LEMMA Cambia ==
  ASSUME NEW V, NEW f \in [PROCESOS -> [REGISTROS -> V]],
         NEW g \in [PROCESOS -> [REGISTROS -> V]],
         NEW q \in PROCESOS, NEW t \in REGISTROS, NEW v,
         \A p \in PROCESOS, r \in REGISTROS :
           g[p][r] = IF p = q /\ r = t THEN v ELSE f[p][r]
  PROVE  g = [f EXCEPT ![q][t] = v]
<1>1. PICK h : h = [f EXCEPT ![q][t] = v]
  OBVIOUS
<1>2. h = [p \in PROCESOS |-> h[p]]
  BY <1>1
<1>3. ASSUME NEW p \in PROCESOS PROVE g[p] = h[p]
  <2>1. h[p] = IF p = q THEN [f[q] EXCEPT ![t] = v] ELSE f[p]
    BY <1>1
  <2>2. g[p] = [r \in REGISTROS |-> g[p][r]] /\ f[p] = [r \in REGISTROS |-> f[p][r]]
    OBVIOUS
  <2>3. CASE p = q
    <3>1. PICK x : x = [f[q] EXCEPT ![t] = v]
      OBVIOUS
    <3>2. x = [r \in REGISTROS |-> IF r = t THEN v ELSE f[q][r]]
      BY <2>2, <2>3, <3>1
    <3>3. g[p] = [r \in REGISTROS |-> IF r = t THEN v ELSE f[q][r]]
      BY <2>2, <2>3
    <3> QED BY <2>1, <2>3, <3>1, <3>2, <3>3
  <2>4. CASE p # q
    BY <2>1, <2>2, <2>4
  <2> QED BY <2>3, <2>4
<1> QED BY <1>1, <1>2, <1>3

LEMMA AisladosInit ==
  Aislados!Init <=> /\ Lecturas = [p \in PROCESOS |-> [r \in REGISTROS |-> <<>>]]
                    /\ espacio = [p \in PROCESOS |-> [a \in 0 .. TAM - 1 |-> NUL]]
                    /\ Cuentas = [p \in PROCESOS |-> 0]
BY DEF Aislados!Init, Lecturas, RegistroDe, Cuentas

LEMMA AisladosSet ==
  ASSUME NEW p \in PROCESOS, NEW r \in REGISTROS, NEW s,
         Lecturas' = [Lecturas EXCEPT ![p][r] = Aislados!Cortada(s, ANCHO[r])],
         UNCHANGED espacio
  PROVE  Aislados!Set(p, r, s)
BY DEF Aislados!Set, Lecturas, RegistroDe

LEMMA AisladosMovIn ==
  ASSUME NEW p \in PROCESOS, NEW r \in REGISTROS, NEW a, a + ANCHO[r] <= TAM,
         Lecturas' = [Lecturas EXCEPT ![p][r] = Aislados!Cadena(espacio[p], a, ANCHO[r])],
         UNCHANGED espacio
  PROVE  Aislados!MovIn(p, r, a)
BY DEF Aislados!MovIn, Lecturas, RegistroDe

\* The bytes from a on are those of s, a terminator and resto.
Escrita(p, a, w, s, resto) ==
  espacio' = [espacio EXCEPT ![p] =
    [y \in 0 .. TAM - 1 |-> IF y \notin a .. a + w - 1 THEN @[y]
                            ELSE IF y - a < Len(s) THEN s[y - a + 1]
                            ELSE IF y - a = Len(s) THEN NUL ELSE resto[y - a + 1]]]

LEMMA AisladosMovOut ==
  ASSUME NEW p \in PROCESOS, NEW r \in REGISTROS, NEW a, NEW w, NEW s, NEW resto,
         w = ANCHO[r], s = Lecturas[p][r], a + w <= TAM,
         resto \in [1 .. w -> IF r \in CON_RESTO THEN Bytes ELSE {NUL}],
         Escrita(p, a, w, s, resto), Lecturas' = Lecturas
  PROVE  Aislados!MovOut(p, r, a)
<1>1. a + ANCHO[r] <= TAM
  OBVIOUS
<1>2. resto \in [1 .. ANCHO[r] -> IF r \in CON_RESTO THEN Aislados!Bytes ELSE {NUL}]
  BY DEF Aislados!Bytes, Bytes
<1>3. Escrita(p, a, ANCHO[r], Lecturas[p][r], resto)
  OBVIOUS
<1> QED BY <1>1, <1>2, <1>3 DEF Escrita, Aislados!MovOut, Lecturas, RegistroDe

LEMMA AisladosPaso ==
  ASSUME NEW p \in PROCESOS, Cuentas' = [Cuentas EXCEPT ![p] = @ + 1],
         \/ \E r \in REGISTROS, s \in CADENAS : Aislados!Set(p, r, s)
         \/ \E r \in REGISTROS, a \in 0 .. TAM - 1 :
              Aislados!MovIn(p, r, a) \/ Aislados!MovOut(p, r, a)
         \/ Lecturas' = Lecturas /\ UNCHANGED espacio
  PROVE  Aislados!Next
<1>1. (Lecturas' = Lecturas /\ UNCHANGED espacio) => Aislados!Otra(p)
  BY DEF Aislados!Otra, Lecturas, RegistroDe
<1>2. Aislados!Paso(p)
  BY <1>1 DEF Aislados!Paso, Cuentas
<1> QED BY <1>2 DEF Aislados!Next

LEMMA AisladosQuieto ==
  ASSUME Lecturas' = Lecturas, Cuentas' = Cuentas, UNCHANGED espacio
  PROVE  UNCHANGED Aislados!vars
BY DEF Aislados!vars, Lecturas, RegistroDe, Cuentas

\* What a program sees of the CPU while it is in it, and from its pcb.
LEMMA LecturaEs ==
  /\ Lecturas = [p \in PROCESOS |-> [r \in REGISTROS |-> Lecturas[p][r]]]
  /\ \A p \in PROCESOS, r \in REGISTROS :
       Lecturas[p][r] = IF proceso # NADIE /\ proceso.pid = p THEN cadena(registros_cpu[r])
                        ELSE cadena(registros[p][r])
BY DEF Lecturas, RegistroDe, EnCpu

LEMMA LecturaEsDespues ==
  /\ Lecturas' = [p \in PROCESOS |-> [r \in REGISTROS |-> Lecturas'[p][r]]]
  /\ \A p \in PROCESOS, r \in REGISTROS :
       Lecturas'[p][r] = IF proceso' # NADIE /\ proceso'.pid = p
                         THEN cadena(registros_cpu'[r]) ELSE cadena(registros'[p][r])
BY DEF Lecturas, RegistroDe, EnCpu

LEMMA InicialAislada == Init => Aislados!Init
<1> SUFFICES ASSUME Init PROVE Aislados!Init
  OBVIOUS
<1>1. \A p \in PROCESOS, r \in REGISTROS : RegistroDe(p, r) = <<>>
  BY CerosEs DEF Init, RegistroDe, EnCpu
<1>2. Lecturas = [p \in PROCESOS |-> [r \in REGISTROS |-> <<>>]]
  BY <1>1 DEF Lecturas
<1>3. Cuentas = [p \in PROCESOS |-> 0]
  BY DEF Init, Cuentas, EnCpu
<1> QED BY <1>2, <1>3, AisladosInit DEF Init

\* A process enters the CPU with the registers and the count it left with.
LEMMA EjecutarAislado ==
  ASSUME Invariante, NEW q \in PROCESOS, NEW e \in PROCESOS, ejecutar_proceso(q, e)
  PROVE  UNCHANGED Aislados!vars
<1>1. proceso = NADIE /\ UNCHANGED <<registros, program_counter, espacio>>
  BY DEF ejecutar_proceso
<1>2. /\ proceso' # NADIE /\ proceso'.pid = q
      /\ proceso'.program_counter = program_counter[q]
  BY EjecutarEs
<1>3. PICK g : g = [r \in REGISTROS |-> setear_registro(registros[q], r)]
  OBVIOUS
<1>4. registros_cpu' = g
  BY <1>3 DEF ejecutar_proceso
<1>5. EsBanco(registros[q]) /\ EsBanco(registros_cpu)
  BY DEF Invariante, Tipos
<1>6. \A r \in REGISTROS : cadena(g[r]) = cadena(registros[q][r])
  BY <1>3, <1>5, SetearEs
<1>7. Lecturas' = Lecturas
  <2>1. \A p \in PROCESOS, r \in REGISTROS : Lecturas'[p][r] = Lecturas[p][r]
    BY <1>1, <1>2, <1>4, <1>6, LecturaEs, LecturaEsDespues
  <2> QED BY <2>1, LecturaEs, LecturaEsDespues
<1>8. Cuentas' = Cuentas
  BY <1>1, <1>2 DEF Cuentas, EnCpu
<1> QED BY <1>1, <1>7, <1>8, AisladosQuieto

LEMMA CuentaUno ==
  ASSUME NEW q \in PROCESOS, NEW n \in Nat, proceso # NADIE, proceso.pid = q,
         proceso.program_counter = n,
         \A p \in PROCESOS \ {q} : program_counter'[p] = program_counter[p],
         proceso' = NADIE \/ proceso'.pid = q,
         IF proceso' = NADIE THEN program_counter'[q] = n + 1
         ELSE proceso'.program_counter = n + 1
  PROVE  Cuentas' = [Cuentas EXCEPT ![q] = @ + 1]
<1>1. Cuentas[q] = n /\ \A p \in PROCESOS \ {q} : Cuentas[p] = program_counter[p]
  BY DEF Cuentas, EnCpu
<1>2. Cuentas'[q] = n + 1 /\ \A p \in PROCESOS \ {q} : Cuentas'[p] = program_counter[p]
  BY DEF Cuentas, EnCpu
<1>3. /\ Cuentas = [p \in PROCESOS |-> Cuentas[p]]
      /\ Cuentas' = [p \in PROCESOS |-> Cuentas'[p]]
  BY DEF Cuentas
<1>4. PICK f, g : f = Cuentas /\ g = Cuentas'
  OBVIOUS
<1>5. g = [f EXCEPT ![q] = f[q] + 1]
  BY <1>1, <1>2, <1>3, <1>4
<1> QED BY <1>4, <1>5

\* SET and MOV_IN change one register, to a string cut to its width.
LEMMA SetAislado ==
  ASSUME Invariante, Tomar, Contar, UNCHANGED <<pcbs, espacio>>,
         NEW t \in REGISTROS, NEW o \in Seq(Bytes), NEW q \in PROCESOS, proceso.pid = q,
         registros_cpu' = set_valor_registro(registros_cpu, t, o)
  PROVE  /\ Lecturas' = [Lecturas EXCEPT ![q][t] = Aislados!Cortada(cadena(o), ANCHO[t])]
         /\ Cuentas' = [Cuentas EXCEPT ![q] = @ + 1]
<1>1. PICK n \in 0 .. LARGO :
        \E b : /\ proceso = [pid |-> q, program_counter |-> n, registros |-> b]
               /\ proceso.program_counter = n
               /\ n + 1 \in 0 .. LARGO /\ EsBanco(b)
  BY Tomada
<1>2. PICK b : /\ proceso = [pid |-> q, program_counter |-> n, registros |-> b]
               /\ proceso.program_counter = n
               /\ n + 1 \in 0 .. LARGO /\ EsBanco(b)
  BY <1>1
<1>3. proceso' # NADIE /\ proceso'.pid = q /\ proceso'.program_counter = n + 1
  BY <1>2, Contado
<1>4. proceso # NADIE
  BY DEF Tomar
<1>5. PICK x, g : x = registros_cpu /\ g = set_valor_registro(x, t, o)
  OBVIOUS
<1>6. registros_cpu' = g /\ EsBanco(x)
  BY <1>5 DEF Invariante, Tipos
<1>7. PICK v : v = Aislados!Cortada(cadena(o), ANCHO[t])
  OBVIOUS
<1>8. cadena(g[t]) = v /\ \A r \in REGISTROS : r # t => g[r] = x[r]
  BY <1>5, <1>6, <1>7, SetEs
<1>9. PICK f, h : f = Lecturas /\ h = Lecturas'
  OBVIOUS
<1>10. UNCHANGED <<registros, program_counter>>
  BY DEF pcbs
<1>11. \A p \in PROCESOS, r \in REGISTROS :
         h[p][r] = IF p = q /\ r = t THEN v ELSE f[p][r]
  BY <1>3, <1>4, <1>5, <1>6, <1>8, <1>9, <1>10, LecturaEs, LecturaEsDespues
<1>12. /\ f = [p \in PROCESOS |-> [r \in REGISTROS |-> f[p][r]]]
       /\ h = [p \in PROCESOS |-> [r \in REGISTROS |-> h[p][r]]]
  BY <1>9, LecturaEs, LecturaEsDespues
<1>13. h = [f EXCEPT ![q][t] = v]
  <2>1. PICK V : V = UNION {UNION {{f[p][r], h[p][r]} : r \in REGISTROS} : p \in PROCESOS}
    OBVIOUS
  <2>2. \A p \in PROCESOS, r \in REGISTROS : f[p][r] \in V /\ h[p][r] \in V
    BY <2>1
  <2>3. /\ f \in [PROCESOS -> [REGISTROS -> V]] /\ h \in [PROCESOS -> [REGISTROS -> V]]
    BY <1>12, <2>2
  <2> QED BY <1>11, <2>3, Cambia
<1>14. Cuentas' = [Cuentas EXCEPT ![q] = @ + 1]
  BY <1>2, <1>3, <1>4, <1>10, CuentaUno
<1> QED BY <1>7, <1>9, <1>13, <1>14

\* MOV_OUT writes the string of the register, a zero and, but for AX and BX, zeros.
LEMMA MovOutAislado ==
  ASSUME Invariante, NEW t \in REGISTROS, NEW a \in 0 .. TAM - 1, execute_mov_out(t, a)
  PROVE  Aislados!Next
<1>1. /\ Tomar /\ Contar /\ a + ANCHO[t] <= TAM /\ UNCHANGED <<pcbs, registros_cpu>>
      /\ espacio' = [espacio EXCEPT ![proceso.pid] =
           [x \in 0 .. TAM - 1 |-> IF x \in a .. a + ANCHO[t] - 1
                                   THEN registros_cpu[t][x - a + 1] ELSE @[x]]]
  BY DEF execute_mov_out
<1>2. PICK q \in PROCESOS, n \in 0 .. LARGO :
        \E b : /\ proceso = [pid |-> q, program_counter |-> n, registros |-> b]
               /\ proceso.pid = q /\ proceso.program_counter = n
               /\ n + 1 \in 0 .. LARGO /\ EsBanco(b)
  BY <1>1, Tomada
<1>3. PICK b : /\ proceso = [pid |-> q, program_counter |-> n, registros |-> b]
               /\ proceso.pid = q /\ proceso.program_counter = n
               /\ n + 1 \in 0 .. LARGO /\ EsBanco(b)
  BY <1>2
<1>4. proceso' # NADIE /\ proceso'.pid = q /\ proceso'.program_counter = n + 1
  BY <1>1, <1>3, Contado
<1>5. proceso # NADIE
  BY <1>1 DEF Tomar
<1>6. UNCHANGED <<registros, program_counter>>
  BY <1>1 DEF pcbs
<1>7. Cuentas' = [Cuentas EXCEPT ![q] = @ + 1]
  BY <1>3, <1>4, <1>5, <1>6, CuentaUno
<1>8. Lecturas' = Lecturas
  <2>1. \A p \in PROCESOS, r \in REGISTROS : Lecturas'[p][r] = Lecturas[p][r]
    BY <1>1, <1>3, <1>4, <1>5, <1>6, LecturaEs, LecturaEsDespues
  <2> QED BY <2>1, LecturaEs, LecturaEsDespues
<1>9. PICK x, s, w : x = registros_cpu[t] /\ s = Lecturas[q][t] /\ w = ANCHO[t]
  OBVIOUS
<1>10. s = cadena(x)
  BY <1>3, <1>5, <1>9, LecturaEs
<1>11. EsBanco(registros_cpu)
  BY DEF Invariante, Tipos
<1>12. /\ w \in Nat \ {0} /\ x \in [1 .. w + 1 -> Bytes] /\ x \in Seq(Bytes)
       /\ Len(x) = w + 1 /\ strlen(x) \in 0 .. w
  BY <1>9, <1>11, RegistroEs
<1>13. /\ Len(s) \in 0 .. w /\ x[Len(s) + 1] = NUL
       /\ \A k \in 1 .. Len(s) : s[k] = x[k]
  BY <1>10, <1>12, CadenaEs, StrlenEs
<1>14. t \notin CON_RESTO => \A k \in Len(s) + 1 .. w : x[k] = NUL
  <2>1. Len(s) = strlen(x)
    BY <1>10, <1>12, CadenaEs
  <2> QED BY SMTT(20), <1>5, <1>9, <1>12, <2>1 DEF Invariante, RestoEnCero
<1>15. PICK resto : resto = [k \in 1 .. w |-> IF t \in CON_RESTO THEN x[k] ELSE NUL]
  OBVIOUS
<1>16. resto \in [1 .. w -> IF t \in CON_RESTO THEN Bytes ELSE {NUL}]
  BY <1>12, <1>15
<1> DEFINE Escrito(y) == IF y < Len(s) THEN s[y + 1]
                         ELSE IF y = Len(s) THEN NUL ELSE resto[y + 1]
<1>17. ASSUME NEW y \in 0 .. w - 1 PROVE x[y + 1] = Escrito(y)
  <2>1. y + 1 \in 1 .. w /\ w \in Nat /\ Len(s) \in Nat
    BY <1>12, <1>13
  <2>2. CASE y < Len(s)
    BY <1>13, <2>1, <2>2
  <2>3. CASE y = Len(s)
    BY <1>13, <2>3
  <2>4. CASE y > Len(s)
    BY <1>14, <1>15, <2>1, <2>4
  <2> QED BY <2>1, <2>2, <2>3, <2>4
<1>18. [y \in 0 .. TAM - 1 |-> IF y \in a .. a + w - 1 THEN x[y - a + 1] ELSE espacio[q][y]]
       = [y \in 0 .. TAM - 1 |-> IF y \notin a .. a + w - 1 THEN espacio[q][y]
                                 ELSE IF y - a < Len(s) THEN s[y - a + 1]
                                 ELSE IF y - a = Len(s) THEN NUL ELSE resto[y - a + 1]]
  <2>1. ASSUME NEW y \in a .. a + w - 1 PROVE x[y - a + 1] = Escrito(y - a)
    <3>1. y - a \in 0 .. w - 1
      BY <1>12
    <3> HIDE DEF Escrito
    <3> QED BY <1>17, <3>1
  <2> QED BY <2>1
<1>19. Escrita(q, a, w, s, resto)
  BY <1>1, <1>3, <1>9, <1>18 DEF Escrita
<1>20. Aislados!MovOut(q, t, a)
  <2>1. w = ANCHO[t] /\ s = Lecturas[q][t] /\ a + w <= TAM
    BY <1>1, <1>9
  <2> QED BY <1>8, <1>16, <1>19, <2>1, AisladosMovOut
<1> QED BY <1>7, <1>20, AisladosPaso

\* A process leaves the CPU with the strings its registers had there, if it is the
\* one in EXEC.
LEMMA DevolverAislado ==
  ASSUME Invariante, ALGORITMO # "HRRN", NEW e, devolver_proceso(e)
  PROVE  Aislados!Next
<1>1. Tomar /\ proceso' = NADIE /\ UNCHANGED espacio /\ proceso # NADIE
  BY DEF devolver_proceso, Tomar
<1>2. PICK q \in PROCESOS, n \in 0 .. LARGO :
        \E b : /\ proceso = [pid |-> q, program_counter |-> n, registros |-> b]
               /\ proceso.pid = q /\ proceso.program_counter = n /\ EsBanco(b)
               /\ EnExec(q)
  BY <1>1, Tomada
<1>3. PICK b : /\ proceso = [pid |-> q, program_counter |-> n, registros |-> b]
               /\ proceso.pid = q /\ proceso.program_counter = n /\ EsBanco(b)
               /\ EnExec(q)
  BY <1>2
<1>4. PICK g : /\ \A r \in REGISTROS : cadena(g[r]) = cadena(registros_cpu[r])
               /\ registros' = [registros EXCEPT ![q] = g]
               /\ program_counter' = [program_counter EXCEPT ![q] = n + 1]
  BY <1>1, <1>3, DevolverEs DEF EnExec
<1>5. /\ registros'[q] = g /\ program_counter'[q] = n + 1
      /\ \A p \in PROCESOS \ {q} : /\ registros'[p] = registros[p]
                                   /\ program_counter'[p] = program_counter[p]
  BY <1>4 DEF Invariante, Tipos
<1>6. Cuentas' = [Cuentas EXCEPT ![q] = @ + 1]
  BY <1>1, <1>3, <1>5, CuentaUno
<1>7. Lecturas' = Lecturas
  <2>1. \A p \in PROCESOS, r \in REGISTROS : Lecturas'[p][r] = Lecturas[p][r]
    BY <1>1, <1>3, <1>4, <1>5, LecturaEs, LecturaEsDespues
  <2> QED BY <2>1, LecturaEs, LecturaEsDespues
<1> QED BY <1>1, <1>6, <1>7, AisladosPaso

LEMMA SiguienteAislado ==
  ASSUME Invariante, ALGORITMO # "HRRN", [Next]_vars
  PROVE  Aislados!Next \/ UNCHANGED Aislados!vars
<1>1. ASSUME NEW p \in PROCESOS, NEW e \in PROCESOS, ejecutar_proceso(p, e)
      PROVE  UNCHANGED Aislados!vars
  BY <1>1, EjecutarAislado
<1>2. ASSUME NEW r \in REGISTROS, NEW valor \in CADENAS, execute_set(r, valor)
      PROVE  Aislados!Next
  <2>1. /\ Tomar /\ Contar /\ UNCHANGED <<pcbs, espacio>> /\ UNCHANGED espacio
        /\ registros_cpu' = set_valor_registro(registros_cpu, r, valor)
    BY <1>2 DEF execute_set
  <2>2. PICK q \in PROCESOS : proceso.pid = q
    BY <2>1, Tomada
  <2>3. valor \in Seq(Bytes) /\ cadena(valor) = valor
    BY OperandoDeSet
  <2>4. /\ Lecturas' = [Lecturas EXCEPT ![q][r] = Aislados!Cortada(cadena(valor), ANCHO[r])]
        /\ Cuentas' = [Cuentas EXCEPT ![q] = @ + 1]
    BY <2>1, <2>2, <2>3, SetAislado
  <2>5. Aislados!Set(q, r, valor)
    BY <2>1, <2>3, <2>4, AisladosSet
  <2> QED BY <2>4, <2>5, AisladosPaso
<1>3. ASSUME NEW r \in REGISTROS, NEW a \in 0 .. TAM - 1, execute_mov_in(r, a)
      PROVE  Aislados!Next
  <2>1. /\ Tomar /\ Contar /\ UNCHANGED <<pcbs, espacio>> /\ UNCHANGED espacio
        /\ a + ANCHO[r] <= TAM
        /\ registros_cpu' = set_valor_registro(registros_cpu, r,
             cadena([k \in 1 .. ANCHO[r] |-> espacio[proceso.pid][a + k - 1]]))
    BY <1>3 DEF execute_mov_in
  <2>2. PICK q \in PROCESOS : proceso.pid = q
    BY <2>1, Tomada
  <2>3. PICK o : o = [k \in 1 .. ANCHO[r] |-> espacio[q][a + k - 1]]
    OBVIOUS
  <2>4. PICK s \in Seq(LETRAS) :
          /\ s = cadena(o) /\ Len(s) <= ANCHO[r]
          /\ s = Aislados!Cadena(espacio[q], a, ANCHO[r])
    BY <2>1, <2>3, Leido
  <2>5. registros_cpu' = set_valor_registro(registros_cpu, r, s)
    BY <2>1, <2>2, <2>3, <2>4
  <2>6. s \in Seq(Bytes) /\ cadena(s) = s
    BY Operando
  <2>7. Tomar /\ Contar /\ UNCHANGED <<pcbs, espacio>>
    BY <2>1
  <2>8. /\ Lecturas' = [Lecturas EXCEPT ![q][r] = Aislados!Cortada(cadena(s), ANCHO[r])]
        /\ Cuentas' = [Cuentas EXCEPT ![q] = @ + 1]
    BY <2>2, <2>5, <2>6, <2>7, SetAislado
  <2>9. ANCHO[r] \in Nat
    BY AnchosValidos
  <2>10. Aislados!Cortada(cadena(s), ANCHO[r]) = Aislados!Cadena(espacio[q], a, ANCHO[r])
    BY <2>4, <2>6, <2>9, SinCortar
  <2>11. Aislados!MovIn(q, r, a)
    BY <2>1, <2>8, <2>10, AisladosMovIn
  <2> QED BY <2>8, <2>11, AisladosPaso
<1>4. ASSUME NEW r \in REGISTROS, NEW a \in 0 .. TAM - 1, execute_mov_out(r, a)
      PROVE  Aislados!Next
  BY <1>4, MovOutAislado
<1>5. ASSUME DevolverYSeguir \/ DevolverYTerminar PROVE Aislados!Next
  BY <1>5, DevolverAislado DEF DevolverYSeguir, DevolverYTerminar
<1>6. ASSUME UNCHANGED vars PROVE UNCHANGED Aislados!vars
  <2>1. Lecturas' = Lecturas /\ Cuentas' = Cuentas /\ UNCHANGED espacio
    BY <1>6 DEF vars, pcbs, Lecturas, RegistroDe, Cuentas, EnCpu
  <2> QED BY <2>1, AisladosQuieto
<1> QED BY <1>1, <1>2, <1>3, <1>4, <1>5, <1>6 DEF Next

\* With any algorithm but HRRN, under which the kernel stores what comes back in
\* another pcb, each program finds its registers, its memory and its place as it left
\* them, whoever used the CPU in between: enviar_contexto, setear_registro and
\* actualizar_registros_pcb lose and mix up nothing, for every set of programs and
\* registers, every width and every operand.
THEOREM ProgramasAisladosImplementados ==
  ASSUME ALGORITMO # "HRRN"
  PROVE  Spec => ImplementaAislados
<1>1. Init => Aislados!Init
  BY InicialAislada
<1>2. Invariante /\ [Next]_vars => Aislados!Next \/ UNCHANGED Aislados!vars
  BY SiguienteAislado
<1> QED BY <1>1, <1>2, SiempreInvariante, PTL DEF Spec, ImplementaAislados, Aislados!Spec
==============================================================================
