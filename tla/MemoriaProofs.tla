---------------------------- MODULE MemoriaProofs ----------------------------
(***************************************************************************)
(* The memory stays partitioned into holes and segments, for every size of *)
(* memory, every fit algorithm and every set of processes.                 *)
(***************************************************************************)
EXTENDS Memoria, FiniteSetTheorems, TLAPS

\* The lists of segments as data: a function from descriptors to t_segmento.
EsListaDeSegmentos(segs) ==
  /\ DOMAIN segs \subseteq Descriptores
  /\ segs \in [DOMAIN segs -> Segmento]

\* Holes that are not empty and do not overlap; a range of n bytes that overlaps
\* none of them; a byte that is in one of them.
SonDisjuntos(hs) ==
  /\ \A h \in hs : h.inicio <= h.fin
  /\ \A h, k \in hs : h # k => h.fin < k.inicio \/ k.fin < h.inicio
Ajeno(hs, x, n) == \A h \in hs : h.fin < x \/ x + n <= h.inicio
Cubre(hs, a) == \E h \in hs : h.inicio <= a /\ a <= h.fin

\* The sizes and addresses of holes and segments are natural numbers.
LEMMA Naturales ==
  /\ \A h \in Hueco : h.inicio \in Nat /\ h.fin \in Nat /\ h.fin < TAM_MEMORIA
  /\ \A s \in Segmento : s.inicio \in Nat /\ s.tam \in Nat /\ s.tam > 0
                         /\ s.inicio < TAM_MEMORIA
<1>1. ASSUME NEW h \in Hueco
      PROVE  h.inicio \in Nat /\ h.fin \in Nat /\ h.fin < TAM_MEMORIA
  <2>1. h.inicio \in Direcciones /\ h.fin \in Direcciones
    BY DEF Hueco
  <2> QED BY <2>1, TamaniosValidos DEF Direcciones
<1>2. ASSUME NEW s \in Segmento
      PROVE  /\ s.inicio \in Nat /\ s.inicio < TAM_MEMORIA
             /\ s.tam \in Nat /\ s.tam > 0
  <2>1. s.inicio \in Direcciones /\ s.tam \in TAMANIOS \cup {TAM_SEGMENTO_0}
    BY DEF Segmento
  <2>2. s.inicio \in Nat /\ s.inicio < TAM_MEMORIA
    BY <2>1, TamaniosValidos DEF Direcciones
  <2>3. s.tam \in Nat \ {0}
    BY <2>1, TamaniosValidos
  <2> QED BY <2>2, <2>3
<1> QED BY <1>1, <1>2

-----------------------------------------------------------------------------
(* Freeing a space *)

\* What consolidar_huecos_contiguos returns: the freed space, stretched over
\* the hole before it and the hole after it, takes their place.
LEMMA FormaDeConsolidar ==
  ASSUME NEW hs \in SUBSET Hueco, NEW ini \in Nat, NEW t \in Nat,
         t > 0, ini + t <= TAM_MEMORIA
  PROVE  \E L \in Nat, R \in Nat :
           /\ R < TAM_MEMORIA
           /\ \/ L = ini /\ \A h \in hs : h.fin # ini - 1
              \/ \E l \in hs : l.fin = ini - 1 /\ L = l.inicio
           /\ \/ R = ini + t - 1 /\ \A h \in hs : h.inicio # ini + t
              \/ \E r \in hs : r.inicio = ini + t /\ R = r.fin
           /\ consolidar_huecos_contiguos(hs, ini, t) =
                {h \in hs : h.fin # ini - 1 /\ h.inicio # ini + t}
                  \cup {[inicio |-> L, fin |-> R]}
<1> DEFINE izq == {h \in hs : h.fin = ini - 1}
           der == {h \in hs : h.inicio = ini + t}
           L == IF izq = {} THEN ini ELSE (CHOOSE h \in izq : TRUE).inicio
           R == IF der = {} THEN ini + t - 1 ELSE (CHOOSE h \in der : TRUE).fin
<1>1. consolidar_huecos_contiguos(hs, ini, t) =
        (hs \ (izq \cup der)) \cup {[inicio |-> L, fin |-> R]}
  BY DEF consolidar_huecos_contiguos
<1>2. hs \ (izq \cup der) = {h \in hs : h.fin # ini - 1 /\ h.inicio # ini + t}
  OBVIOUS
<1>3. \/ L = ini /\ \A h \in hs : h.fin # ini - 1
      \/ \E l \in hs : l.fin = ini - 1 /\ L = l.inicio
  <2>1. CASE izq = {}
    BY <2>1
  <2>2. CASE izq # {}
    <3>1. (CHOOSE h \in izq : TRUE) \in izq
      BY <2>2
    <3> QED BY <2>2, <3>1
  <2> QED BY <2>1, <2>2
<1>4. \/ R = ini + t - 1 /\ \A h \in hs : h.inicio # ini + t
      \/ \E r \in hs : r.inicio = ini + t /\ R = r.fin
  <2>1. CASE der = {}
    BY <2>1
  <2>2. CASE der # {}
    <3>1. (CHOOSE h \in der : TRUE) \in der
      BY <2>2
    <3> QED BY <2>2, <3>1
  <2> QED BY <2>1, <2>2
<1> HIDE DEF L, R, izq, der
<1>5. L \in Nat /\ R \in Nat /\ R < TAM_MEMORIA
  BY <1>3, <1>4, Naturales, TamaniosValidos
<1> QED
  BY <1>1, <1>2, <1>3, <1>4, <1>5

\* Freeing a space that no hole overlaps: the holes are still holes, do not
\* overlap and are not side by side, and cover what they covered and the space.
\* A range that overlapped neither the holes nor the space overlaps none now.
LEMMA Consolidar ==
  ASSUME NEW hs \in SUBSET Hueco, NEW ini \in Nat, NEW t \in Nat,
         t > 0, ini + t <= TAM_MEMORIA,
         SonDisjuntos(hs), Ajeno(hs, ini, t), EstanSeparados(hs),
         NEW hs2, hs2 = consolidar_huecos_contiguos(hs, ini, t)
  PROVE  /\ hs2 \subseteq Hueco
         /\ SonDisjuntos(hs2)
         /\ EstanSeparados(hs2)
         /\ \A a \in Int : Cubre(hs, a) \/ (ini <= a /\ a < ini + t) => Cubre(hs2, a)
         /\ \A x, n \in Nat :
              n > 0 /\ (x + n <= ini \/ ini + t <= x) /\ Ajeno(hs, x, n) => Ajeno(hs2, x, n)
<1> USE DEF SonDisjuntos, Ajeno
<1>1. PICK L \in Nat, R \in Nat :
        /\ R < TAM_MEMORIA
        /\ \/ L = ini /\ \A h \in hs : h.fin # ini - 1
           \/ \E l \in hs : l.fin = ini - 1 /\ L = l.inicio
        /\ \/ R = ini + t - 1 /\ \A h \in hs : h.inicio # ini + t
           \/ \E r \in hs : r.inicio = ini + t /\ R = r.fin
        /\ hs2 = {h \in hs : h.fin # ini - 1 /\ h.inicio # ini + t}
                   \cup {[inicio |-> L, fin |-> R]}
  BY FormaDeConsolidar
<1> DEFINE n == [inicio |-> L, fin |-> R]
           resto == {h \in hs : h.fin # ini - 1 /\ h.inicio # ini + t}
<1>2. /\ \A h \in hs : h.inicio \in Nat /\ h.fin \in Nat
      /\ TAM_MEMORIA \in Nat
  BY Naturales, TamaniosValidos
<1>3. L <= ini /\ ini + t <= R + 1 /\ n.inicio = L /\ n.fin = R
  BY <1>1, <1>2
<1>4. n \in Hueco
  BY <1>1, <1>2, <1>3 DEF Hueco, Direcciones
<1>5. \A h \in resto : h.fin + 1 < L \/ R + 1 < h.inicio
  BY <1>1, <1>2 DEF EstanSeparados
<1>6. \A h \in hs2 : h \in resto \/ h = n
  BY <1>1
<1> HIDE DEF n, resto
<1>7. resto \subseteq hs
  BY DEF resto
<1>8. hs2 \subseteq Hueco /\ \A h \in hs2 : h.inicio <= h.fin
  BY <1>2, <1>3, <1>4, <1>6, <1>7
<1>9. \A h, k \in hs2 : h # k => h.fin < k.inicio \/ k.fin < h.inicio
  BY <1>2, <1>3, <1>5, <1>6, <1>7
<1>10. EstanSeparados(hs2)
  BY <1>2, <1>3, <1>5, <1>6, <1>7 DEF EstanSeparados
<1>11. ASSUME NEW a \in Int, Cubre(hs, a) \/ (ini <= a /\ a < ini + t)
       PROVE  Cubre(hs2, a)
  <2> USE DEF Cubre
  <2>1. n \in hs2 /\ \A h \in hs : h.fin # ini - 1 /\ h.inicio # ini + t => h \in hs2
    BY <1>1 DEF n
  <2>2. CASE L <= a /\ a <= R
    BY <2>1, <2>2, <1>3
  <2>3. CASE ~(L <= a /\ a <= R)
    <3>1. PICK h \in hs : h.inicio <= a /\ a <= h.fin
      BY <1>11, <1>2, <1>3, <2>3
    <3>2. h.fin # ini - 1 /\ h.inicio # ini + t
      <4>1. ASSUME h.fin = ini - 1 PROVE FALSE
        <5>1. PICK l \in hs : l.fin = ini - 1 /\ L = l.inicio
          BY <1>1, <4>1
        <5>2. l = h
          BY <4>1, <5>1, <1>2
        <5> QED BY <2>3, <3>1, <4>1, <5>1, <5>2, <1>2, <1>3
      <4>2. ASSUME h.inicio = ini + t PROVE FALSE
        <5>1. PICK r \in hs : r.inicio = ini + t /\ R = r.fin
          BY <1>1, <4>2
        <5>2. r = h
          BY <4>2, <5>1, <1>2
        <5> QED BY <2>3, <3>1, <4>2, <5>1, <5>2, <1>2, <1>3
      <4> QED BY <4>1, <4>2
    <3> QED BY <2>1, <3>1, <3>2
  <2> QED BY <2>2, <2>3
<1>12. ASSUME NEW x \in Nat, NEW m \in Nat, m > 0,
              x + m <= ini \/ ini + t <= x,
              Ajeno(hs, x, m)
       PROVE  Ajeno(hs2, x, m)
  <2>1. R < x \/ x + m <= L
    BY <1>1, <1>2, <1>12
  <2> QED BY <2>1, <1>3, <1>6, <1>7, <1>12
<1> QED
  BY <1>8, <1>9, <1>10, <1>11, <1>12

\* Deleting an active segment and freeing its space keeps the partition.
LEMMA LiberarSegmento ==
  ASSUME NEW hs \in SUBSET Hueco, NEW segs, EsListaDeSegmentos(segs),
         EsParticion(hs, segs), EstanSeparados(hs),
         NEW d \in DOMAIN segs,
         NEW hs2, hs2 = consolidar_huecos_contiguos(hs, segs[d].inicio, segs[d].tam),
         NEW segs2, segs2 = Restrict(segs, DOMAIN segs \ {d})
  PROVE  /\ hs2 \subseteq Hueco
         /\ EsListaDeSegmentos(segs2)
         /\ DOMAIN segs2 = DOMAIN segs \ {d}
         /\ EsParticion(hs2, segs2)
         /\ EstanSeparados(hs2)
<1>1. /\ DOMAIN segs2 = DOMAIN segs \ {d}
      /\ \A e \in DOMAIN segs2 : segs2[e] = segs[e]
  BY DEF Restrict
<1>2. \A e \in DOMAIN segs : segs[e] \in Segmento
  BY DEF EsListaDeSegmentos
<1>3. \A e \in DOMAIN segs : /\ segs[e].inicio \in Nat
                             /\ segs[e].tam \in Nat /\ segs[e].tam > 0
  BY <1>2, Naturales
<1>4. EsListaDeSegmentos(segs2)
  <2>1. segs2 = [e \in DOMAIN segs2 |-> segs2[e]]
    BY <1>1 DEF Restrict
  <2> QED BY <1>1, <1>2, <2>1 DEF EsListaDeSegmentos
<1>5. /\ SonDisjuntos(hs)
      /\ Ajeno(hs, segs[d].inicio, segs[d].tam)
      /\ segs[d].inicio + segs[d].tam <= TAM_MEMORIA
  BY DEF EsParticion, SonDisjuntos, Ajeno
<1>6. /\ hs2 \subseteq Hueco
      /\ SonDisjuntos(hs2)
      /\ EstanSeparados(hs2)
      /\ \A a \in Int :
           \/ Cubre(hs, a)
           \/ segs[d].inicio <= a /\ a < segs[d].inicio + segs[d].tam
           => Cubre(hs2, a)
      /\ \A x, n \in Nat :
           /\ n > 0
           /\ x + n <= segs[d].inicio \/ segs[d].inicio + segs[d].tam <= x
           /\ Ajeno(hs, x, n)
           => Ajeno(hs2, x, n)
  BY <1>3, <1>5, Consolidar
<1>7. ASSUME NEW e \in DOMAIN segs2
      PROVE  Ajeno(hs2, segs2[e].inicio, segs2[e].tam)
  <2>1. Ajeno(hs, segs[e].inicio, segs[e].tam)
    BY <1>1 DEF EsParticion, Ajeno
  <2>2. \/ segs[e].inicio + segs[e].tam <= segs[d].inicio
        \/ segs[d].inicio + segs[d].tam <= segs[e].inicio
    BY <1>1 DEF EsParticion
  <2> QED BY <2>1, <2>2, <1>1, <1>3, <1>6
<1>8. \A a \in Direcciones :
        \/ Cubre(hs2, a)
        \/ \E e \in DOMAIN segs2 :
             segs2[e].inicio <= a /\ a < segs2[e].inicio + segs2[e].tam
  <2> SUFFICES ASSUME NEW a \in Direcciones, ~Cubre(hs2, a)
               PROVE  \E e \in DOMAIN segs2 :
                        segs2[e].inicio <= a /\ a < segs2[e].inicio + segs2[e].tam
    OBVIOUS
  <2>1. a \in Int
    BY TamaniosValidos DEF Direcciones
  <2>2. PICK e \in DOMAIN segs : segs[e].inicio <= a /\ a < segs[e].inicio + segs[e].tam
    BY <2>1, <1>6 DEF EsParticion, Cubre
  <2>3. e # d
    BY <2>1, <2>2, <1>6
  <2> QED BY <1>1, <2>2, <2>3
<1> QED
  BY <1>1, <1>4, <1>6, <1>7, <1>8 DEF EsParticion, SonDisjuntos, Ajeno, Cubre

\* Placing a new segment at the start of a hole that is large enough keeps the
\* partition, whichever hole the fit algorithm takes.
LEMMA OcuparHueco ==
  ASSUME NEW hs \in SUBSET Hueco, NEW segs, EsListaDeSegmentos(segs),
         EsParticion(hs, segs), EstanSeparados(hs),
         NEW h \in hs, NEW i \in IDS, NEW t \in TAMANIOS, tamanio_hueco(h) >= t,
         NEW d \in Descriptores, d \notin DOMAIN segs,
         NEW hs2, hs2 = actualizar_hueco(hs, h, h.inicio + t),
         NEW segs2, segs2 = [e \in DOMAIN segs \cup {d} |->
             IF e = d THEN [segmento_id |-> i, inicio |-> h.inicio, tam |-> t]
             ELSE segs[e]]
  PROVE  /\ hs2 \subseteq Hueco
         /\ EsListaDeSegmentos(segs2)
         /\ EsParticion(hs2, segs2)
         /\ EstanSeparados(hs2)
<1> DEFINE s == [segmento_id |-> i, inicio |-> h.inicio, tam |-> t]
           n == [h EXCEPT !.inicio = h.inicio + t]
<1>1. \A k \in hs : k.inicio \in Nat /\ k.fin \in Nat /\ k.fin < TAM_MEMORIA
  BY Naturales
<1>2. t \in Nat /\ t > 0 /\ TAM_MEMORIA \in Nat
  BY TamaniosValidos
<1>3. h.inicio + t <= h.fin + 1
  BY <1>1, <1>2 DEF tamanio_hueco
<1>4. s \in Segmento
  <2>1. h.inicio \in Direcciones
    BY DEF Hueco
  <2> QED BY <2>1 DEF Segmento
<1>5. /\ DOMAIN segs2 = DOMAIN segs \cup {d}
      /\ segs2[d] = s
      /\ \A e \in DOMAIN segs : segs2[e] = segs[e]
  OBVIOUS
<1>6. \A e \in DOMAIN segs : segs[e] \in Segmento
  BY DEF EsListaDeSegmentos
<1>7. EsListaDeSegmentos(segs2)
  BY <1>4, <1>5, <1>6 DEF EsListaDeSegmentos
<1>8. \A e \in DOMAIN segs : /\ segs[e].inicio \in Nat
                             /\ segs[e].tam \in Nat /\ segs[e].tam > 0
  BY <1>6, Naturales
<1>9. n.inicio = h.inicio + t /\ n.fin = h.fin
  BY DEF Hueco
<1>10. /\ \A k \in hs2 : (k \in hs /\ k # h) \/ (k = n /\ h.inicio + t <= h.fin)
       /\ \A k \in hs : k # h => k \in hs2
       /\ h.inicio + t <= h.fin => n \in hs2
  BY <1>1, <1>2 DEF actualizar_hueco
<1>11. s.inicio = h.inicio /\ s.tam = t
  OBVIOUS
<1> HIDE DEF s, n
<1>12. h.inicio + t <= h.fin => n \in Hueco
  <2> SUFFICES ASSUME h.inicio + t <= h.fin PROVE n \in Hueco
    OBVIOUS
  <2>1. h.inicio + t \in Direcciones
    BY <1>1, <1>2 DEF Direcciones
  <2> QED BY <2>1 DEF Hueco, n
<1>13. hs2 \subseteq Hueco
  BY <1>10, <1>12
<1>14. /\ \A k \in hs2 : k.inicio <= k.fin
       /\ \A k, l \in hs2 : k # l => k.fin < l.inicio \/ l.fin < k.inicio
  BY <1>1, <1>2, <1>9, <1>10 DEF EsParticion
<1>15. EstanSeparados(hs2)
  BY <1>1, <1>2, <1>3, <1>9, <1>10 DEF EstanSeparados, EsParticion
<1>16. \A e \in DOMAIN segs2 : segs2[e].inicio + segs2[e].tam <= TAM_MEMORIA
  BY <1>1, <1>2, <1>3, <1>5, <1>11 DEF EsParticion
<1>17. \A k \in hs2, e \in DOMAIN segs2 :
         k.fin < segs2[e].inicio \/ segs2[e].inicio + segs2[e].tam <= k.inicio
  <2> SUFFICES ASSUME NEW k \in hs2, NEW e \in DOMAIN segs2
               PROVE  k.fin < segs2[e].inicio \/ segs2[e].inicio + segs2[e].tam <= k.inicio
    OBVIOUS
  <2>1. CASE e = d
    BY <2>1, <1>1, <1>2, <1>3, <1>5, <1>9, <1>10, <1>11 DEF EsParticion
  <2>2. CASE e # d
    BY <2>2, <1>1, <1>2, <1>5, <1>8, <1>9, <1>10 DEF EsParticion
  <2> QED BY <2>1, <2>2
<1>18. \A e, f \in DOMAIN segs2 : e # f =>
         \/ segs2[e].inicio + segs2[e].tam <= segs2[f].inicio
         \/ segs2[f].inicio + segs2[f].tam <= segs2[e].inicio
  BY <1>1, <1>2, <1>3, <1>5, <1>8, <1>11 DEF EsParticion
<1>19. \A a \in Direcciones :
         \/ \E k \in hs2 : k.inicio <= a /\ a <= k.fin
         \/ \E e \in DOMAIN segs2 :
              segs2[e].inicio <= a /\ a < segs2[e].inicio + segs2[e].tam
  <2> SUFFICES ASSUME NEW a \in Direcciones
               PROVE  \/ \E k \in hs2 : k.inicio <= a /\ a <= k.fin
                      \/ \E e \in DOMAIN segs2 :
                           segs2[e].inicio <= a /\ a < segs2[e].inicio + segs2[e].tam
    OBVIOUS
  <2>1. a \in Int
    BY <1>2 DEF Direcciones
  <2>2. CASE h.inicio <= a /\ a <= h.fin
    <3>1. CASE a < h.inicio + t
      BY <2>2, <3>1, <1>5, <1>11
    <3>2. CASE a >= h.inicio + t
      BY <2>1, <2>2, <3>2, <1>1, <1>2, <1>9, <1>10
    <3> QED BY <3>1, <3>2, <2>1, <1>1, <1>2
  <2>3. CASE ~(h.inicio <= a /\ a <= h.fin)
    BY <2>3, <1>5, <1>10 DEF EsParticion
  <2> QED BY <2>2, <2>3
<1> QED
  BY <1>7, <1>13, <1>14, <1>15, <1>16, <1>17, <1>18, <1>19 DEF EsParticion

\* Moving a segment down over the hole just below it, whose space comes after
\* the segment now, keeps the partition.
LEMMA MoverSegmento ==
  ASSUME NEW hs \in SUBSET Hueco, NEW segs, EsListaDeSegmentos(segs),
         EsParticion(hs, segs), EstanSeparados(hs),
         NEW d \in DOMAIN segs, NEW h \in hs, h.fin = segs[d].inicio - 1,
         NEW hs2, hs2 = consolidar_huecos_contiguos(hs \ {h},
                          h.inicio + segs[d].tam, tamanio_hueco(h)),
         NEW segs2, segs2 = [segs EXCEPT ![d].inicio = h.inicio]
  PROVE  /\ hs2 \subseteq Hueco
         /\ EsListaDeSegmentos(segs2)
         /\ EsParticion(hs2, segs2)
         /\ EstanSeparados(hs2)
<1> DEFINE base == segs[d].inicio
           n == segs[d].tam
           ini == h.inicio + n
           t == tamanio_hueco(h)
           resto == hs \ {h}
<1>1. \A e \in DOMAIN segs : segs[e] \in Segmento
  BY DEF EsListaDeSegmentos
<1>2. /\ \A e \in DOMAIN segs : /\ segs[e].inicio \in Nat
                                /\ segs[e].tam \in Nat /\ segs[e].tam > 0
      /\ \A k \in hs : k.inicio \in Nat /\ k.fin \in Nat
      /\ TAM_MEMORIA \in Nat
  BY <1>1, Naturales, TamaniosValidos
<1>3. h.inicio <= h.fin /\ h.fin = base - 1 /\ base \in Nat /\ n \in Nat /\ n > 0
  BY <1>2 DEF EsParticion
<1>4. /\ ini \in Nat /\ t \in Nat /\ t > 0
      /\ ini + t = base + n /\ h.inicio + t = base
  BY <1>2, <1>3 DEF tamanio_hueco
<1>5. /\ DOMAIN segs2 = DOMAIN segs
      /\ segs2[d].inicio = h.inicio /\ segs2[d].tam = n
      /\ \A e \in DOMAIN segs : e # d => segs2[e] = segs[e]
  BY <1>1 DEF Segmento
<1>6. EsListaDeSegmentos(segs2)
  <2>1. h.inicio \in Direcciones
    BY DEF Hueco
  <2>2. segs2[d] \in Segmento
    BY <2>1, <1>1 DEF Segmento
  <2> QED BY <2>2, <1>1, <1>5 DEF EsListaDeSegmentos
<1>7. base + n <= TAM_MEMORIA
  BY DEF EsParticion
<1>8. \A k \in resto : k.fin < h.inicio \/ base + n <= k.inicio
  BY <1>2, <1>3 DEF EsParticion
<1>9. hs2 = consolidar_huecos_contiguos(resto, ini, t)
  OBVIOUS
<1> HIDE DEF base, n, ini, t
<1>10. /\ resto \in SUBSET Hueco
       /\ SonDisjuntos(resto)
       /\ EstanSeparados(resto)
       /\ Ajeno(resto, ini, t)
  BY <1>2, <1>3, <1>4, <1>8 DEF EsParticion, SonDisjuntos, EstanSeparados, Ajeno
<1>11. ini + t <= TAM_MEMORIA
  BY <1>4, <1>7
<1> HIDE DEF resto
<1>12. /\ hs2 \subseteq Hueco
       /\ SonDisjuntos(hs2)
       /\ EstanSeparados(hs2)
       /\ \A a \in Int : Cubre(resto, a) \/ (ini <= a /\ a < ini + t) => Cubre(hs2, a)
       /\ \A x, m \in Nat :
            m > 0 /\ (x + m <= ini \/ ini + t <= x) /\ Ajeno(resto, x, m)
            => Ajeno(hs2, x, m)
  BY <1>4, <1>9, <1>10, <1>11, Consolidar
<1>13. \A e \in DOMAIN segs : e # d =>
         segs[e].inicio + segs[e].tam <= h.inicio \/ base + n <= segs[e].inicio
  BY <1>2, <1>3 DEF EsParticion, base, n
<1>14. ASSUME NEW e \in DOMAIN segs2
       PROVE  Ajeno(hs2, segs2[e].inicio, segs2[e].tam)
  <2>1. CASE e = d
    <3>1. Ajeno(resto, h.inicio, n)
      BY <1>2, <1>3, <1>8 DEF Ajeno, resto
    <3>2. h.inicio + n <= ini
      BY <1>2, <1>3 DEF ini
    <3> QED BY <2>1, <3>1, <3>2, <1>2, <1>3, <1>5, <1>12
  <2>2. CASE e # d
    <3>1. Ajeno(resto, segs[e].inicio, segs[e].tam)
      BY <1>5, <2>2 DEF EsParticion, Ajeno, resto
    <3>2. segs[e].inicio + segs[e].tam <= ini \/ ini + t <= segs[e].inicio
      BY <1>2, <1>3, <1>4, <1>5, <1>13, <2>2 DEF ini
    <3> QED BY <2>2, <3>1, <3>2, <1>2, <1>5, <1>12
  <2> QED BY <2>1, <2>2
<1>15. /\ \A e \in DOMAIN segs2 : segs2[e].inicio + segs2[e].tam <= TAM_MEMORIA
       /\ \A e, f \in DOMAIN segs2 : e # f =>
            \/ segs2[e].inicio + segs2[e].tam <= segs2[f].inicio
            \/ segs2[f].inicio + segs2[f].tam <= segs2[e].inicio
  BY <1>2, <1>3, <1>5, <1>7, <1>13 DEF EsParticion
<1>16. \A a \in Direcciones :
         \/ Cubre(hs2, a)
         \/ \E e \in DOMAIN segs2 :
              segs2[e].inicio <= a /\ a < segs2[e].inicio + segs2[e].tam
  <2> SUFFICES ASSUME NEW a \in Direcciones, ~Cubre(hs2, a)
               PROVE  \E e \in DOMAIN segs2 :
                        segs2[e].inicio <= a /\ a < segs2[e].inicio + segs2[e].tam
    OBVIOUS
  <2>1. a \in Int
    BY <1>2 DEF Direcciones
  <2>2. ~Cubre(resto, a) /\ ~(ini <= a /\ a < ini + t)
    BY <2>1, <1>12
  <2>3. CASE h.inicio <= a /\ a < base + n
    <3>1. a < h.inicio + n
      BY <2>1, <2>2, <2>3, <1>2, <1>3, <1>4 DEF ini
    <3> QED BY <2>3, <3>1, <1>5
  <2>4. CASE ~(h.inicio <= a /\ a < base + n)
    <3>1. PICK e \in DOMAIN segs : segs[e].inicio <= a /\ a < segs[e].inicio + segs[e].tam
      BY <2>1, <2>2, <2>4, <1>2, <1>3 DEF EsParticion, Cubre, resto
    <3>2. e # d
      BY <2>1, <2>4, <3>1, <1>2, <1>3 DEF base, n
    <3> QED BY <3>1, <3>2, <1>5
  <2> QED BY <2>3, <2>4
<1> QED
  BY <1>6, <1>12, <1>14, <1>15, <1>16 DEF EsParticion, SonDisjuntos, Ajeno, Cubre

-----------------------------------------------------------------------------
(* The invariant *)

\* What the allocator, the coalescing and the tables need of each other: none of
\* the four is inductive alone.  Space is freed once because a segment is in one
\* table; it is freed whole because holes and segments partition the memory.
Invariante == TypeOK /\ Particion /\ HuecosConsolidados /\ TablasConsistentes

LEMMA InicioValido == Init => Invariante
<1> SUFFICES ASSUME Init PROVE Invariante
  OBVIOUS
<1> USE DEF Init, Compartido
<1>1. /\ Activos = {Compartido}
      /\ segmentos[Compartido].inicio = 0
      /\ segmentos[Compartido].tam = TAM_SEGMENTO_0
      /\ segmentos[Compartido].segmento_id = 0
  BY DEF Activos
<1>2. TypeOK
  <2>1. /\ TAM_SEGMENTO_0 \in Direcciones /\ TAM_MEMORIA - 1 \in Direcciones
        /\ 0 \in Direcciones /\ Compartido \in Descriptores
    BY TamaniosValidos DEF Direcciones, Descriptores
  <2>2. huecos \subseteq Hueco
    BY <2>1 DEF Hueco
  <2>3. segmentos \in [Activos -> Segmento]
    BY <2>1 DEF Segmento, Activos
  <2>4. tablas \in [DOMAIN tablas -> SUBSET Descriptores] /\ DOMAIN tablas \subseteq PIDS
    OBVIOUS
  <2>5. id \in 2 .. MAX_DESCRIPTOR + 1 /\ cursor \in 0 .. MAX_DESCRIPTOR
    BY TamaniosValidos
  <2>6. espacio \in [Direcciones -> VALORES]
    OBVIOUS
  <2> QED BY <2>1, <2>2, <2>3, <2>4, <2>5, <2>6, <1>1 DEF TypeOK
<1>3. Particion /\ HuecosConsolidados
  BY <1>1, TamaniosValidos
  DEF Particion, EsParticion, HuecosConsolidados, EstanSeparados, Activos, Direcciones
<1>4. TablasConsistentes
  BY <1>1 DEF TablasConsistentes
<1> QED BY <1>2, <1>3, <1>4 DEF Invariante

\* The lemmas on lists of segments apply to the variables.
LEMMA ListaActiva == Invariante => /\ EsListaDeSegmentos(segmentos)
                                   /\ huecos \in SUBSET Hueco
                                   /\ EsParticion(huecos, segmentos)
                                   /\ EstanSeparados(huecos)
BY DEF Invariante, TypeOK, Particion, HuecosConsolidados, EsListaDeSegmentos, Activos

\* A step that changes neither the holes, the segments nor the tables.
LEMMA PasoSinCambios ==
  ASSUME Invariante, TypeOK',
         UNCHANGED <<huecos, segmentos, tablas, aLiberar>>, id' \in {id, id + 1}
  PROVE  Invariante'
<1>1. Particion' /\ HuecosConsolidados'
  BY DEF Invariante, Particion, HuecosConsolidados
<1>2. \A d \in Activos : d < id'
  BY DEF Invariante, TypeOK, TablasConsistentes, Descriptores
<1>3. TablasConsistentes'
  BY <1>2 DEF Invariante, TablasConsistentes, Activos
<1> QED BY <1>1, <1>3 DEF Invariante

\* crear_segmento
LEMMA PasoCrear ==
  ASSUME Invariante, NEW p \in PIDS, NEW i \in IDS, NEW t \in TAMANIOS,
         crear_segmento(p, i, t)
  PROVE  Invariante'
<1> USE DEF crear_segmento, Recibido
<1>1. PICK h \in huecos :
        /\ tamanio_hueco(h) >= t
        /\ huecos' = actualizar_hueco(huecos, h, h.inicio + t)
        /\ segmentos' = [d \in Activos \cup {id} |->
             IF d = id THEN [segmento_id |-> i, inicio |-> h.inicio, tam |-> t]
             ELSE segmentos[d]]
  BY DEF Candidatos
<1>2. id \in Descriptores /\ id \notin Activos /\ id # Compartido
  BY TamaniosValidos
  DEF Invariante, TypeOK, TablasConsistentes, Descriptores, Compartido
<1>3. /\ huecos' \subseteq Hueco
      /\ EsListaDeSegmentos(segmentos')
      /\ EsParticion(huecos', segmentos')
      /\ EstanSeparados(huecos')
  BY <1>1, <1>2, ListaActiva, OcuparHueco DEF Activos
<1>4. Activos' = Activos \cup {id}
  BY <1>1 DEF Activos
<1>5. TypeOK'
  <2>1. id' \in 2 .. MAX_DESCRIPTOR + 1
    BY TamaniosValidos DEF Invariante, TypeOK
  <2>2. /\ DOMAIN tablas' \subseteq PIDS
        /\ tablas' \in [DOMAIN tablas' -> SUBSET Descriptores]
    BY <1>2 DEF Invariante, TypeOK
  <2> QED BY <2>1, <2>2, <1>3 DEF Invariante, TypeOK, EsListaDeSegmentos, Activos
<1>6. TablasConsistentes'
  <2>1. \A d \in Activos' : d < id' /\ (segmentos'[d].segmento_id = 0 <=> d = Compartido)
    BY <1>1, <1>2, <1>4, IdentificadoresValidos
    DEF Invariante, TypeOK, TablasConsistentes, Descriptores
  <2>2. /\ DOMAIN tablas' = DOMAIN tablas
        /\ tablas'[p] = tablas[p] \cup {id}
        /\ \A q \in DOMAIN tablas : q # p => tablas'[q] = tablas[q]
    BY DEF Invariante, TypeOK
  <2> QED BY SMTT(20), <2>1, <2>2, <1>2, <1>4 DEF Invariante, TablasConsistentes
<1> QED
  BY <1>3, <1>5, <1>6 DEF Invariante, Particion, HuecosConsolidados

\* delete_segmento
LEMMA PasoBorrar ==
  ASSUME Invariante, NEW p \in PIDS, NEW i \in IDS, delete_segmento(p, i)
  PROVE  Invariante'
<1> USE DEF delete_segmento
<1>1. PICK d \in tablas[p] :
        /\ segmentos[d].segmento_id = i
        /\ huecos' = consolidar_huecos_contiguos(huecos, segmentos[d].inicio,
                                                 segmentos[d].tam)
        /\ segmentos' = Restrict(segmentos, Activos \ {d})
        /\ tablas' = [tablas EXCEPT ![p] = @ \ {d}]
  OBVIOUS
<1>2. d \in Activos /\ d # Compartido /\ d \notin aLiberar
  BY <1>1, IdentificadoresValidos DEF Invariante, TablasConsistentes
<1>3. /\ huecos' \subseteq Hueco
      /\ EsListaDeSegmentos(segmentos')
      /\ Activos' = Activos \ {d}
      /\ EsParticion(huecos', segmentos')
      /\ EstanSeparados(huecos')
  BY <1>1, <1>2, ListaActiva, LiberarSegmento DEF Activos
<1>4. \A e \in Activos' : segmentos'[e] = segmentos[e]
  BY <1>1, <1>3 DEF Restrict
<1>5. /\ DOMAIN tablas' = DOMAIN tablas
      /\ tablas'[p] = tablas[p] \ {d}
      /\ \A q \in DOMAIN tablas : q # p => tablas'[q] = tablas[q]
  BY <1>1 DEF Invariante, TypeOK
<1>6. TypeOK'
  <2>1. /\ DOMAIN tablas' \subseteq PIDS
        /\ tablas' \in [DOMAIN tablas' -> SUBSET Descriptores]
    BY <1>1, <1>5 DEF Invariante, TypeOK
  <2> QED BY <2>1, <1>3 DEF Invariante, TypeOK, EsListaDeSegmentos, Activos
<1>7. TablasConsistentes'
  BY <1>2, <1>3, <1>4, <1>5 DEF Invariante, TablasConsistentes
<1> QED
  BY <1>3, <1>6, <1>7 DEF Invariante, Particion, HuecosConsolidados

\* liberar_huecos_ocupados
LEMMA PasoLiberar ==
  ASSUME Invariante, liberar_huecos_ocupados
  PROVE  Invariante'
<1> USE DEF liberar_huecos_ocupados
<1>1. PICK d \in aLiberar :
        /\ huecos' = consolidar_huecos_contiguos(huecos, segmentos[d].inicio,
                                                 segmentos[d].tam)
        /\ segmentos' = Restrict(segmentos, Activos \ {d})
        /\ aLiberar' = aLiberar \ {d}
  OBVIOUS
<1>2. d \in Activos /\ d # Compartido
  BY DEF Invariante, TablasConsistentes
<1>3. /\ huecos' \subseteq Hueco
      /\ EsListaDeSegmentos(segmentos')
      /\ Activos' = Activos \ {d}
      /\ EsParticion(huecos', segmentos')
      /\ EstanSeparados(huecos')
  BY <1>1, <1>2, ListaActiva, LiberarSegmento DEF Activos
<1>4. \A e \in Activos' : segmentos'[e] = segmentos[e]
  BY <1>1, <1>3 DEF Restrict
<1>5. TypeOK'
  BY <1>1, <1>3 DEF Invariante, TypeOK, EsListaDeSegmentos, Activos
<1>6. TablasConsistentes'
  BY <1>1, <1>2, <1>3, <1>4 DEF Invariante, TablasConsistentes
<1> QED
  BY <1>3, <1>5, <1>6 DEF Invariante, Particion, HuecosConsolidados

\* compactar_memoria
LEMMA PasoCompactar ==
  ASSUME Invariante, compactar_memoria
  PROVE  Invariante'
<1> USE DEF compactar_memoria
<1>1. PICK d \in Activos :
        /\ cursor' = d
        /\ \/ UNCHANGED <<huecos, segmentos, espacio>>
           \/ \E h \in HuecoDebajo(segmentos[d]) :
                /\ espacio' = memmove(h.inicio, segmentos[d].inicio, segmentos[d].tam)
                /\ segmentos' = [segmentos EXCEPT ![d].inicio = h.inicio]
                /\ huecos' = consolidar_huecos_contiguos(huecos \ {h},
                               h.inicio + segmentos[d].tam, tamanio_hueco(h))
  OBVIOUS
<1>2. cursor' \in 0 .. MAX_DESCRIPTOR
  BY <1>1 DEF Invariante, TypeOK, Descriptores
<1>3. CASE UNCHANGED <<huecos, segmentos, espacio>>
  <2>1. TypeOK'
    BY <1>2, <1>3 DEF Invariante, TypeOK, Activos
  <2> QED BY <2>1, <1>3, PasoSinCambios
<1>4. ASSUME NEW h \in HuecoDebajo(segmentos[d]),
             espacio' = memmove(h.inicio, segmentos[d].inicio, segmentos[d].tam),
             segmentos' = [segmentos EXCEPT ![d].inicio = h.inicio],
             huecos' = consolidar_huecos_contiguos(huecos \ {h},
                         h.inicio + segmentos[d].tam, tamanio_hueco(h))
      PROVE  Invariante'
  <2>1. h \in huecos /\ h.fin = segmentos[d].inicio - 1
    BY DEF HuecoDebajo
  <2>2. /\ huecos' \subseteq Hueco
        /\ EsListaDeSegmentos(segmentos')
        /\ EsParticion(huecos', segmentos')
        /\ EstanSeparados(huecos')
    BY ZenonT(40), <1>4, <2>1, ListaActiva, MoverSegmento DEF Activos
  <2>3. /\ Activos' = Activos
        /\ \A e \in Activos : segmentos'[e].segmento_id = segmentos[e].segmento_id
    BY <1>4 DEF Activos, Invariante, TypeOK, Segmento
  <2>4. espacio' \in [Direcciones -> VALORES]
    <3>1. /\ h.inicio \in Nat /\ segmentos[d].inicio \in Nat /\ segmentos[d].tam \in Nat
          /\ segmentos[d].inicio + segmentos[d].tam <= TAM_MEMORIA
          /\ TAM_MEMORIA \in Nat
      BY <2>1, ListaActiva, Naturales, TamaniosValidos
      DEF Activos, EsListaDeSegmentos, EsParticion
    <3>2. \A a \in h.inicio .. h.inicio + segmentos[d].tam - 1 :
            segmentos[d].inicio + (a - h.inicio) \in Direcciones
      BY <3>1 DEF Direcciones
    <3> QED BY <1>4, <3>2 DEF memmove, Invariante, TypeOK
  <2>5. TypeOK'
    BY <1>2, <2>2, <2>3, <2>4 DEF Invariante, TypeOK, EsListaDeSegmentos, Activos
  <2>6. TablasConsistentes'
    BY <2>3 DEF Invariante, TablasConsistentes
  <2> QED BY <2>2, <2>5, <2>6 DEF Invariante, Particion, HuecosConsolidados
<1> QED BY <1>1, <1>3, <1>4

\* Every step keeps the invariant.
LEMMA PasoValido == Invariante /\ [Next]_vars => Invariante'
<1> SUFFICES ASSUME Invariante, [Next]_vars PROVE Invariante'
  OBVIOUS
<1>1. ASSUME NEW p \in PIDS, crear_tabla_segmento(p) PROVE Invariante'
  <2> USE <1>1 DEF crear_tabla_segmento
  <2>1. /\ DOMAIN tablas' = DOMAIN tablas \cup {p}
        /\ tablas'[p] = {Compartido}
        /\ \A q \in DOMAIN tablas : tablas'[q] = tablas[q]
    OBVIOUS
  <2>2. TypeOK'
    BY TamaniosValidos DEF Invariante, TypeOK, Activos, Descriptores, Compartido
  <2>3. TablasConsistentes'
    <3>1. \A q \in DOMAIN tablas' :
            Compartido \in tablas'[q] /\ tablas'[q] \subseteq Activos \ aLiberar
      BY <2>1 DEF Invariante, TablasConsistentes
    <3>2. \A q, r \in DOMAIN tablas' : q # r => tablas'[q] \cap tablas'[r] = {Compartido}
      BY <2>1 DEF Invariante, TablasConsistentes
    <3>3. UNION {tablas'[q] : q \in DOMAIN tablas'}
            = {Compartido} \cup UNION {tablas[q] : q \in DOMAIN tablas}
      BY <2>1
    <3>4. Activos' = Activos
      BY DEF Activos
    <3> QED BY <3>1, <3>2, <3>3, <3>4 DEF Invariante, TablasConsistentes
  <2>4. Particion' /\ HuecosConsolidados'
    BY DEF Invariante, Particion, HuecosConsolidados
  <2> QED BY <2>2, <2>3, <2>4 DEF Invariante
<1>2. ASSUME NEW p \in PIDS, destroy_tabla_segmento(p) PROVE Invariante'
  <2> USE <1>2 DEF destroy_tabla_segmento
  <2>1. /\ DOMAIN tablas' = DOMAIN tablas \ {p}
        /\ \A q \in DOMAIN tablas' : tablas'[q] = tablas[q]
    BY DEF Restrict
  <2>2. aLiberar' = tablas[p] \ {Compartido}
    BY DEF Invariante, TablasConsistentes
  <2>3. aLiberar = {}
    BY DEF Invariante, TablasConsistentes, TypeOK
  <2>4. TypeOK'
    BY <2>1, <2>2 DEF Invariante, TypeOK, Activos, Restrict
  <2>5. TablasConsistentes'
    <3>1. /\ tablas[p] \subseteq Activos /\ Compartido \in Activos
          /\ \A q \in DOMAIN tablas : Compartido \in tablas[q] /\ tablas[q] \subseteq Activos
          /\ \A q, r \in DOMAIN tablas : q # r => tablas[q] \cap tablas[r] = {Compartido}
      BY DEF Invariante, TablasConsistentes
    <3>2. \A q \in DOMAIN tablas' :
            Compartido \in tablas'[q] /\ tablas'[q] \subseteq Activos \ aLiberar'
      <4> SUFFICES ASSUME NEW q \in DOMAIN tablas'
                   PROVE  Compartido \in tablas'[q] /\ tablas'[q] \subseteq Activos \ aLiberar'
        OBVIOUS
      <4>1. q \in DOMAIN tablas /\ q # p /\ tablas'[q] = tablas[q] /\ p \in DOMAIN tablas
        BY <2>1
      <4>2. tablas[q] \cap tablas[p] = {Compartido}
        BY <3>1, <4>1
      <4> QED BY ONLY <2>2, <3>1, <4>1, <4>2
    <3>3. \A q, r \in DOMAIN tablas' : q # r => tablas'[q] \cap tablas'[r] = {Compartido}
      BY ONLY <2>1, <3>1
    <3>4. UNION {tablas[q] : q \in DOMAIN tablas}
            = tablas[p] \cup UNION {tablas'[q] : q \in DOMAIN tablas'}
      BY <2>1
    <3>5. Activos' = {Compartido} \cup aLiberar' \cup UNION {tablas'[q] : q \in DOMAIN tablas'}
      BY <2>2, <2>3, <3>4 DEF Invariante, TablasConsistentes, Activos
    <3>6. Activos' = Activos
      BY DEF Activos
    <3> QED BY ZenonT(40), <2>2, <3>1, <3>2, <3>3, <3>5, <3>6 DEF Invariante, TablasConsistentes
  <2>6. Particion' /\ HuecosConsolidados'
    BY DEF Invariante, Particion, HuecosConsolidados
  <2> QED BY <2>4, <2>5, <2>6 DEF Invariante
<1>3. ASSUME NEW p \in PIDS, NEW i \in IDS, NEW t \in TAMANIOS, crear_segmento(p, i, t)
      PROVE  Invariante'
  BY <1>3, PasoCrear
<1>4. ASSUME NEW p \in PIDS, NEW i \in IDS, NEW t \in TAMANIOS,
             CrearSinLugarContiguo(p, i, t) \/ CrearSinMemoria(p, i, t)
      PROVE  Invariante'
  <2>1. /\ id' = id + 1 /\ id <= MAX_DESCRIPTOR
        /\ fase # "liberando"
        /\ pendiente' \in {{}, {<<p, i, t>>}}
        /\ fase' \in {"libre", "compactar", "colgado"}
        /\ respuesta' \in {"NEEDS_TO_COMPACT", "OUT_OF_MEMORY"}
        /\ UNCHANGED <<huecos, segmentos, tablas, espacio, cursor, aLiberar>>
    BY <1>4 DEF CrearSinLugarContiguo, CrearSinMemoria, Recibido
  <2>2. id' \in 2 .. MAX_DESCRIPTOR + 1
    BY <2>1, TamaniosValidos DEF Invariante, TypeOK
  <2>3. pendiente' \in SUBSET Pedido
    BY <2>1 DEF Pedido
  <2>4. TypeOK'
    BY <2>1, <2>2, <2>3 DEF Invariante, TypeOK, Activos
  <2> QED BY <2>1, <2>4, PasoSinCambios
<1>5. ASSUME NEW p \in PIDS, NEW i \in IDS, delete_segmento(p, i) PROVE Invariante'
  BY <1>5, PasoBorrar
<1>6. ASSUME NEW p \in PIDS, NEW i \in IDS, DeleteSegmentoInexistente(p, i)
      PROVE  Invariante'
  <2>1. TypeOK'
    BY <1>6 DEF DeleteSegmentoInexistente, Invariante, TypeOK, Activos
  <2> QED BY <2>1, <1>6, PasoSinCambios DEF DeleteSegmentoInexistente
<1>7. CASE liberar_huecos_ocupados
  BY <1>7, PasoLiberar
<1>8. CASE TablaEliminada
  <2>1. TypeOK'
    BY <1>8 DEF TablaEliminada, Invariante, TypeOK, Activos
  <2> QED BY <2>1, <1>8, PasoSinCambios DEF TablaEliminada
<1>9. CASE IniciarCompactacion
  <2>1. TypeOK'
    BY <1>9, TamaniosValidos DEF IniciarCompactacion, Invariante, TypeOK, Activos
  <2> QED BY <2>1, <1>9, PasoSinCambios DEF IniciarCompactacion
<1>10. CASE compactar_memoria
  BY <1>10, PasoCompactar
<1>11. CASE TerminarCompactacion
  <2>1. TypeOK'
    BY <1>11, TamaniosValidos DEF TerminarCompactacion, Invariante, TypeOK, Activos
  <2> QED BY <2>1, <1>11, PasoSinCambios DEF TerminarCompactacion
<1>12. ASSUME NEW p \in DOMAIN tablas, NEW v \in VALORES,
              NEW d \in tablas[p], NEW o \in Direcciones,
              escribir_en_direccion(p, d, o, v)
       PROVE  Invariante'
  <2>1. TypeOK'
    BY <1>12 DEF escribir_en_direccion, Invariante, TypeOK, Activos
  <2> QED BY <2>1, <1>12, PasoSinCambios DEF escribir_en_direccion
<1>13. CASE UNCHANGED vars
  <2>1. TypeOK'
    BY <1>13 DEF vars, Invariante, TypeOK, Activos
  <2> QED BY <2>1, <1>13, PasoSinCambios DEF vars
<1> QED
  BY <1>1, <1>2, <1>3, <1>4, <1>5, <1>6, <1>7, <1>8, <1>9, <1>10, <1>11, <1>12, <1>13
  DEF Next

\* In every reachable state of the memory module the types are right, every byte
\* belongs to exactly one hole or segment, no two holes are side by side, and
\* the tables and the list of active segments agree.
THEOREM SiempreValida == Spec => []Invariante
BY InicioValido, PasoValido, PTL DEF Spec

\* Every byte belongs to exactly one hole or active segment, also half-way
\* through a compaction or the deletion of a table.
THEOREM SiempreParticion == Spec => []Particion
<1>1. Invariante => Particion
  BY DEF Invariante
<1> QED BY <1>1, SiempreValida, PTL

\* delete_segmento, destroy_tabla_segmento and compactar_memoria never leave two
\* holes side by side.
THEOREM SiempreConsolidados == Spec => []HuecosConsolidados
<1>1. Invariante => HuecosConsolidados
  BY DEF Invariante
<1> QED BY <1>1, SiempreValida, PTL

\* A segment is in segmentos_activos exactly when it is in one table, or in the
\* one that is being deleted.
THEOREM SiempreTablasConsistentes == Spec => []TablasConsistentes
<1>1. Invariante => TablasConsistentes
  BY DEF Invariante
<1> QED BY <1>1, SiempreValida, PTL

\* Every variable keeps its type; in particular no hole or segment reaches
\* outside the memory.
THEOREM SiempreTypeOK == Spec => []TypeOK
<1>1. Invariante => TypeOK
  BY DEF Invariante
<1> QED BY <1>1, SiempreValida, PTL

-----------------------------------------------------------------------------
(* Compaction and the contents of the segments *)

\* After a move, the segment has its bytes at its new base and no other segment
\* has lost any: the partition after the move says the new place was free.
LEMMA MoverConserva ==
  ASSUME Invariante, compactar_memoria
  PROVE  Activos' = Activos /\ \A e \in Activos : Bytes(e)' = Bytes(e)
<1>1. PICK d \in Activos :
        \/ UNCHANGED <<segmentos, espacio>>
        \/ \E h \in HuecoDebajo(segmentos[d]) :
             /\ espacio' = memmove(h.inicio, segmentos[d].inicio, segmentos[d].tam)
             /\ segmentos' = [segmentos EXCEPT ![d].inicio = h.inicio]
  BY DEF compactar_memoria
<1>2. CASE UNCHANGED <<segmentos, espacio>>
  BY <1>2 DEF Activos, Bytes
<1>3. ASSUME NEW h \in HuecoDebajo(segmentos[d]),
             espacio' = memmove(h.inicio, segmentos[d].inicio, segmentos[d].tam),
             segmentos' = [segmentos EXCEPT ![d].inicio = h.inicio]
      PROVE  Activos' = Activos /\ \A e \in Activos : Bytes(e)' = Bytes(e)
  <2> DEFINE n == segmentos[d].tam
  <2>1. /\ EsListaDeSegmentos(segmentos) /\ EsParticion(huecos, segmentos)
        /\ EsListaDeSegmentos(segmentos') /\ EsParticion(huecos', segmentos')
    BY PasoCompactar, ListaActiva
    DEF Invariante, TypeOK, Particion, EsListaDeSegmentos, Activos
  <2>2. h.inicio \in Nat /\ TAM_MEMORIA \in Nat
    BY ListaActiva, Naturales, TamaniosValidos DEF HuecoDebajo
  <2>3. /\ Activos' = Activos
        /\ segmentos'[d].inicio = h.inicio /\ segmentos'[d].tam = n
        /\ \A e \in Activos : e # d => segmentos'[e] = segmentos[e]
    BY <1>3, <2>1 DEF Activos, EsListaDeSegmentos, Segmento
  <2>4. \A e \in Activos :
          /\ segmentos[e].inicio \in Nat /\ segmentos[e].tam \in Nat
          /\ segmentos'[e].inicio \in Nat /\ segmentos'[e].tam = segmentos[e].tam
          /\ segmentos'[e].inicio + segmentos'[e].tam <= TAM_MEMORIA
    BY <2>1, <2>2, <2>3, Naturales DEF Activos, EsListaDeSegmentos, EsParticion
  <2>5. \A a \in Direcciones :
          espacio'[a] = IF a \in h.inicio .. h.inicio + n - 1
                        THEN espacio[segmentos[d].inicio + (a - h.inicio)]
                        ELSE espacio[a]
    BY <1>3 DEF memmove
  <2>6. ASSUME NEW e \in Activos PROVE Bytes(e)' = Bytes(e)
    <3>1. \A o \in 0 .. segmentos[e].tam - 1 :
            espacio'[segmentos'[e].inicio + o] = espacio[segmentos[e].inicio + o]
      <4> SUFFICES ASSUME NEW o \in 0 .. segmentos[e].tam - 1
                   PROVE  espacio'[segmentos'[e].inicio + o]
                            = espacio[segmentos[e].inicio + o]
        OBVIOUS
      <4> DEFINE a == segmentos'[e].inicio + o
      <4>1. a \in Direcciones
        BY <2>2, <2>4 DEF Direcciones
      <4>2. CASE e = d
        <5>1. /\ a \in h.inicio .. h.inicio + n - 1
              /\ segmentos[d].inicio + (a - h.inicio) = segmentos[e].inicio + o
          BY <4>2, <2>2, <2>3, <2>4
        <5> QED BY <4>1, <5>1, <2>5
      <4>3. CASE e # d
        <5>1. \/ segmentos'[e].inicio + segmentos'[e].tam <= segmentos'[d].inicio
              \/ segmentos'[d].inicio + segmentos'[d].tam <= segmentos'[e].inicio
          BY <4>3, <2>1, <2>3 DEF EsParticion, Activos
        <5>2. a \notin h.inicio .. h.inicio + n - 1
          BY <5>1, <2>2, <2>3, <2>4
        <5> QED BY <4>1, <4>3, <5>2, <2>3, <2>5
      <4> QED BY <4>2, <4>3
    <3> QED BY <3>1, <2>4 DEF Bytes
  <2> QED BY <2>3, <2>6
<1> QED BY <1>1, <1>2, <1>3

\* A turn of compactar_memoria moves a segment with all its bytes and touches no
\* other segment, for every layout of the memory.
THEOREM CompactarConserva == Spec => CompactacionConserva
<1> DEFINE Conserva == fase = "compactando" =>
             Activos' = Activos /\ \A d \in Activos : Bytes(d)' = Bytes(d)
<1>1. Invariante /\ [Next]_vars => [Conserva]_vars
  <2> SUFFICES ASSUME Invariante, Next, fase = "compactando"
               PROVE  Activos' = Activos /\ \A d \in Activos : Bytes(d)' = Bytes(d)
    OBVIOUS
  <2>1. CASE compactar_memoria
    BY <2>1, MoverConserva
  <2>2. CASE TerminarCompactacion
    BY <2>2 DEF TerminarCompactacion, Activos, Bytes
  <2> QED
    BY <2>1, <2>2
    DEF Next, crear_tabla_segmento, destroy_tabla_segmento, crear_segmento,
        CrearSinLugarContiguo, CrearSinMemoria, Recibido, delete_segmento,
        DeleteSegmentoInexistente, liberar_huecos_ocupados, TablaEliminada,
        IniciarCompactacion, escribir_en_direccion
<1> QED BY <1>1, SiempreValida, PTL DEF Spec, CompactacionConserva
-----------------------------------------------------------------------------
(* What a compaction leaves *)

\* Segments whose creation order is their address order; no hole before the end of
\* segment d.
EnOrden(segs) == \A d, e \in DOMAIN segs : d < e => segs[d].inicio < segs[e].inicio
SinHuecoAntes(hs, segs, d) == \A h \in hs : segs[d].inicio + segs[d].tam <= h.inicio

\* If no hole reaches x from below, and there is a hole below x, a segment does.
LEMMA SegmentoDebajo ==
  ASSUME NEW hs \in SUBSET Hueco, NEW segs, EsListaDeSegmentos(segs),
         EsParticion(hs, segs), NEW x \in Nat, x < TAM_MEMORIA,
         \A k \in hs : k.inicio >= x \/ k.fin + 1 < x,
         NEW h \in hs, h.fin < x
  PROVE  \E e \in DOMAIN segs : segs[e].inicio < x /\ x <= segs[e].inicio + segs[e].tam
<1>1. x - 1 \in Direcciones
  <2>1. h.fin \in Nat
    BY Naturales
  <2> QED BY <2>1, TamaniosValidos DEF Direcciones
<1>2. \A k \in hs : ~ (k.inicio <= x - 1 /\ x - 1 <= k.fin)
  BY Naturales
<1>3. PICK e \in DOMAIN segs :
        segs[e].inicio <= x - 1 /\ x - 1 < segs[e].inicio + segs[e].tam
  BY <1>1, <1>2 DEF EsParticion
<1>4. segs[e].inicio \in Nat /\ segs[e].tam \in Nat
  BY Naturales DEF EsListaDeSegmentos
<1> QED BY <1>3, <1>4

\* The segment that is visited next has no hole before it, when the older ones
\* have none: either it had none, or it jumps over the only one.
LEMMA SinHuecoTrasVisitar ==
  ASSUME NEW hs \in SUBSET Hueco, NEW segs, EsListaDeSegmentos(segs),
         EsParticion(hs, segs), EstanSeparados(hs), EnOrden(segs),
         NEW d \in DOMAIN segs,
         \A e \in DOMAIN segs : e < d => SinHuecoAntes(hs, segs, e),
         NEW h \in hs, h.fin < segs[d].inicio
  PROVE  h.fin = segs[d].inicio - 1
<1> DEFINE x == IF \E g \in hs : g.fin = segs[d].inicio - 1
                THEN (CHOOSE g \in hs : g.fin = segs[d].inicio - 1).inicio
                ELSE segs[d].inicio
<1>1. /\ \A k \in hs : k.inicio \in Nat /\ k.fin \in Nat /\ k.inicio <= k.fin
                       /\ k.fin < TAM_MEMORIA
      /\ \A k, j \in hs : k # j => k.fin < j.inicio \/ j.fin < k.inicio
      /\ \A k, j \in hs : k.fin + 1 # j.inicio
      /\ \A k \in hs : k.fin < segs[d].inicio \/ segs[d].inicio + segs[d].tam <= k.inicio
  BY Naturales DEF EsParticion, EstanSeparados
<1>2. \A e \in DOMAIN segs : /\ segs[e].inicio \in Nat /\ segs[e].inicio < TAM_MEMORIA
                             /\ segs[e].tam \in Nat /\ segs[e].tam > 0 /\ e \in Nat
  BY Naturales DEF EsListaDeSegmentos, Descriptores
<1>3. ASSUME h.fin # segs[d].inicio - 1 PROVE FALSE
  <2>1. PICK y \in Nat : /\ y <= segs[d].inicio
                         /\ h.fin < y
                         /\ \A k \in hs : k.inicio >= y \/ k.fin + 1 < y
    <3>1. CASE \A g \in hs : g.fin # segs[d].inicio - 1
      <4>1. \A k \in hs : k.inicio >= segs[d].inicio \/ k.fin + 1 < segs[d].inicio
        BY <1>1, <1>2, <3>1
      <4> QED BY <1>2, <4>1
    <3>2. ASSUME NEW g \in hs, g.fin = segs[d].inicio - 1
          PROVE  /\ g.inicio \in Nat /\ g.inicio <= segs[d].inicio
                 /\ h.fin < g.inicio
                 /\ \A k \in hs : k.inicio >= g.inicio \/ k.fin + 1 < g.inicio
      <4>1. g.inicio \in Nat /\ g.inicio <= segs[d].inicio
        BY <1>1, <1>2, <3>2
      <4>2. h.fin < g.inicio
        BY <1>1, <1>2, <1>3, <3>2
      <4>3. ASSUME NEW k \in hs PROVE k.inicio >= g.inicio \/ k.fin + 1 < g.inicio
        BY <1>1
      <4> QED BY <4>1, <4>2, <4>3
    <3> QED BY <3>1, <3>2
  <2>2. y < TAM_MEMORIA
    BY <1>2, <2>1, TamaniosValidos
  <2>3. PICK e \in DOMAIN segs : segs[e].inicio < y /\ y <= segs[e].inicio + segs[e].tam
    BY <2>1, <2>2, SegmentoDebajo
  <2>4. segs[e].inicio < segs[d].inicio
    BY <1>2, <2>1, <2>3
  <2>5. e < d
    BY <1>2, <2>4 DEF EnOrden
  <2>6. segs[e].inicio + segs[e].tam <= h.inicio
    BY <2>5 DEF SinHuecoAntes
  <2> QED BY <1>1, <1>2, <2>1, <2>3, <2>6
<1> QED BY <1>3

\* With no hole before the end of any segment there is one hole at most.
LEMMA UnHuecoComoMucho ==
  ASSUME NEW hs \in SUBSET Hueco, NEW segs, EsListaDeSegmentos(segs),
         EsParticion(hs, segs), EstanSeparados(hs),
         \A e \in DOMAIN segs : SinHuecoAntes(hs, segs, e)
  PROVE  Cardinality(hs) <= 1
<1>1. /\ \A k \in hs : k.inicio \in Nat /\ k.fin \in Nat /\ k.inicio <= k.fin
                       /\ k.fin < TAM_MEMORIA /\ k.inicio < TAM_MEMORIA
      /\ \A k, j \in hs : k # j => k.fin < j.inicio \/ j.fin < k.inicio
      /\ \A k, j \in hs : k.fin + 1 # j.inicio
  <2>1. \A k \in hs : k.inicio \in Nat /\ k.fin \in Nat /\ k.fin < TAM_MEMORIA
    BY Naturales
  <2> QED BY <2>1, TamaniosValidos DEF EsParticion, EstanSeparados
<1>2. \A e \in DOMAIN segs : segs[e].inicio \in Nat /\ segs[e].tam \in Nat
  BY Naturales DEF EsListaDeSegmentos
<1>3. ASSUME NEW h \in hs, NEW k \in hs, h.fin < k.inicio PROVE FALSE
  <2>1. \A j \in hs : j.inicio >= k.inicio \/ j.fin + 1 < k.inicio
    BY <1>1
  <2>2. PICK e \in DOMAIN segs :
          segs[e].inicio < k.inicio /\ k.inicio <= segs[e].inicio + segs[e].tam
    BY <1>1, <1>3, <2>1, SegmentoDebajo
  <2>3. segs[e].inicio + segs[e].tam <= h.inicio
    BY DEF SinHuecoAntes
  <2> QED BY <1>1, <1>2, <1>3, <2>2, <2>3
<1>4. \A h, k \in hs : h = k
  BY <1>1, <1>3
<1>5. CASE hs = {}
  BY <1>5, FS_EmptySet
<1>6. ASSUME NEW h \in hs PROVE Cardinality(hs) = 1
  <2>1. hs = {h}
    BY <1>4
  <2> QED BY <2>1, FS_Singleton
<1> QED BY <1>5, <1>6

\* In the loop, the segments already visited have no hole before them; and when it
\* ends there is one hole at most.
Compactados ==
  fase = "compactando" /\ EnOrden(segmentos) =>
    \A d \in Activos : d <= cursor => SinHuecoAntes(huecos, segmentos, d)

\* A turn of the loop visits the next segment.  A move keeps the order of the
\* segments, and what is left of the hole lies after the segment that jumped.
LEMMA PasoCompactados ==
  ASSUME Invariante, Compactados, compactar_memoria
  PROVE  Compactados'
<1>1. fase = "compactando" /\ fase' = "compactando"
  BY DEF compactar_memoria
<1>2. PICK d \in Activos :
        /\ SiguienteAMover(d)
        /\ cursor' = d
        /\ \/ /\ HuecoDebajo(segmentos[d]) = {}
              /\ UNCHANGED <<huecos, segmentos, espacio>>
           \/ \E h \in HuecoDebajo(segmentos[d]) :
                /\ segmentos' = [segmentos EXCEPT ![d].inicio = h.inicio]
                /\ huecos' = consolidar_huecos_contiguos(huecos \ {h},
                               h.inicio + segmentos[d].tam, tamanio_hueco(h))
  BY DEF compactar_memoria
<1>3. /\ EsListaDeSegmentos(segmentos) /\ huecos \in SUBSET Hueco
      /\ EsParticion(huecos, segmentos) /\ EstanSeparados(huecos)
  BY ListaActiva
<1>4. /\ \A k \in huecos : k.inicio \in Nat /\ k.fin \in Nat /\ k.inicio <= k.fin
                           /\ k.fin < TAM_MEMORIA
      /\ \A k, j \in huecos : k # j => k.fin < j.inicio \/ j.fin < k.inicio
      /\ \A k \in huecos, e \in Activos :
           \/ k.fin < segmentos[e].inicio
           \/ segmentos[e].inicio + segmentos[e].tam <= k.inicio
  BY <1>3, Naturales DEF EsParticion, Activos
<1>5. /\ \A e \in Activos : /\ segmentos[e].inicio \in Nat /\ segmentos[e].tam \in Nat
                            /\ segmentos[e].tam > 0 /\ e \in Nat
      /\ \A e, f \in Activos : e # f =>
           \/ segmentos[e].inicio + segmentos[e].tam <= segmentos[f].inicio
           \/ segmentos[f].inicio + segmentos[f].tam <= segmentos[e].inicio
  BY <1>3, Naturales DEF EsParticion, EsListaDeSegmentos, Descriptores, Activos
<1>6. \A e \in Activos : e <= d => e = d \/ e <= cursor
  <2>1. cursor \in Nat
    BY DEF Invariante, TypeOK
  <2> QED BY <1>2, <1>5, <2>1 DEF SiguienteAMover
<1>7. ASSUME EnOrden(segmentos)
      PROVE  /\ \A e \in Activos : e # d /\ e <= d => SinHuecoAntes(huecos, segmentos, e)
             /\ \A k \in huecos : k.fin < segmentos[d].inicio =>
                                    k.fin = segmentos[d].inicio - 1
  <2>1. \A e \in Activos : e # d /\ e <= d => SinHuecoAntes(huecos, segmentos, e)
    BY <1>1, <1>6, <1>7 DEF Compactados
  <2>2. \A e \in Activos : e < d => SinHuecoAntes(huecos, segmentos, e)
    BY <1>5, <2>1
  <2> QED BY <1>3, <1>7, <2>1, <2>2, SinHuecoTrasVisitar DEF Activos
<1>8. CASE HuecoDebajo(segmentos[d]) = {} /\ UNCHANGED <<huecos, segmentos, espacio>>
  <2> SUFFICES ASSUME EnOrden(segmentos), NEW e \in Activos, e <= d
               PROVE  SinHuecoAntes(huecos, segmentos, e)
    BY <1>2, <1>8 DEF Compactados, Activos
  <2>1. \A k \in huecos : k.fin # segmentos[d].inicio - 1
    BY <1>8 DEF HuecoDebajo
  <2>2. SinHuecoAntes(huecos, segmentos, d)
    BY <1>4, <1>7, <2>1 DEF SinHuecoAntes
  <2> QED BY <1>7, <2>2
<1>9. ASSUME NEW h \in HuecoDebajo(segmentos[d]),
             segmentos' = [segmentos EXCEPT ![d].inicio = h.inicio],
             huecos' = consolidar_huecos_contiguos(huecos \ {h},
                         h.inicio + segmentos[d].tam, tamanio_hueco(h))
      PROVE  Compactados'
  <2> DEFINE s == segmentos[d]
             b == h.inicio + s.tam
  <2>1. h \in huecos /\ h.fin = s.inicio - 1
    BY DEF HuecoDebajo
  <2>2. /\ Activos' = Activos
        /\ segmentos'[d].inicio = h.inicio /\ segmentos'[d].tam = s.tam
        /\ \A e \in Activos : e # d => segmentos'[e] = segmentos[e]
    BY <1>3, <1>9 DEF Activos, EsListaDeSegmentos, Segmento
  <2>3. ASSUME EnOrden(segmentos') PROVE EnOrden(segmentos)
    <3> SUFFICES ASSUME NEW e \in Activos, NEW f \in Activos, e < f
                 PROVE  segmentos[e].inicio < segmentos[f].inicio
      BY DEF EnOrden, Activos
    <3>1. segmentos'[e].inicio < segmentos'[f].inicio
      BY <2>2, <2>3 DEF EnOrden, Activos
    <3>2. CASE e = d
      <4>1. f # d /\ h.inicio < segmentos[f].inicio
        BY <1>5, <2>2, <3>1, <3>2
      <4>2. h.fin < segmentos[f].inicio
        BY <1>4, <1>5, <2>1, <4>1
      <4> QED BY <1>4, <1>5, <2>1, <3>2, <4>1, <4>2
    <3>3. CASE f = d
      <4>1. e # d /\ segmentos[e].inicio < h.inicio
        BY <1>5, <2>2, <3>1, <3>3
      <4> QED BY <1>4, <1>5, <2>1, <3>3, <4>1
    <3>4. CASE e # d /\ f # d
      BY <2>2, <3>1, <3>4
    <3> QED BY <3>2, <3>3, <3>4
  <2>4. tamanio_hueco(h) = s.inicio - h.inicio /\ s.inicio - h.inicio \in Nat
        /\ s.inicio - h.inicio > 0 /\ b \in Nat
    BY <1>4, <1>5, <2>1 DEF tamanio_hueco
  <2>5. s.inicio + s.tam <= TAM_MEMORIA /\ TAM_MEMORIA \in Nat
    BY <1>3, TamaniosValidos DEF EsParticion, Activos
  <2>6. b + (s.inicio - h.inicio) <= TAM_MEMORIA
    BY <1>4, <1>5, <2>1, <2>5
  <2>7. \A k \in huecos \ {h} : k.fin # b - 1
    <3> SUFFICES ASSUME NEW k \in huecos \ {h}, k.fin = b - 1 PROVE FALSE
      OBVIOUS
    <3>1. /\ k.fin \in Nat /\ k.inicio \in Nat /\ h.inicio \in Nat /\ s.inicio \in Nat
          /\ s.tam \in Nat /\ s.tam > 0 /\ k.inicio <= k.fin /\ h.inicio <= h.fin
      BY <1>4, <1>5, <2>1
    <3>2. k.fin < h.inicio \/ h.fin < k.inicio
      BY <1>4, <2>1
    <3>3. k.fin < s.inicio \/ s.inicio + s.tam <= k.inicio
      BY <1>4
    <3> QED BY <2>1, <3>1, <3>2, <3>3
  <2>8. \A k \in huecos' : k.inicio = b \/ k \in huecos \ {h}
    <3> DEFINE hs == huecos \ {h}
               t == s.inicio - h.inicio
    <3>1. hs \in SUBSET Hueco
      BY <1>3
    <3> HIDE DEF hs, t, b
    <3>2. PICK L \in Nat, R \in Nat :
            /\ \/ L = b /\ \A k \in hs : k.fin # b - 1
               \/ \E l \in hs : l.fin = b - 1 /\ L = l.inicio
            /\ consolidar_huecos_contiguos(hs, b, t) =
                 {k \in hs : k.fin # b - 1 /\ k.inicio # b + t}
                   \cup {[inicio |-> L, fin |-> R]}
      BY <2>4, <2>6, <3>1, FormaDeConsolidar DEF t
    <3>3. L = b
      BY <2>7, <3>2 DEF hs
    <3>4. huecos' = consolidar_huecos_contiguos(hs, b, t)
      BY <1>9, <2>4 DEF hs, t, b
    <3> QED BY <3>2, <3>3, <3>4 DEF hs
  <2>9. ASSUME EnOrden(segmentos'), NEW e \in Activos, e <= d, NEW k \in huecos'
        PROVE  segmentos'[e].inicio + segmentos'[e].tam <= k.inicio
    <3>1. /\ h.inicio \in Nat /\ h.fin \in Nat /\ h.inicio <= h.fin
          /\ s.inicio \in Nat /\ s.tam \in Nat /\ s.tam > 0
      BY <1>4, <1>5, <2>1
    <3>2. CASE e = d
      <4>1. segmentos'[e].inicio + segmentos'[e].tam = b
        BY <2>2, <3>2
      <4>2. CASE k.inicio = b
        BY <2>4, <4>1, <4>2
      <4>3. CASE k \in huecos \ {h}
        <5>1. ~ k.fin < s.inicio
          <6>1. k.fin < s.inicio => k.fin = s.inicio - 1
            BY <1>7, <2>3, <2>9, <4>3
          <6>2. k.fin < h.inicio \/ h.fin < k.inicio
            BY <1>4, <2>1, <4>3
          <6>3. k.inicio \in Nat /\ k.fin \in Nat /\ k.inicio <= k.fin
            BY <1>4, <4>3
          <6> QED BY <2>1, <3>1, <6>1, <6>2, <6>3
        <5>2. s.inicio + s.tam <= k.inicio /\ k.inicio \in Nat
          BY <1>4, <4>3, <5>1
        <5> QED BY <2>1, <3>1, <4>1, <5>2
      <4> QED BY <2>8, <4>2, <4>3
    <3>3. CASE e # d
      <4>1. \A j \in huecos : segmentos[e].inicio + segmentos[e].tam <= j.inicio
        BY <1>7, <2>3, <2>9, <3>3 DEF SinHuecoAntes
      <4>2. segmentos'[e] = segmentos[e]
        BY <2>2, <3>3
      <4>3. CASE k.inicio = b
        <5>1. segmentos[e].inicio + segmentos[e].tam <= h.inicio
          BY <2>1, <4>1
        <5>2. segmentos[e].inicio \in Nat /\ segmentos[e].tam \in Nat
          BY <1>5
        <5> QED BY <3>1, <4>2, <4>3, <5>1, <5>2
      <4>4. CASE k \in huecos
        BY <4>1, <4>2, <4>4
      <4> QED BY <2>8, <4>3, <4>4
    <3> QED BY <3>2, <3>3
  <2> QED BY <1>2, <2>2, <2>9 DEF Compactados, SinHuecoAntes
<1> QED BY <1>2, <1>8, <1>9

\* Outside the loop nothing is said of the holes until it has ended.
LEMMA PasoCompleta ==
  ASSUME Invariante, Compactados, CompactacionCompleta, [Next]_vars
  PROVE  Compactados' /\ CompactacionCompleta'
<1>1. CASE compactar_memoria
  <2>1. fase' = "compactando"
    BY <1>1 DEF compactar_memoria
  <2> QED BY <1>1, <2>1, PasoCompactados DEF CompactacionCompleta
<1>2. CASE IniciarCompactacion
  <2>1. fase' = "compactando" /\ cursor' = 0 /\ Activos' \subseteq Nat \ {0}
    BY <1>2 DEF IniciarCompactacion, Activos, Invariante, TypeOK, Descriptores
  <2> QED BY <2>1 DEF Compactados, CompactacionCompleta
<1>3. CASE TerminarCompactacion
  <2>1. /\ fase = "compactando" /\ fase' = "reenviar"
        /\ \A d \in Activos : d <= cursor
        /\ huecos' = huecos /\ segmentos' = segmentos
    BY <1>3 DEF TerminarCompactacion
  <2>2. ASSUME EnOrden(segmentos) PROVE Cardinality(huecos) <= 1
    BY <2>1, <2>2, ListaActiva, UnHuecoComoMucho DEF Compactados, Activos
  <2> QED BY <2>1, <2>2 DEF Compactados, CompactacionCompleta, EnOrden, Activos
<1>4. CASE UNCHANGED vars
  BY <1>4 DEF vars, Compactados, CompactacionCompleta, Activos
<1>5. CASE fase' \notin {"compactando", "reenviar"}
  BY <1>5 DEF Compactados, CompactacionCompleta
<1> QED
  BY ZenonT(40), <1>1, <1>2, <1>3, <1>4, <1>5
  DEF Next, crear_tabla_segmento, destroy_tabla_segmento, crear_segmento,
      CrearSinLugarContiguo, CrearSinMemoria, Recibido, delete_segmento,
      DeleteSegmentoInexistente, liberar_huecos_ocupados, TablaEliminada,
      escribir_en_direccion

\* compactar_memoria leaves one hole at most when segments lie in the order they
\* were created, whatever their number and sizes.
THEOREM CompactacionEnOrden == Spec => []CompactacionCompleta
<1>1. Init => Compactados /\ CompactacionCompleta
  BY DEF Init, Compactados, CompactacionCompleta
<1> QED BY <1>1, PasoCompleta, SiempreValida, PTL DEF Spec
==============================================================================
