-------------------------- MODULE SecuenciasProofs --------------------------
(***************************************************************************)
(* Facts about the queues of the kernel: what entering, leaving and being  *)
(* taken out of a queue does to the set of those who are in it, and that   *)
(* nobody comes to be in it twice.                                         *)
(***************************************************************************)
EXTENDS Integers, SequencesExt, SequenceTheorems, FiniteSetTheorems, TLAPS

LEMMA MinimoExiste ==
  ASSUME NEW I \in SUBSET Nat, I # {}
  PROVE  Min(I) \in I /\ \A k \in I : Min(I) <= k
<1>1. IsWellFoundedOn(OpToRel(<, Nat), Nat)
  BY NatLessThanWellFounded
<1>2. PICK m \in I : \A k \in I : ~ (<<k, m>> \in OpToRel(<, Nat))
  BY <1>1, WFMin
<1>3. \A k \in I : ~ (k < m)
  BY <1>2 DEF OpToRel
<1>4. \A k \in I : m <= k
  BY <1>3
<1> QED BY <1>4 DEF Min

LEMMA Pertenece ==
  ASSUME NEW S, NEW s \in Seq(S)
  PROVE  /\ \A e : Contains(s, e) <=> e \in ToSet(s)
         /\ ToSet(s) \subseteq S
         /\ s = <<>> <=> ToSet(s) = {}
<1>1. DOMAIN s = 1 .. Len(s) /\ Len(s) \in Nat /\ \A i \in 1 .. Len(s) : s[i] \in S
  BY LenProperties, ElementOfSeq
<1>2. s # <<>> => 1 \in DOMAIN s
  BY <1>1, EmptySeq
<1>3. s = <<>> => DOMAIN s = {}
  BY <1>1, EmptySeq
<1> QED BY <1>1, <1>2, <1>3 DEF Contains, ToSet

LEMMA Vacia == ToSet(<<>>) = {} /\ IsInjective(<<>>)
BY DEF ToSet, IsInjective

\* list_add and queue_push.
LEMMA Agregar ==
  ASSUME NEW S, NEW s \in Seq(S), NEW e \in S
  PROVE  /\ Append(s, e) \in Seq(S) /\ Len(Append(s, e)) = Len(s) + 1
         /\ s # <<>> => Head(Append(s, e)) = Head(s)
         /\ ToSet(Append(s, e)) = ToSet(s) \cup {e}
         /\ IsInjective(s) /\ e \notin ToSet(s) => IsInjective(Append(s, e))
<1>1. /\ Append(s, e) \in Seq(S) /\ Len(Append(s, e)) = Len(s) + 1
      /\ \A i \in 1 .. Len(s) : Append(s, e)[i] = s[i]
      /\ Append(s, e)[Len(s) + 1] = e
  BY AppendProperties
<1>2. DOMAIN s = 1 .. Len(s) /\ DOMAIN Append(s, e) = 1 .. Len(s) + 1 /\ Len(s) \in Nat
  BY <1>1, LenProperties
<1>3. ToSet(Append(s, e)) = ToSet(s) \cup {e}
  BY <1>1, <1>2 DEF ToSet
<1>4. ASSUME IsInjective(s), e \notin ToSet(s)
      PROVE  IsInjective(Append(s, e))
  BY <1>1, <1>2, <1>4 DEF ToSet, IsInjective
<1> QED BY <1>1, <1>3, <1>4, HeadTailAppend

\* queue_pop.
LEMMA Sacar ==
  ASSUME NEW S, NEW s \in Seq(S), s # <<>>
  PROVE  /\ Tail(s) \in Seq(S) /\ Len(Tail(s)) = Len(s) - 1
         /\ Head(s) \in ToSet(s) /\ Head(s) \in S
         /\ ToSet(s) = ToSet(Tail(s)) \cup {Head(s)}
         /\ IsInjective(s) => IsInjective(Tail(s)) /\ Head(s) \notin ToSet(Tail(s))
<1>1. /\ Tail(s) \in Seq(S) /\ Len(Tail(s)) = Len(s) - 1
      /\ \A i \in 1 .. Len(s) - 1 : Tail(s)[i] = s[i + 1]
      /\ Head(s) = s[1]
  BY HeadTailProperties
<1>2. /\ DOMAIN s = 1 .. Len(s) /\ DOMAIN Tail(s) = 1 .. Len(s) - 1
      /\ Len(s) \in Nat /\ Len(s) > 0
  BY <1>1, LenProperties, EmptySeq
<1>3. ToSet(s) = ToSet(Tail(s)) \cup {Head(s)}
  <2>1. ASSUME NEW i \in 1 .. Len(s) PROVE s[i] \in ToSet(Tail(s)) \cup {Head(s)}
    <3>1. CASE i = 1
      BY <3>1, <1>1
    <3>2. CASE i # 1
      <4>1. i - 1 \in 1 .. Len(s) - 1 /\ Tail(s)[i - 1] = s[i]
        BY <3>2, <1>1, <1>2
      <4> QED BY <4>1, <1>2 DEF ToSet
    <3> QED BY <3>1, <3>2
  <2>2. \A i \in 1 .. Len(s) - 1 : Tail(s)[i] = s[i + 1] /\ i + 1 \in 1 .. Len(s)
    BY <1>1, <1>2
  <2> QED BY SMTT(20), <2>1, <2>2, <1>1, <1>2 DEF ToSet
<1>4. ASSUME IsInjective(s)
      PROVE  IsInjective(Tail(s)) /\ Head(s) \notin ToSet(Tail(s))
  BY <1>1, <1>2, <1>4 DEF ToSet, IsInjective
<1> QED BY SMTT(20), <1>1, <1>2, <1>3, <1>4 DEF ToSet

\* What stays of a list when its i-th element is taken out.
LEMMA QuitarEn ==
  ASSUME NEW S, NEW s \in Seq(S), NEW i \in 1 .. Len(s)
  PROVE  /\ RemoveAt(s, i) \in Seq(S)
         /\ Len(RemoveAt(s, i)) = Len(s) - 1
         /\ \A j \in 1 .. Len(s) - 1 :
              RemoveAt(s, i)[j] = IF j < i THEN s[j] ELSE s[j + 1]
<1> DEFINE a == SubSeq(s, 1, i - 1)
           b == SubSeq(s, i + 1, Len(s))
<1>1. Len(s) \in Nat /\ \A j \in 1 .. Len(s) : s[j] \in S
  BY LenProperties, ElementOfSeq
<1>2. /\ a \in Seq(S) /\ Len(a) = i - 1
      /\ \A j \in 1 .. i - 1 : a[j] = s[j]
  <2>1. \A j \in 1 .. i - 1 : s[j] \in S
    BY <1>1
  <2>2. /\ a \in Seq(S) /\ Len(a) = IF 1 <= i - 1 THEN i - 1 - 1 + 1 ELSE 0
        /\ \A j \in 1 .. i - 1 - 1 + 1 : a[j] = s[1 + j - 1]
    BY <2>1, <1>1, SubSeqProperties
  <2> QED BY <2>2, <1>1
<1>3. /\ b \in Seq(S) /\ Len(b) = Len(s) - i
      /\ \A j \in 1 .. Len(s) - i : b[j] = s[i + j]
  <2>1. \A j \in i + 1 .. Len(s) : s[j] \in S
    BY <1>1
  <2>2. /\ b \in Seq(S) /\ Len(b) = IF i + 1 <= Len(s) THEN Len(s) - (i + 1) + 1 ELSE 0
        /\ \A j \in 1 .. Len(s) - (i + 1) + 1 : b[j] = s[i + 1 + j - 1]
    BY <2>1, <1>1, SubSeqProperties
  <2> QED BY <2>2, <1>1
<1>4. RemoveAt(s, i) = a \o b
  BY DEF RemoveAt
<1> HIDE DEF a, b
<1>5. /\ a \o b \in Seq(S) /\ Len(a \o b) = Len(a) + Len(b)
      /\ \A j \in 1 .. Len(a) + Len(b) : (a \o b)[j] = IF j <= Len(a) THEN a[j] ELSE b[j - Len(a)]
  BY <1>2, <1>3, ConcatProperties
<1>6. ASSUME NEW j \in 1 .. Len(s) - 1
      PROVE  (a \o b)[j] = IF j < i THEN s[j] ELSE s[j + 1]
  <2>1. CASE j < i
    BY SMTT(20), <2>1, <1>1, <1>2, <1>3, <1>5
  <2>2. CASE ~ (j < i)
    <3> DEFINE k == j - (i - 1)
    <3>1. k \in 1 .. Len(s) - i /\ i + k = j + 1 /\ k = j - Len(a) /\ ~ (j <= Len(a))
      BY <2>2, <1>1, <1>2
    <3>2. (a \o b)[j] = b[j - Len(a)]
      BY SMTT(20), <3>1, <1>1, <1>2, <1>3, <1>5
    <3> QED BY <3>1, <3>2, <2>2, <1>3
  <2> QED BY <2>1, <2>2
<1> QED BY <1>1, <1>2, <1>3, <1>4, <1>5, <1>6

\* squeue_remove and list_remove_element: of an element that is there once.
LEMMA QuitarUno ==
  ASSUME NEW S, NEW s \in Seq(S), NEW e, IsInjective(s)
  PROVE  /\ RemoveFirst(s, e) \in Seq(S)
         /\ ToSet(RemoveFirst(s, e)) = ToSet(s) \ {e}
         /\ IsInjective(RemoveFirst(s, e))
<1>1. DOMAIN s = 1 .. Len(s) /\ Len(s) \in Nat
  BY LenProperties
<1>2. CASE e \notin ToSet(s)
  <2>1. RemoveFirst(s, e) = s
    BY <1>1, <1>2 DEF RemoveFirst, ToSet
  <2> QED BY <2>1, <1>2
<1>3. CASE e \in ToSet(s)
  <2> DEFINE I == {j \in 1 .. Len(s) : s[j] = e}
             i == Min(I)
             r == RemoveAt(s, i)
  <2>1. I # {} /\ I \in SUBSET Nat
    BY <1>1, <1>3 DEF ToSet
  <2>2. RemoveFirst(s, e) = r
    BY <2>1 DEF RemoveFirst, SelectInSeq
  <2>3. i \in 1 .. Len(s) /\ s[i] = e
    BY <2>1, MinimoExiste
  <2> HIDE DEF I, i
  <2>4. /\ r \in Seq(S) /\ Len(r) = Len(s) - 1
        /\ \A j \in 1 .. Len(s) - 1 : r[j] = IF j < i THEN s[j] ELSE s[j + 1]
    BY <2>3, QuitarEn
  <2>5. DOMAIN r = 1 .. Len(s) - 1
    BY <2>4, LenProperties
  <2> HIDE DEF r
  <2>6. ASSUME NEW j \in 1 .. Len(s) - 1
        PROVE  \E k \in 1 .. Len(s) : k # i /\ r[j] = s[k] /\ (k = j \/ k = j + 1)
                                      /\ (k = j <=> j < i)
    <3>1. CASE j < i
      BY <3>1, <1>1, <2>3, <2>4
    <3>2. CASE ~ (j < i)
      <4>1. j + 1 \in 1 .. Len(s) /\ j + 1 # i /\ r[j] = s[j + 1]
        BY <3>2, <1>1, <2>3, <2>4
      <4> QED BY <4>1, <3>2
    <3> QED BY <3>1, <3>2
  <2>7. ToSet(r) \subseteq ToSet(s) \ {e}
    BY SMTT(20), <2>3, <2>5, <2>6, <1>1 DEF ToSet, IsInjective
  <2>8. ASSUME NEW k \in 1 .. Len(s), s[k] # e
        PROVE  s[k] \in ToSet(r)
    <3>1. CASE k < i
      <4>1. k \in 1 .. Len(s) - 1 /\ r[k] = s[k]
        BY <3>1, <1>1, <2>3, <2>4
      <4> QED BY <4>1, <2>5 DEF ToSet
    <3>2. CASE ~ (k < i)
      <4>1. k - 1 \in 1 .. Len(s) - 1 /\ r[k - 1] = s[k]
        BY <3>2, <2>8, <1>1, <2>3, <2>4
      <4> QED BY <4>1, <2>5 DEF ToSet
    <3> QED BY <3>1, <3>2
  <2>9. ToSet(r) = ToSet(s) \ {e}
    BY <2>7, <2>8, <1>1 DEF ToSet
  <2>10. ASSUME NEW x \in 1 .. Len(s) - 1, NEW y \in 1 .. Len(s) - 1, r[x] = r[y]
         PROVE  x = y
    <3>1. PICK k \in 1 .. Len(s) : r[x] = s[k] /\ (k = x \/ k = x + 1) /\ (k = x <=> x < i)
      BY <2>6
    <3>2. PICK l \in 1 .. Len(s) : r[y] = s[l] /\ (l = y \/ l = y + 1) /\ (l = y <=> y < i)
      BY <2>6
    <3>3. k = l
      BY <3>1, <3>2, <2>10, <1>1 DEF IsInjective
    <3> QED BY <3>1, <3>2, <3>3, <2>3, <1>1
  <2>11. IsInjective(r)
    BY <2>5, <2>10 DEF IsInjective
  <2> QED BY <2>2, <2>4, <2>9, <2>11
<1> QED BY <1>2, <1>3

\* squeue_push_index: e becomes the i-th of the queue.
LEMMA InsertarEn ==
  ASSUME NEW S, NEW s \in Seq(S), NEW e \in S, NEW i \in 1 .. Len(s) + 1
  PROVE  /\ InsertAt(s, i, e) \in Seq(S)
         /\ Len(InsertAt(s, i, e)) = Len(s) + 1
         /\ \A j \in 1 .. Len(s) + 1 : InsertAt(s, i, e)[j] =
              IF j < i THEN s[j] ELSE IF j = i THEN e ELSE s[j - 1]
<1> DEFINE a == SubSeq(s, 1, i - 1)
           b == SubSeq(s, i, Len(s))
           m == <<e>>
<1>1. Len(s) \in Nat /\ \A j \in 1 .. Len(s) : s[j] \in S
  BY LenProperties, ElementOfSeq
<1>2. /\ a \in Seq(S) /\ Len(a) = i - 1
      /\ \A j \in 1 .. i - 1 : a[j] = s[j]
  <2>1. \A j \in 1 .. i - 1 : s[j] \in S
    BY <1>1
  <2>2. /\ a \in Seq(S) /\ Len(a) = IF 1 <= i - 1 THEN i - 1 - 1 + 1 ELSE 0
        /\ \A j \in 1 .. i - 1 - 1 + 1 : a[j] = s[1 + j - 1]
    BY <2>1, <1>1, SubSeqProperties
  <2> QED BY <2>2, <1>1
<1>3. /\ b \in Seq(S) /\ Len(b) = Len(s) - i + 1
      /\ \A j \in 1 .. Len(s) - i + 1 : b[j] = s[i + j - 1]
  <2>1. \A j \in i .. Len(s) : s[j] \in S
    BY <1>1
  <2>2. /\ b \in Seq(S) /\ Len(b) = IF i <= Len(s) THEN Len(s) - i + 1 ELSE 0
        /\ \A j \in 1 .. Len(s) - i + 1 : b[j] = s[i + j - 1]
    BY <2>1, <1>1, SubSeqProperties
  <2> QED BY <2>2, <1>1
<1>4. m \in Seq(S) /\ Len(m) = 1 /\ m[1] = e
  OBVIOUS
<1>5. InsertAt(s, i, e) = (a \o m) \o b
  BY DEF InsertAt
<1> HIDE DEF a, b, m
<1> DEFINE c == a \o m
<1>6. /\ c \in Seq(S) /\ Len(c) = i
      /\ \A j \in 1 .. i : c[j] = IF j < i THEN s[j] ELSE e
  <2>1. /\ c \in Seq(S) /\ Len(c) = Len(a) + Len(m)
        /\ \A j \in 1 .. Len(a) + Len(m) : c[j] = IF j <= Len(a) THEN a[j] ELSE m[j - Len(a)]
    BY <1>2, <1>4, ConcatProperties
  <2> HIDE DEF c
  <2>2. ASSUME NEW j \in 1 .. i PROVE c[j] = IF j < i THEN s[j] ELSE e
    <3>1. CASE j < i
      <4>1. j \in 1 .. i - 1 /\ j \in 1 .. Len(a) + Len(m) /\ j <= Len(a)
        BY <3>1, <1>1, <1>2, <1>4
      <4>2. c[j] = a[j]
        BY <4>1, <2>1
      <4> QED BY <4>1, <4>2, <3>1, <1>2
    <3>2. CASE j = i
      <4>1. j \in 1 .. Len(a) + Len(m) /\ ~ (j <= Len(a)) /\ j - Len(a) = 1
        BY <3>2, <1>1, <1>2, <1>4
      <4>2. c[j] = m[j - Len(a)]
        BY <4>1, <2>1
      <4> QED BY <4>1, <4>2, <3>2, <1>4
    <3> QED BY <3>1, <3>2, <1>1
  <2> QED BY <2>1, <2>2, <1>1, <1>2, <1>4
<1> HIDE DEF c
<1>7. /\ c \o b \in Seq(S) /\ Len(c \o b) = Len(c) + Len(b)
      /\ \A j \in 1 .. Len(c) + Len(b) : (c \o b)[j] = IF j <= Len(c) THEN c[j] ELSE b[j - Len(c)]
  BY <1>3, <1>6, ConcatProperties
<1>8. Len(c) + Len(b) = Len(s) + 1
  BY <1>1, <1>3, <1>6
<1>9. ASSUME NEW j \in 1 .. Len(s) + 1
      PROVE  (c \o b)[j] = IF j < i THEN s[j] ELSE IF j = i THEN e ELSE s[j - 1]
  <2>1. CASE j <= i
    <3>1. j \in 1 .. i /\ j <= Len(c) /\ j \in 1 .. Len(c) + Len(b)
      BY <2>1, <1>1, <1>6, <1>8
    <3> QED BY <3>1, <1>1, <1>6, <1>7
  <2>2. CASE ~ (j <= i)
    <3> DEFINE k == j - i
    <3>1. /\ k \in 1 .. Len(s) - i + 1 /\ i + k - 1 = j - 1 /\ k = j - Len(c)
          /\ ~ (j <= Len(c)) /\ j \in 1 .. Len(c) + Len(b)
      BY <2>2, <1>1, <1>6, <1>8
    <3>2. (c \o b)[j] = b[j - Len(c)]
      BY <3>1, <1>7
    <3>3. b[k] = s[j - 1]
      BY <3>1, <1>3
    <3> QED BY SMTT(20), <3>1, <3>2, <3>3, <2>2, <1>1
  <2> QED BY <2>1, <2>2
<1> QED BY <1>5, <1>7, <1>8, <1>9 DEF c

LEMMA Insertar ==
  ASSUME NEW S, NEW s \in Seq(S), NEW e \in S, NEW i \in 1 .. Len(s) + 1
  PROVE  /\ InsertAt(s, i, e) \in Seq(S)
         /\ Len(InsertAt(s, i, e)) = Len(s) + 1
         /\ i # 1 => Head(InsertAt(s, i, e)) = Head(s)
         /\ ToSet(InsertAt(s, i, e)) = ToSet(s) \cup {e}
         /\ IsInjective(s) /\ e \notin ToSet(s) => IsInjective(InsertAt(s, i, e))
<1> DEFINE t == InsertAt(s, i, e)
<1>1. /\ t \in Seq(S) /\ Len(t) = Len(s) + 1
      /\ \A j \in 1 .. Len(s) + 1 : t[j] = IF j < i THEN s[j] ELSE IF j = i THEN e ELSE s[j - 1]
  BY InsertarEn
<1>2. DOMAIN s = 1 .. Len(s) /\ DOMAIN t = 1 .. Len(s) + 1 /\ Len(s) \in Nat
  BY <1>1, LenProperties
<1> HIDE DEF t
<1>3. ASSUME NEW j \in 1 .. Len(s) + 1
      PROVE  \/ t[j] = e /\ j = i
             \/ \E k \in 1 .. Len(s) : t[j] = s[k] /\ j # i /\ (k = IF j < i THEN j ELSE j - 1)
  <2>1. CASE j < i
    BY <2>1, <1>1, <1>2
  <2>2. CASE j = i
    BY <2>2, <1>1, <1>2
  <2>3. CASE j > i
    <3>1. j - 1 \in 1 .. Len(s) /\ t[j] = s[j - 1]
      BY <2>3, <1>1, <1>2
    <3> QED BY <3>1, <2>3, <1>2
  <2> QED BY <2>1, <2>2, <2>3, <1>2
<1>4. ToSet(t) \subseteq ToSet(s) \cup {e}
  BY <1>2, <1>3 DEF ToSet
<1>5. ASSUME NEW k \in 1 .. Len(s) PROVE s[k] \in ToSet(t)
  <2>1. CASE k < i
    <3>1. k \in 1 .. Len(s) + 1 /\ t[k] = s[k]
      BY <2>1, <1>1, <1>2
    <3> QED BY <3>1, <1>2 DEF ToSet
  <2>2. CASE ~ (k < i)
    <3>1. k + 1 \in 1 .. Len(s) + 1 /\ t[k + 1] = s[k]
      BY <2>2, <1>1, <1>2
    <3> QED BY <3>1, <1>2 DEF ToSet
  <2> QED BY <2>1, <2>2
<1>6. e \in ToSet(t)
  <2>1. i \in 1 .. Len(s) + 1 /\ t[i] = e
    BY <1>1, <1>2
  <2> QED BY <2>1, <1>2 DEF ToSet
<1>7. ToSet(t) = ToSet(s) \cup {e}
  BY <1>2, <1>4, <1>5, <1>6 DEF ToSet
<1>8. ASSUME IsInjective(s), e \notin ToSet(s),
             NEW x \in 1 .. Len(s) + 1, NEW y \in 1 .. Len(s) + 1, t[x] = t[y]
      PROVE  x = y
  <2>1. ASSUME NEW k \in 1 .. Len(s), NEW l \in 1 .. Len(s), s[k] = s[l] PROVE k = l
    BY <2>1, <1>8, <1>2 DEF IsInjective
  <2>2. \A k \in 1 .. Len(s) : s[k] # e
    BY <1>8, <1>2 DEF ToSet
  <2>3. CASE t[x] = e
    BY <2>3, <2>2, <1>3, <1>8
  <2>4. CASE t[x] # e
    <3>1. PICK k \in 1 .. Len(s) : t[x] = s[k] /\ x # i /\ (k = IF x < i THEN x ELSE x - 1)
      BY <2>4, <1>3
    <3>2. PICK l \in 1 .. Len(s) : t[y] = s[l] /\ y # i /\ (l = IF y < i THEN y ELSE y - 1)
      BY <2>4, <1>3, <1>8
    <3>3. k = l
      BY <3>1, <3>2, <2>1, <1>8
    <3> QED BY <3>1, <3>2, <3>3, <1>2
  <2> QED BY <2>3, <2>4
<1>9. IsInjective(s) /\ e \notin ToSet(s) => IsInjective(t)
  BY <1>2, <1>8 DEF IsInjective
<1>10. i # 1 => Head(t) = Head(s)
  <2>1. i # 1 => 1 \in 1 .. Len(s) + 1 /\ 1 < i /\ t[1] = s[1] /\ s # <<>>
    BY <1>1, <1>2, EmptySeq
  <2>2. t # <<>>
    BY <1>1, <1>2, EmptySeq
  <2> QED BY <2>1, <2>2, <1>1, HeadTailProperties
<1> QED BY <1>1, <1>7, <1>9, <1>10 DEF t

\* A queue made of a finite set, in some order.
LEMMA DeConjunto ==
  ASSUME NEW S, IsFiniteSet(S)
  PROVE  SetToSeq(S) \in Seq(S) /\ IsInjective(SetToSeq(S)) /\ ToSet(SetToSeq(S)) = S
<1> DEFINE n == Cardinality(S)
           s == SetToSeq(S)
<1>1. n \in Nat /\ ExistsBijection(1 .. n, S)
  BY FS_CardinalityType
<1>2. PICK f : f \in Bijection(1 .. n, S)
  BY <1>1 DEF ExistsBijection
<1>3. f \in [1 .. n -> S] /\ IsInjective(f)
  BY <1>2 DEF Bijection, Injection, Surjection
<1>4. s \in [1 .. n -> S] /\ IsInjective(s)
  BY <1>3 DEF SetToSeq
<1> HIDE DEF s
<1>5. s \in Seq(S)
  BY <1>1, <1>4, SeqDef
<1>6. IsFiniteSet(1 .. n) /\ Cardinality(1 .. n) = n
  BY <1>1, FS_Interval
<1>7. s \in Injection(1 .. n, S)
  BY <1>4 DEF Injection
<1>8. s \in Surjection(1 .. n, S)
  BY <1>6, <1>7, FS_Injection
<1>9. ToSet(s) = S
  BY <1>4, <1>8 DEF ToSet, Surjection
<1> QED BY <1>4, <1>5, <1>9 DEF s

LEMMA QuitarTipo ==
  ASSUME NEW S, NEW s \in Seq(S), NEW e
  PROVE  RemoveFirst(s, e) \in Seq(S)
<1>1. Len(s) \in Nat
  BY LenProperties
<1>2. CASE \E i \in 1 .. Len(s) : s[i] = e
  <2> DEFINE I == {j \in 1 .. Len(s) : s[j] = e}
  <2>1. I # {} /\ I \in SUBSET Nat
    BY <1>1, <1>2
  <2>2. Min(I) \in 1 .. Len(s)
    BY <2>1, MinimoExiste
  <2>3. RemoveFirst(s, e) = RemoveAt(s, Min(I))
    BY <1>2, <2>1 DEF RemoveFirst, SelectInSeq
  <2> QED BY <2>2, <2>3, QuitarEn
<1>3. CASE ~ \E i \in 1 .. Len(s) : s[i] = e
  BY <1>3 DEF RemoveFirst
<1> QED BY <1>2, <1>3

\* A queue of one.
LEMMA Unitaria ==
  ASSUME NEW S, NEW e \in S
  PROVE  /\ <<e>> \in Seq(S) /\ <<e>> # <<>> /\ Len(<<e>>) = 1
         /\ Head(<<e>>) = e /\ Tail(<<e>>) = <<>>
         /\ ToSet(<<e>>) = {e} /\ Append(<<>>, e) = <<e>>
<1>1. <<e>> \in Seq(S) /\ <<e>> # <<>> /\ Len(<<e>>) = 1
  OBVIOUS
<1>2. Head(<<e>>) = e /\ Tail(<<e>>) = <<>>
  OBVIOUS
<1>3. ToSet(<<e>>) = {e}
  BY DEF ToSet
<1>4. Append(<<>>, e) = <<e>>
  OBVIOUS
<1> QED BY <1>1, <1>2, <1>3, <1>4

LEMMA DeUno ==
  ASSUME NEW S, NEW s \in Seq(S), Len(s) <= 1
  PROVE  s = <<>> \/ \E e \in S : s = <<e>>
<1>1. Len(s) \in Nat /\ DOMAIN s = 1 .. Len(s) /\ \A i \in 1 .. Len(s) : s[i] \in S
  BY LenProperties, ElementOfSeq
<1>2. CASE Len(s) = 0
  BY <1>2, EmptySeq
<1>3. CASE Len(s) = 1
  <2>1. s[1] \in S /\ s = <<s[1]>>
    BY <1>1, <1>3
  <2> QED BY <2>1
<1> QED BY <1>1, <1>2, <1>3

\* Any order of a queue, such as the one that sorting it gives.
LEMMA Reordenar ==
  ASSUME NEW S, NEW s \in Seq(S), NEW f \in Bijection(DOMAIN s, DOMAIN s)
  PROVE  LET t == [i \in DOMAIN s |-> s[f[i]]] IN
         /\ t \in Seq(S) /\ Len(t) = Len(s) /\ ToSet(t) = ToSet(s)
         /\ IsInjective(s) => IsInjective(t)
<1> DEFINE t == [i \in DOMAIN s |-> s[f[i]]]
<1>1. DOMAIN s = 1 .. Len(s) /\ Len(s) \in Nat /\ \A i \in DOMAIN s : s[i] \in S
  BY LenProperties, ElementOfSeq
<1>2. /\ \A i \in DOMAIN s : f[i] \in DOMAIN s
      /\ \A i, j \in DOMAIN s : f[i] = f[j] => i = j
      /\ \A j \in DOMAIN s : \E i \in DOMAIN s : f[i] = j
  BY DEF Bijection, Injection, Surjection, IsInjective
<1>3. t \in Seq(S) /\ Len(t) = Len(s)
  <2>1. t \in [1 .. Len(s) -> S]
    BY <1>1, <1>2
  <2> QED BY <2>1, <1>1, IsASeq
<1>4. DOMAIN t = DOMAIN s /\ \A i \in DOMAIN s : t[i] = s[f[i]]
  OBVIOUS
<1> HIDE DEF t
<1>5. ToSet(t) = ToSet(s)
  <2>1. \A e : e \in ToSet(t) <=> \E i \in DOMAIN s : e = s[f[i]]
    BY <1>4 DEF ToSet
  <2>2. \A e : e \in ToSet(s) <=> \E i \in DOMAIN s : e = s[i]
    BY DEF ToSet
  <2>3. ASSUME NEW e \in ToSet(t) PROVE e \in ToSet(s)
    BY <2>1, <2>2, <1>2
  <2>4. ASSUME NEW e \in ToSet(s) PROVE e \in ToSet(t)
    <3>1. PICK j \in DOMAIN s : e = s[j]
      BY <2>2
    <3>2. PICK i \in DOMAIN s : f[i] = j
      BY <1>2
    <3> QED BY <3>1, <3>2, <2>1
  <2> QED BY <2>3, <2>4
<1>6. ASSUME IsInjective(s), NEW i \in DOMAIN s, NEW j \in DOMAIN s, t[i] = t[j]
      PROVE  i = j
  <2>1. f[i] \in DOMAIN s /\ f[j] \in DOMAIN s /\ s[f[i]] = s[f[j]]
    BY <1>2, <1>4, <1>6
  <2>2. f[i] = f[j]
    BY <2>1, <1>6 DEF IsInjective
  <2> QED BY <2>2, <1>2
<1>7. IsInjective(s) => IsInjective(t)
  BY <1>4, <1>6 DEF IsInjective
<1> QED BY <1>3, <1>5, <1>7 DEF t
==============================================================================
