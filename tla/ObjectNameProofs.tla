-------------------------- MODULE ObjectNameProofs --------------------------
(***************************************************************************)
(* Proofs about ObjectNames, for any number of objects, any depth of the   *)
(* tree and any names: the tree keeps its shape, a recorded path stays     *)
(* valid, and the path that is written for an object leads back to it.     *)
(***************************************************************************)
EXTENDS ObjectNames, FiniteSetTheorems, SequenceTheorems,
        WellFoundedInduction, TLAPS

-----------------------------------------------------------------------------
(* Induction is by the least number of a set.                              *)
LEMMA LeastNumber ==
    ASSUME NEW S \in SUBSET Nat, S # {}
    PROVE  \E n \in S : \A m \in S : n <= m
<1>1. PICK n \in S : \A m \in S : ~(<<m, n>> \in OpToRel(<, Nat))
  BY NatLessThanWellFounded, WFMin, Zenon
<1>2. ASSUME NEW m \in S PROVE n <= m
  <2>1. ~(<<m, n>> \in OpToRel(<, Nat))
    BY <1>1
  <2>2. ~(m < n)
    BY <2>1, Zenon DEF OpToRel
  <2> QED
    BY <2>2
<1> QED
  BY <1>2

(* A set of numbers that holds 0 and every successor holds all of them.    *)
LEMMA NumberInduction ==
    ASSUME NEW S, 0 \in S, \A n \in Nat : n \in S => n + 1 \in S
    PROVE  \A n \in Nat : n \in S
<1> DEFINE out == Nat \ S
<1> SUFFICES ASSUME out # {} PROVE FALSE
  OBVIOUS
<1>1. PICK n \in out : \A m \in out : n <= m
  BY LeastNumber
<1>2. n \in Nat /\ n # 0 /\ n - 1 \in Nat /\ n - 1 \notin out
  BY <1>1
<1> QED
  BY <1>1, <1>2

(* The same for the numbers from 1 to n.                                   *)
LEMMA IntervalInduction ==
    ASSUME NEW n \in Nat, NEW S,
           n > 0 => 1 \in S,
           \A i \in 1..(n - 1) : i \in S => i + 1 \in S
    PROVE  \A i \in 1..n : i \in S
<1> DEFINE T == {k \in Nat : k + 1 > n \/ k + 1 \in S}
<1>1. 0 \in T
  OBVIOUS
<1>2. \A k \in Nat : k \in T => k + 1 \in T
  OBVIOUS
<1>3. \A k \in Nat : k \in T
  BY <1>1, <1>2, NumberInduction
<1>4. ASSUME NEW i \in 1..n PROVE i \in S
  <2>1. i - 1 \in T /\ i - 1 + 1 = i
    BY <1>3
  <2> QED
    BY <2>1
<1> QED
  BY <1>4

-----------------------------------------------------------------------------
(* The members of a set of numbers, in their order.                        *)
Lists(e, n, S) ==
    /\ e \in [1..n -> S]
    /\ \A i, j \in 1..n : i < j => e[i] < e[j]
    /\ \A x \in S : \E i \in 1..n : e[i] = x

(* A finite set of numbers can be listed in order.                         *)
LEMMA ListExists ==
    ASSUME NEW S \in SUBSET Nat, IsFiniteSet(S)
    PROVE  \E e : Lists(e, Cardinality(S), S)
<1> DEFINE sizes == {n \in Nat : \A T \in SUBSET Nat :
                        IsFiniteSet(T) /\ Cardinality(T) = n =>
                            \E e : Lists(e, n, T)}
<1>1. 0 \in sizes
  <2> SUFFICES ASSUME NEW T \in SUBSET Nat, IsFiniteSet(T), Cardinality(T) = 0
               PROVE  \E e : Lists(e, 0, T)
    OBVIOUS
  <2>1. T = {}
    BY FS_EmptySet
  <2>2. [i \in 1..0 |-> 0] \in [1..0 -> {}]
    OBVIOUS
  <2>3. Lists([i \in 1..0 |-> 0], 0, T)
    BY <2>1, <2>2 DEF Lists
  <2> QED
    BY <2>3
<1>2. ASSUME NEW n \in Nat, n \in sizes PROVE n + 1 \in sizes
  <2> SUFFICES ASSUME NEW T \in SUBSET Nat, IsFiniteSet(T),
                      Cardinality(T) = n + 1
               PROVE  \E e : Lists(e, n + 1, T)
    OBVIOUS
  <2>1. T # {}
    BY FS_EmptySet
  <2>2. PICK m \in T : \A k \in T : m <= k
    BY <2>1, LeastNumber
  <2> DEFINE U == T \ {m}
  <2>3. IsFiniteSet(U) /\ Cardinality(U) = n /\ U \in SUBSET Nat
    BY FS_RemoveElement
  <2>4. PICK e : Lists(e, n, U)
    BY <1>2, <2>3
  <2> DEFINE f == [i \in 1..(n + 1) |-> IF i = 1 THEN m ELSE e[i - 1]]
  <2>5. ASSUME NEW i \in 1..n
        PROVE  e[i] \in T /\ e[i] # m /\ e[i] \in Nat /\ m \in Nat /\ e[i] > m
    <3>1. e[i] \in U
      BY <2>4 DEF Lists
    <3>2. e[i] \in T /\ e[i] # m /\ e[i] \in Nat /\ m \in Nat /\ m <= e[i]
      BY <3>1, <2>2
    <3> QED
      BY <3>2
  <2>6. f \in [1..(n + 1) -> T]
    BY <2>5
  <2>7. ASSUME NEW i \in 1..(n + 1), NEW j \in 1..(n + 1), i < j
        PROVE  f[i] < f[j]
    <3>1. CASE i = 1
      BY <3>1, <2>5, <2>7
    <3>2. CASE i # 1
      <4>1. i - 1 \in 1..n /\ j - 1 \in 1..n /\ i - 1 < j - 1
        BY <3>2, <2>7
      <4>2. e[i - 1] < e[j - 1]
        BY <4>1, <2>4 DEF Lists
      <4> QED
        BY <4>1, <4>2, <3>2, <2>7
    <3> QED
      BY <3>1, <3>2
  <2>8. ASSUME NEW x \in T PROVE \E i \in 1..(n + 1) : f[i] = x
    <3>1. CASE x = m
      <4>1. 1 \in 1..(n + 1) /\ f[1] = m
        OBVIOUS
      <4> QED
        BY <3>1, <4>1
    <3>2. CASE x # m
      <4>1. PICK i \in 1..n : e[i] = x
        BY <3>2, <2>4 DEF Lists
      <4>2. i + 1 \in 1..(n + 1) /\ f[i + 1] = e[i]
        OBVIOUS
      <4> QED
        BY <4>1, <4>2
    <3> QED
      BY <3>1, <3>2
  <2>9. Lists(f, n + 1, T)
    BY <2>6, <2>7, <2>8 DEF Lists
  <2> QED
    BY <2>9
<1>3. \A n \in Nat : n \in sizes
  BY <1>1, <1>2, NumberInduction
<1> QED
  BY <1>3, FS_CardinalityType

(* A list in order tells how many members there are and which is the nth.  *)
LEMMA ListCounts ==
    ASSUME NEW S \in SUBSET Nat, NEW n \in Nat, NEW e, Lists(e, n, S)
    PROVE  /\ IsFiniteSet(S) /\ Cardinality(S) = n
           /\ \A p \in 1..n : Nth(S, p) = e[p]
<1>0. \A i \in 1..n : e[i] \in S /\ e[i] \in Nat
  BY DEF Lists
<1>1. ASSUME NEW p \in 0..n, NEW T,
             T = {e[i] : i \in 1..p}
      PROVE  IsFiniteSet(T) /\ Cardinality(T) = p
  <2> DEFINE f == [i \in 1..p |-> e[i]]
  <2>1. \A i, j \in 1..p : i # j => e[i] # e[j]
    <3> SUFFICES ASSUME NEW i \in 1..p, NEW j \in 1..p, i # j
                 PROVE  e[i] # e[j]
      OBVIOUS
    <3>1. i \in 1..n /\ j \in 1..n /\ (i < j \/ j < i)
      OBVIOUS
    <3>2. e[i] \in Nat /\ e[j] \in Nat
      BY <3>1 DEF Lists
    <3> QED
      BY <3>1, <3>2 DEF Lists
  <2>2. f \in Bijection(1..p, T)
    BY <1>1, <2>1 DEF Bijection, Injection, Surjection, IsInjective
  <2>3. ExistsBijection(1..p, T)
    BY <2>2 DEF ExistsBijection
  <2> QED
    BY <2>3, FS_CountingElements, FS_NatBijection
<1>2. S = {e[i] : i \in 1..n}
  BY DEF Lists
<1>3. ASSUME NEW p \in 1..n PROVE Cardinality({d \in S : d <= e[p]}) = p
  <2>1. {d \in S : d <= e[p]} = {e[i] : i \in 1..p}
    <3>1. ASSUME NEW d \in S, d <= e[p] PROVE \E i \in 1..p : d = e[i]
      <4>1. PICK i \in 1..n : e[i] = d
        BY DEF Lists
      <4>2. e[i] \in Nat /\ e[p] \in Nat /\ e[i] <= e[p]
        BY <1>0, <4>1, <3>1
      <4>3. ~(p < i)
        BY <4>2 DEF Lists
      <4> QED
        BY <4>1, <4>3
    <3>2. ASSUME NEW i \in 1..p PROVE e[i] \in S /\ e[i] <= e[p]
      <4>0. i \in 1..n
        OBVIOUS
      <4>1. e[i] \in S /\ e[i] \in Nat /\ e[p] \in Nat
        BY <4>0, <1>0
      <4>2. i = p \/ i < p
        OBVIOUS
      <4> QED
        BY <4>0, <4>1, <4>2 DEF Lists
    <3> QED
      BY <3>1, <3>2
  <2> QED
    BY <2>1, <1>1
<1>4. ASSUME NEW p \in 1..n PROVE Nth(S, p) = e[p]
  <2>1. e[p] \in S
    BY DEF Lists
  <2>2. ASSUME NEW x \in S, Cardinality({d \in S : d <= x}) = p
        PROVE  x = e[p]
    <3>1. PICK q \in 1..n : e[q] = x
      BY DEF Lists
    <3> QED
      BY <3>1, <2>2, <1>3
  <2> QED
    BY <2>1, <2>2, <1>3 DEF Nth
<1> QED
  BY <1>1, <1>2, <1>4

-----------------------------------------------------------------------------
(* The words that names are made of.                                       *)
Numerals == {ToString(k) : k \in Nat}
Word ==
    {":", "_", "-", "App"} \cup Classes \cup Numerals
    \cup UNION {Range(n) : n \in Names}
Text == Seq(Word)

(* The first m texts that joining passes through.                          *)
Joins(f, m, parts, between) ==
    f = [i \in 1..m |->
            IF i = 1 THEN parts[1] ELSE f[i - 1] \o between \o parts[i]]

(* Joining is defined: the texts exist, and the last one is the result.    *)
LEMMA JoinDefined ==
    ASSUME NEW parts \in Seq(Text), parts # <<>>, NEW between \in Text
    PROVE  \E f \in [1..Len(parts) -> Text] :
              /\ Joins(f, Len(parts), parts, between)
              /\ Join(parts, between) = f[Len(parts)]
<1> DEFINE n == Len(parts)
           lengths == {m \in Nat : \E f : Joins(f, m, parts, between)}
<1>0. n \in Nat /\ n >= 1
  BY EmptySeq
<1>1. 0 \in lengths
  <2>1. Joins([i \in 1..0 |-> 0], 0, parts, between)
    BY DEF Joins
  <2> QED
    BY <2>1
<1>2. ASSUME NEW m \in Nat, m \in lengths PROVE m + 1 \in lengths
  <2>1. PICK f : Joins(f, m, parts, between)
    BY <1>2
  <2> DEFINE last == IF m = 0 THEN parts[1] ELSE f[m] \o between \o parts[m + 1]
             g == [i \in 1..(m + 1) |-> IF i = m + 1 THEN last ELSE f[i]]
  <2> HIDE DEF last
  <2>2. ASSUME NEW i \in 1..(m + 1)
        PROVE  g[i] = IF i = 1 THEN parts[1] ELSE g[i - 1] \o between \o parts[i]
    <3>1. CASE i = m + 1
      BY <3>1 DEF last
    <3>2. CASE i # m + 1
      <4>1. i \in 1..m /\ g[i] = f[i] /\ (i # 1 => g[i - 1] = f[i - 1])
        BY <3>2
      <4>2. f[i] = IF i = 1 THEN parts[1] ELSE f[i - 1] \o between \o parts[i]
        BY <2>1, <4>1 DEF Joins
      <4> QED
        BY <4>1, <4>2
    <3> QED
      BY <3>1, <3>2
  <2>3. Joins(g, m + 1, parts, between)
    BY <2>2 DEF Joins
  <2> QED
    BY <2>3
<1>3. \A m \in Nat : m \in lengths
  BY <1>1, <1>2, NumberInduction
<1> DEFINE upTo[i \in 1..Len(parts)] ==
             IF i = 1 THEN parts[1] ELSE upTo[i - 1] \o between \o parts[i]
<1>4. Join(parts, between) = upTo[Len(parts)]
  BY DEF Join
<1>5. \E f : Joins(f, n, parts, between)
  BY <1>0, <1>3
<1>6. upTo = CHOOSE f : Joins(f, n, parts, between)
  BY DEF Joins
<1>7. Joins(upTo, n, parts, between)
  BY <1>5, <1>6
<1> HIDE DEF upTo
<1> DEFINE typed == {i \in 1..n : upTo[i] \in Text}
<1>8. 1 \in typed
  BY <1>0, <1>7, ElementOfSeq DEF Joins
<1>9. ASSUME NEW i \in 1..(n - 1), i \in typed PROVE i + 1 \in typed
  <2>1. PICK k \in 1..n : k = i + 1
    BY <1>0
  <2>2. k # 1 /\ k - 1 = i /\ parts[k] \in Text /\ upTo[i] \in Text
    BY <1>0, <1>9, <2>1, ElementOfSeq
  <2>3. upTo[k] = upTo[k - 1] \o between \o parts[k]
    BY <1>7, <2>2, Zenon DEF Joins
  <2>4. upTo[k] = upTo[i] \o between \o parts[k]
    BY <2>2, <2>3, Zenon
  <2>5. upTo[i] \o between \o parts[k] \in Text
    BY <2>2, ConcatProperties DEF Text
  <2> QED
    BY <2>1, <2>4, <2>5
<1>10. \A i \in 1..n : i \in typed
  BY <1>0, <1>8, <1>9, IntervalInduction
<1>11. upTo \in [1..n -> Text]
  BY <1>7, <1>10 DEF Joins
<1> QED
  BY <1>4, <1>7, <1>11

(* How the first m parts lie in the joined text: part i has the positions  *)
(* behind off[i] up to fin[i].                                             *)
Laid(m, text, off, fin, parts, between) ==
    /\ off[1] = 0 /\ Len(text) = fin[m]
    /\ \A i \in 1..m :
          /\ off[i] \in Nat /\ fin[i] \in Nat /\ off[i] <= fin[i]
          /\ fin[i] <= fin[m]
          /\ \A q \in (off[i] + 1)..fin[i] : text[q] = parts[i][q - off[i]]
    /\ \A i \in 2..m :
          /\ off[i] = fin[i - 1] + Len(between)
          /\ \A q \in (fin[i - 1] + 1)..off[i] :
                text[q] = between[q - fin[i - 1]]
    /\ \A i, j \in 1..m : i < j => fin[i] <= off[j]
    /\ \A q \in 1..fin[m] :
          \/ \E i \in 1..m : q \in (off[i] + 1)..fin[i]
          \/ \E i \in 2..m : q \in (fin[i - 1] + 1)..off[i]

(* Two texts one behind the other.                                         *)
LEMMA TwoTexts ==
    ASSUME NEW v \in Seq(Word), NEW w \in Seq(Word)
    PROVE  /\ v \o w \in Seq(Word) /\ Len(v \o w) = Len(v) + Len(w)
           /\ \A q \in 1..(Len(v) + Len(w)) :
                 (v \o w)[q] = IF q <= Len(v) THEN v[q] ELSE w[q - Len(v)]
  BY ConcatProperties

(* Three texts one behind the other.                                       *)
OneBehindOther(u, t, b, w, o, f) ==
    /\ Len(t) \in Nat /\ Len(b) \in Nat /\ Len(w) \in Nat
    /\ o \in Nat /\ f \in Nat
    /\ u \in Text /\ Len(u) = f
    /\ \A q \in 1..Len(t) : u[q] = t[q]
    /\ \A q \in (Len(t) + 1)..o : u[q] = b[q - Len(t)]
    /\ \A q \in (o + 1)..f : u[q] = w[q - o]

LEMMA ThreeTexts ==
    ASSUME NEW t \in Text, NEW b \in Text, NEW w \in Text, NEW o, NEW f,
           o = Len(t) + Len(b), f = o + Len(w)
    PROVE  OneBehindOther(t \o b \o w, t, b, w, o, f)
<1>1. t \in Seq(Word) /\ b \in Seq(Word) /\ w \in Seq(Word)
  BY DEF Text
<1>2. Len(t) \in Nat /\ Len(b) \in Nat /\ Len(w) \in Nat /\ o \in Nat /\ f \in Nat
  BY <1>1
<1> DEFINE v == t \o b
<1>3. /\ v \in Seq(Word) /\ Len(v) = o
      /\ \A q \in 1..o : v[q] = IF q <= Len(t) THEN t[q] ELSE b[q - Len(t)]
  BY <1>1, ConcatProperties
<1> HIDE DEF v
<1>4. /\ v \o w \in Seq(Word) /\ Len(v \o w) = f
      /\ \A q \in 1..f : (v \o w)[q] = IF q <= o THEN v[q] ELSE w[q - o]
  <2>1. /\ v \o w \in Seq(Word) /\ Len(v \o w) = Len(v) + Len(w)
        /\ \A q \in 1..(Len(v) + Len(w)) :
              (v \o w)[q] = IF q <= Len(v) THEN v[q] ELSE w[q - Len(v)]
    BY <1>1, <1>3, TwoTexts
  <2> QED
    BY <1>3, <2>1, Zenon
<1> DEFINE u == v \o w
<1> HIDE DEF u
<1>5. ASSUME NEW q \in 1..Len(t) PROVE u[q] = t[q]
  <2>1. q \in 1..o /\ q \in 1..f /\ q <= o
    BY <1>2
  <2> QED
    BY <2>1, <1>3, <1>4 DEF u
<1>6. ASSUME NEW q \in (Len(t) + 1)..o PROVE u[q] = b[q - Len(t)]
  <2>1. q \in 1..o /\ q \in 1..f /\ ~(q <= Len(t)) /\ q <= o
    BY <1>2
  <2> QED
    BY <2>1, <1>3, <1>4 DEF u
<1>7. ASSUME NEW q \in (o + 1)..f PROVE u[q] = w[q - o]
  <2>1. q \in 1..f /\ ~(q <= o)
    BY <1>2
  <2> QED
    BY <2>1, <1>4 DEF u
<1>8. t \o b \o w = u
  BY DEF u, v
<1> QED
  BY <1>2, <1>4, <1>5, <1>6, <1>7, <1>8 DEF u, Text, OneBehindOther

IsPart(w, parts, k) == w = parts[k]

(* One more part.                                                          *)
LEMMA LaidFurther ==
    ASSUME NEW parts, NEW off, NEW fin, NEW m \in Nat \ {0}, NEW k, k = m + 1,
           NEW t \in Text, NEW b \in Text, NEW w \in Text, IsPart(w, parts, k),
           Laid(m, t, off, fin, parts, b),
           off[k] = Len(t) + Len(b), fin[k] = off[k] + Len(w)
    PROVE  Laid(k, t \o b \o w, off, fin, parts, b)
<1> DEFINE u == t \o b \o w
           lt == Len(t)
           lb == Len(b)
<1>1. /\ lt \in Nat /\ lb \in Nat /\ off[k] \in Nat /\ fin[k] \in Nat
      /\ Len(u) = fin[k] /\ off[k] <= fin[k] /\ lt <= off[k]
      /\ off[k] = lt + lb
      /\ \A q \in 1..lt : u[q] = t[q]
      /\ \A q \in (lt + 1)..off[k] : u[q] = b[q - lt]
      /\ \A q \in (off[k] + 1)..fin[k] : u[q] = parts[k][q - off[k]]
  <2>1. /\ Len(t) \in Nat /\ Len(b) \in Nat /\ Len(w) \in Nat
        /\ off[k] \in Nat /\ fin[k] \in Nat /\ Len(u) = fin[k]
        /\ \A q \in 1..Len(t) : u[q] = t[q]
        /\ \A q \in (Len(t) + 1)..off[k] : u[q] = b[q - Len(t)]
        /\ \A q \in (off[k] + 1)..fin[k] : u[q] = w[q - off[k]]
    <3>1. OneBehindOther(t \o b \o w, t, b, w, off[k], fin[k])
      BY ThreeTexts
    <3> QED
      BY <3>1, Zenon DEF OneBehindOther
  <2>2. off[k] <= fin[k] /\ Len(t) <= off[k]
    BY <2>1
  <2>3. w = parts[k]
    BY DEF IsPart
  <2>4. \A q \in (off[k] + 1)..fin[k] : u[q] = parts[k][q - off[k]]
    BY <2>1, <2>3, Zenon
  <2> QED
    BY <2>1, <2>2, <2>4, Zenon
<1>2. lt = fin[m]
  BY DEF Laid
<1> HIDE DEF u, lt, lb
<1>3. k \in Nat /\ m \in Nat /\ k - 1 = m /\ m >= 1
  OBVIOUS
<1>4. ASSUME NEW i \in 1..k
      PROVE  /\ off[i] \in Nat /\ fin[i] \in Nat /\ off[i] <= fin[i]
             /\ fin[i] <= fin[k]
             /\ \A q \in (off[i] + 1)..fin[i] : u[q] = parts[i][q - off[i]]
  <2>1. CASE i = k
    BY <2>1, <1>1
  <2>2. CASE i # k
    <3>1. i \in 1..m
      BY <2>2, <1>3
    <3>2. /\ off[i] \in Nat /\ fin[i] \in Nat /\ off[i] <= fin[i]
          /\ fin[i] <= lt
          /\ \A q \in (off[i] + 1)..fin[i] : t[q] = parts[i][q - off[i]]
      BY <3>1, <1>2 DEF Laid
    <3>3. \A q \in (off[i] + 1)..fin[i] : q \in 1..lt
      BY <3>2, <1>1
    <3>4. fin[i] <= fin[k]
      BY <3>2, <1>1
    <3> QED
      BY <3>2, <3>3, <3>4, <1>1
  <2> QED
    BY <2>1, <2>2
<1>5. ASSUME NEW i \in 2..k
      PROVE  /\ off[i] = fin[i - 1] + lb
             /\ \A q \in (fin[i - 1] + 1)..off[i] : u[q] = b[q - fin[i - 1]]
  <2>1. CASE i = k
    BY <2>1, <1>1, <1>2, <1>3
  <2>2. CASE i # k
    <3>1. i \in 2..m /\ i \in 1..m /\ i - 1 \in 1..m
      BY <2>2, <1>3
    <3>2. /\ off[i] = fin[i - 1] + lb
          /\ \A q \in (fin[i - 1] + 1)..off[i] : t[q] = b[q - fin[i - 1]]
      BY <3>1 DEF Laid, lb
    <3>3. /\ off[i] \in Nat /\ fin[i] \in Nat /\ off[i] <= fin[i]
          /\ fin[i] <= lt /\ fin[i - 1] \in Nat
      BY <3>1, <1>2 DEF Laid
    <3>4. \A q \in (fin[i - 1] + 1)..off[i] : q \in 1..lt
      BY <3>3, <1>1
    <3> QED
      BY <3>2, <3>4, <1>1
  <2> QED
    BY <2>1, <2>2
<1>6. ASSUME NEW q \in 1..fin[k]
      PROVE  \/ \E i \in 1..k : q \in (off[i] + 1)..fin[i]
             \/ \E i \in 2..k : q \in (fin[i - 1] + 1)..off[i]
  <2>1. CASE q <= lt
    <3>1. q \in 1..fin[m]
      BY <2>1, <1>1, <1>2
    <3>2. \/ \E i \in 1..m : q \in (off[i] + 1)..fin[i]
          \/ \E i \in 2..m : q \in (fin[i - 1] + 1)..off[i]
      BY <3>1 DEF Laid
    <3>3. 1..m \subseteq 1..k /\ 2..m \subseteq 2..k
      BY <1>3
    <3> QED
      BY <3>2, <3>3
  <2>2. CASE lt < q /\ q <= off[k]
    <3>1. k \in 2..k /\ q \in (fin[k - 1] + 1)..off[k]
      BY <2>2, <1>1, <1>2, <1>3
    <3> QED
      BY <3>1
  <2>3. CASE off[k] < q
    <3>1. k \in 1..k /\ q \in (off[k] + 1)..fin[k]
      BY <2>3, <1>1, <1>3
    <3> QED
      BY <3>1
  <2> QED
    BY <2>1, <2>2, <2>3, <1>1
<1>7. off[1] = 0
  BY DEF Laid
<1>8. ASSUME NEW i \in 1..k, NEW j \in 1..k, i < j PROVE fin[i] <= off[j]
  <2>1. i \in 1..m /\ (j = k \/ j \in 1..m)
    BY <1>3, <1>8
  <2>2. fin[i] \in Nat /\ fin[i] <= lt
    BY <2>1, <1>2 DEF Laid
  <2>3. CASE j = k
    BY <2>2, <2>3, <1>1
  <2>4. CASE j \in 1..m
    BY <2>1, <2>4, <1>8 DEF Laid
  <2> QED
    BY <2>1, <2>3, <2>4
<1>9. Laid(k, u, off, fin, parts, b)
  BY <1>1, <1>4, <1>5, <1>6, <1>7, <1>8 DEF Laid, lb
<1> QED
  BY <1>9 DEF u

(* The lengths of the parts.                                               *)
Measured(off, fin, parts) ==
    \A i \in 1..Len(parts) : Len(parts[i]) = fin[i] - off[i]

(* One part alone.                                                         *)
LEMMA LaidFirst ==
    ASSUME NEW parts, NEW off, NEW fin, NEW b, NEW t \in Text,
           IsPart(t, parts, 1), off[1] = 0, fin[1] = Len(t)
    PROVE  Laid(1, t, off, fin, parts, b)
<1>1. fin[1] \in Nat
  BY DEF Text
<1>2. \A q \in 1..fin[1] : t[q] = parts[1][q - 0]
  BY <1>1 DEF IsPart
<1>3. 1..1 = {1} /\ 2..1 = {} /\ \A q \in 1..fin[1] : q - 0 = q
  BY <1>1
<1> QED
  BY <1>1, <1>2, <1>3 DEF Laid

(* How the parts lie in the joined text.                                   *)
LEMMA JoinLaid ==
    ASSUME NEW parts \in Seq(Text), parts # <<>>, NEW b \in Text
    PROVE  /\ Join(parts, b) \in Text
           /\ \E off, fin : /\ Laid(Len(parts), Join(parts, b), off, fin,
                                    parts, b)
                            /\ Measured(off, fin, parts)
<1> DEFINE n == Len(parts)
<1>0. n \in Nat /\ n >= 1 /\ \A i \in 1..n : parts[i] \in Text
  BY EmptySeq, ElementOfSeq
<1>1. PICK f \in [1..n -> Text] : /\ Joins(f, n, parts, b)
                                  /\ Join(parts, b) = f[n]
  BY JoinDefined
<1> DEFINE fin == [i \in 1..n |-> Len(f[i])]
           off == [i \in 1..n |-> Len(f[i]) - Len(parts[i])]
           laid == {i \in 1..n : Laid(i, f[i], off, fin, parts, b)}
<1>2. f[1] = parts[1]
  <2>1. 1 \in 1..n
    BY <1>0
  <2> QED
    BY <2>1, <1>1, Zenon DEF Joins
<1>3. ASSUME NEW i \in 1..n
      PROVE  /\ f[i] \in Text /\ Len(f[i]) \in Nat /\ fin[i] = Len(f[i])
             /\ parts[i] \in Text /\ Len(parts[i]) \in Nat
             /\ off[i] = Len(f[i]) - Len(parts[i])
  <2>1. f[i] \in Text /\ parts[i] \in Text
    BY <1>0, <1>1
  <2>2. \A t \in Text : Len(t) \in Nat
    BY DEF Text
  <2> QED
    BY <2>1, <2>2, Zenon
<1> HIDE DEF fin, off
<1>4. 1 \in laid
  <2>1. 1 \in 1..n
    BY <1>0
  <2>2. PICK t \in Text : t = f[1]
    BY <2>1, <1>3
  <2>3. IsPart(t, parts, 1) /\ fin[1] = Len(t)
    BY <2>1, <2>2, <1>2, <1>3, Zenon DEF IsPart
  <2>4. off[1] = Len(t) - Len(t) /\ Len(t) \in Nat
    BY <2>1, <2>2, <1>2, <1>3, Zenon
  <2>5. off[1] = 0
    BY <2>4
  <2>6. Laid(1, t, off, fin, parts, b)
    BY <2>3, <2>5, LaidFirst
  <2> QED
    BY <2>1, <2>2, <2>6, Zenon
<1>5. ASSUME NEW m \in 1..(n - 1), m \in laid PROVE m + 1 \in laid
  <2>1. PICK k \in 1..n : k = m + 1
    BY <1>0
  <2>2. k # 1 /\ k - 1 = m /\ m \in 1..n /\ m \in Nat \ {0}
    BY <1>0, <2>1
  <2>3. PICK t \in Text, w \in Text : t = f[m] /\ w = parts[k]
    BY <2>2, <1>3
  <2>4. f[k] = f[k - 1] \o b \o parts[k]
    BY <1>1, <2>2, Zenon DEF Joins
  <2>5. f[k] = t \o b \o w
    BY <2>2, <2>3, <2>4, Zenon
  <2> DEFINE o == Len(t) + Len(b)
             e == o + Len(w)
  <2>6. OneBehindOther(t \o b \o w, t, b, w, o, e)
    BY ThreeTexts
  <2>7. Len(f[k]) = e /\ o \in Nat /\ e \in Nat /\ Len(w) \in Nat
    BY <2>5, <2>6, Zenon DEF OneBehindOther
  <2>8. fin[k] = e /\ off[k] = e - Len(w)
    BY <1>3, <2>3, <2>7, Zenon
  <2> HIDE DEF o
  <2>9. off[k] = o
    BY <2>7, <2>8
  <2>10. fin[k] = off[k] + Len(w) /\ off[k] = Len(t) + Len(b)
    BY <2>8, <2>9, Zenon DEF o
  <2>11. IsPart(w, parts, k) /\ Laid(m, t, off, fin, parts, b)
    BY <2>3, <1>5, Zenon DEF IsPart
  <2>12. Laid(k, t \o b \o w, off, fin, parts, b)
    BY <2>1, <2>2, <2>10, <2>11, LaidFurther
  <2> QED
    BY <2>1, <2>5, <2>12, Zenon
<1>6. \A i \in 1..n : i \in laid
  BY <1>0, <1>4, <1>5, IntervalInduction
<1>7. n \in laid /\ n \in 1..n
  BY <1>0, <1>6
<1>8. Measured(off, fin, parts)
  <2> SUFFICES ASSUME NEW i \in 1..n PROVE Len(parts[i]) = fin[i] - off[i]
    BY DEF Measured
  <2>1. PICK x \in Nat, y \in Nat : x = Len(f[i]) /\ y = Len(parts[i])
    BY <1>3
  <2>2. fin[i] = x /\ off[i] = x - y
    BY <1>3, <2>1, Zenon
  <2>3. x - (x - y) = y
    OBVIOUS
  <2> QED
    BY <2>1, <2>2, <2>3, Zenon
<1>9. f[n] \in Text
  BY <1>3, <1>7
<1>10. Laid(n, f[n], off, fin, parts, b)
  BY <1>7, Zenon
<1> QED
  BY <1>1, <1>8, <1>9, <1>10, Zenon

-----------------------------------------------------------------------------
(* The positions that Split cuts at.                                       *)
Ends(text) == Separators(text) \cup {Len(text) + 1}

(* They are finitely many numbers, so that they can be listed.             *)
LEMMA EndsListed ==
    ASSUME NEW text \in Text
    PROVE  /\ Ends(text) \in SUBSET Nat
           /\ \E n \in Nat \ {0} : \E e : Lists(e, n, Ends(text))
<1>1. Len(text) \in Nat
  BY DEF Text
<1>2. Separators(text) \subseteq 1..(Len(text) + 1)
  BY <1>1 DEF Separators
<1>3. Ends(text) \subseteq 1..(Len(text) + 1)
  BY <1>1, <1>2 DEF Ends
<1>4. IsFiniteSet(Ends(text)) /\ Ends(text) \in SUBSET Nat
  <2>1. PICK k \in Nat : k = Len(text) + 1
    BY <1>1
  <2>2. IsFiniteSet(1..k)
    BY FS_Interval
  <2>3. Ends(text) \in SUBSET (1..k)
    BY <2>1, <1>3
  <2> QED
    BY <2>2, <2>3, FS_Subset
<1>5. Ends(text) # {}
  BY DEF Ends
<1>6. Cardinality(Ends(text)) \in Nat \ {0}
  BY <1>4, <1>5, FS_CardinalityType, FS_EmptySet
<1> QED
  BY <1>4, <1>6, ListExists

(* What Split makes of a text, by a list of the positions.                 *)
Pieces(text, n, e) ==
    [p \in 1..n |-> SubSeq(text, IF p = 1 THEN 1 ELSE e[p - 1] + 2, e[p] - 1)]

LEMMA SplitByList ==
    ASSUME NEW text \in Text, NEW n \in Nat, NEW e, Lists(e, n, Ends(text))
    PROVE  Split(text) = Pieces(text, n, e)
<1>1. Ends(text) \in SUBSET Nat
  BY EndsListed
<1>2. /\ Cardinality(Ends(text)) = n
      /\ \A p \in 1..n : Nth(Ends(text), p) = e[p]
  BY <1>1, ListCounts
<1>3. ASSUME NEW p \in 1..n
      PROVE  SubSeq(text, IF p = 1 THEN 1 ELSE Nth(Ends(text), p - 1) + 2,
                    Nth(Ends(text), p) - 1)
             = SubSeq(text, IF p = 1 THEN 1 ELSE e[p - 1] + 2, e[p] - 1)
  <2>1. p # 1 => p - 1 \in 1..n
    OBVIOUS
  <2>2. Nth(Ends(text), p) = e[p]
        /\ (p # 1 => Nth(Ends(text), p - 1) = e[p - 1])
    BY <2>1, <1>2
  <2> QED
    BY <2>2, Zenon
<1>4. Split(text) =
        [p \in 1..Cardinality(Ends(text)) |->
            SubSeq(text, IF p = 1 THEN 1 ELSE Nth(Ends(text), p - 1) + 2,
                   Nth(Ends(text), p) - 1)]
  BY Zenon DEF Split, Ends
<1> QED
  BY <1>2, <1>3, <1>4, Zenon DEF Pieces

(* A text that can stand between two separators: not empty, no colon at    *)
(* its ends, and no two in a row.                                          *)
Plain(t) ==
    /\ t \in Text /\ t # <<>>
    /\ t[1] # ":" /\ t[Len(t)] # ":"
    /\ \A i \in 1..(Len(t) - 1) : ~(t[i] = ":" /\ t[i + 1] = ":")

(* A plain part of a longer text.                                          *)
LEMMA PlainPart ==
    ASSUME NEW w, Plain(w), NEW text, NEW o \in Nat, NEW f \in Nat,
           Len(w) = f - o,
           \A q \in (o + 1)..f : text[q] = w[q - o]
    PROVE  /\ o < f /\ text[o + 1] # ":" /\ text[f] # ":"
           /\ \A q \in (o + 1)..(f - 1) :
                 ~(text[q] = ":" /\ text[q + 1] = ":")
<1>1. PICK l \in Nat : l = Len(w) /\ l = f - o /\ l >= 1
  <2>1. Len(w) \in Nat \ {0}
    BY EmptySeq DEF Plain, Text
  <2> QED
    BY <2>1
<1>2. /\ w[1] # ":" /\ w[l] # ":"
      /\ \A i \in 1..(l - 1) : ~(w[i] = ":" /\ w[i + 1] = ":")
  BY <1>1 DEF Plain
<1>3. o < f /\ o + 1 \in (o + 1)..f /\ f \in (o + 1)..f
      /\ o + 1 - o = 1
  BY <1>1
<1>4. text[o + 1] = w[1] /\ text[f] = w[l]
  BY <1>1, <1>3
<1>5. ASSUME NEW q \in (o + 1)..(f - 1)
      PROVE  ~(text[q] = ":" /\ text[q + 1] = ":")
  <2>1. PICK i \in 1..(l - 1) : i = q - o
    BY <1>1
  <2>2. q \in (o + 1)..f /\ q + 1 \in (o + 1)..f /\ (q + 1) - o = i + 1
    BY <2>1, <1>1
  <2>3. text[q] = w[i] /\ text[q + 1] = w[i + 1]
    BY <2>1, <2>2
  <2> QED
    BY <2>3, <1>2
<1> QED
  BY <1>2, <1>3, <1>4, <1>5

(* The positions of joined plain parts that are separators.                *)
LEMMA JoinedSeparators ==
    ASSUME NEW text \in Text, NEW n \in Nat \ {0}, NEW off, NEW fin,
           NEW parts, Laid(n, text, off, fin, parts, <<":", ":">>),
           \A i \in 1..n :
              /\ off[i] < fin[i] /\ text[off[i] + 1] # ":"
              /\ text[fin[i]] # ":"
              /\ \A q \in (off[i] + 1)..(fin[i] - 1) :
                    ~(text[q] = ":" /\ text[q + 1] = ":")
    PROVE  Lists([i \in 1..n |-> fin[i] + 1], n, Ends(text))
<1>1. /\ Len(text) = fin[n]
      /\ \A i \in 1..n : off[i] \in Nat /\ fin[i] \in Nat /\ fin[i] <= fin[n]
      /\ \A i, j \in 1..n : i < j => fin[i] <= off[j]
  BY DEF Laid
<1>2. Len(<<":", ":">>) = 2
  OBVIOUS
<1>3. ASSUME NEW i \in 2..n
      PROVE  /\ i \in 1..n /\ i - 1 \in 1..n
             /\ off[i] = fin[i - 1] + 2 /\ off[i] < Len(text)
             /\ text[fin[i - 1] + 1] = ":" /\ text[fin[i - 1] + 2] = ":"
  <2>1. i \in 1..n /\ i - 1 \in 1..n
    OBVIOUS
  <2>2. PICK g \in Nat : g = fin[i - 1]
    BY <2>1, <1>1
  <2>3. /\ off[i] = fin[i - 1] + Len(<<":", ":">>)
        /\ \A q \in (fin[i - 1] + 1)..off[i] :
              text[q] = <<":", ":">>[q - fin[i - 1]]
    BY DEF Laid
  <2>4. off[i] = g + 2
    BY <2>2, <2>3, <1>2
  <2>5. g + 1 \in (g + 1)..off[i] /\ g + 2 \in (g + 1)..off[i]
        /\ (g + 1) - g = 1 /\ (g + 2) - g = 2
    BY <2>4
  <2>6. text[g + 1] = <<":", ":">>[(g + 1) - g]
        /\ text[g + 2] = <<":", ":">>[(g + 2) - g]
    BY <2>2, <2>3, <2>5
  <2>7. text[g + 1] = ":" /\ text[g + 2] = ":"
    BY <2>5, <2>6
  <2>8. off[i] < fin[i] /\ fin[i] <= fin[n] /\ off[i] \in Nat /\ fin[i] \in Nat
        /\ fin[n] \in Nat
    BY <2>1, <1>1
  <2>9. off[i] < Len(text)
    BY <2>8, <1>1
  <2> QED
    BY <2>1, <2>2, <2>4, <2>7, <2>9
<1>4. ASSUME NEW q \in Separators(text) PROVE \E i \in 2..n : q = fin[i - 1] + 1
  <2>1. q \in 1..(Len(text) - 1) /\ text[q] = ":" /\ text[q + 1] = ":"
    BY DEF Separators
  <2>2. q \in 1..fin[n] /\ q < fin[n] /\ fin[n] \in Nat
    BY <2>1, <1>1
  <2>3. \/ \E i \in 1..n : q \in (off[i] + 1)..fin[i]
        \/ \E i \in 2..n : q \in (fin[i - 1] + 1)..off[i]
    BY <2>2 DEF Laid
  <2>4. ASSUME NEW i \in 1..n, q \in (off[i] + 1)..fin[i] PROVE FALSE
    <3>1. q = fin[i] \/ q \in (off[i] + 1)..(fin[i] - 1)
      BY <2>4, <1>1
    <3> QED
      BY <3>1, <2>1
  <2>5. ASSUME NEW i \in 2..n, q \in (fin[i - 1] + 1)..off[i]
        PROVE  q = fin[i - 1] + 1
    <3>1. fin[i - 1] \in Nat /\ off[i] = fin[i - 1] + 2
      BY <1>1, <1>3
    <3>2. q = fin[i - 1] + 1 \/ q = off[i]
      BY <3>1, <2>5
    <3>3. q # off[i]
      BY <2>1, <1>3
    <3> QED
      BY <3>2, <3>3
  <2> QED
    BY <2>3, <2>4, <2>5
<1>5. ASSUME NEW i \in 2..n PROVE fin[i - 1] + 1 \in Separators(text)
  <2>1. PICK g \in Nat : g = fin[i - 1]
    BY <1>1, <1>3
  <2>2. g >= 1 /\ text[g] # ":"
    <3>1. i - 1 \in 1..n /\ off[i - 1] \in Nat /\ off[i - 1] < fin[i - 1]
      BY <1>1, <1>3
    <3> QED
      BY <2>1, <3>1
  <2>3. text[g + 1] = ":" /\ text[g + 2] = ":" /\ g + 2 < Len(text)
    BY <2>1, <1>3
  <2>4. g + 1 \in 1..(Len(text) - 1) /\ (g + 1) + 1 = g + 2
    BY <2>3 DEF Text
  <2>5. /\ 0 \in 0..((g + 1) - 1) /\ 0 % 2 = 0
        /\ \A j \in ((g + 1) - 0)..((g + 1) - 1) : text[j] = ":"
        /\ (g + 1) - 0 - 1 = g
    OBVIOUS
  <2>6. \E k \in 0..((g + 1) - 1) :
          /\ k % 2 = 0
          /\ \A j \in ((g + 1) - k)..((g + 1) - 1) : text[j] = ":"
          /\ (g + 1) - k > 1 => text[(g + 1) - k - 1] # ":"
    BY <2>2, <2>5
  <2>7. g + 1 \in Separators(text)
    BY <2>3, <2>4, <2>6 DEF Separators
  <2> QED
    BY <2>1, <2>7
<1> DEFINE e == [i \in 1..n |-> fin[i] + 1]
<1>6. ASSUME NEW i \in 1..n PROVE e[i] \in Ends(text)
  <2>1. CASE i = n
    BY <2>1, <1>1 DEF Ends
  <2>2. CASE i # n
    <3>1. PICK k \in 2..n : k - 1 = i
      <4>1. i + 1 \in 2..n /\ (i + 1) - 1 = i
        BY <2>2
      <4> QED
        BY <4>1
    <3>2. fin[k - 1] + 1 \in Separators(text)
      BY <1>5
    <3> QED
      BY <3>1, <3>2 DEF Ends
  <2> QED
    BY <2>1, <2>2
<1>7. ASSUME NEW i \in 1..n, NEW j \in 1..n, i < j PROVE e[i] < e[j]
  <2>1. fin[i] <= off[j] /\ off[j] < fin[j]
        /\ fin[i] \in Nat /\ off[j] \in Nat /\ fin[j] \in Nat
    BY <1>1, <1>7
  <2> QED
    BY <2>1
<1>8. ASSUME NEW x \in Ends(text) PROVE \E i \in 1..n : e[i] = x
  <2>1. CASE x \in Separators(text)
    <3>1. PICK i \in 2..n : x = fin[i - 1] + 1
      BY <1>4, <2>1
    <3>2. i - 1 \in 1..n /\ e[i - 1] = fin[i - 1] + 1
      BY <1>3
    <3> QED
      BY <3>1, <3>2
  <2>2. CASE x = Len(text) + 1
    <3>1. n \in 1..n /\ e[n] = fin[n] + 1
      OBVIOUS
    <3> QED
      BY <2>2, <3>1, <1>1
  <2> QED
    BY <2>1, <2>2 DEF Ends
<1> QED
  BY <1>6, <1>7, <1>8 DEF Lists

(* A piece of a text is what lies there.                                   *)
LEMMA PieceOfText ==
    ASSUME NEW text \in Text, NEW w \in Text, NEW o \in Nat, NEW f \in Nat,
           o <= f, f <= Len(text), Len(w) = f - o,
           \A q \in (o + 1)..f : text[q] = w[q - o]
    PROVE  SubSeq(text, o + 1, f) = w
<1>1. text \in Seq(Word) /\ w \in Seq(Word) /\ Len(text) \in Nat
  BY DEF Text
<1>2. ASSUME NEW i \in (o + 1)..f PROVE text[i] \in Word
  <2>1. i \in 1..Len(text)
    BY <1>1
  <2> QED
    BY <2>1, <1>1, ElementOfSeq
<1> DEFINE s == SubSeq(text, o + 1, f)
<1>3. /\ s \in Seq(Word)
      /\ Len(s) = IF o + 1 <= f THEN f - (o + 1) + 1 ELSE 0
      /\ \A i \in 1..(f - (o + 1) + 1) : s[i] = text[(o + 1) + i - 1]
  BY <1>2, SubSeqProperties
<1> HIDE DEF s
<1>4. Len(s) = f - o /\ f - (o + 1) + 1 = f - o
  BY <1>3
<1>5. ASSUME NEW i \in 1..Len(s) PROVE s[i] = w[i]
  <2>1. i \in 1..(f - (o + 1) + 1) /\ (o + 1) + i - 1 = o + i
        /\ o + i \in (o + 1)..f /\ (o + i) - o = i
    BY <1>4
  <2>2. s[i] = text[o + i]
    BY <2>1, <1>3
  <2>3. text[o + i] = w[(o + i) - o]
    BY <2>1
  <2> QED
    BY <2>1, <2>2, <2>3
<1>6. s = w
  BY <1>1, <1>3, <1>4, <1>5, SeqEqual
<1> QED
  BY <1>6 DEF s

(* The separator and what stands for it in a name are texts.               *)
LEMMA SeparatorTexts == <<":", ":">> \in Text /\ <<":", "_", ":">> \in Text
<1>1. ":" \in Word /\ "_" \in Word
  BY DEF Word
<1>2. \A S : \A x, y, z \in S : <<x, y>> \in Seq(S) /\ <<x, y, z>> \in Seq(S)
  OBVIOUS
<1> QED
  BY <1>1, <1>2 DEF Text

(* The parts of a path are the parts it was joined of.                     *)
LEMMA SplitOfJoin ==
    ASSUME NEW parts \in Seq(Text), parts # <<>>,
           \A i \in 1..Len(parts) : Plain(parts[i])
    PROVE  Split(Join(parts, <<":", ":">>)) = parts
<1> DEFINE b == <<":", ":">>
           text == Join(parts, b)
<1>0. PICK n \in Nat \ {0} : n = Len(parts)
  BY EmptySeq
<1>1. b \in Text
  BY SeparatorTexts
<1>2. /\ text \in Text
      /\ \E off, fin : /\ Laid(n, text, off, fin, parts, b)
                       /\ Measured(off, fin, parts)
  BY <1>0, <1>1, JoinLaid
<1> HIDE DEF text
<1>3. PICK off, fin : Laid(n, text, off, fin, parts, b)
                      /\ Measured(off, fin, parts)
  BY <1>2
<1>4. ASSUME NEW i \in 1..n
      PROVE  /\ off[i] \in Nat /\ fin[i] \in Nat /\ fin[i] <= Len(text)
             /\ \A q \in (off[i] + 1)..fin[i] : text[q] = parts[i][q - off[i]]
  BY <1>3 DEF Laid
<1>5. ASSUME NEW i \in 1..n
      PROVE  /\ off[i] < fin[i] /\ text[off[i] + 1] # ":"
             /\ text[fin[i]] # ":"
             /\ \A q \in (off[i] + 1)..(fin[i] - 1) :
                   ~(text[q] = ":" /\ text[q + 1] = ":")
  <2>1. PICK w, o, f : w = parts[i] /\ o = off[i] /\ f = fin[i]
    OBVIOUS
  <2>2. Plain(w) /\ Len(w) = f - o
    BY <2>1, <1>0, <1>3, Zenon DEF Measured
  <2>3. o \in Nat /\ f \in Nat /\ \A q \in (o + 1)..f : text[q] = w[q - o]
    BY <2>1, <1>4, Zenon
  <2>4. /\ o < f /\ text[o + 1] # ":" /\ text[f] # ":"
        /\ \A q \in (o + 1)..(f - 1) : ~(text[q] = ":" /\ text[q + 1] = ":")
    BY <2>2, <2>3, PlainPart
  <2> QED
    BY <2>1, <2>4, Zenon
<1> DEFINE e == [i \in 1..n |-> fin[i] + 1]
<1>6. Lists(e, n, Ends(text))
  BY <1>2, <1>3, <1>5, JoinedSeparators
<1>7. Split(text) = Pieces(text, n, e)
  BY <1>2, <1>6, SplitByList
<1>8. ASSUME NEW p \in 1..n
      PROVE  SubSeq(text, IF p = 1 THEN 1 ELSE e[p - 1] + 2, e[p] - 1)
             = parts[p]
  <2>1. e[p] - 1 = fin[p]
    BY <1>4
  <2>2. (IF p = 1 THEN 1 ELSE e[p - 1] + 2) = off[p] + 1
    <3>1. CASE p = 1
      BY <3>1, <1>3 DEF Laid
    <3>2. CASE p # 1
      <4>1. p \in 2..n /\ p - 1 \in 1..n
        BY <3>2
      <4>2. off[p] = fin[p - 1] + Len(b) /\ Len(b) = 2 /\ fin[p - 1] \in Nat
        BY <4>1, <1>3, <1>4 DEF Laid
      <4>3. e[p - 1] = fin[p - 1] + 1
        BY <4>1
      <4> QED
        BY <4>2, <4>3, <3>2
    <3> QED
      BY <3>1, <3>2
  <2>3. PICK w, o, f : w = parts[p] /\ o = off[p] /\ f = fin[p]
    OBVIOUS
  <2>4. Plain(w) /\ Len(w) = f - o
    BY <2>3, <1>0, <1>3, Zenon DEF Measured
  <2>5. o \in Nat /\ f \in Nat /\ f <= Len(text) /\ o < f
        /\ \A q \in (o + 1)..f : text[q] = w[q - o]
    BY <2>3, <1>4, <1>5, Zenon
  <2>6. w \in Text /\ o <= f
    BY <2>4, <2>5 DEF Plain
  <2>7. SubSeq(text, o + 1, f) = w
    BY <1>2, <2>4, <2>5, <2>6, PieceOfText
  <2> QED
    BY <2>1, <2>2, <2>3, <2>7, Zenon
<1>9. parts = [p \in 1..n |-> parts[p]]
  BY <1>0, LenProperties
<1>10. Split(text) = parts
  BY <1>7, <1>8, <1>9, Zenon DEF Pieces
<1> QED
  BY <1>10 DEF text

-----------------------------------------------------------------------------
(* A name that has no colon at its ends and no three in a row.             *)
CleanText(t) ==
    /\ t \in Text /\ t # <<>>
    /\ t[1] # ":" /\ t[Len(t)] # ":"
    /\ \A i \in 1..(Len(t) - 2) :
          ~(t[i] = ":" /\ t[i + 1] = ":" /\ t[i + 2] = ":")

(* In such a name, every two colons are a separator.                       *)
LEMMA PairSeparates ==
    ASSUME NEW t, CleanText(t), NEW i \in 1..(Len(t) - 1),
           t[i] = ":", t[i + 1] = ":"
    PROVE  i \in Separators(t)
<1>1. PICK l \in Nat : l = Len(t)
  BY DEF CleanText, Text
<1>2. i \in Nat /\ i >= 1 /\ i <= l - 1
  BY <1>1
<1>3. ASSUME i > 1 PROVE t[i - 1] # ":"
  <2>1. i - 1 \in 1..(l - 2) /\ (i - 1) + 1 = i /\ (i - 1) + 2 = i + 1
    BY <1>2, <1>3
  <2> QED
    BY <2>1, <1>1 DEF CleanText
<1>4. /\ 0 \in 0..(i - 1) /\ 0 % 2 = 0
      /\ \A j \in (i - 0)..(i - 1) : t[j] = ":"
      /\ i - 0 - 1 = i - 1 /\ i - 0 = i
  BY <1>2
<1>5. \E k \in 0..(i - 1) :
          /\ k % 2 = 0
          /\ \A j \in (i - k)..(i - 1) : t[j] = ":"
          /\ i - k > 1 => t[i - k - 1] # ":"
  BY <1>3, <1>4
<1> QED
  BY <1>5 DEF Separators

(* The pieces of such a name are plain.                                    *)
LEMMA PiecesPlain ==
    ASSUME NEW t, CleanText(t), NEW n \in Nat, NEW e,
           Lists(e, n, Ends(t)), NEW p \in 1..n
    PROVE  Plain(Pieces(t, n, e)[p])
<1>1. PICK l \in Nat : l = Len(t) /\ l >= 1
  <2>1. Len(t) \in Nat \ {0}
    BY EmptySeq DEF CleanText, Text
  <2> QED
    BY <2>1
<1>2. /\ t[1] # ":" /\ t[l] # ":"
      /\ \A i \in 1..(l - 2) :
          ~(t[i] = ":" /\ t[i + 1] = ":" /\ t[i + 2] = ":")
  BY <1>1 DEF CleanText
<1>3. ASSUME NEW x \in Ends(t), x # l + 1
      PROVE  x \in 1..(l - 1) /\ t[x] = ":" /\ t[x + 1] = ":"
  BY <1>1, <1>3 DEF Ends, Separators
<1>4. ASSUME NEW x \in Ends(t)
      PROVE  /\ x \in Nat /\ x >= 2 /\ x <= l + 1
             /\ x - 1 \in 1..l /\ t[x - 1] # ":"
  <2>1. CASE x = l + 1
    <3>1. x - 1 = l /\ x \in Nat /\ x >= 2 /\ x <= l + 1 /\ x - 1 \in 1..l
      BY <2>1, <1>1
    <3> QED
      BY <3>1, <1>2
  <2>2. CASE x # l + 1
    <3>1. x \in 1..(l - 1) /\ t[x] = ":" /\ t[x + 1] = ":"
      BY <2>2, <1>3
    <3>2. x # 1
      BY <3>1, <1>2
    <3>3. x - 1 \in 1..(l - 2) /\ (x - 1) + 1 = x /\ (x - 1) + 2 = x + 1
      BY <3>1, <3>2
    <3>4. t[x - 1] # ":"
      BY <3>1, <3>3, <1>2
    <3> QED
      BY <3>1, <3>2, <3>3, <3>4
  <2> QED
    BY <2>1, <2>2
<1>5. ASSUME NEW x \in Ends(t), x # l + 1
      PROVE  x + 2 \in 1..l /\ t[x + 2] # ":"
  <2>1. x \in 1..(l - 1) /\ t[x] = ":" /\ t[x + 1] = ":"
    BY <1>3, <1>5
  <2>2. x + 1 # l
    BY <2>1, <1>2
  <2>3. x \in 1..(l - 2)
    BY <2>1, <2>2
  <2> QED
    BY <2>1, <2>3, <1>2
<1> DEFINE a == IF p = 1 THEN 1 ELSE e[p - 1] + 2
           z == e[p] - 1
<1>6. e[p] \in Ends(t)
  BY DEF Lists
<1>7. ASSUME p # 1
      PROVE  /\ p - 1 \in 1..n /\ e[p - 1] \in Ends(t)
             /\ e[p - 1] \in Nat /\ e[p - 1] < e[p]
             /\ e[p - 1] # l + 1 /\ a = e[p - 1] + 2
  <2>1. p - 1 \in 1..n /\ p - 1 < p
    BY <1>7
  <2>2. e[p - 1] \in Ends(t) /\ e[p - 1] < e[p]
    BY <2>1 DEF Lists
  <2> QED
    BY <2>1, <2>2, <1>4, <1>6, <1>7
<1>8. /\ a \in 1..l /\ z \in 1..l /\ t[a] # ":" /\ t[z] # ":"
  <2>1. CASE p = 1
    BY <2>1, <1>1, <1>2, <1>4, <1>6
  <2>2. CASE p # 1
    BY <2>2, <1>4, <1>5, <1>6, <1>7
  <2> QED
    BY <2>1, <2>2
<1>9. a <= z
  <2>1. CASE p = 1
    BY <2>1, <1>4, <1>6
  <2>2. CASE p # 1
    <3>1. PICK x \in Nat, y \in Nat : x = e[p - 1] /\ y = e[p]
      BY <2>2, <1>4, <1>6, <1>7
    <3>2. x < y /\ t[x] = ":" /\ t[x + 1] = ":" /\ t[x + 2] # ":"
          /\ t[y - 1] # ":"
      BY <2>2, <3>1, <1>3, <1>4, <1>5, <1>6, <1>7
    <3>3. y - 1 # x /\ y - 1 # x + 1
      BY <3>2
    <3>4. x + 2 <= y - 1
      BY <3>2, <3>3
    <3> QED
      BY <3>1, <3>4, <2>2
  <2> QED
    BY <2>1, <2>2
<1>10. ASSUME NEW i \in a..(z - 1) PROVE ~(t[i] = ":" /\ t[i + 1] = ":")
  <2> SUFFICES ASSUME t[i] = ":", t[i + 1] = ":" PROVE FALSE
    OBVIOUS
  <2>0. e[p] \in Nat /\ (p # 1 => e[p - 1] \in Nat)
    BY <1>4, <1>6, <1>7
  <2>1. i \in 1..(l - 1) /\ i < e[p] /\ (p # 1 => e[p - 1] < i)
    BY <2>0, <1>8
  <2>2. i \in Separators(t)
    BY <2>1, <1>1, PairSeparates
  <2>3. PICK k \in 1..n : e[k] = i
    BY <2>2 DEF Lists, Ends
  <2>4. k < p
    <3>1. ~(p < k)
      BY <2>0, <2>1, <2>3 DEF Lists
    <3> QED
      BY <3>1, <2>1, <2>3
  <2>5. p # 1 /\ p - 1 \in 1..n /\ (k = p - 1 \/ k < p - 1)
    BY <2>4
  <2>6. ~(k < p - 1)
    BY <2>0, <2>1, <2>3, <2>5 DEF Lists
  <2> QED
    BY <2>1, <2>3, <2>5, <2>6
<1> DEFINE s == SubSeq(t, a, z)
<1> HIDE DEF a, z
<1>11. /\ s \in Seq(Word) /\ Len(s) = z - a + 1
       /\ \A i \in 1..(z - a + 1) : s[i] = t[a + i - 1]
  <2>1. \A i \in a..z : i \in 1..Len(t)
    BY <1>1, <1>8
  <2>2. \A i \in a..z : t[i] \in Word
    BY <2>1, ElementOfSeq DEF CleanText, Text
  <2>3. a \in Int /\ z \in Int
    BY <1>8
  <2> QED
    BY <2>2, <2>3, <1>9, SubSeqProperties
<1> HIDE DEF s
<1>12. PICK m \in Nat \ {0} : m = z - a + 1 /\ m = Len(s)
  BY <1>8, <1>9, <1>11
<1>13. s[1] = t[a] /\ s[m] = t[z]
  <2>1. 1 \in 1..(z - a + 1) /\ m \in 1..(z - a + 1)
        /\ a + 1 - 1 = a /\ a + m - 1 = z
    BY <1>8, <1>12
  <2> QED
    BY <2>1, <1>11
<1>14. ASSUME NEW i \in 1..(m - 1) PROVE ~(s[i] = ":" /\ s[i + 1] = ":")
  <2>1. i \in 1..(z - a + 1) /\ i + 1 \in 1..(z - a + 1)
        /\ a + i - 1 \in a..(z - 1) /\ a + (i + 1) - 1 = (a + i - 1) + 1
    BY <1>8, <1>12
  <2>2. s[i] = t[a + i - 1] /\ s[i + 1] = t[(a + i - 1) + 1]
    BY <2>1, <1>11
  <2> QED
    BY <2>1, <2>2, <1>10
<1>15. Plain(s)
  <2>1. s # <<>>
    BY <1>11, <1>12
  <2> QED
    BY <2>1, <1>8, <1>11, <1>12, <1>13, <1>14 DEF Plain, Text
<1>16. Pieces(t, n, e)[p] = s
  BY Zenon DEF Pieces, s, a, z
<1> QED
  BY <1>15, <1>16

(* The pieces of a text are texts.                                         *)
LEMMA PiecesType ==
    ASSUME NEW t \in Text, NEW n \in Nat, NEW e, Lists(e, n, Ends(t))
    PROVE  Pieces(t, n, e) \in Seq(Text) /\ Len(Pieces(t, n, e)) = n
<1>1. PICK l \in Nat : l = Len(t)
  BY DEF Text
<1>2. Ends(t) \subseteq 1..(l + 1)
  BY <1>1 DEF Ends, Separators
<1>3. ASSUME NEW p \in 1..n
      PROVE  SubSeq(t, IF p = 1 THEN 1 ELSE e[p - 1] + 2, e[p] - 1) \in Text
  <2> DEFINE a == IF p = 1 THEN 1 ELSE e[p - 1] + 2
             z == e[p] - 1
  <2>1. e[p] \in 1..(l + 1)
    BY <1>2 DEF Lists
  <2>2. p # 1 => e[p - 1] \in 1..(l + 1)
    <3>1. p # 1 => p - 1 \in 1..n
      OBVIOUS
    <3> QED
      BY <3>1, <1>2 DEF Lists
  <2>3. a \in Int /\ z \in Int /\ a >= 1 /\ z <= l
    BY <2>1, <2>2
  <2> HIDE DEF a, z
  <2>4. \A i \in a..z : i \in 1..Len(t)
    BY <2>3, <1>1
  <2>5. \A i \in a..z : t[i] \in Word
    BY <2>4, ElementOfSeq DEF Text
  <2>6. SubSeq(t, a, z) \in Seq(Word)
    BY <2>3, <2>5, SubSeqProperties
  <2> QED
    BY <2>6, Zenon DEF a, z, Text
<1>4. Pieces(t, n, e) \in [1..n -> Text]
  BY <1>3, Zenon DEF Pieces
<1>5. \A f \in [1..n -> Text] : f \in Seq(Text) /\ Len(f) = n
  OBVIOUS
<1> QED
  BY <1>4, <1>5

(* A text with a length is not empty.                                      *)
LEMMA NotEmpty ==
    ASSUME NEW t, Len(t) > 0
    PROVE  t # <<>>
<1> SUFFICES ASSUME t = <<>> PROVE FALSE
  OBVIOUS
<1>1. Len(<<>>) = 0
  OBVIOUS
<1>2. Len(t) = 0
  BY <1>1, Zenon
<1> QED
  BY <1>2

(* The joined text ends where its last part ends.                          *)
LEMMA LaidLength ==
    ASSUME NEW n, NEW text \in Text, NEW off, NEW fin, NEW parts, NEW between,
           Laid(n, text, off, fin, parts, between)
    PROVE  \E l \in Nat : l = Len(text) /\ l = fin[n]
<1>1. Len(text) \in Nat
  BY DEF Text
<1>2. Len(text) = fin[n]
  BY Zenon DEF Laid
<1> QED
  BY <1>1, <1>2, Zenon

(* Joining plain parts by what stands for a separator gives a plain text.  *)
LEMMA JoinPlain ==
    ASSUME NEW parts \in Seq(Text), parts # <<>>,
           \A i \in 1..Len(parts) : Plain(parts[i])
    PROVE  Plain(Join(parts, <<":", "_", ":">>))
<1> DEFINE b == <<":", "_", ":">>
           text == Join(parts, b)
<1>0. PICK n \in Nat \ {0} : n = Len(parts)
  BY EmptySeq
<1>1. /\ text \in Text
      /\ \E off, fin : /\ Laid(n, text, off, fin, parts, b)
                       /\ Measured(off, fin, parts)
  BY <1>0, SeparatorTexts, JoinLaid
<1> HIDE DEF text
<1>2. PICK off, fin : Laid(n, text, off, fin, parts, b)
                      /\ Measured(off, fin, parts)
  BY <1>1
<1>3. ASSUME NEW i \in 1..n
      PROVE  /\ off[i] \in Nat /\ fin[i] \in Nat
             /\ \A q \in (off[i] + 1)..fin[i] : text[q] = parts[i][q - off[i]]
  BY <1>2 DEF Laid
<1>4. ASSUME NEW i \in 1..n
      PROVE  /\ off[i] < fin[i] /\ text[off[i] + 1] # ":"
             /\ text[fin[i]] # ":"
             /\ \A q \in (off[i] + 1)..(fin[i] - 1) :
                   ~(text[q] = ":" /\ text[q + 1] = ":")
  <2>1. PICK w, o, f : w = parts[i] /\ o = off[i] /\ f = fin[i]
    OBVIOUS
  <2>2. Plain(w) /\ Len(w) = f - o
    BY <2>1, <1>0, <1>2, Zenon DEF Measured
  <2>3. o \in Nat /\ f \in Nat /\ \A q \in (o + 1)..f : text[q] = w[q - o]
    BY <2>1, <1>3, Zenon
  <2>4. /\ o < f /\ text[o + 1] # ":" /\ text[f] # ":"
        /\ \A q \in (o + 1)..(f - 1) : ~(text[q] = ":" /\ text[q + 1] = ":")
    BY <2>2, <2>3, PlainPart
  <2> QED
    BY <2>1, <2>4, Zenon
<1>5. PICK l \in Nat : l = Len(text) /\ l = fin[n]
  BY <1>1, <1>2, LaidLength, Zenon
<1>6. text[1] # ":" /\ text[l] # ":" /\ l >= 1
  <2>1. off[1] = 0
    BY <1>2, Zenon DEF Laid
  <2>2. 1 \in 1..n /\ n \in 1..n /\ off[1] + 1 = 1
    BY <2>1
  <2>3. text[1] # ":" /\ text[l] # ":"
    BY <2>2, <1>4, <1>5
  <2>4. off[n] \in Nat /\ off[n] < fin[n]
    BY <2>2, <1>3, <1>4
  <2>5. off[n] < l
    BY <2>4, <1>5, Zenon
  <2> QED
    BY <2>3, <2>4, <2>5
<1>7. ASSUME NEW q \in 1..(l - 1) PROVE ~(text[q] = ":" /\ text[q + 1] = ":")
  <2>1. q \in 1..fin[n]
    BY <1>5
  <2>2. \/ \E i \in 1..n : q \in (off[i] + 1)..fin[i]
        \/ \E i \in 2..n : q \in (fin[i - 1] + 1)..off[i]
    BY <2>1, <1>2 DEF Laid
  <2>3. ASSUME NEW i \in 1..n, q \in (off[i] + 1)..fin[i]
        PROVE  ~(text[q] = ":" /\ text[q + 1] = ":")
    <3>1. q = fin[i] \/ q \in (off[i] + 1)..(fin[i] - 1)
      BY <2>3, <1>3
    <3> QED
      BY <3>1, <1>4
  <2>4. ASSUME NEW i \in 2..n, q \in (fin[i - 1] + 1)..off[i]
        PROVE  ~(text[q] = ":" /\ text[q + 1] = ":")
    <3>1. i \in 1..n /\ i - 1 \in 1..n
      OBVIOUS
    <3>2. PICK g \in Nat : g = fin[i - 1]
      BY <3>1, <1>3
    <3>3. /\ off[i] = fin[i - 1] + Len(b)
          /\ \A r \in (fin[i - 1] + 1)..off[i] : text[r] = b[r - fin[i - 1]]
      BY <1>2 DEF Laid
    <3>4. Len(b) = 3 /\ b[2] = "_" /\ "_" # ":"
      OBVIOUS
    <3>5. off[i] = g + 3
      BY <3>2, <3>3, <3>4
    <3>6. g + 2 \in (g + 1)..off[i] /\ (g + 2) - g = 2
      BY <3>5
    <3>7. text[g + 2] = b[(g + 2) - g]
      BY <3>2, <3>3, <3>6
    <3>8. text[g + 2] # ":"
      BY <3>4, <3>6, <3>7
    <3>9. q = g + 1 \/ q = g + 2 \/ q = off[i]
      <4>1. PICK h \in Nat : h = off[i] /\ h = g + 3
        BY <3>5
      <4>2. q \in (g + 1)..h
        BY <4>1, <3>2, <2>4, Zenon
      <4>3. q = g + 1 \/ q = g + 2 \/ q = h
        BY <4>1, <4>2
      <4> QED
        BY <4>1, <4>3, Zenon
    <3>10. text[off[i] + 1] # ":"
      BY <3>1, <1>4
    <3>11. q = g + 1 => q + 1 = g + 2
      OBVIOUS
    <3> QED
      BY <3>8, <3>9, <3>10, <3>11
  <2> QED
    BY <2>2, <2>3, <2>4
<1>8. text # <<>>
  <2>1. l > 0
    BY <1>6
  <2> QED
    BY <2>1, <1>5, NotEmpty, Zenon
<1>9. Plain(text)
  BY <1>1, <1>5, <1>6, <1>7, <1>8 DEF Plain
<1> QED
  BY <1>9 DEF text

(* A clean name is plain once it is escaped.                               *)
LEMMA EscapedPlain ==
    ASSUME NEW t, CleanText(t)
    PROVE  Plain(Escaped(t))
<1>1. t \in Text
  BY DEF CleanText
<1>2a. PICK n \in Nat \ {0} : \E e : Lists(e, n, Ends(t))
  BY <1>1, EndsListed
<1>2. PICK e : Lists(e, n, Ends(t))
  BY <1>2a
<1>3. PICK parts : parts = Pieces(t, n, e)
  OBVIOUS
<1>4. Split(t) = parts /\ parts \in Seq(Text) /\ Len(parts) = n
  BY <1>1, <1>2, <1>3, SplitByList, PiecesType
<1>5. parts # <<>> /\ \A i \in 1..Len(parts) : Plain(parts[i])
  BY <1>2, <1>3, <1>4, PiecesPlain
<1> QED
  BY <1>4, <1>5, JoinPlain DEF Escaped

(* Escaping a name leaves something of it.                                 *)
LEMMA EscapedType ==
    ASSUME NEW t \in Text
    PROVE  Escaped(t) \in Text /\ (t # <<>> => Escaped(t) # <<>>)
<1> DEFINE b == <<":", "_", ":">>
<1>1a. PICK n \in Nat \ {0} : \E e : Lists(e, n, Ends(t))
  BY EndsListed
<1>1. PICK e : Lists(e, n, Ends(t))
  BY <1>1a
<1>2. PICK parts : parts = Pieces(t, n, e)
  OBVIOUS
<1>3. Split(t) = parts /\ parts \in Seq(Text) /\ Len(parts) = n /\ parts # <<>>
  BY <1>1, <1>2, SplitByList, PiecesType
<1>4. PICK text : text = Join(parts, b)
  OBVIOUS
<1>5. /\ text \in Text
      /\ \E off, fin : /\ Laid(n, text, off, fin, parts, b)
                       /\ Measured(off, fin, parts)
  BY <1>3, <1>4, SeparatorTexts, JoinLaid
<1>6. PICK off, fin : Laid(n, text, off, fin, parts, b)
                      /\ Measured(off, fin, parts)
  BY <1>5
<1>7. ASSUME t # <<>> PROVE text # <<>>
  <2>1. PICK l \in Nat : l = Len(text) /\ l = fin[n]
    BY <1>5, <1>6, LaidLength, Zenon
  <2>2. PICK k \in Nat \ {0} : k = Len(t)
    BY <1>7, EmptySeq DEF Text
  <2>3. CASE n = 1
    <3>1. 1 \in 1..n /\ Len(t) + 1 \in Ends(t)
      BY DEF Ends
    <3>2. PICK i \in 1..n : e[i] = Len(t) + 1
      BY <1>1, <3>1 DEF Lists
    <3>3. i = 1 /\ e[1] = k + 1 /\ e[1] - 1 = k
      BY <2>2, <2>3, <3>2
    <3>4. parts[1] = SubSeq(t, IF 1 = 1 THEN 1 ELSE e[1 - 1] + 2, e[1] - 1)
      BY <1>2, <3>1, Zenon DEF Pieces
    <3>5. parts[1] = SubSeq(t, 1, Len(t))
      BY <3>3, <3>4, <2>2, Zenon
    <3>6. parts[1] = t
      BY <3>5, SubSeqFull DEF Text
    <3>7. Len(parts[1]) = fin[1] - off[1]
      BY <1>3, <1>6, <3>1, Zenon DEF Measured
    <3>8. k = fin[1] - off[1]
      BY <3>6, <3>7, <2>2, Zenon
    <3>9. l = fin[1] /\ off[1] = 0
      BY <2>1, <2>3, <1>6 DEF Laid
    <3>10. l > 0
      BY <3>8, <3>9
    <3> QED
      BY <2>1, <3>10, NotEmpty, Zenon
  <2>4. CASE n # 1
    <3>1. 2 \in 2..n /\ 2 \in 1..n /\ 1 \in 1..n /\ 2 - 1 = 1
      BY <2>4
    <3>2. off[2] = fin[2 - 1] + Len(b)
      BY <1>6, <3>1 DEF Laid
    <3>3. fin[1] \in Nat /\ off[2] \in Nat /\ fin[2] \in Nat
          /\ off[2] <= fin[2] /\ fin[2] <= l
      BY <1>6, <3>1, <2>1 DEF Laid
    <3>4. Len(b) = 3
      OBVIOUS
    <3>5. off[2] = fin[1] + 3
      BY <3>1, <3>2, <3>4
    <3>6. l > 0
      BY <3>3, <3>5
    <3> QED
      BY <2>1, <3>6, NotEmpty, Zenon
  <2> QED
    BY <2>3, <2>4
<1> QED
  BY <1>3, <1>4, <1>5, <1>7 DEF Escaped

-----------------------------------------------------------------------------
(* The parents of the objects, whatever they are.                          *)
Parents == [Objects -> Objects \cup {NoObject}]

(* An object and its n - 1 ancestors, from the root.                       *)
Linked(par, c, n, o) ==
    /\ n \in Nat \ {0} /\ c \in [1..n -> Objects]
    /\ par[c[1]] = NoObject /\ c[n] = o
    /\ \A i \in 1..(n - 1) : par[c[i + 1]] = c[i]

(* Seen from its end, one chain is a part of the other.                    *)
LEMMA LinkCompare ==
    ASSUME NEW par \in Parents, NEW o,
           NEW c, NEW n, Linked(par, c, n, o),
           NEW d, NEW m, Linked(par, d, m, o)
    PROVE  \A k \in Nat : k < n => k < m /\ c[n - k] = d[m - k]
<1>0. n \in Nat \ {0} /\ m \in Nat \ {0}
  BY DEF Linked
<1> DEFINE S == {k \in Nat : k < n => k < m /\ c[n - k] = d[m - k]}
<1>1. 0 \in S
  BY <1>0 DEF Linked
<1>2. ASSUME NEW k \in Nat, k \in S PROVE k + 1 \in S
  <2> SUFFICES ASSUME k + 1 < n
               PROVE  k + 1 < m /\ c[n - (k + 1)] = d[m - (k + 1)]
    OBVIOUS
  <2>1. k < m /\ c[n - k] = d[m - k]
    BY <1>0, <1>2
  <2>2. PICK i \in 1..(n - 1) : i = n - (k + 1) /\ i + 1 = n - k
    BY <1>0
  <2>3. par[c[i + 1]] = c[i] /\ c[i] \in Objects
    <3>1. i \in 1..n
      BY <1>0
    <3> QED
      BY <3>1, <2>2 DEF Linked
  <2>4. c[i] # NoObject
    BY <2>3, ObjectNamesAssumption
  <2>5. par[d[m - k]] = c[i]
    BY <2>1, <2>2, <2>3
  <2>6. m - k # 1
    BY <2>4, <2>5 DEF Linked
  <2>7. PICK j \in 1..(m - 1) : j = m - (k + 1) /\ j + 1 = m - k
    BY <1>0, <2>1, <2>6
  <2>8. par[d[j + 1]] = d[j]
    BY <2>7 DEF Linked
  <2>9. c[i] = d[j]
    BY <2>5, <2>7, <2>8
  <2>10. k + 1 < m
    BY <1>0, <2>1, <2>6
  <2> QED
    BY <2>2, <2>7, <2>9, <2>10
<1>3. \A k \in Nat : k \in S
  BY <1>1, <1>2, NumberInduction
<1> QED
  BY <1>3

(* Functions with the same values are the same.                            *)
LEMMA SameFunction ==
    ASSUME NEW S, NEW T, NEW f \in [S -> T], NEW g \in [S -> T],
           \A x \in S : f[x] = g[x]
    PROVE  f = g
  OBVIOUS

(* An object has one chain.                                                *)
LEMMA LinkUnique ==
    ASSUME NEW par \in Parents, NEW o,
           NEW c, NEW n, Linked(par, c, n, o),
           NEW d, NEW m, Linked(par, d, m, o)
    PROVE  n = m /\ c = d
<1>0. n \in Nat \ {0} /\ m \in Nat \ {0}
  BY DEF Linked
<1>1. \A k \in Nat : k < n => k < m /\ c[n - k] = d[m - k]
  BY LinkCompare
<1>2. \A k \in Nat : k < m => k < n
  BY LinkCompare
<1>3. n - 1 \in Nat /\ n - 1 < n /\ m - 1 \in Nat /\ m - 1 < m
  BY <1>0
<1>4. n - 1 < m /\ m - 1 < n
  BY <1>1, <1>2, <1>3
<1>5. n = m
  BY <1>0, <1>4
<1>6. ASSUME NEW i \in 1..n PROVE c[i] = d[i]
  <2>1. PICK k \in Nat : k = n - i /\ k < n /\ n - k = i
    BY <1>0
  <2> QED
    BY <1>1, <1>5, <2>1
<1>7. c \in [1..n -> Objects] /\ d \in [1..n -> Objects]
  BY <1>5 DEF Linked
<1>8. c = d
  <2>1. PICK D : D = 1..n
    OBVIOUS
  <2>2. c \in [D -> Objects] /\ d \in [D -> Objects]
        /\ \A i \in D : c[i] = d[i]
    BY <1>6, <1>7, <2>1
  <2> QED
    BY <2>2, SameFunction
<1> QED
  BY <1>5, <1>8

(* The ancestors of an object have the same chain as far as it goes.       *)
LEMMA LinkPrefix ==
    ASSUME NEW par, NEW o, NEW c, NEW n, Linked(par, c, n, o), NEW k \in 1..n
    PROVE  Linked(par, [i \in 1..k |-> c[i]], k, c[k])
<1>0. n \in Nat \ {0} /\ k \in Nat \ {0}
  BY DEF Linked
<1> DEFINE d == [i \in 1..k |-> c[i]]
<1>1. d \in [1..k -> Objects]
  BY <1>0 DEF Linked
<1>2. 1 \in 1..k /\ k \in 1..k
  BY <1>0
<1>3. d[1] = c[1] /\ d[k] = c[k]
  BY <1>2
<1>4. ASSUME NEW i \in 1..(k - 1) PROVE par[d[i + 1]] = d[i]
  <2>1. i \in 1..k /\ i + 1 \in 1..k /\ i \in 1..(n - 1)
    BY <1>0
  <2> QED
    BY <2>1 DEF Linked
<1> HIDE DEF d
<1>5. par[d[1]] = NoObject
  BY <1>3 DEF Linked
<1>6. Linked(par, d, k, c[k])
  BY <1>0, <1>1, <1>3, <1>4, <1>5 DEF Linked
<1> QED
  BY <1>6 DEF d

(* An object is in its chain once.                                         *)
LEMMA LinkInjective ==
    ASSUME NEW par \in Parents, NEW o, NEW c, NEW n, Linked(par, c, n, o),
           NEW i \in 1..n, NEW j \in 1..n, c[i] = c[j]
    PROVE  i = j
<1>1. Linked(par, [k \in 1..i |-> c[k]], i, c[i])
  BY LinkPrefix
<1>2. Linked(par, [k \in 1..j |-> c[k]], j, c[i])
  BY LinkPrefix
<1> QED
  BY <1>1, <1>2, LinkUnique

(* So a chain is no longer than there are objects.                         *)
LEMMA LinkBound ==
    ASSUME NEW par \in Parents, NEW o, NEW c, NEW n, Linked(par, c, n, o)
    PROVE  c \in Chains
<1>0. n \in Nat \ {0} /\ c \in [1..n -> Objects]
  BY DEF Linked
<1>1. IsFiniteSet(Objects) /\ Cardinality(Objects) \in Nat
  BY ObjectNamesAssumption, FS_CardinalityType
<1>2. c \in Injection(1..n, Objects)
  <2>1. \A i, j \in 1..n : c[i] = c[j] => i = j
    BY LinkInjective
  <2>2. DOMAIN c = 1..n
    BY <1>0
  <2> QED
    BY <1>0, <2>1, <2>2 DEF Injection, IsInjective
<1>3. Cardinality(1..n) = n
  BY <1>0, FS_Interval
<1>4. n <= Cardinality(Objects)
  BY <1>1, <1>2, <1>3, FS_Injection DEF ExistsInjection
<1>5. n \in 0..Cardinality(Objects)
  BY <1>0, <1>1, <1>4
<1> QED
  BY <1>0, <1>5 DEF Chains, SeqOf

(* An object that has a chain.                                             *)
HasChain(par, o) == \E c, n : Linked(par, c, n, o)

(* A chain holds as long as its objects keep their parents.                *)
LEMMA LinkKept ==
    ASSUME NEW par, NEW new, NEW o, NEW c, NEW n, Linked(par, c, n, o),
           \A i \in 1..n : new[c[i]] = par[c[i]]
    PROVE  Linked(new, c, n, o)
<1>0. n \in Nat \ {0}
  BY DEF Linked
<1>1. 1 \in 1..n /\ \A i \in 1..(n - 1) : i + 1 \in 1..n
  BY <1>0
<1> QED
  BY <1>1 DEF Linked

(* A root is its own chain.                                                *)
LEMMA LinkRoot ==
    ASSUME NEW par, NEW o \in Objects, par[o] = NoObject
    PROVE  HasChain(par, o)
<1> DEFINE c == [i \in 1..1 |-> o]
<1>1. c \in [1..1 -> Objects] /\ c[1] = o
  OBVIOUS
<1> HIDE DEF c
<1>2. 1 \in Nat \ {0} /\ 1..(1 - 1) = {}
  OBVIOUS
<1>3. Linked(par, c, 1, o)
  BY <1>1, <1>2 DEF Linked
<1> QED
  BY <1>3 DEF HasChain

(* A child is at the end of the chain of its parent.                       *)
LEMMA LinkChild ==
    ASSUME NEW par, NEW o \in Objects, NEW p, par[o] = p,
           NEW c, NEW n, Linked(par, c, n, p)
    PROVE  Linked(par, [i \in 1..(n + 1) |-> IF i = n + 1 THEN o ELSE c[i]],
                  n + 1, o)
<1>0. n \in Nat \ {0} /\ c \in [1..n -> Objects]
  BY DEF Linked
<1> DEFINE d == [i \in 1..(n + 1) |-> IF i = n + 1 THEN o ELSE c[i]]
<1>1. /\ d \in [1..(n + 1) -> Objects] /\ d[n + 1] = o
      /\ \A i \in 1..n : d[i] = c[i]
  BY <1>0
<1> HIDE DEF d
<1>2. n + 1 \in Nat \ {0} /\ (n + 1) - 1 = n /\ 1 \in 1..n /\ n \in 1..n
  BY <1>0
<1>3. ASSUME NEW i \in 1..n PROVE par[d[i + 1]] = d[i]
  <2>1. CASE i = n
    BY <2>1, <1>1, <1>2 DEF Linked
  <2>2. CASE i # n
    <3>1. i \in 1..(n - 1) /\ i + 1 \in 1..n
      BY <1>0, <2>2
    <3> QED
      BY <3>1, <1>1 DEF Linked
  <2> QED
    BY <2>1, <2>2
<1>4. par[d[1]] = NoObject
  BY <1>1, <1>2 DEF Linked
<1>5. Linked(par, d, n + 1, o)
  BY <1>1, <1>2, <1>3, <1>4 DEF Linked
<1> QED
  BY <1>5 DEF d

(* An object keeps some chain when others become roots or get parents that *)
(* have one.                                                               *)
LEMMA ChainsKept ==
    ASSUME NEW par, NEW new,
           \A x \in Objects : \/ new[x] = par[x]
                              \/ new[x] = NoObject
                              \/ HasChain(new, new[x]),
           NEW o \in Objects, HasChain(par, o)
    PROVE  HasChain(new, o)
<1>1. PICK c, n : Linked(par, c, n, o)
  BY DEF HasChain
<1>2. n \in Nat \ {0} /\ c \in [1..n -> Objects] /\ c[n] = o
  BY <1>1 DEF Linked
<1>3. ASSUME NEW x \in Objects, HasChain(new, new[x]) PROVE HasChain(new, x)
  BY <1>3, LinkChild DEF HasChain
<1> DEFINE S == {i \in 1..n : HasChain(new, c[i])}
<1>4. n > 0 => 1 \in S
  <2>1. 1 \in 1..n /\ c[1] \in Objects /\ par[c[1]] = NoObject
    BY <1>1, <1>2 DEF Linked
  <2> QED
    BY <2>1, <1>3, LinkRoot
<1>5. ASSUME NEW i \in 1..(n - 1), i \in S PROVE i + 1 \in S
  <2>1. i + 1 \in 1..n
    BY <1>2
  <2>2. c[i + 1] \in Objects /\ par[c[i + 1]] = c[i]
    BY <1>1, <2>1 DEF Linked
  <2> QED
    BY <2>1, <2>2, <1>3, <1>5, LinkRoot
<1>6. \A i \in 1..n : i \in S
  BY <1>2, <1>4, <1>5, IntervalInduction
<1>7. n \in 1..n
  BY <1>2
<1> QED
  BY <1>2, <1>6, <1>7

(* The chain of an object is what links it to its root.                    *)
ChainIn(par, c, o) ==
    /\ c # <<>> /\ par[c[1]] = NoObject /\ c[Len(c)] = o
    /\ \A i \in 1..(Len(c) - 1) : par[c[i + 1]] = c[i]
ChainOf(par, o) == CHOOSE c \in Chains : ChainIn(par, c, o)

(* A sequence of objects that is a chain links its last one.               *)
LEMMA ChainLinks ==
    ASSUME NEW par, NEW o, NEW c \in Chains
    PROVE  ChainIn(par, c, o) <=> Linked(par, c, Len(c), o)
<1>1. PICK n \in Nat : c \in [1..n -> Objects]
  <2>1. Cardinality(Objects) \in Nat
    BY ObjectNamesAssumption, FS_CardinalityType
  <2> QED
    BY <2>1 DEF Chains, SeqOf
<1>2. c \in Seq(Objects) /\ Len(c) = n
  BY <1>1
<1>3. c # <<>> <=> n # 0
  BY <1>2, EmptySeq
<1>4. Linked(par, c, n, o) <=>
        (/\ c # <<>> /\ par[c[1]] = NoObject /\ c[n] = o
         /\ \A i \in 1..(n - 1) : par[c[i + 1]] = c[i])
  BY <1>1, <1>3 DEF Linked
<1> QED
  BY <1>2, <1>4, Zenon DEF ChainIn

(* The chain that links an object is the one ChainOf means.                *)
LEMMA ChainOfIs ==
    ASSUME NEW par \in Parents, NEW o, NEW c, NEW n, Linked(par, c, n, o)
    PROVE  c \in Chains /\ Len(c) = n /\ ChainOf(par, o) = c
<1>1. c \in Chains
  BY LinkBound
<1>2. Len(c) = n /\ n \in Nat
  BY DEF Linked
<1>3. Linked(par, c, Len(c), o)
  BY <1>2, Zenon
<1>4. ChainIn(par, c, o)
  BY <1>1, <1>3, ChainLinks
<1>5. ASSUME NEW d \in Chains, ChainIn(par, d, o) PROVE d = c
  <2>1. Linked(par, d, Len(d), o)
    BY <1>5, ChainLinks
  <2> QED
    BY <2>1, LinkUnique
<1> QED
  BY <1>1, <1>2, <1>4, <1>5 DEF ChainOf

-----------------------------------------------------------------------------
(* A list in which every object of a set is once.                          *)
Once(s, n, S) ==
    /\ n \in Nat /\ s \in [1..n -> Objects] /\ S = {s[i] : i \in 1..n}
    /\ \A i, j \in 1..n : s[i] = s[j] => i = j

(* Such a list is an injective sequence whose range is that set.           *)
LEMMA OnceIs ==
    ASSUME NEW s, NEW S
    PROVE  (s \in Seq(Objects) /\ IsInjective(s) /\ Range(s) = S) <=>
           \E n : Once(s, n, S)
<1>1. ASSUME s \in Seq(Objects), IsInjective(s), Range(s) = S
      PROVE  \E n : Once(s, n, S)
  <2>1. PICK n \in Nat : s \in [1..n -> Objects]
    BY <1>1, SeqDef
  <2>2. DOMAIN s = 1..n
    BY <2>1
  <2>3. Once(s, n, S)
    BY <1>1, <2>1, <2>2 DEF Once, IsInjective, Range
  <2> QED
    BY <2>3
<1>2. ASSUME NEW n, Once(s, n, S)
      PROVE  s \in Seq(Objects) /\ IsInjective(s) /\ Range(s) = S
  <2>1. n \in Nat /\ s \in [1..n -> Objects]
    BY <1>2 DEF Once
  <2>2. DOMAIN s = 1..n
    BY <2>1
  <2>3. IsInjective(s) /\ Range(s) = S
    BY <1>2, <2>2 DEF Once, IsInjective, Range
  <2>4. s \in Seq(Objects)
    BY <2>1, SeqDef
  <2> QED
    BY <2>3, <2>4
<1> QED
  BY <1>1, <1>2

(* Where an object is found in such a list.                                *)
LEMMA FoundOnce ==
    ASSUME NEW s, NEW n, NEW S, Once(s, n, S), NEW k \in 1..n
    PROVE  /\ Len(s) = n /\ s \in Seq(Objects)
           /\ {i \in 1..Len(s) : s[i] = s[k]} # {}
           /\ Min({i \in 1..Len(s) : s[i] = s[k]}) = k
<1>1. n \in Nat /\ s \in [1..n -> Objects]
  BY DEF Once
<1>2. Len(s) = n /\ s \in Seq(Objects)
  BY <1>1
<1>3. {i \in 1..Len(s) : s[i] = s[k]} = {k}
  BY <1>2 DEF Once
<1>4. Min({k}) = k
  <2>1. \A y \in {k} : k =< y
    BY <1>1
  <2> QED
    BY <2>1 DEF Min
<1> QED
  BY <1>2, <1>3, <1>4

(* Taking an object out of the list.                                       *)
LEMMA RemovedOnce ==
    ASSUME NEW s, NEW n, NEW S, Once(s, n, S), NEW o
    PROVE  \E m : Once(RemoveFirst(s, o), m, S \ {o})
<1>1. n \in Nat /\ s \in [1..n -> Objects]
  BY DEF Once
<1>2. Len(s) = n /\ s \in Seq(Objects)
  BY <1>1
<1>3. CASE ~ \E i \in 1..n : s[i] = o
  <2>1. RemoveFirst(s, o) = s
    BY <1>2, <1>3 DEF RemoveFirst
  <2>2. S \ {o} = S
    BY <1>3 DEF Once
  <2> QED
    BY <2>1, <2>2
<1>4. CASE \E i \in 1..n : s[i] = o
  <2>1. PICK k \in 1..n : s[k] = o
    BY <1>4
  <2>2. /\ {i \in 1..Len(s) : s[i] = o} # {}
        /\ Min({i \in 1..Len(s) : s[i] = o}) = k
    BY <2>1, FoundOnce
  <2>3. RemoveFirst(s, o) = RemoveAt(s, Min({i \in 1..Len(s) : s[i] = o}))
    BY <1>2, <2>1, <2>2 DEF RemoveFirst, SelectInSeq
  <2>4. RemoveFirst(s, o) = RemoveAt(s, k)
    BY <2>2, <2>3
  <2> DEFINE u == SubSeq(s, 1, k - 1)
             v == SubSeq(s, k + 1, n)
             t == u \o v
  <2>5. RemoveFirst(s, o) = t
    BY <1>2, <2>4 DEF RemoveAt
  <2>6. /\ u \in Seq(Objects) /\ Len(u) = k - 1
        /\ \A i \in 1..(k - 1) : u[i] = s[i]
    <3>1. \A i \in 1..(k - 1) : s[i] \in Objects
      BY <1>1
    <3>2. /\ SubSeq(s, 1, k - 1) \in Seq(Objects)
          /\ Len(SubSeq(s, 1, k - 1)) =
                IF 1 <= k - 1 THEN (k - 1) - 1 + 1 ELSE 0
          /\ \A i \in 1..((k - 1) - 1 + 1) :
                SubSeq(s, 1, k - 1)[i] = s[1 + i - 1]
      BY <1>2, <3>1, SubSeqProperties
    <3> QED
      BY <3>2
  <2>7. /\ v \in Seq(Objects) /\ Len(v) = n - k
        /\ \A i \in 1..(n - k) : v[i] = s[k + i]
    <3>1. \A i \in (k + 1)..n : s[i] \in Objects
      BY <1>1
    <3>2. /\ SubSeq(s, k + 1, n) \in Seq(Objects)
          /\ Len(SubSeq(s, k + 1, n)) =
                IF k + 1 <= n THEN n - (k + 1) + 1 ELSE 0
          /\ \A i \in 1..(n - (k + 1) + 1) :
                SubSeq(s, k + 1, n)[i] = s[k + 1 + i - 1]
      BY <1>1, <1>2, <3>1, SubSeqProperties
    <3>3. \A i \in 1..(n - k) : i \in 1..(n - (k + 1) + 1)
                                /\ k + 1 + i - 1 = k + i
      BY <1>1
    <3>4. Len(v) = n - k
      BY <1>1, <3>2
    <3> QED
      BY <3>2, <3>3, <3>4
  <2> HIDE DEF u, v
  <2>8. /\ t \in Seq(Objects) /\ Len(t) = n - 1
        /\ \A i \in 1..(n - 1) : t[i] = IF i < k THEN s[i] ELSE s[i + 1]
    <3>1. /\ t \in Seq(Objects) /\ Len(t) = Len(u) + Len(v)
          /\ \A i \in 1..(Len(u) + Len(v)) :
                t[i] = IF i <= Len(u) THEN u[i] ELSE v[i - Len(u)]
      BY <2>6, <2>7, ConcatProperties
    <3>2. Len(u) + Len(v) = n - 1
      BY <1>1, <2>6, <2>7
    <3>3. ASSUME NEW i \in 1..(n - 1)
          PROVE  t[i] = IF i < k THEN s[i] ELSE s[i + 1]
      <4>1. t[i] = IF i <= k - 1 THEN u[i] ELSE v[i - (k - 1)]
        BY <2>6, <3>1, <3>2
      <4>2. CASE i < k
        BY <2>6, <4>1, <4>2
      <4>3. CASE ~(i < k)
        <5>1. i - (k - 1) \in 1..(n - k) /\ k + (i - (k - 1)) = i + 1
          BY <1>1, <4>3
        <5> QED
          BY <2>7, <4>1, <4>3, <5>1
      <4> QED
        BY <4>2, <4>3
    <3> QED
      BY <3>1, <3>2, <3>3
  <2> HIDE DEF t
  <2>9. n - 1 \in Nat /\ t \in [1..(n - 1) -> Objects]
    BY <1>1, <2>8
  <2>10. \A i, j \in 1..(n - 1) : t[i] = t[j] => i = j
    <3> SUFFICES ASSUME NEW i \in 1..(n - 1), NEW j \in 1..(n - 1), t[i] = t[j]
                 PROVE  i = j
      OBVIOUS
    <3>1. i \in 1..n /\ i + 1 \in 1..n /\ j \in 1..n /\ j + 1 \in 1..n
      BY <1>1
    <3> QED
      BY <1>1, <2>8, <3>1 DEF Once
  <2>11. S \ {o} = {t[i] : i \in 1..(n - 1)}
    <3>1. ASSUME NEW x \in S, x # o PROVE \E i \in 1..(n - 1) : x = t[i]
      <4>1. PICK i \in 1..n : x = s[i]
        BY DEF Once
      <4>2. i # k
        BY <2>1, <3>1, <4>1
      <4>3. CASE i < k
        <5>1. i \in 1..(n - 1)
          BY <1>1, <4>3
        <5> QED
          BY <2>8, <4>1, <4>3, <5>1
      <4>4. CASE ~(i < k)
        <5>1. i - 1 \in 1..(n - 1) /\ ~(i - 1 < k) /\ (i - 1) + 1 = i
          BY <1>1, <4>2, <4>4
        <5> QED
          BY <2>8, <4>1, <5>1
      <4> QED
        BY <4>3, <4>4
    <3>2. ASSUME NEW i \in 1..(n - 1) PROVE t[i] \in S /\ t[i] # o
      <4>1. i \in 1..n /\ i + 1 \in 1..n
        BY <1>1
      <4>2. s[i] \in S /\ s[i + 1] \in S
        BY <4>1 DEF Once
      <4>3. (s[i] = o => i = k) /\ (s[i + 1] = o => i + 1 = k)
        BY <2>1, <4>1 DEF Once
      <4> QED
        BY <2>8, <4>2, <4>3
    <3> QED
      BY <3>1, <3>2
  <2>12. Once(t, n - 1, S \ {o})
    BY <2>9, <2>10, <2>11 DEF Once
  <2> QED
    BY <2>5, <2>12
<1> QED
  BY <1>3, <1>4

(* Putting an object at the end of the list.                               *)
LEMMA AppendedOnce ==
    ASSUME NEW s, NEW n, NEW S, Once(s, n, S), NEW o \in Objects, o \notin S
    PROVE  /\ Once(Append(s, o), n + 1, S \cup {o})
           /\ \A i \in 1..n : Append(s, o)[i] = s[i]
<1>1. n \in Nat /\ s \in [1..n -> Objects]
  BY DEF Once
<1>2. Len(s) = n /\ s \in Seq(Objects)
  BY <1>1
<1> DEFINE t == Append(s, o)
<1>3. /\ t \in Seq(Objects) /\ Len(t) = n + 1 /\ t[n + 1] = o
      /\ \A i \in 1..n : t[i] = s[i]
  BY <1>2, AppendProperties
<1> HIDE DEF t
<1>4. t \in [1..(n + 1) -> Objects]
  BY <1>1, <1>3
<1>5. \A i \in 1..n : s[i] # o
  BY DEF Once
<1>6. \A i \in 1..(n + 1) : i \in 1..n \/ i = n + 1
  BY <1>1
<1>7. \A i, j \in 1..(n + 1) : t[i] = t[j] => i = j
  BY <1>3, <1>5, <1>6 DEF Once
<1>8. S \cup {o} = {t[i] : i \in 1..(n + 1)}
  <2>1. \A i \in 1..n : i \in 1..(n + 1)
    BY <1>1
  <2>2. n + 1 \in 1..(n + 1)
    BY <1>1
  <2> QED
    BY <1>3, <1>6, <2>1, <2>2 DEF Once
<1>9. n + 1 \in Nat
  BY <1>1
<1>10. Once(t, n + 1, S \cup {o})
  BY <1>4, <1>7, <1>8, <1>9 DEF Once
<1> QED
  BY <1>3, <1>10 DEF t

-----------------------------------------------------------------------------
(* What the model computes from the tree, of a tree given by its classes,  *)
(* names, parents and children, so that it can be said of the tree before  *)
(* and after a step.                                                       *)
UpToIn(s, o) ==
    SubSeq(s, 1, IF {i \in 1..Len(s) : s[i] = o} # {}
                 THEN Min({i \in 1..Len(s) : s[i] = o}) ELSE 0)
IndexIn(cl, u, o) == Cardinality({i \in DOMAIN u : cl[u[i]] = cl[o]})
RawIn(cl, na, pa, ch, o) ==
    IF na[o] # <<>> THEN na[o]
    ELSE ClassName(cl[o]) \o
            <<"-", ToString(IF pa[o] = NoObject THEN 0
                            ELSE IndexIn(cl, UpToIn(ch[pa[o]], o), o))>>
PathAlong(c, cl, na, pa, ch) ==
    Join([i \in DOMAIN c |-> Escaped(RawIn(cl, na, pa, ch, c[i]))], <<":", ":">>)

(* The names of the model are these.                                       *)
LEMMA RawIs ==
    ASSUME NEW o
    PROVE  /\ RawObjectName(o) = RawIn(class, name, parent, children, o)
           /\ RawObjectName(o)' = RawIn(class', name', parent', children', o)
<1>1. UpTo(o) = UpToIn(children[parent[o]], o)
  BY DEF UpTo, SelectInSeq, UpToIn
<1>2. UpTo(o)' = UpToIn(children'[parent'[o]], o)
  BY DEF UpTo, SelectInSeq, UpToIn
<1>3. Index(o) = IndexIn(class, UpTo(o), o)
  BY Zenon DEF Index, IndexIn
<1>4. Index(o)' = IndexIn(class', UpTo(o)', o)
  BY Zenon DEF Index, IndexIn
<1>5. RawObjectName(o) = RawIn(class, name, parent, children, o)
  BY <1>1, <1>3, Zenon DEF RawObjectName, RawIn
<1>6. RawObjectName(o)' = RawIn(class', name', parent', children', o)
  BY <1>2, <1>4, Zenon DEF RawObjectName, RawIn
<1> QED
  BY <1>5, <1>6

(* So are its chains.                                                      *)
LEMMA ChainIs ==
    ASSUME NEW o
    PROVE  Chain(o) = ChainOf(parent, o) /\ Chain(o)' = ChainOf(parent', o)
<1>1. Chain(o) = ChainOf(parent, o)
  BY Zenon DEF Chain, IsChain, ChainOf, ChainIn
<1>2. Chain(o)' = ChainOf(parent', o)
  BY Zenon DEF Chain, IsChain, ChainOf, ChainIn
<1> QED
  BY <1>1, <1>2

(* And its paths.                                                          *)
LEMMA PathIs ==
    ASSUME NEW o
    PROVE  /\ ObjectPath(o) =
                PathAlong(Chain(o), class, name, parent, children)
           /\ ObjectPath(o)' =
                PathAlong(Chain(o)', class', name', parent', children')
<1>1. \A x : ObjectName(x) = Escaped(RawIn(class, name, parent, children, x))
  BY RawIs, Zenon DEF ObjectName
<1>2. ObjectPath(o) = PathAlong(Chain(o), class, name, parent, children)
  BY <1>1, Zenon DEF ObjectPath, PathAlong
<1>3. ObjectPath(o)' =
        PathAlong(Chain(o)', class', name', parent', children')
  BY Zenon DEF ObjectPath, PathAlong, ObjectName, RawObjectName, RawIn, Index,
     UpTo, IndexIn, UpToIn, SelectInSeq
<1> QED
  BY <1>2, <1>3

(* The part of a list of siblings up to one of them.                       *)
LEMMA FrontIs ==
    ASSUME NEW s, NEW n, NEW S, Once(s, n, S), NEW k \in 1..n
    PROVE  UpToIn(s, s[k]) = [i \in 1..k |-> s[i]]
<1>1. n \in Nat /\ s \in [1..n -> Objects]
  BY DEF Once
<1>2. /\ s \in Seq(Objects)
      /\ {i \in 1..Len(s) : s[i] = s[k]} # {}
      /\ Min({i \in 1..Len(s) : s[i] = s[k]}) = k
  BY FoundOnce
<1>3. UpToIn(s, s[k]) = SubSeq(s, 1, k)
  BY <1>2, Zenon DEF UpToIn
<1>4. \A i \in 1..k : s[i] \in Objects
  BY <1>1
<1>5. k \in Int /\ 1 \in Int
  OBVIOUS
<1> DEFINE u == SubSeq(s, 1, k)
<1>6. /\ u \in Seq(Objects) /\ Len(u) = IF 1 <= k THEN k - 1 + 1 ELSE 0
      /\ \A i \in 1..(k - 1 + 1) : u[i] = s[1 + i - 1]
  BY <1>2, <1>4, <1>5, SubSeqProperties
<1> HIDE DEF u
<1>7. Len(u) = k /\ \A i \in 1..k : u[i] = s[i]
  BY <1>6
<1>8. u = [i \in 1..k |-> s[i]]
  BY <1>6, <1>7
<1> QED
  BY <1>3, <1>8 DEF u

-----------------------------------------------------------------------------
(* The invariant that induction needs: the tree has the shape that TypeOK  *)
(* asks for, of all objects; one that does not exist has no parent.        *)
AliveIn(cl) == {o \in Objects : cl[o] # "none"}
ChildrenIn(cl, pa, o) == {x \in AliveIn(cl) : pa[x] = o}
TreeIn(cl, na, pa, ch) ==
    /\ cl \in [Objects -> Classes \cup {"none"}]
    /\ na \in [Objects -> Names]
    /\ pa \in [Objects -> AliveIn(cl) \cup {NoObject}]
    /\ \A o \in Objects \ AliveIn(cl) : pa[o] = NoObject
    /\ \A o \in Objects : \E c \in Chains : ChainIn(pa, c, o)
    /\ ch \in [Objects -> Seq(Objects)]
    /\ \A o \in Objects : /\ IsInjective(ch[o])
                          /\ Range(ch[o]) = ChildrenIn(cl, pa, o)
Tree == TreeIn(class, name, parent, children)

(* A path that was recorded is still the path of its object, which exists. *)
Valid ==
    \/ recorded = Nothing
    \/ /\ recorded.object \in Alive
       /\ recorded.path = ObjectPath(recorded.object)
IInv == Tree /\ Valid

(* The same with chains and lists that are easier to build.                *)
Grown(cl, na, pa, ch) ==
    /\ cl \in [Objects -> Classes \cup {"none"}]
    /\ na \in [Objects -> Names]
    /\ pa \in [Objects -> AliveIn(cl) \cup {NoObject}]
    /\ \A o \in Objects \ AliveIn(cl) : pa[o] = NoObject
    /\ \A o \in Objects : HasChain(pa, o)
    /\ DOMAIN ch = Objects /\ ch = [o \in Objects |-> ch[o]]
    /\ \A o \in Objects : \E n : Once(ch[o], n, ChildrenIn(cl, pa, o))

(* Parents that exist are parents.                                         *)
LEMMA GrownParents ==
    ASSUME NEW cl, NEW pa, pa \in [Objects -> AliveIn(cl) \cup {NoObject}]
    PROVE  pa \in Parents
  BY DEF Parents, AliveIn

(* There is a chain when there is one of the lengths that are possible.    *)
LEMMA ChainExists ==
    ASSUME NEW pa \in Parents, NEW o
    PROVE  (\E c \in Chains : ChainIn(pa, c, o)) <=> HasChain(pa, o)
<1>1. ASSUME NEW c \in Chains, ChainIn(pa, c, o) PROVE HasChain(pa, o)
  BY <1>1, ChainLinks DEF HasChain
<1>2. ASSUME NEW c, NEW n, Linked(pa, c, n, o)
      PROVE  c \in Chains /\ ChainIn(pa, c, o)
  <2>1. c \in Chains /\ Len(c) = n
    BY <1>2, ChainOfIs
  <2>2. Linked(pa, c, Len(c), o)
    BY <1>2, <2>1, Zenon
  <2> QED
    BY <2>1, <2>2, ChainLinks
<1> QED
  BY <1>1, <1>2 DEF HasChain

(* The two forms say the same.                                             *)
LEMMA GrownIs ==
    ASSUME NEW cl, NEW na, NEW pa, NEW ch
    PROVE  TreeIn(cl, na, pa, ch) <=> Grown(cl, na, pa, ch)
<1>1. ASSUME TreeIn(cl, na, pa, ch) PROVE Grown(cl, na, pa, ch)
  <2>1. /\ cl \in [Objects -> Classes \cup {"none"}]
        /\ na \in [Objects -> Names]
        /\ pa \in [Objects -> AliveIn(cl) \cup {NoObject}]
        /\ \A o \in Objects \ AliveIn(cl) : pa[o] = NoObject
        /\ \A o \in Objects : \E c \in Chains : ChainIn(pa, c, o)
        /\ ch \in [Objects -> Seq(Objects)]
        /\ \A o \in Objects : /\ IsInjective(ch[o])
                              /\ Range(ch[o]) = ChildrenIn(cl, pa, o)
    BY <1>1 DEF TreeIn
  <2>2. \A o \in Objects : HasChain(pa, o)
    BY <2>1, GrownParents, ChainExists
  <2>3. DOMAIN ch = Objects /\ ch = [o \in Objects |-> ch[o]]
    BY <2>1
  <2>4. \A o \in Objects : \E n : Once(ch[o], n, ChildrenIn(cl, pa, o))
    BY <2>1, OnceIs
  <2> QED
    BY <2>1, <2>2, <2>3, <2>4 DEF Grown
<1>2. ASSUME Grown(cl, na, pa, ch) PROVE TreeIn(cl, na, pa, ch)
  <2>1. /\ cl \in [Objects -> Classes \cup {"none"}]
        /\ na \in [Objects -> Names]
        /\ pa \in [Objects -> AliveIn(cl) \cup {NoObject}]
        /\ \A o \in Objects \ AliveIn(cl) : pa[o] = NoObject
        /\ \A o \in Objects : HasChain(pa, o)
        /\ DOMAIN ch = Objects /\ ch = [o \in Objects |-> ch[o]]
        /\ \A o \in Objects : \E n : Once(ch[o], n, ChildrenIn(cl, pa, o))
    BY <1>2 DEF Grown
  <2>2. \A o \in Objects : \E c \in Chains : ChainIn(pa, c, o)
    BY <2>1, GrownParents, ChainExists
  <2>3. \A o \in Objects : /\ ch[o] \in Seq(Objects) /\ IsInjective(ch[o])
                           /\ Range(ch[o]) = ChildrenIn(cl, pa, o)
    BY <2>1, OnceIs
  <2>4. ch \in [Objects -> Seq(Objects)]
    BY <2>1, <2>3
  <2> QED
    BY <2>1, <2>2, <2>3, <2>4 DEF TreeIn
<1> QED
  BY <1>1, <1>2

(* A child that exists has a place in the list of its parent.              *)
LEMMA Placed ==
    ASSUME NEW cl, NEW na, NEW pa, NEW ch, Grown(cl, na, pa, ch),
           NEW o \in AliveIn(cl), pa[o] # NoObject
    PROVE  /\ pa[o] \in AliveIn(cl) /\ pa[o] \in Objects /\ o \in Objects
           /\ \E n, k : /\ Once(ch[pa[o]], n, ChildrenIn(cl, pa, pa[o]))
                        /\ n \in Nat /\ k \in 1..n /\ ch[pa[o]][k] = o
<1>1. o \in Objects /\ pa[o] \in AliveIn(cl) /\ pa[o] \in Objects
  BY DEF Grown, AliveIn
<1>2. PICK n : Once(ch[pa[o]], n, ChildrenIn(cl, pa, pa[o]))
  BY <1>1 DEF Grown
<1>3. o \in ChildrenIn(cl, pa, pa[o])
  BY DEF ChildrenIn
<1>4. n \in Nat /\ \E k \in 1..n : ch[pa[o]][k] = o
  BY <1>2, <1>3 DEF Once
<1> QED
  BY <1>1, <1>2, <1>4

(* An object that exists has a name to put in a path.                      *)
LEMMA RawType ==
    ASSUME NEW cl, NEW na, NEW pa, NEW ch, Grown(cl, na, pa, ch),
           NEW o \in AliveIn(cl)
    PROVE  RawIn(cl, na, pa, ch, o) \in Text /\ RawIn(cl, na, pa, ch, o) # <<>>
<1> DEFINE r == RawIn(cl, na, pa, ch, o)
<1>0. o \in Objects /\ na[o] \in Names /\ cl[o] \in Classes
  BY DEF Grown, AliveIn
<1>1. CASE na[o] # <<>>
  <2>1. r = na[o]
    BY <1>1, Zenon DEF RawIn
  <2>2. PICK t : t = na[o] /\ t \in Seq(STRING)
    BY <1>0, ObjectNamesAssumption
  <2>3. t \in Seq(Range(t))
    BY <2>2, SeqOfRange
  <2>4. Range(t) \subseteq Word
    BY <1>0, <2>2 DEF Word
  <2>5. t \in Seq(Word)
    BY <2>3, <2>4, SeqMonotonic
  <2>6. r = t /\ t # <<>> /\ t \in Text
    BY <1>1, <2>1, <2>2, <2>5, Zenon DEF Text
  <2> QED
    BY <2>6, Zenon
<1>2. CASE ~(na[o] # <<>>)
  <2> DEFINE u == UpToIn(ch[pa[o]], o)
             k == IF pa[o] = NoObject THEN 0 ELSE IndexIn(cl, u, o)
  <2>1. k \in Nat
    <3>1. CASE pa[o] = NoObject
      BY <3>1
    <3>2. CASE pa[o] # NoObject
      <4>1. PICK n, p : /\ Once(ch[pa[o]], n, ChildrenIn(cl, pa, pa[o]))
                        /\ n \in Nat /\ p \in 1..n /\ ch[pa[o]][p] = o
        BY <3>2, Placed
      <4>2. u = [i \in 1..p |-> ch[pa[o]][i]]
        BY <4>1, FrontIs
      <4>3. DOMAIN u = 1..p /\ p \in Int
        BY <4>1, <4>2
      <4>4. IsFiniteSet(1..p)
        BY <4>3, FS_Interval
      <4> DEFINE I == {i \in DOMAIN u : cl[u[i]] = cl[o]}
      <4>5. I \subseteq 1..p
        BY <4>3
      <4> HIDE DEF I, u
      <4>6. IsFiniteSet(I) /\ Cardinality(I) \in Nat
        BY <4>4, <4>5, FS_Subset, FS_CardinalityType
      <4>7. k = Cardinality(I)
        BY <3>2, Zenon DEF IndexIn, I
      <4> QED
        BY <4>6, <4>7
    <3> QED
      BY <3>1, <3>2
  <2>2. r = ClassName(cl[o]) \o <<"-", ToString(k)>>
    BY <1>2, Zenon DEF RawIn
  <2> HIDE DEF k
  <2>3. PICK w : w = ToString(k)
    OBVIOUS
  <2>4. "-" \in Word /\ w \in Word /\ cl[o] \in Word /\ "App" \in Word
        /\ ":" \in Word
    <3>1. "-" \in Word /\ cl[o] \in Word /\ "App" \in Word /\ ":" \in Word
      BY <1>0 DEF Word
    <3>2. w \in Numerals
      BY <2>1, <2>3, Zenon DEF Numerals
    <3>3. w \in Word
      BY <3>2 DEF Word
    <3> QED
      BY <3>1, <3>3
  <2>5. \A S : \A x, y, z, v \in S : /\ <<x>> \in Seq(S) /\ <<x, y>> \in Seq(S)
                                     /\ <<x, y, z, v>> \in Seq(S)
                                     /\ Len(<<x, y>>) = 2
    OBVIOUS
  <2>6. PICK v : v = ClassName(cl[o])
    OBVIOUS
  <2>7. v \in Seq(Word)
    BY <2>4, <2>5, <2>6 DEF ClassName
  <2>8. <<"-", w>> \in Seq(Word) /\ Len(<<"-", w>>) = 2
    BY <2>4, <2>5
  <2>9. PICK b : b = <<"-", w>>
    OBVIOUS
  <2>10. v \o b \in Seq(Word) /\ Len(v \o b) = Len(v) + Len(b)
    BY <2>7, <2>8, <2>9, ConcatProperties
  <2>11. Len(v) \in Nat /\ Len(b) = 2
    BY <2>7, <2>8, <2>9
  <2>12. Len(v \o b) > 0
    BY <2>10, <2>11
  <2>13. r = v \o b
    BY <2>2, <2>3, <2>6, <2>9, Zenon
  <2>14. r \in Seq(Word) /\ Len(r) > 0
    BY <2>10, <2>12, <2>13, Zenon
  <2> HIDE DEF r
  <2>15. r # <<>>
    BY <2>14, NotEmpty
  <2> QED
    BY <2>14, <2>15, Zenon DEF Text, r
<1> QED
  BY <1>1, <1>2

-----------------------------------------------------------------------------
(* What the steps do to a tree.                                            *)
MovedIn(ch, o, p) ==
    [q \in Objects |->
        IF q = p THEN Append(RemoveFirst(ch[q], o), o)
        ELSE RemoveFirst(ch[q], o)]

(* An object that becomes the last child of p, which may be its parent     *)
(* already, leaves a tree behind.                                          *)
LEMMA Attached ==
    ASSUME NEW cl, NEW na, NEW pa, NEW ch, Grown(cl, na, pa, ch),
           NEW o \in Objects, NEW p \in AliveIn(cl) \cup {NoObject},
           NEW ncl \in [Objects -> Classes \cup {"none"}],
           AliveIn(ncl) = AliveIn(cl) \cup {o},
           p # NoObject => HasChain([pa EXCEPT ![o] = p], p)
    PROVE  Grown(ncl, na, [pa EXCEPT ![o] = p], MovedIn(ch, o, p))
<1> DEFINE npa == [pa EXCEPT ![o] = p]
           nch == MovedIn(ch, o, p)
<1>1. /\ na \in [Objects -> Names]
      /\ pa \in [Objects -> AliveIn(cl) \cup {NoObject}]
      /\ \A x \in Objects \ AliveIn(cl) : pa[x] = NoObject
      /\ \A x \in Objects : HasChain(pa, x)
      /\ \A x \in Objects : \E n : Once(ch[x], n, ChildrenIn(cl, pa, x))
  BY DEF Grown
<1>2. /\ npa \in [Objects -> AliveIn(ncl) \cup {NoObject}]
      /\ npa[o] = p /\ \A x \in Objects : x # o => npa[x] = pa[x]
  BY <1>1
<1>3. \A x \in Objects \ AliveIn(ncl) : npa[x] = NoObject
  BY <1>1, <1>2
<1> HIDE DEF npa
<1>4. ASSUME NEW x \in Objects PROVE HasChain(npa, x)
  <2>1. \A y \in Objects : \/ npa[y] = pa[y] \/ npa[y] = NoObject
                           \/ HasChain(npa, npa[y])
    BY <1>2 DEF npa
  <2> QED
    BY <2>1, <1>1, ChainsKept
<1>5. DOMAIN nch = Objects /\ nch = [x \in Objects |-> nch[x]]
  BY DEF MovedIn
<1>6. ASSUME NEW q \in Objects
      PROVE  \E n : Once(nch[q], n, ChildrenIn(ncl, npa, q))
  <2>1. PICK n : Once(RemoveFirst(ch[q], o), n, ChildrenIn(cl, pa, q) \ {o})
    BY <1>1, RemovedOnce
  <2>2. CASE q = p
    <3>1. nch[q] = Append(RemoveFirst(ch[q], o), o)
      BY <2>2, Zenon DEF MovedIn
    <3>2. ChildrenIn(ncl, npa, q) = (ChildrenIn(cl, pa, q) \ {o}) \cup {o}
      BY <2>2, <1>2 DEF ChildrenIn, AliveIn
    <3>3. PICK s, S : s = RemoveFirst(ch[q], o)
                      /\ S = ChildrenIn(cl, pa, q) \ {o}
      OBVIOUS
    <3>4. Once(s, n, S) /\ o \notin S
      BY <2>1, <3>3
    <3>5. Once(Append(s, o), n + 1, S \cup {o})
      BY <3>4, AppendedOnce
    <3> QED
      BY <3>1, <3>2, <3>3, <3>5, Zenon
  <2>3. CASE q # p
    <3>1. nch[q] = RemoveFirst(ch[q], o)
      BY <2>3, Zenon DEF MovedIn
    <3>2. ChildrenIn(ncl, npa, q) = ChildrenIn(cl, pa, q) \ {o}
      BY <2>3, <1>2 DEF ChildrenIn, AliveIn
    <3> QED
      BY <3>1, <3>2, <2>1, Zenon
  <2> QED
    BY <2>2, <2>3
<1> HIDE DEF nch
<1>7. Grown(ncl, na, npa, nch)
  BY <1>1, <1>2, <1>3, <1>4, <1>5, <1>6 DEF Grown
<1> QED
  BY <1>7 DEF npa, nch

(* The ancestors of an object that exists exist.                           *)
LEMMA LinkAlive ==
    ASSUME NEW cl, NEW na, NEW pa, NEW ch, Grown(cl, na, pa, ch),
           NEW o \in AliveIn(cl), NEW c, NEW n, Linked(pa, c, n, o)
    PROVE  \A i \in 1..n : c[i] \in AliveIn(cl)
<1> SUFFICES ASSUME NEW i \in 1..n PROVE c[i] \in AliveIn(cl)
  OBVIOUS
<1>1. n \in Nat \ {0} /\ c \in [1..n -> Objects] /\ c[n] = o
  BY DEF Linked
<1>2. CASE i = n
  BY <1>1, <1>2
<1>3. CASE i # n
  <2>1. i \in 1..(n - 1) /\ i + 1 \in 1..n
    BY <1>1, <1>3
  <2>2. pa[c[i + 1]] = c[i] /\ c[i + 1] \in Objects /\ c[i] \in Objects
    BY <1>1, <2>1 DEF Linked
  <2>3. pa[c[i + 1]] \in AliveIn(cl) \cup {NoObject}
    BY <2>2 DEF Grown
  <2> QED
    BY <2>2, <2>3, ObjectNamesAssumption
<1> QED
  BY <1>2, <1>3

(* Whether an object is on the path of another.                            *)
LEMMA OnChain ==
    ASSUME NEW pa \in Parents, NEW x, NEW c, NEW n, Linked(pa, c, n, x), NEW o
    PROVE  Contains(ChainOf(pa, x), o) <=> \E i \in 1..n : c[i] = o
<1>1. ChainOf(pa, x) = c /\ Len(c) = n
  BY ChainOfIs
<1>2. Contains(c, o) <=> \E i \in 1..n : c[i] = o
  BY <1>1, Zenon DEF Contains
<1> QED
  BY <1>1, <1>2, Zenon

(* The objects that are destroyed with o.                                  *)
Gone(cl, pa, o) == {x \in AliveIn(cl) : Contains(ChainOf(pa, x), o)}

(* An object is destroyed with o when it is o or its parent is destroyed.  *)
LEMMA GoneIs ==
    ASSUME NEW cl, NEW na, NEW pa, NEW ch, Grown(cl, na, pa, ch),
           NEW o \in AliveIn(cl)
    PROVE  /\ o \in Gone(cl, pa, o)
           /\ \A x \in AliveIn(cl) : pa[x] # NoObject =>
                 (x \in Gone(cl, pa, o) <=> x = o \/ pa[x] \in Gone(cl, pa, o))
<1>0. pa \in Parents /\ AliveIn(cl) \subseteq Objects
  BY GrownParents DEF Grown, AliveIn
<1>1. o \in Gone(cl, pa, o)
  <2>1. PICK c, n : Linked(pa, c, n, o)
    BY <1>0 DEF Grown, HasChain
  <2>2. n \in 1..n /\ c[n] = o
    BY <2>1 DEF Linked
  <2> QED
    BY <1>0, <2>1, <2>2, OnChain DEF Gone
<1>2. ASSUME NEW x \in AliveIn(cl), pa[x] # NoObject
      PROVE  x \in Gone(cl, pa, o) <=> x = o \/ pa[x] \in Gone(cl, pa, o)
  <2>1. PICK p \in AliveIn(cl) : p = pa[x]
    BY <1>0, <1>2 DEF Grown
  <2>2. PICK c, n : Linked(pa, c, n, p)
    BY <1>0 DEF Grown, HasChain
  <2>3. PICK d : d = [i \in 1..(n + 1) |-> IF i = n + 1 THEN x ELSE c[i]]
    OBVIOUS
  <2>4. Linked(pa, d, n + 1, x)
    BY <1>0, <2>1, <2>2, <2>3, LinkChild
  <2>5. n \in Nat
    BY <2>2 DEF Linked
  <2>6. (\E i \in 1..(n + 1) : d[i] = o) <=> (x = o \/ \E i \in 1..n : c[i] = o)
    BY <2>3, <2>5
  <2>7. Contains(ChainOf(pa, x), o) <=> x = o \/ Contains(ChainOf(pa, p), o)
    BY <1>0, <2>2, <2>4, <2>6, OnChain
  <2> QED
    BY <2>1, <2>7 DEF Gone
<1> QED
  BY <1>1, <1>2

(* A destroyed object leaves a tree behind.                                *)
LEMMA Detached ==
    ASSUME NEW cl, NEW na, NEW pa, NEW ch, Grown(cl, na, pa, ch),
           NEW o \in AliveIn(cl), NEW G, G = Gone(cl, pa, o),
           NEW ncl, ncl = [x \in Objects |-> IF x \in G THEN "none" ELSE cl[x]],
           NEW nna, nna = [x \in Objects |-> IF x \in G THEN <<>> ELSE na[x]],
           NEW npa,
           npa = [x \in Objects |-> IF x \in G THEN NoObject ELSE pa[x]],
           NEW nch, nch = [x \in Objects |-> IF x \in G THEN <<>>
                                             ELSE RemoveFirst(ch[x], o)]
    PROVE  Grown(ncl, nna, npa, nch)
<1>1. /\ cl \in [Objects -> Classes \cup {"none"}]
      /\ na \in [Objects -> Names]
      /\ pa \in [Objects -> AliveIn(cl) \cup {NoObject}]
      /\ \A x \in Objects \ AliveIn(cl) : pa[x] = NoObject
      /\ \A x \in Objects : HasChain(pa, x)
      /\ \A x \in Objects : \E n : Once(ch[x], n, ChildrenIn(cl, pa, x))
  BY DEF Grown
<1>2. /\ o \in G /\ G \subseteq AliveIn(cl) /\ AliveIn(cl) \subseteq Objects
      /\ \A x \in AliveIn(cl) : pa[x] # NoObject =>
            (x \in G <=> x = o \/ pa[x] \in G)
  BY GoneIs DEF Gone, AliveIn
<1>3. AliveIn(ncl) = AliveIn(cl) \ G
  BY DEF AliveIn
<1>4. /\ ncl \in [Objects -> Classes \cup {"none"}]
      /\ nna \in [Objects -> Names]
  BY <1>1, ObjectNamesAssumption
<1>5. npa \in [Objects -> AliveIn(ncl) \cup {NoObject}]
  <2>1. ASSUME NEW x \in Objects PROVE npa[x] \in AliveIn(ncl) \cup {NoObject}
    <3>1. CASE x \in G
      BY <3>1
    <3>2. CASE x \notin G
      BY <3>2, <1>1, <1>2, <1>3
    <3> QED
      BY <3>1, <3>2
  <2> QED
    BY <2>1
<1>6. \A x \in Objects \ AliveIn(ncl) : npa[x] = NoObject
  BY <1>1, <1>3
<1>7. \A x \in Objects : HasChain(npa, x)
  BY <1>1, ChainsKept
<1>8. ASSUME NEW q \in Objects
      PROVE  \E n : Once(nch[q], n, ChildrenIn(ncl, npa, q))
  <2>1. CASE q \in G
    <3>1. ChildrenIn(ncl, npa, q) = {}
      BY <2>1, <1>2, <1>3, ObjectNamesAssumption DEF ChildrenIn
    <3>2. nch[q] = <<>>
      BY <2>1
    <3>3. <<>> \in [1..0 -> Objects] /\ {} = {<<>>[i] : i \in 1..0}
      OBVIOUS
    <3>4. Once(<<>>, 0, {})
      BY <3>3 DEF Once
    <3> QED
      BY <3>1, <3>2, <3>4, Zenon
  <2>2. CASE q \notin G
    <3>1. ChildrenIn(ncl, npa, q) = ChildrenIn(cl, pa, q) \ {o}
      BY <2>2, <1>2, <1>3, ObjectNamesAssumption DEF ChildrenIn
    <3>2. nch[q] = RemoveFirst(ch[q], o)
      BY <2>2, Zenon
    <3>3. \E n : Once(RemoveFirst(ch[q], o), n, ChildrenIn(cl, pa, q) \ {o})
      BY <1>1, RemovedOnce
    <3> QED
      BY <3>1, <3>2, <3>3, Zenon
  <2> QED
    BY <2>1, <2>2
<1>9. DOMAIN nch = Objects /\ nch = [x \in Objects |-> nch[x]]
  OBVIOUS
<1> QED
  BY <1>4, <1>5, <1>6, <1>7, <1>8, <1>9, Zenon DEF Grown

(* The number in a name.                                                   *)
NumberIn(cl, pa, ch, o) ==
    IF pa[o] = NoObject THEN 0 ELSE IndexIn(cl, UpToIn(ch[pa[o]], o), o)

(* Class, name and number are all that a name is made of.                  *)
LEMMA RawBy ==
    ASSUME NEW cl, NEW na, NEW pa, NEW ch, NEW ncl, NEW npa, NEW nch, NEW a,
           ncl[a] = cl[a], NumberIn(ncl, npa, nch, a) = NumberIn(cl, pa, ch, a)
    PROVE  RawIn(ncl, na, npa, nch, a) = RawIn(cl, na, pa, ch, a)
<1>1. RawIn(ncl, na, npa, nch, a) =
        IF na[a] # <<>> THEN na[a]
        ELSE ClassName(ncl[a]) \o <<"-", ToString(NumberIn(ncl, npa, nch, a))>>
  BY DEF RawIn, NumberIn
<1>2. RawIn(cl, na, pa, ch, a) =
        IF na[a] # <<>> THEN na[a]
        ELSE ClassName(cl[a]) \o <<"-", ToString(NumberIn(cl, pa, ch, a))>>
  BY DEF RawIn, NumberIn
<1>3. PICK k, u, v : /\ k = cl[a] /\ u = NumberIn(cl, pa, ch, a)
                     /\ v = ClassName(k) \o <<"-", ToString(u)>>
  OBVIOUS
<1>4. RawIn(ncl, na, npa, nch, a) = IF na[a] # <<>> THEN na[a] ELSE v
  BY <1>1, <1>3
<1>5. RawIn(cl, na, pa, ch, a) = IF na[a] # <<>> THEN na[a] ELSE v
  BY <1>2, <1>3
<1> QED
  BY <1>4, <1>5

(* A tree to which an object is added.                                     *)
Added(cl, na, pa, ch, ncl, npa, nch, o, p, k) ==
    /\ Grown(cl, na, pa, ch) /\ Grown(ncl, na, npa, nch)
    /\ o \in Objects \ AliveIn(cl) /\ p \in AliveIn(cl) \cup {NoObject}
    /\ ncl = [cl EXCEPT ![o] = k]
    /\ npa = [pa EXCEPT ![o] = p]
    /\ nch = MovedIn(ch, o, p)

(* A new object changes the name of no other: it is behind all its         *)
(* siblings.                                                               *)
LEMMA NamesKept ==
    ASSUME NEW cl, NEW na, NEW pa, NEW ch,
           NEW ncl, NEW npa, NEW nch, NEW o, NEW p, NEW k,
           Added(cl, na, pa, ch, ncl, npa, nch, o, p, k), NEW a \in AliveIn(cl)
    PROVE  RawIn(ncl, na, npa, nch, a) = RawIn(cl, na, pa, ch, a)
<1>0. /\ Grown(cl, na, pa, ch) /\ Grown(ncl, na, npa, nch)
      /\ o \in Objects \ AliveIn(cl) /\ p \in AliveIn(cl) \cup {NoObject}
      /\ ncl = [cl EXCEPT ![o] = k]
      /\ npa = [pa EXCEPT ![o] = p]
      /\ nch = MovedIn(ch, o, p)
  BY DEF Added
<1> USE <1>0
<1>1. /\ a \in Objects /\ a # o
      /\ cl \in [Objects -> Classes \cup {"none"}]
      /\ pa \in [Objects -> AliveIn(cl) \cup {NoObject}]
  BY DEF Grown, AliveIn
<1>2. npa[a] = pa[a] /\ \A x \in Objects \ {o} : ncl[x] = cl[x]
  BY <1>1
<1>3. ASSUME pa[a] # NoObject
      PROVE  IndexIn(ncl, UpToIn(nch[pa[a]], a), a) =
             IndexIn(cl, UpToIn(ch[pa[a]], a), a)
  <2>1. PICK q \in Objects : q = pa[a]
    BY <1>3, Placed
  <2>2. PICK n, j : /\ Once(ch[q], n, ChildrenIn(cl, pa, q))
                    /\ n \in Nat /\ j \in 1..n /\ ch[q][j] = a
    BY <1>3, <2>1, Placed
  <2>3. PICK m : Once(nch[q], m, ChildrenIn(ncl, npa, q)) /\ m \in Nat
    BY DEF Grown, Once
  <2>4. o \notin ChildrenIn(cl, pa, q)
    BY DEF ChildrenIn
  <2>5. RemoveFirst(ch[q], o) = ch[q]
    <3>1. \A i \in 1..n : ch[q][i] # o
      BY <2>2, <2>4 DEF Once
    <3>2. Len(ch[q]) = n
      BY <2>2 DEF Once
    <3>3. ~ \E i \in 1..Len(ch[q]) : ch[q][i] = o
      BY <3>1, <3>2, Zenon
    <3> QED
      BY <3>3, Zenon DEF RemoveFirst
  <2>6. nch[q] = ch[q] \/ nch[q] = Append(ch[q], o)
    <3>1. nch[q] = IF q = p THEN Append(RemoveFirst(ch[q], o), o)
                   ELSE RemoveFirst(ch[q], o)
      BY Zenon DEF MovedIn
    <3> QED
      BY <3>1, <2>5, Zenon
  <2>7. /\ m = n \/ m = n + 1
        /\ \A i \in 1..n : nch[q][i] = ch[q][i]
    <3>1. CASE nch[q] = ch[q]
      <4>1. DOMAIN ch[q] = 1..n /\ DOMAIN nch[q] = 1..m
        BY <2>2, <2>3 DEF Once
      <4>2. 1..n = 1..m
        BY <3>1, <4>1, Zenon
      <4>3. n = m
        BY <4>2, <2>2, <2>3
      <4> QED
        BY <3>1, <4>3
    <3>2. CASE nch[q] = Append(ch[q], o)
      <4>1. PICK s, S : s = ch[q] /\ S = ChildrenIn(cl, pa, q)
        OBVIOUS
      <4>2. Once(s, n, S) /\ o \notin S
        BY <4>1, <2>2, <2>4, Zenon
      <4>3. /\ Once(Append(s, o), n + 1, S \cup {o})
            /\ \A i \in 1..n : Append(s, o)[i] = s[i]
        BY <4>2, AppendedOnce
      <4>4. nch[q] = Append(s, o)
        BY <3>2, <4>1, Zenon
      <4>5. DOMAIN nch[q] = 1..(n + 1) /\ DOMAIN nch[q] = 1..m
        BY <2>3, <4>3, <4>4 DEF Once
      <4>6. 1..(n + 1) = 1..m
        BY <4>5, Zenon
      <4>7. m = n + 1
        BY <4>6, <2>2, <2>3
      <4>8. \A i \in 1..n : nch[q][i] = ch[q][i]
        BY <4>1, <4>3, <4>4, Zenon
      <4> QED
        BY <4>7, <4>8
    <3> QED
      BY <2>6, <3>1, <3>2
  <2>8. j \in 1..m /\ nch[q][j] = a
    BY <2>2, <2>3, <2>7
  <2> DEFINE u == [i \in 1..j |-> ch[q][i]]
  <2>9. UpToIn(ch[q], a) = u
    BY <2>2, FrontIs
  <2>10. UpToIn(nch[q], a) = [i \in 1..j |-> nch[q][i]]
    BY <2>3, <2>8, FrontIs
  <2>11. \A i \in 1..j : i \in 1..n
    BY <2>2
  <2>12. UpToIn(nch[q], a) = u
    BY <2>7, <2>10, <2>11
  <2>13. DOMAIN u = 1..j /\ \A i \in 1..j : u[i] \in Objects \ {o}
    BY <2>2, <2>4, <2>11 DEF Once
  <2> HIDE DEF u
  <2>14. {i \in DOMAIN u : ncl[u[i]] = ncl[a]} =
         {i \in DOMAIN u : cl[u[i]] = cl[a]}
    BY <1>1, <1>2, <2>13
  <2>15. IndexIn(ncl, u, a) = IndexIn(cl, u, a)
    BY <2>14, Zenon DEF IndexIn
  <2> QED
    BY <2>1, <2>9, <2>12, <2>15, Zenon
<1>4. ncl[a] = cl[a]
  BY <1>1, <1>2
<1>5. NumberIn(ncl, npa, nch, a) = NumberIn(cl, pa, ch, a)
  <2>1. CASE pa[a] = NoObject
    BY <2>1, <1>2, Zenon DEF NumberIn
  <2>2. CASE pa[a] # NoObject
    BY <2>2, <1>2, <1>3, Zenon DEF NumberIn
  <2> QED
    BY <2>1, <2>2
<1> HIDE <1>0
<1> QED
  BY <1>4, <1>5, RawBy

(* A path is the same as long as its objects keep their parents and names. *)
LEMMA PathKept ==
    ASSUME NEW cl, NEW na, NEW pa \in Parents, NEW ch,
           NEW ncl, NEW nna, NEW npa \in Parents, NEW nch,
           NEW r, NEW c, NEW n, Linked(pa, c, n, r),
           \A i \in 1..n :
              /\ npa[c[i]] = pa[c[i]]
              /\ RawIn(ncl, nna, npa, nch, c[i]) = RawIn(cl, na, pa, ch, c[i])
    PROVE  PathAlong(ChainOf(npa, r), ncl, nna, npa, nch) =
           PathAlong(ChainOf(pa, r), cl, na, pa, ch)
<1>1. Linked(npa, c, n, r)
  BY LinkKept
<1>2. ChainOf(pa, r) = c /\ ChainOf(npa, r) = c
  BY <1>1, ChainOfIs
<1>3. DOMAIN c = 1..n
  BY DEF Linked
<1>4. [i \in DOMAIN c |-> Escaped(RawIn(ncl, nna, npa, nch, c[i]))] =
      [i \in DOMAIN c |-> Escaped(RawIn(cl, na, pa, ch, c[i]))]
  BY <1>3
<1> QED
  BY <1>2, <1>4, Zenon DEF PathAlong

(* The tree of the model, before and after a step.                         *)
LEMMA TreeIs ==
    /\ Tree <=> Grown(class, name, parent, children)
    /\ Tree' <=> Grown(class', name', parent', children')
    /\ Alive = AliveIn(class) /\ Alive' = AliveIn(class')
<1>1. Tree <=> Grown(class, name, parent, children)
  BY GrownIs DEF Tree
<1>2. Tree' <=> TreeIn(class', name', parent', children')
  BY Zenon DEF Tree, TreeIn, AliveIn, ChildrenIn, ChainIn
<1>3. TreeIn(class', name', parent', children') <=>
      Grown(class', name', parent', children')
  BY GrownIs
<1>4. Alive = AliveIn(class) /\ Alive' = AliveIn(class')
  BY DEF Alive, AliveIn
<1> QED
  BY <1>1, <1>2, <1>3, <1>4

(* What is recorded, before and after a step.                              *)
LEMMA ValidIs ==
    /\ Valid <=> \/ recorded = Nothing
                 \/ \E r : /\ r = recorded.object /\ r \in Alive
                           /\ recorded.path = ObjectPath(r)
    /\ Valid' <=> \/ recorded' = Nothing
                  \/ \E r : /\ r = recorded'.object /\ r \in Alive'
                            /\ recorded'.path = ObjectPath(r)'
  BY DEF Valid, Nothing

-----------------------------------------------------------------------------
(* Initially there is no object and nothing is recorded.                   *)
LEMMA InitIInv == Init => IInv
<1> SUFFICES ASSUME Init PROVE IInv
  OBVIOUS
<1>1. /\ class = [o \in Objects |-> "none"]
      /\ name = [o \in Objects |-> <<>>]
      /\ parent = [o \in Objects |-> NoObject]
      /\ children = [o \in Objects |-> <<>>]
      /\ recorded = Nothing
  BY DEF Init
<1>2. AliveIn(class) = {}
  BY <1>1 DEF AliveIn
<1>3. \A o \in Objects : HasChain(parent, o)
  BY <1>1, LinkRoot
<1>4. \A o \in Objects : \E n : Once(children[o], n, ChildrenIn(class, parent, o))
  <2>1. <<>> \in [1..0 -> Objects] /\ {} = {<<>>[i] : i \in 1..0}
    OBVIOUS
  <2>2. Once(<<>>, 0, {})
    BY <2>1 DEF Once
  <2>3. \A o \in Objects : children[o] = <<>> /\ ChildrenIn(class, parent, o) = {}
    BY <1>1, <1>2 DEF ChildrenIn
  <2> QED
    BY <2>2, <2>3, Zenon
<1>5. /\ class \in [Objects -> Classes \cup {"none"}]
      /\ name \in [Objects -> Names]
      /\ parent \in [Objects -> AliveIn(class) \cup {NoObject}]
      /\ \A o \in Objects : parent[o] = NoObject
      /\ DOMAIN children = Objects
      /\ children = [o \in Objects |-> children[o]]
  BY <1>1, ObjectNamesAssumption
<1>6. Tree
  BY <1>3, <1>4, <1>5, TreeIs DEF Grown
<1> QED
  BY <1>1, <1>6 DEF IInv, Valid

(* A created object is the last child of its parent.                       *)
LEMMA CreateIInv ==
    ASSUME IInv, NEW o \in Objects, NEW p \in Objects \cup {NoObject},
           NEW k \in Classes, Create(o, p, k)
    PROVE  IInv'
<1>1. /\ Grown(class, name, parent, children)
      /\ Alive = AliveIn(class) /\ Alive' = AliveIn(class')
  BY TreeIs DEF IInv
<1>2. /\ o \in Objects \ AliveIn(class) /\ p \in AliveIn(class) \cup {NoObject}
      /\ class' = [class EXCEPT ![o] = k]
      /\ parent' = [parent EXCEPT ![o] = p]
      /\ children' = MovedIn(children, o, p)
      /\ name' = name /\ recorded' = recorded
  BY <1>1 DEF Create, Moved, MovedIn
<1>3. /\ class \in [Objects -> Classes \cup {"none"}]
      /\ parent \in [Objects -> AliveIn(class) \cup {NoObject}]
      /\ parent \in Parents
  BY <1>1, GrownParents DEF Grown
<1>4. /\ class' \in [Objects -> Classes \cup {"none"}]
      /\ AliveIn(class') = AliveIn(class) \cup {o}
  BY <1>2, <1>3 DEF AliveIn, Classes
<1>5. ASSUME NEW x \in AliveIn(class), NEW c, NEW n, Linked(parent, c, n, x)
      PROVE  \A i \in 1..n : /\ c[i] \in AliveIn(class) /\ c[i] # o
                             /\ parent'[c[i]] = parent[c[i]]
  <2>1. \A i \in 1..n : c[i] \in AliveIn(class)
    BY <1>1, <1>5, LinkAlive
  <2> QED
    BY <2>1, <1>2, <1>3 DEF AliveIn
<1>6. p # NoObject => HasChain(parent', p)
  <2> SUFFICES ASSUME p # NoObject PROVE HasChain(parent', p)
    OBVIOUS
  <2>1. p \in AliveIn(class) /\ p \in Objects
    BY <1>2
  <2>2. PICK c, n : Linked(parent, c, n, p)
    BY <1>1, <2>1 DEF Grown, HasChain
  <2>3. Linked(parent', c, n, p)
    BY <1>5, <2>1, <2>2, LinkKept
  <2> QED
    BY <2>3 DEF HasChain
<1>7. Grown(class', name', parent', children')
  <2>1. Grown(class', name, [parent EXCEPT ![o] = p], MovedIn(children, o, p))
    BY <1>1, <1>2, <1>4, <1>6, Attached
  <2> QED
    BY <2>1, <1>2, Zenon
<1>8. Valid'
  <2> SUFFICES ASSUME recorded' # Nothing
               PROVE  \E r : /\ r = recorded'.object /\ r \in Alive'
                             /\ recorded'.path = ObjectPath(r)'
    BY ValidIs
  <2>1. PICK r : /\ r = recorded.object /\ r \in Alive
                 /\ recorded.path = ObjectPath(r)
    BY <1>2, ValidIs DEF IInv
  <2>2. r \in AliveIn(class) /\ r \in Objects /\ r \in Alive'
    BY <1>1, <1>4, <2>1 DEF AliveIn
  <2>3. PICK c, n : Linked(parent, c, n, r)
    BY <1>1, <2>2 DEF Grown, HasChain
  <2>4. \A i \in 1..n : /\ c[i] \in AliveIn(class)
                        /\ parent'[c[i]] = parent[c[i]]
    BY <1>5, <2>2, <2>3
  <2>5. ASSUME NEW a \in AliveIn(class)
        PROVE  RawIn(class', name', parent', children', a) =
               RawIn(class, name, parent, children, a)
    <3>1. Grown(class', name, parent', children')
      BY <1>2, <1>7, Zenon
    <3>2. Added(class, name, parent, children,
                class', parent', children', o, p, k)
      BY <1>1, <1>2, <3>1, Zenon DEF Added
    <3>3. RawIn(class', name, parent', children', a) =
          RawIn(class, name, parent, children, a)
      BY <3>2, NamesKept
    <3> QED
      BY <1>2, <3>3, Zenon
  <2>6. parent' \in Parents
    BY <1>7, GrownParents DEF Grown
  <2>7. PathAlong(ChainOf(parent', r), class', name', parent', children') =
        PathAlong(ChainOf(parent, r), class, name, parent, children)
    BY <1>3, <2>3, <2>4, <2>5, <2>6, PathKept
  <2>8. ObjectPath(r)' = ObjectPath(r)
    BY <2>7, PathIs, ChainIs, Zenon
  <2> QED
    BY <1>2, <2>1, <2>2, <2>8
<1> QED
  BY <1>7, <1>8, TreeIs DEF IInv

(* A renamed object does not move, and what is recorded is not below it.   *)
LEMMA SetObjectNameIInv ==
    ASSUME IInv, NEW o \in Objects, NEW t \in Names, SetObjectName(o, t)
    PROVE  IInv'
<1>1. /\ Grown(class, name, parent, children)
      /\ Alive = AliveIn(class) /\ Alive' = AliveIn(class')
  BY TreeIs DEF IInv
<1>2. /\ name' = [name EXCEPT ![o] = t]
      /\ class' = class /\ parent' = parent /\ children' = children
      /\ recorded' = IF /\ recorded # Nothing
                        /\ Contains(Chain(recorded.object), o)
                     THEN Nothing ELSE recorded
  BY DEF SetObjectName
<1>3. name \in [Objects -> Names] /\ parent \in Parents
  BY <1>1, GrownParents DEF Grown
<1>4. name' \in [Objects -> Names] /\ \A x \in Objects : x # o => name'[x] = name[x]
  BY <1>2, <1>3
<1>5. Grown(class', name', parent', children')
  <2>1. Grown(class, name', parent, children)
    BY <1>1, <1>4 DEF Grown
  <2> QED
    BY <2>1, <1>2, Zenon
<1>6. Valid'
  <2> SUFFICES ASSUME recorded' # Nothing
               PROVE  \E r : /\ r = recorded'.object /\ r \in Alive'
                             /\ recorded'.path = ObjectPath(r)'
    BY ValidIs
  <2>1. recorded' = recorded /\ recorded # Nothing
        /\ ~Contains(Chain(recorded.object), o)
    BY <1>2
  <2>2. PICK r : /\ r = recorded.object /\ r \in Alive
                 /\ recorded.path = ObjectPath(r)
    BY <2>1, ValidIs DEF IInv
  <2>3. r \in Objects /\ r \in Alive'
    BY <1>1, <1>2, <2>2 DEF AliveIn
  <2>4. PICK c, n : Linked(parent, c, n, r)
    BY <1>1, <2>3 DEF Grown, HasChain
  <2>5. ~Contains(ChainOf(parent, r), o)
    BY <2>1, <2>2, ChainIs, Zenon
  <2>6. \A i \in 1..n : c[i] \in Objects /\ c[i] # o
    <3>1. ~ \E i \in 1..n : c[i] = o
      BY <1>3, <2>4, <2>5, OnChain
    <3>2. c \in [1..n -> Objects]
      BY <2>4 DEF Linked
    <3> QED
      BY <3>1, <3>2
  <2>7. \A x \in Objects : x # o =>
            RawIn(class', name', parent', children', x) =
            RawIn(class, name, parent, children, x)
    BY <1>2, <1>4, Zenon DEF RawIn
  <2>8. parent' \in Parents
    BY <1>2, <1>3
  <2>9. PathAlong(ChainOf(parent', r), class', name', parent', children') =
        PathAlong(ChainOf(parent, r), class, name, parent, children)
    <3>1. \A i \in 1..n : parent'[c[i]] = parent[c[i]]
      BY <1>2
    <3>2. \A i \in 1..n :
            RawIn(class', name', parent', children', c[i]) =
            RawIn(class, name, parent, children, c[i])
      BY <2>6, <2>7
    <3> QED
      BY <1>3, <2>4, <2>8, <3>1, <3>2, PathKept
  <2>10. ObjectPath(r)' = ObjectPath(r)
    BY <2>9, PathIs, ChainIs, Zenon
  <2> QED
    BY <2>1, <2>2, <2>3, <2>10
<1> QED
  BY <1>5, <1>6, TreeIs DEF IInv

(* An object moves to a parent that is not below it.                       *)
LEMMA SetParentIInv ==
    ASSUME IInv, NEW o \in Objects, NEW p \in Objects \cup {NoObject},
           SetParent(o, p)
    PROVE  IInv'
<1>1. /\ Grown(class, name, parent, children) /\ Alive = AliveIn(class)
  BY TreeIs DEF IInv
<1>2. /\ o \in AliveIn(class) /\ p \in AliveIn(class) \cup {NoObject}
      /\ p # NoObject => ~Contains(Chain(p), o)
      /\ parent' = [parent EXCEPT ![o] = p]
      /\ children' = MovedIn(children, o, p)
      /\ recorded' = Nothing /\ class' = class /\ name' = name
  BY <1>1 DEF SetParent, Moved, MovedIn
<1>3. /\ class \in [Objects -> Classes \cup {"none"}] /\ parent \in Parents
      /\ AliveIn(class) = AliveIn(class) \cup {o}
  BY <1>1, <1>2, GrownParents DEF Grown
<1>4. p # NoObject => HasChain(parent', p)
  <2> SUFFICES ASSUME p # NoObject PROVE HasChain(parent', p)
    OBVIOUS
  <2>1. p \in Objects
    OBVIOUS
  <2>2. PICK c, n : Linked(parent, c, n, p)
    BY <1>1, <2>1 DEF Grown, HasChain
  <2>3. ~Contains(ChainOf(parent, p), o)
    BY <1>2, ChainIs
  <2>4. ~ \E i \in 1..n : c[i] = o
    BY <1>3, <2>2, <2>3, OnChain
  <2>5. c \in [1..n -> Objects]
    BY <2>2 DEF Linked
  <2>6. \A i \in 1..n : parent'[c[i]] = parent[c[i]]
    BY <1>2, <1>3, <2>4, <2>5 DEF Parents
  <2>7. Linked(parent', c, n, p)
    BY <2>2, <2>6, LinkKept
  <2> QED
    BY <2>7 DEF HasChain
<1>5. Grown(class', name', parent', children')
  <2>1. Grown(class, name, [parent EXCEPT ![o] = p], MovedIn(children, o, p))
    BY <1>1, <1>2, <1>3, <1>4, Attached
  <2> QED
    BY <2>1, <1>2, Zenon
<1> QED
  BY <1>2, <1>5, TreeIs, ValidIs DEF IInv

(* A raised widget stays where it is, behind its siblings.                 *)
LEMMA RaiseIInv ==
    ASSUME IInv, NEW o \in Objects, Raise(o)
    PROVE  IInv'
<1>1. /\ Grown(class, name, parent, children) /\ Alive = AliveIn(class)
  BY TreeIs DEF IInv
<1>2. /\ o \in AliveIn(class) /\ parent[o] # NoObject
      /\ children' = MovedIn(children, o, parent[o])
      /\ recorded' = Nothing
      /\ class' = class /\ name' = name /\ parent' = parent
  BY <1>1 DEF Raise, Moved, MovedIn
<1>3. /\ class \in [Objects -> Classes \cup {"none"}]
      /\ parent \in [Objects -> AliveIn(class) \cup {NoObject}]
      /\ AliveIn(class) = AliveIn(class) \cup {o}
  BY <1>1, <1>2 DEF Grown
<1>4. PICK p : p = parent[o] /\ p \in AliveIn(class) /\ p \in Objects
  BY <1>2, <1>3 DEF AliveIn
<1>5. [parent EXCEPT ![o] = p] = parent
  BY <1>3, <1>4
<1>6. HasChain([parent EXCEPT ![o] = p], p)
  <2>1. HasChain(parent, p)
    BY <1>1, <1>4 DEF Grown
  <2> QED
    BY <2>1, <1>5, Zenon
<1>7. Grown(class', name', parent', children')
  <2>1. Grown(class, name, [parent EXCEPT ![o] = p], MovedIn(children, o, p))
    BY <1>1, <1>3, <1>4, <1>6, Attached
  <2> QED
    BY <2>1, <1>2, <1>4, <1>5, Zenon
<1> QED
  BY <1>2, <1>7, TreeIs, ValidIs DEF IInv

(* What is recorded is the path of an object that exists.                  *)
LEMMA RecordIInv ==
    ASSUME IInv, NEW o \in Objects, Record(o)
    PROVE  IInv'
<1>1. /\ Grown(class, name, parent, children) /\ Alive = AliveIn(class)
  BY TreeIs DEF IInv
<1>2. /\ class' = class /\ name' = name /\ parent' = parent
      /\ children' = children
  BY DEF Record, tree
<1>3. o \in Alive /\ recorded' = [object |-> o, path |-> ObjectPath(o)]
  BY DEF Record
<1>4. Grown(class', name', parent', children')
  BY <1>1, <1>2, Zenon
<1>5. ObjectPath(o)' = ObjectPath(o)
  BY <1>2, PathIs, ChainIs, Zenon
<1>6. Alive' = Alive
  BY <1>2, TreeIs, Zenon
<1>7. recorded'.object = o /\ recorded'.path = ObjectPath(o)
  BY <1>3
<1>8. Valid'
  BY <1>3, <1>5, <1>6, <1>7, ValidIs, Zenon
<1> QED
  BY <1>4, <1>8, TreeIs DEF IInv

(* A destroyed object is gone with everything below it.                    *)
LEMMA DestroyIInv ==
    ASSUME IInv, NEW o \in Objects, Destroy(o)
    PROVE  IInv'
<1>1. /\ Grown(class, name, parent, children) /\ Alive = AliveIn(class)
  BY TreeIs DEF IInv
<1>2. PICK G : G = Gone(class, parent, o)
  OBVIOUS
<1>3. {x \in Alive : Contains(Chain(x), o)} = G
  BY <1>1, <1>2, ChainIs DEF Gone
<1>4. /\ o \in Alive
      /\ class' = [x \in Objects |-> IF x \in G THEN "none" ELSE class[x]]
      /\ name' = [x \in Objects |-> IF x \in G THEN <<>> ELSE name[x]]
      /\ parent' = [x \in Objects |-> IF x \in G THEN NoObject ELSE parent[x]]
      /\ children' = [x \in Objects |-> IF x \in G THEN <<>>
                                        ELSE RemoveFirst(children[x], o)]
      /\ recorded' = Nothing
  BY <1>3 DEF Destroy
<1>5. Grown(class', name', parent', children')
  BY <1>1, <1>2, <1>4, Detached
<1> QED
  BY <1>4, <1>5, TreeIs, ValidIs DEF IInv

(* A step that changes nothing keeps the invariant.                        *)
LEMMA StutterIInv ==
    ASSUME IInv, UNCHANGED vars
    PROVE  IInv'
<1>1. /\ class' = class /\ name' = name /\ parent' = parent
      /\ children' = children /\ recorded' = recorded
  BY DEF vars, tree
<1>2. Tree'
  BY <1>1, TreeIs, Zenon DEF IInv
<1>3. \A r : ObjectPath(r)' = ObjectPath(r)
  BY <1>1, PathIs, ChainIs, Zenon
<1>4. Alive' = Alive
  BY <1>1, TreeIs, Zenon
<1>5. Valid'
  BY <1>1, <1>3, <1>4, ValidIs, Zenon DEF IInv
<1> QED
  BY <1>2, <1>5 DEF IInv

(* The invariant implies the type invariant: a chain that exists is one    *)
(* of the bounded ones, and a name is not lost when it is escaped.         *)
LEMMA IInvTypeOK == IInv => TypeOK
<1> SUFFICES ASSUME IInv PROVE TypeOK
  OBVIOUS
<1>1. /\ Grown(class, name, parent, children) /\ Alive = AliveIn(class)
  BY TreeIs DEF IInv
<1>2. /\ class \in [Objects -> Classes \cup {"none"}]
      /\ name \in [Objects -> Names]
      /\ parent \in [Objects -> AliveIn(class) \cup {NoObject}]
      /\ \A o \in Objects : /\ IsInjective(children[o])
                            /\ Range(children[o]) = ChildrenIn(class, parent, o)
                            /\ \E c \in Chains : ChainIn(parent, c, o)
  BY DEF IInv, Tree, TreeIn
<1>3. ASSUME NEW o \in Alive
      PROVE  /\ IsInjective(children[o])
             /\ Range(children[o]) = {x \in Alive : parent[x] = o}
             /\ \E c \in Chains : IsChain(c, o)
             /\ ObjectName(o) # <<>>
  <2>1. o \in Objects
    BY DEF Alive
  <2>2. ChildrenIn(class, parent, o) = {x \in Alive : parent[x] = o}
    BY <1>1, Zenon DEF ChildrenIn
  <2>3. \E c \in Chains : IsChain(c, o)
    BY <1>2, <2>1, Zenon DEF ChainIn, IsChain
  <2>4. RawObjectName(o) \in Text /\ RawObjectName(o) # <<>>
    BY <1>1, RawIs, RawType
  <2>5. ObjectName(o) # <<>>
    BY <2>4, EscapedType DEF ObjectName
  <2> QED
    BY <1>2, <2>1, <2>2, <2>3, <2>5, Zenon
<1>4. recorded.object \in Alive \cup {NoObject}
  BY DEF IInv, Valid, Nothing
<1> QED
  BY <1>1, <1>2, <1>3, <1>4 DEF TypeOK

(* The invariant holds throughout.                                         *)
LEMMA Inductive == Spec => []IInv
<1>1. Init => IInv
  BY InitIInv
<1>2. IInv /\ [Next]_vars => IInv'
  <2> SUFFICES ASSUME IInv, [Next]_vars PROVE IInv'
    OBVIOUS
  <2>1. CASE UNCHANGED vars
    BY <2>1, StutterIInv
  <2>2. CASE Next
    <3>1. PICK o \in Objects :
            \/ \E p \in Objects \cup {NoObject}, c \in Classes : Create(o, p, c)
            \/ \E n \in Names : SetObjectName(o, n)
            \/ \E p \in Objects \cup {NoObject} : SetParent(o, p)
            \/ Raise(o)
            \/ Record(o)
            \/ Destroy(o)
      BY <2>2 DEF Next
    <3> QED
      BY <3>1, CreateIInv, SetObjectNameIInv, SetParentIInv, RaiseIInv,
         RecordIInv, DestroyIInv
  <2> QED
    BY <2>1, <2>2
<1> QED
  BY <1>1, <1>2, PTL DEF Spec

(* Whatever the application creates, renames, moves, raises and destroys,  *)
(* an object that exists is once in the list of children of its parent,    *)
(* its ancestors lead to a root, and rawObjectName has a name for it that  *)
(* is left when objectName has escaped it.                                 *)
THEOREM NamesTypeCorrect == Spec => []TypeOK
<1>1. Spec => []IInv
  BY Inductive
<1>2. IInv => TypeOK
  BY IInvTypeOK
<1> QED
  BY <1>1, <1>2, PTL

(* The path in the log stays the path of its object when objects are       *)
(* created, wherever that is, and when objects that are not on it get      *)
(* names.                                                                  *)
THEOREM PathsSurvive == Spec => []PathsSurviveCreation
<1>1. Spec => []IInv
  BY Inductive
<1>2. IInv => PathsSurviveCreation
  BY DEF IInv, Valid, PathsSurviveCreation
<1> QED
  BY <1>1, <1>2, PTL

-----------------------------------------------------------------------------
(* What findObject walks through, part by part.                            *)
Walks(f, m, root, parts) ==
    f = [i \in 1..m |-> IF i = 1 THEN root ELSE Child(f[i - 1], parts[i])]

(* The walk is defined, and findObject returns where it ends.              *)
LEMMA DescendDefined ==
    ASSUME NEW root, NEW parts, NEW n \in Nat, Len(parts) = n
    PROVE  \E f : Walks(f, n, root, parts) /\ Descend(root, parts) = f[n]
<1> DEFINE lengths == {m \in Nat : \E f : Walks(f, m, root, parts)}
<1>1. 0 \in lengths
  <2>1. Walks([i \in 1..0 |-> 0], 0, root, parts)
    BY DEF Walks
  <2> QED
    BY <2>1
<1>2. ASSUME NEW m \in Nat, m \in lengths PROVE m + 1 \in lengths
  <2>1. PICK f : Walks(f, m, root, parts)
    BY <1>2
  <2> DEFINE last == IF m = 0 THEN root ELSE Child(f[m], parts[m + 1])
             g == [i \in 1..(m + 1) |-> IF i = m + 1 THEN last ELSE f[i]]
  <2> HIDE DEF last
  <2>2. ASSUME NEW i \in 1..(m + 1)
        PROVE  g[i] = IF i = 1 THEN root ELSE Child(g[i - 1], parts[i])
    <3>1. CASE i = m + 1
      <4>1. g[i] = last
        BY <3>1
      <4>2. CASE m = 0
        BY <3>1, <4>1, <4>2 DEF last
      <4>3. CASE m # 0
        <5>1. i # 1 /\ i - 1 = m /\ g[m] = f[m]
          BY <3>1, <4>3
        <5>2. last = Child(f[m], parts[i])
          BY <3>1, <4>3 DEF last
        <5>3. g[i - 1] = f[m]
          BY <5>1
        <5> QED
          BY <4>1, <5>1, <5>2, <5>3, Zenon
      <4> QED
        BY <4>2, <4>3
    <3>2. CASE i # m + 1
      <4>1. i \in 1..m /\ g[i] = f[i] /\ (i # 1 => g[i - 1] = f[i - 1])
        BY <3>2
      <4>2. f[i] = IF i = 1 THEN root ELSE Child(f[i - 1], parts[i])
        BY <2>1, <4>1, Zenon DEF Walks
      <4> QED
        BY <4>1, <4>2
    <3> QED
      BY <3>1, <3>2
  <2> HIDE DEF g
  <2>3. g = [i \in 1..(m + 1) |-> g[i]]
    BY DEF g
  <2>4. Walks(g, m + 1, root, parts)
    BY <2>2, <2>3 DEF Walks
  <2> QED
    BY <2>4
<1>3. \A m \in Nat : m \in lengths
  BY <1>1, <1>2, NumberInduction
<1> DEFINE at[i \in 1..Len(parts)] ==
             IF i = 1 THEN root ELSE Child(at[i - 1], parts[i])
<1>4. Descend(root, parts) = at[Len(parts)]
  BY DEF Descend
<1>5. \E f : Walks(f, n, root, parts)
  BY <1>3
<1>6. at = CHOOSE f : Walks(f, Len(parts), root, parts)
  BY DEF Walks
<1> HIDE DEF at
<1>7. at = CHOOSE f : Walks(f, n, root, parts)
  BY <1>6, Zenon
<1>8. Walks(at, n, root, parts)
  BY <1>5, <1>7
<1>9. Descend(root, parts) = at[n]
  BY <1>4, Zenon
<1> QED
  BY <1>8, <1>9

(* The least of some numbers is one of them.                               *)
LEMMA MinIn ==
    ASSUME NEW S \in SUBSET Nat, S # {}
    PROVE  Min(S) \in S
<1>1. \E n \in S : \A m \in S : n <= m
  BY LeastNumber
<1> QED
  BY <1>1 DEF Min

(* A step of the walk ends at a child with the name that is looked for, or *)
(* nowhere when there is none.                                             *)
LEMMA ChildIs ==
    ASSUME IInv, NEW q \in Alive, NEW part, NEW x, x = Child(q, part)
    PROVE  \/ /\ x = NoObject
              /\ \A y \in Alive : parent[y] = q => ObjectName(y) # part
           \/ x \in Alive /\ parent[x] = q /\ ObjectName(x) = part
<1>1. q \in Objects /\ q # NoObject
  BY ObjectNamesAssumption DEF Alive
<1>2. /\ Grown(class, name, parent, children) /\ Alive = AliveIn(class)
  BY TreeIs DEF IInv
<1>3. PICK s, n : /\ s = children[q]
                  /\ Once(s, n, ChildrenIn(class, parent, q))
  BY <1>1, <1>2 DEF Grown
<1>4. n \in Nat /\ DOMAIN s = 1..n
  BY <1>3 DEF Once
<1> DEFINE named == {i \in 1..n : ObjectName(s[i]) = part}
<1>5. x = IF named = {} THEN NoObject ELSE s[Min(named)]
  BY <1>1, <1>3, <1>4, Zenon DEF Child
<1>6. \A y : y \in Alive /\ parent[y] = q <=> \E i \in 1..n : y = s[i]
  BY <1>2, <1>3 DEF Once, ChildrenIn
<1>7. CASE named = {}
  <2>1. ASSUME NEW y \in Alive, parent[y] = q PROVE ObjectName(y) # part
    <3>1. PICK i \in 1..n : y = s[i]
      BY <1>6, <2>1
    <3> QED
      BY <1>7, <3>1, Zenon
  <2> QED
    BY <1>5, <1>7, <2>1
<1>8. CASE named # {}
  <2>1. named \in SUBSET Nat
    BY <1>4
  <2>2. PICK i : i = Min(named) /\ i \in named
    BY <2>1, <1>8, MinIn
  <2>3. x = s[i] /\ i \in 1..n /\ ObjectName(s[i]) = part
    BY <1>5, <1>8, <2>2, Zenon
  <2>4. x \in Alive /\ parent[x] = q
    BY <1>6, <2>3
  <2> QED
    BY <2>3, <2>4, Zenon
<1> QED
  BY <1>7, <1>8

(* From nowhere the walk leads nowhere.                                    *)
LEMMA NoChild ==
    ASSUME NEW part
    PROVE  Child(NoObject, part) = NoObject
  BY DEF Child

(* A clean name is plain when it is in a path.                             *)
LEMMA CleanPlain ==
    ASSUME IInv, NEW o \in Alive
    PROVE  /\ ObjectName(o) \in Text
           /\ Clean(o) => Plain(ObjectName(o))
<1>1. /\ Grown(class, name, parent, children) /\ Alive = AliveIn(class)
  BY TreeIs DEF IInv
<1>2. PICK t : t = RawObjectName(o) /\ t \in Text /\ t # <<>>
  BY <1>1, RawIs, RawType
<1>3. ObjectName(o) = Escaped(t)
  BY <1>2, Zenon DEF ObjectName
<1>4. ASSUME Clean(o) PROVE CleanText(t)
  <2>1. /\ Head(t) # ":" /\ Last(t) # ":"
        /\ ~\E i \in 1..(Len(t) - 2) : \A j \in i..(i + 2) : t[j] = ":"
    BY <1>2, <1>4, Zenon DEF Clean
  <2>2. Head(t) = t[1] /\ Last(t) = t[Len(t)]
    BY <1>2 DEF Last, Text
  <2>3. PICK l \in Nat : l = Len(t)
    BY <1>2 DEF Text
  <2>4. ASSUME NEW i \in 1..(l - 2),
               t[i] = ":" /\ t[i + 1] = ":" /\ t[i + 2] = ":"
        PROVE  FALSE
    <3>1. \A j \in i..(i + 2) : j = i \/ j = i + 1 \/ j = i + 2
      OBVIOUS
    <3>2. \A j \in i..(i + 2) : t[j] = ":"
      BY <2>4, <3>1
    <3> QED
      BY <2>1, <2>3, <3>2
  <2>5. \A i \in 1..(Len(t) - 2) :
          ~(t[i] = ":" /\ t[i + 1] = ":" /\ t[i + 2] = ":")
    BY <2>3, <2>4
  <2> QED
    BY <1>2, <2>1, <2>2, <2>5, Zenon DEF CleanText
<1> QED
  BY <1>2, <1>3, <1>4, EscapedPlain, EscapedType

(* The names along a chain, and what the path of its last object makes of  *)
(* them.                                                                   *)
NamesOf(c, n) == [i \in 1..n |-> ObjectName(c[i])]
PartsOf(o, c, n, parts) ==
    /\ Chain(o) = c /\ Range(c) = {c[i] : i \in 1..n}
    /\ \A i \in 1..n : c[i] \in Alive
    /\ Len(parts) = n
    /\ ObjectPath(o) = Join(parts, <<":", ":">>)
    /\ (\A i \in 1..n : Clean(c[i])) => Split(ObjectPath(o)) = parts

(* The path of an object is the joined names of its chain and, when they   *)
(* are clean, splits into them again.                                      *)
LEMMA PathParts ==
    ASSUME IInv, NEW o \in Alive, NEW c, NEW n, Linked(parent, c, n, o),
           NEW parts, parts = NamesOf(c, n)
    PROVE  PartsOf(o, c, n, parts)
<1>1. /\ Grown(class, name, parent, children) /\ Alive = AliveIn(class)
      /\ parent \in Parents
  BY TreeIs, GrownParents DEF IInv, Grown
<1>2. n \in Nat \ {0} /\ DOMAIN c = 1..n
  BY DEF Linked
<1>3. Chain(o) = c
  BY <1>1, ChainIs, ChainOfIs
<1>4. Range(c) = {c[i] : i \in 1..n}
  BY <1>2, Zenon DEF Range
<1>5. \A i \in 1..n : c[i] \in Alive
  BY <1>1, LinkAlive
<1>6. ObjectPath(o) = Join(parts, <<":", ":">>)
  BY <1>2, <1>3, Zenon DEF ObjectPath, NamesOf
<1>7. \A i \in 1..n : parts[i] \in Text /\ parts[i] = ObjectName(c[i])
  BY <1>5, CleanPlain DEF NamesOf
<1>8. parts \in [1..n -> Text]
  BY <1>7 DEF NamesOf
<1>9. parts \in Seq(Text) /\ Len(parts) = n
  BY <1>2, <1>8
<1>10. ASSUME \A i \in 1..n : Clean(c[i]) PROVE Split(ObjectPath(o)) = parts
  <2>1. \A i \in 1..n : Plain(parts[i])
    BY <1>5, <1>7, <1>10, CleanPlain
  <2>2. \A i \in 1..Len(parts) : Plain(parts[i])
    BY <1>9, <2>1, Zenon
  <2>3. parts # <<>>
    BY <1>2, <1>9, NotEmpty
  <2> QED
    BY <1>6, <1>9, <2>2, <2>3, SplitOfJoin
<1> QED
  BY <1>3, <1>4, <1>5, <1>6, <1>9, <1>10 DEF PartsOf

(* The walk from the root of an object that has no rival on its path       *)
(* arrives at the object.                                                  *)
LEMMA WalkArrives ==
    ASSUME IInv, NEW o \in Alive, NEW c, NEW n, Linked(parent, c, n, o),
           NEW parts, parts = NamesOf(c, n),
           \A i \in 1..n : Unambiguous(c[i]),
           NEW f, Walks(f, n, c[1], parts)
    PROVE  f[n] = o
<1>1. n \in Nat \ {0} /\ c[n] = o
      /\ \A i \in 1..(n - 1) : parent[c[i + 1]] = c[i]
  BY DEF Linked
<1>2. \A i \in 1..n : c[i] \in Alive
  BY PathParts DEF PartsOf
<1> DEFINE S == {i \in 1..n : f[i] = c[i]}
<1>3. n > 0 => 1 \in S
  <2>1. 1 \in 1..n
    BY <1>1
  <2>2. f[1] = c[1]
    BY <2>1, Zenon DEF Walks
  <2> QED
    BY <2>1, <2>2
<1>4. ASSUME NEW i \in 1..(n - 1), i \in S PROVE i + 1 \in S
  <2>1. PICK k \in 1..n : k = i + 1 /\ k # 1 /\ k - 1 = i
    BY <1>1
  <2>2. i \in 1..n
    BY <1>1
  <2>3. f[k] = Child(f[k - 1], parts[k])
    BY <2>1, Zenon DEF Walks
  <2>4. PICK q, a, x, part : /\ q = c[i] /\ a = c[k] /\ x = f[k]
                             /\ part = parts[k]
    OBVIOUS
  <2>5. x = Child(q, part)
    BY <1>4, <2>1, <2>3, <2>4, Zenon
  <2>6. /\ q \in Alive /\ a \in Alive /\ parent[a] = q
        /\ part = ObjectName(a)
    BY <1>1, <1>2, <2>1, <2>2, <2>4 DEF NamesOf
  <2>7. x \in Alive /\ parent[x] = q /\ ObjectName(x) = part
    BY <2>5, <2>6, ChildIs
  <2>8. q # NoObject /\ q \in Objects
    BY <2>6, ObjectNamesAssumption DEF Alive
  <2>9. Range(children[q]) = {y \in Alive : parent[y] = q}
    BY <2>6, IInvTypeOK DEF TypeOK
  <2>10. Unambiguous(a)
    BY <2>4
  <2>11. \A y \in Range(children[q]) \ {a} : ObjectName(y) # ObjectName(a)
    BY <2>6, <2>8, <2>10, Zenon DEF Unambiguous
  <2>12. x = a
    BY <2>6, <2>7, <2>9, <2>11
  <2> QED
    BY <2>1, <2>4, <2>12
<1>5. \A i \in 1..n : i \in S
  BY <1>1, <1>3, <1>4, IntervalInduction
<1>6. n \in 1..n
  BY <1>1
<1> QED
  BY <1>1, <1>5, <1>6

(* A walk that arrives anywhere has found a chain of objects with the      *)
(* names of the path.                                                      *)
LEMMA WalkLinks ==
    ASSUME IInv, NEW n \in Nat \ {0}, NEW parts,
           NEW root \in Alive, parent[root] = NoObject,
           ObjectName(root) = parts[1],
           NEW f, Walks(f, n, root, parts), f[n] # NoObject
    PROVE  /\ Linked(parent, f, n, f[n]) /\ f[n] \in Alive
           /\ \A i \in 1..n : ObjectName(f[i]) = parts[i]
<1>1. f[1] = root
  <2>1. 1 \in 1..n
    OBVIOUS
  <2> QED
    BY <2>1, Zenon DEF Walks
<1>2. ASSUME NEW i \in 1..(n - 1)
      PROVE  f[i + 1] = Child(f[i], parts[i + 1])
  <2>1. PICK k \in 1..n : k = i + 1 /\ k # 1 /\ k - 1 = i
    OBVIOUS
  <2>2. f[k] = Child(f[k - 1], parts[k])
    BY <2>1, Zenon DEF Walks
  <2> QED
    BY <2>1, <2>2, Zenon
<1>3. ASSUME NEW i \in 1..n PROVE f[i] # NoObject
  <2> SUFFICES ASSUME f[i] = NoObject PROVE FALSE
    OBVIOUS
  <2> DEFINE T == {j \in 1..n : j >= i => f[j] = NoObject}
  <2>1. n > 0 => 1 \in T
    OBVIOUS
  <2>2. ASSUME NEW j \in 1..(n - 1), j \in T PROVE j + 1 \in T
    <3>1. j + 1 \in 1..n /\ (j + 1 >= i => j + 1 = i \/ j >= i)
      OBVIOUS
    <3>2. ASSUME f[j] = NoObject PROVE f[j + 1] = NoObject
      BY <3>2, <1>2, NoChild
    <3> QED
      BY <2>2, <3>1, <3>2
  <2>3. \A j \in 1..n : j \in T
    BY <2>1, <2>2, IntervalInduction
  <2>4. n \in 1..n /\ n >= i
    OBVIOUS
  <2> QED
    BY <2>3, <2>4
<1> DEFINE S == {i \in 1..n : f[i] \in Alive /\ ObjectName(f[i]) = parts[i]}
<1>4. ASSUME NEW i \in 1..(n - 1), i \in S
      PROVE  i + 1 \in S /\ parent[f[i + 1]] = f[i]
  <2>1. i + 1 \in 1..n /\ f[i] \in Alive
    BY <1>4
  <2>2. f[i + 1] # NoObject
    BY <2>1, <1>3
  <2>3. f[i + 1] = Child(f[i], parts[i + 1])
    BY <1>2
  <2>4. /\ f[i + 1] \in Alive /\ parent[f[i + 1]] = f[i]
        /\ ObjectName(f[i + 1]) = parts[i + 1]
    BY <2>1, <2>2, <2>3, ChildIs
  <2> QED
    BY <2>1, <2>4
<1>5. 1 \in S
  BY <1>1
<1>6. \A i \in 1..n : i \in S
  BY <1>4, <1>5, IntervalInduction
<1>7. \A i \in 1..n : f[i] \in Objects
  BY <1>6 DEF Alive
<1>8. f = [i \in 1..n |-> f[i]]
  BY Zenon DEF Walks
<1>9. f \in [1..n -> Objects]
  BY <1>7, <1>8
<1>10. parent[f[1]] = NoObject
  BY <1>1
<1>11. \A i \in 1..(n - 1) : parent[f[i + 1]] = f[i]
  <2>1. \A i \in 1..(n - 1) : i \in 1..n
    OBVIOUS
  <2> QED
    BY <1>4, <1>6, <2>1
<1>12. Linked(parent, f, n, f[n])
  BY <1>9, <1>10, <1>11 DEF Linked
<1>13. n \in 1..n
  OBVIOUS
<1> QED
  BY <1>6, <1>12, <1>13

(* The Player looks for an object from every window that is called like    *)
(* the first part of the path.                                             *)
LEMMA FindIs ==
    ASSUME NEW path, NEW parts, Split(path) = parts,
           NEW roots,
           roots = {x \in TopLevelWidgets : ObjectName(x) = parts[1]},
           roots # {}
    PROVE  FindObject(path) = {Descend(root, parts) : root \in roots}
  BY Zenon DEF FindObject

(* The invariant is enough for the path to be found.                       *)
LEMMA IInvFinds == IInv => PathFindsItsObject
<1> SUFFICES ASSUME IInv, NEW o \in Alive,
                    IsWindow(Chain(o)[1]),
                    \A a \in Range(Chain(o)) : Clean(a)
             PROVE  /\ (\A a \in Range(Chain(o)) : Unambiguous(a)) =>
                          FindObject(ObjectPath(o)) = {o}
                    /\ (\A x \in TopLevelWidgets : parent[x] # NoObject =>
                           ObjectName(x) # ObjectName(Chain(o)[1])) =>
                       \A x \in FindObject(ObjectPath(o)) \ {NoObject} :
                           ObjectPath(x) = ObjectPath(o)
  BY DEF PathFindsItsObject
<1>1. /\ Grown(class, name, parent, children) /\ Alive = AliveIn(class)
  BY TreeIs DEF IInv
<1>2. PICK c, n : Linked(parent, c, n, o)
  BY <1>1 DEF Grown, HasChain, AliveIn
<1>3. PICK parts : parts = NamesOf(c, n)
  OBVIOUS
<1>4a. PartsOf(o, c, n, parts)
  BY <1>2, <1>3, PathParts
<1>4. /\ Chain(o) = c /\ Range(c) = {c[i] : i \in 1..n}
      /\ \A i \in 1..n : c[i] \in Alive
      /\ Len(parts) = n
      /\ ObjectPath(o) = Join(parts, <<":", ":">>)
      /\ (\A i \in 1..n : Clean(c[i])) => Split(ObjectPath(o)) = parts
  BY <1>4a, Zenon DEF PartsOf
<1>5. Split(ObjectPath(o)) = parts
  BY <1>4
<1>6. n \in Nat \ {0} /\ parent[c[1]] = NoObject
  BY <1>2 DEF Linked
<1>7. 1 \in 1..n /\ n \in Nat
  BY <1>6
<1>8. c[1] \in Alive /\ IsWindow(c[1]) /\ ObjectName(c[1]) = parts[1]
  BY <1>3, <1>4, <1>7 DEF NamesOf
<1>9. PICK roots : roots = {x \in TopLevelWidgets : ObjectName(x) = parts[1]}
  OBVIOUS
<1>10. c[1] \in TopLevelWidgets /\ c[1] \in roots
  BY <1>8, <1>9 DEF TopLevelWidgets
<1>11. FindObject(ObjectPath(o)) = {Descend(root, parts) : root \in roots}
  BY <1>5, <1>9, <1>10, FindIs
<1>12. ASSUME \A a \in Range(Chain(o)) : Unambiguous(a)
       PROVE  FindObject(ObjectPath(o)) = {o}
  <2>1. \A i \in 1..n : Unambiguous(c[i])
    BY <1>4, <1>12
  <2>2. Unambiguous(c[1])
    BY <1>7, <2>1
  <2>3. \A x \in TopLevelWidgets \ {c[1]} : ObjectName(x) # ObjectName(c[1])
    BY <1>6, <2>2, Zenon DEF Unambiguous
  <2>4. roots = {c[1]}
    BY <1>8, <1>9, <1>10, <2>3
  <2>5. PICK f : Walks(f, n, c[1], parts) /\ Descend(c[1], parts) = f[n]
    BY <1>4, <1>7, DescendDefined
  <2>6. f[n] = o
    BY <1>2, <1>3, <2>1, <2>5, WalkArrives
  <2> QED
    BY <1>11, <2>4, <2>5, <2>6
<1>13. ASSUME \A x \in TopLevelWidgets : parent[x] # NoObject =>
                  ObjectName(x) # ObjectName(Chain(o)[1]),
              NEW x \in FindObject(ObjectPath(o)) \ {NoObject}
       PROVE  ObjectPath(x) = ObjectPath(o)
  <2>1. PICK root \in roots : x = Descend(root, parts)
    BY <1>11
  <2>2. /\ root \in Alive /\ parent[root] = NoObject
        /\ ObjectName(root) = parts[1]
    BY <1>4, <1>8, <1>9, <1>13 DEF TopLevelWidgets
  <2>3. PICK f : Walks(f, n, root, parts) /\ Descend(root, parts) = f[n]
    BY <1>4, <1>7, DescendDefined
  <2>4. x = f[n] /\ f[n] # NoObject
    BY <2>1, <2>3
  <2>5. /\ Linked(parent, f, n, x) /\ x \in Alive
        /\ \A i \in 1..n : ObjectName(f[i]) = parts[i]
    BY <1>6, <2>2, <2>3, <2>4, WalkLinks
  <2>6. parts = NamesOf(f, n)
    BY <1>3, <2>5 DEF NamesOf
  <2>7. ObjectPath(x) = Join(parts, <<":", ":">>)
    BY <2>5, <2>6, PathParts DEF PartsOf
  <2> QED
    BY <1>4, <2>7
<1> QED
  BY <1>12, <1>13

(* For trees of any depth and names of any length, Player::findObject is   *)
(* given the path that ObjectHookName::objectPath wrote and finds that     *)
(* object, when no ancestor has a rival, and never one with another path.  *)
THEOREM PathsFindTheirObjects == Spec => []PathFindsItsObject
<1>1. Spec => []IInv
  BY Inductive
<1>2. IInv => PathFindsItsObject
  BY IInvFinds
<1> QED
  BY <1>1, <1>2, PTL
=============================================================================
