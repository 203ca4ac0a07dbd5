-------------------------- MODULE ConverterProofs ---------------------------
(***************************************************************************)
(* Proofs about Converter, for logs of any length and any widgets: the     *)
(* state has its types, a post-processor takes an item off an empty list   *)
(* only in the cases that FailsOnlyAtEnd names, and a script variable is   *)
(* declared once, before it is used.                                       *)
(***************************************************************************)
EXTENDS Converter, FiniteSetTheorems, SequenceTheorems,
        WellFoundedInduction, TLAPS

-----------------------------------------------------------------------------
(* The items of a log: events of the targets T, and pauses.                *)
Events ==
    {e \in Item : /\ e.target \in Targets
                  /\ e.method \in {"pressKey", "releaseKey", "moveMouse",
                                   "other"}
                  /\ e.var = NoName /\ e.arg = NoName}
ItemIn(T) == {x \in Item : x.target \in T \cup {NoTarget}}
NoArgIn(T) == {x \in ItemIn(T) : x.arg = NoName /\ x.method # "string"}
BareIn(T) ==
    {x \in NoArgIn(T) : /\ x.var = NoName /\ x.method # "object"
                        /\ x.method = "msleep" => x.target = NoTarget}
LogTargets == {log[i].target : i \in 1..Len(log)}

Early ==
    {"FilterQtInternals", "SkipMouseMovements", "SimplifyMouseMovements",
     "SimplifyStrings"}

(* What is in the lists while a post-processor has its turn.               *)
Stage(p, T, list, rest, objs, strs) ==
    /\ p \in Early =>
          /\ list \in Seq(BareIn(T)) /\ rest \in Seq(BareIn(T))
          /\ objs = [t \in Targets |-> NoName] /\ strs = <<>>
    /\ p = "ObjectVariables" =>
          /\ list \in Seq(NoArgIn(T)) /\ rest \in Seq(BareIn(T))
          /\ strs = <<>>
    /\ p = "StringVariables" =>
          list \in Seq(ItemIn(T)) /\ rest \in Seq(NoArgIn(T))

(* The items that can become a string.                                     *)
IsTyping(x) == x.method \in {"pressKey", "sendText"}
Count(s) == Cardinality({i \in 1..Len(s) : IsTyping(s[i])})
Counted(p, list, rest, strs, n) ==
    IF p = "StringVariables" THEN Len(strs) + Count(rest) <= n
    ELSE Count(list) + Count(rest) <= n

-----------------------------------------------------------------------------
(* The rhythm of pauses and events.                                        *)
Pause(x) == x.method = "msleep"
Steady(s) == \A i \in 1..(Len(s) - 1) : Pause(s[i]) \/ Pause(s[i + 1])
Joint(l, s) ==
    l # <<>> /\ s # <<>> => Pause(l[Len(l)]) \/ Pause(s[1])
EndsWell(s, o) ==
    s # <<>> =>
        LET last == s[Len(s)] IN
        /\ ~Pause(last)
        /\ "FilterQtInternals" \in o => last.target \notin Internal
        /\ {"SkipMouseMovements", "SimplifyStrings"} \subseteq o =>
              ~IsMove(last)
EndsOnNoKey(s) == Len(s) >= 2 => ~IsKey(s[Len(s) - 1])

Rhythm(p, list, rest, o) ==
    /\ p \in {"FilterQtInternals", "SkipMouseMovements"} =>
          /\ Steady(list) /\ Steady(rest) /\ Joint(list, rest)
          /\ EndsWell(rest, o)
          /\ /\ rest = <<>>
             /\ p = "SkipMouseMovements" => "SimplifyStrings" \in o
             => EndsWell(list, o)
    /\ p = "SimplifyMouseMovements" /\ "SimplifyStrings" \in o =>
          /\ Steady(rest) /\ Joint(list, rest) /\ EndsWell(rest, o)
          /\ rest = <<>> => EndsOnNoKey(list)
    /\ p = "SimplifyStrings" => EndsOnNoKey(rest)

(* The logs and options with which a post-processor may fail.              *)
Exempt ==
    \/ cut
    \/ /\ log # <<>>
       /\ \/ /\ "FilterQtInternals" \in options
             /\ Last(log).target \in Internal
          \/ /\ {"SkipMouseMovements", "SimplifyStrings"} \subseteq options
             /\ IsMove(Last(log))

-----------------------------------------------------------------------------
(* The variables of a script.                                              *)
SName(i) == Name(<<StringNames[i]>>, 0)
UsedIn(x) == {x.var, x.arg} \ {NoName}
Declared1(s, i, name) ==
    \E j \in 1..i : /\ Declares(s[j], name)
                    /\ \A k \in 1..Len(s) : Declares(s[k], name) => k = j
DeclaredFirst(s) ==
    \A i \in 1..Len(s) : \A name \in UsedIn(s[i]) : Declared1(s, i, name)
SomeDeclares(s, name) == \E j \in 1..Len(s) : Declares(s[j], name)

(* The names that m_variables holds: each is of one object, and like that  *)
(* of a string only if the object's last keyword is.                       *)
ObjectNamesOK(T, objs) ==
    /\ \A t \in Targets : objs[t] # NoName =>
          /\ t \in T
          /\ objs[t].parts # <<>>
          /\ \A i \in DOMAIN StringNames : objs[t] = SName(i) =>
                Last(Keywords[t]) = StringNames[i]
    /\ \A t, u \in Targets : objs[t] = objs[u] /\ t # u => objs[t] = NoName

Known(x, objs, strs) ==
    /\ x.var # NoName => x.var \in Range(objs)
    /\ x.arg # NoName => \E m \in 1..Len(strs) : x.arg = SName(m)
AllKnown(s, objs, strs) == \A i \in 1..Len(s) : Known(s[i], objs, strs)

Variables(p, list, rest, objs, strs) ==
    /\ DeclaredFirst(list \o rest)
    /\ AllKnown(list \o rest, objs, strs)
    /\ p = "ObjectVariables" =>
          \A t \in Targets : objs[t] # NoName => SomeDeclares(list, objs[t])
    /\ p = "StringVariables" =>
          \A m \in 1..Len(strs) : SomeDeclares(list, SName(m))

-----------------------------------------------------------------------------
(* The inductive invariant.                                                *)
LogOK == log \in Seq(Events) /\ Len(log) <= MaxEvents
Idle ==
    phase = "record" =>
        /\ passes = {} /\ in = <<>> /\ inserter = Reset(<<>>)
        /\ objects = [t \in Targets |-> NoName] /\ strings = <<>>
Staged ==
    IF passes = {}
    THEN in \in Seq(ItemIn(LogTargets)) /\ inserter.list = <<>>
    ELSE Stage(Current, LogTargets, inserter.list, in, objects, strings)
CountOK ==
    IF passes = {} THEN Len(strings) <= Len(log)
    ELSE Counted(Current, inserter.list, in, strings, Len(log))
RhythmOK ==
    /\ phase = "convert" /\ passes # {} /\ ~Exempt =>
          Rhythm(Current, inserter.list, in, options)
    /\ phase = "failed" => Exempt
VariablesOK ==
    /\ phase = "done" => passes = {}
    /\ phase \in {"convert", "done"} /\ ~Clash =>
          /\ ObjectNamesOK(LogTargets, objects)
          /\ IF passes = {} THEN DeclaredFirst(in)
             ELSE Variables(Current, inserter.list, in, objects, strings)

-----------------------------------------------------------------------------
(* A set of numbers has a least one.                                       *)
LEMMA LeastNumber ==
    ASSUME NEW S \in SUBSET Nat, S # {}
    PROVE  \E n \in S : \A m \in S : n <= m
<1>1. PICK n \in S : \A m \in S : ~(<<m, n>> \in OpToRel(<, Nat))
  BY NatLessThanWellFounded, WFMin, Zenon
<1>2. ASSUME NEW m \in S PROVE n <= m
  <2>1. ~(<<m, n>> \in OpToRel(<, Nat))
    BY <1>1
  <2>2. ~(m < n)
    BY <2>1, Zenon DEF OpToRel
  <2> QED
    BY <2>2
<1> QED
  BY <1>2

(* A set of numbers that holds 0 and every successor holds all of them.    *)
LEMMA AllNumbers ==
    ASSUME NEW S, 0 \in S, \A n \in Nat : n \in S => n + 1 \in S
    PROVE  \A n \in Nat : n \in S
<1> DEFINE out == Nat \ S
<1> SUFFICES ASSUME out # {} PROVE FALSE
  OBVIOUS
<1>1. PICK n \in out : \A m \in out : n <= m
  BY LeastNumber
<1>2. n \in Nat /\ n # 0 /\ n - 1 \in Nat /\ n - 1 \notin out
  BY <1>1
<1> QED
  BY <1>1, <1>2

(* Min and Max of the sets they are used on.                               *)
LEMMA MinIs ==
    ASSUME NEW S \in SUBSET Nat, S # {}
    PROVE  Min(S) \in S /\ \A y \in S : Min(S) <= y
<1>1. \E x \in S : \A y \in S : x <= y
  BY LeastNumber
<1> QED
  BY <1>1 DEF Min

(* A bounded set of numbers has a greatest one, and Max is that.           *)
LEMMA MaxIs ==
    ASSUME NEW n \in Nat, NEW S \in SUBSET (0..n), S # {}
    PROVE  Max(S) \in S /\ \A y \in S : y <= Max(S)
<1> DEFINE D == {n - y : y \in S}
<1>1. D \in SUBSET Nat
  OBVIOUS
<1>1a. D # {}
  <2>1. PICK y : y \in S
    OBVIOUS
  <2>2. n - y \in D
    BY <2>1
  <2> QED
    BY <2>2
<1>2. PICK d \in D : \A e \in D : d <= e
  BY <1>1, <1>1a, LeastNumber
<1>3. PICK x \in S : d = n - x
  BY <1>2
<1>4. ASSUME NEW y \in S PROVE x >= y
  <2>1. n - y \in D
    OBVIOUS
  <2>2. d <= n - y
    BY <1>2, <2>1
  <2>3. x \in Int /\ y \in Int
    BY <1>3
  <2> QED
    BY <1>3, <2>2, <2>3
<1>5. \E z \in S : \A y \in S : z >= y
  BY <1>3, <1>4
<1>6. Max(S) \in S /\ \A y \in S : Max(S) >= y
  BY <1>5 DEF Max
<1> QED
  BY <1>6

-----------------------------------------------------------------------------
(* l2 is l with x at position k.                                           *)
Inserted(l, l2, k, x) ==
    /\ k \in 1..(Len(l) + 1) /\ Len(l2) = Len(l) + 1
    /\ \A i \in 1..Len(l2) :
          l2[i] = IF i < k THEN l[i] ELSE IF i = k THEN x ELSE l[i - 1]

(* Sequences put together.                                                 *)
LEMMA AppendIs ==
    ASSUME NEW X, NEW a \in Seq(X), NEW x \in X
    PROVE  /\ a \o <<x>> = Append(a, x)
           /\ Append(a, x) \in Seq(X) /\ Len(Append(a, x)) = Len(a) + 1
           /\ Append(a, x)[Len(a) + 1] = x
           /\ \A p \in 1..Len(a) : Append(a, x)[p] = a[p]
OBVIOUS

(* Concatenation, item by item.                                            *)
LEMMA ConcatIs ==
    ASSUME NEW X, NEW a \in Seq(X), NEW b \in Seq(X)
    PROVE  /\ a \o b \in Seq(X) /\ Len(a \o b) = Len(a) + Len(b)
           /\ \A p \in 1..Len(a) : (a \o b)[p] = a[p]
           /\ \A p \in 1..Len(b) : (a \o b)[Len(a) + p] = b[p]
OBVIOUS

(* Lists with the same items are the same list.                            *)
LEMMA SameItems ==
    ASSUME NEW X, NEW a \in Seq(X), NEW b \in Seq(X), Len(a) = Len(b),
           \A i \in 1..Len(b) : a[i] = b[i]
    PROVE  a = b
OBVIOUS

(* What QList::insert does.                                                *)
LEMMA InsertInIs ==
    ASSUME NEW X, NEW l \in Seq(X), NEW i \in Int, NEW x \in X
    PROVE  /\ InsertIn(l, i, x) \in Seq(X)
           /\ \E k : /\ Inserted(l, InsertIn(l, i, x), k, x)
                     /\ (0 <= i /\ i <= Len(l)) => k = i + 1
                     /\ i >= Len(l) - 1 => k >= Len(l)
<1>1. PICK n \in Nat : n = Len(l)
  OBVIOUS
<1>2. PICK m : m = Min({i, n})
  OBVIOUS
<1>3. m \in {i, n} /\ m <= i /\ m <= n
  <2>1. \E a \in {i, n} : \A b \in {i, n} : a =< b
    BY <1>1
  <2> QED
    BY <1>2, <2>1 DEF Min
<1>4. PICK j : j = Max({0, m})
  OBVIOUS
<1>5. j \in {0, m} /\ 0 <= j /\ m <= j
  <2>1. \E a \in {0, m} : \A b \in {0, m} : a >= b
    BY <1>1, <1>3
  <2> QED
    BY <1>3, <1>4, <2>1 DEF Max
<1>6. j \in 0..n /\ (0 <= i /\ i <= n => j = i) /\ (i >= n - 1 => j >= n - 1)
  BY <1>1, <1>3, <1>5
<1>7. PICK a, b : a = SubSeq(l, 1, j) /\ b = SubSeq(l, j + 1, n)
  OBVIOUS
<1>8. /\ a \in Seq(X) /\ Len(a) = j /\ \A p \in 1..j : a[p] = l[p]
      /\ b \in Seq(X) /\ Len(b) = n - j
      /\ \A p \in 1..(n - j) : b[p] = l[j + p]
  BY <1>1, <1>6, <1>7
<1>9. InsertIn(l, i, x) = a \o <<x>> \o b
  <2>1. PICK k : k = j + 1 /\ k - 1 = j
    BY <1>6
  <2>2. InsertIn(l, i, x) = InsertAt(l, k, x)
    BY <1>1, <1>2, <1>4, <2>1 DEF InsertIn
  <2>3. InsertAt(l, k, x) =
           SubSeq(l, 1, k - 1) \o <<x>> \o SubSeq(l, k, Len(l))
    BY Zenon DEF InsertAt
  <2> QED
    BY <1>1, <1>7, <2>1, <2>2, <2>3, Zenon
<1>10. PICK c, r : c = a \o <<x>> /\ r = c \o b
  OBVIOUS
<1>10a. /\ c \in Seq(X) /\ Len(c) = j + 1
        /\ \A p \in 1..j : c[p] = l[p]
        /\ c[j + 1] = x
  <2>1. c = Append(a, x)
    BY <1>8, <1>10, AppendIs
  <2>2. /\ c \in Seq(X) /\ Len(c) = j + 1 /\ c[j + 1] = x
        /\ \A p \in 1..j : c[p] = a[p]
    BY <1>8, <2>1, AppendIs
  <2> QED
    BY <1>8, <2>2
<1>10b. b \in Seq(X) /\ Len(b) = n - j /\ j \in Nat /\ n - j \in Nat
  BY <1>1, <1>6, <1>8
<1>11. r \in Seq(X) /\ Len(r) = n + 1
  <2>1. r = c \o b /\ c \in Seq(X) /\ b \in Seq(X)
    BY <1>10, <1>10a, <1>10b, Zenon
  <2>2. r \in Seq(X) /\ Len(r) = Len(c) + Len(b)
    BY <2>1, ConcatIs
  <2> QED
    BY <1>1, <1>6, <1>10a, <1>10b, <2>2
<1>12. \A p \in 1..(n + 1) :
          r[p] = IF p < j + 1 THEN l[p] ELSE IF p = j + 1 THEN x
                 ELSE l[p - 1]
  <2> SUFFICES ASSUME NEW p \in 1..(n + 1)
               PROVE  r[p] = IF p < j + 1 THEN l[p]
                             ELSE IF p = j + 1 THEN x ELSE l[p - 1]
    OBVIOUS
  <2>1. r[p] = IF p <= j + 1 THEN c[p] ELSE b[p - (j + 1)]
    BY <1>6, <1>10, <1>10a, <1>10b
  <2>2. CASE p <= j
    <3>1. p \in 1..j /\ p < j + 1
      BY <2>2, <1>6
    <3> QED
      BY <2>1, <3>1, <1>10a
  <2>3. CASE p = j + 1
    BY <2>1, <2>3, <1>10a
  <2>4. CASE p > j + 1
    <3>1. p - (j + 1) \in 1..(n - j) /\ j + (p - (j + 1)) = p - 1
      BY <2>4, <1>6
    <3> QED
      BY <2>1, <2>4, <3>1, <1>8, <1>6
  <2> QED
    BY <2>2, <2>3, <2>4, <1>6
<1>13. Inserted(l, r, j + 1, x)
  BY <1>1, <1>6, <1>11, <1>12 DEF Inserted
<1>14. r = InsertIn(l, i, x)
  BY <1>9, <1>10, Zenon
<1>15. /\ (0 <= i /\ i <= Len(l)) => j + 1 = i + 1
       /\ i >= Len(l) - 1 => j + 1 >= Len(l)
  BY <1>1, <1>6
<1> QED
  BY <1>11, <1>13, <1>14, <1>15, Zenon

(* Inserter::insert before the current item and at the beginning.          *)
InserterOK(X, ins) ==
    /\ ins \in [list : Seq(X), itemIndex : Int, originalStart : Nat]
    /\ ins.itemIndex >= Len(ins.list) - 1
    /\ ins.originalStart <= Len(ins.list)

(* An insertion before the current item goes to the end of the list or one *)
(* before it, and keeps the Inserter's indices in place.                   *)
LEMMA InsertBefore ==
    ASSUME NEW X, NEW ins, InserterOK(X, ins), NEW x \in X
    PROVE  LET r == Insert(ins, x, "BeforeCurrentItem") IN
           /\ InserterOK(X, r)
           /\ r.itemIndex = ins.itemIndex + 1
           /\ \E k : /\ Inserted(ins.list, r.list, k, x)
                     /\ k >= Len(ins.list)
<1>1. PICK l, i, b : l = ins.list /\ i = ins.itemIndex /\ b = ins.originalStart
  OBVIOUS
<1>2. l \in Seq(X) /\ i \in Int /\ b \in Nat /\ i >= Len(l) - 1 /\ b <= Len(l)
  BY <1>1 DEF InserterOK
<1>3. PICK l2 : l2 = InsertIn(l, i, x)
  OBVIOUS
<1>4. l2 \in Seq(X) /\ \E k : Inserted(l, l2, k, x) /\ k >= Len(l)
  BY <1>2, <1>3, InsertInIs
<1>5. ins = [list |-> l, itemIndex |-> i, originalStart |-> b]
  BY <1>1 DEF InserterOK
<1>6. Insert(ins, x, "BeforeCurrentItem") =
         [list |-> l2, itemIndex |-> i + 1, originalStart |-> b]
  <2>1. Insert(ins, x, "BeforeCurrentItem") =
          [ins EXCEPT !.list = l2, !.originalStart = b,
                      !.itemIndex = i + 1]
    BY <1>1, <1>3 DEF Insert
  <2> QED
    BY <1>5, <2>1
<1>7. Len(l2) = Len(l) + 1 /\ Len(l) \in Nat
  BY <1>2, <1>4 DEF Inserted
<1> QED
  BY <1>1, <1>2, <1>4, <1>6, <1>7 DEF InserterOK

(* An insertion at the beginning goes behind the earlier ones.             *)
LEMMA InsertFirst ==
    ASSUME NEW X, NEW ins, InserterOK(X, ins), NEW x \in X
    PROVE  LET r == Insert(ins, x, "Beginning") IN
           /\ InserterOK(X, r)
           /\ Inserted(ins.list, r.list, ins.originalStart + 1, x)
<1>1. PICK l, i, b : l = ins.list /\ i = ins.itemIndex /\ b = ins.originalStart
  OBVIOUS
<1>2. l \in Seq(X) /\ i \in Int /\ b \in Nat /\ i >= Len(l) - 1 /\ b <= Len(l)
  BY <1>1 DEF InserterOK
<1>3. PICK l2 : l2 = InsertIn(l, b, x)
  OBVIOUS
<1>4. l2 \in Seq(X) /\ Inserted(l, l2, b + 1, x)
  BY <1>2, <1>3, InsertInIs
<1>5. ins = [list |-> l, itemIndex |-> i, originalStart |-> b]
  BY <1>1 DEF InserterOK
<1>6. Insert(ins, x, "Beginning") =
         [list |-> l2, itemIndex |-> i + 1, originalStart |-> b + 1]
  <2>1. Insert(ins, x, "Beginning") =
          [ins EXCEPT !.list = l2, !.originalStart = b + 1,
                      !.itemIndex = i + 1]
    BY <1>1, <1>3 DEF Insert
  <2> QED
    BY <1>5, <2>1
<1>7. Len(l2) = Len(l) + 1 /\ Len(l) \in Nat
  BY <1>2, <1>4 DEF Inserted
<1> QED
  BY <1>1, <1>2, <1>4, <1>6, <1>7 DEF InserterOK

(* The Inserter after each of the items.                                   *)
Inserts(f, n, ins, items, position) ==
    f = [i \in 0..n |->
            IF i = 0 THEN ins ELSE Insert(f[i - 1], items[i], position)]

(* Inserting one after the other is defined.                               *)
LEMMA InsertAllDefined ==
    ASSUME NEW items, NEW n \in Nat, Len(items) = n, NEW ins, NEW position
    PROVE  \E f : /\ Inserts(f, n, ins, items, position)
                  /\ InsertAll(ins, items, position) = f[n]
<1> DEFINE sizes == {m \in Nat : \E f : Inserts(f, m, ins, items, position)}
<1>1. 0 \in sizes
  <2>1. Inserts([i \in 0..0 |-> ins], 0, ins, items, position)
    BY DEF Inserts
  <2> QED
    BY <2>1
<1>2. ASSUME NEW m \in Nat, m \in sizes PROVE m + 1 \in sizes
  <2>1. PICK f : Inserts(f, m, ins, items, position)
    BY <1>2
  <2>2. PICK last : last = Insert(f[m], items[m + 1], position)
    OBVIOUS
  <2> DEFINE g == [i \in 0..(m + 1) |-> IF i = m + 1 THEN last ELSE f[i]]
  <2>3. ASSUME NEW i \in 0..(m + 1)
        PROVE  g[i] = IF i = 0 THEN ins
                      ELSE Insert(g[i - 1], items[i], position)
    <3>1. CASE i = m + 1
      BY <2>2, <3>1
    <3>2. CASE i # m + 1
      <4>1. i \in 0..m /\ g[i] = f[i] /\ (i # 0 => g[i - 1] = f[i - 1])
        BY <3>2
      <4>2. f[i] = IF i = 0 THEN ins
                   ELSE Insert(f[i - 1], items[i], position)
        BY <2>1, <4>1, Zenon DEF Inserts
      <4> QED
        BY <4>1, <4>2, Zenon
    <3> QED
      BY <3>1, <3>2
  <2>4. Inserts(g, m + 1, ins, items, position)
    BY <2>3 DEF Inserts
  <2> QED
    BY <2>4
<1>3. \A m \in Nat : m \in sizes
  BY <1>1, <1>2, AllNumbers
<1> DEFINE f[i \in 0..Len(items)] ==
             IF i = 0 THEN ins ELSE Insert(f[i - 1], items[i], position)
<1>4. InsertAll(ins, items, position) = f[n]
  BY DEF InsertAll
<1>5. f = CHOOSE g : Inserts(g, n, ins, items, position)
  BY DEF Inserts
<1>6. \E g : Inserts(g, n, ins, items, position)
  BY <1>3
<1>7. Inserts(f, n, ins, items, position)
  BY <1>5, <1>6
<1> QED
  BY <1>4, <1>7

(* No, one or two items are inserted.                                      *)
LEMMA InsertLen0 ==
    ASSUME NEW ins, NEW position, NEW s, Len(s) = 0
    PROVE  InsertAll(ins, s, position) = ins
<1>2. Len(s) = 0 /\ 0 \in Nat
  OBVIOUS
<1>2a. PICK n \in Nat : n = 0 /\ Len(s) = n
  BY <1>2
<1>2b. Len(s) = n
  BY <1>2a
<1>2c. PICK f : /\ Inserts(f, n, ins, s, position)
                /\ InsertAll(ins, s, position) = f[n]
  BY <1>2b, InsertAllDefined
<1>3. /\ Inserts(f, 0, ins, s, position)
      /\ InsertAll(ins, s, position) = f[0]
  BY <1>2a, <1>2c, Zenon
<1>4. f[0] = ins
  BY <1>3 DEF Inserts
<1> QED
  BY <1>3, <1>4, Zenon

(* InsertAll of one item is one insert.                                    *)
LEMMA InsertLen1 ==
    ASSUME NEW ins, NEW position, NEW x, NEW s, Len(s) = 1, s[1] = x
    PROVE  InsertAll(ins, s, position) = Insert(ins, x, position)
<1>2. Len(s) = 1 /\ s[1] = x /\ 1 \in Nat
  OBVIOUS
<1>2a. PICK n \in Nat : n = 1 /\ Len(s) = n
  BY <1>2
<1>2b. Len(s) = n
  BY <1>2a
<1>2c. PICK f : /\ Inserts(f, n, ins, s, position)
                /\ InsertAll(ins, s, position) = f[n]
  BY <1>2b, InsertAllDefined
<1>3. /\ Inserts(f, 1, ins, s, position)
      /\ InsertAll(ins, s, position) = f[1]
  BY <1>2a, <1>2c, Zenon
<1>4. f[0] = ins
  BY <1>3 DEF Inserts
<1>5. f[1] = Insert(f[0], s[1], position)
  BY <1>3 DEF Inserts
<1> QED
  BY <1>2, <1>3, <1>4, <1>5, Zenon

(* InsertAll of two items is two inserts.                                  *)
LEMMA InsertLen2 ==
    ASSUME NEW ins, NEW position, NEW x, NEW y, NEW s, Len(s) = 2, s[1] = x,
           s[2] = y
    PROVE  InsertAll(ins, s, position) =
              Insert(Insert(ins, x, position), y, position)
<1>2. Len(s) = 2 /\ s[1] = x /\ s[2] = y /\ 2 \in Nat
  OBVIOUS
<1>2a. PICK n \in Nat : n = 2 /\ Len(s) = n
  BY <1>2
<1>2b. Len(s) = n
  BY <1>2a
<1>2c. PICK f : /\ Inserts(f, n, ins, s, position)
                /\ InsertAll(ins, s, position) = f[n]
  BY <1>2b, InsertAllDefined
<1>3. /\ Inserts(f, 2, ins, s, position)
      /\ InsertAll(ins, s, position) = f[2]
  BY <1>2a, <1>2c, Zenon
<1>4. f[0] = ins
  BY <1>3 DEF Inserts
<1>5. f[1] = Insert(f[0], s[1], position)
  BY <1>3 DEF Inserts
<1>6. f[2] = Insert(f[1], s[2], position)
  BY <1>3 DEF Inserts
<1> QED
  BY <1>2, <1>3, <1>4, <1>5, <1>6, Zenon

(* The same, with the items given.                                         *)
LEMMA InsertNothing ==
    ASSUME NEW ins, NEW position, NEW s, s = <<>>
    PROVE  InsertAll(ins, s, position) = ins
<1>1. Len(s) = 0
  OBVIOUS
<1> QED
  BY <1>1, InsertLen0, Zenon

(* The same for the list of one item that a process() gives.               *)
LEMMA InsertOneItem ==
    ASSUME NEW ins, NEW position, NEW x, NEW s, s = <<x>>
    PROVE  InsertAll(ins, s, position) = Insert(ins, x, position)
<1>1. Len(s) = 1 /\ s[1] = x
  OBVIOUS
<1> QED
  BY <1>1, InsertLen1, Zenon

(* The same for the list of two.                                           *)
LEMMA InsertTwoItems ==
    ASSUME NEW ins, NEW position, NEW x, NEW y, NEW s, s = <<x, y>>
    PROVE  InsertAll(ins, s, position) =
              Insert(Insert(ins, x, position), y, position)
<1>1. Len(s) = 2 /\ s[1] = x /\ s[2] = y
  OBVIOUS
<1> QED
  BY <1>1, InsertLen2, Zenon

-----------------------------------------------------------------------------
(* Counting the items that can become a string.                            *)
One(x) == IF IsTyping(x) THEN 1 ELSE 0
TypingAt(s) == {i \in 1..Len(s) : IsTyping(s[i])}

(* A list has finitely many items that can become strings.                 *)
LEMMA CountType ==
    ASSUME NEW X, NEW s \in Seq(X)
    PROVE  /\ IsFiniteSet(TypingAt(s)) /\ Count(s) = Cardinality(TypingAt(s))
           /\ Count(s) \in Nat
<1>1. PICK n \in Nat : n = Len(s)
  OBVIOUS
<1>2. IsFiniteSet(1..n)
  BY FS_Interval
<1>3. TypingAt(s) \in SUBSET (1..n)
  BY <1>1 DEF TypingAt
<1>4. IsFiniteSet(TypingAt(s))
  BY <1>2, <1>3, FS_Subset
<1>5. Count(s) = Cardinality(TypingAt(s))
  BY DEF Count, TypingAt
<1> QED
  BY <1>4, <1>5, FS_CardinalityType

(* The items of two lists add up.                                          *)
LEMMA CountConcat ==
    ASSUME NEW X, NEW s \in Seq(X), NEW t \in Seq(X)
    PROVE  Count(s \o t) = Count(s) + Count(t)
<1>1. PICK n \in Nat, m \in Nat : n = Len(s) /\ m = Len(t)
  OBVIOUS
<1>2. PICK r : r = s \o t
  OBVIOUS
<1>3. /\ r \in Seq(X) /\ Len(r) = n + m
      /\ \A p \in 1..n : r[p] = s[p]
      /\ \A p \in 1..m : r[n + p] = t[p]
  BY <1>1, <1>2, ConcatIs
<1> DEFINE A == TypingAt(s)
           B == TypingAt(t)
           C == {n + i : i \in B}
           f == [i \in B |-> n + i]
<1>4. A \subseteq 1..n /\ B \subseteq 1..m
  BY <1>1 DEF TypingAt
<1>5. TypingAt(r) = A \cup C
  <2>1. ASSUME NEW i \in TypingAt(r) PROVE i \in A \cup C
    <3>1. i \in 1..(n + m) /\ IsTyping(r[i])
      BY <1>3, <2>1 DEF TypingAt
    <3>2. CASE i <= n
      <4>1. i \in 1..n /\ IsTyping(s[i])
        BY <1>3, <3>1, <3>2
      <4> QED
        BY <1>1, <4>1 DEF TypingAt
    <3>3. CASE i > n
      <4>1. PICK p \in 1..m : i = n + p
        BY <3>1, <3>3
      <4>2. IsTyping(t[p])
        BY <1>3, <3>1, <4>1
      <4>3. p \in B
        BY <1>1, <4>2 DEF TypingAt
      <4> QED
        BY <4>1, <4>3
    <3> QED
      BY <3>1, <3>2, <3>3
  <2>2. ASSUME NEW i \in A PROVE i \in TypingAt(r)
    <3>1. i \in 1..n /\ IsTyping(s[i])
      BY <1>1 DEF TypingAt
    <3>2. i \in 1..(n + m) /\ IsTyping(r[i])
      BY <1>3, <3>1
    <3> QED
      BY <1>3, <3>2 DEF TypingAt
  <2>3. ASSUME NEW i \in C PROVE i \in TypingAt(r)
    <3>1. PICK p \in B : i = n + p
      BY <2>3
    <3>2. p \in 1..m /\ IsTyping(t[p])
      BY <1>1 DEF TypingAt
    <3>3. i \in 1..(n + m) /\ IsTyping(r[i])
      BY <1>3, <3>1, <3>2
    <3> QED
      BY <1>3, <3>3 DEF TypingAt
  <2> QED
    BY <2>1, <2>2, <2>3
<1>6. A \cap C = {}
  <2> SUFFICES ASSUME NEW i \in A, i \in C PROVE FALSE
    OBVIOUS
  <2>1. PICK p \in B : i = n + p
    OBVIOUS
  <2> QED
    BY <1>4, <2>1
<1>7. /\ IsFiniteSet(A) /\ Count(s) = Cardinality(A) /\ Count(s) \in Nat
      /\ IsFiniteSet(B) /\ Count(t) = Cardinality(B) /\ Count(t) \in Nat
      /\ Count(r) = Cardinality(TypingAt(r))
  BY <1>3, CountType
<1>8. ExistsBijection(B, C)
  <2>1. f \in [B -> C]
    OBVIOUS
  <2>2. ASSUME NEW i \in B, NEW j \in B, f[i] = f[j] PROVE i = j
    BY <1>4, <2>2
  <2>3. \A c \in C : \E i \in B : f[i] = c
    OBVIOUS
  <2>4. f \in Bijection(B, C)
    BY <2>1, <2>2, <2>3
    DEF Bijection, Injection, Surjection, IsInjective
  <2> QED
    BY <2>4 DEF ExistsBijection
<1>9. IsFiniteSet(C) /\ Cardinality(C) = Count(t)
  BY <1>7, <1>8, FS_Bijection
<1>10. Cardinality(A \cup C) =
         Cardinality(A) + Cardinality(C) - Cardinality(A \cap C)
  BY <1>7, <1>9, FS_Union
<1>11. Cardinality(A \cap C) = 0
  BY <1>6, FS_EmptySet
<1> QED
  BY <1>2, <1>5, <1>7, <1>9, <1>10, <1>11

(* The count of an appended item.                                          *)
LEMMA CountAppend ==
    ASSUME NEW X, NEW s \in Seq(X), NEW x \in X
    PROVE  Count(Append(s, x)) = Count(s) + One(x)
<1>1. PICK o : o = <<x>>
  OBVIOUS
<1>2. o \in Seq(X) /\ Len(o) = 1 /\ o[1] = x
  BY <1>1
<1>3. Append(s, x) = s \o o
  BY <1>1, AppendIs
<1>4. Count(s \o o) = Count(s) + Count(o)
  BY <1>2, CountConcat
<1>5. Count(o) = One(x)
  <2>1. CASE IsTyping(x)
    <3>1. TypingAt(o) = {1}
      BY <1>2, <2>1 DEF TypingAt
    <3> QED
      BY <1>2, <2>1, <3>1, CountType, FS_Singleton DEF One
  <2>2. CASE ~IsTyping(x)
    <3>1. TypingAt(o) = {}
      BY <1>2, <2>2 DEF TypingAt
    <3> QED
      BY <1>2, <2>2, <3>1, CountType, FS_EmptySet DEF One
  <2> QED
    BY <2>1, <2>2
<1> QED
  BY <1>3, <1>4, <1>5

(* A sequence is what is before a position and what is from there on.      *)
LEMMA Parted ==
    ASSUME NEW X, NEW s \in Seq(X), NEW k \in 1..(Len(s) + 1)
    PROVE  /\ SubSeq(s, 1, k - 1) \in Seq(X) /\ From(s, k) \in Seq(X)
           /\ Len(From(s, k)) = Len(s) + 1 - k
           /\ \A i \in 1..Len(From(s, k)) : From(s, k)[i] = s[k - 1 + i]
           /\ s = SubSeq(s, 1, k - 1) \o From(s, k)
<1>1. PICK n \in Nat : n = Len(s)
  OBVIOUS
<1>2. PICK a, b : a = SubSeq(s, 1, k - 1) /\ b = SubSeq(s, k, n)
  OBVIOUS
<1>3. /\ a \in Seq(X) /\ Len(a) = k - 1
      /\ \A i \in 1..(k - 1) : a[i] = s[i]
  BY <1>1, <1>2
<1>4. /\ b \in Seq(X) /\ Len(b) = n + 1 - k
      /\ \A i \in 1..(n + 1 - k) : b[i] = s[k - 1 + i]
  BY <1>1, <1>2
<1>5. b = From(s, k)
  BY <1>1, <1>2 DEF From
<1>6. PICK r : r = a \o b
  OBVIOUS
<1>6a. a \in Seq(X) /\ b \in Seq(X)
  BY <1>3, <1>4
<1>7. /\ r \in Seq(X) /\ Len(r) = Len(a) + Len(b)
      /\ \A p \in 1..Len(a) : r[p] = a[p]
      /\ \A p \in 1..Len(b) : r[Len(a) + p] = b[p]
  BY <1>6, <1>6a, ConcatIs
<1>8. Len(r) = n
  BY <1>1, <1>3, <1>4, <1>7
<1>9. ASSUME NEW i \in 1..n PROVE r[i] = s[i]
  <2>1. CASE i <= k - 1
    BY <1>3, <1>7, <2>1
  <2>2. CASE i > k - 1
    <3>1. PICK p \in 1..(n + 1 - k) : i = k - 1 + p
      BY <2>2, <1>1
    <3> QED
      BY <1>3, <1>4, <1>7, <3>1
  <2> QED
    BY <2>1, <2>2, <1>1
<1>10. r = s
  BY <1>1, <1>7, <1>8, <1>9, SameItems
<1> QED
  BY <1>1, <1>2, <1>3, <1>4, <1>5, <1>6, <1>10, Zenon

(* The count of what is left of a sequence.                                *)
LEMMA CountFrom ==
    ASSUME NEW X, NEW s \in Seq(X), NEW k \in 1..(Len(s) + 1)
    PROVE  /\ Count(From(s, k)) <= Count(s)
           /\ k <= Len(s) => Count(From(s, k)) =
                                One(s[k]) + Count(From(s, k + 1))
<1>1. PICK n \in Nat : n = Len(s)
  OBVIOUS
<1>2. PICK a, b : a = SubSeq(s, 1, k - 1) /\ b = From(s, k)
  OBVIOUS
<1>3. /\ a \in Seq(X) /\ b \in Seq(X) /\ s = a \o b /\ Len(b) = n + 1 - k
      /\ \A i \in 1..Len(b) : b[i] = s[k - 1 + i]
  <2>1. /\ SubSeq(s, 1, k - 1) \in Seq(X) /\ From(s, k) \in Seq(X)
        /\ Len(From(s, k)) = Len(s) + 1 - k
        /\ \A i \in 1..Len(From(s, k)) : From(s, k)[i] = s[k - 1 + i]
        /\ s = SubSeq(s, 1, k - 1) \o From(s, k)
    BY Parted, Zenon
  <2> QED
    BY <1>1, <1>2, <2>1, Zenon
<1>4. Count(s) = Count(a) + Count(b)
  BY <1>3, CountConcat, Zenon
<1>5. Count(a) \in Nat /\ Count(b) \in Nat /\ Count(s) \in Nat
  BY <1>3, CountType
<1>6. ASSUME k <= n PROVE Count(b) = One(s[k]) + Count(From(s, k + 1))
  <2>1. PICK x : x = s[k]
    OBVIOUS
  <2>1a. PICK c : c = From(s, k + 1)
    OBVIOUS
  <2>1b. PICK e : e = <<>>
    OBVIOUS
  <2>1c. PICK o : o = Append(e, x)
    OBVIOUS
  <2>2. /\ c \in Seq(X) /\ Len(c) = n - k
        /\ \A i \in 1..Len(c) : c[i] = s[k + i]
    <3>1. PICK j \in 1..(Len(s) + 1) : j = k + 1
      BY <1>1, <1>6
    <3>2. /\ From(s, j) \in Seq(X) /\ Len(From(s, j)) = Len(s) + 1 - j
          /\ \A i \in 1..Len(From(s, j)) : From(s, j)[i] = s[j - 1 + i]
      BY <3>1, Parted
    <3>3. c = From(s, j)
      BY <2>1a, <3>1, Zenon
    <3>4. /\ c \in Seq(X) /\ Len(c) = Len(s) + 1 - j
          /\ \A i \in 1..Len(c) : c[i] = s[j - 1 + i]
      BY <3>2, <3>3, Zenon
    <3>4a. c \in Seq(X) /\ Len(c) = Len(s) + 1 - j
      BY <3>4, Zenon
    <3>4b. c \in Seq(X)
      BY <3>4a, Zenon
    <3>4c. Len(c) \in Nat
      BY <3>4b
    <3>5. PICK m \in Nat : m = Len(c)
      BY <3>4c, Zenon
    <3>6. m = n - k
      BY <1>1, <3>1, <3>4a, <3>5
    <3>7. ASSUME NEW i \in 1..m PROVE c[i] = s[k + i]
      <4>1. j - 1 + i = k + i
        BY <3>1
      <4>2. c[i] = s[j - 1 + i]
        BY <3>4, <3>5, Zenon
      <4> QED
        BY <4>1, <4>2, Zenon
    <3> QED
      BY <3>4, <3>5, <3>6, <3>7, Zenon
  <2>3. x \in X /\ o \in Seq(X) /\ Len(o) = 1 /\ o[1] = x
    BY <1>1, <1>6, <2>1, <2>1b, <2>1c
  <2>3a. e \in Seq(X)
    BY <2>1b
  <2>4. Count(o) = Count(e) + One(x)
    BY <2>1c, <2>3, <2>3a, CountAppend
  <2>5. Count(e) = 0
    <3>1. TypingAt(e) = {}
      BY <2>1b DEF TypingAt
    <3>2. Count(e) = Cardinality(TypingAt(e))
      BY DEF Count, TypingAt
    <3> QED
      BY <3>1, <3>2, FS_EmptySet
  <2>6. PICK r : r = o \o c
    OBVIOUS
  <2>7. /\ r \in Seq(X) /\ Len(r) = 1 + Len(c) /\ r[1] = x
        /\ \A p \in 1..Len(c) : r[1 + p] = c[p]
    <3>1. /\ r \in Seq(X) /\ Len(r) = Len(o) + Len(c)
          /\ \A p \in 1..Len(o) : r[p] = o[p]
          /\ \A p \in 1..Len(c) : r[Len(o) + p] = c[p]
      <4>1. o \in Seq(X) /\ c \in Seq(X)
        BY <2>2, <2>3
      <4> QED
        BY <2>6, <4>1, ConcatIs
    <3> QED
      BY <2>3, <3>1
  <2>8. ASSUME NEW i \in 1..Len(b) PROVE r[i] = b[i]
    <3>1. b[i] = s[k - 1 + i] /\ i \in 1..(n + 1 - k)
      BY <1>3
    <3>2. CASE i = 1
      BY <1>1, <2>1, <2>7, <3>1, <3>2
    <3>3. CASE i # 1
      <4>1. PICK p \in 1..Len(c) : i = 1 + p /\ k - 1 + i = k + p
        BY <1>1, <2>2, <3>1, <3>3
      <4> QED
        BY <2>2, <2>7, <3>1, <4>1
    <3> QED
      BY <3>2, <3>3
  <2>9. Len(r) = Len(b)
    BY <1>1, <1>3, <2>2, <2>7
  <2>10. r = b
    BY <1>3, <2>7, <2>8, <2>9, SameItems
  <2>11. Count(b) = Count(o) + Count(c)
    BY <2>2, <2>3, <2>6, <2>10, CountConcat
  <2>12. One(x) \in Nat /\ Count(c) \in Nat
    BY <2>2, CountType DEF One
  <2> QED
    BY <2>1, <2>1a, <2>4, <2>5, <2>11, <2>12
<1>7. Count(b) <= Count(s)
  BY <1>4, <1>5
<1> QED
  BY <1>1, <1>2, <1>6, <1>7

(* The count of both parts of a sequence.                                  *)
LEMMA CountParted ==
    ASSUME NEW X, NEW s \in Seq(X), NEW k \in 1..(Len(s) + 1)
    PROVE  Count(s) = Count(SubSeq(s, 1, k - 1)) + Count(From(s, k))
<1>1. PICK a, b : a = SubSeq(s, 1, k - 1) /\ b = From(s, k)
  OBVIOUS
<1>2. a \in Seq(X) /\ b \in Seq(X) /\ s = a \o b
  <2>1. /\ SubSeq(s, 1, k - 1) \in Seq(X) /\ From(s, k) \in Seq(X)
        /\ s = SubSeq(s, 1, k - 1) \o From(s, k)
    BY Parted, Zenon
  <2> QED
    BY <1>1, <2>1, Zenon
<1>3. Count(a \o b) = Count(a) + Count(b)
  BY <1>2, CountConcat
<1> QED
  BY <1>1, <1>2, <1>3, Zenon

(* The count of an inserted item.                                          *)
LEMMA CountInserted ==
    ASSUME NEW X, NEW l \in Seq(X), NEW m \in Seq(X), NEW x, NEW k,
           Inserted(l, m, k, x)
    PROVE  Count(m) = Count(l) + One(x)
<1>1. PICK n \in Nat : n = Len(l)
  OBVIOUS
<1>2. /\ k \in 1..(n + 1) /\ Len(m) = n + 1
      /\ \A i \in 1..(n + 1) :
            m[i] = IF i < k THEN l[i] ELSE IF i = k THEN x ELSE l[i - 1]
  BY <1>1 DEF Inserted
<1>3. SubSeq(m, 1, k - 1) = SubSeq(l, 1, k - 1)
  <2>1. PICK a, b : a = SubSeq(m, 1, k - 1) /\ b = SubSeq(l, 1, k - 1)
    OBVIOUS
  <2>2. /\ a \in Seq(X) /\ Len(a) = k - 1
        /\ \A i \in 1..(k - 1) : a[i] = m[i]
    BY <1>2, <2>1
  <2>3. /\ b \in Seq(X) /\ Len(b) = k - 1
        /\ \A i \in 1..(k - 1) : b[i] = l[i]
    BY <1>1, <1>2, <2>1
  <2>4. \A i \in 1..(k - 1) : a[i] = b[i]
    BY <1>2, <2>2, <2>3
  <2> QED
    BY <2>1, <2>2, <2>3, <2>4, SameItems
<1>4. From(m, k + 1) = From(l, k)
  <2>1. PICK a, b : a = SubSeq(m, k + 1, n + 1) /\ b = SubSeq(l, k, n)
    OBVIOUS
  <2>2. /\ a \in Seq(X) /\ Len(a) = n + 1 - k
        /\ \A i \in 1..(n + 1 - k) : a[i] = m[k + i]
    BY <1>2, <2>1
  <2>3. /\ b \in Seq(X) /\ Len(b) = n + 1 - k
        /\ \A i \in 1..(n + 1 - k) : b[i] = l[k - 1 + i]
    <3>1. k \in 1..(Len(l) + 1) /\ b = From(l, k)
      BY <1>1, <1>2, <2>1, Zenon DEF From
    <3>2. /\ From(l, k) \in Seq(X) /\ Len(From(l, k)) = Len(l) + 1 - k
          /\ \A i \in 1..Len(From(l, k)) : From(l, k)[i] = l[k - 1 + i]
      BY <3>1, Parted, Zenon
    <3> QED
      BY <1>1, <3>1, <3>2, Zenon
  <2>4. ASSUME NEW i \in 1..(n + 1 - k) PROVE a[i] = b[i]
    <3>1. PICK j \in 1..(n + 1) : j = k + i /\ j - 1 = k - 1 + i /\ j > k
      BY <1>2
    <3>2. m[j] = l[j - 1]
      BY <1>2, <3>1
    <3> QED
      BY <2>2, <2>3, <3>1, <3>2
  <2>5. a = b
    BY <2>2, <2>3, <2>4, SameItems
  <2>6. From(m, k + 1) = a /\ From(l, k) = b
    BY <1>1, <1>2, <2>1 DEF From
  <2> QED
    BY <2>5, <2>6, Zenon
<1>5. k \in 1..(Len(m) + 1) /\ k \in 1..(Len(l) + 1) /\ k <= Len(m)
  BY <1>1, <1>2
<1>6. Count(m) = Count(SubSeq(m, 1, k - 1)) + Count(From(m, k))
  BY <1>5, CountParted
<1>7. Count(l) = Count(SubSeq(l, 1, k - 1)) + Count(From(l, k))
  BY <1>5, CountParted
<1>8. Count(From(m, k)) = One(m[k]) + Count(From(m, k + 1))
  BY <1>5, CountFrom
<1>9. m[k] = x
  BY <1>2
<1>10. PICK c, d, e, f, o : /\ c = Count(SubSeq(l, 1, k - 1))
                            /\ d = Count(From(l, k)) /\ e = Count(m)
                            /\ f = Count(From(m, k)) /\ o = One(x)
  OBVIOUS
<1>11. e = c + f /\ f = o + d /\ Count(l) = c + d
  BY <1>3, <1>4, <1>6, <1>7, <1>8, <1>9, <1>10, Zenon
<1>12. c \in Nat /\ d \in Nat /\ o \in Nat
  <2>1. SubSeq(l, 1, k - 1) \in Seq(X) /\ From(l, k) \in Seq(X)
    BY <1>5, Parted
  <2> QED
    BY <1>10, <2>1, CountType DEF One
<1> QED
  BY <1>10, <1>11, <1>12

-----------------------------------------------------------------------------
(* What is left of what is left.                                           *)
LEMMA FromFrom ==
    ASSUME NEW X, NEW s \in Seq(X), NEW a \in 1..(Len(s) + 1),
           NEW b \in 1..(Len(s) + 2 - a)
    PROVE  From(From(s, a), b) = From(s, a + b - 1)
<1>1. PICK n \in Nat : n = Len(s)
  OBVIOUS
<1>2. PICK t : t = From(s, a)
  OBVIOUS
<1>3. /\ t \in Seq(X) /\ Len(t) = Len(s) + 1 - a
      /\ \A i \in 1..Len(t) : t[i] = s[a - 1 + i]
  BY <1>2, Parted
<1>4. PICK c \in 1..(n + 1) : c = a + b - 1
  BY <1>1
<1>5. PICK u : u = From(s, c)
  OBVIOUS
<1>6. /\ u \in Seq(X) /\ Len(u) = Len(s) + 1 - c
      /\ \A i \in 1..Len(u) : u[i] = s[c - 1 + i]
  BY <1>1, <1>5, Parted
<1>7. PICK v : v = From(t, b)
  OBVIOUS
<1>8a. t \in Seq(X) /\ Len(t) = n + 1 - a
  BY <1>1, <1>3
<1>8b. b \in 1..(Len(t) + 1)
  BY <1>1, <1>8a
<1>8. /\ v \in Seq(X) /\ Len(v) = Len(t) + 1 - b
      /\ \A i \in 1..Len(v) : v[i] = t[b - 1 + i]
  BY <1>7, <1>8a, <1>8b, Parted
<1>9. PICK m : m = n + 1 - c
  OBVIOUS
<1>10. m \in Nat /\ m = n + 2 - a - b
  BY <1>1, <1>4, <1>9
<1>11. Len(u) = m /\ Len(v) = m
  <2>1. Len(u) = Len(s) + 1 - c /\ Len(v) = Len(t) + 1 - b
    BY <1>6, <1>8, Zenon
  <2> QED
    BY <1>1, <1>8a, <1>9, <1>10, <2>1
<1>12. ASSUME NEW i \in 1..m PROVE v[i] = u[i]
  <2>1. b - 1 + i \in 1..Len(t) /\ a - 1 + (b - 1 + i) = c - 1 + i
    BY <1>1, <1>4, <1>8a, <1>10
  <2>2. v[i] = t[b - 1 + i]
    BY <1>8, <1>11, Zenon
  <2>3. t[b - 1 + i] = s[a - 1 + (b - 1 + i)]
    BY <1>3, <2>1, Zenon
  <2>4. u[i] = s[c - 1 + i]
    BY <1>6, <1>11, Zenon
  <2> QED
    BY <2>1, <2>2, <2>3, <2>4, Zenon
<1>13. u = v
  <2>1. u \in Seq(X) /\ v \in Seq(X) /\ Len(u) = Len(v)
    BY <1>6, <1>8, <1>11, Zenon
  <2>2. \A i \in 1..Len(v) : u[i] = v[i]
    BY <1>11, <1>12, Zenon
  <2> QED
    BY <2>1, <2>2, SameItems
<1> QED
  BY <1>2, <1>4, <1>5, <1>7, <1>13, Zenon

(* The tail is what is left from the second position on.                   *)
LEMMA TailIs ==
    ASSUME NEW X, NEW s \in Seq(X), s # <<>>
    PROVE  /\ Tail(s) = From(s, 2) /\ Head(s) = s[1] /\ Head(s) \in X
           /\ Tail(s) \in Seq(X) /\ Len(Tail(s)) = Len(s) - 1
           /\ 2 \in 1..(Len(s) + 1)
           /\ \A i \in 1..(Len(s) - 1) : Tail(s)[i] = s[i + 1]
BY DEF From

(* Records of items.                                                       *)
LEMMA NoNameType == NoName \in Names
BY DEF NoName, Name, Names

(* What an item of the early passes is.                                    *)
LEMMA BareType ==
    ASSUME NEW T, NEW x \in BareIn(T)
    PROVE  /\ x \in Item /\ x.method \in Methods /\ x.method # "msec"
           /\ IsValid(x)
           /\ x.target \in T \cup {NoTarget}
           /\ x.n \in Nat
           /\ \A m \in Nat : [x EXCEPT !.n = m] \in BareIn(T)
BY DEF BareIn, NoArgIn, ItemIn, Item, Methods, IsValid

ItemOf(method, t, text, var, arg) ==
    [method |-> method, target |-> t, key |-> "none", modified |-> FALSE,
     n |-> 0, text |-> text, var |-> var, arg |-> arg]

(* A record of eight fields has the type of its fields.                    *)
LEMMA RecordType ==
    ASSUME NEW A, NEW a \in A, NEW B, NEW b \in B, NEW C, NEW c \in C,
           NEW D, NEW d \in D, NEW E, NEW e \in E, NEW F, NEW f \in F,
           NEW G, NEW g \in G, NEW h \in G
    PROVE  [method |-> a, target |-> b, key |-> c, modified |-> d, n |-> e,
            text |-> f, var |-> g, arg |-> h]
             \in [method : A, target : B, key : C, modified : D, n : E,
                  text : F, var : G, arg : G]
OBVIOUS

(* An item made of typed fields is an Item.                                *)
LEMMA ItemOfType ==
    ASSUME NEW method \in Methods, NEW t \in Targets \cup {NoTarget},
           NEW text \in Seq(Nat), NEW var \in Names, NEW arg \in Names
    PROVE  ItemOf(method, t, text, var, arg) \in Item
<1>1. "none" \in {"none", "text", "back"}
  OBVIOUS
<1>2. FALSE \in BOOLEAN
  OBVIOUS
<1>3. 0 \in Nat
  OBVIOUS
<1> QED
  BY <1>1, <1>2, <1>3, RecordType, Zenon DEF ItemOf, Item

(* An item's fields are what it was made of.                               *)
LEMMA ItemOfFields ==
    ASSUME NEW method, NEW t, NEW text, NEW var, NEW arg,
           NEW x, x = ItemOf(method, t, text, var, arg)
    PROVE  /\ x.method = method /\ x.target = t /\ x.text = text
           /\ x.var = var /\ x.arg = arg
BY DEF ItemOf

(* An item without names is one of the early passes.                       *)
LEMMA BareItemOf ==
    ASSUME NEW method \in Methods \ {"string", "object", "msleep"},
           NEW T \in SUBSET Targets, NEW t \in T \cup {NoTarget},
           NEW text \in Seq(Nat), NEW x,
           x = ItemOf(method, t, text, NoName, NoName)
    PROVE  x \in BareIn(T)
<1>1. method \in Methods /\ t \in Targets \cup {NoTarget}
  OBVIOUS
<1>2. x \in Item
  BY <1>1, NoNameType, ItemOfType
<1>3. x.method = method /\ x.target = t /\ x.var = NoName /\ x.arg = NoName
  BY ItemOfFields
<1> QED
  BY <1>2, <1>3 DEF BareIn, NoArgIn, ItemIn

(* The sendText of SimplifyStrings is such an item.                        *)
LEMMA SentType ==
    ASSUME NEW T \in SUBSET Targets, NEW t \in T \cup {NoTarget},
           NEW text \in Seq(Nat)
    PROVE  [NoItem EXCEPT !.method = "sendText", !.target = t,
                          !.text = text] \in BareIn(T)
<1>1. PICK m \in Methods \ {"string", "object", "msleep"} : m = "sendText"
  BY DEF Methods
<1>2. PICK x : x = [NoItem EXCEPT !.method = "sendText", !.target = t,
                                  !.text = text]
  OBVIOUS
<1>3. x = ItemOf(m, t, text, NoName, NoName)
  BY <1>1, <1>2 DEF ItemOf, NoItem
<1>4. x \in BareIn(T)
  BY <1>3, BareItemOf
<1> QED
  BY <1>2, <1>4

(* So is a pause, and it can never become a string.                        *)
LEMMA MsleepType ==
    ASSUME NEW T \in SUBSET Targets
    PROVE  Msleep \in BareIn(T) /\ Pause(Msleep) /\ ~IsTyping(Msleep)
<1>1. PICK m, x, e : m = "msleep" /\ x = Msleep /\ e = <<>>
  OBVIOUS
<1>2. x = ItemOf(m, NoTarget, e, NoName, NoName)
  BY <1>1 DEF ItemOf, NoItem, Msleep
<1>3. m \in Methods /\ e \in Seq(Nat) /\ NoTarget \in Targets \cup {NoTarget}
  BY <1>1 DEF Methods
<1>4. x \in Item
  BY <1>2, <1>3, NoNameType, ItemOfType
<1>5. /\ x.method = m /\ x.target = NoTarget
      /\ x.var = NoName /\ x.arg = NoName
  BY <1>2, ItemOfFields
<1> QED
  BY <1>1, <1>4, <1>5 DEF BareIn, NoArgIn, ItemIn, Pause, IsTyping

-----------------------------------------------------------------------------
(* The pairs that are taken are in the list.                               *)
LEMMA PairsIs ==
    ASSUME NEW X, NEW list \in Seq(X), NEW taken,
           NEW r, r = Pairs(list, taken)
    PROVE  /\ r \in Nat /\ 2 * r <= Len(list)
           /\ \A j \in 1..r : list[2 * j] \in taken
<1>1. PICK n \in Nat : n = Len(list)
  OBVIOUS
<1>2. PICK h \in Nat : h = n \div 2 /\ 2 * h <= n
  OBVIOUS
<1> DEFINE S == {q \in 0..h : \A j \in 1..q : list[2 * j] \in taken}
<1>3. r = Max(S)
  BY <1>1, <1>2 DEF Pairs
<1>4. 0 \in S
  BY <1>2
<1>5. S \in SUBSET (0..h) /\ S # {}
  BY <1>4
<1>6. r \in S
  BY <1>2, <1>3, <1>5, MaxIs
<1> QED
  BY <1>1, <1>2, <1>6

(* FilterQtInternals leaves the item and the list, or drops the item.      *)
LEMMA FilterIs ==
    ASSUME NEW T, NEW item \in BareIn(T), NEW list \in Seq(BareIn(T))
    PROVE  FilterQtInternals(item, list) =
              IF item.target \notin Internal
              THEN Processed(item, list, <<>>, <<>>, FALSE)
              ELSE Processed(NoItem, list, <<>>, <<>>, list = <<>>)
<1>1. ASSUME list # <<>> PROVE Head(list).method # "msec"
  <2>1. Head(list) \in BareIn(T)
    BY <1>1
  <2> QED
    BY <2>1, BareType
<1>2. (IF list # <<>> /\ Head(list).method = "msec"
       THEN Tail(list) ELSE list) = list
  BY <1>1
<1> QED
  BY <1>2, Zenon DEF FilterQtInternals, Untouched

(* SkipMouseMovements drops moves and goes on with the event after them.   *)
LEMMA SkipIs ==
    ASSUME NEW X, NEW item \in X, NEW list \in Seq(X), IsMove(item)
    PROVE  \E r \in Nat :
              /\ 2 * r <= Len(list) /\ \A j \in 1..r : IsMove(list[2 * j])
              /\ SkipMouseMovements(item, list) =
                    IF Len(list) = 2 * r
                    THEN Processed(NoItem, <<>>, <<>>, <<>>, FALSE)
                    ELSE IF Len(list) = 2 * r + 1
                    THEN Processed(item, <<>>, <<>>, <<>>, TRUE)
                    ELSE Processed(list[2 * r + 2], From(list, 2 * r + 3),
                                   <<>>, <<>>, FALSE)
<1>1. PICK n \in Nat : n = Len(list)
  OBVIOUS
<1>2. PICK r : r = Pairs(list, Moves(list))
  OBVIOUS
<1>3. /\ r \in Nat /\ 2 * r <= Len(list)
      /\ \A j \in 1..r : list[2 * j] \in Moves(list)
  BY <1>2, PairsIs
<1>4. \A j \in 1..r : IsMove(list[2 * j])
  BY <1>3 DEF Moves
<1>5. r \in Nat /\ 2 * r <= n
  BY <1>1, <1>3
<1>6. PICK k \in 1..(Len(list) + 1) : k = 2 * r + 1
  BY <1>1, <1>5
<1>7. PICK rest : rest = From(list, k)
  OBVIOUS
<1>8. /\ rest \in Seq(X) /\ Len(rest) = Len(list) + 1 - k
      /\ \A i \in 1..Len(rest) : rest[i] = list[k - 1 + i]
  BY <1>7, Parted
<1>9a. rest \in Seq(X) /\ Len(rest) = n - 2 * r
  BY <1>1, <1>5, <1>6, <1>8
<1>9c. n - 2 * r \in Nat
  BY <1>1, <1>5
<1>9b. PICK m \in Nat : m = Len(rest) /\ m = n - 2 * r
  BY <1>9a, <1>9c, Zenon
<1>10. SkipMouseMovements(item, list) =
         IF rest = <<>> THEN Processed(NoItem, <<>>, <<>>, <<>>, FALSE)
         ELSE IF Len(rest) = 1 THEN Processed(item, <<>>, <<>>, <<>>, TRUE)
         ELSE Processed(rest[2], From(rest, 3), <<>>, <<>>, FALSE)
  BY <1>2, <1>6, <1>7, Zenon DEF SkipMouseMovements
<1>11. rest = <<>> <=> n = 2 * r
  BY <1>1, <1>5, <1>9a
<1>12. m = 1 <=> n = 2 * r + 1
  BY <1>5, <1>9b
<1>13. ASSUME m # 0, m # 1
       PROVE  rest[2] = list[2 * r + 2] /\ From(rest, 3) = From(list, 2 * r + 3)
  <2>1. 2 \in 1..Len(rest) /\ k - 1 + 2 = 2 * r + 2 /\ 3 \in 1..(m + 1)
        /\ k + 3 - 1 = 2 * r + 3
    BY <1>5, <1>6, <1>9b, <1>13
  <2>2. rest[2] = list[k - 1 + 2]
    BY <1>8, <2>1, Zenon
  <2>3. 3 \in 1..(Len(list) + 2 - k)
    BY <1>1, <1>5, <1>6, <1>9b, <2>1
  <2>4. From(From(list, k), 3) = From(list, k + 3 - 1)
    BY <2>3, FromFrom
  <2> QED
    BY <1>7, <2>1, <2>2, <2>4, Zenon
<1>14. m = 0 <=> n = 2 * r
  BY <1>5, <1>9b
<1>15. SkipMouseMovements(item, list) =
         IF Len(list) = 2 * r
         THEN Processed(NoItem, <<>>, <<>>, <<>>, FALSE)
         ELSE IF Len(list) = 2 * r + 1
         THEN Processed(item, <<>>, <<>>, <<>>, TRUE)
         ELSE Processed(list[2 * r + 2], From(list, 2 * r + 3),
                        <<>>, <<>>, FALSE)
  BY <1>1, <1>9b, <1>10, <1>11, <1>12, <1>13, <1>14, Zenon
<1> QED
  BY <1>3, <1>4, <1>15, Zenon

(* SimplifyMouseMovements merges moves into one.                           *)
Merges(d, item, list, r, last) ==
    /\ 2 * r <= Len(list) /\ \A j \in 1..r : IsMove(list[2 * j])
    /\ IsMove(last)
    /\ d = IF Len(list) = 2 * r
           THEN Processed(last, <<>>, <<[item EXCEPT !.n = last.n]>>,
                          <<>>, FALSE)
           ELSE Processed(list[2 * r + 1], From(list, 2 * r + 2),
                          <<[item EXCEPT !.n = last.n]>>, <<>>, FALSE)

(* SimplifyMouseMovements merges r moves into the last.                    *)
LEMMA MouseIs ==
    ASSUME NEW X, NEW item \in X, NEW list \in Seq(X), IsMove(item)
    PROVE  \E r \in Nat, last \in X :
              Merges(SimplifyMouseMovements(item, list), item, list, r, last)
<1>1. PICK n \in Nat : n = Len(list)
  OBVIOUS
<1>1a. PICK taken : taken = {e \in Range(list) : SameMove(e, item.target)}
  OBVIOUS
<1>2. PICK r : r = Pairs(list, taken)
  OBVIOUS
<1>3. /\ r \in Nat /\ 2 * r <= Len(list)
      /\ \A j \in 1..r : list[2 * j] \in taken
  BY <1>2, PairsIs
<1>4. \A j \in 1..r : IsMove(list[2 * j])
  BY <1>1a, <1>3 DEF SameMove
<1>5. r \in Nat /\ 2 * r <= n
  BY <1>1, <1>3
<1>6. PICK k \in 1..(Len(list) + 1) : k = 2 * r + 1
  BY <1>1, <1>5
<1>7. PICK rest, last : /\ rest = From(list, k)
                        /\ last = IF r = 0 THEN item ELSE list[2 * r]
  OBVIOUS
<1>8. /\ rest \in Seq(X) /\ Len(rest) = Len(list) + 1 - k
      /\ \A i \in 1..Len(rest) : rest[i] = list[k - 1 + i]
  <2>1. rest = From(list, k)
    BY <1>7
  <2> QED
    BY <2>1, Parted
<1>9a. rest \in Seq(X) /\ Len(rest) = n - 2 * r
  BY <1>1, <1>5, <1>6, <1>8
<1>9c. n - 2 * r \in Nat
  BY <1>1, <1>5
<1>9b. PICK m \in Nat : m = Len(rest) /\ m = n - 2 * r
  BY <1>9a, <1>9c, Zenon
<1>10. SimplifyMouseMovements(item, list) =
         IF rest = <<>>
         THEN Processed(last, <<>>, <<[item EXCEPT !.n = last.n]>>,
                        <<>>, FALSE)
         ELSE Processed(rest[1], Tail(rest), <<[item EXCEPT !.n = last.n]>>,
                        <<>>, FALSE)
  BY <1>1a, <1>2, <1>6, <1>7, Zenon DEF SimplifyMouseMovements
<1>11. rest = <<>> <=> n = 2 * r
  BY <1>1, <1>5, <1>9a
<1>12. last \in X /\ IsMove(last)
  <2>1. CASE r = 0
    BY <1>7, <2>1
  <2>2. CASE r # 0
    <3>1. r \in 1..r /\ 2 * r \in 1..Len(list)
      BY <1>1, <1>5, <2>2
    <3>2. list[2 * r] \in X
      BY <3>1
    <3>3. IsMove(list[2 * r])
      BY <1>4, <3>1, Zenon
    <3> QED
      BY <1>7, <2>2, <3>2, <3>3, Zenon
  <2> QED
    BY <2>1, <2>2
<1>13. ASSUME rest # <<>>
       PROVE  /\ rest[1] = list[2 * r + 1]
              /\ Tail(rest) = From(list, 2 * r + 2)
  <2>1. /\ 1 \in 1..Len(rest) /\ k - 1 + 1 = 2 * r + 1
        /\ 2 \in 1..(m + 1) /\ k + 2 - 1 = 2 * r + 2
    BY <1>5, <1>6, <1>9a, <1>9b, <1>13
  <2>2. rest[1] = list[k - 1 + 1]
    BY <1>8, <2>1, Zenon
  <2>3. 2 \in 1..(Len(list) + 2 - k)
    BY <1>1, <1>5, <1>6, <1>9b, <2>1
  <2>4. From(From(list, k), 2) = From(list, k + 2 - 1)
    BY <2>3, FromFrom
  <2>5. Tail(rest) = From(rest, 2)
    BY <1>9a, <1>13, TailIs
  <2> QED
    BY <1>7, <2>1, <2>2, <2>4, <2>5, Zenon
<1>15. SimplifyMouseMovements(item, list) =
         IF Len(list) = 2 * r
         THEN Processed(last, <<>>, <<[item EXCEPT !.n = last.n]>>,
                        <<>>, FALSE)
         ELSE Processed(list[2 * r + 1], From(list, 2 * r + 2),
                        <<[item EXCEPT !.n = last.n]>>, <<>>, FALSE)
  BY <1>1, <1>10, <1>11, <1>13, Zenon
<1> QED
  BY <1>3, <1>4, <1>12, <1>15, Zenon DEF Merges

(* The texts that SimplifyStrings passes through.                          *)
AtOf(item, list, j) == IF j = 0 THEN item ELSE list[2 * j]
Texts(f, s, item, list) ==
    f = [j \in 0..s |->
            IF j = 0 THEN <<>> ELSE Typed(f[j - 1], AtOf(item, list, j - 1))]

(* The texts exist.                                                        *)
LEMMA TextsExist ==
    ASSUME NEW item, NEW list
    PROVE  \A s \in Nat : \E f : Texts(f, s, item, list)
<1> DEFINE sizes == {m \in Nat : \E f : Texts(f, m, item, list)}
<1>1. 0 \in sizes
  <2>1. Texts([j \in 0..0 |-> <<>>], 0, item, list)
    BY DEF Texts
  <2> QED
    BY <2>1
<1>2. ASSUME NEW m \in Nat, m \in sizes PROVE m + 1 \in sizes
  <2>1. PICK f : Texts(f, m, item, list)
    BY <1>2
  <2>2. PICK last : last = Typed(f[m], AtOf(item, list, m))
    OBVIOUS
  <2> DEFINE g == [j \in 0..(m + 1) |-> IF j = m + 1 THEN last ELSE f[j]]
  <2>3. ASSUME NEW j \in 0..(m + 1)
        PROVE  g[j] = IF j = 0 THEN <<>>
                      ELSE Typed(g[j - 1], AtOf(item, list, j - 1))
    <3>1. CASE j = m + 1
      BY <2>2, <3>1
    <3>2. CASE j # m + 1
      <4>1. j \in 0..m /\ g[j] = f[j] /\ (j # 0 => g[j - 1] = f[j - 1])
        BY <3>2
      <4>2. f[j] = IF j = 0 THEN <<>>
                   ELSE Typed(f[j - 1], AtOf(item, list, j - 1))
        BY <2>1, <4>1, Zenon DEF Texts
      <4> QED
        BY <4>1, <4>2, Zenon
    <3> QED
      BY <3>1, <3>2
  <2>4. Texts(g, m + 1, item, list)
    BY <2>3 DEF Texts
  <2> QED
    BY <2>4
<1>3. \A m \in Nat : m \in sizes
  BY <1>1, <1>2, AllNumbers
<1> QED
  BY <1>3

(* They are sequences of characters, and the first is empty.               *)
LEMMA TypedType ==
    ASSUME NEW text \in Seq(Nat), NEW e, e.n \in Nat
    PROVE  Typed(text, e) \in Seq(Nat)
<1>1. Append(text, e.n) \in Seq(Nat)
  OBVIOUS
<1>2. text # <<>> => SubSeq(text, 1, Len(text) - 1) \in Seq(Nat)
  OBVIOUS
<1> QED
  BY <1>1, <1>2, Zenon DEF Typed, Front

(* The text that was typed is a list of characters, and is empty before    *)
(* the first key.                                                          *)
LEMMA TextsType ==
    ASSUME NEW T, NEW item \in BareIn(T), NEW list \in Seq(BareIn(T)),
           NEW s \in Nat, 2 * s <= Len(list), NEW f, Texts(f, s, item, list)
    PROVE  f[s] \in Seq(Nat) /\ (f[s] # <<>> => s # 0)
<1> DEFINE S == {m \in Nat : m <= s => f[m] \in Seq(Nat)}
<1>1. f[0] = <<>>
  BY DEF Texts
<1>1a. <<>> \in Seq(Nat) /\ 0 \in Nat
  OBVIOUS
<1>2. 0 \in S
  BY <1>1, <1>1a, Zenon
<1>3. ASSUME NEW m \in Nat, m \in S PROVE m + 1 \in S
  <2> SUFFICES ASSUME m + 1 <= s PROVE f[m + 1] \in Seq(Nat)
    OBVIOUS
  <2>1. PICK j \in 0..s : j = m + 1 /\ j - 1 = m /\ j # 0
    OBVIOUS
  <2>2. f[j] = Typed(f[j - 1], AtOf(item, list, j - 1))
    BY <2>1, Zenon DEF Texts
  <2>3. PICK e : e = AtOf(item, list, m)
    OBVIOUS
  <2>4. e \in BareIn(T)
    <3>1. CASE m = 0
      BY <2>3, <3>1 DEF AtOf
    <3>2. CASE m # 0
      <4>1. 2 * m \in 1..Len(list)
        BY <3>2
      <4>2. list[2 * m] \in BareIn(T)
        BY <4>1
      <4> QED
        BY <2>3, <3>2, <4>2, Zenon DEF AtOf
    <3> QED
      BY <3>1, <3>2
  <2>5. e.n \in Nat
    BY <2>4, BareType
  <2>6. f[m] \in Seq(Nat)
    BY <1>3
  <2>7. Typed(f[m], e) \in Seq(Nat)
    BY <2>5, <2>6, TypedType
  <2> QED
    BY <2>1, <2>2, <2>3, <2>7, Zenon
<1>4. \A m \in Nat : m \in S
  BY <1>2, <1>3, AllNumbers
<1>5. f[s] \in Seq(Nat)
  BY <1>4
<1> QED
  BY <1>1, <1>5

(* SimplifyStrings takes s pairs and sends what was typed.                 *)
Sends(d, item, list, s, at, text) ==
    /\ 2 * s <= Len(list) /\ at = AtOf(item, list, s)
    /\ text # <<>> => s # 0
    /\ d = Processed(at, From(list, 2 * s + 1),
                     IF text = <<>> THEN <<>>
                     ELSE <<[NoItem EXCEPT !.method = "sendText",
                                           !.target = item.target,
                                           !.text = text],
                            list[2 * s - 1]>>,
                     <<>>,
                     /\ at.method = "releaseKey" /\ ~at.modified
                     /\ Len(list) = 2 * s + 1)

(* SimplifyStrings looks at s items and leaves the text typed in them.     *)
LEMMA StringsIs ==
    ASSUME NEW T, NEW item \in BareIn(T), NEW list \in Seq(BareIn(T)),
           item.method = "pressKey"
    PROVE  \E s \in Nat, at \in BareIn(T), text \in Seq(Nat) :
              Sends(SimplifyStrings(item, list), item, list, s, at, text)
<1> DEFINE At(j) == IF j = 0 THEN item ELSE list[2 * j]
           Stops(j) ==
              \/ ~IsKey(At(j)) \/ At(j).modified
              \/ Len(list) < 2 * j + 2
              \/ /\ At(j).method = "pressKey"
                 /\ ~GoesOn(At(j + 1), item.target)
           S == {j \in 0..(Len(list) \div 2) : Stops(j)}
           s == Min(S)
           typed[j \in 0..s] ==
              IF j = 0 THEN <<>> ELSE Typed(typed[j - 1], At(j - 1))
           text == typed[s]
<1>1. SimplifyStrings(item, list) =
         Processed(At(s), From(list, 2 * s + 1),
                   IF text = <<>> THEN <<>>
                   ELSE <<[NoItem EXCEPT !.method = "sendText",
                                         !.target = item.target,
                                         !.text = text],
                          list[2 * s - 1]>>,
                   <<>>,
                   /\ At(s).method = "releaseKey" /\ ~At(s).modified
                   /\ Len(list) = 2 * s + 1)
  BY Zenon DEF SimplifyStrings
<1>2. PICK n \in Nat : n = Len(list)
  OBVIOUS
<1>3. PICK h \in Nat : h = n \div 2 /\ 2 * h <= n /\ n < 2 * h + 2
  OBVIOUS
<1>4. h \in S
  BY <1>2, <1>3
<1>5. S \in SUBSET Nat /\ S # {}
  BY <1>2, <1>3, <1>4
<1>6. PICK q : q = s
  OBVIOUS
<1>7. q \in S
  <2> HIDE DEF S
  <2> QED
    BY <1>5, <1>6, MinIs
<1>8. q \in 0..h
  BY <1>2, <1>3, <1>7
<1>9. q \in Nat /\ 2 * q <= n
  BY <1>3, <1>8
<1>10. typed = CHOOSE f : Texts(f, q, item, list)
  BY <1>6, Zenon DEF Texts, AtOf
<1>11. \E f : Texts(f, q, item, list)
  BY <1>9, TextsExist
<1>12. PICK f : f = typed /\ Texts(f, q, item, list)
  BY <1>10, <1>11, Zenon
<1>13. PICK text2 : text2 = f[q]
  OBVIOUS
<1>14. text2 \in Seq(Nat) /\ (text2 # <<>> => q # 0)
  BY <1>2, <1>9, <1>12, <1>13, TextsType
<1>15. PICK at : at = AtOf(item, list, q)
  OBVIOUS
<1>16. at \in BareIn(T)
  <2>1. CASE q = 0
    BY <1>15, <2>1 DEF AtOf
  <2>2. CASE q # 0
    <3>1. 2 * q \in 1..Len(list)
      BY <1>2, <1>9, <2>2
    <3>2. list[2 * q] \in BareIn(T)
      BY <3>1
    <3> QED
      BY <1>15, <2>2, <3>2, Zenon DEF AtOf
  <2> QED
    BY <2>1, <2>2
<1>17. text2 = text /\ at = At(q)
  BY <1>6, <1>12, <1>13, <1>15, Zenon DEF AtOf
<1>18. SimplifyStrings(item, list) =
         Processed(at, From(list, 2 * q + 1),
                   IF text2 = <<>> THEN <<>>
                   ELSE <<[NoItem EXCEPT !.method = "sendText",
                                         !.target = item.target,
                                         !.text = text2],
                          list[2 * q - 1]>>,
                   <<>>,
                   /\ at.method = "releaseKey" /\ ~at.modified
                   /\ Len(list) = 2 * q + 1)
  <2> HIDE DEF S, typed, At
  <2> QED
    BY <1>1, <1>6, <1>17, Zenon
<1>19. 2 * q <= Len(list)
  BY <1>2, <1>9
<1> HIDE DEF S, typed, At
<1> QED
  BY <1>9, <1>14, <1>15, <1>16, <1>18, <1>19, Zenon DEF Sends

-----------------------------------------------------------------------------
(* What the first four post-processors leave: items of the same kind, and  *)
(* no more that can become strings than they were given.                   *)
Result(d, item, list, X) ==
    /\ d.in \in Seq(X) /\ d.first = <<>>
    /\ d.item \in X \/ d.item = NoItem
    /\ \/ /\ d.before = <<>>
          /\ One(d.item) + Count(d.in) <= One(item) + Count(list)
       \/ \E x \in X :
             /\ d.before = <<x>>
             /\ One(x) + One(d.item) + Count(d.in) <= One(item) + Count(list)
       \/ \E x \in X, y \in X :
             /\ d.before = <<x, y>>
             /\ One(x) + One(y) + One(d.item) + Count(d.in)
                   <= One(item) + Count(list)

(* An item counts for at most one string, an invalid one for none.         *)
LEMMA OneType ==
    /\ \A x : One(x) \in Nat /\ One(x) <= 1
    /\ One(NoItem) = 0
BY DEF One, IsTyping, NoItem

(* An empty list has none.                                                 *)
LEMMA CountEmpty == Count(<<>>) = 0
<1>1. TypingAt(<<>>) = {}
  BY DEF TypingAt
<1>2. Count(<<>>) = Cardinality(TypingAt(<<>>))
  BY DEF Count, TypingAt
<1> QED
  BY <1>1, <1>2, FS_EmptySet

(* An item that is left alone is a result within bounds.                   *)
LEMMA UntouchedResult ==
    ASSUME NEW X, NEW item \in X, NEW list \in Seq(X)
    PROVE  Result(Processed(item, list, <<>>, <<>>, FALSE), item, list, X)
<1>1. PICK d : d = Processed(item, list, <<>>, <<>>, FALSE)
  OBVIOUS
<1>2. d.item = item /\ d.in = list /\ d.before = <<>> /\ d.first = <<>>
  BY <1>1 DEF Processed
<1>3. One(item) \in Nat /\ Count(list) \in Nat
  BY OneType, CountType
<1>4. One(d.item) + Count(d.in) <= One(item) + Count(list)
  BY <1>2, <1>3
<1> QED
  BY <1>1, <1>2, <1>4, Zenon DEF Result

(* FilterQtInternals makes no new strings.                                 *)
LEMMA FilterResult ==
    ASSUME NEW T, NEW item \in BareIn(T), NEW list \in Seq(BareIn(T))
    PROVE  Result(FilterQtInternals(item, list), item, list, BareIn(T))
<1>1. CASE item.target \notin Internal
  <2>1. FilterQtInternals(item, list) =
            Processed(item, list, <<>>, <<>>, FALSE)
    BY <1>1, Zenon DEF FilterQtInternals, Untouched
  <2>2. Result(Processed(item, list, <<>>, <<>>, FALSE), item, list,
               BareIn(T))
    BY UntouchedResult, Zenon
  <2> QED
    BY <2>1, <2>2, Zenon
<1>2. CASE item.target \in Internal
  <2>1. PICK d : d = FilterQtInternals(item, list)
    OBVIOUS
  <2>2. d = Processed(NoItem, list, <<>>, <<>>, list = <<>>)
    BY <1>2, <2>1, FilterIs, Zenon
  <2>3. d.item = NoItem /\ d.in = list /\ d.before = <<>> /\ d.first = <<>>
    BY <2>2 DEF Processed
  <2>4. One(item) \in Nat /\ Count(list) \in Nat /\ One(NoItem) = 0
    BY OneType, CountType
  <2>5. One(d.item) + Count(d.in) <= One(item) + Count(list)
    BY <2>3, <2>4
  <2> QED
    BY <2>1, <2>3, <2>5 DEF Result
<1> QED
  BY <1>1, <1>2

(* SkipMouseMovements makes no new strings.                                *)
LEMMA SkipResult ==
    ASSUME NEW X, NEW item \in X, NEW list \in Seq(X)
    PROVE  Result(SkipMouseMovements(item, list), item, list, X)
<1>1. CASE ~IsMove(item)
  <2>1. SkipMouseMovements(item, list) =
           Processed(item, list, <<>>, <<>>, FALSE)
    BY <1>1, Zenon DEF SkipMouseMovements, Untouched
  <2> QED
    BY <2>1, UntouchedResult, Zenon
<1>2. CASE IsMove(item)
  <2>1. PICK d : d = SkipMouseMovements(item, list)
    OBVIOUS
  <2>2. PICK r \in Nat :
           /\ 2 * r <= Len(list)
           /\ d = IF Len(list) = 2 * r
                  THEN Processed(NoItem, <<>>, <<>>, <<>>, FALSE)
                  ELSE IF Len(list) = 2 * r + 1
                  THEN Processed(item, <<>>, <<>>, <<>>, TRUE)
                  ELSE Processed(list[2 * r + 2], From(list, 2 * r + 3),
                                 <<>>, <<>>, FALSE)
    BY <1>2, <2>1, SkipIs
  <2>3. One(item) \in Nat /\ Count(list) \in Nat
    BY OneType, CountType
  <2>4. <<>> \in Seq(X) /\ Count(<<>>) = 0
    BY CountEmpty
  <2>5. CASE Len(list) = 2 * r
    <3>1. /\ d.item = NoItem /\ d.in = <<>> /\ d.before = <<>>
          /\ d.first = <<>>
      <4>1. d = Processed(NoItem, <<>>, <<>>, <<>>, FALSE)
        BY <2>2, <2>5, Zenon
      <4> QED
        BY <4>1 DEF Processed
    <3>2. One(d.item) + Count(d.in) <= One(item) + Count(list)
      BY <2>3, <2>4, <3>1, OneType
    <3> QED
      BY <2>1, <2>4, <3>1, <3>2, Zenon DEF Result
  <2>6. CASE Len(list) = 2 * r + 1
    <3>1. Len(list) # 2 * r
      BY <2>6
    <3>2. d.item = item /\ d.in = <<>> /\ d.before = <<>> /\ d.first = <<>>
      <4>1. d = Processed(item, <<>>, <<>>, <<>>, TRUE)
        BY <2>2, <2>6, <3>1, Zenon
      <4> QED
        BY <4>1 DEF Processed
    <3>3. One(d.item) + Count(d.in) <= One(item) + Count(list)
      BY <2>3, <2>4, <3>2
    <3> QED
      BY <2>1, <2>4, <3>2, <3>3, Zenon DEF Result
  <2>7. CASE Len(list) # 2 * r /\ Len(list) # 2 * r + 1
    <3>1. PICK k \in 1..(Len(list) + 1) : k = 2 * r + 2 /\ k <= Len(list)
                                          /\ k + 1 = 2 * r + 3
      BY <2>2, <2>7
    <3>2. PICK x, rest : x = list[k] /\ rest = From(list, k + 1)
      OBVIOUS
    <3>3. d.item = x /\ d.in = rest /\ d.before = <<>> /\ d.first = <<>>
      <4>1. d = Processed(x, rest, <<>>, <<>>, FALSE)
        BY <2>2, <2>7, <3>1, <3>2, Zenon
      <4> QED
        BY <4>1 DEF Processed
    <3>4. x \in X
      BY <3>1, <3>2
    <3>5. rest \in Seq(X)
      <4>1. k + 1 \in 1..(Len(list) + 1)
        BY <3>1
      <4> QED
        BY <3>2, <4>1, Parted
    <3>6. PICK c : c = Count(From(list, k))
      OBVIOUS
    <3>7. c <= Count(list) /\ c = One(x) + Count(rest)
      BY <3>1, <3>2, <3>6, CountFrom
    <3>8. One(x) \in Nat /\ Count(rest) \in Nat
      BY <3>5, OneType, CountType
    <3>9. One(x) + Count(rest) <= One(item) + Count(list)
      BY <2>3, <3>7, <3>8
    <3> QED
      BY <2>1, <3>3, <3>4, <3>5, <3>9, Zenon DEF Result
  <2> QED
    BY <2>5, <2>6, <2>7
<1> QED
  BY <1>1, <1>2

(* SimplifyMouseMovements makes no new strings.                            *)
LEMMA MouseResult ==
    ASSUME NEW T, NEW item \in BareIn(T), NEW list \in Seq(BareIn(T))
    PROVE  Result(SimplifyMouseMovements(item, list), item, list, BareIn(T))
<1>1. CASE ~IsMove(item)
  <2>1. SimplifyMouseMovements(item, list) =
           Processed(item, list, <<>>, <<>>, FALSE)
    BY <1>1, Zenon DEF SimplifyMouseMovements, Untouched
  <2> QED
    BY <2>1, UntouchedResult, Zenon
<1>2. CASE IsMove(item)
  <2>0. PICK X : X = BareIn(T)
    OBVIOUS
  <2>0a. item \in X /\ list \in Seq(X)
    BY <2>0
  <2>1. PICK d : d = SimplifyMouseMovements(item, list)
    OBVIOUS
  <2>1a. PICK r \in Nat, last \in X : Merges(d, item, list, r, last)
    BY <1>2, <2>0a, <2>1, MouseIs
  <2>2.    /\ 2 * r <= Len(list) /\ IsMove(last)
           /\ d = IF Len(list) = 2 * r
                  THEN Processed(last, <<>>, <<[item EXCEPT !.n = last.n]>>,
                                 <<>>, FALSE)
                  ELSE Processed(list[2 * r + 1], From(list, 2 * r + 2),
                                 <<[item EXCEPT !.n = last.n]>>,
                                 <<>>, FALSE)
    BY <2>1a, Zenon DEF Merges
  <2>3. One(item) \in Nat /\ Count(list) \in Nat
    BY <2>0a, OneType, CountType
  <2>4. <<>> \in Seq(X) /\ Count(<<>>) = 0
    BY CountEmpty
  <2>5. PICK moved : moved = [item EXCEPT !.n = last.n]
    OBVIOUS
  <2>6. moved \in X /\ IsMove(moved)
    <3>1. last.n \in Nat
      BY <2>0, <2>2, BareType
    <3>2. moved \in X
      BY <2>0, <2>5, <3>1, BareType
    <3>3. moved.method = item.method
      BY <2>5, <2>0a, <2>0, BareType DEF Item
    <3> QED
      BY <1>2, <3>2, <3>3 DEF IsMove
  <2>7. One(moved) = 0 /\ One(last) = 0
    BY <2>2, <2>6 DEF One, IsTyping, IsMove
  <2>8. CASE Len(list) = 2 * r
    <3>1. /\ d.item = last /\ d.in = <<>> /\ d.before = <<moved>>
          /\ d.first = <<>>
      <4>1. d = Processed(last, <<>>, <<moved>>, <<>>, FALSE)
        BY <2>2, <2>5, <2>8, Zenon
      <4> QED
        BY <4>1 DEF Processed
    <3>2. One(moved) + One(last) + Count(<<>>) <= One(item) + Count(list)
      BY <2>3, <2>4, <2>7
    <3> QED
      BY <2>0, <2>1, <2>2, <2>4, <2>6, <3>1, <3>2, Zenon DEF Result
  <2>9. CASE Len(list) # 2 * r
    <3>1. PICK k \in 1..(Len(list) + 1) : k = 2 * r + 1 /\ k <= Len(list)
                                          /\ k + 1 = 2 * r + 2
      BY <2>2, <2>9
    <3>2. PICK x, rest : x = list[k] /\ rest = From(list, k + 1)
      OBVIOUS
    <3>3. /\ d.item = x /\ d.in = rest /\ d.before = <<moved>>
          /\ d.first = <<>>
      <4>1. d = Processed(x, rest, <<moved>>, <<>>, FALSE)
        BY <2>2, <2>5, <2>9, <3>1, <3>2, Zenon
      <4> QED
        BY <4>1 DEF Processed
    <3>4. x \in X
      BY <2>0a, <3>1, <3>2
    <3>5. rest \in Seq(X)
      <4>1. k + 1 \in 1..(Len(list) + 1)
        BY <3>1
      <4> QED
        BY <2>0a, <3>2, <4>1, Parted
    <3>6. PICK c : c = Count(From(list, k))
      OBVIOUS
    <3>7. c <= Count(list) /\ c = One(x) + Count(rest)
      BY <2>0a, <3>1, <3>2, <3>6, CountFrom
    <3>8. One(x) \in Nat /\ Count(rest) \in Nat
      BY <3>5, OneType, CountType
    <3>9. One(moved) + One(x) + Count(rest) <= One(item) + Count(list)
      BY <2>3, <2>7, <3>7, <3>8
    <3> QED
      BY <2>0, <2>1, <2>6, <3>3, <3>4, <3>5, <3>9, Zenon DEF Result
  <2> QED
    BY <2>8, <2>9
<1> QED
  BY <1>1, <1>2

(* SimplifyStrings makes one sendText of the presses it took.              *)
LEMMA StringsResult ==
    ASSUME NEW T \in SUBSET Targets, NEW item \in BareIn(T),
           NEW list \in Seq(BareIn(T))
    PROVE  Result(SimplifyStrings(item, list), item, list, BareIn(T))
<1>1. CASE item.method # "pressKey"
  <2>1. SimplifyStrings(item, list) =
           Processed(item, list, <<>>, <<>>, FALSE)
    BY <1>1, Zenon DEF SimplifyStrings, Untouched
  <2> QED
    BY <2>1, UntouchedResult, Zenon
<1>2. CASE item.method = "pressKey"
  <2>0. PICK X : X = BareIn(T)
    OBVIOUS
  <2>0a. item \in X /\ list \in Seq(X)
    BY <2>0
  <2>1. PICK d : d = SimplifyStrings(item, list)
    OBVIOUS
  <2>2. PICK s \in Nat, at \in BareIn(T), text \in Seq(Nat) :
           Sends(d, item, list, s, at, text)
    BY <1>2, <2>1, StringsIs
  <2>3. PICK sent : sent = [NoItem EXCEPT !.method = "sendText",
                              !.target = item.target, !.text = text]
    OBVIOUS
  <2>4. sent \in X
    <3>1. item.target \in T \cup {NoTarget}
      BY BareType
    <3> QED
      BY <2>0, <2>3, <3>1, SentType
  <2>5. PICK rest : rest = From(list, 2 * s + 1)
    OBVIOUS
  <2>6. /\ d.item = at /\ d.in = rest /\ d.first = <<>>
        /\ d.before = IF text = <<>> THEN <<>> ELSE <<sent, list[2 * s - 1]>>
    <3>1. PICK bad, before :
             /\ d = Processed(at, rest, before, <<>>, bad)
             /\ before = IF text = <<>> THEN <<>>
                         ELSE <<sent, list[2 * s - 1]>>
      BY <2>2, <2>3, <2>5, Zenon DEF Sends
    <3>2. d.item = at /\ d.in = rest /\ d.first = <<>> /\ d.before = before
      BY <3>1 DEF Processed
    <3> QED
      BY <3>1, <3>2, Zenon
  <2>7. /\ 2 * s <= Len(list) /\ at = AtOf(item, list, s)
        /\ text # <<>> => s # 0
    BY <2>2, Zenon DEF Sends
  <2>8. PICK n \in Nat : n = Len(list)
    OBVIOUS
  <2>9. 2 * s <= n
    BY <2>7, <2>8
  <2>10. PICK k \in 1..(Len(list) + 1) : k = 2 * s + 1
    BY <2>8, <2>9
  <2>11. rest = From(list, k) /\ rest \in Seq(X)
    <3>1. rest = From(list, k)
      BY <2>5, <2>10, Zenon
    <3> QED
      BY <2>0a, <3>1, Parted
  <2>12. PICK c, r, o, a : /\ c = Count(list) /\ r = Count(rest)
                           /\ o = One(item) /\ a = One(at)
    OBVIOUS
  <2>13. /\ c \in Nat /\ r \in Nat /\ o \in Nat /\ a \in Nat
         /\ o <= 1 /\ a <= 1 /\ o = 1
    <3>1. One(item) = 1
      BY <1>2 DEF One, IsTyping
    <3>2. Count(list) \in Nat /\ Count(rest) \in Nat
      BY <2>0a, <2>11, CountType
    <3> QED
      BY <2>12, <3>1, <3>2, OneType
  <2>14. CASE s = 0
    <3>1. at = item /\ text = <<>> /\ d.before = <<>>
      BY <2>6, <2>7, <2>14, Zenon DEF AtOf
    <3>2. r <= c
      BY <2>0a, <2>11, <2>12, CountFrom
    <3>3. a + r <= o + c
      BY <2>12, <2>13, <3>1, <3>2
    <3> QED
      BY <2>0, <2>1, <2>2, <2>6, <2>11, <2>12, <3>1, <3>3, Zenon DEF Result
  <2>15. CASE s # 0
    <3>1. PICK j \in 1..(Len(list) + 1), i \in 1..(Len(list) + 1) :
             /\ j = 2 * s /\ j <= Len(list) /\ j + 1 = k
             /\ i = 2 * s - 1 /\ i <= Len(list) /\ i + 1 = j
      BY <2>8, <2>9, <2>10, <2>15
    <3>2. at = list[j]
      BY <2>7, <2>15, <3>1, Zenon DEF AtOf
    <3>3. PICK y, p, q : /\ y = list[i] /\ p = Count(From(list, j))
                         /\ q = Count(From(list, i))
      OBVIOUS
    <3>4. p = a + r
      BY <2>0a, <2>11, <2>12, <3>1, <3>2, <3>3, CountFrom
    <3>5. q = One(y) + p
      BY <2>0a, <3>1, <3>3, CountFrom
    <3>6. q <= c
      BY <2>0a, <2>12, <3>3, CountFrom
    <3>7. One(y) \in Nat /\ One(sent) \in Nat /\ One(sent) <= 1
      BY OneType
    <3>8. CASE text = <<>>
      <4>1. a + r <= o + c
        BY <2>13, <3>4, <3>5, <3>6, <3>7
      <4>2. d.before = <<>>
        BY <2>6, <3>8, Zenon
      <4> QED
        BY <2>0, <2>1, <2>2, <2>6, <2>11, <2>12, <4>1, <4>2, Zenon
        DEF Result
    <3>9. CASE text # <<>>
      <4>1. One(sent) + One(y) + a + r <= o + c
        BY <2>13, <3>4, <3>5, <3>6, <3>7, SMTT(30)
      <4>2. d.before = <<sent, y>>
        BY <2>6, <3>1, <3>3, <3>9, Zenon
      <4>3. y \in X
        BY <2>0a, <3>1, <3>3
      <4> QED
        BY <2>0, <2>1, <2>2, <2>4, <2>6, <2>11, <2>12, <4>1, <4>2, <4>3,
           Zenon
        DEF Result
    <3> QED
      BY <3>8, <3>9
  <2> QED
    BY <2>14, <2>15
<1> QED
  BY <1>1, <1>2

-----------------------------------------------------------------------------
(* The Inserter after a turn of the inner loop of itemString.              *)
Closed(ins, item) ==
    [ins EXCEPT !.itemIndex = @ + 1,
                !.list = IF IsValid(item) THEN Append(@, item) ELSE @]
After(ins, d) ==
    Closed(InsertAll(InsertAll(ins, d.before, "BeforeCurrentItem"),
                     d.first, "Beginning"), d.item)
Extended(l, item) == IF IsValid(item) THEN Append(l, item) ELSE l

(* An item is valid, and the one that is dropped is not.                   *)
LEMMA NoItemInvalid == ~IsValid(NoItem)
BY DEF IsValid, NoItem

(* The end of a turn keeps the Inserter in order.                          *)
LEMMA ClosedIs ==
    ASSUME NEW X, NEW ins, InserterOK(X, ins), NEW item,
           item \in X \/ ~IsValid(item)
    PROVE  /\ InserterOK(X, Closed(ins, item))
           /\ Closed(ins, item).list = Extended(ins.list, item)
           /\ Extended(ins.list, item) \in Seq(X)
<1>1. PICK l, i, o : /\ l \in Seq(X) /\ i \in Int /\ o \in Nat
                     /\ ins.list = l /\ ins.itemIndex = i
                     /\ ins.originalStart = o
                     /\ i >= Len(l) - 1 /\ o <= Len(l)
                     /\ ins = [list |-> l, itemIndex |-> i,
                               originalStart |-> o]
  BY DEF InserterOK
<1>2. PICK m : m = Extended(l, item)
  OBVIOUS
<1>3. m \in Seq(X) /\ (Len(m) = Len(l) \/ Len(m) = Len(l) + 1)
  <2>1. CASE IsValid(item)
    <3>1. item \in X /\ m = Append(l, item)
      BY <1>2, <2>1, Zenon DEF Extended
    <3> QED
      BY <1>1, <3>1, AppendIs
  <2>2. CASE ~IsValid(item)
    <3>1. m = l
      BY <1>2, <2>2, Zenon DEF Extended
    <3> QED
      BY <1>1, <3>1
  <2> QED
    BY <2>1, <2>2
<1>4. PICK r : r = Closed(ins, item)
  OBVIOUS
<1>5. r = [ins EXCEPT !.itemIndex = i + 1, !.list = m]
  BY <1>1, <1>2, <1>4, Zenon DEF Closed, Extended
<1>6. r = [list |-> m, itemIndex |-> i + 1, originalStart |-> o]
  BY <1>1, <1>5
<1>7. InserterOK(X, r) /\ r.list = m
  BY <1>1, <1>3, <1>6 DEF InserterOK
<1> QED
  BY <1>1, <1>2, <1>3, <1>4, <1>7, Zenon

(* A turn that inserts nothing, one or two items before the current one,   *)
(* or one at the beginning.                                                *)
LEMMA AfterNone ==
    ASSUME NEW X, NEW ins, InserterOK(X, ins), NEW d,
           d.before = <<>>, d.first = <<>>, d.item \in X \/ ~IsValid(d.item)
    PROVE  /\ InserterOK(X, After(ins, d))
           /\ After(ins, d).list = Extended(ins.list, d.item)
           /\ Extended(ins.list, d.item) \in Seq(X)
<1>1. After(ins, d) = Closed(ins, d.item)
  BY InsertNothing, Zenon DEF After
<1>2. /\ InserterOK(X, Closed(ins, d.item))
      /\ Closed(ins, d.item).list = Extended(ins.list, d.item)
      /\ Extended(ins.list, d.item) \in Seq(X)
  BY ClosedIs
<1> QED
  BY <1>1, <1>2, Zenon

(* A turn that inserts one item before the current one.                    *)
LEMMA AfterOne ==
    ASSUME NEW X, NEW ins, InserterOK(X, ins), NEW d, NEW x \in X,
           d.before = <<x>>, d.first = <<>>, d.item \in X \/ ~IsValid(d.item)
    PROVE  /\ InserterOK(X, After(ins, d))
           /\ \E m \in Seq(X), k \in Nat :
                 /\ Inserted(ins.list, m, k, x) /\ k >= Len(ins.list)
                 /\ After(ins, d).list = Extended(m, d.item)
                 /\ Extended(m, d.item) \in Seq(X)
<1>1. PICK b : b = Insert(ins, x, "BeforeCurrentItem")
  OBVIOUS
<1>2. After(ins, d) = Closed(b, d.item)
  BY <1>1, InsertNothing, InsertOneItem, Zenon DEF After
<1>3. InserterOK(X, b)
  BY <1>1, InsertBefore
<1>4. PICK k : Inserted(ins.list, b.list, k, x) /\ k >= Len(ins.list)
  BY <1>1, InsertBefore
<1>5. b.list \in Seq(X) /\ ins.list \in Seq(X)
  BY <1>3 DEF InserterOK
<1>6. k \in Nat
  BY <1>4, <1>5 DEF Inserted
<1>7. /\ InserterOK(X, Closed(b, d.item))
      /\ Closed(b, d.item).list = Extended(b.list, d.item)
      /\ Extended(b.list, d.item) \in Seq(X)
  BY <1>3, ClosedIs
<1> QED
  BY <1>2, <1>4, <1>5, <1>6, <1>7, Zenon

(* A turn that inserts two items before the current one.                   *)
LEMMA AfterTwo ==
    ASSUME NEW X, NEW ins, InserterOK(X, ins), NEW d, NEW x \in X,
           NEW y \in X, d.before = <<x, y>>, d.first = <<>>,
           d.item \in X \/ ~IsValid(d.item)
    PROVE  /\ InserterOK(X, After(ins, d))
           /\ \E l \in Seq(X), m \in Seq(X), i \in Nat, k \in Nat :
                 /\ Inserted(ins.list, l, i, x) /\ Inserted(l, m, k, y)
                 /\ After(ins, d).list = Extended(m, d.item)
                 /\ Extended(m, d.item) \in Seq(X)
<1>1. PICK a : a = Insert(ins, x, "BeforeCurrentItem")
  OBVIOUS
<1>1a. PICK b : b = Insert(a, y, "BeforeCurrentItem")
  OBVIOUS
<1>2. After(ins, d) = Closed(b, d.item)
  <2>1. InsertAll(ins, d.before, "BeforeCurrentItem") = b
    BY <1>1, <1>1a, InsertTwoItems, Zenon
  <2> QED
    BY <2>1, InsertNothing, Zenon DEF After
<1>3. InserterOK(X, a)
  BY <1>1, InsertBefore
<1>4. PICK i : Inserted(ins.list, a.list, i, x)
  BY <1>1, InsertBefore
<1>3b. InserterOK(X, b)
  BY <1>1a, <1>3, InsertBefore
<1>4b. PICK k : Inserted(a.list, b.list, k, y)
  BY <1>1a, <1>3, InsertBefore
<1>5. b.list \in Seq(X) /\ a.list \in Seq(X) /\ ins.list \in Seq(X)
  BY <1>3, <1>3b DEF InserterOK
<1>6. i \in Nat /\ k \in Nat
  BY <1>4, <1>4b, <1>5 DEF Inserted
<1>7. /\ InserterOK(X, Closed(b, d.item))
      /\ Closed(b, d.item).list = Extended(b.list, d.item)
      /\ Extended(b.list, d.item) \in Seq(X)
  BY <1>3b, ClosedIs
<1> QED
  BY <1>2, <1>4, <1>4b, <1>5, <1>6, <1>7, Zenon

(* A turn that inserts one item at the beginning.                          *)
LEMMA AfterFirst ==
    ASSUME NEW X, NEW ins, InserterOK(X, ins), NEW d, NEW x \in X,
           d.before = <<>>, d.first = <<x>>, d.item \in X \/ ~IsValid(d.item)
    PROVE  /\ InserterOK(X, After(ins, d))
           /\ \E m \in Seq(X), k \in Nat :
                 /\ Inserted(ins.list, m, k, x)
                 /\ After(ins, d).list = Extended(m, d.item)
                 /\ Extended(m, d.item) \in Seq(X)
<1>1. PICK b : b = Insert(ins, x, "Beginning")
  OBVIOUS
<1>2. After(ins, d) = Closed(b, d.item)
  <2>1. InsertAll(ins, d.before, "BeforeCurrentItem") = ins
    BY InsertNothing, Zenon
  <2>2. InsertAll(ins, d.first, "Beginning") = b
    BY <1>1, InsertOneItem, Zenon
  <2> QED
    BY <2>1, <2>2, Zenon DEF After
<1>3. InserterOK(X, b)
  BY <1>1, InsertFirst
<1>4. PICK k : Inserted(ins.list, b.list, k, x)
  BY <1>1, InsertFirst
<1>5. b.list \in Seq(X) /\ ins.list \in Seq(X)
  BY <1>3 DEF InserterOK
<1>6. k \in Nat
  BY <1>4, <1>5 DEF Inserted
<1>7. /\ InserterOK(X, Closed(b, d.item))
      /\ Closed(b, d.item).list = Extended(b.list, d.item)
      /\ Extended(b.list, d.item) \in Seq(X)
  BY <1>3, ClosedIs
<1> QED
  BY <1>2, <1>4, <1>5, <1>6, <1>7, Zenon

(* A turn of one of the first four post-processors.                        *)
LEMMA CountExtended ==
    ASSUME NEW X, NEW l \in Seq(X), NEW item, item \in X \/ item = NoItem,
           \A x \in X : IsValid(x)
    PROVE  Count(Extended(l, item)) = Count(l) + One(item)
<1>1. CASE item \in X
  <2>1. Extended(l, item) = Append(l, item)
    BY <1>1, Zenon DEF Extended
  <2> QED
    BY <1>1, <2>1, CountAppend
<1>2. CASE item = NoItem
  <2>1. Extended(l, item) = l
    BY <1>2, NoItemInvalid, Zenon DEF Extended
  <2>2. Count(l) \in Nat
    BY CountType
  <2> QED
    BY <1>2, <2>1, <2>2, OneType
<1> QED
  BY <1>1, <1>2

(* A turn keeps the list typed and the number of possible strings bounded. *)
LEMMA ResultAfter ==
    ASSUME NEW X, NEW ins, InserterOK(X, ins), NEW d, NEW item,
           NEW list \in Seq(X), Result(d, item, list, X),
           \A x \in X : IsValid(x)
    PROVE  /\ InserterOK(X, After(ins, d))
           /\ After(ins, d).list \in Seq(X)
           /\ Count(After(ins, d).list) + Count(d.in) <=
                 Count(ins.list) + One(item) + Count(list)
<1>1. /\ d.in \in Seq(X) /\ d.first = <<>>
      /\ d.item \in X \/ d.item = NoItem
  BY Zenon DEF Result
<1>1a. d.item \in X \/ ~IsValid(d.item)
  BY <1>1, NoItemInvalid, Zenon
<1>2. ins.list \in Seq(X)
  BY DEF InserterOK
<1>3. PICK c, r, o, a, g : /\ c = Count(ins.list) /\ r = Count(d.in)
                           /\ o = One(item) /\ a = One(d.item)
                           /\ g = Count(list)
  OBVIOUS
<1>4. c \in Nat /\ r \in Nat /\ o \in Nat /\ a \in Nat /\ g \in Nat
  <2>1. Count(ins.list) \in Nat /\ Count(d.in) \in Nat /\ Count(list) \in Nat
    BY <1>1, <1>2, CountType
  <2> QED
    BY <1>3, <2>1, OneType
<1>5. CASE d.before = <<>> /\ a + r <= o + g
  <2>1. /\ InserterOK(X, After(ins, d))
        /\ After(ins, d).list = Extended(ins.list, d.item)
        /\ Extended(ins.list, d.item) \in Seq(X)
    BY <1>1, <1>1a, <1>5, AfterNone
  <2>2. Count(Extended(ins.list, d.item)) = c + a
    BY <1>1, <1>2, <1>3, CountExtended
  <2>3. c + a + r <= c + o + g
    BY <1>4, <1>5
  <2> QED
    BY <1>3, <2>1, <2>2, <2>3, Zenon
<1>6. ASSUME NEW x \in X, d.before = <<x>>, One(x) + a + r <= o + g
      PROVE  /\ InserterOK(X, After(ins, d))
             /\ After(ins, d).list \in Seq(X)
             /\ Count(After(ins, d).list) + r <= c + o + g
  <2>1. InserterOK(X, After(ins, d))
    BY <1>1, <1>1a, <1>6, AfterOne
  <2>2. PICK m \in Seq(X), k \in Nat :
                 /\ Inserted(ins.list, m, k, x)
                 /\ After(ins, d).list = Extended(m, d.item)
                 /\ Extended(m, d.item) \in Seq(X)
    BY <1>1, <1>1a, <1>6, AfterOne
  <2>3. Count(m) = c + One(x)
    BY <1>2, <1>3, <2>2, CountInserted
  <2>4. Count(Extended(m, d.item)) = c + One(x) + a
    BY <1>1, <1>3, <2>3, CountExtended
  <2>5. c + One(x) + a + r <= c + o + g
    BY <1>4, <1>6, OneType
  <2> QED
    BY <2>1, <2>2, <2>4, <2>5, Zenon
<1>7. ASSUME NEW x \in X, NEW y \in X, d.before = <<x, y>>,
             One(x) + One(y) + a + r <= o + g
      PROVE  /\ InserterOK(X, After(ins, d))
             /\ After(ins, d).list \in Seq(X)
             /\ Count(After(ins, d).list) + r <= c + o + g
  <2>1. InserterOK(X, After(ins, d))
    BY <1>1, <1>1a, <1>7, AfterTwo
  <2>2. PICK l \in Seq(X), m \in Seq(X), i \in Nat, k \in Nat :
                 /\ Inserted(ins.list, l, i, x) /\ Inserted(l, m, k, y)
                 /\ After(ins, d).list = Extended(m, d.item)
                 /\ Extended(m, d.item) \in Seq(X)
    BY <1>1, <1>1a, <1>7, AfterTwo
  <2>3. Count(l) = c + One(x)
    BY <1>2, <1>3, <2>2, CountInserted
  <2>3a. Count(m) = c + One(x) + One(y)
    BY <1>2, <2>2, <2>3, CountInserted
  <2>4. Count(Extended(m, d.item)) = c + One(x) + One(y) + a
    BY <1>1, <1>3, <2>3a, CountExtended
  <2>5. c + One(x) + One(y) + a + r <= c + o + g
    BY <1>4, <1>7, OneType, SMTT(30)
  <2> QED
    BY <2>1, <2>2, <2>4, <2>5, Zenon
<1>8. \/ d.before = <<>> /\ a + r <= o + g
      \/ \E x \in X : d.before = <<x>> /\ One(x) + a + r <= o + g
      \/ \E x \in X, y \in X :
            d.before = <<x, y>> /\ One(x) + One(y) + a + r <= o + g
  BY <1>3, Zenon DEF Result
<1> QED
  BY <1>3, <1>5, <1>6, <1>7, <1>8, Zenon

-----------------------------------------------------------------------------
(* The first of the post-processors that are still to run.                 *)
First(S) ==
    PostProcessors[Min({i \in DOMAIN PostProcessors :
                            PostProcessors[i] \in S})]
Chosen == Early \cup {"ObjectVariables", "StringVariables"}

(* The order of the post-processors.                                       *)
Turn(S, p) ==
    /\ p \in S /\ p \in Chosen
    /\ "FilterQtInternals" \in S => p = "FilterQtInternals"
    /\ "SkipMouseMovements" \in S =>
          p \in {"FilterQtInternals", "SkipMouseMovements"}
    /\ "SimplifyMouseMovements" \in S =>
          p \in Early \ {"SimplifyStrings"}
    /\ "SimplifyStrings" \in S => p \in Early
    /\ "ObjectVariables" \in S => p # "StringVariables"

(* Each has its place in the list.                                         *)
LEMMA ProcessorsIs ==
    /\ PostProcessors \in Seq(Chosen) /\ Len(PostProcessors) = 6
    /\ DOMAIN PostProcessors = 1..6
    /\ PostProcessors[1] = "FilterQtInternals"
    /\ PostProcessors[2] = "SkipMouseMovements"
    /\ PostProcessors[3] = "SimplifyMouseMovements"
    /\ PostProcessors[4] = "SimplifyStrings"
    /\ PostProcessors[5] = "ObjectVariables"
    /\ PostProcessors[6] = "StringVariables"
BY DEF PostProcessors, Chosen, Early

(* The window offers exactly these post-processors.                        *)
LEMMA RangeIs == Range(PostProcessors) = Chosen
<1>1. Range(PostProcessors) = {PostProcessors[i] : i \in 1..6}
  BY ProcessorsIs DEF Range
<1>2. ASSUME NEW p \in Chosen PROVE \E i \in 1..6 : p = PostProcessors[i]
  <2>1. CASE p = "FilterQtInternals"
    BY <2>1, ProcessorsIs
  <2>2. CASE p = "SkipMouseMovements"
    BY <2>2, ProcessorsIs
  <2>3. CASE p = "SimplifyMouseMovements"
    BY <2>3, ProcessorsIs
  <2>4. CASE p = "SimplifyStrings"
    BY <2>4, ProcessorsIs
  <2>5. CASE p = "ObjectVariables"
    BY <2>5, ProcessorsIs
  <2>6. CASE p = "StringVariables"
    BY <2>6, ProcessorsIs
  <2> QED
    BY <2>1, <2>2, <2>3, <2>4, <2>5, <2>6 DEF Chosen, Early
<1>3. ASSUME NEW i \in 1..6 PROVE PostProcessors[i] \in Chosen
  <2>1. PostProcessors[i] \in
           {"FilterQtInternals", "SkipMouseMovements",
            "SimplifyMouseMovements", "SimplifyStrings", "ObjectVariables",
            "StringVariables"}
    <3>1. i = 1 \/ i = 2 \/ i = 3 \/ i = 4 \/ i = 5 \/ i = 6
      OBVIOUS
    <3> QED
      BY <3>1, ProcessorsIs
  <2> QED
    BY <2>1 DEF Chosen, Early
<1> QED
  BY <1>1, <1>2, <1>3

(* The first one has its turn.                                             *)
LEMMA FirstIs ==
    ASSUME NEW S \in SUBSET Chosen, S # {}
    PROVE  Turn(S, First(S))
<1> DEFINE I == {i \in DOMAIN PostProcessors : PostProcessors[i] \in S}
<1>1. I \in SUBSET Nat /\ I \in SUBSET (1..6)
  BY ProcessorsIs
<1>2. I # {}
  <2>1. PICK p : p \in S
    OBVIOUS
  <2>2. PICK i \in DOMAIN PostProcessors : p = PostProcessors[i]
    BY <2>1, RangeIs DEF Range
  <2> QED
    BY <2>1, <2>2
<1>3. PICK m : m = Min(I)
  OBVIOUS
<1>4. m \in I /\ \A y \in I : m <= y
  BY <1>1, <1>2, <1>3, MinIs
<1>5. First(S) = PostProcessors[m]
  BY <1>3, Zenon DEF First
<1>6. ASSUME NEW i \in 1..6, PostProcessors[i] \in S PROVE m <= i
  BY <1>4, <1>6, ProcessorsIs
<1>7. m \in 1..6 /\ PostProcessors[m] \in S
  BY <1>1, <1>4
<1>8. /\ "FilterQtInternals" \in S => m <= 1
      /\ "SkipMouseMovements" \in S => m <= 2
      /\ "SimplifyMouseMovements" \in S => m <= 3
      /\ "SimplifyStrings" \in S => m <= 4
      /\ "ObjectVariables" \in S => m <= 5
  BY <1>6, ProcessorsIs
<1> HIDE DEF I
<1>9. CASE m = 1
  BY <1>5, <1>7, <1>9, ProcessorsIs DEF Turn, Chosen, Early
<1>10. CASE m = 2
  BY <1>5, <1>7, <1>8, <1>10, ProcessorsIs DEF Turn, Chosen, Early
<1>11. CASE m = 3
  BY <1>5, <1>7, <1>8, <1>11, ProcessorsIs DEF Turn, Chosen, Early
<1>12. CASE m = 4
  BY <1>5, <1>7, <1>8, <1>12, ProcessorsIs DEF Turn, Chosen, Early
<1>13. CASE m = 5
  BY <1>5, <1>7, <1>8, <1>13, ProcessorsIs DEF Turn, Chosen, Early
<1>14. CASE m = 6
  BY <1>5, <1>7, <1>8, <1>14, ProcessorsIs DEF Turn, Chosen, Early
<1> QED
  BY <1>7, <1>9, <1>10, <1>11, <1>12, <1>13, <1>14

(* The next pass is of a later post-processor.                             *)
LEMMA NextTurn ==
    ASSUME NEW S \in SUBSET Chosen, NEW p, Turn(S, p), NEW q,
           Turn(S \ {p}, q)
    PROVE  /\ q \in S /\ q # p /\ p \in Chosen
           /\ q # "FilterQtInternals"
           /\ q = "SkipMouseMovements" => p = "FilterQtInternals"
           /\ q = "SimplifyMouseMovements" =>
                 p \in {"FilterQtInternals", "SkipMouseMovements"}
           /\ q \in Early => p \in Early \ {"SimplifyStrings"}
           /\ q = "ObjectVariables" => p \in Early
           /\ q = "StringVariables" => p # "StringVariables"
BY DEF Turn, Chosen, Early

-----------------------------------------------------------------------------
(* The kinds of items contain each other.                                  *)
LEMMA ItemSets ==
    ASSUME NEW T
    PROVE  /\ BareIn(T) \subseteq NoArgIn(T) /\ NoArgIn(T) \subseteq ItemIn(T)
           /\ ItemIn(T) \subseteq Item /\ BareIn(T) \subseteq Item
           /\ BareIn(T) \subseteq ItemIn(T) /\ NoArgIn(T) \subseteq Item
           /\ \A x \in ItemIn(T) : IsValid(x)
<1>1. \A x \in ItemIn(T) : IsValid(x)
  BY DEF ItemIn, Item, Methods, IsValid
<1> QED
  BY <1>1 DEF BareIn, NoArgIn, ItemIn

(* A list over a set is one over a larger set.                             *)
LEMMA SeqIn ==
    ASSUME NEW X, NEW Y, X \subseteq Y, NEW s \in Seq(X)
    PROVE  s \in Seq(Y)
OBVIOUS

(* The Inserter's list is of one of these kinds.                           *)
LEMMA InserterIn ==
    ASSUME NEW X, NEW Y, NEW ins, InserterOK(X, ins), ins.list \in Seq(Y)
    PROVE  InserterOK(Y, ins)
BY DEF InserterOK

(* The events of a log have targets of the log.                            *)
LEMMA LogType ==
    ASSUME log \in Seq(Events)
    PROVE  /\ LogTargets \in SUBSET Targets
           /\ \A i \in 1..Len(log) : log[i] \in BareIn(LogTargets)
           /\ log \in Seq(Item)
<1>1. ASSUME NEW i \in 1..Len(log)
      PROVE  log[i] \in Events /\ log[i].target \in LogTargets
  BY DEF LogTargets
<1>2. ASSUME NEW e \in Events PROVE e.target \in Targets /\ e \in Item
  BY DEF Events
<1>3. LogTargets \in SUBSET Targets
  BY <1>1, <1>2 DEF LogTargets
<1>4. ASSUME NEW i \in 1..Len(log) PROVE log[i] \in BareIn(LogTargets)
  BY <1>1 DEF Events, BareIn, NoArgIn, ItemIn
<1>5. log \in Seq(Item)
  BY <1>2
<1> QED
  BY <1>3, <1>4, <1>5

(* The items parseHooq makes: a pause before each event, and no more that  *)
(* can become strings than there are events.                               *)
LEMMA ItemsIs ==
    ASSUME log \in Seq(Events), NEW short \in BOOLEAN
    PROVE  /\ Items(short) \in Seq(BareIn(LogTargets))
           /\ Len(Items(short)) = 2 * Len(log) + (IF short THEN 1 ELSE 0)
           /\ \A i \in 1..Len(Items(short)) :
                 /\ i % 2 = 1 => Items(short)[i] = Msleep
                 /\ i % 2 # 1 => /\ i \div 2 \in 1..Len(log)
                                 /\ Items(short)[i] = log[i \div 2]
           /\ Count(Items(short)) <= Len(log)
<1>1. PICK n \in Nat : n = Len(log)
  OBVIOUS
<1>2. PICK m \in Nat : m = 2 * n + (IF short THEN 1 ELSE 0)
  BY <1>1
<1>2a. m <= 2 * n + 1
  BY <1>2
<1>3. PICK s : s = Items(short)
  OBVIOUS
<1>4. s = [i \in 1..m |-> IF i % 2 = 1 THEN Msleep ELSE log[i \div 2]]
  BY <1>1, <1>2, <1>3, Zenon DEF Items
<1>5. ASSUME NEW i \in 1..m, i % 2 # 1
      PROVE  i \div 2 \in 1..n /\ i = 2 * (i \div 2)
  BY <1>2a, <1>5
<1>6. ASSUME NEW i \in 1..m PROVE s[i] \in BareIn(LogTargets)
  <2>1. s[i] = IF i % 2 = 1 THEN Msleep ELSE log[i \div 2]
    BY <1>4
  <2>2. CASE i % 2 = 1
    <3>1. LogTargets \in SUBSET Targets
      BY LogType
    <3>2. Msleep \in BareIn(LogTargets)
      BY <3>1, MsleepType
    <3> QED
      BY <2>1, <2>2, <3>2, Zenon
  <2>3. CASE i % 2 # 1
    <3>1. i \div 2 \in 1..Len(log)
      BY <1>1, <1>5, <2>3
    <3>2. log[i \div 2] \in BareIn(LogTargets)
      BY <3>1, LogType, Zenon
    <3> QED
      BY <2>1, <2>3, <3>2, Zenon
  <2> QED
    BY <2>2, <2>3
<1>7. s \in Seq(BareIn(LogTargets)) /\ Len(s) = m
  BY <1>4, <1>6
<1>8. \A i \in 1..m :
         /\ i % 2 = 1 => s[i] = Msleep
         /\ i % 2 # 1 => i \div 2 \in 1..n /\ s[i] = log[i \div 2]
  BY <1>4, <1>5
<1>9. Count(s) <= n
  <2>1. TypingAt(s) = {i \in 1..m : IsTyping(s[i])}
    BY <1>7 DEF TypingAt
  <2>2. ASSUME NEW i \in TypingAt(s)
        PROVE  i \in 1..m /\ i \div 2 \in 1..n /\ i = 2 * (i \div 2)
    <3>1. i \in 1..m /\ IsTyping(s[i])
      BY <2>1
    <3>2. i % 2 # 1
      <4>1. ~IsTyping(Msleep)
        BY DEF IsTyping, Msleep, NoItem
      <4> QED
        BY <1>8, <3>1, <4>1
    <3> QED
      BY <1>5, <3>1, <3>2
  <2> DEFINE f == [i \in TypingAt(s) |-> i \div 2]
  <2>3. f \in Injection(TypingAt(s), 1..n)
    <3>1. f \in [TypingAt(s) -> 1..n]
      BY <2>2
    <3>2. ASSUME NEW i \in TypingAt(s), NEW j \in TypingAt(s), f[i] = f[j]
          PROVE  i = j
      BY <2>2, <3>2
    <3> QED
      BY <3>1, <3>2 DEF Injection, IsInjective
  <2>4. IsFiniteSet(1..n) /\ Cardinality(1..n) = n
    BY FS_Interval
  <2>5. Cardinality(TypingAt(s)) <= Cardinality(1..n)
    BY <2>3, <2>4, FS_Injection
  <2> QED
    BY <1>7, <2>4, <2>5, CountType
<1> QED
  BY <1>1, <1>2, <1>3, <1>7, <1>8, <1>9, Zenon

-----------------------------------------------------------------------------
(* Names are told apart by their parts and their number.                   *)
LEMMA NameFields ==
    \A p, c, q, d : /\ Name(p, c).parts = p /\ Name(p, c).count = c
                    /\ Name(p, c) = Name(q, d) => p = q /\ c = d
                    /\ p \in Seq(STRING) /\ c \in Nat => Name(p, c) \in Names
BY DEF Name, Names

(* ObjectVariablesPostProcessor chooses a name that no object has, and one *)
(* like that of a string only if the object's last keyword is.             *)
LEMMA NameForIs ==
    ASSUME objects \in [Targets -> Names], NEW t \in Targets
    PROVE  /\ NameFor(t) \in Names /\ NameFor(t) \notin Range(objects)
           /\ NameFor(t).parts # <<>>
           /\ \A i \in DOMAIN StringNames : NameFor(t) = SName(i) =>
                 Last(Keywords[t]) = StringNames[i]
<1>1. PICK parts : parts = Keywords[t]
  OBVIOUS
<1>2. parts \in Seq(STRING) /\ parts # <<>>
  BY <1>1, ConverterAssumption
<1>3. PICK n \in Nat : n = Len(parts) /\ n >= 1
  BY <1>2
<1>4. PICK last : last = Last(parts)
  OBVIOUS
<1>5. last = parts[n] /\ last \in STRING
  BY <1>2, <1>3, <1>4 DEF Last
<1>6. PICK m : m = Max({1, n - 1})
  OBVIOUS
<1>7. m \in 1..n /\ (m = n => n = 1)
  <2>1. \E a \in {1, n - 1} : \A b \in {1, n - 1} : a >= b
    BY <1>3
  <2>2. m \in {1, n - 1} /\ m >= 1 /\ m >= n - 1
    BY <1>3, <1>6, <2>1 DEF Max
  <2> QED
    BY <1>3, <2>2
<1>8. PICK lp : lp = From(parts, m)
  OBVIOUS
<1>9. /\ lp \in Seq(STRING) /\ Len(lp) = n + 1 - m
      /\ \A i \in 1..Len(lp) : lp[i] = parts[m - 1 + i]
  <2>1. m \in 1..(Len(parts) + 1)
    BY <1>3, <1>7
  <2>2. /\ From(parts, m) \in Seq(STRING)
        /\ Len(From(parts, m)) = Len(parts) + 1 - m
        /\ \A i \in 1..Len(From(parts, m)) :
              From(parts, m)[i] = parts[m - 1 + i]
    BY <1>2, <2>1, Parted
  <2> QED
    BY <1>3, <1>8, <2>2, Zenon
<1>10. lp # <<>> /\ (Len(lp) = 1 => lp[1] = last)
  BY <1>3, <1>5, <1>7, <1>9
<1>11. PICK used : used = Range(objects)
  OBVIOUS
<1> DEFINE C == {c \in 2..(Cardinality(used) + 2) : Name(lp, c) \notin used}
<1>12. IsFiniteSet(used) /\ Cardinality(used) \in Nat
  <2>1. objects \in Surjection(Targets, used)
    BY <1>11 DEF Range, Surjection
  <2>2. IsFiniteSet(used)
    BY <2>1, FS_Surjection, ConverterAssumption
  <2> QED
    BY <2>2, FS_CardinalityType
<1>13. C # {}
  <2> SUFFICES ASSUME C = {} PROVE FALSE
    OBVIOUS
  <2>1. PICK k \in Nat : k = Cardinality(used)
    BY <1>12
  <2> DEFINE S == 2..(k + 2)
             f == [c \in S |-> Name(lp, c)]
  <2>2. f \in [S -> used]
    BY <2>1
  <2>3. IsFiniteSet(S) /\ Cardinality(S) = k + 1
    BY FS_Interval
  <2>4. Cardinality(used) < Cardinality(S)
    BY <2>1, <2>3
  <2>5. \E x, y \in S : x # y /\ f[x] = f[y]
    <3> HIDE DEF f, S
    <3> QED
      BY <1>12, <2>2, <2>3, <2>4, FS_PigeonHole
  <2>6. PICK x \in S, y \in S : x # y /\ Name(lp, x) = Name(lp, y)
    BY <2>5
  <2> QED
    BY <2>6, NameFields, Zenon
<1>14. PICK c : c = Min(C)
  OBVIOUS
<1>15. c \in C
  <2>1. C \in SUBSET Nat
    OBVIOUS
  <2> QED
    BY <1>13, <1>14, <2>1, MinIs
<1>16. c \in Nat /\ c >= 2 /\ Name(lp, c) \notin used
  BY <1>15, <1>12
<1>17. NameFor(t) = IF Name(<<last>>, 0) \notin used THEN Name(<<last>>, 0)
                    ELSE IF Name(lp, 0) \notin used THEN Name(lp, 0)
                    ELSE Name(lp, c)
  <2>1. PICK long : long = Name(lp, 0)
    OBVIOUS
  <2>1a. long.parts = lp
    BY <2>1, NameFields
  <2>2. NameFor(t) =
            IF Name(<<last>>, 0) \notin used THEN Name(<<last>>, 0)
            ELSE IF long \notin used THEN long
            ELSE Name(long.parts,
                      Min({e \in 2..(Cardinality(used) + 2) :
                              Name(long.parts, e) \notin used}))
    BY <1>1, <1>3, <1>4, <1>6, <1>8, <1>11, <2>1, Zenon DEF NameFor
  <2> QED
    BY <1>14, <2>1, <2>1a, <2>2, Zenon
<1> HIDE DEF C
<1>18. PICK name : name = NameFor(t)
  OBVIOUS
<1>19. \/ name = Name(<<last>>, 0) /\ name \notin used
       \/ name = Name(lp, 0) /\ name \notin used
       \/ name = Name(lp, c) /\ name \notin used
  BY <1>16, <1>17, <1>18, Zenon
<1>20. ASSUME NEW i \in DOMAIN StringNames, name = SName(i)
       PROVE  last = StringNames[i]
  <2>1. name = Name(<<StringNames[i]>>, 0)
    BY <1>20 DEF SName
  <2>2. CASE name = Name(<<last>>, 0)
    <3>1. <<last>> = <<StringNames[i]>>
      BY <2>1, <2>2, NameFields
    <3> QED
      BY <3>1
  <2>3. CASE name = Name(lp, 0)
    <3>1. lp = <<StringNames[i]>>
      BY <2>1, <2>3, NameFields
    <3>2. Len(lp) = 1 /\ lp[1] = StringNames[i]
      BY <3>1
    <3> QED
      BY <1>10, <3>2
  <2>4. CASE name = Name(lp, c)
    <3>1. c = 0
      BY <2>1, <2>4, NameFields
    <3> QED
      BY <1>16, <3>1
  <2> QED
    BY <1>19, <2>2, <2>3, <2>4
<1>21. <<last>> \in Seq(STRING) /\ <<last>> # <<>> /\ 0 \in Nat
  BY <1>5
<1>22. name \in Names /\ name.parts # <<>>
  <2>1. CASE name = Name(<<last>>, 0)
    BY <2>1, <1>21, NameFields
  <2>2. CASE name = Name(lp, 0)
    BY <2>2, <1>9, <1>10, <1>21, NameFields
  <2>3. CASE name = Name(lp, c)
    BY <2>3, <1>9, <1>10, <1>16, NameFields
  <2> QED
    BY <1>19, <2>1, <2>2, <2>3
<1> QED
  BY <1>1, <1>4, <1>11, <1>18, <1>19, <1>20, <1>22, Zenon

-----------------------------------------------------------------------------
(* What ObjectVariables does with an item: nothing, give it the variable   *)
(* of its object, or declare a new one.                                    *)
Keeps(d, item, list) == d = Processed(item, list, <<>>, <<>>, FALSE)
Becomes(x, item, var, arg) ==
    /\ x.method = item.method /\ x.var = var /\ x.arg = arg
Declaration(y, method, var, arg) ==
    y.method = method /\ y.var = var /\ y.arg = arg
Uses(d, item, list, X, name) ==
    \E x \in X : /\ Becomes(x, item, name, NoName)
                 /\ d = Processed(x, list, <<>>, <<>>, FALSE)
DeclaresAndUses(d, item, list, X, name) ==
    \E x \in X, y \in X :
        /\ Becomes(x, item, name, NoName)
        /\ Declaration(y, "object", name, NoName)
        /\ d = Processed(x, list, <<y>>, <<>>, FALSE)

(* ObjectVariables keeps an item, gives it the variable of its object, or  *)
(* declares a new one for it.                                              *)
LEMMA ObjectIs ==
    ASSUME objects \in [Targets -> Names], NEW T \in SUBSET Targets,
           NEW item \in BareIn(T), NEW list
    PROVE  LET d == ObjectVariables(item, list) IN
           \/ /\ item.target = NoTarget /\ ObjectsAfter(item) = objects
              /\ Keeps(d, item, list)
           \/ /\ item.target \in T /\ ObjectsAfter(item) = objects
              /\ objects[item.target] # NoName
              /\ Uses(d, item, list, NoArgIn(T), objects[item.target])
           \/ /\ item.target \in T /\ objects[item.target] = NoName
              /\ ObjectsAfter(item) =
                    [objects EXCEPT ![item.target] = NameFor(item.target)]
              /\ DeclaresAndUses(d, item, list, NoArgIn(T),
                                 NameFor(item.target))
<1>1. PICK d : d = ObjectVariables(item, list)
  OBVIOUS
<1>2. PICK t : t = item.target
  OBVIOUS
<1>3. /\ item \in Item /\ t \in T \cup {NoTarget} /\ item.arg = NoName
      /\ item.method # "string" /\ item.method \in Methods
      /\ NoTarget \notin Targets
  BY <1>2, ConverterAssumption DEF BareIn, NoArgIn, ItemIn, Item
<1>4. CASE t = NoTarget
  <2>1. ObjectsAfter(item) = objects
    BY <1>2, <1>4, Zenon DEF ObjectsAfter, NewObject
  <2>2. d = Processed(item, list, <<>>, <<>>, FALSE)
    BY <1>1, <1>2, <1>4, Zenon DEF ObjectVariables, Untouched
  <2> QED
    BY <1>1, <1>2, <1>4, <2>1, <2>2, Zenon DEF Keeps
<1>5. CASE t # NoTarget
  <2>1. t \in T /\ t \in Targets /\ t # NoTarget
    BY <1>3, <1>5
  <2>2. PICK name : name = ObjectsAfter(item)[t]
    OBVIOUS
  <2>3. PICK x : x = [item EXCEPT !.target = NoTarget, !.var = name]
    OBVIOUS
  <2>4. PICK y : y = [NoItem EXCEPT !.method = "object", !.target = t,
                                    !.var = name]
    OBVIOUS
  <2>5. d = Processed(x, list, IF NewObject(item) THEN <<y>> ELSE <<>>,
                      <<>>, FALSE)
    BY <1>1, <1>2, <2>1, <2>2, <2>3, <2>4, Zenon DEF ObjectVariables
  <2>6. ASSUME name \in Names
        PROVE  x \in NoArgIn(T) /\ Becomes(x, item, name, NoName)
    <3>1. x \in Item
      BY <1>3, <2>3, <2>6 DEF Item
    <3>2. /\ x.method = item.method /\ x.target = NoTarget
          /\ x.var = name /\ x.arg = item.arg
      BY <1>3, <2>3 DEF Item
    <3> QED
      BY <1>3, <3>1, <3>2 DEF NoArgIn, ItemIn, Becomes
  <2>7. ASSUME name \in Names
        PROVE  y \in NoArgIn(T) /\ Declaration(y, "object", name, NoName)
    <3>1. y = ItemOf("object", t, <<>>, name, NoName)
      BY <2>4 DEF NoItem, ItemOf
    <3>2. /\ "object" \in Methods /\ t \in Targets \cup {NoTarget}
          /\ <<>> \in Seq(Nat) /\ NoName \in Names
      BY <2>1, NoNameType DEF Methods
    <3>3. ItemOf("object", t, <<>>, name, NoName) \in Item
      BY <2>7, <3>2, ItemOfType
    <3>4. y.method = "object" /\ y.target = t /\ y.var = name /\ y.arg = NoName
      BY <3>1, ItemOfFields
    <3> QED
      BY <2>1, <3>1, <3>3, <3>4 DEF NoArgIn, ItemIn, Declaration
  <2>8. CASE objects[t] = NoName
    <3>1. NewObject(item)
      BY <1>2, <2>1, <2>8 DEF NewObject
    <3>2. ObjectsAfter(item) = [objects EXCEPT ![t] = NameFor(t)]
      BY <1>2, <3>1, Zenon DEF ObjectsAfter
    <3>3. name = NameFor(t)
      BY <2>1, <2>2, <3>2
    <3>4. name \in Names
      BY <2>1, <3>3, NameForIs
    <3>5. d = Processed(x, list, <<y>>, <<>>, FALSE)
      BY <2>5, <3>1, Zenon
    <3>6. DeclaresAndUses(d, item, list, NoArgIn(T), name)
      BY <2>6, <2>7, <3>4, <3>5, Zenon DEF DeclaresAndUses
    <3> QED
      BY <1>1, <1>2, <2>1, <2>8, <3>2, <3>3, <3>6, Zenon
  <2>9. CASE objects[t] # NoName
    <3>1. ~NewObject(item)
      BY <1>2, <2>9 DEF NewObject
    <3>2. ObjectsAfter(item) = objects
      BY <3>1, Zenon DEF ObjectsAfter
    <3>3. name = objects[t] /\ name \in Names
      BY <2>1, <2>2, <3>2
    <3>4. d = Processed(x, list, <<>>, <<>>, FALSE)
      BY <2>5, <3>1, Zenon
    <3>5. Uses(d, item, list, NoArgIn(T), name)
      BY <2>6, <3>3, <3>4, Zenon DEF Uses
    <3> QED
      BY <1>1, <1>2, <2>1, <2>9, <3>2, <3>3, <3>5, Zenon
  <2> QED
    BY <2>8, <2>9
<1> QED
  BY <1>4, <1>5

(* What StringVariables does with an item: nothing, give it the variable   *)
(* of its text, or declare a new one.                                      *)
Sent(d, item, list, X, m) ==
    \E x \in X : /\ Becomes(x, item, item.var, SName(m))
                 /\ d = Processed(x, list, <<>>, <<>>, FALSE)
DeclaresAndSends(d, item, list, X, m) ==
    \E x \in X, y \in X :
        /\ Becomes(x, item, item.var, SName(m))
        /\ Declaration(y, "string", NoName, SName(m))
        /\ d = Processed(x, list, <<>>, <<y>>, FALSE)
StringsAfter(item) ==
    IF NewString(item) THEN Append(strings, item.text) ELSE strings

(* The names of strings are proper names and differ.                       *)
LEMMA StringNameType ==
    ASSUME NEW m \in 1..Len(StringNames)
    PROVE  /\ SName(m) \in Names /\ SName(m) # NoName
           /\ SName(m).parts # <<>>
           /\ \A k \in 1..Len(StringNames) : SName(m) = SName(k) => k = m
<1>1. StringNames \in Seq(STRING) /\ IsInjective(StringNames)
  BY ConverterAssumption
<1>2. StringNames[m] \in STRING
  BY <1>1
<1>3. <<StringNames[m]>> \in Seq(STRING) /\ <<StringNames[m]>> # <<>>
  BY <1>2
<1>4. SName(m) \in Names /\ SName(m).parts = <<StringNames[m]>>
  BY <1>3, NameFields DEF SName
<1>5. NoName.parts = <<>>
  BY NameFields DEF NoName
<1>6. ASSUME NEW k \in 1..Len(StringNames), SName(m) = SName(k) PROVE k = m
  <2>1. <<StringNames[m]>> = <<StringNames[k]>>
    BY <1>6, NameFields DEF SName
  <2>2. StringNames[m] = StringNames[k]
    BY <2>1
  <2>3. m \in DOMAIN StringNames /\ k \in DOMAIN StringNames
    BY <1>1
  <2> QED
    BY <1>1, <2>2, <2>3 DEF IsInjective
<1> QED
  BY <1>3, <1>4, <1>5, <1>6

(* StringVariables keeps an item, gives a sendText the variable of its     *)
(* text, or declares a new one for it.                                     *)
LEMMA StringIs ==
    ASSUME strings \in Seq(Seq(Nat)), NEW T \in SUBSET Targets,
           NEW item \in NoArgIn(T), NEW list,
           item.method = "sendText" => Len(strings) < Len(StringNames),
           Len(strings) <= Len(StringNames)
    PROVE  LET d == StringVariables(item, list) IN
           \/ /\ item.method # "sendText" /\ StringsAfter(item) = strings
              /\ Keeps(d, item, list)
           \/ /\ item.method = "sendText" /\ StringsAfter(item) = strings
              /\ \E m \in 1..Len(strings) :
                    Sent(d, item, list, ItemIn(T), m)
           \/ /\ item.method = "sendText"
              /\ StringsAfter(item) = Append(strings, item.text)
              /\ item.text \in Seq(Nat)
              /\ DeclaresAndSends(d, item, list, ItemIn(T), Len(strings) + 1)
<1>1. PICK d : d = StringVariables(item, list)
  OBVIOUS
<1>2. CASE item.method # "sendText"
  <2>1. StringsAfter(item) = strings
    BY <1>2, Zenon DEF StringsAfter, NewString
  <2>2. d = Processed(item, list, <<>>, <<>>, FALSE)
    BY <1>1, <1>2, Zenon DEF StringVariables, Untouched
  <2> QED
    BY <1>1, <1>2, <2>1, <2>2, Zenon DEF Keeps
<1>3. CASE item.method = "sendText"
  <2>0. PICK n \in Nat : n = Len(strings) /\ n < Len(StringNames)
    BY <1>3
  <2>0a. Len(StringNames) \in Nat
    BY ConverterAssumption
  <2> DEFINE S == {i \in 1..Len(strings) : strings[i] = item.text}
                     \cup {Len(strings) + 1}
  <2>1. PICK m : m = Min(S)
    OBVIOUS
  <2>2. m \in S /\ (\A y \in S : m <= y) /\ m \in 1..(n + 1)
    <3>1. S \in SUBSET Nat /\ S # {} /\ S \in SUBSET (1..(n + 1))
      BY <2>0
    <3> QED
      BY <2>1, <3>1, MinIs
  <2>3. PICK name : name = SName(m)
    OBVIOUS
  <2>4. StringName(item.text) = name
    BY <2>1, <2>3, Zenon DEF StringName, SName
  <2>5. name \in Names
    <3>1. m \in 1..Len(StringNames)
      BY <2>0, <2>0a, <2>2
    <3> QED
      BY <2>3, <3>1, StringNameType
  <2>6. PICK x : x = [item EXCEPT !.text = <<>>, !.arg = name]
    OBVIOUS
  <2>7. PICK y : y = [NoItem EXCEPT !.method = "string",
                                    !.text = item.text, !.arg = name]
    OBVIOUS
  <2>8. d = Processed(x, list, <<>>,
                      IF NewString(item) THEN <<y>> ELSE <<>>, FALSE)
    BY <1>1, <1>3, <2>4, <2>6, <2>7, Zenon DEF StringVariables
  <2>9. item \in Item /\ item.text \in Seq(Nat)
    BY DEF NoArgIn, ItemIn, Item
  <2>10. x \in ItemIn(T) /\ Becomes(x, item, item.var, name)
    <3>0. item.target \in T \cup {NoTarget} /\ <<>> \in Seq(Nat)
      BY DEF NoArgIn, ItemIn
    <3>1. x \in Item
      BY <2>5, <2>6, <2>9, <3>0 DEF Item
    <3>2. /\ x.method = item.method /\ x.target = item.target
          /\ x.var = item.var /\ x.arg = name
      BY <2>6, <2>9 DEF Item
    <3> QED
      BY <3>0, <3>1, <3>2 DEF ItemIn, Becomes
  <2>11. y \in ItemIn(T) /\ Declaration(y, "string", NoName, name)
    <3>1. y = ItemOf("string", NoTarget, item.text, NoName, name)
      BY <2>7 DEF NoItem, ItemOf
    <3>2. /\ "string" \in Methods /\ NoTarget \in Targets \cup {NoTarget}
          /\ NoName \in Names
      BY NoNameType DEF Methods
    <3>3. ItemOf("string", NoTarget, item.text, NoName, name) \in Item
      BY <2>5, <2>9, <3>2, ItemOfType
    <3>4. /\ y.method = "string" /\ y.target = NoTarget
          /\ y.var = NoName /\ y.arg = name
      BY <3>1, ItemOfFields
    <3> QED
      BY <3>1, <3>3, <3>4 DEF ItemIn, Declaration
  <2>12. CASE NewString(item)
    <3>1. m = n + 1
      <4>1. ~\E i \in 1..Len(strings) : strings[i] = item.text
        BY <2>12, Zenon DEF NewString, Contains
      <4> QED
        BY <2>0, <2>2, <4>1
    <3>2. d = Processed(x, list, <<>>, <<y>>, FALSE)
      BY <2>8, <2>12, Zenon
    <3>3. StringsAfter(item) = Append(strings, item.text)
      BY <2>12, Zenon DEF StringsAfter
    <3>4. DeclaresAndSends(d, item, list, ItemIn(T), Len(strings) + 1)
      <4>1. name = SName(Len(strings) + 1)
        BY <2>0, <2>3, <3>1, Zenon
      <4> QED
        BY <2>10, <2>11, <3>2, <4>1, Zenon DEF DeclaresAndSends
    <3> QED
      BY <1>1, <1>3, <2>9, <3>3, <3>4, Zenon
  <2>13. CASE ~NewString(item)
    <3>1. m \in 1..Len(strings)
      <4>1. PICK i \in 1..Len(strings) : strings[i] = item.text
        BY <1>3, <2>13, Zenon DEF NewString, Contains
      <4>2. i \in S
        BY <4>1
      <4>3. m <= i /\ i <= n
        BY <2>0, <2>2, <4>2
      <4> QED
        BY <2>0, <2>2, <4>3
    <3>2. d = Processed(x, list, <<>>, <<>>, FALSE)
      BY <2>8, <2>13, Zenon
    <3>3. StringsAfter(item) = strings
      BY <2>13, Zenon DEF StringsAfter
    <3>4. Sent(d, item, list, ItemIn(T), m)
      BY <2>3, <2>10, <3>2, Zenon DEF Sent
    <3> HIDE DEF S
    <3> QED
      BY <1>1, <1>3, <3>1, <3>3, <3>4, Zenon
  <2> QED
    BY <2>12, <2>13
<1> QED
  BY <1>2, <1>3

-----------------------------------------------------------------------------
(* The types, and what is in the lists: the first part of the invariant.   *)
TypeInv == TypeOK /\ LogOK /\ Idle /\ Staged /\ CountOK

(* The parts of the type invariant that a turn can disturb.                *)
Lists(ps, l, i, ins, objs, strs) ==
    /\ l \in Seq(Item) /\ i \in Seq(Item) /\ InserterOK(Item, ins)
    /\ objs \in [Targets -> Names]
    /\ strs \in Seq(Seq(Nat)) /\ Len(strs) <= Len(l)

(* TypeOK in the terms of the proofs.                                      *)
LEMMA TypeOKIs ==
    TypeOK <=> /\ phase \in {"record", "convert", "done", "failed"}
               /\ cut \in BOOLEAN
               /\ options \subseteq Chosen /\ passes \subseteq options
               /\ Lists(passes, log, in, inserter, objects, strings)
BY RangeIs DEF TypeOK, Lists, InserterOK

(* Reset leaves an empty list.                                             *)
LEMMA ResetIs ==
    ASSUME NEW X, NEW l \in Seq(X), NEW Y
    PROVE  InserterOK(Y, Reset(l)) /\ Reset(l).list = <<>>
BY DEF Reset, InserterOK

(* The first state.                                                        *)
LEMMA TypeInit == Init => TypeInv
<1> SUFFICES ASSUME Init PROVE TypeInv
  OBVIOUS
<1>1. /\ log = <<>> /\ cut = FALSE /\ options = {} /\ phase = "record"
      /\ passes = {} /\ in = <<>> /\ inserter = Reset(<<>>)
      /\ objects = [t \in Targets |-> NoName] /\ strings = <<>>
  BY DEF Init
<1>2. /\ <<>> \in Seq(Item) /\ <<>> \in Seq(Seq(Nat)) /\ <<>> \in Seq(Events)
      /\ <<>> \in Seq(ItemIn(LogTargets)) /\ Len(<<>>) = 0
  OBVIOUS
<1>3. InserterOK(Item, inserter) /\ inserter.list = <<>>
  BY <1>1, <1>2, ResetIs
<1>4. objects \in [Targets -> Names]
  BY <1>1, NoNameType
<1>5. Lists(passes, log, in, inserter, objects, strings)
  BY <1>1, <1>2, <1>3, <1>4 DEF Lists
<1>6. TypeOK
  BY <1>1, <1>5, TypeOKIs
<1>7. LogOK
  BY <1>1, <1>2, ConverterAssumption DEF LogOK
<1>8. Idle
  BY <1>1 DEF Idle
<1>9. Staged
  BY <1>1, <1>2, <1>3 DEF Staged
<1>10. CountOK
  BY <1>1, <1>2 DEF CountOK
<1> QED
  BY <1>6, <1>7, <1>8, <1>9, <1>10 DEF TypeInv

(* Recording an event.                                                     *)
LEMMA RecordedType ==
    ASSUME NEW shape \in UNION Alphabets, NEW n \in Nat
    PROVE  (IF IsKey(shape) THEN shape ELSE [shape EXCEPT !.n = n]) \in Events
<1>1. /\ shape \in Item /\ shape.target \in Targets
      /\ shape.method \in {"pressKey", "releaseKey", "moveMouse", "other"}
      /\ shape.var = NoName /\ shape.arg = NoName
  BY ConverterAssumption
<1>2. shape \in Events
  BY <1>1 DEF Events
<1>3. PICK e : e = [shape EXCEPT !.n = n]
  OBVIOUS
<1>4. /\ e \in Item /\ e.target = shape.target /\ e.method = shape.method
      /\ e.var = shape.var /\ e.arg = shape.arg
  BY <1>1, <1>3 DEF Item
<1>5. e \in Events
  BY <1>1, <1>4 DEF Events
<1> QED
  BY <1>2, <1>3, <1>5, Zenon

(* Recording an event.                                                     *)
LEMMA TypeRecord ==
    ASSUME TypeInv, NEW shape \in UNION Alphabets, Record(shape)
    PROVE  TypeInv'
<1>1. /\ phase = "record" /\ Len(log) < MaxEvents
      /\ log' = Append(log, IF IsKey(shape) THEN shape
                            ELSE [shape EXCEPT !.n = Len(log) + 1])
      /\ UNCHANGED <<cut, options, phase, passes, in, inserter, objects,
                     strings>>
  BY DEF Record
<1>2. /\ passes = {} /\ in = <<>> /\ inserter = Reset(<<>>)
      /\ objects = [t \in Targets |-> NoName] /\ strings = <<>>
      /\ log \in Seq(Events) /\ Len(log) <= MaxEvents
  BY <1>1 DEF TypeInv, Idle, LogOK
<1>3. PICK e : e = IF IsKey(shape) THEN shape
                   ELSE [shape EXCEPT !.n = Len(log) + 1]
  OBVIOUS
<1>4. e \in Events
  <2>1. Len(log) + 1 \in Nat
    BY <1>2
  <2> QED
    BY <1>3, <2>1, RecordedType
<1>5. log' = Append(log, e)
  BY <1>1, <1>3, Zenon
<1>6. log' \in Seq(Events) /\ Len(log') = Len(log) + 1
  BY <1>2, <1>4, <1>5, AppendIs
<1>7. Len(log) \in Nat /\ Len(log') <= MaxEvents
  <2>1. Len(log) \in Nat
    BY <1>2
  <2> QED
    BY <1>1, <1>6, <2>1, ConverterAssumption
<1>8. log' \in Seq(Item)
  BY <1>6 DEF Events
<1>9. TypeOK /\ strings' = <<>> /\ Len(<<>>) = 0
  BY <1>1, <1>2 DEF TypeInv
<1>10. Lists(passes, log, in, inserter, objects, strings)'
  BY <1>1, <1>6, <1>7, <1>8, <1>9, TypeOKIs DEF Lists
<1>11. TypeOK'
  <2>1. /\ phase \in {"record", "convert", "done", "failed"}
        /\ cut \in BOOLEAN
        /\ options \subseteq Chosen /\ passes \subseteq options
    BY <1>9, TypeOKIs
  <2> QED
    BY <1>1, <1>10, <2>1, RangeIs DEF TypeOK, Lists, InserterOK
<1>12. LogOK'
  BY <1>6, <1>7 DEF LogOK
<1>13. Idle'
  BY <1>1, <1>2 DEF Idle
<1>14. Staged'
  <2>1. inserter'.list = <<>> /\ <<>> \in Seq(ItemIn(LogTargets'))
    BY <1>1, <1>2 DEF Reset
  <2> QED
    BY <1>1, <1>2, <2>1 DEF Staged
<1>15. CountOK'
  BY <1>1, <1>2, <1>6, <1>7, <1>9 DEF CountOK
<1> QED
  BY <1>11, <1>12, <1>13, <1>14, <1>15 DEF TypeInv

(* What the lists hold when a pass begins.                                 *)
LEMMA StageBegins ==
    ASSUME NEW T, NEW p, NEW list \in Seq(BareIn(T)), NEW objs, NEW strs,
           objs = [t \in Targets |-> NoName], strs = <<>>
    PROVE  Stage(p, T, <<>>, list, objs, strs)
<1>1. /\ <<>> \in Seq(BareIn(T)) /\ <<>> \in Seq(NoArgIn(T))
      /\ <<>> \in Seq(ItemIn(T))
  OBVIOUS
<1>2. list \in Seq(NoArgIn(T))
  BY ItemSets, SeqIn
<1> QED
  BY <1>1, <1>2 DEF Stage

(* Parsing the log.                                                        *)
LEMMA TypeParse ==
    ASSUME TypeInv, NEW chosen \in OptionSets, NEW short \in BOOLEAN,
           Parse(chosen, short)
    PROVE  TypeInv'
<1>1. /\ phase = "record" /\ phase' = "convert" /\ cut' = short
      /\ options' = chosen /\ passes' = chosen /\ in' = Items(short)
      /\ log' = log /\ inserter' = inserter /\ objects' = objects
      /\ strings' = strings
  BY DEF Parse
<1>2. /\ inserter = Reset(<<>>)
      /\ objects = [t \in Targets |-> NoName] /\ strings = <<>>
      /\ log \in Seq(Events) /\ Len(log) <= MaxEvents
  BY <1>1 DEF TypeInv, Idle, LogOK
<1>3. /\ in' \in Seq(BareIn(LogTargets)) /\ Count(in') <= Len(log)
  BY <1>1, <1>2, ItemsIs
<1>4. chosen \in SUBSET Chosen
  BY RangeIs, ConverterAssumption
<1>5. in' \in Seq(Item) /\ in' \in Seq(ItemIn(LogTargets))
  BY <1>3, ItemSets, SeqIn
<1>6. LogTargets' = LogTargets
  BY <1>1 DEF LogTargets
<1>7. TypeOK'
  <2>1. Lists(passes, log, in, inserter, objects, strings)
    BY TypeOKIs DEF TypeInv
  <2>2. Lists(passes, log, in, inserter, objects, strings)'
    BY <1>1, <1>5, <2>1 DEF Lists
  <2> QED
    BY <1>1, <1>4, <2>2, RangeIs DEF TypeOK, Lists, InserterOK
<1>8. LogOK'
  BY <1>1, <1>2 DEF LogOK
<1>9. Idle'
  BY <1>1 DEF Idle
<1>10. inserter'.list = <<>> /\ Len(<<>>) = 0
  BY <1>1, <1>2 DEF Reset
<1>11. Staged'
  <2>1. Stage(Current', LogTargets', inserter'.list, in', objects', strings')
    BY <1>1, <1>2, <1>3, <1>6, <1>10, StageBegins
  <2> QED
    BY <1>5, <1>6, <1>10, <2>1 DEF Staged
<1>12. CountOK'
  <2>1. Count(in') \in Nat /\ Len(log) \in Nat /\ Count(<<>>) = 0
    BY <1>2, <1>3, CountType, CountEmpty
  <2>2. Counted(Current', inserter'.list, in', strings', Len(log'))
    BY <1>1, <1>2, <1>3, <1>10, <2>1 DEF Counted
  <2> QED
    BY <1>1, <1>2, <1>10, <2>1, <2>2 DEF CountOK
<1> QED
  BY <1>7, <1>8, <1>9, <1>11, <1>12 DEF TypeInv

(* The end of a pass.                                                      *)
LEMMA TypeEndPass ==
    ASSUME TypeInv, EndPass
    PROVE  TypeInv'
<1>1. /\ phase = "convert" /\ passes # {} /\ in = <<>>
      /\ passes' = passes \ {Current} /\ in' = inserter.list
      /\ inserter' = Reset(inserter.list)
      /\ log' = log /\ cut' = cut /\ options' = options /\ phase' = phase
      /\ objects' = objects /\ strings' = strings
  BY DEF EndPass
<1>2. /\ phase \in {"record", "convert", "done", "failed"}
      /\ cut \in BOOLEAN
      /\ options \subseteq Chosen /\ passes \subseteq options
      /\ Lists(passes, log, in, inserter, objects, strings)
  BY TypeOKIs DEF TypeInv
<1>3. PICK p : p = Current
  OBVIOUS
<1>4. Turn(passes, p)
  <2>1. Current = First(passes)
    BY DEF Current, First
  <2> QED
    BY <1>1, <1>2, <1>3, <2>1, FirstIs
<1>5. LogTargets' = LogTargets
  BY <1>1 DEF LogTargets
<1>6. /\ Stage(p, LogTargets, inserter.list, in, objects, strings)
      /\ Counted(p, inserter.list, in, strings, Len(log))
  BY <1>1, <1>3 DEF TypeInv, Staged, CountOK
<1>7. inserter.list \in Seq(Item) /\ inserter.list \in Seq(ItemIn(LogTargets))
  <2>1. p \in Chosen
    BY <1>4 DEF Turn
  <2>2. CASE p \in Early
    <3>1. inserter.list \in Seq(BareIn(LogTargets))
      BY <1>6, <2>2 DEF Stage
    <3> QED
      BY <3>1, ItemSets, SeqIn
  <2>3. CASE p = "ObjectVariables"
    <3>1. inserter.list \in Seq(NoArgIn(LogTargets))
      BY <1>6, <2>3 DEF Stage
    <3> QED
      BY <3>1, ItemSets, SeqIn
  <2>4. CASE p = "StringVariables"
    <3>1. inserter.list \in Seq(ItemIn(LogTargets))
      BY <1>6, <2>4 DEF Stage
    <3> QED
      BY <3>1, ItemSets, SeqIn
  <2> QED
    BY <2>1, <2>2, <2>3, <2>4 DEF Chosen
<1>8. InserterOK(Item, inserter') /\ inserter'.list = <<>>
  BY <1>1, <1>7, ResetIs
<1>9. TypeOK'
  <2>1. Lists(passes, log, in, inserter, objects, strings)'
    BY <1>1, <1>2, <1>7, <1>8 DEF Lists
  <2>2. passes' \subseteq options'
    BY <1>1, <1>2
  <2> QED
    BY <1>1, <1>2, <2>1, <2>2, RangeIs DEF TypeOK, Lists, InserterOK
<1>10. LogOK'
  BY <1>1 DEF LogOK, TypeInv
<1>11. Idle'
  BY <1>1 DEF Idle
<1>12. PICK q : q = Current'
  OBVIOUS
<1>13. passes' # {} =>
         /\ q # p /\ p \in Chosen
         /\ q \in Early => p \in Early
         /\ q = "ObjectVariables" => p \in Early
         /\ q = "StringVariables" => p # "StringVariables"
  <2> SUFFICES ASSUME passes' # {}
               PROVE  /\ q # p /\ p \in Chosen
                      /\ q \in Early => p \in Early
                      /\ q = "ObjectVariables" => p \in Early
                      /\ q = "StringVariables" => p # "StringVariables"
    OBVIOUS
  <2>1. q = First(passes \ {p})
    BY <1>1, <1>3, <1>12 DEF Current, First
  <2>2. passes \in SUBSET Chosen
    BY <1>2
  <2>3. Turn(passes \ {p}, q)
    BY <1>1, <1>3, <2>1, <2>2, FirstIs
  <2> QED
    BY <1>4, <2>2, <2>3, NextTurn
<1>13a. /\ p \in Early => /\ inserter.list \in Seq(BareIn(LogTargets))
                          /\ objects = [t \in Targets |-> NoName]
                          /\ strings = <<>>
        /\ p = "ObjectVariables" =>
              /\ inserter.list \in Seq(NoArgIn(LogTargets))
              /\ strings = <<>>
  BY <1>6 DEF Stage
<1>14. Staged'
  <2>1. CASE passes' = {}
    BY <1>1, <1>5, <1>7, <1>8, <2>1 DEF Staged
  <2>2. CASE passes' # {}
    <3>1. Stage(q, LogTargets, <<>>, inserter.list, objects, strings)
      <4>1. CASE p \in Early
        BY <1>13a, <4>1, StageBegins
      <4>2. CASE p \notin Early
        <5>1. q \notin Early /\ q # "ObjectVariables"
          BY <1>13, <2>2, <4>2
        <5>2. <<>> \in Seq(ItemIn(LogTargets))
          OBVIOUS
        <5>3. q = "StringVariables" =>
                 inserter.list \in Seq(NoArgIn(LogTargets))
          BY <1>13, <1>13a, <2>2, <4>2 DEF Chosen
        <5> QED
          BY <5>1, <5>2, <5>3 DEF Stage
      <4> QED
        BY <4>1, <4>2
    <3> QED
      BY <1>1, <1>5, <1>8, <1>12, <2>2, <3>1 DEF Staged
  <2> QED
    BY <2>1, <2>2
<1>15. CountOK'
  <2>1. /\ Count(inserter.list) \in Nat /\ Count(<<>>) = 0
        /\ Len(log) \in Nat /\ Len(strings) \in Nat /\ Len(<<>>) = 0
    BY <1>2, <1>7, CountType, CountEmpty DEF Lists
  <2>2. IF p = "StringVariables" THEN Len(strings) <= Len(log)
        ELSE Count(inserter.list) <= Len(log)
    BY <1>1, <1>6, <2>1 DEF Counted
  <2>3. CASE passes' = {}
    <3>1. Len(strings) <= Len(log)
      BY <1>2 DEF Lists
    <3> QED
      BY <1>1, <2>3, <3>1 DEF CountOK
  <2>4. CASE passes' # {}
    <3>1. p # "StringVariables" => strings = <<>>
      BY <1>4, <1>13a DEF Turn, Chosen
    <3>2. p # "StringVariables" \/ q \notin Chosen
      BY <1>13, <2>4 DEF Chosen, Early
    <3>3. q \in Chosen
      <4>1. q = First(passes \ {p}) /\ passes \ {p} \in SUBSET Chosen
        BY <1>1, <1>2, <1>3, <1>12 DEF Current, First
      <4>2. Turn(passes \ {p}, q)
        BY <1>1, <1>3, <2>4, <4>1, FirstIs
      <4> QED
        BY <4>2 DEF Turn
    <3>4. /\ Len(strings) = 0
          /\ Count(inserter.list) <= Len(log)
      BY <2>1, <2>2, <3>1, <3>2, <3>3
    <3>5. Counted(q, <<>>, inserter.list, strings, Len(log))
      BY <2>1, <3>4 DEF Counted
    <3> QED
      BY <1>1, <1>8, <1>12, <2>4, <3>5 DEF CountOK
  <2> QED
    BY <2>3, <2>4
<1> QED
  BY <1>9, <1>10, <1>11, <1>14, <1>15 DEF TypeInv

(* Writing the script, and a step that changes nothing.                    *)
LEMMA TypeSerialize ==
    ASSUME TypeInv, Serialize
    PROVE  TypeInv'
<1>1. /\ phase = "convert" /\ phase' = "done" /\ passes = {}
      /\ log' = log /\ cut' = cut /\ options' = options /\ passes' = passes
      /\ in' = in /\ inserter' = inserter /\ objects' = objects
      /\ strings' = strings
  BY DEF Serialize
<1>2. TypeOK'
  BY <1>1 DEF TypeInv, TypeOK
<1>3. LogOK' /\ Idle'
  BY <1>1 DEF TypeInv, LogOK, Idle
<1>4. LogTargets' = LogTargets
  BY <1>1 DEF LogTargets
<1>5. Staged' /\ CountOK'
  BY <1>1, <1>4 DEF TypeInv, Staged, CountOK
<1> QED
  BY <1>2, <1>3, <1>5 DEF TypeInv

(* A stuttering step.                                                      *)
LEMMA TypeStutter ==
    ASSUME TypeInv, UNCHANGED vars
    PROVE  TypeInv'
<1>1. /\ phase' = phase
      /\ log' = log /\ cut' = cut /\ options' = options /\ passes' = passes
      /\ in' = in /\ inserter' = inserter /\ objects' = objects
      /\ strings' = strings
  BY DEF vars
<1>2. TypeOK'
  BY <1>1 DEF TypeInv, TypeOK
<1>3. LogOK' /\ Idle'
  BY <1>1 DEF TypeInv, LogOK, Idle
<1>4. LogTargets' = LogTargets /\ Current' = Current
  BY <1>1 DEF LogTargets, Current
<1>5. Staged' /\ CountOK'
  BY <1>1, <1>4 DEF TypeInv, Staged, CountOK
<1> QED
  BY <1>2, <1>3, <1>5 DEF TypeInv

-----------------------------------------------------------------------------
(* A turn of the inner loop of itemString.                                 *)
Turned(p, item, list, d) ==
    /\ phase = "convert" /\ passes # {} /\ in # <<>>
    /\ p = Current /\ item = Head(in) /\ list = Tail(in)
    /\ d = Process(p, item, list)
    /\ phase' = (IF d.bad THEN "failed" ELSE phase)
    /\ in' = d.in /\ inserter' = After(inserter, d)
    /\ objects' = (IF p = "ObjectVariables" THEN ObjectsAfter(item)
                   ELSE objects)
    /\ strings' = (IF p = "StringVariables" THEN StringsAfter(item)
                   ELSE strings)
    /\ log' = log /\ cut' = cut /\ options' = options /\ passes' = passes
    /\ LogTargets' = LogTargets /\ Current' = Current

(* ProcessItem is a turn of the current post-processor.                    *)
LEMMA TurnIs ==
    ASSUME ProcessItem
    PROVE  \E p, item, list, d : Turned(p, item, list, d)
<1>1. PICK p, item, list : p = Current /\ item = Head(in) /\ list = Tail(in)
  OBVIOUS
<1>2. PICK d : d = Process(p, item, list)
  OBVIOUS
<1>3. /\ phase = "convert" /\ passes # {} /\ in # <<>>
      /\ log' = log /\ cut' = cut /\ options' = options /\ passes' = passes
  BY DEF ProcessItem
<1>4. /\ phase' = (IF d.bad THEN "failed" ELSE phase)
      /\ in' = d.in /\ inserter' = After(inserter, d)
  BY <1>1, <1>2, Zenon DEF ProcessItem, After, Closed
<1>5. /\ objects' = (IF p = "ObjectVariables" THEN ObjectsAfter(item)
                     ELSE objects)
      /\ strings' = (IF p = "StringVariables" THEN StringsAfter(item)
                     ELSE strings)
  BY <1>1, Zenon DEF ProcessItem, StringsAfter
<1>6. LogTargets' = LogTargets /\ Current' = Current
  BY <1>3 DEF LogTargets, Current
<1> QED
  BY <1>1, <1>2, <1>3, <1>4, <1>5, <1>6, Zenon DEF Turned

(* The post-processor of the turn.                                         *)
LEMMA ProcessIs ==
    ASSUME NEW item, NEW list
    PROVE  /\ Process("FilterQtInternals", item, list) =
                 FilterQtInternals(item, list)
           /\ Process("SkipMouseMovements", item, list) =
                 SkipMouseMovements(item, list)
           /\ Process("SimplifyMouseMovements", item, list) =
                 SimplifyMouseMovements(item, list)
           /\ Process("SimplifyStrings", item, list) =
                 SimplifyStrings(item, list)
           /\ Process("ObjectVariables", item, list) =
                 ObjectVariables(item, list)
           /\ Process("StringVariables", item, list) =
                 StringVariables(item, list)
BY DEF Process

(* A turn of an early post-processor stays within bounds.                  *)
LEMMA EarlyResult ==
    ASSUME NEW T \in SUBSET Targets, NEW item \in BareIn(T),
           NEW list \in Seq(BareIn(T)), NEW p \in Early
    PROVE  Result(Process(p, item, list), item, list, BareIn(T))
<1>1. CASE p = "FilterQtInternals"
  BY <1>1, ProcessIs, FilterResult
<1>2. CASE p = "SkipMouseMovements"
  BY <1>2, ProcessIs, SkipResult
<1>3. CASE p = "SimplifyMouseMovements"
  BY <1>3, ProcessIs, MouseResult
<1>4. CASE p = "SimplifyStrings"
  BY <1>4, ProcessIs, StringsResult
<1> QED
  BY <1>1, <1>2, <1>3, <1>4 DEF Early

(* What a turn leaves, whichever post-processor has it.                    *)
Taken(X, p) ==
    /\ in' \in Seq(X) /\ InserterOK(Item, inserter')
    /\ objects' \in [Targets -> Names]
    /\ strings' \in Seq(Seq(Nat)) /\ Len(strings') <= Len(log)
    /\ Stage(p, LogTargets, inserter'.list, in', objects', strings')
    /\ Counted(p, inserter'.list, in', strings', Len(log))

(* The facts about the state that a turn begins in.                        *)
LEMMA BeforeTurn ==
    ASSUME TypeInv, NEW p, NEW item, NEW list, NEW d,
           Turned(p, item, list, d)
    PROVE  /\ LogTargets \in SUBSET Targets /\ p \in Chosen /\ p \in passes
           /\ in # <<>> /\ item = Head(in) /\ list = Tail(in)
           /\ objects \in [Targets -> Names] /\ strings \in Seq(Seq(Nat))
           /\ Len(strings) <= Len(log) /\ Len(log) \in Nat
           /\ Len(log) <= Len(StringNames)
           /\ InserterOK(Item, inserter)
           /\ Stage(p, LogTargets, inserter.list, in, objects, strings)
           /\ Counted(p, inserter.list, in, strings, Len(log))
           /\ passes \subseteq options /\ options \subseteq Chosen
<1>1. /\ phase = "convert" /\ passes # {} /\ in # <<>>
      /\ p = Current /\ item = Head(in) /\ list = Tail(in)
  BY Zenon DEF Turned
<1>2. /\ options \subseteq Chosen /\ passes \subseteq options
      /\ Lists(passes, log, in, inserter, objects, strings)
  BY TypeOKIs DEF TypeInv
<1>3. Turn(passes, p)
  <2>1. p = First(passes)
    BY <1>1 DEF Current, First
  <2> QED
    BY <1>1, <1>2, <2>1, FirstIs
<1>4. log \in Seq(Events) /\ Len(log) <= MaxEvents
  BY DEF TypeInv, LogOK
<1>5. Len(log) <= Len(StringNames) /\ Len(log) \in Nat
  <2>1. Len(log) \in Nat
    BY <1>4
  <2>2. /\ MaxEvents \in Nat /\ MaxEvents <= Len(StringNames)
        /\ Len(StringNames) \in Nat
    BY ConverterAssumption
  <2> QED
    BY <1>4, <2>1, <2>2
<1>6. LogTargets \in SUBSET Targets
  BY <1>4, LogType
<1>7. /\ Stage(p, LogTargets, inserter.list, in, objects, strings)
      /\ Counted(p, inserter.list, in, strings, Len(log))
  BY <1>1 DEF TypeInv, Staged, CountOK
<1>8. p \in Chosen /\ p \in passes
  BY <1>3 DEF Turn
<1> QED
  BY <1>1, <1>2, <1>5, <1>6, <1>7, <1>8 DEF Lists

(* The count of a list is that of its head and of its tail.                *)
LEMMA CountHead ==
    ASSUME NEW X, NEW s \in Seq(X), s # <<>>
    PROVE  Count(s) = One(Head(s)) + Count(Tail(s))
<1>1. 1 \in 1..(Len(s) + 1) /\ 1 <= Len(s)
  OBVIOUS
<1>2. Tail(s) = From(s, 2) /\ Head(s) = s[1]
  BY TailIs
<1>3. From(s, 1) = s
  BY DEF From
<1>4. PICK k \in 1..(Len(s) + 1) : k = 1 /\ k <= Len(s) /\ k + 1 = 2
  BY <1>1
<1>5. Count(From(s, k)) = One(s[k]) + Count(From(s, k + 1))
  BY <1>4, CountFrom
<1> QED
  BY <1>2, <1>3, <1>4, <1>5, Zenon

(* A turn of one of the first four.                                        *)
LEMMA TypeEarly ==
    ASSUME TypeInv, NEW p \in Early, NEW item, NEW list, NEW d,
           Turned(p, item, list, d)
    PROVE  Taken(BareIn(LogTargets), p)
<1>1. PICK T, X : T = LogTargets /\ X = BareIn(T)
  OBVIOUS
<1>2. /\ T \in SUBSET Targets /\ in # <<>>
      /\ item = Head(in) /\ list = Tail(in)
      /\ objects \in [Targets -> Names] /\ strings \in Seq(Seq(Nat))
      /\ Len(strings) <= Len(log) /\ Len(log) \in Nat
      /\ InserterOK(Item, inserter)
      /\ Stage(p, T, inserter.list, in, objects, strings)
      /\ Counted(p, inserter.list, in, strings, Len(log))
  BY <1>1, BeforeTurn
<1>3. /\ inserter.list \in Seq(X) /\ in \in Seq(X)
      /\ objects = [t \in Targets |-> NoName] /\ strings = <<>>
  BY <1>1, <1>2 DEF Stage
<1>4. item \in X /\ list \in Seq(X)
  BY <1>2, <1>3, TailIs
<1>5. Result(d, item, list, X)
  <2>1. d = Process(p, item, list)
    BY Zenon DEF Turned
  <2> QED
    BY <1>1, <1>2, <1>4, <2>1, EarlyResult
<1>6. InserterOK(X, inserter)
  BY <1>2, <1>3, InserterIn
<1>7. p # "ObjectVariables" /\ p # "StringVariables"
  BY DEF Early
<1>8. /\ in' = d.in /\ inserter' = After(inserter, d)
      /\ objects' = objects /\ strings' = strings
  BY <1>7, Zenon DEF Turned
<1>9. \A x \in X : IsValid(x)
  BY <1>1, ItemSets
<1>10. PICK a : a = After(inserter, d)
  OBVIOUS
<1>11. /\ InserterOK(X, a) /\ a.list \in Seq(X)
       /\ Count(a.list) + Count(d.in) <=
             Count(inserter.list) + One(item) + Count(list)
  BY <1>4, <1>5, <1>6, <1>9, <1>10, ResultAfter
<1>12. d.in \in Seq(X)
  BY <1>5, Zenon DEF Result
<1>13. Count(a.list) + Count(d.in) <= Len(log)
  <2>1. Count(in) = One(item) + Count(list)
    BY <1>2, <1>3, CountHead
  <2>2. Count(inserter.list) + Count(in) <= Len(log)
    BY <1>2, <1>7 DEF Counted
  <2>3. /\ Count(inserter.list) \in Nat /\ Count(list) \in Nat
        /\ One(item) \in Nat /\ Count(a.list) \in Nat /\ Count(d.in) \in Nat
    BY <1>3, <1>4, <1>11, <1>12, CountType, OneType
  <2> QED
    BY <1>2, <1>11, <2>1, <2>2, <2>3
<1>14. InserterOK(Item, a)
  <2>1. a.list \in Seq(Item)
    BY <1>1, <1>11, ItemSets, SeqIn
  <2> QED
    BY <1>11, <2>1, InserterIn
<1>15. Stage(p, T, a.list, d.in, objects, strings)
  BY <1>1, <1>3, <1>7, <1>11, <1>12 DEF Stage
<1>16. Counted(p, a.list, d.in, strings, Len(log))
  BY <1>7, <1>13 DEF Counted
<1> QED
  BY <1>1, <1>2, <1>8, <1>10, <1>12, <1>14, <1>15, <1>16, Zenon DEF Taken

(* An item that only gets variables counts as before.                      *)
LEMMA OneSame ==
    ASSUME NEW x, NEW y, x.method = y.method
    PROVE  One(x) = One(y)
BY DEF One, IsTyping

(* A turn of ObjectVariables.                                              *)
LEMMA TypeObjects ==
    ASSUME TypeInv, NEW p, p = "ObjectVariables", NEW item, NEW list, NEW d,
           Turned(p, item, list, d)
    PROVE  Taken(BareIn(LogTargets), p)
<1>1. PICK T, X : T = LogTargets /\ X = NoArgIn(T)
  OBVIOUS
<1>2. /\ T \in SUBSET Targets /\ in # <<>>
      /\ item = Head(in) /\ list = Tail(in)
      /\ objects \in [Targets -> Names] /\ strings \in Seq(Seq(Nat))
      /\ Len(strings) <= Len(log) /\ Len(log) \in Nat
      /\ InserterOK(Item, inserter)
      /\ Stage(p, T, inserter.list, in, objects, strings)
      /\ Counted(p, inserter.list, in, strings, Len(log))
  BY <1>1, BeforeTurn
<1>3. /\ inserter.list \in Seq(X) /\ in \in Seq(BareIn(T)) /\ strings = <<>>
  BY <1>1, <1>2 DEF Stage
<1>4. item \in BareIn(T) /\ list \in Seq(BareIn(T)) /\ item \in X
      /\ list \in Seq(X)
  BY <1>1, <1>2, <1>3, TailIs, ItemSets, SeqIn
<1>5. d = ObjectVariables(item, list)
  <2>1. d = Process(p, item, list)
    BY Zenon DEF Turned
  <2> QED
    BY <2>1, ProcessIs
<1>6. InserterOK(X, inserter)
  BY <1>2, <1>3, InserterIn
<1>7. /\ in' = d.in /\ inserter' = After(inserter, d)
      /\ objects' = ObjectsAfter(item) /\ strings' = strings
  <2>1. p # "StringVariables"
    OBVIOUS
  <2> QED
    BY <2>1, Zenon DEF Turned
<1>8. \A x \in X : IsValid(x)
  BY <1>1, ItemSets
<1>9. PICK a : a = After(inserter, d)
  OBVIOUS
<1>10. ASSUME NEW x \in X, x.method = item.method,
              d = Processed(x, list, <<>>, <<>>, FALSE)
       PROVE  d.in = list /\ Result(d, item, list, X)
  <2>1. /\ d.item = x /\ d.in = list /\ d.before = <<>> /\ d.first = <<>>
    BY <1>10 DEF Processed
  <2>2. One(x) = One(item)
    BY <1>10, OneSame
  <2>3. One(item) \in Nat /\ Count(list) \in Nat
    BY <1>4, OneType, CountType
  <2>4. One(d.item) + Count(d.in) <= One(item) + Count(list)
    BY <2>1, <2>2, <2>3
  <2> QED
    BY <1>4, <2>1, <2>4, Zenon DEF Result
<1>11. ASSUME NEW x \in X, NEW y \in X, x.method = item.method,
              y.method = "object",
              d = Processed(x, list, <<y>>, <<>>, FALSE)
       PROVE  d.in = list /\ Result(d, item, list, X)
  <2>1. /\ d.item = x /\ d.in = list /\ d.before = <<y>> /\ d.first = <<>>
    BY <1>11 DEF Processed
  <2>2. One(x) = One(item) /\ One(y) = 0
    <3>1. One(y) = 0
      BY <1>11 DEF One, IsTyping
    <3> QED
      BY <1>11, <3>1, OneSame
  <2>3. One(item) \in Nat /\ Count(list) \in Nat
    BY <1>4, OneType, CountType
  <2>4. One(y) + One(x) + Count(list) <= One(item) + Count(list)
    BY <2>2, <2>3
  <2> QED
    BY <1>4, <2>1, <2>4, Zenon DEF Result
<1>12. /\ d.in = list /\ Result(d, item, list, X)
       /\ ObjectsAfter(item) \in [Targets -> Names]
  <2>1. CASE ObjectsAfter(item) = objects /\ Keeps(d, item, list)
    BY <1>2, <1>4, <1>10, <2>1 DEF Keeps
  <2>2. CASE /\ ObjectsAfter(item) = objects
             /\ Uses(d, item, list, X, objects[item.target])
    <3>1. PICK x \in X : /\ x.method = item.method
                         /\ d = Processed(x, list, <<>>, <<>>, FALSE)
      BY <2>2, Zenon DEF Uses, Becomes
    <3> QED
      BY <1>2, <1>10, <2>2, <3>1, Zenon
  <2>3. CASE /\ item.target \in T
             /\ ObjectsAfter(item) =
                    [objects EXCEPT ![item.target] = NameFor(item.target)]
             /\ DeclaresAndUses(d, item, list, X, NameFor(item.target))
    <3>1. PICK x \in X, y \in X :
             /\ x.method = item.method /\ y.method = "object"
             /\ d = Processed(x, list, <<y>>, <<>>, FALSE)
      BY <2>3, Zenon DEF DeclaresAndUses, Becomes, Declaration
    <3>2. d.in = list /\ Result(d, item, list, X)
      BY <1>11, <3>1, Zenon
    <3>3. item.target \in Targets
      BY <1>2, <2>3
    <3>4. NameFor(item.target) \in Names
      BY <1>2, <3>3, NameForIs
    <3>5. ObjectsAfter(item) \in [Targets -> Names]
      BY <1>2, <2>3, <3>3, <3>4
    <3> QED
      BY <3>2, <3>5, Zenon
  <2>4. \/ ObjectsAfter(item) = objects /\ Keeps(d, item, list)
        \/ /\ ObjectsAfter(item) = objects
           /\ Uses(d, item, list, X, objects[item.target])
        \/ /\ item.target \in T
           /\ ObjectsAfter(item) =
                 [objects EXCEPT ![item.target] = NameFor(item.target)]
           /\ DeclaresAndUses(d, item, list, X, NameFor(item.target))
    BY <1>1, <1>2, <1>4, <1>5, ObjectIs, Zenon
  <2> QED
    BY <2>1, <2>2, <2>3, <2>4
<1>13. /\ InserterOK(X, a) /\ a.list \in Seq(X)
       /\ Count(a.list) + Count(d.in) <=
             Count(inserter.list) + One(item) + Count(list)
  BY <1>4, <1>6, <1>8, <1>9, <1>12, ResultAfter
<1>14. Count(a.list) + Count(d.in) <= Len(log)
  <2>1. Count(in) = One(item) + Count(list)
    BY <1>2, <1>3, CountHead
  <2>2. Count(inserter.list) + Count(in) <= Len(log)
    BY <1>2 DEF Counted
  <2>3. /\ Count(inserter.list) \in Nat /\ Count(list) \in Nat
        /\ One(item) \in Nat /\ Count(a.list) \in Nat /\ Count(d.in) \in Nat
    BY <1>3, <1>4, <1>12, <1>13, CountType, OneType
  <2> QED
    BY <1>2, <1>13, <2>1, <2>2, <2>3
<1>15. InserterOK(Item, a)
  <2>1. a.list \in Seq(Item)
    BY <1>1, <1>13, ItemSets, SeqIn
  <2> QED
    BY <1>13, <2>1, InserterIn
<1>16. Stage(p, T, a.list, d.in, ObjectsAfter(item), strings)
  BY <1>1, <1>3, <1>4, <1>12, <1>13 DEF Stage, Early
<1>17. Counted(p, a.list, d.in, strings, Len(log))
  BY <1>14 DEF Counted
<1> QED
  BY <1>1, <1>2, <1>4, <1>7, <1>9, <1>12, <1>15, <1>16, <1>17, Zenon
  DEF Taken

(* A turn of StringVariables.                                              *)
LEMMA TypeStrings ==
    ASSUME TypeInv, NEW p, p = "StringVariables", NEW item, NEW list, NEW d,
           Turned(p, item, list, d)
    PROVE  Taken(NoArgIn(LogTargets), p)
<1>1. PICK T, X : T = LogTargets /\ X = ItemIn(T)
  OBVIOUS
<1>2. /\ T \in SUBSET Targets /\ in # <<>>
      /\ item = Head(in) /\ list = Tail(in)
      /\ objects \in [Targets -> Names] /\ strings \in Seq(Seq(Nat))
      /\ Len(strings) <= Len(log) /\ Len(log) \in Nat
      /\ Len(log) <= Len(StringNames)
      /\ InserterOK(Item, inserter)
      /\ Stage(p, T, inserter.list, in, objects, strings)
      /\ Counted(p, inserter.list, in, strings, Len(log))
  BY <1>1, BeforeTurn
<1>3. /\ inserter.list \in Seq(X) /\ in \in Seq(NoArgIn(T))
  BY <1>1, <1>2 DEF Stage
<1>4. item \in NoArgIn(T) /\ list \in Seq(NoArgIn(T)) /\ item \in X
  BY <1>1, <1>2, <1>3, TailIs, ItemSets
<1>5. d = StringVariables(item, list)
  <2>1. d = Process(p, item, list)
    BY Zenon DEF Turned
  <2> QED
    BY <2>1, ProcessIs
<1>6. InserterOK(X, inserter)
  BY <1>2, <1>3, InserterIn
<1>7. /\ in' = d.in /\ inserter' = After(inserter, d)
      /\ objects' = objects /\ strings' = StringsAfter(item)
  <2>1. p # "ObjectVariables"
    OBVIOUS
  <2> QED
    BY <2>1, Zenon DEF Turned
<1>8. PICK n, r \in Nat : n = Len(strings) /\ r = Count(list)
  BY <1>4, CountType
<1>9. n \in Nat /\ n + One(item) + r <= Len(log) /\ One(item) \in Nat
  <2>1. Count(in) = One(item) + Count(list)
    BY <1>2, <1>3, CountHead
  <2>2. Len(strings) + Count(in) <= Len(log)
    BY <1>2 DEF Counted
  <2>3. Len(strings) \in Nat
    BY <1>2
  <2> QED
    BY <1>2, <1>8, <2>1, <2>2, <2>3, OneType
<1>10. item.method = "sendText" => One(item) = 1
  BY DEF One, IsTyping
<1>11. /\ item.method = "sendText" => Len(strings) < Len(StringNames)
       /\ Len(strings) <= Len(StringNames)
  <2>1. Len(StringNames) \in Nat
    BY ConverterAssumption
  <2> QED
    BY <1>2, <1>8, <1>9, <1>10, <2>1
<1>12. PICK a : a = After(inserter, d)
  OBVIOUS
<1>13. ASSUME NEW x \in X, d = Processed(x, list, <<>>, <<>>, FALSE)
       PROVE  d.in = list /\ InserterOK(X, a)
  <2>1. /\ d.item = x /\ d.in = list /\ d.before = <<>> /\ d.first = <<>>
    BY <1>13 DEF Processed
  <2> QED
    BY <1>6, <1>12, <2>1, AfterNone
<1>14. ASSUME NEW x \in X, NEW y \in X,
              d = Processed(x, list, <<>>, <<y>>, FALSE)
       PROVE  d.in = list /\ InserterOK(X, a)
  <2>1. /\ d.item = x /\ d.in = list /\ d.before = <<>> /\ d.first = <<y>>
    BY <1>14 DEF Processed
  <2> QED
    BY <1>6, <1>12, <2>1, AfterFirst
<1>15. /\ d.in = list /\ InserterOK(X, a)
       /\ StringsAfter(item) \in Seq(Seq(Nat))
       /\ Len(StringsAfter(item)) + r <= Len(log)
  <2>1. CASE StringsAfter(item) = strings /\ Keeps(d, item, list)
    <3>1. d.in = list /\ InserterOK(X, a)
      BY <1>4, <1>13, <2>1, Zenon DEF Keeps
    <3>2. n + r <= Len(log)
      BY <1>2, <1>9
    <3> QED
      BY <1>2, <1>8, <2>1, <3>1, <3>2
  <2>2. CASE /\ StringsAfter(item) = strings
             /\ \E m \in 1..Len(strings) : Sent(d, item, list, X, m)
    <3>0. PICK x \in X : d = Processed(x, list, <<>>, <<>>, FALSE)
      BY <2>2, Zenon DEF Sent
    <3>1. d.in = list /\ InserterOK(X, a)
      BY <1>13, <3>0, Zenon
    <3>2. n + r <= Len(log)
      BY <1>2, <1>9
    <3> QED
      BY <1>2, <1>8, <2>2, <3>1, <3>2
  <2>3. CASE /\ item.method = "sendText"
             /\ StringsAfter(item) = Append(strings, item.text)
             /\ item.text \in Seq(Nat)
             /\ DeclaresAndSends(d, item, list, X, Len(strings) + 1)
    <3>0. PICK x \in X, y \in X : d = Processed(x, list, <<>>, <<y>>, FALSE)
      BY <2>3, Zenon DEF DeclaresAndSends
    <3>1. d.in = list /\ InserterOK(X, a)
      BY <1>14, <3>0, Zenon
    <3>2. /\ StringsAfter(item) \in Seq(Seq(Nat))
          /\ Len(StringsAfter(item)) = Len(strings) + 1
      <4>1. PICK u, S : u = item.text /\ S = Seq(Nat)
        OBVIOUS
      <4>2. u \in S /\ strings \in Seq(S)
        BY <1>2, <2>3, <4>1
      <4>3. /\ Append(strings, u) \in Seq(S)
            /\ Len(Append(strings, u)) = Len(strings) + 1
        BY <4>2, AppendIs
      <4> QED
        BY <2>3, <4>1, <4>3, Zenon
    <3>3. n + 1 + r <= Len(log)
      BY <1>9, <1>10, <2>3
    <3> QED
      BY <1>8, <3>1, <3>2, <3>3
  <2>4. \/ StringsAfter(item) = strings /\ Keeps(d, item, list)
        \/ /\ StringsAfter(item) = strings
           /\ \E m \in 1..Len(strings) : Sent(d, item, list, X, m)
        \/ /\ item.method = "sendText"
           /\ StringsAfter(item) = Append(strings, item.text)
           /\ item.text \in Seq(Nat)
           /\ DeclaresAndSends(d, item, list, X, Len(strings) + 1)
    BY <1>1, <1>2, <1>4, <1>5, <1>11, StringIs, Zenon
  <2> QED
    BY <2>1, <2>2, <2>3, <2>4
<1>16. a.list \in Seq(X)
  BY <1>15 DEF InserterOK
<1>17. InserterOK(Item, a)
  <2>1. a.list \in Seq(Item)
    BY <1>1, <1>16, ItemSets, SeqIn
  <2> QED
    BY <1>15, <2>1, InserterIn
<1>18. Stage(p, T, a.list, d.in, objects, StringsAfter(item))
  BY <1>1, <1>4, <1>15, <1>16 DEF Stage, Early
<1>19. Counted(p, a.list, d.in, StringsAfter(item), Len(log))
  BY <1>8, <1>15 DEF Counted
<1>20. Len(StringsAfter(item)) <= Len(log)
  <2>1. Len(StringsAfter(item)) \in Nat
    BY <1>15
  <2> QED
    BY <1>2, <1>8, <1>15, <2>1
<1> QED
  BY <1>1, <1>2, <1>4, <1>7, <1>12, <1>15, <1>17, <1>18, <1>19, <1>20, Zenon
  DEF Taken

(* A turn of any post-processor keeps the types.                           *)
LEMMA TypeTurn ==
    ASSUME TypeInv, ProcessItem
    PROVE  TypeInv'
<1>1. PICK p, item, list, d : Turned(p, item, list, d)
  BY TurnIs
<1>2. p \in Chosen
  BY <1>1, BeforeTurn
<1>3. \E X : X \subseteq Item /\ Taken(X, p)
  <2>1. CASE p \in Early
    BY <1>1, <2>1, TypeEarly, ItemSets
  <2>2. CASE p = "ObjectVariables"
    BY <1>1, <2>2, TypeObjects, ItemSets
  <2>3. CASE p = "StringVariables"
    BY <1>1, <2>3, TypeStrings, ItemSets
  <2> QED
    BY <1>2, <2>1, <2>2, <2>3 DEF Chosen
<1>4. PICK X : X \subseteq Item /\ Taken(X, p)
  BY <1>3
<1>5. /\ in' \in Seq(Item) /\ InserterOK(Item, inserter')
      /\ objects' \in [Targets -> Names]
      /\ strings' \in Seq(Seq(Nat)) /\ Len(strings') <= Len(log)
      /\ Stage(p, LogTargets, inserter'.list, in', objects', strings')
      /\ Counted(p, inserter'.list, in', strings', Len(log))
  BY <1>4, SeqIn DEF Taken
<1>6. /\ phase = "convert" /\ passes # {} /\ p = Current
      /\ phase' \in {"failed", phase}
      /\ log' = log /\ cut' = cut /\ options' = options /\ passes' = passes
      /\ LogTargets' = LogTargets /\ Current' = Current
  BY <1>1, Zenon DEF Turned
<1>7. TypeOK'
  <2>1. /\ cut \in BOOLEAN
        /\ options \subseteq Chosen /\ passes \subseteq options
        /\ Lists(passes, log, in, inserter, objects, strings)
    BY TypeOKIs DEF TypeInv
  <2>2. Lists(passes, log, in, inserter, objects, strings)'
    BY <1>5, <1>6, <2>1 DEF Lists
  <2> QED
    BY <1>6, <2>1, <2>2, RangeIs DEF TypeOK, Lists, InserterOK
<1>8. LogOK'
  BY <1>6 DEF TypeInv, LogOK
<1>9. Idle'
  BY <1>6 DEF Idle
<1>10. Staged' /\ CountOK'
  BY <1>5, <1>6 DEF Staged, CountOK
<1> QED
  BY <1>7, <1>8, <1>9, <1>10 DEF TypeInv

(* Every step keeps the types.                                             *)
LEMMA TypeNext == TypeInv /\ [Next]_vars => TypeInv'
<1> SUFFICES ASSUME TypeInv, [Next]_vars PROVE TypeInv'
  OBVIOUS
<1>1. CASE \E shape \in UNION Alphabets : Record(shape)
  BY <1>1, TypeRecord
<1>2. CASE \E chosen \in OptionSets, short \in BOOLEAN : Parse(chosen, short)
  BY <1>2, TypeParse
<1>3. CASE ProcessItem
  BY <1>3, TypeTurn
<1>4. CASE EndPass
  BY <1>4, TypeEndPass
<1>5. CASE Serialize
  BY <1>5, TypeSerialize
<1>6. CASE UNCHANGED vars
  BY <1>6, TypeStutter
<1> QED
  BY <1>1, <1>2, <1>3, <1>4, <1>5, <1>6 DEF Next

(* The converter's state has its types in every reachable state, for logs  *)
(* of any length: every item is valid, the Inserter's index stays within   *)
(* one of its list's end, and there are never more strings than events.    *)
THEOREM ConverterTypeCorrect == Spec => []TypeOK
<1>1. TypeInv => TypeOK
  BY DEF TypeInv
<1> QED
  BY <1>1, TypeInit, TypeNext, PTL DEF Spec

-----------------------------------------------------------------------------
(* What is left of a list keeps its rhythm and its end.                    *)
LEMMA SuffixRhythm ==
    ASSUME NEW X, NEW w \in Seq(X), Steady(w), NEW o, EndsWell(w, o),
           NEW k \in 1..(Len(w) + 1)
    PROVE  /\ Steady(From(w, k)) /\ EndsWell(From(w, k), o)
           /\ k > 1 /\ From(w, k) # <<>> =>
                 Pause(w[k - 1]) \/ Pause(From(w, k)[1])
<1>1. PICK n \in Nat : n = Len(w)
  OBVIOUS
<1>2. PICK r : r = From(w, k)
  OBVIOUS
<1>3. /\ r \in Seq(X) /\ Len(r) = n + 1 - k
      /\ \A i \in 1..Len(r) : r[i] = w[k - 1 + i]
  <2>1. /\ From(w, k) \in Seq(X) /\ Len(From(w, k)) = Len(w) + 1 - k
        /\ \A i \in 1..Len(From(w, k)) : From(w, k)[i] = w[k - 1 + i]
    BY Parted
  <2> QED
    BY <1>1, <1>2, <2>1, Zenon
<1>4. \A i \in 1..(n - 1) : Pause(w[i]) \/ Pause(w[i + 1])
  BY <1>1, Zenon DEF Steady
<1>5. Steady(r)
  <2>1. ASSUME NEW i \in 1..(Len(r) - 1)
        PROVE  Pause(r[i]) \/ Pause(r[i + 1])
    <3>1. PICK j \in 1..(n - 1) : j = k - 1 + i /\ j + 1 = k - 1 + (i + 1)
      BY <1>1, <1>3
    <3>2. r[i] = w[j] /\ r[i + 1] = w[j + 1]
      <4>1. i \in 1..Len(r) /\ i + 1 \in 1..Len(r)
        BY <1>1, <1>3
      <4> QED
        BY <1>3, <3>1, <4>1
    <3> QED
      BY <1>4, <3>1, <3>2, Zenon
  <2> QED
    BY <2>1, Zenon DEF Steady
<1>6. r # <<>> => /\ n \in 1..n /\ Len(r) \in 1..Len(r) /\ w # <<>>
                  /\ r[Len(r)] = w[n] /\ k \in 1..n /\ 1 \in 1..Len(r)
  <2> SUFFICES ASSUME r # <<>>
               PROVE  /\ n \in 1..n /\ Len(r) \in 1..Len(r) /\ w # <<>>
                      /\ r[Len(r)] = w[n] /\ k \in 1..n /\ 1 \in 1..Len(r)
    OBVIOUS
  <2>1. Len(r) \in Nat /\ Len(r) # 0
    BY <1>3
  <2>2. n \in 1..n /\ Len(r) \in 1..Len(r) /\ k \in 1..n /\ 1 \in 1..Len(r)
    BY <1>1, <1>3, <2>1
  <2>3. r[Len(r)] = w[k - 1 + Len(r)]
    BY <1>3, <2>2
  <2>4. k - 1 + Len(r) = n
    BY <1>1, <1>3
  <2> QED
    BY <1>1, <2>2, <2>3, <2>4
<1>7. EndsWell(r, o)
  BY <1>1, <1>6, Zenon DEF EndsWell
<1>8. ASSUME k > 1, r # <<>> PROVE Pause(w[k - 1]) \/ Pause(r[1])
  <2>1. PICK j \in 1..(n - 1) : j = k - 1 /\ j + 1 = k
    BY <1>1, <1>6, <1>8
  <2>2. r[1] = w[k - 1 + 1] /\ k - 1 + 1 = k
    BY <1>1, <1>3, <1>6, <1>8, SMTT(30)
  <2> QED
    BY <1>4, <2>1, <2>2, Zenon
<1> QED
  BY <1>2, <1>5, <1>7, <1>8, Zenon

(* A list to which an item is appended.                                    *)
LEMMA AppendSteady ==
    ASSUME NEW X, NEW l \in Seq(X), NEW x \in X
    PROVE  /\ Steady(l) /\ (l # <<>> => Pause(l[Len(l)]) \/ Pause(x)) =>
                 Steady(Append(l, x))
           /\ Append(l, x) # <<>>
           /\ Append(l, x)[Len(Append(l, x))] = x
           /\ l # <<>> => Append(l, x)[Len(Append(l, x)) - 1] = l[Len(l)]
           /\ (l # <<>> => ~IsKey(l[Len(l)])) => EndsOnNoKey(Append(l, x))
<1>1. PICK n \in Nat : n = Len(l)
  OBVIOUS
<1>2. PICK a : a = Append(l, x)
  OBVIOUS
<1>3. /\ a \in Seq(X) /\ Len(a) = n + 1 /\ a[n + 1] = x
      /\ \A p \in 1..n : a[p] = l[p]
  BY <1>1, <1>2, AppendIs
<1>4. l # <<>> => n \in 1..n
  BY <1>1
<1>5. ASSUME Steady(l), l # <<>> => Pause(l[n]) \/ Pause(x)
      PROVE  Steady(a)
  <2>1. \A i \in 1..(n - 1) : Pause(l[i]) \/ Pause(l[i + 1])
    BY <1>1, <1>5, Zenon DEF Steady
  <2>2. ASSUME NEW i \in 1..(Len(a) - 1)
        PROVE  Pause(a[i]) \/ Pause(a[i + 1])
    <3>1. i \in 1..n
      BY <1>1, <1>3
    <3>2. CASE i = n
      <4>1. l # <<>> /\ a[i] = l[n] /\ a[i + 1] = x
        BY <1>1, <1>3, <3>1, <3>2
      <4> QED
        BY <1>5, <4>1
    <3>3. CASE i # n
      <4>1. i \in 1..(n - 1) /\ i + 1 \in 1..n
        BY <3>1, <3>3
      <4>2. a[i] = l[i] /\ a[i + 1] = l[i + 1]
        BY <1>3, <3>1, <4>1
      <4> QED
        BY <2>1, <4>1, <4>2
    <3> QED
      BY <3>2, <3>3
  <2> QED
    BY <2>2, Zenon DEF Steady
<1>6. a # <<>> /\ a[Len(a)] = x
  BY <1>1, <1>3
<1>7. l # <<>> => a[Len(a) - 1] = l[n]
  <2>1. Len(a) - 1 = n
    BY <1>1, <1>3
  <2> QED
    BY <1>3, <1>4, <2>1
<1>8. ASSUME l # <<>> => ~IsKey(l[n]) PROVE EndsOnNoKey(a)
  <2>1. Len(a) >= 2 => l # <<>>
    BY <1>1, <1>3
  <2> QED
    BY <1>7, <1>8, <2>1, Zenon DEF EndsOnNoKey
<1> QED
  BY <1>1, <1>2, <1>5, <1>6, <1>7, <1>8, Zenon

(* FilterQtInternals and SkipMouseMovements go on with the item at k.      *)
LEMMA GoesOnRhythm ==
    ASSUME NEW X, NEW w \in Seq(X), NEW l \in Seq(X), NEW o,
           Steady(w), EndsWell(w, o), Joint(l, w),
           NEW k \in 1..Len(w), k = 1 \/ ~Pause(w[1])
    PROVE  /\ Steady(From(w, k + 1)) /\ EndsWell(From(w, k + 1), o)
           /\ Joint(Append(l, w[k]), From(w, k + 1))
           /\ Steady(l) => Steady(Append(l, w[k]))
           /\ From(w, k + 1) = <<>> =>
                 /\ EndsWell(Append(l, w[k]), o)
                 /\ EndsOnNoKey(Append(l, w[k]))
<1>1. PICK n \in Nat : n = Len(w)
  OBVIOUS
<1>2. PICK j \in 1..(Len(w) + 1) : j = k + 1 /\ j > 1 /\ j - 1 = k
  BY <1>1
<1>3. PICK r, a, x : r = From(w, k + 1) /\ a = Append(l, x) /\ x = w[k]
  OBVIOUS
<1>4. /\ Steady(r) /\ EndsWell(r, o)
      /\ r # <<>> => Pause(x) \/ Pause(r[1])
  <2>1. /\ Steady(From(w, j)) /\ EndsWell(From(w, j), o)
        /\ j > 1 /\ From(w, j) # <<>> =>
                 Pause(w[j - 1]) \/ Pause(From(w, j)[1])
    BY SuffixRhythm
  <2> QED
    BY <1>2, <1>3, <2>1, Zenon
<1>5. x \in X
  BY <1>3
<1>6. w # <<>>
  BY <1>1
<1>7. /\ l # <<>> => Pause(l[Len(l)]) \/ Pause(x)
  BY <1>3, <1>6, Zenon DEF Joint
<1>8. /\ Steady(l) => Steady(a)
      /\ a # <<>> /\ a[Len(a)] = x
      /\ (l # <<>> => ~IsKey(l[Len(l)])) => EndsOnNoKey(a)
  BY <1>3, <1>5, <1>7, AppendSteady
<1>9. Joint(a, r)
  BY <1>4, <1>8, Zenon DEF Joint
<1>10. ASSUME r = <<>> PROVE EndsWell(a, o) /\ EndsOnNoKey(a)
  <2>1. k = n
    <3>1. Len(From(w, j)) = Len(w) + 1 - j
      BY Parted
    <3>2. Len(From(w, j)) = 0
      BY <1>2, <1>3, <1>10
    <3> QED
      BY <1>1, <1>2, <3>1, <3>2
  <2>2. x = w[Len(w)]
    BY <1>1, <1>3, <2>1
  <2>3. EndsWell(a, o) /\ ~Pause(x)
    BY <1>6, <1>8, <2>2, Zenon DEF EndsWell
  <2>4. l # <<>> => ~IsKey(l[Len(l)])
    BY <1>7, <2>3 DEF Pause, IsKey
  <2> QED
    BY <1>8, <2>3, <2>4
<1> QED
  BY <1>3, <1>4, <1>8, <1>9, <1>10, Zenon

(* The rhythm of a turn that goes on with the item at k.                   *)
Goes(d, w, k, bad) ==
    d = Processed(w[k], From(w, k + 1), <<>>, <<>>, bad)

(* A turn that goes on at the k-th item keeps the rhythm.                  *)
LEMMA GoesRhythm ==
    ASSUME NEW T, NEW w \in Seq(BareIn(T)), NEW ins,
           InserterOK(BareIn(T), ins), NEW o,
           NEW p \in {"FilterQtInternals", "SkipMouseMovements"},
           Rhythm(p, ins.list, w, o),
           NEW k \in 1..Len(w), k = 1 \/ ~Pause(w[1]),
           NEW d, Goes(d, w, k, FALSE)
    PROVE  ~d.bad /\ Rhythm(p, After(ins, d).list, d.in, o)
<1>1. PICK X : X = BareIn(T)
  OBVIOUS
<1>1a. w \in Seq(X) /\ InserterOK(X, ins)
  BY <1>1
<1>2. PICK x, r, l : x = w[k] /\ r = From(w, k + 1) /\ l = ins.list
  OBVIOUS
<1>3. d = Processed(x, r, <<>>, <<>>, FALSE)
  BY <1>2, Zenon DEF Goes
<1>4. /\ d.item = x /\ d.in = r /\ d.before = <<>> /\ d.first = <<>>
      /\ ~d.bad
  BY <1>3 DEF Processed
<1>5. x \in X /\ IsValid(x) /\ l \in Seq(X)
  <2>1. x \in X
    BY <1>1a, <1>2
  <2>2. IsValid(x)
    BY <1>1, <2>1, ItemSets
  <2> QED
    BY <1>1a, <1>2, <2>1, <2>2 DEF InserterOK
<1>6. After(ins, d).list = Append(l, x)
  <2>1. After(ins, d).list = Extended(ins.list, d.item)
    BY <1>1a, <1>4, <1>5, AfterNone
  <2> QED
    BY <1>2, <1>4, <1>5, <2>1, Zenon DEF Extended
<1>7. Steady(l) /\ Steady(w) /\ Joint(l, w) /\ EndsWell(w, o)
  BY <1>2, Zenon DEF Rhythm
<1>8. /\ Steady(r) /\ EndsWell(r, o) /\ Joint(Append(l, x), r)
      /\ Steady(Append(l, x))
      /\ r = <<>> => EndsWell(Append(l, x), o)
  BY <1>1a, <1>2, <1>5, <1>7, GoesOnRhythm
<1>9. p # "SimplifyMouseMovements" /\ p # "SimplifyStrings"
  OBVIOUS
<1>10. Rhythm(p, Append(l, x), r, o)
  BY <1>8, <1>9, Zenon DEF Rhythm
<1> QED
  BY <1>4, <1>6, <1>10, Zenon

(* An item that is left alone is the one at the first position.            *)
LEMMA GoesFirst ==
    ASSUME NEW X, NEW w \in Seq(X), w # <<>>
    PROVE  /\ 1 \in 1..Len(w) /\ Head(w) = w[1] /\ Tail(w) = From(w, 1 + 1)
           /\ \A d : d = Processed(Head(w), Tail(w), <<>>, <<>>, FALSE) =>
                 Goes(d, w, 1, FALSE)
<1>1. 1 \in 1..Len(w) /\ 1 + 1 = 2
  OBVIOUS
<1>2. Tail(w) = From(w, 2) /\ Head(w) = w[1]
  BY TailIs
<1> QED
  BY <1>1, <1>2, Zenon DEF Goes

(* FilterQtInternals keeps the rhythm and does not fail.                   *)
LEMMA FilterRhythm ==
    ASSUME NEW T \in SUBSET Targets, NEW w \in Seq(BareIn(T)), w # <<>>,
           NEW ins, InserterOK(BareIn(T), ins), NEW o,
           "FilterQtInternals" \in o,
           Rhythm("FilterQtInternals", ins.list, w, o),
           NEW d, d = FilterQtInternals(Head(w), Tail(w))
    PROVE  ~d.bad /\ Rhythm("FilterQtInternals", After(ins, d).list, d.in, o)
<1>1. PICK item, list, p : /\ item = Head(w) /\ list = Tail(w)
                           /\ p = "FilterQtInternals"
  OBVIOUS
<1>2. item \in BareIn(T) /\ list \in Seq(BareIn(T)) /\ Len(list) = Len(w) - 1
  BY <1>1, TailIs
<1>3. PICK l : l = ins.list
  OBVIOUS
<1>4. Steady(l) /\ Steady(w) /\ Joint(l, w) /\ EndsWell(w, o)
  BY <1>3, Zenon DEF Rhythm
<1>5. CASE item.target \notin Internal
  <2>1. d = Processed(item, list, <<>>, <<>>, FALSE)
    BY <1>1, <1>2, <1>5, FilterIs, Zenon
  <2>2. 1 \in 1..Len(w) /\ Goes(d, w, 1, FALSE)
    BY <1>1, <2>1, GoesFirst
  <2> QED
    BY <2>2, GoesRhythm
<1>6. CASE item.target \in Internal
  <2>1. d = Processed(NoItem, list, <<>>, <<>>, list = <<>>)
    BY <1>1, <1>2, <1>6, FilterIs, Zenon
  <2>2. /\ d.item = NoItem /\ d.in = list /\ d.before = <<>>
        /\ d.first = <<>> /\ d.bad = (list = <<>>)
    BY <2>1 DEF Processed
  <2>3. After(ins, d).list = l
    <3>1. After(ins, d).list = Extended(ins.list, d.item)
      BY <2>2, NoItemInvalid, AfterNone
    <3> QED
      BY <1>3, <2>2, <3>1, NoItemInvalid, Zenon DEF Extended
  <2>4. ~Pause(item)
    BY <1>2, <1>6, ConverterAssumption DEF BareIn, Pause
  <2>5. list # <<>>
    <3> SUFFICES ASSUME list = <<>> PROVE FALSE
      OBVIOUS
    <3>1. Len(w) = 1
      BY <1>2
    <3>2. w[Len(w)] = item
      BY <1>1, <3>1, TailIs
    <3> QED
      BY <1>4, <1>6, <3>2, Zenon DEF EndsWell
  <2>6. PICK k \in 1..(Len(w) + 1) : k = 2 /\ k > 1 /\ k - 1 = 1
    BY TailIs
  <2>7. list = From(w, k) /\ item = w[1]
    BY <1>1, <2>6, TailIs
  <2>8. /\ Steady(list) /\ EndsWell(list, o)
        /\ Pause(item) \/ Pause(list[1])
    <3>1. /\ Steady(From(w, k)) /\ EndsWell(From(w, k), o)
          /\ k > 1 /\ From(w, k) # <<>> =>
                 Pause(w[k - 1]) \/ Pause(From(w, k)[1])
      BY <1>4, SuffixRhythm
    <3> QED
      BY <2>5, <2>6, <2>7, <3>1, Zenon
  <2>9. Joint(l, list)
    BY <2>4, <2>8, Zenon DEF Joint
  <2>10. Rhythm(p, l, list, o)
    <3>1. p # "SimplifyMouseMovements" /\ p # "SimplifyStrings"
      BY <1>1
    <3> QED
      BY <1>4, <2>5, <2>8, <2>9, <3>1, Zenon DEF Rhythm
  <2> QED
    BY <1>1, <2>2, <2>3, <2>5, <2>10, Zenon
<1> QED
  BY <1>5, <1>6

(* SkipMouseMovements keeps the rhythm and does not fail.                  *)
LEMMA SkipRhythm ==
    ASSUME NEW T \in SUBSET Targets, NEW w \in Seq(BareIn(T)), w # <<>>,
           NEW ins, InserterOK(BareIn(T), ins), NEW o,
           "SkipMouseMovements" \in o,
           Rhythm("SkipMouseMovements", ins.list, w, o),
           NEW d, d = SkipMouseMovements(Head(w), Tail(w))
    PROVE  ~d.bad /\ Rhythm("SkipMouseMovements", After(ins, d).list, d.in, o)
<1>1. PICK item, list, p : /\ item = Head(w) /\ list = Tail(w)
                           /\ p = "SkipMouseMovements"
  OBVIOUS
<1>2. /\ item \in BareIn(T) /\ list \in Seq(BareIn(T)) /\ item = w[1]
      /\ Len(list) = Len(w) - 1
      /\ \A i \in 1..(Len(w) - 1) : list[i] = w[i + 1]
      /\ list = From(w, 2)
  BY <1>1, TailIs
<1>3. PICK l, n : l = ins.list /\ n = Len(w)
  OBVIOUS
<1>3a. n \in Nat /\ n >= 1 /\ Len(list) = n - 1
  BY <1>2, <1>3
<1>4. Steady(l) /\ Steady(w) /\ Joint(l, w) /\ EndsWell(w, o)
  BY <1>3, Zenon DEF Rhythm
<1>5. CASE ~IsMove(item)
  <2>1. d = Processed(item, list, <<>>, <<>>, FALSE)
    BY <1>1, <1>5, Zenon DEF SkipMouseMovements, Untouched
  <2>2. 1 \in 1..Len(w) /\ Goes(d, w, 1, FALSE)
    BY <1>1, <2>1, GoesFirst
  <2> QED
    BY <2>2, GoesRhythm
<1>6. CASE IsMove(item)
  <2>1. PICK r \in Nat :
           /\ 2 * r <= Len(list) /\ \A j \in 1..r : IsMove(list[2 * j])
           /\ d = IF Len(list) = 2 * r
                  THEN Processed(NoItem, <<>>, <<>>, <<>>, FALSE)
                  ELSE IF Len(list) = 2 * r + 1
                  THEN Processed(item, <<>>, <<>>, <<>>, TRUE)
                  ELSE Processed(list[2 * r + 2], From(list, 2 * r + 3),
                                 <<>>, <<>>, FALSE)
    <3>1. PICK X, e : X = BareIn(T) /\ e = SkipMouseMovements(item, list)
      OBVIOUS
    <3>2. item \in X /\ list \in Seq(X)
      BY <1>2, <3>1, Zenon
    <3>3. e = d
      BY <1>1, <3>1, Zenon
    <3> QED
      BY <1>6, <3>1, <3>2, <3>3, SkipIs, Zenon
  <2>2. ~Pause(w[1])
    BY <1>2, <1>6 DEF Pause, IsMove
  <2>3. PICK m \in Nat : m = 2 * r + 1 /\ m <= n
    BY <1>3a, <2>1
  <2>4. IsMove(w[m])
    <3>1. CASE r = 0
      BY <1>2, <1>6, <2>3, <3>1
    <3>2. CASE r # 0
      <4>1. r \in 1..r /\ 2 * r \in 1..(Len(w) - 1) /\ 2 * r + 1 = m
        BY <1>3, <1>3a, <2>1, <2>3, <3>2
      <4>2. IsMove(list[2 * r]) /\ list[2 * r] = w[2 * r + 1]
        BY <1>2, <2>1, <4>1
      <4> QED
        BY <4>1, <4>2, Zenon
    <3> QED
      BY <3>1, <3>2
  <2>5. CASE Len(list) = 2 * r
    <3>1. d = Processed(NoItem, <<>>, <<>>, <<>>, FALSE)
      BY <2>1, <2>5, Zenon
    <3>2. /\ d.item = NoItem /\ d.in = <<>> /\ d.before = <<>>
          /\ d.first = <<>> /\ ~d.bad
      BY <3>1 DEF Processed
    <3>3. After(ins, d).list = l
      <4>1. After(ins, d).list = Extended(ins.list, d.item)
        BY <3>2, NoItemInvalid, AfterNone
      <4> QED
        BY <1>3, <3>2, <4>1, NoItemInvalid, Zenon DEF Extended
    <3>4. m = n
      BY <1>3a, <2>3, <2>5
    <3>5. "SimplifyStrings" \notin o
      <4> SUFFICES ASSUME "SimplifyStrings" \in o PROVE FALSE
        OBVIOUS
      <4>1. IsMove(w[Len(w)])
        BY <1>3, <2>4, <3>4, Zenon
      <4>2. {"SkipMouseMovements", "SimplifyStrings"} \subseteq o
        OBVIOUS
      <4> QED
        BY <1>4, <4>1, <4>2, Zenon DEF EndsWell
    <3>6. Steady(<<>>) /\ EndsWell(<<>>, o) /\ Joint(l, <<>>)
      BY DEF Steady, EndsWell, Joint
    <3>7. p # "SimplifyMouseMovements" /\ p # "SimplifyStrings"
      BY <1>1
    <3>8. Rhythm(p, l, <<>>, o)
      BY <1>1, <1>4, <3>5, <3>6, <3>7, Zenon DEF Rhythm
    <3> QED
      BY <1>1, <3>2, <3>3, <3>8, Zenon
  <2>6. Len(list) # 2 * r + 1
    <3> SUFFICES ASSUME Len(list) = 2 * r + 1 PROVE FALSE
      OBVIOUS
    <3>1. m + 1 = n /\ m \in 1..(n - 1)
      BY <1>3a, <2>3
    <3>2. Pause(w[m]) \/ Pause(w[m + 1])
      BY <1>3, <1>4, <3>1, Zenon DEF Steady
    <3>3. ~Pause(w[m])
      BY <2>4 DEF Pause, IsMove
    <3>4. Pause(w[Len(w)])
      BY <1>3, <3>1, <3>2, <3>3, Zenon
    <3> QED
      BY <1>4, <3>4, Zenon DEF EndsWell
  <2>7. CASE Len(list) # 2 * r
    <3>1. d = Processed(list[2 * r + 2], From(list, 2 * r + 3),
                        <<>>, <<>>, FALSE)
      BY <2>1, <2>6, <2>7, Zenon
    <3>2. PICK k \in 1..Len(w) : k = 2 * r + 3
      BY <1>3, <1>3a, <2>1, <2>6, <2>7
    <3>3. list[2 * r + 2] = w[k]
      <4>1. 2 * r + 2 \in 1..(Len(w) - 1) /\ 2 * r + 2 + 1 = k
        BY <1>3, <1>3a, <3>2
      <4> QED
        BY <1>2, <4>1
    <3>4. From(list, 2 * r + 3) = From(w, k + 1)
      <4>1. PICK a, b : a = 2 /\ b = k
        OBVIOUS
      <4>2. /\ a \in 1..(Len(w) + 1) /\ b \in 1..(Len(w) + 2 - a)
            /\ a + b - 1 = k + 1
        BY <1>3, <1>3a, <3>2, <4>1
      <4>3. From(From(w, a), b) = From(w, a + b - 1)
        BY <4>2, FromFrom
      <4> QED
        BY <1>2, <3>2, <4>1, <4>2, <4>3, Zenon
    <3>5. Goes(d, w, k, FALSE)
      BY <3>1, <3>3, <3>4, Zenon DEF Goes
    <3> QED
      BY <2>2, <3>5, GoesRhythm
  <2> QED
    BY <2>5, <2>7
<1> QED
  BY <1>5, <1>6

(* The last item of a list into which one was inserted before or behind    *)
(* its last.                                                               *)
LEMMA InsertedLast ==
    ASSUME NEW X, NEW l \in Seq(X), NEW m \in Seq(X), NEW x \in X,
           NEW k \in Nat, Inserted(l, m, k, x), k >= Len(l)
    PROVE  /\ m # <<>>
           /\ m[Len(m)] = x \/ (l # <<>> /\ m[Len(m)] = l[Len(l)])
<1>1. PICK n \in Nat : n = Len(l)
  OBVIOUS
<1>2. /\ k \in 1..(n + 1) /\ Len(m) = n + 1
      /\ \A i \in 1..(n + 1) :
            m[i] = IF i < k THEN l[i] ELSE IF i = k THEN x ELSE l[i - 1]
  BY <1>1, Zenon DEF Inserted
<1>3. PICK j \in 1..(n + 1) : j = n + 1 /\ j - 1 = n /\ j = Len(m)
  BY <1>1, <1>2
<1>4. m[j] = IF j < k THEN l[j] ELSE IF j = k THEN x ELSE l[j - 1]
  BY <1>2
<1>5. m # <<>>
  BY <1>3
<1>6. CASE k = j
  <2>1. ~(j < k)
    BY <1>3, <1>6
  <2>2. m[j] = x
    BY <1>4, <1>6, <2>1, Zenon
  <2> QED
    BY <1>3, <1>5, <2>2, Zenon
<1>7. CASE k # j
  <2>1. ~(j < k) /\ n # 0
    BY <1>1, <1>2, <1>3, <1>7
  <2>2. l # <<>>
    BY <1>1, <2>1
  <2>3. m[j] = l[n]
    BY <1>3, <1>4, <1>7, <2>1, Zenon
  <2> QED
    BY <1>1, <1>3, <1>5, <2>2, <2>3, Zenon
<1> QED
  BY <1>6, <1>7

(* SimplifyMouseMovements does not fail, and leaves no key before a last   *)
(* pause.                                                                  *)
LEMMA MouseRhythm ==
    ASSUME NEW T \in SUBSET Targets, NEW w \in Seq(BareIn(T)), w # <<>>,
           NEW ins, InserterOK(BareIn(T), ins), NEW o,
           Rhythm("SimplifyMouseMovements", ins.list, w, o),
           NEW d, d = SimplifyMouseMovements(Head(w), Tail(w))
    PROVE  /\ ~d.bad
           /\ Rhythm("SimplifyMouseMovements", After(ins, d).list, d.in, o)
<1>1. PICK item, list, p, X :
         /\ item = Head(w) /\ list = Tail(w)
         /\ p = "SimplifyMouseMovements" /\ X = BareIn(T)
  OBVIOUS
<1>2. /\ item \in X /\ list \in Seq(X) /\ item = w[1]
      /\ Len(list) = Len(w) - 1
      /\ \A i \in 1..(Len(w) - 1) : list[i] = w[i + 1]
      /\ list = From(w, 2)
  BY <1>1, TailIs
<1>3. PICK l, n : l = ins.list /\ n = Len(w)
  OBVIOUS
<1>3a. n \in Nat /\ n >= 1 /\ Len(list) = n - 1
  BY <1>2, <1>3
<1>3b. w \in Seq(X) /\ l \in Seq(X) /\ InserterOK(X, ins)
  BY <1>1, <1>3 DEF InserterOK
<1>3c. \A x \in X : IsValid(x)
  BY <1>1, ItemSets
<1>4. "SimplifyStrings" \in o =>
         Steady(w) /\ Joint(l, w) /\ EndsWell(w, o)
  BY <1>3, Zenon DEF Rhythm
<1>5. ASSUME NEW a, NEW r,
             "SimplifyStrings" \in o =>
                /\ Steady(r) /\ Joint(a, r) /\ EndsWell(r, o)
                /\ r = <<>> => EndsOnNoKey(a)
      PROVE  Rhythm(p, a, r, o)
  <2>1. p \notin {"FilterQtInternals", "SkipMouseMovements"}
        /\ p # "SimplifyStrings"
    BY <1>1
  <2> QED
    BY <1>5, <2>1, Zenon DEF Rhythm
<1>6. CASE ~IsMove(item)
  <2>1. d = Processed(item, list, <<>>, <<>>, FALSE)
    BY <1>1, <1>6, Zenon DEF SimplifyMouseMovements, Untouched
  <2>2. /\ d.item = item /\ d.in = list /\ d.before = <<>> /\ d.first = <<>>
        /\ ~d.bad
    BY <2>1 DEF Processed
  <2>3. After(ins, d).list = Append(l, item)
    <3>1. After(ins, d).list = Extended(ins.list, d.item)
      BY <1>2, <1>3b, <2>2, AfterNone
    <3> QED
      BY <1>2, <1>3, <1>3c, <2>2, <3>1, Zenon DEF Extended
  <2>4. "SimplifyStrings" \in o =>
            /\ Steady(list) /\ Joint(Append(l, item), list)
            /\ EndsWell(list, o)
            /\ list = <<>> => EndsOnNoKey(Append(l, item))
    <3> SUFFICES ASSUME "SimplifyStrings" \in o
                 PROVE  /\ Steady(list) /\ Joint(Append(l, item), list)
                        /\ EndsWell(list, o)
                        /\ list = <<>> => EndsOnNoKey(Append(l, item))
      OBVIOUS
    <3>1. PICK k \in 1..Len(w) : k = 1 /\ k + 1 = 2
      BY <1>3, <1>3a
    <3>2. /\ Steady(From(w, k + 1)) /\ EndsWell(From(w, k + 1), o)
          /\ Joint(Append(l, w[k]), From(w, k + 1))
          /\ From(w, k + 1) = <<>> => EndsOnNoKey(Append(l, w[k]))
      BY <1>3b, <1>4, <3>1, GoesOnRhythm
    <3> QED
      BY <1>2, <3>1, <3>2, Zenon
  <2> QED
    BY <1>1, <1>5, <2>2, <2>3, <2>4, Zenon
<1>7. CASE IsMove(item)
  <2>1. PICK r \in Nat, last \in X : Merges(d, item, list, r, last)
    <3>1. \E r \in Nat, last \in X :
            Merges(SimplifyMouseMovements(item, list), item, list, r, last)
      BY <1>2, <1>7, MouseIs
    <3> QED
      BY <1>1, <3>1, Zenon
  <2>2. PICK moved : moved = [item EXCEPT !.n = last.n]
    OBVIOUS
  <2>3. /\ 2 * r <= Len(list) /\ \A j \in 1..r : IsMove(list[2 * j])
        /\ IsMove(last)
        /\ d = IF Len(list) = 2 * r
               THEN Processed(last, <<>>, <<moved>>, <<>>, FALSE)
               ELSE Processed(list[2 * r + 1], From(list, 2 * r + 2),
                              <<moved>>, <<>>, FALSE)
    BY <2>1, <2>2, Zenon DEF Merges
  <2>4. moved \in X /\ IsMove(moved)
    <3>1. last.n \in Nat
      BY <1>1, <2>1, BareType
    <3>2. moved \in X
      BY <1>1, <1>2, <2>2, <3>1, BareType
    <3>3. moved.method = item.method
      BY <1>1, <1>2, <2>2, BareType DEF Item
    <3> QED
      BY <1>7, <3>2, <3>3 DEF IsMove
  <2>5. ~Pause(item)
    BY <1>7 DEF Pause, IsMove
  <2>6. PICK x, rest : d = Processed(x, rest, <<moved>>, <<>>, FALSE)
                       /\ x \in X
                       /\ \/ x = last /\ rest = <<>>
                          \/ /\ Len(list) # 2 * r
                             /\ x = list[2 * r + 1]
                             /\ rest = From(list, 2 * r + 2)
    <3>1. CASE Len(list) = 2 * r
      <4>1. d = Processed(last, <<>>, <<moved>>, <<>>, FALSE)
        BY <2>3, <3>1, Zenon
      <4> QED
        BY <2>1, <4>1, Zenon
    <3>2. CASE Len(list) # 2 * r
      <4>1. d = Processed(list[2 * r + 1], From(list, 2 * r + 2),
                              <<moved>>, <<>>, FALSE)
        BY <2>3, <3>2, Zenon
      <4>2. 2 * r + 1 \in 1..Len(list)
        BY <1>3a, <2>3, <3>2
      <4>3. list[2 * r + 1] \in X
        BY <1>2, <4>2
      <4> QED
        BY <3>2, <4>1, <4>3, Zenon
    <3> QED
      BY <3>1, <3>2
  <2>7. /\ d.item = x /\ d.in = rest /\ d.before = <<moved>>
        /\ d.first = <<>> /\ ~d.bad
    BY <2>6 DEF Processed
  <2>8. PICK m \in Seq(X), k \in Nat :
                 /\ Inserted(ins.list, m, k, moved) /\ k >= Len(ins.list)
                 /\ After(ins, d).list = Extended(m, d.item)
    BY <1>3b, <2>4, <2>6, <2>7, AfterOne, SMTT(30)
  <2>9. After(ins, d).list = Append(m, x)
    BY <1>3c, <2>6, <2>7, <2>8, Zenon DEF Extended
  <2>10. /\ m # <<>>
         /\ m[Len(m)] = moved \/ (l # <<>> /\ m[Len(m)] = l[Len(l)])
    BY <1>3, <1>3b, <2>4, <2>8, InsertedLast
  <2>11. "SimplifyStrings" \in o =>
            /\ Steady(rest) /\ Joint(Append(m, x), rest)
            /\ EndsWell(rest, o)
            /\ rest = <<>> => EndsOnNoKey(Append(m, x))
    <3> SUFFICES ASSUME "SimplifyStrings" \in o
                 PROVE  /\ Steady(rest) /\ Joint(Append(m, x), rest)
                        /\ EndsWell(rest, o)
                        /\ rest = <<>> => EndsOnNoKey(Append(m, x))
      OBVIOUS
    <3>1. Steady(w) /\ Joint(l, w) /\ EndsWell(w, o)
      BY <1>4
    <3>2. l # <<>> => Pause(l[Len(l)])
      BY <1>2, <2>5, <3>1, Zenon DEF Joint
    <3>3. ~IsKey(m[Len(m)])
      <4>1. ~IsKey(moved)
        BY <2>4 DEF IsMove, IsKey
      <4>2. l # <<>> => ~IsKey(l[Len(l)])
        BY <3>2 DEF Pause, IsKey
      <4> QED
        BY <2>10, <4>1, <4>2, Zenon
    <3>4. EndsOnNoKey(Append(m, x))
      BY <2>6, <2>8, <3>3, AppendSteady
    <3>5. CASE rest = <<>>
      <4>1. Steady(<<>>) /\ EndsWell(<<>>, o) /\ Joint(Append(m, x), <<>>)
        BY DEF Steady, EndsWell, Joint
      <4> QED
        BY <3>4, <3>5, <4>1, Zenon
    <3>6. CASE rest # <<>>
      <4>1. /\ Len(list) # 2 * r /\ x = list[2 * r + 1]
            /\ rest = From(list, 2 * r + 2)
        BY <2>6, <3>6, Zenon
      <4>2. PICK j \in 1..(Len(w) + 1) :
               j = 2 * r + 3 /\ j > 1 /\ j - 1 = 2 * r + 2
        BY <1>3, <1>3a, <2>3, <4>1
      <4>3. x = w[j - 1]
        <5>1. 2 * r + 1 \in 1..(Len(w) - 1) /\ 2 * r + 1 + 1 = j - 1
          BY <1>3, <1>3a, <2>3, <4>1, <4>2
        <5> QED
          BY <1>2, <4>1, <5>1
      <4>4. rest = From(w, j)
        <5>1. PICK a, b : a = 2 /\ b = j - 1
          OBVIOUS
        <5>2. /\ a \in 1..(Len(w) + 1) /\ b \in 1..(Len(w) + 2 - a)
              /\ a + b - 1 = j /\ b = 2 * r + 2
          BY <1>3, <1>3a, <4>2, <5>1
        <5>3. From(From(w, a), b) = From(w, a + b - 1)
          BY <1>3b, <5>2, FromFrom
        <5> QED
          BY <1>2, <4>1, <5>1, <5>2, <5>3, Zenon
      <4>5. /\ Steady(rest) /\ EndsWell(rest, o)
            /\ Pause(x) \/ Pause(rest[1])
        <5>1. /\ Steady(From(w, j)) /\ EndsWell(From(w, j), o)
              /\ j > 1 /\ From(w, j) # <<>> =>
                    Pause(w[j - 1]) \/ Pause(From(w, j)[1])
          BY <1>3b, <3>1, SuffixRhythm
        <5> QED
          BY <3>6, <4>2, <4>3, <4>4, <5>1, Zenon
      <4>6. Append(m, x)[Len(Append(m, x))] = x
        BY <2>6, <2>8, AppendSteady
      <4>7. Joint(Append(m, x), rest)
        BY <4>5, <4>6, Zenon DEF Joint
      <4> QED
        BY <3>6, <4>5, <4>7, Zenon
    <3> QED
      BY <3>5, <3>6
  <2> QED
    BY <1>1, <1>5, <2>7, <2>9, <2>11, Zenon
<1> QED
  BY <1>6, <1>7

(* SimplifyStrings does not fail on a list that ends so.                   *)
LEMMA StringsRhythm ==
    ASSUME NEW T \in SUBSET Targets, NEW w \in Seq(BareIn(T)), w # <<>>,
           NEW a, NEW o, NEW l, Rhythm("SimplifyStrings", l, w, o),
           NEW d, d = SimplifyStrings(Head(w), Tail(w))
    PROVE  ~d.bad /\ Rhythm("SimplifyStrings", a, d.in, o)
<1>1. PICK item, list, p, n :
         /\ item = Head(w) /\ list = Tail(w) /\ p = "SimplifyStrings"
         /\ n = Len(w)
  OBVIOUS
<1>2. /\ item \in BareIn(T) /\ list \in Seq(BareIn(T)) /\ item = w[1]
      /\ Len(list) = Len(w) - 1
      /\ \A i \in 1..(Len(w) - 1) : list[i] = w[i + 1]
      /\ list = From(w, 2)
  BY <1>1, TailIs
<1>3. n \in Nat /\ n >= 1 /\ Len(list) = n - 1
  BY <1>1, <1>2
<1>4. n >= 2 => ~IsKey(w[n - 1])
  BY <1>1, Zenon DEF Rhythm, EndsOnNoKey
<1>5. ASSUME NEW k \in 2..(n + 1), d.in = From(w, k)
      PROVE  Rhythm(p, a, d.in, o)
  <2>1. PICK r : r = d.in
    OBVIOUS
  <2>2. /\ Len(r) = n + 1 - k /\ r \in Seq(BareIn(T))
        /\ \A i \in 1..Len(r) : r[i] = w[k - 1 + i]
    <3>1. k \in 1..(Len(w) + 1)
      BY <1>1, <1>3
    <3>2. /\ Len(From(w, k)) = Len(w) + 1 - k
          /\ From(w, k) \in Seq(BareIn(T))
          /\ \A i \in 1..Len(From(w, k)) : From(w, k)[i] = w[k - 1 + i]
      BY <3>1, Parted
    <3> QED
      BY <1>1, <1>5, <2>1, <3>2, Zenon
  <2>3. EndsOnNoKey(r)
    <3>1. ASSUME Len(r) >= 2 PROVE ~IsKey(r[Len(r) - 1])
      <4>1. /\ Len(r) - 1 \in 1..Len(r) /\ k - 1 + (Len(r) - 1) = n - 1
            /\ n >= 2
        BY <1>3, <2>2, <3>1
      <4>2. r[Len(r) - 1] = w[n - 1]
        BY <2>2, <4>1
      <4> QED
        BY <1>4, <4>1, <4>2, Zenon
    <3> QED
      BY <3>1, Zenon DEF EndsOnNoKey
  <2>4. p \notin {"FilterQtInternals", "SkipMouseMovements"}
        /\ p # "SimplifyMouseMovements"
    BY <1>1
  <2> QED
    BY <2>1, <2>3, <2>4, Zenon DEF Rhythm
<1>6. CASE item.method # "pressKey"
  <2>1. d = Processed(item, list, <<>>, <<>>, FALSE)
    BY <1>1, <1>6, Zenon DEF SimplifyStrings, Untouched
  <2>2. d.in = list /\ ~d.bad
    BY <2>1 DEF Processed
  <2>3. 2 \in 2..(n + 1)
    BY <1>3
  <2>4. Rhythm(p, a, d.in, o)
    BY <1>2, <1>5, <2>2, <2>3, Zenon
  <2> QED
    BY <1>1, <2>2, <2>4, Zenon
<1>7. CASE item.method = "pressKey"
  <2>1. PICK s \in Nat, at \in BareIn(T), text \in Seq(Nat) :
           Sends(d, item, list, s, at, text)
    <3>1. \E s \in Nat, at \in BareIn(T), text \in Seq(Nat) :
            Sends(SimplifyStrings(item, list), item, list, s, at, text)
      BY <1>2, <1>7, StringsIs
    <3> QED
      BY <1>1, <3>1, Zenon
  <2>2. 2 * s <= Len(list) /\ at = AtOf(item, list, s)
    BY <2>1, Zenon DEF Sends
  <2>3. /\ d.in = From(list, 2 * s + 1)
        /\ d.bad => at.method = "releaseKey" /\ Len(list) = 2 * s + 1
    <3>1. PICK before, bad :
             /\ d = Processed(at, From(list, 2 * s + 1), before, <<>>, bad)
             /\ bad => at.method = "releaseKey" /\ Len(list) = 2 * s + 1
      BY <2>1, Zenon DEF Sends
    <3>2. d.in = From(list, 2 * s + 1) /\ d.bad = bad
      BY <3>1 DEF Processed
    <3> QED
      BY <3>1, <3>2, Zenon
  <2>4. PICK k \in 2..(n + 1) : k = 2 * s + 2
    BY <1>3, <2>2
  <2>5. d.in = From(w, k)
    <3>1. PICK c, b : c = 2 /\ b = k - 1
      OBVIOUS
    <3>2. /\ c \in 1..(Len(w) + 1) /\ b \in 1..(Len(w) + 2 - c)
          /\ c + b - 1 = k /\ b = 2 * s + 1
      BY <1>1, <1>3, <2>4, <3>1
    <3>3. From(From(w, c), b) = From(w, c + b - 1)
      BY <3>2, FromFrom
    <3> QED
      BY <1>2, <2>3, <3>1, <3>2, <3>3, Zenon
  <2>6. Rhythm(p, a, d.in, o)
    BY <1>5, <2>5
  <2>7. ~d.bad
    <3> SUFFICES ASSUME d.bad PROVE FALSE
      OBVIOUS
    <3>1. IsKey(at) /\ n - 1 = 2 * s + 1 /\ n >= 2
      <4>1. at.method = "releaseKey" /\ Len(list) = 2 * s + 1
        BY <2>3
      <4>2. IsKey(at)
        BY <4>1 DEF IsKey
      <4> QED
        BY <1>3, <4>1, <4>2
    <3>2. at = w[n - 1]
      <4>1. CASE s = 0
        <5>1. at = item
          BY <2>2, <4>1, Zenon DEF AtOf
        <5>2. n - 1 = 1
          BY <1>3, <3>1, <4>1
        <5> QED
          BY <1>2, <5>1, <5>2
      <4>2. CASE s # 0
        <5>1. at = list[2 * s]
          BY <2>2, <4>2, Zenon DEF AtOf
        <5>2. 2 * s \in 1..(Len(w) - 1) /\ 2 * s + 1 = n - 1
          BY <1>1, <1>3, <3>1, <4>2
        <5>3. list[2 * s] = w[2 * s + 1]
          BY <1>2, <5>2
        <5> QED
          BY <5>1, <5>2, <5>3, Zenon
      <4> QED
        BY <4>1, <4>2
    <3> QED
      BY <1>4, <3>1, <3>2, Zenon
  <2> QED
    BY <1>1, <2>6, <2>7, Zenon
<1> QED
  BY <1>6, <1>7

-----------------------------------------------------------------------------
(* The rhythm of the items that parseHooq makes.                           *)
LEMMA ItemsRhythm ==
    ASSUME log \in Seq(Events), NEW o, NEW p,
           log # <<>> =>
              /\ "FilterQtInternals" \in o => Last(log).target \notin Internal
              /\ {"SkipMouseMovements", "SimplifyStrings"} \subseteq o =>
                    ~IsMove(Last(log))
    PROVE  Rhythm(p, <<>>, Items(FALSE), o)
<1>1. PICK s, n, m : s = Items(FALSE) /\ n = Len(log) /\ m = Len(s)
  OBVIOUS
<1>2. n \in Nat
  BY <1>1
<1>3. /\ s \in Seq(BareIn(LogTargets)) /\ m = 2 * n /\ m \in Nat
      /\ \A i \in 1..m :
            /\ i % 2 = 1 => s[i] = Msleep
            /\ i % 2 # 1 => i \div 2 \in 1..n /\ s[i] = log[i \div 2]
  <2>1. PICK short \in BOOLEAN : short = FALSE
    OBVIOUS
  <2>2. /\ Items(short) \in Seq(BareIn(LogTargets))
        /\ Len(Items(short)) = 2 * Len(log) + (IF short THEN 1 ELSE 0)
        /\ \A i \in 1..Len(Items(short)) :
                 /\ i % 2 = 1 => Items(short)[i] = Msleep
                 /\ i % 2 # 1 => /\ i \div 2 \in 1..Len(log)
                                 /\ Items(short)[i] = log[i \div 2]
    BY ItemsIs
  <2>3. /\ s \in Seq(BareIn(LogTargets))
        /\ m = 2 * n + (IF short THEN 1 ELSE 0)
        /\ \A i \in 1..m :
            /\ i % 2 = 1 => s[i] = Msleep
            /\ i % 2 # 1 => i \div 2 \in 1..n /\ s[i] = log[i \div 2]
    BY <1>1, <2>1, <2>2, Zenon
  <2>4. m = 2 * n /\ m \in Nat
    BY <1>2, <2>1, <2>3
  <2> QED
    BY <2>3, <2>4, Zenon
<1>3a. s \in Seq(BareIn(LogTargets)) /\ m = 2 * n /\ m \in Nat /\ m = Len(s)
  BY <1>1, <1>3, Zenon
<1>4. Pause(Msleep) /\ ~IsKey(Msleep)
  BY DEF Pause, IsKey, Msleep, NoItem
<1>5. Steady(s)
  <2>1. ASSUME NEW i \in 1..(Len(s) - 1)
        PROVE  Pause(s[i]) \/ Pause(s[i + 1])
    <3>1. i \in 1..m /\ i + 1 \in 1..m
      BY <1>3a
    <3>2. i % 2 = 1 \/ (i + 1) % 2 = 1
      BY <3>1
    <3>3. s[i] = Msleep \/ s[i + 1] = Msleep
      BY <1>3, <3>1, <3>2
    <3> QED
      BY <1>4, <3>3, Zenon
  <2> QED
    BY <2>1, Zenon DEF Steady
<1>6. s # <<>> => log # <<>> /\ s[Len(s)] = Last(log) /\ ~Pause(Last(log))
  <2> SUFFICES ASSUME s # <<>>
               PROVE  /\ log # <<>> /\ s[Len(s)] = Last(log)
                      /\ ~Pause(Last(log))
    OBVIOUS
  <2>1. m # 0
    BY <1>3a
  <2>2. n \in 1..n /\ m \in 1..m /\ m % 2 # 1 /\ m \div 2 = n
    BY <1>2, <1>3a, <2>1
  <2>3. s[m] = log[n]
    BY <1>3, <2>2
  <2>4. log[n] = Last(log) /\ log # <<>>
    <3>1. log # <<>>
      BY <1>1, <2>2
    <3> QED
      BY <1>1, <3>1, Zenon DEF Last
  <2>5. log[n] \in Events
    BY <1>1, <2>2
  <2>6. ~Pause(log[n])
    BY <2>5 DEF Events, Pause
  <2> QED
    BY <1>1, <2>3, <2>4, <2>6, Zenon
<1>7. EndsWell(s, o)
  BY <1>6, Zenon DEF EndsWell
<1>8. EndsOnNoKey(s)
  <2>1. ASSUME Len(s) >= 2 PROVE ~IsKey(s[Len(s) - 1])
    <3>1. m - 1 \in 1..m /\ (m - 1) % 2 = 1
      BY <1>2, <1>3a, <2>1
    <3>2. s[m - 1] = Msleep
      BY <1>3, <3>1
    <3> QED
      BY <1>1, <1>4, <3>2, Zenon
  <2> QED
    BY <2>1, Zenon DEF EndsOnNoKey
<1>9. /\ Steady(<<>>) /\ Joint(<<>>, s) /\ EndsWell(<<>>, o)
      /\ EndsOnNoKey(<<>>)
  BY DEF Steady, Joint, EndsWell, EndsOnNoKey
<1>10. Rhythm(p, <<>>, s, o)
  BY <1>5, <1>7, <1>8, <1>9, Zenon DEF Rhythm
<1> QED
  BY <1>1, <1>10, Zenon

(* A list with the rhythm ends on a pause and an event.                    *)
LEMMA SteadyEnd ==
    ASSUME NEW X, NEW s \in Seq(X), NEW o, Steady(s), EndsWell(s, o)
    PROVE  EndsOnNoKey(s)
<1>1. ASSUME Len(s) >= 2 PROVE ~IsKey(s[Len(s) - 1])
  <2>1. PICK n, i : n = Len(s) /\ i = n - 1
    OBVIOUS
  <2>2. s # <<>> /\ i \in 1..(Len(s) - 1) /\ i + 1 = n /\ Len(s) - 1 = i
    BY <1>1, <2>1
  <2>3. ~Pause(s[n])
    BY <2>1, <2>2, Zenon DEF EndsWell
  <2>4. Pause(s[i])
    BY <2>2, <2>3, Zenon DEF Steady
  <2>5. ~IsKey(s[i])
    BY <2>4 DEF Pause, IsKey
  <2> QED
    BY <2>2, <2>5, Zenon
<1> QED
  BY <1>1, Zenon DEF EndsOnNoKey

(* The rhythm at the end of a pass.                                        *)
LEMMA RhythmNextPass ==
    ASSUME NEW S \in SUBSET Chosen, NEW o, S \subseteq o, NEW p, Turn(S, p),
           NEW q, Turn(S \ {p}, q), NEW X, NEW list \in Seq(X),
           Rhythm(p, list, <<>>, o)
    PROVE  Rhythm(q, <<>>, list, o)
<1>1. /\ q \in S /\ q # p /\ p \in Chosen
      /\ q # "FilterQtInternals"
      /\ q = "SkipMouseMovements" => p = "FilterQtInternals"
      /\ q = "SimplifyMouseMovements" =>
            p \in {"FilterQtInternals", "SkipMouseMovements"}
      /\ q \in Early => p \in Early \ {"SimplifyStrings"}
  BY NextTurn
<1>2. /\ Steady(<<>>) /\ Joint(<<>>, list) /\ EndsWell(<<>>, o)
      /\ EndsOnNoKey(<<>>)
  BY DEF Steady, Joint, EndsWell, EndsOnNoKey
<1>3. /\ p = "FilterQtInternals" => Steady(list) /\ EndsWell(list, o)
      /\ p = "SkipMouseMovements" =>
            /\ Steady(list)
            /\ "SimplifyStrings" \in o => EndsWell(list, o)
      /\ p = "SimplifyMouseMovements" /\ "SimplifyStrings" \in o =>
            EndsOnNoKey(list)
  BY DEF Rhythm
<1>4. CASE q = "SkipMouseMovements"
  BY <1>1, <1>2, <1>3, <1>4 DEF Rhythm
<1>5. CASE q = "SimplifyMouseMovements"
  BY <1>1, <1>2, <1>3, <1>5 DEF Rhythm
<1>6. CASE q = "SimplifyStrings"
  <2>1. "SimplifyStrings" \in o
    BY <1>1, <1>6
  <2>2. EndsOnNoKey(list)
    <3>1. CASE p \in {"FilterQtInternals", "SkipMouseMovements"}
      <4>1. Steady(list) /\ EndsWell(list, o)
        BY <1>3, <2>1, <3>1
      <4> QED
        BY <4>1, SteadyEnd
    <3>2. CASE p = "SimplifyMouseMovements"
      BY <1>3, <2>1, <3>2
    <3> QED
      BY <1>1, <1>6, <3>1, <3>2 DEF Early
  <2> QED
    BY <1>6, <2>2 DEF Rhythm
<1>7. CASE q \notin {"FilterQtInternals", "SkipMouseMovements",
                     "SimplifyMouseMovements", "SimplifyStrings"}
  BY <1>7 DEF Rhythm
<1> QED
  BY <1>1, <1>4, <1>5, <1>6, <1>7

(* A turn keeps the rhythm and does not fail.                              *)
LEMMA RhythmTurn ==
    ASSUME TypeInv, RhythmOK, NEW p, NEW item, NEW list, NEW d,
           Turned(p, item, list, d), ~Exempt
    PROVE  ~d.bad /\ Rhythm(p, After(inserter, d).list, d.in, options)
<1>1. PICK T, l, w, o : /\ T = LogTargets /\ l = inserter.list /\ w = in
                        /\ o = options
  OBVIOUS
<1>2. /\ T \in SUBSET Targets /\ p \in Chosen /\ p \in o
      /\ w # <<>> /\ item = Head(w) /\ list = Tail(w)
      /\ objects \in [Targets -> Names] /\ strings \in Seq(Seq(Nat))
      /\ InserterOK(Item, inserter)
      /\ Stage(p, T, l, w, objects, strings)
  BY <1>1, BeforeTurn
<1>3. Rhythm(p, l, w, o)
  BY <1>1, Zenon DEF RhythmOK, Turned
<1>4. d = Process(p, Head(w), Tail(w))
  BY <1>1, Zenon DEF Turned
<1>5. CASE p \in Early
  <2>1. l \in Seq(BareIn(T)) /\ w \in Seq(BareIn(T))
    BY <1>2, <1>5 DEF Stage
  <2>2. InserterOK(BareIn(T), inserter)
    BY <1>1, <1>2, <2>1, InserterIn
  <2>3. CASE p = "FilterQtInternals"
    <3>1. d = FilterQtInternals(Head(w), Tail(w))
      BY <1>4, <2>3, ProcessIs
    <3> QED
      BY <1>1, <1>2, <1>3, <2>1, <2>2, <2>3, <3>1, FilterRhythm
  <2>4. CASE p = "SkipMouseMovements"
    <3>1. d = SkipMouseMovements(Head(w), Tail(w))
      BY <1>4, <2>4, ProcessIs
    <3> QED
      BY <1>1, <1>2, <1>3, <2>1, <2>2, <2>4, <3>1, SkipRhythm
  <2>5. CASE p = "SimplifyMouseMovements"
    <3>1. d = SimplifyMouseMovements(Head(w), Tail(w))
      BY <1>4, <2>5, ProcessIs
    <3> QED
      BY <1>1, <1>2, <1>3, <2>1, <2>2, <2>5, <3>1, MouseRhythm
  <2>6. CASE p = "SimplifyStrings"
    <3>1. d = SimplifyStrings(Head(w), Tail(w))
      BY <1>4, <2>6, ProcessIs
    <3> QED
      BY <1>1, <1>2, <1>3, <2>1, <2>6, <3>1, StringsRhythm
  <2> QED
    BY <1>5, <2>3, <2>4, <2>5, <2>6 DEF Early
<1>6. CASE p \in {"ObjectVariables", "StringVariables"}
  <2>1. ASSUME NEW x, NEW r, NEW b, NEW f, d = Processed(x, r, b, f, FALSE)
        PROVE  ~d.bad
    BY <2>1 DEF Processed
  <2>2. CASE p = "ObjectVariables"
    <3>1. d = ObjectVariables(item, list)
      BY <1>2, <1>4, <2>2, ProcessIs
    <3>2. \E x, r, b, f : d = Processed(x, r, b, f, FALSE)
      BY <3>1, Zenon DEF ObjectVariables, Untouched
    <3> QED
      BY <2>1, <3>2, <2>2, Zenon DEF Rhythm
  <2>3. CASE p = "StringVariables"
    <3>1. d = StringVariables(item, list)
      BY <1>2, <1>4, <2>3, ProcessIs
    <3>2. \E x, r, b, f : d = Processed(x, r, b, f, FALSE)
      BY <3>1, Zenon DEF StringVariables, Untouched
    <3> QED
      BY <2>1, <3>2, <2>3, Zenon DEF Rhythm
  <2> QED
    BY <1>6, <2>2, <2>3
<1> QED
  BY <1>2, <1>5, <1>6 DEF Chosen

(* Every step keeps the rhythm, and only an exempt log fails.              *)
LEMMA RhythmNext ==
    ASSUME TypeInv, RhythmOK, [Next]_vars
    PROVE  RhythmOK'
<1>1. CASE \E shape \in UNION Alphabets : Record(shape)
  BY <1>1 DEF Record, RhythmOK
<1>2. ASSUME NEW chosen \in OptionSets, NEW short \in BOOLEAN,
             Parse(chosen, short)
      PROVE  RhythmOK'
  <2>1. /\ phase = "record" /\ phase' = "convert" /\ cut' = short
        /\ options' = chosen /\ passes' = chosen /\ in' = Items(short)
        /\ log' = log /\ inserter' = inserter
    BY <1>2 DEF Parse
  <2>2. inserter.list = <<>> /\ log \in Seq(Events)
    BY <2>1 DEF TypeInv, Idle, LogOK, Reset
  <2>3. ASSUME ~Exempt'
        PROVE  Rhythm(Current', inserter'.list, in', options')
    <3>1. /\ short = FALSE
          /\ log # <<>> =>
              /\ "FilterQtInternals" \in chosen =>
                    Last(log).target \notin Internal
              /\ {"SkipMouseMovements", "SimplifyStrings"} \subseteq chosen =>
                    ~IsMove(Last(log))
      BY <2>1, <2>3, Zenon DEF Exempt
    <3>2. Rhythm(Current', <<>>, Items(FALSE), chosen)
      BY <2>2, <3>1, ItemsRhythm
    <3> QED
      BY <2>1, <2>2, <3>1, <3>2, Zenon
  <2> QED
    BY <2>1, <2>3 DEF RhythmOK
<1>3. CASE ProcessItem
  <2>1. PICK p, item, list, d : Turned(p, item, list, d)
    BY <1>3, TurnIs
  <2>2. /\ phase = "convert" /\ passes # {} /\ p = Current
        /\ phase' = (IF d.bad THEN "failed" ELSE phase)
        /\ in' = d.in /\ inserter' = After(inserter, d)
        /\ log' = log /\ cut' = cut /\ options' = options /\ passes' = passes
        /\ Current' = Current
    BY <2>1, Zenon DEF Turned
  <2>3. Exempt' <=> Exempt
    BY <2>2, Zenon DEF Exempt
  <2>4. CASE Exempt
    BY <2>2, <2>3, <2>4 DEF RhythmOK
  <2>5. CASE ~Exempt
    <3>1. ~d.bad /\ Rhythm(p, After(inserter, d).list, d.in, options)
      BY <2>1, <2>5, RhythmTurn
    <3>2. phase' = "convert"
      BY <2>2, <3>1, Zenon
    <3>3. Rhythm(Current', inserter'.list, in', options')
      BY <2>2, <3>1, Zenon
    <3> QED
      BY <3>2, <3>3 DEF RhythmOK
  <2> QED
    BY <2>4, <2>5
<1>4. CASE EndPass
  <2>1. /\ phase = "convert" /\ passes # {} /\ in = <<>>
        /\ passes' = passes \ {Current} /\ in' = inserter.list
        /\ inserter' = Reset(inserter.list)
        /\ log' = log /\ cut' = cut /\ options' = options /\ phase' = phase
    BY <1>4 DEF EndPass
  <2>2. Exempt' <=> Exempt
    BY <2>1, Zenon DEF Exempt
  <2>3. inserter'.list = <<>>
    BY <2>1 DEF Reset
  <2>4. ASSUME passes' # {}, ~Exempt
        PROVE  Rhythm(Current', inserter'.list, in', options')
    <3>1. PICK p, q : p = Current /\ q = Current'
      OBVIOUS
    <3>2. /\ options \subseteq Chosen /\ passes \subseteq options
          /\ inserter.list \in Seq(Item)
      BY TypeOKIs DEF TypeInv, Lists, InserterOK
    <3>3. p = First(passes) /\ q = First(passes \ {p})
      BY <2>1, <3>1 DEF Current, First
    <3>4. passes \in SUBSET Chosen /\ passes \ {p} # {}
      BY <2>1, <2>4, <3>1, <3>2
    <3>5. Turn(passes, p) /\ Turn(passes \ {p}, q)
      BY <2>1, <3>3, <3>4, FirstIs
    <3>6. Rhythm(p, inserter.list, <<>>, options)
      BY <2>1, <2>4, <3>1 DEF RhythmOK
    <3>7. Rhythm(q, <<>>, inserter.list, options)
      BY <3>2, <3>4, <3>5, <3>6, RhythmNextPass
    <3> QED
      BY <2>1, <2>3, <3>1, <3>7, Zenon
  <2> QED
    BY <2>1, <2>2, <2>4 DEF RhythmOK
<1>5. CASE Serialize
  BY <1>5 DEF Serialize, RhythmOK
<1>6. CASE UNCHANGED vars
  <2>1. /\ phase' = phase /\ in' = in /\ inserter' = inserter
        /\ log' = log /\ cut' = cut /\ options' = options /\ passes' = passes
    BY <1>6 DEF vars
  <2>2. Current' = Current /\ (Exempt' <=> Exempt)
    BY <2>1 DEF Current, Exempt
  <2> QED
    BY <2>1, <2>2 DEF RhythmOK
<1> QED
  BY <1>1, <1>2, <1>3, <1>4, <1>5, <1>6 DEF Next

(* No post-processor takes an item of an empty list, whatever the log and  *)
(* the options, except in the cases that FailsOnlyAtEnd names.             *)
THEOREM NoUnderrun == Spec => []FailsOnlyAtEnd
<1> DEFINE Inv == TypeInv /\ RhythmOK
<1>1. Init => Inv
  <2>1. Init => RhythmOK
    BY DEF Init, RhythmOK
  <2> QED
    BY <2>1, TypeInit
<1>2. Inv /\ [Next]_vars => Inv'
  BY TypeNext, RhythmNext
<1>3. Inv => FailsOnlyAtEnd
  BY DEF RhythmOK, Exempt, FailsOnlyAtEnd
<1> QED
  BY <1>1, <1>2, <1>3, PTL DEF Spec

-----------------------------------------------------------------------------
(* A list in two parts.                                                    *)
LEMMA JoinIs ==
    ASSUME NEW X, NEW l \in Seq(X), NEW r \in Seq(X), NEW u, u = l \o r
    PROVE  /\ u \in Seq(X) /\ Len(u) = Len(l) + Len(r)
           /\ \A i \in 1..Len(u) :
                 u[i] = IF i <= Len(l) THEN l[i] ELSE r[i - Len(l)]
OBVIOUS

(* v is u with x at position k instead of what was there.                  *)
Replaced(u, v, k, x) ==
    /\ Len(v) = Len(u) /\ k \in 1..Len(u) /\ v[k] = x
    /\ \A i \in 1..Len(u) : i # k => v[i] = u[i]

(* Taking the head of the rest and appending x to the first part replaces  *)
(* an item of the whole.                                                   *)
LEMMA TakenIs ==
    ASSUME NEW X, NEW m \in Seq(X), NEW w \in Seq(X), w # <<>>, NEW x \in X
    PROVE  /\ Replaced(m \o w, Append(m, x) \o Tail(w), Len(m) + 1, x)
           /\ (m \o w)[Len(m) + 1] = Head(w)
           /\ m \o w \in Seq(X) /\ Append(m, x) \o Tail(w) \in Seq(X)
<1>1. PICK a, t, n, c : /\ a = Append(m, x) /\ t = Tail(w) /\ n = Len(m)
                        /\ c = Len(w)
  OBVIOUS
<1>2. n \in Nat /\ c \in Nat /\ c >= 1
  BY <1>1
<1>3. /\ a \in Seq(X) /\ Len(a) = n + 1 /\ a[n + 1] = x
      /\ \A p \in 1..n : a[p] = m[p]
  BY <1>1, AppendIs
<1>4. /\ Head(w) = w[1] /\ t \in Seq(X) /\ Len(t) = c - 1
      /\ \A i \in 1..(c - 1) : t[i] = w[i + 1]
  BY <1>1, TailIs
<1>5. PICK u, v : u = m \o w /\ v = a \o t
  OBVIOUS
<1>6. /\ u \in Seq(X) /\ Len(u) = n + c
      /\ \A i \in 1..(n + c) : u[i] = IF i <= n THEN m[i] ELSE w[i - n]
  <2>1. /\ u \in Seq(X) /\ Len(u) = Len(m) + Len(w)
        /\ \A i \in 1..Len(u) :
              u[i] = IF i <= Len(m) THEN m[i] ELSE w[i - Len(m)]
    BY <1>5, JoinIs
  <2> QED
    BY <1>1, <2>1, Zenon
<1>7. /\ v \in Seq(X) /\ Len(v) = n + c
      /\ \A i \in 1..(n + c) : v[i] = IF i <= n + 1 THEN a[i]
                                      ELSE t[i - (n + 1)]
  <2>1. /\ v \in Seq(X) /\ Len(v) = Len(a) + Len(t)
        /\ \A i \in 1..Len(v) :
              v[i] = IF i <= Len(a) THEN a[i] ELSE t[i - Len(a)]
    <3>1. a \in Seq(X) /\ t \in Seq(X) /\ v = a \o t
      BY <1>3, <1>4, <1>5, Zenon
    <3> QED
      BY <3>1, JoinIs
  <2>2. Len(v) = n + c
    BY <1>2, <1>3, <1>4, <2>1
  <2> QED
    BY <1>3, <2>1, <2>2, Zenon
<1>8. PICK k \in 1..(n + c) : k = n + 1
  BY <1>2
<1>9. v[k] = x /\ u[k] = w[1]
  <2>1. v[k] = IF k <= n + 1 THEN a[k] ELSE t[k - (n + 1)]
    BY <1>7
  <2>2. u[k] = IF k <= n THEN m[k] ELSE w[k - n]
    BY <1>6
  <2>3. k <= n + 1 /\ ~(k <= n) /\ k - n = 1
    BY <1>2, <1>8
  <2>4. v[k] = a[k] /\ u[k] = w[1]
    BY <2>1, <2>2, <2>3, Zenon
  <2> QED
    BY <1>3, <1>8, <2>4, Zenon
<1>10. ASSUME NEW i \in 1..(n + c), i # k PROVE v[i] = u[i]
  <2>1. v[i] = IF i <= n + 1 THEN a[i] ELSE t[i - (n + 1)]
    BY <1>7
  <2>2. u[i] = IF i <= n THEN m[i] ELSE w[i - n]
    BY <1>6
  <2>3. CASE i <= n
    <3>1. i \in 1..n /\ i <= n + 1
      BY <1>2, <2>3
    <3>2. a[i] = m[i]
      BY <1>3, <3>1
    <3> QED
      BY <2>1, <2>2, <2>3, <3>1, <3>2, Zenon
  <2>4. CASE ~(i <= n)
    <3>1. /\ ~(i <= n + 1) /\ i - (n + 1) \in 1..(c - 1)
          /\ i - (n + 1) + 1 = i - n
      BY <1>2, <1>8, <1>10, <2>4
    <3>2. t[i - (n + 1)] = w[i - (n + 1) + 1]
      BY <1>4, <3>1
    <3> QED
      BY <2>1, <2>2, <2>4, <3>1, <3>2, Zenon
  <2> QED
    BY <2>3, <2>4
<1>11. Replaced(u, v, k, x)
  BY <1>6, <1>7, <1>8, <1>9, <1>10 DEF Replaced
<1> QED
  BY <1>1, <1>4, <1>5, <1>6, <1>7, <1>8, <1>9, <1>11, Zenon

(* Inserting into the first part is inserting into the whole.              *)
LEMMA InsertedJoin ==
    ASSUME NEW X, NEW l \in Seq(X), NEW m \in Seq(X), NEW w \in Seq(X),
           NEW k \in Nat, NEW y, Inserted(l, m, k, y)
    PROVE  Inserted(l \o w, m \o w, k, y)
<1>1. PICK n, c, u, v : /\ n = Len(l) /\ c = Len(w) /\ u = l \o w
                        /\ v = m \o w
  OBVIOUS
<1>2. n \in Nat /\ c \in Nat
  BY <1>1
<1>3. /\ k \in 1..(n + 1) /\ Len(m) = n + 1
      /\ \A i \in 1..(n + 1) :
            m[i] = IF i < k THEN l[i] ELSE IF i = k THEN y ELSE l[i - 1]
  BY <1>1, Zenon DEF Inserted
<1>4. /\ Len(u) = n + c
      /\ \A i \in 1..(n + c) : u[i] = IF i <= n THEN l[i] ELSE w[i - n]
  <2>1. /\ Len(u) = Len(l) + Len(w)
        /\ \A i \in 1..Len(u) :
              u[i] = IF i <= Len(l) THEN l[i] ELSE w[i - Len(l)]
    BY <1>1, JoinIs
  <2> QED
    BY <1>1, <2>1, Zenon
<1>5. /\ Len(v) = n + c + 1
      /\ \A i \in 1..(n + c + 1) : v[i] = IF i <= n + 1 THEN m[i]
                                          ELSE w[i - (n + 1)]
  <2>1. /\ Len(v) = Len(m) + Len(w)
        /\ \A i \in 1..Len(v) :
              v[i] = IF i <= Len(m) THEN m[i] ELSE w[i - Len(m)]
    BY <1>1, JoinIs
  <2>2. Len(m) = n + 1 /\ Len(w) = c
    BY <1>1, <1>3, Zenon
  <2>3. n + 1 + c = n + c + 1
    BY <1>2
  <2> QED
    BY <2>1, <2>2, <2>3, Zenon
<1>6. ASSUME NEW i \in 1..(n + c + 1)
      PROVE  v[i] = IF i < k THEN u[i] ELSE IF i = k THEN y ELSE u[i - 1]
  <2>1. v[i] = IF i <= n + 1 THEN m[i] ELSE w[i - (n + 1)]
    BY <1>5
  <2>2. CASE i <= n + 1
    <3>1. i \in 1..(n + 1)
      BY <1>2, <2>2
    <3>2. v[i] = IF i < k THEN l[i] ELSE IF i = k THEN y ELSE l[i - 1]
      BY <1>3, <2>1, <2>2, <3>1
    <3>3. i < k => u[i] = l[i]
      <4> SUFFICES ASSUME i < k PROVE u[i] = l[i]
        OBVIOUS
      <4>1. i \in 1..(n + c) /\ i <= n
        BY <1>2, <1>3, <3>1
      <4> QED
        BY <1>4, <4>1
    <3>4. ~(i < k) /\ i # k => u[i - 1] = l[i - 1]
      <4> SUFFICES ASSUME ~(i < k), i # k PROVE u[i - 1] = l[i - 1]
        OBVIOUS
      <4>1. i - 1 \in 1..(n + c) /\ i - 1 <= n
        BY <1>2, <1>3, <3>1
      <4> QED
        BY <1>4, <4>1
    <3> QED
      BY <3>2, <3>3, <3>4, Zenon
  <2>3. CASE ~(i <= n + 1)
    <3>1. v[i] = w[i - (n + 1)]
      BY <2>1, <2>3, Zenon
    <3>2. /\ ~(i < k) /\ i # k /\ i - 1 \in 1..(n + c) /\ ~(i - 1 <= n)
          /\ i - 1 - n = i - (n + 1)
      BY <1>2, <1>3, <2>3
    <3>3. u[i - 1] = w[i - 1 - n]
      BY <1>4, <3>2
    <3> QED
      BY <3>1, <3>2, <3>3, Zenon
  <2> QED
    BY <2>2, <2>3
<1>7. Len(u) = n + c /\ Len(v) = n + c + 1
  BY <1>4, <1>5, Zenon
<1>8. k \in 1..(Len(u) + 1) /\ Len(v) = Len(u) + 1
  BY <1>2, <1>3, <1>7
<1>9. \A i \in 1..Len(v) :
         v[i] = IF i < k THEN u[i] ELSE IF i = k THEN y ELSE u[i - 1]
  BY <1>6, <1>7, Zenon
<1> QED
  BY <1>1, <1>8, <1>9, Zenon DEF Inserted

-----------------------------------------------------------------------------
(* A declaration uses the name that it declares.                           *)
LEMMA DeclaresUses ==
    ASSUME NEW x, NEW name, Declares(x, name), name # NoName
    PROVE  name \in UsedIn(x)
BY DEF Declares, UsedIn

(* What is declared somewhere is declared once, from there on.             *)
LEMMA DeclaredHere ==
    ASSUME NEW X, NEW w \in Seq(X), DeclaredFirst(w), NEW j \in 1..Len(w),
           NEW name, name # NoName, Declares(w[j], name),
           NEW k \in 1..Len(w), j <= k
    PROVE  Declared1(w, k, name)
<1>1. name \in UsedIn(w[j])
  BY DeclaresUses
<1>2. PICK i \in 1..j : /\ Declares(w[i], name)
                        /\ \A e \in 1..Len(w) : Declares(w[e], name) => e = i
  BY <1>1, Zenon DEF DeclaredFirst, Declared1
<1>3. i \in 1..k
  BY <1>2
<1> QED
  BY <1>2, <1>3, Zenon DEF Declared1

(* An item that declares what the one in its place declared, and uses what *)
(* that used or what is declared before it.                                *)
LEMMA ReplaceUse ==
    ASSUME NEW X, NEW w \in Seq(X), NEW v, NEW k, NEW x,
           Replaced(w, v, k, x), DeclaredFirst(w),
           \A name : Declares(x, name) <=> Declares(w[k], name),
           \A name \in UsedIn(x) :
              \/ name \in UsedIn(w[k])
              \/ \E j \in 1..Len(w) : j <= k /\ Declares(w[j], name)
    PROVE  DeclaredFirst(v)
<1>1. /\ Len(v) = Len(w) /\ k \in 1..Len(w) /\ v[k] = x
      /\ \A i \in 1..Len(w) : i # k => v[i] = w[i]
  BY Zenon DEF Replaced
<1>2. ASSUME NEW i \in 1..Len(w), NEW name
      PROVE  Declares(v[i], name) <=> Declares(w[i], name)
  BY <1>1, Zenon
<1>3. ASSUME NEW i \in 1..Len(w), NEW name, Declared1(w, i, name)
      PROVE  Declared1(v, i, name)
  <2>1. PICK j \in 1..i :
           /\ Declares(w[j], name)
           /\ \A e \in 1..Len(w) : Declares(w[e], name) => e = j
    BY <1>3, Zenon DEF Declared1
  <2>2. j \in 1..Len(w)
    BY <2>1
  <2> QED
    BY <1>1, <1>2, <2>1, <2>2, Zenon DEF Declared1
<1>4. ASSUME NEW i \in 1..Len(w), NEW name \in UsedIn(v[i])
      PROVE  Declared1(w, i, name)
  <2>1. CASE i # k
    <3>1. name \in UsedIn(w[i])
      BY <1>1, <1>4, <2>1, Zenon
    <3> QED
      BY <3>1, Zenon DEF DeclaredFirst
  <2>2. CASE i = k /\ name \in UsedIn(w[k])
    BY <2>2, Zenon DEF DeclaredFirst
  <2>3. CASE i = k /\ name \notin UsedIn(w[k])
    <3>1. name \in UsedIn(x)
      BY <1>1, <1>4, <2>3, Zenon
    <3>2. PICK j \in 1..Len(w) : j <= k /\ Declares(w[j], name)
      BY <2>3, <3>1, Zenon
    <3>3. name # NoName
      BY <3>1 DEF UsedIn
    <3> QED
      BY <2>3, <3>2, <3>3, DeclaredHere
  <2> QED
    BY <2>1, <2>2, <2>3
<1>5. ASSUME NEW i \in 1..Len(v), NEW name \in UsedIn(v[i])
      PROVE  Declared1(v, i, name)
  BY <1>1, <1>3, <1>4, Zenon
<1> QED
  BY <1>5, Zenon DEF DeclaredFirst

(* Inserting the declaration of a name that is not declared yet.           *)
LEMMA InsertDeclaration ==
    ASSUME NEW X, NEW w \in Seq(X), NEW v, NEW k, NEW y, Inserted(w, v, k, y),
           DeclaredFirst(w), NEW name, name # NoName, UsedIn(y) = {name},
           Declares(y, name), ~SomeDeclares(w, name)
    PROVE  DeclaredFirst(v)
<1>1. PICK n \in Nat : n = Len(w)
  OBVIOUS
<1>2. /\ k \in 1..(n + 1) /\ Len(v) = n + 1
      /\ \A i \in 1..(n + 1) :
            v[i] = IF i < k THEN w[i] ELSE IF i = k THEN y ELSE w[i - 1]
  <2>1. /\ k \in 1..(n + 1) /\ Len(v) = n + 1
        /\ \A i \in 1..Len(v) :
            v[i] = IF i < k THEN w[i] ELSE IF i = k THEN y ELSE w[i - 1]
    BY <1>1, Zenon DEF Inserted
  <2> QED
    BY <2>1, Zenon
<1> DEFINE Up(i) == IF i < k THEN i ELSE i + 1
<1>3. ASSUME NEW i \in 1..n
      PROVE  Up(i) \in 1..(n + 1) /\ Up(i) # k /\ v[Up(i)] = w[i]
  <2>1. PICK j : j = Up(i)
    OBVIOUS
  <2>2. j \in 1..(n + 1) /\ j # k /\ (j < k => j = i) /\
        (~(j < k) => j - 1 = i)
    BY <1>1, <1>2, <2>1
  <2>3. v[j] = IF j < k THEN w[j] ELSE IF j = k THEN y ELSE w[j - 1]
    BY <1>2, <2>2
  <2>4. v[j] = w[i]
    <3>1. CASE j < k
      BY <2>2, <2>3, <3>1
    <3>2. CASE ~(j < k)
      BY <2>2, <2>3, <3>2
    <3> QED
      BY <3>1, <3>2
  <2> QED
    BY <2>1, <2>2, <2>4, Zenon
<1>4. ASSUME NEW i \in 1..(n + 1), i # k
      PROVE  \E j \in 1..n : i = Up(j)
  <2>1. CASE i < k
    <3>1. i \in 1..n /\ i = Up(i)
      BY <1>1, <1>2, <2>1
    <3> QED
      BY <3>1
  <2>2. CASE ~(i < k)
    <3>1. i - 1 \in 1..n /\ i = Up(i - 1)
      BY <1>1, <1>2, <1>4, <2>2
    <3> QED
      BY <3>1
  <2> QED
    BY <2>1, <2>2
<1>5. ASSUME NEW i \in 1..n, NEW j \in 1..n, j <= i PROVE Up(j) <= Up(i)
  BY <1>1, <1>2, <1>5
<1>6. v[k] = y
  <2>1. v[k] = IF k < k THEN w[k] ELSE IF k = k THEN y ELSE w[k - 1]
    BY <1>2
  <2>2. ~(k < k)
    BY <1>2
  <2> QED
    BY <2>1, <2>2, Zenon
<1>7. ASSUME NEW e, e # NoName, Declares(y, e) PROVE e = name
  <2>1. e \in UsedIn(y)
    BY <1>7, DeclaresUses
  <2> QED
    BY <2>1
<1>8. ASSUME NEW i \in 1..n PROVE ~Declares(w[i], name)
  BY <1>1, Zenon DEF SomeDeclares
<1> HIDE DEF Up
<1>9. ASSUME NEW i \in 1..(n + 1), NEW e \in UsedIn(v[i])
      PROVE  Declared1(v, i, e)
  <2>0. e # NoName
    BY <1>9 DEF UsedIn
  <2>1. CASE i = k
    <3>1. e = name
      BY <1>6, <1>9, <2>1
    <3>2. ASSUME NEW f \in 1..(n + 1), Declares(v[f], name) PROVE f = k
      <4> SUFFICES ASSUME f # k PROVE FALSE
        OBVIOUS
      <4>1. PICK j \in 1..n : f = Up(j)
        BY <1>4
      <4>2. v[f] = w[j]
        BY <1>3, <4>1, Zenon
      <4> QED
        BY <1>8, <3>2, <4>1, <4>2, Zenon
    <3>3. k \in 1..i /\ Declares(v[k], name)
      BY <1>2, <1>6, <2>1
    <3> QED
      BY <1>2, <2>1, <3>1, <3>2, <3>3, Zenon DEF Declared1
  <2>2. CASE i # k
    <3>1. PICK a \in 1..n : i = Up(a)
      BY <1>4, <2>2
    <3>2. v[i] = w[a]
      BY <1>3, <3>1, Zenon
    <3>3. Declared1(w, a, e)
      BY <1>1, <1>9, <3>1, <3>2, Zenon DEF DeclaredFirst
    <3>4. PICK b \in 1..a :
             /\ Declares(w[b], e)
             /\ \A f \in 1..Len(w) : Declares(w[f], e) => f = b
      BY <3>3, Zenon DEF Declared1
    <3>5. b \in 1..n /\ b <= a
      BY <1>1, <3>1, <3>4
    <3>6. e # name
      BY <1>8, <3>4, <3>5, Zenon
    <3>7. PICK j : j = Up(b)
      OBVIOUS
    <3>8. j \in 1..(n + 1) /\ v[j] = w[b]
      BY <1>3, <3>5, <3>7, Zenon
    <3>9. j <= i
      BY <1>5, <3>1, <3>5, <3>7, Zenon
    <3>10. j \in 1..i
      BY <3>8, <3>9
    <3>11. ASSUME NEW f \in 1..(n + 1), Declares(v[f], e) PROVE f = j
      <4>1. f # k
        BY <1>6, <1>7, <2>0, <3>6, <3>11, Zenon
      <4>2. PICK g \in 1..n : f = Up(g)
        BY <1>4, <4>1
      <4>3. v[f] = w[g]
        BY <1>3, <4>2, Zenon
      <4>4. g = b
        BY <1>1, <3>4, <3>11, <4>2, <4>3, Zenon
      <4> QED
        BY <3>7, <4>2, <4>4, Zenon
    <3> QED
      BY <1>2, <3>4, <3>8, <3>10, <3>11, Zenon DEF Declared1
  <2> QED
    BY <2>1, <2>2
<1> QED
  BY <1>2, <1>9, Zenon DEF DeclaredFirst

(* Names stay known when an item is inserted or replaced.                  *)
LEMMA InsertKnown ==
    ASSUME NEW X, NEW w \in Seq(X), NEW v, NEW k, NEW y, Inserted(w, v, k, y),
           NEW objs, NEW strs, AllKnown(w, objs, strs), Known(y, objs, strs)
    PROVE  AllKnown(v, objs, strs)
<1>1. PICK n \in Nat : n = Len(w)
  OBVIOUS
<1>2. /\ k \in 1..(n + 1) /\ Len(v) = n + 1
      /\ \A i \in 1..Len(v) :
            v[i] = IF i < k THEN w[i] ELSE IF i = k THEN y ELSE w[i - 1]
  BY <1>1, Zenon DEF Inserted
<1>3. ASSUME NEW i \in 1..Len(v) PROVE Known(v[i], objs, strs)
  <2>1. v[i] = IF i < k THEN w[i] ELSE IF i = k THEN y ELSE w[i - 1]
    BY <1>2
  <2>2. CASE i < k
    <3>1. i \in 1..n
      BY <1>1, <1>2, <2>2
    <3> QED
      BY <1>1, <2>1, <2>2, <3>1, Zenon DEF AllKnown
  <2>3. CASE i = k
    <3>1. ~(i < k)
      BY <1>2, <2>3
    <3> QED
      BY <2>1, <2>3, <3>1, Zenon
  <2>4. CASE ~(i < k) /\ i # k
    <3>1. i - 1 \in 1..n
      BY <1>1, <1>2, <2>4
    <3> QED
      BY <1>1, <2>1, <2>4, <3>1, Zenon DEF AllKnown
  <2> QED
    BY <2>2, <2>3, <2>4
<1> QED
  BY <1>3, Zenon DEF AllKnown

(* Replacing an item by a known one keeps names known.                     *)
LEMMA ReplaceKnown ==
    ASSUME NEW w, NEW v, NEW k, NEW x, Replaced(w, v, k, x),
           NEW objs, NEW strs, AllKnown(w, objs, strs), Known(x, objs, strs)
    PROVE  AllKnown(v, objs, strs)
BY Zenon DEF AllKnown, Replaced

(* What is declared stays declared when more is inserted and appended.     *)
LEMMA DeclaresInserted ==
    ASSUME NEW X, NEW l \in Seq(X), NEW m \in Seq(X), NEW k, NEW y,
           Inserted(l, m, k, y), NEW name
    PROVE  /\ SomeDeclares(l, name) => SomeDeclares(m, name)
           /\ Declares(y, name) => SomeDeclares(m, name)
<1>1. PICK n \in Nat : n = Len(l)
  OBVIOUS
<1>2. /\ k \in 1..(n + 1) /\ Len(m) = n + 1
      /\ \A i \in 1..Len(m) :
            m[i] = IF i < k THEN l[i] ELSE IF i = k THEN y ELSE l[i - 1]
  BY <1>1, Zenon DEF Inserted
<1>3. ASSUME NEW i \in 1..n, Declares(l[i], name) PROVE SomeDeclares(m, name)
  <2>1. CASE i < k
    <3>1. i \in 1..Len(m)
      BY <1>1, <1>2
    <3>2. m[i] = IF i < k THEN l[i] ELSE IF i = k THEN y ELSE l[i - 1]
      BY <1>2, <3>1
    <3> QED
      BY <1>3, <2>1, <3>1, <3>2, Zenon DEF SomeDeclares
  <2>2. CASE ~(i < k)
    <3>1. PICK j \in 1..Len(m) : j = i + 1 /\ ~(j < k) /\ j # k /\ j - 1 = i
      BY <1>1, <1>2, <2>2
    <3>2. m[j] = IF j < k THEN l[j] ELSE IF j = k THEN y ELSE l[j - 1]
      BY <1>2, <3>1
    <3>3. m[j] = l[i]
      BY <3>1, <3>2, Zenon
    <3> QED
      BY <1>3, <3>1, <3>3, Zenon DEF SomeDeclares
  <2> QED
    BY <2>1, <2>2
<1>4. ASSUME Declares(y, name) PROVE SomeDeclares(m, name)
  <2>1. k \in 1..Len(m) /\ ~(k < k)
    BY <1>2
  <2>2. m[k] = IF k < k THEN l[k] ELSE IF k = k THEN y ELSE l[k - 1]
    BY <1>2, <2>1
  <2>3. m[k] = y
    BY <2>1, <2>2, Zenon
  <2> QED
    BY <1>4, <2>1, <2>3, Zenon DEF SomeDeclares
<1> QED
  BY <1>1, <1>3, <1>4, Zenon DEF SomeDeclares

(* A declaration stays when an item is appended.                           *)
LEMMA DeclaresAppended ==
    ASSUME NEW X, NEW l \in Seq(X), NEW x \in X, NEW name,
           SomeDeclares(l, name)
    PROVE  SomeDeclares(Append(l, x), name)
<1>1. PICK i \in 1..Len(l) : Declares(l[i], name)
  BY Zenon DEF SomeDeclares
<1>2. PICK a : a = Append(l, x)
  OBVIOUS
<1>3. Len(a) = Len(l) + 1 /\ \A p \in 1..Len(l) : a[p] = l[p]
  BY <1>2, AppendIs
<1>4. i \in 1..Len(a) /\ a[i] = l[i]
  BY <1>1, <1>3
<1> QED
  BY <1>1, <1>2, <1>4, Zenon DEF SomeDeclares

(* What the first part declares, the whole declares before its rest.       *)
LEMMA DeclaresJoined ==
    ASSUME NEW X, NEW l \in Seq(X), NEW w \in Seq(X), NEW name,
           SomeDeclares(l, name)
    PROVE  \E j \in 1..Len(l \o w) :
              j <= Len(l) /\ Declares((l \o w)[j], name)
<1>1. PICK i \in 1..Len(l) : Declares(l[i], name)
  BY Zenon DEF SomeDeclares
<1>2. PICK u : u = l \o w
  OBVIOUS
<1>3. Len(u) = Len(l) + Len(w) /\ \A p \in 1..Len(l) : u[p] = l[p]
  BY <1>2, ConcatIs
<1>4. i \in 1..Len(u) /\ i <= Len(l) /\ u[i] = l[i]
  BY <1>1, <1>3
<1> QED
  BY <1>1, <1>2, <1>4, Zenon

-----------------------------------------------------------------------------
(* The current item goes to the first part with the variables it uses.     *)
LEMMA UseStep ==
    ASSUME NEW X, NEW m \in Seq(X), NEW w \in Seq(X), w # <<>>, NEW x \in X,
           NEW objs, NEW strs, DeclaredFirst(m \o w),
           AllKnown(m \o w, objs, strs), Known(x, objs, strs),
           \A name : Declares(x, name) <=> Declares(Head(w), name),
           \A name \in UsedIn(x) :
              name \in UsedIn(Head(w)) \/ SomeDeclares(m, name)
    PROVE  /\ DeclaredFirst(Append(m, x) \o Tail(w))
           /\ AllKnown(Append(m, x) \o Tail(w), objs, strs)
<1>1. PICK u, v, k : /\ u = m \o w /\ v = Append(m, x) \o Tail(w)
                     /\ k = Len(m) + 1
  OBVIOUS
<1>2. Replaced(u, v, k, x) /\ u[k] = Head(w) /\ u \in Seq(X)
  BY <1>1, TakenIs
<1>3. \A name : Declares(x, name) <=> Declares(u[k], name)
  BY <1>2, Zenon
<1>4. ASSUME NEW name \in UsedIn(x), name \notin UsedIn(u[k])
      PROVE  \E j \in 1..Len(u) : j <= k /\ Declares(u[j], name)
  <2>1. SomeDeclares(m, name)
    BY <1>2, <1>4, Zenon
  <2>2. PICK j \in 1..Len(u) : j <= Len(m) /\ Declares(u[j], name)
    BY <1>1, <2>1, DeclaresJoined
  <2>3. j <= k
    <3>1. Len(m) \in Nat /\ j \in Int
      OBVIOUS
    <3> QED
      BY <1>1, <2>2, <3>1
  <2> QED
    BY <2>2, <2>3
<1>5. \A name \in UsedIn(x) :
              \/ name \in UsedIn(u[k])
              \/ \E j \in 1..Len(u) : j <= k /\ Declares(u[j], name)
  BY <1>4, Zenon
<1>6. DeclaredFirst(v)
  <2>1. DeclaredFirst(u)
    BY <1>1, Zenon
  <2> QED
    BY <1>2, <1>3, <1>5, <2>1, ReplaceUse, Zenon
<1>7. AllKnown(v, objs, strs)
  <2>1. AllKnown(u, objs, strs)
    BY <1>1, Zenon
  <2> QED
    BY <1>2, <2>1, ReplaceKnown, Zenon
<1> QED
  BY <1>1, <1>6, <1>7, Zenon

(* A declaration of a new name goes to the first part.                     *)
LEMMA DeclareStep ==
    ASSUME NEW X, NEW l \in Seq(X), NEW m \in Seq(X), NEW w \in Seq(X),
           NEW k \in Nat, NEW y, Inserted(l, m, k, y),
           NEW objs, NEW strs, DeclaredFirst(l \o w),
           AllKnown(l \o w, objs, strs), Known(y, objs, strs),
           NEW name, name # NoName, UsedIn(y) = {name},
           Declares(y, name), ~SomeDeclares(l \o w, name)
    PROVE  /\ DeclaredFirst(m \o w) /\ AllKnown(m \o w, objs, strs)
           /\ SomeDeclares(m, name)
           /\ \A other : SomeDeclares(l, other) => SomeDeclares(m, other)
<1>1. PICK u, v : u = l \o w /\ v = m \o w
  OBVIOUS
<1>2. Inserted(u, v, k, y)
  BY <1>1, InsertedJoin
<1>3. u \in Seq(X) /\ DeclaredFirst(u) /\ AllKnown(u, objs, strs)
      /\ ~SomeDeclares(u, name)
  BY <1>1, ConcatIs
<1>4. DeclaredFirst(v)
  BY <1>2, <1>3, InsertDeclaration
<1>5. AllKnown(v, objs, strs)
  BY <1>2, <1>3, InsertKnown
<1>6. SomeDeclares(m, name)
  BY DeclaresInserted
<1>7. ASSUME NEW other, SomeDeclares(l, other) PROVE SomeDeclares(m, other)
  BY <1>7, DeclaresInserted
<1> QED
  BY <1>1, <1>4, <1>5, <1>6, <1>7, Zenon

(* Names stay known when objects or strings get new ones.                  *)
LEMMA KnownMore ==
    ASSUME NEW s, NEW objs, NEW strs, NEW objs2, NEW strs2,
           AllKnown(s, objs, strs),
           \A name \in Range(objs) : name # NoName => name \in Range(objs2),
           \A m \in 1..Len(strs) : m \in 1..Len(strs2)
    PROVE  AllKnown(s, objs2, strs2)
BY Zenon DEF AllKnown, Known

(* An item that is neither declares nothing.                               *)
LEMMA NoDeclaration ==
    ASSUME NEW x, NEW y, x.method = y.method,
           y.method # "object", y.method # "string"
    PROVE  \A name : Declares(x, name) <=> Declares(y, name)
BY DEF Declares

(* A turn of ObjectVariables.                                              *)
LEMMA VariablesObjects ==
    ASSUME TypeInv, NEW p, p = "ObjectVariables", NEW item, NEW list, NEW d,
           Turned(p, item, list, d), ObjectNamesOK(LogTargets, objects),
           Variables(p, inserter.list, in, objects, strings)
    PROVE  /\ ObjectNamesOK(LogTargets, objects')
           /\ Variables(p, inserter'.list, in', objects', strings')
<1>1. PICK T, X, l, w : /\ T = LogTargets /\ X = NoArgIn(T)
                        /\ l = inserter.list /\ w = in
  OBVIOUS
<1>2. /\ T \in SUBSET Targets /\ w # <<>>
      /\ item = Head(w) /\ list = Tail(w)
      /\ objects \in [Targets -> Names]
      /\ InserterOK(Item, inserter)
      /\ Stage(p, T, l, w, objects, strings)
  BY <1>1, BeforeTurn
<1>3. l \in Seq(X) /\ w \in Seq(BareIn(T)) /\ w \in Seq(X)
  <2>1. l \in Seq(X) /\ w \in Seq(BareIn(T))
    BY <1>1, <1>2 DEF Stage
  <2> QED
    BY <1>1, <2>1, ItemSets, SeqIn
<1>4. /\ item \in BareIn(T) /\ item \in X
  BY <1>1, <1>2, <1>3, TailIs
<1>4a. /\ item.method # "object" /\ item.method # "string"
       /\ UsedIn(item) = {}
  BY <1>4 DEF BareIn, NoArgIn, UsedIn
<1>5. d = ObjectVariables(item, list)
  <2>1. d = Process(p, item, list)
    BY Zenon DEF Turned
  <2> QED
    BY <2>1, ProcessIs
<1>6. InserterOK(X, inserter)
  BY <1>1, <1>2, <1>3, InserterIn
<1>7. /\ in' = d.in /\ inserter' = After(inserter, d)
      /\ objects' = ObjectsAfter(item) /\ strings' = strings
  <2>1. p # "StringVariables"
    OBVIOUS
  <2> QED
    BY <2>1, Zenon DEF Turned
<1>8. \A x \in X : IsValid(x)
  BY <1>1, ItemSets
<1>9. /\ DeclaredFirst(l \o w) /\ AllKnown(l \o w, objects, strings)
      /\ \A t \in Targets :
            objects[t] # NoName => SomeDeclares(l, objects[t])
  BY <1>1, Zenon DEF Variables
<1>10. ASSUME NEW m, NEW x \in X, NEW objs, m \in Seq(X),
              inserter'.list = Append(m, x), in' = list, objects' = objs,
              DeclaredFirst(m \o w), AllKnown(m \o w, objs, strings),
              Known(x, objs, strings), x.method = item.method,
              \A name \in UsedIn(x) : SomeDeclares(m, name),
              \A t \in Targets : objs[t] # NoName => SomeDeclares(m, objs[t])
       PROVE  Variables(p, inserter'.list, in', objects', strings')
  <2>1. \A name : Declares(x, name) <=> Declares(Head(w), name)
    BY <1>2, <1>4a, <1>10, NoDeclaration
  <2>2. /\ DeclaredFirst(Append(m, x) \o Tail(w))
        /\ AllKnown(Append(m, x) \o Tail(w), objs, strings)
    BY <1>2, <1>3, <1>10, <2>1, UseStep
  <2>3. ASSUME NEW t \in Targets, objs[t] # NoName
        PROVE  SomeDeclares(Append(m, x), objs[t])
    BY <1>10, <2>3, DeclaresAppended
  <2>4. p # "StringVariables"
    OBVIOUS
  <2> QED
    BY <1>2, <1>7, <1>10, <2>2, <2>3, <2>4, Zenon DEF Variables
<1>11. ASSUME NEW x \in X, d = Processed(x, list, <<>>, <<>>, FALSE)
       PROVE  in' = list /\ inserter'.list = Append(l, x)
  <2>1. /\ d.item = x /\ d.in = list /\ d.before = <<>> /\ d.first = <<>>
    BY <1>11 DEF Processed
  <2>2. After(inserter, d).list = Extended(inserter.list, d.item)
    BY <1>6, <2>1, AfterNone
  <2> QED
    BY <1>1, <1>7, <1>8, <2>1, <2>2, Zenon DEF Extended
<1>12. CASE ObjectsAfter(item) = objects /\ Keeps(d, item, list)
  <2>1. in' = list /\ inserter'.list = Append(l, item) /\ objects' = objects
    BY <1>4, <1>7, <1>11, <1>12, Zenon DEF Keeps
  <2>2. Known(item, objects, strings)
    BY <1>4a DEF Known, UsedIn
  <2>3. Variables(p, inserter'.list, in', objects', strings')
    BY <1>3, <1>4, <1>4a, <1>9, <1>10, <2>1, <2>2, Zenon
  <2> QED
    BY <1>1, <2>1, <2>3, Zenon
<1>13. CASE /\ item.target \in T /\ ObjectsAfter(item) = objects
            /\ objects[item.target] # NoName
            /\ Uses(d, item, list, X, objects[item.target])
  <2>0. PICK name : name = objects[item.target]
    OBVIOUS
  <2>1. PICK x \in X :
           /\ name = objects[item.target]
           /\ x.method = item.method /\ x.var = name /\ x.arg = NoName
           /\ d = Processed(x, list, <<>>, <<>>, FALSE)
    BY <1>13, <2>0, Zenon DEF Uses, Becomes
  <2>2. in' = list /\ inserter'.list = Append(l, x) /\ objects' = objects
    BY <1>7, <1>11, <1>13, <2>1, Zenon
  <2>3. name \in Range(objects) /\ item.target \in Targets
    BY <1>2, <1>13, <2>1 DEF Range
  <2>4. Known(x, objects, strings)
    BY <2>1, <2>3 DEF Known
  <2>5. ASSUME NEW e \in UsedIn(x) PROVE SomeDeclares(l, e)
    <3>1. e = name
      BY <2>1, <2>5 DEF UsedIn
    <3> QED
      BY <1>9, <1>13, <2>1, <2>3, <3>1, Zenon
  <2>6. Variables(p, inserter'.list, in', objects', strings')
    BY <1>3, <1>9, <1>10, <2>1, <2>2, <2>4, <2>5, Zenon
  <2> QED
    BY <1>1, <2>2, <2>6, Zenon
<1>14. CASE /\ item.target \in T /\ objects[item.target] = NoName
            /\ ObjectsAfter(item) =
                    [objects EXCEPT ![item.target] = NameFor(item.target)]
            /\ DeclaresAndUses(d, item, list, X, NameFor(item.target))
  <2>1. PICK t, name, objs :
           /\ t = item.target /\ name = NameFor(t) /\ objs = objects'
    OBVIOUS
  <2>2. t \in T /\ t \in Targets /\ objects[t] = NoName
    BY <1>2, <1>14, <2>1
  <2>3. /\ name \in Names /\ name \notin Range(objects)
        /\ name.parts # <<>>
        /\ \A i \in DOMAIN StringNames : name = SName(i) =>
              Last(Keywords[t]) = StringNames[i]
    BY <1>2, <2>1, <2>2, NameForIs
  <2>3a. name # NoName
    BY <2>3, NameFields DEF NoName
  <2>4. objs = [objects EXCEPT ![t] = name]
    BY <1>7, <1>14, <2>1, Zenon
  <2>5. objs[t] = name /\ \A u \in Targets : u # t => objs[u] = objects[u]
    BY <1>2, <2>2, <2>4
  <2>5a. DOMAIN objs = Targets /\ DOMAIN objects = Targets
    BY <1>2, <2>4
  <2>6. PICK x \in X, y \in X :
           /\ x.method = item.method /\ x.var = name /\ x.arg = NoName
           /\ y.method = "object" /\ y.var = name /\ y.arg = NoName
           /\ d = Processed(x, list, <<y>>, <<>>, FALSE)
    BY <1>14, <2>1, Zenon DEF DeclaresAndUses, Becomes, Declaration
  <2>7. /\ d.item = x /\ d.in = list /\ d.before = <<y>> /\ d.first = <<>>
    BY <2>6 DEF Processed
  <2>8. PICK m \in Seq(X), k \in Nat :
                 /\ Inserted(inserter.list, m, k, y)
                 /\ After(inserter, d).list = Extended(m, d.item)
    <3>1. y \in X /\ d.item \in X /\ d.before = <<y>> /\ d.first = <<>>
      BY <2>7, Zenon
    <3> QED
      BY <1>6, <3>1, AfterOne
  <2>9. in' = list /\ inserter'.list = Append(m, x)
    BY <1>7, <1>8, <2>7, <2>8, Zenon DEF Extended
  <2>10. /\ name \in Range(objs)
         /\ \A e \in Range(objects) : e # NoName => e \in Range(objs)
    <3>1. name \in Range(objs)
      BY <2>2, <2>5, <2>5a DEF Range
    <3>2. ASSUME NEW e \in Range(objects), e # NoName
          PROVE  e \in Range(objs)
      <4>1. PICK u \in Targets : e = objects[u]
        BY <2>5a DEF Range
      <4>2. u # t
        BY <2>2, <3>2, <4>1
      <4>3. e = objs[u]
        BY <2>5, <4>1, <4>2
      <4> QED
        BY <2>5a, <4>1, <4>3 DEF Range
    <3> QED
      BY <3>1, <3>2
  <2>11. AllKnown(l \o w, objs, strings)
    BY <1>9, <2>10, KnownMore, Zenon
  <2>12. Known(x, objs, strings) /\ Known(y, objs, strings)
    BY <2>6, <2>10 DEF Known
  <2>13. UsedIn(x) = {name} /\ UsedIn(y) = {name} /\ Declares(y, name)
    BY <2>3a, <2>6 DEF UsedIn, Declares
  <2>14. ~SomeDeclares(l \o w, name)
    <3>1. PICK u : u = l \o w
      OBVIOUS
    <3>2. u \in Seq(X) /\ AllKnown(u, objects, strings)
      BY <1>3, <1>9, <3>1, ConcatIs
    <3>3. ASSUME NEW j \in 1..Len(u), Declares(u[j], name) PROVE FALSE
      <4>1. PICK z : z = u[j]
        OBVIOUS
      <4>2. z \in X
        BY <3>2, <4>1
      <4>3. z.method # "string"
        BY <1>1, <4>2 DEF NoArgIn
      <4>4. z.var = name
        BY <3>3, <4>1, <4>3 DEF Declares
      <4>5. Known(z, objects, strings)
        BY <3>2, <4>1, Zenon DEF AllKnown
      <4> QED
        BY <2>3, <2>3a, <4>4, <4>5 DEF Known
    <3> QED
      BY <3>1, <3>3, Zenon DEF SomeDeclares
  <2>15. Inserted(l, m, k, y)
    BY <1>1, <2>8, Zenon
  <2>16. /\ DeclaredFirst(m \o w) /\ AllKnown(m \o w, objs, strings)
         /\ SomeDeclares(m, name)
         /\ \A other : SomeDeclares(l, other) => SomeDeclares(m, other)
    BY <1>3, <1>9, <2>3a, <2>8, <2>11, <2>12, <2>13, <2>14, <2>15,
       DeclareStep
  <2>17. \A e \in UsedIn(x) : SomeDeclares(m, e)
    BY <2>13, <2>16
  <2>18. ASSUME NEW u \in Targets, objs[u] # NoName
         PROVE  SomeDeclares(m, objs[u])
    <3>1. CASE u = t
      BY <2>5, <2>16, <3>1
    <3>2. CASE u # t
      BY <1>9, <2>5, <2>16, <2>18, <3>2
    <3> QED
      BY <3>1, <3>2
  <2>19. Variables(p, inserter'.list, in', objects', strings')
    BY <1>10, <2>1, <2>6, <2>8, <2>9, <2>12, <2>16, <2>17, <2>18, Zenon
  <2>20. ObjectNamesOK(T, objs)
    <3>1. ObjectNamesOK(T, objects)
      BY <1>1
    <3>2. ASSUME NEW u \in Targets, objs[u] # NoName
          PROVE  /\ u \in T /\ objs[u].parts # <<>>
                 /\ \A i \in DOMAIN StringNames : objs[u] = SName(i) =>
                      Last(Keywords[u]) = StringNames[i]
      <4>1. CASE u = t
        BY <2>2, <2>3, <2>5, <4>1, Zenon
      <4>2. CASE u # t
        <5>1. objs[u] = objects[u]
          BY <2>5, <4>2
        <5> QED
          BY <3>1, <3>2, <5>1, Zenon DEF ObjectNamesOK
      <4> QED
        BY <4>1, <4>2
    <3>3. ASSUME NEW u \in Targets, NEW v \in Targets, objs[u] = objs[v],
                 u # v
          PROVE  objs[u] = NoName
      <4>1. ASSUME NEW z \in Targets, z # t PROVE objs[z] # name
        <5>1. objs[z] \in Range(objects)
          BY <2>5, <2>5a, <4>1 DEF Range
        <5> QED
          BY <2>3, <5>1
      <4>2. u # t /\ v # t
        BY <2>5, <3>3, <4>1
      <4>3. objects[u] = objects[v] /\ objs[u] = objects[u]
        BY <2>5, <3>3, <4>2
      <4> QED
        BY <3>1, <3>3, <4>3 DEF ObjectNamesOK
    <3> QED
      BY <3>2, <3>3, Zenon DEF ObjectNamesOK
  <2> QED
    BY <1>1, <2>1, <2>19, <2>20, Zenon
<1>15. \/ ObjectsAfter(item) = objects /\ Keeps(d, item, list)
       \/ /\ item.target \in T /\ ObjectsAfter(item) = objects
          /\ objects[item.target] # NoName
          /\ Uses(d, item, list, X, objects[item.target])
       \/ /\ item.target \in T /\ objects[item.target] = NoName
          /\ ObjectsAfter(item) =
                [objects EXCEPT ![item.target] = NameFor(item.target)]
          /\ DeclaresAndUses(d, item, list, X, NameFor(item.target))
  BY <1>1, <1>2, <1>4, <1>5, ObjectIs, Zenon
<1> QED
  BY <1>12, <1>13, <1>14, <1>15

-----------------------------------------------------------------------------
(* While a string is sent, there is a name left for it.                    *)
LEMMA StringRoom ==
    ASSUME TypeInv, NEW p, p = "StringVariables", NEW item, NEW list, NEW d,
           Turned(p, item, list, d)
    PROVE  /\ item.method = "sendText" => Len(strings) < Len(StringNames)
           /\ Len(strings) <= Len(StringNames)
<1>1. /\ in # <<>> /\ item = Head(in) /\ list = Tail(in)
      /\ strings \in Seq(Seq(Nat))
      /\ Len(log) \in Nat /\ Len(log) <= Len(StringNames)
      /\ Stage(p, LogTargets, inserter.list, in, objects, strings)
      /\ Counted(p, inserter.list, in, strings, Len(log))
  BY BeforeTurn
<1>2. in \in Seq(NoArgIn(LogTargets))
  BY <1>1 DEF Stage
<1>3. list \in Seq(NoArgIn(LogTargets))
  BY <1>1, <1>2, TailIs
<1>4. Count(list) \in Nat /\ One(item) \in Nat
  BY <1>3, CountType, OneType
<1>5. Count(in) = One(item) + Count(list)
  BY <1>1, <1>2, CountHead
<1>6. Len(strings) + Count(in) <= Len(log)
  BY <1>1 DEF Counted
<1>7. Len(strings) \in Nat /\ Len(StringNames) \in Nat
  BY <1>1, ConverterAssumption
<1>8. item.method = "sendText" => One(item) = 1
  BY DEF One, IsTyping
<1> QED
  BY <1>1, <1>4, <1>5, <1>6, <1>7, <1>8

(* Without a clash no object has the name of a string.                     *)
LEMMA NoClash ==
    ASSUME NEW objs, DOMAIN objs = Targets, ObjectNamesOK(LogTargets, objs),
           ~Clash, NEW i \in 1..Len(StringNames), log \in Seq(Events)
    PROVE  SName(i) \notin Range(objs)
<1> SUFFICES ASSUME SName(i) \in Range(objs) PROVE FALSE
  OBVIOUS
<1>1. PICK t \in Targets : objs[t] = SName(i)
  BY DEF Range
<1>2. objs[t] # NoName
  BY <1>1, StringNameType
<1>3. i \in DOMAIN StringNames
  BY ConverterAssumption
<1>4. t \in LogTargets /\ Last(Keywords[t]) = StringNames[i]
  BY <1>1, <1>2, <1>3, Zenon DEF ObjectNamesOK
<1>5. PICK j \in 1..Len(log) : t = log[j].target
  BY <1>4 DEF LogTargets
<1>6. log[j] \in Range(log)
  BY DEF Range
<1> QED
  BY <1>3, <1>4, <1>5, <1>6 DEF Clash

(* The item at the head of the rest is known.                              *)
LEMMA HeadKnown ==
    ASSUME NEW X, NEW l \in Seq(X), NEW w \in Seq(X), w # <<>>, NEW objs,
           NEW strs, AllKnown(l \o w, objs, strs)
    PROVE  Known(Head(w), objs, strs)
<1>1. PICK u, k : u = l \o w /\ k = Len(l) + 1
  OBVIOUS
<1>2. Head(w) \in X
  OBVIOUS
<1>3. Replaced(u, Append(l, Head(w)) \o Tail(w), k, Head(w))
      /\ u[k] = Head(w)
  BY <1>1, <1>2, TakenIs
<1>4. k \in 1..Len(u)
  BY <1>3 DEF Replaced
<1> QED
  BY <1>1, <1>3, <1>4, Zenon DEF AllKnown

(* A turn of StringVariables.                                              *)
LEMMA VariablesStrings ==
    ASSUME TypeInv, ~Clash, NEW p, p = "StringVariables", NEW item, NEW list,
           NEW d, Turned(p, item, list, d),
           ObjectNamesOK(LogTargets, objects),
           Variables(p, inserter.list, in, objects, strings)
    PROVE  /\ objects' = objects
           /\ Variables(p, inserter'.list, in', objects', strings')
<1>1. PICK T, X, l, w : /\ T = LogTargets /\ X = ItemIn(T)
                        /\ l = inserter.list /\ w = in
  OBVIOUS
<1>2. /\ T \in SUBSET Targets /\ w # <<>>
      /\ item = Head(w) /\ list = Tail(w)
      /\ objects \in [Targets -> Names] /\ strings \in Seq(Seq(Nat))
      /\ InserterOK(Item, inserter)
      /\ Stage(p, T, l, w, objects, strings)
  BY <1>1, BeforeTurn
<1>3. l \in Seq(X) /\ w \in Seq(NoArgIn(T)) /\ w \in Seq(X)
  <2>1. l \in Seq(X) /\ w \in Seq(NoArgIn(T))
    BY <1>1, <1>2 DEF Stage
  <2> QED
    BY <1>1, <2>1, ItemSets, SeqIn
<1>4. item \in NoArgIn(T) /\ item \in X /\ item.arg = NoName
  <2>1. item \in NoArgIn(T) /\ item \in X
    BY <1>1, <1>2, <1>3, TailIs
  <2> QED
    BY <2>1 DEF NoArgIn
<1>5. d = StringVariables(item, list)
  <2>1. d = Process(p, item, list)
    BY Zenon DEF Turned
  <2> QED
    BY <2>1, ProcessIs
<1>6. InserterOK(X, inserter)
  BY <1>1, <1>2, <1>3, InserterIn
<1>7. /\ in' = d.in /\ inserter' = After(inserter, d)
      /\ objects' = objects /\ strings' = StringsAfter(item)
  <2>1. p # "ObjectVariables"
    OBVIOUS
  <2> QED
    BY <2>1, Zenon DEF Turned
<1>8. \A x \in X : IsValid(x)
  BY <1>1, ItemSets
<1>9. /\ DeclaredFirst(l \o w) /\ AllKnown(l \o w, objects, strings)
      /\ \A m \in 1..Len(strings) : SomeDeclares(l, SName(m))
  BY <1>1, Zenon DEF Variables
<1>10. Known(item, objects, strings)
  BY <1>2, <1>3, <1>9, HeadKnown
<1>11. ASSUME NEW m, NEW x \in X, NEW strs, m \in Seq(X),
              inserter'.list = Append(m, x), in' = list, strings' = strs,
              DeclaredFirst(m \o w), AllKnown(m \o w, objects, strs),
              Known(x, objects, strs),
              \A name : Declares(x, name) <=> Declares(item, name),
              \A name \in UsedIn(x) :
                 name \in UsedIn(item) \/ SomeDeclares(m, name),
              \A i \in 1..Len(strs) : SomeDeclares(m, SName(i))
       PROVE  Variables(p, inserter'.list, in', objects', strings')
  <2>1. /\ DeclaredFirst(Append(m, x) \o Tail(w))
        /\ AllKnown(Append(m, x) \o Tail(w), objects, strs)
    BY <1>2, <1>3, <1>11, UseStep
  <2>2. ASSUME NEW i \in 1..Len(strs)
        PROVE  SomeDeclares(Append(m, x), SName(i))
    <3>1. SomeDeclares(m, SName(i))
      BY <1>11
    <3> QED
      BY <1>11, <3>1, DeclaresAppended
  <2>3. p # "ObjectVariables"
    OBVIOUS
  <2> QED
    BY <1>2, <1>7, <1>11, <2>1, <2>2, <2>3, Zenon DEF Variables
<1>12. ASSUME NEW x \in X, d = Processed(x, list, <<>>, <<>>, FALSE)
       PROVE  in' = list /\ inserter'.list = Append(l, x)
  <2>1. /\ d.item = x /\ d.in = list /\ d.before = <<>> /\ d.first = <<>>
    BY <1>12 DEF Processed
  <2>2. After(inserter, d).list = Extended(inserter.list, d.item)
    BY <1>6, <2>1, AfterNone
  <2> QED
    BY <1>1, <1>7, <1>8, <2>1, <2>2, Zenon DEF Extended
<1>13. ASSUME NEW x, NEW name, name # NoName, item.method = "sendText",
              Becomes(x, item, item.var, name)
       PROVE  /\ \A e : Declares(x, e) <=> Declares(item, e)
              /\ \A e \in UsedIn(x) : e \in UsedIn(item) \/ e = name
  <2>1. \A e : Declares(x, e) <=> Declares(item, e)
    BY <1>13, NoDeclaration DEF Becomes
  <2>2. \A e \in UsedIn(x) : e \in UsedIn(item) \/ e = name
    BY <1>13 DEF Becomes, UsedIn
  <2> QED
    BY <2>1, <2>2
<1>14. CASE StringsAfter(item) = strings /\ Keeps(d, item, list)
  <2>1. in' = list /\ inserter'.list = Append(l, item) /\ strings' = strings
    BY <1>4, <1>7, <1>12, <1>14, Zenon DEF Keeps
  <2>2. Variables(p, inserter'.list, in', objects', strings')
    BY <1>3, <1>4, <1>9, <1>10, <1>11, <2>1, Zenon
  <2> QED
    BY <1>7, <2>2
<1>15. CASE /\ item.method = "sendText" /\ StringsAfter(item) = strings
            /\ \E m \in 1..Len(strings) : Sent(d, item, list, X, m)
  <2>1. PICK m \in 1..Len(strings), x \in X :
           /\ Becomes(x, item, item.var, SName(m))
           /\ d = Processed(x, list, <<>>, <<>>, FALSE)
    BY <1>15, Zenon DEF Sent
  <2>2. in' = list /\ inserter'.list = Append(l, x) /\ strings' = strings
    BY <1>7, <1>12, <1>15, <2>1, Zenon
  <2>3. m \in 1..Len(StringNames)
    BY <1>2, StringRoom, ConverterAssumption
  <2>4. SName(m) # NoName
    BY <2>3, StringNameType
  <2>5. /\ \A e : Declares(x, e) <=> Declares(item, e)
        /\ \A e \in UsedIn(x) : e \in UsedIn(item) \/ e = SName(m)
    BY <1>13, <1>15, <2>1, <2>4, Zenon
  <2>6. Known(x, objects, strings)
    BY <1>10, <2>1, Zenon DEF Known, Becomes
  <2>7. SomeDeclares(l, SName(m))
    BY <1>9, Zenon
  <2>8. \A e \in UsedIn(x) : e \in UsedIn(item) \/ SomeDeclares(l, e)
    BY <2>5, <2>7, Zenon
  <2>9. Variables(p, inserter'.list, in', objects', strings')
    BY <1>3, <1>9, <1>11, <2>1, <2>2, <2>5, <2>6, <2>8, Zenon
  <2> QED
    BY <1>7, <2>9
<1>16. CASE /\ item.method = "sendText"
            /\ StringsAfter(item) = Append(strings, item.text)
            /\ item.text \in Seq(Nat)
            /\ DeclaresAndSends(d, item, list, X, Len(strings) + 1)
  <2>1. PICK n, name, strs :
           /\ n = Len(strings) + 1 /\ name = SName(n) /\ strs = strings'
    OBVIOUS
  <2>2. /\ Len(strs) = n /\ n \in 1..Len(StringNames)
        /\ \A i \in 1..n : i \in 1..Len(strings) \/ i = n
        /\ \A i \in 1..Len(strings) : i \in 1..n /\ i # n
                                      /\ i \in 1..Len(StringNames)
        /\ n \in 1..n
    <3>1. PICK t, S : t = item.text /\ S = Seq(Nat)
      OBVIOUS
    <3>2. strs = Append(strings, t) /\ strings \in Seq(S) /\ t \in S
      BY <1>2, <1>7, <1>16, <2>1, <3>1
    <3>3. Len(strs) = Len(strings) + 1 /\ Len(strings) \in Nat
      BY <3>2
    <3>4. Len(strings) < Len(StringNames) /\ Len(StringNames) \in Nat
      BY <1>16, StringRoom, ConverterAssumption
    <3> QED
      BY <2>1, <3>3, <3>4
  <2>3. name # NoName /\ name \notin Range(objects)
        /\ \A i \in 1..Len(strings) : name # SName(i)
    <3>1. name # NoName
      BY <2>1, <2>2, StringNameType
    <3>2. log \in Seq(Events)
      BY DEF TypeInv, LogOK
    <3>3. name \notin Range(objects)
      BY <1>2, <2>1, <2>2, <3>2, NoClash
    <3>4. ASSUME NEW i \in 1..Len(strings), name = SName(i) PROVE FALSE
      BY <2>1, <2>2, <3>4, StringNameType
    <3> QED
      BY <3>1, <3>3, <3>4
  <2>4. PICK x \in X, y \in X :
           /\ Becomes(x, item, item.var, name)
           /\ y.method = "string" /\ y.var = NoName /\ y.arg = name
           /\ d = Processed(x, list, <<>>, <<y>>, FALSE)
    BY <1>16, <2>1, Zenon DEF DeclaresAndSends, Declaration
  <2>5. /\ d.item = x /\ d.in = list /\ d.before = <<>> /\ d.first = <<y>>
    BY <2>4 DEF Processed
  <2>6. PICK m \in Seq(X), k \in Nat :
                 /\ Inserted(inserter.list, m, k, y)
                 /\ After(inserter, d).list = Extended(m, d.item)
    <3>1. y \in X /\ d.item \in X /\ d.before = <<>> /\ d.first = <<y>>
      BY <2>5, Zenon
    <3> QED
      BY <1>6, <3>1, AfterFirst
  <2>7. in' = list /\ inserter'.list = Append(m, x)
    BY <1>7, <1>8, <2>5, <2>6, Zenon DEF Extended
  <2>8. AllKnown(l \o w, objects, strs)
    BY <1>9, <2>2, KnownMore, Zenon
  <2>9. Known(y, objects, strs)
    BY <2>1, <2>2, <2>4, Zenon DEF Known
  <2>10. Known(x, objects, strs)
    <3>1. x.var # NoName => x.var \in Range(objects)
      BY <1>10, <2>4, Zenon DEF Known, Becomes
    <3>2. x.arg = SName(n)
      BY <2>1, <2>4, Zenon DEF Becomes
    <3> QED
      BY <2>2, <3>1, <3>2, Zenon DEF Known
  <2>11. UsedIn(y) = {name} /\ Declares(y, name)
    BY <2>3, <2>4 DEF UsedIn, Declares
  <2>12. ~SomeDeclares(l \o w, name)
    <3>1. PICK u : u = l \o w
      OBVIOUS
    <3>2. AllKnown(u, objects, strings)
      BY <1>9, <3>1, Zenon
    <3>3. ASSUME NEW j \in 1..Len(u), Declares(u[j], name) PROVE FALSE
      <4>1. Known(u[j], objects, strings)
        BY <3>2, Zenon DEF AllKnown
      <4>2. u[j].var = name \/ u[j].arg = name
        BY <3>3, Zenon DEF Declares
      <4> QED
        BY <2>3, <4>1, <4>2, Zenon DEF Known
    <3> QED
      BY <3>1, <3>3, Zenon DEF SomeDeclares
  <2>13. Inserted(l, m, k, y)
    BY <1>1, <2>6, Zenon
  <2>14. /\ DeclaredFirst(m \o w) /\ AllKnown(m \o w, objects, strs)
         /\ SomeDeclares(m, name)
         /\ \A other : SomeDeclares(l, other) => SomeDeclares(m, other)
    BY <1>3, <1>9, <2>3, <2>6, <2>8, <2>9, <2>11, <2>12, <2>13, DeclareStep
  <2>15. /\ \A e : Declares(x, e) <=> Declares(item, e)
         /\ \A e \in UsedIn(x) : e \in UsedIn(item) \/ SomeDeclares(m, e)
    BY <1>13, <1>16, <2>3, <2>4, <2>14, Zenon
  <2>16. ASSUME NEW i \in 1..Len(strs) PROVE SomeDeclares(m, SName(i))
    <3>1. i \in 1..Len(strings) \/ i = n
      BY <2>2, Zenon
    <3> QED
      BY <1>9, <2>1, <2>14, <3>1, Zenon
  <2>17. Variables(p, inserter'.list, in', objects', strings')
    BY <1>11, <2>1, <2>4, <2>6, <2>7, <2>10, <2>14, <2>15, <2>16, Zenon
  <2> QED
    BY <1>7, <2>17
<1>17. \/ StringsAfter(item) = strings /\ Keeps(d, item, list)
       \/ /\ item.method = "sendText" /\ StringsAfter(item) = strings
          /\ \E m \in 1..Len(strings) : Sent(d, item, list, X, m)
       \/ /\ item.method = "sendText"
          /\ StringsAfter(item) = Append(strings, item.text)
          /\ item.text \in Seq(Nat)
          /\ DeclaresAndSends(d, item, list, X, Len(strings) + 1)
  BY <1>1, <1>2, <1>4, <1>5, StringRoom, StringIs, Zenon
<1> QED
  BY <1>14, <1>15, <1>16, <1>17

-----------------------------------------------------------------------------
(* Before ObjectVariables there are no variables.                          *)
LEMMA FreshVariables ==
    ASSUME NEW T, NEW p, NEW list \in Seq(BareIn(T)),
           NEW rest \in Seq(BareIn(T)), NEW objs, NEW strs,
           objs = [t \in Targets |-> NoName], strs = <<>>
    PROVE  /\ ObjectNamesOK(T, objs) /\ DeclaredFirst(rest)
           /\ Variables(p, list, rest, objs, strs)
<1>1. \A x \in BareIn(T) : x.var = NoName /\ x.arg = NoName
  BY DEF BareIn, NoArgIn
<1>2. ASSUME NEW s \in Seq(BareIn(T))
      PROVE  DeclaredFirst(s) /\ AllKnown(s, objs, strs)
  <2>1. ASSUME NEW i \in 1..Len(s)
        PROVE  UsedIn(s[i]) = {} /\ Known(s[i], objs, strs)
    <3>1. PICK x : x = s[i]
      OBVIOUS
    <3>2. x \in BareIn(T)
      BY <3>1
    <3>3. x.var = NoName /\ x.arg = NoName
      BY <1>1, <3>2
    <3>4. UsedIn(x) = {}
      BY <3>3 DEF UsedIn
    <3>5. Known(x, objs, strs)
      BY <3>3, Zenon DEF Known
    <3> QED
      BY <3>1, <3>4, <3>5
  <2> QED
    BY <2>1, Zenon DEF DeclaredFirst, AllKnown
<1>3. PICK u : u = list \o rest /\ u \in Seq(BareIn(T))
  BY ConcatIs
<1>4. DeclaredFirst(list \o rest) /\ AllKnown(list \o rest, objs, strs)
  BY <1>2, <1>3, Zenon
<1>5. \A t \in Targets : objs[t] = NoName
  OBVIOUS
<1>6. ObjectNamesOK(T, objs)
  BY <1>5, Zenon DEF ObjectNamesOK
<1>7. \A m : m \notin 1..Len(strs)
  OBVIOUS
<1> QED
  BY <1>2, <1>4, <1>5, <1>6, <1>7, Zenon DEF Variables

(* What a pass leaves is what the next one starts with.                    *)
LEMMA VariablesNextPass ==
    ASSUME NEW S \in SUBSET Chosen, NEW p, Turn(S, p), NEW q,
           Turn(S \ {p}, q), NEW T, NEW X, NEW list \in Seq(X),
           NEW objs, NEW strs, Stage(p, T, list, <<>>, objs, strs),
           Variables(p, list, <<>>, objs, strs)
    PROVE  Variables(q, <<>>, list, objs, strs)
<1>1. /\ p \in Chosen
      /\ q = "ObjectVariables" => p \in Early
      /\ q = "StringVariables" => p # "StringVariables"
  BY NextTurn
<1>2. <<>> \o list = list /\ list \o <<>> = list
  OBVIOUS
<1>3. DeclaredFirst(<<>> \o list) /\ AllKnown(<<>> \o list, objs, strs)
  BY <1>2, Zenon DEF Variables
<1>4. CASE q = "ObjectVariables"
  <2>1. p \in Early
    BY <1>1, <1>4, Zenon
  <2>2. objs = [t \in Targets |-> NoName]
    BY <2>1, Zenon DEF Stage
  <2>3. \A t \in Targets : objs[t] = NoName
    BY <2>2
  <2>4. q # "StringVariables"
    BY <1>4
  <2> QED
    BY <1>3, <2>3, <2>4, Zenon DEF Variables
<1>5. CASE q = "StringVariables"
  <2>1. p \in Early \/ p = "ObjectVariables"
    BY <1>1, <1>5, Zenon DEF Chosen
  <2>2. strs = <<>>
    BY <2>1, Zenon DEF Stage
  <2>3. \A m : m \notin 1..Len(strs)
    BY <2>2
  <2>4. q # "ObjectVariables"
    BY <1>5
  <2> QED
    BY <1>3, <2>3, <2>4, Zenon DEF Variables
<1> QED
  BY <1>3, <1>4, <1>5, Zenon DEF Variables

(* A turn of a post-processor that does not fail.                          *)
LEMMA VariablesTurn ==
    ASSUME TypeInv, TypeInv', ~Clash, NEW p, NEW item, NEW list, NEW d,
           Turned(p, item, list, d), ObjectNamesOK(LogTargets, objects),
           Variables(p, inserter.list, in, objects, strings)
    PROVE  /\ ObjectNamesOK(LogTargets, objects')
           /\ Variables(p, inserter'.list, in', objects', strings')
<1>1. p \in Chosen
  BY BeforeTurn
<1>2. CASE p \in Early
  <2>1. /\ p = Current' /\ LogTargets' = LogTargets /\ passes' # {}
    BY Zenon DEF Turned
  <2>2. Stage(p, LogTargets, inserter'.list, in', objects', strings')
    BY <2>1, Zenon DEF TypeInv, Staged
  <2>3. /\ inserter'.list \in Seq(BareIn(LogTargets))
        /\ in' \in Seq(BareIn(LogTargets))
        /\ objects' = [t \in Targets |-> NoName] /\ strings' = <<>>
    BY <1>2, <2>2, Zenon DEF Stage
  <2> QED
    BY <2>3, FreshVariables
<1>3. CASE p = "ObjectVariables"
  BY <1>3, VariablesObjects
<1>4. CASE p = "StringVariables"
  <2>1. /\ objects' = objects
        /\ Variables(p, inserter'.list, in', objects', strings')
    BY <1>4, VariablesStrings
  <2> QED
    BY <2>1, Zenon
<1> QED
  BY <1>1, <1>2, <1>3, <1>4, Zenon DEF Chosen

(* Every step keeps the variables declared before they are used.           *)
LEMMA VariablesNext ==
    ASSUME TypeInv, TypeInv', VariablesOK, [Next]_vars
    PROVE  VariablesOK'
<1>1. CASE \E shape \in UNION Alphabets : Record(shape)
  BY <1>1 DEF Record, VariablesOK
<1>2. ASSUME NEW chosen \in OptionSets, NEW short \in BOOLEAN,
             Parse(chosen, short)
      PROVE  VariablesOK'
  <2>1. /\ phase = "record" /\ phase' = "convert" /\ in' = Items(short)
        /\ log' = log /\ inserter' = inserter /\ objects' = objects
        /\ strings' = strings
    BY <1>2 DEF Parse
  <2>2. /\ inserter = Reset(<<>>) /\ log \in Seq(Events)
        /\ objects = [t \in Targets |-> NoName] /\ strings = <<>>
    BY <2>1 DEF TypeInv, Idle, LogOK
  <2>3. in' \in Seq(BareIn(LogTargets)) /\ LogTargets' = LogTargets
    BY <2>1, <2>2, ItemsIs DEF LogTargets
  <2>4. inserter'.list = <<>> /\ <<>> \in Seq(BareIn(LogTargets))
    BY <2>1, <2>2 DEF Reset
  <2>5. /\ ObjectNamesOK(LogTargets, objects') /\ DeclaredFirst(in')
        /\ Variables(Current', inserter'.list, in', objects', strings')
    BY <2>1, <2>2, <2>3, <2>4, FreshVariables
  <2> QED
    BY <2>1, <2>3, <2>5 DEF VariablesOK
<1>3. CASE ProcessItem
  <2>1. PICK p, item, list, d : Turned(p, item, list, d)
    BY <1>3, TurnIs
  <2>2. /\ phase = "convert" /\ passes # {} /\ p = Current
        /\ phase' \in {"failed", "convert"}
        /\ log' = log /\ passes' = passes
        /\ LogTargets' = LogTargets /\ Current' = Current
    BY <2>1, Zenon DEF Turned
  <2>3. Clash' <=> Clash
    BY <2>2, Zenon DEF Clash
  <2>4. ASSUME ~Clash
        PROVE  /\ ObjectNamesOK(LogTargets, objects')
               /\ Variables(p, inserter'.list, in', objects', strings')
    <3>1. /\ ObjectNamesOK(LogTargets, objects)
          /\ Variables(p, inserter.list, in, objects, strings)
      BY <2>2, <2>4 DEF VariablesOK
    <3> QED
      BY <2>1, <2>4, <3>1, VariablesTurn
  <2>5. ASSUME ~Clash'
        PROVE  /\ ObjectNamesOK(LogTargets', objects')
               /\ Variables(Current', inserter'.list, in', objects', strings')
    BY <2>2, <2>3, <2>4, <2>5, Zenon
  <2> QED
    BY <2>2, <2>5 DEF VariablesOK
<1>4. CASE EndPass
  <2>1. /\ phase = "convert" /\ passes # {} /\ in = <<>>
        /\ passes' = passes \ {Current} /\ in' = inserter.list
        /\ inserter' = Reset(inserter.list)
        /\ log' = log /\ phase' = phase /\ objects' = objects
        /\ strings' = strings
    BY <1>4 DEF EndPass
  <2>2. /\ (Clash' <=> Clash) /\ LogTargets' = LogTargets
    BY <2>1, Zenon DEF Clash, LogTargets
  <2>3. inserter'.list = <<>>
    BY <2>1 DEF Reset
  <2>4. PICK p : p = Current
    OBVIOUS
  <2>5. /\ options \subseteq Chosen /\ passes \subseteq options
        /\ inserter.list \in Seq(Item)
    BY TypeOKIs DEF TypeInv, Lists, InserterOK
  <2>6. ASSUME ~Clash
        PROVE  /\ ObjectNamesOK(LogTargets, objects)
               /\ Variables(p, inserter.list, <<>>, objects, strings)
    BY <2>1, <2>4, <2>6 DEF VariablesOK
  <2>7. ASSUME ~Clash PROVE DeclaredFirst(in')
    <3>1. inserter.list \o <<>> = inserter.list
      BY <2>5
    <3>2. DeclaredFirst(inserter.list \o <<>>)
      BY <2>6, <2>7, Zenon DEF Variables
    <3> QED
      BY <2>1, <3>1, <3>2, Zenon
  <2>8. ASSUME ~Clash, passes' # {}
        PROVE  Variables(Current', inserter'.list, in', objects', strings')
    <3>1. PICK q : q = Current'
      OBVIOUS
    <3>2. p = First(passes) /\ q = First(passes \ {p})
      BY <2>1, <2>4, <3>1 DEF Current, First
    <3>3. passes \in SUBSET Chosen /\ passes \ {p} # {}
      BY <2>1, <2>4, <2>5, <2>8
    <3>4. Turn(passes, p) /\ Turn(passes \ {p}, q)
      BY <2>1, <3>2, <3>3, FirstIs
    <3>5. Stage(p, LogTargets, inserter.list, <<>>, objects, strings)
      BY <2>1, <2>4 DEF TypeInv, Staged
    <3>6. Variables(p, inserter.list, <<>>, objects, strings)
      BY <2>6, <2>8
    <3>7. Variables(q, <<>>, inserter.list, objects, strings)
      BY <2>5, <3>3, <3>4, <3>5, <3>6, VariablesNextPass
    <3> QED
      BY <2>1, <2>3, <3>1, <3>7, Zenon
  <2>9. phase' # "done"
    BY <2>1
  <2>10. ASSUME ~Clash'
         PROVE  ObjectNamesOK(LogTargets', objects')
    BY <2>1, <2>2, <2>6, <2>10, Zenon
  <2> QED
    BY <2>2, <2>7, <2>8, <2>9, <2>10, Zenon DEF VariablesOK
<1>5. CASE Serialize
  <2>1. /\ phase = "convert" /\ passes = {} /\ passes' = passes
        /\ log' = log /\ in' = in /\ objects' = objects
    BY <1>5 DEF Serialize
  <2>2. /\ (Clash' <=> Clash) /\ LogTargets' = LogTargets
    BY <2>1, Zenon DEF Clash, LogTargets
  <2> QED
    BY <2>1, <2>2 DEF VariablesOK
<1>6. CASE UNCHANGED vars
  <2>1. /\ phase' = phase /\ in' = in /\ inserter' = inserter
        /\ log' = log /\ passes' = passes /\ objects' = objects
        /\ strings' = strings
    BY <1>6 DEF vars
  <2>2. /\ (Clash' <=> Clash) /\ LogTargets' = LogTargets
        /\ Current' = Current
    BY <2>1, Zenon DEF Clash, LogTargets, Current
  <2> QED
    BY <2>1, <2>2 DEF VariablesOK
<1> QED
  BY <1>1, <1>2, <1>3, <1>4, <1>5, <1>6 DEF Next

(* DeclaredFirst says what DeclaredOnceBeforeUse asks of a script.         *)
LEMMA DeclaredIs ==
    ASSUME NEW X, NEW s \in Seq(X), DeclaredFirst(s), NEW i \in DOMAIN s,
           NEW name \in {s[i].var, s[i].arg} \ {NoName}, NEW at,
           at = {j \in DOMAIN s : Declares(s[j], name)}
    PROVE  Cardinality(at) = 1 /\ \A j \in at : j <= i
<1>1. PICK n \in Nat : n = Len(s) /\ DOMAIN s = 1..n
  OBVIOUS
<1>2. Declared1(s, i, name)
  BY <1>1 DEF DeclaredFirst, UsedIn
<1>3. PICK j \in 1..i : /\ Declares(s[j], name)
                        /\ \A k \in 1..Len(s) : Declares(s[k], name) => k = j
  BY <1>2, Zenon DEF Declared1
<1>4. j \in DOMAIN s /\ j <= i
  BY <1>1, <1>3
<1>5. at = {j}
  BY <1>1, <1>3, <1>4, Zenon
<1>6. Cardinality(at) = 1
  BY <1>5, FS_Singleton
<1> QED
  BY <1>4, <1>5, <1>6

(* A variable of the script is declared once, before its first use,        *)
(* whatever the log and the options, unless a widget is called like a      *)
(* string variable.                                                        *)
THEOREM DeclaredOnce == Spec => []DeclaredOnceBeforeUse
<1> DEFINE Inv == TypeInv /\ VariablesOK
<1>1. Init => Inv
  <2>1. Init => VariablesOK
    BY DEF Init, VariablesOK
  <2> QED
    BY <2>1, TypeInit
<1>2. Inv /\ [Next]_vars => Inv'
  BY TypeNext, VariablesNext
<1>3. Inv => DeclaredOnceBeforeUse
  <2> SUFFICES ASSUME Inv, phase = "done", ~Clash,
                      NEW i \in DOMAIN in,
                      NEW name \in {in[i].var, in[i].arg} \ {NoName}
               PROVE  LET at == {j \in DOMAIN in : Declares(in[j], name)}
                      IN Cardinality(at) = 1 /\ \A j \in at : j <= i
    BY Zenon DEF DeclaredOnceBeforeUse
  <2>1. DeclaredFirst(in)
    BY DEF VariablesOK
  <2>2. in \in Seq(Item)
    BY DEF TypeInv, TypeOK
  <2> QED
    BY <2>1, <2>2, DeclaredIs, ZenonT(30)
<1> QED
  BY <1>1, <1>2, <1>3, PTL DEF Spec

=============================================================================
