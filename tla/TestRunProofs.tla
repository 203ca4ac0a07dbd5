--------------------------- MODULE TestRunProofs ----------------------------
(***************************************************************************)
(* Proofs about TestRuns: running tests inside the event loop of other     *)
(* runs, for any number of tests, calls, results and changes.              *)
(***************************************************************************)
EXTENDS TestRuns, StoreProofs, FiniteSetTheorems, SequenceTheorems,
        WellFoundedInduction

-----------------------------------------------------------------------------
(* The rows of the test list have an order.  Induction is by the least     *)
(* number of a set: the least counterexample would have a smaller one.     *)
LEMMA LeastNumber ==
    ASSUME NEW S \in SUBSET Nat, S # {}
    PROVE  \E n \in S : \A m \in S : n <= m
<1>1. PICK n \in S : \A m \in S : ~(<<m, n>> \in OpToRel(<, Nat))
  BY NatLessThanWellFounded, WFMin, Zenon
<1>2. ASSUME NEW m \in S PROVE n <= m
  <2>1. ~(<<m, n>> \in OpToRel(<, Nat))
    BY <1>1
  <2>2. ~(m < n)
    BY <2>1, Zenon DEF OpToRel
  <2> QED
    BY <2>2
<1> QED
  BY <1>2

(* File names differ, and so do their keys.                                *)
LEMMA KeyFacts ==
    /\ \A f \in Files : Key(f) \in Nat
    /\ \A f, g \in Files : Key(f) = Key(g) => f = g
<1>1. Tests \subseteq Nat
  BY ScriptStoreAssumption
<1>2. \A f \in Files : /\ f[1] \in Nat /\ f[2] \in {"qs", "hs"}
                       /\ f = <<f[1], f[2]>>
  BY <1>1, PathFacts
<1>3. "qs" # "hs"
  OBVIOUS
<1>4. \A f \in Files : Key(f) \in Nat
  BY <1>2 DEF Key
<1>5. ASSUME NEW f \in Files, NEW g \in Files, Key(f) = Key(g) PROVE f = g
  <2>1. f[1] = g[1] /\ (f[2] = "hs" <=> g[2] = "hs")
    BY <1>2, <1>5 DEF Key
  <2>2. f[2] = g[2]
    BY <1>2, <2>1
  <2> QED
    BY <1>2, <2>1, <2>2
<1> QED
  BY <1>4, <1>5

(* How many files of a set come before one.                                *)
Before(S, f) == {g \in S : Key(g) < Key(f)}

(* Some files have a first one in the order of the list.                   *)
LEMMA FirstFile ==
    ASSUME NEW S \in SUBSET Files, S # {}
    PROVE  \E f \in S : \A g \in S : Key(f) <= Key(g)
<1> DEFINE keys == {Key(g) : g \in S}
<1>1. keys \in SUBSET Nat /\ keys # {}
  BY KeyFacts
<1>2. PICK n \in keys : \A m \in keys : n <= m
  BY <1>1, LeastNumber
<1> QED
  BY <1>2

(* Every position of a finite list of files is taken.                      *)
LEMMA RankExists ==
    ASSUME NEW S \in SUBSET Files, IsFiniteSet(S),
           NEW i \in Nat, i < Cardinality(S)
    PROVE  \E f \in S : Cardinality(Before(S, f)) = i
<1> DEFINE free == {n \in Nat : n < Cardinality(S)
                        /\ \A f \in S : Cardinality(Before(S, f)) # n}
<1> SUFFICES ASSUME free # {} PROVE FALSE
  OBVIOUS
<1>0. Cardinality(S) \in Nat
  BY FS_CardinalityType
<1>1. PICK n \in free : \A m \in free : n <= m
  BY LeastNumber
<1>2. /\ n \in Nat /\ n < Cardinality(S)
      /\ \A f \in S : Cardinality(Before(S, f)) # n
  OBVIOUS
<1>3. ASSUME NEW T \in SUBSET S, IsFiniteSet(T), Cardinality(T) = n,
             \A f \in T, g \in S \ T : Key(f) < Key(g)
      PROVE  FALSE
  <2>1. S \ T # {}
    BY <1>2, <1>3
  <2>2. PICK h \in S \ T : \A g \in S \ T : Key(h) <= Key(g)
    BY <2>1, FirstFile
  <2>3. Before(S, h) = T
    <3>1. ASSUME NEW g \in S PROVE Key(g) \in Nat /\ Key(h) \in Nat
      BY KeyFacts
    <3> QED
      BY <1>3, <2>2, <3>1 DEF Before
  <2> QED
    BY <1>2, <1>3, <2>2, <2>3
<1>4. CASE n = 0
  BY <1>3, <1>4, FS_EmptySet
<1>5. CASE n # 0
  <2>1. n - 1 \in Nat /\ n - 1 < Cardinality(S) /\ n - 1 \notin free
    BY <1>0, <1>1, <1>2, <1>5
  <2>2. PICK f \in S : Cardinality(Before(S, f)) = n - 1
    BY <2>1
  <2> DEFINE T == Before(S, f) \cup {f}
  <2>3. Before(S, f) \in SUBSET S /\ f \notin Before(S, f)
    BY KeyFacts DEF Before
  <2>4. IsFiniteSet(Before(S, f))
    BY <2>3, FS_Subset
  <2>5. IsFiniteSet(T) /\ Cardinality(T) = n
    <3>1. /\ IsFiniteSet(T)
          /\ Cardinality(T) = IF f \in Before(S, f) THEN Cardinality(Before(S, f))
                              ELSE Cardinality(Before(S, f)) + 1
      BY <2>4, FS_AddElement
    <3> QED
      BY <1>2, <2>2, <2>3, <3>1
  <2>6. ASSUME NEW x \in T, NEW g \in S \ T PROVE Key(x) < Key(g)
    <3>1. Key(x) \in Nat /\ Key(g) \in Nat /\ Key(f) \in Nat
      BY <2>3, KeyFacts
    <3>2. Key(x) <= Key(f)
      BY <3>1 DEF Before
    <3>3. ~(Key(g) < Key(f)) /\ g # f
      BY DEF Before
    <3>4. Key(g) # Key(f)
      BY <3>3, KeyFacts
    <3> QED
      BY <3>1, <3>2, <3>3, <3>4
  <2>7. T \in SUBSET S
    BY <2>3
  <2> QED
    BY <1>3, <2>5, <2>6, <2>7
<1> QED
  BY <1>4, <1>5

(* A list of tests is finite ...                                           *)
LEMMA RowsFinite ==
    ASSUME TypeOK
    PROVE  /\ rows \in SUBSET Files /\ IsFiniteSet(rows)
           /\ Cardinality(rows) \in Nat
<1>1. rows \in SUBSET Files
  BY DEF TypeOK
<1>2. IsFiniteSet({"qs", "hs"})
  <2>1. IsFiniteSet({"qs"})
    BY FS_Singleton
  <2>2. IsFiniteSet({"qs"} \cup {"hs"})
    BY <2>1, FS_AddElement
  <2>3. {"qs"} \cup {"hs"} = {"qs", "hs"}
    OBVIOUS
  <2> QED
    BY <2>2, <2>3
<1>3. IsFiniteSet(Files)
  BY <1>2, ScriptStoreAssumption, FS_Product DEF Files
<1> QED
  BY <1>1, <1>3, FS_Subset, FS_CardinalityType

(* ... and every number below its length is the row of a test.             *)
LEMMA RowAtFacts ==
    ASSUME TypeOK, NEW i \in Nat, i < Cardinality(rows)
    PROVE  RowAt(i) \in rows
<1>1. \E f \in rows : Cardinality(Before(rows, f)) = i
  BY RowsFinite, RankExists
<1> QED
  BY <1>1 DEF RowAt, Before

-----------------------------------------------------------------------------
Calls == [call : {"run", "all"}, test : Tests \cup {NoTest},
          text : Texts \cup {NoText}, threw : BOOLEAN,
          row : Nat, tests : SUBSET Files, steady : BOOLEAN]

RunsTyped ==
    /\ calls \in Seq(Calls)
    /\ running \in BOOLEAN /\ listOn \in BOOLEAN
    /\ mode \in {"Interactive", "Headless"}
    /\ result \in Results
    /\ results \in Seq(Results)

(* Of the calls under the top one only a loop whose own test is on top of  *)
(* it is steady, and then that test is, too.                               *)
Nesting ==
    \A i \in 1..(Len(calls) - 1) :
        calls[i].steady =>
            /\ i = Len(calls) - 1 /\ calls[i].call = "all"
            /\ Top.call = "run" /\ Top.steady

(* m_testRunning is set by a run that is still in progress.                *)
RunningInRun == running => \E i \in 1..Len(calls) : calls[i].call = "run"

(* m_testResult is that of the test that runs.                             *)
ResultInMaking ==
    InRun /\ Top.steady => result = [test |-> Top.test, passed |-> ~Top.threw]

(* A loop has collected the results of its first n rows, of the list it    *)
(* began with.                                                             *)
Collected(loop, n) ==
    /\ loop.tests = rows /\ loop.row <= Cardinality(rows)
    /\ Len(results) = n
    /\ \A i \in 1..n : results[i].test = RowAt(i - 1)[1]

(* A steady loop has the results of all the rows it has passed, and        *)
(* m_testRunning is reset after the first ...                              *)
BetweenTurns ==
    InLoop /\ Top.steady =>
        /\ Collected(Top, Top.row)
        /\ Top.row > 0 => ~running

(* ... and of all but the last while that is running.                      *)
InTest ==
    InRun /\ Len(calls) > 1 /\ calls[Len(calls) - 1].steady =>
        /\ calls[Len(calls) - 1].row > 0
        /\ Collected(calls[Len(calls) - 1], calls[Len(calls) - 1].row - 1)
        /\ Top.test = RowAt(calls[Len(calls) - 1].row - 1)[1]

RunsInv ==
    /\ RunsTyped
    /\ Nesting
    /\ RunningInRun
    /\ ResultInMaking
    /\ BetweenTurns
    /\ InTest

-----------------------------------------------------------------------------
(* Pushing, popping and replacing the top of the calls.                    *)
LEMMA PushFacts ==
    ASSUME NEW s \in Seq(Calls), NEW c \in Calls
    PROVE  /\ Append(s, c) \in Seq(Calls) /\ Append(s, c) # <<>>
           /\ Len(Append(s, c)) = Len(s) + 1 /\ Len(s) \in Nat
           /\ Append(s, c)[Len(s) + 1] = c
           /\ \A i \in 1..Len(s) : Append(s, c)[i] = s[i]
  OBVIOUS

(* A call returns to the one that made it.                                 *)
LEMMA PopFacts ==
    ASSUME NEW s \in Seq(Calls), s # <<>>
    PROVE  /\ Front(s) \in Seq(Calls) /\ Len(s) \in Nat \ {0}
           /\ Len(Front(s)) = Len(s) - 1
           /\ \A i \in 1..(Len(s) - 1) : Front(s)[i] = s[i]
           /\ s[Len(s)] \in Calls
           /\ Front(s) # <<>> => Len(s) > 1
<1>1. Len(s) \in Nat \ {0} /\ s[Len(s)] \in Calls
  OBVIOUS
<1>2. /\ Front(s) \in Seq(Calls) /\ Len(Front(s)) = Len(s) - 1
      /\ \A i \in 1..(Len(s) - 1) : Front(s)[i] = s[i]
  <2>1. Len(s) - 1 \in Int /\ 1 \in Int /\ \A i \in 1..(Len(s) - 1) : s[i] \in Calls
    BY <1>1
  <2>2. /\ Front(s) \in Seq(Calls)
        /\ Len(Front(s)) = IF 1 <= Len(s) - 1 THEN (Len(s) - 1) - 1 + 1 ELSE 0
        /\ \A i \in 1..((Len(s) - 1) - 1 + 1) : Front(s)[i] = s[1 + i - 1]
    BY <2>1, SubSeqProperties DEF Front
  <2>3. /\ (Len(s) - 1) - 1 + 1 = Len(s) - 1
        /\ Len(Front(s)) = Len(s) - 1
    <3>1. PICK n \in Nat \ {0} : n = Len(s)
      BY <1>1
    <3>2. /\ (n - 1) - 1 + 1 = n - 1
          /\ ~(1 <= n - 1) => n - 1 = 0
      OBVIOUS
    <3>3. Len(Front(s)) = IF 1 <= n - 1 THEN (n - 1) - 1 + 1 ELSE 0
      BY <2>2, <3>1
    <3> QED
      BY <3>1, <3>2, <3>3
  <2>4. ASSUME NEW i \in 1..(Len(s) - 1) PROVE Front(s)[i] = s[i]
    <3>1. i \in Int /\ 1 + i - 1 = i
      OBVIOUS
    <3>2. Front(s)[i] = s[1 + i - 1]
      BY <2>2, <2>3
    <3> QED
      BY <3>1, <3>2
  <2> QED
    BY <2>2, <2>3, <2>4
<1>3. Front(s) # <<>> => Len(s) > 1
  BY <1>1, <1>2
<1> QED
  BY <1>1, <1>2, <1>3

(* There is a top call unless there are no calls.                          *)
LEMMA EmptyCalls ==
    ASSUME NEW s \in Seq(Calls)
    PROVE  s # <<>> <=> Len(s) > 0
  OBVIOUS

(* Calls whose run was disturbed.                                          *)
LEMMA UnsteadyFacts ==
    ASSUME NEW c \in Calls
    PROVE  /\ Unsteady(c) \in Calls /\ Unsteady(c).call = c.call
           /\ ~Unsteady(c).steady
<1>1. Unsteady(c) \in Calls
  BY DEF Unsteady, Calls
<1>2. Unsteady(c).call = c.call
  BY DEF Unsteady, Calls
<1>3. Unsteady(c).steady = FALSE
  BY DEF Unsteady, Calls
<1> QED
  BY <1>1, <1>2, <1>3

Turned(c, steady) == [c EXCEPT !.row = @ + 1, !.steady = @ /\ steady]

(* runAllTests goes to its next row.                                       *)
LEMMA TurnFields ==
    ASSUME NEW c \in Calls, NEW steady \in BOOLEAN
    PROVE  /\ Turned(c, steady) \in Calls
           /\ Turned(c, steady).call = c.call
           /\ Turned(c, steady).tests = c.tests
           /\ Turned(c, steady).row = c.row + 1
           /\ Turned(c, steady).steady = (c.steady /\ steady)
<1>0. c.steady \in BOOLEAN /\ c.row \in Nat
  BY DEF Calls
<1>1. PICK b \in BOOLEAN : b = (c.steady /\ steady)
  BY <1>0
<1>2. Turned(c, steady) = [c EXCEPT !.row = c.row + 1, !.steady = b]
  BY <1>1 DEF Turned
<1>3. ASSUME NEW d, d = [c EXCEPT !.row = c.row + 1, !.steady = b]
      PROVE  /\ d \in Calls /\ d.call = c.call /\ d.tests = c.tests
             /\ d.row = c.row + 1 /\ d.steady = b
  <2>1. d \in Calls
    <3>1. PICK e : e = [c EXCEPT !.row = c.row + 1]
      OBVIOUS
    <3>2. e \in Calls
      BY <1>0, <3>1 DEF Calls
    <3>3. d = [e EXCEPT !.steady = b]
      BY <1>3, <3>1
    <3> QED
      BY <3>2, <3>3 DEF Calls
  <2>2. d.call = c.call /\ d.tests = c.tests /\ d.row = c.row + 1
    BY <1>3 DEF Calls
  <2>3. d.steady = b
    BY <1>3 DEF Calls
  <2> QED
    BY <2>1, <2>2, <2>3
<1> QED
  BY <1>1, <1>2, <1>3

(* The calls in progress when a call is made inside them: none is steady.  *)
LEMMA DisturbedFacts ==
    ASSUME RunsTyped
    PROVE  /\ Disturbed \in Seq(Calls) /\ Len(Disturbed) = Len(calls)
           /\ \A i \in 1..Len(calls) : /\ Disturbed[i].call = calls[i].call
                                       /\ ~Disturbed[i].steady
<1>1. calls \in Seq(Calls) /\ Len(calls) \in Nat /\ DOMAIN calls = 1..Len(calls)
  BY DEF RunsTyped
<1>2. \A i \in 1..Len(calls) : /\ calls[i] \in Calls
                               /\ Unsteady(calls[i]) \in Calls
                               /\ Unsteady(calls[i]).call = calls[i].call
                               /\ ~Unsteady(calls[i]).steady
  BY <1>1, UnsteadyFacts
<1>3. Disturbed = [i \in 1..Len(calls) |-> Unsteady(calls[i])]
  BY <1>1 DEF Disturbed
<1>4. Disturbed \in Seq(Calls) /\ Len(Disturbed) = Len(calls)
  BY <1>1, <1>2, <1>3
<1> QED
  BY <1>2, <1>3, <1>4

(* The calls in progress when the list changes: no loop is steady.         *)
LEMMA RelistedFacts ==
    ASSUME RunsTyped
    PROVE  /\ Relisted \in Seq(Calls) /\ Len(Relisted) = Len(calls)
           /\ \A i \in 1..Len(calls) :
                \/ Relisted[i] = calls[i] /\ (rows' = rows \/ calls[i].call = "run")
                \/ /\ calls[i].call = "all" /\ Relisted[i].call = "all"
                   /\ ~Relisted[i].steady
<1>1. calls \in Seq(Calls) /\ Len(calls) \in Nat /\ DOMAIN calls = 1..Len(calls)
  BY DEF RunsTyped
<1>2. \A i \in 1..Len(calls) : /\ calls[i] \in Calls
                               /\ calls[i].call \in {"run", "all"}
                               /\ Unsteady(calls[i]) \in Calls
                               /\ Unsteady(calls[i]).call = calls[i].call
                               /\ ~Unsteady(calls[i]).steady
  <2>1. \A i \in 1..Len(calls) : calls[i] \in Calls
    BY <1>1
  <2>2. \A c \in Calls : c.call \in {"run", "all"}
    BY DEF Calls
  <2> QED
    BY <2>1, <2>2, UnsteadyFacts
<1>3. CASE rows' = rows
  BY <1>1, <1>3 DEF Relisted
<1>4. CASE rows' # rows
  <2> DEFINE c(i) == IF calls[i].call = "all" THEN Unsteady(calls[i]) ELSE calls[i]
  <2>1. Relisted = [i \in 1..Len(calls) |-> c(i)]
    BY <1>1, <1>4 DEF Relisted
  <2>2. \A i \in 1..Len(calls) : c(i) \in Calls
    BY <1>2
  <2>3. Relisted \in Seq(Calls) /\ Len(Relisted) = Len(calls)
    BY <1>1, <2>1, <2>2
  <2> QED
    BY <1>2, <2>1, <2>3
<1> QED
  BY <1>3, <1>4

(* The list of tests has not changed, and with it the row of each.         *)
LEMMA RowAtUnchanged ==
    rows' = rows => \A i \in Int : RowAt(i)' = RowAt(i)
  BY DEF RowAt

(* The loop under way, one row further.                                    *)
LEMMA TurnDoneFacts ==
    ASSUME RunsTyped, InLoop, NEW steady \in BOOLEAN
    PROVE  /\ TurnDone(steady) \in Seq(Calls) /\ Len(TurnDone(steady)) = Len(calls)
           /\ Len(calls) \in Nat \ {0} /\ Top \in Calls
           /\ \A i \in 1..(Len(calls) - 1) : TurnDone(steady)[i] = calls[i]
           /\ LET loop == TurnDone(steady)[Len(calls)]
              IN  /\ loop.call = "all" /\ loop.tests = Top.tests
                  /\ loop.row = Top.row + 1
                  /\ loop.steady = (Top.steady /\ steady)
<1> DEFINE loop == Turned(Top, steady)
<1>1. /\ calls \in Seq(Calls) /\ calls # <<>> /\ Top.call = "all"
  BY DEF RunsTyped, InLoop
<1>2. /\ Front(calls) \in Seq(Calls) /\ Len(calls) \in Nat \ {0}
      /\ Len(Front(calls)) = Len(calls) - 1
      /\ \A i \in 1..(Len(calls) - 1) : Front(calls)[i] = calls[i]
      /\ Top \in Calls
  BY <1>1, PopFacts DEF Top
<1>3. /\ loop \in Calls /\ loop.call = "all" /\ loop.tests = Top.tests
      /\ loop.row = Top.row + 1 /\ loop.steady = (Top.steady /\ steady)
  BY <1>1, <1>2, TurnFields
<1> HIDE DEF loop
<1>4. TurnDone(steady) = Append(Front(calls), loop)
  BY DEF TurnDone, Turned, loop
<1>5. /\ TurnDone(steady) \in Seq(Calls)
      /\ Len(TurnDone(steady)) = Len(Front(calls)) + 1
      /\ TurnDone(steady)[Len(Front(calls)) + 1] = loop
      /\ \A i \in 1..Len(Front(calls)) : TurnDone(steady)[i] = Front(calls)[i]
  BY <1>2, <1>3, <1>4, PushFacts
<1>6. Len(Front(calls)) + 1 = Len(calls)
  BY <1>2
<1> QED
  BY <1>2, <1>3, <1>5, <1>6

-----------------------------------------------------------------------------
(* MainWindow::runTestScript: a steady run is on top of the calls that     *)
(* were there, and m_testResult is made for it.                            *)
LEMMA RunBegins ==
    ASSUME StoreInv, NEW f \in rows, NEW under \in Seq(Calls),
           RunTestScript(f, under)
    PROVE  /\ StoreInv' /\ UNCHANGED rows
           /\ running' = TRUE /\ listOn' = FALSE /\ f[1] \in Tests
           /\ result' = [test |-> f[1], passed |-> TRUE] /\ result' \in Results
           /\ calls' \in Seq(Calls) /\ calls' # <<>>
           /\ Len(under) \in Nat /\ Len(calls') = Len(under) + 1
           /\ \A i \in 1..Len(under) : calls'[i] = under[i]
           /\ Top'.call = "run" /\ Top'.test = f[1] /\ Top'.steady /\ ~Top'.threw
<1> DEFINE run == RunCall(f[1], ReadFrom(disk', ScriptPathIn(disk', f[1])))
<1>1. TypeOK /\ f[1] \in Tests
  BY PathFacts DEF StoreInv, TypeOK
<1>2. PICK answer : Open(ScriptPath(f[1]), answer, FALSE)
  BY DEF RunTestScript
<1>3. /\ UNCHANGED <<dir, rows, archive, changes>>
      /\ running' = TRUE /\ listOn' = FALSE
      /\ result' = [test |-> f[1], passed |-> TRUE]
      /\ calls' = Append(under, run)
  BY DEF RunTestScript
<1>4. StoreInv'
  BY <1>1, <1>2, <1>3, OpenStep
<1>5. run \in Calls /\ run.call = "run" /\ run.test = f[1] /\ run.steady
      /\ ~run.threw
  <2>1. disk' \in [Files -> Texts \cup {NoText, NoFile}]
    BY <1>4 DEF StoreInv, TypeOK
  <2>2. ScriptPathIn(disk', f[1]) \in Paths
    BY <1>1, <2>1, ScriptPathFacts
  <2>3. ReadFrom(disk', ScriptPathIn(disk', f[1])) \in Texts \cup {NoText}
    BY <2>1, <2>2, ReadFromFacts
  <2>4. ASSUME NEW x \in Texts \cup {NoText}
        PROVE  /\ RunCall(f[1], x) \in Calls /\ RunCall(f[1], x).call = "run"
               /\ RunCall(f[1], x).test = f[1] /\ RunCall(f[1], x).steady
               /\ ~RunCall(f[1], x).threw
    BY <1>1 DEF RunCall, Calls
  <2> QED
    BY <2>3, <2>4
<1> HIDE DEF run
<1>6. /\ calls' \in Seq(Calls) /\ calls' # <<>>
      /\ Len(under) \in Nat /\ Len(calls') = Len(under) + 1
      /\ calls'[Len(under) + 1] = run
      /\ \A i \in 1..Len(under) : calls'[i] = under[i]
  BY <1>3, <1>5, PushFacts
<1>7. result' \in Results
  BY <1>1, <1>3 DEF Results
<1>8. Top' = run
  BY <1>6 DEF Top
<1> QED
  BY <1>1, <1>3, <1>4, <1>5, <1>6, <1>7, <1>8

(* What the calls look like from the top.                                  *)
LEMMA TopFacts ==
    ASSUME RunsTyped, calls # <<>>
    PROVE  /\ Len(calls) \in Nat \ {0} /\ Top \in Calls
           /\ Top.call \in {"run", "all"} /\ Top.steady \in BOOLEAN
           /\ Top.row \in Nat /\ Top.threw \in BOOLEAN
           /\ Top.test \in Tests \cup {NoTest}
<1>1. Len(calls) \in Nat \ {0} /\ Top \in Calls
  BY DEF RunsTyped, Top
<1>2. \A c \in Calls : /\ c.call \in {"run", "all"} /\ c.steady \in BOOLEAN
                       /\ c.row \in Nat /\ c.threw \in BOOLEAN
                       /\ c.test \in Tests \cup {NoTest}
  BY DEF Calls
<1> QED
  BY <1>1, <1>2

(* Waiting is exactly what the invariant says it is.                       *)
LEMMA RunsInvImplies ==
    ASSUME RunsInv
    PROVE  RunsTypeOK /\ WaitsOnlyForOuterRun
<1>0. RunsTyped
  BY DEF RunsInv
<1>1. RunsTypeOK
  <2>1. /\ calls \in Seq(Calls) /\ running \in BOOLEAN /\ listOn \in BOOLEAN
        /\ mode \in {"Interactive", "Headless"}
        /\ result \in Results /\ results \in Seq(Results)
    BY <1>0 DEF RunsTyped
  <2>2. \A i \in DOMAIN calls : calls[i] \in Calls
    BY <2>1
  <2>3. {running, listOn} \subseteq BOOLEAN
    BY <2>1
  <2> QED
    BY <2>1, <2>2, <2>3 DEF RunsTypeOK, Calls
<1>2. ASSUME Waiting PROVE ~Top.steady /\ \E i \in 1..(Len(calls) - 1) : calls[i].call = "run"
  <2>1. InLoop /\ Top.row > 0 /\ running
    BY <1>2 DEF Waiting
  <2>2. ~Top.steady
    BY <2>1 DEF RunsInv, BetweenTurns
  <2>3. PICK i \in 1..Len(calls) : calls[i].call = "run"
    BY <2>1 DEF RunsInv, RunningInRun
  <2>4. Len(calls) \in Nat \ {0} /\ Top.call = "all"
    BY <1>0, <2>1, TopFacts DEF InLoop
  <2>5. i # Len(calls)
    BY <2>3, <2>4 DEF Top
  <2>6. i \in 1..(Len(calls) - 1)
    BY <2>4, <2>5
  <2> QED
    BY <2>2, <2>3, <2>6
<1> QED
  BY <1>1, <1>2 DEF WaitsOnlyForOuterRun

(* There is a result before a test has been run, too.                      *)
LEMMA NoResultFacts == NoResult \in Results
  BY DEF NoResult, Results

(* No call is in progress at first.                                        *)
LEMMA InitRunsInv == Init => RunsInv
<1> SUFFICES ASSUME Init PROVE RunsInv
  OBVIOUS
<1>1. calls = <<>> /\ results = <<>> /\ running = FALSE /\ listOn = TRUE
      /\ mode = "Interactive" /\ result = NoResult
  BY DEF Init
<1>2. calls \in Seq(Calls) /\ results \in Seq(Results) /\ Len(calls) = 0
  BY <1>1
<1>3. result \in Results
  BY <1>1, NoResultFacts
<1>4. RunsTyped
  BY <1>1, <1>2, <1>3 DEF RunsTyped
<1>5. ~InRun /\ ~InLoop
  BY <1>1 DEF InRun, InLoop
<1>6. 1..(Len(calls) - 1) = {}
  BY <1>2
<1> QED
  BY <1>1, <1>4, <1>5, <1>6
  DEF RunsInv, Nesting, RunningInRun, ResultInMaking, BetweenTurns, InTest

-----------------------------------------------------------------------------
(* The window is used inside the calls in progress, or nothing happens.    *)
LEMMA UsedStep ==
    ASSUME RunsInv, RunsTyped', Len(calls') = Len(calls),
           \A i \in 1..Len(calls) :
                \/ calls'[i] = calls[i] /\ (rows' = rows \/ calls[i].call = "run")
                \/ /\ calls[i].call = "all" /\ calls'[i].call = "all"
                   /\ ~calls'[i].steady,
           UNCHANGED <<running, result, results>>
    PROVE  RunsInv'
<1>0. /\ RunsTyped /\ Len(calls) \in Nat
      /\ calls \in Seq(Calls) /\ calls' \in Seq(Calls)
  BY DEF RunsInv, RunsTyped
<1>1. calls' # <<>> <=> calls # <<>>
  BY <1>0, EmptyCalls
<1>2. ASSUME calls # <<>>
      PROVE  /\ Len(calls) \in 1..Len(calls) /\ Top' = calls'[Len(calls)]
             /\ Top'.call = Top.call
             /\ Top.call = "run" => Top' = Top
             /\ Top'.steady => Top' = Top /\ (Top.call = "all" => rows' = rows)
  <2>1. Len(calls) \in 1..Len(calls)
    BY <1>0, <1>2
  <2> QED
    BY <2>1 DEF Top
<1>3. \A i \in 1..Len(calls) :
        calls'[i].steady => /\ calls'[i] = calls[i]
                            /\ calls[i].call = "all" => rows' = rows
  OBVIOUS
<1>4. (InRun' <=> InRun) /\ (InLoop' <=> InLoop)
  BY <1>1, <1>2 DEF InRun, InLoop
<1>5. Nesting'
  <2> SUFFICES ASSUME NEW i \in 1..(Len(calls) - 1), calls'[i].steady
               PROVE  /\ i = Len(calls) - 1 /\ calls'[i].call = "all"
                      /\ Top'.call = "run" /\ Top'.steady
    BY DEF Nesting
  <2>1. i \in 1..Len(calls) /\ calls # <<>>
    BY <1>0, EmptyCalls
  <2>2. calls'[i] = calls[i]
    BY <1>3, <2>1
  <2>3. /\ i = Len(calls) - 1 /\ calls[i].call = "all"
        /\ Top.call = "run" /\ Top.steady
    BY <2>2 DEF RunsInv, Nesting
  <2> QED
    BY <1>2, <2>1, <2>2, <2>3
<1>6. RunningInRun'
  <2>1. ASSUME NEW i \in 1..Len(calls), calls[i].call = "run"
        PROVE  calls'[i].call = "run"
    BY <2>1
  <2> QED
    BY <2>1 DEF RunsInv, RunningInRun
<1>7. ResultInMaking'
  BY <1>2, <1>4 DEF RunsInv, ResultInMaking, InRun
<1>8. BetweenTurns'
  <2> SUFFICES ASSUME InLoop, Top'.steady
               PROVE  /\ Collected(Top, Top.row)'
                      /\ Top'.row > 0 => ~running'
    BY <1>4 DEF BetweenTurns
  <2>1. Top' = Top /\ rows' = rows
    BY <1>2 DEF InLoop
  <2>2. Collected(Top, Top.row) /\ (Top.row > 0 => ~running) /\ Top.row \in Nat
    BY <1>0, <2>1, TopFacts DEF RunsInv, BetweenTurns, InLoop
  <2>3. \A i \in 1..Top.row : RowAt(i - 1)' = RowAt(i - 1)
    BY <2>1, <2>2, RowAtUnchanged
  <2> QED
    BY <2>1, <2>2, <2>3 DEF Collected
<1>9. InTest'
  <2> SUFFICES ASSUME InRun, Len(calls) > 1, NEW m \in Nat, m = Len(calls) - 1,
                      calls'[m].steady
               PROVE  /\ calls'[m].row > 0
                      /\ calls'[m].tests = rows' /\ calls'[m].row <= Cardinality(rows')
                      /\ Len(results') = calls'[m].row - 1
                      /\ \A i \in 1..(calls'[m].row - 1) :
                            results'[i].test = (RowAt(i - 1)')[1]
                      /\ Top'.test = (RowAt(calls[m].row - 1)')[1]
    BY <1>0, <1>4 DEF InTest, Collected
  <2>1. m \in 1..Len(calls) /\ m \in 1..(Len(calls) - 1) /\ calls[m] \in Calls
    BY <1>0
  <2>2. calls'[m] = calls[m]
    BY <1>3, <2>1
  <2>3. rows' = rows
    BY <1>3, <2>1, <2>2 DEF RunsInv, Nesting
  <2>4. Top' = Top
    BY <1>2 DEF InRun
  <2>5. /\ calls[m].row > 0 /\ Collected(calls[m], calls[m].row - 1)
        /\ Top.test = RowAt(calls[m].row - 1)[1]
    BY <2>2 DEF RunsInv, InTest
  <2>6. calls[m].row \in Nat
    BY <2>1 DEF Calls
  <2>7. PICK k \in Nat : k = calls[m].row /\ k = calls'[m].row
    BY <2>2, <2>6
  <2>8. /\ \A i \in 1..(k - 1) : RowAt(i - 1)' = RowAt(i - 1)
        /\ RowAt(k - 1)' = RowAt(k - 1)
    BY <2>3, RowAtUnchanged
  <2> QED
    BY <2>2, <2>3, <2>4, <2>5, <2>7, <2>8 DEF Collected
<1> QED
  BY <1>5, <1>6, <1>7, <1>8, <1>9 DEF RunsInv

(* A call is made inside the calls in progress: a run.                     *)
LEMMA RunTestStep ==
    ASSUME StoreInv, RunsInv, NEW f \in Files, RunTest(f)
    PROVE  StoreInv' /\ RunsInv'
<1>0. /\ RunsTyped /\ f \in rows /\ RunTestScript(f, Disturbed)
      /\ UNCHANGED <<mode, results>>
  BY DEF RunsInv, RunTest
<1>1. /\ Disturbed \in Seq(Calls) /\ Len(Disturbed) = Len(calls)
      /\ \A i \in 1..Len(calls) : ~Disturbed[i].steady
  BY <1>0, DisturbedFacts
<1>2. /\ StoreInv' /\ running' = TRUE /\ listOn' = FALSE
      /\ result' = [test |-> f[1], passed |-> TRUE] /\ result' \in Results
      /\ calls' \in Seq(Calls) /\ calls' # <<>>
      /\ Len(calls) \in Nat /\ Len(calls') = Len(calls) + 1
      /\ \A i \in 1..Len(calls) : calls'[i] = Disturbed[i]
      /\ Top'.call = "run" /\ Top'.test = f[1] /\ Top'.steady /\ ~Top'.threw
  BY <1>0, <1>1, RunBegins
<1>3. RunsTyped'
  BY <1>0, <1>2 DEF RunsTyped
<1>4. \A i \in 1..(Len(calls') - 1) : ~calls'[i].steady
  BY <1>1, <1>2
<1>5. InRun' /\ ~InLoop'
  BY <1>2 DEF InRun, InLoop
<1>6. RunningInRun'
  BY <1>2 DEF RunningInRun, Top
<1>7. ResultInMaking'
  BY <1>2 DEF ResultInMaking
<1>8. InTest'
  BY <1>2, <1>4 DEF InTest
<1> QED
  BY <1>2, <1>3, <1>4, <1>5, <1>6, <1>7, <1>8
  DEF RunsInv, Nesting, BetweenTurns

(* A call is made inside the calls in progress: a loop.                    *)
LEMMA RunAllTestsStep ==
    ASSUME TypeOK, RunsInv, RunAllTests
    PROVE  RunsInv'
<1>0. /\ RunsTyped /\ calls' = Append(Disturbed, AllCall) /\ results' = <<>>
      /\ listOn' = FALSE /\ mode' = "Headless"
      /\ UNCHANGED <<rows, running, result>>
  BY DEF RunsInv, RunAllTests, storeVars
<1>1. /\ Disturbed \in Seq(Calls) /\ Len(Disturbed) = Len(calls)
      /\ \A i \in 1..Len(calls) : /\ ~Disturbed[i].steady
                                  /\ Disturbed[i].call = calls[i].call
  BY <1>0, DisturbedFacts
<1>2. /\ AllCall \in Calls /\ AllCall.call = "all" /\ AllCall.row = 0
      /\ AllCall.tests = rows
  BY RowsFinite DEF AllCall, Calls
<1>3. /\ calls' \in Seq(Calls) /\ calls' # <<>>
      /\ Len(calls) \in Nat /\ Len(calls') = Len(calls) + 1
      /\ \A i \in 1..Len(calls) : calls'[i] = Disturbed[i]
      /\ calls'[Len(calls) + 1] = AllCall
  BY <1>0, <1>1, <1>2, PushFacts
<1>4. Top' = AllCall
  BY <1>3 DEF Top
<1>5. RunsTyped'
  <2>1. results' \in Seq(Results)
    BY <1>0
  <2> QED
    BY <1>0, <1>3, <2>1 DEF RunsTyped
<1>6. \A i \in 1..(Len(calls') - 1) : ~calls'[i].steady
  BY <1>1, <1>3
<1>7. ~InRun'
  BY <1>2, <1>4 DEF InRun
<1>8. RunningInRun'
  <2>1. ASSUME NEW i \in 1..Len(calls), calls[i].call = "run"
        PROVE  i \in 1..Len(calls') /\ calls'[i].call = "run"
    BY <1>1, <1>3, <2>1
  <2> QED
    BY <1>0, <2>1 DEF RunsInv, RunningInRun
<1>9. BetweenTurns'
  <2>1. 0 <= Cardinality(rows) /\ Len(results') = 0 /\ 1..0 = {}
    BY <1>0, RowsFinite
  <2> QED
    BY <1>0, <1>2, <1>4, <2>1 DEF BetweenTurns, Collected
<1> QED
  BY <1>5, <1>6, <1>7, <1>8, <1>9
  DEF RunsInv, Nesting, ResultInMaking, InTest

(* Under a loop that is on top, no call is steady.                         *)
LEMMA UnderLoop ==
    ASSUME RunsInv, InLoop
    PROVE  /\ \A i \in 1..(Len(calls) - 1) : ~calls[i].steady
           /\ running => \E i \in 1..(Len(calls) - 1) : calls[i].call = "run"
<1>0. /\ RunsTyped /\ calls # <<>> /\ Top.call = "all"
      /\ Len(calls) \in Nat \ {0}
  BY TopFacts DEF RunsInv, InLoop
<1>1. \A i \in 1..(Len(calls) - 1) : ~calls[i].steady
  BY <1>0 DEF RunsInv, Nesting
<1>2. ASSUME NEW i \in 1..Len(calls), calls[i].call = "run"
      PROVE  i \in 1..(Len(calls) - 1)
  <2>1. i # Len(calls)
    BY <1>0, <1>2 DEF Top
  <2> QED
    BY <1>0, <2>1
<1> QED
  BY <1>1, <1>2 DEF RunsInv, RunningInRun

(* The loop runs the test of its next row ...                              *)
LEMMA NextTestStep ==
    ASSUME StoreInv, RunsInv, NextTest
    PROVE  StoreInv' /\ RunsInv'
<1>0. /\ TypeOK /\ RunsTyped /\ InLoop /\ Top.row < Cardinality(rows)
      /\ RunTestScript(RowAt(Top.row), TurnDone(TRUE))
      /\ UNCHANGED <<mode, results>>
      /\ calls # <<>>
  BY DEF StoreInv, RunsInv, NextTest, InTurn, InLoop
<1>1. PICK r \in Nat : r = Top.row
  BY <1>0, TopFacts
<1>2. RowAt(r) \in rows
  BY <1>0, <1>1, RowAtFacts
<1>3. PICK n \in Nat \ {0} : n = Len(calls)
  BY <1>0, TopFacts
<1>4. /\ TurnDone(TRUE) \in Seq(Calls) /\ Len(TurnDone(TRUE)) = n
      /\ \A i \in 1..(n - 1) : TurnDone(TRUE)[i] = calls[i]
      /\ TurnDone(TRUE)[n].call = "all" /\ TurnDone(TRUE)[n].tests = Top.tests
      /\ TurnDone(TRUE)[n].row = r + 1
      /\ TurnDone(TRUE)[n].steady => Top.steady
  BY <1>0, <1>1, <1>3, TurnDoneFacts
<1>5. /\ StoreInv' /\ UNCHANGED rows /\ running' = TRUE /\ listOn' = FALSE
      /\ result' = [test |-> RowAt(r)[1], passed |-> TRUE] /\ result' \in Results
      /\ calls' \in Seq(Calls) /\ calls' # <<>> /\ Len(calls') = n + 1
      /\ \A i \in 1..n : calls'[i] = TurnDone(TRUE)[i]
      /\ Top'.call = "run" /\ Top'.test = RowAt(r)[1]
      /\ Top'.steady /\ ~Top'.threw
  BY <1>0, <1>1, <1>2, <1>4, RunBegins
<1>6. RunsTyped'
  BY <1>0, <1>5 DEF RunsTyped
<1>7. InRun' /\ ~InLoop'
  BY <1>5 DEF InRun, InLoop
<1>8. \A i \in 1..(n - 1) : ~calls'[i].steady
  <2>1. \A i \in 1..(n - 1) : ~calls[i].steady
    BY <1>0, <1>3, UnderLoop
  <2>2. \A i \in 1..(n - 1) : i \in 1..n
    OBVIOUS
  <2> QED
    BY <1>4, <1>5, <2>1, <2>2
<1>9. Nesting'
  <2>1. ASSUME NEW i \in 1..n, calls'[i].steady
        PROVE  i = n /\ calls'[i].call = "all"
    <3>1. i = n
      BY <1>8, <2>1
    <3> QED
      BY <1>4, <1>5, <3>1
  <2>2. Len(calls') - 1 = n
    BY <1>5
  <2> QED
    BY <1>5, <2>1, <2>2 DEF Nesting
<1>10. RunningInRun'
  BY <1>5 DEF RunningInRun, Top
<1>11. ResultInMaking'
  BY <1>5 DEF ResultInMaking
<1>12. InTest'
  <2>1. n \in 1..n /\ Len(calls') - 1 = n
    BY <1>5
  <2>2. calls'[n].row = r + 1 /\ calls'[n].tests = Top.tests
    BY <1>4, <1>5, <2>1
  <2> SUFFICES ASSUME calls'[n].steady
               PROVE  /\ calls'[n].row > 0
                      /\ calls'[n].tests = rows' /\ calls'[n].row <= Cardinality(rows')
                      /\ Len(results') = calls'[n].row - 1
                      /\ \A i \in 1..(calls'[n].row - 1) :
                            results'[i].test = (RowAt(i - 1)')[1]
                      /\ Top'.test = (RowAt(calls[n].row - 1)')[1]
    BY <2>1 DEF InTest, Collected
  <2>3. Top.steady
    BY <1>4, <1>5, <2>1
  <2>4. Collected(Top, r)
    BY <1>0, <1>1, <2>3 DEF RunsInv, BetweenTurns
  <2>5. \A i \in Int : RowAt(i)' = RowAt(i)
    BY <1>5, RowAtUnchanged
  <2>6. r + 1 > 0 /\ r + 1 <= Cardinality(rows) /\ r + 1 - 1 = r
    BY <1>0, <1>1, RowsFinite
  <2>7. PICK k \in Nat : k = r + 1 /\ k = calls'[n].row /\ k - 1 = r
    BY <2>2, <2>6
  <2>8. /\ \A i \in 1..r : RowAt(i - 1)' = RowAt(i - 1)
        /\ RowAt(k - 1)' = RowAt(r)
    BY <2>5, <2>7
  <2> QED
    BY <1>0, <1>5, <2>2, <2>4, <2>6, <2>7, <2>8 DEF Collected
<1> QED
  BY <1>5, <1>6, <1>7, <1>9, <1>10, <1>11, <1>12 DEF RunsInv, BetweenTurns

(* ... or the user cancels it.                                             *)
LEMMA CancelTestStep ==
    ASSUME RunsInv, CancelTest
    PROVE  RunsInv'
<1>0. /\ RunsTyped /\ InLoop /\ calls' = TurnDone(FALSE)
      /\ UNCHANGED <<rows, running, listOn, mode, result, results>>
  BY DEF RunsInv, CancelTest, InTurn, storeVars
<1>1. /\ calls' \in Seq(Calls) /\ Len(calls') = Len(calls)
      /\ Len(calls) \in Nat \ {0}
      /\ \A i \in 1..(Len(calls) - 1) : calls'[i] = calls[i]
      /\ calls'[Len(calls)].call = "all" /\ ~calls'[Len(calls)].steady
  BY <1>0, TurnDoneFacts
<1>2. Top'.call = "all" /\ ~Top'.steady
  BY <1>1 DEF Top
<1>3. RunsTyped'
  BY <1>0, <1>1 DEF RunsTyped
<1>4. \A i \in 1..(Len(calls') - 1) : ~calls'[i].steady
  BY <1>0, <1>1, UnderLoop
<1>5. RunningInRun'
  <2>1. running => \E i \in 1..(Len(calls) - 1) : calls[i].call = "run"
    BY <1>0, UnderLoop
  <2>2. \A i \in 1..(Len(calls) - 1) : i \in 1..Len(calls')
    BY <1>1
  <2> QED
    BY <1>0, <1>1, <2>1, <2>2 DEF RunningInRun
<1>6. ~InRun'
  BY <1>2 DEF InRun
<1> QED
  BY <1>2, <1>3, <1>4, <1>5, <1>6
  DEF RunsInv, Nesting, ResultInMaking, BetweenTurns, InTest

(* The top call returns.                                                   *)
LEMMA PopStep ==
    ASSUME RunsTyped, calls # <<>>, calls' = Front(calls)
    PROVE  /\ calls' \in Seq(Calls) /\ Len(calls) \in Nat \ {0}
           /\ Len(calls') = Len(calls) - 1
           /\ \A i \in 1..(Len(calls) - 1) : calls'[i] = calls[i]
           /\ calls' # <<>> => /\ Len(calls) - 1 \in 1..(Len(calls) - 1)
                               /\ Top' = calls[Len(calls) - 1]
                               /\ Len(calls) > 1
<1>1. /\ calls' \in Seq(Calls) /\ Len(calls) \in Nat \ {0}
      /\ Len(calls') = Len(calls) - 1
      /\ \A i \in 1..(Len(calls) - 1) : calls'[i] = calls[i]
      /\ calls' # <<>> => Len(calls) > 1
  BY PopFacts DEF RunsTyped
<1>2. ASSUME calls' # <<>>
      PROVE  /\ Len(calls) - 1 \in 1..(Len(calls) - 1)
             /\ Top' = calls[Len(calls) - 1]
  BY <1>1, <1>2 DEF Top
<1> QED
  BY <1>1, <1>2

(* A test ends: its result is filed.                                       *)
LEMMA TestFinishedStep ==
    ASSUME RunsInv, TestFinished
    PROVE  RunsInv'
<1>0. /\ RunsTyped /\ InRun /\ calls # <<>> /\ Top.call = "run"
      /\ calls' = Front(calls) /\ running' = FALSE /\ listOn' = TRUE
      /\ results' = Append(results, result)
      /\ UNCHANGED <<rows, mode, result>>
  BY DEF RunsInv, TestFinished, storeVars, InRun
<1>1. PICK n \in Nat \ {0} : n = Len(calls)
  BY <1>0, TopFacts
<1>2. /\ calls' \in Seq(Calls) /\ Len(calls') = n - 1
      /\ \A i \in 1..(n - 1) : calls'[i] = calls[i]
      /\ calls' # <<>> => /\ n - 1 \in 1..(n - 1) /\ n > 1
                          /\ Top' = calls[n - 1]
  BY <1>0, <1>1, PopStep
<1>3. /\ results' \in Seq(Results) /\ Len(results) \in Nat
      /\ Len(results') = Len(results) + 1
      /\ \A i \in 1..Len(results) : results'[i] = results[i]
      /\ results'[Len(results) + 1] = result
  BY <1>0 DEF RunsTyped
<1>4. RunsTyped'
  BY <1>0, <1>2, <1>3 DEF RunsTyped
<1>5. \A i \in 1..(n - 2) : ~calls'[i].steady
  <2>1. \A i \in 1..(n - 2) : i \in 1..(n - 1) /\ i # n - 1
    OBVIOUS
  <2> QED
    BY <1>1, <1>2, <2>1 DEF RunsInv, Nesting
<1>6. calls' # <<>> /\ Top'.steady => Top'.call = "all" /\ Top.steady
  BY <1>1, <1>2 DEF RunsInv, Nesting
<1>7. Nesting'
  <2>1. Len(calls') - 1 = n - 2
    BY <1>2
  <2> QED
    BY <1>5, <2>1 DEF Nesting
<1>8. ~(InRun' /\ Top'.steady)
  BY <1>6 DEF InRun
<1>9. BetweenTurns'
  <2> SUFFICES ASSUME calls' # <<>>, Top'.steady
               PROVE  /\ Top'.tests = rows' /\ Top'.row <= Cardinality(rows')
                      /\ Len(results') = Top'.row
                      /\ \A i \in 1..Top'.row : results'[i].test = (RowAt(i - 1)')[1]
    BY <1>0 DEF BetweenTurns, Collected, InLoop
  <2>1. PICK loop \in Calls : loop = calls[n - 1] /\ loop = Top'
    BY <1>0, <1>1, <1>2 DEF RunsTyped
  <2>2. /\ loop.row > 0 /\ Collected(loop, loop.row - 1)
        /\ Top.test = RowAt(loop.row - 1)[1]
    BY <1>0, <1>1, <1>2, <2>1 DEF RunsInv, InTest
  <2>3. PICK k \in Nat : k = loop.row /\ k > 0
    BY <2>1, <2>2 DEF Calls
  <2>4. Len(results) = k - 1 /\ Len(results') = k
    BY <1>3, <2>2, <2>3 DEF Collected
  <2>5. result.test = RowAt(k - 1)[1]
    BY <1>0, <1>6, <2>2, <2>3 DEF RunsInv, ResultInMaking
  <2>6. \A i \in Int : RowAt(i)' = RowAt(i)
    BY <1>0, RowAtUnchanged
  <2>7. ASSUME NEW i \in 1..k PROVE results'[i].test = (RowAt(i - 1)')[1]
    <3>1. RowAt(i - 1)' = RowAt(i - 1)
      BY <2>6
    <3>2. CASE i = k
      BY <1>3, <2>4, <2>5, <3>1, <3>2
    <3>3. CASE i # k
      <4>1. i \in 1..(k - 1) /\ i \in 1..Len(results)
        BY <2>4, <3>3
      <4>2. results[i].test = RowAt(i - 1)[1]
        BY <2>2, <2>3, <4>1 DEF Collected
      <4> QED
        BY <1>3, <3>1, <4>1, <4>2
    <3> QED
      BY <3>2, <3>3
  <2> QED
    BY <1>0, <2>1, <2>2, <2>3, <2>4, <2>7 DEF Collected
<1>10. InTest'
  <2>1. ASSUME Len(calls') > 1 PROVE ~calls'[Len(calls') - 1].steady
    <3>1. Len(calls') - 1 \in 1..(n - 2)
      BY <1>2, <2>1
    <3> QED
      BY <1>5, <3>1
  <2> QED
    BY <2>1 DEF InTest
<1> QED
  BY <1>0, <1>4, <1>7, <1>8, <1>9, <1>10 DEF RunsInv, RunningInRun, ResultInMaking

(* A loop ends: no call under it is steady.                                *)
LEMMA ShowResultsStep ==
    ASSUME RunsInv, ShowResults
    PROVE  RunsInv'
<1>0. /\ RunsTyped /\ InLoop /\ calls # <<>>
      /\ calls' = Front(calls) /\ listOn' = TRUE /\ mode' = "Interactive"
      /\ UNCHANGED <<rows, running, result, results>>
  BY DEF RunsInv, ShowResults, storeVars, InLoop
<1>1. PICK n \in Nat \ {0} : n = Len(calls)
  BY <1>0, TopFacts
<1>2. /\ calls' \in Seq(Calls) /\ Len(calls') = n - 1
      /\ \A i \in 1..(n - 1) : calls'[i] = calls[i]
      /\ calls' # <<>> => /\ n - 1 \in 1..(n - 1) /\ n > 1
                          /\ Top' = calls[n - 1]
  BY <1>0, <1>1, PopStep
<1>3. RunsTyped'
  BY <1>0, <1>2 DEF RunsTyped
<1>4. \A i \in 1..(n - 1) : ~calls'[i].steady
  BY <1>0, <1>1, <1>2, UnderLoop
<1>5. calls' # <<>> => ~Top'.steady
  BY <1>2, <1>4
<1>6. RunningInRun'
  <2>1. running => \E i \in 1..(n - 1) : calls[i].call = "run"
    BY <1>0, <1>1, UnderLoop
  <2> QED
    BY <1>0, <1>2, <2>1 DEF RunningInRun
<1>7. \A i \in 1..(Len(calls') - 1) : ~calls'[i].steady
  <2>1. \A i \in 1..(Len(calls') - 1) : i \in 1..(n - 1)
    BY <1>2
  <2> QED
    BY <1>4, <2>1
<1>8. InTest'
  <2>1. Len(calls') > 1 => Len(calls') - 1 \in 1..(Len(calls') - 1)
    BY <1>2
  <2> QED
    BY <1>7, <2>1 DEF InTest
<1> QED
  BY <1>3, <1>5, <1>6, <1>7, <1>8
  DEF RunsInv, Nesting, ResultInMaking, BetweenTurns, InRun, InLoop

(* A test throws: the run on top and m_testResult both say so.             *)
LEMMA LogExceptionStep ==
    ASSUME RunsInv, LogException
    PROVE  RunsInv'
<1>0. /\ RunsTyped /\ InRun /\ calls # <<>> /\ Top.call = "run"
      /\ calls' = [calls EXCEPT ![Len(calls)].threw = TRUE]
      /\ result' = [result EXCEPT !.passed = FALSE]
      /\ UNCHANGED <<rows, running, listOn, mode, results>>
  BY DEF RunsInv, LogException, ShowError, storeVars, InRun
<1>1. PICK n \in Nat \ {0} : n = Len(calls)
  BY <1>0, TopFacts
<1>2. calls \in Seq(Calls) /\ Top \in Calls /\ result \in Results
  BY <1>0, TopFacts DEF RunsTyped
<1>3. PICK run : run = [Top EXCEPT !.threw = TRUE]
  OBVIOUS
<1>4. /\ run \in Calls /\ run.call = Top.call /\ run.test = Top.test
      /\ run.threw = TRUE /\ run.steady = Top.steady
  <2>1. ASSUME NEW c \in Calls, NEW d, d = [c EXCEPT !.threw = TRUE]
        PROVE  /\ d \in Calls /\ d.call = c.call /\ d.test = c.test
               /\ d.threw = TRUE /\ d.steady = c.steady
    BY <2>1 DEF Calls
  <2> QED
    BY <1>2, <1>3, <2>1
<1>5. /\ calls' \in Seq(Calls) /\ Len(calls') = n /\ calls'[n] = run
      /\ \A i \in 1..(n - 1) : calls'[i] = calls[i]
  <2>1. calls' = [calls EXCEPT ![n] = run]
    BY <1>0, <1>1, <1>3 DEF Top
  <2>2. n \in 1..Len(calls) /\ DOMAIN calls = 1..Len(calls)
    BY <1>1, <1>2
  <2> QED
    BY <1>1, <1>2, <1>4, <2>1, <2>2
<1>6. result' \in Results /\ result'.test = result.test /\ result'.passed = FALSE
  BY <1>0, <1>2 DEF Results
<1>7. Top' = run
  BY <1>5 DEF Top
<1>8. RunsTyped'
  BY <1>0, <1>5, <1>6 DEF RunsTyped
<1>9. calls' # <<>>
  BY <1>5, EmptyCalls
<1>10. Nesting'
  <2>1. ASSUME NEW i \in 1..(n - 1), calls'[i].steady
        PROVE  /\ i = n - 1 /\ calls'[i].call = "all" /\ Top.call = "run" /\ Top.steady
    BY <1>1, <1>5, <2>1 DEF RunsInv, Nesting
  <2> QED
    BY <1>4, <1>5, <1>7, <2>1 DEF Nesting
<1>11. RunningInRun'
  <2>1. n \in 1..Len(calls')
    BY <1>5
  <2>2. calls'[n].call = "run"
    BY <1>0, <1>4, <1>5
  <2> QED
    BY <2>1, <2>2 DEF RunningInRun
<1>12. ResultInMaking'
  <2>1. ASSUME Top.steady PROVE result' = [test |-> run.test, passed |-> ~run.threw]
    <3>1. result = [test |-> Top.test, passed |-> ~Top.threw]
      BY <1>0, <2>1 DEF RunsInv, ResultInMaking
    <3>2. result' = [test |-> Top.test, passed |-> FALSE]
      <4>1. result.test = Top.test
        BY <3>1
      <4>2. \A r \in Results : r = [test |-> r.test, passed |-> r.passed]
        BY DEF Results
      <4> QED
        BY <1>6, <4>1, <4>2
    <3> QED
      BY <1>4, <3>2
  <2> QED
    BY <1>4, <1>7, <2>1 DEF ResultInMaking
<1>13. ~InLoop'
  BY <1>0, <1>4, <1>7 DEF InLoop
<1>14. InTest'
  <2> SUFFICES ASSUME n > 1, NEW m \in Nat, m = n - 1, calls'[m].steady
               PROVE  /\ calls'[m].row > 0
                      /\ calls'[m].tests = rows' /\ calls'[m].row <= Cardinality(rows')
                      /\ Len(results') = calls'[m].row - 1
                      /\ \A i \in 1..(calls'[m].row - 1) :
                            results'[i].test = (RowAt(i - 1)')[1]
                      /\ Top'.test = (RowAt(calls[m].row - 1)')[1]
    BY <1>5 DEF InTest, Collected
  <2>1. m \in 1..(n - 1) /\ calls'[m] = calls[m] /\ calls[m] \in Calls
    BY <1>1, <1>2, <1>5
  <2>2. /\ calls[m].row > 0 /\ Collected(calls[m], calls[m].row - 1)
        /\ Top.test = RowAt(calls[m].row - 1)[1]
    BY <1>0, <1>1, <2>1 DEF RunsInv, InTest
  <2>3. PICK k \in Nat : k = calls[m].row /\ k = calls'[m].row
    BY <2>1 DEF Calls
  <2>4. /\ \A i \in 1..(k - 1) : RowAt(i - 1)' = RowAt(i - 1)
        /\ RowAt(k - 1)' = RowAt(k - 1)
    BY <1>0, RowAtUnchanged
  <2> QED
    BY <1>0, <1>4, <1>7, <2>1, <2>2, <2>3, <2>4 DEF Collected
<1> QED
  BY <1>8, <1>10, <1>11, <1>12, <1>13, <1>14 DEF RunsInv, BetweenTurns

(* Hooq is started again: no call is in progress, and no result is kept.   *)
LEMMA QuitAndStartStep ==
    ASSUME RunsInv, QuitAndStart
    PROVE  RunsInv'
<1>0. /\ RunsTyped /\ calls = <<>> /\ calls' = calls
      /\ result' = NoResult /\ results' = <<>>
      /\ UNCHANGED <<running, listOn, mode>>
  BY DEF RunsInv, QuitAndStart
<1>1. RunsTyped'
  <2>1. results' \in Seq(Results)
    BY <1>0
  <2> QED
    BY <1>0, <2>1, NoResultFacts DEF RunsTyped
<1>2. ~InRun' /\ ~InLoop'
  BY <1>0 DEF InRun, InLoop
<1>3. Nesting' /\ RunningInRun'
  <2>1. Len(calls') = 0 /\ 1..(0 - 1) = {} /\ 1..0 = {}
    BY <1>0
  <2>2. ~running
    BY <1>0, <2>1 DEF RunsInv, RunningInRun
  <2> QED
    BY <1>0, <2>1, <2>2 DEF Nesting, RunningInRun
<1> QED
  BY <1>1, <1>2, <1>3 DEF RunsInv, ResultInMaking, BetweenTurns, InTest

-----------------------------------------------------------------------------
RunsIInv == StoreInv /\ RunsInv

(* Steps that leave the store alone.                                       *)
LEMMA StoreUnchanged == StoreInv /\ UNCHANGED storeVars => StoreInv'
  BY NextStoreInv

(* RunsIInv is inductive.                                                  *)
LEMMA NextRunsInv == RunsIInv /\ [Next]_vars => RunsIInv'
<1> SUFFICES ASSUME StoreInv, RunsInv, [Next]_vars PROVE StoreInv' /\ RunsInv'
  BY DEF RunsIInv
<1>0. RunsTyped /\ TypeOK
  BY DEF RunsInv, StoreInv
<1>1. CASE UseStore
  <2>1. /\ StoreNext /\ calls' = Relisted
        /\ UNCHANGED <<running, listOn, mode, result, results>>
    BY <1>1 DEF UseStore, StoreNext
  <2>2. StoreInv'
    BY <2>1, NextStoreInv
  <2>3. /\ calls' \in Seq(Calls) /\ Len(calls') = Len(calls)
        /\ \A i \in 1..Len(calls) :
             \/ calls'[i] = calls[i] /\ (rows' = rows \/ calls[i].call = "run")
             \/ /\ calls[i].call = "all" /\ calls'[i].call = "all"
                /\ ~calls'[i].steady
    BY <1>0, <2>1, RelistedFacts
  <2>4. RunsTyped'
    BY <1>0, <2>1, <2>3 DEF RunsTyped
  <2>5. RunsInv'
    BY <2>1, <2>3, <2>4, UsedStep
  <2> QED
    BY <2>2, <2>5
<1>2. CASE UNCHANGED vars
  <2>1. /\ UNCHANGED storeVars /\ rows' = rows
        /\ UNCHANGED <<calls, running, listOn, mode, result, results>>
    BY <1>2 DEF vars, storeVars, runVars
  <2>2. RunsTyped'
    BY <1>0, <2>1 DEF RunsTyped
  <2>3. RunsInv'
    BY <2>1, <2>2, UsedStep
  <2> QED
    BY <2>1, <2>3, StoreUnchanged
<1>3. ASSUME NEW f \in Files, RunTest(f) PROVE StoreInv' /\ RunsInv'
  BY <1>3, RunTestStep
<1>4. CASE NextTest
  BY <1>4, NextTestStep
<1>5. CASE TestFinished \/ RunAllTests \/ CancelTest \/ ShowResults
  <2>1. UNCHANGED storeVars
    BY <1>5 DEF TestFinished, RunAllTests, CancelTest, ShowResults
  <2>2. RunsInv'
    BY <1>0, <1>5, TestFinishedStep, RunAllTestsStep, CancelTestStep,
       ShowResultsStep
  <2> QED
    BY <2>1, <2>2, StoreUnchanged
<1>6. CASE LogException
  <2>1. StoreInv'
    BY <1>6, RunEditsStep, StoreUnchanged DEF LogException
  <2> QED
    BY <1>6, <2>1, LogExceptionStep
<1>7. CASE ObjectPicked
  <2>1. /\ InsertProperty /\ rows' = rows
        /\ UNCHANGED <<calls, running, listOn, mode, result, results>>
    BY <1>7 DEF ObjectPicked, InsertProperty, runVars
  <2>2. StoreInv'
    BY <2>1, RunEditsStep
  <2>3. RunsTyped'
    BY <1>0, <2>1 DEF RunsTyped
  <2>4. RunsInv'
    BY <2>1, <2>3, UsedStep
  <2> QED
    BY <2>2, <2>4
<1>8. CASE QuitAndStart
  <2>1. StoreInv'
    BY <1>8, QuitStep DEF QuitAndStart
  <2> QED
    BY <1>8, <2>1, QuitAndStartStep
<1> QED
  BY <1>1, <1>2, <1>3, <1>4, <1>5, <1>6, <1>7, <1>8 DEF Next

(* Runs in runs keep the store and the calls in order: the inductive       *)
(* invariant the results below rest on, for any nesting of calls.          *)
THEOREM RunsInvariance == Spec => []RunsIInv
<1>1. Init => RunsIInv
  BY InitStoreInv, InitRunsInv DEF Init, RunsIInv
<1> QED
  BY <1>1, NextRunsInv, PTL DEF Spec

(* The variables of the store and of the runs have their types; calls      *)
(* return to the one that made them.                                       *)
THEOREM TypesCorrect == Spec => []AllTypeOK
<1>1. RunsIInv => AllTypeOK
  BY StoreInvImplies, RunsInvImplies DEF RunsIInv, AllTypeOK
<1> QED
  BY <1>1, RunsInvariance, PTL

(* ScriptEditor::open, save, revert and closeEvent,                        *)
(* MainWindow::finishRecording, deleteCurrentTest and TestSetBackup, in    *)
(* any order and inside any run, never put the text of one test into the   *)
(* file of another.                                                        *)
THEOREM OwnFileCorrect == Spec => []NoScriptInForeignFile
<1>1. RunsIInv => NoScriptInForeignFile
  BY StoreInvImplies DEF RunsIInv
<1> QED
  BY <1>1, RunsInvariance, PTL

(* ScriptEditor::shouldCancelDocumentChange and save lose no edit that was *)
(* not discarded, unless it is one of an orphan: a document whose path     *)
(* Discard Changes cleared, whose set was removed, or that was closed in a *)
(* run and then shown by raiseError or filled in by insertLine.            *)
THEOREM EditsCorrect == Spec => []NoEditLostUnasked
<1>1. RunsIInv => NoEditLostUnasked
  BY StoreInvImplies DEF RunsIInv
<1> QED
  BY <1>1, RunsInvariance, PTL

(* MainWindow::waitForEndOfTest waits only for a run outside its own loop. *)
THEOREM WaitCorrect == Spec => []WaitsOnlyForOuterRun
<1>1. RunsIInv => WaitsOnlyForOuterRun
  BY RunsInvImplies DEF RunsIInv
<1> QED
  BY <1>1, RunsInvariance, PTL

-----------------------------------------------------------------------------
(* Only the end of a test files a result, and only a loop that shows its   *)
(* results returns from a loop.                                            *)
LEMMA ResultFiled ==
    ASSUME RunsIInv, [Next]_vars, Len(results') > Len(results)
    PROVE  TestFinished
<1>1. results \in Seq(Results) /\ Len(results) \in Nat
  BY DEF RunsIInv, RunsInv, RunsTyped
<1>2. results' # results
  BY <1>1
<1>3. results' # <<>>
  BY <1>1
<1>4. UNCHANGED vars => results' = results
  BY DEF vars, runVars
<1> QED
  BY <1>2, <1>3, <1>4
  DEF Next, UseStore, RunTest, LogException, ObjectPicked, RunAllTests, NextTest,
      CancelTest, ShowResults, QuitAndStart, runVars

(* MainWindow::testFinished files m_testResult under the test that ran,    *)
(* with its own verdict, for every run no other call was made in.          *)
THEOREM ResultCorrect == Spec => ResultOfItsTest
<1>1. ASSUME RunsIInv, [Next]_vars, Len(results') > Len(results), Top.steady
      PROVE  results'[Len(results')] = [test |-> Top.test, passed |-> ~Top.threw]
  <2>1. InRun /\ results' = Append(results, result)
    BY <1>1, ResultFiled DEF TestFinished
  <2>2. results \in Seq(Results) /\ result \in Results
    BY <1>1 DEF RunsIInv, RunsInv, RunsTyped
  <2>3. results'[Len(results')] = result
    BY <2>1, <2>2
  <2> QED
    BY <1>1, <2>1, <2>3 DEF RunsIInv, RunsInv, ResultInMaking
<1>2. RunsIInv /\ [Next]_vars =>
        [Len(results') > Len(results) /\ Top.steady =>
            results'[Len(results')] =
                [test |-> Top.test, passed |-> ~Top.threw]]_vars
  BY <1>1
<1> QED
  BY <1>2, RunsInvariance, PTL DEF Spec, ResultOfItsTest

(* MainWindow::runAllTests has filed one result for every test it listed,  *)
(* in the order of the list, when it shows them, unless the list changed,  *)
(* a test was cancelled or another call was made inside it.                *)
THEOREM ReportCorrect == Spec => AllTestsReported
<1>1. ASSUME RunsIInv, [Next]_vars, InLoop, Len(calls') < Len(calls), Top.steady
      PROVE  /\ Len(results) = Cardinality(Top.tests)
             /\ \A i \in DOMAIN results : results[i].test = RowAt(i - 1)[1]
  <2>0. /\ RunsInv /\ RunsTyped /\ StoreInv /\ TypeOK /\ calls # <<>>
        /\ Top.call = "all"
    BY <1>1 DEF RunsIInv, RunsInv, StoreInv, InLoop
  <2>1. Len(calls) \in Nat /\ Top.row \in Nat
    BY <2>0, TopFacts
  <2>2. ShowResults
    <3>1. CASE UNCHANGED vars \/ LogException \/ ObjectPicked \/ CancelTest
      <4>1. Len(calls') = Len(calls)
        <5>1. CASE UNCHANGED vars
          BY <5>1 DEF vars, runVars
        <5>2. CASE LogException
          BY <2>0, <5>2 DEF LogException, InRun
        <5>3. CASE CancelTest
          BY <1>1, <2>0, <5>3, TurnDoneFacts DEF CancelTest
        <5>4. CASE ObjectPicked
          BY <5>4 DEF ObjectPicked, runVars
        <5> QED
          BY <3>1, <5>1, <5>2, <5>3, <5>4
      <4> QED
        BY <1>1, <2>1, <4>1
    <3>2. CASE UseStore
      BY <1>1, <2>0, <2>1, <3>2, RelistedFacts DEF UseStore
    <3>3. ASSUME NEW f \in Files, RunTest(f) PROVE FALSE
      <4>1. /\ f \in rows /\ RunTestScript(f, Disturbed)
            /\ Disturbed \in Seq(Calls) /\ Len(Disturbed) = Len(calls)
        BY <2>0, <3>3, DisturbedFacts DEF RunTest
      <4>2. Len(calls') = Len(calls) + 1
        BY <2>0, <4>1, RunBegins
      <4> QED
        BY <1>1, <2>1, <4>2
    <3>4. CASE RunAllTests
      <4>1. /\ calls' = Append(Disturbed, AllCall)
            /\ Disturbed \in Seq(Calls) /\ Len(Disturbed) = Len(calls)
        BY <2>0, <3>4, DisturbedFacts DEF RunAllTests
      <4>2. Len(calls') = Len(calls) + 1
        BY <4>1
      <4> QED
        BY <1>1, <2>1, <4>2
    <3>5. CASE NextTest
      <4>1. /\ RunTestScript(RowAt(Top.row), TurnDone(TRUE))
            /\ Top.row < Cardinality(rows)
            /\ TurnDone(TRUE) \in Seq(Calls) /\ Len(TurnDone(TRUE)) = Len(calls)
        BY <1>1, <2>0, <3>5, TurnDoneFacts DEF NextTest, InTurn
      <4>2. RowAt(Top.row) \in rows
        BY <2>0, <2>1, <4>1, RowAtFacts
      <4>3. Len(calls') = Len(calls) + 1
        BY <2>0, <4>1, <4>2, RunBegins
      <4> QED
        BY <1>1, <2>1, <4>3
    <3>6. ~TestFinished /\ ~QuitAndStart
      BY <2>0 DEF TestFinished, InRun, QuitAndStart
    <3> QED
      BY <1>1, <3>1, <3>2, <3>3, <3>4, <3>5, <3>6 DEF Next
  <2>3. Collected(Top, Top.row)
    BY <1>1, <2>0 DEF RunsInv, BetweenTurns
  <2>4. Top.row = Cardinality(rows)
    BY <2>0, <2>1, <2>2, <2>3, RowsFinite DEF ShowResults, Collected
  <2>5. DOMAIN results = 1..Len(results)
    BY <2>0 DEF RunsTyped
  <2> QED
    BY <2>3, <2>4, <2>5 DEF Collected
<1>2. RunsIInv /\ [Next]_vars =>
        [InLoop /\ Len(calls') < Len(calls) /\ Top.steady =>
            /\ Len(results) = Cardinality(Top.tests)
            /\ \A i \in DOMAIN results : results[i].test = RowAt(i - 1)[1]]_vars
  BY <1>1
<1> QED
  BY <1>2, RunsInvariance, PTL DEF Spec, AllTestsReported

(* A test is run in a set that exists: the text the interpreter is given,  *)
(* and the document the editor has then.                                   *)
LEMMA ShownRun ==
    ASSUME StoreInv, dir, NEW f \in rows, NEW under \in Seq(Calls),
           RunTestScript(f, under)
    PROVE  LET run == calls'[Len(calls')]
           IN  \/ run.text = editor'.text
               \/ editor'.dirty \/ editor'.stale
               \/ /\ editor.stale
                  /\ editor'.path # ScriptPathIn(disk', run.test)
<1> DEFINE t == f[1]
           P == ScriptPath(t)
           Q == ScriptPathIn(disk', t)
<1>1. t \in Tests /\ TypeOK
  BY PathFacts DEF StoreInv, TypeOK
<1>2. PICK answer : Open(P, answer, FALSE)
  BY DEF RunTestScript
<1>3. /\ UNCHANGED <<dir, rows, archive, changes>>
      /\ calls' = Append(under, RunCall(t, ReadFrom(disk', Q)))
  BY DEF RunTestScript
<1>4. calls'[Len(calls')].text = ReadFrom(disk', Q) /\ calls'[Len(calls')].test = t
  BY <1>3 DEF RunCall
<1>5. /\ P = IF disk[<<t, "qs">>] # NoFile THEN <<t, "qs">> ELSE <<t, "hs">>
      /\ Q = IF disk'[<<t, "qs">>] # NoFile THEN <<t, "qs">> ELSE <<t, "hs">>
  BY DEF ScriptPath, ScriptPathIn
<1>6. /\ <<t, "qs">> \in Files /\ <<t, "hs">> \in Files
      /\ <<t, "qs">>[2] = "qs" /\ <<t, "qs">> # <<t, "hs">>
  BY <1>1, PathFacts
<1>7. editor \in Documents /\ disk \in Scripts
  BY <1>1 DEF TypeOK, Documents, Scripts
<1>8. CASE editor.path = P
  <2>1. editor' = [editor EXCEPT !.shown = @ \/ FALSE] /\ disk' = disk
    BY <1>2, <1>8 DEF Open
  <2>2. /\ editor'.text = editor.text /\ editor'.dirty = editor.dirty
        /\ editor'.stale = editor.stale
    BY <1>7, <2>1 DEF Documents
  <2>3. Q = P /\ P \in Files
    BY <1>5, <1>6, <2>1
  <2>4. ~editor.dirty /\ ~editor.stale => editor.text = ReadFrom(disk, P)
    BY <1>8, <2>3 DEF StoreInv, CurrentDocument
  <2>5. ReadFrom(disk', Q) = ReadFrom(disk, P)
    BY <2>1, <2>3
  <2> QED
    BY <1>4, <2>2, <2>4, <2>5
<1>9. CASE editor.path # P
  <2>1. /\ answer \in Answers \ {"Cancel"} /\ Leave(answer)
        /\ editor' = [path |-> P, text |-> ReadFrom(disk', P),
                      dirty |-> FALSE, shown |-> editor.shown \/ FALSE,
                      stale |-> FALSE]
    BY <1>2, <1>9 DEF Open
  <2>2. editor'.path = P /\ editor'.text = ReadFrom(disk', P)
    BY <2>1
  <2>3. CASE P = Q
    BY <1>4, <2>2, <2>3
  <2>4. CASE P # Q
    <3>1. /\ disk[<<t, "qs">>] = NoFile /\ disk'[<<t, "qs">>] # NoFile
      <4>1. disk[<<t, "qs">>] # NoFile => disk'[<<t, "qs">>] # NoFile
        BY <1>6, <2>1, LeaveOwn
      <4> QED
        BY <1>5, <2>4, <4>1
    <3>2. disk' = WriteTo(editor.path, editor.text)
      BY <2>1, <3>1 DEF Leave, SavedAs
    <3>3. editor.path = <<t, "qs">>
      <4>1. editor.path \in Paths /\ editor.text \in Texts \cup {NoText}
        BY <1>7 DEF Documents
      <4>2. disk'[<<t, "qs">>] =
              IF <<t, "qs">> = editor.path /\ dir THEN editor.text
              ELSE disk[<<t, "qs">>]
        BY <1>1, <1>6, <3>2, <4>1, WriteToFacts
      <4> QED
        BY <3>1, <4>2
    <3>4. editor.stale
      BY <1>6, <3>1, <3>3 DEF StoreInv, CurrentDocument
    <3> QED
      BY <1>4, <2>2, <2>4, <3>4
  <2> QED
    BY <2>3, <2>4
<1> QED
  BY <1>8, <1>9

(* MainWindow::runTestScript runs what ScriptEditor shows, but for unsaved *)
(* changes and files written or removed behind the editor's back: that the *)
(* path is looked up twice makes no other difference.                      *)
THEOREM ShownCorrect == Spec => RunsWhatIsShown
<1> DEFINE Shown ==
      LET run == calls'[Len(calls')]
      IN  \/ run.text = editor'.text
          \/ editor'.dirty \/ editor'.stale
          \/ /\ editor.stale
             /\ editor'.path # ScriptPathIn(disk', run.test)
<1>1. ASSUME RunsIInv, [Next]_vars, dir, Len(calls') > Len(calls),
             calls'[Len(calls')].call = "run"
      PROVE  Shown
  <2>0. /\ RunsInv /\ RunsTyped /\ StoreInv /\ TypeOK
        /\ Len(calls) \in Nat /\ calls \in Seq(Calls)
    BY <1>1 DEF RunsIInv, RunsInv, StoreInv, RunsTyped
  <2>1. ASSUME NEW f \in Files, RunTest(f) PROVE Shown
    <3>1. f \in rows /\ RunTestScript(f, Disturbed) /\ Disturbed \in Seq(Calls)
      BY <2>0, <2>1, DisturbedFacts DEF RunTest
    <3> QED
      BY <1>1, <2>0, <3>1, ShownRun
  <2>2. CASE NextTest
    <3>1. InLoop /\ calls # <<>> /\ Top.row < Cardinality(rows)
          /\ RunTestScript(RowAt(Top.row), TurnDone(TRUE))
      BY <2>2 DEF NextTest, InTurn, InLoop
    <3>2. TurnDone(TRUE) \in Seq(Calls)
      BY <2>0, <3>1, TurnDoneFacts
    <3>3. Top.row \in Nat
      BY <2>0, <3>1, TopFacts
    <3>4. RowAt(Top.row) \in rows
      BY <2>0, <3>1, <3>3, RowAtFacts
    <3> QED
      BY <1>1, <2>0, <3>1, <3>2, <3>4, ShownRun
  <2>3. ~RunAllTests
    <3>1. SUFFICES ASSUME RunAllTests PROVE FALSE
      OBVIOUS
    <3>2. calls' = Append(Disturbed, AllCall) /\ Disturbed \in Seq(Calls)
      BY <2>0, <3>1, DisturbedFacts DEF RunAllTests
    <3>3. calls'[Len(calls')].call = "all"
      BY <3>2 DEF AllCall
    <3> QED
      BY <1>1, <3>3
  <2>4. ~(TestFinished \/ ShowResults)
    <3>1. ASSUME calls # <<>>, calls' = Front(calls) PROVE FALSE
      BY <1>1, <2>0, <3>1, PopStep
    <3> QED
      BY <3>1 DEF TestFinished, ShowResults, InRun, InLoop
  <2>5. ~(UseStore \/ UNCHANGED vars)
    <3>1. UNCHANGED vars => calls' = calls
      BY DEF vars, runVars
    <3>2. UseStore => Len(calls') = Len(calls)
      BY <2>0, RelistedFacts DEF UseStore
    <3> QED
      BY <1>1, <2>0, <3>1, <3>2
  <2>6. ~(LogException \/ ObjectPicked \/ QuitAndStart)
    BY <1>1, <2>0 DEF LogException, ObjectPicked, QuitAndStart, runVars
  <2>7. ~CancelTest
    <3>1. CancelTest => Len(calls') = Len(calls)
      BY <2>0, TurnDoneFacts DEF CancelTest, InTurn
    <3> QED
      BY <1>1, <2>0, <3>1
  <2> QED
    BY <1>1, <2>1, <2>2, <2>3, <2>4, <2>5, <2>6, <2>7 DEF Next
<1>2. RunsIInv /\ [Next]_vars =>
        [dir /\ Len(calls') > Len(calls) /\ calls'[Len(calls')].call = "run" =>
            LET run == calls'[Len(calls')]
            IN  \/ run.text = editor'.text
                \/ editor'.dirty \/ editor'.stale
                \/ /\ editor.stale
                   /\ editor'.path # ScriptPathIn(disk', run.test)]_vars
  BY <1>1
<1> QED
  BY <1>2, RunsInvariance, PTL DEF Spec, RunsWhatIsShown
=============================================================================
