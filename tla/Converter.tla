----------------------------- MODULE Converter ------------------------------
(***************************************************************************)
(* src/hooq/XmlToQtScript*.cpp: from the recorded log to the test script.  *)
(*                                                                         *)
(* The log is an alternation of pauses and events (Logger::outputEvent).   *)
(* parseHooq makes an item of each, and itemString passes the items        *)
(* through the post-processors chosen in the window, in a fixed order.     *)
(* Each takes the first item off the list "in", may take more of it, may   *)
(* insert items through the Inserter, and leaves one item to append.       *)
(*                                                                         *)
(* Events that no post-processor looks at have the method "other"; n tells *)
(* them apart, is the point a mouse is moved to, and the character of a    *)
(* key.  The parameters that are only formatted are left out.              *)
(***************************************************************************)
EXTENDS Integers, SequencesExt

CONSTANTS
    Targets,    \* object paths
    Internal,   \* the paths of QShapedPixmapWidgets
    Keywords,   \* a path's parts after toKeyword
    NoTarget,
    StringNames, \* "string0", "string1", ...
    Alphabets,  \* bound: a log is made of the shapes of one of these sets
    OptionSets, \* bound: the choices of options that are converted
    MaxEvents   \* bound: events in the log

VARIABLES
    log,        \* the recorded events
    cut,        \* the log ends in a pause, its last event did not arrive
    options,    \* m_options
    phase,      \* "record", "convert", "done", or "failed" (an assertion)
    passes,     \* the post-processors still to run
    in,         \* items the current one has not taken
    inserter,   \* the Inserter and the list "out" that it points to
    objects,    \* ObjectVariablesPostProcessor::m_variables
    strings     \* StringVariablesPostProcessor::m_variables

vars == <<log, cut, options, phase, passes, in, inserter, objects, strings>>

(* The name of a script variable: keywords joined by "__", and "_count".   *)
Name(parts, count) == [parts |-> parts, count |-> count]
NoName == Name(<<>>, 0)

Methods ==
    {"msleep", "pressKey", "releaseKey", "moveMouse", "other", "sendText",
     "object", "string"}

(* XmlToQtScript::Item.  var replaces the target and arg the text once     *)
(* they are variables.                                                     *)
Names == [parts : Seq(STRING), count : Nat]
Item ==
    [method : Methods, target : Targets \cup {NoTarget},
     key : {"none", "text", "back"}, modified : BOOLEAN, n : Nat,
     text : Seq(Nat), var : Names, arg : Names]
NoItem ==
    [method |-> "", target |-> NoTarget, key |-> "none", modified |-> FALSE,
     n |-> 0, text |-> <<>>, var |-> NoName, arg |-> NoName]
IsValid(item) == item.method # ""
Msleep == [NoItem EXCEPT !.method = "msleep"]

(* The shape of an event: an Item whose n is set when it is recorded,      *)
(* except for a key.                                                       *)
Key(method, target, key, modified, n) ==
    [NoItem EXCEPT !.method = method, !.target = target, !.key = key,
                   !.modified = modified, !.n = n]
Event(method, target) ==
    [NoItem EXCEPT !.method = method, !.target = target]

IsMove(item) == item.method = "moveMouse"
IsKey(item) == item.method \in {"pressKey", "releaseKey"}

PostProcessors ==
    <<"FilterQtInternals", "SkipMouseMovements", "SimplifyMouseMovements",
      "SimplifyStrings", "ObjectVariables", "StringVariables">>

(* An event that Logger writes is not a pause and has a target.  There are *)
(* names for as many strings as a log can hold.                            *)
ASSUME ConverterAssumption ==
    /\ IsFiniteSet(Targets)
    /\ Internal \subseteq Targets /\ NoTarget \notin Targets
    /\ Keywords \in [Targets -> Seq(STRING) \ {<<>>}]
    /\ MaxEvents \in Nat
    /\ \A e \in UNION Alphabets :
          /\ e \in Item /\ e.target \in Targets
          /\ e.method \in {"pressKey", "releaseKey", "moveMouse", "other"}
          /\ e.var = NoName /\ e.arg = NoName
    /\ OptionSets \subseteq SUBSET Range(PostProcessors)
    /\ StringNames \in Seq(STRING) /\ IsInjective(StringNames)
    /\ MaxEvents <= Len(StringNames)

-----------------------------------------------------------------------------
(* QList::insert takes an index out of range for the nearest end.          *)
InsertIn(list, i, item) ==
    InsertAt(list, Max({0, Min({i, Len(list)})}) + 1, item)

(* mutant of Insert: the index of the current item does not move on *)
InsertInPlace(ins, item, position) ==
    [ins EXCEPT
       !.list = InsertIn(@, IF position = "Beginning" THEN ins.originalStart
                            ELSE ins.itemIndex, item),
       !.originalStart = IF position = "Beginning" THEN @ + 1 ELSE @]

(* Inserter::insert.                                                       *)
Insert(ins, item, position) ==
    [ins EXCEPT
       !.list = InsertIn(@, IF position = "Beginning" THEN ins.originalStart
                            ELSE ins.itemIndex, item),
       !.originalStart = IF position = "Beginning" THEN @ + 1 ELSE @,
       !.itemIndex = @ + 1]

(* Inserter::reset, which itemString calls before it clears the list.      *)
Reset(list) ==
    [list |-> <<>>, itemIndex |-> Len(list) - 1, originalStart |-> 0]

-----------------------------------------------------------------------------
(* The items are inserted one after the other.                             *)
InsertAll(ins, items, position) ==
    LET f[i \in 0..Len(items)] ==
            IF i = 0 THEN ins ELSE Insert(f[i - 1], items[i], position)
    IN f[Len(items)]

(* What a process() leaves: the current item, the rest of the list, what   *)
(* it inserted before the current item and at the beginning, and whether   *)
(* it took an item of an empty list or failed an assertion.                *)
Processed(item, rest, before, first, bad) ==
    [item |-> item, in |-> rest, before |-> before, first |-> first,
     bad |-> bad]
Untouched(item, list) == Processed(item, list, <<>>, <<>>, FALSE)

From(list, i) == SubSeq(list, i, Len(list))

Moves(list) == {e \in Range(list) : IsMove(e)}

(* How often a post-processor that takes (pause, item) pairs off the list  *)
(* goes on when it takes these items.                                      *)
Pairs(list, taken) ==
    Max({r \in 0..(Len(list) \div 2) :
            \A j \in 1..r : list[2 * j] \in taken})

(* FilterQtInternalsPostProcessor: items are called "msleep", so that the  *)
(* pause is never dropped with its event.                                  *)
FilterQtInternals(item, list) ==
    IF item.target \notin Internal THEN Untouched(item, list)
    ELSE Processed(NoItem,
                   IF list # <<>> /\ Head(list).method = "msec"
                   THEN Tail(list) ELSE list,
                   <<>>, <<>>, list = <<>>)

(* mutant of SkipMouseMovements: the event after the moves is dropped *)
SkipMouseMovementsAndNext(item, list) ==
    IF ~IsMove(item) THEN Untouched(item, list)
    ELSE LET rest == From(list, 2 * Pairs(list, Moves(list)) + 1)
         IN Processed(NoItem, From(rest, 3), <<>>, <<>>, Len(rest) = 1)

(* mutant of SkipMouseMovements: a last move is not told apart *)
SkipMouseMovementsAll(item, list) ==
    IF ~IsMove(item) THEN Untouched(item, list)
    ELSE LET rest == From(list, 2 * Pairs(list, Moves(list)) + 1) IN
         IF rest = <<>> THEN Processed(NoItem, <<>>, <<>>, <<>>, TRUE)
         ELSE IF Len(rest) = 1 THEN Processed(item, <<>>, <<>>, <<>>, TRUE)
         ELSE Processed(rest[2], From(rest, 3), <<>>, <<>>, FALSE)

(* StripMouseMovementsPostProcessor: a move is dropped with its pause, and *)
(* the item after it is processed in its place.                            *)
SkipMouseMovements(item, list) ==
    IF ~IsMove(item) THEN Untouched(item, list)
    ELSE LET rest == From(list, 2 * Pairs(list, Moves(list)) + 1) IN
         IF rest = <<>> THEN Processed(NoItem, <<>>, <<>>, <<>>, FALSE)
         ELSE IF Len(rest) = 1 THEN Processed(item, <<>>, <<>>, <<>>, TRUE)
         ELSE Processed(rest[2], From(rest, 3), <<>>, <<>>, FALSE)

(* mutant of SameMove: objects are not told apart *)
SameMoveAnywhere(e, target) == IsMove(e)

SameMove(e, target) == IsMove(e) /\ e.target = target

(* SimplifyMouseMovementsPostProcessor: moves over one target become one   *)
(* move to the point of the last, and the pause after them is the current  *)
(* item.  When the list ends in a move, that move is the current item.     *)
SimplifyMouseMovements(item, list) ==
    IF ~IsMove(item) THEN Untouched(item, list)
    ELSE LET r == Pairs(list, {e \in Range(list) : SameMove(e, item.target)})
             last == IF r = 0 THEN item ELSE list[2 * r]
             rest == From(list, 2 * r + 1)
             moved == <<[item EXCEPT !.n = last.n]>>
         IN IF rest = <<>> THEN Processed(last, <<>>, moved, <<>>, FALSE)
            ELSE Processed(rest[1], Tail(rest), moved, <<>>, FALSE)

(* What a plain key press does to a text.                                  *)
Typed(text, e) ==
    IF e.method # "pressKey" \/ e.modified \/ e.key = "none" THEN text
    ELSE IF e.key = "text" THEN Append(text, e.n)
    ELSE IF text = <<>> THEN text ELSE Front(text)

(* mutant of GoesOn: objects are not told apart *)
GoesOnAnywhere(e, target) == IsKey(e)

(* A press is part of the string when the next event is one of these.      *)
GoesOn(e, target) == IsKey(e) /\ e.target = target

(* SimplifyStringsPostProcessor: At(j) is the j-th item it looks at.  It   *)
(* stops at an item that is not a key, is modified, or is a press that no  *)
(* key of the target follows; at a release it takes the next two items     *)
(* unless the list is empty, whatever the target.                          *)
SimplifyStrings(item, list) ==
    IF item.method # "pressKey" THEN Untouched(item, list)
    ELSE LET At(j) == IF j = 0 THEN item ELSE list[2 * j]
             Stops(j) ==
                \/ ~IsKey(At(j)) \/ At(j).modified
                \/ Len(list) < 2 * j + 2
                \/ /\ At(j).method = "pressKey"
                   /\ ~GoesOn(At(j + 1), item.target)
             s == Min({j \in 0..(Len(list) \div 2) : Stops(j)})
             typed[j \in 0..s] ==
                IF j = 0 THEN <<>> ELSE Typed(typed[j - 1], At(j - 1))
             text == typed[s]
             sent == [NoItem EXCEPT !.method = "sendText",
                                    !.target = item.target, !.text = text]
         IN Processed(At(s), From(list, 2 * s + 1),
                      IF text = <<>> THEN <<>>
                      ELSE <<sent, list[2 * s - 1]>>,
                      <<>>,
                      /\ At(s).method = "releaseKey" /\ ~At(s).modified
                      /\ Len(list) = 2 * s + 1)

(* mutant of NameFor: the name with the parent is not looked up *)
NameForUncounted(t) ==
    LET parts == Keywords[t]
        short == Name(<<Last(parts)>>, 0)
    IN IF short \notin Range(objects) THEN short
       ELSE Name(From(parts, Max({1, Len(parts) - 1})), 0)

(* The name ObjectVariablesPostProcessor chooses for a new path.           *)
NameFor(t) ==
    LET parts == Keywords[t]
        used == Range(objects)
        short == Name(<<Last(parts)>>, 0)
        long == Name(From(parts, Max({1, Len(parts) - 1})), 0)
        counted(c) == Name(long.parts, c)
    IN IF short \notin used THEN short
       ELSE IF long \notin used THEN long
       ELSE counted(Min({c \in 2..(Cardinality(used) + 2) :
                            counted(c) \notin used}))

(* ObjectVariablesPostProcessor and the path it adds to m_variables.       *)
NewObject(item) ==
    item.target # NoTarget /\ objects[item.target] = NoName
ObjectsAfter(item) ==
    IF NewObject(item)
    THEN [objects EXCEPT ![item.target] = NameFor(item.target)]
    ELSE objects
ObjectVariables(item, list) ==
    LET name == ObjectsAfter(item)[item.target]
    IN IF item.target = NoTarget THEN Untouched(item, list)
       ELSE Processed([item EXCEPT !.target = NoTarget, !.var = name],
                      list,
                      IF NewObject(item)
                      THEN <<[NoItem EXCEPT !.method = "object",
                                !.target = item.target, !.var = name]>>
                      ELSE <<>>,
                      <<>>, FALSE)

(* StringVariablesPostProcessor.                                           *)
StringName(text) == Name(<<StringNames[Min(
        {i \in 1..Len(strings) : strings[i] = text}
            \cup {Len(strings) + 1})]>>, 0)
NewString(item) == item.method = "sendText" /\ ~Contains(strings, item.text)
StringVariables(item, list) ==
    IF item.method # "sendText" THEN Untouched(item, list)
    ELSE LET name == StringName(item.text) IN
         Processed([item EXCEPT !.text = <<>>, !.arg = name],
                   list, <<>>,
                   IF NewString(item)
                   THEN <<[NoItem EXCEPT !.method = "string",
                             !.text = item.text, !.arg = name]>>
                   ELSE <<>>,
                   FALSE)

(* The post-processor whose turn it is.                                    *)
Current ==
    PostProcessors[Min({i \in DOMAIN PostProcessors :
                            PostProcessors[i] \in passes})]

Process(processor, item, list) ==
    CASE processor = "FilterQtInternals" -> FilterQtInternals(item, list)
      [] processor = "SkipMouseMovements" -> SkipMouseMovements(item, list)
      [] processor = "SimplifyMouseMovements" ->
            SimplifyMouseMovements(item, list)
      [] processor = "SimplifyStrings" -> SimplifyStrings(item, list)
      [] processor = "ObjectVariables" -> ObjectVariables(item, list)
      [] processor = "StringVariables" -> StringVariables(item, list)

-----------------------------------------------------------------------------
Init ==
    /\ log = <<>> /\ cut = FALSE /\ options = {}
    /\ phase = "record"
    /\ passes = {} /\ in = <<>>
    /\ inserter = Reset(<<>>)
    /\ objects = [t \in Targets |-> NoName]
    /\ strings = <<>>

Shape(e) == IF IsKey(e) THEN e ELSE [e EXCEPT !.n = 0]

(* Logger::outputEvent.                                                    *)
Record(shape) ==
    /\ phase = "record"
    /\ Len(log) < MaxEvents
    /\ \E alphabet \in Alphabets :
            {shape} \cup {Shape(log[i]) : i \in DOMAIN log} \subseteq alphabet
    /\ log' = Append(log, IF IsKey(shape) THEN shape
                          ELSE [shape EXCEPT !.n = Len(log) + 1])
    /\ UNCHANGED <<cut, options, phase, passes, in, inserter, objects,
                   strings>>

(* The items parseHooq makes of the log.                                   *)
Items(short) ==
    [i \in 1..(2 * Len(log) + (IF short THEN 1 ELSE 0)) |->
        IF i % 2 = 1 THEN Msleep ELSE log[i \div 2]]

(* The end of finishRecording, parse, parseHooq and the post-processors    *)
(* that itemString makes.                                                  *)
Parse(chosen, short) ==
    /\ phase = "record"
    /\ phase' = "convert"
    /\ cut' = short
    /\ options' = chosen
    /\ passes' = chosen
    /\ in' = Items(short)
    /\ UNCHANGED <<log, inserter, objects, strings>>

(* One turn of the inner loop of itemString.                               *)
ProcessItem ==
    /\ phase = "convert"
    /\ passes # {} /\ in # <<>>
    /\ LET done == Process(Current, Head(in), Tail(in))
           before == InsertAll(inserter, done.before, "BeforeCurrentItem")
           first == InsertAll(before, done.first, "Beginning")
       IN /\ phase' = IF done.bad THEN "failed" ELSE phase
          /\ in' = done.in
          /\ inserter' =
                [first EXCEPT !.itemIndex = @ + 1,
                    !.list = IF IsValid(done.item) THEN Append(@, done.item)
                             ELSE @]
    /\ objects' = IF Current = "ObjectVariables"
                  THEN ObjectsAfter(Head(in)) ELSE objects
    /\ strings' = IF Current = "StringVariables" /\ NewString(Head(in))
                  THEN Append(strings, Head(in).text) ELSE strings
    /\ UNCHANGED <<log, cut, options, passes>>

(* The end of a pass: its output is the input of the next.                 *)
EndPass ==
    /\ phase = "convert"
    /\ passes # {} /\ in = <<>>
    /\ passes' = passes \ {Current}
    /\ in' = inserter.list
    /\ inserter' = Reset(inserter.list)
    /\ UNCHANGED <<log, cut, options, phase, objects, strings>>

(* serialize: "in" is the script.                                          *)
Serialize ==
    /\ phase = "convert"
    /\ passes = {}
    /\ phase' = "done"
    /\ UNCHANGED <<log, cut, options, passes, in, inserter, objects,
                   strings>>

Next ==
    \/ \E shape \in UNION Alphabets : Record(shape)
    \/ \E chosen \in OptionSets, short \in BOOLEAN : Parse(chosen, short)
    \/ ProcessItem
    \/ EndPass
    \/ Serialize

Spec == Init /\ [][Next]_vars

-----------------------------------------------------------------------------
(* The recorder, the window and the converter: the state has its types.    *)
(* Every item in a list is valid, the Inserter's index is at most one      *)
(* behind the end of its list, and no more strings are sent than events    *)
(* were recorded.                                                          *)
TypeOK ==
    /\ phase \in {"record", "convert", "done", "failed"}
    /\ cut \in BOOLEAN
    /\ options \subseteq Range(PostProcessors) /\ passes \subseteq options
    /\ log \in Seq(Item) /\ in \in Seq(Item)
    /\ inserter \in [list : Seq(Item), itemIndex : Int, originalStart : Nat]
    /\ inserter.itemIndex >= Len(inserter.list) - 1
    /\ inserter.originalStart <= Len(inserter.list)
    /\ objects \in [Targets -> Names]
    /\ strings \in Seq(Seq(Nat)) /\ Len(strings) <= Len(log)

(* What the script statement s[i] does, with its variables looked up: the  *)
(* last declaration of the name before it.                                 *)
Declares(item, name) ==
    \/ item.method = "object" /\ item.var = name
    \/ item.method = "string" /\ item.arg = name
Declared(s, i, name) ==
    LET before == {j \in 1..(i - 1) : Declares(s[j], name)}
    IN IF before = {} THEN NoItem ELSE s[Max(before)]
Statement(s, i) ==
    [s[i] EXCEPT
       !.target = IF s[i].var = NoName THEN @
                  ELSE Declared(s, i, s[i].var).target,
       !.var = NoName,
       !.text = IF s[i].arg = NoName THEN @
                ELSE Declared(s, i, s[i].arg).text,
       !.arg = NoName]
Script ==
    SelectSeq([i \in DOMAIN in |-> Statement(in, i)],
              LAMBDA item : item.method \notin {"object", "string"})

(* The recorded events that the options ask for.                           *)
Wanted ==
    SelectSeq(log, LAMBDA e : ~(/\ "FilterQtInternals" \in options
                                /\ e.target \in Internal))

(* A widget whose name is also the name of a string variable.              *)
Clash ==
    \E e \in Range(log) : \E i \in DOMAIN StringNames :
        Last(Keywords[e.target]) = StringNames[i]

(* The post-processors take items off the list by the rhythm of pauses and *)
(* events and never off an empty list, unless the log was cut after a      *)
(* pause, ends in an event of an internal widget that is filtered, or ends *)
(* in a move: SkipMouseMovements drops it and leaves its pause last, which *)
(* SimplifyStrings may take for the pause before another event.            *)
FailsOnlyAtEnd ==
    phase = "failed" =>
        \/ cut
        \/ /\ "FilterQtInternals" \in options
           /\ Last(log).target \in Internal
        \/ /\ {"SkipMouseMovements", "SimplifyStrings"} \subseteq options
           /\ IsMove(Last(log))

(* The position of the mouse at each event that is neither a move nor      *)
(* typing.                                                                 *)
Acts(s) ==
    FoldLeft(LAMBDA acc, e :
        IF IsMove(e) THEN [acc EXCEPT !.at = <<e.target, e.n>>]
        ELSE IF e.method = "other" \/ (e.method = "pressKey" /\ e.modified)
             THEN [acc EXCEPT !.acts = Append(@,
                        [method |-> e.method, target |-> e.target,
                         n |-> e.n, at |-> acc.at])]
             ELSE acc,
        [at |-> <<NoTarget, 0>>, acts |-> <<>>], s).acts
Unplaced(acts) ==
    [i \in DOMAIN acts |-> [acts[i] EXCEPT !.at = <<NoTarget, 0>>]]

(* Simplifying neither loses, repeats nor reorders the events it has no    *)
(* business with, and each keeps its object.                               *)
EventsKept ==
    phase = "done" /\ ~Clash =>
        Unplaced(Acts(Script)) = Unplaced(Acts(Wanted))

(* When moves are kept or merged, the mouse is where it was at each of     *)
(* these events.                                                           *)
MouseWhereItWas ==
    phase = "done" /\ ~Clash /\ "SkipMouseMovements" \notin options =>
        Acts(Script) = Acts(Wanted)

(* The text that a script or a log leaves in target t.                     *)
TextOf(s, t) ==
    FoldLeft(LAMBDA text, e :
        IF e.target # t THEN text
        ELSE IF e.method = "sendText" THEN text \o e.text
             ELSE Typed(text, e),
        <<>>, s)

(* A Backspace has a character of its own uninterrupted typing to delete:  *)
(* SimplifyStrings chops the string it has collected and drops the key.    *)
(* It collects nothing from a key that follows one of another object.      *)
Covered(s) ==
    FoldLeft(LAMBDA acc, e :
        LET plain == IsKey(e) /\ ~e.modified
            typed == IF acc.target = e.target THEN acc.typed ELSE <<>>
            counts == plain /\ acc.target \in {e.target, NoTarget}
        IN [target |-> IF plain THEN e.target ELSE NoTarget,
            typed |-> IF counts THEN Typed(typed, e) ELSE <<>>,
            ok |-> /\ acc.ok
                   /\ plain /\ e.method = "pressKey" /\ e.key = "back" =>
                        typed # <<>>],
        [target |-> NoTarget, typed |-> <<>>, ok |-> TRUE], s).ok

(* No key press gives the focus back to an object that was typed into      *)
(* just before: SimplifyStrings takes the target of the first press for    *)
(* that of all.                                                            *)
FocusReturns(s) ==
    \E i \in DOMAIN s, j \in DOMAIN s :
        /\ j < i /\ i < Len(s)
        /\ \A k \in j..(i + 1) : IsKey(s[k])
        /\ s[j].target = s[i + 1].target /\ s[i].target # s[j].target

(* Typing that is sent as text leaves the text that the keys left, in the  *)
(* same object.                                                            *)
TypedTextKept ==
    phase = "done" /\ ~Clash /\ Covered(Wanted) /\ ~FocusReturns(Wanted) =>
        \A t \in Targets : TextOf(Script, t) = TextOf(Wanted, t)

(* A script variable is declared once, before its first use, unless a      *)
(* widget is called like a string variable.                                *)
DeclaredOnceBeforeUse ==
    phase = "done" /\ ~Clash =>
        \A i \in DOMAIN in : \A name \in {in[i].var, in[i].arg} \ {NoName} :
            LET at == {j \in DOMAIN in : Declares(in[j], name)}
            IN Cardinality(at) = 1 /\ \A j \in at : j <= i
=============================================================================
