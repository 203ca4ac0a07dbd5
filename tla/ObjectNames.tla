---------------------------- MODULE ObjectNames -----------------------------
(***************************************************************************)
(* src/common/ObjectHookName.cpp and Player::findObject: the path that the *)
(* Logger and the property dump write for an object of the application,    *)
(* and the object that the Player finds for a path.                        *)
(*                                                                         *)
(* The tree of objects is the application's; a text is a sequence of       *)
(* words, of which only the colon matters.  A class stands for a kind of   *)
(* object: "Widget", "Dialog" (a window even when it has a parent) and     *)
(* "Object" (not a widget); the class of a dialog is in a namespace.       *)
(***************************************************************************)
EXTENDS Naturals, SequencesExt

CONSTANTS
    Objects,
    NoObject,
    Names       \* values of objectName, <<>> when there is none

ASSUME ObjectNamesAssumption ==
    /\ IsFiniteSet(Objects) /\ NoObject \notin Objects
    /\ Names \subseteq Seq(STRING) /\ <<>> \in Names

VARIABLES
    class,      \* its class, "none" for an object that does not exist
    name,       \* QObject::objectName
    parent,     \* QObject::parent
    children,   \* QObject::children
    recorded    \* history: an object and its path in the log

tree == <<class, name, parent, children>>
vars == <<tree, recorded>>

Classes == {"Widget", "Dialog", "Object"}
ClassName(c) == IF c = "Dialog" THEN <<"App", ":", ":", c>> ELSE <<c>>
Alive == {o \in Objects : class[o] # "none"}
Nothing == [object |-> NoObject, path |-> <<>>]

-----------------------------------------------------------------------------
(* QString::split at "::", leftmost first: a colon begins a separator when *)
(* an even number of colons are right before it and one is behind it.      *)
Separators(text) ==
    {i \in 1..(Len(text) - 1) :
        /\ text[i] = ":" /\ text[i + 1] = ":"
        /\ \E k \in 0..(i - 1) :
              /\ k % 2 = 0
              /\ \A j \in (i - k)..(i - 1) : text[j] = ":"
              /\ i - k > 1 => text[i - k - 1] # ":"}
Nth(S, p) == CHOOSE e \in S : Cardinality({d \in S : d <= e}) = p
Split(text) ==
    LET ends == Separators(text) \cup {Len(text) + 1}
    IN [p \in 1..Cardinality(ends) |->
            SubSeq(text, IF p = 1 THEN 1 ELSE Nth(ends, p - 1) + 2,
                   Nth(ends, p) - 1)]

(* QStringList::join.                                                      *)
Join(parts, between) ==
    LET upTo[i \in 1..Len(parts)] ==
            IF i = 1 THEN parts[1] ELSE upTo[i - 1] \o between \o parts[i]
    IN upTo[Len(parts)]

(* mutant of Escaped: "::" stays in a name *)
NotEscaped(text) == text

Escaped(text) == Join(Split(text), <<":", "_", ":">>)

(* The siblings of o up to o itself.                                       *)
UpTo(o) ==
    LET siblings == children[parent[o]]
    IN SubSeq(siblings, 1, SelectInSeq(siblings, LAMBDA s : s = o))

(* mutant of Index: siblings with a name are not counted *)
IndexOfUnnamed(o) ==
    Cardinality({i \in DOMAIN UpTo(o) : /\ class[UpTo(o)[i]] = class[o]
                                        /\ name[UpTo(o)[i]] = <<>>})

Index(o) ==
    Cardinality({i \in DOMAIN UpTo(o) : class[UpTo(o)[i]] = class[o]})

(* mutant of RawObjectName: an object without a name has none *)
RawObjectNameBare(o) == name[o]

(* rawObjectName: the name an object has or, when it has none, its class   *)
(* and which one of that class it is among its siblings.                   *)
RawObjectName(o) ==
    IF name[o] # <<>> THEN name[o]
    ELSE ClassName(class[o]) \o
            <<"-", ToString(IF parent[o] = NoObject THEN 0 ELSE Index(o))>>
ObjectName(o) == Escaped(RawObjectName(o))

(* o and its ancestors, from the root.                                     *)
IsChain(c, o) ==
    /\ c # <<>> /\ parent[c[1]] = NoObject /\ c[Len(c)] = o
    /\ \A i \in 1..(Len(c) - 1) : parent[c[i + 1]] = c[i]
Chains == SeqOf(Objects, Cardinality(Objects))
Chain(o) == CHOOSE c \in Chains : IsChain(c, o)

ObjectPath(o) ==
    LET chain == Chain(o)
    IN Join([i \in DOMAIN chain |-> ObjectName(chain[i])], <<":", ":">>)

(* QApplication::topLevelWidgets, which is in no particular order.         *)
IsWindow(o) ==
    \/ class[o] = "Dialog"
    \/ class[o] = "Widget" /\ parent[o] = NoObject
TopLevelWidgets == {o \in Alive : IsWindow(o)}

Child(o, part) ==
    LET named == IF o = NoObject THEN {}
                 ELSE {i \in DOMAIN children[o] :
                            ObjectName(children[o][i]) = part}
    IN IF named = {} THEN NoObject ELSE children[o][Min(named)]

Descend(root, parts) ==
    LET at[i \in 1..Len(parts)] ==
            IF i = 1 THEN root ELSE Child(at[i - 1], parts[i])
    IN at[Len(parts)]

(* Player::findObject: what it may return.                                 *)
FindObject(path) ==
    LET parts == Split(path)
        roots == {o \in TopLevelWidgets : ObjectName(o) = parts[1]}
    IN IF roots = {} THEN {NoObject}
       ELSE {Descend(root, parts) : root \in roots}

-----------------------------------------------------------------------------
(* What the application does to its objects.  A recorded path is kept      *)
(* until an object is moved or destroyed, or one on the path is renamed.   *)
Init ==
    /\ class = [o \in Objects |-> "none"]
    /\ name = [o \in Objects |-> <<>>]
    /\ parent = [o \in Objects |-> NoObject]
    /\ children = [o \in Objects |-> <<>>]
    /\ recorded = Nothing

(* Logger::outputEvent for an event of o.                                  *)
Record(o) ==
    /\ o \in Alive
    /\ recorded' = [object |-> o, path |-> ObjectPath(o)]
    /\ UNCHANGED tree

(* The children lists when o becomes the last child of p.                  *)
Moved(o, p) ==
    [q \in Objects |->
        IF q = p THEN Append(RemoveFirst(children[q], o), o)
        ELSE RemoveFirst(children[q], o)]

Create(o, p, c) ==
    /\ o \notin Alive
    /\ p \in Alive \cup {NoObject}
    /\ class' = [class EXCEPT ![o] = c]
    /\ parent' = [parent EXCEPT ![o] = p]
    /\ children' = Moved(o, p)
    /\ UNCHANGED <<name, recorded>>

SetObjectName(o, n) ==
    /\ o \in Alive
    /\ name' = [name EXCEPT ![o] = n]
    /\ recorded' = IF /\ recorded # Nothing
                      /\ Contains(Chain(recorded.object), o)
                   THEN Nothing ELSE recorded
    /\ UNCHANGED <<class, parent, children>>

SetParent(o, p) ==
    /\ o \in Alive
    /\ p \in Alive \cup {NoObject}
    /\ p # NoObject => ~Contains(Chain(p), o)
    /\ parent' = [parent EXCEPT ![o] = p]
    /\ children' = Moved(o, p)
    /\ recorded' = Nothing
    /\ UNCHANGED <<class, name>>

(* QWidget::raise makes a widget the last child.                           *)
Raise(o) ==
    /\ o \in Alive /\ class[o] # "Object" /\ parent[o] # NoObject
    /\ children' = Moved(o, parent[o])
    /\ recorded' = Nothing
    /\ UNCHANGED <<class, name, parent>>

(* A destroyed object destroys its children.                               *)
Destroy(o) ==
    /\ o \in Alive
    /\ LET gone == {x \in Alive : Contains(Chain(x), o)}
       IN /\ class' = [x \in Objects |->
                        IF x \in gone THEN "none" ELSE class[x]]
          /\ name' = [x \in Objects |-> IF x \in gone THEN <<>> ELSE name[x]]
          /\ parent' = [x \in Objects |->
                        IF x \in gone THEN NoObject ELSE parent[x]]
          /\ children' = [x \in Objects |->
                            IF x \in gone THEN <<>>
                            ELSE RemoveFirst(children[x], o)]
    /\ recorded' = Nothing

Next ==
    \E o \in Objects :
        \/ \E p \in Objects \cup {NoObject}, c \in Classes : Create(o, p, c)
        \/ \E n \in Names : SetObjectName(o, n)
        \/ \E p \in Objects \cup {NoObject} : SetParent(o, p)
        \/ Raise(o)
        \/ Record(o)
        \/ Destroy(o)

Spec == Init /\ [][Next]_vars

-----------------------------------------------------------------------------
(* The tree that the names are computed from: an object is once in the     *)
(* list of its parent and nowhere else, every chain ends at a root, and    *)
(* every object has a name to put in a path.                               *)
TypeOK ==
    /\ class \in [Objects -> Classes \cup {"none"}]
    /\ name \in [Objects -> Names]
    /\ parent \in [Objects -> Alive \cup {NoObject}]
    /\ \A o \in Alive :
         /\ IsInjective(children[o])
         /\ Range(children[o]) = {x \in Alive : parent[x] = o}
         /\ \E c \in Chains : IsChain(c, o)
         /\ ObjectName(o) # <<>>
    /\ recorded.object \in Alive \cup {NoObject}

(* A name that can be put between the separators of a path.                *)
Clean(o) ==
    LET text == RawObjectName(o)
    IN /\ Head(text) # ":" /\ Last(text) # ":"
       /\ ~\E i \in 1..(Len(text) - 2) : \A j \in i..(i + 2) : text[j] = ":"

(* No other object can be taken for o where findObject looks for it.       *)
Unambiguous(o) ==
    LET rivals == IF parent[o] = NoObject THEN TopLevelWidgets
                  ELSE Range(children[parent[o]])
    IN \A x \in rivals \ {o} : ObjectName(x) # ObjectName(o)

(* The Player finds the object that the Logger meant: the object itself    *)
(* when neither it nor an ancestor has a rival, and in any case none with  *)
(* another path - if the root is a window, no name begins or ends with a   *)
(* colon or has three in a row, and no dialog with a parent is called like *)
(* the root.                                                               *)
PathFindsItsObject ==
    \A o \in Alive :
        LET chain == Range(Chain(o))
            found == FindObject(ObjectPath(o))
        IN IsWindow(Chain(o)[1]) /\ (\A a \in chain : Clean(a)) =>
             /\ (\A a \in chain : Unambiguous(a)) => found = {o}
             /\ (\A x \in TopLevelWidgets : parent[x] # NoObject =>
                    ObjectName(x) # ObjectName(Chain(o)[1])) =>
                \A x \in found \ {NoObject} : ObjectPath(x) = ObjectPath(o)

(* What the application creates or names after the recording does not      *)
(* change the path of a recorded object: only raising, moving or           *)
(* destroying does.                                                        *)
PathsSurviveCreation ==
    recorded # Nothing => ObjectPath(recorded.object) = recorded.path
=============================================================================
