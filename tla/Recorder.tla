------------------------------ MODULE Recorder ------------------------------
(***************************************************************************)
(* src/injectedHooq/Logger.cpp and CanaryEvent.cpp: recording.  Qt calls   *)
(* Logger::eventFilter for every event of the application; the filter      *)
(* writes the user's events to the socket as XML and ignores the events    *)
(* Qt and the application derive from them, until a "canary" posted behind *)
(* them is delivered.                                                      *)
(*                                                                         *)
(* From a mouse press on, elements go to a buffer: if the gesture turns    *)
(* out to be a drag and drop, the buffer is dropped in favour of a single  *)
(* dragAndDrop element.                                                    *)
(***************************************************************************)
EXTENDS Integers, Sequences

CONSTANT MaxEvents   \* bound: events Qt delivers to the application

ASSUME RecorderAssumption == MaxEvents \in Nat

(* "input" stands for the logged events that are neither press, release    *)
(* nor drop; "other" for what is not written: event types the filter does  *)
(* not know, and FocusIn of an object that is no widget.                   *)
Kinds == {"press", "release", "drop", "input", "other"}

VARIABLES
    alive,      \* the application runs
    delivered,  \* how many events Qt has delivered: the number of the next
    ignore,     \* m_ignoreEvents
    canaries,   \* CanaryEvents in Qt's queue of posted events
    lastEvent,  \* m_lastEvent
    sink,       \* the device of m_writer: "device" (the socket) or "buffer"
    buffer,     \* m_dragAndDropBuffer
    out,        \* what was written on the socket
    rootOpen,   \* the writer still owes the ">" of <hooq
    origin,     \* m_dragOriginWidget, by the number of the press
    discarded   \* history: the tokens the buffer was cleared of

vars == <<alive, delivered, ignore, canaries, lastEvent, sink, buffer, out,
          rootOpen, origin, discarded>>

(* Tokens of the XML stream: the ">" of the root tag, an element with the  *)
(* number of its event (source: of the press a dragAndDrop starts at), and *)
(* the closing tag.                                                        *)
Element(kind, n, source) == [token |-> kind, number |-> n, source |-> source]
RootEnd == Element("gt", 0, 0)
EndDocument == Element("end", 0, 0)

Tokens == [token : Kinds \cup {"gt", "end"}, number : Nat, source : Nat]

Null == 0       \* no press: a null m_dragOriginWidget
Garbage == -1   \* an uninitialised one

TypeOK ==
    /\ alive \in BOOLEAN
    /\ delivered \in Nat
    /\ ignore \in BOOLEAN
    /\ canaries \in Nat
    /\ lastEvent \in Kinds
    /\ sink \in {"device", "buffer"}
    /\ buffer \in Seq(Tokens)
    /\ out \in Seq(Tokens)
    /\ rootOpen \in BOOLEAN
    /\ origin \in Nat \cup {Garbage}
    /\ discarded \in SUBSET Tokens

(* Logger::Logger: m_lastEvent and m_dragOriginWidget are uninitialised.   *)
Init ==
    /\ alive = TRUE
    /\ delivered = 0
    /\ ignore = FALSE
    /\ canaries = 0
    /\ lastEvent \in Kinds
    /\ sink = "device"
    /\ buffer = <<>>
    /\ out = <<>>
    /\ rootOpen = TRUE
    /\ origin \in {Null, Garbage}
    /\ discarded = {}

-----------------------------------------------------------------------------
Contents(seq) == {seq[i] : i \in DOMAIN seq}

(* What the writer emits for one element: the root tag is closed first.    *)
Written(element) ==
    IF rootOpen THEN << RootEnd, element >> ELSE << element >>

(* The sink, the buffer and the socket after the filter's step for the     *)
(* event that follows a release: flush unless it is a drop, then stop.     *)
AfterRelease == lastEvent = "release"
Flushed(kind) ==
    IF AfterRelease /\ kind # "drop" THEN out \o buffer ELSE out
Buffer1Kept == buffer        \* mutant of Buffer1: nothing clears it
Buffer1 == IF AfterRelease THEN <<>> ELSE buffer
Sink1Device == "device"      \* mutant of Sink1: every event stops buffering
Sink1 == IF AfterRelease THEN "device" ELSE sink
Dropped(kind) ==
    IF AfterRelease /\ kind = "drop" THEN Contents(buffer) ELSE {}

(* m_writer writes element to its device d, which held buffer b.           *)
Write(element, d, b, o) ==
    /\ sink' = d
    /\ rootOpen' = FALSE
    /\ buffer' = IF d = "buffer" THEN b \o Written(element) ELSE b
    /\ out' = IF d = "device" THEN o \o Written(element) ELSE o

(* new CanaryEvent(&m_ignoreEvents), posted.                               *)
PostCanary == ignore' = TRUE /\ canaries' = canaries + 1

Delivered ==
    /\ alive
    /\ delivered < MaxEvents
    /\ delivered' = delivered + 1
    /\ UNCHANGED alive

(* The canary is still queued: any event but a drop is inferred.           *)
Ignored(kind) ==
    /\ Delivered
    /\ ignore
    /\ kind # "drop"
    /\ UNCHANGED <<ignore, canaries, lastEvent, sink, buffer, out, rootOpen,
                   origin, discarded>>

(* The filter's default: nothing is written.                               *)
NotWritten ==
    /\ Delivered
    /\ ~ignore
    /\ sink' = Sink1
    /\ buffer' = Buffer1
    /\ out' = Flushed("other")
    /\ lastEvent' = "other"
    /\ PostCanary
    /\ UNCHANGED <<rootOpen, origin, discarded>>

(* Mutant of Logged: m_lastEvent is not updated.                           *)
LoggedForgotten(kind) ==
    /\ kind \in {"input", "release"}
    /\ Delivered
    /\ ~ignore
    /\ Write(Element(kind, delivered + 1, Null), Sink1, Buffer1, Flushed(kind))
    /\ PostCanary
    /\ UNCHANGED <<lastEvent, origin, discarded>>

(* Events written as they come.                                            *)
Logged(kind) ==
    /\ kind \in {"input", "release"}
    /\ Delivered
    /\ ~ignore
    /\ Write(Element(kind, delivered + 1, Null), Sink1, Buffer1, Flushed(kind))
    /\ lastEvent' = kind
    /\ PostCanary
    /\ UNCHANGED <<origin, discarded>>

(* MouseButtonPress: startDragAndDropBuffer clears the buffer.             *)
Press ==
    /\ Delivered
    /\ ~ignore
    /\ Write(Element("press", delivered + 1, Null), "buffer", <<>>,
             Flushed("press"))
    /\ discarded' = discarded \cup Contents(Buffer1)
    /\ origin' = delivered + 1
    /\ lastEvent' = "press"
    /\ PostCanary

(* Mutants of Drop: "break" instead of "return", and the origin is kept.   *)
DropWithCanary ==
    /\ Delivered
    /\ origin # Garbage
    /\ Write(Element("drop", delivered + 1, origin), Sink1, Buffer1,
             Flushed("drop"))
    /\ discarded' = discarded \cup Dropped("drop")
    /\ origin' = Null
    /\ lastEvent' = "drop"
    /\ PostCanary

DropKeepingOrigin ==
    /\ Delivered
    /\ origin # Garbage
    /\ Write(Element("drop", delivered + 1, origin), Sink1, Buffer1,
             Flushed("drop"))
    /\ discarded' = discarded \cup Dropped("drop")
    /\ UNCHANGED <<ignore, canaries, lastEvent, origin>>

(* Drop, which is logged even while events are ignored and posts no        *)
(* canary.                                                                 *)
Drop ==
    /\ Delivered
    /\ origin # Garbage
    /\ Write(Element("drop", delivered + 1, origin), Sink1, Buffer1,
             Flushed("drop"))
    /\ discarded' = discarded \cup Dropped("drop")
    /\ origin' = Null
    /\ UNCHANGED <<ignore, canaries, lastEvent>>

(* The path of an uninitialised pointer.                                   *)
DropFromNowhere ==
    /\ alive
    /\ delivered < MaxEvents
    /\ origin = Garbage
    /\ alive' = FALSE
    /\ UNCHANGED <<delivered, ignore, canaries, lastEvent, sink, buffer, out,
                   rootOpen, origin, discarded>>

(* Mutant of CanaryDelivered: a canary that was never posted is deleted.   *)
CanaryUnposted ==
    /\ alive
    /\ canaries' = canaries - 1
    /\ ignore' = FALSE
    /\ UNCHANGED <<alive, delivered, lastEvent, sink, buffer, out, rootOpen,
                   origin, discarded>>

(* Qt delivers the canary: the filter ignores it, and Qt deletes it.       *)
CanaryDelivered ==
    /\ alive
    /\ canaries > 0
    /\ canaries' = canaries - 1
    /\ ignore' = FALSE
    /\ UNCHANGED <<alive, delivered, lastEvent, sink, buffer, out, rootOpen,
                   origin, discarded>>

(* Mutant of Exit: the document is ended on the socket, before the flush.  *)
ExitEndFirst ==
    /\ alive
    /\ alive' = FALSE
    /\ out' = Append(out, EndDocument) \o buffer
    /\ buffer' = <<>>
    /\ rootOpen' = FALSE
    /\ canaries' = 0
    /\ ignore' = FALSE
    /\ UNCHANGED <<delivered, lastEvent, sink, origin, discarded>>

(* Logger::deactivate at exit: ~Logger ends the document on the writer's   *)
(* device, then flushes the buffer; its posted canary goes with it.        *)
Exit ==
    /\ alive
    /\ alive' = FALSE
    /\ out' = IF sink = "buffer"
              THEN out \o Append(buffer, EndDocument)
              ELSE Append(out, EndDocument) \o buffer
    /\ buffer' = <<>>
    /\ rootOpen' = FALSE
    /\ canaries' = 0
    /\ ignore' = FALSE
    /\ UNCHANGED <<delivered, lastEvent, sink, origin, discarded>>
-----------------------------------------------------------------------------
Next ==
    \/ \E kind \in Kinds : Ignored(kind) \/ Logged(kind)
    \/ NotWritten
    \/ Press
    \/ Drop
    \/ DropFromNowhere
    \/ CanaryDelivered
    \/ Exit

Spec == Init /\ [][Next]_vars

-----------------------------------------------------------------------------
(* Events are ignored exactly while one canary is queued: the assertions   *)
(* of CanaryEvent's constructor, of its destructor and of eventFilter      *)
(* hold, and ignoring always has an end.                                   *)
CanaryExact == canaries = IF ignore THEN 1 ELSE 0

(* The buffer holds nothing once the writer is back on the socket, so the  *)
(* flush in ~Logger writes nothing behind the end of the document.         *)
NoStaleBuffer == sink = "device" => buffer = <<>>

(* The recording so far: what is on the socket and what will follow it.    *)
Recording == out \o buffer

(* The elements of a recording are in the order of the events they stand   *)
(* for, through any sequence of buffering, flushing and dropping, and none *)
(* is written twice.                                                       *)
RecordedInOrder ==
    \A i, j \in DOMAIN Recording :
        (i < j /\ Recording[j].token # "end")
            => Recording[i].number < Recording[j].number

(* Nothing follows the end of the document.                                *)
EndDocumentLast ==
    \A i \in DOMAIN Recording :
        Recording[i].token = "end" => i = Len(Recording)

(* The drops of a recording, and the ones discarded from it.               *)
Drops == {t \in Contents(Recording) \cup discarded : t.token = "drop"}

(* A press is the source of at most one recorded drag and drop.            *)
OneDragPerPress ==
    \A d, e \in Drops : d.source = e.source /\ d # e => d.source = Null

(* A click that was recorded to its release is lost only to a drag and     *)
(* drop that ended with that release.                                      *)
ClickLostOnlyToDrop ==
    \A t \in discarded : t.token = "release" =>
        \E d \in Drops : d.number > t.number
=============================================================================
