------------------------------- MODULE Player -------------------------------
(***************************************************************************)
(* src/injectedHooq/Marshall.cpp and Player.cpp: the library injected into *)
(* the application under test, which runs on the application's GUI thread. *)
(* Marshall reads commands; "PLAY" hands the socket to a Player, which     *)
(* reads XML elements, queues them as Events and processes the queue.      *)
(*                                                                         *)
(* The thread's call stack is explicit, because Player re-enters itself: a *)
(* Flush event runs a nested event loop in the middle of processEvents, in *)
(* which posted events are delivered and new input may be read.            *)
(***************************************************************************)
EXTENDS Link

VARIABLES
    doc,        \* who reads the socket, and Player's tokenType(): see DocStates
    queue,      \* m_eventQueue
    processing, \* m_processingEvents
    ackNext,    \* m_ackNext
    pickMode,   \* m_mode = Pick
    timer,      \* the single-shot timer of Player::sleep
    posted,     \* QEvents Player posted that Qt has not delivered
    stack,      \* the thread's call stack above the main event loop
    performed,  \* history: requests carried out on this connection
    picker,     \* history: whose mouse release ended the last pick
    fatal       \* history: Marshall met a line that is no command

playerVars == <<doc, queue, processing, ackNext, pickMode, timer, posted, stack,
                performed, picker, fatal>>

(* none: Player has no device and Marshall is connected to readyRead.      *)
(* open: Player is reading.  ended: the EndDocument token was read.        *)
(* error: the reader met a parse error and reads no more.                  *)
DocStates == {"none", "open", "ended", "error"}

(* read: readNext, in its loop.  drain: readNext, in its last call of      *)
(* processEvents.  process: processEvents.  flush: QApplication's          *)
(* processEvents, called for a Flush event.                                *)
Frames == {"read", "drain", "process", "flush"}

EventTypes == {"input", "release", "focus", "close", "sleep", "dump", "pick",
               "flush", "drop", "ack"}

PlayerTypeOK ==
    /\ doc \in DocStates
    /\ queue \in Seq([type : EventTypes, ack : BOOLEAN])
    /\ processing \in BOOLEAN
    /\ ackNext \in BOOLEAN
    /\ pickMode \in BOOLEAN
    /\ timer \in {"off", "statement", "drag"}
    /\ posted \in Seq({"input", "release"})
    /\ stack \in Seq(Frames)
    /\ performed \in Nat
    /\ picker \in {"nobody", "user", "replay"}
    /\ fatal \in BOOLEAN

PlayerInit ==
    /\ doc = "none"
    /\ queue = <<>>
    /\ processing = FALSE
    /\ ackNext = FALSE
    /\ pickMode = FALSE
    /\ timer = "off"
    /\ posted = <<>>
    /\ stack = <<>>
    /\ performed = 0
    /\ picker = "nobody"
    /\ fatal = FALSE

(* The state of the library in a process that is gone, or not there yet.   *)
NoState ==
    /\ doc' = "none"
    /\ queue' = <<>>
    /\ processing' = FALSE
    /\ ackNext' = FALSE
    /\ pickMode' = FALSE
    /\ timer' = "off"
    /\ posted' = <<>>
    /\ stack' = <<>>

(* A new process: the history starts again.                                *)
PlayerReset ==
    /\ NoState
    /\ performed' = 0
    /\ picker' = "nobody"
    /\ fatal' = FALSE

(* The process ends.                                                       *)
PlayerGone ==
    /\ NoState
    /\ app' = "dead"
    /\ toApp' = <<>>
    /\ UNCHANGED <<conn, performed, picker>>

(* A process that aborts takes the replies it has not sent yet with it.    *)
Aborts ==
    /\ PlayerGone
    /\ \E n \in 0..Len(toGui) : toGui' = SubSeq(toGui, 1, n)

Running == app = "running"

Push(frame) == Append(stack, frame)
Pop == SubSeq(stack, 1, Len(stack) - 1)
Top == IF stack = <<>> THEN "main" ELSE stack[Len(stack)]

(* Qt dispatches events: in the main loop, or nested in a Flush.           *)
InEventLoop == Running /\ Top \in {"main", "flush"}

(* QAbstractSocket emits no readyRead while a slot connected to it runs.   *)
InReadyRead == \E i \in DOMAIN stack : stack[i] \in {"read", "drain"}

(* What Player::ack writes.                                                *)
AckLine(flag) == IF flag THEN <<"ACK">> ELSE <<>>

-----------------------------------------------------------------------------
(* Marshall.                                                               *)

(* Marshall::Marshall connects to the GUI's server.                        *)
MarshallConnects ==
    /\ app = "starting"
    /\ app' = "running"
    /\ conn' = "pending"
    /\ UNCHANGED <<toApp, toGui, playerVars>>

(* canReadLine.  An element is written without a newline: a "pick" that    *)
(* follows the document becomes part of the line of the next command.      *)
CanReadLine ==
    /\ toApp # <<>>
    /\ Head(toApp) = "pick" => \E i \in DOMAIN toApp : toApp[i] = "DIE"

(* Marshall::readCommand, one line; below is the stack it returns to.      *)
ReadCommand(below) ==
    \/ /\ Head(toApp) = "PLAY"   \* Player::Player, then run: m_ackNext is
       /\ doc' = "open"          \* not initialised
       /\ queue' = <<>>
       /\ processing' = FALSE
       /\ ackNext' \in BOOLEAN
       /\ pickMode' = FALSE
       /\ timer' = "off"
       /\ stack' = Append(below, "read")
       /\ toApp' = Tail(toApp)
       /\ UNCHANGED <<toGui, app, conn, posted, performed, picker, fatal>>
    \/ /\ Head(toApp) = "DIE"
       /\ toGui' = Append(toGui, "ACK")
       /\ app' = "quitting"
       /\ doc' = "none"
       /\ processing' = FALSE
       /\ stack' = below
       /\ performed' = performed + 1
       /\ toApp' = Tail(toApp)
       /\ UNCHANGED <<conn, queue, ackNext, pickMode, timer, posted, picker,
                      fatal>>
    \/ /\ Head(toApp) \notin {"PLAY", "DIE"}   \* qFatal
       /\ fatal' = TRUE
       /\ Aborts

MarshallReads ==
    /\ InEventLoop
    /\ doc = "none"
    /\ ~InReadyRead
    /\ CanReadLine
    /\ ReadCommand(stack)

-----------------------------------------------------------------------------
(* Player::readNext.                                                       *)

ReadyRead ==
    /\ InEventLoop
    /\ doc = "open"
    /\ toApp # <<>>
    /\ ~InReadyRead
    /\ stack' = Push("read")
    /\ UNCHANGED <<linkVars, doc, queue, processing, ackNext, pickMode, timer,
                   posted, performed, picker, fatal>>

(* Mutant of CallProcessEvents: m_processingEvents is not tested.          *)
CallProcessEventsUnguarded(caller, returned) ==
    /\ processing' = TRUE
    /\ stack' = Append(caller, "process")

(* A call of processEvents made by caller, the stack below it: it returns  *)
(* at once when m_processingEvents is set.                                 *)
CallProcessEvents(caller, returned) ==
    /\ processing' = TRUE
    /\ stack' = IF processing THEN returned ELSE Append(caller, "process")

(* readNext leaves its loop: the last call of processEvents.               *)
Drain == CallProcessEvents(Append(Pop, "drain"), Pop)

Reading == Running /\ Top = "read"

InputExhausted ==
    /\ Reading
    /\ toApp = <<>>
    /\ Drain
    /\ UNCHANGED <<linkVars, doc, queue, ackNext, pickMode, timer, posted,
                   performed, picker, fatal>>

WithAck(t) == [type |-> t, ack |-> TRUE]
WithoutAck(t) == [type |-> t, ack |-> FALSE]

(* Mutant of DragAndDropEvents: the pause keeps its ACK.                   *)
DragAndDropAckingPause ==
    << WithoutAck("flush"), WithoutAck("focus"), WithoutAck("flush"),
       WithoutAck("input"), WithoutAck("input"), WithAck("sleep"),
       WithoutAck("input"), WithoutAck("input"), WithoutAck("drop"),
       WithoutAck("flush"), WithAck("ack") >>

(* postDragAndDrop, as built for Unix.                                     *)
DragAndDropEvents ==
    << WithoutAck("flush"), WithoutAck("focus"), WithoutAck("flush"),
       WithoutAck("input"), WithoutAck("input"), WithoutAck("sleep"),
       WithoutAck("input"), WithoutAck("input"), WithoutAck("drop"),
       WithoutAck("flush"), WithAck("ack") >>

(* Mutant of QueuedAs: dragAndDrop has no case of its own.                 *)
QueuedAsOne(element) == << WithAck(element) >>

(* handleElement: the Events an element is queued as.                      *)
QueuedAs(element) ==
    IF element = "dnd" THEN DragAndDropEvents ELSE << WithAck(element) >>

Elements == Events \cup {"dump", "pick"}

(* An element is read, queued, and the queue processed.                    *)
ElementRead ==
    /\ Reading
    /\ toApp # <<>>
    /\ Head(toApp) \in Elements
    /\ toApp' = Tail(toApp)
    /\ queue' = queue \o QueuedAs(Head(toApp))
    /\ CallProcessEvents(stack, stack)
    /\ UNCHANGED <<toGui, app, conn, doc, ackNext, pickMode, timer, posted,
                   performed, picker, fatal>>

(* postDragAndDrop dereferences the drop target without a check.           *)
DropTargetMissing ==
    /\ Reading
    /\ toApp # <<>>
    /\ Head(toApp) = "dnd"
    /\ Aborts
    /\ UNCHANGED fatal

AtEndOfDocument == Reading /\ toApp # <<>> /\ Head(toApp) = "eod"

(* Mutant of EndOfDocument: the device is released at once.                *)
EndOfDocumentReleasing ==
    /\ AtEndOfDocument
    /\ toApp' = Tail(toApp)
    /\ doc' = "none"
    /\ toGui' = toGui \o AckLine(ackNext)
    /\ performed' = performed + 1
    /\ Drain
    /\ UNCHANGED <<app, conn, queue, ackNext, pickMode, timer, posted, picker,
                   fatal>>

(* The EndDocument token: ack, disconnect from readyRead, leave the loop.  *)
EndOfDocument ==
    /\ AtEndOfDocument
    /\ toApp' = Tail(toApp)
    /\ doc' = "ended"
    /\ toGui' = toGui \o AckLine(ackNext)
    /\ performed' = performed + 1
    /\ Drain
    /\ UNCHANGED <<app, conn, queue, ackNext, pickMode, timer, posted, picker,
                   fatal>>

(* An element behind the end of the document that the XML reader has       *)
(* already buffered is a parse error instead.                              *)
TrailingElement ==
    /\ AtEndOfDocument
    /\ Len(toApp) > 1
    /\ toApp' = <<>>
    /\ doc' = "error"
    /\ Drain
    /\ UNCHANGED <<toGui, app, conn, queue, ackNext, pickMode, timer, posted,
                   performed, picker, fatal>>

-----------------------------------------------------------------------------
(* Player::processEvents.                                                  *)

(* The stack processEvents returns to; readNext has nothing left to do     *)
(* after its last call.                                                    *)
Returned == IF Len(stack) > 1 /\ stack[Len(stack) - 1] = "drain"
            THEN SubSeq(stack, 1, Len(stack) - 2)
            ELSE Pop

Processing == Running /\ Top = "process"

(* The next Event of the queue is of one of these types.                   *)
Dequeue(types) ==
    /\ Processing
    /\ queue # <<>>
    /\ Head(queue).type \in types
    /\ queue' = Tail(queue)
    /\ ackNext' = Head(queue).ack
    /\ UNCHANGED <<toApp, app, conn, doc, processing, picker, fatal>>

(* History: a request is carried out when its Event is, a drag and drop    *)
(* when the drop is.                                                       *)
Carries(event) == event.type = "drop" \/ (event.ack /\ event.type # "ack")

CountCarried ==
    performed' = IF Carries(Head(queue)) THEN performed + 1 ELSE performed

(* Mutant of Reply: the ACK goes first.                                    *)
ReplyAckFirst(lines) == toGui' = toGui \o AckLine(Head(queue).ack) \o lines

(* "break" in the switch: reply, then ack().                               *)
Reply(lines) == toGui' = toGui \o lines \o AckLine(Head(queue).ack)

ProcessAck ==
    /\ Dequeue({"ack"})
    /\ Reply(<<>>)
    /\ UNCHANGED <<pickMode, timer, posted, stack, performed>>

(* Focus, Close, Drop and Object events whose target exists.               *)
ProcessFound ==
    /\ Dequeue({"focus", "close", "drop", "input", "release"})
    /\ Reply(<<>>)
    /\ CountCarried
    /\ posted' = CASE Head(queue).type = "input" -> Append(posted, "input")
                   [] Head(queue).type \in {"release", "drop"} ->
                        Append(posted, "release")
                   [] OTHER -> posted
    /\ UNCHANGED <<pickMode, timer, stack>>

(* The same, but findObject fails: notifyNotFound.                         *)
ProcessNotFound ==
    /\ Dequeue({"focus", "drop", "input", "release"})
    /\ Reply(<<"NOTFOUND">>)
    /\ CountCarried
    /\ UNCHANGED <<pickMode, timer, posted, stack>>

(* A Dump or a Close of a missing object fails an assertion.               *)
ProcessMissing ==
    /\ Processing
    /\ queue # <<>>
    /\ Head(queue).type \in {"dump", "close"}
    /\ Aborts
    /\ UNCHANGED fatal

(* Mutant of ProcessDump: "break" instead of "continue".                   *)
ProcessDumpAcked ==
    /\ Dequeue({"dump"})
    /\ Reply(<<"DUMPED">>)
    /\ CountCarried
    /\ UNCHANGED <<pickMode, timer, posted, stack>>

ProcessDump ==
    /\ Dequeue({"dump"})
    /\ toGui' = Append(toGui, "DUMPED")
    /\ CountCarried
    /\ UNCHANGED <<pickMode, timer, posted, stack>>

ProcessFlush ==
    /\ Dequeue({"flush"})
    /\ stack' = Push("flush")
    /\ UNCHANGED <<toGui, pickMode, timer, posted, performed>>

(* startPick: leave the loop with m_processingEvents still set.            *)
ProcessPick ==
    /\ Dequeue({"pick"})
    /\ pickMode' = TRUE
    /\ stack' = Returned
    /\ UNCHANGED <<toGui, timer, posted, performed>>

(* sleep: likewise.                                                        *)
ProcessSleep ==
    /\ Dequeue({"sleep"})
    /\ timer' = IF Head(queue).ack THEN "statement" ELSE "drag"
    /\ stack' = Returned
    /\ UNCHANGED <<toGui, pickMode, posted, performed>>

(* Mutant of QueueEmpty: finished() is not emitted.                        *)
QueueEmptySilently ==
    /\ Processing
    /\ queue = <<>>
    /\ processing' = FALSE
    /\ stack' = Returned
    /\ UNCHANGED <<linkVars, doc, queue, ackNext, pickMode, timer, posted,
                   performed, picker, fatal>>

(* The queue is empty.  At the end of the document the device is released  *)
(* and finished() makes Marshall reconnect, which reads a command that is  *)
(* already there.                                                          *)
QueueEmpty ==
    /\ Processing
    /\ queue = <<>>
    /\ IF doc = "ended" /\ CanReadLine
       THEN ReadCommand(Returned)
       ELSE /\ doc' = IF doc = "ended" THEN "none" ELSE doc
            /\ processing' = FALSE
            /\ stack' = Returned
            /\ UNCHANGED <<linkVars, queue, ackNext, pickMode, timer, posted,
                           performed, picker, fatal>>

-----------------------------------------------------------------------------
(* Events dispatched by Qt.                                                *)

(* waitFinished.                                                           *)
WaitFinished ==
    /\ InEventLoop
    /\ timer # "off"
    /\ timer' = "off"
    /\ toGui' = toGui \o AckLine(ackNext)
    /\ performed' = IF timer = "statement" THEN performed + 1 ELSE performed
    /\ processing' = TRUE
    /\ stack' = Push("process")
    /\ UNCHANGED <<toApp, app, conn, doc, queue, ackNext, pickMode, posted,
                   picker, fatal>>

(* QApplication's processEvents returns once the posted events are         *)
(* delivered.                                                              *)
FlushReturns ==
    /\ Running
    /\ Top = "flush"
    /\ posted = <<>>
    /\ stack' = Pop
    /\ UNCHANGED <<linkVars, doc, queue, processing, ackNext, pickMode, timer,
                   posted, performed, picker, fatal>>

(* eventFilter on a mouse release in Pick mode, then endPick; who clicked  *)
(* is history.                                                             *)
EndPick(who) ==
    /\ toGui' = Append(toGui, "PICKED")
    /\ pickMode' = FALSE
    /\ processing' = TRUE
    /\ stack' = Push("process")
    /\ picker' = who
    /\ UNCHANGED <<toApp, app, conn, doc, queue, ackNext, timer, performed,
                   fatal>>

(* The user clicks on a widget of the application.                         *)
UserClicks ==
    /\ InEventLoop
    /\ pickMode
    /\ EndPick("user")
    /\ UNCHANGED posted

(* Qt delivers an event that Player posted; the filter sees it first.      *)
DeliverPosted ==
    /\ InEventLoop
    /\ posted # <<>>
    /\ posted' = Tail(posted)
    /\ IF pickMode /\ Head(posted) = "release"
       THEN EndPick("replay")
       ELSE UNCHANGED <<linkVars, doc, queue, processing, ackNext, pickMode,
                        timer, stack, performed, picker, fatal>>

-----------------------------------------------------------------------------
(* The process ends.                                                       *)

(* After QCoreApplication::quit, by DIE or by the application itself, the  *)
(* post routine flushes the socket: nothing written is lost.               *)
ProcessExits ==
    /\ app = "quitting" \/ (Running /\ stack = <<>>)
    /\ PlayerGone
    /\ UNCHANGED <<toGui, fatal>>

(* It crashes, or never gets to the point where the library connects.      *)
ProcessCrashes ==
    /\ app \in {"starting", "running", "quitting"}
    /\ Aborts
    /\ UNCHANGED fatal

-----------------------------------------------------------------------------
(* What the injected library does by itself.                               *)
PlayerStep ==
    \/ MarshallReads
    \/ ReadyRead
    \/ InputExhausted
    \/ ElementRead
    \/ EndOfDocument
    \/ TrailingElement
    \/ ProcessAck
    \/ ProcessFound
    \/ ProcessNotFound
    \/ ProcessDump
    \/ ProcessFlush
    \/ ProcessPick
    \/ ProcessSleep
    \/ QueueEmpty
    \/ WaitFinished
    \/ FlushReturns
    \/ DeliverPosted

(* What depends on the process being started, stopped or used.             *)
ProcessStep ==
    \/ MarshallConnects
    \/ UserClicks
    \/ DropTargetMissing
    \/ ProcessMissing
    \/ ProcessExits
    \/ ProcessCrashes
=============================================================================
