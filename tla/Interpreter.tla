----------------------------- MODULE Interpreter -----------------------------
(***************************************************************************)
(* src/hooq/Interpreter.cpp: the GUI side of a playback.  A test script    *)
(* runs in a QScriptEngine on the GUI thread; each statement about a       *)
(* remote object writes one element and then runs a nested event loop      *)
(* until the reply has arrived.  User input (Pick, Stop, Continue) and     *)
(* socket data are handled by whatever event loop is running.              *)
(***************************************************************************)
EXTENDS Link

CONSTANTS
    Modes,        \* the ScriptEditor modes runs use: "Interactive", "Headless"
    MaxRuns,      \* bound: scripts run one after the other
    MaxStatements,\* bound: statements that talk to the application, in all
    MaxPicks,     \* bound: presses of the editor's Pick button, in all
    MaxStops      \* bound: presses of the editor's Stop button, in all

ASSUME InterpreterAssumption ==
    /\ Modes \subseteq {"Interactive", "Headless"}
    /\ MaxRuns \in Nat
    /\ MaxStatements \in Nat
    /\ MaxPicks \in Nat
    /\ MaxStops \in Nat

VARIABLES
    gui,         \* where the GUI thread is: see GuiStates
    next,        \* the element to write once attached ("none": no element)
    after,       \* where closeApplication returns to: the script or run()
    attach,      \* m_attachState
    device,      \* device() # 0
    uuid,        \* m_applicationUuid is that of a live Application object
    pendingAcks, \* m_pendingAcks
    dumped,      \* m_dumpedObject # 0
    aborted,     \* abortEvaluation() was called in this evaluation
    paused,      \* why ScriptEditor::pause is looping, or "no"
    mode,        \* ScriptEditor::mode()
    issued,      \* history: requests issued on this connection
    runs, statements, picks, stops   \* what the bounds count

guiVars == <<gui, next, after, attach, device, uuid, pendingAcks, dumped,
             aborted, paused, mode, issued, runs, statements, picks, stops>>

boundVars == <<runs, statements, picks, stops>>

(* idle: no script.  script: evaluate() is between two remote calls.       *)
(* attaching: in waitForAttach.  ack, dump: in the wait of a statement.    *)
(* ending, dying: in the two waits of closeApplication.                    *)
GuiStates == {"idle", "script", "attaching", "ack", "dump", "ending", "dying"}

GuiTypeOK ==
    /\ gui \in GuiStates
    /\ next \in Events \cup {"none"}
    /\ after \in {"script", "idle"}
    /\ attach \in {"NotAttached", "WaitingForAttach", "Attached"}
    /\ device \in BOOLEAN
    /\ uuid \in BOOLEAN
    /\ pendingAcks \in Int
    /\ dumped \in BOOLEAN
    /\ aborted \in BOOLEAN
    /\ paused \in {"no", "breakpoint", "notfound"}
    /\ mode \in {"Interactive", "Headless"}
    /\ issued \in Nat
    /\ runs \in Nat
    /\ statements \in Nat
    /\ picks \in Nat
    /\ stops \in Nat

GuiInit ==
    /\ gui = "idle"
    /\ next = "none"
    /\ after = "idle"
    /\ attach = "NotAttached"
    /\ device = FALSE
    /\ uuid = FALSE
    /\ pendingAcks = 0
    /\ dumped = FALSE
    /\ aborted = FALSE
    /\ paused = "no"
    /\ mode = "Headless"
    /\ issued = 0
    /\ runs = 0
    /\ statements = 0
    /\ picks = 0
    /\ stops = 0

Closing == gui \in {"ending", "dying"}

(* QScriptEngine::isEvaluating(), which enables Stop and Pick.             *)
Evaluating == gui # "idle" /\ (Closing => after = "script")

(* The GUI thread is inside a processEvents loop.                          *)
InLoop == gui \in GuiStates \ {"idle", "script"} \/ paused # "no"

(* The wait the thread is in tests its own condition: no ScriptEditor      *)
(* pause is looping above it.                                              *)
OnTop == paused = "no"

-----------------------------------------------------------------------------
(* Running a script.                                                       *)

(* Interpreter::run up to evaluate(); ScriptEditor's mode is the one       *)
(* MainWindow set for this run.                                            *)
RunScript(m) ==
    /\ gui = "idle"
    /\ runs < MaxRuns
    /\ gui' = "script"
    /\ mode' = m
    /\ uuid' = FALSE
    /\ attach' = "NotAttached"
    /\ aborted' = FALSE
    /\ runs' = runs + 1
    /\ UNCHANGED <<linkVars, next, after, device, pendingAcks, dumped, paused,
                   issued, statements, picks, stops>>

AtStatement == gui = "script" /\ OnTop /\ ~aborted

Statement ==
    /\ AtStatement
    /\ statements < MaxStatements
    /\ statements' = statements + 1
    /\ UNCHANGED <<runs, picks, stops>>

(* waitForAck, its first line: setAck(false).                              *)
BeginAck == pendingAcks' = pendingAcks + 1 /\ issued' = issued + 1

(* An element is written and the thread starts waiting for its ACK.        *)
WriteElement(e) ==
    /\ toApp' = Sent(<<e>>)
    /\ BeginAck
    /\ gui' = "ack"

(* write*Event when attached; ensureAttached returns at once.              *)
WriteEvent(e) ==
    /\ Statement
    /\ attach = "Attached"
    /\ WriteElement(e)
    /\ UNCHANGED <<toGui, app, conn, next, after, attach, device, uuid, dumped,
                   aborted, paused, mode>>

(* startApplicationAndAttach is emitted and the thread enters              *)
(* waitForAttach; e is what it does next.                                  *)
StartAndWait(e) ==
    /\ attach = "NotAttached"
    /\ SpawnProcess
    /\ attach' = "WaitingForAttach"
    /\ gui' = "attaching"
    /\ next' = e
    /\ issued' = 0
    /\ UNCHANGED <<after, device, pendingAcks, dumped, aborted, paused, mode>>

(* write*Event when not attached: ensureAttached starts the default        *)
(* application.                                                            *)
WriteEventUnattached(e) == Statement /\ StartAndWait(e) /\ UNCHANGED uuid

(* connectRemoteApplication: the script creates an Application object.     *)
(* Creating one while another application is attached is not modelled.     *)
ConnectRemoteApplication == Statement /\ StartAndWait("none") /\ uuid' = TRUE

(* fetchProperty up to the loop of waitForDumpedObject.  It does not call  *)
(* ensureAttached: without a device QXmlStreamWriter writes nothing.       *)
FetchProperty ==
    /\ Statement
    /\ toApp' = IF device THEN Sent(<<"dump">>) ELSE toApp
    /\ dumped' = FALSE
    /\ issued' = issued + 1
    /\ gui' = "dump"
    /\ UNCHANGED <<toGui, app, conn, next, after, attach, device, uuid,
                   pendingAcks, aborted, paused, mode>>

(* closeApplication with a device, up to its first waitForAck.             *)
WriteEnd(ret) ==
    /\ device
    /\ toApp' = Sent(<<"eod">>)
    /\ BeginAck
    /\ gui' = "ending"
    /\ after' = ret
    /\ UNCHANGED <<toGui, app, conn, next, attach, device, uuid, dumped,
                   aborted, paused, mode, boundVars>>

(* The script, or the garbage collector, closes the Application object     *)
(* whose uuid is the current one; any other close request is ignored.      *)
CloseRequested == AtStatement /\ uuid /\ WriteEnd("script")

(* evaluate() returned (end of script, exception or abort) and run() goes  *)
(* on to closeApplication ...                                              *)
ScriptEnds == gui = "script" /\ OnTop /\ WriteEnd("idle")

(* ... which does nothing without a device.                                *)
ScriptEndsDetached ==
    /\ gui = "script"
    /\ OnTop
    /\ ~device
    /\ gui' = "idle"
    /\ UNCHANGED <<linkVars, next, after, attach, device, uuid, pendingAcks,
                   dumped, aborted, paused, mode, issued, boundVars>>

-----------------------------------------------------------------------------
(* Socket events.                                                          *)

(* RemoteConnection::acceptConnection, then setSocket.                     *)
SetSocket ==
    /\ gui = "attaching"
    /\ conn = "pending"
    /\ conn' = "accepted"
    /\ pendingAcks' = 0
    /\ toApp' = Sent(<<"PLAY">>)
    /\ device' = TRUE
    /\ attach' = "Attached"
    /\ UNCHANGED <<toGui, app, gui, next, after, uuid, dumped, aborted, paused,
                   mode, issued, boundVars>>

(* One line of processSocketData.  A pause on NOTFOUND loops inside this   *)
(* slot, and QAbstractSocket does not emit readyRead recursively.          *)
ReadLine(line, rest) ==
    /\ InLoop
    /\ paused # "notfound"
    /\ device
    /\ toGui # <<>>
    /\ line = Head(toGui)
    /\ toGui' = rest
    /\ UNCHANGED <<toApp, app, conn, gui, next, after, attach, device, uuid,
                   mode, issued, boundVars>>

ReadAck ==
    /\ ReadLine("ACK", Tail(toGui))
    /\ pendingAcks' = pendingAcks - 1
    /\ UNCHANGED <<dumped, aborted, paused>>

(* objectNotFound: ScriptEditor::pause.                                    *)
ReadNotFound ==
    /\ ReadLine("NOTFOUND", Tail(toGui))
    /\ IF mode = "Interactive"
       THEN paused' = "notfound" /\ UNCHANGED aborted
       ELSE aborted' = TRUE /\ UNCHANGED paused
    /\ UNCHANGED <<pendingAcks, dumped>>

(* ObjectInformation::fromXml reads the document with a QXmlStreamReader   *)
(* of its own, which buffers ahead: k replies that arrived behind the      *)
(* document are lost with it.                                              *)
ReadDocument(line, k) ==
    /\ k \in 1..Len(toGui)
    /\ ReadLine(line, SubSeq(toGui, k + 1, Len(toGui)))
    /\ UNCHANGED <<pendingAcks, aborted, paused>>

ReadPicked(k) == ReadDocument("PICKED", k) /\ UNCHANGED dumped

ReadDumped(k) == ReadDocument("DUMPED", k) /\ dumped' = TRUE

-----------------------------------------------------------------------------
(* The waits end.                                                          *)

(* waitForAttach returns; the interrupted statement writes its element.    *)
Attached ==
    /\ gui = "attaching"
    /\ attach = "Attached"
    /\ OnTop
    /\ IF next = "none"
       THEN gui' = "script" /\ UNCHANGED <<toApp, pendingAcks, issued>>
       ELSE WriteElement(next)
    /\ next' = "none"
    /\ UNCHANGED <<toGui, app, conn, after, attach, device, uuid, dumped,
                   aborted, paused, mode, boundVars>>

Acked == pendingAcks = 0

(* Mutants of AckWaitOver: the wait is left early, or a lost peer is not   *)
(* noticed.                                                                *)
AckWaitEager == OnTop
AckWaitDeaf == OnTop /\ Acked

(* The condition on which waitForAck leaves its loop.                      *)
AckWaitOver == OnTop /\ (Acked \/ Disconnected)

(* waitForAck after its loop: a missing ACK aborts the evaluation.         *)
AbortUnlessAcked == aborted' = (aborted \/ ~Acked)

AckReturns ==
    /\ gui = "ack"
    /\ AckWaitOver
    /\ AbortUnlessAcked
    /\ gui' = "script"
    /\ UNCHANGED <<linkVars, next, after, attach, device, uuid, pendingAcks,
                   dumped, paused, mode, issued, boundVars>>

DumpReturns ==
    /\ gui = "dump"
    /\ OnTop
    /\ dumped
    /\ gui' = "script"
    /\ UNCHANGED <<linkVars, next, after, attach, device, uuid, pendingAcks,
                   dumped, aborted, paused, mode, issued, boundVars>>

(* closeApplication between its two waits.                                 *)
WriteDie ==
    /\ gui = "ending"
    /\ AckWaitOver
    /\ AbortUnlessAcked
    /\ toApp' = Sent(<<"DIE">>)
    /\ BeginAck
    /\ gui' = "dying"
    /\ UNCHANGED <<toGui, app, conn, next, after, attach, device, uuid, dumped,
                   paused, mode, boundVars>>

(* closeApplication after its second wait.                                 *)
Closed ==
    /\ gui = "dying"
    /\ AckWaitOver
    /\ AbortUnlessAcked
    /\ attach' = "NotAttached"
    /\ device' = FALSE
    /\ uuid' = FALSE
    /\ gui' = after
    /\ UNCHANGED <<linkVars, next, after, pendingAcks, dumped, paused, mode,
                   issued, boundVars>>

-----------------------------------------------------------------------------
(* The user, at the script editor.                                         *)

(* positionChange reaches a breakpoint.                                    *)
Breakpoint ==
    /\ AtStatement
    /\ mode = "Interactive"
    /\ paused' = "breakpoint"
    /\ UNCHANGED <<linkVars, gui, next, after, attach, device, uuid,
                   pendingAcks, dumped, aborted, mode, issued, boundVars>>

(* ScriptEditor::run while paused.                                         *)
Continue ==
    /\ paused # "no"
    /\ paused' = "no"
    /\ UNCHANGED <<linkVars, gui, next, after, attach, device, uuid,
                   pendingAcks, dumped, aborted, mode, issued, boundVars>>

(* ScriptEditor::stop.                                                     *)
Stop ==
    /\ Evaluating
    /\ InLoop
    /\ stops < MaxStops
    /\ stops' = stops + 1
    /\ aborted' = TRUE
    /\ paused' = "no"
    /\ UNCHANGED <<linkVars, gui, next, after, attach, device, uuid,
                   pendingAcks, dumped, mode, issued, runs, statements, picks>>

(* pickObject: no wait, no ensureAttached.                                 *)
PickObject ==
    /\ Evaluating
    /\ InLoop
    /\ picks < MaxPicks
    /\ picks' = picks + 1
    /\ toApp' = IF device THEN Sent(<<"pick">>) ELSE toApp
    /\ UNCHANGED <<toGui, app, conn, gui, next, after, attach, device, uuid,
                   pendingAcks, dumped, aborted, paused, mode, issued, runs,
                   statements, stops>>

-----------------------------------------------------------------------------
ScriptStep ==
    \/ \E m \in Modes : RunScript(m)
    \/ \E e \in Events : WriteEvent(e)
    \/ FetchProperty
    \/ CloseRequested
    \/ ScriptEnds
    \/ ScriptEndsDetached

(* The steps that start a new process.                                     *)
SpawnStep ==
    \/ \E e \in Events : WriteEventUnattached(e)
    \/ ConnectRemoteApplication

UserStep == Breakpoint \/ Continue \/ Stop \/ PickObject

(* What the GUI's event loops do by themselves.                            *)
GuiLoopStep ==
    \/ SetSocket
    \/ ReadAck
    \/ ReadNotFound
    \/ \E k \in 1..Len(toGui) : ReadPicked(k) \/ ReadDumped(k)
    \/ Attached
    \/ AckReturns
    \/ DumpReturns
    \/ WriteDie
    \/ Closed
=============================================================================
