------------------------------ MODULE Sessions ------------------------------
(***************************************************************************)
(* src/hooq/MainWindow.cpp with GdbInjector and RemoteLogger: recording a  *)
(* test and running tests from one window, over one server.                *)
(*                                                                         *)
(* A run evaluates its script synchronously and processes events while it  *)
(* waits (Interpreter::waitForAttach, waitForAck, ScriptEditor::pause), so *)
(* every other operation of the window can happen inside it: "runs" is the *)
(* stack of Interpreter::run calls in progress, and only the top one moves *)
(* (TestRuns models what they report).                                     *)
(***************************************************************************)
EXTENDS RemoteConnection, FiniteSets

CONSTANTS
    Tests,      \* names of tests
    NoName,     \* an empty m_testNameEdit
    MaxApps,    \* bound: applications started
    MaxLog,     \* bound: elements one application logs
    MaxRuns,    \* bound: runs in progress at a time
    MaxOdd      \* bound: kinds of overlap in one behaviour

ASSUME SessionsAssumption ==
    /\ NoName \notin Tests
    /\ {MaxApps, MaxLog, MaxRuns, MaxOdd} \subseteq Nat

VARIABLES
    acceptors,  \* the live RemoteConnections: of m_hooqLogger, m_hooqPlayer
    pending,    \* connections of m_server nobody has taken
    apps,       \* the applications started so far
    gdb,        \* per injector the application its gdb process runs
    logSocket,  \* m_hooqLogger->m_socket
    dump,       \* m_xmlDump: the log elements written to it
    nameEdit,   \* m_testNameEdit
    scripts,    \* the scripts recorded
    device,     \* the interpreter's device
    attach,     \* m_attachState
    uuid,       \* m_applicationUuid is not empty
    runs,       \* the runs in progress, by what each waits for
    failure,    \* history: the null pointer that was used, or "none"
    odd         \* history: the overlaps of operations there have been

linkVars == <<acceptors, pending, apps, gdb>>
recordVars == <<logSocket, dump, nameEdit, scripts>>
runVars == <<device, attach, uuid, runs>>
vars == <<linkVars, recordVars, runVars, failure, odd>>

NoApp == NoSocket       \* an application is named by its socket
NoDump == << [app |-> NoApp, number |-> 0] >>    \* m_xmlDump is null
NoScript == [app |-> NoApp, log |-> NoDump]
Injectors == {"record", "play"}
Oddities == {"restart", "recordingOverRun", "runOverRecording",
             "nested", "secondApplication"}

(* A run evaluates its script, waits for an application to connect, or     *)
(* closes one: it waits for the ACK of </hooq> ("close") or DIE, because   *)
(* the script asked for it or at its end.                                  *)
ScriptCloses == {"close", "die"}
EndCloses == {"endClose", "endDie"}
Waits == {"script", "attach"} \cup ScriptCloses \cup EndCloses

LogElements == [app : 1..MaxApps, number : 1..MaxLog]

TypeOK ==
    /\ acceptors \in Seq({"logger", "player"})
    /\ pending \in Seq(DOMAIN apps)
    /\ apps \in Seq([by : Injectors,
                     state : {"starting", "connected", "exited"},
                     mode : {"none", "RECORD", "PLAY"},
                     sent : 0..MaxLog, read : 0..MaxLog])
    /\ gdb \in [Injectors -> 0..Len(apps)]
    /\ {logSocket, device} \subseteq 0..Len(apps)
    /\ dump = NoDump \/ dump \in Seq(LogElements)
    /\ nameEdit \in Tests \cup {NoName}
    /\ DOMAIN scripts = Tests \cup {NoName}
    /\ \A t \in DOMAIN scripts : scripts[t] # NoScript =>
            /\ scripts[t].app \in DOMAIN apps
            /\ scripts[t].log \in Seq(LogElements)
    /\ attach \in {"NotAttached", "WaitingForAttach", "Attached"}
    /\ uuid \in BOOLEAN
    /\ runs \in Seq(Waits)
    /\ failure \in {"none", "socket", "dump", "device"}
    /\ odd \subseteq Oddities

Init ==
    /\ acceptors = <<>> /\ pending = <<>> /\ apps = <<>>
    /\ gdb = [injector \in Injectors |-> NoApp]
    /\ logSocket = NoSocket /\ dump = NoDump
    /\ nameEdit = NoName
    /\ scripts = [t \in Tests \cup {NoName} |-> NoScript]
    /\ device = NoSocket /\ attach = "NotAttached" /\ uuid = FALSE
    /\ runs = <<>>
    /\ failure = "none" /\ odd = {}

Alive == failure = "none"
Recording == gdb["record"] # NoApp
HasLogger == "logger" \in ToSet(acceptors)
HasPlayer == "player" \in ToSet(acceptors)

-----------------------------------------------------------------------------
(* GdbInjector::startAndAttach: "delete m_gdb" kills a gdb that still runs *)
(* (~QProcess); the application under it dies with it or is left running.  *)
Started(injector, survives) ==
    LET old == gdb[injector]
        left == IF old = NoApp \/ survives
                THEN apps ELSE [apps EXCEPT ![old].state = "exited"]
    IN  Append(left, [by |-> injector, state |-> "starting", mode |-> "none",
                      sent |-> 0, read |-> 0])

StartAndAttach(injector) ==
    /\ Len(apps) < MaxApps
    /\ \E survives \in BOOLEAN : apps' = Started(injector, survives)
    /\ gdb' = [gdb EXCEPT ![injector] = Len(apps) + 1]

(* Mutant of StoreScript: m_xmlDump is not rewound after it was read for   *)
(* the debug output, and the converter finds nothing.                      *)
StoreScriptUnrewound(log) ==
    /\ scripts' = [scripts EXCEPT ![nameEdit] =
                        [app |-> gdb["record"], log |-> <<>>]]
    /\ dump' = NoDump
    /\ nameEdit' = NoName

(* MainWindow::finishRecording, with log in m_xmlDump: the script is       *)
(* written under the name that is in the edit now, which is then cleared.  *)
StoreScript(log) ==
    /\ scripts' = [scripts EXCEPT ![nameEdit] =
                        [app |-> gdb["record"], log |-> log]]
    /\ dump' = NoDump
    /\ nameEdit' = NoName

(* Mutant of StartRecording: the player of the last run is not deleted.    *)
StartRecordingKeepingPlayer ==
    /\ Alive /\ nameEdit # NoName /\ ~Recording
    /\ StartAndAttach("record")
    /\ logSocket' = NoSocket
    /\ acceptors' = Replaced(acceptors, "logger")
    /\ dump' = <<>>
    /\ odd' = odd \cup (IF runs # <<>> THEN {"recordingOverRun"} ELSE {})
    /\ UNCHANGED <<pending, scripts, nameEdit, runVars, failure>>

(* MainWindow::startRecording (the button needs a name only).  If the gdb  *)
(* of an earlier recording runs, killing it emits finished and             *)
(* finishRecording runs inside startAndAttach: it deletes the new logger   *)
(* and stores the new, still empty, dump.                                  *)
StartRecording ==
    /\ Alive
    /\ nameEdit # NoName
    /\ StartAndAttach("record")
    /\ logSocket' = NoSocket
    /\ IF Recording
       THEN /\ acceptors' = <<>>
            /\ StoreScript(<<>>)
       ELSE /\ acceptors' = <<"logger">>
            /\ dump' = <<>>
            /\ UNCHANGED <<scripts, nameEdit>>
    /\ odd' = odd \cup (IF Recording THEN {"restart"} ELSE {})
                  \cup (IF runs # <<>> THEN {"recordingOverRun"} ELSE {})
    /\ UNCHANGED <<pending, runVars, failure>>

(* The recorded application is gone, gdb quits: finishRecording.  What the *)
(* logger has not read yet is lost with it.                                *)
AtFinished ==
    /\ Alive
    /\ Recording
    /\ apps[gdb["record"]].state = "exited"
    /\ acceptors' = Without(acceptors, "logger")
    /\ logSocket' = NoSocket
    /\ IF dump = NoDump     \* m_xmlDump->close()
       THEN failure' = "dump" /\ UNCHANGED <<scripts, dump, nameEdit>>
       ELSE StoreScript(dump) /\ UNCHANGED failure
    /\ UNCHANGED <<pending, apps, runVars, odd>>

(* Mutant of FinishRecording: finished is emitted twice.                   *)
FinishRecordingTwice == AtFinished /\ UNCHANGED gdb

FinishRecording == AtFinished /\ gdb' = [gdb EXCEPT !["record"] = NoApp]

TypeName(name) ==
    /\ Alive
    /\ name # nameEdit
    /\ nameEdit' = name
    /\ UNCHANGED <<linkVars, logSocket, dump, scripts, runVars, failure, odd>>

-----------------------------------------------------------------------------
(* The application connects: newConnection, and every RemoteConnection     *)
(* answers.  RemoteLogger::startLogging and Interpreter::setSocket use the *)
(* socket they are given without a look at it.                             *)
AppConnects(a) ==
    LET queue == Append(pending, a)
        Of(who) == SocketOf(who, acceptors, queue)
        told == [b \in DOMAIN apps |->
                    IF HasLogger /\ Of("logger") = b THEN "RECORD"
                    ELSE IF HasPlayer /\ Of("player") = b THEN "PLAY"
                    ELSE apps[b].mode]
    IN  /\ Alive
        /\ apps[a].state = "starting"
        /\ pending' = LeftPending(acceptors, queue)
        /\ apps' = [b \in DOMAIN apps |->
                       [apps[b] EXCEPT !.mode = told[b],
                           !.state = IF a = b THEN "connected" ELSE @]]
        /\ logSocket' = IF HasLogger THEN Of("logger") ELSE logSocket
        /\ device' = IF HasPlayer THEN Of("player") ELSE device
        /\ attach' = IF HasPlayer THEN "Attached" ELSE attach
        /\ failure' = IF NoSocket \in ToSet(Taken(acceptors, queue))
                      THEN "socket" ELSE failure
        /\ UNCHANGED <<acceptors, gdb, dump, nameEdit, scripts, uuid, runs, odd>>

(* Logger of the recorded application (see Recorder).                      *)
AppLogs(a) ==
    /\ Alive
    /\ apps[a].state = "connected"
    /\ apps[a].mode = "RECORD"
    /\ apps[a].sent < MaxLog
    /\ apps' = [apps EXCEPT ![a].sent = @ + 1]
    /\ UNCHANGED <<acceptors, pending, gdb, recordVars, runVars, failure, odd>>

AppExits(a) ==
    /\ Alive
    /\ apps[a].state # "exited"
    /\ apps' = [apps EXCEPT ![a].state = "exited"]
    /\ UNCHANGED <<acceptors, pending, gdb, recordVars, runVars, failure, odd>>

(* RemoteLogger::logData, on the readyRead of its socket.                  *)
UnreadPast(a) ==    \* mutant of Unread: one element more than was sent
    [i \in 1..(apps[a].sent - apps[a].read + 1) |->
        [app |-> a, number |-> apps[a].read + i]]
UnreadAgain(a) ==   \* mutant of Unread: from the beginning every time
    [i \in 1..apps[a].sent |-> [app |-> a, number |-> i]]
Unread(a) ==
    [i \in 1..(apps[a].sent - apps[a].read) |->
        [app |-> a, number |-> apps[a].read + i]]

LogData ==
    /\ Alive
    /\ logSocket # NoSocket
    /\ apps[logSocket].read < apps[logSocket].sent
    /\ dump' = dump \o Unread(logSocket)
    /\ apps' = [apps EXCEPT ![logSocket].read = apps[logSocket].sent]
    /\ UNCHANGED <<acceptors, pending, gdb, logSocket, nameEdit, scripts,
                   runVars, failure, odd>>

-----------------------------------------------------------------------------
Top == runs[Len(runs)]
Running(at) == Alive /\ runs # <<>> /\ Top = at
Move(at) == runs' = [runs EXCEPT ![Len(runs)] = at]

(* MainWindow::runTestScript, from the list or from the editor, which is   *)
(* enabled during a run: the connection of the last run is deleted and the *)
(* interpreter begins anew (Interpreter::run).                             *)
RunTestScript ==
    /\ Alive
    /\ Len(runs) < MaxRuns
    /\ runs' = Append(runs, "script")
    /\ acceptors' = Replaced(acceptors, "player")
    /\ attach' = "NotAttached" /\ uuid' = FALSE
    /\ odd' = odd \cup (IF HasLogger THEN {"runOverRecording"} ELSE {})
                  \cup (IF runs # <<>> THEN {"nested"} ELSE {})
    /\ UNCHANGED <<pending, apps, gdb, recordVars, device, failure>>

(* connectRemoteApplication ("spawned": the script made an object for it), *)
(* and ensureAttached of any statement when nothing is attached:           *)
(* startApplication, then wait.                                            *)
StartApplication(spawned) ==
    /\ Running("script")
    /\ spawned \/ attach = "NotAttached"
    /\ StartAndAttach("play")
    /\ Move("attach")
    /\ attach' = IF attach = "NotAttached" THEN "WaitingForAttach" ELSE attach
    /\ uuid' = (uuid \/ spawned)
    /\ odd' = odd \cup (IF attach = "Attached"
                        THEN {"secondApplication"} ELSE {})
    /\ UNCHANGED <<acceptors, pending, recordVars, device, failure>>

(* waitForAttach returns.                                                  *)
Attached ==
    /\ Running("attach")
    /\ attach = "Attached"
    /\ Move("script")
    /\ UNCHANGED <<linkVars, recordVars, device, attach, uuid, failure, odd>>

(* closeApplication, up to the wait for the ACK of </hooq>: the object of  *)
(* the application last spawned is closed or collected, or the run ends.   *)
StartClose(wait) ==
    /\ Running("script")
    /\ device # NoSocket
    /\ Move(wait)
    /\ UNCHANGED <<linkVars, recordVars, device, attach, uuid, failure, odd>>

CloseApplication == uuid /\ StartClose("close")

(* sender() is that of the slot that runs, also in a function called       *)
(* directly: for a run that was started while a script closes an           *)
(* application, the object that asked for it, unless a run between them    *)
(* is in a slot of its own (it waits to attach or in a statement, not in   *)
(* ScriptEditor::pause).  Its uuid is not that of the new run: the end of  *)
(* that run closes nothing.                                                *)
CloseIgnored(between) ==
    \E i \in 1..(Len(runs) - 1) :
        /\ runs[i] \in ScriptCloses
        /\ \A j \in (i + 1)..(Len(runs) - 1) : runs[j] \in between

RunEnds ==
    /\ ~CloseIgnored({})
    /\ StartClose("endClose")

(* ... there is nothing to close, or it is ignored.                        *)
RunEndsUnclosed ==
    /\ Running("script")
    /\ device = NoSocket \/ CloseIgnored({"script"})
    /\ runs' = Front(runs)
    /\ UNCHANGED <<linkVars, recordVars, device, attach, uuid, failure, odd>>

(* Mutant of WriteDie: the device is reset before it is told to die.       *)
WriteDieReset ==
    /\ Alive /\ runs # <<>> /\ Top \in {"close", "endClose"}
    /\ failure' = "device"
    /\ device' = NoSocket
    /\ UNCHANGED <<linkVars, recordVars, attach, uuid, runs, odd>>

(* waitForAck returns (the ACK was read, the application is gone, or       *)
(* setSocket of a run inside it has reset m_pendingAcks): DIE is written   *)
(* to the device there is now.                                             *)
WriteDie ==
    /\ Alive /\ runs # <<>> /\ Top \in {"close", "endClose"}
    /\ IF device = NoSocket
       THEN failure' = "device" /\ UNCHANGED runs
       ELSE /\ Move(IF Top = "close" THEN "die" ELSE "endDie")
            /\ UNCHANGED failure
    /\ UNCHANGED <<linkVars, recordVars, device, attach, uuid, odd>>

(* waitForAck returns again: the rest of closeApplication, and of a run    *)
(* that ends.                                                              *)
ApplicationClosed ==
    /\ Alive /\ runs # <<>> /\ Top \in {"die", "endDie"}
    /\ IF Top = "die" THEN Move("script") ELSE runs' = Front(runs)
    /\ device' = NoSocket /\ attach' = "NotAttached" /\ uuid' = FALSE
    /\ UNCHANGED <<linkVars, recordVars, failure, odd>>

Next ==
    /\ \/ StartRecording \/ FinishRecording \/ LogData
       \/ \E name \in Tests \cup {NoName} : TypeName(name)
       \/ \E a \in DOMAIN apps : AppConnects(a) \/ AppLogs(a) \/ AppExits(a)
       \/ RunTestScript \/ Attached
       \/ \E spawned \in BOOLEAN : StartApplication(spawned)
       \/ CloseApplication \/ RunEnds \/ RunEndsUnclosed
       \/ WriteDie \/ ApplicationClosed
    /\ Cardinality(odd') <= MaxOdd

(* The event loop of the window runs: the end of gdb is noticed.           *)
Fairness == WF_vars(FinishRecording)
Spec == Init /\ [][Next]_vars /\ Fairness

-----------------------------------------------------------------------------
(* An acceptor is given a null socket only where a test was run while a    *)
(* recording was waiting for its application: startRecording deletes the   *)
(* player, runTestScript does not delete the logger.                       *)
NullSocketOnlyInRunOverRecording ==
    failure = "socket" => "runOverRecording" \in odd

(* finishRecording finds no dump only after a recording was started while  *)
(* the gdb of another one was still running.                               *)
NullDumpOnlyAfterRestart == failure = "dump" => "restart" \in odd

(* closeApplication finds no device to write DIE to only when a test was   *)
(* run inside another run: that run's own closeApplication has reset it.   *)
NullDeviceOnlyInNestedRun == failure = "device" => "nested" \in odd

(* The window uses a null pointer of its own only after these overlaps, in *)
(* finishRecording (m_xmlDump) and closeApplication (device).              *)
NullUseOnlyInOverlap == NullDumpOnlyAfterRestart /\ NullDeviceOnlyInNestedRun

(* An application is told to do what it was started for (RECORD, PLAY),    *)
(* unless a recording was started over something else, a test was run over *)
(* a recording or a script started a second application: recordings and    *)
(* runs that follow one another never meet a connection left over from     *)
(* the one before, and runs in runs only those of each other.              *)
ToldItsPurpose ==
    odd \subseteq {"nested"} =>
        \A a \in DOMAIN apps :
            /\ apps[a].by = "record" => apps[a].mode # "PLAY"
            /\ apps[a].by = "play" => apps[a].mode # "RECORD"

(* A script plays against the application that was started last for a      *)
(* run, unless operations overlapped: waitForAttach takes whichever        *)
(* application connects.                                                   *)
PlaysTheStarted ==
    odd = {} /\ runs = <<"script">> /\ attach = "Attached" =>
        device = gdb["play"]

(* A script holds a prefix of the log of the one application it was        *)
(* recorded from: nothing of another application, nothing out of order and *)
(* nothing left over from an earlier recording.  (Its end may be missing:  *)
(* finishRecording does not wait for the socket to be drained.)            *)
ScriptIsPrefixOfItsLog ==
    odd \subseteq {"nested"} =>
        \A t \in DOMAIN scripts : scripts[t] # NoScript =>
            \A i \in DOMAIN scripts[t].log :
                scripts[t].log[i] = [app |-> scripts[t].app, number |-> i]

(* A recording whose application has exited is stored, with all that was   *)
(* read of its log, whatever else the window does: the end of gdb is       *)
(* noticed in the event loop of any run.  (What was not read by then is    *)
(* lost, and a recording that overlaps with another may store nothing.)    *)
StoredLog(a) ==
    \E t \in DOMAIN scripts :
        /\ scripts[t] # NoScript /\ scripts[t].app = a
        /\ {[app |-> a, number |-> i] : i \in 1..apps[a].read}
                \subseteq ToSet(scripts[t].log)

RecordingIsStored ==
    \A a \in 1..MaxApps :
        (gdb["record"] = a /\ apps[a].state = "exited")
            ~> (StoredLog(a) \/ "restart" \in odd \/ ~Alive)
=============================================================================
