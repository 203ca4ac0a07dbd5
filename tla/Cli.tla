-------------------------------- MODULE Cli ---------------------------------
(***************************************************************************)
(* src/hooqcli/main.cpp with RemoteLogger and RemotePlayback: record or    *)
(* replay one application from the command line.  Both objects are made    *)
(* on the one server, whatever the mode.                                   *)
(***************************************************************************)
EXTENDS RemoteConnection

VARIABLES
    mode,        \* Record or Replay
    state,       \* of the application
    told,        \* the command it was sent, or "none"
    log,         \* eventLog.xml: not open yet, "truncated" or "read only"
    playSocket,  \* RemotePlayback's m_socket, when startPlayback has run
    quit         \* the event loop has ended

vars == <<mode, state, told, log, playSocket, quit>>

Unset == -1
App == 1            \* the only application, and its socket

(* RemoteLogger logger(&server); RemotePlayback player(&server);           *)
Acceptors == <<"logger", "player">>

TypeOK ==
    /\ mode \in {"Record", "Replay"}
    /\ state \in {"starting", "connected", "exited"}
    /\ told \in {"none", "RECORD", "PLAY"}
    /\ log \in {"truncated", "read only"}
    /\ playSocket \in {Unset, NoSocket, App}
    /\ quit \in BOOLEAN

(* main, up to app.exec(): the injector has started the application.       *)
Init ==
    /\ mode \in {"Record", "Replay"}
    /\ log = IF mode = "Replay" THEN "read only" ELSE "truncated"
    /\ state = "starting"
    /\ told = "none"
    /\ playSocket = Unset
    /\ quit = FALSE

(* newConnection: startLogging, then startPlayback.                        *)
Connect ==
    /\ ~quit
    /\ state = "starting"
    /\ state' = "connected"
    /\ told' = IF SocketOf("logger", Acceptors, <<App>>) = App
               THEN "RECORD" ELSE "PLAY"
    /\ playSocket' = SocketOf("player", Acceptors, <<App>>)
    /\ UNCHANGED <<mode, log, quit>>

Exit ==
    /\ state # "exited"
    /\ state' = "exited"
    /\ UNCHANGED <<mode, told, log, playSocket, quit>>

(* The injector's finished(int) is connected to quit().                    *)
Quit ==
    /\ state = "exited"
    /\ ~quit
    /\ quit' = TRUE
    /\ UNCHANGED <<mode, state, told, log, playSocket>>

Next == Connect \/ Exit \/ Quit

Spec == Init /\ [][Next]_vars

(* RemotePlayback::startPlayback asserts that the socket it is given is    *)
(* connected: "Q_ASSERT(m_socket->state() == QTcpSocket::ConnectedState    *)
(* && m_socket->isWritable() && m_socket->isOpen())".                      *)
PlaybackSocketConnected == playSocket # NoSocket
=============================================================================
