-------------------------------- MODULE Link --------------------------------
(***************************************************************************)
(* The process under test and the TCP connection between it and the Hooq   *)
(* GUI: what src/hooq/Interpreter.cpp (GUI side) and                       *)
(* src/injectedHooq/{Marshall,Player}.cpp (application side) share.        *)
(*                                                                         *)
(* A message stands for one unit of the protocol.  GUI to application: the *)
(* commands "PLAY" (with the opening <hooq> tag) and "DIE", one XML        *)
(* element per script statement, and "eod", the closing </hooq>.           *)
(* Application to GUI: the reply lines; "PICKED" and "DUMPED" include the  *)
(* XML document that follows the line.                                     *)
(***************************************************************************)
EXTENDS Integers, Sequences

VARIABLES
    toApp,  \* bytes written by the GUI that the application has not read
    toGui,  \* bytes written by the application that the GUI has not read
    app,    \* the process under test
    conn    \* the TCP connection, as the GUI's server sees it

linkVars == <<toApp, toGui, app, conn>>

(* The XML elements the GUI waits an ACK for.  "release" is                *)
(* mouseButtonRelease, "input" every other element that becomes a QEvent   *)
(* posted to an object (keys, wheel, shortcut, context menu, other mouse   *)
(* events): Player treats them alike, except that its event filter looks   *)
(* for releases.                                                           *)
Events == {"input", "release", "focus", "close", "sleep", "dnd"}

Commands == Events \cup {"dump", "pick", "eod", "PLAY", "DIE"}
Replies == {"ACK", "NOTFOUND", "PICKED", "DUMPED"}

AppStates == {"none", "starting", "running", "quitting", "dead"}
ConnStates == {"none", "pending", "accepted"}

LinkTypeOK ==
    /\ toApp \in Seq(Commands)
    /\ toGui \in Seq(Replies)
    /\ app \in AppStates
    /\ conn \in ConnStates

LinkInit ==
    /\ toApp = <<>>
    /\ toGui = <<>>
    /\ app = "none"
    /\ conn = "none"

(* What the GUI writes reaches a live peer; a write on a connection whose  *)
(* peer is gone is dropped by QTcpSocket.                                  *)
Sent(msgs) == IF app = "dead" THEN toApp ELSE toApp \o msgs

(* QTcpSocket leaves ConnectedState once the peer is gone and everything   *)
(* it sent has been read.                                                  *)
Disconnected == app = "dead" /\ toGui = <<>>

(* GdbInjector::startAndAttach: a fresh process, the library not yet       *)
(* connected; whatever ran before is forgotten.                            *)
SpawnProcess ==
    /\ app' = "starting"
    /\ conn' = "none"
    /\ toApp' = <<>>
    /\ toGui' = <<>>
=============================================================================
