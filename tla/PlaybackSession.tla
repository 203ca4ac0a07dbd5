--------------------------- MODULE PlaybackSession ---------------------------
(***************************************************************************)
(* A playback: the Interpreter in the Hooq GUI, the Player in the          *)
(* application under test, and the connection between them.                *)
(***************************************************************************)
EXTENDS Interpreter, Player

vars == <<linkVars, guiVars, playerVars>>

Init == LinkInit /\ GuiInit /\ PlayerInit

GuiNext == (ScriptStep \/ UserStep \/ GuiLoopStep) /\ UNCHANGED playerVars
Spawn == SpawnStep /\ PlayerReset
AppNext == (PlayerStep \/ ProcessStep) /\ UNCHANGED guiVars

Next == GuiNext \/ Spawn \/ AppNext

Spec == Init /\ [][Next]_vars

(* The event loops of the two processes run whenever they have something   *)
(* to do; scripts, users and crashes owe nothing.                          *)
Fairness ==
    /\ WF_vars(GuiLoopStep /\ UNCHANGED playerVars)
    /\ WF_vars(PlayerStep /\ UNCHANGED guiVars)
    /\ WF_vars(app = "quitting" /\ ProcessExits /\ UNCHANGED guiVars)

FairSpec == Spec /\ Fairness

TypeOK == LinkTypeOK /\ GuiTypeOK /\ PlayerTypeOK

-----------------------------------------------------------------------------
(* No ACK arrives that the Interpreter did not wait for: the assertion of  *)
(* Interpreter::setAck never fails.                                        *)
NoSurplusAck == pendingAcks >= 0

(* Nothing is left to arrive on a connection that closeApplication has     *)
(* given up: processSocketData would dereference a null device.            *)
NoReplyWithoutDevice == ~device => toGui = <<>>

(* A NOTFOUND is read while the script is still at the statement it is     *)
(* about, so ScriptEditor reports and pauses at the right line.            *)
NotFoundWhileAtStatement ==
    (\E i \in DOMAIN toGui : toGui[i] = "NOTFOUND") => gui = "ack"

(* While Player has a reason to write to its device (a queue to work off,  *)
(* a sleep or a pick to report) processEvents has not released it.         *)
PlayerKeepsDevice ==
    (queue # <<>> \/ timer # "off" \/ pickMode) => doc # "none"

(* A sleep or a pick suspends processEvents: the loop is not active        *)
(* anywhere on the stack, nobody else can enter it, and only one of the    *)
(* two resumes it.                                                         *)
SuspendedExclusively ==
    (timer # "off" \/ pickMode) =>
        /\ processing
        /\ \A i \in DOMAIN stack : stack[i] # "process"
        /\ timer # "off" => ~pickMode

(* waitFinished acknowledges with the flag of the sleep that started the   *)
(* timer: a sleep statement is acknowledged, the pause inside a drag and   *)
(* drop is not.                                                            *)
SleepAcksItself == timer # "off" => (ackNext <=> timer = "statement")

(* Calls of a script return only once the application has carried them     *)
(* out, or is lost.                                                        *)
Promise == INSTANCE RemoteCommands WITH
    waiting <- gui \in {"ack", "dump", "ending", "dying"},
    lost <- app = "dead"

ImplementsRemoteCommands == Promise!Spec

-----------------------------------------------------------------------------
(* Liveness, under FairSpec and without picks or pauses.                   *)

(* A statement that waits for an ACK returns, even if the application      *)
(* crashes, exits by itself or does not have the object.                   *)
StatementReturns == gui = "ack" ~> gui # "ack"

(* Closing an application to which the script has sent at least one        *)
(* request comes to an end.  (Before the first Event, Player's m_ackNext   *)
(* is uninitialised and the ACK of the end of the document may never be    *)
(* written.)                                                               *)
CloseCompletes == (gui = "ending" /\ issued > 1) ~> ~Closing

-----------------------------------------------------------------------------
(* What the repository says and the code does not do.                      *)

(* Event.h: a pick is a request for the user to click on a QObject.        *)
PickedByUser == picker # "replay"

(* Marshall::readCommand: every line it reads is a command, or qFatal.     *)
NoUnknownCommand == ~fatal

(* ScriptEditor reports "Application unexpectedly exit.": a script whose   *)
(* application is gone does not stay in its statement.                     *)
ExitIsNoticed == (gui \in {"attaching", "dump"} /\ app = "dead")
                    ~> gui \notin {"attaching", "dump"}
=============================================================================
