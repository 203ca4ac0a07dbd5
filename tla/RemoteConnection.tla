-------------------------- MODULE RemoteConnection --------------------------
(***************************************************************************)
(* src/hooqInjector/RemoteConnection.cpp: every RemoteConnection on the    *)
(* QTcpServer is connected to its newConnection and answers it with        *)
(* nextPendingConnection, whoever started the application that connects.   *)
(***************************************************************************)
EXTENDS Integers, Sequences, SequencesExt

NoSocket == 0   \* the null QTcpSocket* (sockets are numbered from 1)

(* The slots run in the order in which the RemoteConnections were made:    *)
(* each takes the oldest pending socket, or null when none is left.        *)
Taken(acceptors, pending) ==
    [i \in DOMAIN acceptors |->
        IF i <= Len(pending) THEN pending[i] ELSE NoSocket]

(* What the slot of acceptor who is given.                                 *)
SocketOf(who, acceptors, pending) ==
    Taken(acceptors, pending)[
        CHOOSE i \in DOMAIN acceptors : acceptors[i] = who]

(* Mutant of LeftPending: a socket that was taken stays in the queue.      *)
LeftPendingTaken(acceptors, pending) == pending

(* What stays pending: a socket nobody took waits for the next signal.     *)
LeftPending(acceptors, pending) ==
    IF Len(acceptors) >= Len(pending)
    THEN <<>> ELSE SubSeq(pending, Len(acceptors) + 1, Len(pending))

(* The destructor of a RemoteConnection disconnects it from the server;    *)
(* a new one is connected behind the others.                               *)
Without(acceptors, who) == RemoveFirst(acceptors, who)
Replaced(acceptors, who) == Append(Without(acceptors, who), who)
=============================================================================
