--------------------------- MODULE RemoteCommands ---------------------------
(***************************************************************************)
(* What playback promises to a script, whatever happens on the wire: the   *)
(* script makes one request at a time; the application carries each out at *)
(* most once; and the call returns only after its own request has been     *)
(* carried out, unless the application is lost.                            *)
(***************************************************************************)
EXTENDS Naturals

VARIABLES
    issued,     \* requests made of the current application
    performed,  \* requests it has carried out
    waiting,    \* a call of the script has not returned
    lost        \* the application is gone

vars == <<issued, performed, waiting, lost>>

Init ==
    /\ issued = 0
    /\ performed = 0
    /\ waiting = FALSE
    /\ lost = FALSE

(* A new application.                                                      *)
Launch ==
    /\ ~waiting
    /\ issued' = 0
    /\ performed' = 0
    /\ lost' = FALSE
    /\ UNCHANGED waiting

Issue ==
    /\ ~waiting
    /\ waiting' = TRUE
    /\ issued' = issued + 1
    /\ UNCHANGED <<performed, lost>>

Perform ==
    /\ ~lost
    /\ performed < issued
    /\ performed' = performed + 1
    /\ UNCHANGED <<issued, waiting, lost>>

Return ==
    /\ waiting
    /\ performed = issued \/ lost
    /\ waiting' = FALSE
    /\ UNCHANGED <<issued, performed, lost>>

(* A call may return and the next request be made in the same step.        *)
ReturnAndIssue ==
    /\ waiting
    /\ performed = issued \/ lost
    /\ issued' = issued + 1
    /\ UNCHANGED <<performed, waiting, lost>>

Lose ==
    /\ lost' = TRUE
    /\ UNCHANGED <<issued, performed, waiting>>

Next == Launch \/ Issue \/ Perform \/ Return \/ ReturnAndIssue \/ Lose

Spec == Init /\ [][Next]_vars
=============================================================================
