----------------------------- MODULE MCTestRuns -----------------------------
(* TestRuns for TLC.                                                       *)
EXTENDS TestRuns
=============================================================================
