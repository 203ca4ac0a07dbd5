------------------------------ MODULE TestRuns ------------------------------
(***************************************************************************)
(* src/hooq/MainWindow.cpp: running tests and collecting their results, on *)
(* the scripts of ScriptStore.                                             *)
(*                                                                         *)
(* A run is synchronous and processes events while it waits, so the window *)
(* and the editor can be used inside it, also to run tests: "calls" is the *)
(* stack of runTestScript and runAllTests calls in progress, and only the  *)
(* top one moves.  What a run does to the application is in Sessions and   *)
(* PlaybackSession.                                                        *)
(***************************************************************************)
EXTENDS ScriptStore, SequencesExt

CONSTANTS
    MaxCalls,   \* bound: calls in progress at a time
    MaxResults  \* bound: results kept when another test is run

ASSUME TestRunsAssumption == {MaxCalls, MaxResults} \subseteq Nat

VARIABLES
    calls,      \* runTestScript and runAllTests calls in progress
    running,    \* m_testRunning
    listOn,     \* m_testList is enabled
    mode,       \* the mode of the editor
    result,     \* m_testResult
    results     \* m_testResults

runVars == <<calls, running, listOn, mode, result, results>>
vars == <<storeVars, runVars>>

(* A run of a test with the text of its script (threw is history: it       *)
(* raised an error), and the loop of runAllTests at row "row" (tests is    *)
(* history: the rows when it began).  steady is history: no other call was *)
(* made inside it, and for a loop the list did not change under it and no  *)
(* test was cancelled.                                                     *)
RunCall(t, text) ==
    [call |-> "run", test |-> t, text |-> text, threw |-> FALSE,
     row |-> 0, tests |-> {}, steady |-> TRUE]
AllCall ==
    [call |-> "all", test |-> NoTest, text |-> NoText, threw |-> FALSE,
     row |-> 0, tests |-> rows, steady |-> TRUE]

Results == [test : Tests \cup {NoTest}, passed : BOOLEAN]

RunsTypeOK ==
    /\ \A i \in DOMAIN calls :
         calls[i] \in [call : {"run", "all"}, test : Tests \cup {NoTest},
                       text : Texts \cup {NoText}, threw : BOOLEAN,
                       row : Nat, tests : SUBSET Files, steady : BOOLEAN]
    /\ {running, listOn} \subseteq BOOLEAN
    /\ mode \in {"Interactive", "Headless"}
    /\ result \in Results
    /\ results \in Seq(Results)

AllTypeOK == TypeOK /\ RunsTypeOK

NoResult == [test |-> NoTest, passed |-> FALSE]

Init ==
    /\ StoreInit
    /\ calls = <<>>
    /\ running = FALSE /\ listOn = TRUE /\ mode = "Interactive"
    /\ result = NoResult /\ results = <<>>

Top == calls[Len(calls)]
InRun == calls # <<>> /\ Top.call = "run"
InLoop == calls # <<>> /\ Top.call = "all"

(* waitForEndOfTest, after every turn of the loop of runAllTests.  Nothing *)
(* else of the window happens between two turns.                           *)
Waiting == InLoop /\ Top.row > 0 /\ running
EventLoop == InLoop => Waiting

Unsteady(c) == [c EXCEPT !.steady = FALSE]
Disturbed == [i \in DOMAIN calls |-> Unsteady(calls[i])]
Relisted ==
    IF rows' = rows THEN calls
    ELSE [i \in DOMAIN calls |->
            IF calls[i].call = "all" THEN Unsteady(calls[i]) ELSE calls[i]]

-----------------------------------------------------------------------------
(* MainWindow::runTestScript for the row of f, on top of the calls in      *)
(* "under": the editor opens the script, the file is read once more (its   *)
(* path is looked up again) and Interpreter::run begins.                   *)
RunTestScript(f, under) ==
    /\ \E answer \in Answers \cup {"none"} :
            Open(ScriptPath(f[1]), answer, FALSE)
    /\ UNCHANGED <<dir, rows, archive, changes>>
    /\ calls' = Append(under, RunCall(f[1],
                            ReadFrom(disk', ScriptPathIn(disk', f[1]))))
    /\ running' = TRUE
    /\ listOn' = FALSE
    /\ result' = [test |-> f[1], passed |-> TRUE]

(* A single test, from the list or with Run in the editor (runEditorTest), *)
(* which is enabled during a run.                                          *)
RunTest(f) ==
    /\ EventLoop
    /\ Len(calls) < MaxCalls /\ Len(results) < MaxResults
    /\ f \in rows
    /\ \/ listOn
       \/ editor.shown /\ editor.path = ScriptPath(f[1])
    /\ RunTestScript(f, Disturbed)
    /\ UNCHANGED <<mode, results>>

(* Mutant of LogException: the result loses the name of its test.          *)
LogExceptionUnnamed ==
    /\ InRun
    /\ IF mode = "Interactive" THEN ShowError ELSE UNCHANGED storeVars
    /\ calls' = [calls EXCEPT ![Len(calls)].threw = TRUE]
    /\ result' = NoResult
    /\ UNCHANGED <<running, listOn, mode, results>>

(* ScriptEditor::raiseError, MainWindow::logException: an exception, an    *)
(* object that was not found or an application that is gone.               *)
LogException ==
    /\ InRun
    /\ IF mode = "Interactive" THEN ShowError ELSE UNCHANGED storeVars
    /\ calls' = [calls EXCEPT ![Len(calls)].threw = TRUE]
    /\ result' = [result EXCEPT !.passed = FALSE]
    /\ UNCHANGED <<running, listOn, mode, results>>

(* ScriptEditor::objectPicked: the dialog stays when the editor is closed. *)
ObjectPicked ==
    /\ InRun
    /\ InsertProperty
    /\ UNCHANGED runVars

(* Mutant of TestFinished: m_testRunning is not reset.                     *)
TestFinishedStillRunning ==
    /\ InRun
    /\ calls' = Front(calls)
    /\ listOn' = TRUE
    /\ results' = Append(results, result)
    /\ UNCHANGED <<storeVars, running, mode, result>>

(* The end of Interpreter::run: MainWindow::testFinished.                  *)
TestFinished ==
    /\ InRun
    /\ calls' = Front(calls)
    /\ running' = FALSE
    /\ listOn' = TRUE
    /\ results' = Append(results, result)
    /\ UNCHANGED <<storeVars, mode, result>>

-----------------------------------------------------------------------------
(* Mutant of RunAllTests: the results of earlier runs stay.                *)
RunAllTestsKeepingResults ==
    /\ EventLoop /\ Len(calls) + 1 < MaxCalls
    /\ calls' = Append(Disturbed, AllCall)
    /\ listOn' = FALSE /\ mode' = "Headless"
    /\ UNCHANGED <<storeVars, running, result, results>>

(* MainWindow::runAllTests, its button is always enabled.                  *)
RunAllTests ==
    /\ EventLoop
    /\ Len(calls) + 1 < MaxCalls
    /\ calls' = Append(Disturbed, AllCall)
    /\ results' = <<>>
    /\ listOn' = FALSE /\ mode' = "Headless"
    /\ UNCHANGED <<storeVars, running, result>>

RowAt(i) ==
    CHOOSE f \in rows : Cardinality({g \in rows : Key(g) < Key(f)}) = i
InTurn == InLoop /\ ~Waiting /\ Top.row < Cardinality(rows)
TurnDone(steady) ==
    Append(Front(calls), [Top EXCEPT !.row = @ + 1, !.steady = @ /\ steady])

NextTest ==
    /\ InTurn
    /\ RunTestScript(RowAt(Top.row), TurnDone(TRUE))
    /\ UNCHANGED <<mode, results>>

(* The user answers Cancel when the editor is asked to open the script,    *)
(* which it asks in Headless mode too: nothing is run.                     *)
CancelTest ==
    /\ InTurn
    /\ CanCancel(ScriptPath(RowAt(Top.row)[1]))
    /\ calls' = TurnDone(FALSE)
    /\ UNCHANGED <<storeVars, running, listOn, mode, result, results>>

(* After the last row the results are shown.                               *)
ShowResults ==
    /\ InLoop /\ ~Waiting
    /\ Top.row >= Cardinality(rows)
    /\ calls' = Front(calls)
    /\ listOn' = TRUE /\ mode' = "Interactive"
    /\ UNCHANGED <<storeVars, running, result, results>>

UseStore ==
    /\ EventLoop
    /\ (ListAction /\ listOn) \/ WindowAction
    /\ calls' = Relisted
    /\ UNCHANGED <<running, listOn, mode, result, results>>

(* A quit inside a run takes effect when the last call has returned.       *)
QuitAndStart ==
    /\ calls = <<>>
    /\ Quit
    /\ result' = NoResult /\ results' = <<>>
    /\ UNCHANGED <<calls, running, listOn, mode>>

Next ==
    \/ UseStore
    \/ \E f \in Files : RunTest(f)
    \/ LogException \/ ObjectPicked \/ TestFinished
    \/ RunAllTests \/ NextTest \/ CancelTest \/ ShowResults
    \/ QuitAndStart

Spec == Init /\ [][Next]_vars

-----------------------------------------------------------------------------
(* What is run, in a set that exists, is what the editor shows, unless it  *)
(* shows unsaved changes or the file was written or removed while it was   *)
(* open (Run runs the file, and opening the open path again does not       *)
(* reload it).  In one more case the two differ: a .qs file was deleted    *)
(* while it was edited, and saving the changes, as the editor offers when  *)
(* the test is run, brings it back.                                        *)
RunsWhatIsShown ==
    [][dir /\ Len(calls') > Len(calls) /\ calls'[Len(calls')].call = "run" =>
        LET run == calls'[Len(calls')]
        IN  \/ run.text = editor'.text
            \/ editor'.dirty \/ editor'.stale
            \/ /\ editor.stale
               /\ editor'.path # ScriptPathIn(disk', run.test)]_vars

(* A result is filed under the test that ran, with its own verdict, unless *)
(* another run was started inside it: one m_testResult serves them all.    *)
ResultOfItsTest ==
    [][Len(results') > Len(results) /\ Top.steady =>
        results'[Len(results')] =
            [test |-> Top.test, passed |-> ~Top.threw]]_vars

(* runAllTests shows every test that was listed, once and in order, unless *)
(* the list changed under the loop, another call was made inside it or a   *)
(* test was cancelled.                                                     *)
AllTestsReported ==
    [][InLoop /\ Len(calls') < Len(calls) /\ Top.steady =>
        /\ Len(results) = Cardinality(Top.tests)
        /\ \A i \in DOMAIN results : results[i].test = RowAt(i - 1)[1]]_vars

(* runAllTests waits for the end of a test only if it was called inside a  *)
(* run and a test of its own was cancelled: m_testRunning is then that of  *)
(* the outer run, which cannot end before the loop does.                   *)
WaitsOnlyForOuterRun ==
    Waiting => /\ ~Top.steady
               /\ \E i \in 1..(Len(calls) - 1) : calls[i].call = "run"
=============================================================================
