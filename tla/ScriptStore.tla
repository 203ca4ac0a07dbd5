---------------------------- MODULE ScriptStore -----------------------------
(***************************************************************************)
(* The scripts of a test set and the editor on them: src/hooq/Locations,   *)
(* TestModel, TestSetBackup, the document handling of ScriptEditor, and    *)
(* the operations of MainWindow that write or remove a script.             *)
(*                                                                         *)
(* A test t is stored as t.qs by older versions and as <hex of t>.hs by    *)
(* this one; a script file is <<t, "qs">> or <<t, "hs">>.                  *)
(***************************************************************************)
EXTENDS Integers, Sequences, FiniteSets

CONSTANTS
    Tests,      \* names of tests, numbers: directories are listed in order
    MaxChanges  \* bound: texts typed or recorded, tests deleted, exports,
                \* imports, sets removed or added

NoTest == 0

ASSUME ScriptStoreAssumption ==
    /\ Tests \subseteq Nat \ {NoTest}
    /\ IsFiniteSet(Tests)      \* a directory lists finitely many names
    /\ MaxChanges \in Nat

VARIABLES
    dir,        \* the test set exists
    disk,       \* the texts of its script files
    rows,       \* m_testModel's items, by the file each was listed for
    editor,     \* ScriptEditor: m_filePath, its text, m_dirty, visibility
                \* (and, as history: its file holds something else)
    archive,    \* an exported .hqt file
    changes,    \* history: how many changes there have been
    orphan,     \* history: the document has lost its path, or the path its
                \* set, while it is open
    lost        \* history: edits of another document are gone that nobody
                \* discarded

storeVars == <<dir, disk, rows, editor, archive, changes, orphan, lost>>

Files == Tests \X {"qs", "hs"}
NoPath == <<NoTest, "null">>
Nowhere(t) == <<t, "no set">>

(* The order of file names: of directory listings and of a QMap.           *)
Key(f) == 2 * f[1] + (IF f[2] = "hs" THEN 1 ELSE 0)
Paths == Files \cup {NoPath} \cup {Nowhere(t) : t \in Tests}

(* A text is known by the test it was recorded or edited for (or by none:  *)
(* it was typed without a path) and a number.                              *)
Text(t, n) == [test |-> t, number |-> n]
NoText == Text(NoTest, -1)          \* an empty document
NoFile == Text(NoTest, -2)
Texts == [test : Tests \cup {NoTest}, number : 0..MaxChanges]
NoArchive == [f \in Files |-> NoText]

TypeOK ==
    /\ dir \in BOOLEAN
    /\ disk \in [Files -> Texts \cup {NoText, NoFile}]
    /\ rows \subseteq Files
    /\ editor \in [path : Paths, text : Texts \cup {NoText},
                   dirty : BOOLEAN, shown : BOOLEAN, stale : BOOLEAN]
    /\ archive \in [Files -> Texts \cup {NoText, NoFile}]
    /\ changes \in 0..MaxChanges
    /\ orphan \in BOOLEAN /\ lost \in BOOLEAN

OnDisk == {f \in Files : disk[f] # NoFile}

(* The highlighter may have marked the empty document as changed.          *)
NewEditor(marked) ==
    [path |-> NoPath, text |-> NoText, dirty |-> marked,
     shown |-> FALSE, stale |-> FALSE]

(* Some tests of an older version may be there.                            *)
StoreInit ==
    /\ dir = TRUE
    /\ \E old \in SUBSET (Tests \X {"qs"}) :
         disk = [f \in Files |-> IF f \in old THEN Text(f[1], 0) ELSE NoFile]
    /\ rows = OnDisk
    /\ \E marked \in BOOLEAN : editor = NewEditor(marked)
    /\ archive = NoArchive
    /\ changes = 0
    /\ orphan = FALSE /\ lost = FALSE

-----------------------------------------------------------------------------
(* Locations::scriptPath, when the files are those.                        *)
ScriptPathIn(files, t) ==
    IF ~dir THEN Nowhere(t)
    ELSE IF files[<<t, "qs">>] # NoFile THEN <<t, "qs">> ELSE <<t, "hs">>
ScriptPath(t) == ScriptPathIn(disk, t)

(* QFile: a path that names no place in the set cannot be opened; nobody   *)
(* but finishRecording and setScriptPath looks.                            *)
Writable(path) == dir /\ path \in Files
WriteTo(path, text) ==
    IF Writable(path) THEN [disk EXCEPT ![path] = text] ELSE disk
ReadFromMissing(files, path) ==     \* mutant of ReadFrom: of no file, too
    IF path \in Files THEN files[path] ELSE NoText
ReadFrom(files, path) ==
    IF path \in Files /\ files[path] # NoFile THEN files[path] ELSE NoText

Edited == editor.dirty /\ editor.text # NoText

AnswersUnasked == {"none"}          \* mutant of Answers: it never asks

(* ScriptEditor::shouldCancelDocumentChange asks if there are changes and  *)
(* a path; without a path they are forgotten.                              *)
Answers ==
    IF editor.dirty /\ editor.path # NoPath
    THEN {"Save", "Discard", "Cancel"} ELSE {"none"}

(* Leaving the document with that answer (not Cancel): the files, and      *)
(* whether changes are lost that were not discarded.                       *)
SavedAs(answer) ==
    IF answer = "Save" THEN WriteTo(editor.path, editor.text) ELSE disk
Unasked(answer) ==
    /\ Edited
    /\ answer = "none" \/ (answer = "Save" /\ ~Writable(editor.path))
Leave(answer) ==
    /\ disk' = SavedAs(answer)
    /\ lost' = (lost \/ (Unasked(answer) /\ ~orphan))

(* Mutant of Open: the path of the old document is kept.                   *)
OpenKeepingPath(path, answer, visible) ==
    /\ editor.path # path /\ answer \in Answers \ {"Cancel"}
    /\ Leave(answer)
    /\ editor' = [path |-> IF editor.path = NoPath THEN path ELSE editor.path,
                  text |-> ReadFrom(disk', path),
                  dirty |-> FALSE, shown |-> editor.shown \/ visible,
                  stale |-> FALSE]
    /\ orphan' = ~dir

(* Mutant of Open: the document is not read.                               *)
OpenUnread(path, answer, visible) ==
    /\ editor.path # path /\ answer \in Answers \ {"Cancel"}
    /\ Leave(answer)
    /\ editor' = [editor EXCEPT !.path = path, !.dirty = FALSE,
                      !.stale = FALSE, !.shown = @ \/ visible]
    /\ orphan' = ~dir

(* ScriptEditor::open, which did not return false; with visible also the   *)
(* rest of MainWindow::editTestScript.                                     *)
Open(path, answer, visible) ==
    IF editor.path = path
    THEN /\ answer = "none"
         /\ editor' = [editor EXCEPT !.shown = @ \/ visible]
         /\ UNCHANGED <<disk, orphan, lost>>
    ELSE /\ answer \in Answers \ {"Cancel"}
         /\ Leave(answer)
         /\ editor' = [path |-> path, text |-> ReadFrom(disk', path),
                       dirty |-> FALSE, shown |-> editor.shown \/ visible,
                       stale |-> FALSE]
         /\ orphan' = ~dir

CanCancel(path) == editor.path # path /\ "Cancel" \in Answers

EditTestScript(f) ==
    /\ f \in rows
    /\ \E answer \in Answers \cup {"none"} :
            Open(ScriptPath(f[1]), answer, TRUE)
    /\ UNCHANGED <<dir, rows, archive, changes>>

(* Texts are numbered by the change that made them.                        *)
Change == changes < MaxChanges /\ changes' = changes + 1

(* markAsDirty.  What was a script of test t still is one.                 *)
Edit ==
    /\ Change
    /\ editor' = [editor EXCEPT !.dirty = TRUE,
                     !.text = Text(IF editor.text = NoText
                                   THEN editor.path[1] ELSE editor.text.test,
                                   changes + 1)]

TypeText ==
    /\ editor.shown
    /\ Edit
    /\ UNCHANGED <<dir, disk, rows, archive, orphan, lost>>

(* What a run does to the editor, also to one that was closed in it and    *)
(* has no path: a picked property is inserted, an error shows it.          *)
OrphanIfClosed == orphan' = (orphan \/ editor.path = NoPath)

InsertProperty ==
    /\ Edit
    /\ OrphanIfClosed
    /\ UNCHANGED <<dir, disk, rows, archive, lost>>

ShowError ==
    /\ editor' = [editor EXCEPT !.shown = TRUE]
    /\ OrphanIfClosed
    /\ UNCHANGED <<dir, disk, rows, archive, changes, lost>>

(* ScriptEditor::save (enabled while dirty).                               *)
Save ==
    /\ editor.shown /\ editor.dirty
    /\ disk' = WriteTo(editor.path, editor.text)
    /\ lost' = (lost \/ (Unasked("Save") /\ ~orphan))
    /\ editor' = [editor EXCEPT !.dirty = FALSE,
                                !.stale = ~Writable(editor.path)]
    /\ UNCHANGED <<dir, rows, archive, changes, orphan>>

(* ScriptEditor::revert: the path is cleared before it is passed to open,  *)
(* which is then asked for the path it has and does nothing.               *)
Revert ==
    /\ editor.shown /\ editor.dirty
    /\ editor' = [editor EXCEPT !.dirty = FALSE, !.path = NoPath]
    /\ orphan' = TRUE
    /\ UNCHANGED <<dir, disk, rows, archive, changes, lost>>

(* ScriptEditor::closeEvent.                                               *)
Close ==
    /\ editor.shown
    /\ \E answer \in Answers \ {"Cancel"} : Leave(answer)
    /\ editor' = [editor EXCEPT !.dirty = FALSE, !.path = NoPath,
                                !.shown = FALSE]
    /\ orphan' = FALSE
    /\ UNCHANGED <<dir, rows, archive, changes>>

(* File > Close only hides the editor: path and changes stay.              *)
Hide ==
    /\ editor.shown
    /\ editor' = [editor EXCEPT !.shown = FALSE]
    /\ UNCHANGED <<dir, disk, rows, archive, changes, orphan, lost>>

(* File > Quit, or the last window is closed, and Hooq is started again:   *)
(* nobody is asked about changes.                                          *)
Quit ==
    /\ \E marked \in BOOLEAN : editor' = NewEditor(marked)
    /\ rows' = OnDisk
    /\ orphan' = FALSE
    /\ UNCHANGED <<dir, disk, archive, changes, lost>>

-----------------------------------------------------------------------------
(* Who writes a script does not look whether it is open in the editor.     *)
EditorUnaware ==
    editor' = [editor EXCEPT !.stale =
                  @ \/ (editor.path \in Files
                        /\ disk'[editor.path] # disk[editor.path])]

(* TestModel::rescan, when the watcher has seen the directory change.      *)
Rescan ==
    /\ dir
    /\ rows # OnDisk
    /\ rows' = OnDisk
    /\ UNCHANGED <<dir, disk, editor, archive, changes, orphan, lost>>

(* MainWindow::finishRecording: the script goes over whatever is there.    *)
RecordScript(t) ==
    /\ dir
    /\ Change
    /\ disk' = WriteTo(ScriptPath(t), Text(t, changes + 1))
    /\ EditorUnaware
    /\ UNCHANGED <<dir, rows, archive, orphan, lost>>

(* MainWindow::deleteCurrentTest.                                          *)
DeleteCurrentTest(f) ==
    /\ Change
    /\ f \in rows
    /\ ScriptPath(f[1]) \in OnDisk
    /\ disk' = [disk EXCEPT ![ScriptPath(f[1])] = NoFile]
    /\ EditorUnaware
    /\ UNCHANGED <<dir, rows, archive, orphan, lost>>

(* MainWindow::removeTestSet of the only set: setTestSet of an empty name  *)
(* returns at once and leaves the items of the model as they are.          *)
RemoveTestSet ==
    /\ Change
    /\ dir
    /\ dir' = FALSE
    /\ disk' = [f \in Files |-> NoFile]
    /\ EditorUnaware
    /\ orphan' = (orphan \/ editor.path \in Files)
    /\ UNCHANGED <<rows, archive, lost>>

(* MainWindow::addTestSet, TestModel::setTestSet: the directory is made.   *)
AddTestSet ==
    /\ Change
    /\ ~dir
    /\ dir' = TRUE
    /\ rows' = OnDisk
    /\ UNCHANGED <<disk, editor, archive, orphan, lost>>

(* TestSetBackup::backup: every file of the directory.                     *)
ExportCurrentSet ==
    /\ Change
    /\ dir
    /\ archive # disk /\ OnDisk # {}
    /\ archive' = disk
    /\ UNCHANGED <<dir, disk, rows, editor, orphan, lost>>

(* TestSetBackup::restore gives up at a name that does not end in ".qs";   *)
(* otherwise it makes the directory and writes the files over what is      *)
(* there.  importTestSet then shows the set.                               *)
Archived == {f \in Files : archive[f] # NoFile}
Restorable == \A f \in Archived : f[2] = "qs"

Restored(written) ==
    /\ dir' = TRUE
    /\ disk' = [f \in Files |-> IF f \in written THEN archive[f] ELSE disk[f]]
    /\ EditorUnaware
    /\ UNCHANGED <<archive, orphan, lost>>

ImportTestSet ==
    /\ Change
    /\ archive # NoArchive
    /\ Restorable
    /\ Restored(Archived)
    /\ rows' = {f \in Files : disk'[f] # NoFile}

(* The file of f cannot be opened: restore fails, with those before it     *)
(* written.                                                                *)
ImportFails(f) ==
    /\ Change
    /\ dir
    /\ archive # NoArchive
    /\ Restorable
    /\ f \in Archived
    /\ Restored({g \in Archived : Key(g) < Key(f)})
    /\ UNCHANGED rows

ListAction == \E f \in Files : EditTestScript(f) \/ DeleteCurrentTest(f)
WindowAction ==
    \/ \E t \in Tests : RecordScript(t)
    \/ TypeText \/ Save \/ Revert \/ Close \/ Hide
    \/ Rescan \/ RemoveTestSet \/ AddTestSet
    \/ ExportCurrentSet \/ ImportTestSet
    \/ \E f \in Files : ImportFails(f)
StoreNext == ListAction \/ WindowAction \/ Quit

StoreSpec == StoreInit /\ [][StoreNext]_storeVars

-----------------------------------------------------------------------------
(* Text of one test never ends up in the file of another: the path the     *)
(* editor saves to is that of the document it shows, also after Discard,   *)
(* Close and Cancel.                                                       *)
NoScriptInForeignFile ==
    \A f \in OnDisk : disk[f] # NoText => disk[f].test = f[1]

(* No edit is lost that the user did not discard: who leaves a document is *)
(* asked, and what is answered is done.  Only an orphan's edits are lost:  *)
(* of a document whose path Discard Changes has cleared, whose set was     *)
(* removed, or that was closed in a run and then shown by an error or      *)
(* filled in by a picked property.  (File > Quit asks nobody.)             *)
NoEditLostUnasked == ~lost

(* "Q_ASSERT(testName.endsWith(".qs"))" in TestSetBackup::restore and      *)
(* list: every file of an archive is a .qs script.                         *)
ArchiveRestorable == archive = NoArchive \/ Restorable
=============================================================================
