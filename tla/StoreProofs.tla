---------------------------- MODULE StoreProofs -----------------------------
(***************************************************************************)
(* Proofs about ScriptStore: whatever is typed, saved, recorded, deleted,  *)
(* exported and imported, in any order and for any number of tests, a      *)
(* script stays in the file of its test and edits are not lost silently.   *)
(***************************************************************************)
EXTENDS ScriptStore, TLAPS

(* What is on disk and in an archive belongs to the test of its file.      *)
OwnScripts(files) ==
    \A f \in Files : files[f] \in Texts => files[f].test = f[1]

(* The document of the editor belongs to the test of its path ...          *)
OwnDocument ==
    editor.path \in Files /\ editor.text \in Texts
        => editor.text.test = editor.path[1]

(* ... and is what its file holds, unless it is edited or stale.  Only a   *)
(* .qs file that was there is ever open under its name.                    *)
CurrentDocument ==
    editor.path \in Files =>
        /\ ~editor.dirty /\ ~editor.stale => editor.text = ReadFrom(disk, editor.path)
        /\ editor.path[2] = "qs" /\ disk[editor.path] = NoFile => editor.stale

(* A document that is no orphan can be saved, or it has no path and is     *)
(* neither shown nor edited: who leaves it is asked, or loses nothing.     *)
Savable ==
    /\ ~lost
    /\ ~orphan =>
        /\ editor.path \in Files \cup {NoPath}
        /\ editor.path \in Files => dir
        /\ editor.path = NoPath => ~editor.shown /\ ~Edited

StoreInv ==
    /\ TypeOK
    /\ OwnScripts(disk)
    /\ OwnScripts(archive)
    /\ OwnDocument
    /\ CurrentDocument
    /\ Savable

-----------------------------------------------------------------------------
(* Paths and texts.                                                        *)
LEMMA PathFacts ==
    /\ NoPath \notin Files /\ NoPath \in Paths
    /\ \A t \in Tests : /\ <<t, "qs">> \in Files /\ <<t, "hs">> \in Files
                        /\ Nowhere(t) \notin Files /\ Nowhere(t) \in Paths
                        /\ Nowhere(t) # NoPath
                        /\ <<t, "qs">>[1] = t /\ <<t, "hs">>[1] = t
                        /\ <<t, "qs">>[2] = "qs" /\ <<t, "hs">>[2] = "hs"
                        /\ Nowhere(t)[1] = t
    /\ \A f \in Files : /\ f[1] \in Tests /\ f[2] \in {"qs", "hs"}
                        /\ f = <<f[1], f[2]>> /\ f \in Paths /\ f # NoPath
    /\ NoPath[1] = NoTest
<1>1. \A x \in Tests : x # NoTest
  BY ScriptStoreAssumption DEF NoTest
<1>2. /\ NoPath \notin Files /\ NoPath \in Paths
      /\ NoPath[1] = NoTest
  BY <1>1 DEF Files, NoPath, Paths
<1>3. ASSUME NEW t \in Tests
      PROVE  /\ <<t, "qs">> \in Files /\ <<t, "hs">> \in Files
             /\ <<t, "qs">>[1] = t /\ <<t, "hs">>[1] = t
             /\ <<t, "qs">>[2] = "qs" /\ <<t, "hs">>[2] = "hs"
  BY DEF Files
<1>4. ASSUME NEW t \in Tests
      PROVE  /\ Nowhere(t) \notin Files /\ Nowhere(t) \in Paths
             /\ Nowhere(t) # NoPath /\ Nowhere(t)[1] = t
  <2>1. Nowhere(t) \in Paths
    BY DEF Paths
  <2>2. Nowhere(t)[1] = t /\ Nowhere(t)[2] = "no set" /\ NoPath[2] = "null"
    BY DEF Nowhere, NoPath
  <2>3. \A f \in Files : f[2] \in {"qs", "hs"}
    BY DEF Files
  <2>4. "no set" # "qs" /\ "no set" # "hs" /\ "no set" # "null"
    OBVIOUS
  <2> QED
    BY <2>1, <2>2, <2>3, <2>4
<1>5. ASSUME NEW f \in Files
      PROVE  /\ f[1] \in Tests /\ f[2] \in {"qs", "hs"}
             /\ f = <<f[1], f[2]>>
  BY DEF Files
<1>6. ASSUME NEW f \in Files PROVE f \in Paths /\ f # NoPath
  BY <1>2, <1>6 DEF Paths
<1> QED
  BY <1>2, <1>3, <1>4, <1>5, <1>6

(* A text knows its test; there being none is not a text.                  *)
LEMMA TextFacts ==
    /\ NoText \notin Texts /\ NoFile \notin Texts /\ NoFile # NoText
    /\ \A t \in Tests \cup {NoTest}, n \in 0..MaxChanges :
         Text(t, n) \in Texts /\ Text(t, n).test = t
    /\ \A x \in Texts : x.test \in Tests \cup {NoTest}
<1>1. /\ NoText.number = -1 /\ NoFile.number = -2
      /\ \A x \in Texts : x.number \in 0..MaxChanges
  BY DEF Texts, Text, NoText, NoFile
<1>2. NoText \notin Texts /\ NoFile \notin Texts /\ NoFile # NoText
  BY <1>1
<1> QED
  BY <1>2 DEF Texts, Text

(* Locations::scriptPath names a file of its test, or none.                *)
LEMMA ScriptPathFacts ==
    ASSUME TypeOK, NEW t \in Tests,
           NEW files \in [Files -> Texts \cup {NoText, NoFile}]
    PROVE  /\ ScriptPathIn(files, t) \in Paths \ {NoPath}
           /\ ScriptPathIn(files, t) \in Files => ScriptPathIn(files, t)[1] = t
           /\ dir => ScriptPathIn(files, t) \in Files
           /\ (ScriptPathIn(files, t) \in Files /\ ScriptPathIn(files, t)[2] = "qs")
                => files[ScriptPathIn(files, t)] # NoFile
  BY PathFacts DEF ScriptPathIn, TypeOK

(* A write changes the one file it names, or nothing.                      *)
LEMMA WriteToFacts ==
    ASSUME TypeOK, NEW path \in Paths, NEW text \in Texts \cup {NoText}
    PROVE  /\ WriteTo(path, text) \in [Files -> Texts \cup {NoText, NoFile}]
           /\ \A f \in Files : WriteTo(path, text)[f] =
                 IF f = path /\ dir THEN text ELSE disk[f]
  BY DEF TypeOK, WriteTo, Writable

(* What a document is read from is its file.                               *)
LEMMA ReadFromFacts ==
    ASSUME NEW files \in [Files -> Texts \cup {NoText, NoFile}], NEW path \in Paths
    PROVE  /\ ReadFrom(files, path) \in Texts \cup {NoText}
           /\ OwnScripts(files) /\ ReadFrom(files, path) \in Texts
                => path \in Files /\ ReadFrom(files, path).test = path[1]
           /\ (path \in Files /\ files[path] # NoFile) => ReadFrom(files, path) = files[path]
  BY TextFacts DEF ReadFrom, OwnScripts

-----------------------------------------------------------------------------
Scripts == [Files -> Texts \cup {NoText, NoFile}]
Documents == [path : Paths, text : Texts \cup {NoText},
              dirty : BOOLEAN, shown : BOOLEAN, stale : BOOLEAN]

(* Saving the document of the editor.                                      *)
LEMMA SavingOwn ==
    ASSUME StoreInv
    PROVE  /\ WriteTo(editor.path, editor.text) \in Scripts
           /\ OwnScripts(WriteTo(editor.path, editor.text))
           /\ \A f \in Files : disk[f] # NoFile
                => WriteTo(editor.path, editor.text)[f] # NoFile
<1>1. TypeOK /\ editor.path \in Paths /\ editor.text \in Texts \cup {NoText}
  BY DEF StoreInv, TypeOK
<1>2. /\ WriteTo(editor.path, editor.text) \in Scripts
      /\ \A f \in Files : WriteTo(editor.path, editor.text)[f] =
            IF f = editor.path /\ dir THEN editor.text ELSE disk[f]
  BY <1>1, WriteToFacts DEF Scripts
<1> QED
  BY <1>1, <1>2, TextFacts DEF StoreInv, OwnScripts, OwnDocument

(* Of a document that is no orphan no edit is left behind unasked.         *)
LEMMA SafelyLeft ==
    ASSUME StoreInv, ~orphan
    PROVE  /\ \A answer \in Answers \ {"Cancel"} : ~Unasked(answer)
           /\ editor.shown => ~Unasked("Save")
<1>1. /\ editor.path \in Files \cup {NoPath}
      /\ editor.path \in Files => dir
      /\ editor.path = NoPath => ~editor.shown /\ ~Edited
  BY DEF StoreInv, Savable
<1>2. Edited => editor.path \in Files /\ "none" \notin Answers /\ Writable(editor.path)
  BY <1>1, PathFacts DEF Edited, Answers, Writable
<1> QED
  BY <1>2 DEF Unasked

(* Leaving the document: what is on disk stays where it belongs, and of a  *)
(* document that is no orphan nothing is lost unasked.                     *)
LEMMA LeaveOwn ==
    ASSUME StoreInv, NEW answer \in Answers \ {"Cancel"}, Leave(answer)
    PROVE  /\ disk' \in Scripts /\ OwnScripts(disk')
           /\ lost' \in BOOLEAN /\ ~lost'
           /\ \A f \in Files : disk[f] # NoFile => disk'[f] # NoFile
<1>1. disk \in Scripts /\ OwnScripts(disk) /\ ~lost
  BY DEF StoreInv, TypeOK, Scripts, Savable
<1>2. /\ disk' \in Scripts /\ OwnScripts(disk')
      /\ \A f \in Files : disk[f] # NoFile => disk'[f] # NoFile
  BY <1>1, SavingOwn DEF Leave, SavedAs
<1>3. ~orphan => ~Unasked(answer)
  BY SafelyLeft
<1>4. lost' \in BOOLEAN /\ ~lost'
  BY <1>1, <1>3 DEF Leave
<1> QED
  BY <1>2, <1>4

(* ScriptEditor::open, of the script of a test.                            *)
LEMMA OpenStep ==
    ASSUME StoreInv, NEW t \in Tests, NEW answer, NEW visible \in BOOLEAN,
           Open(ScriptPath(t), answer, visible),
           UNCHANGED <<dir, rows, archive, changes>>
    PROVE  StoreInv'
<1> DEFINE path == ScriptPath(t)
<1>1. /\ TypeOK /\ disk \in Scripts /\ editor \in Documents
      /\ editor.shown \in BOOLEAN
  BY DEF StoreInv, TypeOK, Scripts, Documents
<1>2. /\ path \in Paths \ {NoPath}
      /\ path \in Files => path[1] = t
      /\ dir => path \in Files
      /\ (path \in Files /\ path[2] = "qs") => disk[path] # NoFile
  BY <1>1, ScriptPathFacts DEF ScriptPath, Scripts
<1> HIDE DEF path
<1>3. CASE editor.path = path
  <2>1. /\ editor' = [editor EXCEPT !.shown = @ \/ visible]
        /\ UNCHANGED <<disk, orphan, lost>>
    BY <1>3 DEF Open, path
  <2>2. /\ editor' \in Documents
        /\ editor'.path = editor.path /\ editor'.text = editor.text
        /\ editor'.dirty = editor.dirty /\ editor'.stale = editor.stale
    BY <1>1, <2>1 DEF Documents
  <2>3. TypeOK'
    BY <1>1, <2>1, <2>2 DEF TypeOK, Documents
  <2>4. OwnDocument' /\ CurrentDocument'
    BY <2>1, <2>2 DEF StoreInv, OwnDocument, CurrentDocument, ReadFrom
  <2>5. Savable'
    BY <1>2, <1>3, <2>1, <2>2 DEF StoreInv, Savable, Edited
  <2> QED
    BY <2>1, <2>3, <2>4, <2>5 DEF StoreInv, OwnScripts
<1>4. CASE editor.path # path
  <2>1. /\ answer \in Answers \ {"Cancel"} /\ Leave(answer)
        /\ editor' = [path |-> path, text |-> ReadFrom(disk', path),
                      dirty |-> FALSE, shown |-> editor.shown \/ visible,
                      stale |-> FALSE]
        /\ orphan' = ~dir
    BY <1>4 DEF Open, path
  <2>2. /\ disk' \in Scripts /\ OwnScripts(disk')
        /\ lost' \in BOOLEAN /\ ~lost'
        /\ \A f \in Files : disk[f] # NoFile => disk'[f] # NoFile
    BY <2>1, LeaveOwn
  <2>3. /\ ReadFrom(disk', path) \in Texts \cup {NoText}
        /\ ReadFrom(disk', path) \in Texts
             => path \in Files /\ ReadFrom(disk', path).test = path[1]
    BY <1>2, <2>2, ReadFromFacts DEF Scripts
  <2>4. /\ editor' \in Documents
        /\ editor'.path = path /\ editor'.text = ReadFrom(disk', path)
        /\ ~editor'.dirty /\ ~editor'.stale
    BY <1>1, <1>2, <2>1, <2>3 DEF Documents
  <2>5. TypeOK'
    <3>1. orphan' \in BOOLEAN
      BY <2>1
    <3> QED
      BY <1>1, <2>2, <2>4, <3>1 DEF TypeOK, Documents, Scripts
  <2>6. OwnDocument'
    BY <2>3, <2>4 DEF OwnDocument
  <2>7. CurrentDocument'
    <3>1. ASSUME path \in Files, path[2] = "qs" PROVE disk'[path] # NoFile
      BY <1>2, <2>2, <3>1
    <3> QED
      BY <2>4, <3>1 DEF CurrentDocument, ReadFrom
  <2>8. Savable'
    BY <1>2, <2>1, <2>2, <2>4 DEF Savable, Edited
  <2> QED
    BY <2>2, <2>5, <2>6, <2>7, <2>8 DEF StoreInv, OwnScripts
<1> QED
  BY <1>3, <1>4

(* A script written or removed behind the editor's back: its document      *)
(* stays as it is, and is marked as stale if the file was its own.         *)
LEMMA UnawareStep ==
    ASSUME StoreInv, EditorUnaware, disk' \in Scripts, OwnScripts(disk')
    PROVE  /\ editor' \in Documents
           /\ editor'.path = editor.path /\ editor'.text = editor.text
           /\ editor'.dirty = editor.dirty /\ editor'.shown = editor.shown
           /\ OwnDocument' /\ CurrentDocument'
<1>1. editor \in Documents /\ disk \in Scripts
  BY DEF StoreInv, TypeOK, Documents, Scripts
<1>2. editor' = [editor EXCEPT !.stale =
                   @ \/ (editor.path \in Files
                         /\ disk'[editor.path] # disk[editor.path])]
  BY DEF EditorUnaware
<1>3. /\ editor' \in Documents
      /\ editor'.path = editor.path /\ editor'.text = editor.text
      /\ editor'.dirty = editor.dirty /\ editor'.shown = editor.shown
      /\ editor'.stale = (editor.stale \/ (editor.path \in Files
                                /\ disk'[editor.path] # disk[editor.path]))
  BY <1>1, <1>2 DEF Documents
<1>4. OwnDocument'
  BY <1>3 DEF StoreInv, OwnDocument
<1>5. CurrentDocument'
  BY <1>3 DEF StoreInv, CurrentDocument, ReadFrom
<1> QED
  BY <1>3, <1>4, <1>5

(* What an import leaves on disk.                                          *)
LEMMA RestoredOwn ==
    ASSUME StoreInv, NEW written \in SUBSET Archived, Restored(written)
    PROVE  disk' \in Scripts /\ OwnScripts(disk')
<1>1. disk \in Scripts /\ archive \in Scripts /\ Archived \subseteq Files
  BY DEF StoreInv, TypeOK, Scripts, Archived
<1>2. disk' = [f \in Files |-> IF f \in written THEN archive[f] ELSE disk[f]]
  BY DEF Restored
<1>3. disk' \in Scripts
  BY <1>1, <1>2 DEF Scripts
<1> QED
  BY <1>1, <1>2, <1>3 DEF StoreInv, OwnScripts

-----------------------------------------------------------------------------
(* The store starts well ...                                               *)
LEMMA InitStoreInv == StoreInit => StoreInv
<1> SUFFICES ASSUME StoreInit PROVE StoreInv
  OBVIOUS
<1>1. PICK old \in SUBSET (Tests \X {"qs"}) :
        disk = [f \in Files |-> IF f \in old THEN Text(f[1], 0) ELSE NoFile]
  BY DEF StoreInit
<1>2. PICK marked \in BOOLEAN :
        editor = [path |-> NoPath, text |-> NoText, dirty |-> marked,
                  shown |-> FALSE, stale |-> FALSE]
  BY DEF StoreInit, NewEditor
<1>3. 0 \in 0..MaxChanges
  BY ScriptStoreAssumption
<1>4. disk \in Scripts /\ OwnScripts(disk)
  <2>1. \A f \in Files : Text(f[1], 0) \in Texts /\ Text(f[1], 0).test = f[1]
    BY <1>3, PathFacts, TextFacts
  <2> QED
    BY <1>1, <2>1, TextFacts DEF Scripts, OwnScripts
<1>5. archive \in Scripts /\ OwnScripts(archive)
  BY TextFacts DEF StoreInit, NoArchive, Scripts, OwnScripts
<1>6. editor \in Documents
  BY <1>2, PathFacts DEF Documents
<1>7. rows \subseteq Files
  BY DEF StoreInit, OnDisk
<1>8. TypeOK
  BY <1>3, <1>4, <1>5, <1>6, <1>7 DEF StoreInit, TypeOK, Scripts, Documents
<1>9. OwnDocument /\ CurrentDocument
  BY <1>2, PathFacts DEF OwnDocument, CurrentDocument
<1>10. Savable
  BY <1>2 DEF StoreInit, Savable, Edited
<1> QED
  BY <1>4, <1>5, <1>8, <1>9, <1>10 DEF StoreInv

(* ... and every operation on it preserves the invariant.  First a change  *)
(* of the text: by the user, or by a run for a picked property.            *)
LEMMA EditStep ==
    ASSUME StoreInv, Edit, UNCHANGED <<dir, disk, rows, archive, lost>>,
           orphan' \in BOOLEAN,
           ~orphan' => ~orphan /\ editor.path # NoPath
    PROVE  StoreInv'
<1>0. /\ disk \in Scripts /\ archive \in Scripts /\ editor \in Documents
      /\ changes \in 0..MaxChanges /\ MaxChanges \in Nat
      /\ rows \subseteq Files /\ {dir, lost} \subseteq BOOLEAN
      /\ OwnScripts(disk) /\ OwnScripts(archive)
  BY ScriptStoreAssumption DEF StoreInv, TypeOK, Scripts, Documents
<1> DEFINE t == IF editor.text = NoText THEN editor.path[1] ELSE editor.text.test
<1>1. /\ editor' = [editor EXCEPT !.dirty = TRUE, !.text = Text(t, changes + 1)]
      /\ changes < MaxChanges /\ changes' = changes + 1
  BY DEF Edit, Change
<1>2. /\ editor'.text = Text(t, changes + 1) /\ editor'.path = editor.path
      /\ editor'.dirty = TRUE /\ editor'.shown = editor.shown
      /\ editor'.stale = editor.stale
  BY <1>0, <1>1 DEF Documents
<1>3. t \in Tests \cup {NoTest}
  <2>1. editor.path \in Paths /\ editor.text \in Texts \cup {NoText}
    BY <1>0 DEF Documents
  <2>2. editor.path[1] \in Tests \cup {NoTest}
    <3>1. ASSUME NEW p \in Paths PROVE p[1] \in Tests \cup {NoTest}
      <4>1. p \in Files \/ p = NoPath \/ \E u \in Tests : p = Nowhere(u)
        BY DEF Paths
      <4>2. p \in Files => p[1] \in Tests
        BY PathFacts
      <4>3. p = NoPath => p[1] = NoTest
        BY PathFacts
      <4>4. (\E u \in Tests : p = Nowhere(u)) => p[1] \in Tests
        BY PathFacts
      <4> QED
        BY <4>1, <4>2, <4>3, <4>4
    <3> QED
      BY <2>1, <3>1
  <2>3. editor.text # NoText => editor.text.test \in Tests \cup {NoTest}
    BY <2>1, TextFacts
  <2> QED
    BY <2>2, <2>3
<1> HIDE DEF t
<1>4. changes + 1 \in 0..MaxChanges
  BY <1>0, <1>1
<1>5. editor'.text \in Texts /\ editor'.text.test = t
  BY <1>2, <1>3, <1>4, TextFacts
<1>6. editor' \in Documents
  BY <1>0, <1>1, <1>2, <1>5 DEF Documents
<1>7. TypeOK'
  BY <1>0, <1>1, <1>4, <1>6 DEF TypeOK, Documents, Scripts
<1>8. OwnDocument'
  <2>1. editor.path \in Files => t = editor.path[1]
    BY <1>0 DEF StoreInv, OwnDocument, Documents, t
  <2> QED
    BY <1>2, <1>5, <2>1 DEF OwnDocument
<1>9. CurrentDocument'
  BY <1>2 DEF StoreInv, CurrentDocument
<1>10. Savable'
  BY <1>2 DEF StoreInv, Savable
<1> QED
  BY <1>0, <1>7, <1>8, <1>9, <1>10 DEF StoreInv, OwnScripts

(* The editor is shown or hidden: it is shown only with a path, or else it *)
(* shows an orphan.                                                        *)
LEMMA ShownStep ==
    ASSUME StoreInv, NEW shown \in BOOLEAN,
           editor' = [editor EXCEPT !.shown = shown],
           UNCHANGED <<dir, disk, rows, archive, changes, lost>>,
           orphan' \in BOOLEAN,
           ~orphan' => ~orphan /\ (shown => editor.path # NoPath)
    PROVE  StoreInv'
<1>1. editor \in Documents
  BY DEF StoreInv, TypeOK, Documents
<1>2. /\ editor' \in Documents /\ editor'.shown = shown
      /\ editor'.path = editor.path /\ editor'.text = editor.text
      /\ editor'.dirty = editor.dirty /\ editor'.stale = editor.stale
  BY <1>1 DEF Documents
<1>3. TypeOK'
  BY <1>2 DEF StoreInv, TypeOK, Documents
<1>4. OwnDocument' /\ CurrentDocument'
  BY <1>2 DEF StoreInv, OwnDocument, CurrentDocument, ReadFrom
<1>5. Savable'
  BY <1>2 DEF StoreInv, Savable, Edited
<1> QED
  BY <1>3, <1>4, <1>5 DEF StoreInv, OwnScripts

(* The operations of the editor.                                           *)
LEMMA EditorStep ==
    ASSUME StoreInv, TypeText \/ Save \/ Revert \/ Close \/ Hide
    PROVE  StoreInv'
<1>0. /\ disk \in Scripts /\ archive \in Scripts /\ editor \in Documents
      /\ changes \in 0..MaxChanges /\ MaxChanges \in Nat
      /\ rows \subseteq Files /\ {dir, orphan, lost} \subseteq BOOLEAN
      /\ OwnScripts(disk) /\ OwnScripts(archive)
  BY ScriptStoreAssumption DEF StoreInv, TypeOK, Scripts, Documents
<1>1. CASE TypeText
  <2>1. /\ editor.shown /\ Edit
        /\ UNCHANGED <<dir, disk, rows, archive, orphan, lost>>
    BY <1>1 DEF TypeText
  <2>2. ~orphan => editor.path # NoPath
    BY <2>1 DEF StoreInv, Savable
  <2>3. orphan' \in BOOLEAN /\ (~orphan' => ~orphan /\ editor.path # NoPath)
    BY <1>0, <2>1, <2>2
  <2> QED
    BY <2>1, <2>3, EditStep
<1>2. CASE Save
  <2>1. /\ editor.shown /\ editor.dirty
        /\ disk' = WriteTo(editor.path, editor.text)
        /\ lost' = (lost \/ (Unasked("Save") /\ ~orphan))
        /\ editor' = [editor EXCEPT !.dirty = FALSE,
                                    !.stale = ~Writable(editor.path)]
        /\ UNCHANGED <<dir, rows, archive, changes, orphan>>
    BY <1>2 DEF Save
  <2>2. disk' \in Scripts /\ OwnScripts(disk')
    BY <2>1, SavingOwn
  <2>3. /\ editor' \in Documents /\ editor'.path = editor.path
        /\ editor'.text = editor.text /\ editor'.shown = editor.shown
        /\ editor'.dirty = FALSE /\ editor'.stale = ~Writable(editor.path)
    BY <1>0, <2>1 DEF Documents, Writable
  <2>4. TypeOK'
    BY <1>0, <2>1, <2>2, <2>3 DEF TypeOK, Documents, Scripts
  <2>5. OwnDocument'
    BY <2>3 DEF StoreInv, OwnDocument
  <2>6. CurrentDocument'
    <3>1. /\ editor.path \in Paths /\ editor.text \in Texts \cup {NoText}
          /\ editor.text # NoFile
      BY <1>0, TextFacts DEF Documents
    <3>2. editor.path \in Files /\ dir => disk'[editor.path] = editor.text
      BY <2>1, <3>1, WriteToFacts DEF StoreInv
    <3> QED
      BY <2>3, <3>1, <3>2 DEF CurrentDocument, ReadFrom, Writable
  <2>7. Savable'
    <3>1. ~orphan => ~Unasked("Save")
      BY <2>1, SafelyLeft
    <3>2. ~lost'
      BY <2>1, <3>1 DEF StoreInv, Savable
    <3> QED
      BY <2>1, <2>3, <3>2 DEF StoreInv, Savable
  <2> QED
    BY <1>0, <2>1, <2>2, <2>4, <2>5, <2>6, <2>7 DEF StoreInv
<1>3. CASE Revert
  <2>1. /\ editor' = [editor EXCEPT !.dirty = FALSE, !.path = NoPath]
        /\ orphan' = TRUE
        /\ UNCHANGED <<dir, disk, rows, archive, changes, lost>>
    BY <1>3 DEF Revert
  <2>2. editor' \in Documents /\ editor'.path = NoPath
    BY <1>0, <2>1, PathFacts DEF Documents
  <2>3. TypeOK'
    BY <1>0, <2>1, <2>2 DEF TypeOK, Documents, Scripts
  <2> QED
    BY <1>0, <2>1, <2>2, <2>3, PathFacts
    DEF StoreInv, OwnDocument, CurrentDocument, Savable
<1>4. CASE Close
  <2>1. PICK answer \in Answers \ {"Cancel"} : Leave(answer)
    BY <1>4 DEF Close
  <2>2. /\ editor' = [editor EXCEPT !.dirty = FALSE, !.path = NoPath,
                                    !.shown = FALSE]
        /\ orphan' = FALSE
        /\ UNCHANGED <<dir, rows, archive, changes>>
    BY <1>4 DEF Close
  <2>3. /\ disk' \in Scripts /\ OwnScripts(disk')
        /\ lost' \in BOOLEAN /\ ~lost'
    BY <2>1, LeaveOwn
  <2>4. /\ editor' \in Documents /\ editor'.path = NoPath
        /\ ~editor'.dirty /\ ~editor'.shown
    BY <1>0, <2>2, PathFacts DEF Documents
  <2>5. TypeOK'
    BY <1>0, <2>2, <2>3, <2>4 DEF TypeOK, Documents, Scripts
  <2>6. Savable'
    BY <2>3, <2>4, PathFacts DEF Savable, Edited
  <2> QED
    BY <1>0, <2>2, <2>3, <2>4, <2>5, <2>6, PathFacts
    DEF StoreInv, OwnDocument, CurrentDocument
<1>5. CASE Hide
  <2>1. /\ editor' = [editor EXCEPT !.shown = FALSE]
        /\ UNCHANGED <<dir, disk, rows, archive, changes, orphan, lost>>
    BY <1>5 DEF Hide
  <2>2. orphan' \in BOOLEAN /\ (~orphan' => ~orphan)
    BY <1>0, <2>1
  <2> QED
    BY <2>1, <2>2, ShownStep
<1> QED
  BY <1>1, <1>2, <1>3, <1>4, <1>5

(* What a run does to the editor: it inserts a property that was picked,   *)
(* or shows an error, also in an editor closed in the meantime.            *)
LEMMA RunEditsStep ==
    ASSUME StoreInv, InsertProperty \/ ShowError
    PROVE  StoreInv'
<1>0. orphan \in BOOLEAN
  BY DEF StoreInv, TypeOK
<1>1. /\ orphan' \in BOOLEAN
      /\ ~orphan' => ~orphan /\ editor.path # NoPath
  BY <1>0 DEF InsertProperty, ShowError, OrphanIfClosed
<1>2. CASE InsertProperty
  BY <1>1, <1>2, EditStep DEF InsertProperty
<1>3. CASE ShowError
  BY <1>1, <1>3, ShownStep DEF ShowError
<1> QED
  BY <1>2, <1>3

(* Hooq is started again, with an empty editor.                            *)
LEMMA QuitStep ==
    ASSUME StoreInv, Quit
    PROVE  StoreInv'
<1>0. /\ TypeOK /\ OwnScripts(disk) /\ OwnScripts(archive) /\ ~lost
  BY DEF StoreInv, Savable
<1>1. PICK marked \in BOOLEAN :
        editor' = [path |-> NoPath, text |-> NoText, dirty |-> marked,
                   shown |-> FALSE, stale |-> FALSE]
  BY DEF Quit, NewEditor
<1>2. /\ rows' = OnDisk /\ orphan' = FALSE
      /\ UNCHANGED <<dir, disk, archive, changes, lost>>
  BY DEF Quit
<1>3. editor' \in Documents
  BY <1>1, PathFacts DEF Documents
<1>4. TypeOK'
  BY <1>0, <1>2, <1>3 DEF TypeOK, Documents, OnDisk
<1>5. OwnDocument' /\ CurrentDocument'
  BY <1>1, PathFacts DEF OwnDocument, CurrentDocument
<1>6. Savable'
  <2>1. /\ editor'.path = NoPath /\ editor'.text = NoText
        /\ editor'.shown = FALSE
    BY <1>1
  <2> QED
    BY <1>0, <1>2, <2>1, PathFacts DEF Savable, Edited
<1> QED
  BY <1>0, <1>2, <1>4, <1>5, <1>6 DEF StoreInv, OwnScripts

(* The operations that write or remove scripts behind the editor's back.   *)
LEMMA WriterStep ==
    ASSUME StoreInv,
           \/ \E t \in Tests : RecordScript(t)
           \/ \E f \in Files : DeleteCurrentTest(f)
           \/ \E f \in Files : ImportFails(f)
           \/ RemoveTestSet \/ ImportTestSet
    PROVE  StoreInv'
<1>0. /\ TypeOK /\ disk \in Scripts /\ archive \in Scripts /\ editor \in Documents
      /\ changes \in 0..MaxChanges /\ MaxChanges \in Nat
      /\ rows \subseteq Files /\ {dir, orphan, lost} \subseteq BOOLEAN
      /\ OwnScripts(disk) /\ OwnScripts(archive)
  BY ScriptStoreAssumption DEF StoreInv, TypeOK, Scripts, Documents
<1>1. Change => changes' \in 0..MaxChanges /\ changes + 1 \in 0..MaxChanges
  BY <1>0 DEF Change
<1>2. ASSUME EditorUnaware, Change, disk' \in Scripts, OwnScripts(disk'),
             rows' \subseteq Files, dir' \in BOOLEAN, UNCHANGED <<archive, lost>>,
             \/ UNCHANGED orphan /\ (dir => dir')
             \/ orphan' = (orphan \/ editor.path \in Files)
      PROVE  StoreInv'
  <2>1. /\ editor' \in Documents
        /\ editor'.path = editor.path /\ editor'.text = editor.text
        /\ editor'.dirty = editor.dirty /\ editor'.shown = editor.shown
        /\ OwnDocument' /\ CurrentDocument'
    BY <1>2, UnawareStep
  <2>2. orphan' \in BOOLEAN
    BY <1>0, <1>2
  <2>3. TypeOK'
    BY <1>0, <1>1, <1>2, <2>1, <2>2 DEF TypeOK, Documents, Scripts
  <2>4. Savable'
    <3>1. ~orphan' => ~orphan /\ (editor.path \in Files /\ dir => dir')
      BY <1>2
    <3> QED
      BY <1>2, <2>1, <3>1 DEF StoreInv, Savable, Edited
  <2> QED
    BY <1>0, <1>2, <2>1, <2>3, <2>4 DEF StoreInv
<1>3. ASSUME NEW t \in Tests, RecordScript(t) PROVE StoreInv'
  <2>1. /\ disk' = WriteTo(ScriptPath(t), Text(t, changes + 1))
        /\ EditorUnaware /\ Change
        /\ UNCHANGED <<dir, rows, archive, orphan, lost>>
    BY <1>3 DEF RecordScript
  <2>2. Text(t, changes + 1) \in Texts /\ Text(t, changes + 1).test = t
    BY <1>1, <2>1, TextFacts
  <2>3. /\ ScriptPath(t) \in Paths
        /\ ScriptPath(t) \in Files => ScriptPath(t)[1] = t
    BY <1>0, ScriptPathFacts DEF ScriptPath, Scripts
  <2>4. /\ disk' \in Scripts
        /\ \A f \in Files : disk'[f] =
              IF f = ScriptPath(t) /\ dir THEN Text(t, changes + 1) ELSE disk[f]
    BY <1>0, <2>1, <2>2, <2>3, WriteToFacts DEF Scripts
  <2>5. OwnScripts(disk')
    BY <1>0, <2>2, <2>3, <2>4 DEF OwnScripts
  <2> QED
    BY <1>0, <1>2, <2>1, <2>4, <2>5
<1>4. ASSUME NEW f \in Files, DeleteCurrentTest(f) PROVE StoreInv'
  <2>1. /\ disk' = [disk EXCEPT ![ScriptPath(f[1])] = NoFile]
        /\ EditorUnaware /\ Change
        /\ UNCHANGED <<dir, rows, archive, orphan, lost>>
    BY <1>4 DEF DeleteCurrentTest
  <2>2. disk' \in Scripts /\ OwnScripts(disk')
    BY <1>0, <2>1, TextFacts DEF Scripts, OwnScripts
  <2> QED
    BY <1>0, <1>2, <2>1, <2>2
<1>5. ASSUME NEW f \in Files, ImportFails(f) PROVE StoreInv'
  <2>1. /\ Restored({g \in Archived : Key(g) < Key(f)})
        /\ Change /\ UNCHANGED rows
    BY <1>5 DEF ImportFails
  <2>2. disk' \in Scripts /\ OwnScripts(disk')
    BY <2>1, RestoredOwn
  <2>3. dir' = TRUE /\ EditorUnaware /\ UNCHANGED <<archive, orphan, lost>>
    BY <2>1 DEF Restored
  <2> QED
    BY <1>0, <1>2, <2>1, <2>2, <2>3
<1>6. CASE RemoveTestSet
  <2>1. /\ disk' = [f \in Files |-> NoFile] /\ dir' = FALSE
        /\ EditorUnaware /\ Change
        /\ orphan' = (orphan \/ editor.path \in Files)
        /\ UNCHANGED <<rows, archive, lost>>
    BY <1>6 DEF RemoveTestSet
  <2>2. disk' \in Scripts /\ OwnScripts(disk')
    BY <2>1, TextFacts DEF Scripts, OwnScripts
  <2> QED
    BY <1>0, <1>2, <2>1, <2>2
<1>7. CASE ImportTestSet
  <2>1. /\ Restored(Archived) /\ Change
        /\ rows' = {f \in Files : disk'[f] # NoFile}
    BY <1>7 DEF ImportTestSet
  <2>2. disk' \in Scripts /\ OwnScripts(disk')
    BY <2>1, RestoredOwn
  <2>3. dir' = TRUE /\ EditorUnaware /\ UNCHANGED <<archive, orphan, lost>>
    BY <2>1 DEF Restored
  <2>4. rows' \subseteq Files
    BY <2>1
  <2> QED
    BY <1>0, <1>2, <2>1, <2>2, <2>3, <2>4
<1> QED
  BY <1>3, <1>4, <1>5, <1>6, <1>7

(* The operations that leave scripts and document alone.                   *)
LEMMA ListingStep ==
    ASSUME StoreInv, Rescan \/ AddTestSet \/ ExportCurrentSet
    PROVE  StoreInv'
<1>0. /\ disk \in Scripts /\ archive \in Scripts /\ editor \in Documents
      /\ changes \in 0..MaxChanges /\ MaxChanges \in Nat
      /\ rows \subseteq Files /\ OnDisk \subseteq Files
      /\ {dir, orphan, lost} \subseteq BOOLEAN
  BY ScriptStoreAssumption DEF StoreInv, TypeOK, Scripts, Documents, OnDisk
<1>1. /\ UNCHANGED <<disk, editor, orphan, lost>>
      /\ archive' \in {archive, disk} /\ rows' \in {rows, OnDisk}
      /\ dir' \in {dir, TRUE}
  BY DEF Rescan, AddTestSet, ExportCurrentSet
<1>a. dir => dir'
  BY <1>1
<1>2. changes' \in 0..MaxChanges
  BY <1>0 DEF Rescan, AddTestSet, ExportCurrentSet, Change
<1>3. TypeOK'
  BY <1>0, <1>1, <1>2 DEF TypeOK, Documents, Scripts
<1>4. OwnScripts(disk') /\ OwnScripts(archive')
  BY <1>1 DEF StoreInv
<1>5. OwnDocument' /\ CurrentDocument'
  BY <1>1 DEF StoreInv, OwnDocument, CurrentDocument, ReadFrom
<1>6. Savable'
  BY <1>1, <1>a DEF StoreInv, Savable, Edited
<1> QED
  BY <1>3, <1>4, <1>5, <1>6 DEF StoreInv

(* StoreInv is inductive.                                                  *)
LEMMA NextStoreInv == StoreInv /\ [StoreNext]_storeVars => StoreInv'
<1> SUFFICES ASSUME StoreInv, [StoreNext]_storeVars PROVE StoreInv'
  OBVIOUS
<1>1. ASSUME NEW f \in Files, EditTestScript(f) PROVE StoreInv'
  <2>1. PICK answer : Open(ScriptPath(f[1]), answer, TRUE)
    BY <1>1 DEF EditTestScript
  <2>2. f[1] \in Tests
    BY PathFacts
  <2>3. UNCHANGED <<dir, rows, archive, changes>>
    BY <1>1 DEF EditTestScript
  <2> QED
    BY <2>1, <2>2, <2>3, OpenStep
<1>2. CASE UNCHANGED storeVars
  BY <1>2 DEF storeVars, StoreInv, TypeOK, OwnScripts, OwnDocument,
              CurrentDocument, Savable, Edited, ReadFrom
<1>3. CASE ListAction
  BY <1>1, <1>3, WriterStep DEF ListAction
<1>4. CASE WindowAction
  BY <1>4, EditorStep, WriterStep, ListingStep DEF WindowAction
<1> QED
  BY <1>2, <1>3, <1>4, QuitStep DEF StoreNext

(* The invariant covers the two things promised of the store.              *)
LEMMA StoreInvImplies ==
    StoreInv => TypeOK /\ NoScriptInForeignFile /\ NoEditLostUnasked
<1>1. StoreInv => NoScriptInForeignFile
  BY DEF StoreInv, TypeOK, OwnScripts, NoScriptInForeignFile, OnDisk
<1>2. StoreInv => NoEditLostUnasked
  BY DEF StoreInv, Savable, NoEditLostUnasked
<1> QED
  BY <1>1, <1>2 DEF StoreInv

(* The store on its own, without runs: its texts stay where they belong    *)
(* and its editor can save what it shows, unless that is an orphan, for    *)
(* any number of tests and changes.                                        *)
THEOREM StoreInvariance == StoreSpec => []StoreInv
  BY InitStoreInv, NextStoreInv, PTL DEF StoreSpec
=============================================================================
