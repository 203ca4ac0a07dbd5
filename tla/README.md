# A verification project for Hooq

Hooq records the events a user causes in a Qt application and plays them back
from a test script.  It works by injecting a shared library into the
application under test; the library and the Hooq GUI talk over a TCP socket.
The modules here model the two protocols that make this work, recording inside
the application and playback between the two processes, and what the GUI builds
on them: sessions over one server, the conversion of a log into a script, the
names of objects, the scripts of a test set and the runs of tests.

## 1. The system

```
   Hooq GUI process                            application under test
   ----------------                            ----------------------
   MainWindow ── ScriptEditor                  (started by gdb, library injected)
        │             │ pause / stop / pick    EntryPoint ── Marshall
        └── Interpreter (QScriptEngine)                        │  RECORD │ PLAY
                │     nested waits                          Logger    Player
                └── RemoteConnection ═══════ TCP ═══════════════┴────────┘
   XmlToQtScript (log -> script)    Test store, results
```

| component | state | operations | what makes it correct |
|---|---|---|---|
| `Interpreter` (`hooq/Interpreter.cpp`, script prototypes) | attach state, device, uuid of the current `Application`, `m_pendingAcks`, `m_dumpedObject` | run a script, write an element and wait for its ACK, fetch a property, attach, close, read socket data, pick | a call returns only when *its* request was carried out; every wait ends; ACKs and requests match |
| `Player` (`injectedHooq/Player.cpp`) | XML reader, `m_eventQueue`, `m_processingEvents`, `m_ackNext`, mode, sleep timer | read elements, queue them, process the queue, sleep, pick, drag and drop | the queue is worked off in order by one activation at a time; sleep and pick suspend it; the socket is given back when there is nothing left to write |
| `Marshall` (`injectedHooq/Marshall.cpp`) | the socket, who reads it | connect, `RECORD`, `PLAY`, `DIE`, flush at exit | every line it reads is a command |
| `Logger`, `CanaryEvent` (`injectedHooq/Logger.cpp`) | `m_ignoreEvents`, the queued canary, drag and drop buffer, `m_lastEvent`, `m_dragOriginWidget`, the XML writer's device | filter every event of the application, buffer a gesture, collapse a drag and drop, end the log | derived events are not logged and ignoring ends; the log is complete, in order, and well formed |
| `GdbInjector` (`hooqInjector/`) | the gdb process | start the application with the library | exit of the application is noticed |
| `RemoteConnection`, `RemoteLogger`, `RemotePlayback` | the server, the accepted socket | accept, hand over the socket | the connection reaches the party that asked for it |
| `ScriptEditor` | mode, paused, breakpoints, the document with its path and dirty flag | run, pause, continue, stop, report not-found and errors, insert a picked property; open, save, revert, close | errors are reported at the statement they belong to; what is run is what is shown |
| `MainWindow` | current test, running tests, recording | start and finish a recording, run one or all tests | what is recorded or run is what was asked for, also when one begins inside another; results belong to their tests |
| `XmlToQtScript` and its post-processors | item lists | convert a log into a script, simplify it | simplification keeps the meaning of the log |
| `ObjectHookName`, `findObject` | none | name an object, find it by its name | the name finds the same object |
| Test store (`TestModel`, `TestSetBackup`, `Locations`), results | files, list of tests | record, edit, delete, back up, restore, report | a script is in the file of its own test, no edit of a document that has a file is lost unasked |
| `hooqcli`, `hooqbackup`, `uilib`, dialogs, `XmlPropertyDumper`, crash reporting | – | front ends and output | – |

`google-breakpad` and `qscripthighlighter` are vendored.

**What is hard.**  Neither side has threads; everything concurrent comes from
the two processes and from *nested event loops*.  A script statement blocks the
GUI by spinning `processEvents`, in which socket data arrives, and the user
presses Pick, Stop or Continue.  `Player::processEvents` is entered from
`readyRead`, from a timer and from the event filter, and re-enters Qt itself
for a flush.  The application may crash, exit, or lack an object at any moment.
Finally, `Logger` depends on the order in which Qt delivers events it did not
cause.  `PROJECT.json` lists the resulting hazards at their lines.

## 2. Modules

| module | models |
|---|---|
| `Link` | the application process and the TCP connection: two queues of protocol units, what a write to a lost peer does, when a disconnect is seen |
| `Interpreter` | the GUI side of a playback; `gui` says in which wait the script is, `paused` whether `ScriptEditor::pause` loops above it |
| `Player` | `Marshall` and `Player`; the thread's call `stack` is explicit (`read`, `drain`, `process`, `flush`), as re-entry is what the code has to get right |
| `PlaybackSession` | the composition of these three, its fairness and its properties |
| `RemoteCommands` | abstract specification: what a script is promised of a remote call |
| `Recorder` | `Logger::eventFilter`, `CanaryEvent`, the drag and drop buffer and the end of a log |
| `RemoteConnection` | what the `RemoteConnection`s of one server are given when an application connects |
| `Sessions` | `MainWindow`'s recordings and runs, `GdbInjector`, `RemoteLogger` and several applications, over `RemoteConnection` |
| `Cli` | `hooqcli`, over `RemoteConnection` |
| `Converter` | `XmlToQtScript`: the items of a log, the six post-processors and their `Inserter` |
| `ObjectNames` | `ObjectHookName` and `Player::findObject` on the changing object tree of an application |
| `ScriptStore` | the script files of a test set, the list of tests, the editor's document, export and import |
| `TestRuns` | running one or all tests and their results, over `ScriptStore` |
| `MC...` | the specifications for TLC |
| `PlaybackProofs`, `ReplyProofs` | theorems about `PlaybackSession`: the library's call stacks, then requests and replies and the refinement |
| `RecorderProofs` | theorems about `Recorder` |
| `StoreProofs`, `TestRunProofs` | theorems about `ScriptStore` and, over them, about `TestRuns` |
| `SessionProofs` | theorems about `Sessions` |
| `ObjectNameProofs` | theorems about `ObjectNames` |
| `ConverterProofs` | theorems about `Converter` |

Correspondence.  A protocol message stands for a line (`PLAY`, `DIE`, `ACK`,
`NOTFOUND ...`) or for an XML element or document; object paths, coordinates,
key codes and texts are left out, since neither side's control flow depends on
them.  Whether an object exists is a free choice at the moment it is looked up.
`Events` keeps apart the elements that `Player` treats differently; `input`
stands for all elements that become one posted `QEvent`.  `m_ackNext`, not
initialised by `Player`'s constructor, starts with either value; likewise
`m_lastEvent` and `m_dragOriginWidget` in `Logger`.  `QXmlStreamReader` buffers
ahead of what it returns: `ReadDocument` may swallow replies behind a document,
`TrailingElement` may meet an element behind `</hooq>`.

`issued`, `performed`, `picker`, `fatal` and `discarded` are history variables:
no guard reads them.  `issued` and `performed` count the requests of one
application; `RemoteCommands` is stated over them.

In `Recorder` an element is a token with the number of its event, and a
`dragAndDrop` also carries the number of the press it starts at.  The
`>` that `QXmlStreamWriter` still owes after `<hooq` is a token too.

**Sessions.**  `MainWindow` has one server, one logger, one player and one
injector for each of the two; a script runs synchronously and processes events
while it waits.  `runs` is therefore the stack of `Interpreter::run` calls, and
a recording or a further run can begin inside any of them.  The code tells none
of these overlaps apart.  `odd` (history) names those that have happened, and
the properties say which of them each failure needs:

| overlap | what it can lead to |
|---|---|
| `restart`: a recording over a recording | the new dump is stored empty under the new name, the next end of gdb closes a null file |
| `runOverRecording` | the logger of the recording takes the socket of the run, the player is handed null |
| `recordingOverRun` | the player of the run is gone, its application waits in the server's queue and is recorded |
| `secondApplication` | the script goes on with the old application |
| `nested`: a run in a run | the inner run's application and the outer's are taken for one another; closing the inner run's sets the device to null under the outer close, which then writes `DIE` to it |

Without an overlap none of the failures the invariants speak of happens, and
each invariant names the overlaps that can break it.  The model stops at a null
pointer that is used (`failure`).

`closeApplication` is three steps, since it processes events in two waits:
`</hooq>` is written, `DIE` is written to the device there is *then*, and the
device is set to null.  It is entered by a script (`close`, `die` in `runs`) or
at the end of a run (`endClose`, `endDie`).  It asks for `sender()`, which in a
run started from inside a script's close is still the object of that close, so
that the end of the inner run closes nothing (`CloseIgnored`).

**Conversion.**  An item has a method, a target and what the post-processors
look at: the kind and the text of a key, whether it is modified, the point a
mouse is moved to.  `ProcessItem` is one turn of the inner loop of
`XmlToQtScript::itemString`; a post-processor is an operator from the current
item and the rest of the list to what it leaves of both, and what it inserts.
`passes` is the set of post-processors still to run; `Current` is the first of
them in the order of `itemString`.  `StringNames` are the names `string0`,
`string1`, ... that the code makes from a counter.
The reference is the meaning of a log: which events act on which object with
the mouse where, and which text is left in each object.  A script is given its
meaning by looking its variables up.

**Names.**  A text is a sequence of words of which only the colon matters, since
only `::` is special to `ObjectHookName`.  `FindObject` returns a set:
`topLevelWidgets` is in no particular order.

**Store and runs.**  A file is a test with the extension it has (`.qs` of older
versions, `.hs` of this one), a text the test it was made for and a number.
`calls` is the stack of `runTestScript` and `runAllTests` calls.  `lost`,
`orphan`, `steady` and `stale` are history.

The editor can be closed inside a run, which clears its path.  If the script
then fails, `raiseError` shows the editor again, in the interactive mode, with
the old text and no path (`ShowError`), and a property picked in that run is
inserted into the document, shown or not (`InsertProperty`).  Such a document
is an `orphan`, as is one whose path Discard Changes has cleared or whose set
was removed: saving it writes nothing, and leaving it asks nothing.
`NoEditLostUnasked` says that no other document loses an edit that was not
discarded.  `Quit` (in `TestRuns` once all calls have returned) drops whatever is
edited; it asks nobody, so the property does not speak of it.  `mode` is the
editor's mode, which the loop of `runAllTests` sets; File > Close only hides the
editor.

## 3. What TLC checks

| run | constants | shows |
|---|---|---|
| `playback_safety` | 2 runs, 3 statements, 1 pick, 1 stop, both modes; 664 thousand states | `TypeOK`, `NoSurplusAck`, `NoReplyWithoutDevice`, `NotFoundWhileAtStatement`, `PlayerKeepsDevice`, `SuspendedExclusively`, `SleepAcksItself`, and the refinement `ImplementsRemoteCommands` |
| `playback_liveness` | 1 run, 3 statements, no user | `StatementReturns`, `CloseCompletes` |
| `recorder_safety` | 6 events; 78 thousand states | `TypeOK`, `CanaryExact`, `NoStaleBuffer`, `RecordedInOrder`, `EndDocumentLast`, `OneDragPerPress`, `ClickLostOnlyToDrop` |
| `sessions` | 3 applications, 2 elements each, 2 runs at a time, 1 kind of overlap; 522 thousand states | `TypeOK`, `NullSocketOnlyInRunOverRecording`, `NullUseOnlyInOverlap`, `ToldItsPurpose`, `PlaysTheStarted`, `ScriptIsPrefixOfItsLog`, and the liveness property `RecordingIsStored` |
| `test_runs` | 2 tests, 2 changes, 3 calls at a time; 508 thousand states | `AllTypeOK`, `NoScriptInForeignFile`, `NoEditLostUnasked`, `WaitsOnlyForOuterRun`, and the action properties `RunsWhatIsShown`, `ResultOfItsTest`, `AllTestsReported` |
| `converter` | logs of 4 events from 4 alphabets, cut or not, 9 choices of options; 2.7 million states | `TypeOK`, `FailsOnlyAtEnd`, `EventsKept`, `MouseWhereItWas`, `TypedTextKept`, `DeclaredOnceBeforeUse` |
| `object_names` | 3 objects of 3 classes, 4 names; 23 thousand states up to symmetry | `TypeOK`, `PathFindsItsObject`, `PathsSurviveCreation` |
| `playback_pick` | 1 run, 2 statements, 1 pick | violated: `PickedByUser` |
| `playback_unknown` | the same | violated: `NoUnknownCommand` |
| `playback_exit` | 1 run, 2 statements | violated: `ExitIsNoticed` |
| `cli` | both modes | violated: `PlaybackSocketConnected` |
| `store_restore` | 2 tests, 3 changes | violated: `ArchiveRestorable` |

**Bounds.**  `MaxRuns`, `MaxStatements`, `MaxPicks`, `MaxStops` and `MaxEvents`
bound how often scripts, users and Qt act; nothing else is cut off.  Two runs
are needed for state left behind by a lost application to meet its successor.
Since a statement waits for its reply, at most one statement, one pick and the
end of the document are in transit at a time, so three statements show a
request, its predecessor and its successor; a third statement is what a
surplus ACK needs in order to release the wrong one.  Six events hold two
complete gestures (press, release, drop) and a canary can fall between any two
of them.  Scripts may end, and the recorded application exits, so deadlock
is not an error in these runs.

Three applications are two that meet and one that comes after.  `MaxOdd` limits
the kinds of overlap in one behaviour, not how often one occurs; the invariants
also hold with two kinds (2.4 million states).  Two tests are enough for one to
be taken for the other, and each can have two files; three calls are a loop in a
run with a run of its own, or a run in a run in a run.  `MaxResults` bounds the
list of results only where a further test is started by hand.  The properties of
`TestRuns` also hold with three changes (4.5 million states).  In four events
there is room for a press that is collapsed, its successor, and an event of
another kind or object on either side; the typing alphabet was also checked with
five events, and the names with four objects of two classes and two names.  The
alphabets share a log among keys, mouse moves and objects because most
post-processors look at two of these together only at a boundary, and each
alphabet contains events of the other kinds for that.  `Mixed` holds what
concerns two post-processors at once: press, release, move is a log with which
`SimplifyStrings` fails after `SkipMouseMovements`, and the third case of
`FailsOnlyAtEnd`.

**Preconditions of the converter's properties.**  Each excludes what the code
does wrong and nothing else (without any of them the run fails): `Clash`, a
widget that is called `string0`; `Covered`, a Backspace that deletes what was
there before the typing, which `SimplifyStrings` drops; `FocusReturns`, typing
that goes from one object to another and back, which it sends to the first.

**Fairness** (`FairSpec`, liveness runs only).  Weak fairness of what the GUI's
event loop does (`GuiLoopStep`), of what the injected library does on the
application's event loop (`PlayerStep`, timers included), and of the exit of a
process that called `quit`.  Both are ordinary Qt event loops, which return to
their sources as long as a handler returns.  Nothing is assumed of scripts,
users, crashes, whether the library ever connects, or whether an object exists.
`Sessions` has weak fairness of `FinishRecording` alone: the end of gdb is a
signal of the window's event loop, and every wait of a run processes events.
`RecordingIsStored` says more than that this step is taken: a script must be
there then that names the application and holds every element that was read of
its log.  It excepts a recording that was started over another (the new one's
dump is stored in place of the old one's and is empty) and a null pointer used
before.  What the logger has not read when gdb ends is lost; the property does
not promise it.

`CloseCompletes` excludes applications the script sent nothing to: there
`m_ackNext` is uninitialised when `</hooq>` is read, so its ACK may never be
written.  The liveness run has no picks, because a `PICKED` document may
swallow the ACK behind it.

**The refinement.**  `ImplementsRemoteCommands` maps the playback to
`RemoteCommands`: a call waits while the thread is in a wait for an ACK or a
property, the application is lost when its process is dead.  It says that no
request is performed twice or before it was made, and that a statement does not
return on the ACK of another.

## 4. What the code does against its own words

* A pick is "Request for the user to click on a QObject" (`Event.h:42`), but
  any mouse release ends it, also one the script has just replayed
  (`Player.cpp:82`): `playback_pick`.
* A pick pressed while the script closes its application is written behind
  `</hooq>`; `Marshall` reads `<pick/>DIE`, meets `qFatal` and takes the
  application down: `playback_unknown`.
* `waitForAck` notices that the application is gone; `waitForAttach` and
  `waitForDumpedObject` do not, and the script hangs: `playback_exit`.
* `hooqcli` makes a logger and a playback on one server, whatever its mode. Both
  answer the one connection; `RemotePlayback::startPlayback` asserts that its
  socket is connected (`RemotePlayback.cpp:55`) and is given null: `cli`.
* New scripts are called `.hs` (`Locations.cpp:65`) and are exported with their
  set, but restoring asserts that a script is called `.qs`
  (`TestSetBackup.cpp:177`): `store_restore`.

Known, and part of the models without a run of their own: a second press clears
what an unfinished gesture has recorded (`Logger.cpp:140`); a drop is logged
while events are ignored (`Logger.cpp:162`); the overlaps of section 2; Discard
Changes does not reload the script (`ScriptEditor.cpp:458`); an error shows an
editor that was closed in the run, without a path (`ScriptEditor.cpp:332`, path
cleared in line 213), and what is typed there cannot be saved; File > Quit drops
edits without a question (`MainWindow.cpp:234`).

## 5. What is proved

The theorems hold for every value of the constants that satisfies the named
assumptions, hence for any number of runs, statements, events, tests,
applications and nested calls.  The assumptions: `InterpreterAssumption`,
`RecorderAssumption` and `SessionsAssumption` (the bounds are natural numbers,
the modes are modes, the empty name is not a test) and `ScriptStoreAssumption`,
which also says that the tests are finitely many: a directory lists finitely
many names.  `ObjectNamesAssumption`: there are finitely many objects, and a name
is a sequence of words, possibly empty.  `ConverterAssumption`: there are finitely
many widgets, each with at least one keyword; what is recorded are events of
widgets, without variables; and the names of strings differ and suffice for a
log, as those made from a counter do.

Of the invariants the passing runs check, all but `EventsKept`,
`MouseWhereItWas` and `TypedTextKept` are theorems, and so are the four action
properties, the refinement among them.  Every inductive invariant below was
checked by TLC before it was proved.

`PlaybackProofs`, from `Inv == TypeOK /\ AppInv`:

* `TypeCorrect`, `SuspensionCorrect` (`SuspendedExclusively`), `SleepCorrect`
  (`SleepAcksItself`) and `DeviceCorrect` (`PlayerKeepsDevice`).
* None of these is inductive.  `SleepAcksItself` needs that nothing is dequeued
  during a sleep, hence that `processEvents` is not on the stack; that in turn
  needs that whoever enters it sees `m_processingEvents` set.  `AppInv`
  therefore lists the call stacks that occur (nine), and says that
  `m_processingEvents` is set *exactly* while `processEvents` is on the stack,
  sleeping or picking, and that these three exclude each other.  `readNext`
  runs only on an open document, and a `Player` without a device has nothing
  left to do: that makes handing the socket back to `Marshall` from inside
  `processEvents` safe.
* The proof has lemmas for each side: steps of the GUI leave the library alone
  and keep the types (`ScriptTypes`, `SpawnTypes`, `UserTypes`, `LoopTypes`);
  every step of the library preserves `AppInv` (`PlayerStepOK`,
  `ProcessStepOK`, over lemmas on the call stacks).

`ReplyProofs`, from `Inv` and `ReplyInv`:

* `AckCorrect` (`NoSurplusAck`), `DetachCorrect` (`NoReplyWithoutDevice`),
  `NotFoundCorrect` (`NotFoundWhileAtStatement`) and `RefinementCorrect`
  (`ImplementsRemoteCommands`).
* `ReplyInv` follows the latest request of a script through three stages, of
  which it is in exactly the one its application has reached: `Unread` (written,
  nothing of it queued), `Queued` (one queued Event, or the sleep, will write
  the ACK, nothing of the request is left behind that Event, and a request that
  is not carried out yet has one Event that carries it out) and `Done` (only
  the reply can be on the way).  `RepliesAwaited` says that what is on the way
  to the GUI belongs to the wait the GUI is in, and that a `NOTFOUND` is ahead
  of its `ACK`.  A drag and drop is eleven Events for one request: that the ACK
  comes last is why `Queued` needs `Followed`.
* The refinement is proved step by step: the mapped initial state is one of
  `RemoteCommands`, and every action of the composition is a step of it or
  leaves the mapped variables alone.

`RecorderProofs`, from `IInv` and `DragInv`:

* `TypeCorrect`, `CanaryCorrect` (`CanaryExact`), `OrderCorrect`
  (`RecordedInOrder`), `EndCorrect` (`EndDocumentLast` and `NoStaleBuffer`),
  `FlushCorrect` (`NoStaleBuffer`), `DragCorrect` (`OneDragPerPress`) and
  `ClickCorrect` (`ClickLostOnlyToDrop`).
* `RecordedInOrder` needs three strengthenings: elements are numbered at most
  `delivered` while the application lives; the recording is empty while the
  root tag is open; and the buffer is empty when the writer is on the socket.
  The lemmas on sequences (`GoodPrefix`, `GoodLater`, `GoodAppend`, ...)
  say what appending, flushing and dropping do to a recording in order.
* `OneDragPerPress` needs that the press `m_dragOriginWidget` remembers was not
  used by an earlier drop; `ClickLostOnlyToDrop` that the buffer holds a release
  only in the state right after it, so that a press never clears a complete
  click.

`StoreProofs` and `TestRunProofs`, from `RunsIInv == StoreInv /\ RunsInv`:

* `TypesCorrect` (`AllTypeOK`), `OwnFileCorrect` (`NoScriptInForeignFile`),
  `EditsCorrect` (`NoEditLostUnasked`), `WaitCorrect`
  (`WaitsOnlyForOuterRun`), and the action properties `ResultCorrect`
  (`ResultOfItsTest`), `ReportCorrect` (`AllTestsReported`) and `ShownCorrect`
  (`RunsWhatIsShown`): every property of the run `test_runs`.
  `StoreInvariance` is also a theorem of the store on its own.
* `StoreInv`: files, archive and document hold texts of their own test; a
  document that is neither edited nor stale is what its file holds; and of a
  document that is no orphan, whatever is edited has a path that can be written
  to (`Savable`).  The steps that take path or set away from a document that
  stays open, or show one without a path, are exactly those that make an orphan;
  `SafelyLeft` is the lemma on the question that every other way out of a
  document asks.
* `RunsInv`: of the calls under the top one, only a loop whose own test is on
  top of it can still be steady (`Nesting`); a steady run's `m_testResult` is
  its own (`ResultInMaking`); a steady loop has collected the results of exactly
  the rows it has passed (`BetweenTurns`, `InTest`).  `ResultOfItsTest` alone is
  not inductive, because the run inside a loop and the loop share
  `m_testResult` and `results`.
* That every row of the list has a file for `RowAt` to find takes an induction
  over the rows; it is done by least counterexample (`LeastNumber`,
  from the well-foundedness of the numbers).

`SessionProofs`, from `SessionInv`:

* `TypeCorrect` (`TypeOK`), `NullSocketCorrect`
  (`NullSocketOnlyInRunOverRecording`), `NullUseCorrect`
  (`NullUseOnlyInOverlap`), `PurposeCorrect` (`ToldItsPurpose`),
  `PlayCorrect` (`PlaysTheStarted`) and `LogCorrect` (`ScriptIsPrefixOfItsLog`):
  every invariant of the run `sessions`.
* `DeviceInv`, on the null device: without a run in a run there is one run at
  most, and only its own steps and a null socket, which fails elsewhere first,
  take the device away between `</hooq>` and `DIE`.
* The rest of `SessionInv` has three layers.  `Basic` holds whatever overlaps:
  only four lists of `RemoteConnection`s occur (the player is never in front of the
  logger), two of them listen only after a run over a recording, and a logger or
  its socket always has a dump.  `Quiet` holds while nothing but runs overlap: a
  recording excludes runs, nothing waits in the server's queue, an application
  that is still to connect has a `RemoteConnection` of its own kind, and the dump
  holds what was read of the application that is recorded.  `SingleRun` holds
  while nothing overlaps.
* Why a nested run cannot leave an application behind that a later recording
  would accept: there are never more applications of runs that are still to
  connect than runs that wait for one (`StartingPlay`, `Waiting`).  A run inside
  another may take the other's application, so they cannot be matched one by
  one; the proof counts them.

`ObjectNameProofs`, from `IInv == Tree /\ Valid`:

* `NamesTypeCorrect` (`TypeOK`), `PathsSurvive` (`PathsSurviveCreation`) and
  `PathsFindTheirObjects` (`PathFindsItsObject`): every invariant of the run
  `object_names`, for trees of any depth and names of any length.
* `Tree` says that the parents form a forest and that the list of children of
  each object holds exactly its children, once each; `Valid` that a recorded path
  is the path of an object that exists.  The type invariant needs the first of
  objects that do not exist too: they have no parent and no children when they
  are created again.
* A path is what is read along the one chain from an object to its root.  A
  created object is the last of its siblings, so that the number `objectName`
  gives to an unnamed one among its likes does not change (`PathsSurvive`).
* That a path leads back: a name that is `Clean` (no colon at its ends, no three
  in a row) has no `::` once it is escaped, so splitting the joined names gives
  the names again.  `findObject` then goes down a chain with these names: the
  object's own if nothing beside it has its name, else one with the same path.
* The recursions over chains and words are recursive functions; what they
  compute is proved by least counterexample (`NumberInduction`).

`ConverterProofs`, from `TypeInv`, `RhythmOK` and `VariablesOK`:

* `ConverterTypeCorrect` (`TypeOK`).  The `Inserter` starts a pass with the
  index of the pass before it (one below the length of the old list), and relies
  on `QList::insert` to correct it: `InserterOK` says that the index is never
  more than one behind the end, so an insertion before the current item is at
  the end or one before it.  `Staged` says which items each pass can meet: no
  variables before `ObjectVariables`, none for texts before `StringVariables`.
  `CountOK` counts the items that may still become strings, which no pass
  increases; so there is a name for each.
* `NoUnderrun` (`FailsOnlyAtEnd`).  The rhythm differs from pass to pass
  (`Rhythm`): `FilterQtInternals` and `SkipMouseMovements` keep one of any two
  neighbours a pause and the end a proper event; `SimplifyMouseMovements` breaks
  the former where it merges, but leaves no key just before the last item; and
  that is all `SimplifyStrings` needs.  The attempt to prove the property with
  two exceptions failed at the step from `SkipMouseMovements` to
  `SimplifyStrings`: the log press, release, move ends in a pause then, of
  which `SimplifyStrings` takes two items
  (`XmlToQtScript_SimplifyStringsPostProcessor.cpp:86`).  TLC confirmed it with
  the alphabet `Mixed`; the property now names the case.
* `DeclaredOnce` (`DeclaredOnceBeforeUse`).  `VariablesOK` speaks of the output
  of a pass and the rest of its input as one list: in it every name that is used
  is declared at one place, not later; every name belongs to an entry of the two
  tables; and the output declares every entry of the table of the current pass.
  A turn replaces one item of that list and may insert a declaration; both are
  lemmas (`UseStep`, `DeclareStep`).  A new declaration is of a new name because
  `NameFor` avoids the table (it tries more counts than the table has entries)
  and, without a `Clash`, objects and strings share no name (`NoClash`).

**Only model-checked.**  Liveness (`StatementReturns`, `CloseCompletes`,
`RecordingIsStored`) needs fairness and ENABLED, which are out of the prover's
reach.  `EventsKept`, `MouseWhereItWas` and `TypedTextKept` compare folds over a
log and a script with operators as arguments (`FoldLeft`, `SelectSeq`), which
the prover cannot unfold for lists of any length; that the conversion keeps a
log's meaning stays with TLC.  `Sessions` takes `Without` from the library's
`RemoveFirst`: each role has at most one `RemoteConnection`.

## 6. Not modelled

* In `Sessions`, what is read from a device in the waits of a close: a reply that
  arrives after a nested run has set the device to null meets the same null
  pointer in `processSocketData` (`PlaybackSession` has the replies, for runs
  that follow one another).
* A property dialog that is left open when its run has ended: it inserts then
  what `InsertProperty` inserts during the run, and makes an orphan of the same
  documents.
* The expansion of `moveMouse` and `sendText` into several elements: each is
  written and acknowledged like the ones modelled.
* Nested event loops of the application's own handlers, such as a modal dialog
  opened by a replayed close: they are not Hooq's code.
* The Windows injector and the Windows variant of the drag and drop.
* `Logger::readInput`: it waits for a `STOP` that nothing in the repository writes.
* Several test sets at a time and their settings (`MainWindow`): sets share no
  files, and a run or a recording has the set that is current when it begins.
* `hooqbackup`: a command line for the `backup` and `restore` that `ScriptStore`
  models, without state of its own.
* `XmlPropertyDumper`, `PropertyDialog`, `EnumConverter`, the dialogs and result
  views, `uilib`: conversions of one value into another and presentation.  A
  property document is one message to the protocol.
* `google-breakpad` and `qscripthighlighter` are third-party libraries, kept in
  the repository as they came.  They are most of its lines (breakpad alone more
  than fifty thousand, against about nine thousand of Hooq's own); of Hooq's own
  code about a third is mapped, the rest being declarations, licence headers,
  widgets and the parts above.

## 7. Plan

Done: playback (`Link`, `Interpreter`, `Player`, composed in
`PlaybackSession`, with `RemoteCommands` as its abstract specification),
recording (`Recorder`), `Sessions` and `Cli` over `RemoteConnection`,
`ScriptStore` and `TestRuns`, `Converter` and `ObjectNames`; the theorems of
section 5, which state every safety property of the passing runs but three.  To
come:

1. `Converter`: the meaning of a log and of a script as recursive functions
   instead of folds, and with them `EventsKept` for each post-processor alone.
2. A theorem on `StringVariables` with a `Clash`: which statements a widget
   called `string0` can mislead.
