--------------------------- MODULE PlaybackProofs ---------------------------
(***************************************************************************)
(* Proofs about PlaybackSession, for any number of statements, picks and   *)
(* applications.                                                           *)
(***************************************************************************)
EXTENDS PlaybackSession, SequenceTheorems, TLAPS

(* The call stacks the injected library can have.                          *)
Passive == { << >>, << "read" >> }
Active ==
    { << "process" >>, << "read", "process" >>, << "drain", "process" >>,
      << "process", "flush" >>, << "read", "process", "flush" >>,
      << "drain", "process", "flush" >>, << "process", "flush", "read" >> }
WithRead ==
    { << "read" >>, << "read", "process" >>, << "read", "process", "flush" >>,
      << "process", "flush", "read" >> }

(* The inductive invariant of the library's side.  m_processingEvents is   *)
(* set exactly while processEvents is on the stack, sleeping or picking;   *)
(* these three exclude each other.  The clauses on doc are what makes the  *)
(* release of the device safe: readNext runs only while the document is    *)
(* open, and without a device there is nothing left to do.                 *)
AppInv ==
    /\ stack \in Passive \cup Active
    /\ processing <=> (stack \in Active \/ timer # "off" \/ pickMode)
    /\ timer # "off" => stack \in Passive /\ ~pickMode
    /\ pickMode => stack \in Passive
    /\ SleepAcksItself
    /\ stack \in WithRead => doc = "open"
    /\ doc = "none" => queue = <<>> /\ stack = <<>> /\ timer = "off" /\ ~pickMode

-----------------------------------------------------------------------------
(* Types: the GUI's side.                                                  *)

GuiTypes == LinkTypeOK /\ GuiTypeOK

(* What the GUI writes is typed.                                           *)
LEMMA SentType ==
    ASSUME LinkTypeOK, NEW m \in Commands
    PROVE  Sent(<<m>>) \in Seq(Commands)
  BY DEF LinkTypeOK, Sent

(* Every step of a script keeps the types, ...                             *)
LEMMA ScriptTypes ==
    ASSUME GuiTypes, ScriptStep
    PROVE  GuiTypes'
<1>0. /\ LinkTypeOK
      /\ {"dump", "eod", "PLAY", "DIE", "pick"} \subseteq Commands
      /\ Events \subseteq Commands
  BY DEF GuiTypes, Commands
<1>1. ASSUME NEW m \in Modes, RunScript(m) PROVE GuiTypes'
  <2>1. {uuid', aborted'} \subseteq BOOLEAN
    BY <1>1
    DEF RunScript, linkVars, GuiTypes, GuiTypeOK
  <2> QED
    BY <1>1, InterpreterAssumption, <2>1
    DEF RunScript, linkVars, GuiTypes, LinkTypeOK, GuiTypeOK, GuiStates
<1>2. ASSUME NEW e \in Events, WriteEvent(e) PROVE GuiTypes'
  <2>1. Sent(<<e>>) \in Seq(Commands)
    BY <1>0, SentType
  <2> QED
    BY <1>2, <2>1
    DEF WriteEvent, Statement, WriteElement, BeginAck, GuiTypes, LinkTypeOK,
        GuiTypeOK, GuiStates
<1>3. ASSUME FetchProperty PROVE GuiTypes'
  <2>1. {dumped'} \subseteq BOOLEAN
    BY <1>3
    DEF FetchProperty, Statement, GuiTypes, GuiTypeOK
  <2>2. Sent(<<"dump">>) \in Seq(Commands)
    BY <1>0, SentType
  <2> QED
    BY <1>3, <2>1, <2>2
    DEF FetchProperty, Statement, GuiTypes, LinkTypeOK, GuiTypeOK, GuiStates
<1>4. ASSUME CloseRequested PROVE GuiTypes'
  <2>1. Sent(<<"eod">>) \in Seq(Commands)
    BY <1>0, SentType
  <2> QED
    BY <1>4, <2>1
    DEF CloseRequested, WriteEnd, BeginAck, boundVars, GuiTypes, LinkTypeOK,
        GuiTypeOK, GuiStates
<1>5. ASSUME ScriptEnds PROVE GuiTypes'
  <2>1. Sent(<<"eod">>) \in Seq(Commands)
    BY <1>0, SentType
  <2> QED
    BY <1>5, <2>1
    DEF ScriptEnds, WriteEnd, BeginAck, boundVars, GuiTypes, LinkTypeOK,
        GuiTypeOK, GuiStates
<1>6. ASSUME ScriptEndsDetached PROVE GuiTypes'
  BY <1>6
  DEF ScriptEndsDetached, linkVars, boundVars, GuiTypes, LinkTypeOK,
      GuiTypeOK, GuiStates
<1> QED
  BY <1>1, <1>2, <1>3, <1>4, <1>5, <1>6
  DEF ScriptStep

(* ... every start of an application, ...                                  *)
LEMMA SpawnTypes ==
    ASSUME GuiTypes, SpawnStep
    PROVE  GuiTypes'
<1>0. /\ LinkTypeOK
      /\ {"dump", "eod", "PLAY", "DIE", "pick"} \subseteq Commands
      /\ Events \subseteq Commands
  BY DEF GuiTypes, Commands
<1>1. ASSUME NEW e \in Events, WriteEventUnattached(e) PROVE GuiTypes'
  BY <1>1
  DEF WriteEventUnattached, Statement, StartAndWait, SpawnProcess, AppStates,
      ConnStates, GuiTypes, LinkTypeOK, GuiTypeOK, GuiStates
<1>2. ASSUME ConnectRemoteApplication PROVE GuiTypes'
  <2>1. {uuid'} \subseteq BOOLEAN
    BY <1>2
    DEF ConnectRemoteApplication, Statement, StartAndWait, SpawnProcess,
        AppStates, ConnStates, GuiTypes, GuiTypeOK
  <2> QED
    BY <1>2, <2>1
    DEF ConnectRemoteApplication, Statement, StartAndWait, SpawnProcess,
        AppStates, ConnStates, GuiTypes, LinkTypeOK, GuiTypeOK, GuiStates
<1> QED
  BY <1>1, <1>2
  DEF SpawnStep

(* ... every step of the user, ...                                         *)
LEMMA UserTypes ==
    ASSUME GuiTypes, UserStep
    PROVE  GuiTypes'
<1>0. /\ LinkTypeOK
      /\ {"dump", "eod", "PLAY", "DIE", "pick"} \subseteq Commands
      /\ Events \subseteq Commands
  BY DEF GuiTypes, Commands
<1>1. ASSUME Breakpoint PROVE GuiTypes'
  BY <1>1
  DEF Breakpoint, linkVars, boundVars, GuiTypes, LinkTypeOK, GuiTypeOK,
      GuiStates
<1>2. ASSUME Continue PROVE GuiTypes'
  BY <1>2
  DEF Continue, linkVars, boundVars, GuiTypes, LinkTypeOK, GuiTypeOK,
      GuiStates
<1>3. ASSUME Stop PROVE GuiTypes'
  <2>1. {aborted'} \subseteq BOOLEAN
    BY <1>3
    DEF Stop, linkVars, boundVars, GuiTypes, GuiTypeOK
  <2> QED
    BY <1>3, <2>1
    DEF Stop, linkVars, boundVars, GuiTypes, LinkTypeOK, GuiTypeOK, GuiStates
<1>4. ASSUME PickObject PROVE GuiTypes'
  <2>1. Sent(<<"pick">>) \in Seq(Commands)
    BY <1>0, SentType
  <2> QED
    BY <1>4, <2>1
    DEF PickObject, linkVars, boundVars, GuiTypes, LinkTypeOK, GuiTypeOK,
        GuiStates
<1> QED
  BY <1>1, <1>2, <1>3, <1>4
  DEF UserStep

(* ... and every step of the GUI's event loops.                            *)
LEMMA LoopTypes ==
    ASSUME GuiTypes, GuiLoopStep
    PROVE  GuiTypes'
<1>0. /\ LinkTypeOK
      /\ {"dump", "eod", "PLAY", "DIE", "pick"} \subseteq Commands
      /\ Events \subseteq Commands
  BY DEF GuiTypes, Commands
<1>1. ASSUME SetSocket PROVE GuiTypes'
  <2>1. {device'} \subseteq BOOLEAN
    BY <1>1
    DEF SetSocket, boundVars, ConnStates, GuiTypes, GuiTypeOK
  <2>2. Sent(<<"PLAY">>) \in Seq(Commands)
    BY <1>0, SentType
  <2> QED
    BY <1>1, <2>1, <2>2
    DEF SetSocket, boundVars, ConnStates, GuiTypes, LinkTypeOK, GuiTypeOK,
        GuiStates
<1>2. ASSUME ReadAck PROVE GuiTypes'
  BY <1>2
  DEF ReadAck, ReadLine, boundVars, GuiTypes, LinkTypeOK, GuiTypeOK, GuiStates
<1>3. ASSUME ReadNotFound PROVE GuiTypes'
  <2>1. {aborted'} \subseteq BOOLEAN
    BY <1>3
    DEF ReadNotFound, ReadLine, boundVars, GuiTypes, GuiTypeOK
  <2> QED
    BY <1>3, <2>1
    DEF ReadNotFound, ReadLine, boundVars, GuiTypes, LinkTypeOK, GuiTypeOK,
        GuiStates
<1>4. ASSUME NEW k \in 1..Len(toGui), ReadPicked(k) PROVE GuiTypes'
  BY <1>4
  DEF ReadPicked, ReadDocument, ReadLine, boundVars, GuiTypes, LinkTypeOK,
      GuiTypeOK, GuiStates
<1>5. ASSUME NEW k \in 1..Len(toGui), ReadDumped(k) PROVE GuiTypes'
  <2>1. {dumped'} \subseteq BOOLEAN
    BY <1>5
    DEF ReadDumped, ReadDocument, ReadLine, boundVars, GuiTypes, GuiTypeOK
  <2> QED
    BY <1>5, <2>1
    DEF ReadDumped, ReadDocument, ReadLine, boundVars, GuiTypes, LinkTypeOK,
        GuiTypeOK, GuiStates
<1>6. ASSUME Attached PROVE GuiTypes'
  <2>1. next # "none" => Sent(<<next>>) \in Seq(Commands)
    BY <1>0, SentType DEF GuiTypes, GuiTypeOK
  <2> QED
    BY <1>6, <2>1
    DEF Attached, WriteElement, BeginAck, boundVars, GuiTypes, LinkTypeOK,
        GuiTypeOK, GuiStates
<1>7. ASSUME AckReturns PROVE GuiTypes'
  <2>1. {aborted'} \subseteq BOOLEAN
    BY <1>7
    DEF AckReturns, AbortUnlessAcked, linkVars, boundVars, GuiTypes, GuiTypeOK
  <2> QED
    BY <1>7, <2>1
    DEF AckReturns, AbortUnlessAcked, linkVars, boundVars, GuiTypes,
        LinkTypeOK, GuiTypeOK, GuiStates
<1>8. ASSUME DumpReturns PROVE GuiTypes'
  BY <1>8
  DEF DumpReturns, linkVars, boundVars, GuiTypes, LinkTypeOK, GuiTypeOK,
      GuiStates
<1>9. ASSUME WriteDie PROVE GuiTypes'
  <2>1. {aborted'} \subseteq BOOLEAN
    BY <1>9
    DEF WriteDie, AbortUnlessAcked, BeginAck, boundVars, GuiTypes, GuiTypeOK
  <2>2. Sent(<<"DIE">>) \in Seq(Commands)
    BY <1>0, SentType
  <2> QED
    BY <1>9, <2>1, <2>2
    DEF WriteDie, AbortUnlessAcked, BeginAck, boundVars, GuiTypes, LinkTypeOK,
        GuiTypeOK, GuiStates
<1>10. ASSUME Closed PROVE GuiTypes'
  <2>1. {aborted', device', uuid'} \subseteq BOOLEAN
    BY <1>10
    DEF Closed, AbortUnlessAcked, linkVars, boundVars, GuiTypes, GuiTypeOK
  <2> QED
    BY <1>10, <2>1
    DEF Closed, AbortUnlessAcked, linkVars, boundVars, GuiTypes, LinkTypeOK,
        GuiTypeOK, GuiStates
<1> QED
  BY <1>1, <1>2, <1>3, <1>4, <1>5, <1>6, <1>7, <1>8, <1>9, <1>10
  DEF GuiLoopStep

-----------------------------------------------------------------------------
(* The call stack.                                                         *)

(* Calling from, and returning to, stacks of one and two frames.           *)
LEMMA CallFromOne ==
    ASSUME NEW a \in Frames, NEW b \in Frames
    PROVE  Append(<< a >>, b) = << a, b >>
<1> DEFINE s == Append(<< a >>, b)
<1>1. /\ << a >> \in Seq(Frames) /\ Len(<< a >>) = 1
      /\ << a, b >> \in Seq(Frames) /\ Len(<< a, b >>) = 2
  OBVIOUS
<1>2. /\ s \in Seq(Frames) /\ Len(s) = 2
      /\ s[1] = a /\ s[2] = b
  BY <1>1, AppendProperties
<1>3. \A i \in 1..2 : s[i] = << a, b >>[i]
  BY <1>2
<1> QED
  BY <1>1, <1>2, <1>3, SeqEqual

(* A call made from a stack of two.                                        *)
LEMMA CallFromTwo ==
    ASSUME NEW a \in Frames, NEW b \in Frames, NEW c \in Frames
    PROVE  Append(<< a, b >>, c) = << a, b, c >>
<1> DEFINE s == Append(<< a, b >>, c)
<1>1. /\ << a, b >> \in Seq(Frames) /\ Len(<< a, b >>) = 2
      /\ << a, b, c >> \in Seq(Frames) /\ Len(<< a, b, c >>) = 3
  OBVIOUS
<1>2. /\ s \in Seq(Frames) /\ Len(s) = 3
      /\ s[1] = a /\ s[2] = b /\ s[3] = c
  BY <1>1, AppendProperties
<1>3. \A i \in 1..3 : s[i] = << a, b, c >>[i]
  BY <1>2
<1> QED
  BY <1>1, <1>2, <1>3, SeqEqual

(* A return from a stack of two.                                           *)
LEMMA ReturnToOne ==
    ASSUME NEW a \in Frames, NEW b \in Frames
    PROVE  SubSeq(<< a, b >>, 1, 1) = << a >>
<1> DEFINE s == SubSeq(<< a, b >>, 1, 1)
<1>1. << a >> \in Seq(Frames) /\ Len(<< a >>) = 1
  OBVIOUS
<1>2. s \in Seq(Frames) /\ Len(s) = 1 /\ s[1] = a
  BY SubSeqProperties
<1>3. \A i \in 1..1 : s[i] = << a >>[i]
  BY <1>2
<1> QED
  BY <1>1, <1>2, <1>3, SeqEqual

(* A return from a stack of three.                                         *)
LEMMA ReturnToTwo ==
    ASSUME NEW a \in Frames, NEW b \in Frames, NEW c \in Frames
    PROVE  SubSeq(<< a, b, c >>, 1, 2) = << a, b >>
<1> DEFINE s == SubSeq(<< a, b, c >>, 1, 2)
<1>1. << a, b >> \in Seq(Frames) /\ Len(<< a, b >>) = 2
  OBVIOUS
<1>2. s \in Seq(Frames) /\ Len(s) = 2 /\ s[1] = a /\ s[2] = b
  BY SubSeqProperties
<1>3. \A i \in 1..2 : s[i] = << a, b >>[i]
  BY <1>2
<1> QED
  BY <1>1, <1>2, <1>3, SeqEqual

(* Calling from, and returning to, Qt's main loop.                         *)
LEMMA MainLoopStacks ==
    ASSUME NEW a \in Frames, NEW b \in Frames
    PROVE  /\ Append(<< >>, a) = << a >>
           /\ SubSeq(<< a >>, 1, 0) = << >>
           /\ SubSeq(<< a, b >>, 1, 0) = << >>
  BY SubSeqEmpty

(* In readNext: its loop goes on, or ends with a last call.                *)
LEMMA ReadStacks ==
    ASSUME stack \in Passive \cup Active, Top = "read"
    PROVE  \/ /\ stack = << "read" >>
              /\ Pop = << >>
              /\ Append(Append(Pop, "drain"), "process")
                   = << "drain", "process" >>
              /\ Append(stack, "process") = << "read", "process" >>
           \/ /\ stack = << "process", "flush", "read" >>
              /\ Pop = << "process", "flush" >>
<1>0. {"read", "drain", "process", "flush"} \subseteq Frames
  BY DEF Frames
<1>1. stack \in { << "read" >>, << "process", "flush", "read" >> }
  BY DEF Passive, Active, Top
<1>2. CASE stack = << "read" >>
  <2>1. Len(stack) - 1 = 0
    BY <1>2
  <2>2. Pop = << >>
    BY <1>0, <1>2, <2>1, MainLoopStacks DEF Pop
  <2>3. Append(Pop, "drain") = << "drain" >>
    BY <1>0, <2>2, MainLoopStacks
  <2> QED
    BY <1>0, <1>2, <2>2, <2>3, CallFromOne
<1>3. CASE stack = << "process", "flush", "read" >>
  <2>1. Len(stack) - 1 = 2
    BY <1>3
  <2> QED
    BY <1>0, <1>3, <2>1, ReturnToTwo DEF Pop
<1> QED
  BY <1>1, <1>2, <1>3

(* In processEvents: it returns, or calls Qt's event loop.                 *)
LEMMA ProcessStacks ==
    ASSUME stack \in Passive \cup Active, Top = "process"
    PROVE  \/ /\ stack = << "process" >>
              /\ Returned = << >>
              /\ Push("flush") = << "process", "flush" >>
           \/ /\ stack = << "drain", "process" >>
              /\ Returned = << >>
              /\ Push("flush") = << "drain", "process", "flush" >>
           \/ /\ stack = << "read", "process" >>
              /\ Returned = << "read" >>
              /\ Push("flush") = << "read", "process", "flush" >>
<1>0. {"read", "drain", "process", "flush"} \subseteq Frames
  BY DEF Frames
<1>1. stack \in { << "process" >>, << "drain", "process" >>,
                  << "read", "process" >> }
  BY DEF Passive, Active, Top
<1>2. CASE stack = << "process" >>
  <2>1. Len(stack) = 1 /\ Len(stack) - 1 = 0
    BY <1>2
  <2>2. Returned = Pop
    BY <2>1 DEF Returned
  <2>3. Pop = << >>
    BY <1>0, <1>2, <2>1, MainLoopStacks DEF Pop
  <2> QED
    BY <1>0, <1>2, <2>2, <2>3, CallFromOne DEF Push
<1>3. CASE stack = << "drain", "process" >>
  <2>1. Len(stack) = 2 /\ Len(stack) - 2 = 0 /\ stack[Len(stack) - 1] = "drain"
    BY <1>3
  <2>2. Returned = SubSeq(stack, 1, 0)
    BY <2>1 DEF Returned
  <2>3. Returned = << >>
    BY <1>0, <1>3, <2>2, MainLoopStacks
  <2> QED
    BY <1>0, <1>3, <2>3, CallFromTwo DEF Push
<1>4. CASE stack = << "read", "process" >>
  <2>1. Len(stack) = 2 /\ Len(stack) - 1 = 1 /\ stack[Len(stack) - 1] # "drain"
    BY <1>4
  <2>2. Returned = SubSeq(stack, 1, 1)
    BY <2>1 DEF Returned, Pop
  <2>3. Returned = << "read" >>
    BY <1>0, <1>4, <2>2, ReturnToOne
  <2> QED
    BY <1>0, <1>4, <2>3, CallFromTwo DEF Push
<1> QED
  BY <1>1, <1>2, <1>3, <1>4

(* In an event loop: an event is dispatched, or a nested loop returns.     *)
LEMMA LoopStacks ==
    ASSUME stack \in Passive \cup Active, Top \in {"main", "flush"}
    PROVE  \/ /\ stack = << >>
              /\ Push("read") = << "read" >>
              /\ Push("process") = << "process" >>
              /\ Top = "main"
           \/ /\ stack = << "process", "flush" >>
              /\ Pop = << "process" >>
              /\ Push("read") = << "process", "flush", "read" >>
           \/ /\ stack = << "read", "process", "flush" >>
              /\ Pop = << "read", "process" >>
              /\ InReadyRead
           \/ /\ stack = << "drain", "process", "flush" >>
              /\ Pop = << "drain", "process" >>
              /\ InReadyRead
<1>0. {"read", "drain", "process", "flush"} \subseteq Frames
  BY DEF Frames
<1>1. stack \in { << >>, << "process", "flush" >>,
                  << "read", "process", "flush" >>,
                  << "drain", "process", "flush" >> }
  BY DEF Passive, Active, Top
<1>2. CASE stack = << >>
  BY <1>0, <1>2, MainLoopStacks DEF Push, Top
<1>3. CASE stack = << "process", "flush" >>
  <2>1. Len(stack) - 1 = 1
    BY <1>3
  <2> QED
    BY <1>0, <1>3, <2>1, ReturnToOne, CallFromTwo DEF Pop, Push
<1>4. ASSUME NEW a \in {"read", "drain"}, stack = << a, "process", "flush" >>
      PROVE  Pop = << a, "process" >> /\ InReadyRead
  <2>1. Len(stack) - 1 = 2 /\ 1 \in DOMAIN stack /\ stack[1] = a
    BY <1>4
  <2>2. Pop = << a, "process" >>
    BY <1>0, <1>4, <2>1, ReturnToTwo DEF Pop
  <2> QED
    BY <2>1, <2>2 DEF InReadyRead
<1> QED
  BY <1>1, <1>2, <1>3, <1>4

-----------------------------------------------------------------------------
(* Types and invariant: the library's side.                                *)

AppOK == LinkTypeOK /\ PlayerTypeOK /\ AppInv

(* Which stack is of which kind.                                           *)
LEMMA PassiveStacks ==
    /\ << >> \in Passive /\ << >> \notin Active /\ << >> \notin WithRead
    /\ << "read" >> \in Passive /\ << "read" >> \notin Active
    /\ << "read" >> \in WithRead
  BY DEF Passive, Active, WithRead

(* The stacks with processEvents on top.                                   *)
LEMMA ProcessingStacks ==
    /\ << "process" >> \in Active /\ << "process" >> \notin Passive
    /\ << "process" >> \notin WithRead
    /\ << "read", "process" >> \in Active /\ << "read", "process" >> \notin Passive
    /\ << "read", "process" >> \in WithRead
    /\ << "drain", "process" >> \in Active
    /\ << "drain", "process" >> \notin Passive
    /\ << "drain", "process" >> \notin WithRead
  BY DEF Passive, Active, WithRead

(* The stacks with a flush on top.                                         *)
LEMMA FlushingStacks ==
    /\ << "process", "flush" >> \in Active
    /\ << "process", "flush" >> \notin Passive
    /\ << "process", "flush" >> \notin WithRead
    /\ << "read", "process", "flush" >> \in Active
    /\ << "read", "process", "flush" >> \notin Passive
    /\ << "read", "process", "flush" >> \in WithRead
    /\ << "drain", "process", "flush" >> \in Active
    /\ << "drain", "process", "flush" >> \notin Passive
    /\ << "drain", "process", "flush" >> \notin WithRead
    /\ << "process", "flush", "read" >> \in Active
    /\ << "process", "flush", "read" >> \notin Passive
    /\ << "process", "flush", "read" >> \in WithRead
  BY DEF Passive, Active, WithRead

(* The possible stacks are stacks.                                         *)
LEMMA StackType ==
    ASSUME NEW s \in Passive \cup Active
    PROVE  s \in Seq(Frames)
<1>1. /\ "read" \in Frames /\ "drain" \in Frames /\ "process" \in Frames
      /\ "flush" \in Frames
  BY DEF Frames
<1>2. << >> \in Seq(Frames)
  OBVIOUS
<1>3. \A a \in Frames : << a >> \in Seq(Frames)
  OBVIOUS
<1>4. \A a, b \in Frames : << a, b >> \in Seq(Frames)
  OBVIOUS
<1>5. \A a, b, c \in Frames : << a, b, c >> \in Seq(Frames)
  OBVIOUS
<1> QED
  BY <1>1, <1>2, <1>3, <1>4, <1>5 DEF Passive, Active

(* What Player::ack writes is typed.                                       *)
LEMMA AckLineType ==
    ASSUME NEW flag
    PROVE  AckLine(flag) \in Seq(Replies)
<1>1. "ACK" \in Replies
  BY DEF Replies
<1>2. << "ACK" >> \in Seq(Replies) /\ << >> \in Seq(Replies)
  BY <1>1
<1> QED
  BY <1>2 DEF AckLine

(* The first element and the rest of a sequence.                           *)
LEMMA HeadAndTail ==
    ASSUME NEW S, NEW q \in Seq(S), q # << >>
    PROVE  Head(q) \in S /\ Tail(q) \in Seq(S)
  BY HeadTailProperties

EventRecords == [type : EventTypes, ack : BOOLEAN]

(* The first Event of the queue, and the others.                           *)
LEMMA QueueHead ==
    ASSUME PlayerTypeOK, queue # <<>>
    PROVE  /\ Head(queue).type \in EventTypes
           /\ Head(queue).ack \in BOOLEAN
           /\ Tail(queue) \in Seq([type : EventTypes, ack : BOOLEAN])
<1>1. queue \in Seq(EventRecords)
  BY DEF PlayerTypeOK, EventRecords
<1>2. Head(queue) \in EventRecords /\ Tail(queue) \in Seq(EventRecords)
  BY <1>1, HeadAndTail
<1> QED
  BY <1>2 DEF EventRecords

(* What an element is queued as is typed.                                  *)
LEMMA QueuedAsType ==
    ASSUME NEW e \in Elements
    PROVE  QueuedAs(e) \in Seq(EventRecords)
<1>1. \A t \in EventTypes : WithAck(t) \in EventRecords
                           /\ WithoutAck(t) \in EventRecords
  BY DEF WithAck, WithoutAck, EventRecords
<1>2. e # "dnd" => e \in EventTypes
  BY DEF Elements, Events, EventTypes
<1>3. e # "dnd" => << WithAck(e) >> \in Seq(EventRecords)
  BY <1>1, <1>2
<1>4. DragAndDropEvents \in Seq(EventRecords)
  <2>1. /\ WithoutAck("flush") \in EventRecords
        /\ WithoutAck("focus") \in EventRecords
        /\ WithoutAck("input") \in EventRecords
        /\ WithoutAck("sleep") \in EventRecords
        /\ WithoutAck("drop") \in EventRecords
        /\ WithAck("ack") \in EventRecords
    BY <1>1 DEF EventTypes
  <2> QED
    BY <2>1 DEF DragAndDropEvents
<1> QED
  BY <1>3, <1>4 DEF QueuedAs

(* The end of the process leaves nothing to go wrong.                      *)
LEMMA GoneOK ==
    ASSUME LinkTypeOK, PlayerTypeOK, PlayerGone, toGui' \in Seq(Replies),
           fatal' \in BOOLEAN
    PROVE  AppOK'
<1>1. ~processing' /\ ~ackNext' /\ ~pickMode'
  BY DEF PlayerGone, NoState
<1>2. {processing', ackNext', pickMode'} \subseteq BOOLEAN
  BY DEF PlayerGone, NoState
<1>4. AppInv'
  BY <1>1, PassiveStacks DEF PlayerGone, NoState, AppInv, SleepAcksItself
<1>5. LinkTypeOK' /\ PlayerTypeOK'
  BY <1>2
  DEF PlayerGone, NoState, LinkTypeOK, PlayerTypeOK, AppStates, DocStates
<1> QED
  BY <1>4, <1>5 DEF AppOK

(* So does an abort.                                                       *)
LEMMA AbortOK ==
    ASSUME LinkTypeOK, PlayerTypeOK, Aborts, fatal' \in BOOLEAN
    PROVE  AppOK'
<1>1. toGui' \in Seq(Replies)
  BY DEF Aborts, LinkTypeOK
<1> QED
  BY <1>1, GoneOK DEF Aborts

(* A mouse release ends a pick.                                            *)
LEMMA EndPickOK ==
    ASSUME AppOK, InEventLoop, pickMode,
           NEW who \in {"user", "replay"}, EndPick(who),
           posted' \in Seq({"input", "release"})
    PROVE  AppOK'
<1>0. LinkTypeOK /\ PlayerTypeOK /\ AppInv
  BY DEF AppOK
<1>1. stack = << >> /\ stack' = << "process" >>
  <2>1. stack \in Passive /\ Top \in {"main", "flush"}
    BY <1>0 DEF AppInv, InEventLoop
  <2>2. stack = << >> /\ Push("process") = << "process" >>
    BY <2>1, LoopStacks, FlushingStacks
  <2> QED
    BY <2>2 DEF EndPick
<1>2. ~pickMode' /\ processing'
  BY DEF EndPick
<1>3. {pickMode', processing'} \subseteq BOOLEAN
  BY DEF EndPick
<1>4. timer' = "off" /\ doc' # "none" /\ doc' = doc
  BY <1>0 DEF EndPick, AppInv
<1>5. AppInv'
  BY <1>1, <1>2, <1>4, ProcessingStacks DEF AppInv, SleepAcksItself
<1>6. stack' \in Seq(Frames)
  BY <1>1, ProcessingStacks, StackType
<1>7. toGui' \in Seq(Replies)
  BY <1>0 DEF EndPick, LinkTypeOK, Replies
<1>8. LinkTypeOK' /\ PlayerTypeOK'
  BY <1>0, <1>3, <1>6, <1>7 DEF EndPick, LinkTypeOK, PlayerTypeOK
<1> QED
  BY <1>5, <1>8 DEF AppOK

(* Types and invariant, step by step: the process as a whole, ...          *)
LEMMA ProcessStepOK ==
    ASSUME AppOK, ProcessStep
    PROVE  AppOK'
<1>0. LinkTypeOK /\ PlayerTypeOK /\ AppInv /\ fatal \in BOOLEAN
      /\ toGui \in Seq(Replies) /\ posted \in Seq({"input", "release"})
  BY DEF AppOK, PlayerTypeOK, LinkTypeOK
<1>1. CASE MarshallConnects
  BY <1>0, <1>1
  DEF MarshallConnects, playerVars, AppOK, LinkTypeOK, PlayerTypeOK, AppInv,
      SleepAcksItself, AppStates, ConnStates
<1>2. CASE UserClicks
  BY <1>0, <1>2, EndPickOK DEF UserClicks
<1>3. CASE DropTargetMissing
  BY <1>0, <1>3, AbortOK DEF DropTargetMissing
<1>4. CASE ProcessMissing
  BY <1>0, <1>4, AbortOK DEF ProcessMissing
<1>5. CASE ProcessExits
  BY <1>0, <1>5, GoneOK DEF ProcessExits
<1>6. CASE ProcessCrashes
  BY <1>0, <1>6, AbortOK DEF ProcessCrashes
<1> QED
  BY <1>1, <1>2, <1>3, <1>4, <1>5, <1>6 DEF ProcessStep

(* ... Marshall's commands, ...                                            *)
LEMMA ReadCommandOK ==
    ASSUME AppOK, toApp # << >>, queue = << >>, timer = "off", ~pickMode,
           NEW below, below = << >>, ReadCommand(below)
    PROVE  AppOK'
<1>0. LinkTypeOK /\ PlayerTypeOK /\ AppInv
  BY DEF AppOK
<1>1. Head(toApp) \in Commands /\ Tail(toApp) \in Seq(Commands)
  BY <1>0, HeadAndTail DEF LinkTypeOK
<1>2. CASE Head(toApp) = "PLAY"
  <2>1. ~processing' /\ ~pickMode' /\ stack' = << "read" >>
    <3>1. Append(below, "read") = << "read" >>
      BY MainLoopStacks DEF Frames
    <3> QED
      BY <1>2, <3>1 DEF ReadCommand
  <2>2. {processing', ackNext', pickMode'} \subseteq BOOLEAN
    BY <1>2 DEF ReadCommand
  <2>3. AppInv'
    BY <1>2, <2>1, PassiveStacks DEF ReadCommand, AppInv, SleepAcksItself
  <2>4. stack' \in Seq(Frames)
    BY <2>1, PassiveStacks, StackType
  <2>5. LinkTypeOK' /\ PlayerTypeOK'
    BY <1>0, <1>1, <1>2, <2>2, <2>4
    DEF ReadCommand, LinkTypeOK, PlayerTypeOK, DocStates
  <2> QED
    BY <2>3, <2>5 DEF AppOK
<1>3. CASE Head(toApp) = "DIE"
  <2>1. ~processing' /\ ~pickMode' /\ stack' = << >>
    BY <1>3 DEF ReadCommand
  <2>2. {processing', ackNext', pickMode'} \subseteq BOOLEAN
    BY <1>0, <1>3 DEF ReadCommand, PlayerTypeOK
  <2>3. AppInv'
    BY <1>3, <2>1, PassiveStacks DEF ReadCommand, AppInv, SleepAcksItself
  <2>4. stack' \in Seq(Frames)
    BY <2>1, PassiveStacks, StackType
  <2>5. toGui' \in Seq(Replies)
    BY <1>0, <1>3 DEF ReadCommand, LinkTypeOK, Replies
  <2>6. /\ app' = "quitting" /\ doc' = "none" /\ toApp' = Tail(toApp)
        /\ performed' = performed + 1
        /\ UNCHANGED <<conn, queue, timer, posted, picker, fatal>>
    BY <1>3 DEF ReadCommand
  <2>7. LinkTypeOK'
    BY <1>0, <1>1, <2>5, <2>6 DEF LinkTypeOK, AppStates
  <2>8. PlayerTypeOK'
    BY <1>0, <2>2, <2>4, <2>6 DEF PlayerTypeOK, DocStates
  <2> QED
    BY <2>3, <2>7, <2>8 DEF AppOK
<1>4. CASE Head(toApp) \notin {"PLAY", "DIE"}
  <2>1. fatal' \in BOOLEAN /\ Aborts
    BY <1>4 DEF ReadCommand
  <2> QED
    BY <1>0, <2>1, AbortOK
<1> QED
  BY <1>2, <1>3, <1>4

(* ... the calls of readNext, ...                                          *)
LEMMA DrainOK ==
    ASSUME PlayerTypeOK, AppInv, Reading, Drain,
           UNCHANGED <<timer, pickMode, ackNext>>,
           doc' # "none"
    PROVE  /\ AppInv'
           /\ processing' \in BOOLEAN
           /\ stack' \in Seq(Frames)
<1>1. processing' /\ {processing'} \subseteq BOOLEAN
  BY DEF Drain, CallProcessEvents
<1>2. CASE stack = << "read" >> /\ processing
  <2>1. stack' = << >>
    BY <1>2, ReadStacks, FlushingStacks, PassiveStacks
    DEF Drain, CallProcessEvents, AppInv, Reading
  <2>2. timer # "off" \/ pickMode
    BY <1>2, PassiveStacks DEF AppInv
  <2> QED
    BY <1>1, <2>1, <2>2, PassiveStacks, StackType DEF AppInv, SleepAcksItself
<1>3. CASE stack = << "read" >> /\ ~processing
  <2>1. stack' = << "drain", "process" >>
    BY <1>3, ReadStacks, FlushingStacks, PassiveStacks
    DEF Drain, CallProcessEvents, AppInv, Reading
  <2>2. timer = "off" /\ ~pickMode
    BY <1>3 DEF AppInv
  <2> QED
    BY <1>1, <2>1, <2>2, ProcessingStacks, StackType
    DEF AppInv, SleepAcksItself
<1>4. CASE stack = << "process", "flush", "read" >>
  <2>1. processing /\ timer = "off" /\ ~pickMode
    BY <1>4, FlushingStacks DEF AppInv
  <2>2. stack' = << "process", "flush" >>
    BY <1>4, <2>1, ReadStacks, FlushingStacks, PassiveStacks
    DEF Drain, CallProcessEvents, AppInv, Reading
  <2> QED
    BY <1>1, <2>1, <2>2, FlushingStacks, StackType DEF AppInv, SleepAcksItself
<1> QED
  BY <1>2, <1>3, <1>4, ReadStacks DEF AppInv, Reading

(* A call keeps the stacks among those that occur.                         *)
LEMMA CallOK ==
    ASSUME PlayerTypeOK, AppInv, Reading, CallProcessEvents(stack, stack),
           UNCHANGED <<timer, pickMode, ackNext, doc>>
    PROVE  /\ AppInv'
           /\ processing' \in BOOLEAN
           /\ stack' \in Seq(Frames)
<1>0. doc = "open"
  BY ReadStacks, PassiveStacks, FlushingStacks DEF AppInv, Reading
<1>1. processing' /\ {processing'} \subseteq BOOLEAN
  BY DEF CallProcessEvents
<1>2. CASE processing
  <2>1. stack' = stack
    BY <1>2 DEF CallProcessEvents
  <2> QED
    BY <1>0, <1>1, <1>2, <2>1 DEF AppInv, SleepAcksItself, PlayerTypeOK
<1>3. CASE ~processing
  <2>1. stack = << "read" >> /\ timer = "off" /\ ~pickMode
    BY <1>3, ReadStacks, FlushingStacks DEF AppInv, Reading
  <2>2. stack' = << "read", "process" >>
    BY <1>3, <2>1, ReadStacks, FlushingStacks, PassiveStacks
    DEF CallProcessEvents, AppInv, Reading
  <2> QED
    BY <1>0, <1>1, <2>1, <2>2, ProcessingStacks, StackType
    DEF AppInv, SleepAcksItself
<1> QED
  BY <1>2, <1>3

(* ... reading the document, ...                                           *)
LEMMA ReadingOK ==
    ASSUME AppOK,
           \/ MarshallReads \/ ReadyRead \/ InputExhausted \/ ElementRead
           \/ EndOfDocument \/ TrailingElement
    PROVE  AppOK'
<1>0. LinkTypeOK /\ PlayerTypeOK /\ AppInv
  BY DEF AppOK
<1>1. CASE MarshallReads
  <2>1. queue = << >> /\ stack = << >> /\ timer = "off" /\ ~pickMode
    BY <1>0, <1>1 DEF MarshallReads, AppInv
  <2>2. toApp # << >> /\ ReadCommand(stack)
    BY <1>1 DEF MarshallReads, CanReadLine
  <2> QED
    BY <2>1, <2>2, ReadCommandOK
<1>2. CASE ReadyRead
  <2>1. stack \in Passive \cup Active /\ Top \in {"main", "flush"}
    BY <1>0, <1>2 DEF ReadyRead, InEventLoop, AppInv
  <2>2. \/ stack = << >> /\ stack' = << "read" >>
        \/ stack = << "process", "flush" >>
           /\ stack' = << "process", "flush", "read" >>
    BY <1>2, <2>1, LoopStacks DEF ReadyRead
  <2>3. stack' \in Seq(Frames)
    BY <2>2, PassiveStacks, FlushingStacks, StackType
  <2>4. AppInv'
    BY <1>0, <1>2, <2>2, PassiveStacks, FlushingStacks
    DEF ReadyRead, AppInv, SleepAcksItself
  <2>5. LinkTypeOK' /\ PlayerTypeOK'
    BY <1>0, <1>2, <2>3 DEF ReadyRead, linkVars, LinkTypeOK, PlayerTypeOK
  <2> QED
    BY <2>4, <2>5 DEF AppOK
<1>3. CASE InputExhausted
  <2>1. doc # "none"
    BY <1>0, <1>3, ReadStacks, PassiveStacks, FlushingStacks
    DEF InputExhausted, Reading, AppInv
  <2>2. AppInv' /\ processing' \in BOOLEAN /\ stack' \in Seq(Frames)
    BY <1>0, <1>3, <2>1, DrainOK DEF InputExhausted
  <2>3. LinkTypeOK' /\ PlayerTypeOK'
    BY <1>0, <1>3, <2>2 DEF InputExhausted, linkVars, LinkTypeOK, PlayerTypeOK
  <2> QED
    BY <2>2, <2>3 DEF AppOK
<1>4. CASE ElementRead
  <2>1. AppInv' /\ processing' \in BOOLEAN /\ stack' \in Seq(Frames)
    BY <1>0, <1>4, CallOK DEF ElementRead
  <2>2. queue' \in Seq([type : EventTypes, ack : BOOLEAN])
    <3>1. queue \in Seq(EventRecords)
      BY <1>0 DEF PlayerTypeOK, EventRecords
    <3>2. QueuedAs(Head(toApp)) \in Seq(EventRecords)
      BY <1>4, QueuedAsType DEF ElementRead
    <3>3. queue' \in Seq(EventRecords)
      BY <1>4, <3>1, <3>2, ConcatProperties DEF ElementRead
    <3> QED
      BY <3>3 DEF EventRecords
  <2>3. toApp' \in Seq(Commands)
    BY <1>0, <1>4, HeadAndTail DEF ElementRead, LinkTypeOK
  <2>4. LinkTypeOK' /\ PlayerTypeOK'
    BY <1>0, <1>4, <2>1, <2>2, <2>3 DEF ElementRead, LinkTypeOK, PlayerTypeOK
  <2> QED
    BY <2>1, <2>4 DEF AppOK
<1>5. CASE EndOfDocument
  <2>1. AppInv' /\ processing' \in BOOLEAN /\ stack' \in Seq(Frames)
    BY <1>0, <1>5, DrainOK DEF EndOfDocument, AtEndOfDocument
  <2>2. toApp' \in Seq(Commands)
    BY <1>0, <1>5, HeadAndTail DEF EndOfDocument, AtEndOfDocument, LinkTypeOK
  <2>3. toGui' \in Seq(Replies)
    BY <1>0, <1>5, AckLineType, ConcatProperties
    DEF EndOfDocument, LinkTypeOK
  <2>4. LinkTypeOK' /\ PlayerTypeOK'
    BY <1>0, <1>5, <2>1, <2>2, <2>3
    DEF EndOfDocument, LinkTypeOK, PlayerTypeOK, DocStates
  <2> QED
    BY <2>1, <2>4 DEF AppOK
<1>6. CASE TrailingElement
  <2>1. AppInv' /\ processing' \in BOOLEAN /\ stack' \in Seq(Frames)
    BY <1>0, <1>6, DrainOK DEF TrailingElement, AtEndOfDocument
  <2>2. LinkTypeOK' /\ PlayerTypeOK'
    BY <1>0, <1>6, <2>1
    DEF TrailingElement, LinkTypeOK, PlayerTypeOK, DocStates
  <2> QED
    BY <2>1, <2>2 DEF AppOK
<1> QED
  BY <1>1, <1>2, <1>3, <1>4, <1>5, <1>6

(* While processEvents runs, nothing sleeps, no pick is under way and the  *)
(* device is there.                                                        *)
LEMMA ProcessingAlone ==
    ASSUME AppInv, Processing
    PROVE  /\ stack \in Active /\ stack \notin Passive
           /\ processing /\ timer = "off" /\ ~pickMode /\ doc # "none"
<1>1. stack \in Passive \cup Active /\ Top = "process"
  BY DEF AppInv, Processing
<1>2. stack \in Active /\ stack \notin Passive /\ stack # << >>
  BY <1>1, ProcessStacks, ProcessingStacks, PassiveStacks
<1> QED
  BY <1>2 DEF AppInv

(* A step that takes an Event off the queue and stays in processEvents.    *)
LEMMA DequeueOK ==
    ASSUME AppOK, NEW types, Dequeue(types),
           toGui' \in Seq(Replies), posted' \in Seq({"input", "release"}),
           performed' \in Nat,
           UNCHANGED <<pickMode, timer, stack>>
    PROVE  AppOK'
<1>0. LinkTypeOK /\ PlayerTypeOK /\ AppInv
  BY DEF AppOK
<1>1. Processing /\ queue # << >>
  BY DEF Dequeue
<1>2. /\ stack \in Active /\ stack \notin Passive
      /\ processing /\ timer = "off" /\ ~pickMode /\ doc # "none"
  BY <1>0, <1>1, ProcessingAlone
<1>3. queue' \in Seq([type : EventTypes, ack : BOOLEAN]) /\ ackNext' \in BOOLEAN
  BY <1>0, <1>1, QueueHead DEF Dequeue
<1>4. AppInv'
  BY <1>0, <1>2 DEF AppInv, Dequeue, SleepAcksItself
<1>5. LinkTypeOK' /\ PlayerTypeOK'
  BY <1>0, <1>3 DEF Dequeue, LinkTypeOK, PlayerTypeOK
<1> QED
  BY <1>4, <1>5 DEF AppOK

(* ... the Events that processEvents goes on after, ...                    *)
LEMMA ProcessingOK ==
    ASSUME AppOK,
           \/ ProcessAck \/ ProcessFound \/ ProcessNotFound \/ ProcessDump
    PROVE  AppOK'
<1>0. LinkTypeOK /\ PlayerTypeOK /\ AppInv
  BY DEF AppOK
<1>1. /\ toGui \in Seq(Replies) /\ posted \in Seq({"input", "release"})
      /\ performed \in Nat
  BY <1>0 DEF LinkTypeOK, PlayerTypeOK
<1>2. CountCarried => performed' \in Nat
  BY <1>1 DEF CountCarried
<1>3. ASSUME NEW lines \in Seq(Replies), Reply(lines)
      PROVE  toGui' \in Seq(Replies)
  BY <1>1, <1>3, AckLineType, ConcatProperties DEF Reply
<1>4. "NOTFOUND" \in Replies /\ "DUMPED" \in Replies
  BY DEF Replies
<1>5. << >> \in Seq(Replies) /\ << "NOTFOUND" >> \in Seq(Replies)
  BY <1>4
<1>6. CASE ProcessAck
  <2>1. toGui' \in Seq(Replies)
    BY <1>3, <1>5, <1>6 DEF ProcessAck
  <2> QED
    BY <1>1, <1>6, <2>1, DequeueOK DEF ProcessAck
<1>7. CASE ProcessFound
  <2>1. toGui' \in Seq(Replies)
    BY <1>3, <1>5, <1>7 DEF ProcessFound
  <2>2. posted' \in Seq({"input", "release"})
    <3>1. \/ posted' = Append(posted, "input")
          \/ posted' = Append(posted, "release")
          \/ posted' = posted
      BY <1>7 DEF ProcessFound
    <3> QED
      BY <1>1, <3>1, AppendProperties
  <2> QED
    BY <1>2, <1>7, <2>1, <2>2, DequeueOK DEF ProcessFound
<1>8. CASE ProcessNotFound
  <2>1. toGui' \in Seq(Replies)
    BY <1>3, <1>5, <1>8 DEF ProcessNotFound
  <2> QED
    BY <1>1, <1>2, <1>8, <2>1, DequeueOK DEF ProcessNotFound
<1>9. CASE ProcessDump
  <2>1. toGui' \in Seq(Replies)
    BY <1>1, <1>4, <1>9, AppendProperties DEF ProcessDump
  <2> QED
    BY <1>1, <1>2, <1>9, <2>1, DequeueOK DEF ProcessDump
<1> QED
  BY <1>6, <1>7, <1>8, <1>9

(* ... the Events that call or leave its loop, ...                         *)
LEMMA LeavingOK ==
    ASSUME AppOK, ProcessFlush \/ ProcessPick \/ ProcessSleep
    PROVE  AppOK'
<1>0. LinkTypeOK /\ PlayerTypeOK /\ AppInv
  BY DEF AppOK
<1>1. Processing /\ queue # << >> /\ queue' = Tail(queue)
      /\ ackNext' = Head(queue).ack /\ toGui' = toGui
      /\ UNCHANGED <<toApp, app, conn, doc, processing, picker, fatal, posted,
                     performed>>
  BY DEF ProcessFlush, ProcessPick, ProcessSleep, Dequeue
<1>2. /\ stack \in Passive \cup Active /\ Top = "process"
      /\ processing /\ timer = "off" /\ ~pickMode /\ doc # "none"
  BY <1>0, <1>1, ProcessingAlone DEF AppInv, Processing
<1>3. queue' \in Seq([type : EventTypes, ack : BOOLEAN]) /\ ackNext' \in BOOLEAN
  BY <1>0, <1>1, QueueHead
<1>4. ASSUME AppInv', stack' \in Passive \cup Active,
             timer' \in {"off", "statement", "drag"}, pickMode' \in BOOLEAN
      PROVE  AppOK'
  <2>1. stack' \in Seq(Frames)
    BY <1>4, StackType
  <2>2. LinkTypeOK' /\ PlayerTypeOK'
    BY <1>0, <1>1, <1>3, <1>4, <2>1 DEF LinkTypeOK, PlayerTypeOK
  <2> QED
    BY <1>4, <2>2 DEF AppOK
<1>5. CASE ProcessFlush
  <2>1. /\ timer' = "off" /\ ~pickMode' /\ pickMode' = pickMode
        /\ stack' = Push("flush")
    BY <1>2, <1>5 DEF ProcessFlush
  <2>2. stack' \in Active /\ stack' \notin Passive
    BY <1>2, <2>1, ProcessStacks, FlushingStacks
  <2>3. stack' \in WithRead => doc = "open"
    BY <1>0, <1>2, <2>1, ProcessStacks, FlushingStacks, ProcessingStacks
    DEF AppInv
  <2>4. AppInv'
    BY <1>1, <1>2, <2>1, <2>2, <2>3 DEF AppInv, SleepAcksItself
  <2> QED
    BY <1>0, <1>4, <2>1, <2>2, <2>4 DEF PlayerTypeOK
<1>6. (stack' = Returned) => /\ stack' \in Passive /\ stack' \notin Active
                             /\ stack' \in WithRead => doc = "open"
  BY <1>0, <1>2, ProcessStacks, PassiveStacks, ProcessingStacks DEF AppInv
<1>7. CASE ProcessPick
  <2>1. timer' = "off" /\ pickMode' /\ stack' = Returned
    BY <1>2, <1>7 DEF ProcessPick
  <2>2. {pickMode'} \subseteq BOOLEAN
    BY <1>7 DEF ProcessPick
  <2>3. AppInv'
    BY <1>1, <1>2, <1>6, <2>1 DEF AppInv, SleepAcksItself
  <2> QED
    BY <1>4, <1>6, <2>1, <2>2, <2>3
<1>8. CASE ProcessSleep
  <2>1. /\ timer' = (IF Head(queue).ack THEN "statement" ELSE "drag")
        /\ ~pickMode' /\ pickMode' = pickMode /\ stack' = Returned
    BY <1>2, <1>8 DEF ProcessSleep
  <2>2. timer' # "off" /\ timer' \in {"off", "statement", "drag"}
    BY <2>1
  <2>3. SleepAcksItself'
    BY <1>1, <2>1 DEF SleepAcksItself
  <2>4. AppInv'
    BY <1>1, <1>2, <1>6, <2>1, <2>2, <2>3 DEF AppInv
  <2> QED
    BY <1>0, <1>4, <1>6, <2>1, <2>2, <2>4 DEF PlayerTypeOK
<1> QED
  BY <1>5, <1>7, <1>8

(* ... its end and the callbacks that enter it again, ...                  *)
LEMMA CallbackOK ==
    ASSUME AppOK, QueueEmpty \/ WaitFinished \/ FlushReturns \/ DeliverPosted
    PROVE  AppOK'
<1>0. LinkTypeOK /\ PlayerTypeOK /\ AppInv
  BY DEF AppOK
<1>1. CASE QueueEmpty
  <2>1. /\ stack \in Passive \cup Active /\ Top = "process" /\ queue = << >>
        /\ processing /\ timer = "off" /\ ~pickMode /\ doc # "none"
    BY <1>0, <1>1, ProcessingAlone DEF QueueEmpty, AppInv, Processing
  <2>2. doc = "ended" => Returned = << >>
    BY <1>0, <2>1, ProcessStacks, ProcessingStacks DEF AppInv
  <2>3. CASE doc = "ended" /\ CanReadLine
    <3>1. ReadCommand(Returned) /\ toApp # << >>
      BY <1>1, <2>3 DEF QueueEmpty, CanReadLine
    <3> QED
      BY <2>1, <2>2, <2>3, <3>1, ReadCommandOK
  <2>4. CASE ~(doc = "ended" /\ CanReadLine)
    <3>1. /\ doc' = (IF doc = "ended" THEN "none" ELSE doc)
          /\ ~processing' /\ stack' = Returned
          /\ UNCHANGED <<linkVars, queue, ackNext, pickMode, timer, posted,
                         performed, picker, fatal>>
      BY <1>1, <2>4 DEF QueueEmpty
    <3>2. {processing'} \subseteq BOOLEAN
      BY <1>1, <2>4 DEF QueueEmpty
    <3>3. /\ stack' \in Passive /\ stack' \notin Active
          /\ stack' \in WithRead => doc = "open"
      BY <1>0, <2>1, <3>1, ProcessStacks, PassiveStacks, ProcessingStacks
      DEF AppInv
    <3>4. AppInv'
      BY <2>1, <2>2, <3>1, <3>3 DEF AppInv, SleepAcksItself
    <3>5. doc' \in DocStates
      BY <1>0, <3>1 DEF PlayerTypeOK, DocStates
    <3>6. LinkTypeOK' /\ PlayerTypeOK'
      BY <1>0, <3>1, <3>2, <3>3, <3>5, StackType
      DEF linkVars, LinkTypeOK, PlayerTypeOK
    <3> QED
      BY <3>4, <3>6 DEF AppOK
  <2> QED
    BY <2>3, <2>4
<1>2. CASE WaitFinished
  <2>1. timer # "off" /\ Top \in {"main", "flush"}
    BY <1>2 DEF WaitFinished, InEventLoop
  <2>2. stack \in Passive /\ ~pickMode /\ doc # "none"
    BY <1>0, <2>1 DEF AppInv
  <2>3. stack' = << "process" >>
    BY <1>2, <2>1, <2>2, LoopStacks, FlushingStacks DEF WaitFinished
  <2>4. processing' /\ timer' = "off" /\ ~pickMode' /\ doc' # "none"
    BY <1>2, <2>2 DEF WaitFinished
  <2>5. {processing'} \subseteq BOOLEAN
    BY <1>2 DEF WaitFinished
  <2>6. AppInv'
    BY <2>3, <2>4, ProcessingStacks DEF AppInv, SleepAcksItself
  <2>7. toGui' \in Seq(Replies)
    BY <1>0, <1>2, AckLineType, ConcatProperties DEF WaitFinished, LinkTypeOK
  <2>8. stack' \in Seq(Frames)
    BY <2>3, ProcessingStacks, StackType
  <2>9. LinkTypeOK' /\ PlayerTypeOK'
    BY <1>0, <1>2, <2>5, <2>7, <2>8 DEF WaitFinished, LinkTypeOK, PlayerTypeOK
  <2> QED
    BY <2>6, <2>9 DEF AppOK
<1>3. CASE FlushReturns
  <2>1. stack \in Passive \cup Active /\ Top = "flush" /\ stack' = Pop
    BY <1>0, <1>3 DEF FlushReturns, AppInv
  <2>2. /\ stack \in Active /\ stack \notin Passive
        /\ stack' \in Active /\ stack' \notin Passive /\ stack' # << >>
        /\ stack \in WithRead <=> stack' \in WithRead
    BY <2>1, LoopStacks, FlushingStacks, ProcessingStacks, PassiveStacks
  <2>3. AppInv'
    BY <1>0, <1>3, <2>2, PassiveStacks DEF FlushReturns, AppInv, SleepAcksItself
  <2>4. LinkTypeOK' /\ PlayerTypeOK'
    BY <1>0, <1>3, <2>2, StackType
    DEF FlushReturns, linkVars, LinkTypeOK, PlayerTypeOK
  <2> QED
    BY <2>3, <2>4 DEF AppOK
<1>4. CASE DeliverPosted
  <2>1. posted' \in Seq({"input", "release"})
    BY <1>0, <1>4, HeadAndTail DEF DeliverPosted, PlayerTypeOK
  <2>2. CASE pickMode /\ Head(posted) = "release"
    BY <1>4, <2>1, <2>2, EndPickOK DEF DeliverPosted
  <2>3. CASE ~(pickMode /\ Head(posted) = "release")
    BY <1>0, <1>4, <2>1, <2>3
    DEF DeliverPosted, linkVars, LinkTypeOK, PlayerTypeOK, AppInv,
        SleepAcksItself, AppOK
  <2> QED
    BY <2>2, <2>3
<1> QED
  BY <1>1, <1>2, <1>3, <1>4

(* ... and so every step of the library by itself.                         *)
LEMMA PlayerStepOK ==
    ASSUME AppOK, PlayerStep
    PROVE  AppOK'
  BY ReadingOK, ProcessingOK, LeavingOK, CallbackOK DEF PlayerStep

-----------------------------------------------------------------------------
(* The whole system.                                                       *)

Inv == TypeOK /\ AppInv

(* The invariant holds at first ...                                        *)
LEMMA InvInit ==
    ASSUME Init
    PROVE  Inv
<1>1. {device, uuid, dumped, aborted, processing, ackNext, pickMode, fatal}
        \subseteq BOOLEAN
  BY DEF Init, GuiInit, PlayerInit
<1>2. ~processing /\ ~ackNext /\ ~pickMode
  BY DEF Init, PlayerInit
<1>3. LinkTypeOK
  BY DEF Init, LinkInit, LinkTypeOK, AppStates, ConnStates
<1>4. GuiTypeOK
  BY <1>1 DEF Init, GuiInit, GuiTypeOK, GuiStates
<1>5. PlayerTypeOK
  BY <1>1 DEF Init, PlayerInit, PlayerTypeOK, DocStates
<1>6. AppInv
  BY <1>2, PassiveStacks DEF Init, PlayerInit, AppInv, SleepAcksItself
<1> QED
  BY <1>3, <1>4, <1>5, <1>6 DEF Inv, TypeOK

(* ... and every step of either process keeps it.                          *)
LEMMA InvNext ==
    ASSUME Inv, [Next]_vars
    PROVE  Inv'
<1>0. LinkTypeOK /\ GuiTypeOK /\ PlayerTypeOK /\ AppInv
  BY DEF Inv, TypeOK
<1>1. GuiTypes /\ AppOK
  BY <1>0 DEF GuiTypes, AppOK
<1>2. ASSUME UNCHANGED playerVars PROVE PlayerTypeOK' /\ AppInv'
  BY <1>0, <1>2 DEF playerVars, PlayerTypeOK, AppInv, SleepAcksItself
<1>3. CASE GuiNext
  <2>1. GuiTypes'
    BY <1>1, <1>3, ScriptTypes, UserTypes, LoopTypes DEF GuiNext
  <2> QED
    BY <1>2, <1>3, <2>1 DEF GuiNext, GuiTypes, Inv, TypeOK
<1>4. CASE Spawn
  <2>1. GuiTypes'
    BY <1>1, <1>4, SpawnTypes DEF Spawn
  <2>2. {processing', ackNext', pickMode', fatal'} \subseteq BOOLEAN
    BY <1>4 DEF Spawn, PlayerReset, NoState
  <2>3. ~processing' /\ ~ackNext' /\ ~pickMode'
    BY <1>4 DEF Spawn, PlayerReset, NoState
  <2>4. PlayerTypeOK'
    BY <1>4, <2>2 DEF Spawn, PlayerReset, NoState, PlayerTypeOK, DocStates
  <2>5. AppInv'
    BY <1>4, <2>3, PassiveStacks
    DEF Spawn, PlayerReset, NoState, AppInv, SleepAcksItself
  <2> QED
    BY <2>1, <2>4, <2>5 DEF GuiTypes, Inv, TypeOK
<1>5. CASE AppNext
  <2>1. AppOK'
    BY <1>1, <1>5, PlayerStepOK, ProcessStepOK DEF AppNext
  <2>2. GuiTypeOK'
    BY <1>0, <1>5 DEF AppNext, guiVars, GuiTypeOK
  <2> QED
    BY <2>1, <2>2 DEF AppOK, Inv, TypeOK
<1>6. CASE UNCHANGED vars
  <2>1. UNCHANGED <<linkVars, guiVars, playerVars>>
    BY <1>6 DEF vars
  <2>2. LinkTypeOK' /\ GuiTypeOK'
    BY <1>0, <2>1 DEF linkVars, guiVars, LinkTypeOK, GuiTypeOK
  <2> QED
    BY <1>2, <2>1, <2>2 DEF Inv, TypeOK
<1> QED
  BY <1>3, <1>4, <1>5, <1>6 DEF Next

(* Interpreter.cpp, Marshall.cpp and Player.cpp keep the types and the     *)
(* invariant of the library, whatever the GUI, the user and the process    *)
(* do.                                                                     *)
THEOREM Invariance == Spec => []Inv
<1>1. Init => Inv
  BY InvInit
<1>2. Inv /\ [Next]_vars => Inv'
  BY InvNext
<1> QED
  BY <1>1, <1>2, PTL DEF Spec

(* Every variable of the GUI, the connection and the library keeps its     *)
(* type, for any number of statements, picks, runs and stops.              *)
THEOREM TypeCorrect == Spec => []TypeOK
<1>1. Inv => TypeOK
  BY DEF Inv
<1> QED
  BY <1>1, Invariance, PTL

(* Player::sleep and Player::startPick suspend processEvents exclusively:  *)
(* m_processingEvents keeps it from being entered until waitFinished or    *)
(* endPick resumes it.                                                     *)
THEOREM SuspensionCorrect == Spec => []SuspendedExclusively
<1>1. ASSUME Inv PROVE SuspendedExclusively
  <2>1. AppInv
    BY <1>1 DEF Inv
  <2>2. \A s \in Passive : \A i \in DOMAIN s : s[i] # "process"
    BY DEF Passive
  <2>3. timer # "off" \/ pickMode =>
          /\ processing /\ stack \in Passive
          /\ timer # "off" => ~pickMode
    BY <2>1 DEF AppInv
  <2> QED
    BY <2>2, <2>3 DEF SuspendedExclusively
<1> QED
  BY <1>1, Invariance, PTL

(* Player::waitFinished acknowledges exactly the sleeps of the script: the *)
(* m_ackNext it reads is that of the sleep, though other handlers run in   *)
(* between.                                                                *)
THEOREM SleepCorrect == Spec => []SleepAcksItself
<1>1. Inv => SleepAcksItself
  BY DEF Inv, AppInv
<1> QED
  BY <1>1, Invariance, PTL

(* Player::processEvents releases the device only when Player has nothing  *)
(* left to write to it.                                                    *)
THEOREM DeviceCorrect == Spec => []PlayerKeepsDevice
<1>1. Inv => PlayerKeepsDevice
  BY DEF Inv, AppInv, PlayerKeepsDevice
<1> QED
  BY <1>1, Invariance, PTL
=============================================================================
