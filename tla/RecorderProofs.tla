--------------------------- MODULE RecorderProofs ---------------------------
(***************************************************************************)
(* Proofs about Recorder: the canary protocol and the order of a           *)
(* recording, for any number of events.                                    *)
(***************************************************************************)
EXTENDS Recorder, TLAPS

(* A recording without its end: elements in order, none numbered above n.  *)
Good(s, n) ==
    /\ \A i \in DOMAIN s : s[i].number <= n /\ s[i].token # "end"
    /\ \A i, j \in DOMAIN s : i < j => s[i].number < s[j].number

(* The inductive invariant.  RecordedInOrder alone is not inductive: that  *)
(* the next element comes last needs the bound by delivered, that the root *)
(* tag comes first needs an empty recording while it is open, and that a   *)
(* flush appends needs NoStaleBuffer.                                      *)
IInv ==
    /\ TypeOK
    /\ CanaryExact
    /\ NoStaleBuffer
    /\ rootOpen => out = <<>> /\ buffer = <<>>
    /\ alive => Good(Recording, delivered)
    /\ RecordedInOrder
    /\ EndDocumentLast

-----------------------------------------------------------------------------
(* Sequences.                                                              *)

(* What is in front of a good recording is good.                           *)
LEMMA GoodPrefix ==
    ASSUME NEW s \in Seq(Tokens), NEW t \in Seq(Tokens), NEW n \in Nat,
           Good(s \o t, n)
    PROVE  Good(s, n)
<1>1. \A i \in DOMAIN s : i \in DOMAIN (s \o t) /\ (s \o t)[i] = s[i]
  OBVIOUS
<1> QED
  BY <1>1 DEF Good

(* The tokens of a sequence of tokens.                                     *)
LEMMA TokenNumber ==
    ASSUME NEW s \in Seq(Tokens)
    PROVE  DOMAIN s = 1..Len(s) /\ \A i \in DOMAIN s : s[i].number \in Nat
<1>1. DOMAIN s = 1..Len(s) /\ \A i \in DOMAIN s : s[i] \in Tokens
  OBVIOUS
<1>2. \A e \in Tokens : e.number \in Nat
  BY DEF Tokens
<1> QED
  BY <1>1, <1>2

(* A bound may be raised.                                                  *)
LEMMA GoodLater ==
    ASSUME NEW s \in Seq(Tokens), NEW n \in Nat, Good(s, n)
    PROVE  Good(s, n + 1)
  BY TokenNumber DEF Good

(* The next element goes behind a good recording ...                       *)
LEMMA GoodAppend ==
    ASSUME NEW s \in Seq(Tokens), NEW n \in Nat, Good(s, n),
           NEW e \in Tokens, e.number = n + 1, e.token # "end"
    PROVE  Good(s \o <<e>>, n + 1)
<1> DEFINE r == s \o <<e>>
<1>1. Len(r) = Len(s) + 1 /\ DOMAIN r = 1..(Len(s) + 1) /\ DOMAIN s = 1..Len(s)
  OBVIOUS
<1>2. \A i \in 1..Len(s) : r[i] = s[i] /\ s[i].number \in Nat
  BY TokenNumber
<1>3. r[Len(s) + 1] = e
  OBVIOUS
<1> HIDE DEF r
<1>4. \A i \in DOMAIN r : r[i].number <= n + 1 /\ r[i].token # "end"
  BY <1>1, <1>2, <1>3 DEF Good
<1>5. \A i, j \in DOMAIN r : i < j => r[i].number < r[j].number
  BY <1>1, <1>2, <1>3 DEF Good
<1> QED
  BY <1>4, <1>5 DEF Good, r

(* ... and, as the first, behind the end of the root tag.                  *)
LEMMA GoodFirst ==
    ASSUME NEW n \in Nat, NEW e \in Tokens, e.number = n + 1, e.token # "end"
    PROVE  Good(<< RootEnd, e >>, n + 1)
<1>1. DOMAIN << RootEnd, e >> = {1, 2}
  OBVIOUS
<1>2. << RootEnd, e >>[1] = RootEnd /\ << RootEnd, e >>[2] = e
  OBVIOUS
<1>3. RootEnd.number = 0 /\ RootEnd.token = "gt"
  BY DEF RootEnd, Element
<1> QED
  BY <1>1, <1>2, <1>3 DEF Good

(* The empty sequence is neutral.                                          *)
LEMMA ConcatEmpty ==
    ASSUME NEW s \in Seq(Tokens)
    PROVE  s \o << >> = s /\ << >> \o s = s
  OBVIOUS

-----------------------------------------------------------------------------
(* The filter.                                                             *)

(* After the filter's first step, whatever the event, the buffer and the   *)
(* socket still make up a good recording.                                  *)
LEMMA Prelude ==
    ASSUME IInv, alive, NEW kind \in Kinds
    PROVE  /\ Flushed(kind) \in Seq(Tokens)
           /\ Buffer1 \in Seq(Tokens)
           /\ Sink1 \in {"device", "buffer"}
           /\ Sink1 = "device" => Buffer1 = <<>>
           /\ rootOpen => Flushed(kind) = <<>> /\ Buffer1 = <<>>
           /\ Good(Flushed(kind) \o Buffer1, delivered)
           /\ Good(Flushed(kind) \o <<>>, delivered)
<1>1. /\ out \in Seq(Tokens) /\ buffer \in Seq(Tokens)
      /\ sink \in {"device", "buffer"} /\ delivered \in Nat
  BY DEF IInv, TypeOK
<1>2. Good(out \o buffer, delivered)
  BY DEF IInv, Recording
<1>3. Good(out, delivered)
  BY <1>1, <1>2, GoodPrefix
<1>4. out \o buffer \in Seq(Tokens)
  BY <1>1
<1>5. /\ Flushed(kind) \in {out, out \o buffer}
      /\ Flushed(kind) = out \o buffer => Buffer1 = <<>> \/ Flushed(kind) = out
  BY DEF Flushed, Buffer1
<1>6. /\ Flushed(kind) \in Seq(Tokens) /\ Buffer1 \in Seq(Tokens)
      /\ Sink1 \in {"device", "buffer"}
  BY <1>1, <1>4 DEF Flushed, Buffer1, Sink1
<1>7. Sink1 = "device" => Buffer1 = <<>>
  BY DEF IInv, NoStaleBuffer, Sink1, Buffer1
<1>8. rootOpen => Flushed(kind) = <<>> /\ Buffer1 = <<>>
  BY ConcatEmpty, <1>1 DEF IInv, Flushed, Buffer1
<1>9. Good(Flushed(kind), delivered)
  BY <1>2, <1>3, <1>5
<1>10. Flushed(kind) \o <<>> = Flushed(kind)
  BY <1>6, ConcatEmpty
<1>11. Good(Flushed(kind) \o Buffer1, delivered)
  <2>1. CASE AfterRelease
    BY <2>1, <1>9, <1>10 DEF Buffer1
  <2>2. CASE ~AfterRelease
    BY <2>2, <1>2 DEF Buffer1, Flushed
  <2> QED
    BY <2>1, <2>2
<1> QED
  BY <1>6, <1>7, <1>8, <1>9, <1>10, <1>11

(* What the writer emits keeps the recording good.                         *)
LEMMA WriteGood ==
    ASSUME IInv, alive,
           NEW e \in Tokens, e.number = delivered + 1, e.token # "end",
           NEW d \in {"device", "buffer"},
           NEW b \in Seq(Tokens), NEW o \in Seq(Tokens),
           d = "device" => b = <<>>,
           rootOpen => o = <<>> /\ b = <<>>,
           Good(o \o b, delivered),
           Write(e, d, b, o), delivered' = delivered + 1
    PROVE  /\ sink' = d
           /\ out' \in Seq(Tokens)
           /\ buffer' \in Seq(Tokens)
           /\ rootOpen' = FALSE
           /\ NoStaleBuffer'
           /\ Good(Recording', delivered')
<1>1. delivered \in Nat
  BY DEF IInv, TypeOK
<1>2. RootEnd \in Tokens
  BY DEF RootEnd, Element, Tokens, Kinds
<1>3. Written(e) \in Seq(Tokens)
  BY <1>2 DEF Written
<1>4. /\ sink' = d /\ out' \in Seq(Tokens) /\ buffer' \in Seq(Tokens)
      /\ rootOpen' = FALSE /\ NoStaleBuffer'
  BY <1>3 DEF Write, NoStaleBuffer
<1>5. Recording' = (o \o b) \o Written(e)
  <2>1. CASE d = "buffer"
    <3>1. out' = o /\ buffer' = b \o Written(e)
      BY <2>1 DEF Write
    <3>2. o \o (b \o Written(e)) = (o \o b) \o Written(e)
      BY <1>3
    <3> QED
      BY <3>1, <3>2 DEF Recording
  <2>2. CASE d = "device"
    <3>1. b = <<>> /\ out' = o \o Written(e) /\ buffer' = <<>>
      BY <2>2 DEF Write
    <3>2. o \o Written(e) \in Seq(Tokens)
      BY <1>3
    <3> QED
      BY <3>1, <3>2, ConcatEmpty DEF Recording
  <2> QED
    BY <2>1, <2>2
<1>6. Good((o \o b) \o Written(e), delivered + 1)
  <2>1. CASE rootOpen
    <3>1. (o \o b) \o Written(e) = << RootEnd, e >>
      BY <2>1, <1>3, ConcatEmpty DEF Written
    <3> QED
      BY <3>1, <1>1, GoodFirst
  <2>2. CASE ~rootOpen
    <3>1. Written(e) = << e >> /\ o \o b \in Seq(Tokens)
      BY <2>2 DEF Written
    <3> QED
      BY <3>1, <1>1, GoodAppend
  <2> QED
    BY <2>1, <2>2
<1> QED
  BY <1>4, <1>5, <1>6

(* A good recording is in order and has no end yet.                        *)
LEMMA GoodRecording ==
    ASSUME Good(Recording, delivered)
    PROVE  RecordedInOrder /\ EndDocumentLast
  BY DEF Good, RecordedInOrder, EndDocumentLast

(* Posting a canary while events are not ignored ...                       *)
LEMMA CanaryPosted ==
    ASSUME CanaryExact, ~ignore, PostCanary
    PROVE  CanaryExact' /\ canaries' \in Nat /\ ignore' \in BOOLEAN
<1>1. canaries = 0
  BY DEF CanaryExact
<1>2. canaries' = 1
  BY <1>1 DEF PostCanary
<1>3. ignore' /\ ignore' \in BOOLEAN
  BY DEF PostCanary
<1>4. CanaryExact'
  BY <1>2, <1>3 DEF CanaryExact
<1> QED
  BY <1>2, <1>3, <1>4

(* ... and the removal of every canary keep the protocol.                  *)
LEMMA CanaryRemoved ==
    ASSUME canaries' = 0, ignore' = FALSE
    PROVE  CanaryExact' /\ canaries' \in Nat /\ ignore' \in BOOLEAN
<1>1. ~ignore' /\ ignore' \in BOOLEAN
  OBVIOUS
<1> QED
  BY <1>1 DEF CanaryExact

-----------------------------------------------------------------------------
(* The inductive invariant.                                                *)

(* It holds of a new Logger, whatever its uninitialised members contain.   *)
LEMMA InitIInv == Init => IInv
<1> SUFFICES ASSUME Init PROVE IInv
  OBVIOUS
<1>0. ~ignore /\ {ignore, alive, rootOpen} \subseteq BOOLEAN
  BY DEF Init
<1>1. CanaryExact /\ NoStaleBuffer
  BY <1>0 DEF Init, CanaryExact, NoStaleBuffer
<1>4. TypeOK
  BY <1>0 DEF Init, TypeOK, Null, Garbage
<1>2. Recording = <<>>
  BY DEF Init, Recording
<1>3. Good(Recording, delivered) /\ RecordedInOrder /\ EndDocumentLast
  BY <1>2 DEF Good, RecordedInOrder, EndDocumentLast
<1> QED
  BY <1>1, <1>3, <1>4 DEF IInv, Init

(* Every step of the filter, of Qt and of the exit preserves it.           *)
LEMMA NextIInv == IInv /\ [Next]_vars => IInv'
<1> SUFFICES ASSUME IInv, [Next]_vars PROVE IInv'
  OBVIOUS
<1>0. /\ TypeOK /\ CanaryExact
      /\ delivered \in Nat /\ delivered + 1 \in Nat
      /\ alive => Good(Recording, delivered)
      /\ out \in Seq(Tokens) /\ buffer \in Seq(Tokens)
      /\ Recording \in Seq(Tokens)
  BY DEF IInv, TypeOK, Recording
<1>a. \A k \in {"press", "release", "drop", "input"}, src \in Nat :
        /\ Element(k, delivered + 1, src) \in Tokens
        /\ Element(k, delivered + 1, src).number = delivered + 1
        /\ Element(k, delivered + 1, src).token # "end"
  BY <1>0 DEF Element, Tokens, Kinds
<1>b. Null \in Nat /\ <<>> \in Seq(Tokens)
  BY DEF Null
<1>c. \A q \in Seq(Tokens) : Contents(q) \subseteq Tokens
  BY DEF Contents
<1>1. ASSUME NEW kind \in Kinds, Ignored(kind) PROVE IInv'
  <2>1. Recording' = Recording
    BY <1>1 DEF Ignored, Recording
  <2>2. TypeOK' /\ CanaryExact' /\ NoStaleBuffer'
    BY <1>0, <1>1 DEF IInv, Ignored, Delivered, TypeOK, CanaryExact,
                      NoStaleBuffer
  <2>3. Good(Recording', delivered')
    BY <1>0, <1>1, <2>1, GoodLater DEF Ignored, Delivered
  <2>4. RecordedInOrder' /\ EndDocumentLast'
    BY <2>3 DEF Good, RecordedInOrder, EndDocumentLast
  <2> QED
    BY <1>1, <2>2, <2>3, <2>4 DEF IInv, Ignored
<1>2. ASSUME NotWritten PROVE IInv'
  <2>1. alive /\ "other" \in Kinds
    BY <1>2 DEF NotWritten, Delivered, Kinds
  <2>2. Recording' = Flushed("other") \o Buffer1
    BY <1>2 DEF NotWritten, Recording
  <2>3. TypeOK' /\ CanaryExact' /\ NoStaleBuffer'
    BY <1>0, <1>2, <2>1, Prelude, CanaryPosted
    DEF NotWritten, Delivered, TypeOK, NoStaleBuffer
  <2>4. rootOpen' => out' = <<>> /\ buffer' = <<>>
    BY <1>2, <2>1, Prelude DEF NotWritten
  <2>5. Flushed("other") \o Buffer1 \in Seq(Tokens)
    BY <2>1, Prelude
  <2>6. Good(Recording', delivered')
    BY <1>0, <1>2, <2>1, <2>2, <2>5, Prelude, GoodLater
    DEF NotWritten, Delivered
  <2>7. RecordedInOrder' /\ EndDocumentLast'
    BY <2>6 DEF Good, RecordedInOrder, EndDocumentLast
  <2> QED
    BY <2>3, <2>4, <2>6, <2>7 DEF IInv
<1>3. ASSUME NEW kind \in Kinds, Logged(kind) PROVE IInv'
  <2>1. /\ alive /\ kind \in {"press", "release", "drop", "input"}
        /\ delivered' = delivered + 1
        /\ Write(Element(kind, delivered + 1, Null), Sink1, Buffer1,
                 Flushed(kind))
    BY <1>3 DEF Logged, Delivered
  <2>2. /\ sink' = Sink1 /\ out' \in Seq(Tokens) /\ buffer' \in Seq(Tokens)
        /\ rootOpen' = FALSE /\ NoStaleBuffer' /\ Good(Recording', delivered')
    BY <1>3, <1>a, <1>b, <2>1, Prelude, WriteGood
  <2>3. CanaryExact' /\ canaries' \in Nat /\ ignore' \in BOOLEAN
    BY <1>0, <1>3, CanaryPosted DEF Logged
  <2>5. TypeOK'
    BY <1>0, <1>3, <2>1, <2>2, <2>3, Prelude DEF Logged, Delivered, TypeOK
  <2>4. RecordedInOrder' /\ EndDocumentLast'
    BY <2>2 DEF Good, RecordedInOrder, EndDocumentLast
  <2> QED
    BY <2>2, <2>3, <2>4, <2>5 DEF IInv
<1>4. ASSUME Press PROVE IInv'
  <2>1. /\ alive /\ "press" \in Kinds
        /\ delivered' = delivered + 1
        /\ Write(Element("press", delivered + 1, Null), "buffer", <<>>,
                 Flushed("press"))
    BY <1>4 DEF Press, Delivered, Kinds
  <2>2. /\ sink' = "buffer" /\ out' \in Seq(Tokens) /\ buffer' \in Seq(Tokens)
        /\ rootOpen' = FALSE /\ NoStaleBuffer' /\ Good(Recording', delivered')
    BY <1>a, <1>b, <2>1, Prelude, WriteGood
  <2>3. discarded' \in SUBSET Tokens
    BY <1>0, <1>4, <1>c, <2>1, Prelude DEF Press, TypeOK
  <2>4. CanaryExact' /\ canaries' \in Nat /\ ignore' \in BOOLEAN
    BY <1>0, <1>4, CanaryPosted DEF Press
  <2>6. TypeOK'
    BY <1>0, <1>4, <2>1, <2>2, <2>3, <2>4 DEF Press, Delivered, TypeOK
  <2>5. RecordedInOrder' /\ EndDocumentLast'
    BY <2>2 DEF Good, RecordedInOrder, EndDocumentLast
  <2> QED
    BY <2>2, <2>4, <2>5, <2>6 DEF IInv
<1>5. ASSUME Drop PROVE IInv'
  <2>1. /\ alive /\ "drop" \in Kinds /\ origin \in Nat
        /\ delivered' = delivered + 1
        /\ Write(Element("drop", delivered + 1, origin), Sink1, Buffer1,
                 Flushed("drop"))
    BY <1>0, <1>5 DEF Drop, Delivered, Kinds, TypeOK
  <2>2. /\ sink' = Sink1 /\ out' \in Seq(Tokens) /\ buffer' \in Seq(Tokens)
        /\ rootOpen' = FALSE /\ NoStaleBuffer' /\ Good(Recording', delivered')
    BY <1>a, <2>1, Prelude, WriteGood
  <2>3. discarded' \in SUBSET Tokens
    BY <1>0, <1>5, <1>c DEF Drop, Dropped, TypeOK
  <2>4. TypeOK' /\ CanaryExact'
    BY <1>0, <1>5, <1>b, <2>1, <2>2, <2>3, Prelude
    DEF Drop, Delivered, TypeOK, CanaryExact
  <2>5. RecordedInOrder' /\ EndDocumentLast'
    BY <2>2 DEF Good, RecordedInOrder, EndDocumentLast
  <2> QED
    BY <2>2, <2>4, <2>5 DEF IInv
<1>6. ASSUME DropFromNowhere PROVE IInv'
  <2>1. Recording' = Recording
    BY <1>6 DEF DropFromNowhere, Recording
  <2>2. TypeOK' /\ CanaryExact' /\ NoStaleBuffer'
    BY <1>6 DEF IInv, DropFromNowhere, TypeOK, CanaryExact, NoStaleBuffer
  <2> QED
    BY <1>6, <2>1, <2>2
    DEF IInv, DropFromNowhere, RecordedInOrder, EndDocumentLast
<1>7. ASSUME CanaryDelivered PROVE IInv'
  <2>1. Recording' = Recording
    BY <1>7 DEF CanaryDelivered, Recording
  <2>3. canaries' = 0 /\ ignore' = FALSE
    BY <1>0, <1>7 DEF CanaryDelivered, CanaryExact, TypeOK
  <2>2. TypeOK' /\ CanaryExact' /\ NoStaleBuffer'
    BY <1>7, <2>3, CanaryRemoved
    DEF IInv, CanaryDelivered, TypeOK, NoStaleBuffer
  <2> QED
    BY <1>7, <2>1, <2>2
    DEF IInv, CanaryDelivered, RecordedInOrder, EndDocumentLast
<1>8. ASSUME Exit PROVE IInv'
  <2>1. EndDocument \in Tokens /\ EndDocument.token = "end"
    BY DEF EndDocument, Element, Tokens, Kinds
  <2>2. buffer' = <<>> /\ out' = Append(Recording, EndDocument)
    <3>1. CASE sink = "buffer"
      BY <1>0, <1>8, <2>1, <3>1 DEF Exit, Recording
    <3>2. CASE sink # "buffer"
      <4>1. buffer = <<>> /\ out \o <<>> = out
        BY <1>0, <3>2, ConcatEmpty DEF IInv, TypeOK, NoStaleBuffer
      <4>2. Append(out, EndDocument) \o <<>> = Append(out, EndDocument)
        BY <1>0, <2>1, ConcatEmpty
      <4> QED
        BY <1>8, <3>2, <4>1, <4>2 DEF Exit, Recording
    <3> QED
      BY <3>1, <3>2
  <2>3. out' \in Seq(Tokens) /\ Recording' = out'
    BY <1>0, <2>1, <2>2, ConcatEmpty DEF Recording
  <2>0. alive' \in BOOLEAN /\ rootOpen' \in BOOLEAN
    BY <1>8 DEF Exit
  <2>9. CanaryExact' /\ canaries' \in Nat /\ ignore' \in BOOLEAN
    BY <1>8, CanaryRemoved DEF Exit
  <2>4. TypeOK' /\ NoStaleBuffer'
    BY <1>0, <1>8, <2>0, <2>2, <2>3, <2>9 DEF Exit, TypeOK, NoStaleBuffer
  <2>5. /\ DOMAIN Recording' = 1..(Len(Recording) + 1)
        /\ DOMAIN Recording = 1..Len(Recording)
        /\ Len(Recording') = Len(Recording) + 1
        /\ \A i \in 1..Len(Recording) : Recording'[i] = Recording[i]
        /\ Recording'[Len(Recording) + 1] = EndDocument
    BY <1>0, <2>1, <2>2, <2>3
  <2>6. Good(Recording, delivered) /\ Len(Recording) \in Nat
    BY <1>0, <1>8 DEF Exit
  <2>7. RecordedInOrder'
    BY <2>1, <2>5, <2>6 DEF Good, RecordedInOrder
  <2>8. EndDocumentLast'
    BY <2>5, <2>6 DEF Good, EndDocumentLast
  <2> QED
    BY <1>8, <2>4, <2>7, <2>8, <2>9 DEF IInv, Exit
<1>9. ASSUME UNCHANGED vars PROVE IInv'
  <2>1. Recording' = Recording
    BY <1>9 DEF vars, Recording
  <2> QED
    BY <1>9, <2>1 DEF IInv, vars, TypeOK, CanaryExact, NoStaleBuffer,
                      RecordedInOrder, EndDocumentLast
<1> QED
  BY <1>1, <1>2, <1>3, <1>4, <1>5, <1>6, <1>7, <1>8, <1>9 DEF Next

(* It holds throughout every recording.                                    *)
THEOREM Invariance == Spec => []IInv
  BY InitIInv, NextIInv, PTL DEF Spec

(* Logger's variables keep their types.                                    *)
THEOREM TypeCorrect == Spec => []TypeOK
<1>1. IInv => TypeOK
  BY DEF IInv
<1> QED
  BY <1>1, Invariance, PTL

(* The canary protocol: however events, drops and canaries interleave,     *)
(* events are ignored exactly while one canary is queued, so none of       *)
(* CanaryEvent's assertions can fail.                                      *)
THEOREM CanaryCorrect == Spec => []CanaryExact
<1>1. IInv => CanaryExact
  BY DEF IInv
<1> QED
  BY <1>1, Invariance, PTL

(* A recording of any length is in the order of the events, without        *)
(* duplicates, through all buffering, flushing and discarding.             *)
THEOREM OrderCorrect == Spec => []RecordedInOrder
<1>1. IInv => RecordedInOrder
  BY DEF IInv
<1> QED
  BY <1>1, Invariance, PTL

(* Nothing is written behind the end of the document, and the buffer is    *)
(* empty whenever the writer is on the socket.                             *)
THEOREM EndCorrect == Spec => [](EndDocumentLast /\ NoStaleBuffer)
<1>1. IInv => EndDocumentLast /\ NoStaleBuffer
  BY DEF IInv
<1> QED
  BY <1>1, Invariance, PTL

(* Logger's flush in its destructor writes nothing: the buffer is empty    *)
(* whenever the writer is back on the socket.                              *)
THEOREM FlushCorrect == Spec => []NoStaleBuffer
<1>1. IInv => NoStaleBuffer
  BY DEF IInv
<1> QED
  BY <1>1, Invariance, PTL

-----------------------------------------------------------------------------
(* Drag and drop.                                                          *)

(* Everything ever written or discarded.                                   *)
AllTokens == Contents(Recording) \cup discarded

(* Neither OneDragPerPress nor ClickLostOnlyToDrop is inductive: a drop    *)
(* must find a press that no earlier drop has used up, and a buffer that   *)
(* is discarded for a press must hold no complete click.                   *)
DragInv ==
    /\ \A t \in AllTokens : t.source <= delivered
    /\ origin # Null => \A d \in Drops : d.source # origin
    /\ origin <= delivered
    /\ OneDragPerPress
    /\ \A t \in Contents(buffer) : t.token = "release" => AfterRelease
    /\ ClickLostOnlyToDrop

(* The tokens of two sequences, and of what the writer emits.              *)
LEMMA ContentsConcat ==
    ASSUME NEW s \in Seq(Tokens), NEW t \in Seq(Tokens)
    PROVE  Contents(s \o t) = Contents(s) \cup Contents(t)
<1>1. /\ Len(s) \in Nat /\ Len(t) \in Nat
      /\ DOMAIN s = 1..Len(s) /\ DOMAIN t = 1..Len(t)
      /\ DOMAIN (s \o t) = 1..(Len(s) + Len(t))
      /\ \A i \in 1..Len(s) : (s \o t)[i] = s[i]
      /\ \A i \in 1..Len(t) : (s \o t)[i + Len(s)] = t[i]
  OBVIOUS
<1>2. ASSUME NEW x \in Contents(s \o t) PROVE x \in Contents(s) \cup Contents(t)
  <2>1. PICK i \in 1..(Len(s) + Len(t)) : x = (s \o t)[i]
    BY <1>1 DEF Contents
  <2>2. CASE i <= Len(s)
    BY <1>1, <2>1, <2>2 DEF Contents
  <2>3. CASE i > Len(s)
    <3>1. i - Len(s) \in 1..Len(t) /\ (i - Len(s)) + Len(s) = i
      BY <1>1, <2>3
    <3>2. x = t[i - Len(s)]
      BY <1>1, <2>1, <3>1
    <3> QED
      BY <1>1, <3>1, <3>2 DEF Contents
  <2> QED
    BY <1>1, <2>2, <2>3
<1>3. ASSUME NEW x \in Contents(s) PROVE x \in Contents(s \o t)
  BY <1>1, <1>3 DEF Contents
<1>4. ASSUME NEW x \in Contents(t) PROVE x \in Contents(s \o t)
  <2>1. PICK i \in 1..Len(t) : x = t[i]
    BY <1>1 DEF Contents
  <2>2. i + Len(s) \in DOMAIN (s \o t) /\ x = (s \o t)[i + Len(s)]
    BY <1>1, <2>1
  <2> QED
    BY <2>2 DEF Contents
<1> QED
  BY <1>2, <1>3, <1>4

(* What is written with an element: the end of the root tag, if owed.      *)
LEMMA ContentsWritten ==
    ASSUME NEW e \in Tokens
    PROVE  /\ Written(e) \in Seq(Tokens)
           /\ e \in Contents(Written(e))
           /\ Contents(Written(e)) \subseteq {RootEnd, e}
           /\ Contents(<<>>) = {}
<1>1. RootEnd \in Tokens
  BY DEF RootEnd, Element, Tokens, Kinds
<1>2. /\ <<e>> \in Seq(Tokens) /\ Contents(<<e>>) = {e}
      /\ <<RootEnd, e>> \in Seq(Tokens) /\ Contents(<<RootEnd, e>>) = {RootEnd, e}
  BY <1>1 DEF Contents
<1> QED
  BY <1>2 DEF Written, Contents

(* Tokens are records of natural numbers.                                  *)
LEMMA TokenFields ==
    /\ \A t \in Tokens : t.number \in Nat /\ t.source \in Nat
    /\ RootEnd \in Tokens /\ RootEnd.token = "gt" /\ RootEnd.source = 0
    /\ EndDocument \in Tokens /\ EndDocument.token = "end"
    /\ EndDocument.source = 0
    /\ \A k \in {"press", "release", "drop", "input"}, n \in Nat, src \in Nat :
         /\ Element(k, n, src) \in Tokens /\ Element(k, n, src).token = k
         /\ Element(k, n, src).number = n /\ Element(k, n, src).source = src
  BY DEF RootEnd, EndDocument, Element, Tokens, Kinds

(* What is written goes behind what was there; nothing else changes.       *)
LEMMA WriteConserves ==
    ASSUME NEW e \in Tokens, NEW d \in {"device", "buffer"},
           NEW b \in Seq(Tokens), NEW o \in Seq(Tokens), Write(e, d, b, o)
    PROVE  /\ Contents(Recording') =
                (Contents(o) \cup Contents(b)) \cup Contents(Written(e))
           /\ Contents(buffer') \subseteq Contents(b) \cup {RootEnd, e}
           /\ d = "device" => buffer' = b
<1>1. Written(e) \in Seq(Tokens) /\ Contents(Written(e)) \subseteq {RootEnd, e}
  BY ContentsWritten
<1>2. /\ b \o Written(e) \in Seq(Tokens) /\ o \o Written(e) \in Seq(Tokens)
      /\ Contents(b \o Written(e)) = Contents(b) \cup Contents(Written(e))
      /\ Contents(o \o Written(e)) = Contents(o) \cup Contents(Written(e))
  BY <1>1, ContentsConcat
<1>3. out' \in Seq(Tokens) /\ buffer' \in Seq(Tokens)
  BY <1>2 DEF Write
<1>4. Contents(Recording') = Contents(out') \cup Contents(buffer')
  BY <1>3, ContentsConcat DEF Recording
<1> QED
  BY <1>1, <1>2, <1>4 DEF Write

(* Where the tokens are after the filter's first step.                     *)
LEMMA PreludeConserves ==
    ASSUME IInv, NEW kind \in Kinds
    PROVE  /\ Contents(Recording) = Contents(out) \cup Contents(buffer)
           /\ kind # "drop" => Contents(Flushed(kind)) \cup Contents(Buffer1)
                                 = Contents(Recording)
           /\ kind = "drop" => Flushed(kind) = out
           /\ AfterRelease => Buffer1 = <<>> /\ Sink1 = "device"
           /\ ~AfterRelease => Buffer1 = buffer /\ Flushed(kind) = out
           /\ Contents(Buffer1) \subseteq Contents(buffer)
<1>1. out \in Seq(Tokens) /\ buffer \in Seq(Tokens) /\ Contents(<<>>) = {}
  BY DEF IInv, TypeOK, Contents
<1>2. Contents(out \o buffer) = Contents(out) \cup Contents(buffer)
  BY <1>1, ContentsConcat
<1> QED
  BY <1>1, <1>2 DEF Recording, Flushed, Buffer1, Sink1

(* A step that adds no drop, and no press but the one it starts from.      *)
LEMMA NoDropAdded ==
    ASSUME IInv, DragInv, delivered' \in {delivered, delivered + 1},
           NEW new \in SUBSET Tokens, AllTokens' = AllTokens \cup new,
           \A t \in new : t.token # "drop" /\ t.source = 0,
           \/ origin' = origin
           \/ origin' = delivered + 1 /\ delivered' = delivered + 1
    PROVE  /\ Drops' = Drops
           /\ \A t \in AllTokens' : t.source <= delivered'
           /\ origin' # Null => \A d \in Drops' : d.source # origin'
           /\ origin' <= delivered'
           /\ OneDragPerPress'
<1>0. delivered \in Nat /\ origin \in Nat \cup {Garbage} /\ discarded \subseteq Tokens
      /\ Recording \in Seq(Tokens)
  BY DEF IInv, TypeOK, Recording
<1>1. \A t \in AllTokens : t \in Tokens /\ t.source \in Nat
  <2>1. Contents(Recording) \subseteq Tokens
    BY <1>0 DEF Contents
  <2> QED
    BY <1>0, <2>1, TokenFields DEF AllTokens
<1>2. Drops = {t \in AllTokens : t.token = "drop"}
      /\ Drops' = {t \in AllTokens' : t.token = "drop"}
  BY DEF Drops, AllTokens
<1>3. Drops' = Drops
  BY <1>2
<1>4. \A t \in AllTokens' : t.source <= delivered'
  BY <1>0, <1>1 DEF DragInv
<1>5. /\ origin' # Null => \A d \in Drops' : d.source # origin'
      /\ origin' <= delivered'
  BY <1>0, <1>1, <1>2, <1>3 DEF DragInv, Null, Garbage
<1>6. OneDragPerPress'
  BY <1>3 DEF DragInv, OneDragPerPress
<1> QED
  BY <1>3, <1>4, <1>5, <1>6

(* The invariant holds of a new Logger ...                                 *)
LEMMA InitDragInv == Init => DragInv
<1> SUFFICES ASSUME Init PROVE DragInv
  OBVIOUS
<1>1. Recording = <<>> /\ AllTokens = {} /\ Drops = {} /\ Contents(buffer) = {}
  BY DEF Init, Recording, AllTokens, Drops, Contents
<1>2. origin <= delivered
  BY DEF Init, Null, Garbage
<1> QED
  BY <1>1, <1>2 DEF Init, DragInv, OneDragPerPress, ClickLostOnlyToDrop

(* ... and every step preserves it.                                        *)
LEMMA NextDragInv == IInv /\ IInv' /\ DragInv /\ [Next]_vars => DragInv'
<1> SUFFICES ASSUME IInv, IInv', DragInv, [Next]_vars PROVE DragInv'
  OBVIOUS
<1>0. /\ delivered \in Nat /\ out \in Seq(Tokens) /\ buffer \in Seq(Tokens)
      /\ origin \in Nat \cup {Garbage} /\ discarded \subseteq Tokens
      /\ Contents(<<>>) = {} /\ Null = 0
  BY DEF IInv, TypeOK, Contents, Null
<1>a. "gt" # "drop" /\ "gt" # "release"
  OBVIOUS
<1>1. ASSUME Contents(Recording') = Contents(Recording), UNCHANGED <<origin, discarded>>,
             delivered' \in {delivered, delivered + 1},
             \A t \in Contents(buffer') :
                t.token = "release" => t \in Contents(buffer) /\ UNCHANGED lastEvent
      PROVE  DragInv'
  <2>1. AllTokens' = AllTokens \cup {} /\ {} \in SUBSET Tokens
        /\ \A t \in {} : t.token # "drop" /\ t.source = 0
    BY <1>1 DEF AllTokens
  <2>2. /\ Drops' = Drops
        /\ \A t \in AllTokens' : t.source <= delivered'
        /\ origin' # Null => \A d \in Drops' : d.source # origin'
        /\ origin' <= delivered'
        /\ OneDragPerPress'
    BY <1>1, <2>1, NoDropAdded
  <2>3. ClickLostOnlyToDrop'
    BY <1>1, <2>2 DEF DragInv, ClickLostOnlyToDrop
  <2> QED
    BY <1>1, <2>2, <2>3 DEF DragInv, AfterRelease
<1>2. ASSUME NEW kind \in Kinds, Ignored(kind) PROVE DragInv'
  <2>1. UNCHANGED <<out, buffer, origin, discarded, lastEvent>>
        /\ delivered' = delivered + 1
    BY <1>2 DEF Ignored, Delivered
  <2> QED
    BY <1>1, <2>1 DEF Recording
<1>3. ASSUME NotWritten PROVE DragInv'
  <2>1. /\ "other" \in Kinds /\ out' = Flushed("other") /\ buffer' = Buffer1
        /\ delivered' = delivered + 1 /\ UNCHANGED <<origin, discarded>>
    BY <1>3 DEF NotWritten, Delivered, Kinds
  <2>2. Contents(Recording') = Contents(out') \cup Contents(buffer')
    BY ContentsConcat DEF IInv, TypeOK, Recording
  <2>3. Contents(Recording') = Contents(Recording)
    BY <2>1, <2>2, PreludeConserves
  <2>4. \A t \in Contents(buffer') : t.token # "release"
    BY <1>0, <2>1, PreludeConserves DEF DragInv
  <2> QED
    BY <1>1, <2>1, <2>3, <2>4
<1>4. ASSUME NEW kind \in Kinds, Logged(kind) PROVE DragInv'
  <2> DEFINE e == Element(kind, delivered + 1, Null)
  <2>1. /\ kind \in {"input", "release"} /\ alive
        /\ Write(e, Sink1, Buffer1, Flushed(kind))
        /\ delivered' = delivered + 1 /\ lastEvent' = kind
        /\ UNCHANGED <<origin, discarded>>
    BY <1>4 DEF Logged, Delivered
  <2>2. e \in Tokens /\ e.token = kind /\ e.source = 0
    BY <1>0, <2>1, TokenFields
  <2> HIDE DEF e
  <2>3. /\ Contents(Recording') = Contents(Recording) \cup Contents(Written(e))
        /\ Contents(buffer') \subseteq Contents(Buffer1) \cup {RootEnd, e}
        /\ Sink1 = "device" => buffer' = Buffer1
    BY <2>1, <2>2, Prelude, PreludeConserves, WriteConserves
  <2>4. AllTokens' = AllTokens \cup Contents(Written(e))
    BY <2>1, <2>3 DEF AllTokens
  <2>5. /\ Contents(Written(e)) \in SUBSET Tokens
        /\ \A t \in Contents(Written(e)) : t.token # "drop" /\ t.source = 0
    <3>1. Contents(Written(e)) \subseteq {RootEnd, e}
      BY <2>2, ContentsWritten
    <3>2. /\ RootEnd \in Tokens /\ RootEnd.token # "drop" /\ RootEnd.source = 0
          /\ e.token # "drop"
      BY <1>a, <2>1, <2>2, TokenFields
    <3> QED
      BY <2>2, <3>1, <3>2
  <2>6. /\ Drops' = Drops
        /\ \A t \in AllTokens' : t.source <= delivered'
        /\ origin' # Null => \A d \in Drops' : d.source # origin'
        /\ origin' <= delivered'
        /\ OneDragPerPress'
    BY <2>1, <2>4, <2>5, NoDropAdded
  <2>7. ClickLostOnlyToDrop'
    BY <2>1, <2>6 DEF DragInv, ClickLostOnlyToDrop
  <2>8. ASSUME NEW t \in Contents(buffer'), t.token = "release" PROVE AfterRelease'
    <3>1. \A x \in Contents(Buffer1) : x.token # "release"
      BY <1>0, PreludeConserves DEF DragInv
    <3>2. t = e
      BY <2>3, <2>8, <3>1, TokenFields
    <3> QED
      BY <2>1, <2>2, <2>8, <3>2 DEF AfterRelease
  <2> QED
    BY <2>6, <2>7, <2>8 DEF DragInv
<1>5. ASSUME Press PROVE DragInv'
  <2> DEFINE e == Element("press", delivered + 1, Null)
  <2>1. /\ "press" \in Kinds /\ alive
        /\ Write(e, "buffer", <<>>, Flushed("press"))
        /\ delivered' = delivered + 1 /\ origin' = delivered + 1
        /\ discarded' = discarded \cup Contents(Buffer1)
    BY <1>5 DEF Press, Delivered, Kinds
  <2>2. e \in Tokens /\ e.token = "press" /\ e.source = 0
    BY <1>0, TokenFields
  <2> HIDE DEF e
  <2>3. /\ Contents(Recording') =
             (Contents(Flushed("press")) \cup {}) \cup Contents(Written(e))
        /\ Contents(buffer') \subseteq {RootEnd, e}
    <3>1. <<>> \in Seq(Tokens) /\ Flushed("press") \in Seq(Tokens)
      BY <2>1, Prelude
    <3> QED
      <4>1. /\ Contents(Recording') = (Contents(Flushed("press")) \cup Contents(<<>>))
                                       \cup Contents(Written(e))
            /\ Contents(buffer') \subseteq Contents(<<>>) \cup {RootEnd, e}
        <5>1. "buffer" \in {"device", "buffer"}
          OBVIOUS
        <5> QED
          BY <2>1, <2>2, <3>1, <5>1, WriteConserves
      <4> QED
        BY <1>0, <4>1
  <2>4. AllTokens' = AllTokens \cup Contents(Written(e))
    <3>1. Contents(Flushed("press")) \cup Contents(Buffer1) = Contents(Recording)
      BY <2>1, PreludeConserves
    <3> QED
      BY <2>1, <2>3, <3>1 DEF AllTokens
  <2>5. /\ Contents(Written(e)) \in SUBSET Tokens
        /\ \A t \in Contents(Written(e)) : t.token # "drop" /\ t.source = 0
    <3>1. Contents(Written(e)) \subseteq {RootEnd, e}
      BY <2>2, ContentsWritten
    <3>2. /\ RootEnd \in Tokens /\ RootEnd.token # "drop" /\ RootEnd.source = 0
          /\ e.token # "drop"
      BY <1>a, <2>2, TokenFields
    <3> QED
      BY <2>2, <3>1, <3>2
  <2>6. /\ Drops' = Drops
        /\ \A t \in AllTokens' : t.source <= delivered'
        /\ origin' # Null => \A d \in Drops' : d.source # origin'
        /\ origin' <= delivered'
        /\ OneDragPerPress'
    BY <2>1, <2>4, <2>5, NoDropAdded
  <2>7. \A t \in Contents(Buffer1) : t.token # "release"
    BY <1>0, <2>1, PreludeConserves DEF DragInv
  <2>8. ClickLostOnlyToDrop'
    BY <2>1, <2>6, <2>7 DEF DragInv, ClickLostOnlyToDrop
  <2>9. \A t \in Contents(buffer') : t.token # "release"
    BY <2>2, <2>3, TokenFields
  <2> QED
    BY <2>6, <2>8, <2>9 DEF DragInv
<1>6. ASSUME Drop PROVE DragInv'
  <2> DEFINE e == Element("drop", delivered + 1, origin)
  <2>1. /\ "drop" \in Kinds /\ alive /\ origin \in Nat
        /\ Write(e, Sink1, Buffer1, Flushed("drop"))
        /\ delivered' = delivered + 1 /\ origin' = 0 /\ UNCHANGED lastEvent
        /\ discarded' = discarded \cup Dropped("drop")
    BY <1>0, <1>6 DEF Drop, Delivered, Kinds
  <2>2. /\ e \in Tokens /\ e.token = "drop" /\ e.source = origin
        /\ e.number = delivered + 1
    BY <1>0, <2>1, TokenFields
  <2> HIDE DEF e
  <2>3. /\ Contents(Recording') =
             (Contents(out) \cup Contents(Buffer1)) \cup Contents(Written(e))
        /\ Contents(buffer') \subseteq Contents(Buffer1) \cup {RootEnd, e}
        /\ Sink1 = "device" => buffer' = Buffer1
    BY <2>1, <2>2, Prelude, PreludeConserves, WriteConserves
  <2>4. AllTokens' = AllTokens \cup Contents(Written(e))
    <3>1. CASE AfterRelease
      BY <1>0, <2>1, <2>3, <3>1, PreludeConserves DEF AllTokens, Dropped
    <3>2. CASE ~AfterRelease
      BY <2>1, <2>3, <3>2, PreludeConserves DEF AllTokens, Dropped
    <3> QED
      BY <3>1, <3>2
  <2>5. e \in Contents(Written(e)) /\ Contents(Written(e)) \subseteq {RootEnd, e}
    BY <2>2, ContentsWritten
  <2>6. Drops' = Drops \cup {e}
    BY <2>2, <2>4, <2>5, TokenFields DEF Drops, AllTokens
  <2>7. \A t \in AllTokens : t \in Tokens /\ t.source \in Nat /\ t.source <= delivered
    <3>1. Contents(Recording) \subseteq Tokens
      BY <1>0 DEF Contents, Recording
    <3> QED
      BY <1>0, <3>1, TokenFields DEF AllTokens, DragInv
  <2>8. \A t \in AllTokens' : t.source <= delivered'
    <3>1. e.source <= delivered'
      BY <1>0, <2>1, <2>2 DEF DragInv
    <3>2. RootEnd.source <= delivered'
      BY <1>0, <2>1, TokenFields
    <3>3. \A t \in AllTokens : t.source <= delivered'
      BY <1>0, <2>1, <2>7
    <3> QED
      BY <2>4, <2>5, <3>1, <3>2, <3>3
  <2>9. OneDragPerPress'
    BY <2>2, <2>6 DEF DragInv, OneDragPerPress
  <2>10. ClickLostOnlyToDrop'
    <3>1. ASSUME NEW t \in discarded, t.token = "release"
          PROVE  \E d \in Drops' : d.number > t.number
      BY <2>6, <3>1 DEF DragInv, ClickLostOnlyToDrop
    <3>2. ASSUME NEW t \in Dropped("drop") PROVE e.number > t.number
      <4>1. t \in Contents(Recording)
        BY <1>0, <2>1, <3>2, PreludeConserves DEF Dropped
      <4>2. Recording \in Seq(Tokens) /\ Good(Recording, delivered)
        BY <1>0, <2>1 DEF IInv, Recording
      <4>3. t.number \in Nat /\ t.number <= delivered
        BY <4>1, <4>2, TokenNumber DEF Contents, Good
      <4> QED
        BY <1>0, <2>2, <4>3
    <3> QED
      BY <2>1, <2>6, <3>1, <3>2 DEF ClickLostOnlyToDrop
  <2>11. ASSUME NEW t \in Contents(buffer'), t.token = "release" PROVE AfterRelease'
    <3>1. t \in Contents(Buffer1)
      BY <2>2, <2>3, <2>11, TokenFields
    <3>2. AfterRelease
      BY <2>1, <2>11, <3>1, PreludeConserves DEF DragInv
    <3> QED
      BY <2>1, <3>2 DEF AfterRelease
  <2> QED
    BY <1>0, <2>1, <2>8, <2>9, <2>10, <2>11 DEF DragInv
<1>7. ASSUME DropFromNowhere \/ CanaryDelivered \/ UNCHANGED vars PROVE DragInv'
  <2>1. UNCHANGED <<out, buffer, origin, discarded, lastEvent, delivered>>
    BY <1>7 DEF DropFromNowhere, CanaryDelivered, vars
  <2> QED
    BY <1>1, <2>1 DEF Recording
<1>8. ASSUME Exit PROVE DragInv'
  <2>1. /\ buffer' = <<>> /\ UNCHANGED <<origin, discarded, lastEvent, delivered>>
    BY <1>8 DEF Exit
  <2>2. EndDocument \in Tokens /\ EndDocument.token = "end" /\ EndDocument.source = 0
    BY TokenFields
  <2>3. /\ \A s \in Seq(Tokens) : /\ Append(s, EndDocument) \in Seq(Tokens)
                                  /\ Append(s, EndDocument) = s \o <<EndDocument>>
        /\ <<EndDocument>> \in Seq(Tokens)
        /\ Contents(<<EndDocument>>) = {EndDocument}
    BY <2>2 DEF Contents
  <2>4. \A s \in Seq(Tokens) : Contents(Append(s, EndDocument)) =
                                 Contents(s) \cup {EndDocument}
    BY <2>3, ContentsConcat
  <2>5. Contents(out') = Contents(Recording) \cup {EndDocument}
    <3>1. Contents(Recording) = Contents(out) \cup Contents(buffer)
      BY <1>0, ContentsConcat DEF Recording
    <3>2. CASE sink = "buffer"
      <4>1. out' = out \o Append(buffer, EndDocument)
        BY <1>8, <3>2 DEF Exit
      <4>2. Append(buffer, EndDocument) \in Seq(Tokens)
        BY <1>0, <2>3
      <4>3. Contents(out') = Contents(out) \cup Contents(Append(buffer, EndDocument))
        BY <1>0, <4>1, <4>2, ContentsConcat
      <4> QED
        BY <1>0, <2>4, <3>1, <4>3
    <3>3. CASE sink # "buffer"
      <4>1. out' = Append(out, EndDocument) \o buffer
        BY <1>8, <3>3 DEF Exit
      <4>2. Append(out, EndDocument) \in Seq(Tokens)
        BY <1>0, <2>3
      <4>3. Contents(out') = Contents(Append(out, EndDocument)) \cup Contents(buffer)
        BY <1>0, <4>1, <4>2, ContentsConcat
      <4> QED
        BY <1>0, <2>4, <3>1, <4>3
    <3> QED
      BY <3>2, <3>3
  <2>6. Contents(Recording') = Contents(out')
    <3>1. out' \in Seq(Tokens)
      BY DEF IInv, TypeOK
    <3> QED
      BY <2>1, <3>1, ConcatEmpty DEF Recording
  <2>7. AllTokens' = AllTokens \cup {EndDocument}
    BY <2>1, <2>5, <2>6 DEF AllTokens
  <2>8. /\ Drops' = Drops
        /\ \A t \in AllTokens' : t.source <= delivered'
        /\ origin' # Null => \A d \in Drops' : d.source # origin'
        /\ origin' <= delivered'
        /\ OneDragPerPress'
    <3>1. /\ {EndDocument} \in SUBSET Tokens
          /\ \A t \in {EndDocument} : t.token # "drop" /\ t.source = 0
      BY <2>2
    <3>2. origin' = origin /\ delivered' \in {delivered, delivered + 1}
      BY <2>1
    <3> QED
      BY <2>7, <3>1, <3>2, NoDropAdded
  <2>9. ClickLostOnlyToDrop'
    BY <2>1, <2>8 DEF DragInv, ClickLostOnlyToDrop
  <2> QED
    BY <1>0, <2>1, <2>8, <2>9 DEF DragInv
<1> QED
  BY <1>2, <1>3, <1>4, <1>5, <1>6, <1>7, <1>8 DEF Next

(* The presses a recording still has to offer to drops, and the clicks it  *)
(* still has to lose, are as the handlers of MouseButtonPress and Drop     *)
(* need them.                                                              *)
THEOREM DragInvariance == Spec => []DragInv
  BY InitDragInv, NextDragInv, Invariance, PTL DEF Spec

(* Logger::eventFilter resets m_dragOriginWidget at a Drop, so however     *)
(* presses and drops interleave, no two recorded drags start at the same   *)
(* press.                                                                  *)
THEOREM DragCorrect == Spec => []OneDragPerPress
<1>1. DragInv => OneDragPerPress
  BY DEF DragInv
<1> QED
  BY <1>1, DragInvariance, PTL

(* startDragAndDropBuffer never throws a complete click away: a release    *)
(* that left the recording did so for a later dragAndDrop element.         *)
THEOREM ClickCorrect == Spec => []ClickLostOnlyToDrop
<1>1. DragInv => ClickLostOnlyToDrop
  BY DEF DragInv
<1> QED
  BY <1>1, DragInvariance, PTL
=============================================================================
