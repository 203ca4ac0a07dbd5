----------------------------- MODULE ReplyProofs -----------------------------
(***************************************************************************)
(* Proofs about what the two sides of a playback owe each other: a script  *)
(* has at most one request under way, and its one reply arrives while the  *)
(* GUI waits for it.                                                       *)
(***************************************************************************)
EXTENDS PlaybackProofs

(* A sequence has no element of S; at most one; and each element of S at   *)
(* or before one of T.                                                     *)
Without(s, S) == \A i \in DOMAIN s : s[i] \notin S
AtMostOne(s, S) == \A i, j \in DOMAIN s : s[i] \in S /\ s[j] \in S => i = j
Followed(s, S, T) ==
    \A i \in DOMAIN s : s[i] \in S => \E j \in DOMAIN s : i <= j /\ s[j] \in T

(* What the GUI writes and then waits for, and the state it waits in.      *)
Requests == Commands \ {"pick", "PLAY"}
WaitsIn(r) == CASE r \in Events -> "ack"
                [] r = "dump" -> "dump"
                [] r = "eod" -> "ending"
                [] r = "DIE" -> "dying"
                [] OTHER -> "none"

(* Queued Events that belong to a request; the one that ends it; the one   *)
(* that carries it out.                                                    *)
QueueEvents == [type : EventTypes, ack : BOOLEAN]
Work == { e \in QueueEvents : e.type # "pick" }
Acking == { e \in Work : e.ack }
Carrying == { e \in Work : Carries(e) }

Waiting == IF gui = "dump" THEN ~dumped
           ELSE gui \in {"ack", "ending", "dying"} /\ pendingAcks >= 1

(* The three stages of the latest request.  Unread: written, and not read  *)
(* by Player or lost there for good.                                       *)
Unread ==
    /\ Waiting
    /\ issued = performed + 1
    /\ AtMostOne(toApp, Requests)
    /\ \A i \in DOMAIN toApp : toApp[i] \in Requests => gui = WaitsIn(toApp[i])
    /\ Without(queue, Work) /\ timer = "off"
    /\ Without(toGui, Replies \ {"PICKED"})

(* Queued, or asleep: exactly one Event will end it, and nothing of it is  *)
(* left behind that Event.                                                 *)
Queued ==
    /\ Waiting
    /\ gui \in {"ack", "dump"}
    /\ Without(toApp, Requests)
    /\ AtMostOne(queue, Acking)
    /\ AtMostOne(queue, Carrying)
    /\ Followed(queue, Work, Acking)
    /\ \A i \in DOMAIN queue :
           /\ queue[i].type = "flush" => ~queue[i].ack
           /\ queue[i].type = "dump" => queue[i].ack
           /\ queue[i] \in Work => (gui = "dump" <=> queue[i].type = "dump")
    /\ timer = "statement" => Without(queue, Work)
    /\ timer # "off" => gui = "ack"
    /\ issued = IF timer = "statement" \/ ~Without(queue, Carrying)
                THEN performed + 1 ELSE performed
    /\ Without(toGui, {"ACK", "DUMPED"})

(* Carried out: only its reply is on the way, if it was not lost.          *)
Done ==
    /\ issued = performed
    /\ Without(toApp, Requests)
    /\ Without(queue, Work) /\ timer = "off"
    /\ gui = "dying" => app = "quitting"

(* What is on the way to the GUI belongs to the wait the GUI is in.        *)
AwaitedIn(lines) ==
    /\ AtMostOne(lines, {"ACK", "DUMPED"})
    /\ \A i \in DOMAIN lines :
           /\ lines[i] = "ACK" => /\ gui \in {"ack", "ending", "dying"}
                                  /\ pendingAcks >= 1
                                  /\ gui = "dying" => i = Len(lines)
           /\ lines[i] = "DUMPED" => gui = "dump" /\ ~dumped
           /\ lines[i] = "NOTFOUND" =>
                /\ gui = "ack"
                /\ pendingAcks >= 1
                /\ \A j \in DOMAIN lines : lines[j] = "ACK" => i < j
    /\ gui = "dying" /\ pendingAcks = 0 => lines = <<>>

RepliesAwaited == AwaitedIn(toGui)

(* Without a device: nothing is under way.                                 *)
Detached ==
    /\ toGui = <<>>
    /\ Without(toApp, Requests)
    /\ app \in {"starting", "running"} => toApp = <<>>
    /\ doc = "none"
    /\ gui = "attaching" => issued = performed
    /\ gui = "dump" => ~dumped
    /\ gui \notin {"ack", "ending", "dying"}
    /\ attach # "Attached"

ReplyInv ==
    /\ pendingAcks >= 0
    /\ app \in {"none", "quitting", "dead"} => doc = "none"
    /\ app = "dead" => toApp = <<>>
    /\ RepliesAwaited
    /\ ~device => Detached
    /\ device /\ app # "dead" => Unread \/ Queued \/ Done

-----------------------------------------------------------------------------
(* Sequences: what reading, writing and cutting off does to the elements.  *)

(* Reading the first element.                                              *)
LEMMA TailElements ==
    ASSUME NEW T, NEW s \in Seq(T), s # <<>>
    PROVE  /\ Tail(s) \in Seq(T) /\ Len(Tail(s)) = Len(s) - 1
           /\ 1 \in DOMAIN s /\ Head(s) = s[1] /\ Len(s) \in DOMAIN s
           /\ \A i \in DOMAIN Tail(s) :
                i \in Nat /\ i + 1 \in DOMAIN s /\ Tail(s)[i] = s[i + 1]
           /\ \A i \in DOMAIN s : i \in Nat /\ i >= 1 /\ i <= Len(s)
           /\ \A i \in DOMAIN s : i # 1 => i - 1 \in DOMAIN Tail(s)
  BY HeadTailProperties

(* Without, and the first element.                                         *)
LEMMA WithoutTail ==
    ASSUME NEW T, NEW s \in Seq(T), s # <<>>, NEW S
    PROVE  /\ Without(s, S) => Without(Tail(s), S)
           /\ Without(s, S) => Head(s) \notin S
           /\ Head(s) \notin S /\ Without(Tail(s), S) => Without(s, S)
<1>1. Without(s, S) => Without(Tail(s), S) /\ Head(s) \notin S
  BY TailElements DEF Without
<1>2. ASSUME Head(s) \notin S, Without(Tail(s), S), NEW i \in DOMAIN s
      PROVE  s[i] \notin S
  <2>1. CASE i = 1
    BY <1>2, <2>1, TailElements
  <2>2. CASE i # 1
    <3>1. i - 1 \in DOMAIN Tail(s) /\ Tail(s)[i - 1] = s[(i - 1) + 1] /\ i \in Nat
      BY <2>2, TailElements
    <3>2. (i - 1) + 1 = i
      BY <3>1
    <3> QED
      BY <1>2, <3>1, <3>2 DEF Without
  <2> QED
    BY <2>1, <2>2
<1> QED
  BY <1>1, <1>2 DEF Without

(* AtMostOne, and the first element.                                       *)
LEMMA AtMostOneTail ==
    ASSUME NEW T, NEW s \in Seq(T), s # <<>>, NEW S, AtMostOne(s, S)
    PROVE  /\ AtMostOne(Tail(s), S)
           /\ Head(s) \in S => Without(Tail(s), S)
<1>1. ASSUME NEW i \in DOMAIN Tail(s), NEW j \in DOMAIN Tail(s),
             Tail(s)[i] \in S, Tail(s)[j] \in S
      PROVE  i = j
  <2>1. /\ i \in Nat /\ i + 1 \in DOMAIN s /\ s[i + 1] \in S
        /\ j \in Nat /\ j + 1 \in DOMAIN s /\ s[j + 1] \in S
    BY <1>1, TailElements
  <2>2. i + 1 = j + 1
    BY <2>1 DEF AtMostOne
  <2> QED
    BY <2>1, <2>2
<1>2. ASSUME Head(s) \in S, NEW i \in DOMAIN Tail(s), Tail(s)[i] \in S
      PROVE  FALSE
  <2>1. i \in Nat /\ i + 1 \in DOMAIN s /\ s[i + 1] \in S
        /\ 1 \in DOMAIN s /\ s[1] \in S /\ i >= 1
    <3>1. 1 <= i
      BY HeadTailProperties
    <3> QED
      BY <1>2, <3>1, TailElements
  <2>2. i + 1 = 1
    BY <2>1 DEF AtMostOne
  <2> QED
    BY <2>1, <2>2
<1> QED
  BY <1>1, <1>2 DEF AtMostOne, Without

(* Followed, and the first element.                                        *)
LEMMA FollowedTail ==
    ASSUME NEW T, NEW s \in Seq(T), s # <<>>, NEW S, NEW E, Followed(s, S, E)
    PROVE  Followed(Tail(s), S, E)
<1> SUFFICES ASSUME NEW i \in DOMAIN Tail(s), Tail(s)[i] \in S
             PROVE  \E j \in DOMAIN Tail(s) : i <= j /\ Tail(s)[j] \in E
  BY DEF Followed
<1>1. i \in Nat /\ i >= 1 /\ i + 1 \in DOMAIN s /\ s[i + 1] \in S
  <2>1. 1 <= i
    BY HeadTailProperties
  <2> QED
    BY <2>1, TailElements
<1>2. PICK k \in DOMAIN s : i + 1 <= k /\ s[k] \in E
  BY <1>1 DEF Followed
<1>3. k \in Nat /\ k # 1 /\ k - 1 \in DOMAIN Tail(s)
  BY <1>1, <1>2, TailElements
<1>4. (k - 1) + 1 = k /\ i <= k - 1
  BY <1>1, <1>2, <1>3
<1>5. Tail(s)[k - 1] = s[(k - 1) + 1]
  BY <1>3, TailElements
<1> QED
  BY <1>2, <1>3, <1>4, <1>5

(* Behind the one element of E there is nothing that must be followed.     *)
LEMMA NothingBehind ==
    ASSUME NEW T, NEW s \in Seq(T), s # <<>>, NEW S, NEW E,
           Followed(s, S, E), AtMostOne(s, E), Head(s) \in E
    PROVE  Without(Tail(s), S)
<1>1. Followed(Tail(s), S, E) /\ Without(Tail(s), E)
  BY FollowedTail, AtMostOneTail
<1> QED
  BY <1>1 DEF Followed, Without

(* Writing.                                                                *)
LEMMA ConcatElements ==
    ASSUME NEW T, NEW s \in Seq(T), NEW t \in Seq(T)
    PROVE  /\ s \o t \in Seq(T) /\ Len(s \o t) = Len(s) + Len(t)
           /\ Len(s) \in Nat /\ Len(t) \in Nat
           /\ \A i \in DOMAIN (s \o t) :
                /\ i \in Nat /\ i <= Len(s) + Len(t)
                /\ \/ i \in DOMAIN s /\ (s \o t)[i] = s[i] /\ i <= Len(s)
                   \/ /\ i - Len(s) \in DOMAIN t /\ i > Len(s)
                      /\ (s \o t)[i] = t[i - Len(s)]
           /\ \A i \in DOMAIN s : i \in DOMAIN (s \o t) /\ (s \o t)[i] = s[i]
           /\ \A i \in DOMAIN t : /\ i \in Nat /\ i + Len(s) \in DOMAIN (s \o t)
                                  /\ (s \o t)[i + Len(s)] = t[i]
  BY ConcatProperties

(* Without, and what is appended.                                          *)
LEMMA WithoutConcat ==
    ASSUME NEW T, NEW s \in Seq(T), NEW t \in Seq(T), NEW S
    PROVE  Without(s \o t, S) <=> Without(s, S) /\ Without(t, S)
<1>1. Without(s, S) /\ Without(t, S) => Without(s \o t, S)
  BY ConcatElements DEF Without
<1>2. Without(s \o t, S) => Without(s, S) /\ Without(t, S)
  BY ConcatElements DEF Without
<1> QED
  BY <1>1, <1>2

(* AtMostOne, and what is appended.                                        *)
LEMMA AtMostOneConcat ==
    ASSUME NEW T, NEW s \in Seq(T), NEW t \in Seq(T), NEW S,
           \/ Without(s, S) /\ AtMostOne(t, S)
           \/ AtMostOne(s, S) /\ Without(t, S)
    PROVE  AtMostOne(s \o t, S)
<1> SUFFICES ASSUME NEW i \in DOMAIN (s \o t), NEW j \in DOMAIN (s \o t),
                    (s \o t)[i] \in S, (s \o t)[j] \in S
             PROVE  i = j
  BY DEF AtMostOne
<1>1. i \in Nat /\ j \in Nat /\ Len(s) \in Nat
  BY ConcatElements
<1>0. ASSUME NEW k \in DOMAIN (s \o t), (s \o t)[k] \in S
      PROVE  \/ k \in DOMAIN s /\ s[k] \in S
             \/ k - Len(s) \in DOMAIN t /\ t[k - Len(s)] \in S
  BY <1>0, ConcatElements
<1>2. CASE Without(s, S) /\ AtMostOne(t, S)
  <2>1. /\ i - Len(s) \in DOMAIN t /\ t[i - Len(s)] \in S
        /\ j - Len(s) \in DOMAIN t /\ t[j - Len(s)] \in S
    BY <1>0, <1>2 DEF Without
  <2>2. i - Len(s) = j - Len(s)
    BY <1>2, <2>1 DEF AtMostOne
  <2> QED
    BY <1>1, <2>2
<1>3. CASE AtMostOne(s, S) /\ Without(t, S)
  <2>1. i \in DOMAIN s /\ s[i] \in S /\ j \in DOMAIN s /\ s[j] \in S
    BY <1>0, <1>3 DEF Without
  <2> QED
    BY <1>3, <2>1 DEF AtMostOne
<1> QED
  BY <1>2, <1>3

(* Followed, and what is appended.                                         *)
LEMMA FollowedConcat ==
    ASSUME NEW T, NEW s \in Seq(T), NEW t \in Seq(T), NEW S, NEW E,
           Followed(s, S, E), Followed(t, S, E)
    PROVE  Followed(s \o t, S, E)
<1> SUFFICES ASSUME NEW i \in DOMAIN (s \o t), (s \o t)[i] \in S
             PROVE  \E j \in DOMAIN (s \o t) : i <= j /\ (s \o t)[j] \in E
  BY DEF Followed
<1>1. CASE i \in DOMAIN s /\ s[i] \in S
  <2>1. PICK j \in DOMAIN s : i <= j /\ s[j] \in E
    BY <1>1 DEF Followed
  <2> QED
    BY <2>1, ConcatElements
<1>2. CASE i - Len(s) \in DOMAIN t /\ t[i - Len(s)] \in S
  <2>1. PICK j \in DOMAIN t : i - Len(s) <= j /\ t[j] \in E
    BY <1>2 DEF Followed
  <2>2. /\ j + Len(s) \in DOMAIN (s \o t) /\ (s \o t)[j + Len(s)] = t[j]
        /\ j \in Nat /\ i \in Nat /\ Len(s) \in Nat
    BY ConcatElements
  <2>3. i <= j + Len(s)
    BY <2>1, <2>2
  <2> QED
    BY <2>1, <2>2, <2>3
<1>3. \/ i \in DOMAIN s /\ (s \o t)[i] = s[i]
      \/ i - Len(s) \in DOMAIN t /\ (s \o t)[i] = t[i - Len(s)]
  BY ConcatElements
<1> QED
  BY <1>1, <1>2, <1>3

(* Cutting off.                                                            *)
LEMMA PrefixElements ==
    ASSUME NEW T, NEW s \in Seq(T), NEW n \in 0..Len(s)
    PROVE  /\ SubSeq(s, 1, n) \in Seq(T) /\ Len(SubSeq(s, 1, n)) = n
           /\ \A i \in DOMAIN SubSeq(s, 1, n) :
                /\ i \in DOMAIN s /\ SubSeq(s, 1, n)[i] = s[i]
                /\ i \in Nat /\ i <= n
  BY SubSeqProperties

(* The elements of the rest of a sequence.                                 *)
LEMMA SuffixElements ==
    ASSUME NEW T, NEW s \in Seq(T), NEW k \in 1..Len(s)
    PROVE  /\ SubSeq(s, k + 1, Len(s)) \in Seq(T)
           /\ Len(SubSeq(s, k + 1, Len(s))) = Len(s) - k
           /\ \A i \in DOMAIN SubSeq(s, k + 1, Len(s)) :
                /\ i \in Nat /\ i + k \in DOMAIN s /\ i + k # 1
                /\ SubSeq(s, k + 1, Len(s))[i] = s[i + k]
  BY SubSeqProperties

-----------------------------------------------------------------------------
(* The GUI's steps.                                                        *)

(* A GUI that waits for nothing has nothing under way.                     *)
LEMMA NotWaiting ==
    ASSUME Inv, ReplyInv, ~Waiting
    PROVE  /\ device /\ app # "dead" => Done
           /\ Without(toGui, Replies \ {"PICKED"})
<1>1. device /\ app # "dead" => Done
  BY DEF ReplyInv, Unread, Queued
<1>2. ASSUME NEW i \in DOMAIN toGui, toGui[i] \in Replies \ {"PICKED"}
      PROVE  Waiting
  BY <1>2 DEF ReplyInv, RepliesAwaited, AwaitedIn, Waiting, Replies
<1> QED
  BY <1>1, <1>2 DEF Without

(* What is written arrives as it was written, or not at all.               *)
LEMMA SentElements ==
    ASSUME Inv, NEW m \in Commands
    PROVE  /\ m \notin Requests /\ Without(toApp, Requests)
                => Without(Sent(<<m>>), Requests)
           /\ m \notin Requests /\ AtMostOne(toApp, Requests)
                => AtMostOne(Sent(<<m>>), Requests)
           /\ Without(toApp, Requests) => AtMostOne(Sent(<<m>>), Requests)
           /\ \A i \in DOMAIN Sent(<<m>>) :
                Sent(<<m>>)[i] = m \/ \E j \in DOMAIN toApp :
                                          Sent(<<m>>)[i] = toApp[j]
<1>1. toApp \in Seq(Commands) /\ <<m>> \in Seq(Commands)
  BY DEF Inv, TypeOK, LinkTypeOK
<1>2. /\ m \notin Requests => Without(<<m>>, Requests)
      /\ AtMostOne(<<m>>, Requests)
      /\ Without(toApp, Requests) => AtMostOne(toApp, Requests)
  BY DEF Without, AtMostOne
<1>3. CASE app = "dead"
  BY <1>2, <1>3 DEF Sent
<1>4. CASE app # "dead"
  <2>1. Sent(<<m>>) = toApp \o <<m>>
    BY <1>4 DEF Sent
  <2>2. \A i \in DOMAIN (toApp \o <<m>>) :
          (toApp \o <<m>>)[i] = m \/ \E j \in DOMAIN toApp :
                                         (toApp \o <<m>>)[i] = toApp[j]
    BY <1>1, ConcatElements
  <2> QED
    BY <1>1, <1>2, <2>1, <2>2, WithoutConcat, AtMostOneConcat
<1> QED
  BY <1>3, <1>4

(* A request is written: from no request under way to an unread one.       *)
LEMMA RequestWritten ==
    ASSUME Inv, ReplyInv, ~Waiting \/ Disconnected, device, device',
           NEW r \in Requests,
           toApp' = Sent(<<r>>), gui' = WaitsIn(r), issued' = issued + 1,
           IF r = "dump" THEN ~dumped' /\ pendingAcks' = pendingAcks
           ELSE pendingAcks' = pendingAcks + 1,
           toGui' = toGui, app' = app,
           UNCHANGED playerVars
    PROVE  ReplyInv'
<1>0. pendingAcks \in Int /\ r \in Commands /\ app \in AppStates
  BY DEF Inv, TypeOK, GuiTypeOK, LinkTypeOK, Requests
<1>1. Without(toGui, Replies \ {"PICKED"}) /\ toGui \in Seq(Replies)
  <2>1. toGui \in Seq(Replies) /\ Without(<<>>, Replies \ {"PICKED"})
    BY DEF Inv, TypeOK, LinkTypeOK, Without
  <2> QED
    BY <2>1, NotWaiting DEF Disconnected
<1>2. \/ gui' \in {"ack", "ending", "dying"} /\ r # "dump"
      \/ gui' = "dump" /\ r = "dump"
  BY DEF WaitsIn, Requests, Commands, Events
<1>3. Waiting' /\ pendingAcks' >= 0 /\ (gui' = "dying" => pendingAcks' >= 1)
  BY <1>0, <1>2 DEF Waiting, ReplyInv
<1>4. \A i \in DOMAIN toGui : toGui[i] = "PICKED"
  BY <1>1 DEF Without, Replies
<1>5. RepliesAwaited'
  BY <1>3, <1>4 DEF RepliesAwaited, AwaitedIn, AtMostOne
<1>6. CASE app = "dead"
  <2>1. toApp' = <<>> /\ doc' = "none"
    BY <1>6 DEF ReplyInv, Sent, playerVars
  <2> QED
    BY <1>3, <1>5, <1>6, <2>1 DEF ReplyInv
<1>7. CASE app # "dead"
  <2>1. Done
    BY <1>7, NotWaiting DEF Disconnected
  <2>2. AtMostOne(toApp', Requests)
    BY <1>0, <2>1, SentElements DEF Done
  <2>3. \A i \in DOMAIN toApp' : toApp'[i] \in Requests => gui' = WaitsIn(toApp'[i])
    BY <1>0, <2>1, SentElements DEF Done, Without
  <2>4. Unread'
    BY <1>1, <1>3, <2>1, <2>2, <2>3 DEF Unread, Done, playerVars, Without
  <2> QED
    BY <1>3, <1>5, <1>7, <2>4 DEF ReplyInv, playerVars
<1> QED
  BY <1>6, <1>7

(* The steps of a script, ...                                              *)
LEMMA ScriptReplies ==
    ASSUME Inv, ReplyInv, ScriptStep, UNCHANGED playerVars
    PROVE  ReplyInv'
<1>0. /\ {"dump", "eod"} \subseteq Requests /\ Events \subseteq Requests
      /\ \A e \in Events : WaitsIn(e) = "ack" /\ e # "dump"
      /\ WaitsIn("dump") = "dump" /\ WaitsIn("eod") = "ending"
  BY DEF Requests, Commands, Events, WaitsIn
<1>1. ASSUME NEW m \in Modes, RunScript(m) PROVE ReplyInv'
  <2>1. ~Waiting /\ ~Waiting'
    BY <1>1 DEF RunScript, Waiting
  <2>2. UNCHANGED <<toApp, toGui, app, device, pendingAcks, dumped, issued>>
        /\ gui = "idle" /\ gui' = "script" /\ attach' = "NotAttached"
    BY <1>1 DEF RunScript, linkVars
  <2>3. RepliesAwaited'
    BY <2>2 DEF ReplyInv, RepliesAwaited, AwaitedIn
  <2>4. device /\ app # "dead" => Done'
    BY <2>1, <2>2, NotWaiting DEF Done, playerVars
  <2>5. ~device => Detached'
    BY <2>2 DEF ReplyInv, Detached, playerVars
  <2> QED
    BY <2>2, <2>3, <2>4, <2>5 DEF ReplyInv, playerVars
<1>2. ASSUME NEW e \in Events, WriteEvent(e) PROVE ReplyInv'
  <2>1. ~Waiting /\ device
    BY <1>2 DEF WriteEvent, Statement, AtStatement, Waiting, ReplyInv, Detached
  <2> QED
    BY <1>0, <1>2, <2>1, RequestWritten DEF WriteEvent, WriteElement, BeginAck
<1>3. ASSUME FetchProperty PROVE ReplyInv'
  <2>1. ~Waiting /\ gui = "script"
    BY <1>3 DEF FetchProperty, Statement, AtStatement, Waiting
  <2>2. CASE device
    BY <1>0, <1>3, <2>1, <2>2, RequestWritten DEF FetchProperty
  <2>3. CASE ~device
    <3>1. /\ UNCHANGED <<toApp, toGui, app, device, pendingAcks, attach>>
          /\ gui' = "dump" /\ ~dumped'
      BY <1>3, <2>3 DEF FetchProperty
    <3>2. Detached'
      BY <2>3, <3>1 DEF ReplyInv, Detached, playerVars
    <3>3. RepliesAwaited'
      BY <2>3, <3>1, <3>2 DEF RepliesAwaited, AwaitedIn, Detached, AtMostOne
    <3> QED
      BY <2>3, <3>1, <3>2, <3>3 DEF ReplyInv, playerVars
  <2> QED
    BY <2>2, <2>3
<1>4. ASSUME NEW ret, gui = "script", WriteEnd(ret) PROVE ReplyInv'
  <2>1. ~Waiting
    BY <1>4 DEF Waiting
  <2> QED
    BY <1>0, <1>4, <2>1, RequestWritten DEF WriteEnd, BeginAck
<1>5. ASSUME ScriptEndsDetached PROVE ReplyInv'
  <2>1. UNCHANGED <<toApp, toGui, app, device, pendingAcks, dumped, issued, attach>>
        /\ gui = "script" /\ gui' = "idle" /\ ~device
    BY <1>5 DEF ScriptEndsDetached, linkVars
  <2>2. Detached'
    BY <2>1 DEF ReplyInv, Detached, playerVars
  <2>3. RepliesAwaited'
    BY <2>1 DEF ReplyInv, RepliesAwaited, AwaitedIn
  <2> QED
    BY <2>1, <2>2, <2>3 DEF ReplyInv, playerVars
<1> QED
  BY <1>1, <1>2, <1>3, <1>4, <1>5
  DEF ScriptStep, CloseRequested, ScriptEnds, AtStatement

(* ... of the user, ...                                                    *)
LEMMA UserReplies ==
    ASSUME Inv, ReplyInv, UserStep, UNCHANGED playerVars
    PROVE  ReplyInv'
<1>1. UNCHANGED <<toGui, app, gui, attach, device, pendingAcks, dumped, issued>>
  BY DEF UserStep, Breakpoint, Continue, Stop, PickObject, linkVars
<1>2. /\ RepliesAwaited' /\ pendingAcks' >= 0 /\ (Waiting <=> Waiting')
      /\ app' \in {"none", "quitting", "dead"} => doc' = "none"
  BY <1>1 DEF ReplyInv, RepliesAwaited, AwaitedIn, Waiting, playerVars
<1>3. \/ toApp' = toApp
      \/ device /\ toApp' = Sent(<<"pick">>)
  BY DEF UserStep, Breakpoint, Continue, Stop, PickObject, linkVars
<1>4. app = "dead" => toApp' = <<>>
  BY <1>3 DEF ReplyInv, Sent
<1>5. ~device => Detached'
  BY <1>1, <1>3 DEF ReplyInv, Detached, playerVars
<1>6. /\ Without(toApp, Requests) => Without(toApp', Requests)
      /\ AtMostOne(toApp, Requests) => AtMostOne(toApp', Requests)
      /\ \A i \in DOMAIN toApp' : toApp'[i] \in Requests =>
            \E j \in DOMAIN toApp : toApp'[i] = toApp[j]
  <2>1. "pick" \in Commands /\ "pick" \notin Requests
    BY DEF Commands, Requests
  <2> QED
    BY <1>3, <2>1, SentElements
<1>7. Unread => Unread'
  BY <1>1, <1>2, <1>6 DEF Unread, playerVars
<1>8. Queued => Queued'
  BY <1>1, <1>2, <1>6 DEF Queued, playerVars
<1>9. Done => Done'
  BY <1>1, <1>6 DEF Done, playerVars
<1> QED
  BY <1>1, <1>2, <1>4, <1>5, <1>7, <1>8, <1>9 DEF ReplyInv

(* ... the start of an application, ...                                    *)
LEMMA SpawnReplies ==
    ASSUME Inv, ReplyInv, Spawn
    PROVE  ReplyInv'
<1>1. /\ toApp' = <<>> /\ toGui' = <<>> /\ app' = "starting"
      /\ gui' = "attaching" /\ attach' = "WaitingForAttach" /\ issued' = 0
      /\ UNCHANGED <<device, pendingAcks, dumped>>
  BY DEF Spawn, SpawnStep, WriteEventUnattached, ConnectRemoteApplication,
         StartAndWait, SpawnProcess
<1>2. doc' = "none" /\ queue' = <<>> /\ timer' = "off" /\ performed' = 0
  BY DEF Spawn, PlayerReset, NoState
<1>3. RepliesAwaited'
  BY <1>1 DEF RepliesAwaited, AwaitedIn, AtMostOne
<1>4. Done' /\ Detached'
  BY <1>1, <1>2 DEF Done, Detached, Without
<1> QED
  BY <1>1, <1>2, <1>3, <1>4 DEF ReplyInv

(* ... reading what the application wrote, up to and including the k-th    *)
(* reply, ...                                                              *)
LEMMA ReadReplies ==
    ASSUME Inv, ReplyInv, UNCHANGED playerVars, NEW k \in 1..Len(toGui),
           toGui' = SubSeq(toGui, k + 1, Len(toGui)),
           UNCHANGED <<toApp, app, gui, attach, device, issued>>, device,
           \/ toGui[1] = "ACK" /\ k = 1 /\ pendingAcks' = pendingAcks - 1
              /\ UNCHANGED dumped
           \/ /\ toGui[1] \in {"NOTFOUND", "PICKED"}
              /\ UNCHANGED <<pendingAcks, dumped>>
           \/ toGui[1] = "DUMPED" /\ dumped' /\ UNCHANGED pendingAcks
    PROVE  ReplyInv'
<1>0. /\ toGui \in Seq(Replies) /\ pendingAcks \in Int /\ k \in Nat /\ k >= 1
      /\ Len(toGui) \in Nat /\ k <= Len(toGui) /\ 1 \in DOMAIN toGui
  BY DEF Inv, TypeOK, LinkTypeOK, GuiTypeOK
<1>1. /\ Len(toGui') = Len(toGui) - k /\ toGui' \in Seq(Replies)
      /\ \A i \in DOMAIN toGui' : /\ i \in Nat /\ i + k \in DOMAIN toGui
                                  /\ i + k # 1 /\ toGui'[i] = toGui[i + k]
  BY <1>0, SuffixElements
<1>2. /\ AtMostOne(toGui, {"ACK", "DUMPED"})
      /\ AtMostOne(toGui', {"ACK", "DUMPED"})
  <2>1. AtMostOne(toGui, {"ACK", "DUMPED"})
    BY DEF ReplyInv, RepliesAwaited, AwaitedIn
  <2>2. ASSUME NEW i \in DOMAIN toGui', NEW j \in DOMAIN toGui',
               toGui'[i] \in {"ACK", "DUMPED"}, toGui'[j] \in {"ACK", "DUMPED"}
        PROVE  i = j
    <3>1. i + k = j + k
      BY <1>1, <2>1, <2>2 DEF AtMostOne
    <3> QED
      BY <1>0, <1>1, <3>1
  <2> QED
    BY <2>1, <2>2 DEF AtMostOne
<1>3. ASSUME NEW S, Without(toGui, S) PROVE Without(toGui', S)
  BY <1>1, <1>3 DEF Without
<1>4. /\ pendingAcks' >= 0
      /\ toGui[1] # "ACK" => pendingAcks' = pendingAcks
      /\ toGui[1] # "DUMPED" => dumped' = dumped
  BY <1>0 DEF ReplyInv, RepliesAwaited, AwaitedIn
<1>5. RepliesAwaited'
  <2>1. ASSUME NEW i \in DOMAIN toGui', toGui'[i] = "ACK"
        PROVE  /\ gui' \in {"ack", "ending", "dying"} /\ pendingAcks' >= 1
               /\ gui' = "dying" => i = Len(toGui')
    <3>1. i + k \in DOMAIN toGui /\ toGui[i + k] = "ACK" /\ i + k # 1
      BY <1>1, <2>1
    <3>2. toGui[1] # "ACK"
      BY <1>0, <1>2, <3>1 DEF AtMostOne
    <3> QED
      BY <1>0, <1>1, <1>4, <3>1, <3>2 DEF ReplyInv, RepliesAwaited, AwaitedIn
  <2>2. ASSUME NEW i \in DOMAIN toGui', toGui'[i] = "DUMPED"
        PROVE  gui' = "dump" /\ ~dumped'
    <3>1. i + k \in DOMAIN toGui /\ toGui[i + k] = "DUMPED" /\ i + k # 1
      BY <1>1, <2>2
    <3>2. toGui[1] # "DUMPED"
      BY <1>0, <1>2, <3>1 DEF AtMostOne
    <3> QED
      BY <1>4, <3>1, <3>2 DEF ReplyInv, RepliesAwaited, AwaitedIn
  <2>3. ASSUME NEW i \in DOMAIN toGui', toGui'[i] = "NOTFOUND"
        PROVE  /\ gui' = "ack" /\ pendingAcks' >= 1
               /\ \A j \in DOMAIN toGui' : toGui'[j] = "ACK" => i < j
    <3>1. i + k \in DOMAIN toGui /\ toGui[i + k] = "NOTFOUND" /\ i \in Nat
      BY <1>1, <2>3
    <3>2. toGui[1] = "ACK" => i + k < 1
      BY <1>0, <3>1 DEF ReplyInv, RepliesAwaited, AwaitedIn
    <3>3. ASSUME NEW j \in DOMAIN toGui', toGui'[j] = "ACK" PROVE i < j
      <4>1. i + k < j + k /\ j \in Nat
        BY <1>1, <3>1, <3>3 DEF ReplyInv, RepliesAwaited, AwaitedIn
      <4> QED
        BY <1>0, <3>1, <4>1
    <3> QED
      BY <1>0, <1>4, <3>1, <3>2, <3>3 DEF ReplyInv, RepliesAwaited, AwaitedIn
  <2>4. gui' = "dying" /\ pendingAcks' = 0 => toGui' = <<>>
    <3>1. CASE toGui[1] = "ACK"
      BY <1>0, <1>1, <3>1 DEF ReplyInv, RepliesAwaited, AwaitedIn
    <3>2. CASE toGui[1] # "ACK"
      BY <1>0, <1>4, <3>2 DEF ReplyInv, RepliesAwaited, AwaitedIn
    <3> QED
      BY <3>1, <3>2
  <2> QED
    BY <1>2, <2>1, <2>2, <2>3, <2>4 DEF RepliesAwaited, AwaitedIn
<1>6. Unread => Unread'
  <2>1. ASSUME Unread PROVE toGui[1] = "PICKED"
    BY <1>0, <2>1 DEF Unread, Without, Replies
  <2> QED
    BY <1>3, <1>4, <2>1 DEF Unread, Waiting, playerVars
<1>7. Queued => Queued'
  <2>1. ASSUME Queued PROVE toGui[1] \in {"PICKED", "NOTFOUND"}
    BY <1>0, <2>1 DEF Queued, Without, Replies
  <2> QED
    BY <1>3, <1>4, <2>1 DEF Queued, Waiting, playerVars
<1>8. Done => Done'
  BY DEF Done, playerVars
<1> QED
  BY <1>4, <1>5, <1>6, <1>7, <1>8 DEF ReplyInv, playerVars

(* ... and whatever else the GUI's event loops do.                         *)
LEMMA LoopReplies ==
    ASSUME Inv, ReplyInv, GuiLoopStep, UNCHANGED playerVars
    PROVE  ReplyInv'
<1>0. /\ "PLAY" \in Commands /\ "PLAY" \notin Requests /\ "DIE" \in Requests
      /\ Events \subseteq Requests
      /\ \A e \in Events : WaitsIn(e) = "ack" /\ e # "dump"
      /\ WaitsIn("DIE") = "dying"
      /\ toGui \in Seq(Replies) /\ next \in Events \cup {"none"}
      /\ AppInv
  BY DEF Requests, Commands, Events, WaitsIn, Inv, TypeOK, LinkTypeOK, GuiTypeOK
<1>1. CASE SetSocket
  <2>1. /\ gui = "attaching" /\ pendingAcks' = 0 /\ device' /\ attach' = "Attached"
        /\ toApp' = Sent(<<"PLAY">>)
        /\ UNCHANGED <<toGui, app, gui, dumped, issued>>
    BY <1>1 DEF SetSocket
  <2>2. Without(toGui, Replies \ {"PICKED"})
    BY <2>1, NotWaiting DEF Waiting
  <2>3. RepliesAwaited'
    <3>1. \A i \in DOMAIN toGui : toGui[i] = "PICKED"
      BY <1>0, <2>2 DEF Without, Replies
    <3> QED
      BY <2>1, <3>1 DEF RepliesAwaited, AwaitedIn, AtMostOne
  <2>4. app = "dead" => toApp' = <<>>
    BY <2>1 DEF ReplyInv, Sent
  <2>5. ASSUME app # "dead" PROVE Done
    <3>1. CASE device
      BY <2>1, <2>5, <3>1, NotWaiting DEF Waiting
    <3>2. CASE ~device
      <4>1. /\ issued = performed /\ Without(toApp, Requests) /\ doc = "none"
        BY <2>1, <3>2 DEF ReplyInv, Detached
      <4>2. queue = <<>> /\ timer = "off"
        BY <1>0, <4>1 DEF AppInv
      <4> QED
        BY <2>1, <4>1, <4>2 DEF Done, Without
    <3> QED
      BY <3>1, <3>2
  <2>6. app # "dead" => Done'
    <3>1. ASSUME app # "dead" PROVE Without(toApp', Requests)
      BY <1>0, <2>1, <2>5, <3>1, SentElements DEF Done
    <3> QED
      BY <2>1, <2>5, <3>1 DEF Done, playerVars
  <2> QED
    BY <2>1, <2>3, <2>4, <2>6 DEF ReplyInv, playerVars
<1>2. ASSUME NEW line, NEW rest, ReadLine(line, rest),
             \E k \in 1..Len(toGui) : rest = SubSeq(toGui, k + 1, Len(toGui))
      PROVE  /\ toGui[1] = line /\ toGui' = rest /\ device
             /\ UNCHANGED <<toApp, app, gui, attach, device, issued>>
  BY <1>0, <1>2, TailElements DEF ReadLine
<1>3. toGui # <<>> => Tail(toGui) = SubSeq(toGui, 1 + 1, Len(toGui))
                     /\ 1 \in 1..Len(toGui)
  BY <1>0, TailIsSubSeq
<1>4. CASE ReadAck
  BY <1>2, <1>3, <1>4, ReadReplies DEF ReadAck, ReadLine
<1>5. CASE ReadNotFound
  BY <1>2, <1>3, <1>5, ReadReplies DEF ReadNotFound, ReadLine
<1>6. ASSUME NEW k \in 1..Len(toGui), ReadPicked(k) PROVE ReplyInv'
  <2>1. ReadLine("PICKED", SubSeq(toGui, k + 1, Len(toGui)))
    BY <1>6 DEF ReadPicked, ReadDocument
  <2>2. /\ toGui[1] = "PICKED" /\ toGui' = SubSeq(toGui, k + 1, Len(toGui))
        /\ device /\ UNCHANGED <<toApp, app, gui, attach, device, issued>>
    BY <1>2, <2>1
  <2>3. UNCHANGED pendingAcks /\ UNCHANGED dumped
    BY <1>6 DEF ReadPicked, ReadDocument
  <2> QED
    BY <2>2, <2>3, ReadReplies
<1>7. ASSUME NEW k \in 1..Len(toGui), ReadDumped(k) PROVE ReplyInv'
  <2>1. ReadLine("DUMPED", SubSeq(toGui, k + 1, Len(toGui)))
    BY <1>7 DEF ReadDumped, ReadDocument
  <2>2. /\ toGui[1] = "DUMPED" /\ toGui' = SubSeq(toGui, k + 1, Len(toGui))
        /\ device /\ UNCHANGED <<toApp, app, gui, attach, device, issued>>
    BY <1>2, <2>1
  <2>3. UNCHANGED pendingAcks /\ dumped'
    BY <1>7 DEF ReadDumped, ReadDocument
  <2> QED
    BY <2>2, <2>3, ReadReplies
<1>8. CASE Attached
  <2>1. gui = "attaching" /\ ~Waiting /\ device /\ device' /\ attach = "Attached"
    BY <1>8 DEF Attached, Waiting, ReplyInv, Detached
  <2>2. CASE next # "none"
    <3>1. next \in Events
      BY <1>0, <2>2
    <3>2. toApp' = Sent(<<next>>) /\ gui' = "ack" /\ issued' = issued + 1
          /\ pendingAcks' = pendingAcks + 1 /\ UNCHANGED <<toGui, app>>
      BY <1>8, <2>2 DEF Attached, WriteElement, BeginAck
    <3> QED
      BY <1>0, <2>1, <3>1, <3>2, RequestWritten
  <2>3. CASE next = "none"
    <3>1. UNCHANGED <<toApp, toGui, app, attach, device, pendingAcks, dumped,
                      issued>> /\ gui' = "script"
      BY <1>8, <2>3 DEF Attached
    <3>2. RepliesAwaited'
      BY <2>1, <3>1 DEF ReplyInv, RepliesAwaited, AwaitedIn
    <3>3. app # "dead" => Done'
      BY <2>1, <3>1, NotWaiting DEF Done, playerVars
    <3> QED
      BY <2>1, <3>1, <3>2, <3>3 DEF ReplyInv, playerVars
  <2> QED
    BY <2>2, <2>3
<1>9. ASSUME ~Waiting \/ Disconnected, device, gui' = "script", device',
             UNCHANGED <<linkVars, pendingAcks, dumped, issued>>
      PROVE  ReplyInv'
  <2>1. Without(toGui, Replies \ {"PICKED"})
    <3>1. Without(<<>>, Replies \ {"PICKED"})
      BY DEF Without
    <3> QED
      BY <1>9, <3>1, NotWaiting DEF Disconnected
  <2>2. RepliesAwaited'
    <3>1. \A i \in DOMAIN toGui : toGui[i] = "PICKED"
      BY <1>0, <2>1 DEF Without, Replies
    <3> QED
      BY <1>9, <3>1 DEF RepliesAwaited, AwaitedIn, AtMostOne, linkVars
  <2>3. app # "dead" => Done'
    BY <1>9, NotWaiting DEF Done, playerVars, linkVars, Disconnected
  <2> QED
    BY <1>9, <2>2, <2>3 DEF ReplyInv, playerVars, linkVars
<1>10. CASE AckReturns
  <2>1. ~Waiting \/ Disconnected
    BY <1>10 DEF AckReturns, AckWaitOver, Acked, Waiting
  <2>2. device
    BY <1>10 DEF AckReturns, ReplyInv, Detached
  <2> QED
    BY <1>9, <1>10, <2>1, <2>2 DEF AckReturns
<1>11. CASE DumpReturns
  <2>1. ~Waiting
    BY <1>11 DEF DumpReturns, Waiting
  <2>2. device
    BY <1>11 DEF DumpReturns, ReplyInv, Detached
  <2> QED
    BY <1>9, <1>11, <2>1, <2>2 DEF DumpReturns
<1>12. CASE WriteDie
  <2>1. ~Waiting \/ Disconnected
    BY <1>12 DEF WriteDie, AckWaitOver, Acked, Waiting
  <2>2. device /\ device'
    BY <1>12 DEF WriteDie, ReplyInv, Detached
  <2>3. "DIE" # "dump"
    OBVIOUS
  <2> QED
    BY <1>0, <1>12, <2>1, <2>2, <2>3, RequestWritten DEF WriteDie, BeginAck
<1>13. CASE Closed
  <2>1. /\ gui = "dying" /\ device /\ ~device' /\ attach' = "NotAttached"
        /\ gui' \in {"script", "idle"} /\ UNCHANGED <<linkVars, pendingAcks>>
    BY <1>13 DEF Closed, ReplyInv, Detached, Inv, TypeOK, GuiTypeOK
  <2>2. ~Waiting \/ Disconnected
    BY <1>13 DEF Closed, AckWaitOver, Acked, Waiting
  <2>3. toGui = <<>>
    BY <1>13
    DEF Closed, AckWaitOver, Acked, Disconnected, ReplyInv, RepliesAwaited,
        AwaitedIn
  <2>4. app \in {"quitting", "dead"} /\ Without(toApp, Requests)
    <3>1. CASE app = "dead"
      BY <3>1 DEF ReplyInv, Without
    <3>2. CASE app # "dead"
      BY <2>1, <2>2, <3>2, NotWaiting DEF Disconnected, Done
    <3> QED
      BY <3>1, <3>2
  <2>5. Detached'
    BY <2>1, <2>3, <2>4 DEF Detached, ReplyInv, linkVars, playerVars
  <2>6. RepliesAwaited'
    BY <2>1, <2>3 DEF RepliesAwaited, AwaitedIn, AtMostOne, linkVars
  <2> QED
    BY <2>1, <2>5, <2>6 DEF ReplyInv, linkVars, playerVars
<1> QED
  BY <1>1, <1>4, <1>5, <1>6, <1>7, <1>8, <1>10, <1>11, <1>12, <1>13
  DEF GuiLoopStep

-----------------------------------------------------------------------------
(* The application's steps.                                                *)

(* One more reply that the GUI waits for.                                  *)
LEMMA ReplyAppended ==
    ASSUME NEW lines \in Seq(Replies), AwaitedIn(lines), NEW m \in Replies,
           pendingAcks \in Int, pendingAcks >= 0,
           gui = "dying" => pendingAcks >= 1 /\ Without(lines, {"ACK"}),
           \/ m = "PICKED"
           \/ /\ m = "ACK" /\ gui \in {"ack", "ending", "dying"}
              /\ pendingAcks >= 1 /\ Without(lines, {"ACK", "DUMPED"})
           \/ /\ m = "NOTFOUND" /\ gui = "ack" /\ pendingAcks >= 1
              /\ Without(lines, {"ACK"})
           \/ /\ m = "DUMPED" /\ gui = "dump" /\ ~dumped
              /\ Without(lines, {"ACK", "DUMPED"})
    PROVE  AwaitedIn(lines \o <<m>>)
<1> DEFINE all == lines \o <<m>>
<1>0. <<m>> \in Seq(Replies) /\ Len(<<m>>) = 1
  OBVIOUS
<1>1. /\ all \in Seq(Replies) /\ Len(all) = Len(lines) + 1 /\ Len(lines) \in Nat
      /\ \A i \in DOMAIN all :
            /\ i \in Nat /\ i <= Len(lines) + 1
            /\ \/ i \in DOMAIN lines /\ all[i] = lines[i] /\ i <= Len(lines)
               \/ i = Len(lines) + 1 /\ all[i] = m
  <2>1. \A j \in DOMAIN <<m>> : j = 1 /\ <<m>>[j] = m
    OBVIOUS
  <2> QED
    BY <1>0, <2>1, ConcatElements
<1> HIDE DEF all
<1>2. AtMostOne(all, {"ACK", "DUMPED"})
  <2>1. AtMostOne(<<m>>, {"ACK", "DUMPED"}) /\ AtMostOne(lines, {"ACK", "DUMPED"})
    BY DEF AtMostOne, AwaitedIn
  <2>2. m \notin {"ACK", "DUMPED"} => Without(<<m>>, {"ACK", "DUMPED"})
    BY DEF Without
  <2> QED
    BY <1>0, <2>1, <2>2, AtMostOneConcat DEF all
<1>3. ASSUME NEW i \in DOMAIN all, all[i] = "ACK"
      PROVE  /\ gui \in {"ack", "ending", "dying"} /\ pendingAcks >= 1
             /\ gui = "dying" => i = Len(all)
  BY <1>1, <1>3 DEF AwaitedIn, Without
<1>4. ASSUME NEW i \in DOMAIN all, all[i] = "DUMPED"
      PROVE  gui = "dump" /\ ~dumped
  BY <1>1, <1>4 DEF AwaitedIn
<1>5. ASSUME NEW i \in DOMAIN all, all[i] = "NOTFOUND"
      PROVE  /\ gui = "ack" /\ pendingAcks >= 1
             /\ \A j \in DOMAIN all : all[j] = "ACK" => i < j
  <2>1. gui = "ack" /\ pendingAcks >= 1
    BY <1>1, <1>5 DEF AwaitedIn
  <2>2. ASSUME NEW j \in DOMAIN all, all[j] = "ACK" PROVE i < j
    BY <1>1, <1>5, <2>2 DEF AwaitedIn, Without
  <2> QED
    BY <2>1, <2>2
<1>6. ~(gui = "dying" /\ pendingAcks = 0)
  OBVIOUS
<1> QED
  BY <1>2, <1>3, <1>4, <1>5, <1>6 DEF AwaitedIn, all

(* The replies stay awaited while the GUI does nothing.                    *)
LEMMA StillAwaited ==
    ASSUME UNCHANGED guiVars, NEW lines, AwaitedIn(lines), toGui' = lines
    PROVE  RepliesAwaited'
  BY DEF guiVars, RepliesAwaited, AwaitedIn

(* Where the library has anything to do, the GUI has its device.           *)
LEMMA LibraryAtWork ==
    ASSUME Inv, ReplyInv, Running,
           \/ toApp # <<>> \/ doc # "none" \/ stack # <<>> \/ timer # "off"
           \/ pickMode
    PROVE  /\ device
           /\ Unread \/ Queued \/ Done
           /\ gui = "dying" => Unread /\ pendingAcks >= 1 /\ Without(toGui, {"ACK"})
<1>1. device
  BY DEF ReplyInv, Detached, Running, Inv, AppInv
<1>2. Unread \/ Queued \/ Done
  BY <1>1 DEF ReplyInv, Running
<1>3. gui = "dying" => Unread
  BY <1>2 DEF Queued, Done, Running
<1>4. Unread => Without(toGui, {"ACK"})
  BY DEF Unread, Without, Replies
<1>5. gui = "dying" /\ Unread => pendingAcks >= 1
  BY DEF Unread, Waiting
<1> QED
  BY <1>1, <1>2, <1>3, <1>4, <1>5

(* What is left to show for a step of a library that is at work.           *)
LEMMA StageKept ==
    ASSUME Inv, ReplyInv, UNCHANGED guiVars, device,
           app' # "dead", app' \in {"none", "quitting"} => doc' = "none",
           RepliesAwaited', Unread' \/ Queued' \/ Done'
    PROVE  ReplyInv'
  BY DEF ReplyInv, guiVars

(* A step that neither reads, writes nor dequeues.                         *)
LEMMA QuietStep ==
    ASSUME Inv, ReplyInv, UNCHANGED guiVars, Running,
           UNCHANGED <<toApp, toGui, app, queue, timer, performed>>,
           doc = "none" => doc' = "none"
    PROVE  ReplyInv'
<1>1. RepliesAwaited'
  BY StillAwaited DEF ReplyInv, RepliesAwaited
<1>2. Waiting <=> Waiting'
  BY DEF Waiting, guiVars
<1>3. Unread => Unread'
  BY <1>2 DEF Unread, guiVars
<1>4. Queued => Queued'
  BY <1>2 DEF Queued, guiVars
<1>5. Done => Done'
  BY DEF Done, guiVars
<1>6. ~device => Detached'
  BY DEF ReplyInv, Detached, guiVars
<1> QED
  BY <1>1, <1>3, <1>4, <1>5, <1>6 DEF ReplyInv, guiVars, Running

(* The process ends, with or without the replies it has not sent.          *)
LEMMA GoneReplies ==
    ASSUME Inv, ReplyInv, UNCHANGED guiVars, PlayerGone,
           NEW n \in 0..Len(toGui), toGui' = SubSeq(toGui, 1, n)
    PROVE  ReplyInv'
<1>0. toGui \in Seq(Replies) /\ Len(toGui) \in Nat
  BY DEF Inv, TypeOK, LinkTypeOK
<1> DEFINE sent == SubSeq(toGui, 1, n)
<1>1. /\ sent \in Seq(Replies) /\ Len(sent) = n
      /\ \A i \in DOMAIN sent : /\ i \in DOMAIN toGui /\ sent[i] = toGui[i]
                                /\ i \in Nat /\ i <= n
  BY <1>0, PrefixElements
<1> HIDE DEF sent
<1>2. AwaitedIn(toGui)
  BY DEF ReplyInv, RepliesAwaited
<1>3. AtMostOne(sent, {"ACK", "DUMPED"})
  BY <1>1, <1>2 DEF AwaitedIn, AtMostOne
<1>4. ASSUME NEW i \in DOMAIN sent, sent[i] = "ACK", gui = "dying"
      PROVE  i = Len(sent)
  <2>1. i = Len(toGui) /\ i <= n /\ n <= Len(toGui)
    BY <1>0, <1>1, <1>2, <1>4 DEF AwaitedIn
  <2> QED
    BY <1>0, <1>1, <2>1
<1>5. gui = "dying" /\ pendingAcks = 0 => sent = <<>>
  BY <1>0, <1>1, <1>2 DEF AwaitedIn
<1>6. AwaitedIn(sent)
  BY <1>1, <1>2, <1>3, <1>4, <1>5 DEF AwaitedIn
<1>7. RepliesAwaited'
  BY <1>6, StillAwaited DEF sent
<1>8. toApp' = <<>> /\ app' = "dead" /\ doc' = "none" /\ UNCHANGED performed
  BY DEF PlayerGone, NoState
<1>9. ~device => Detached'
  <2>1. ASSUME ~device PROVE toGui' = <<>>
    <3>1. toGui = <<>>
      BY <2>1 DEF ReplyInv, Detached
    <3> QED
      BY <1>0, <1>1, <3>1 DEF sent
  <2> QED
    BY <1>8, <2>1 DEF ReplyInv, Detached, Without, guiVars
<1> QED
  BY <1>7, <1>8, <1>9 DEF ReplyInv, guiVars

(* Replies when the application aborts.                                    *)
LEMMA AbortReplies ==
    ASSUME Inv, ReplyInv, UNCHANGED guiVars, Aborts
    PROVE  ReplyInv'
  BY GoneReplies DEF Aborts

(* A drag and drop is ended by its last Event and carried out by its drop. *)
LEMMA DragAndDropShape ==
    /\ DragAndDropEvents \in Seq(QueueEvents)
    /\ \A i \in DOMAIN DragAndDropEvents :
          /\ i \in 1..11
          /\ DragAndDropEvents[i].type \in EventTypes \ {"dump", "pick"}
          /\ DragAndDropEvents[i].ack <=> i = 11
          /\ DragAndDropEvents[i].type = "drop" <=> i = 9
          /\ i = 11 => DragAndDropEvents[i].type = "ack"
    /\ {9, 11} \subseteq DOMAIN DragAndDropEvents
<1>1. \A t \in EventTypes :
        /\ WithAck(t) \in QueueEvents /\ WithAck(t).type = t /\ WithAck(t).ack
        /\ WithoutAck(t) \in QueueEvents /\ WithoutAck(t).type = t
        /\ ~WithoutAck(t).ack
  BY DEF WithAck, WithoutAck, QueueEvents
<1>2. {"flush", "focus", "input", "sleep", "drop", "ack"}
        \subseteq EventTypes \ {"dump", "pick"}
  BY DEF EventTypes
<1>3. /\ WithoutAck("flush") \in QueueEvents /\ WithoutAck("focus") \in QueueEvents
      /\ WithoutAck("input") \in QueueEvents /\ WithoutAck("sleep") \in QueueEvents
      /\ WithoutAck("drop") \in QueueEvents /\ WithAck("ack") \in QueueEvents
  BY <1>1, <1>2
<1> DEFINE d == DragAndDropEvents
<1>4. d \in Seq(QueueEvents)
  BY <1>3 DEF DragAndDropEvents
<1>5. /\ DOMAIN d = 1..11
      /\ d[1] = WithoutAck("flush") /\ d[2] = WithoutAck("focus")
      /\ d[3] = WithoutAck("flush") /\ d[4] = WithoutAck("input")
      /\ d[5] = WithoutAck("input") /\ d[6] = WithoutAck("sleep")
      /\ d[7] = WithoutAck("input") /\ d[8] = WithoutAck("input")
      /\ d[9] = WithoutAck("drop") /\ d[10] = WithoutAck("flush")
      /\ d[11] = WithAck("ack")
  BY DEF DragAndDropEvents
<1> HIDE DEF d
<1>6. ASSUME NEW i \in DOMAIN d
      PROVE  /\ i \in 1..11 /\ d[i].type \in EventTypes \ {"dump", "pick"}
             /\ d[i].ack <=> i = 11
             /\ d[i].type = "drop" <=> i = 9
             /\ i = 11 => d[i].type = "ack"
  <2>1. i \in {1, 2, 3, 4, 5, 6, 7, 8, 9, 10, 11}
    BY <1>5, <1>6
  <2>2. ASSUME NEW t \in {"flush", "focus", "input", "sleep"}, d[i] = WithoutAck(t),
               i \notin {9, 11}
        PROVE  /\ i \in 1..11 /\ d[i].type \in EventTypes \ {"dump", "pick"}
               /\ ~d[i].ack /\ i # 11
               /\ d[i].type # "drop" /\ i # 9
    BY <1>1, <1>2, <2>1, <2>2
  <2>3. i \notin {9, 11} =>
          \E t \in {"flush", "focus", "input", "sleep"} : d[i] = WithoutAck(t)
    BY <1>5, <2>1
  <2>4. CASE i = 9
    BY <1>1, <1>2, <1>5, <2>4
  <2>5. CASE i = 11
    BY <1>1, <1>2, <1>5, <2>5
  <2> QED
    BY <2>2, <2>3, <2>4, <2>5
<1> QED
  BY <1>4, <1>5, <1>6 DEF d

(* What handleElement queues for one element.                              *)
QueuedFor(q, wait) ==
    /\ AtMostOne(q, Acking)
    /\ AtMostOne(q, Carrying)
    /\ ~Without(q, Carrying)
    /\ Followed(q, Work, Acking)
    /\ \A i \in DOMAIN q :
          /\ q[i].type = "flush" => ~q[i].ack
          /\ q[i].type = "dump" => q[i].ack
          /\ q[i] \in Work => (wait = "dump" <=> q[i].type = "dump")

(* What is queued for one element.                                         *)
LEMMA QueuedShape ==
    ASSUME NEW e \in Elements
    PROVE  /\ QueuedAs(e) \in Seq(QueueEvents)
           /\ e = "pick" => /\ Without(QueuedAs(e), Work)
                            /\ \A i \in DOMAIN QueuedAs(e) :
                                  QueuedAs(e)[i].type = "pick"
           /\ e # "pick" => QueuedFor(QueuedAs(e), WaitsIn(e))
<1>1. CASE e = "dnd"
  <2> DEFINE d == DragAndDropEvents
  <2>1. QueuedAs(e) = d /\ e # "pick" /\ WaitsIn(e) = "ack"
    BY <1>1 DEF QueuedAs, WaitsIn, Events
  <2>2. /\ d \in Seq(QueueEvents)
        /\ \A i \in DOMAIN d :
              /\ i \in 1..11 /\ d[i].type \in EventTypes \ {"dump", "pick"}
              /\ d[i].ack <=> i = 11
              /\ d[i].type = "drop" <=> i = 9
              /\ i = 11 => d[i].type = "ack"
        /\ 9 \in DOMAIN d /\ 11 \in DOMAIN d
    BY DragAndDropShape
  <2> HIDE DEF d
  <2>3. \A i \in DOMAIN d : d[i] \in QueueEvents /\ d[i] \in Work
    BY <2>2, ElementOfSeq DEF Work
  <2>4. \A i \in DOMAIN d : (d[i] \in Acking <=> i = 11)
                          /\ (d[i] \in Carrying <=> i = 9)
    BY <2>2, <2>3 DEF Acking, Carrying, Carries
  <2>5. AtMostOne(d, Acking) /\ AtMostOne(d, Carrying) /\ ~Without(d, Carrying)
    BY <2>2, <2>4 DEF AtMostOne, Without
  <2>6. Followed(d, Work, Acking)
    BY <2>2, <2>4 DEF Followed
  <2>7. QueuedFor(d, "ack")
    BY <2>2, <2>5, <2>6 DEF QueuedFor
  <2> QED
    BY <2>1, <2>2, <2>7
<1>2. CASE e # "dnd"
  <2> DEFINE q == << WithAck(e) >>
  <2>1. QueuedAs(e) = q
    BY <1>2 DEF QueuedAs
  <2>2. e \in EventTypes \ {"flush", "ack", "drop"}
    BY <1>2 DEF Elements, Events, EventTypes
  <2>3. WithAck(e) \in QueueEvents /\ WithAck(e).type = e /\ WithAck(e).ack
    BY <2>2 DEF WithAck, QueueEvents
  <2>4. q \in Seq(QueueEvents) /\ DOMAIN q = {1} /\ q[1] = WithAck(e)
    BY <2>3
  <2> HIDE DEF q
  <2>5. e = "pick" => Without(q, Work) /\ \A i \in DOMAIN q : q[i].type = "pick"
    BY <2>3, <2>4 DEF Without, Work
  <2>6. e # "pick" => WithAck(e) \in Work /\ WithAck(e) \in Acking
                      /\ WithAck(e) \in Carrying
    BY <2>2, <2>3 DEF Work, Acking, Carrying, Carries
  <2>7. e # "pick" => (WaitsIn(e) = "dump" <=> e = "dump")
    BY DEF WaitsIn, Elements, Events
  <2>8. e # "pick" => QueuedFor(q, WaitsIn(e))
    BY <2>2, <2>3, <2>4, <2>6, <2>7
    DEF QueuedFor, AtMostOne, Without, Followed
  <2> QED
    BY <2>1, <2>4, <2>5, <2>8
<1> QED
  BY <1>1, <1>2

(* Reading one more message of the GUI.                                    *)
LEMMA MessageRead ==
    ASSUME Inv, toApp # <<>>
    PROVE  /\ Head(toApp) \in Commands /\ Head(toApp) = toApp[1] /\ 1 \in DOMAIN toApp
           /\ Without(toApp, Requests) => Without(Tail(toApp), Requests)
           /\ Without(toApp, Requests) => Head(toApp) \notin Requests
           /\ AtMostOne(toApp, Requests) => AtMostOne(Tail(toApp), Requests)
           /\ AtMostOne(toApp, Requests) /\ Head(toApp) \in Requests
                => Without(Tail(toApp), Requests)
           /\ \A i \in DOMAIN Tail(toApp) :
                \E j \in DOMAIN toApp : Tail(toApp)[i] = toApp[j]
<1>1. toApp \in Seq(Commands)
  BY DEF Inv, TypeOK, LinkTypeOK
<1>2. /\ Head(toApp) \in Commands /\ Head(toApp) = toApp[1] /\ 1 \in DOMAIN toApp
      /\ \A i \in DOMAIN Tail(toApp) : i + 1 \in DOMAIN toApp
                                       /\ Tail(toApp)[i] = toApp[i + 1]
  BY <1>1, TailElements, HeadAndTail
<1>3. /\ Without(toApp, Requests) => Without(Tail(toApp), Requests)
      /\ Without(toApp, Requests) => Head(toApp) \notin Requests
  BY <1>1, WithoutTail
<1>4. AtMostOne(toApp, Requests) =>
        /\ AtMostOne(Tail(toApp), Requests)
        /\ Head(toApp) \in Requests => Without(Tail(toApp), Requests)
  BY <1>1, AtMostOneTail
<1> QED
  BY <1>2, <1>3, <1>4

(* A request that is being read was not read before.                       *)
LEMMA RequestUnread ==
    ASSUME Inv, ReplyInv, Running, toApp # <<>>, Head(toApp) \in Requests
    PROVE  device /\ Unread /\ gui = WaitsIn(Head(toApp))
<1>1. device /\ (Unread \/ Queued \/ Done)
  BY LibraryAtWork
<1>2. ~Without(toApp, Requests)
  BY MessageRead
<1>3. Unread
  BY <1>1, <1>2 DEF Queued, Done
<1> QED
  BY <1>1, <1>3, MessageRead DEF Unread

(* The end of a document, or of the application: the reply is written in   *)
(* the same step.                                                          *)
LEMMA ClosingRead ==
    ASSUME Inv, ReplyInv, UNCHANGED guiVars, Running, toApp # <<>>,
           Head(toApp) \in {"eod", "DIE"},
           toApp' = Tail(toApp), performed' = performed + 1,
           UNCHANGED <<queue, timer>>,
           NEW flag \in BOOLEAN, toGui' = toGui \o AckLine(flag),
           \/ app' = "running" /\ Head(toApp) = "eod"
           \/ app' = "quitting" /\ doc' = "none"
    PROVE  ReplyInv'
<1>0. /\ toGui \in Seq(Replies) /\ pendingAcks \in Int /\ issued \in Nat
      /\ performed \in Nat
  BY DEF Inv, TypeOK, LinkTypeOK, GuiTypeOK, PlayerTypeOK
<1>1. Head(toApp) \in Requests
  BY DEF Requests, Commands
<1>2. device /\ Unread /\ gui = WaitsIn(Head(toApp))
  BY <1>1, RequestUnread
<1>3. /\ gui \in {"ending", "dying"} /\ pendingAcks >= 1
      /\ gui = "dying" <=> Head(toApp) = "DIE"
  BY <1>2 DEF WaitsIn, Events, Unread, Waiting
<1>4. Without(toGui, {"ACK", "DUMPED"}) /\ Without(toGui, {"ACK"})
  BY <1>2 DEF Unread, Without, Replies
<1>5. AwaitedIn(toGui)
  BY DEF ReplyInv, RepliesAwaited
<1>6. AwaitedIn(toGui \o AckLine(flag))
  <2>1. CASE flag
    <3>1. AckLine(flag) = <<"ACK">> /\ "ACK" \in Replies
      BY <2>1 DEF AckLine, Replies
    <3> QED
      BY <1>0, <1>3, <1>4, <1>5, <3>1, ReplyAppended
  <2>2. CASE ~flag
    <3>1. AckLine(flag) = <<>> /\ toGui \o <<>> = toGui
      BY <1>0, <2>2, ConcatEmptySeq DEF AckLine
    <3> QED
      BY <1>5, <3>1
  <2> QED
    BY <2>1, <2>2
<1>7. RepliesAwaited'
  BY <1>6, StillAwaited
<1>8. Without(toApp', Requests)
  BY <1>1, <1>2, MessageRead DEF Unread
<1>9. Done'
  BY <1>0, <1>2, <1>3, <1>8 DEF Unread, Done, guiVars
<1> QED
  BY <1>2, <1>7, <1>9, StageKept

(* Marshall::readCommand.                                                  *)
LEMMA ReadCommandReplies ==
    ASSUME Inv, ReplyInv, UNCHANGED guiVars, Running, toApp # <<>>,
           queue = <<>>, timer = "off", NEW below, ReadCommand(below)
    PROVE  ReplyInv'
<1>0. device /\ (Unread \/ Queued \/ Done) /\ toGui \in Seq(Replies)
  BY LibraryAtWork DEF Inv, TypeOK, LinkTypeOK
<1>1. CASE Head(toApp) = "PLAY"
  <2>1. /\ queue' = <<>> /\ timer' = "off" /\ toApp' = Tail(toApp)
        /\ UNCHANGED <<toGui, app, performed>>
    BY <1>1 DEF ReadCommand
  <2>2. RepliesAwaited'
    BY <2>1, StillAwaited DEF ReplyInv, RepliesAwaited
  <2>3. Waiting <=> Waiting'
    BY DEF Waiting, guiVars
  <2>4. Unread => Unread'
    BY <2>1, <2>3, MessageRead DEF Unread, guiVars
  <2>5. Queued => Queued'
    BY <2>1, <2>3, MessageRead DEF Queued, guiVars
  <2>6. Done => Done'
    BY <2>1, MessageRead DEF Done, guiVars
  <2> QED
    BY <1>0, <2>1, <2>2, <2>4, <2>5, <2>6, StageKept DEF Running
<1>2. CASE Head(toApp) = "DIE"
  <2>1. /\ toGui' = Append(toGui, "ACK") /\ app' = "quitting" /\ doc' = "none"
        /\ toApp' = Tail(toApp) /\ performed' = performed + 1
        /\ UNCHANGED <<queue, timer>>
    BY <1>2 DEF ReadCommand
  <2>2. AckLine(TRUE) = <<"ACK">> /\ "ACK" \in Replies
    BY DEF AckLine, Replies
  <2>3. toGui' = toGui \o AckLine(TRUE)
    BY <1>0, <2>1, <2>2, AppendIsConcat
  <2> QED
    BY <1>2, <2>1, <2>3, ClosingRead
<1>3. CASE Head(toApp) \notin {"PLAY", "DIE"}
  BY <1>3, AbortReplies DEF ReadCommand
<1> QED
  BY <1>1, <1>2, <1>3

(* An element is read and queued.                                          *)
LEMMA ElementReadReplies ==
    ASSUME Inv, ReplyInv, UNCHANGED guiVars, ElementRead
    PROVE  ReplyInv'
<1> DEFINE e == Head(toApp)
<1> DEFINE q == QueuedAs(e)
<1>0. /\ Running /\ toApp # <<>> /\ e \in Elements /\ toApp' = Tail(toApp)
      /\ queue' = queue \o q
      /\ UNCHANGED <<toGui, app, timer, performed, doc>>
  BY DEF ElementRead, Reading
<1>1. /\ device /\ (Unread \/ Queued \/ Done) /\ app' # "dead"
      /\ app' \notin {"none", "quitting"}
  BY <1>0, LibraryAtWork DEF Running
<1>2. /\ queue \in Seq(QueueEvents) /\ issued \in Nat /\ performed \in Nat
  BY DEF Inv, TypeOK, GuiTypeOK, PlayerTypeOK, QueueEvents
<1>3. /\ q \in Seq(QueueEvents)
      /\ e = "pick" => Without(q, Work) /\ \A i \in DOMAIN q : q[i].type = "pick"
      /\ e # "pick" => QueuedFor(q, WaitsIn(e))
  BY <1>0, QueuedShape
<1>4. e # "pick" <=> e \in Requests
  BY <1>0 DEF Elements, Requests, Commands, Events
<1> HIDE DEF q
<1>5. \A i \in DOMAIN queue' : \/ \E j \in DOMAIN queue : queue'[i] = queue[j]
                               \/ \E j \in DOMAIN q : queue'[i] = q[j]
  BY <1>0, <1>2, <1>3, ConcatElements
<1>6. \A S : Without(queue', S) <=> Without(queue, S) /\ Without(q, S)
  BY <1>0, <1>2, <1>3, WithoutConcat
<1>7. RepliesAwaited' /\ (Waiting <=> Waiting')
  BY <1>0, StillAwaited DEF ReplyInv, RepliesAwaited, Waiting, guiVars
<1>8. \A S : /\ S \subseteq Work /\ Without(queue, Work) => Without(queue, S)
             /\ S \subseteq Work /\ Without(q, Work) => Without(q, S)
  BY DEF Without
<1>9. Acking \subseteq Work /\ Carrying \subseteq Work
  BY DEF Acking, Carrying
<1>10. CASE e = "pick"
  <2>1. Unread => Unread'
    BY <1>0, <1>3, <1>6, <1>7, <1>10, MessageRead DEF Unread, guiVars
  <2>2. Done => Done'
    BY <1>0, <1>3, <1>6, <1>10, MessageRead DEF Done, guiVars
  <2>3. ASSUME Queued PROVE Queued'
    <3>1. /\ AtMostOne(queue', Acking) /\ AtMostOne(queue', Carrying)
          /\ Without(q, Work) /\ Without(q, Carrying) /\ Without(q, Acking)
      BY <1>0, <1>2, <1>3, <1>8, <1>9, <1>10, <2>3, AtMostOneConcat DEF Queued
    <3>2. Followed(q, Work, Acking)
      BY <3>1 DEF Followed, Without
    <3>3. Followed(queue', Work, Acking)
      BY <1>0, <1>2, <1>3, <2>3, <3>2, FollowedConcat DEF Queued
    <3>4. \A i \in DOMAIN queue' :
           /\ queue'[i].type = "flush" => ~queue'[i].ack
           /\ queue'[i].type = "dump" => queue'[i].ack
           /\ queue'[i] \in Work => (gui = "dump" <=> queue'[i].type = "dump")
      BY <1>3, <1>5, <1>10, <2>3, <3>1 DEF Queued, Without
    <3>5. Without(toApp', Requests)
      BY <1>0, <2>3, MessageRead DEF Queued
    <3>6. timer = "statement" => Without(queue', Work)
      BY <1>6, <2>3, <3>1 DEF Queued
    <3>7. Without(queue', Carrying) <=> Without(queue, Carrying)
      BY <1>6, <3>1
    <3> QED
      BY <1>0, <1>7, <2>3, <3>1, <3>3, <3>4, <3>5, <3>6, <3>7 DEF Queued, guiVars
  <2> QED
    BY <1>1, <1>7, <2>1, <2>2, <2>3, StageKept
<1>11. CASE e # "pick"
  <2>1. Unread /\ gui = WaitsIn(e)
    BY <1>0, <1>4, <1>11, RequestUnread
  <2>2. gui \in {"ack", "dump"}
    BY <1>0, <1>11, <2>1 DEF WaitsIn, Elements, Events
  <2>3. QueuedFor(q, gui) /\ Without(queue, Work)
    BY <1>3, <1>11, <2>1 DEF Unread
  <2>4. AtMostOne(queue', Acking) /\ AtMostOne(queue', Carrying)
    BY <1>0, <1>2, <1>3, <1>8, <1>9, <2>3, AtMostOneConcat DEF QueuedFor
  <2>5. Followed(queue', Work, Acking)
    <3>1. Followed(queue, Work, Acking)
      BY <2>3 DEF Followed, Without
    <3> QED
      BY <1>0, <1>2, <1>3, <2>3, <3>1, FollowedConcat DEF QueuedFor
  <2>6. ASSUME NEW j \in DOMAIN queue
        PROVE  queue[j].type = "pick"
    <3>1. queue[j] \in QueueEvents
      BY <1>2, ElementOfSeq
    <3> QED
      BY <2>3, <3>1 DEF Without, Work
  <2>7. \A i \in DOMAIN queue' :
           /\ queue'[i].type = "flush" => ~queue'[i].ack
           /\ queue'[i].type = "dump" => queue'[i].ack
           /\ queue'[i] \in Work => (gui = "dump" <=> queue'[i].type = "dump")
    BY <1>5, <2>3, <2>6 DEF QueuedFor, Without
  <2>8. ~Without(queue', Carrying)
    BY <1>6, <2>3 DEF QueuedFor
  <2>9. Without(toApp', Requests)
    BY <1>0, <1>4, <1>11, <2>1, MessageRead DEF Unread
  <2>10. Without(toGui, {"ACK", "DUMPED"}) /\ issued = performed + 1 /\ timer = "off"
    BY <2>1 DEF Unread, Without, Replies
  <2>11. Queued'
    BY <1>0, <1>7, <2>1, <2>2, <2>4, <2>5, <2>7, <2>8, <2>9, <2>10
    DEF Queued, Unread, guiVars
  <2> QED
    BY <1>1, <1>7, <2>11, StageKept
<1> QED
  BY <1>10, <1>11

(* The next Event of the queue, and what is left behind it.                *)
LEMMA EventTaken ==
    ASSUME Inv, ReplyInv, Processing, queue # <<>>
    PROVE  /\ device /\ timer = "off" /\ (Unread \/ Queued \/ Done)
           /\ Head(queue) \in QueueEvents
           /\ Head(queue).type # "pick" => Queued /\ Head(queue) \in Work
           /\ Head(queue) \in Acking /\ Queued => Without(Tail(queue), Work)
           /\ \A i \in DOMAIN Tail(queue) :
                \E j \in DOMAIN queue : Tail(queue)[i] = queue[j]
           /\ \A S : /\ Without(queue, S) => Without(Tail(queue), S)
                     /\ Head(queue) \notin S /\ Without(Tail(queue), S)
                          => Without(queue, S)
           /\ Queued => /\ AtMostOne(Tail(queue), Acking)
                        /\ AtMostOne(Tail(queue), Carrying)
                        /\ Head(queue) \in Carrying => Without(Tail(queue), Carrying)
                        /\ Followed(Tail(queue), Work, Acking)
           /\ \E j \in DOMAIN queue : Head(queue) = queue[j]
<1>0. queue \in Seq(QueueEvents) /\ Running
  BY DEF Inv, TypeOK, PlayerTypeOK, QueueEvents, Processing
<1>2. timer = "off" /\ doc # "none"
  BY ProcessingAlone DEF Inv
<1>3. device /\ (Unread \/ Queued \/ Done)
  BY <1>0, <1>2, LibraryAtWork
<1>4. Head(queue) \in QueueEvents /\ Head(queue) = queue[1] /\ 1 \in DOMAIN queue
  BY <1>0, HeadAndTail, TailElements
<1>5. Head(queue).type # "pick" => Queued /\ Head(queue) \in Work
  <2>1. ASSUME Head(queue).type # "pick"
        PROVE  Head(queue) \in Work /\ ~Without(queue, Work)
    BY <1>4, <2>1 DEF Work, Without
  <2> QED
    BY <1>3, <2>1 DEF Unread, Done
<1>6. ASSUME Head(queue) \in Acking, Queued PROVE Without(Tail(queue), Work)
  BY <1>0, <1>6, NothingBehind DEF Queued
<1>7. \A i \in DOMAIN Tail(queue) :
        \E j \in DOMAIN queue : Tail(queue)[i] = queue[j]
  BY <1>0, TailElements
<1>8. \A S : /\ Without(queue, S) => Without(Tail(queue), S)
             /\ Head(queue) \notin S /\ Without(Tail(queue), S)
                  => Without(queue, S)
  BY <1>0, WithoutTail
<1>9. Queued => /\ AtMostOne(Tail(queue), Acking)
                /\ AtMostOne(Tail(queue), Carrying)
                /\ Head(queue) \in Carrying => Without(Tail(queue), Carrying)
                /\ Followed(Tail(queue), Work, Acking)
  BY <1>0, AtMostOneTail, FollowedTail DEF Queued
<1> QED
  BY <1>2, <1>3, <1>4, <1>5, <1>6, <1>7, <1>8, <1>9

(* An Event that ends its statement: its reply, and nothing is left.       *)
LEMMA LastEvent ==
    ASSUME Inv, ReplyInv, UNCHANGED guiVars, Processing, queue # <<>>,
           Head(queue).type # "pick", Head(queue).type # "dump", Head(queue).ack,
           NEW lines \in {<<>>, <<"NOTFOUND">>},
           toGui' = (toGui \o lines) \o <<"ACK">>,
           queue' = Tail(queue), CountCarried,
           UNCHANGED <<toApp, app, timer>>
    PROVE  ReplyInv'
<1>0. toGui \in Seq(Replies) /\ pendingAcks \in Int /\ "ACK" \in Replies
      /\ "NOTFOUND" \in Replies
  BY DEF Inv, TypeOK, LinkTypeOK, GuiTypeOK, Replies
<1>1. /\ Queued /\ Head(queue) \in Work /\ device /\ timer = "off"
      /\ Head(queue) \in Acking
  BY EventTaken DEF Acking
<1>2. gui = "ack" /\ pendingAcks >= 1 /\ Without(toGui, {"ACK", "DUMPED"})
      /\ Without(toGui, {"ACK"})
  <2>1. gui \in {"ack", "dump"} /\ (gui = "dump" <=> Head(queue).type = "dump")
    BY <1>1, EventTaken DEF Queued
  <2> QED
    BY <1>1, <2>1 DEF Queued, Waiting, Without
<1>3. AwaitedIn(toGui) /\ pendingAcks >= 0
  BY DEF ReplyInv, RepliesAwaited
<1>4. /\ AwaitedIn(toGui \o lines) /\ toGui \o lines \in Seq(Replies)
      /\ Without(toGui \o lines, {"ACK", "DUMPED"})
  <2>1. CASE lines = <<>>
    <3>1. toGui \o <<>> = toGui
      BY <1>0, ConcatEmptySeq
    <3> QED
      BY <1>0, <1>2, <1>3, <2>1, <3>1
  <2>2. CASE lines = <<"NOTFOUND">>
    <3>1. /\ Without(<<"NOTFOUND">>, {"ACK", "DUMPED"})
          /\ <<"NOTFOUND">> \in Seq(Replies)
      BY <1>0 DEF Without
    <3>2. AwaitedIn(toGui \o <<"NOTFOUND">>)
      BY <1>0, <1>2, <1>3, ReplyAppended
    <3> QED
      BY <1>0, <1>2, <2>2, <3>1, <3>2, WithoutConcat, ConcatProperties
  <2> QED
    BY <2>1, <2>2
<1>5. AwaitedIn((toGui \o lines) \o <<"ACK">>)
  BY <1>0, <1>2, <1>3, <1>4, ReplyAppended
<1>6. RepliesAwaited'
  BY <1>5, StillAwaited
<1>7. issued = performed'
  <2>1. Head(queue) \in Carrying <=> Carries(Head(queue))
    BY <1>1 DEF Carrying
  <2>2. Head(queue) \in Carrying => ~Without(queue, Carrying)
    BY <1>1, EventTaken DEF Without
  <2>3. Without(Tail(queue), Work)
    BY <1>1, EventTaken
  <2>4. Without(Tail(queue), Carrying)
    BY <2>3 DEF Without, Carrying
  <2>5. Head(queue) \notin Carrying => Without(queue, Carrying)
    BY <2>4, EventTaken
  <2> QED
    BY <1>1, <2>1, <2>2, <2>5 DEF Queued, CountCarried
<1>8. Done'
  BY <1>1, <1>2, <1>7, EventTaken DEF Queued, Done, guiVars
<1> QED
  BY <1>1, <1>6, <1>8, StageKept DEF Processing, Running

(* An Event in the middle of a drag and drop: no ACK.                      *)
LEMMA MiddleEvent ==
    ASSUME Inv, ReplyInv, UNCHANGED guiVars, Processing, queue # <<>>,
           Head(queue).type # "pick", ~Head(queue).ack,
           NEW lines \in {<<>>, <<"NOTFOUND">>}, toGui' = toGui \o lines,
           queue' = Tail(queue), CountCarried,
           UNCHANGED <<toApp, app>>, timer' \in {"off", "drag"}
    PROVE  ReplyInv'
<1>0. toGui \in Seq(Replies) /\ pendingAcks \in Int /\ "NOTFOUND" \in Replies
      /\ performed \in Nat /\ issued \in Nat
  BY DEF Inv, TypeOK, LinkTypeOK, GuiTypeOK, PlayerTypeOK, Replies
<1>1. Queued /\ Head(queue) \in Work /\ device /\ timer = "off"
  BY EventTaken
<1>2. gui = "ack" /\ pendingAcks >= 1 /\ Without(toGui, {"ACK", "DUMPED"})
      /\ Without(toGui, {"ACK"})
  <2>1. /\ gui \in {"ack", "dump"}
        /\ gui = "dump" <=> Head(queue).type = "dump"
        /\ Head(queue).type = "dump" => Head(queue).ack
    BY <1>1, EventTaken DEF Queued
  <2> QED
    BY <1>1, <2>1 DEF Queued, Waiting, Without
<1>3. AwaitedIn(toGui) /\ pendingAcks >= 0
  BY DEF ReplyInv, RepliesAwaited
<1>4. AwaitedIn(toGui \o lines) /\ Without(toGui \o lines, {"ACK", "DUMPED"})
  <2>1. CASE lines = <<>>
    <3>1. toGui \o <<>> = toGui
      BY <1>0, ConcatEmptySeq
    <3> QED
      BY <1>2, <1>3, <2>1, <3>1
  <2>2. CASE lines = <<"NOTFOUND">>
    <3>1. /\ Without(<<"NOTFOUND">>, {"ACK", "DUMPED"})
          /\ <<"NOTFOUND">> \in Seq(Replies)
      BY <1>0 DEF Without
    <3>2. AwaitedIn(toGui \o <<"NOTFOUND">>)
      BY <1>0, <1>2, <1>3, ReplyAppended
    <3> QED
      BY <1>0, <1>2, <2>2, <3>1, <3>2, WithoutConcat
  <2> QED
    BY <2>1, <2>2
<1>5. RepliesAwaited' /\ (Waiting <=> Waiting')
  BY <1>4, StillAwaited DEF Waiting, guiVars
<1>6. issued = IF ~Without(queue', Carrying) THEN performed' + 1 ELSE performed'
  <2>1. Head(queue) \in Carrying <=> Carries(Head(queue))
    BY <1>1 DEF Carrying
  <2>2. Head(queue) \in Carrying => ~Without(queue, Carrying)
                                    /\ Without(Tail(queue), Carrying)
    BY <1>1, EventTaken DEF Without
  <2>3. Head(queue) \notin Carrying =>
          (Without(queue, Carrying) <=> Without(Tail(queue), Carrying))
    BY EventTaken
  <2> QED
    BY <1>0, <1>1, <2>1, <2>2, <2>3 DEF Queued, CountCarried
<1>7. Queued'
  <2>1. \A i \in DOMAIN queue' :
           /\ queue'[i].type = "flush" => ~queue'[i].ack
           /\ queue'[i].type = "dump" => queue'[i].ack
           /\ queue'[i] \in Work => (gui = "dump" <=> queue'[i].type = "dump")
    BY <1>1, EventTaken DEF Queued
  <2> QED
    BY <1>1, <1>2, <1>4, <1>5, <1>6, <2>1, EventTaken DEF Queued, guiVars
<1> QED
  BY <1>1, <1>5, <1>7, StageKept DEF Processing, Running

(* Player::processEvents, Event by Event.                                  *)
LEMMA ProcessingReplies ==
    ASSUME Inv, ReplyInv, UNCHANGED guiVars,
           \/ ProcessAck \/ ProcessFound \/ ProcessNotFound \/ ProcessDump
           \/ ProcessFlush \/ ProcessPick \/ ProcessSleep
    PROVE  ReplyInv'
<1> DEFINE h == Head(queue)
<1>0. /\ Processing /\ queue # <<>> /\ queue' = Tail(queue)
      /\ UNCHANGED <<toApp, app, doc>>
  BY DEF ProcessAck, ProcessFound, ProcessNotFound, ProcessDump, ProcessFlush,
         ProcessPick, ProcessSleep, Dequeue
<1>1. /\ device /\ timer = "off" /\ (Unread \/ Queued \/ Done) /\ h \in QueueEvents
      /\ h.type # "pick" => Queued /\ h \in Work
      /\ app' \notin {"dead", "none", "quitting"}
  BY <1>0, EventTaken DEF Processing, Running
<1>2. toGui \in Seq(Replies) /\ performed \in Nat /\ pendingAcks \in Int
      /\ issued \in Nat
  BY DEF Inv, TypeOK, LinkTypeOK, PlayerTypeOK, GuiTypeOK
<1>3. toGui \o <<>> = toGui
  BY <1>2, ConcatEmptySeq
<1>4. h.ack \in BOOLEAN /\ h.type \in EventTypes
  BY <1>1 DEF QueueEvents
<1>5. h.type # "pick" => /\ h.type = "flush" => ~h.ack
                         /\ h.type = "dump" => h.ack
                         /\ gui = "dump" <=> h.type = "dump"
  BY <1>0, <1>1, EventTaken DEF Queued
<1>6. ASSUME NEW lines \in {<<>>, <<"NOTFOUND">>}, Reply(lines), CountCarried,
             UNCHANGED timer, h.type \notin {"pick", "dump"}
      PROVE  ReplyInv'
  <2>1. CASE h.ack
    <3>1. toGui' = (toGui \o lines) \o <<"ACK">>
      BY <1>6, <2>1 DEF Reply, AckLine
    <3> QED
      BY <1>0, <1>6, <2>1, <3>1, LastEvent
  <2>2. CASE ~h.ack
    <3>0. lines \in Seq(Replies)
      <4>1. "NOTFOUND" \in Replies
        BY DEF Replies
      <4>2. <<"NOTFOUND">> \in Seq(Replies) /\ <<>> \in Seq(Replies)
        BY <4>1
      <4> QED
        BY <1>6, <4>2
    <3>1. toGui' = (toGui \o lines) \o <<>>
      BY <1>6, <2>2 DEF Reply, AckLine
    <3>2. toGui \o lines \in Seq(Replies)
      BY <1>2, <3>0, ConcatProperties
    <3>3. toGui' = toGui \o lines
      BY <3>1, <3>2, ConcatEmptySeq
    <3> QED
      BY <1>0, <1>1, <1>6, <2>2, <3>3, MiddleEvent
  <2> QED
    BY <1>4, <2>1, <2>2
<1>7. CASE ProcessAck
  <2>1. CountCarried
    BY <1>7 DEF ProcessAck, Dequeue, CountCarried, Carries
  <2> QED
    BY <1>6, <1>7, <2>1 DEF ProcessAck, Dequeue
<1>8. CASE ProcessFound
  BY <1>6, <1>8 DEF ProcessFound, Dequeue
<1>9. CASE ProcessNotFound
  BY <1>6, <1>9 DEF ProcessNotFound, Dequeue
<1>10. CASE ProcessFlush
  <2>1. h.type = "flush" /\ ~h.ack
    BY <1>5, <1>10 DEF ProcessFlush, Dequeue
  <2>2. CountCarried /\ timer' = "off" /\ toGui' = toGui \o <<>>
    BY <1>1, <1>3, <1>10, <2>1 DEF ProcessFlush, CountCarried, Carries
  <2> QED
    BY <1>0, <2>1, <2>2, MiddleEvent
<1>11. CASE ProcessDump
  <2>1. h.type = "dump" /\ h.ack /\ toGui' = Append(toGui, "DUMPED")
        /\ Carries(h) /\ performed' = performed + 1 /\ timer' = "off"
    BY <1>1, <1>5, <1>11 DEF ProcessDump, Dequeue, CountCarried, Carries
  <2>2. Queued /\ h \in Acking /\ h \in Carrying /\ gui = "dump"
    BY <1>1, <1>5, <2>1 DEF Acking, Carrying
  <2>3. issued = performed'
    <3>1. ~Without(queue, Carrying)
      BY <1>0, <2>2, EventTaken DEF Without
    <3> QED
      BY <1>1, <2>1, <2>2, <3>1 DEF Queued
  <2>4. Done'
    BY <1>0, <2>1, <2>2, <2>3, EventTaken DEF Queued, Done, guiVars
  <2>5. "DUMPED" \in Replies /\ toGui' = toGui \o <<"DUMPED">>
    BY <1>2, <2>1, AppendIsConcat DEF Replies
  <2>6. AwaitedIn(toGui) /\ pendingAcks >= 0
    BY DEF ReplyInv, RepliesAwaited
  <2>7. Without(toGui, {"ACK", "DUMPED"}) /\ ~dumped
    BY <2>2 DEF Queued, Waiting
  <2>8. AwaitedIn(toGui \o <<"DUMPED">>)
    BY <1>2, <2>2, <2>5, <2>6, <2>7, ReplyAppended
  <2>9. RepliesAwaited'
    BY <2>5, <2>8, StillAwaited
  <2> QED
    BY <1>1, <2>4, <2>9, StageKept
<1>12. CASE ProcessPick
  <2>1. h.type = "pick" /\ UNCHANGED <<toGui, timer, performed>>
    BY <1>12 DEF ProcessPick, Dequeue
  <2>2. RepliesAwaited' /\ (Waiting <=> Waiting')
    BY <2>1, StillAwaited DEF ReplyInv, RepliesAwaited, Waiting, guiVars
  <2>3. h \notin Work /\ h \notin Carrying
    BY <2>1 DEF Work, Carrying
  <2>4. /\ Without(queue, Work) <=> Without(queue', Work)
        /\ Without(queue, Carrying) <=> Without(queue', Carrying)
    BY <1>0, <2>3, EventTaken
  <2>5. Unread => Unread'
    BY <1>0, <2>1, <2>2, <2>4 DEF Unread, guiVars
  <2>6. Done => Done'
    BY <1>0, <2>1, <2>4 DEF Done, guiVars
  <2>7. ASSUME Queued PROVE Queued'
    <3>1. \A i \in DOMAIN queue' :
             /\ queue'[i].type = "flush" => ~queue'[i].ack
             /\ queue'[i].type = "dump" => queue'[i].ack
             /\ queue'[i] \in Work => (gui = "dump" <=> queue'[i].type = "dump")
      BY <1>0, <2>7, EventTaken DEF Queued
    <3> QED
      BY <1>0, <2>1, <2>2, <2>4, <2>7, <3>1, EventTaken DEF Queued, guiVars
  <2> QED
    BY <1>1, <2>2, <2>5, <2>6, <2>7, StageKept
<1>13. CASE ProcessSleep
  <2>1. /\ h.type = "sleep" /\ UNCHANGED <<toGui, performed>>
        /\ timer' = IF h.ack THEN "statement" ELSE "drag"
    BY <1>13 DEF ProcessSleep, Dequeue
  <2>2. CASE ~h.ack
    <3>1. CountCarried /\ toGui' = toGui \o <<>> /\ timer' = "drag"
      BY <1>3, <2>1, <2>2 DEF CountCarried, Carries
    <3> QED
      BY <1>0, <2>1, <2>2, <3>1, MiddleEvent
  <2>3. CASE h.ack
    <3>1. Queued /\ h \in Acking /\ h \in Carrying /\ gui = "ack"
      BY <1>1, <1>5, <2>1, <2>3 DEF Acking, Carrying, Carries, Queued
    <3>2. RepliesAwaited' /\ (Waiting <=> Waiting')
      BY <2>1, StillAwaited DEF ReplyInv, RepliesAwaited, Waiting, guiVars
    <3>3. Without(queue', Work)
      BY <1>0, <3>1, EventTaken
    <3>4. issued = performed + 1
      <4>1. ~Without(queue, Carrying)
        BY <1>0, <3>1, EventTaken DEF Without
      <4> QED
        BY <1>1, <3>1, <4>1 DEF Queued
    <3>5. \A i \in DOMAIN queue' :
             /\ queue'[i].type = "flush" => ~queue'[i].ack
             /\ queue'[i].type = "dump" => queue'[i].ack
             /\ queue'[i] \in Work => (gui = "dump" <=> queue'[i].type = "dump")
      BY <1>0, <3>1, EventTaken DEF Queued
    <3>6. Queued'
      BY <1>0, <2>1, <2>3, <3>1, <3>2, <3>3, <3>4, <3>5, EventTaken
      DEF Queued, guiVars
    <3> QED
      BY <1>1, <3>2, <3>6, StageKept
  <2> QED
    BY <1>4, <2>2, <2>3
<1> QED
  BY <1>7, <1>8, <1>9, <1>10, <1>11, <1>12, <1>13

(* Events Qt dispatches, and the end of a pick.                            *)
LEMMA PickReplies ==
    ASSUME Inv, ReplyInv, UNCHANGED guiVars, Running, pickMode, NEW who,
           EndPick(who)
    PROVE  ReplyInv'
<1>0. toGui \in Seq(Replies) /\ pendingAcks \in Int /\ "PICKED" \in Replies
  BY DEF Inv, TypeOK, LinkTypeOK, GuiTypeOK, Replies
<1>1. /\ toGui' = Append(toGui, "PICKED")
      /\ UNCHANGED <<toApp, app, doc, queue, timer, performed>>
  BY DEF EndPick
<1>2. toGui' = toGui \o <<"PICKED">>
  BY <1>0, <1>1, AppendIsConcat
<1>3. /\ device /\ (Unread \/ Queued \/ Done)
      /\ gui = "dying" => pendingAcks >= 1 /\ Without(toGui, {"ACK"})
  BY LibraryAtWork
<1>4. AwaitedIn(toGui) /\ pendingAcks >= 0
  BY DEF ReplyInv, RepliesAwaited
<1>5. AwaitedIn(toGui \o <<"PICKED">>)
  BY <1>0, <1>3, <1>4, ReplyAppended
<1>6. RepliesAwaited' /\ (Waiting <=> Waiting')
  BY <1>2, <1>5, StillAwaited DEF Waiting, guiVars
<1>7. ASSUME NEW S, "PICKED" \notin S, Without(toGui, S) PROVE Without(toGui', S)
  <2>1. Without(<<"PICKED">>, S) /\ <<"PICKED">> \in Seq(Replies)
    BY <1>0, <1>7 DEF Without
  <2> QED
    BY <1>0, <1>2, <1>7, <2>1, WithoutConcat
<1>8. Unread => Unread'
  BY <1>1, <1>6, <1>7 DEF Unread, guiVars
<1>9. Queued => Queued'
  BY <1>1, <1>6, <1>7 DEF Queued, guiVars
<1>10. Done => Done'
  BY <1>1 DEF Done, guiVars
<1> QED
  BY <1>1, <1>3, <1>6, <1>8, <1>9, <1>10, StageKept DEF Running

(* A sleep is over.                                                        *)
LEMMA SleepReplies ==
    ASSUME Inv, ReplyInv, UNCHANGED guiVars, WaitFinished
    PROVE  ReplyInv'
<1>0. /\ toGui \in Seq(Replies) /\ pendingAcks \in Int /\ issued \in Nat
      /\ performed \in Nat /\ timer \in {"off", "statement", "drag"}
      /\ ackNext \in BOOLEAN /\ "ACK" \in Replies
  BY DEF Inv, TypeOK, LinkTypeOK, GuiTypeOK, PlayerTypeOK, Replies
<1>1. /\ timer # "off" /\ timer' = "off" /\ toGui' = toGui \o AckLine(ackNext)
      /\ performed' = IF timer = "statement" THEN performed + 1 ELSE performed
      /\ UNCHANGED <<toApp, app, doc, queue>> /\ Running
      /\ app' \notin {"dead", "none", "quitting"}
  BY DEF WaitFinished, InEventLoop, Running
<1>2. device /\ Queued
  BY <1>1, LibraryAtWork DEF Unread, Done
<1>3. gui = "ack" /\ pendingAcks >= 1 /\ Without(toGui, {"ACK", "DUMPED"})
  BY <1>1, <1>2 DEF Queued, Waiting
<1>4. ackNext <=> timer = "statement"
  BY <1>1 DEF Inv, AppInv, SleepAcksItself
<1>5. AwaitedIn(toGui) /\ pendingAcks >= 0
  BY DEF ReplyInv, RepliesAwaited
<1>6. CASE timer = "statement"
  <2>1. toGui' = toGui \o <<"ACK">>
    BY <1>1, <1>4, <1>6 DEF AckLine
  <2>2. AwaitedIn(toGui \o <<"ACK">>)
    BY <1>0, <1>3, <1>5, ReplyAppended
  <2>3. RepliesAwaited'
    BY <2>1, <2>2, StillAwaited
  <2>4. Done'
    BY <1>1, <1>2, <1>3, <1>6 DEF Queued, Done, guiVars
  <2> QED
    BY <1>1, <1>2, <2>3, <2>4, StageKept
<1>7. CASE timer = "drag"
  <2>1. toGui' = toGui
    BY <1>0, <1>1, <1>4, <1>7, ConcatEmptySeq DEF AckLine
  <2>2. RepliesAwaited' /\ (Waiting <=> Waiting')
    BY <1>5, <2>1, StillAwaited DEF Waiting, guiVars
  <2>3. Queued'
    BY <1>1, <1>2, <1>7, <2>1, <2>2 DEF Queued, guiVars
  <2> QED
    BY <1>1, <1>2, <2>2, <2>3, StageKept
<1> QED
  BY <1>0, <1>1, <1>6, <1>7

(* What the injected library does by itself.                               *)
LEMMA PlayerReplies ==
    ASSUME Inv, ReplyInv, UNCHANGED guiVars, PlayerStep
    PROVE  ReplyInv'
<1>0. AppInv /\ toGui \in Seq(Replies) /\ ackNext \in BOOLEAN
  BY DEF Inv, TypeOK, LinkTypeOK, PlayerTypeOK
<1>1. CASE MarshallReads
  <2>1. /\ Running /\ toApp # <<>> /\ queue = <<>> /\ timer = "off"
        /\ ReadCommand(stack)
    BY <1>0, <1>1 DEF MarshallReads, InEventLoop, CanReadLine, AppInv
  <2> QED
    BY <2>1, ReadCommandReplies
<1>2. CASE ReadyRead \/ InputExhausted \/ FlushReturns
  <2>1. /\ Running
        /\ UNCHANGED <<toApp, toGui, app, queue, timer, performed, doc>>
    BY <1>2
    DEF ReadyRead, InputExhausted, FlushReturns, InEventLoop, Reading, linkVars
  <2> QED
    BY <2>1, QuietStep
<1>3. CASE ElementRead
  BY <1>3, ElementReadReplies
<1>4. CASE EndOfDocument
  <2>1. /\ Running /\ toApp # <<>> /\ Head(toApp) = "eod"
        /\ toApp' = Tail(toApp) /\ performed' = performed + 1
        /\ toGui' = toGui \o AckLine(ackNext) /\ UNCHANGED <<queue, timer>>
        /\ app' = "running"
    BY <1>4 DEF EndOfDocument, AtEndOfDocument, Reading, Running
  <2> QED
    BY <1>0, <2>1, ClosingRead
<1>5. CASE TrailingElement
  <2>1. /\ Running /\ toApp # <<>> /\ Head(toApp) = "eod"
        /\ toApp' = <<>> /\ doc' = "error"
        /\ UNCHANGED <<toGui, app, queue, timer, performed>>
        /\ app' \notin {"dead", "none", "quitting"}
    BY <1>5 DEF TrailingElement, AtEndOfDocument, Reading, Running
  <2>2. device /\ Unread
    BY <2>1, RequestUnread DEF Requests, Commands
  <2>3. RepliesAwaited' /\ (Waiting <=> Waiting')
    BY <2>1, StillAwaited DEF ReplyInv, RepliesAwaited, Waiting, guiVars
  <2>4. Unread'
    BY <2>1, <2>2, <2>3 DEF Unread, AtMostOne, guiVars
  <2> QED
    BY <2>1, <2>2, <2>3, <2>4, StageKept
<1>6. CASE \/ ProcessAck \/ ProcessFound \/ ProcessNotFound \/ ProcessDump
           \/ ProcessFlush \/ ProcessPick \/ ProcessSleep
  BY <1>6, ProcessingReplies
<1>7. CASE QueueEmpty
  <2>1. Running /\ queue = <<>> /\ timer = "off" /\ doc # "none"
    BY <1>0, <1>7, ProcessingAlone DEF QueueEmpty, Processing
  <2>2. CASE doc = "ended" /\ CanReadLine
    <3>1. toApp # <<>> /\ ReadCommand(Returned)
      BY <1>7, <2>2 DEF QueueEmpty, CanReadLine
    <3> QED
      BY <2>1, <3>1, ReadCommandReplies
  <2>3. CASE ~(doc = "ended" /\ CanReadLine)
    <3>1. UNCHANGED <<toApp, toGui, app, queue, timer, performed>>
      BY <1>7, <2>3 DEF QueueEmpty, linkVars
    <3> QED
      BY <2>1, <3>1, QuietStep
  <2> QED
    BY <2>2, <2>3
<1>8. CASE WaitFinished
  BY <1>8, SleepReplies
<1>9. CASE DeliverPosted
  <2>1. CASE pickMode /\ Head(posted) = "release"
    BY <1>9, <2>1, PickReplies DEF DeliverPosted, InEventLoop
  <2>2. CASE ~(pickMode /\ Head(posted) = "release")
    BY <1>9, <2>2, QuietStep DEF DeliverPosted, InEventLoop, linkVars
  <2> QED
    BY <2>1, <2>2
<1> QED
  BY <1>1, <1>2, <1>3, <1>4, <1>5, <1>6, <1>7, <1>8, <1>9 DEF PlayerStep

(* What happens to the process.                                            *)
LEMMA ProcessReplies ==
    ASSUME Inv, ReplyInv, UNCHANGED guiVars, ProcessStep
    PROVE  ReplyInv'
<1>1. CASE MarshallConnects
  <2>1. /\ app = "starting" /\ app' = "running"
        /\ UNCHANGED <<toApp, toGui, doc, queue, timer, performed>>
    BY <1>1 DEF MarshallConnects, playerVars
  <2>2. RepliesAwaited' /\ (Waiting <=> Waiting')
    BY <2>1, StillAwaited DEF ReplyInv, RepliesAwaited, Waiting, guiVars
  <2>3. Unread => Unread'
    BY <2>1, <2>2 DEF Unread, guiVars
  <2>4. Queued => Queued'
    BY <2>1, <2>2 DEF Queued, guiVars
  <2>5. Done => Done'
    BY <2>1 DEF Done, guiVars
  <2>6. ~device => Detached'
    BY <2>1 DEF ReplyInv, Detached, guiVars
  <2> QED
    BY <2>1, <2>2, <2>3, <2>4, <2>5, <2>6 DEF ReplyInv, guiVars
<1>2. CASE UserClicks
  BY <1>2, PickReplies DEF UserClicks, InEventLoop
<1>3. CASE DropTargetMissing \/ ProcessMissing \/ ProcessCrashes
  BY <1>3, AbortReplies DEF DropTargetMissing, ProcessMissing, ProcessCrashes
<1>4. CASE ProcessExits
  <2>1. toGui \in Seq(Replies)
    BY DEF Inv, TypeOK, LinkTypeOK
  <2>2. Len(toGui) \in 0..Len(toGui) /\ toGui = SubSeq(toGui, 1, Len(toGui))
    BY <2>1, SubSeqFull
  <2>3. PlayerGone /\ toGui' = toGui
    BY <1>4 DEF ProcessExits
  <2> QED
    BY <2>2, <2>3, GoneReplies
<1> QED
  BY <1>1, <1>2, <1>3, <1>4 DEF ProcessStep

-----------------------------------------------------------------------------
(* The whole system.                                                       *)

(* The invariant holds at first ...                                        *)
LEMMA ReplyInvInit ==
    ASSUME Init
    PROVE  ReplyInv
<1>1. /\ toApp = <<>> /\ toGui = <<>> /\ app = "none" /\ gui = "idle"
      /\ ~device /\ attach = "NotAttached" /\ doc = "none" /\ pendingAcks = 0
  BY DEF Init, LinkInit, GuiInit, PlayerInit
<1> QED
  BY <1>1 DEF ReplyInv, RepliesAwaited, AwaitedIn, Detached, AtMostOne, Without

(* ... and every step of either process keeps it.                          *)
LEMMA ReplyInvNext ==
    ASSUME Inv, ReplyInv, [Next]_vars
    PROVE  ReplyInv'
<1>1. CASE GuiNext
  BY <1>1, ScriptReplies, UserReplies, LoopReplies DEF GuiNext
<1>2. CASE Spawn
  BY <1>2, SpawnReplies
<1>3. CASE AppNext
  BY <1>3, PlayerReplies, ProcessReplies DEF AppNext
<1>4. CASE UNCHANGED vars
  <2>1. UNCHANGED linkVars /\ UNCHANGED guiVars /\ UNCHANGED playerVars
    BY <1>4 DEF vars
  <2>2. UNCHANGED <<toApp, toGui, app, doc, queue, timer, performed>>
    BY <2>1 DEF linkVars, playerVars
  <2>3. RepliesAwaited' /\ (Waiting <=> Waiting')
    BY <2>1, <2>2, StillAwaited DEF ReplyInv, RepliesAwaited, Waiting, guiVars
  <2>4. (Unread => Unread') /\ (Queued => Queued') /\ (Done => Done')
    BY <2>1, <2>2, <2>3 DEF Unread, Queued, Done, guiVars
  <2>5. ~device => Detached'
    BY <2>1, <2>2 DEF ReplyInv, Detached, guiVars
  <2> QED
    BY <2>1, <2>2, <2>3, <2>4, <2>5 DEF ReplyInv, guiVars
<1> QED
  BY <1>1, <1>2, <1>3, <1>4 DEF Next

(* Each request of a script is in one of three stages, on the wire, at     *)
(* work in Player or done, and every line Player writes to the socket      *)
(* belongs to the wait the Interpreter is in.                              *)
THEOREM ReplyInvariance == Spec => []ReplyInv
<1>1. Init => ReplyInv
  BY ReplyInvInit
<1>2. Inv /\ ReplyInv /\ [Next]_vars => ReplyInv'
  BY ReplyInvNext
<1> QED
  BY <1>1, <1>2, Invariance, PTL DEF Spec

(* The assertion of Interpreter::setAck holds: Player never writes an ACK  *)
(* that no waitForAck is waiting for.                                      *)
THEOREM AckCorrect == Spec => []NoSurplusAck
<1>1. ReplyInv => NoSurplusAck
  BY DEF ReplyInv, NoSurplusAck
<1> QED
  BY <1>1, ReplyInvariance, PTL

(* When closeApplication drops the socket, no reply is left that           *)
(* processSocketData could be called for.                                  *)
THEOREM DetachCorrect == Spec => []NoReplyWithoutDevice
<1>1. ReplyInv => NoReplyWithoutDevice
  BY DEF ReplyInv, Detached, NoReplyWithoutDevice
<1> QED
  BY <1>1, ReplyInvariance, PTL

(* notifyNotFound's line is written before the ACK of the same element, so *)
(* the Interpreter reads it in the wait of that statement.                 *)
THEOREM NotFoundCorrect == Spec => []NotFoundWhileAtStatement
<1>1. ReplyInv => NotFoundWhileAtStatement
  BY DEF ReplyInv, RepliesAwaited, AwaitedIn, NotFoundWhileAtStatement
<1> QED
  BY <1>1, ReplyInvariance, PTL

-----------------------------------------------------------------------------
(* Playback implements RemoteCommands.                                     *)

InCall == gui \in {"ack", "dump", "ending", "dying"}

(* The steps of the GUI: a request is issued, a call returns, or nothing   *)
(* that a script sees.                                                     *)
LEMMA GuiRefines ==
    ASSUME Inv, ReplyInv, GuiNext
    PROVE  [Promise!Next]_(Promise!vars)
<1>0. UNCHANGED performed
  BY DEF GuiNext, playerVars
<1>1. ASSUME UNCHANGED <<issued, app>>, InCall' = InCall
      PROVE  [Promise!Next]_(Promise!vars)
  BY <1>0, <1>1 DEF Promise!vars, InCall
<1>2. ASSUME ~InCall, InCall', issued' = issued + 1, app' = app
      PROVE  [Promise!Next]_(Promise!vars)
  BY <1>0, <1>2 DEF Promise!Next, Promise!Issue, InCall
<1>3. ASSUME InCall, device, ~Waiting \/ Disconnected
      PROVE  performed = issued \/ app = "dead"
  BY <1>3, NotWaiting DEF Disconnected, Done
<1>4. ASSUME InCall, performed = issued \/ app = "dead", ~InCall',
             UNCHANGED <<issued, app>>
      PROVE  [Promise!Next]_(Promise!vars)
  BY <1>0, <1>4 DEF Promise!Next, Promise!Return, InCall
<1>5. CASE ScriptStep
  <2>1. ASSUME NEW m \in Modes, RunScript(m) PROVE [Promise!Next]_(Promise!vars)
    BY <1>1, <2>1 DEF RunScript, linkVars, InCall
  <2>2. ASSUME NEW e \in Events, WriteEvent(e) PROVE [Promise!Next]_(Promise!vars)
    BY <1>2, <2>2
    DEF WriteEvent, Statement, AtStatement, WriteElement, BeginAck, InCall
  <2>3. CASE FetchProperty
    BY <1>2, <2>3 DEF FetchProperty, Statement, AtStatement, InCall
  <2>4. ASSUME NEW ret, gui = "script", WriteEnd(ret)
        PROVE  [Promise!Next]_(Promise!vars)
    BY <1>2, <2>4 DEF WriteEnd, BeginAck, InCall
  <2>5. CASE ScriptEndsDetached
    BY <1>1, <2>5 DEF ScriptEndsDetached, linkVars, InCall
  <2> QED
    BY <1>5, <2>1, <2>2, <2>3, <2>4, <2>5
    DEF ScriptStep, CloseRequested, ScriptEnds, AtStatement
<1>6. CASE UserStep
  BY <1>1, <1>6
  DEF UserStep, Breakpoint, Continue, Stop, PickObject, linkVars, InCall
<1>7. CASE GuiLoopStep
  <2>1. CASE SetSocket
    BY <1>1, <2>1 DEF SetSocket, InCall
  <2>2. CASE ReadAck \/ ReadNotFound
             \/ \E k \in 1..Len(toGui) : ReadPicked(k) \/ ReadDumped(k)
    BY <1>1, <2>2
    DEF ReadAck, ReadNotFound, ReadPicked, ReadDumped, ReadDocument, ReadLine,
        InCall
  <2>3. CASE Attached
    <3>1. CASE next = "none"
      BY <1>1, <2>3, <3>1 DEF Attached, InCall
    <3>2. CASE next # "none"
      BY <1>2, <2>3, <3>2 DEF Attached, WriteElement, BeginAck, InCall
    <3> QED
      BY <3>1, <3>2
  <2>4. CASE AckReturns
    <3>1. /\ gui = "ack" /\ (Acked \/ Disconnected) /\ gui' = "script"
          /\ UNCHANGED <<issued, app>>
      BY <2>4 DEF AckReturns, AckWaitOver, linkVars
    <3>2. device /\ (~Waiting \/ Disconnected) /\ InCall /\ ~InCall'
      BY <3>1 DEF ReplyInv, Detached, Waiting, Acked, InCall
    <3> QED
      BY <1>3, <1>4, <3>1, <3>2
  <2>5. CASE DumpReturns
    <3>1. gui = "dump" /\ dumped /\ gui' = "script" /\ UNCHANGED <<issued, app>>
      BY <2>5 DEF DumpReturns, linkVars
    <3>2. device /\ ~Waiting /\ InCall /\ ~InCall'
      BY <3>1 DEF ReplyInv, Detached, Waiting, InCall
    <3> QED
      BY <1>3, <1>4, <3>1, <3>2
  <2>6. CASE WriteDie
    <3>1. /\ gui = "ending" /\ (Acked \/ Disconnected) /\ gui' = "dying"
          /\ issued' = issued + 1 /\ app' = app
      BY <2>6 DEF WriteDie, AckWaitOver, BeginAck
    <3>2. device /\ (~Waiting \/ Disconnected) /\ InCall /\ InCall'
      BY <3>1 DEF ReplyInv, Detached, Waiting, Acked, InCall
    <3>3. performed = issued \/ app = "dead"
      BY <1>3, <3>2
    <3> QED
      BY <1>0, <3>1, <3>2, <3>3 DEF Promise!Next, Promise!ReturnAndIssue, InCall
  <2>7. CASE Closed
    <3>1. /\ gui = "dying" /\ (Acked \/ Disconnected) /\ gui' \in {"script", "idle"}
          /\ UNCHANGED <<issued, app>>
      BY <2>7 DEF Closed, AckWaitOver, linkVars, Inv, TypeOK, GuiTypeOK
    <3>2. device /\ (~Waiting \/ Disconnected) /\ InCall /\ ~InCall'
      BY <3>1 DEF ReplyInv, Detached, Waiting, Acked, InCall
    <3> QED
      BY <1>3, <1>4, <3>1, <3>2
  <2> QED
    BY <1>7, <2>1, <2>2, <2>3, <2>4, <2>5, <2>6, <2>7 DEF GuiLoopStep
<1> QED
  BY <1>5, <1>6, <1>7 DEF GuiNext

(* The steps of the application: a request is carried out, the application *)
(* is lost, or nothing that a script sees.                                 *)
LEMMA AppRefines ==
    ASSUME Inv, ReplyInv, ReplyInv', AppNext
    PROVE  [Promise!Next]_(Promise!vars)
<1>0. /\ UNCHANGED <<gui, issued, device>> /\ issued \in Nat /\ performed \in Nat
      /\ UNCHANGED guiVars
  BY DEF AppNext, guiVars, Inv, TypeOK, GuiTypeOK, PlayerTypeOK
<1>1. ASSUME performed' = performed, app' # "dead", app # "dead"
      PROVE  [Promise!Next]_(Promise!vars)
  BY <1>0, <1>1 DEF Promise!vars
<1>2. ASSUME performed' = performed, app' = "dead"
      PROVE  [Promise!Next]_(Promise!vars)
  BY <1>0, <1>2 DEF Promise!Next, Promise!Lose
<1>3. ASSUME performed' = performed + 1, app' # "dead", Running, device
      PROVE  [Promise!Next]_(Promise!vars)
  <2>1. Unread' \/ Queued' \/ Done'
    BY <1>0, <1>3 DEF ReplyInv
  <2>2. issued' \in {performed', performed' + 1}
    BY <2>1 DEF Unread, Queued, Done
  <2>3. performed < issued
    BY <1>0, <1>3, <2>2
  <2> QED
    BY <1>0, <1>3, <2>3 DEF Promise!Next, Promise!Perform, Running
<1>4. CASE ProcessStep
  <2>1. CASE MarshallConnects
    BY <1>1, <2>1 DEF MarshallConnects, playerVars
  <2>2. CASE UserClicks
    BY <1>1, <2>2 DEF UserClicks, EndPick, InEventLoop, Running
  <2>3. CASE DropTargetMissing \/ ProcessMissing \/ ProcessExits \/ ProcessCrashes
    BY <1>2, <2>3
    DEF DropTargetMissing, ProcessMissing, ProcessExits, ProcessCrashes, Aborts,
        PlayerGone
  <2> QED
    BY <1>4, <2>1, <2>2, <2>3 DEF ProcessStep
<1>5. CASE PlayerStep
  <2>1. ASSUME toApp # <<>> \/ Processing \/ timer # "off", Running PROVE device
    <3>1. Processing => doc # "none"
      BY ProcessingAlone DEF Inv
    <3> QED
      BY <2>1, <3>1, LibraryAtWork
  <2>2. ASSUME NEW below, toApp # <<>>, Running, ReadCommand(below)
        PROVE  [Promise!Next]_(Promise!vars)
    <3>1. \/ performed' = performed /\ app' = app
          \/ performed' = performed + 1 /\ app' = "quitting"
          \/ performed' = performed /\ app' = "dead"
      BY <2>2 DEF ReadCommand, Aborts, PlayerGone
    <3> QED
      BY <1>1, <1>2, <1>3, <2>1, <2>2, <3>1 DEF Running
  <2>3. CASE MarshallReads
    BY <2>2, <2>3 DEF MarshallReads, InEventLoop, CanReadLine
  <2>4. CASE ReadyRead \/ InputExhausted \/ ElementRead \/ TrailingElement
             \/ FlushReturns
    BY <1>1, <2>4
    DEF ReadyRead, InputExhausted, ElementRead, TrailingElement, FlushReturns,
        AtEndOfDocument, InEventLoop, Reading, Running, linkVars
  <2>5. CASE EndOfDocument
    <3>1. Running /\ toApp # <<>> /\ performed' = performed + 1 /\ app' = app
      BY <2>5 DEF EndOfDocument, AtEndOfDocument, Reading
    <3> QED
      BY <1>3, <2>1, <3>1 DEF Running
  <2>6. CASE \/ ProcessAck \/ ProcessFound \/ ProcessNotFound \/ ProcessDump
             \/ ProcessFlush \/ ProcessPick \/ ProcessSleep
    <3>1. Processing /\ Running /\ app' = app
      BY <2>6
      DEF ProcessAck, ProcessFound, ProcessNotFound, ProcessDump, ProcessFlush,
          ProcessPick, ProcessSleep, Dequeue, Processing
    <3>2. performed' \in {performed, performed + 1}
      BY <2>6
      DEF ProcessAck, ProcessFound, ProcessNotFound, ProcessDump, ProcessFlush,
          ProcessPick, ProcessSleep, CountCarried
    <3> QED
      BY <1>1, <1>3, <2>1, <3>1, <3>2 DEF Running
  <2>7. CASE QueueEmpty
    <3>1. Running
      BY <2>7 DEF QueueEmpty, Processing
    <3>2. CASE doc = "ended" /\ CanReadLine
      BY <2>2, <2>7, <3>1, <3>2 DEF QueueEmpty, CanReadLine
    <3>3. CASE ~(doc = "ended" /\ CanReadLine)
      BY <1>1, <2>7, <3>1, <3>3 DEF QueueEmpty, linkVars, Running
    <3> QED
      BY <3>2, <3>3
  <2>8. CASE WaitFinished
    <3>1. /\ Running /\ timer # "off" /\ app' = app
          /\ performed' \in {performed, performed + 1}
      BY <2>8 DEF WaitFinished, InEventLoop
    <3> QED
      BY <1>1, <1>3, <2>1, <3>1 DEF Running
  <2>9. CASE DeliverPosted
    BY <1>1, <2>9 DEF DeliverPosted, EndPick, InEventLoop, Running, linkVars
  <2> QED
    BY <1>5, <2>3, <2>4, <2>5, <2>6, <2>7, <2>8, <2>9 DEF PlayerStep
<1> QED
  BY <1>4, <1>5 DEF AppNext

(* A call of a script returns only once the application has carried its    *)
(* request out, or is gone: waitForAck, waitForDumpedObject and            *)
(* closeApplication in the Interpreter against readNext and processEvents  *)
(* in Player implement RemoteCommands.                                     *)
THEOREM RefinementCorrect == Spec => ImplementsRemoteCommands
<1>1. Init => Promise!Init
  BY DEF Init, LinkInit, GuiInit, PlayerInit, Promise!Init
<1>2. Inv /\ ReplyInv /\ ReplyInv' /\ [Next]_vars => [Promise!Next]_(Promise!vars)
  <2> SUFFICES ASSUME Inv, ReplyInv, ReplyInv', [Next]_vars
               PROVE  [Promise!Next]_(Promise!vars)
    OBVIOUS
  <2>1. CASE GuiNext
    BY <2>1, GuiRefines
  <2>2. CASE Spawn
    <3>1. /\ gui = "script" /\ gui' = "attaching" /\ issued' = 0 /\ app' = "starting"
      BY <2>2
      DEF Spawn, SpawnStep, WriteEventUnattached, ConnectRemoteApplication,
          Statement, AtStatement, StartAndWait, SpawnProcess
    <3>2. performed' = 0
      BY <2>2 DEF Spawn, PlayerReset
    <3> QED
      BY <3>1, <3>2 DEF Promise!Next, Promise!Launch
  <2>3. CASE AppNext
    BY <2>3, AppRefines
  <2>4. CASE UNCHANGED vars
    BY <2>4 DEF vars, linkVars, guiVars, playerVars, Promise!vars
  <2> QED
    BY <2>1, <2>2, <2>3, <2>4 DEF Next
<1> QED
  BY <1>1, <1>2, Invariance, ReplyInvariance, PTL
  DEF Spec, ImplementsRemoteCommands, Promise!Spec
=============================================================================
