--------------------------- MODULE SessionProofs ---------------------------
(***************************************************************************)
(* Theorems about Sessions: what recordings and runs over one server keep  *)
(* apart, for any number of applications, log elements and nested runs.    *)
(***************************************************************************)
EXTENDS Sessions, FiniteSetTheorems, TLAPS

AppRecords == [by : Injectors,
               state : {"starting", "connected", "exited"},
               mode : {"none", "RECORD", "PLAY"},
               sent : 0..MaxLog, read : 0..MaxLog]

(* The RemoteConnections there can be: startRecording makes the logger     *)
(* after it deleted the player, so the player is never the first of two.   *)
Shapes == {<<>>, <<"logger">>, <<"player">>, <<"logger", "player">>}

LinkInv ==
    /\ acceptors \in Shapes
    /\ Len(acceptors) = 2 => "runOverRecording" \in odd
    /\ Len(apps) <= MaxApps

(* Who may write to m_xmlDump, or close it, finds it.                      *)
DumpInv ==
    /\ HasLogger => dump # NoDump
    /\ logSocket # NoSocket => dump # NoDump
    /\ Recording /\ dump = NoDump => "restart" \in odd

(* No overlaps but runs in runs.                                           *)
Calm == odd \subseteq {"nested"}

(* The applications of runs that have not connected yet, and the runs that *)
(* wait for one: waitForAttach of the top run is over once something is    *)
(* attached.                                                               *)
StartingPlay ==
    {a \in DOMAIN apps : apps[a].by = "play" /\ apps[a].state = "starting"}
Waiting ==
    {i \in DOMAIN runs :
        runs[i] = "attach" /\ ~(i = Len(runs) /\ attach = "Attached")}

(* Then a recording excludes runs, and an application that is still to     *)
(* connect has a RemoteConnection of its own kind: nothing ever waits in   *)
(* the server's queue.                                                     *)
OneAtATime ==
    /\ pending = <<>>
    /\ Recording => runs = <<>> /\ acceptors = <<"logger">>
    /\ HasLogger => Recording
    /\ runs # <<>> => acceptors = <<"player">>
    /\ attach = "Attached" => device # NoSocket
    /\ \A a \in DOMAIN apps :
            apps[a].by = "record" /\ apps[a].state = "starting"
                => a = gdb["record"]
    /\ Cardinality(StartingPlay) <= Cardinality(Waiting)

(* The dump holds what was read of the application that is recorded.       *)
LogOf(app, log) == \A i \in DOMAIN log : log[i] = [app |-> app, number |-> i]
DumpOfRecording ==
    /\ logSocket \in {NoSocket, gdb["record"]}
    /\ Recording => /\ LogOf(gdb["record"], dump)
                    /\ Len(dump) = apps[gdb["record"]].read

(* Without any overlap there is one run, and it waits for the application  *)
(* it started last.                                                        *)
SingleRun ==
    /\ Len(runs) <= 1
    /\ \A a \in StartingPlay :
            /\ runs = <<"attach">>
            /\ attach = "WaitingForAttach"
            /\ a = gdb["play"]
    /\ attach = "Attached" /\ runs # <<>> => device = gdb["play"]

(* What ToldItsPurpose and ScriptIsPrefixOfItsLog say of calm behaviours.  *)
Purposes ==
    \A a \in DOMAIN apps :
        /\ apps[a].by = "record" => apps[a].mode # "PLAY"
        /\ apps[a].by = "play" => apps[a].mode # "RECORD"
OwnLogs ==
    \A t \in DOMAIN scripts :
        scripts[t] # NoScript => LogOf(scripts[t].app, scripts[t].log)

(* Without runs in runs, the device closeApplication has written </hooq>   *)
(* to is still there when it writes DIE.                                   *)
DeviceInv ==
    /\ "nested" \notin odd =>
        /\ Len(runs) <= 1
        /\ Alive /\ runs # <<>> /\ Top \in {"close", "endClose"}
                => device # NoSocket
    /\ NullDeviceOnlyInNestedRun

(* What holds whatever overlaps; what holds while nothing but runs do; and *)
(* what holds while nothing does.                                          *)
Basic ==
    /\ TypeOK /\ LinkInv /\ DumpInv
    /\ NullSocketOnlyInRunOverRecording /\ NullDumpOnlyAfterRestart
Quiet == OneAtATime /\ DumpOfRecording /\ Purposes /\ OwnLogs
SessionInv ==
    /\ Basic
    /\ DeviceInv
    /\ Calm => Quiet
    /\ odd = {} => SingleRun

-----------------------------------------------------------------------------
(* RemoveFirst and SelectInSeq, unfolded.                                  *)
LEMMA WithoutAt ==
    ASSUME NEW s, NEW who,
           \E i \in 1..Len(s) : s[i] = who
    PROVE  Without(s, who) = RemoveAt(s, Min({i \in 1..Len(s) : s[i] = who}))
  BY DEF Without, RemoveFirst, SelectInSeq

(* A RemoteConnection that is not there is not removed.                    *)
LEMMA WithoutAbsent ==
    ASSUME NEW s, NEW who,
           ~ \E i \in 1..Len(s) : s[i] = who
    PROVE  Without(s, who) = s
  BY DEF Without, RemoveFirst, SelectInSeq

(* The least element is the one Min chooses.                               *)
LEMMA MinIs ==
    ASSUME NEW S \in SUBSET Int, NEW k \in S, \A i \in S : k <= i
    PROVE  Min(S) = k
<1>1. \E x \in S : \A y \in S : x <= y
  OBVIOUS
<1> DEFINE P(x) == x \in S /\ \A y \in S : x <= y
<1>2. P(CHOOSE x : P(x))
  <2>1. \E x : P(x)
    BY <1>1
  <2> HIDE DEF P
  <2> QED
    BY <2>1
<1>3. Min(S) = CHOOSE x : P(x)
  BY DEF Min
<1>4. P(Min(S))
  BY <1>2, <1>3
<1> QED
  <2>1. PICK m : m = Min(S)
    OBVIOUS
  <2>2. m \in Int /\ k \in Int /\ m <= k /\ k <= m
    BY <1>4, <2>1
  <2> QED
    BY <2>1, <2>2

(* What is left when the logger is deleted.                                *)
LEMMA WithoutLogger ==
    /\ Without(<<>>, "logger") = <<>>
    /\ Without(<<"logger">>, "logger") = <<>>
    /\ Without(<<"player">>, "logger") = <<"player">>
    /\ Without(<<"logger", "player">>, "logger") = <<"player">>
<1>1. /\ Without(<<>>, "logger") = <<>>
      /\ Without(<<"player">>, "logger") = <<"player">>
  BY WithoutAbsent
<1>2. Without(<<"logger">>, "logger") = <<>>
  <2> DEFINE s == <<"logger">>
             S == {i \in 1..Len(s) : s[i] = "logger"}
  <2>1. Min(S) = 1
    BY MinIs
  <2>2. Without(s, "logger") = RemoveAt(s, 1)
    BY <2>1, WithoutAt
  <2> QED
    BY <2>2 DEF RemoveAt
<1>3. Without(<<"logger", "player">>, "logger") = <<"player">>
  <2> DEFINE s == <<"logger", "player">>
             S == {i \in 1..Len(s) : s[i] = "logger"}
  <2>1. Min(S) = 1
    BY MinIs
  <2>2. Without(s, "logger") = RemoveAt(s, 1)
    BY <2>1, WithoutAt
  <2> QED
    BY <2>2 DEF RemoveAt
<1> QED
  BY <1>1, <1>2, <1>3

(* The player of a new run takes the place of the one before it, behind a  *)
(* logger.                                                                 *)
LEMMA ReplacedPlayer ==
    /\ Replaced(<<>>, "player") = <<"player">>
    /\ Replaced(<<"logger">>, "player") = <<"logger", "player">>
    /\ Replaced(<<"player">>, "player") = <<"player">>
    /\ Replaced(<<"logger", "player">>, "player") = <<"logger", "player">>
<1>1. /\ Without(<<>>, "player") = <<>>
      /\ Without(<<"logger">>, "player") = <<"logger">>
  BY WithoutAbsent
<1>2. Without(<<"player">>, "player") = <<>>
  <2> DEFINE s == <<"player">>
             S == {i \in 1..Len(s) : s[i] = "player"}
  <2>1. Min(S) = 1
    BY MinIs
  <2>2. Without(s, "player") = RemoveAt(s, 1)
    BY <2>1, WithoutAt
  <2> QED
    BY <2>2 DEF RemoveAt
<1>3. Without(<<"logger", "player">>, "player") = <<"logger">>
  <2> DEFINE s == <<"logger", "player">>
             S == {i \in 1..Len(s) : s[i] = "player"}
  <2>1. Min(S) = 2
    BY MinIs
  <2>2. Without(s, "player") = RemoveAt(s, 2)
    <3>1. \E i \in 1..Len(s) : s[i] = "player"
      OBVIOUS
    <3> HIDE DEF s
    <3> QED
      BY <2>1, <3>1, WithoutAt
  <2> QED
    BY <2>2 DEF RemoveAt
<1>4. Append(<<>>, "player") = <<"player">>
  OBVIOUS
<1>5. Append(<<"logger">>, "player") = <<"logger", "player">>
  <2> DEFINE s == Append(<<"logger">>, "player")
  <2>1. s \in Seq({"logger", "player"}) /\ Len(s) = 2
    OBVIOUS
  <2>2. s[1] = "logger" /\ s[2] = "player"
    OBVIOUS
  <2> HIDE DEF s
  <2>3. s = <<"logger", "player">>
    BY <2>1, <2>2
  <2> QED
    BY <2>3 DEF s
<1> QED
  BY <1>1, <1>2, <1>3, <1>4, <1>5, Zenon DEF Replaced

(* Who is among the RemoteConnections.                                     *)
LEMMA ShapeMembers ==
    /\ ToSet(<<>>) = {}
    /\ ToSet(<<"logger">>) = {"logger"}
    /\ ToSet(<<"player">>) = {"player"}
    /\ ToSet(<<"logger", "player">>) = {"logger", "player"}
<1>1. /\ ToSet(<<>>) = {}
      /\ ToSet(<<"logger">>) = {"logger"}
      /\ ToSet(<<"player">>) = {"player"}
  BY DEF ToSet
<1>2. ToSet(<<"logger", "player">>) = {"logger", "player"}
  BY DEF ToSet
<1> QED
  BY <1>1, <1>2

(* How many they are.                                                      *)
LEMMA ShapeTypes ==
    ASSUME NEW s \in Shapes
    PROVE  /\ s \in Seq({"logger", "player"})
           /\ Len(s) = 2 <=> s = <<"logger", "player">>
           /\ s \in {<<"logger">>, <<"player">>} => Len(s) = 1
<1>1. s = <<>> \/ s = <<"logger">> \/ s = <<"player">>
        \/ s = <<"logger", "player">>
  BY DEF Shapes
<1>2. CASE s = <<>>
  BY <1>2
<1>3. CASE s = <<"logger">>
  BY <1>3
<1>4. CASE s = <<"player">>
  BY <1>4
<1>5. CASE s = <<"logger", "player">>
  BY <1>5
<1> QED
  BY <1>1, <1>2, <1>3, <1>4, <1>5

(* The index SocketOf chooses.                                             *)
LEMMA SocketAt ==
    ASSUME NEW s \in Shapes, NEW q, NEW who, NEW k \in DOMAIN s,
           \A i \in DOMAIN s : s[i] = who <=> i = k
    PROVE  SocketOf(who, s, q) = IF k <= Len(q) THEN q[k] ELSE NoSocket
<1>1. (CHOOSE i \in DOMAIN s : s[i] = who) = k
  OBVIOUS
<1>2. Taken(s, q)[k] = IF k <= Len(q) THEN q[k] ELSE NoSocket
  BY DEF Taken
<1> QED
  BY <1>1, <1>2 DEF SocketOf

(* What the slots of the two RemoteConnections are given: the first one a  *)
(* socket, only the second one may find none.                              *)
LEMMA SocketsTaken ==
    ASSUME NEW n \in Nat, NEW q \in Seq(1..n), q # <<>>, NEW s \in Shapes
    PROVE  /\ "logger" \in ToSet(s) => SocketOf("logger", s, q) = q[1]
           /\ "player" \in ToSet(s) => SocketOf("player", s, q) \in 0..n
           /\ s = <<"player">> => SocketOf("player", s, q) = q[1]
           /\ NoSocket \in ToSet(Taken(s, q)) => Len(s) = 2
<1>0. Len(q) \in Nat /\ Len(q) >= 1 /\ \A i \in 1..Len(q) : q[i] \in 1..n
  OBVIOUS
<1>1. CASE s = <<>>
  <2>1. ToSet(s) = {}
    BY <1>1, ShapeMembers
  <2>2. Taken(s, q) = <<>>
    BY <1>1 DEF Taken
  <2> QED
    BY <1>1, <2>1, <2>2, ShapeMembers
<1>2. CASE s = <<"logger">>
  <2>1. SocketOf("logger", s, q) = IF 1 <= Len(q) THEN q[1] ELSE NoSocket
    BY <1>2, SocketAt
  <2>2. NoSocket \notin ToSet(Taken(s, q))
    BY <1>0, <1>2 DEF Taken, ToSet, NoSocket
  <2> QED
    BY <1>0, <1>2, <2>1, <2>2, ShapeMembers
<1>3. CASE s = <<"player">>
  <2>1. SocketOf("player", s, q) = IF 1 <= Len(q) THEN q[1] ELSE NoSocket
    BY <1>3, SocketAt
  <2>2. NoSocket \notin ToSet(Taken(s, q))
    BY <1>0, <1>3 DEF Taken, ToSet, NoSocket
  <2> QED
    BY <1>0, <1>3, <2>1, <2>2, ShapeMembers
<1>4. CASE s = <<"logger", "player">>
  <2>1. SocketOf("logger", s, q) = IF 1 <= Len(q) THEN q[1] ELSE NoSocket
    <3>1. 1 \in DOMAIN s /\ \A i \in DOMAIN s : s[i] = "logger" <=> i = 1
      BY <1>4
    <3> QED
      BY <3>1, SocketAt, Zenon
  <2>2. SocketOf("player", s, q) = IF 2 <= Len(q) THEN q[2] ELSE NoSocket
    <3>1. 2 \in DOMAIN s /\ \A i \in DOMAIN s : s[i] = "player" <=> i = 2
      BY <1>4
    <3> QED
      BY <3>1, SocketAt, Zenon
  <2>3. 0..n = {0} \cup 1..n /\ Len(s) = 2
    BY <1>4
  <2>4. SocketOf("player", s, q) \in 0..n
    BY <1>0, <2>2, <2>3 DEF NoSocket
  <2>5. SocketOf("logger", s, q) = q[1]
    BY <1>0, <2>1
  <2>6. s # <<"player">>
    BY <1>4
  <2> QED
    BY <2>3, <2>4, <2>5, <2>6
<1> QED
  BY <1>1, <1>2, <1>3, <1>4 DEF Shapes

(* The queue that is left holds sockets of the queue there was, and one    *)
(* RemoteConnection empties a queue of one.                                *)
LEMMA QueueLeft ==
    ASSUME NEW S, NEW q \in Seq(S), NEW s \in Shapes
    PROVE  /\ LeftPending(s, q) \in Seq(S)
           /\ Len(q) = 1 /\ Len(s) = 1 => LeftPending(s, q) = <<>>
<1>1. Len(s) \in Nat /\ Len(q) \in Nat
  BY DEF Shapes
<1> QED
  BY <1>1 DEF LeftPending

-----------------------------------------------------------------------------
(* The application of index a is the one it was, but for its state.        *)
AppKept(a) ==
    /\ apps'[a].by = apps[a].by /\ apps'[a].mode = apps[a].mode
    /\ apps'[a].sent = apps[a].sent /\ apps'[a].read = apps[a].read
    /\ apps'[a].state \in {apps[a].state, "exited"}

(* The type of apps, by index.                                             *)
LEMMA AppsTyped ==
    ASSUME TypeOK
    PROVE  /\ apps \in Seq(AppRecords) /\ Len(apps) \in Nat
           /\ DOMAIN apps = 1..Len(apps)
           /\ \A a \in DOMAIN apps : apps[a] \in AppRecords
<1>1. apps \in Seq(AppRecords)
  BY DEF TypeOK, AppRecords
<1> QED
  BY <1>1

(* startAndAttach adds one application and lets the others be, but for the *)
(* one under the gdb that is killed.                                       *)
LEMMA StartFacts ==
    ASSUME TypeOK, NEW injector \in Injectors, StartAndAttach(injector)
    PROVE  /\ apps' \in Seq(AppRecords)
           /\ Len(apps') = Len(apps) + 1 /\ Len(apps') <= MaxApps
           /\ \A a \in DOMAIN apps : AppKept(a)
           /\ apps'[Len(apps) + 1] =
                [by |-> injector, state |-> "starting", mode |-> "none",
                 sent |-> 0, read |-> 0]
           /\ gdb' \in [Injectors -> 0..Len(apps')]
           /\ \A i \in Injectors :
                gdb'[i] = IF i = injector THEN Len(apps) + 1 ELSE gdb[i]
<1> DEFINE new == [by |-> injector, state |-> "starting", mode |-> "none",
                   sent |-> 0, read |-> 0]
<1>1. MaxApps \in Nat /\ MaxLog \in Nat
  BY SessionsAssumption
<1>2. new \in AppRecords
  BY <1>1 DEF AppRecords
<1>3. PICK left : /\ left \in Seq(AppRecords) /\ Len(left) = Len(apps)
                  /\ \A a \in DOMAIN apps :
                        /\ left[a].by = apps[a].by
                        /\ left[a].mode = apps[a].mode
                        /\ left[a].sent = apps[a].sent
                        /\ left[a].read = apps[a].read
                        /\ left[a].state \in {apps[a].state, "exited"}
                  /\ apps' = Append(left, new)
  <2>1. PICK survives \in BOOLEAN : apps' = Started(injector, survives)
    BY DEF StartAndAttach
  <2>2. CASE gdb[injector] = NoApp \/ survives
    <3>1. apps' = Append(apps, new)
      BY <2>1, <2>2 DEF Started
    <3> QED
      BY <3>1, AppsTyped
  <2>3. CASE ~(gdb[injector] = NoApp \/ survives)
    <3>1. PICK old \in DOMAIN apps : old = gdb[injector]
      BY <2>3, AppsTyped DEF TypeOK, NoApp, NoSocket
    <3> DEFINE left == [apps EXCEPT ![old].state = "exited"]
    <3>2. apps' = Append(left, new)
      BY <2>1, <2>3, <3>1 DEF Started
    <3>3. left \in Seq(AppRecords) /\ Len(left) = Len(apps)
      <4>1. [apps[old] EXCEPT !.state = "exited"] \in AppRecords
        BY AppsTyped DEF AppRecords
      <4> QED
        BY <4>1, AppsTyped
    <3>4. \A a \in DOMAIN apps :
            /\ left[a].by = apps[a].by
            /\ left[a].mode = apps[a].mode
            /\ left[a].sent = apps[a].sent
            /\ left[a].read = apps[a].read
            /\ left[a].state \in {apps[a].state, "exited"}
      BY AppsTyped DEF AppRecords
    <3> QED
      BY <3>2, <3>3, <3>4
  <2> QED
    BY <2>2, <2>3
<1>4. /\ apps' \in Seq(AppRecords) /\ Len(apps') = Len(apps) + 1
      /\ apps'[Len(apps) + 1] = new
      /\ \A a \in DOMAIN apps : apps'[a] = left[a]
  <2> HIDE DEF new
  <2> QED
    BY <1>2, <1>3, AppsTyped
<1>5. \A a \in DOMAIN apps : AppKept(a)
  BY <1>3, <1>4 DEF AppKept
<1>6. /\ gdb' \in [Injectors -> 0..Len(apps')]
      /\ \A i \in Injectors :
            gdb'[i] = IF i = injector THEN Len(apps) + 1 ELSE gdb[i]
  BY <1>4, AppsTyped DEF StartAndAttach, TypeOK
<1>7. Len(apps') <= MaxApps
  BY <1>1, <1>4, AppsTyped DEF StartAndAttach
<1> QED
  BY <1>4, <1>5, <1>6, <1>7

(* An application logs, exits or is read from: its record changes.         *)
LEMMA OneAppFacts ==
    ASSUME TypeOK, NEW a \in DOMAIN apps, NEW r \in AppRecords,
           apps' = [apps EXCEPT ![a] = r]
    PROVE  /\ apps' \in Seq(AppRecords) /\ Len(apps') = Len(apps)
           /\ apps'[a] = r
           /\ \A b \in DOMAIN apps : b # a => apps'[b] = apps[b]
  BY AppsTyped

-----------------------------------------------------------------------------
(* The null m_xmlDump is none of the dumps there can be.                   *)
LEMMA NoDumpApart ==
    /\ NoDump \notin Seq(LogElements)
    /\ <<>> \in Seq(LogElements) /\ <<>> # NoDump
<1>1. ASSUME NoDump \in Seq(LogElements) PROVE FALSE
  <2>1. NoDump[1] \in LogElements /\ NoDump[1].number = 0
    BY <1>1 DEF NoDump
  <2> QED
    BY <2>1, SessionsAssumption DEF LogElements
<1>2. Len(NoDump) = 1
  BY DEF NoDump
<1> QED
  BY <1>1, <1>2

(* finishRecording puts a dump under a name: the scripts keep their type.  *)
LEMMA StoreScriptTyped ==
    ASSUME TypeOK, NEW log \in Seq(LogElements), StoreScript(log),
           gdb["record"] \in DOMAIN apps, DOMAIN apps \subseteq DOMAIN apps'
    PROVE  /\ DOMAIN scripts' = Tests \cup {NoName}
           /\ \A t \in DOMAIN scripts' : scripts'[t] # NoScript =>
                /\ scripts'[t].app \in DOMAIN apps'
                /\ scripts'[t].log \in Seq(LogElements)
           /\ dump' = NoDump /\ nameEdit' \in Tests \cup {NoName}
<1> DEFINE r == [app |-> gdb["record"], log |-> log]
<1>1. r.app = gdb["record"] /\ r.log = log
  OBVIOUS
<1>2. PICK q : q = r
  OBVIOUS
<1>3. scripts' = [scripts EXCEPT ![nameEdit] = q]
  BY <1>2 DEF StoreScript
<1>4. q.app \in DOMAIN apps' /\ q.log \in Seq(LogElements)
  BY <1>1, <1>2
<1>5. DOMAIN scripts' = Tests \cup {NoName}
  BY <1>3 DEF TypeOK
<1>6. ASSUME NEW t \in DOMAIN scripts', scripts'[t] # NoScript
      PROVE  /\ scripts'[t].app \in DOMAIN apps'
             /\ scripts'[t].log \in Seq(LogElements)
  <2>1. CASE t = nameEdit
    <3>1. scripts'[t] = q
      BY <1>3, <1>5, <2>1 DEF TypeOK
    <3> QED
      BY <1>4, <3>1
  <2>2. CASE t # nameEdit
    <3>1. scripts'[t] = scripts[t] /\ t \in DOMAIN scripts
      BY <1>3, <1>5, <1>6, <2>2 DEF TypeOK
    <3> QED
      BY <1>6, <3>1 DEF TypeOK
  <2> QED
    BY <2>1, <2>2
<1> QED
  BY <1>5, <1>6 DEF StoreScript

(* startRecording, over whatever is in progress.                           *)
LEMMA StartRecordingBasic == Basic /\ StartRecording => Basic'
<1> SUFFICES ASSUME Basic, StartRecording PROVE Basic'
  OBVIOUS
<1>0. acceptors' \in Shapes /\ Len(acceptors') # 2
  <2>1. acceptors' = <<>> \/ acceptors' = <<"logger">>
    BY DEF StartRecording
  <2> QED
    BY <2>1 DEF Shapes
<1>1. TypeOK /\ LinkInv /\ StartAndAttach("record")
  BY DEF Basic, StartRecording
<1>2. "record" \in Injectors /\ "play" \in Injectors
  BY DEF Injectors
<1>3. /\ apps' \in Seq(AppRecords) /\ Len(apps') = Len(apps) + 1
      /\ Len(apps') <= MaxApps /\ gdb' \in [Injectors -> 0..Len(apps')]
  BY <1>1, <1>2, StartFacts
<1>4. /\ Len(apps) \in Nat /\ DOMAIN apps = 1..Len(apps)
      /\ DOMAIN apps' = 1..(Len(apps) + 1)
  BY <1>1, <1>3, AppsTyped
<1>5. pending' \in Seq(DOMAIN apps')
  BY <1>4 DEF Basic, TypeOK, StartRecording
<1>6. /\ DOMAIN scripts' = Tests \cup {NoName}
      /\ \A t \in DOMAIN scripts' : scripts'[t] # NoScript =>
            /\ scripts'[t].app \in DOMAIN apps'
            /\ scripts'[t].log \in Seq(LogElements)
      /\ dump' = NoDump \/ dump' \in Seq(LogElements)
      /\ nameEdit' \in Tests \cup {NoName}
  <2>1. CASE Recording
    <3>1. gdb["record"] \in DOMAIN apps
      BY <1>1, <1>2, <1>4, <2>1 DEF TypeOK, Recording, NoApp, NoSocket
    <3>2. StoreScript(<<>>)
      BY <2>1 DEF StartRecording
    <3>3. DOMAIN apps \subseteq DOMAIN apps' /\ <<>> \in Seq(LogElements)
      BY <1>4, NoDumpApart
    <3> QED
      BY <1>1, <3>1, <3>2, <3>3, StoreScriptTyped
  <2>2. CASE ~Recording
    <3>1. UNCHANGED <<scripts, nameEdit>> /\ dump' = <<>>
      BY <2>2 DEF StartRecording
    <3> QED
      BY <1>1, <1>4, <3>1, NoDumpApart DEF TypeOK
  <2> QED
    BY <2>1, <2>2
<1>7. TypeOK'
  <2>1. acceptors' \in Seq({"logger", "player"})
    BY <1>0, ShapeTypes
  <2>2. /\ logSocket' = NoSocket /\ UNCHANGED <<device, attach, uuid, runs, failure>>
        /\ odd' \subseteq odd \cup {"restart", "recordingOverRun"}
    BY DEF StartRecording, runVars
  <2>3. odd' \subseteq Oddities
    BY <1>1, <2>2 DEF TypeOK, Oddities
  <2>4. logSocket' \in 0..Len(apps') /\ device' \in 0..Len(apps')
    BY <1>1, <1>3, <1>4, <2>2 DEF TypeOK, NoSocket
  <2> QED
    BY <1>1, <1>3, <1>5, <1>6, <2>1, <2>2, <2>3, <2>4 DEF TypeOK, AppRecords
<1>8. LinkInv'
  BY <1>0, <1>3 DEF LinkInv
<1>9. DumpInv'
  <2>1. logSocket' = NoSocket
    BY DEF StartRecording
  <2>2. CASE Recording
    <3>1. acceptors' = <<>> /\ "restart" \in odd'
      BY <2>2 DEF StartRecording
    <3> QED
      BY <2>1, <3>1, ShapeMembers DEF DumpInv, HasLogger
  <2>3. CASE ~Recording
    <3>1. dump' # NoDump
      BY <2>3, NoDumpApart DEF StartRecording
    <3> QED
      BY <2>1, <3>1 DEF DumpInv
  <2> QED
    BY <2>2, <2>3
<1>10. /\ NullSocketOnlyInRunOverRecording'
       /\ NullDumpOnlyAfterRestart'
  BY DEF StartRecording, Alive, NullSocketOnlyInRunOverRecording,
         NullDumpOnlyAfterRestart
<1> QED
  BY <1>7, <1>8, <1>9, <1>10 DEF Basic

(* finishRecording, with or without a dump.                                *)
LEMMA FinishRecordingBasic == Basic /\ FinishRecording => Basic'
<1> SUFFICES ASSUME Basic, FinishRecording PROVE Basic'
  OBVIOUS
<1>1. TypeOK /\ LinkInv /\ DumpInv /\ AtFinished
  BY DEF Basic, FinishRecording
<1>2. "record" \in Injectors /\ "play" \in Injectors
  BY DEF Injectors
<1>3. apps' = apps /\ pending' = pending
  BY <1>1 DEF AtFinished
<1>4. Len(apps) \in Nat /\ DOMAIN apps = 1..Len(apps)
  BY <1>1, AppsTyped
<1>5. gdb' \in [Injectors -> 0..Len(apps)] /\ gdb'["record"] = NoApp
  BY <1>1, <1>2, <1>4 DEF TypeOK, FinishRecording, NoApp, NoSocket
<1>6. /\ DOMAIN scripts' = Tests \cup {NoName}
      /\ \A t \in DOMAIN scripts' : scripts'[t] # NoScript =>
            /\ scripts'[t].app \in DOMAIN apps'
            /\ scripts'[t].log \in Seq(LogElements)
      /\ dump' = NoDump
      /\ nameEdit' \in Tests \cup {NoName}
  <2>1. CASE dump = NoDump
    <3>1. UNCHANGED <<scripts, dump, nameEdit>>
      BY <1>1, <2>1 DEF AtFinished
    <3> QED
      BY <1>1, <1>3, <2>1, <3>1 DEF TypeOK
  <2>2. CASE dump # NoDump
    <3>1. gdb["record"] \in DOMAIN apps
      BY <1>1, <1>2, <1>4 DEF AtFinished, TypeOK, Recording, NoApp, NoSocket
    <3>2. StoreScript(dump) /\ dump \in Seq(LogElements)
      BY <1>1, <2>2 DEF AtFinished, TypeOK
    <3> QED
      BY <1>1, <1>3, <3>1, <3>2, StoreScriptTyped
  <2> QED
    BY <2>1, <2>2
<1>7. acceptors' \in {<<>>, <<"player">>}
  BY <1>1, WithoutLogger DEF LinkInv, Shapes, AtFinished
<1>8. logSocket' = NoSocket /\ UNCHANGED <<device, attach, uuid, runs, odd>>
  BY <1>1 DEF AtFinished, runVars
<1>9. /\ failure' \in {"none", "socket", "dump"}
      /\ failure' # "socket"
      /\ failure' = "dump" => dump = NoDump
  BY <1>1 DEF AtFinished, TypeOK, Alive
<1>10. TypeOK'
  <2>1. acceptors' \in Seq({"logger", "player"})
    BY <1>7, ShapeTypes DEF Shapes
  <2>2. logSocket' \in 0..Len(apps')
    BY <1>3, <1>4, <1>8 DEF NoSocket
  <2> QED
    BY <1>1, <1>3, <1>5, <1>6, <1>8, <1>9, <2>1, <2>2 DEF TypeOK
<1>11. LinkInv'
  <2>1. acceptors' \in Shapes /\ Len(acceptors') # 2
    BY <1>7, ShapeTypes DEF Shapes
  <2> QED
    BY <1>1, <1>3, <2>1 DEF LinkInv
<1>12. DumpInv'
  <2>1. ~HasLogger'
    BY <1>7, ShapeMembers DEF HasLogger
  <2> QED
    BY <1>5, <1>8, <2>1 DEF DumpInv, Recording
<1>13. NullSocketOnlyInRunOverRecording' /\ NullDumpOnlyAfterRestart'
  BY <1>1, <1>8, <1>9
  DEF AtFinished, DumpInv, NullSocketOnlyInRunOverRecording,
      NullDumpOnlyAfterRestart
<1> QED
  BY <1>10, <1>11, <1>12, <1>13 DEF Basic

(* A connection: the application that connects becomes connected, and what *)
(* the RemoteConnections are given has a type of its own.                  *)
LEMMA ConnectFacts ==
    ASSUME TypeOK, LinkInv, NEW a \in DOMAIN apps, AppConnects(a)
    PROVE  /\ apps' \in Seq(AppRecords) /\ Len(apps') = Len(apps)
           /\ \A b \in DOMAIN apps :
                /\ apps'[b].by = apps[b].by
                /\ apps'[b].sent = apps[b].sent
                /\ apps'[b].read = apps[b].read
                /\ apps'[b].state = IF a = b THEN "connected" ELSE apps[b].state
                /\ apps'[b].mode =
                     IF HasLogger /\ logSocket' = b THEN "RECORD"
                     ELSE IF HasPlayer /\ device' = b THEN "PLAY"
                     ELSE apps[b].mode
           /\ pending' \in Seq(DOMAIN apps)
           /\ pending = <<>> /\ Len(acceptors) = 1 => pending' = <<>>
           /\ logSocket' \in 0..Len(apps)
           /\ device' \in 0..Len(apps)
           /\ failure' \in {"none", "socket"}
           /\ failure' = "socket" => Len(acceptors) = 2
           /\ pending = <<>> /\ acceptors = <<"logger">> =>
                logSocket' = a /\ device' = device /\ attach' = attach
           /\ pending = <<>> /\ acceptors = <<"player">> =>
                logSocket' = logSocket /\ device' = a /\ attach' = "Attached"
<1> DEFINE queue == Append(pending, a)
           Of(who) == SocketOf(who, acceptors, queue)
<1>1. /\ Len(apps) \in Nat /\ DOMAIN apps = 1..Len(apps)
      /\ \A b \in DOMAIN apps : apps[b] \in AppRecords
  BY AppsTyped
<1>2. /\ queue \in Seq(1..Len(apps)) /\ queue # <<>>
      /\ pending = <<>> => Len(queue) = 1 /\ queue[1] = a
  <2>1. pending \in Seq(1..Len(apps)) /\ a \in 1..Len(apps)
    BY <1>1 DEF TypeOK
  <2>2. queue \in Seq(1..Len(apps)) /\ Len(queue) = Len(pending) + 1
    BY <2>1
  <2>3. queue # <<>>
    BY <2>1, <2>2
  <2>4. ASSUME pending = <<>> PROVE Len(queue) = 1 /\ queue[1] = a
    BY <2>4
  <2> QED
    BY <2>2, <2>3, <2>4
<1>3. acceptors \in Shapes
  BY DEF LinkInv
<1>4. /\ HasLogger => Of("logger") = queue[1]
      /\ HasPlayer => Of("player") \in 0..Len(apps)
      /\ acceptors = <<"player">> => Of("player") = queue[1]
      /\ NoSocket \in ToSet(Taken(acceptors, queue)) => Len(acceptors) = 2
  BY <1>1, <1>2, <1>3, SocketsTaken DEF HasLogger, HasPlayer
<1>5. /\ logSocket' = IF HasLogger THEN Of("logger") ELSE logSocket
      /\ device' = IF HasPlayer THEN Of("player") ELSE device
      /\ attach' = IF HasPlayer THEN "Attached" ELSE attach
      /\ pending' = LeftPending(acceptors, queue)
      /\ failure' = IF NoSocket \in ToSet(Taken(acceptors, queue))
                    THEN "socket" ELSE failure
      /\ failure = "none"
  BY DEF AppConnects, Alive
<1>6. queue[1] \in 1..Len(apps)
  <2> HIDE DEF queue
  <2> QED
    BY <1>2
<1>7. /\ logSocket' \in 0..Len(apps) /\ device' \in 0..Len(apps)
  <2>1. 1..Len(apps) \subseteq 0..Len(apps)
    BY <1>1
  <2>2. logSocket \in 0..Len(apps) /\ device \in 0..Len(apps)
    BY DEF TypeOK
  <2> QED
    BY <1>4, <1>5, <1>6, <2>1, <2>2
<1>8. /\ pending' \in Seq(DOMAIN apps)
      /\ pending = <<>> /\ Len(acceptors) = 1 => pending' = <<>>
  BY <1>1, <1>2, <1>3, <1>5, QueueLeft
<1>9. PICK mode : /\ mode \in [DOMAIN apps -> {"none", "RECORD", "PLAY"}]
                  /\ \A b \in DOMAIN apps :
                        mode[b] = IF HasLogger /\ logSocket' = b THEN "RECORD"
                                  ELSE IF HasPlayer /\ device' = b THEN "PLAY"
                                  ELSE apps[b].mode
                  /\ apps' = [b \in DOMAIN apps |->
                                [apps[b] EXCEPT !.mode = mode[b],
                                    !.state = IF a = b THEN "connected" ELSE @]]
  <2> DEFINE told == [b \in DOMAIN apps |->
                        IF HasLogger /\ Of("logger") = b THEN "RECORD"
                        ELSE IF HasPlayer /\ Of("player") = b THEN "PLAY"
                        ELSE apps[b].mode]
  <2>1. apps' = [b \in DOMAIN apps |->
                   [apps[b] EXCEPT !.mode = told[b],
                       !.state = IF a = b THEN "connected" ELSE @]]
    BY Zenon DEF AppConnects
  <2>2. \A b \in DOMAIN apps :
            /\ told[b] = IF HasLogger /\ logSocket' = b THEN "RECORD"
                         ELSE IF HasPlayer /\ device' = b THEN "PLAY"
                         ELSE apps[b].mode
            /\ told[b] \in {"none", "RECORD", "PLAY"}
    <3> HIDE DEF Of
    <3> QED
      BY <1>1, <1>5 DEF AppRecords
  <2>3. told \in [DOMAIN apps -> {"none", "RECORD", "PLAY"}]
    <3> DEFINE T == {"none", "RECORD", "PLAY"}
    <3>1. \A b \in DOMAIN apps : told[b] \in T
      BY <2>2
    <3>2. told = [b \in DOMAIN apps |-> told[b]]
      BY Zenon
    <3> HIDE DEF told, T
    <3>3. told \in [DOMAIN apps -> T]
      BY <3>1, <3>2, Zenon
    <3> QED
      BY <3>3 DEF T
  <2> HIDE DEF told
  <2> QED
    BY <2>1, <2>2, <2>3
<1>10. \A b \in DOMAIN apps :
         /\ apps'[b] \in AppRecords
         /\ apps'[b].by = apps[b].by
         /\ apps'[b].sent = apps[b].sent
         /\ apps'[b].read = apps[b].read
         /\ apps'[b].state = IF a = b THEN "connected" ELSE apps[b].state
         /\ apps'[b].mode = mode[b]
  <2> SUFFICES ASSUME NEW b \in DOMAIN apps
               PROVE  /\ apps'[b] \in AppRecords
                      /\ apps'[b].by = apps[b].by
                      /\ apps'[b].sent = apps[b].sent
                      /\ apps'[b].read = apps[b].read
                      /\ apps'[b].state =
                            IF a = b THEN "connected" ELSE apps[b].state
                      /\ apps'[b].mode = mode[b]
    OBVIOUS
  <2>1. PICK r \in AppRecords : r = apps[b]
    BY <1>1, Zenon
  <2>2. PICK m \in {"none", "RECORD", "PLAY"} : m = mode[b]
    BY <1>9
  <2>3. PICK st \in {"starting", "connected", "exited"} :
            st = IF a = b THEN "connected" ELSE r.state
    BY DEF AppRecords
  <2>4. PICK e : e = apps'[b]
    BY Zenon
  <2>5. PICK f : f = [r EXCEPT !.mode = m]
    BY Zenon
  <2>6. /\ f \in AppRecords
        /\ f.by = r.by /\ f.sent = r.sent /\ f.read = r.read
        /\ f.mode = m /\ f.state = r.state
    BY <2>5 DEF AppRecords
  <2>7. e = [f EXCEPT !.state = st]
    <3>1. e = [apps[b] EXCEPT !.mode = mode[b],
                        !.state = IF a = b THEN "connected" ELSE @]
      BY <1>9, <2>4, Zenon
    <3>2. e = [f EXCEPT !.state = IF a = b THEN "connected" ELSE f.state]
      BY <2>1, <2>2, <2>5, <3>1, Zenon
    <3> QED
      BY <2>3, <2>6, <3>2, Zenon
  <2>8. /\ e \in AppRecords
        /\ e.by = r.by /\ e.sent = r.sent /\ e.read = r.read
        /\ e.mode = m /\ e.state = st
    BY <2>6, <2>7 DEF AppRecords
  <2> QED
    BY <2>1, <2>2, <2>3, <2>4, <2>8, Zenon
<1>11. apps' \in Seq(AppRecords) /\ Len(apps') = Len(apps)
  <2>1. DOMAIN apps' = 1..Len(apps)
    BY <1>1, <1>9
  <2>2. apps' = [b \in 1..Len(apps) |-> apps'[b]]
    BY <1>1, <1>9, Zenon
  <2> QED
    BY <1>1, <1>10, <2>1, <2>2
<1>12. /\ failure' \in {"none", "socket"}
       /\ failure' = "socket" => Len(acceptors) = 2
  BY <1>4, <1>5
<1>13. /\ pending = <<>> /\ acceptors = <<"logger">> =>
            logSocket' = a /\ device' = device /\ attach' = attach
       /\ pending = <<>> /\ acceptors = <<"player">> =>
            logSocket' = logSocket /\ device' = a /\ attach' = "Attached"
  <2>1. acceptors = <<"logger">> => HasLogger /\ ~HasPlayer
    BY ShapeMembers DEF HasLogger, HasPlayer
  <2>2. acceptors = <<"player">> => HasPlayer /\ ~HasLogger
    BY ShapeMembers DEF HasLogger, HasPlayer
  <2> HIDE DEF Of, queue
  <2> QED
    BY <1>2, <1>4, <1>5, <2>1, <2>2
<1>14. \A b \in DOMAIN apps :
         apps'[b].mode = IF HasLogger /\ logSocket' = b THEN "RECORD"
                         ELSE IF HasPlayer /\ device' = b THEN "PLAY"
                         ELSE apps[b].mode
  <2>1. \A b \in DOMAIN apps : apps'[b].mode = mode[b]
    BY <1>10, Zenon
  <2> QED
    BY <1>9, <2>1, Zenon
<1> QED
  BY <1>7, <1>8, <1>10, <1>11, <1>12, <1>13, <1>14, Zenon

(* A connection, whoever answers it.                                       *)
LEMMA AppConnectsBasic ==
    \A a \in DOMAIN apps : Basic /\ AppConnects(a) => Basic'
<1> SUFFICES ASSUME NEW a \in DOMAIN apps, Basic, AppConnects(a) PROVE Basic'
  OBVIOUS
<1>1. TypeOK /\ LinkInv /\ DumpInv
  BY DEF Basic
<1>2. /\ apps' \in Seq(AppRecords) /\ Len(apps') = Len(apps)
      /\ pending' \in Seq(DOMAIN apps)
      /\ logSocket' \in 0..Len(apps) /\ device' \in 0..Len(apps)
      /\ failure' \in {"none", "socket"}
      /\ failure' = "socket" => Len(acceptors) = 2
  BY <1>1, ConnectFacts
<1>3. DOMAIN apps' = DOMAIN apps
  BY <1>1, <1>2, AppsTyped
<1>4. UNCHANGED <<acceptors, gdb, dump, nameEdit, scripts, uuid, runs, odd>>
  BY DEF AppConnects
<1>5. attach' \in {"NotAttached", "WaitingForAttach", "Attached"}
  BY <1>1 DEF AppConnects, TypeOK
<1>6. TypeOK'
  BY <1>1, <1>2, <1>3, <1>4, <1>5 DEF TypeOK, AppRecords
<1>7. LinkInv'
  BY <1>1, <1>2, <1>4 DEF LinkInv
<1>8. DumpInv'
  <2>1. logSocket' # NoSocket => HasLogger \/ logSocket # NoSocket
    BY DEF AppConnects
  <2> QED
    BY <1>1, <1>4, <2>1 DEF DumpInv, HasLogger, Recording
<1>9. NullSocketOnlyInRunOverRecording' /\ NullDumpOnlyAfterRestart'
  BY <1>1, <1>2, <1>4
  DEF LinkInv, NullSocketOnlyInRunOverRecording, NullDumpOnlyAfterRestart
<1> QED
  BY <1>6, <1>7, <1>8, <1>9 DEF Basic

(* What the other steps on an application leave alone.                     *)
LEMMA AppStepBasic ==
    ASSUME Basic, NEW a \in DOMAIN apps, NEW r \in AppRecords,
           apps' = [apps EXCEPT ![a] = r],
           UNCHANGED <<acceptors, pending, gdb, logSocket, nameEdit, scripts,
                       device, attach, uuid, runs, failure, odd>>,
           dump' = dump \/ dump' \in Seq(LogElements)
    PROVE  Basic'
<1>1. TypeOK /\ LinkInv /\ DumpInv
  BY DEF Basic
<1>2. apps' \in Seq(AppRecords) /\ Len(apps') = Len(apps)
  BY <1>1, OneAppFacts
<1>3. DOMAIN apps' = DOMAIN apps
  BY <1>1, <1>2, AppsTyped
<1>4. TypeOK'
  BY <1>1, <1>2, <1>3 DEF TypeOK, AppRecords
<1>5. LinkInv'
  BY <1>1, <1>2 DEF LinkInv
<1>6. DumpInv'
  BY <1>1, NoDumpApart DEF DumpInv, HasLogger, Recording
<1>7. NullSocketOnlyInRunOverRecording' /\ NullDumpOnlyAfterRestart'
  BY DEF Basic, NullSocketOnlyInRunOverRecording, NullDumpOnlyAfterRestart
<1> QED
  BY <1>4, <1>5, <1>6, <1>7 DEF Basic

(* The record an application has after it logged or exited.                *)
LEMMA AppLogsRecord ==
    ASSUME TypeOK, NEW a \in DOMAIN apps, AppLogs(a)
    PROVE  \E r \in AppRecords :
             /\ apps' = [apps EXCEPT ![a] = r]
             /\ r.by = apps[a].by /\ r.mode = apps[a].mode
             /\ r.state = apps[a].state /\ r.read = apps[a].read
<1>1. apps[a] \in AppRecords
  BY AppsTyped
<1>2. PICK n \in 0..MaxLog : n = apps[a].sent + 1
  BY <1>1, SessionsAssumption DEF AppRecords, AppLogs
<1> DEFINE r == [apps[a] EXCEPT !.sent = n]
<1>3. /\ r \in AppRecords /\ r.by = apps[a].by /\ r.mode = apps[a].mode
      /\ r.state = apps[a].state /\ r.read = apps[a].read
  BY <1>1 DEF AppRecords
<1>4. apps' = [apps EXCEPT ![a] = r]
  BY <1>2 DEF AppLogs
<1> QED
  BY <1>3, <1>4

(* An application that exits keeps all but its state.                      *)
LEMMA AppExitsRecord ==
    ASSUME TypeOK, NEW a \in DOMAIN apps, AppExits(a)
    PROVE  \E r \in AppRecords :
             /\ apps' = [apps EXCEPT ![a] = r]
             /\ r.by = apps[a].by /\ r.mode = apps[a].mode
             /\ r.state = "exited" /\ r.read = apps[a].read
<1>1. apps[a] \in AppRecords
  BY AppsTyped
<1> DEFINE r == [apps[a] EXCEPT !.state = "exited"]
<1>2. /\ r \in AppRecords /\ r.by = apps[a].by /\ r.mode = apps[a].mode
      /\ r.state = "exited" /\ r.read = apps[a].read
  BY <1>1 DEF AppRecords
<1>3. apps' = [apps EXCEPT ![a] = r]
  BY DEF AppExits
<1> QED
  BY <1>2, <1>3

(* A function on an initial segment of the numbers is a sequence.          *)
LEMMA SequenceOf ==
    ASSUME NEW n \in Nat, NEW S, NEW f,
           f = [i \in 1..n |-> f[i]],
           \A i \in 1..n : f[i] \in S
    PROVE  f \in Seq(S) /\ Len(f) = n
  OBVIOUS

(* What logData reads, and the record of the application it is read from.  *)
LEMMA LogDataRecord ==
    ASSUME Basic, LogData
    PROVE  /\ logSocket \in DOMAIN apps
           /\ \E r \in AppRecords :
                /\ apps' = [apps EXCEPT ![logSocket] = r]
                /\ r.by = apps[logSocket].by /\ r.mode = apps[logSocket].mode
                /\ r.state = apps[logSocket].state
                /\ r.read = apps[logSocket].sent
           /\ dump \in Seq(LogElements) /\ dump' \in Seq(LogElements)
<1>1. TypeOK /\ LinkInv /\ DumpInv /\ logSocket # NoSocket
  BY DEF Basic, LogData
<1>2. logSocket \in DOMAIN apps
  BY <1>1, AppsTyped DEF TypeOK, NoSocket
<1>3. apps[logSocket] \in AppRecords
  BY <1>1, <1>2, AppsTyped
<1>4. PICK n \in 0..MaxLog : n = apps[logSocket].sent
  BY <1>3 DEF AppRecords
<1> DEFINE r == [apps[logSocket] EXCEPT !.read = n]
<1>5. /\ r \in AppRecords /\ r.by = apps[logSocket].by
      /\ r.mode = apps[logSocket].mode
      /\ r.state = apps[logSocket].state /\ r.read = n
  BY <1>3 DEF AppRecords
<1>6. apps' = [apps EXCEPT ![logSocket] = r]
  BY <1>4 DEF LogData
<1>7. dump \in Seq(LogElements)
  BY <1>1 DEF DumpInv, TypeOK
<1>8. Unread(logSocket) \in Seq(LogElements)
  <2>1. PICK m \in 0..MaxLog : m = apps[logSocket].read
    BY <1>3 DEF AppRecords
  <2>2. m < n /\ MaxLog \in Nat /\ n - m \in Nat
    BY <1>4, <2>1, SessionsAssumption DEF LogData
  <2>3. logSocket \in 1..MaxApps
    BY <1>1, <1>2, AppsTyped, SessionsAssumption DEF LinkInv
  <2>4. Unread(logSocket) =
            [i \in 1..(n - m) |-> [app |-> logSocket, number |-> m + i]]
    BY <1>4, <2>1 DEF Unread
  <2>5. \A i \in 1..(n - m) :
            [app |-> logSocket, number |-> m + i] \in LogElements
    BY <2>2, <2>3 DEF LogElements
  <2>6. /\ Unread(logSocket) =
            [i \in 1..(n - m) |-> Unread(logSocket)[i]]
        /\ \A i \in 1..(n - m) : Unread(logSocket)[i] \in LogElements
    BY <2>4, <2>5, Zenon
  <2> QED
    BY <2>2, <2>6, SequenceOf
<1>9. dump' \in Seq(LogElements)
  BY <1>7, <1>8 DEF LogData
<1> QED
  BY <1>2, <1>4, <1>5, <1>6, <1>7, <1>9

(* The steps of an application, and the reading of its log.                *)
LEMMA AppStepsBasic ==
    /\ \A a \in DOMAIN apps : Basic /\ AppLogs(a) => Basic'
    /\ \A a \in DOMAIN apps : Basic /\ AppExits(a) => Basic'
    /\ Basic /\ LogData => Basic'
<1>1. ASSUME NEW a \in DOMAIN apps, Basic, AppLogs(a) PROVE Basic'
  <2>1. PICK r \in AppRecords : apps' = [apps EXCEPT ![a] = r]
    BY <1>1, AppLogsRecord DEF Basic
  <2> QED
    BY <1>1, <2>1, AppStepBasic DEF AppLogs, recordVars, runVars
<1>2. ASSUME NEW a \in DOMAIN apps, Basic, AppExits(a) PROVE Basic'
  <2>1. PICK r \in AppRecords : apps' = [apps EXCEPT ![a] = r]
    BY <1>2, AppExitsRecord DEF Basic
  <2> QED
    BY <1>2, <2>1, AppStepBasic DEF AppExits, recordVars, runVars
<1>3. ASSUME Basic, LogData PROVE Basic'
  <2>1. PICK r \in AppRecords : apps' = [apps EXCEPT ![logSocket] = r]
    BY <1>3, LogDataRecord
  <2>2. logSocket \in DOMAIN apps /\ dump' \in Seq(LogElements)
    BY <1>3, LogDataRecord
  <2> QED
    BY <1>3, <2>1, <2>2, AppStepBasic DEF LogData, runVars
<1> QED
  BY <1>1, <1>2, <1>3

(* What a run may be waiting in.                                           *)
LEMMA WaitsAre ==
    Waits = {"script", "attach", "close", "die", "endClose", "endDie"}
  BY DEF Waits, ScriptCloses, EndCloses

(* The runs: where the top one stands, and what is below it.               *)
LEMMA RunsTyped ==
    ASSUME TypeOK, runs # <<>>
    PROVE  /\ Len(runs) \in Nat /\ Len(runs) >= 1
           /\ DOMAIN runs = 1..Len(runs)
           /\ \A at \in Waits : Move(at) =>
                /\ runs' \in Seq(Waits)
                /\ Len(runs') = Len(runs) /\ DOMAIN runs' = DOMAIN runs
                /\ runs'[Len(runs)] = at
                /\ \A i \in DOMAIN runs : i # Len(runs) => runs'[i] = runs[i]
           /\ runs' = Front(runs) =>
                /\ runs' \in Seq(Waits)
                /\ Len(runs') = Len(runs) - 1
                /\ DOMAIN runs' = 1..(Len(runs) - 1)
                /\ \A i \in 1..(Len(runs) - 1) : runs'[i] = runs[i]
<1>1. runs \in Seq(Waits)
  BY DEF TypeOK
<1>2. Len(runs) \in Nat /\ Len(runs) >= 1 /\ DOMAIN runs = 1..Len(runs)
  BY <1>1
<1>3. ASSUME NEW at \in Waits, Move(at)
      PROVE  /\ runs' \in Seq(Waits)
             /\ Len(runs') = Len(runs) /\ DOMAIN runs' = DOMAIN runs
             /\ runs'[Len(runs)] = at
             /\ \A i \in DOMAIN runs : i # Len(runs) => runs'[i] = runs[i]
  BY <1>1, <1>2, <1>3 DEF Move
<1>4. ASSUME runs' = Front(runs)
      PROVE  /\ runs' \in Seq(Waits)
             /\ Len(runs') = Len(runs) - 1
             /\ DOMAIN runs' = 1..(Len(runs) - 1)
             /\ \A i \in 1..(Len(runs) - 1) : runs'[i] = runs[i]
  BY <1>1, <1>2, <1>4 DEF Front
<1> QED
  BY <1>2, <1>3, <1>4

(* runTestScript, over whatever is in progress.                            *)
LEMMA RunTestScriptBasic == Basic /\ RunTestScript => Basic'
<1> SUFFICES ASSUME Basic, RunTestScript PROVE Basic'
  OBVIOUS
<1>1. TypeOK /\ LinkInv /\ DumpInv
  BY DEF Basic
<1>2. UNCHANGED <<pending, apps, gdb, logSocket, dump, nameEdit, scripts,
                  device, failure>>
  BY DEF RunTestScript, recordVars
<1>3. /\ acceptors' \in Shapes
      /\ Len(acceptors') = 2 => HasLogger
      /\ HasLogger' => HasLogger
  <2>1. acceptors' = Replaced(acceptors, "player")
    BY DEF RunTestScript
  <2>2. CASE acceptors = <<>> \/ acceptors = <<"player">>
    <3>1. acceptors' = <<"player">>
      BY <2>1, <2>2, ReplacedPlayer
    <3> QED
      BY <3>1, ShapeMembers DEF Shapes, HasLogger
  <2>3. CASE acceptors = <<"logger">> \/ acceptors = <<"logger", "player">>
    <3>1. acceptors' = <<"logger", "player">> /\ HasLogger
      BY <2>1, <2>3, ReplacedPlayer, ShapeMembers DEF HasLogger
    <3> QED
      BY <3>1 DEF Shapes
  <2> QED
    BY <1>1, <2>2, <2>3 DEF LinkInv, Shapes
<1>4. /\ odd \subseteq odd' /\ odd' \subseteq Oddities
      /\ HasLogger => "runOverRecording" \in odd'
  BY <1>1 DEF TypeOK, RunTestScript, Oddities
<1>5. TypeOK'
  <2>1. runs' \in Seq(Waits)
    BY <1>1, WaitsAre DEF TypeOK, RunTestScript
  <2>2. attach' = "NotAttached" /\ uuid' = FALSE
    BY DEF RunTestScript
  <2>3. acceptors' \in Seq({"logger", "player"})
    BY <1>3, ShapeTypes
  <2> QED
    BY <1>1, <1>2, <1>4, <2>1, <2>2, <2>3 DEF TypeOK
<1>6. LinkInv'
  BY <1>1, <1>2, <1>3, <1>4 DEF LinkInv
<1>7. DumpInv'
  BY <1>1, <1>2, <1>3, <1>4 DEF DumpInv, Recording
<1>8. NullSocketOnlyInRunOverRecording' /\ NullDumpOnlyAfterRestart'
  BY <1>2, <1>4
  DEF Basic, NullSocketOnlyInRunOverRecording, NullDumpOnlyAfterRestart
<1> QED
  BY <1>5, <1>6, <1>7, <1>8 DEF Basic

(* A statement that starts an application.                                 *)
LEMMA StartApplicationBasic ==
    \A spawned \in BOOLEAN : Basic /\ StartApplication(spawned) => Basic'
<1> SUFFICES ASSUME NEW spawned \in BOOLEAN, Basic, StartApplication(spawned)
             PROVE  Basic'
  OBVIOUS
<1>1. TypeOK /\ LinkInv /\ DumpInv /\ StartAndAttach("play") /\ runs # <<>>
  BY DEF Basic, StartApplication, Running
<1>2. "record" \in Injectors /\ "play" \in Injectors
  BY DEF Injectors
<1>3. /\ apps' \in Seq(AppRecords) /\ Len(apps') = Len(apps) + 1
      /\ Len(apps') <= MaxApps /\ gdb' \in [Injectors -> 0..Len(apps')]
      /\ gdb'["record"] = gdb["record"]
  BY <1>1, <1>2, StartFacts
<1>4. /\ Len(apps) \in Nat /\ DOMAIN apps = 1..Len(apps)
      /\ DOMAIN apps' = 1..(Len(apps) + 1)
  BY <1>1, <1>3, AppsTyped
<1>5. UNCHANGED <<acceptors, pending, logSocket, dump, nameEdit, scripts,
                  device, failure>>
  BY DEF StartApplication, recordVars
<1>6. odd \subseteq odd' /\ odd' \subseteq Oddities
  BY <1>1 DEF TypeOK, StartApplication, Oddities
<1>7. TypeOK'
  <2>1. runs' \in Seq(Waits)
    BY <1>1, RunsTyped, WaitsAre DEF StartApplication
  <2>2. /\ attach' \in {"NotAttached", "WaitingForAttach", "Attached"}
        /\ uuid' \in BOOLEAN
    BY <1>1 DEF TypeOK, StartApplication
  <2>3. pending' \in Seq(DOMAIN apps')
    BY <1>1, <1>4, <1>5 DEF TypeOK
  <2>4. {logSocket', device'} \subseteq 0..Len(apps')
    BY <1>1, <1>3, <1>4, <1>5 DEF TypeOK
  <2>5. \A t \in DOMAIN scripts' : scripts'[t] # NoScript =>
            /\ scripts'[t].app \in DOMAIN apps'
            /\ scripts'[t].log \in Seq(LogElements)
    BY <1>1, <1>4, <1>5 DEF TypeOK
  <2> QED
    BY <1>1, <1>3, <1>5, <1>6, <2>1, <2>2, <2>3, <2>4, <2>5
    DEF TypeOK, AppRecords
<1>8. LinkInv'
  BY <1>1, <1>3, <1>5, <1>6 DEF LinkInv
<1>9. DumpInv'
  BY <1>1, <1>3, <1>5, <1>6 DEF DumpInv, Recording, HasLogger
<1>10. NullSocketOnlyInRunOverRecording' /\ NullDumpOnlyAfterRestart'
  BY <1>5, <1>6
  DEF Basic, NullSocketOnlyInRunOverRecording, NullDumpOnlyAfterRestart
<1> QED
  BY <1>7, <1>8, <1>9, <1>10 DEF Basic

(* The steps that touch no RemoteConnection, application or dump.          *)
LEMMA OtherStepBasic ==
    ASSUME Basic,
           UNCHANGED <<acceptors, pending, apps, gdb, logSocket, dump,
                       scripts, odd>>,
           failure' \in {failure, "device"},
           nameEdit' \in Tests \cup {NoName},
           device' \in {device, NoSocket},
           attach' \in {"NotAttached", "WaitingForAttach", "Attached"},
           uuid' \in BOOLEAN,
           runs' \in Seq(Waits)
    PROVE  Basic'
<1>1. device' \in 0..Len(apps)
  BY AppsTyped DEF Basic, TypeOK, NoSocket
<1>2. failure' \in {"none", "socket", "dump", "device"}
  BY DEF Basic, TypeOK
<1>3. TypeOK'
  BY <1>1, <1>2 DEF Basic, TypeOK
<1>4. LinkInv'
  BY DEF Basic, LinkInv
<1>5. DumpInv'
  BY DEF Basic, DumpInv, HasLogger, Recording
<1>6. NullSocketOnlyInRunOverRecording' /\ NullDumpOnlyAfterRestart'
  BY DEF Basic, NullSocketOnlyInRunOverRecording, NullDumpOnlyAfterRestart
<1> QED
  BY <1>3, <1>4, <1>5, <1>6 DEF Basic

(* What they may change keeps its type when they do not.                   *)
LEMMA RunVarsTyped ==
    ASSUME Basic
    PROVE  /\ nameEdit \in Tests \cup {NoName}
           /\ attach \in {"NotAttached", "WaitingForAttach", "Attached"}
           /\ uuid \in BOOLEAN
           /\ runs \in Seq(Waits)
           /\ \A at \in {"script", "close", "die", "endClose", "endDie"} :
                runs # <<>> /\ Move(at) => runs' \in Seq(Waits)
           /\ runs # <<>> /\ runs' = Front(runs) => runs' \in Seq(Waits)
<1>1. TypeOK
  BY DEF Basic
<1> QED
  BY <1>1, RunsTyped, WaitsAre DEF TypeOK

(* The steps that touch no RemoteConnection, application or dump.          *)
LEMMA OtherStepsBasic ==
    /\ \A name \in Tests \cup {NoName} : Basic /\ TypeName(name) => Basic'
    /\ Basic /\ Attached => Basic'
    /\ Basic /\ CloseApplication => Basic'
    /\ Basic /\ RunEnds => Basic'
    /\ Basic /\ RunEndsUnclosed => Basic'
    /\ Basic /\ WriteDie => Basic'
    /\ Basic /\ ApplicationClosed => Basic'
    /\ Basic /\ UNCHANGED vars => Basic'
<1>1. ASSUME NEW name \in Tests \cup {NoName}, Basic, TypeName(name)
      PROVE  Basic'
  BY <1>1, RunVarsTyped, OtherStepBasic DEF TypeName, linkVars, runVars
<1>2. ASSUME Basic, Attached PROVE Basic'
  <2>1. runs' \in Seq(Waits)
    BY <1>2, RunVarsTyped DEF Attached, Running
  <2> QED
    BY <1>2, <2>1, RunVarsTyped, OtherStepBasic
    DEF Attached, linkVars, recordVars
<1>3. ASSUME Basic, NEW wait \in EndCloses \cup ScriptCloses, StartClose(wait)
      PROVE  Basic'
  <2>1. runs' \in Seq(Waits)
    BY <1>3, RunVarsTyped DEF StartClose, Running, EndCloses, ScriptCloses
  <2> QED
    BY <1>3, <2>1, RunVarsTyped, OtherStepBasic
    DEF StartClose, linkVars, recordVars
<1>4. ASSUME Basic, CloseApplication PROVE Basic'
  BY <1>3, <1>4 DEF CloseApplication, ScriptCloses
<1>5. ASSUME Basic, RunEnds PROVE Basic'
  BY <1>3, <1>5 DEF RunEnds, EndCloses
<1>6. ASSUME Basic, RunEndsUnclosed PROVE Basic'
  <2>1. runs' \in Seq(Waits)
    BY <1>6, RunVarsTyped DEF RunEndsUnclosed, Running
  <2> QED
    BY <1>6, <2>1, RunVarsTyped, OtherStepBasic
    DEF RunEndsUnclosed, linkVars, recordVars
<1>7. ASSUME Basic, WriteDie PROVE Basic'
  <2>1. runs' \in Seq(Waits) /\ failure' \in {failure, "device"}
    BY <1>7, RunVarsTyped DEF WriteDie
  <2> QED
    BY <1>7, <2>1, RunVarsTyped, OtherStepBasic
    DEF WriteDie, linkVars, recordVars
<1>8. ASSUME Basic, ApplicationClosed PROVE Basic'
  <2>1. runs' \in Seq(Waits)
    BY <1>8, RunVarsTyped DEF ApplicationClosed
  <2>2. uuid' \in BOOLEAN /\ device' = NoSocket /\ attach' = "NotAttached"
    BY <1>8 DEF ApplicationClosed
  <2> QED
    BY <1>8, <2>1, <2>2, RunVarsTyped, OtherStepBasic
    DEF ApplicationClosed, linkVars, recordVars
<1>9. ASSUME Basic, UNCHANGED vars PROVE Basic'
  BY <1>9, RunVarsTyped, OtherStepBasic DEF vars, linkVars, recordVars, runVars
<1> QED
  BY <1>1, <1>2, <1>4, <1>5, <1>6, <1>7, <1>8, <1>9

(* A window that was just opened.                                          *)
LEMMA InitBasic == Init => Basic
<1> SUFFICES ASSUME Init PROVE Basic
  OBVIOUS
<1>1. MaxApps \in Nat /\ MaxLog \in Nat
  BY SessionsAssumption
<1>2. TypeOK
  <2>1. /\ acceptors \in Seq({"logger", "player"})
        /\ pending \in Seq(DOMAIN apps) /\ runs \in Seq(Waits)
        /\ apps \in Seq(AppRecords) /\ Len(apps) = 0
    BY DEF Init
  <2>2. /\ gdb \in [Injectors -> 0..Len(apps)]
        /\ {logSocket, device} \subseteq 0..Len(apps)
    BY <2>1 DEF Init, NoApp, NoSocket
  <2>3. /\ DOMAIN scripts = Tests \cup {NoName}
        /\ \A t \in DOMAIN scripts : scripts[t] = NoScript
    BY DEF Init
  <2>4. /\ dump = NoDump /\ nameEdit = NoName
        /\ attach = "NotAttached" /\ uuid \in BOOLEAN
        /\ failure = "none" /\ odd = {}
    BY DEF Init
  <2> QED
    BY <2>1, <2>2, <2>3, <2>4 DEF TypeOK, AppRecords
<1>3. LinkInv
  BY <1>1 DEF Init, LinkInv, Shapes
<1>4. DumpInv
  <2>1. ~HasLogger
    BY ShapeMembers DEF Init, HasLogger
  <2>2. ~Recording
    BY DEF Init, Recording, Injectors
  <2> QED
    BY <2>1, <2>2 DEF Init, DumpInv
<1>5. NullSocketOnlyInRunOverRecording /\ NullDumpOnlyAfterRestart
  BY DEF Init, NullSocketOnlyInRunOverRecording, NullDumpOnlyAfterRestart
<1> QED
  BY <1>2, <1>3, <1>4, <1>5 DEF Basic

(* Basic is inductive.                                                     *)
LEMMA NextBasic == Basic /\ [Next]_vars => Basic'
  BY StartRecordingBasic, FinishRecordingBasic, AppConnectsBasic,
     AppStepsBasic, RunTestScriptBasic, StartApplicationBasic,
     OtherStepsBasic, Zenon
  DEF Next

-----------------------------------------------------------------------------
(* Counting the applications that start and the runs that wait for one.    *)
LEMMA Countable ==
    ASSUME NEW n \in Nat, NEW S \in SUBSET (1..n)
    PROVE  IsFiniteSet(S) /\ Cardinality(S) \in Nat
<1>1. IsFiniteSet(1..n)
  BY FS_Interval
<1>2. IsFiniteSet(S)
  BY <1>1, FS_Subset
<1> QED
  BY <1>2, FS_CardinalityType

(* Fewer applications, more runs.                                          *)
LEMMA CountKept ==
    ASSUME NEW S, NEW T, NEW S2, NEW T2, IsFiniteSet(S), IsFiniteSet(T2),
           Cardinality(S) <= Cardinality(T), S2 \subseteq S, T \subseteq T2
    PROVE  Cardinality(S2) <= Cardinality(T2)
<1>1. IsFiniteSet(T) /\ Cardinality(T) <= Cardinality(T2)
  BY FS_Subset
<1>2. IsFiniteSet(S2) /\ Cardinality(S2) <= Cardinality(S)
  BY FS_Subset
<1>3. /\ Cardinality(S) \in Nat /\ Cardinality(S2) \in Nat
      /\ Cardinality(T) \in Nat /\ Cardinality(T2) \in Nat
  BY <1>1, <1>2, FS_CardinalityType
<1> QED
  BY <1>1, <1>2, <1>3

(* An application more, and a run that waits for it.                       *)
LEMMA CountBoth ==
    ASSUME NEW S, NEW T, NEW S2, NEW x, NEW y,
           IsFiniteSet(S), IsFiniteSet(T),
           Cardinality(S) <= Cardinality(T),
           S2 \subseteq S \cup {x}, y \notin T
    PROVE  Cardinality(S2) <= Cardinality(T \cup {y})
<1>1. /\ IsFiniteSet(S \cup {x}) /\ Cardinality(S \cup {x}) <= Cardinality(S) + 1
  <2>1. IsFiniteSet(S \cup {x})
    BY FS_AddElement
  <2>2. \/ Cardinality(S \cup {x}) = Cardinality(S)
        \/ Cardinality(S \cup {x}) = Cardinality(S) + 1
    BY FS_AddElement
  <2>3. Cardinality(S) \in Nat
    BY FS_CardinalityType
  <2> QED
    BY <2>1, <2>2, <2>3
<1>2. Cardinality(T \cup {y}) = Cardinality(T) + 1
  BY FS_AddElement
<1>3. IsFiniteSet(S2) /\ Cardinality(S2) <= Cardinality(S \cup {x})
  BY <1>1, FS_Subset
<1>4. /\ Cardinality(S) \in Nat /\ Cardinality(S2) \in Nat
      /\ Cardinality(T) \in Nat /\ Cardinality(S \cup {x}) \in Nat
  BY <1>1, <1>3, FS_CardinalityType
<1> QED
  BY <1>1, <1>2, <1>3, <1>4

(* An application less, and at most one run less.                          *)
LEMMA CountLess ==
    ASSUME NEW S, NEW T, NEW T2, NEW x \in S, NEW y,
           IsFiniteSet(S), IsFiniteSet(T), IsFiniteSet(T2),
           Cardinality(S) <= Cardinality(T), T \ {y} \subseteq T2
    PROVE  Cardinality(S \ {x}) <= Cardinality(T2)
<1>1. /\ Cardinality(S \ {x}) = Cardinality(S) - 1
  BY FS_RemoveElement
<1>2. /\ IsFiniteSet(T \ {y}) /\ Cardinality(T \ {y}) >= Cardinality(T) - 1
  <2>1. CASE y \in T
    <3>1. IsFiniteSet(T \ {y}) /\ Cardinality(T \ {y}) = Cardinality(T) - 1
      BY <2>1, FS_RemoveElement
    <3>2. Cardinality(T) \in Nat
      BY FS_CardinalityType
    <3> QED
      BY <3>1, <3>2
  <2>2. CASE y \notin T
    <3>1. T \ {y} = T /\ Cardinality(T) \in Nat
      BY <2>2, FS_CardinalityType
    <3> QED
      BY <3>1
  <2> QED
    BY <2>1, <2>2
<1>3. Cardinality(T \ {y}) <= Cardinality(T2)
  BY <1>2, FS_Subset
<1>4. /\ Cardinality(S) \in Nat /\ Cardinality(T) \in Nat
      /\ Cardinality(T2) \in Nat /\ Cardinality(T \ {y}) \in Nat
  BY <1>2, FS_CardinalityType
<1> QED
  BY <1>1, <1>2, <1>3, <1>4

(* An application that starts has a run that waits.                        *)
LEMMA CountSome ==
    ASSUME NEW S, NEW T, IsFiniteSet(S), S # {},
           Cardinality(S) <= Cardinality(T)
    PROVE  T # {}
<1>1. Cardinality(S) \in Nat /\ Cardinality(S) # 0
  BY FS_CardinalityType, FS_EmptySet
<1>2. Cardinality({}) = 0
  BY FS_EmptySet
<1> QED
  BY <1>1, <1>2

(* Both sets are finite.                                                   *)
LEMMA Counted ==
    ASSUME TypeOK
    PROVE  IsFiniteSet(StartingPlay) /\ IsFiniteSet(Waiting)
<1>1. StartingPlay \in SUBSET (1..Len(apps)) /\ Len(apps) \in Nat
  BY AppsTyped DEF StartingPlay
<1>2. Waiting \in SUBSET (1..Len(runs)) /\ Len(runs) \in Nat
  BY DEF TypeOK, Waiting
<1> QED
  BY <1>1, <1>2, Countable

(* While nothing but runs overlap, an application that connects meets the  *)
(* one RemoteConnection of its kind.                                       *)
LEMMA StartingMeets ==
    ASSUME Basic, Quiet, NEW a \in DOMAIN apps, apps[a].state = "starting"
    PROVE  \/ /\ apps[a].by = "record" /\ a = gdb["record"]
              /\ acceptors = <<"logger">> /\ runs = <<>>
           \/ /\ apps[a].by = "play" /\ a \in StartingPlay
              /\ acceptors = <<"player">> /\ runs # <<>> /\ ~Recording
<1>1. TypeOK /\ OneAtATime
  BY DEF Basic, Quiet
<1>2. apps[a] \in AppRecords /\ a # NoApp
  BY <1>1, AppsTyped DEF NoApp, NoSocket
<1>3. CASE apps[a].by = "record"
  BY <1>1, <1>2, <1>3 DEF OneAtATime, Recording
<1>4. CASE apps[a].by = "play"
  <2>1. a \in StartingPlay
    BY <1>4 DEF StartingPlay
  <2>2. Waiting # {}
    BY <1>1, <2>1, Counted, CountSome DEF OneAtATime
  <2>3. runs # <<>>
    BY <2>2 DEF Waiting
  <2> QED
    BY <1>1, <1>4, <2>1, <2>3 DEF OneAtATime
<1> QED
  BY <1>2, <1>3, <1>4 DEF AppRecords, Injectors

-----------------------------------------------------------------------------
(* A recording begins where neither another one nor a run is in progress.  *)
LEMMA StartRecordingQuiet ==
    ASSUME Basic, Quiet, StartRecording, Calm'
    PROVE  Quiet' /\ ~Recording /\ runs = <<>> /\ StartingPlay' \subseteq StartingPlay
<1>1. TypeOK /\ OneAtATime /\ StartAndAttach("record")
  BY DEF Basic, Quiet, StartRecording
<1>2. ~Recording /\ runs = <<>>
  BY DEF StartRecording, Calm
<1>3. /\ acceptors' = <<"logger">> /\ dump' = <<>> /\ logSocket' = NoSocket
      /\ UNCHANGED <<scripts, pending, device, attach, runs>>
  BY <1>2 DEF StartRecording, runVars
<1>4. "record" \in Injectors
  BY DEF Injectors
<1>5. /\ apps' \in Seq(AppRecords) /\ Len(apps') = Len(apps) + 1
      /\ \A a \in DOMAIN apps : AppKept(a)
      /\ apps'[Len(apps) + 1] =
            [by |-> "record", state |-> "starting", mode |-> "none",
             sent |-> 0, read |-> 0]
      /\ gdb'["record"] = Len(apps) + 1
  BY <1>1, <1>4, StartFacts
<1>6. /\ Len(apps) \in Nat /\ DOMAIN apps = 1..Len(apps)
      /\ DOMAIN apps' = DOMAIN apps \cup {Len(apps) + 1}
      /\ \A a \in DOMAIN apps : a # NoApp
  BY <1>1, <1>5, AppsTyped DEF NoApp, NoSocket
<1>7. Recording' /\ HasLogger'
  BY <1>3, <1>5, <1>6, ShapeMembers DEF Recording, HasLogger, NoApp, NoSocket
<1>8. \A a \in DOMAIN apps' :
        apps'[a].by = "record" /\ apps'[a].state = "starting"
            => a = gdb'["record"]
  BY <1>1, <1>2, <1>5, <1>6 DEF AppKept, OneAtATime, Recording
<1>9. StartingPlay' \subseteq StartingPlay
  BY <1>5, <1>6 DEF StartingPlay, AppKept
<1>10. Cardinality(StartingPlay') <= Cardinality(Waiting')
  <2>1. Waiting' = Waiting
    BY <1>3 DEF Waiting
  <2> QED
    BY <1>1, <1>9, <2>1, Counted, CountKept DEF OneAtATime
<1>11. OneAtATime'
  BY <1>1, <1>2, <1>3, <1>7, <1>8, <1>10 DEF OneAtATime
<1>12. DumpOfRecording'
  <2>1. LogOf(gdb'["record"], <<>>)
    BY DEF LogOf
  <2>2. Len(dump') = apps'[gdb'["record"]].read
    BY <1>3, <1>5
  <2> QED
    BY <1>3, <2>1, <2>2 DEF DumpOfRecording
<1>13. Purposes'
  BY <1>5, <1>6 DEF Quiet, Purposes, AppKept
<1>14. OwnLogs'
  BY <1>3 DEF Quiet, OwnLogs
<1> QED
  BY <1>2, <1>9, <1>11, <1>12, <1>13, <1>14 DEF Quiet

(* It ends with its own log under the name in the edit.                    *)
LEMMA FinishRecordingQuiet ==
    ASSUME Basic, Calm, Quiet, FinishRecording
    PROVE  Quiet'
<1>1. TypeOK /\ OneAtATime /\ AtFinished /\ Recording
  BY DEF Basic, Quiet, FinishRecording, AtFinished
<1>2. runs = <<>> /\ acceptors = <<"logger">> /\ dump # NoDump
  BY <1>1 DEF OneAtATime, Basic, DumpInv, Calm
<1>3. /\ acceptors' = <<>> /\ logSocket' = NoSocket
      /\ UNCHANGED <<pending, apps, device, attach, runs>>
      /\ StoreScript(dump)
  BY <1>1, <1>2, WithoutLogger DEF AtFinished, runVars
<1>4. "record" \in Injectors /\ "play" \in Injectors
  BY DEF Injectors
<1>5. gdb'["record"] = NoApp
  BY <1>1, <1>4 DEF FinishRecording, TypeOK
<1>6. ~Recording' /\ ~HasLogger'
  BY <1>3, <1>5, ShapeMembers DEF Recording, HasLogger
<1>7. \A a \in DOMAIN apps :
        ~(apps[a].by = "record" /\ apps[a].state = "starting")
  BY <1>1 DEF OneAtATime, AtFinished
<1>8. StartingPlay' = StartingPlay /\ Waiting' = Waiting
  BY <1>3 DEF StartingPlay, Waiting
<1>9. OneAtATime'
  BY <1>1, <1>2, <1>3, <1>6, <1>7, <1>8 DEF OneAtATime
<1>10. DumpOfRecording'
  BY <1>3, <1>6 DEF DumpOfRecording
<1>11. Purposes'
  BY <1>3 DEF Quiet, Purposes
<1>12. OwnLogs'
  <2>1. LogOf(gdb["record"], dump)
    BY <1>1 DEF Quiet, DumpOfRecording
  <2>2. PICK q : q = [app |-> gdb["record"], log |-> dump]
    OBVIOUS
  <2>3. q.app = gdb["record"] /\ q.log = dump
    BY <2>2
  <2>4. scripts' = [scripts EXCEPT ![nameEdit] = q]
    BY <1>3, <2>2 DEF StoreScript
  <2>5. ASSUME NEW t \in DOMAIN scripts', scripts'[t] # NoScript
        PROVE  LogOf(scripts'[t].app, scripts'[t].log)
    <3>1. CASE t = nameEdit
      <4>1. scripts'[t] = q
        BY <2>4, <2>5, <3>1
      <4> QED
        BY <2>1, <2>3, <4>1
    <3>2. CASE t # nameEdit
      <4>1. scripts'[t] = scripts[t] /\ t \in DOMAIN scripts
        BY <2>4, <2>5, <3>2
      <4> QED
        BY <2>5, <4>1 DEF Quiet, OwnLogs
    <3> QED
      BY <3>1, <3>2
  <2> QED
    BY <2>5 DEF OwnLogs
<1> QED
  BY <1>9, <1>10, <1>11, <1>12 DEF Quiet

(* The one RemoteConnection there is takes the application that connects,  *)
(* and tells it what it was started for.                                   *)
LEMMA AppConnectsQuiet ==
    ASSUME Basic, Calm, Quiet, NEW a \in DOMAIN apps, AppConnects(a)
    PROVE  Quiet'
<1>1. TypeOK /\ LinkInv /\ OneAtATime /\ DumpOfRecording
  BY DEF Basic, Quiet
<1>2. apps[a].state = "starting" /\ pending = <<>>
  BY <1>1 DEF AppConnects, OneAtATime
<1>3. UNCHANGED <<acceptors, gdb, dump, nameEdit, scripts, runs, odd>>
  BY DEF AppConnects
<1>4. /\ apps' \in Seq(AppRecords) /\ Len(apps') = Len(apps)
      /\ \A b \in DOMAIN apps :
           /\ apps'[b].by = apps[b].by
           /\ apps'[b].sent = apps[b].sent
           /\ apps'[b].read = apps[b].read
           /\ apps'[b].state = IF a = b THEN "connected" ELSE apps[b].state
           /\ apps'[b].mode =
                IF HasLogger /\ logSocket' = b THEN "RECORD"
                ELSE IF HasPlayer /\ device' = b THEN "PLAY"
                ELSE apps[b].mode
      /\ Len(acceptors) = 1 => pending' = <<>>
      /\ acceptors = <<"logger">> =>
           logSocket' = a /\ device' = device /\ attach' = attach
      /\ acceptors = <<"player">> =>
           logSocket' = logSocket /\ device' = a /\ attach' = "Attached"
  BY <1>1, <1>2, ConnectFacts
<1>5. DOMAIN apps' = DOMAIN apps /\ a # NoSocket
  BY <1>1, <1>4, AppsTyped DEF NoSocket
<1>6. \A b \in DOMAIN apps' :
        apps'[b].by = "record" /\ apps'[b].state = "starting"
            => b = gdb'["record"]
  BY <1>1, <1>3, <1>4, <1>5 DEF OneAtATime
<1>7. StartingPlay' = StartingPlay \ {a}
  BY <1>4, <1>5 DEF StartingPlay
<1>8. gdb["record"] \in DOMAIN apps \/ ~Recording
  BY <1>1, AppsTyped DEF TypeOK, Injectors, Recording, NoApp, NoSocket
<1>9. OwnLogs'
  BY <1>3 DEF Quiet, OwnLogs
<1>10. CASE /\ apps[a].by = "record" /\ a = gdb["record"]
            /\ acceptors = <<"logger">> /\ runs = <<>>
  <2>1. HasLogger /\ ~HasPlayer /\ Len(acceptors) = 1
    BY <1>10, ShapeMembers DEF HasLogger, HasPlayer
  <2>2. /\ pending' = <<>> /\ logSocket' = a /\ device' = device
        /\ attach' = attach
    BY <1>4, <1>10, <2>1
  <2>3. Waiting' = Waiting
    BY <1>3, <2>2 DEF Waiting
  <2>4. Cardinality(StartingPlay') <= Cardinality(Waiting')
    BY <1>1, <1>7, <2>3, Counted, CountKept DEF OneAtATime
  <2>5. OneAtATime'
    BY <1>1, <1>3, <1>6, <2>2, <2>4 DEF OneAtATime, Recording, HasLogger
  <2>6. DumpOfRecording'
    BY <1>1, <1>3, <1>4, <1>10, <2>2
    DEF DumpOfRecording, Recording, LogOf
  <2>7. Purposes'
    BY <1>4, <1>5, <1>10, <2>1, <2>2 DEF Quiet, Purposes
  <2> QED
    BY <1>9, <2>5, <2>6, <2>7 DEF Quiet
<1>11. CASE /\ apps[a].by = "play" /\ a \in StartingPlay
            /\ acceptors = <<"player">> /\ runs # <<>> /\ ~Recording
  <2>1. HasPlayer /\ ~HasLogger /\ Len(acceptors) = 1
    BY <1>11, ShapeMembers DEF HasLogger, HasPlayer
  <2>2. /\ pending' = <<>> /\ logSocket' = logSocket /\ device' = a
        /\ attach' = "Attached"
    BY <1>4, <1>11, <2>1
  <2>3. /\ Waiting \ {Len(runs)} \subseteq Waiting'
        /\ Waiting' \subseteq 1..Len(runs)
    <3>1. DOMAIN runs = 1..Len(runs) /\ runs' = runs
      BY <1>1, <1>3 DEF TypeOK
    <3>2. Waiting' \subseteq DOMAIN runs
      BY <3>1 DEF Waiting
    <3>3. Waiting \ {Len(runs)} \subseteq Waiting'
      BY <3>1 DEF Waiting
    <3> QED
      BY <3>1, <3>2, <3>3
  <2>4. IsFiniteSet(Waiting')
    <3>1. Len(runs) \in Nat
      BY <1>1 DEF TypeOK
    <3>2. Waiting' \in SUBSET (1..Len(runs))
      BY <2>3
    <3> QED
      BY <3>1, <3>2, Countable
  <2>5. Cardinality(StartingPlay') <= Cardinality(Waiting')
    <3>1. /\ IsFiniteSet(StartingPlay) /\ IsFiniteSet(Waiting)
          /\ Cardinality(StartingPlay) <= Cardinality(Waiting)
      BY <1>1, Counted DEF OneAtATime
    <3>2. PICK y : y = Len(runs)
      OBVIOUS
    <3>3. Cardinality(StartingPlay \ {a}) <= Cardinality(Waiting')
      BY <1>11, <2>3, <2>4, <3>1, <3>2, CountLess
    <3> QED
      BY <1>7, <3>3
  <2>6. OneAtATime'
    BY <1>1, <1>3, <1>5, <1>6, <2>2, <2>5, <1>11
    DEF OneAtATime, Recording, HasLogger
  <2>7. DumpOfRecording'
    BY <1>1, <1>3, <1>11, <2>2 DEF DumpOfRecording, Recording
  <2>8. Purposes'
    BY <1>4, <1>5, <1>11, <2>1, <2>2 DEF Quiet, Purposes
  <2> QED
    BY <1>9, <2>6, <2>7, <2>8 DEF Quiet
<1> QED
  BY <1>2, <1>10, <1>11, StartingMeets

(* An application logs, exits or is read from: whatever is said of who is  *)
(* starting and what was told stays.                                       *)
LEMMA AppStepQuiet ==
    ASSUME Basic, Quiet, NEW a \in DOMAIN apps, NEW r \in AppRecords,
           apps' = [apps EXCEPT ![a] = r],
           r.by = apps[a].by, r.mode = apps[a].mode,
           r.state \in {apps[a].state, "exited"},
           UNCHANGED <<acceptors, pending, gdb, logSocket, nameEdit, scripts,
                       device, attach, runs, failure, odd>>,
           DumpOfRecording'
    PROVE  Quiet' /\ StartingPlay' \subseteq StartingPlay
<1>1. TypeOK /\ OneAtATime
  BY DEF Basic, Quiet
<1>2. /\ apps' \in Seq(AppRecords) /\ Len(apps') = Len(apps)
      /\ apps'[a] = r
      /\ \A b \in DOMAIN apps : b # a => apps'[b] = apps[b]
  BY <1>1, OneAppFacts
<1>3. DOMAIN apps' = DOMAIN apps
  BY <1>1, <1>2, AppsTyped
<1>4. StartingPlay' \subseteq StartingPlay /\ Waiting' = Waiting
  BY <1>2, <1>3 DEF StartingPlay, Waiting
<1>5. Cardinality(StartingPlay') <= Cardinality(Waiting')
  BY <1>1, <1>4, Counted, CountKept DEF OneAtATime
<1>6. \A b \in DOMAIN apps' :
        apps'[b].by = "record" /\ apps'[b].state = "starting"
            => b = gdb'["record"]
  BY <1>1, <1>2, <1>3 DEF OneAtATime
<1>7. OneAtATime'
  BY <1>1, <1>5, <1>6 DEF OneAtATime, Recording, HasLogger
<1>8. Purposes'
  BY <1>2, <1>3 DEF Quiet, Purposes
<1>9. OwnLogs'
  BY DEF Quiet, OwnLogs
<1> QED
  BY <1>4, <1>7, <1>8, <1>9 DEF Quiet

(* Nothing is read when an application logs or exits.                      *)
LEMMA DumpKept ==
    ASSUME Basic, DumpOfRecording, NEW a \in DOMAIN apps,
           NEW r \in AppRecords,
           apps' = [apps EXCEPT ![a] = r], r.read = apps[a].read,
           UNCHANGED <<gdb, logSocket, dump>>
    PROVE  DumpOfRecording'
<1>1. /\ apps'[a] = r
      /\ \A b \in DOMAIN apps : b # a => apps'[b] = apps[b]
  BY OneAppFacts DEF Basic
<1>2. Recording => gdb["record"] \in DOMAIN apps
  BY AppsTyped DEF Basic, TypeOK, Injectors, Recording, NoApp, NoSocket
<1>3. Recording => apps'[gdb["record"]].read = apps[gdb["record"]].read
  BY <1>1, <1>2
<1> QED
  BY <1>3 DEF DumpOfRecording, Recording, LogOf

(* What follows what was there already.                                    *)
LEMMA Followed ==
    ASSUME NEW S, NEW T, NEW s \in Seq(S), NEW t \in Seq(T)
    PROVE  /\ Len(s \o t) = Len(s) + Len(t)
           /\ \A i \in 1..Len(s) : (s \o t)[i] = s[i]
           /\ \A j \in 1..Len(t) : (s \o t)[Len(s) + j] = t[j]
  OBVIOUS

(* logData goes on where it left off.                                      *)
LEMMA LogDataDump ==
    ASSUME Basic, Quiet, LogData
    PROVE  DumpOfRecording'
<1>1. TypeOK /\ DumpOfRecording /\ logSocket # NoSocket
  BY DEF Basic, Quiet, LogData
<1>2. logSocket = gdb["record"] /\ Recording
  BY <1>1 DEF DumpOfRecording, Recording, NoApp
<1>3. /\ logSocket \in DOMAIN apps
      /\ dump \in Seq(LogElements) /\ dump' \in Seq(LogElements)
  BY LogDataRecord
<1>4. PICK r \in AppRecords : /\ apps' = [apps EXCEPT ![logSocket] = r]
                              /\ r.read = apps[logSocket].sent
  BY LogDataRecord
<1>5. apps[logSocket] \in AppRecords
  BY <1>1, <1>3, AppsTyped
<1>6. PICK n \in Nat : n = apps[logSocket].sent
  BY <1>5, SessionsAssumption DEF AppRecords
<1>7. PICK m \in Nat : m = apps[logSocket].read
  BY <1>5, SessionsAssumption DEF AppRecords
<1>8. m < n /\ n - m \in Nat
  BY <1>6, <1>7 DEF LogData
<1>9. PICK u : u = Unread(logSocket)
  OBVIOUS
<1>10. u = [i \in 1..(n - m) |-> [app |-> logSocket, number |-> m + i]]
  BY <1>6, <1>7, <1>9 DEF Unread
<1>11. u \in Seq([app : {logSocket}, number : Nat]) /\ Len(u) = n - m
  <2>1. /\ u = [i \in 1..(n - m) |-> u[i]]
        /\ \A i \in 1..(n - m) : u[i] \in [app : {logSocket}, number : Nat]
    <3>1. \A i \in 1..(n - m) : [app |-> logSocket, number |-> m + i]
                \in [app : {logSocket}, number : Nat]
      BY <1>8
    <3> QED
      BY <1>10, <3>1, Zenon
  <2>2. PICK k \in Nat : k = n - m
    BY <1>8
  <2>3. PICK S : S = [app : {logSocket}, number : Nat]
    BY Zenon
  <2>4. u = [i \in 1..k |-> u[i]] /\ \A i \in 1..k : u[i] \in S
    BY <2>1, <2>2, <2>3, Zenon
  <2>5. u \in Seq(S) /\ Len(u) = k
    BY <2>4, SequenceOf
  <2> QED
    BY <2>2, <2>3, <2>5, Zenon
<1>12. Len(dump) = m /\ \A i \in 1..m : dump[i] = [app |-> logSocket, number |-> i]
  BY <1>1, <1>2, <1>3, <1>7 DEF DumpOfRecording, LogOf
<1>13. dump' = dump \o u
  BY <1>9 DEF LogData
<1>14. Len(dump') = n /\ DOMAIN dump' = 1..n
  <2>1. Len(dump') = Len(dump) + Len(u)
    BY <1>3, <1>11, <1>13, Followed
  <2>2. Len(dump') = n
    BY <1>11, <1>12, <2>1
  <2> QED
    BY <1>3, <2>2
<1>15. ASSUME NEW i \in 1..n
       PROVE  dump'[i] = [app |-> logSocket, number |-> i]
  <2>1. CASE i <= m
    <3>1. dump'[i] = dump[i]
      <4>1. i \in 1..m
        BY <2>1
      <4> QED
        BY <1>3, <1>11, <1>12, <1>13, <4>1, Followed
    <3> QED
      BY <1>12, <2>1, <3>1
  <2>2. CASE i > m
    <3>1. PICK j \in 1..(n - m) : j = i - m
      BY <1>8, <2>2
    <3>2. dump'[i] = u[j]
      <4>1. dump'[m + j] = u[j]
        BY <1>3, <1>11, <1>12, <1>13, Followed
      <4> QED
        BY <3>1, <4>1
    <3>3. u[j] = [app |-> logSocket, number |-> m + j]
      BY <1>10
    <3>4. m + j = i
      BY <3>1
    <3> QED
      BY <3>2, <3>3, <3>4
  <2> QED
    BY <2>1, <2>2
<1>16. LogOf(gdb'["record"], dump')
  BY <1>2, <1>14, <1>15 DEF LogOf, LogData
<1>17. apps'[gdb'["record"]].read = n
  BY <1>1, <1>2, <1>3, <1>4, <1>6, OneAppFacts DEF LogData
<1> QED
  BY <1>2, <1>14, <1>16, <1>17 DEF DumpOfRecording, LogData

(* The steps of an application while nothing but runs overlap.             *)
LEMMA AppStepsQuiet ==
    ASSUME Basic, Quiet
    PROVE  /\ \A a \in DOMAIN apps : AppLogs(a) =>
                Quiet' /\ StartingPlay' \subseteq StartingPlay
           /\ \A a \in DOMAIN apps : AppExits(a) =>
                Quiet' /\ StartingPlay' \subseteq StartingPlay
           /\ LogData => Quiet' /\ StartingPlay' \subseteq StartingPlay
<1>1. ASSUME NEW a \in DOMAIN apps, AppLogs(a)
      PROVE  Quiet' /\ StartingPlay' \subseteq StartingPlay
  <2>1. PICK r \in AppRecords :
             /\ apps' = [apps EXCEPT ![a] = r]
             /\ r.by = apps[a].by /\ r.mode = apps[a].mode
             /\ r.state = apps[a].state /\ r.read = apps[a].read
    BY <1>1, AppLogsRecord DEF Basic
  <2>2. /\ dump' = dump
        /\ UNCHANGED <<acceptors, pending, gdb, logSocket, nameEdit, scripts,
                       device, attach, runs, failure, odd>>
    BY <1>1 DEF AppLogs, recordVars, runVars
  <2>3. DumpOfRecording'
    BY <2>1, <2>2, DumpKept DEF Quiet
  <2> QED
    BY <2>1, <2>2, <2>3, AppStepQuiet
<1>2. ASSUME NEW a \in DOMAIN apps, AppExits(a)
      PROVE  Quiet' /\ StartingPlay' \subseteq StartingPlay
  <2>1. PICK r \in AppRecords :
             /\ apps' = [apps EXCEPT ![a] = r]
             /\ r.by = apps[a].by /\ r.mode = apps[a].mode
             /\ r.state = "exited" /\ r.read = apps[a].read
    BY <1>2, AppExitsRecord DEF Basic
  <2>2. /\ dump' = dump
        /\ UNCHANGED <<acceptors, pending, gdb, logSocket, nameEdit, scripts,
                       device, attach, runs, failure, odd>>
    BY <1>2 DEF AppExits, recordVars, runVars
  <2>3. DumpOfRecording'
    BY <2>1, <2>2, DumpKept DEF Quiet
  <2> QED
    BY <2>1, <2>2, <2>3, AppStepQuiet
<1>3. ASSUME LogData
      PROVE  Quiet' /\ StartingPlay' \subseteq StartingPlay
  <2>1. PICK r \in AppRecords :
             /\ apps' = [apps EXCEPT ![logSocket] = r]
             /\ r.by = apps[logSocket].by /\ r.mode = apps[logSocket].mode
             /\ r.state = apps[logSocket].state
    BY <1>3, LogDataRecord
  <2>2. /\ logSocket \in DOMAIN apps
        /\ UNCHANGED <<acceptors, pending, gdb, logSocket, nameEdit, scripts,
                       device, attach, runs, failure, odd>>
    BY <1>3, LogDataRecord DEF LogData, runVars
  <2>3. DumpOfRecording'
    BY <1>3, LogDataDump
  <2> QED
    BY <2>1, <2>2, <2>3, AppStepQuiet
<1> QED
  BY <1>1, <1>2, <1>3

(* A run begins where nothing is recorded; its player is the only one that *)
(* listens.                                                                *)
LEMMA RunTestScriptQuiet ==
    ASSUME Basic, Quiet, RunTestScript, Calm'
    PROVE  Quiet'
<1>1. TypeOK /\ LinkInv /\ OneAtATime /\ DumpOfRecording
  BY DEF Basic, Quiet
<1>2. UNCHANGED <<pending, apps, gdb, logSocket, dump, nameEdit, scripts,
                  device, failure>>
  BY DEF RunTestScript, recordVars
<1>3. ~HasLogger
  BY DEF RunTestScript, Calm
<1>4. acceptors' = <<"player">> /\ ~Recording
  <2>1. acceptors = <<>> \/ acceptors = <<"player">>
    BY <1>1, <1>3, ShapeMembers DEF LinkInv, Shapes, HasLogger
  <2>2. ~Recording
    BY <1>1, <1>3, ShapeMembers DEF OneAtATime, HasLogger
  <2> QED
    BY <2>1, <2>2, ReplacedPlayer DEF RunTestScript
<1>5. ~HasLogger'
  BY <1>4, ShapeMembers DEF HasLogger
<1>6. /\ runs \in Seq(Waits) /\ Len(runs) \in Nat
      /\ runs' = Append(runs, "script") /\ attach' = "NotAttached"
  BY <1>1 DEF TypeOK, RunTestScript
<1>7. /\ Waiting \subseteq Waiting'
      /\ Waiting' \in SUBSET (1..(Len(runs) + 1))
  <2>1. /\ Len(runs') = Len(runs) + 1
        /\ DOMAIN runs = 1..Len(runs) /\ DOMAIN runs' = 1..(Len(runs) + 1)
        /\ \A i \in 1..Len(runs) : runs'[i] = runs[i]
    BY <1>6
  <2> QED
    BY <1>6, <2>1 DEF Waiting
<1>8. Cardinality(StartingPlay') <= Cardinality(Waiting')
  <2>1. StartingPlay' = StartingPlay
    BY <1>2 DEF StartingPlay
  <2>2. PICK n \in Nat : n = Len(runs) + 1
    BY <1>6
  <2>3. IsFiniteSet(Waiting')
    BY <1>7, <2>2, Countable
  <2> QED
    BY <1>1, <1>7, <2>1, <2>3, Counted, CountKept DEF OneAtATime
<1>9. OneAtATime'
  BY <1>1, <1>2, <1>4, <1>5, <1>6, <1>8 DEF OneAtATime, Recording
<1>10. DumpOfRecording'
  BY <1>1, <1>2 DEF DumpOfRecording, Recording
<1>11. Purposes' /\ OwnLogs'
  BY <1>2 DEF Quiet, Purposes, OwnLogs
<1> QED
  BY <1>9, <1>10, <1>11 DEF Quiet

(* A statement starts an application and waits for it.                     *)
LEMMA StartApplicationQuiet ==
    ASSUME Basic, Quiet, NEW spawned \in BOOLEAN, StartApplication(spawned),
           Calm'
    PROVE  /\ Quiet' /\ attach' = "WaitingForAttach"
           /\ StartingPlay' \subseteq StartingPlay \cup {Len(apps) + 1}
           /\ gdb'["play"] = Len(apps) + 1
<1>1. /\ TypeOK /\ OneAtATime /\ DumpOfRecording /\ StartAndAttach("play")
      /\ runs # <<>> /\ Top = "script" /\ Move("attach")
  BY DEF Basic, Quiet, StartApplication, Running
<1>2. UNCHANGED <<acceptors, pending, logSocket, dump, nameEdit, scripts,
                  device, failure>>
  BY DEF StartApplication, recordVars
<1>3. attach # "Attached" /\ attach' = "WaitingForAttach"
  BY <1>1 DEF StartApplication, Calm, TypeOK
<1>4. "record" \in Injectors /\ "play" \in Injectors
  BY DEF Injectors
<1>5. /\ apps' \in Seq(AppRecords) /\ Len(apps') = Len(apps) + 1
      /\ \A a \in DOMAIN apps : AppKept(a)
      /\ apps'[Len(apps) + 1] =
            [by |-> "play", state |-> "starting", mode |-> "none",
             sent |-> 0, read |-> 0]
      /\ gdb'["play"] = Len(apps) + 1
      /\ gdb'["record"] = gdb["record"]
  BY <1>1, <1>4, StartFacts
<1>6. /\ Len(apps) \in Nat /\ DOMAIN apps = 1..Len(apps)
      /\ DOMAIN apps' = DOMAIN apps \cup {Len(apps) + 1}
  BY <1>1, <1>5, AppsTyped
<1>7. ~Recording /\ ~Recording'
  BY <1>1, <1>5 DEF OneAtATime, Recording
<1>8. StartingPlay' \subseteq StartingPlay \cup {Len(apps) + 1}
  BY <1>5, <1>6 DEF StartingPlay, AppKept
<1>9. /\ Len(runs') = Len(runs) /\ runs'[Len(runs)] = "attach"
      /\ \A i \in DOMAIN runs : i # Len(runs) => runs'[i] = runs[i]
      /\ DOMAIN runs = 1..Len(runs) /\ Len(runs) \in DOMAIN runs
      /\ DOMAIN runs' = DOMAIN runs
  <2>1. /\ Len(runs) \in Nat /\ Len(runs) >= 1 /\ DOMAIN runs = 1..Len(runs)
    BY <1>1, RunsTyped
  <2>2. Len(runs) \in DOMAIN runs
    BY <2>1
  <2>3. /\ Len(runs') = Len(runs) /\ runs'[Len(runs)] = "attach"
        /\ \A i \in DOMAIN runs : i # Len(runs) => runs'[i] = runs[i]
        /\ DOMAIN runs' = DOMAIN runs
    BY <1>1, RunsTyped, WaitsAre
  <2> QED
    BY <2>1, <2>2, <2>3
<1>10. Waiting' = Waiting \cup {Len(runs)} /\ Len(runs) \notin Waiting
  BY <1>1, <1>3, <1>9 DEF Waiting, Top
<1>11. Cardinality(StartingPlay') <= Cardinality(Waiting')
  BY <1>1, <1>8, <1>10, Counted, CountBoth DEF OneAtATime
<1>12. \A a \in DOMAIN apps' :
        apps'[a].by = "record" /\ apps'[a].state = "starting"
            => a = gdb'["record"]
  BY <1>1, <1>5, <1>6 DEF AppKept, OneAtATime
<1>13. OneAtATime'
  BY <1>1, <1>2, <1>3, <1>7, <1>11, <1>12 DEF OneAtATime, HasLogger
<1>14. DumpOfRecording'
  BY <1>1, <1>2, <1>5, <1>7 DEF DumpOfRecording
<1>15. Purposes'
  BY <1>5, <1>6 DEF Quiet, Purposes, AppKept
<1>16. OwnLogs'
  BY <1>2 DEF Quiet, OwnLogs
<1> QED
  BY <1>3, <1>5, <1>8, <1>13, <1>14, <1>15, <1>16 DEF Quiet

(* The steps that leave applications, recordings and connections alone.    *)
LEMMA OtherStepsQuiet ==
    ASSUME Basic, Quiet
    PROVE  /\ \A name \in Tests \cup {NoName} : TypeName(name) => Quiet'
           /\ Attached => Quiet'
           /\ CloseApplication => Quiet'
           /\ RunEnds => Quiet'
           /\ RunEndsUnclosed => Quiet'
           /\ WriteDie => Quiet'
           /\ ApplicationClosed => Quiet'
           /\ UNCHANGED vars => Quiet'
<1>1. TypeOK /\ OneAtATime /\ DumpOfRecording
  BY DEF Basic, Quiet
<1>2. ASSUME UNCHANGED <<acceptors, pending, apps, gdb, logSocket, dump,
                         scripts>>,
             runs # <<>> \/ runs' = <<>>,
             attach' = "Attached" => device' # NoSocket,
             Waiting \subseteq Waiting', IsFiniteSet(Waiting')
      PROVE  Quiet'
  <2>1. StartingPlay' = StartingPlay
    BY <1>2 DEF StartingPlay
  <2>2. Cardinality(StartingPlay') <= Cardinality(Waiting')
    BY <1>1, <1>2, <2>1, Counted, CountKept DEF OneAtATime
  <2>3. OneAtATime'
    BY <1>1, <1>2, <2>2 DEF OneAtATime, Recording, HasLogger
  <2>4. DumpOfRecording'
    BY <1>1, <1>2 DEF DumpOfRecording, Recording
  <2>5. Purposes' /\ OwnLogs'
    BY <1>2 DEF Quiet, Purposes, OwnLogs
  <2> QED
    BY <2>3, <2>4, <2>5 DEF Quiet
<1>3. ASSUME UNCHANGED <<acceptors, pending, apps, gdb, logSocket, dump,
                         scripts, runs, attach, device>>
      PROVE  Quiet'
  <2>1. Waiting' = Waiting
    BY <1>3 DEF Waiting
  <2> QED
    BY <1>1, <1>2, <1>3, <2>1, Counted DEF OneAtATime
<1>4. ASSUME NEW name, TypeName(name) PROVE Quiet'
  BY <1>3, <1>4 DEF TypeName, linkVars, runVars
<1>5. ASSUME UNCHANGED vars PROVE Quiet'
  BY <1>3, <1>5 DEF vars, linkVars, recordVars, runVars
<1>6. ASSUME Attached PROVE Quiet'
  <2>1. /\ runs # <<>> /\ Top = "attach" /\ attach = "Attached"
        /\ Move("script")
        /\ UNCHANGED <<acceptors, pending, apps, gdb, logSocket, dump, scripts,
                       device, attach>>
    BY <1>6 DEF Attached, Running, linkVars, recordVars
  <2>2. /\ Len(runs') = Len(runs) /\ runs'[Len(runs)] = "script"
        /\ \A i \in DOMAIN runs : i # Len(runs) => runs'[i] = runs[i]
        /\ DOMAIN runs = 1..Len(runs) /\ DOMAIN runs' = DOMAIN runs
    BY <1>1, <2>1, RunsTyped, WaitsAre
  <2>3. Waiting' = Waiting
    BY <2>1, <2>2 DEF Waiting
  <2> QED
    BY <1>1, <1>2, <2>1, <2>3, Counted DEF OneAtATime
<1>7. ASSUME runs # <<>>, Top # "attach",
             NEW at \in ScriptCloses \cup EndCloses \cup {"script"}, Move(at)
      PROVE  Waiting \subseteq Waiting' /\ IsFiniteSet(Waiting')
  <2>1. at \in Waits /\ at # "attach"
    BY <1>7 DEF Waits, ScriptCloses, EndCloses
  <2>2. /\ Len(runs) \in Nat /\ Len(runs) >= 1
        /\ Len(runs') = Len(runs) /\ runs'[Len(runs)] = at
        /\ \A i \in DOMAIN runs : i # Len(runs) => runs'[i] = runs[i]
        /\ DOMAIN runs = 1..Len(runs) /\ DOMAIN runs' = DOMAIN runs
    BY <1>1, <1>7, <2>1, RunsTyped
  <2>3. Waiting \subseteq Waiting' /\ Waiting' \in SUBSET (1..Len(runs))
    BY <1>7, <2>1, <2>2 DEF Waiting, Top
  <2> QED
    BY <2>2, <2>3, Countable
<1>8. ASSUME runs # <<>>, runs' = Front(runs), Top # "attach",
             attach' = "Attached" => runs[Len(runs) - 1] # "attach"
      PROVE  Waiting \subseteq Waiting' /\ IsFiniteSet(Waiting')
  <2>1. /\ Len(runs) \in Nat /\ Len(runs) >= 1
        /\ Len(runs') = Len(runs) - 1
        /\ DOMAIN runs = 1..Len(runs) /\ DOMAIN runs' = 1..(Len(runs) - 1)
        /\ \A i \in 1..(Len(runs) - 1) : runs'[i] = runs[i]
    BY <1>1, <1>8, RunsTyped
  <2>2. Waiting \subseteq Waiting' /\ Waiting' \in SUBSET (1..Len(runs))
    BY <1>8, <2>1 DEF Waiting, Top
  <2> QED
    BY <2>1, <2>2, Countable
<1>9. ASSUME NEW wait \in ScriptCloses \cup EndCloses, StartClose(wait)
      PROVE  Quiet'
  <2>1. /\ runs # <<>> /\ Top = "script" /\ Move(wait)
        /\ UNCHANGED <<acceptors, pending, apps, gdb, logSocket, dump, scripts,
                       device, attach>>
    BY <1>9 DEF StartClose, Running, linkVars, recordVars
  <2>2. Waiting \subseteq Waiting' /\ IsFiniteSet(Waiting')
    BY <1>7, <2>1
  <2> QED
    BY <1>1, <1>2, <2>1, <2>2 DEF OneAtATime
<1>10. ASSUME CloseApplication \/ RunEnds PROVE Quiet'
  BY <1>9, <1>10 DEF CloseApplication, RunEnds, ScriptCloses, EndCloses
<1>11. ASSUME RunEndsUnclosed PROVE Quiet'
  <2>1. /\ runs # <<>> /\ Top = "script" /\ runs' = Front(runs)
        /\ device = NoSocket \/ CloseIgnored({"script"})
        /\ UNCHANGED <<acceptors, pending, apps, gdb, logSocket, dump, scripts,
                       device, attach>>
    BY <1>11 DEF RunEndsUnclosed, Running, linkVars, recordVars
  <2>2. ASSUME attach' = "Attached" PROVE runs[Len(runs) - 1] # "attach"
    <3>1. CloseIgnored({"script"})
      BY <1>1, <2>1, <2>2 DEF OneAtATime
    <3>2. Len(runs) \in Nat
      BY <1>1 DEF TypeOK
    <3>3. PICK n \in Nat : n = Len(runs)
      BY <3>2
    <3>4. PICK i \in 1..(n - 1) :
            /\ runs[i] \in ScriptCloses
            /\ \A j \in (i + 1)..(n - 1) : runs[j] \in {"script"}
      BY <3>1, <3>3, Zenon DEF CloseIgnored
    <3>5. CASE i = n - 1
      BY <3>3, <3>4, <3>5 DEF ScriptCloses
    <3>6. CASE i # n - 1
      <4>1. n - 1 \in (i + 1)..(n - 1)
        BY <3>4, <3>6
      <4> QED
        BY <3>3, <3>4, <4>1
    <3> QED
      BY <3>5, <3>6
  <2>3. Waiting \subseteq Waiting' /\ IsFiniteSet(Waiting')
    BY <1>8, <2>1, <2>2
  <2> QED
    BY <1>1, <1>2, <2>1, <2>3 DEF OneAtATime
<1>12. ASSUME WriteDie PROVE Quiet'
  <2>1. /\ runs # <<>> /\ Top \in {"close", "endClose"}
        /\ UNCHANGED <<acceptors, pending, apps, gdb, logSocket, dump, scripts,
                       device, attach>>
    BY <1>12 DEF WriteDie, linkVars, recordVars
  <2>2. CASE UNCHANGED runs
    BY <1>3, <2>1, <2>2
  <2>3. CASE Move("die") \/ Move("endDie")
    <3>1. Waiting \subseteq Waiting' /\ IsFiniteSet(Waiting')
      BY <1>7, <2>1, <2>3 DEF ScriptCloses, EndCloses
    <3> QED
      BY <1>1, <1>2, <2>1, <3>1 DEF OneAtATime
  <2> QED
    BY <1>12, <2>2, <2>3 DEF WriteDie
<1>13. ASSUME ApplicationClosed PROVE Quiet'
  <2>1. /\ runs # <<>> /\ Top \in {"die", "endDie"}
        /\ Move("script") \/ runs' = Front(runs)
        /\ attach' = "NotAttached"
        /\ UNCHANGED <<acceptors, pending, apps, gdb, logSocket, dump, scripts>>
    BY <1>13 DEF ApplicationClosed, linkVars, recordVars
  <2>2. Waiting \subseteq Waiting' /\ IsFiniteSet(Waiting')
    BY <1>7, <1>8, <2>1
  <2> QED
    BY <1>2, <2>1, <2>2
<1> QED
  BY <1>4, <1>5, <1>6, <1>10, <1>11, <1>12, <1>13

-----------------------------------------------------------------------------
(* Without any overlap: recordings, and what applications do.              *)
LEMMA RecordingSingle ==
    ASSUME Basic, Quiet, SingleRun, odd = {}, odd' = {},
           StartRecording \/ FinishRecording
    PROVE  SingleRun'
<1>1. Calm /\ Calm'
  BY DEF Calm
<1>2. /\ runs = <<>> /\ StartingPlay' \subseteq StartingPlay
      /\ UNCHANGED runs
  <2>1. CASE StartRecording
    BY <1>1, <2>1, StartRecordingQuiet DEF StartRecording, runVars
  <2>2. CASE FinishRecording
    BY <2>2
    DEF Quiet, OneAtATime, FinishRecording, AtFinished, runVars, StartingPlay
  <2> QED
    BY <2>1, <2>2
<1>3. StartingPlay = {}
  BY <1>2 DEF SingleRun
<1> QED
  BY <1>2, <1>3 DEF SingleRun

(* The run is given the application it started.                            *)
LEMMA AppConnectsSingle ==
    ASSUME Basic, Quiet, SingleRun, NEW a \in DOMAIN apps, AppConnects(a)
    PROVE  SingleRun'
<1>1. TypeOK /\ LinkInv /\ OneAtATime
  BY DEF Basic, Quiet
<1>2. /\ apps[a].state = "starting" /\ pending = <<>>
      /\ UNCHANGED <<gdb, runs>>
  BY <1>1 DEF AppConnects, OneAtATime
<1>3. /\ apps' \in Seq(AppRecords) /\ Len(apps') = Len(apps)
      /\ \A b \in DOMAIN apps :
           /\ apps'[b].by = apps[b].by
           /\ apps'[b].state = IF a = b THEN "connected" ELSE apps[b].state
      /\ acceptors = <<"logger">> => device' = device /\ attach' = attach
      /\ acceptors = <<"player">> => device' = a /\ attach' = "Attached"
  BY <1>1, <1>2, ConnectFacts
<1>4. DOMAIN apps' = DOMAIN apps
  BY <1>1, <1>3, AppsTyped
<1>5. StartingPlay' = StartingPlay \ {a}
  BY <1>3, <1>4 DEF StartingPlay
<1>6. CASE acceptors = <<"logger">> /\ runs = <<>>
  BY <1>2, <1>5, <1>6 DEF SingleRun
<1>7. CASE a \in StartingPlay /\ acceptors = <<"player">> /\ runs # <<>>
  <2>1. a = gdb["play"] /\ StartingPlay' = {}
    BY <1>5, <1>7 DEF SingleRun
  <2> QED
    BY <1>2, <1>3, <1>7, <2>1 DEF SingleRun
<1> QED
  BY <1>2, <1>6, <1>7, StartingMeets

(* Applications log, exit and are read from; names are typed.              *)
LEMMA OtherStepsSingle ==
    ASSUME Basic, Quiet, SingleRun
    PROVE  /\ \A a \in DOMAIN apps : AppLogs(a) => SingleRun'
           /\ \A a \in DOMAIN apps : AppExits(a) => SingleRun'
           /\ LogData => SingleRun'
           /\ \A name \in Tests \cup {NoName} : TypeName(name) => SingleRun'
           /\ UNCHANGED vars => SingleRun'
<1>1. ASSUME StartingPlay' \subseteq StartingPlay,
             UNCHANGED <<gdb, device, attach, runs>>
      PROVE  SingleRun'
  BY <1>1 DEF SingleRun
<1>2. ASSUME NEW a \in DOMAIN apps, AppLogs(a) PROVE SingleRun'
  BY <1>1, <1>2, AppStepsQuiet DEF AppLogs, runVars
<1>3. ASSUME NEW a \in DOMAIN apps, AppExits(a) PROVE SingleRun'
  BY <1>1, <1>3, AppStepsQuiet DEF AppExits, runVars
<1>4. ASSUME LogData PROVE SingleRun'
  BY <1>1, <1>4, AppStepsQuiet DEF LogData, runVars
<1>5. ASSUME NEW name \in Tests \cup {NoName}, TypeName(name) PROVE SingleRun'
  BY <1>1, <1>5 DEF TypeName, linkVars, runVars, StartingPlay
<1>6. ASSUME UNCHANGED vars PROVE SingleRun'
  BY <1>1, <1>6 DEF vars, linkVars, runVars, StartingPlay
<1> QED
  BY <1>2, <1>3, <1>4, <1>5, <1>6

(* The steps of the one run that neither start an application nor wait     *)
(* for one.                                                                *)
LEMMA RunStepSingle ==
    ASSUME Basic, SingleRun, runs # <<>>, Top # "attach",
           UNCHANGED <<apps, gdb>>,
           \/ /\ \E at \in Waits : Move(at)
              /\ UNCHANGED <<device, attach>> \/ attach' = "NotAttached"
           \/ runs' = Front(runs)
           \/ UNCHANGED <<device, attach, runs>>
    PROVE  SingleRun'
<1>1. TypeOK /\ runs \in Seq(Waits) /\ Len(runs) = 1
  <2>1. TypeOK /\ runs \in Seq(Waits)
    BY DEF Basic, TypeOK
  <2>2. Len(runs) \in Nat /\ Len(runs) # 0
    BY <2>1
  <2>3. PICK n \in Nat : n = Len(runs) /\ n # 0
    BY <2>2
  <2>4. n <= 1
    BY <2>3 DEF SingleRun
  <2>5. Len(runs) = 1
    BY <2>3, <2>4
  <2> QED
    BY <2>1, <2>5
<1>2. StartingPlay = {}
  <2>1. runs # <<"attach">>
    BY <1>1 DEF Top
  <2> QED
    BY <2>1 DEF SingleRun
<1>3. StartingPlay' = {}
  BY <1>2 DEF StartingPlay
<1>4. CASE /\ \E at \in Waits : Move(at)
           /\ UNCHANGED <<device, attach>> \/ attach' = "NotAttached"
  <2>1. Len(runs') = 1 /\ runs # <<>>
    BY <1>1, <1>4, RunsTyped
  <2> QED
    BY <1>3, <1>4, <2>1 DEF SingleRun
<1>5. CASE runs' = Front(runs)
  <2>1. runs' \in Seq(Waits) /\ Len(runs') = 0
    BY <1>1, <1>5, RunsTyped
  <2>2. runs' = <<>>
    BY <2>1
  <2> QED
    BY <1>3, <2>1, <2>2 DEF SingleRun
<1>6. CASE UNCHANGED <<device, attach, runs>>
  BY <1>3, <1>6 DEF SingleRun
<1> QED
  BY <1>4, <1>5, <1>6

(* The one run, from its beginning to its end.                             *)
LEMMA RunStepsSingle ==
    ASSUME Basic, Quiet, SingleRun, odd = {}, odd' = {}
    PROVE  /\ RunTestScript => SingleRun'
           /\ \A spawned \in BOOLEAN : StartApplication(spawned) => SingleRun'
           /\ Attached => SingleRun'
           /\ CloseApplication \/ RunEnds => SingleRun'
           /\ RunEndsUnclosed => SingleRun'
           /\ WriteDie \/ ApplicationClosed => SingleRun'
<1>1. TypeOK /\ Calm /\ Calm'
  BY DEF Basic, Calm
<1>2. ASSUME RunTestScript PROVE SingleRun'
  <2>1. /\ runs = <<>> /\ runs' = Append(runs, "script")
        /\ attach' = "NotAttached" /\ UNCHANGED <<apps, gdb>>
    BY <1>2 DEF RunTestScript
  <2>2. Len(runs') = 1 /\ StartingPlay' = StartingPlay
    BY <2>1 DEF StartingPlay
  <2>3. StartingPlay = {}
    BY <2>1 DEF SingleRun
  <2> QED
    BY <2>1, <2>2, <2>3 DEF SingleRun
<1>3. ASSUME runs # <<>> PROVE runs = <<Top>> /\ Len(runs) = 1
  <2>1. runs \in Seq(Waits) /\ Len(runs) \in Nat
    BY <1>1 DEF TypeOK
  <2>2. PICK n \in Nat : n = Len(runs) /\ n # 0
    BY <1>3, <2>1
  <2>3. n <= 1
    BY <2>2 DEF SingleRun
  <2>4. Len(runs) = 1
    BY <2>2, <2>3
  <2> QED
    BY <2>1, <2>4 DEF Top
<1>4. ASSUME NEW spawned \in BOOLEAN, StartApplication(spawned)
      PROVE  SingleRun'
  <2>1. runs # <<>> /\ Top = "script" /\ Move("attach")
    BY <1>4 DEF StartApplication, Running
  <2>2. StartingPlay = {}
    <3>1. runs[1] = "script"
      BY <1>3, <2>1 DEF Top
    <3>2. <<"attach">>[1] = "attach"
      OBVIOUS
    <3> QED
      BY <3>1, <3>2 DEF SingleRun
  <2>3. /\ attach' = "WaitingForAttach" /\ gdb'["play"] = Len(apps) + 1
        /\ StartingPlay' \subseteq {Len(apps) + 1}
    BY <1>1, <1>4, <2>2, StartApplicationQuiet
  <2>4. runs' = <<"attach">> /\ Len(runs') = 1
    <3>1. runs \in Seq(Waits)
      BY <1>1 DEF TypeOK
    <3> QED
      BY <1>3, <2>1, <3>1 DEF Move
  <2> QED
    BY <2>3, <2>4 DEF SingleRun
<1>5. ASSUME Attached PROVE SingleRun'
  <2>1. /\ runs # <<>> /\ attach = "Attached" /\ Move("script")
        /\ UNCHANGED <<apps, gdb, device, attach>>
    BY <1>5 DEF Attached, Running, linkVars
  <2>2. StartingPlay' = {}
    BY <2>1 DEF SingleRun, StartingPlay
  <2>3. Len(runs') = 1
    BY <1>1, <1>3, <2>1, RunsTyped, WaitsAre
  <2> QED
    BY <2>1, <2>2, <2>3 DEF SingleRun
<1>6. ASSUME CloseApplication \/ RunEnds PROVE SingleRun'
  <2>1. /\ runs # <<>> /\ Top = "script"
        /\ Move("close") \/ Move("endClose")
        /\ UNCHANGED <<apps, gdb, device, attach>>
    BY <1>6 DEF CloseApplication, RunEnds, StartClose, Running, linkVars
  <2> QED
    BY <2>1, RunStepSingle, WaitsAre
<1>7. ASSUME RunEndsUnclosed PROVE SingleRun'
  <2>1. /\ runs # <<>> /\ Top = "script" /\ runs' = Front(runs)
        /\ UNCHANGED <<apps, gdb>>
    BY <1>7 DEF RunEndsUnclosed, Running, linkVars
  <2> QED
    BY <2>1, RunStepSingle
<1>8. ASSUME WriteDie PROVE SingleRun'
  <2>1. /\ runs # <<>> /\ Top \in {"close", "endClose"}
        /\ UNCHANGED runs \/ Move("die") \/ Move("endDie")
        /\ UNCHANGED <<apps, gdb, device, attach>>
    BY <1>8 DEF WriteDie, linkVars
  <2> QED
    BY <2>1, RunStepSingle, WaitsAre
<1>9. ASSUME ApplicationClosed PROVE SingleRun'
  <2>1. /\ runs # <<>> /\ Top \in {"die", "endDie"}
        /\ Move("script") \/ runs' = Front(runs)
        /\ attach' = "NotAttached" /\ UNCHANGED <<apps, gdb>>
    BY <1>9 DEF ApplicationClosed, linkVars
  <2> QED
    BY <2>1, RunStepSingle, WaitsAre
<1> QED
  BY <1>2, <1>4, <1>5, <1>6, <1>7, <1>8, <1>9

-----------------------------------------------------------------------------
(* A step that only moves the top run, or ends it.                         *)
LEMMA DeviceKept ==
    ASSUME TypeOK, DeviceInv,
           UNCHANGED odd, failure' # "device",
           \/ UNCHANGED <<runs, device>>
           \/ /\ runs # <<>>
              /\ \E at \in Waits :
                    /\ Move(at)
                    /\ at \in {"close", "endClose"} => device' # NoSocket
           \/ runs # <<>> /\ runs' = Front(runs),
           Alive' => Alive
    PROVE  DeviceInv'
<1>1. NullDeviceOnlyInNestedRun'
  BY DEF NullDeviceOnlyInNestedRun
<1>2. ASSUME "nested" \notin odd
      PROVE  /\ Len(runs') <= 1
             /\ Alive' /\ runs' # <<>> /\ Top' \in {"close", "endClose"}
                    => device' # NoSocket
  <2>1. CASE UNCHANGED <<runs, device>>
    BY <1>2, <2>1 DEF DeviceInv, Top
  <2>2. ASSUME runs # <<>>, NEW at \in Waits, Move(at),
               at \in {"close", "endClose"} => device' # NoSocket
        PROVE  /\ Len(runs') <= 1
               /\ Top' \in {"close", "endClose"} => device' # NoSocket
    <3>1. Len(runs') = Len(runs) /\ runs'[Len(runs)] = at
      BY <2>2, RunsTyped
    <3> QED
      BY <1>2, <2>2, <3>1 DEF DeviceInv, Top
  <2>3. CASE runs # <<>> /\ runs' = Front(runs)
    <3>1. /\ Len(runs) \in Nat /\ Len(runs) >= 1 /\ Len(runs') = Len(runs) - 1
          /\ runs' \in Seq(Waits)
      BY <2>3, RunsTyped
    <3>2. Len(runs') = 0 /\ runs' = <<>>
      BY <1>2, <3>1 DEF DeviceInv
    <3> QED
      BY <3>2
  <2> QED
    BY <2>1, <2>2, <2>3
<1> QED
  BY <1>1, <1>2 DEF DeviceInv

(* The player is only given no socket where the slots fail.                *)
LEMMA PlayerGiven ==
    ASSUME TypeOK, LinkInv, NEW a \in DOMAIN apps, AppConnects(a), Alive'
    PROVE  device' = device \/ device' # NoSocket
<1> DEFINE queue == Append(pending, a)
           Of(who) == SocketOf(who, acceptors, queue)
<1>1. NoSocket \notin ToSet(Taken(acceptors, queue))
  BY DEF AppConnects, Alive
<1>2. CASE HasPlayer
  <2>1. device' = Of("player")
    BY <1>2 DEF AppConnects
  <2>2. acceptors \in Seq({"logger", "player"})
    BY DEF TypeOK
  <2>3. PICK i \in DOMAIN acceptors : acceptors[i] = "player"
    BY <1>2, <2>2 DEF HasPlayer, ToSet
  <2>4. PICK k \in DOMAIN acceptors :
            k = CHOOSE j \in DOMAIN acceptors : acceptors[j] = "player"
    BY <2>3
  <2>5. Of("player") = Taken(acceptors, queue)[k]
    BY <2>4 DEF SocketOf
  <2>6. Taken(acceptors, queue)[k] \in ToSet(Taken(acceptors, queue))
    <3>1. DOMAIN Taken(acceptors, queue) = DOMAIN acceptors
      BY DEF Taken
    <3> QED
      BY <2>4, <3>1 DEF ToSet
  <2> QED
    BY <1>1, <2>1, <2>5, <2>6
<1>3. CASE ~HasPlayer
  BY <1>3 DEF AppConnects
<1> QED
  BY <1>2, <1>3

(* DeviceInv is inductive.                                                 *)
LEMMA NextDevice ==
    ASSUME Basic, DeviceInv, [Next]_vars
    PROVE  DeviceInv'
<1>1. TypeOK /\ LinkInv
  BY DEF Basic
<1>2. ASSUME UNCHANGED <<runs, device>>, odd \subseteq odd', Alive,
             failure' # "device"
      PROVE  DeviceInv'
  BY <1>2 DEF DeviceInv, NullDeviceOnlyInNestedRun, Top
<1>3. CASE StartRecording
  BY <1>2, <1>3 DEF StartRecording, runVars, Alive
<1>4. CASE FinishRecording
  BY <1>2, <1>4 DEF FinishRecording, AtFinished, runVars, Alive
<1>5. CASE LogData \/ \E name \in Tests \cup {NoName} : TypeName(name)
  BY <1>2, <1>5 DEF LogData, TypeName, runVars, Alive
<1>6. ASSUME NEW a \in DOMAIN apps, AppLogs(a) \/ AppExits(a)
      PROVE  DeviceInv'
  BY <1>2, <1>6 DEF AppLogs, AppExits, runVars, Alive
<1>7. ASSUME NEW a \in DOMAIN apps, AppConnects(a) PROVE DeviceInv'
  <2>1. Alive /\ UNCHANGED <<runs, odd>> /\ failure' # "device"
    BY <1>7 DEF AppConnects, Alive
  <2>2. ASSUME Alive' PROVE device' = device \/ device' # NoSocket
    BY <1>1, <1>7, <2>2, PlayerGiven
  <2> QED
    BY <2>1, <2>2 DEF DeviceInv, NullDeviceOnlyInNestedRun, Top
<1>8. CASE RunTestScript
  <2>1. /\ Alive /\ UNCHANGED failure /\ runs' = Append(runs, "script")
        /\ odd \subseteq odd'
        /\ runs # <<>> => "nested" \in odd'
    BY <1>8 DEF RunTestScript
  <2>2. ASSUME "nested" \notin odd'
        PROVE  Len(runs') = 1 /\ Top' = "script"
    <3>1. runs = <<>>
      BY <2>1, <2>2
    <3>2. Len(runs') = 1 /\ runs'[1] = "script"
      BY <2>1, <3>1
    <3> QED
      BY <3>2 DEF Top
  <2> QED
    BY <2>1, <2>2 DEF DeviceInv, NullDeviceOnlyInNestedRun, Alive
<1>9. ASSUME NEW spawned \in BOOLEAN, StartApplication(spawned)
      PROVE  DeviceInv'
  <2>1. /\ runs # <<>> /\ Move("attach") /\ Alive /\ UNCHANGED failure
        /\ odd' \cap {"nested"} = odd \cap {"nested"}
    BY <1>9 DEF StartApplication, Running
  <2>2. Len(runs') = Len(runs) /\ runs'[Len(runs)] = "attach"
    BY <1>1, <2>1, RunsTyped, WaitsAre
  <2>3. Top' = "attach"
    BY <2>2 DEF Top
  <2>4. "nested" \in odd' <=> "nested" \in odd
    BY <2>1
  <2> QED
    BY <2>1, <2>2, <2>3, <2>4 DEF DeviceInv, NullDeviceOnlyInNestedRun, Alive
<1>10. CASE Attached
  <2>1. /\ runs # <<>> /\ Move("script") /\ UNCHANGED <<odd, failure>> /\ Alive
    BY <1>10 DEF Attached, Running
  <2> QED
    BY <1>1, <2>1, DeviceKept, WaitsAre DEF Alive
<1>11. CASE CloseApplication \/ RunEnds
  <2>1. /\ runs # <<>> /\ UNCHANGED <<odd, failure, device>> /\ Alive
        /\ device # NoSocket
        /\ Move("close") \/ Move("endClose")
    BY <1>11 DEF CloseApplication, RunEnds, StartClose, Running
  <2> QED
    BY <1>1, <2>1, DeviceKept, WaitsAre DEF Alive
<1>12. CASE RunEndsUnclosed
  <2>1. /\ runs # <<>> /\ UNCHANGED <<odd, failure>> /\ Alive
        /\ runs' = Front(runs)
    BY <1>12 DEF RunEndsUnclosed, Running
  <2> QED
    BY <1>1, <2>1, DeviceKept DEF Alive
<1>13. CASE WriteDie
  <2>1. /\ Alive /\ runs # <<>> /\ Top \in {"close", "endClose"}
        /\ UNCHANGED <<odd, device>>
    BY <1>13 DEF WriteDie
  <2>2. CASE device = NoSocket
    <3>1. "nested" \in odd'
      BY <2>1, <2>2 DEF DeviceInv
    <3> QED
      BY <3>1 DEF DeviceInv, NullDeviceOnlyInNestedRun
  <2>3. CASE device # NoSocket
    <3>1. UNCHANGED failure /\ (Move("die") \/ Move("endDie"))
      BY <1>13, <2>3 DEF WriteDie
    <3> QED
      BY <1>1, <2>1, <3>1, DeviceKept, WaitsAre DEF Alive
  <2> QED
    BY <2>2, <2>3
<1>14. CASE ApplicationClosed
  <2>1. /\ Alive /\ runs # <<>> /\ UNCHANGED <<odd, failure>>
        /\ Move("script") \/ runs' = Front(runs)
    BY <1>14 DEF ApplicationClosed
  <2> QED
    BY <1>1, <2>1, DeviceKept, WaitsAre DEF Alive
<1>15. CASE UNCHANGED vars
  BY <1>15 DEF vars, runVars, DeviceInv, NullDeviceOnlyInNestedRun, Alive, Top
<1> QED
  BY <1>3, <1>4, <1>5, <1>6, <1>7, <1>8, <1>9, <1>10, <1>11, <1>12, <1>13,
     <1>14, <1>15
  DEF Next

-----------------------------------------------------------------------------
(* Overlaps are never forgotten.                                           *)
LEMMA OddGrows == [Next]_vars => odd \subseteq odd'
  BY DEF Next, vars, StartRecording, FinishRecording, AtFinished, LogData,
         TypeName, AppConnects, AppLogs, AppExits, RunTestScript,
         StartApplication, Attached, StartClose, CloseApplication, RunEnds,
         RunEndsUnclosed, WriteDie, ApplicationClosed

(* SessionInv is inductive.                                                *)
LEMMA NextSession == SessionInv /\ [Next]_vars => SessionInv'
<1> SUFFICES ASSUME SessionInv, [Next]_vars PROVE SessionInv'
  OBVIOUS
<1>1. Basic /\ Basic' /\ odd \subseteq odd' /\ DeviceInv'
  BY NextBasic, NextDevice, OddGrows DEF SessionInv
<1>2. ASSUME Calm' PROVE Quiet'
  <2>1. Calm /\ Quiet
    BY <1>1, <1>2 DEF Calm, SessionInv
  <2>2. CASE \/ StartRecording \/ RunTestScript
             \/ \E spawned \in BOOLEAN : StartApplication(spawned)
    BY <1>1, <1>2, <2>1, <2>2, StartRecordingQuiet, RunTestScriptQuiet,
       StartApplicationQuiet
  <2>3. CASE FinishRecording
    BY <1>1, <2>1, <2>3, FinishRecordingQuiet
  <2>4. ASSUME NEW a \in DOMAIN apps,
               AppConnects(a) \/ AppLogs(a) \/ AppExits(a)
        PROVE  Quiet'
    BY <1>1, <2>1, <2>4, AppConnectsQuiet, AppStepsQuiet
  <2>5. CASE LogData
    BY <1>1, <2>1, <2>5, AppStepsQuiet
  <2>6. ASSUME NEW name \in Tests \cup {NoName}, TypeName(name) PROVE Quiet'
    BY <1>1, <2>1, <2>6, OtherStepsQuiet
  <2>7. CASE Attached \/ CloseApplication \/ RunEnds \/ RunEndsUnclosed
                \/ WriteDie \/ ApplicationClosed \/ UNCHANGED vars
    BY <1>1, <2>1, <2>7, OtherStepsQuiet
  <2> QED
    BY <2>2, <2>3, <2>4, <2>5, <2>6, <2>7 DEF Next
<1>3. ASSUME odd' = {} PROVE SingleRun'
  <2>1. odd = {} /\ Quiet /\ SingleRun
    BY <1>1, <1>3 DEF Calm, SessionInv
  <2>2. CASE StartRecording \/ FinishRecording
    BY <1>1, <1>3, <2>1, <2>2, RecordingSingle
  <2>3. CASE \/ RunTestScript \/ Attached
             \/ \E spawned \in BOOLEAN : StartApplication(spawned)
             \/ CloseApplication \/ RunEnds \/ RunEndsUnclosed
             \/ WriteDie \/ ApplicationClosed
    BY <1>1, <1>3, <2>1, <2>3, RunStepsSingle
  <2>4. ASSUME NEW a \in DOMAIN apps,
               AppConnects(a) \/ AppLogs(a) \/ AppExits(a)
        PROVE  SingleRun'
    BY <1>1, <2>1, <2>4, AppConnectsSingle, OtherStepsSingle
  <2>5. CASE LogData \/ UNCHANGED vars
    BY <1>1, <2>1, <2>5, OtherStepsSingle
  <2>6. ASSUME NEW name \in Tests \cup {NoName}, TypeName(name)
        PROVE  SingleRun'
    BY <1>1, <2>1, <2>6, OtherStepsSingle
  <2> QED
    BY <2>2, <2>3, <2>4, <2>5, <2>6 DEF Next
<1> QED
  BY <1>1, <1>2, <1>3 DEF SessionInv

(* A window that was just opened has nothing in progress.                  *)
LEMMA InitSession == Init => SessionInv
<1> SUFFICES ASSUME Init PROVE SessionInv
  OBVIOUS
<1>1. Basic
  BY InitBasic
<1>2. /\ acceptors = <<>> /\ pending = <<>> /\ apps = <<>> /\ runs = <<>>
      /\ logSocket = NoSocket /\ attach = "NotAttached"
  BY DEF Init
<1>3. ~Recording /\ ~HasLogger
  BY ShapeMembers DEF Init, Recording, HasLogger, Injectors
<1>4. StartingPlay = {} /\ Waiting = {}
  BY <1>2 DEF StartingPlay, Waiting
<1>5. Cardinality(StartingPlay) <= Cardinality(Waiting)
  BY <1>4, FS_EmptySet
<1>6. OneAtATime
  BY <1>2, <1>3, <1>5 DEF OneAtATime
<1>7. DumpOfRecording
  BY <1>2, <1>3 DEF DumpOfRecording
<1>8. Purposes
  BY <1>2 DEF Purposes
<1>9. OwnLogs
  BY DEF Init, OwnLogs
<1>10. SingleRun
  BY <1>2, <1>4 DEF SingleRun
<1>11. DeviceInv
  BY <1>2 DEF Init, DeviceInv, NullDeviceOnlyInNestedRun
<1> QED
  BY <1>1, <1>6, <1>7, <1>8, <1>9, <1>10, <1>11 DEF SessionInv, Quiet

(* MainWindow's recordings and runs keep out of each other's way as far as *)
(* they can: the inductive invariant the results below rest on, for any    *)
(* number of tests, applications, log elements and nested runs.            *)
THEOREM SessionInvariance == Spec => []SessionInv
  BY InitSession, NextSession, PTL DEF Spec

(* The state of MainWindow, GdbInjector and RemoteLogger keeps its types:  *)
(* a log element never reaches a null m_xmlDump.                           *)
THEOREM TypeCorrect == Spec => []TypeOK
<1>1. SessionInv => TypeOK
  BY DEF SessionInv, Basic
<1> QED
  BY <1>1, SessionInvariance, PTL

(* RemoteConnection::acceptConnection hands out a null socket only where   *)
(* runTestScript was called over a recording.                              *)
THEOREM NullSocketCorrect == Spec => []NullSocketOnlyInRunOverRecording
<1>1. SessionInv => NullSocketOnlyInRunOverRecording
  BY DEF SessionInv, Basic
<1> QED
  BY <1>1, SessionInvariance, PTL

(* MainWindow::finishRecording closes a null m_xmlDump only after          *)
(* startRecording was called while another recording ran, and              *)
(* Interpreter::closeApplication writes DIE to a null device only where a  *)
(* test was run inside another run.                                        *)
THEOREM NullUseCorrect == Spec => []NullUseOnlyInOverlap
<1>1. SessionInv => NullUseOnlyInOverlap
  BY DEF SessionInv, Basic, DeviceInv, NullUseOnlyInOverlap
<1> QED
  BY <1>1, SessionInvariance, PTL

(* RemoteLogger tells only recorded applications to RECORD and             *)
(* Interpreter only applications of runs to PLAY, while nothing but runs   *)
(* overlap.                                                                *)
THEOREM PurposeCorrect == Spec => []ToldItsPurpose
<1>1. SessionInv => ToldItsPurpose
  BY DEF SessionInv, Calm, Quiet, Purposes, ToldItsPurpose
<1> QED
  BY <1>1, SessionInvariance, PTL

(* Interpreter::waitForAttach returns with the application that was        *)
(* started last, while nothing overlaps.                                   *)
THEOREM PlayCorrect == Spec => []PlaysTheStarted
<1>1. SessionInv => PlaysTheStarted
  <2>1. <<"script">> # <<>>
    OBVIOUS
  <2> QED
    BY <2>1 DEF SessionInv, SingleRun, PlaysTheStarted
<1> QED
  BY <1>1, SessionInvariance, PTL

(* What finishRecording stores is a prefix of the log of the application   *)
(* it was recorded from, while nothing but runs overlap.                   *)
THEOREM LogCorrect == Spec => []ScriptIsPrefixOfItsLog
<1>1. SessionInv => ScriptIsPrefixOfItsLog
  BY DEF SessionInv, Calm, Quiet, OwnLogs, LogOf, ScriptIsPrefixOfItsLog
<1> QED
  BY <1>1, SessionInvariance, PTL
=============================================================================
