--------------------------- MODULE Boards_proofs ---------------------------
(***************************************************************************)
(* What a clock keeps through failed writes, lost connections and lost     *)
(* power, on either controller with a network: the strings of its store,   *)
(* the firmware image that is uploaded, the partition it goes to and the   *)
(* answers about it; for any texts, any number of uploads and any length   *)
(* of an image.  And the AVR's timer, for any resolution and periods.      *)
(***************************************************************************)
EXTENDS Boards, TLAPS

-----------------------------------------------------------------------------
(* What is written, and what is owed *)

\* What a command under way may have left to write: both halves of a network, the second of them,
\* a console's password, or nothing.
TodoShapes ==
  {<< >>}
    \cup {<< << "ssid", text >>, << "password", password >> >> : text \in Entered, password \in Entered}
    \cup {<< << key, text >> >> : key \in {"password", "console"}, text \in Entered}

StoreShape ==
  /\ store \in [Keys -> Entered]
  /\ todo \in TodoShapes
  /\ promised \in [Keys -> Entered]
  /\ unanswered \in [Keys -> SUBSET Entered]

\* A command writes only while the loop is at it.
WritingIsAtWork == at # "writing" => todo = << >>

\* Whatever is still to be written has been counted as begun.
TodoIsUnanswered == \A i \in DOMAIN todo : todo[i][2] \in unanswered[todo[i][1]]

\* What lies beside the file is the string that is next, all of it; on the ESP32 there is no such file.
StagedIsNext ==
  /\ staged # Torn => todo # << >> /\ staged = Head(todo)[2]
  /\ controller = "ESP32" => staged = Torn

StoreInv ==
  /\ StoreShape
  /\ WritingIsAtWork
  /\ TodoIsUnanswered
  /\ StagedIsNext
  /\ StoreIsWhatWasEntered

-----------------------------------------------------------------------------
(* What is uploaded *)

Stages == {"idle", "sending", "committed", "restarting", "lost", "ok", "refused", "unauthorised"}

Disks == [written : Nat, isOpen : BOOLEAN, isCommitted : BOOLEAN, failure : Reasons \cup {None},
          file : BOOLEAN, image : Seq(Requests \X Nat), page : BOOLEAN]

Posted == [at : Stages, sent : Nat, announced : {0, Chunks, Chunks + 1}, password : Entered]

UploadShape ==
  /\ disk \in Disks
  /\ requests \in [Requests -> Posted]
  /\ pageBy \in Requests \cup {None}
  /\ {overlapped, replaced} \subseteq BOOLEAN

\* The first n chunks of a request.
Sent(r, n) == [i \in 1 .. n |-> << r, i >>]

BeingSent(r) == requests[r].at = "sending"

\* A body that is on its way was announced, and has not sent more than there is; the first chunk
\* and the request's being there are one callback of the RP2350.
BodiesAreAnnounced ==
  \A r \in Requests : BeingSent(r) =>
    /\ requests[r].announced \in {Chunks, Chunks + 1}
    /\ requests[r].sent <= Chunks
    /\ controller = "RP2350" => requests[r].sent # 0

\* The RP2350 goes from the body to the answer; the ESP32 has one task for all that is in between.
OneAtATime ==
  /\ controller = "ESP32" =>
       \A r, other \in Requests :
         /\ requests[r].at \in {"sending", "committed", "restarting"}
         /\ requests[other].at \in {"sending", "committed", "restarting"}
         => r = other
  /\ controller = "RP2350" => \A r \in Requests : requests[r].at \notin {"committed", "restarting"}
  /\ ~overlapped => \A r, other \in Requests : BeingSent(r) /\ BeingSent(other) => r = other

\* A partition that is claimed is being sent to, and the other way round.
ClaimedIsSentTo == controller = "ESP32" => (disk.isOpen <=> \E r \in Requests : BeingSent(r))

\* An image that is open is there, and has neither been handed over nor failed; the ESP32 keeps no
\* reason with its partition.
OpenIsUnderWay ==
  /\ disk.isOpen => ~disk.isCommitted /\ disk.failure = None /\ disk.file
  /\ controller = "ESP32" => disk.failure = None

\* It holds what the one request that is on its way has sent.
OpenIsWhatWasSent ==
  disk.isOpen /\ ~overlapped =>
    \A r \in Requests : BeingSent(r) =>
      disk.image = Sent(r, requests[r].sent) /\ disk.written = requests[r].sent

\* An image the page names is not open, unless it was begun again.
NamedIsClosed == disk.page /\ ~replaced => ~disk.isOpen

\* The page is by a request that has sent its image: on its way to its answer, or behind it.
PageIsByItsRequest ==
  \A r \in Requests :
    /\ requests[r].at = "idle" => pageBy # r
    /\ controller = "ESP32" /\ BeingSent(r) => pageBy # r
    /\ controller = "ESP32" /\ requests[r].at \in {"committed", "restarting"} => pageBy = r
    /\ controller = "RP2350" /\ ~overlapped /\ BeingSent(r) =>
         (pageBy = r <=> ~disk.isOpen /\ disk.isCommitted /\ disk.failure = None)

UploadInv ==
  /\ UploadShape
  /\ BodiesAreAnnounced
  /\ OneAtATime
  /\ ClaimedIsSentTo
  /\ OpenIsUnderWay
  /\ OpenIsWhatWasSent
  /\ NamedIsClosed
  /\ PageIsByItsRequest
  /\ UndisturbedImageIsWhole

\* What is being printed waits until it is printed.
RefusalInv == at = "refusal" => refusalPending /\ refusal = printing

-----------------------------------------------------------------------------
(* The store: no step leaves in it what nobody entered *)

LEMMA EmptyIsEntered == Empty \in Entered /\ Torn \notin Entered
  BY BoardSystemAssumption DEF Entered, Keys

\* What is left behind a command's next string is what a command may have left.
LEMMA RestOfTodo ==
  ASSUME todo \in TodoShapes, todo # << >>
  PROVE  /\ Head(todo)[1] \in Keys /\ Head(todo)[2] \in Entered
         /\ Tail(todo) \in TodoShapes
         /\ 1 \in DOMAIN todo /\ Head(todo) = todo[1]
         /\ Head(todo)[1] = "ssid" =>
              \E password \in Entered : Tail(todo) = << << "password", password >> >>
              /\ todo[2] = << "password", password >> /\ 2 \in DOMAIN todo
         /\ Head(todo)[1] # "ssid" => Tail(todo) = << >>
<1>1. CASE \E text \in Entered, password \in Entered :
             todo = << << "ssid", text >>, << "password", password >> >>
  <2>1. PICK text \in Entered, password \in Entered :
               todo = << << "ssid", text >>, << "password", password >> >>
    BY <1>1
  <2>2. Tail(todo) = << << "password", password >> >> /\ Head(todo) = << "ssid", text >>
    BY <2>1
  <2>3. << << "password", password >> >> \in TodoShapes
    BY DEF TodoShapes
  <2> QED  BY <2>1, <2>2, <2>3 DEF Keys
<1>2. CASE \E key \in {"password", "console"}, text \in Entered : todo = << << key, text >> >>
  <2>1. PICK key \in {"password", "console"}, text \in Entered : todo = << << key, text >> >>
    BY <1>2
  <2>2. Tail(todo) = << >> /\ Head(todo) = << key, text >> /\ << >> \in TodoShapes
    BY <2>1 DEF TodoShapes
  <2> QED  BY <2>1, <2>2 DEF Keys
<1> QED  BY <1>1, <1>2 DEF TodoShapes

\* A step that gives the rest of a command up.
LEMMA GiveUpKeeps ==
  ASSUME StoreInv, GiveUp, UNCHANGED controller
  PROVE  StoreInv'
<1>1. todo' = << >> /\ << >> \in TodoShapes /\ staged' = Torn
  BY DEF GiveUp, TodoShapes
<1>2. UNCHANGED << store, promised, unanswered, controller >>
  BY DEF GiveUp
<1> QED
  BY <1>1, <1>2 DEF StoreInv, StoreShape, WritingIsAtWork, TodoIsUnanswered, StagedIsNext,
                    StoreIsWhatWasEntered

\* A key takes the string that is next; its command is answered when that was the last one.
LEMMA PutKeeps ==
  ASSUME StoreInv, NEW text \in Entered, todo # << >>, text = Head(todo)[2],
         store' = [store EXCEPT ![Head(todo)[1]] = text],
         todo' = Tail(todo),
         staged' = Torn,
         CASE Head(todo)[1] = "ssid"     -> UNCHANGED << radio, promised, unanswered >>
           [] Head(todo)[1] = "password" -> radio' = StartNetwork(store') /\ Confirm({"ssid", "password"})
           [] Head(todo)[1] = "console"  -> Confirm({"console"}) /\ UNCHANGED radio,
         at' = "writing",
         UNCHANGED controller
  PROVE  StoreInv'
<1> DEFINE key == Head(todo)[1]
<1>1. StoreShape /\ TodoIsUnanswered /\ StoreIsWhatWasEntered
  BY DEF StoreInv
<1>2. key \in Keys /\ todo' \in TodoShapes /\ 1 \in DOMAIN todo /\ Head(todo) = todo[1]
  BY <1>1, RestOfTodo DEF StoreShape
<1>3. text \in unanswered[key]
  BY <1>1, <1>2 DEF TodoIsUnanswered
<1>4. store' \in [Keys -> Entered] /\ \A k \in Keys : store'[k] = IF k = key THEN text ELSE store[k]
  BY <1>1, <1>2 DEF StoreShape
<1>5. CASE key = "ssid"
  <2>1. UNCHANGED << promised, unanswered >>
    BY <1>5
  <2>2. PICK password \in Entered :
          Tail(todo) = << << "password", password >> >> /\ todo[2] = << "password", password >>
          /\ 2 \in DOMAIN todo
    BY <1>1, <1>5, RestOfTodo DEF StoreShape
  <2>3. password \in unanswered["password"]
    BY <1>1, <2>2 DEF TodoIsUnanswered
  <2>4. TodoIsUnanswered'
    BY <2>1, <2>2, <2>3 DEF TodoIsUnanswered
  <2>5. StoreIsWhatWasEntered'
    BY <1>1, <1>3, <1>4, <2>1 DEF StoreIsWhatWasEntered, StoreShape
  <2> QED  BY <1>1, <1>2, <1>4, <2>1, <2>4, <2>5 DEF StoreInv, StoreShape, WritingIsAtWork, StagedIsNext
<1>6. CASE key # "ssid"
  <2>1. todo' = << >>
    BY <1>1, <1>6, RestOfTodo DEF StoreShape
  <2>2. PICK keys \in SUBSET Keys : key \in keys /\ Confirm(keys)
    <3>1. CASE key = "password"
      BY <3>1, <1>6 DEF Keys
    <3>2. CASE key = "console"
      BY <3>2, <1>6 DEF Keys
    <3> QED  BY <1>2, <1>6, <3>1, <3>2 DEF Keys
  <2>3. \A k \in Keys : promised'[k] = (IF k \in keys THEN store'[k] ELSE promised[k])
                        /\ unanswered'[k] = IF k \in keys THEN {} ELSE unanswered[k]
    BY <2>2 DEF Confirm
  <2>4. promised' \in [Keys -> Entered] /\ unanswered' \in [Keys -> SUBSET Entered]
    BY <1>1, <1>4, <2>2 DEF Confirm, StoreShape
  <2>5. StoreIsWhatWasEntered'
    BY <1>1, <1>4, <2>2, <2>3 DEF StoreIsWhatWasEntered
  <2> QED  BY <1>1, <1>2, <1>4, <2>1, <2>4, <2>5
           DEF StoreInv, StoreShape, TodoIsUnanswered, WritingIsAtWork, StagedIsNext
<1> QED  BY <1>5, <1>6

\* A command begins to write: what it writes counts as begun from now on.
LEMMA BeginKeeps ==
  ASSUME StoreInv, NEW writes \in TodoShapes, todo = << >>, Begin(writes), at' = "writing",
         UNCHANGED controller
  PROVE  StoreInv'
<1>1. StoreShape /\ StoreIsWhatWasEntered /\ staged = Torn
  BY DEF StoreInv, StagedIsNext
<1>2. \A i \in DOMAIN writes : writes[i][1] \in Keys /\ writes[i][2] \in Entered
  BY DEF TodoShapes, Keys
<1>3. unanswered' = [k \in Keys |->
                       unanswered[k] \cup {writes[i][2] : i \in {j \in DOMAIN writes : writes[j][1] = k}}]
      /\ UNCHANGED << store, staged, promised >> /\ todo' = writes
  BY DEF Begin
<1>4. unanswered' \in [Keys -> SUBSET Entered]
  BY <1>1, <1>2, <1>3 DEF StoreShape
<1>5. TodoIsUnanswered'
  BY <1>2, <1>3 DEF TodoIsUnanswered
<1>6. StoreIsWhatWasEntered'
  BY <1>1, <1>3 DEF StoreIsWhatWasEntered
<1> QED  BY <1>1, <1>3, <1>4, <1>5, <1>6 DEF StoreInv, StoreShape, WritingIsAtWork, StagedIsNext

\* A command that takes the console's password away answers at once.
LEMMA TakenAwayKeeps ==
  ASSUME StoreInv, todo = << >>, UNCHANGED << staged, todo, controller >>,
         store' = [store EXCEPT !.console = Empty],
         promised' = [promised EXCEPT !.console = Empty],
         unanswered' = [unanswered EXCEPT !.console = {}]
  PROVE  StoreInv'
<1>1. StoreShape /\ StoreIsWhatWasEntered /\ StagedIsNext
  BY DEF StoreInv
<1>2. store' \in [Keys -> Entered] /\ promised' \in [Keys -> Entered]
      /\ unanswered' \in [Keys -> SUBSET Entered]
  BY <1>1, EmptyIsEntered DEF StoreShape, Keys
<1>3. StoreIsWhatWasEntered'
  BY <1>1 DEF StoreShape, StoreIsWhatWasEntered, Keys
<1> QED  BY <1>1, <1>2, <1>3
         DEF StoreInv, StoreShape, WritingIsAtWork, TodoIsUnanswered, StagedIsNext

\* A step that has nothing to do with what is stored.
LEMMA StoreUntouched ==
  ASSUME StoreInv, UNCHANGED << store, staged, todo, promised, unanswered, controller >>,
         at' = at \/ todo = << >>
  PROVE  StoreInv'
BY DEF StoreInv, StoreShape, WritingIsAtWork, TodoIsUnanswered, StagedIsNext, StoreIsWhatWasEntered

\* A start forgets what was still to be written, and what lies beside the file.
LEMMA StartKeepsStore ==
  ASSUME StoreInv, UNCHANGED << store, promised, unanswered, controller >>,
         todo' = << >>, staged' = Torn
  PROVE  StoreInv'
<1>1. << >> \in TodoShapes
  BY DEF TodoShapes
<1> QED
  BY <1>1 DEF StoreInv, StoreShape, WritingIsAtWork, TodoIsUnanswered, StagedIsNext,
              StoreIsWhatWasEntered

LEMMA NetworkShapes ==
  ASSUME NEW text \in Entered, NEW password \in Entered
  PROVE  /\ << << "ssid", text >>, << "password", password >> >> \in TodoShapes
         /\ << << "console", password >> >> \in TodoShapes
BY DEF TodoShapes

LEMMA CommandKeepsStore ==
  ASSUME StoreInv, UNCHANGED controller, WritingCommand \/ EspWritingCommand
  PROVE  StoreInv'
<1>1. at = "command" /\ at' = "writing" /\ todo = << >>
  BY DEF StoreInv, WritingIsAtWork, WritingCommand, EspWritingCommand, GoTo
<1>2. CASE \E text \in Entered, password \in Entered : SetNetworkCredentials(text, password)
  BY <1>1, <1>2, NetworkShapes, BeginKeeps DEF SetNetworkCredentials
<1>3. CASE \E text \in Entered, password \in Entered : EspSetNetworkCredentials(text, password)
  <2>1. PICK text \in Entered, password \in Entered :
          SetNetworkCredentials(text, IF text = Empty THEN Empty ELSE password)
    BY <1>3 DEF EspSetNetworkCredentials
  <2>2. (IF text = Empty THEN Empty ELSE password) \in Entered
    BY EmptyIsEntered
  <2> QED  BY <1>1, <2>1, <2>2, NetworkShapes, BeginKeeps DEF SetNetworkCredentials
<1>4. CASE \E text \in Entered : SetConsolePassword(text)
  BY <1>1, <1>4, NetworkShapes, BeginKeeps, TakenAwayKeeps DEF SetConsolePassword
<1>5. CASE \E text \in Entered : EspSetConsolePassword(text)
  <2>1. PICK text \in Entered : EspSetConsolePassword(text)
    BY <1>5
  <2>2. CASE Begin(<< << "console", text >> >>)
    BY <1>1, <2>2, NetworkShapes, BeginKeeps
  <2>3. CASE SetConsolePassword(Empty)
    BY <1>4, <2>3, EmptyIsEntered
  <2> QED  BY <2>1, <2>2, <2>3 DEF EspSetConsolePassword
<1> QED  BY <1>2, <1>3, <1>4, <1>5 DEF WritingCommand, EspWritingCommand

\* Written beside the file, then in its place; or one of the two fails.
LEMMA WriteKeepsStore ==
  ASSUME StoreInv, Write, controller = "RP2350", UNCHANGED controller
  PROVE  StoreInv'
<1>1. CASE todo = << >>
  BY <1>1, StoreUntouched DEF Write, systemVars
<1>2. CASE todo # << >> /\ Stage
  <2>1. CASE GiveUp
    BY <2>1, GiveUpKeeps
  <2>2. CASE staged' = Head(todo)[2] /\ UNCHANGED << store, todo, radio, promised, unanswered >>
    BY <1>2, <2>2 DEF Write, GoTo, StoreInv, StoreShape, WritingIsAtWork, TodoIsUnanswered,
                      StagedIsNext, StoreIsWhatWasEntered
  <2> QED  BY <1>2, <2>1, <2>2 DEF Stage
<1>3. CASE todo # << >> /\ Rename
  <2>1. CASE GiveUp
    BY <2>1, GiveUpKeeps
  <2>2. CASE Replace
    <3>1. staged = Head(todo)[2] /\ staged \in Entered
      BY <1>3, RestOfTodo DEF Rename, StoreInv, StagedIsNext, StoreShape
    <3>2. at' = "writing"
      BY <1>3 DEF Write, GoTo
    <3> QED  BY <1>3, <2>2, <3>1, <3>2, PutKeeps DEF Replace
  <2> QED  BY <1>3, <2>1, <2>2 DEF Rename
<1> QED  BY <1>1, <1>2, <1>3 DEF Write

LEMMA EspWriteKeepsStore ==
  ASSUME StoreInv, EspWrite, controller = "ESP32", UNCHANGED controller
  PROVE  StoreInv'
<1>1. CASE todo = << >>
  BY <1>1, StoreUntouched DEF EspWrite, systemVars
<1>2. CASE todo # << >>
  <2>1. EspPutString /\ at' = "writing"
    BY <1>2 DEF EspWrite, GoTo
  <2>2. CASE GiveUp
    BY <2>2, GiveUpKeeps
  <2>3. CASE ~GiveUp
    <3>1. Head(todo)[2] \in Entered /\ staged' = Torn
      BY <1>2, <2>1, <2>3, RestOfTodo DEF EspPutString, StoreInv, StoreShape, StagedIsNext
    <3> QED  BY <1>2, <2>1, <2>3, <3>1, PutKeeps DEF EspPutString
  <2> QED  BY <2>2, <2>3
<1> QED  BY <1>1, <1>2

LEMMA StoreStep == StoreInv /\ [BoardsNext]_boardsVars => StoreInv'
<1> SUFFICES ASSUME StoreInv, [BoardsNext]_boardsVars PROVE StoreInv'
  OBVIOUS
<1>1. at # "writing" => todo = << >>
  BY DEF StoreInv, WritingIsAtWork
<1>2. ASSUME Next, controller = "RP2350", UNCHANGED controller PROVE StoreInv'
  <2>1. CASE WritingCommand
    BY <1>2, <2>1, CommandKeepsStore
  <2>2. CASE Write
    BY <1>2, <2>2, WriteKeepsStore
  <2>3. CASE NoCommand \/ BeginReport \/ EndReport
    BY <1>1, <1>2, <2>3, StoreUntouched DEF NoCommand, BeginReport, EndReport, systemVars
  <2>4. CASE OtherCommand
    BY <1>1, <1>2, <2>4, StoreUntouched
    DEF OtherCommand, ReconnectNetwork, ResynchroniseTime, Restart, systemVars, GoTo
  <2>5. CASE ReportProgress \/ AskServers
    BY <1>1, <1>2, <2>5, StoreUntouched
    DEF ReportProgress, AskServers, systemButReport, systemButServers
  <2>6. CASE StartAgain
    BY <1>2, <2>6, StartKeepsStore DEF StartAgain, SetUp
  <2>7. CASE PerformPendingRestart /\ ~StartAgain
    BY <1>1, <1>2, <2>7, StoreUntouched DEF PerformPendingRestart, systemVars
  <2>8. CASE Server
    BY <1>2, <2>8, StoreUntouched DEF Server, systemButRestart
  <2>9. CASE Radio
    BY <1>2, <2>9, StoreUntouched DEF Radio, Link
  <2> QED  BY <1>2, <2>1, <2>2, <2>3, <2>4, <2>5, <2>6, <2>7, <2>8, <2>9 DEF Next, Loop, PowerLoss
<1>3. ASSUME EspNext, controller = "ESP32", UNCHANGED controller PROVE StoreInv'
  <2>1. CASE EspWritingCommand
    BY <1>3, <2>1, CommandKeepsStore
  <2>2. CASE EspWrite
    BY <1>3, <2>2, EspWriteKeepsStore
  <2>3. CASE NoCommand \/ BeginReport
    BY <1>1, <1>3, <2>3, StoreUntouched DEF NoCommand, BeginReport, systemVars
  <2>4. CASE EspOtherCommand
    BY <1>1, <1>3, <2>4, StoreUntouched
    DEF EspOtherCommand, EspReconnectNetwork, EspResynchroniseTime, Restart, systemVars, GoTo
  <2>5. CASE EspReportProgress
    BY <1>1, <1>3, <2>5, StoreUntouched DEF EspReportProgress, systemButReport
  <2>6. CASE EspStartAgain
    BY <1>3, <2>6, StartKeepsStore DEF EspStartAgain
  <2>7. CASE EspPerformPendingRestart /\ ~EspStartAgain
    BY <1>1, <1>3, <2>7, StoreUntouched DEF EspPerformPendingRestart, systemVars
  <2>8. CASE EspServer
    BY <1>3, <2>8, StoreUntouched DEF EspServer, systemButRestart
  <2>9. CASE EspRadio
    BY <1>3, <2>9, StoreUntouched DEF EspRadio, Link
  <2> QED  BY <1>3, <2>1, <2>2, <2>3, <2>4, <2>5, <2>6, <2>7, <2>8, <2>9 DEF EspNext, EspLoop, EspPowerLoss
<1>4. CASE UNCHANGED << vars, controller >>
  BY <1>4, StoreUntouched DEF vars, systemVars, loopVars
<1> QED
  BY <1>2, <1>3, <1>4 DEF BoardsNext, On, OnAvr, boardsVars

LEMMA InitStore == BoardsInit => StoreInv
<1> SUFFICES ASSUME BoardsInit PROVE StoreInv
  OBVIOUS
<1>1. BoardInit
  BY DEF BoardsInit, Init, EspInit
<1>2. << >> \in TodoShapes
  BY DEF TodoShapes
<1> QED
  BY <1>1, <1>2 DEF BoardInit, SystemInit, StoreInv, StoreShape, WritingIsAtWork, TodoIsUnanswered,
                    StagedIsNext, StoreIsWhatWasEntered

\* However often a write fails or the power goes in the middle of one, a stored string is what its
\* user was last told of or what a command has been writing since: never part of one
\* (WriteStoredString, SetNetworkCredentials, SetConsolePassword).
THEOREM StoreIsNeverTorn == BoardsSpec => []StoreIsWhatWasEntered
<1>1. StoreInv => StoreIsWhatWasEntered
  BY DEF StoreInv
<1> QED  BY InitStore, StoreStep, <1>1, PTL DEF BoardsSpec

-----------------------------------------------------------------------------
(* The image *)

LEMMA ChunkNumbers == Chunks \in Nat \ {0} /\ Posts \in Nat /\ None \notin Reasons /\ None \notin Requests
  BY ImageUploadAssumption

\* One chunk more.
LEMMA OneMoreChunk ==
  ASSUME NEW r \in Requests, NEW n \in Nat
  PROVE  /\ Sent(r, n) \in Seq(Requests \X Nat)
         /\ Append(Sent(r, n), << r, n + 1 >>) = Sent(r, n + 1)
         /\ Sent(r, 0) = << >>
         /\ IsWhole(Sent(r, Chunks))
<1>1. Sent(r, n) \in Seq(Requests \X Nat) /\ Len(Sent(r, n)) = n /\ DOMAIN Sent(r, n) = 1 .. n
  BY DEF Sent
<1>2. Append(Sent(r, n), << r, n + 1 >>) = Sent(r, n + 1)
  BY <1>1 DEF Sent
<1>3. Sent(r, 0) = << >>
  BY DEF Sent
<1>4. IsWhole(Sent(r, Chunks))
  BY DEF IsWhole, Sent
<1> QED  BY <1>1, <1>2, <1>3, <1>4

\* Whoever is served is under way, or comes in with whatever it announces.
LEMMA WhoArrives ==
  ASSUME UploadShape, NEW r \in Requests, NEW q \in Arriving(r)
  PROVE  /\ q \in Posted
         /\ q.at = requests[r].at
         /\ q.at # "idle" => q = requests[r]
         /\ q.at = "idle" => q.sent = 0
<1>1. Empty \in Entered
  BY EmptyIsEntered
<1> QED  BY <1>1, ChunkNumbers DEF Arriving, UploadShape, Posted, Stages

\* What a first chunk finds, field by field.
LEMMA BegunImage ==
  ASSUME NEW d \in Disks, NEW accepted \in BOOLEAN, NEW begun \in BeginImage(d, accepted)
  PROVE  /\ begun \in Disks
         /\ begun.page = d.page /\ ~begun.isCommitted /\ begun.written = 0
         /\ begun.isOpen => begun.failure = None /\ begun.image = << >> /\ begun.file
         /\ ~begun.isOpen => begun.failure # None
         /\ begun.failure \in {"not authorised", "no filesystem"} =>
              begun.image = d.image /\ begun.file = d.file
<1>1. << >> \in Seq(Requests \X Nat)
  OBVIOUS
<1> DEFINE fresh == Unused(d)
<1>2. /\ fresh \in Disks /\ fresh.page = d.page /\ fresh.image = d.image /\ fresh.file = d.file
      /\ ~fresh.isCommitted /\ fresh.written = 0 /\ ~fresh.isOpen /\ fresh.failure = None
  BY DEF Unused, Disks
<1>3. \/ begun = Failed(fresh, "not authorised") \/ begun = Failed(fresh, "no filesystem")
      \/ begun = Failed(Removed(fresh), "does not fit")
      \/ begun = [Removed(fresh) EXCEPT !.file = TRUE, !.isOpen = TRUE]
  BY DEF BeginImage
<1> HIDE DEF fresh
<1>4. CASE begun = Failed(fresh, "not authorised") \/ begun = Failed(fresh, "no filesystem")
  BY <1>2, <1>4, ChunkNumbers DEF Failed, Disks, Reasons
<1>5. CASE begun = Failed(Removed(fresh), "does not fit")
  BY <1>1, <1>2, <1>5, ChunkNumbers DEF Failed, Removed, Disks, Reasons
<1>6. CASE begun = [Removed(fresh) EXCEPT !.file = TRUE, !.isOpen = TRUE]
  BY <1>1, <1>2, <1>6, ChunkNumbers DEF Removed, Disks, Reasons
<1> QED  BY <1>3, <1>4, <1>5, <1>6

\* What becomes of a chunk, field by field.
LEMMA TakenChunk ==
  ASSUME NEW d \in Disks, NEW chunk \in Requests \X Nat, NEW total \in Nat,
         NEW taken \in TakeChunk(d, chunk, total)
  PROVE  /\ taken \in Disks
         /\ ~d.isOpen => taken = d
         /\ d.isOpen =>
              \/ /\ ~taken.isOpen /\ taken.failure \in {"not written", "stopped", "not handed over"}
                 /\ taken.page = d.page /\ taken.isCommitted = d.isCommitted
              \/ /\ taken.isOpen /\ taken.failure = d.failure /\ taken.page = d.page
                 /\ taken.isCommitted = d.isCommitted /\ taken.file = d.file
                 /\ taken.image = Append(d.image, chunk) /\ taken.written = d.written + 1
              \/ /\ ~taken.isOpen /\ taken.failure = d.failure /\ taken.page /\ taken.isCommitted
                 /\ taken.file = d.file /\ taken.image = Append(d.image, chunk)
                 /\ d.written + 1 = total
<1>1. << >> \in Seq(Requests \X Nat) /\ Append(d.image, chunk) \in Seq(Requests \X Nat)
  BY DEF Disks
<1> DEFINE longer == [d EXCEPT !.image = Append(@, chunk), !.written = @ + 1]
<1>2. longer \in Disks /\ longer.written = d.written + 1 /\ longer.image = Append(d.image, chunk)
      /\ longer.page = d.page /\ longer.isCommitted = d.isCommitted /\ longer.file = d.file
      /\ longer.failure = d.failure /\ longer.isOpen = d.isOpen
  <2>1. PICK image \in Seq(Requests \X Nat), n \in Nat :
          image = Append(d.image, chunk) /\ n = d.written + 1
    <3>1. d.written + 1 \in Nat
      BY DEF Disks
    <3> QED  BY ONLY <1>1, <3>1
  <2>2. longer = [d EXCEPT !.image = image, !.written = n]
    BY <2>1
  <2> HIDE DEF longer
  <2> QED  BY <2>1, <2>2 DEF Disks
<1>3. ASSUME NEW e \in Disks, NEW why \in {"not written", "stopped", "not handed over"}
      PROVE  /\ AbortImage(e, why) \in Disks
             /\ ~AbortImage(e, why).isOpen /\ AbortImage(e, why).failure = why
             /\ AbortImage(e, why).page = e.page /\ AbortImage(e, why).isCommitted = e.isCommitted
  BY <1>1 DEF AbortImage, Failed, Removed, Closed, Disks, Reasons
<1>4. CASE ~d.isOpen
  BY <1>4 DEF TakeChunk
<1>5. CASE d.isOpen
  <2>1. CASE taken = AbortImage(d, "not written")
    BY <1>3, <1>5, <2>1
  <2>2. CASE taken = longer
    <3> HIDE DEF longer
    <3> QED  BY <1>2, <1>5, <2>2
  <2>3. CASE taken \in CommitImage(longer, total)
    <3>1. CASE taken = AbortImage(longer, "stopped") \/ taken = AbortImage(longer, "not handed over")
      <4> HIDE DEF longer
      <4>1. PICK why \in {"not written", "stopped", "not handed over"} : taken = AbortImage(longer, why)
        BY <3>1
      <4>2. longer \in Disks
        BY <1>2
      <4>3. /\ taken \in Disks /\ ~taken.isOpen /\ taken.failure = why
            /\ taken.page = longer.page /\ taken.isCommitted = longer.isCommitted
        BY <1>3, <4>1, <4>2
      <4> QED  BY <1>2, <1>5, <4>3
    <3>2. CASE /\ longer.written = total
               /\ taken = [Closed(longer) EXCEPT !.page = TRUE, !.isCommitted = TRUE]
      <4> HIDE DEF longer
      <4>1. /\ taken \in Disks /\ ~taken.isOpen /\ taken.page /\ taken.isCommitted
            /\ taken.failure = longer.failure /\ taken.file = longer.file
            /\ taken.image = longer.image
        BY <1>2, <3>2 DEF Closed, Disks
      <4> QED  BY <1>2, <1>5, <3>2, <4>1
    <3> QED  BY <2>3, <3>1, <3>2 DEF CommitImage
  <2> QED  BY <1>5, <2>1, <2>2, <2>3 DEF TakeChunk
<1> QED  BY <1>4, <1>5

-----------------------------------------------------------------------------
(* The uploads: every step of the RP2350's server and of the ESP32's *)

LEMMA UploadUntouched ==
  ASSUME UploadInv, UNCHANGED << disk, requests, pageBy, overlapped, replaced, controller >>
  PROVE  UploadInv'
BY DEF UploadInv, UploadShape, BodiesAreAnnounced, BeingSent, OneAtATime, ClaimedIsSentTo,
       OpenIsUnderWay, OpenIsWhatWasSent, NamedIsClosed, PageIsByItsRequest, UndisturbedImageIsWhole

\* The step with what it chooses named: the request as it comes in, and the disk its chunk meets.
TakesBody(r, q, d) ==
  /\ d \in (IF q.sent = 0 THEN BeginImage(disk, IsCredentialAccepted(q)) ELSE {disk})
  /\ \/ q.at = "idle" /\ q.announced # 0
     \/ q.at = "sending" /\ q.sent < Chunks
  /\ disk' \in TakeChunk(d, << r, q.sent + 1 >>, q.announced)
  /\ requests' = [requests EXCEPT ![r] = [q EXCEPT !.at = "sending", !.sent = @ + 1]]
  /\ pageBy' = IF disk'.isCommitted /\ ~(disk.isCommitted /\ ~(q.sent = 0)) THEN r ELSE pageBy
  /\ overlapped' = (overlapped \/ Interferes(r))
  /\ replaced' = (replaced \/ (/\ q.sent = 0 /\ disk.page
                               /\ disk'.failure \notin {"not authorised", "no filesystem"}))

\* A chunk at the RP2350: the first one begins an image of its own, the last one hands it over.
LEMMA BodyKeeps ==
  ASSUME UploadInv, controller = "RP2350", UNCHANGED controller,
         NEW r \in Requests, HandleUpdateBody(r)
  PROVE  UploadInv'
<1> USE DEF UploadInv, TakesBody
<1>0. PICK q \in Arriving(r) : \E d : TakesBody(r, q, d)
  BY DEF HandleUpdateBody
<1>1. PICK d : q \in Arriving(r) /\ TakesBody(r, q, d)
  BY <1>0
<1>2. /\ q \in Posted /\ q.at = requests[r].at /\ q.announced \in {Chunks, Chunks + 1}
      /\ q.sent \in Nat /\ q.sent < Chunks /\ (q.sent = 0 <=> q.at = "idle")
      /\ q.at \in {"idle", "sending"} /\ q.announced \in Nat
  <2>0. (q.at = "idle" /\ q.announced # 0) \/ (q.at = "sending" /\ q.sent < Chunks)
    BY <1>1
  <2>1. q \in Posted /\ q.at = requests[r].at /\ (q.at # "idle" => q = requests[r])
        /\ (q.at = "idle" => q.sent = 0)
    BY WhoArrives
  <2>2. q.sent \in Nat /\ q.announced \in {0, Chunks, Chunks + 1}
    BY <2>1 DEF Posted
  <2>3. CASE q.at = "idle"
    BY <2>0, <2>1, <2>2, <2>3, ChunkNumbers
  <2>4. CASE q.at = "sending"
    <3>1. q.announced \in {Chunks, Chunks + 1} /\ q.sent # 0
      BY <2>1, <2>4 DEF BodiesAreAnnounced, BeingSent
    <3> QED  BY <2>0, <2>1, <2>2, <2>4, <3>1, ChunkNumbers
  <2> QED  BY <2>0, <2>3, <2>4
<1>3. /\ requests' \in [Requests -> Posted] /\ requests'[r].at = "sending"
      /\ requests'[r].sent = q.sent + 1 /\ requests'[r].announced = q.announced
      /\ \A other \in Requests \ {r} : requests'[other] = requests[other]
  <2>1. [q EXCEPT !.at = "sending", !.sent = @ + 1] \in Posted
    <3>1. PICK n \in Nat : n = q.sent + 1
      BY <1>2
    <3>2. [q EXCEPT !.at = "sending", !.sent = n] \in Posted
      BY <1>2 DEF Posted, Stages
    <3> QED  BY <3>1, <3>2
  <2>2. /\ [q EXCEPT !.at = "sending", !.sent = @ + 1].at = "sending"
        /\ [q EXCEPT !.at = "sending", !.sent = @ + 1].sent = q.sent + 1
        /\ [q EXCEPT !.at = "sending", !.sent = @ + 1].announced = q.announced
    BY <1>2 DEF Posted
  <2> QED  BY <1>1, <2>1, <2>2 DEF UploadShape
<1>4. ~overlapped' => ~overlapped /\ \A other \in Requests : BeingSent(other)' => other = r
  BY <1>1, <1>3 DEF Interferes, BeingSent
<1>5. /\ d \in Disks /\ d.page = disk.page
      /\ q.sent = 0 => /\ ~d.isCommitted /\ d.written = 0
                       /\ d.isOpen => d.failure = None /\ d.image = << >> /\ d.file
                       /\ ~d.isOpen => d.failure # None
                       /\ d.failure \in {"not authorised", "no filesystem"} =>
                            d.image = disk.image /\ d.file = disk.file
      /\ q.sent # 0 => d = disk
  <2>1. IsCredentialAccepted(q) \in BOOLEAN
    BY DEF IsCredentialAccepted
  <2>2. disk \in Disks
    BY DEF UploadShape
  <2> QED  BY <1>1, <2>1, <2>2, BegunImage
<1>6. d.isOpen => ~d.isCommitted /\ d.failure = None /\ d.file
  BY <1>5 DEF OpenIsUnderWay
<1>7. d.isOpen /\ ~overlapped' => d.image = Sent(r, q.sent) /\ d.written = q.sent
  <2>1. Sent(r, 0) = << >>
    BY OneMoreChunk
  <2> QED  BY <1>2, <1>4, <1>5, <2>1, WhoArrives DEF OpenIsWhatWasSent, BeingSent
<1>8. Append(Sent(r, q.sent), << r, q.sent + 1 >>) = Sent(r, q.sent + 1) /\ IsWhole(Sent(r, Chunks))
  BY <1>2, OneMoreChunk
<1>9. /\ disk' \in Disks
      /\ \/ ~d.isOpen /\ disk' = d
         \/ /\ d.isOpen /\ ~disk'.isOpen
            /\ disk'.failure \in {"not written", "stopped", "not handed over"}
            /\ disk'.page = d.page /\ disk'.isCommitted = d.isCommitted
         \/ /\ d.isOpen /\ disk'.isOpen /\ disk'.failure = d.failure /\ disk'.page = d.page
            /\ disk'.isCommitted = d.isCommitted /\ disk'.file = d.file
            /\ disk'.image = Append(d.image, << r, q.sent + 1 >>) /\ disk'.written = d.written + 1
         \/ /\ d.isOpen /\ ~disk'.isOpen /\ disk'.failure = d.failure /\ disk'.page
            /\ disk'.isCommitted /\ disk'.file = d.file
            /\ disk'.image = Append(d.image, << r, q.sent + 1 >>) /\ d.written + 1 = q.announced
  <2>1. PICK chunk \in Requests \X Nat : chunk = << r, q.sent + 1 >>
    <3>1. PICK n \in Nat : n = q.sent + 1
      BY <1>2
    <3>2. << r, n >> \in Requests \X Nat
      OBVIOUS
    <3> QED  BY <3>1, <3>2
  <2>2. d \in Disks /\ q.announced \in Nat /\ disk' \in TakeChunk(d, chunk, q.announced)
    BY <1>1, <1>2, <1>5, <2>1
  <2>3. PICK total \in Nat : total = q.announced
    BY <2>2
  <2>4. disk' \in TakeChunk(d, chunk, total)
    BY <2>2, <2>3
  <2>5. PICK e \in TakeChunk(d, chunk, total) : e = disk'
    BY <2>4
  <2>6. /\ e \in Disks
        /\ ~d.isOpen => e = d
        /\ d.isOpen =>
             \/ /\ ~e.isOpen /\ e.failure \in {"not written", "stopped", "not handed over"}
                /\ e.page = d.page /\ e.isCommitted = d.isCommitted
             \/ /\ e.isOpen /\ e.failure = d.failure /\ e.page = d.page
                /\ e.isCommitted = d.isCommitted /\ e.file = d.file
                /\ e.image = Append(d.image, chunk) /\ e.written = d.written + 1
             \/ /\ ~e.isOpen /\ e.failure = d.failure /\ e.page /\ e.isCommitted
                /\ e.file = d.file /\ e.image = Append(d.image, chunk)
                /\ d.written + 1 = total
    BY <2>2, TakenChunk
  <2> QED  BY <2>1, <2>3, <2>5, <2>6
<1>10. None \notin {"not written", "stopped", "not handed over"}
  BY ChunkNumbers DEF Reasons
<1>11. disk.page /\ ~replaced' =>
         /\ ~replaced /\ ~disk.isOpen /\ ~d.isOpen /\ disk' = d
         /\ q.sent = 0 => d.failure \in {"not authorised", "no filesystem"}
  BY <1>1, <1>5, <1>6, <1>9, <1>10, ChunkNumbers DEF NamedIsClosed, Reasons
<1>12. UploadShape'
  BY <1>1, <1>3, <1>9 DEF UploadShape
<1>13. BodiesAreAnnounced'
  BY <1>2, <1>3, ChunkNumbers DEF BodiesAreAnnounced, BeingSent
<1>14. OneAtATime'
  BY <1>3, <1>4 DEF OneAtATime
<1>15. ClaimedIsSentTo' /\ OpenIsUnderWay'
  BY <1>6, <1>9 DEF ClaimedIsSentTo, OpenIsUnderWay
<1>16. OpenIsWhatWasSent'
  BY <1>3, <1>4, <1>7, <1>8, <1>9 DEF OpenIsWhatWasSent
<1>17. NamedIsClosed'
  BY <1>5, <1>9, <1>11 DEF NamedIsClosed
<1>18. PageIsByItsRequest'
  <2>1. \A other \in Requests : requests'[other].at = "idle" => pageBy' # other
    BY <1>1, <1>3 DEF PageIsByItsRequest
  <2>2. ~overlapped' => (pageBy' = r <=> ~disk'.isOpen /\ disk'.isCommitted /\ disk'.failure = None)
    <3>1. CASE q.sent = 0
      <4>1. pageBy # r
        BY <1>2, <3>1 DEF PageIsByItsRequest
      <4> QED  BY <1>1, <1>5, <1>6, <1>9, <3>1, <4>1
    <3>2. CASE q.sent # 0
      <4>1. ~overlapped' => (pageBy = r <=> ~disk.isOpen /\ disk.isCommitted /\ disk.failure = None)
        BY <1>2, <1>4, <3>2 DEF PageIsByItsRequest, BeingSent
      <4> QED  BY <1>1, <1>5, <1>6, <1>9, <1>10, <3>2, <4>1
    <3> QED  BY <3>1, <3>2
  <2> QED  BY <1>4, <2>1, <2>2 DEF PageIsByItsRequest
<1>19. UndisturbedImageIsWhole'
  <2> SUFFICES ASSUME disk'.page, ~overlapped', ~replaced'
               PROVE  disk'.file /\ IsWhole(disk'.image)
    BY DEF UndisturbedImageIsWhole, IsWhole
  <2>1. CASE disk.page
    <3>1. disk.file /\ IsWhole(disk.image)
      BY <1>4, <1>11, <2>1 DEF UndisturbedImageIsWhole
    <3> QED  BY <1>5, <1>11, <2>1, <3>1
  <2>2. CASE ~disk.page
    <3>1. /\ d.isOpen /\ disk'.file = d.file /\ d.written + 1 = q.announced
          /\ disk'.image = Append(d.image, << r, q.sent + 1 >>)
      BY <1>5, <1>9, <2>2
    <3>2. q.sent + 1 = Chunks
      BY <1>2, <1>7, <3>1, ChunkNumbers
    <3> QED  BY <1>6, <1>7, <1>8, <3>1, <3>2
  <2> QED  BY <2>1, <2>2
<1> QED
  BY <1>12, <1>13, <1>14, <1>15, <1>16, <1>17, <1>18, <1>19

\* The answer of the RP2350: an image that is still open is taken away first.
LEMMA AnswerKeeps ==
  ASSUME UploadInv, controller = "RP2350", UNCHANGED controller, NEW r \in Requests, HandleUpdate(r)
  PROVE  UploadInv'
<1> USE DEF UploadInv
<1>1. /\ overlapped' = (overlapped \/ Interferes(r)) /\ UNCHANGED << pageBy, replaced >>
      /\ disk' \in {disk, AbortImage(disk, "stopped")}
      /\ disk' # disk => disk.isOpen
      /\ \E how \in {"unauthorised", "ok", "refused"} : requests' = [requests EXCEPT ![r] = Over(how)]
  BY DEF HandleUpdate
<1>2. /\ disk' \in Disks /\ disk'.page = disk.page
      /\ disk' = disk \/ (disk.isOpen /\ ~disk'.isOpen)
  <2>1. << >> \in Seq(Requests \X Nat) /\ "stopped" \in Reasons
    BY DEF Reasons
  <2>2. disk \in Disks
    BY DEF UploadShape
  <2> QED  BY <1>1, <2>1, <2>2 DEF AbortImage, Failed, Removed, Closed, Disks
<1>3. /\ requests' \in [Requests -> Posted] /\ requests'[r].at \in {"unauthorised", "ok", "refused"}
      /\ \A other \in Requests \ {r} : requests'[other] = requests[other]
  BY <1>1, EmptyIsEntered DEF UploadShape, Over, Posted, Stages
<1>4. ~overlapped' => ~overlapped /\ \A other \in Requests : ~BeingSent(other)'
  BY <1>1, <1>3 DEF Interferes, BeingSent
<1>5. UploadShape'
  BY <1>1, <1>2, <1>3 DEF UploadShape
<1>6. BodiesAreAnnounced' /\ OneAtATime' /\ ClaimedIsSentTo'
  BY <1>3, <1>4 DEF BodiesAreAnnounced, OneAtATime, ClaimedIsSentTo, BeingSent
<1>7. OpenIsUnderWay' /\ OpenIsWhatWasSent' /\ NamedIsClosed'
  BY <1>1, <1>2, <1>4 DEF OpenIsUnderWay, OpenIsWhatWasSent, NamedIsClosed
<1>8. PageIsByItsRequest'
  BY <1>1, <1>3, <1>4 DEF PageIsByItsRequest
<1>9. UndisturbedImageIsWhole'
  BY <1>1, <1>2, <1>4 DEF UndisturbedImageIsWhole, NamedIsClosed, IsWhole
<1> QED  BY <1>5, <1>6, <1>7, <1>8, <1>9

\* Nobody tells the clock that a connection died: the image stays open.
LEMMA LossKeeps ==
  ASSUME UploadInv, controller = "RP2350", UNCHANGED controller, NEW r \in Requests, LoseRequest(r)
  PROVE  UploadInv'
<1> USE DEF UploadInv
<1>1. /\ UNCHANGED << disk, pageBy, overlapped, replaced >>
      /\ requests' = [requests EXCEPT ![r] = Over("lost")]
  BY DEF LoseRequest
<1>2. /\ requests' \in [Requests -> Posted] /\ requests'[r].at = "lost"
      /\ \A other \in Requests \ {r} : requests'[other] = requests[other]
  BY <1>1, EmptyIsEntered DEF UploadShape, Over, Posted, Stages
<1>3. UploadShape' /\ UndisturbedImageIsWhole' /\ OpenIsUnderWay' /\ NamedIsClosed' /\ ClaimedIsSentTo'
  BY <1>1, <1>2 DEF UploadShape, UndisturbedImageIsWhole, OpenIsUnderWay, NamedIsClosed, ClaimedIsSentTo
<1>4. BodiesAreAnnounced' /\ OneAtATime'
  BY <1>1, <1>2 DEF BodiesAreAnnounced, OneAtATime, BeingSent
<1>5. OpenIsWhatWasSent' /\ PageIsByItsRequest'
  BY <1>1, <1>2 DEF OpenIsWhatWasSent, PageIsByItsRequest, BeingSent
<1> QED  BY <1>3, <1>4, <1>5

\* A start: what was on its way is lost, and no page is left behind.
LEMMA StartKeepsUpload ==
  ASSUME UploadInv, UploadRestarts, UNCHANGED controller
  PROVE  UploadInv'
<1> USE DEF UploadInv
<1>1. disk' \in Disks /\ ~disk'.isOpen /\ ~disk'.page /\ disk'.failure = None
  <2>1. << >> \in Seq(Requests \X Nat)
    OBVIOUS
  <2>2. (IF disk.isOpen THEN << >> ELSE disk.image) \in Seq(Requests \X Nat) /\ disk \in Disks
    BY <2>1 DEF UploadShape, Disks
  <2>3. disk' = [Unused(disk) EXCEPT !.page = FALSE, !.image = IF disk.isOpen THEN << >> ELSE disk.image]
    BY <2>2 DEF UploadRestarts, Unused, Disks
  <2> QED  BY <2>2, <2>3 DEF Unused, Disks
<1>2. /\ requests' \in [Requests -> Posted]
      /\ \A r \in Requests : /\ requests'[r].at \notin {"sending", "committed", "restarting"}
                             /\ requests'[r].at = "idle" => requests[r].at = "idle"
  BY EmptyIsEntered DEF UploadRestarts, UploadShape, Over, Posted, Stages
<1>3. pageBy' = None /\ ~overlapped' /\ ~replaced' /\ overlapped' \in BOOLEAN /\ replaced' \in BOOLEAN
  BY DEF UploadRestarts
<1>4. UploadShape'
  BY <1>1, <1>2, <1>3 DEF UploadShape
<1>5. BodiesAreAnnounced' /\ OneAtATime' /\ ClaimedIsSentTo'
  BY <1>1, <1>2 DEF BodiesAreAnnounced, OneAtATime, ClaimedIsSentTo, BeingSent
<1>6. OpenIsUnderWay' /\ OpenIsWhatWasSent' /\ NamedIsClosed' /\ UndisturbedImageIsWhole'
  BY <1>1 DEF OpenIsUnderWay, OpenIsWhatWasSent, NamedIsClosed, UndisturbedImageIsWhole
<1>7. PageIsByItsRequest'
  BY <1>2, <1>3, ChunkNumbers DEF PageIsByItsRequest, BeingSent
<1> QED  BY <1>4, <1>5, <1>6, <1>7

\* A request of the ESP32 that is over: with it goes what it had claimed.
LEMMA OverKeeps ==
  ASSUME UploadInv, controller = "ESP32", UNCHANGED << controller, pageBy, overlapped, replaced >>,
         NEW r \in Requests, NEW how \in {"unauthorised", "refused", "lost", "ok"},
         requests' = [requests EXCEPT ![r] = Over(how)],
         disk' = IF BeingSent(r) THEN Aborted(disk) ELSE disk
  PROVE  UploadInv'
<1> USE DEF UploadInv
<1>1. /\ requests' \in [Requests -> Posted] /\ requests'[r].at = how
      /\ how \notin {"idle", "sending", "committed", "restarting"}
      /\ \A other \in Requests \ {r} : requests'[other] = requests[other]
  BY EmptyIsEntered DEF UploadShape, Over, Posted, Stages
<1>2. /\ disk' \in Disks /\ disk'.page = disk.page
      /\ disk'.failure = None
      /\ BeingSent(r) => disk.isOpen /\ ~disk'.isOpen
      /\ ~BeingSent(r) => disk' = disk
  <2>1. << >> \in Seq(Requests \X Nat) /\ disk \in Disks
    BY DEF UploadShape
  <2>2. disk.failure = None /\ (BeingSent(r) => disk.isOpen)
    BY DEF OpenIsUnderWay, ClaimedIsSentTo
  <2> QED  BY <2>1, <2>2 DEF Aborted, Removed, Closed, Disks
<1>3. UploadShape'
  BY <1>1, <1>2 DEF UploadShape
<1>4. BodiesAreAnnounced' /\ OneAtATime'
  BY <1>1 DEF BodiesAreAnnounced, OneAtATime, BeingSent
<1>5. ClaimedIsSentTo'
  <2>1. BeingSent(r) => \A other \in Requests : ~BeingSent(other)'
    BY <1>1 DEF BeingSent, OneAtATime
  <2>2. ~BeingSent(r) => \A other \in Requests : BeingSent(other)' <=> BeingSent(other)
    BY <1>1 DEF BeingSent
  <2>3. CASE BeingSent(r)
    BY <1>2, <2>1, <2>3 DEF ClaimedIsSentTo
  <2>4. CASE ~BeingSent(r)
    BY <1>2, <2>2, <2>4 DEF ClaimedIsSentTo
  <2> QED  BY <2>3, <2>4
<1>6. OpenIsUnderWay' /\ OpenIsWhatWasSent' /\ NamedIsClosed'
  BY <1>1, <1>2 DEF OpenIsUnderWay, OpenIsWhatWasSent, NamedIsClosed, BeingSent
<1>7. PageIsByItsRequest'
  BY <1>1 DEF PageIsByItsRequest, BeingSent
<1>8. UndisturbedImageIsWhole'
  BY <1>2 DEF UndisturbedImageIsWhole, NamedIsClosed, IsWhole
<1> QED  BY <1>3, <1>4, <1>5, <1>6, <1>7, <1>8

\* Update.begin(): the partition is claimed, and what it held is no image any more.
LEMMA EspBeginKeeps ==
  ASSUME UploadInv, controller = "ESP32", UNCHANGED << controller, overlapped >>,
         NEW r \in Requests, EspBeginUpdate(r)
  PROVE  UploadInv'
<1> USE DEF UploadInv
<1>1. PICK q \in Arriving(r) :
        /\ q.at = "idle"
        /\ \/ EspUpload(r, disk, Over("unauthorised")) /\ UNCHANGED replaced
           \/ Refused(r, disk) /\ UNCHANGED replaced
           \/ /\ q.announced # 0 /\ ~disk.isOpen
              /\ EspUpload(r, Claimed(disk), [q EXCEPT !.at = "sending"])
              /\ replaced' = (replaced \/ disk.page)
  BY DEF EspBeginUpdate
<1>2. UNCHANGED pageBy /\ ~IsServing(r)
  BY DEF EspBeginUpdate
<1>3. q \in Posted /\ requests[r].at = "idle" /\ q.sent = 0
  BY <1>1, WhoArrives
<1>4. CASE \E how \in {"unauthorised", "refused"} : EspUpload(r, disk, Over(how)) /\ UNCHANGED replaced
  BY <1>2, <1>3, <1>4, OverKeeps DEF EspUpload, BeingSent
<1>5. CASE /\ q.announced # 0 /\ ~disk.isOpen
           /\ EspUpload(r, Claimed(disk), [q EXCEPT !.at = "sending"])
           /\ replaced' = (replaced \/ disk.page)
  <2>1. /\ requests' \in [Requests -> Posted] /\ requests'[r].at = "sending" /\ requests'[r].sent = 0
        /\ requests'[r].announced = q.announced /\ q.announced \in {Chunks, Chunks + 1}
        /\ \A other \in Requests \ {r} : requests'[other] = requests[other]
    <3>1. /\ [q EXCEPT !.at = "sending"] \in Posted /\ [q EXCEPT !.at = "sending"].at = "sending"
          /\ [q EXCEPT !.at = "sending"].sent = 0
          /\ [q EXCEPT !.at = "sending"].announced = q.announced
      BY <1>3 DEF Posted, Stages
    <3>2. q.announced \in {Chunks, Chunks + 1}
      BY <1>3, <1>5 DEF Posted
    <3> QED  BY <1>5, <3>1, <3>2 DEF EspUpload, UploadShape
  <2>2. /\ disk' \in Disks /\ disk'.isOpen /\ ~disk'.isCommitted /\ disk'.failure = None
        /\ disk'.file /\ disk'.image = << >> /\ disk'.written = 0 /\ disk'.page = disk.page
    <3>1. << >> \in Seq(Requests \X Nat) /\ disk \in Disks /\ disk.failure = None
      BY DEF UploadShape, OpenIsUnderWay
    <3> QED  BY <1>5, <3>1 DEF EspUpload, Claimed, Removed, Disks
  <2>3. \A other \in Requests \ {r} : requests[other].at \notin {"sending", "committed", "restarting"}
    BY <1>2 DEF IsServing
  <2>4. UploadShape'
    BY <1>2, <1>5, <2>1, <2>2 DEF UploadShape
  <2>5. BodiesAreAnnounced' /\ OneAtATime'
    BY <2>1, <2>3, ChunkNumbers DEF BodiesAreAnnounced, OneAtATime, BeingSent
  <2>6. ClaimedIsSentTo' /\ OpenIsUnderWay'
    BY <2>1, <2>2 DEF ClaimedIsSentTo, OpenIsUnderWay, BeingSent
  <2>7. OpenIsWhatWasSent'
    <3>1. Sent(r, 0) = << >>
      BY OneMoreChunk
    <3> QED  BY <2>1, <2>2, <2>3, <3>1 DEF OpenIsWhatWasSent, BeingSent
  <2>8. NamedIsClosed' /\ UndisturbedImageIsWhole'
    BY <1>5, <2>2 DEF NamedIsClosed, UndisturbedImageIsWhole
  <2>9. PageIsByItsRequest'
    BY <1>2, <1>3, <2>1, <2>3 DEF PageIsByItsRequest, BeingSent
  <2> QED  BY <2>4, <2>5, <2>6, <2>7, <2>8, <2>9
<1> QED  BY <1>1, <1>4, <1>5 DEF Refused

\* A chunk more of it, or the end of the upload.
LEMMA EspChunkKeeps ==
  ASSUME UploadInv, controller = "ESP32", UNCHANGED << controller, overlapped >>,
         NEW r \in Requests, EspTakeChunk(r)
  PROVE  UploadInv'
<1> USE DEF UploadInv
<1>1. BeingSent(r) /\ requests[r].sent < Chunks /\ UNCHANGED << pageBy, replaced >>
  BY DEF EspTakeChunk, BeingSent
<1>2. CASE Refused(r, Aborted(disk))
  BY <1>1, <1>2, OverKeeps DEF Refused, EspUpload
<1>3. CASE EspUpload(r, [disk EXCEPT !.image = Append(@, << r, requests[r].sent + 1 >>), !.written = @ + 1],
                     [requests[r] EXCEPT !.sent = @ + 1])
  <2>1. disk \in Disks /\ requests[r] \in Posted /\ requests \in [Requests -> Posted]
    BY DEF UploadShape
  <2>2. PICK n \in Nat : n = requests[r].sent + 1
    BY <2>1 DEF Posted
  <2>3. /\ requests' \in [Requests -> Posted] /\ requests'[r].at = "sending" /\ requests'[r].sent = n
        /\ requests'[r].announced = requests[r].announced
        /\ \A other \in Requests \ {r} : requests'[other] = requests[other]
    <3>1. [requests[r] EXCEPT !.sent = n] \in Posted
      BY <2>1 DEF Posted
    <3> QED  BY <1>1, <1>3, <2>1, <2>2, <3>1 DEF EspUpload, Posted, BeingSent
  <2>4. disk.isOpen
    BY <1>1 DEF ClaimedIsSentTo
  <2>5. PICK image \in Seq(Requests \X Nat), m \in Nat :
          image = Append(disk.image, << r, n >>) /\ m = disk.written + 1
    <3>1. disk.written + 1 \in Nat
      BY <2>1 DEF Disks
    <3>2. Append(disk.image, << r, n >>) \in Seq(Requests \X Nat)
      <4>1. PICK chunk \in Requests \X Nat : chunk = << r, n >>
        OBVIOUS
      <4>2. disk.image \in Seq(Requests \X Nat)
        BY <2>1 DEF Disks
      <4> QED  BY <4>1, <4>2
    <3> QED  BY ONLY <3>1, <3>2
  <2>6. disk' = [disk EXCEPT !.image = image, !.written = m]
    BY <1>3, <2>2, <2>5 DEF EspUpload
  <2>7. /\ disk' \in Disks /\ disk'.isOpen /\ disk'.isCommitted = disk.isCommitted
        /\ disk'.failure = disk.failure /\ disk'.file = disk.file /\ disk'.page = disk.page
        /\ disk'.image = image /\ disk'.written = m
    BY <2>1, <2>4, <2>6 DEF Disks
  <2>8. UploadShape'
    BY <1>1, <2>3, <2>7 DEF UploadShape
  <2>9. BodiesAreAnnounced' /\ OneAtATime'
    <3>1. n <= Chunks
      BY <1>1, <2>1, <2>2, ChunkNumbers DEF Posted
    <3> QED  BY <1>1, <2>3, <3>1 DEF BodiesAreAnnounced, OneAtATime, BeingSent
  <2>10. ClaimedIsSentTo' /\ OpenIsUnderWay'
    BY <2>3, <2>4, <2>7 DEF ClaimedIsSentTo, OpenIsUnderWay, BeingSent
  <2>11. OpenIsWhatWasSent'
    <3> SUFFICES ASSUME ~overlapped, NEW other \in Requests, BeingSent(other)'
                 PROVE  disk'.image = Sent(other, requests'[other].sent)
                        /\ disk'.written = requests'[other].sent
      BY <2>7 DEF OpenIsWhatWasSent
    <3>1. other = r
      BY <1>1, <2>3 DEF BeingSent, OneAtATime
    <3>2. disk.image = Sent(r, requests[r].sent) /\ disk.written = requests[r].sent
      BY <1>1, <2>4 DEF OpenIsWhatWasSent
    <3>3. Append(Sent(r, requests[r].sent), << r, n >>) = Sent(r, n)
      BY <2>1, <2>2, OneMoreChunk DEF Posted
    <3> QED  BY <2>2, <2>3, <2>5, <2>7, <3>1, <3>2, <3>3
  <2>12. NamedIsClosed' /\ UndisturbedImageIsWhole'
    BY <1>1, <2>4, <2>7 DEF NamedIsClosed, UndisturbedImageIsWhole
  <2>13. PageIsByItsRequest'
    BY <1>1, <2>3 DEF PageIsByItsRequest, BeingSent
  <2> QED  BY <2>8, <2>9, <2>10, <2>11, <2>12, <2>13
<1> QED  BY <1>2, <1>3 DEF EspTakeChunk

\* Update.end(): the boot pointer is moved once all that was announced is there.
LEMMA EspEndKeeps ==
  ASSUME UploadInv, controller = "ESP32", UNCHANGED << controller, overlapped >>,
         NEW r \in Requests, EspEndUpdate(r)
  PROVE  UploadInv'
<1> USE DEF UploadInv
<1>1. BeingSent(r) /\ requests[r].sent = requests[r].announced /\ UNCHANGED replaced
  BY DEF EspEndUpdate, BeingSent
<1>2. CASE Refused(r, Aborted(disk)) /\ UNCHANGED pageBy
  BY <1>1, <1>2, OverKeeps DEF Refused, EspUpload
<1>3. CASE /\ EspUpload(r, [Closed(disk) EXCEPT !.page = TRUE, !.isCommitted = TRUE],
                        [requests[r] EXCEPT !.at = "committed"])
           /\ pageBy' = r
  <2>1. disk \in Disks /\ requests[r] \in Posted /\ requests \in [Requests -> Posted]
    BY DEF UploadShape
  <2>2. /\ requests' \in [Requests -> Posted] /\ requests'[r].at = "committed"
        /\ \A other \in Requests \ {r} : requests'[other] = requests[other]
    <3>1. [requests[r] EXCEPT !.at = "committed"] \in Posted
      BY <2>1 DEF Posted, Stages
    <3> QED  BY <1>3, <2>1, <3>1 DEF EspUpload, Posted
  <2>3. /\ disk' \in Disks /\ ~disk'.isOpen /\ disk'.page /\ disk'.failure = disk.failure
        /\ disk'.file = disk.file /\ disk'.image = disk.image
    BY <1>3, <2>1 DEF EspUpload, Closed, Disks
  <2>4. disk.isOpen /\ disk.file /\ disk.failure = None
    BY <1>1 DEF ClaimedIsSentTo, OpenIsUnderWay
  <2>5. \A other \in Requests : other # r =>
          requests'[other].at \notin {"sending", "committed", "restarting"}
    BY <1>1, <2>2 DEF BeingSent, OneAtATime
  <2>6. requests[r].sent = Chunks
    BY <1>1, <2>1, ChunkNumbers DEF BodiesAreAnnounced, Posted
  <2>7. UploadShape'
    BY <1>1, <1>3, <2>2, <2>3 DEF UploadShape
  <2>8. BodiesAreAnnounced' /\ OneAtATime'
    BY <2>2, <2>5 DEF BodiesAreAnnounced, OneAtATime, BeingSent
  <2>9. ClaimedIsSentTo' /\ OpenIsUnderWay' /\ OpenIsWhatWasSent' /\ NamedIsClosed'
    BY <2>2, <2>3, <2>4, <2>5
    DEF ClaimedIsSentTo, OpenIsUnderWay, OpenIsWhatWasSent, NamedIsClosed, BeingSent
  <2>10. PageIsByItsRequest'
    BY <1>3, <2>2, <2>5 DEF PageIsByItsRequest, BeingSent
  <2>11. UndisturbedImageIsWhole'
    <3>1. ~overlapped => disk.image = Sent(r, Chunks)
      BY <1>1, <2>4, <2>6 DEF OpenIsWhatWasSent
    <3>2. IsWhole(Sent(r, Chunks))
      BY ChunkNumbers, OneMoreChunk
    <3> QED  BY <2>3, <2>4, <3>1, <3>2 DEF UndisturbedImageIsWhole, IsWhole
  <2> QED  BY <2>7, <2>8, <2>9, <2>10, <2>11
<1> QED  BY <1>2, <1>3 DEF EspEndUpdate

LEMMA EspAskKeeps ==
  ASSUME UploadInv, controller = "ESP32", UNCHANGED << controller, overlapped >>,
         NEW r \in Requests, EspAskForRestart(r)
  PROVE  UploadInv'
<1> USE DEF UploadInv
<1>1. /\ requests[r].at = "committed" /\ UNCHANGED << disk, pageBy, replaced >>
      /\ requests' = [requests EXCEPT ![r] = [requests[r] EXCEPT !.at = "restarting"]]
  BY DEF EspAskForRestart, EspUpload
<1>2. /\ requests' \in [Requests -> Posted] /\ requests'[r].at = "restarting"
      /\ \A other \in Requests \ {r} : requests'[other] = requests[other]
  <2>1. requests[r] \in Posted /\ requests \in [Requests -> Posted]
    BY DEF UploadShape
  <2>2. [requests[r] EXCEPT !.at = "restarting"] \in Posted
    BY <2>1 DEF Posted, Stages
  <2> QED  BY <1>1, <2>1, <2>2 DEF Posted
<1>3. UploadShape' /\ OpenIsUnderWay' /\ NamedIsClosed' /\ UndisturbedImageIsWhole'
  BY <1>1, <1>2 DEF UploadShape, OpenIsUnderWay, NamedIsClosed, UndisturbedImageIsWhole
<1>4. BodiesAreAnnounced' /\ OneAtATime' /\ ClaimedIsSentTo'
  BY <1>1, <1>2 DEF BodiesAreAnnounced, OneAtATime, ClaimedIsSentTo, BeingSent
<1>5. OpenIsWhatWasSent' /\ PageIsByItsRequest'
  BY <1>1, <1>2 DEF OpenIsWhatWasSent, PageIsByItsRequest, BeingSent
<1> QED  BY <1>3, <1>4, <1>5

LEMMA UploadStep == UploadInv /\ [BoardsNext]_boardsVars => UploadInv'
<1> SUFFICES ASSUME UploadInv, [BoardsNext]_boardsVars PROVE UploadInv'
  OBVIOUS
<1>1. ASSUME Next, controller = "RP2350", UNCHANGED controller PROVE UploadInv'
  <2>1. CASE Server
    <3>1. PICK r \in Requests : HandleUpdateBody(r) \/ LoseRequest(r) \/ HandleUpdate(r)
      BY <2>1 DEF Server
    <3> QED  BY <1>1, <3>1, BodyKeeps, LossKeeps, AnswerKeeps
  <2>2. CASE StartAgain
    BY <1>1, <2>2, StartKeepsUpload DEF StartAgain
  <2>3. CASE (Loop \/ Radio) /\ ~StartAgain
    BY <1>1, <2>3, UploadUntouched
    DEF Loop, NoCommand, WritingCommand, OtherCommand, Write, BeginReport, EndReport,
        ReportProgress, AskServers, PerformPendingRestart, Radio, uploadVars
  <2> QED  BY <1>1, <2>1, <2>2, <2>3 DEF Next, PowerLoss
<1>2. ASSUME EspNext, controller = "ESP32", UNCHANGED controller PROVE UploadInv'
  <2>1. CASE EspServer
    <3>1. UNCHANGED overlapped
      BY <2>1 DEF EspServer
    <3>2. PICK r \in Requests : \/ EspBeginUpdate(r) \/ EspTakeChunk(r) \/ EspUploadStops(r)
                                \/ EspEndUpdate(r) \/ EspAskForRestart(r) \/ EspSendResult(r)
      BY <2>1 DEF EspServer
    <3>3. CASE EspUploadStops(r)
      BY <1>2, <3>1, <3>3, OverKeeps DEF EspUploadStops, EspUpload, BeingSent
    <3>4. CASE EspSendResult(r)
      BY <1>2, <3>1, <3>4, OverKeeps DEF EspSendResult, EspUpload, BeingSent
    <3> QED  BY <1>2, <3>1, <3>2, <3>3, <3>4, EspBeginKeeps, EspChunkKeeps, EspEndKeeps, EspAskKeeps
  <2>2. CASE EspStartAgain
    BY <1>2, <2>2, StartKeepsUpload DEF EspStartAgain
  <2>3. CASE (EspLoop \/ EspRadio) /\ ~EspStartAgain
    BY <1>2, <2>3, UploadUntouched
    DEF EspLoop, NoCommand, EspWritingCommand, EspOtherCommand, EspWrite, BeginReport,
        EspReportProgress, EspPerformPendingRestart, EspRadio, uploadVars
  <2> QED  BY <1>2, <2>1, <2>2, <2>3 DEF EspNext, EspPowerLoss
<1>3. CASE UNCHANGED << vars, controller >>
  BY <1>3, UploadUntouched DEF vars, uploadVars
<1> QED  BY <1>1, <1>2, <1>3 DEF BoardsNext, On, OnAvr, boardsVars

LEMMA InitUpload == BoardsInit => UploadInv
<1> SUFFICES ASSUME BoardsInit PROVE UploadInv
  OBVIOUS
<1>1. BoardInit
  BY DEF BoardsInit, Init, EspInit
<1>2. /\ disk \in Disks /\ ~disk.isOpen /\ ~disk.page /\ disk.failure = None
      /\ requests \in [Requests -> Posted] /\ \A r \in Requests : requests[r].at = "idle"
  BY <1>1, EmptyIsEntered DEF BoardInit, UploadInit, Disks, Over, Posted, Stages
<1>3. pageBy = None /\ ~overlapped /\ ~replaced /\ {overlapped, replaced} \subseteq BOOLEAN
  BY <1>1 DEF BoardInit, UploadInit
<1> QED
  BY <1>2, <1>3, ChunkNumbers
  DEF UploadInv, UploadShape, BodiesAreAnnounced, BeingSent, OneAtATime, ClaimedIsSentTo,
      OpenIsUnderWay, OpenIsWhatWasSent, NamedIsClosed, PageIsByItsRequest, UndisturbedImageIsWhole

\* The file that a start will boot is one request's image and all of it, whatever is lost on the
\* way, however long the image and however many uploads, as long as no two of them were under way at
\* once and none was begun over one that is waiting for its start (HandleUpdateBody, CommitImage;
\* esp32 HandleUpdate).
THEOREM BootedImageIsWhole == BoardsSpec => []UndisturbedImageIsWhole
<1>1. UploadInv => UndisturbedImageIsWhole
  BY DEF UploadInv
<1> QED  BY InitUpload, UploadStep, <1>1, PTL DEF BoardsSpec

\* However an upload ends, the next one finds the ESP32's partition free (HandleUpdate).
THEOREM PartitionIsLetGo == BoardsSpec => []PartitionIsFreeAgain
<1>1. UploadInv => PartitionIsFreeAgain
  BY DEF UploadInv, ClaimedIsSentTo, PartitionIsFreeAgain, BeingSent
<1> QED  BY InitUpload, UploadStep, <1>1, PTL DEF BoardsSpec

-----------------------------------------------------------------------------
(* The answers *)

\* A reason that waits to be printed is not written over, and no interrupt prints.
LEMMA RefusalStep == RefusalInv /\ [BoardsNext]_boardsVars => RefusalInv'
<1> SUFFICES ASSUME RefusalInv, [BoardsNext]_boardsVars PROVE RefusalInv'
  OBVIOUS
<1> USE DEF RefusalInv
<1>1. CASE Loop \/ EspLoop
  BY <1>1 DEF Loop, EspLoop, NoCommand, WritingCommand, OtherCommand, Write, BeginReport, EndReport,
              ReportProgress, AskServers, EspReportProgress, PerformPendingRestart, EspWritingCommand, EspOtherCommand, EspWrite,
              EspPerformPendingRestart, StartAgain, EspStartAgain, GoTo, uploadVars
<1>2. CASE PowerLoss \/ EspPowerLoss
  BY <1>2 DEF PowerLoss, EspPowerLoss, StartAgain, EspStartAgain
<1>3. CASE Radio \/ EspRadio \/ EspServer
  BY <1>3 DEF Radio, EspRadio, EspServer, uploadVars
<1>4. CASE Server
  BY <1>4 DEF Server, HandleUpdateBody, LoseRequest, HandleUpdate, ReportUpdateRefusal
<1>5. CASE UNCHANGED vars
  BY <1>5 DEF vars, uploadVars, loopVars
<1> QED
  BY <1>1, <1>2, <1>3, <1>4, <1>5 DEF BoardsNext, Next, EspNext, On, OnAvr, boardsVars

\* What a step tells the browser of request r.
IsAnswered(r) == requests[r].at \in {"sending", "restarting"} /\ requests'[r].at \in {"ok", "refused"}

IsTrueAnswer(r) ==
  /\ requests'[r].at = "ok" => pageBy = r
  /\ requests'[r].at = "refused" => pageBy # r

\* The RP2350 answers from the record the body left.
LEMMA AnswerIsTrue ==
  ASSUME UploadInv, controller = "RP2350", NEW r \in Requests, NEW other \in Requests,
         HandleUpdate(other), IsAnswered(r), ~overlapped'
  PROVE  IsTrueAnswer(r)
<1>1. PICK q \in Arriving(other) :
        /\ overlapped' = (overlapped \/ Interferes(other))
        /\ \E how \in {"unauthorised", "ok", "refused"} :
             /\ requests' = [requests EXCEPT ![other] = Over(how)]
             /\ how # "unauthorised" =>
                  how = IF Outcome(IF disk.isOpen THEN AbortImage(disk, "stopped") ELSE disk) = None
                          THEN "ok" ELSE "refused"
  BY DEF HandleUpdate
<1>2. other = r
  BY <1>1 DEF IsAnswered, UploadInv, UploadShape
<1>3. BeingSent(r) /\ ~overlapped
  BY <1>1 DEF IsAnswered, UploadInv, OneAtATime, BeingSent
<1>4. pageBy = r <=> ~disk.isOpen /\ disk.isCommitted /\ disk.failure = None
  BY <1>3 DEF UploadInv, PageIsByItsRequest
<1>5. Outcome(IF disk.isOpen THEN AbortImage(disk, "stopped") ELSE disk) = None
        <=> ~disk.isOpen /\ disk.isCommitted /\ disk.failure = None
  <2>1. None \notin {"stopped", "no image"} /\ disk \in Disks
    BY ChunkNumbers DEF Reasons, UploadInv, UploadShape
  <2>2. CASE disk.isOpen
    <3>1. AbortImage(disk, "stopped").failure = "stopped"
      BY <2>1 DEF AbortImage, Failed, Removed, Closed, Disks
    <3> QED  BY <2>1, <2>2, <3>1 DEF Outcome
  <2>3. CASE ~disk.isOpen
    BY <2>1, <2>3 DEF Outcome
  <2> QED  BY <2>2, <2>3
<1>6. requests'[r].at \in {"ok", "refused"}
      => (requests'[r].at = "ok"
            <=> Outcome(IF disk.isOpen THEN AbortImage(disk, "stopped") ELSE disk) = None)
  BY <1>1, <1>2 DEF Over, UploadInv, UploadShape
<1> QED  BY <1>4, <1>5, <1>6 DEF IsTrueAnswer, IsAnswered

LEMMA AnswerStep ==
  ASSUME UploadInv, [BoardsNext]_boardsVars, NEW r \in Requests, IsAnswered(r), ~overlapped'
  PROVE  IsTrueAnswer(r)
<1>1. requests[r].at # requests'[r].at
  BY DEF IsAnswered
<1>2. ASSUME Server, controller = "RP2350" PROVE IsTrueAnswer(r)
  <2>1. PICK other \in Requests : HandleUpdateBody(other) \/ LoseRequest(other) \/ HandleUpdate(other)
    BY <1>2 DEF Server
  <2>2. CASE HandleUpdateBody(other)
    <3>1. PICK q \in Arriving(other) :
            requests' = [requests EXCEPT ![other] = [q EXCEPT !.at = "sending", !.sent = @ + 1]]
      BY <2>2 DEF HandleUpdateBody
    <3>2. [q EXCEPT !.at = "sending", !.sent = @ + 1].at = "sending"
      BY WhoArrives DEF UploadInv, Posted
    <3> QED  BY <3>1, <3>2 DEF IsAnswered, UploadInv, UploadShape
  <2>3. CASE LoseRequest(other)
    BY <2>3 DEF LoseRequest, Over, IsAnswered, UploadInv, UploadShape
  <2> QED  BY <1>2, <2>1, <2>2, <2>3, AnswerIsTrue
<1>3. ASSUME EspServer, controller = "ESP32" PROVE IsTrueAnswer(r)
  <2>1. PICK other \in Requests : \/ EspBeginUpdate(other) \/ EspTakeChunk(other) \/ EspUploadStops(other)
                                  \/ EspEndUpdate(other) \/ EspAskForRestart(other) \/ EspSendResult(other)
    BY <1>3 DEF EspServer
  <2>2. PICK q : requests' = [requests EXCEPT ![other] = q]
    BY <2>1 DEF EspBeginUpdate, EspTakeChunk, EspUploadStops, EspEndUpdate, EspAskForRestart,
                EspSendResult, Refused, EspUpload
  <2>3. other = r
    BY <1>1, <2>2 DEF UploadInv, UploadShape
  <2>4. CASE BeingSent(r)
    <3>1. pageBy # r
      BY <1>3, <2>4 DEF UploadInv, PageIsByItsRequest
    <3>2. requests'[r].at # "ok"
      <4>1. CASE EspTakeChunk(r)
        <5>1. requests' = [requests EXCEPT ![r] = [requests[r] EXCEPT !.sent = requests[r].sent + 1]]
              \/ requests' = [requests EXCEPT ![r] = Over("refused")]
          BY <4>1 DEF EspTakeChunk, Refused, EspUpload
        <5> QED  BY <2>4, <5>1 DEF Over, UploadInv, UploadShape, Posted, BeingSent
      <4>2. CASE EspUploadStops(r)
        BY <4>2 DEF EspUploadStops, EspUpload, Over, UploadInv, UploadShape
      <4>3. CASE EspEndUpdate(r)
        BY <4>3 DEF EspEndUpdate, Refused, EspUpload, Over, UploadInv, UploadShape, Posted
      <4>4. ~EspBeginUpdate(r) /\ ~EspAskForRestart(r) /\ ~EspSendResult(r)
        BY <2>4, WhoArrives DEF EspBeginUpdate, EspAskForRestart, EspSendResult, UploadInv, BeingSent
      <4> QED  BY <2>1, <2>3, <4>1, <4>2, <4>3, <4>4
    <3> QED  BY <3>1, <3>2 DEF IsTrueAnswer
  <2>5. CASE requests[r].at = "restarting"
    <3>1. pageBy = r
      BY <1>3, <2>5 DEF UploadInv, PageIsByItsRequest
    <3>2. EspSendResult(r)
      BY <2>1, <2>3, <2>5, WhoArrives
      DEF EspBeginUpdate, EspTakeChunk, EspUploadStops, EspEndUpdate, EspAskForRestart, UploadInv
    <3>3. requests'[r].at = "ok"
      BY <3>2 DEF EspSendResult, EspUpload, Over, UploadInv, UploadShape
    <3> QED  BY <3>1, <3>3 DEF IsTrueAnswer
  <2> QED  BY <2>4, <2>5 DEF IsAnswered, BeingSent
<1>4. ASSUME UploadRestarts PROVE FALSE
  BY <1>1, <1>4 DEF UploadRestarts, Over, IsAnswered
<1>5. ASSUME UNCHANGED requests PROVE FALSE
  BY <1>1, <1>5
<1>6. ASSUME Next, controller = "RP2350" PROVE IsTrueAnswer(r)
  <2>1. Server \/ UploadRestarts \/ UNCHANGED requests
    BY <1>6 DEF Next, Loop, NoCommand, WritingCommand, OtherCommand, Write, BeginReport, EndReport,
                ReportProgress, AskServers, PerformPendingRestart, StartAgain, Radio, PowerLoss, uploadVars
  <2> QED  BY <1>2, <1>4, <1>5, <1>6, <2>1
<1>7. ASSUME EspNext, controller = "ESP32" PROVE IsTrueAnswer(r)
  <2>1. EspServer \/ UploadRestarts \/ UNCHANGED requests
    BY <1>7 DEF EspNext, EspLoop, NoCommand, EspWritingCommand, EspOtherCommand, EspWrite, BeginReport,
                EspReportProgress, EspPerformPendingRestart, EspStartAgain, EspRadio, EspPowerLoss, uploadVars
  <2> QED  BY <1>3, <1>4, <1>5, <1>7, <2>1
<1>8. ASSUME UNCHANGED vars PROVE FALSE
  BY <1>5, <1>8 DEF vars, uploadVars
<1> QED  BY <1>6, <1>7, <1>8 DEF BoardsNext, On, OnAvr, boardsVars

\* A browser that is told of success had the page written by its own image, one that is told of a
\* refusal did not, for any number of uploads; and the console reads one reason, though refusals
\* arrive while it is printed (HandleUpdate, ReportUpdateRefusal).
THEOREM AnswersAreAlwaysTrue == BoardsSpec => AnswersAreTrue
<1>1. BoardsInit => RefusalInv
  BY DEF BoardsInit, Init, EspInit, BoardInit, RefusalInv
<1>2. RefusalInv => RefusalIsPrintedWhole
  BY DEF RefusalInv, RefusalIsPrintedWhole
<1>3. UploadInv /\ [BoardsNext]_boardsVars
      => [ \A r \in Requests :
             requests[r].at \in {"sending", "restarting"} /\ ~overlapped'
               => /\ requests'[r].at = "ok" => pageBy = r
                  /\ requests'[r].at = "refused" => pageBy # r ]_vars
  BY AnswerStep DEF IsAnswered, IsTrueAnswer
<1> QED
  BY InitUpload, UploadStep, RefusalStep, <1>1, <1>2, <1>3, PTL DEF BoardsSpec, AnswersAreTrue

-----------------------------------------------------------------------------
(***************************************************************************)
(* What the timer promises whatever its resolution, its prescalers and the *)
(* periods it is asked for, and wherever between two register writes the   *)
(* counter comes to BOTTOM.                                                *)
(***************************************************************************)

\* A half period in cycles, divided by its prescaler, is a number of cycles.
LEMMA HalfPeriod ==
  ASSUME NEW period \in Periods, NEW select \in DOMAIN Prescalers
  PROVE  (CyclesPerHalf * period) \div Prescalers[select] \in Nat
<1>1. CyclesPerHalf \in Nat /\ period \in Nat /\ Prescalers[select] \in Nat \ {0}
  BY TimerAssumption
<1>2. CyclesPerHalf * period \in Nat
  BY <1>1, SMT
<1>3. ASSUME NEW a \in Nat, NEW b \in Nat \ {0} PROVE a \div b \in Nat
  BY SMT
<1> QED  BY <1>1, <1>2, <1>3

\* What Take() does to TOP, whatever it is asked for.
LEMMA TakenTop ==
  ASSUME NEW period \in Periods, Take(period)
  PROVE  top' \in Nat
  BY HalfPeriod DEF Take

(***************************************************************************)
(* The counter and TOP.  PER and its buffer hold numbers of cycles; PER is *)
(* written only where the counter stands at zero.                          *)
(***************************************************************************)
TopIsACount ==
  /\ top \in Nat
  /\ count \in Nat
  /\ value = [r \in Registers |-> value[r]] /\ value[0] \in Nat
  /\ buffer = [r \in Registers |-> buffer[r]] /\ buffer[0] \in Nat \cup {Nothing}

CounterInv == TopIsACount /\ CounterStaysBelowTop

LEMMA ZeroIsPer == 0 \in Registers
  BY TimerAssumption DEF Registers

LEMMA InitCounter == TimerInit => CounterInv
<1> SUFFICES ASSUME TimerInit PROVE CounterInv
  OBVIOUS
<1>1. Resolution - 1 \in Nat
  BY TimerAssumption
<1>2. value[0] = Resolution - 1 /\ buffer[0] = Nothing
  BY ZeroIsPer DEF TimerInit, Reset, NothingNew
<1>3. value = [r \in Registers |-> value[r]] /\ buffer = [r \in Registers |-> buffer[r]]
  BY DEF TimerInit, Reset, NothingNew
<1> QED  BY <1>1, <1>2, <1>3 DEF TimerInit, CounterInv, TopIsACount, CounterStaysBelowTop

LEMMA CounterStep == CounterInv /\ [TimerNext]_timerVars => CounterInv'
<1> SUFFICES ASSUME CounterInv, [TimerNext]_timerVars PROVE CounterInv'
  OBVIOUS
<1> USE DEF CounterInv, TopIsACount, CounterStaysBelowTop
<1>1. CASE InitTimer
  <2>1. top' \in Nat
    BY <1>1, TakenTop DEF InitTimer
  <2>2. value' = [r \in Registers |-> value'[r]] /\ value'[0] \in Nat /\ count' = 0
    BY <1>1, ZeroIsPer, TimerAssumption DEF InitTimer, Reset
  <2>3. buffer' = [r \in Registers |-> buffer'[r]] /\ buffer'[0] \in Nat \cup {Nothing}
    BY <1>1, <2>1, ZeroIsPer DEF InitTimer, NothingNew, ValueOf
  <2> QED  BY <2>1, <2>2, <2>3
<1>2. CASE SetPeriod
  BY <1>2, TakenTop DEF SetPeriod, counterVars
<1>3. CASE SetBuffer
  <2>1. buffer' = [r \in Registers |-> buffer'[r]]
    BY <1>3 DEF SetBuffer
  <2>2. buffer'[0] \in Nat \cup {Nothing}
    BY <1>3, ZeroIsPer DEF SetBuffer, ValueOf
  <2> QED  BY <1>3, <2>1, <2>2 DEF SetBuffer, driverVars, counterVars
<1>4. CASE Start
  <2>1. value' = [r \in Registers |-> value'[r]] /\ value'[0] \in Nat /\ count' = 0
    BY <1>4, ZeroIsPer DEF Start, ValueOf
  <2> QED  BY <1>4, <2>1 DEF Start
<1>5. CASE Count
  <2>1. CASE isUp /\ count # value[0]
    <3>1. count + 1 \in Nat /\ count + 1 <= value[0]
      BY <2>1
    <3> QED  BY <1>5, <2>1, <3>1 DEF Count, driverVars
  <2>2. CASE ~(isUp /\ count # value[0])
    BY <1>5, <2>2 DEF Count, driverVars
  <2> QED  BY <2>1, <2>2
<1>6. CASE Bottom
  <2>1. value' = [r \in Registers |-> value'[r]] /\ value'[0] \in Nat /\ count' = 0
    BY <1>6, ZeroIsPer DEF Bottom
  <2>2. buffer' = [r \in Registers |-> buffer'[r]] /\ buffer'[0] = Nothing
    BY <1>6, ZeroIsPer DEF Bottom, NothingNew
  <2> QED  BY <1>6, <2>1, <2>2 DEF Bottom, driverVars
<1>7. CASE \/ Stop \/ Resume \/ AttachInterrupt \/ DetachInterrupt \/ \E c \in Channels : SetPwmDuty(c)
           \/ ClockSelected \/ FlagCleared \/ InterruptOn \/ CallbackForgotten
           \/ HandleOverflowInterrupt \/ UNCHANGED timerVars
  BY <1>7 DEF Stop, Resume, AttachInterrupt, DetachInterrupt, SetPwmDuty, ClockSelected, FlagCleared,
              InterruptOn, CallbackForgotten, HandleOverflowInterrupt, timerVars, driverVars,
              counterVars
<1> QED
  BY <1>1, <1>2, <1>3, <1>4, <1>5, <1>6, <1>7 DEF TimerNext, Calls

\* The counter is never above TOP: no period is lengthened by a counter that missed it
\* (Timer::SetPeriod, Timer::LoadPeriodAndCompare).
THEOREM CounterStaysBelow == TimerSpec => []CounterStaysBelowTop
<1>1. CounterInv => CounterStaysBelowTop
  BY DEF CounterInv
<1> QED  BY InitCounter, CounterStep, <1>1, PTL DEF TimerSpec

(***************************************************************************)
(* The interrupt and whom it is for.  Whoever attaches is in place before  *)
(* the flag is cleared, and the interrupt off before he is forgotten.      *)
(***************************************************************************)
InterruptInv ==
  /\ NoCallForAnOldOverflow
  /\ interrupt \in BOOLEAN
  /\ interrupt \/ then \in {"flag", "interrupt"} => callback # Nothing
  /\ then = "interrupt" => overflow # "unheard"
  /\ then = "callback" => ~interrupt

LEMMA InterruptStep == InterruptInv /\ [TimerNext]_timerVars => InterruptInv'
<1> SUFFICES ASSUME InterruptInv, [TimerNext]_timerVars PROVE InterruptInv'
  OBVIOUS
<1> USE TimerAssumption DEF InterruptInv, NoCallForAnOldOverflow, Idle, driverVars, callVars
<1>1. CASE InitTimer
  BY <1>1 DEF InitTimer
<1>2. CASE SetPeriod
  BY <1>2 DEF SetPeriod
<1>3. CASE SetBuffer \/ \E c \in Channels : SetPwmDuty(c)
  BY <1>3 DEF SetBuffer, SetPwmDuty
<1>4. CASE Start \/ Stop \/ Resume
  BY <1>4 DEF Start, Stop, Resume
<1>5. CASE AttachInterrupt
  BY <1>5 DEF AttachInterrupt
<1>6. CASE DetachInterrupt
  BY <1>6 DEF DetachInterrupt
<1>7. CASE ClockSelected \/ FlagCleared
  BY <1>7 DEF ClockSelected, FlagCleared
<1>8. CASE InterruptOn
  BY <1>8 DEF InterruptOn
<1>9. CASE CallbackForgotten
  BY <1>9 DEF CallbackForgotten
<1>10. CASE Count \/ Bottom \/ HandleOverflowInterrupt
  BY <1>10 DEF Count, Bottom, HandleOverflowInterrupt
<1>11. CASE UNCHANGED timerVars
  BY <1>11 DEF timerVars
<1> QED
  BY <1>1, <1>2, <1>3, <1>4, <1>5, <1>6, <1>7, <1>8, <1>9, <1>10, <1>11 DEF TimerNext, Calls

\* The callback is never called for an overflow from before anybody was attached, wherever between
\* the writes of an attach and a detach the counter comes to BOTTOM (Timer::AttachInterrupt).
THEOREM NoOldOverflow == TimerSpec => []NoCallForAnOldOverflow
<1>1. TimerInit => InterruptInv
  BY DEF TimerInit, InterruptInv, NoCallForAnOldOverflow
<1>2. InterruptInv => NoCallForAnOldOverflow
  BY DEF InterruptInv
<1> QED  BY <1>1, InterruptStep, <1>2, PTL DEF TimerSpec

\* A clock is one controller, and the timer of the others stands still.
LEMMA TimerOfTheBoards == BoardsSpec => TimerSpec
<1>1. BoardsInit => TimerInit
  BY DEF BoardsInit
<1>2. [BoardsNext]_boardsVars => [TimerNext]_timerVars
  BY DEF BoardsNext, On, OnAvr, boardsVars
<1> QED  BY <1>1, <1>2, PTL DEF BoardsSpec, TimerSpec

\* Nor is it in any behaviour of the boards.
COROLLARY CounterStaysBelowOnTheBoard == BoardsSpec => []CounterStaysBelowTop
  BY TimerOfTheBoards, CounterStaysBelow, PTL
=============================================================================
