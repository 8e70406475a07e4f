------------------------------- MODULE Board -------------------------------
(***************************************************************************)
(* The RP2350's loop: a command at most, the report of a refused update,   *)
(* the report of the network, the restart that was asked for.  The server  *)
(* and the radio act between any two of its steps, and the board may lose  *)
(* its power between any two.                                              *)
(***************************************************************************)
EXTENDS Naturals, Sequences

(***************************************************************************)
(* How the RP2350's clock is reached: the network's name, its pass phrase  *)
(* and the console's password, a file each, and the network that is made   *)
(* of them.  A file that is empty and one that is missing are read alike,  *)
(* so both are Empty here.                                                 *)
(***************************************************************************)

CONSTANTS
  Texts,           \* what a hand enters, besides nothing
  Empty,           \* an empty file, or none
  Torn,            \* a file that a failing write left part of
  CompiledIn       \* WORDCLOCK_WIFI_SSID and its pass phrase

ASSUME BoardSystemAssumption ==
  /\ Empty \notin Texts
  /\ Torn \notin Texts \cup {Empty}
  /\ CompiledIn \in [ssid : Texts \cup {Empty}, password : Texts \cup {Empty}]

Keys    == {"ssid", "password", "console"}
Entered == Texts \cup {Empty}

VARIABLES
  store,              \* the three files
  staged,             \* what has been written whole beside them, Torn while nothing has
  todo,               \* << key, text >> the command under way has left to write
  radio,              \* the access point, or the station and how far it has come
  restartPending,     \* restart_pending_
  connectionReported, \* connection_reported of ReportProgress()
  timeServers,        \* what has become of the time servers since the start
  \* what only properties read
  promised,           \* what each file was when its user was last told that it is stored
  unanswered          \* per file, what was begun to be written since and not confirmed

systemVars == << store, staged, todo, radio, restartPending, connectionReported, timeServers,
                 promised, unanswered >>

SystemTypeOK ==
  /\ store \in [Keys -> Entered \cup {Torn}]
  /\ staged \in Entered \cup {Torn}
  /\ todo \in Seq(Keys \X Entered)
  /\ radio \in {"access point", "joining", "joined", "lost"}
  /\ {restartPending, connectionReported} \subseteq BOOLEAN
  /\ timeServers \in {"not asked", "not found", "asked"}
  /\ promised \in [Keys -> Entered]
  /\ unanswered \in [Keys -> SUBSET Entered]

GetNetworkSsid(s)      == IF s.ssid # Empty THEN s.ssid ELSE CompiledIn.ssid
IsNetworkConfigured(s) == GetNetworkSsid(s) # Empty

IsNetworkJoined == radio = "joined"

StartNetwork(s) == IF IsNetworkConfigured(s) THEN "joining" ELSE "access point"

\* The servers are looked up at once: without a network that finds nothing, over one it may
\* fail, and neither is told to anybody.  Servers that have been found go on being asked.
StartTimeServers ==
  timeServers' \in CASE timeServers = "asked" -> {"asked"}
                     [] timeServers # "asked" /\ IsNetworkJoined -> {"asked", "not found"}
                     [] OTHER -> {"not found"}

\* A network of an earlier command or none; a password is for a command to set.
SystemInit ==
  /\ store \in [Keys -> Entered]
  /\ store.console = Empty
  /\ store.ssid = Empty => store.password = Empty
  /\ staged = Torn
  /\ todo = << >>
  /\ radio = StartNetwork(store)
  /\ restartPending = FALSE /\ connectionReported = FALSE
  /\ promised = store
  /\ unanswered = [k \in Keys |-> {}]

(***************************************************************************)
(* The commands.  What they write is written by the two steps below.       *)
(***************************************************************************)
Begin(writes) ==
  /\ todo' = writes
  /\ unanswered' = [k \in Keys |->
                      unanswered[k] \cup {writes[i][2] : i \in {j \in DOMAIN writes : writes[j][1] = k}}]
  /\ UNCHANGED << store, staged, radio, restartPending, connectionReported, timeServers, promised >>

SetNetworkCredentials(ssid, password) == Begin(<< << "ssid", ssid >>, << "password", password >> >>)

\* An empty password takes the file away, in one step and without an error.
SetConsolePassword(password) ==
  \/ password # Empty /\ Begin(<< << "console", password >> >>)
  \/ /\ password = Empty
     /\ store' = [store EXCEPT !.console = Empty]
     /\ promised' = [promised EXCEPT !.console = Empty]
     /\ unanswered' = [unanswered EXCEPT !.console = {}]
     /\ UNCHANGED << staged, todo, radio, restartPending, connectionReported, timeServers >>

ReconnectNetwork ==
  /\ IsNetworkConfigured(store)
  /\ radio' = StartNetwork(store)
  /\ UNCHANGED << store, staged, todo, restartPending, connectionReported, timeServers, promised, unanswered >>

\* What it does about it is AskServers below.
ResynchroniseTime == IsNetworkJoined /\ UNCHANGED systemVars

Restart ==
  /\ restartPending' = TRUE
  /\ UNCHANGED << store, staged, todo, radio, connectionReported, timeServers, promised, unanswered >>

(***************************************************************************)
(* WriteStoredString(): the text is written beside the file, and the file  *)
(* replaced by it in one step of LittleFS once all of it is written.       *)
(***************************************************************************)
\* (bug) The text is written over the file itself.
GiveUp_InPlace ==
  /\ store' = [store EXCEPT ![Head(todo)[1]] = Torn]
  /\ staged' = Torn
  /\ todo' = << >>
  /\ UNCHANGED << radio, promised, unanswered >>

GiveUp ==
  /\ staged' = Torn
  /\ todo' = << >>
  /\ UNCHANGED << store, radio, promised, unanswered >>

Stage ==
  /\ todo # << >> /\ staged = Torn
  /\ \/ GiveUp
     \/ staged' = Head(todo)[2] /\ UNCHANGED << store, todo, radio, promised, unanswered >>
  /\ UNCHANGED << restartPending, connectionReported, timeServers >>

\* The command has written all it was given: its answer says so.
Confirm(keys) ==
  /\ promised' = [k \in Keys |-> IF k \in keys THEN store'[k] ELSE promised[k]]
  /\ unanswered' = [k \in Keys |-> IF k \in keys THEN {} ELSE unanswered[k]]

Replace ==
  LET key == Head(todo)[1]
  IN /\ store' = [store EXCEPT ![key] = staged]
     /\ staged' = Torn
     /\ todo' = Tail(todo)
     /\ CASE key = "ssid"     -> UNCHANGED << radio, promised, unanswered >>
          [] key = "password" -> radio' = StartNetwork(store') /\ Confirm({"ssid", "password"})
          [] key = "console"  -> Confirm({"console"}) /\ UNCHANGED radio

Rename ==
  /\ staged # Torn
  /\ GiveUp \/ Replace
  /\ UNCHANGED << restartPending, connectionReported, timeServers >>

(***************************************************************************)
(* What the tick does of itself, and what happens to the board.            *)
(***************************************************************************)
\* The station finds its network, or loses it; nothing but a command makes it look again.
Link ==
  /\ \/ radio = "joining" /\ radio' \in {"joined", "lost"}
     \/ radio = "joined" /\ radio' = "lost"
  /\ UNCHANGED << store, staged, todo, restartPending, connectionReported, timeServers, promised, unanswered >>

SetUp ==
  /\ staged' = Torn
  /\ todo' = << >>
  /\ radio' = StartNetwork(store)
  /\ restartPending' = FALSE /\ connectionReported' = FALSE /\ timeServers' = "not asked"
  /\ UNCHANGED << store, promised, unanswered >>

(***************************************************************************)
(* The firmware of an RP2350 replaced over the network: the body of a POST *)
(* arrives in chunks and becomes a file, and a command page names that     *)
(* file to the loader of the next start.  The server's callbacks run in an *)
(* interrupt, between any two steps of the tick, and every request shares  *)
(* the one static record `upload'.                                         *)
(*                                                                         *)
(* What a callback does is an operator on the disk: that record, the image *)
(* file and the page.  Where the filesystem may refuse, the operator gives *)
(* every disk that may result.                                             *)
(***************************************************************************)

CONSTANTS
  Posts,      \* bound: the POSTs of a behaviour, numbered in the order they come in
  Chunks,     \* what a whole image is sent in
  None        \* no failure, no request, no reason

Requests == 1 .. Posts

Reasons == {"not authorised", "no filesystem", "does not fit", "not written", "stopped",
            "not handed over", "no image"}

ASSUME ImageUploadAssumption ==
  /\ Posts \in Nat
  /\ Chunks \in Nat \ {0}
  /\ None \notin Reasons /\ None \notin Requests

VARIABLES
  disk,           \* upload, the file and the command page
  requests,       \* each POST: how far it has come and what it announced
  refusalPending, \* update_refusal_pending
  refusal,        \* update_refusal
  \* what only properties read
  pageBy,         \* the request whose chunk had the page written
  overlapped,     \* a request was served while the body of another was on its way
  replaced        \* an image was begun over one the page names

uploadVars == << disk, requests, refusalPending, refusal, pageBy, overlapped, replaced >>

UploadTypeOK ==
  /\ disk \in [written : 0 .. 2 * Chunks, isOpen : BOOLEAN, isCommitted : BOOLEAN,
               failure : Reasons \cup {None}, file : BOOLEAN,
               image : Seq(Requests \X (1 .. Chunks)), page : BOOLEAN]
  /\ requests \in [Requests -> [at : {"idle", "sending", "committed", "restarting", "lost", "ok",
                                      "refused", "unauthorised"},
                                sent : 0 .. Chunks, announced : {0, Chunks, Chunks + 1},
                                password : Entered]]
  /\ refusalPending \in BOOLEAN
  /\ refusal \in Reasons \cup {None}
  /\ pageBy \in Requests \cup {None}
  /\ {overlapped, replaced} \subseteq BOOLEAN

\* A record of its own; the file and the page are as they were.
Unused(d) == [d EXCEPT !.written = 0, !.isOpen = FALSE, !.isCommitted = FALSE, !.failure = None]

IsCredentialAccepted(q) == store.console \in {Empty, q.password}

Over(how) == [at |-> how, sent |-> 0, announced |-> 0, password |-> Empty]

\* A request under way, or the next one to come in with whatever it announces.
Arriving(r) ==
  IF requests[r].at # "idle" THEN {requests[r]}
  ELSE IF \E earlier \in 1 .. r - 1 : requests[earlier].at = "idle" THEN {}
  ELSE [at : {"idle"}, sent : {0}, announced : {0, Chunks, Chunks + 1}, password : Entered]

Removed(d)       == [d EXCEPT !.file = FALSE, !.image = << >>]
Failed(d, why)   == [d EXCEPT !.failure = why]
Closed(d)        == [d EXCEPT !.isOpen = FALSE]

AbortImage(d, why) == Failed(Removed(Closed(d)), why)

\* (bug) The record of the body before is gone on with.
BeginImage_Stale(d, accepted) ==
  LET fresh == [d EXCEPT !.written = 0]
  IN IF ~accepted
       THEN {Failed(fresh, "not authorised")}
       ELSE {Failed(fresh, "no filesystem"), Failed(Removed(fresh), "does not fit"),
             [Removed(fresh) EXCEPT !.file = TRUE, !.isOpen = TRUE]}

\* A record of its own for every body; the old image goes before the room is measured.
BeginImage(d, accepted) ==
  LET fresh == Unused(d)
  IN IF ~accepted
       THEN {Failed(fresh, "not authorised")}
       ELSE {Failed(fresh, "no filesystem"), Failed(Removed(fresh), "does not fit"),
             [Removed(fresh) EXCEPT !.file = TRUE, !.isOpen = TRUE]}

\* The last step of an update, and the one that cannot be taken back.
CommitImage(d, total) ==
  IF d.written # total
    THEN {AbortImage(d, "stopped")}
    ELSE {AbortImage(d, "not handed over"),
          [Closed(d) EXCEPT !.page = TRUE, !.isCommitted = TRUE]}

\* (bug) The page is written on the last chunk but one.
TakeChunk_Early(d, chunk, total) ==
  IF ~d.isOpen THEN {d}
  ELSE LET longer == [d EXCEPT !.image = Append(@, chunk), !.written = @ + 1]
       IN {AbortImage(d, "not written")} \cup
          (IF longer.written + 1 >= total THEN CommitImage(longer, longer.written) ELSE {longer})

\* HandleUpdateBody(), after the first chunk has begun the image.
TakeChunk(d, chunk, total) ==
  IF ~d.isOpen THEN {d}
  ELSE LET longer == [d EXCEPT !.image = Append(@, chunk), !.written = @ + 1]
       IN {AbortImage(d, "not written")} \cup
          (IF longer.written >= total THEN CommitImage(longer, total) ELSE {longer})

UploadInit ==
  /\ disk = [written |-> 0, isOpen |-> FALSE, isCommitted |-> FALSE, failure |-> None,
             file |-> FALSE, image |-> << >>, page |-> FALSE]
  /\ requests = [r \in Requests |-> Over("idle")]
  /\ refusalPending = FALSE
  /\ refusal = None
  /\ pageBy = None
  /\ overlapped = FALSE /\ replaced = FALSE

\* Whether a request other than r is between its first chunk and its answer.
Interferes(r) == \E other \in Requests \ {r} : requests[other].at = "sending"

HandleUpdateBody(r) == \E q \in Arriving(r) :
  LET first == q.sent = 0
      begun == IF first THEN BeginImage(disk, IsCredentialAccepted(q)) ELSE {disk}
  IN /\ \/ q.at = "idle" /\ q.announced # 0
        \/ q.at = "sending" /\ q.sent < Chunks
     /\ \E d \in begun : disk' \in TakeChunk(d, << r, q.sent + 1 >>, q.announced)
     /\ requests' = [requests EXCEPT ![r] = [q EXCEPT !.at = "sending", !.sent = @ + 1]]
     /\ pageBy' = IF disk'.isCommitted /\ ~(disk.isCommitted /\ ~first) THEN r ELSE pageBy
     /\ overlapped' = (overlapped \/ Interferes(r))
     /\ replaced' = (replaced \/ (first /\ disk.page /\ disk'.failure \notin {"not authorised", "no filesystem"}))
     /\ UNCHANGED << refusalPending, refusal >>

\* A reason that is waiting to be printed is not written over.
ReportUpdateRefusal(why) ==
  IF refusalPending
    THEN UNCHANGED << refusalPending, refusal >>
    ELSE refusalPending' = TRUE /\ refusal' = why

Outcome(d) == CASE d.failure # None -> d.failure
                [] OTHER            -> IF d.isCommitted THEN None ELSE "no image"

\* The answer, once the body is there; without a body, at once.
HandleUpdate(r) == \E q \in Arriving(r) :
  LET ended == IF disk.isOpen THEN AbortImage(disk, "stopped") ELSE disk
      why   == Outcome(ended)
  IN /\ \/ q.at = "sending" /\ q.sent = Chunks
        \/ q.at = "idle" /\ q.announced = 0
     /\ overlapped' = (overlapped \/ Interferes(r))
     /\ IF ~IsCredentialAccepted(q)
          THEN /\ requests' = [requests EXCEPT ![r] = Over("unauthorised")]
               /\ UNCHANGED << disk, refusalPending, refusal, restartPending >>
          ELSE /\ disk' = ended
               /\ requests' = [requests EXCEPT ![r] = Over(IF why = None THEN "ok" ELSE "refused")]
               /\ IF why = None
                    THEN restartPending' = TRUE /\ UNCHANGED << refusalPending, refusal >>
                    ELSE ReportUpdateRefusal(why) /\ UNCHANGED restartPending
     /\ UNCHANGED << pageBy, replaced >>

\* The connection dies: nobody tells the clock.
LoseRequest(r) ==
  /\ requests[r].at = "sending"
  /\ requests' = [requests EXCEPT ![r] = Over("lost")]
  /\ UNCHANGED << disk, refusalPending, refusal, pageBy, overlapped, replaced >>

\* What a start leaves: a file that was open is as long as when it was opened.  The loader
\* takes the page away once it has done what it says.
UploadRestarts ==
  /\ disk' = [Unused(disk) EXCEPT !.page = FALSE, !.image = IF disk.isOpen THEN << >> ELSE @]
  /\ requests' = [r \in Requests |->
                    IF requests[r].at \in {"sending", "committed", "restarting"}
                      THEN Over("lost") ELSE requests[r]]
  /\ refusalPending' = FALSE
  /\ refusal' = None
  /\ pageBy' = None
  /\ overlapped' = FALSE /\ replaced' = FALSE

(***************************************************************************)
(* The board.                                                              *)
(***************************************************************************)

CONSTANTS
  MaxEvents  \* bound: commands, uploads begun, changes of the link and losses of power

ASSUME BoardAssumption == MaxEvents \in Nat

VARIABLES
  at,        \* where the loop is
  printing,  \* what of the refusal the line being printed began with
  events

loopVars == << at, printing, events >>
vars     == << systemVars, uploadVars, loopVars >>

TypeOK ==
  /\ SystemTypeOK
  /\ UploadTypeOK
  /\ at \in {"command", "writing", "frame", "refusal", "progress", "servers",
            "resynchronise", "restart"}
  /\ printing \in Reasons \cup {None}
  /\ events \in 0 .. MaxEvents

BoardInit ==
  /\ SystemInit
  /\ UploadInit
  /\ at = "command"
  /\ printing = None
  /\ events = 0

Init == BoardInit /\ timeServers = "not asked"

Event == events < MaxEvents /\ events' = events + 1

GoTo(where) == at' = where /\ UNCHANGED printing

(***************************************************************************)
(* The loop.                                                               *)
(***************************************************************************)
NoCommand == at = "command" /\ GoTo("frame") /\ UNCHANGED << systemVars, uploadVars, events >>

WritingCommand ==
  /\ at = "command" /\ Event
  /\ \E text \in Entered :
       \/ \E password \in Entered : SetNetworkCredentials(text, password)
       \/ SetConsolePassword(text)
  /\ GoTo("writing")
  /\ UNCHANGED uploadVars

OtherCommand ==
  /\ at = "command" /\ Event
  /\ \/ (ReconnectNetwork \/ Restart) /\ GoTo("frame")
     \/ ResynchroniseTime /\ GoTo("resynchronise")
  /\ UNCHANGED uploadVars

Write ==
  /\ at = "writing"
  /\ IF todo = << >> THEN GoTo("frame") /\ UNCHANGED systemVars
                     ELSE (Stage \/ Rename) /\ GoTo("writing")
  /\ UNCHANGED << uploadVars, events >>

\* BroadcastFrame() prints a refusal that waits, in calls an interrupt may come between.
BeginReport ==
  /\ at = "frame"
  /\ IF refusalPending
       THEN at' = "refusal" /\ printing' = refusal
       ELSE at' = "progress" /\ UNCHANGED printing
  /\ UNCHANGED << systemVars, uploadVars, events >>

EndReport ==
  /\ at = "refusal"
  /\ at' = "progress"
  /\ printing' = None
  /\ refusalPending' = FALSE
  /\ UNCHANGED << systemVars, disk, requests, refusal, pageBy, overlapped, replaced, events >>

systemButReport == << store, staged, todo, radio, restartPending, timeServers, promised, unanswered >>

\* (bug) The first pass counts as the report, joined or not.
ReportProgress_OnFirstPass ==
  /\ at = "progress"
  /\ connectionReported' = TRUE
  /\ GoTo(IF ~connectionReported /\ IsNetworkJoined THEN "servers" ELSE "restart")
  /\ UNCHANGED << systemButReport, uploadVars, events >>

\* Said once, and followed by AskServers.
ReportProgress ==
  /\ at = "progress"
  /\ IF ~connectionReported /\ IsNetworkJoined
       THEN connectionReported' = TRUE /\ GoTo("servers")
       ELSE UNCHANGED connectionReported /\ GoTo("restart")
  /\ UNCHANGED << systemButReport, uploadVars, events >>

systemButServers == << store, staged, todo, radio, restartPending, connectionReported, promised, unanswered >>

\* The radio may have lost the link since whoever calls it saw it up.
AskServers ==
  /\ at \in {"servers", "resynchronise"}
  /\ StartTimeServers
  /\ GoTo(IF at = "servers" THEN "restart" ELSE "frame")
  /\ UNCHANGED << systemButServers, uploadVars, events >>

StartAgain ==
  /\ SetUp
  /\ UploadRestarts
  /\ at' = "command"
  /\ printing' = None

PerformPendingRestart ==
  /\ at = "restart"
  /\ IF restartPending
       THEN StartAgain
       ELSE GoTo("command") /\ UNCHANGED << systemVars, uploadVars >>
  /\ UNCHANGED events

Loop == NoCommand \/ WritingCommand \/ OtherCommand \/ Write \/ BeginReport \/ EndReport
          \/ ReportProgress \/ AskServers \/ PerformPendingRestart

(***************************************************************************)
(* What happens to it.                                                     *)
(***************************************************************************)
systemButRestart == << store, staged, todo, radio, connectionReported, timeServers, promised, unanswered >>

Server ==
  /\ \E r \in Requests :
       /\ \/ (HandleUpdateBody(r) \/ LoseRequest(r)) /\ UNCHANGED restartPending
          \/ HandleUpdate(r)
       /\ IF requests[r].at = "idle" THEN Event ELSE UNCHANGED events
  /\ UNCHANGED << systemButRestart, at, printing >>

Radio == Link /\ Event /\ UNCHANGED << uploadVars, at, printing >>

PowerLoss ==
  /\ Event
  /\ StartAgain

Next == Loop \/ Server \/ Radio \/ PowerLoss

Spec == Init /\ [][Next]_vars

\* The loop goes on; neither hand, server, radio nor mains owes it anything.
FairSpec == Spec /\ WF_vars(Loop)

(***************************************************************************)
(* Properties.                                                             *)
(***************************************************************************)
IsWhole(image) == \E r \in Requests : image = [i \in 1 .. Chunks |-> << r, i >>]

\* The file a command page names is one request's image, all of it, as long as no two uploads
\* were under way at once and none was begun over one already committed (HandleUpdateBody,
\* CommitImage): lost connections, failed writes, short bodies and lost power do not get there.
UndisturbedImageIsWhole ==
  disk.page /\ ~overlapped /\ ~replaced => disk.file /\ IsWhole(disk.image)

\* The reason a tick prints is one reason, though refusals arrive while it prints
\* (ReportUpdateRefusal, BroadcastFrame).
RefusalIsPrintedWhole == at = "refusal" => refusal = printing

\* The answer to an upload tells what became of it (HandleUpdate): a browser that is told of
\* success had the page written by its own image, one that is told of a refusal did not.  And the
\* console reads one reason.
AnswersAreTrue ==
  /\ []RefusalIsPrintedWhole
  /\ [][ \A r \in Requests :
           requests[r].at \in {"sending", "restarting"} /\ ~overlapped'
             => /\ requests'[r].at = "ok" => pageBy = r
                /\ requests'[r].at = "refused" => pageBy # r ]_vars

\* A stored string is what its user was last told of, or what a command that failed or was cut
\* off has since been writing: never part of one (WriteStoredString, SetNetworkCredentials).
StoreIsWhatWasEntered == \A k \in Keys : store[k] \in {promised[k]} \cup unanswered[k]

\* A clock that has joined its network looks for the servers of the time, also when it came up
\* on its access point and was given the network later (ReportProgress, IsNetworkJoined).  Not
\* that it finds them: a lookup that fails, or that the link did not stay up for, is the last
\* until a hand asks for another (TimeSync.h).
JoinedClockAsksTheTime == radio = "joined" ~> timeServers # "not asked" \/ radio # "joined"
============================================================================
