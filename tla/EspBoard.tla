------------------------------ MODULE EspBoard ------------------------------
(***************************************************************************)
(* The ESP32's half of what Board says of the RP2350, over the same state: *)
(* the three strings are keys of its key-value store, a key written in one *)
(* step; the station looks for its network of itself; the time servers are *)
(* asked for as long as they do not answer; and an image goes to the       *)
(* partition that is not running, to which the boot pointer is moved once  *)
(* all of it is there.                                                     *)
(*                                                                         *)
(* Here `disk' is that partition: isOpen says that Update has it claimed,  *)
(* file and image what it holds, page that the next start boots it.        *)
(* The server's task is one, so its requests follow each other; the tick   *)
(* runs on the other core, between any two of its steps.                   *)
(***************************************************************************)
EXTENDS Board

(***************************************************************************)
(* System.                                                                 *)
(***************************************************************************)
EspInit == BoardInit /\ timeServers = "asked"

\* An empty name takes both keys away.
EspSetNetworkCredentials(ssid, password) ==
  SetNetworkCredentials(ssid, IF ssid = Empty THEN Empty ELSE password)

\* A key that cannot be removed, as there is none, is an error.
EspSetConsolePassword(password) ==
  \/ password # Empty /\ Begin(<< << "console", password >> >>)
  \/ /\ password = Empty /\ store.console # Empty
     /\ SetConsolePassword(Empty)

EspWritingCommand ==
  /\ at = "command" /\ Event
  /\ \E text \in Entered :
       \/ \E password \in Entered : EspSetNetworkCredentials(text, password)
       \/ EspSetConsolePassword(text)
  /\ GoTo("writing")
  /\ UNCHANGED uploadVars

\* WiFi.reconnect() joins what was joined last; it may also refuse.
EspReconnectNetwork ==
  /\ IsNetworkConfigured(store)
  /\ radio' = "joining"
  /\ UNCHANGED << store, staged, todo, restartPending, connectionReported, timeServers, promised, unanswered >>

\* configTzTime() goes on asking what it has been asking, joined or not.
EspResynchroniseTime == IsNetworkJoined /\ UNCHANGED systemVars

EspOtherCommand ==
  /\ at = "command" /\ Event
  /\ EspReconnectNetwork \/ EspResynchroniseTime \/ Restart
  /\ GoTo("frame")
  /\ UNCHANGED uploadVars

\* A key is written or removed whole, or the rest of the command is given up.
EspPutString ==
  /\ \/ GiveUp
     \/ LET key == Head(todo)[1]
        IN /\ store' = [store EXCEPT ![key] = Head(todo)[2]]
           /\ todo' = Tail(todo)
           /\ CASE key = "ssid"     -> UNCHANGED << radio, promised, unanswered >>
                [] key = "password" -> radio' = StartNetwork(store') /\ Confirm({"ssid", "password"})
                [] key = "console"  -> Confirm({"console"}) /\ UNCHANGED radio
           /\ UNCHANGED staged
  /\ UNCHANGED << restartPending, connectionReported, timeServers >>

EspWrite ==
  /\ at = "writing"
  /\ IF todo = << >> THEN GoTo("frame") /\ UNCHANGED systemVars
                     ELSE EspPutString /\ GoTo("writing")
  /\ UNCHANGED << uploadVars, events >>

\* The core looks for a lost network again.
EspRadio ==
  /\ \/ Link
     \/ /\ radio = "lost" /\ radio' = "joining"
        /\ UNCHANGED << store, staged, todo, restartPending, connectionReported, timeServers, promised, unanswered >>
  /\ Event
  /\ UNCHANGED << uploadVars, at, printing >>

(***************************************************************************)
(* HandleUpdate(), on the server's task.                                   *)
(***************************************************************************)
EspUpload(r, d, q) ==
  /\ disk' = d
  /\ requests' = [requests EXCEPT ![r] = q]

Refused(r, d) == EspUpload(r, d, Over("refused"))

\* (bug) An upload that ends early leaves the partition claimed.
Aborted_StillClaimed(d) == d

\* Update.abort(): what the partition holds by then is no image.
Aborted(d) == Removed(Closed(d))

Claimed(d) == [Removed(d) EXCEPT !.written = 0, !.isOpen = TRUE, !.isCommitted = FALSE, !.file = TRUE]

\* One task serves them all.
IsServing(r) == \E other \in Requests \ {r} : requests[other].at \in {"sending", "committed", "restarting"}

\* Update.begin() erases as the image comes; the boot pointer stays where it is.
EspBeginUpdate(r) ==
  /\ ~IsServing(r)
  /\ \E q \in Arriving(r) :
       /\ q.at = "idle"
       /\ \/ ~IsCredentialAccepted(q) /\ EspUpload(r, disk, Over("unauthorised")) /\ UNCHANGED replaced
          \/ /\ IsCredentialAccepted(q)
             /\ \/ Refused(r, disk) /\ UNCHANGED replaced
                \/ /\ q.announced # 0 /\ ~disk.isOpen
                   /\ EspUpload(r, Claimed(disk), [q EXCEPT !.at = "sending"])
                   /\ replaced' = (replaced \/ disk.page)
  /\ UNCHANGED << pageBy, restartPending >>

EspTakeChunk(r) ==
  /\ requests[r].at = "sending" /\ requests[r].sent < Chunks
  /\ requests[r].sent < requests[r].announced
  /\ LET q == requests[r]
         longer == [disk EXCEPT !.image = Append(@, << r, q.sent + 1 >>), !.written = @ + 1]
     IN \/ EspUpload(r, longer, [q EXCEPT !.sent = @ + 1])
        \/ Refused(r, Aborted(disk))
  /\ UNCHANGED << pageBy, restartPending, replaced >>

\* The body stops before what was announced, with the connection or without it.
EspUploadStops(r) ==
  /\ requests[r].at = "sending" /\ requests[r].sent < requests[r].announced
  /\ \E end \in {"lost", "refused"} : EspUpload(r, Aborted(disk), Over(end))
  /\ UNCHANGED << pageBy, restartPending, replaced >>

EspEndUpdate(r) ==
  /\ requests[r].at = "sending" /\ requests[r].sent = requests[r].announced
  /\ \/ Refused(r, Aborted(disk)) /\ UNCHANGED pageBy
     \/ /\ EspUpload(r, [Closed(disk) EXCEPT !.page = TRUE, !.isCommitted = TRUE],
                     [requests[r] EXCEPT !.at = "committed"])
        /\ pageBy' = r
  /\ UNCHANGED << restartPending, replaced >>

\* The restart is asked for before the answer is sent.
EspAskForRestart(r) ==
  /\ requests[r].at = "committed"
  /\ restartPending' = TRUE
  /\ EspUpload(r, disk, [requests[r] EXCEPT !.at = "restarting"])
  /\ UNCHANGED << pageBy, replaced >>

EspSendResult(r) ==
  /\ requests[r].at = "restarting"
  /\ EspUpload(r, disk, Over("ok"))
  /\ UNCHANGED << pageBy, restartPending, replaced >>

EspServer ==
  /\ \E r \in Requests :
       /\ \/ EspBeginUpdate(r) \/ EspTakeChunk(r) \/ EspUploadStops(r) \/ EspEndUpdate(r)
          \/ EspAskForRestart(r) \/ EspSendResult(r)
       /\ IF requests[r].at = "idle" THEN Event ELSE UNCHANGED events
  /\ UNCHANGED << systemButRestart, refusalPending, refusal, overlapped, at, printing >>

(***************************************************************************)
(* The tick, and the board.                                                *)
(***************************************************************************)
EspReportProgress ==
  /\ at = "progress"
  /\ connectionReported' = (connectionReported \/ IsNetworkJoined)
  /\ GoTo("restart")
  /\ UNCHANGED << systemButReport, uploadVars, events >>

EspStartAgain ==
  /\ staged' = Torn /\ todo' = << >>
  /\ radio' = StartNetwork(store)
  /\ restartPending' = FALSE /\ connectionReported' = FALSE /\ timeServers' = "asked"
  /\ UNCHANGED << store, promised, unanswered >>
  /\ UploadRestarts
  /\ at' = "command"
  /\ printing' = None

\* ESP.restart(): whatever the server's task is at ends with it.
EspPerformPendingRestart ==
  /\ at = "restart"
  /\ IF restartPending
       THEN EspStartAgain
       ELSE GoTo("command") /\ UNCHANGED << systemVars, uploadVars >>
  /\ UNCHANGED events

EspPowerLoss == Event /\ EspStartAgain

EspLoop == NoCommand \/ EspWritingCommand \/ EspOtherCommand \/ EspWrite \/ BeginReport
             \/ EspReportProgress \/ EspPerformPendingRestart

EspNext == EspLoop \/ EspServer \/ EspRadio \/ EspPowerLoss

(***************************************************************************)
(* Properties.                                                             *)
(***************************************************************************)
=============================================================================
