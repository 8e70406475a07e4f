------------------------------- MODULE WebHost -------------------------------
(***************************************************************************)
(* The simulator's web host: HTTP and web sockets in the firmware's own    *)
(* tick.  One tick answers every connection that waits, reads every web    *)
(* socket, lets the firmware take a line and print its answer, and sends   *)
(* the display.  Only the browsers act between its steps: they connect,    *)
(* send their frames in as many packets as they like, read what they were  *)
(* sent, and go.                                                           *)
(*                                                                         *)
(* A frame arrives in Parts packets; a text is the packets it came in.     *)
(***************************************************************************)
EXTENDS Naturals, Sequences, SequencesExt, FiniteSets

CONSTANTS
  MaxPages,         \* bound: connections browsers open, numbered as they do
  Nobody,           \* kInvalidSocket
  HostSlots,        \* WEB_HOST_MAX_CLIENTS
  Requests,         \* what they ask for
  FrameKinds,       \* what they send on a web socket
  Parts,            \* packets of a frame
  PacketsPerRead,   \* kFrameChunkLength
  Room,             \* messages a socket holds that its page has not read
  FrameInterval,    \* WEB_FRONTEND_FRAME_INTERVAL_TICKS
  ChunkLength,      \* ChunkWriter::kCapacity
  Documents,        \* what the two documents are made of, /commands and /display
  MaxEvents         \* bound: connections, packets, goodbyes, lines typed, changes of the display

ASSUME WebHostAssumption ==
  /\ Nobody \notin 1 .. MaxPages
  /\ {HostSlots, Parts, PacketsPerRead, Room, FrameInterval, ChunkLength} \subseteq Nat \ {0}
  /\ {MaxPages, MaxEvents} \subseteq Nat
  /\ Requests \subseteq {"socket", "keyless", "document", "asset", "elsewhere", "image", "stub",
                         "nothing"}
  /\ FrameKinds \subseteq {"command", "long", "other", "close"}
  /\ \A document \in Documents : document \in Seq({document[i] : i \in DOMAIN document})

Pages == 1 .. MaxPages

VARIABLES
  \* the browsers
  connection,   \* how far each connection is
  stream,       \* the packets each has sent
  unread,       \* how many messages wait in its socket
  gone,         \* the ones that have closed their end
  \* the host
  listening,    \* listener_ is a socket
  backlog,      \* << page, request >> connections the system holds for accept()
  clients,      \* clients_
  pending,      \* pending_
  received,     \* how many packets of each stream recv() has returned
  \* the port and the front end
  sendBuffer,   \* SerialShim.send_buffer_, by lines
  hostForce,    \* WebFrontend.force_frame_
  hostCountdown,\* frame_countdown_
  hostFrame,    \* last_frame_
  hostDisplay,  \* the pixel buffer
  tick,         \* << where the tick is, the slot it looks at >>
  sending,      \* << what SendToEveryClient() sends, where the tick goes on then >>
  \* what only bounds and properties read
  answered,     \* what each connection was answered
  injected,     \* the texts InjectCommand() took of each page
  printedLines,      \* lines printed so far
  from,         \* how many of them there were when a page was opened
  lines,        \* the ones each page was sent
  seen,         \* the display each page was sent last, or Nobody
  events

browserVars == << connection, stream, unread, gone >>
socketVars  == << clients, pending, received >>
frontVars   == << hostForce, hostCountdown, hostFrame >>
shownVars   == << answered, injected, printedLines, from, lines, seen >>

hostVars == << browserVars, listening, backlog, socketVars, sendBuffer, frontVars, hostDisplay,
               tick, sending, shownVars, events >>

ClientSlots == 1 .. HostSlots

\* Begin() opened the port, or found it taken.
HostInit ==
  /\ connection = [p \in Pages |-> "away"]
  /\ stream = [p \in Pages |-> << >>]
  /\ unread = [p \in Pages |-> 0]
  /\ gone = {}
  /\ listening \in BOOLEAN
  /\ backlog = << >>
  /\ clients = [s \in ClientSlots |-> Nobody]
  /\ pending = [s \in ClientSlots |-> << >>]
  /\ received = [p \in Pages |-> 0]
  /\ sendBuffer = << >>
  /\ hostForce = FALSE /\ hostCountdown = 0 /\ hostFrame = 0 /\ hostDisplay = 0
  /\ tick = << "between", 1 >>
  /\ sending = << >>
  /\ answered = [p \in Pages |-> << "nothing", << >> >>]
  /\ injected = [p \in Pages |-> << >>]
  /\ printedLines = 0
  /\ from = [p \in Pages |-> 0]
  /\ lines = [p \in Pages |-> << >>]
  /\ seen = [p \in Pages |-> Nobody]
  /\ events = 0

Event == events < MaxEvents /\ events' = events + 1

Connected == {clients[s] : s \in ClientSlots} \ {Nobody}

(***************************************************************************)
(* The browsers.                                                           *)
(***************************************************************************)
PageConnects(p) ==
  /\ listening
  /\ connection[p] = "away" /\ \A q \in 1 .. p - 1 : connection[q] # "away"
  /\ connection' = [connection EXCEPT ![p] = "waiting"]
  /\ \E request \in Requests : backlog' = Append(backlog, << p, request >>)
  /\ Event
  /\ UNCHANGED << stream, unread, gone >>

\* A frame is begun with any kind and goes on with it; nothing is sent behind a close.
PageSends(p) ==
  /\ connection[p] = "open" /\ p \notin gone
  /\ Event
  /\ \E kind \in FrameKinds :
       /\ Len(stream[p]) % Parts # 0 => kind = Last(stream[p])[1]
       /\ \A i \in DOMAIN stream[p] : stream[p][i][1] = "close" => Len(stream[p]) % Parts # 0
       /\ stream' = [stream EXCEPT ![p] = Append(@, << kind, Len(@) + 1 >>)]
  /\ UNCHANGED << connection, unread, gone, backlog >>

PageReads(p) ==
  /\ unread[p] > 0
  /\ unread' = [unread EXCEPT ![p] = @ - 1]
  /\ UNCHANGED << connection, stream, gone, backlog, events >>

PageGoes(p) ==
  /\ connection[p] # "away" /\ p \notin gone
  /\ Event
  /\ gone' = gone \cup {p}
  /\ unread' = [unread EXCEPT ![p] = 0]
  /\ UNCHANGED << connection, stream, backlog >>

Browsers ==
  /\ \E p \in Pages : PageConnects(p) \/ PageSends(p) \/ PageReads(p) \/ PageGoes(p)
  /\ UNCHANGED << listening, socketVars, sendBuffer, frontVars, hostDisplay, tick, sending,
                  shownVars >>

(***************************************************************************)
(* AcceptClients(): every connection that waits is answered, and closed    *)
(* unless it became a web socket.                                          *)
(***************************************************************************)
UpTo(document, end) == IF end < Len(document) THEN end ELSE Len(document)

\* What ChunkWriter hands to the body of a document: it flushes when it is full and a character
\* more comes, and what is left at the end.
Chunks(document) ==
  [i \in 1 .. (Len(document) + ChunkLength - 1) \div ChunkLength |->
     SubSeq(document, (i - 1) * ChunkLength + 1, UpTo(document, i * ChunkLength))]

IsHostFull == \A s \in ClientSlots : clients[s] # Nobody

FindFreeSlot == CHOOSE s \in ClientSlots :
                  /\ clients[s] = Nobody
                  /\ \A t \in 1 .. s - 1 : clients[t] # Nobody

\* What is no request with a path, or a handshake without a key, is not answered at all.
IsAnswered(request) == request \notin {"nothing", "keyless"}

\* POST /update with a body, which is drained to its end: an image, or one that was cut short.
IsUpdateRequest(request) == request \in {"image", "stub"}

AnswerUpdate(request) == IF request = "image" THEN "ok" ELSE "refused"

SendAsset(request) == IF request = "asset" THEN "asset" ELSE "not found"

\* What a connection is sent; a socket's answer keeps it.
AnswersTo(request) ==
  CASE ~IsAnswered(request)     -> {<< "nothing", << >> >>}
    [] IsUpdateRequest(request) -> {<< AnswerUpdate(request), << >> >>}
    [] request = "socket"       -> {<< "handshake", << >> >>}
    [] request = "document"     -> {<< "document", Chunks(document) >> : document \in Documents}
    [] OTHER                    -> {<< SendAsset(request), << >> >>}

HangUp(p, answer) ==
  /\ connection' = [connection EXCEPT ![p] = "closed"]
  /\ answered' = [answered EXCEPT ![p] = IF p \in gone THEN << "nothing", << >> >> ELSE answer]
  /\ UNCHANGED << clients, pending, hostForce, from >>

\* (bug) A socket that is opened waits for the next change of the display.
BecomeClient_Unforced(p) ==
  /\ connection' = [connection EXCEPT ![p] = "open"]
  /\ answered' = [answered EXCEPT ![p] = << "handshake", << >> >>]
  /\ clients' = [clients EXCEPT ![FindFreeSlot] = p]
  /\ pending' = [pending EXCEPT ![FindFreeSlot] = << >>]
  /\ from' = [from EXCEPT ![p] = printedLines]
  /\ UNCHANGED hostForce

BecomeClient(p) ==
  /\ connection' = [connection EXCEPT ![p] = "open"]
  /\ answered' = [answered EXCEPT ![p] = << "handshake", << >> >>]
  /\ clients' = [clients EXCEPT ![FindFreeSlot] = p]
  /\ pending' = [pending EXCEPT ![FindFreeSlot] = << >>]
  /\ from' = [from EXCEPT ![p] = printedLines]
  /\ hostForce' = TRUE

\* A handshake that cannot be sent is hung up on like the rest.
Serve(p, request, answer) ==
  CASE IsHostFull                                          -> HangUp(p, << "nothing", << >> >>)
    [] ~IsHostFull /\ request = "socket" /\ p \notin gone  -> BecomeClient(p)
    [] ~IsHostFull /\ (request # "socket" \/ p \in gone)   -> HangUp(p, answer)

\* Prints a line, which its sink sends to every web socket.
PrintLine(then) ==
  /\ printedLines' = printedLines + 1
  /\ tick' = << "sending", 1 >>
  /\ sending' = << "line", then >>

GoTo(where) == tick' = << where, 1 >> /\ UNCHANGED << printedLines, sending >>

\* An image's answer goes out behind the line that tells of it; no page can tell the difference.
AcceptClients ==
  /\ tick[1] = "accept"
  /\ IF backlog = << >>
       THEN /\ GoTo("read")
            /\ UNCHANGED << connection, answered, clients, pending, hostForce, from, backlog >>
       ELSE LET p == Head(backlog)[1]  request == Head(backlog)[2]
            IN /\ \E answer \in AnswersTo(request) : Serve(p, request, answer)
               /\ backlog' = Tail(backlog)
               /\ IF request = "image" /\ ~IsHostFull THEN PrintLine("accept") ELSE GoTo("accept")
  /\ UNCHANGED << stream, unread, gone, listening, received, sendBuffer, hostCountdown, hostFrame,
                  hostDisplay, injected, lines, seen, events >>

(***************************************************************************)
(* ReadClient(): one recv() of every web socket, and every frame that has  *)
(* arrived whole by then.                                                  *)
(***************************************************************************)
FramesIn(buffer) ==
  [i \in 1 .. Len(buffer) \div Parts |-> SubSeq(buffer, (i - 1) * Parts + 1, i * Parts)]

\* (bug) What has arrived of a frame goes with the frame before it.
Undecoded_None(buffer) == << >>

\* What DecodeFrame() leaves for the next call.
Undecoded(buffer) == SubSeq(buffer, Len(FramesIn(buffer)) * Parts + 1, Len(buffer))

Kind(frame)    == frame[1][1]
Closes(buffer) == \E i \in DOMAIN FramesIn(buffer) : Kind(FramesIn(buffer)[i]) = "close"

\* The texts InjectCommand() takes of them, up to a close; a text that is too long is not one.
Texts(buffer) ==
  LET frames == FramesIn(buffer)
      IsTaken(i) == Kind(frames[i]) = "command" /\ \A j \in 1 .. i : Kind(frames[j]) # "close"
  IN FlattenSeq([i \in DOMAIN frames |-> IF IsTaken(i) THEN << frames[i] >> ELSE << >>])

DropClient(s) ==
  /\ clients' = [clients EXCEPT ![s] = Nobody]
  /\ pending' = [pending EXCEPT ![s] = << >>]
  /\ connection' = [connection EXCEPT ![clients[s]] = "closed"]

ReadNextSlot == tick' = IF tick[2] = HostSlots THEN << "firmware", 1 >> ELSE << "read", tick[2] + 1 >>

Receive(s, p, buffer) ==
  /\ sendBuffer' = sendBuffer \o Texts(buffer)
  /\ injected' = [injected EXCEPT ![p] = @ \o Texts(buffer)]
  /\ IF Closes(buffer)
       THEN DropClient(s)
       ELSE pending' = [pending EXCEPT ![s] = Undecoded(buffer)] /\ UNCHANGED << clients, connection >>

\* Would block: recv() returns nothing, and no frame is whole that was not before.
ReadNothing == UNCHANGED << clients, pending, connection, received, sendBuffer, injected >>

ReadClient ==
  /\ tick[1] = "read"
  /\ LET s == tick[2]  p == clients[s]
         Waiting == IF p = Nobody THEN 0 ELSE Len(stream[p]) - received[p]
     IN \/ /\ p = Nobody \/ (Waiting = 0 /\ p \notin gone)
           /\ ReadNothing
        \/ /\ p # Nobody /\ Waiting = 0 /\ p \in gone
           /\ DropClient(s)
           /\ UNCHANGED << received, sendBuffer, injected >>
        \/ /\ Waiting > 0
           /\ \E n \in 1 .. (IF Waiting < PacketsPerRead THEN Waiting ELSE PacketsPerRead) :
                /\ received' = [received EXCEPT ![p] = @ + n]
                /\ Receive(s, p, pending[s] \o SubSeq(stream[p], received[p] + 1, received[p] + n))
  /\ ReadNextSlot
  /\ UNCHANGED << stream, unread, gone, listening, backlog, frontVars, hostDisplay, sending,
                  answered, printedLines, from, lines, seen, events >>

(***************************************************************************)
(* The firmware's turn, the window's, and the display's.                   *)
(***************************************************************************)
\* A tick; without a port to listen on it is the firmware's alone.
BeginTick ==
  /\ tick[1] = "between"
  /\ GoTo(IF listening THEN "accept" ELSE "firmware")
  /\ UNCHANGED << browserVars, listening, backlog, socketVars, sendBuffer, frontVars, hostDisplay,
                  answered, injected, from, lines, seen, events >>

\* A line that is sent from the window while one waits stays in its field.
SendInput ==
  /\ tick[1] = "between"
  /\ sendBuffer = << >>
  /\ Event
  /\ sendBuffer' = << << << "command", 0 >> >> >>
  /\ UNCHANGED << browserVars, listening, backlog, socketVars, frontVars, hostDisplay, tick,
                  sending, shownVars >>

\* The firmware reads a line at most, and prints its answer; the display may change.
FirmwareTask ==
  /\ tick[1] = "firmware"
  /\ \/ UNCHANGED << hostDisplay, events >>
     \/ Event /\ hostDisplay' = 1 - hostDisplay
  /\ IF sendBuffer = << >>
       THEN GoTo("broadcast") /\ UNCHANGED sendBuffer
       ELSE PrintLine("broadcast") /\ sendBuffer' = Tail(sendBuffer)
  /\ UNCHANGED << browserVars, listening, backlog, socketVars, frontVars, answered, injected, from,
                  lines, seen >>

BroadcastHostFrame ==
  /\ tick[1] = "broadcast"
  /\ LET isDue == hostForce \/ hostCountdown = 0
         sends == isDue /\ Connected # {} /\ (hostForce \/ hostFrame # hostDisplay)
     IN IF ~listening THEN GoTo("between") /\ UNCHANGED frontVars ELSE
        /\ hostForce' = FALSE
        /\ hostCountdown' = IF isDue THEN FrameInterval - 1 ELSE hostCountdown - 1
        /\ hostFrame' = IF sends THEN hostDisplay ELSE hostFrame
        /\ IF sends THEN tick' = << "sending", 1 >> /\ sending' = << "frame", "between" >>
                    ELSE tick' = << "between", 1 >> /\ UNCHANGED sending
  /\ UNCHANGED << browserVars, listening, backlog, socketVars, sendBuffer, hostDisplay,
                  shownVars, events >>

(***************************************************************************)
(* SendToEveryClient(): a socket that is full holds the tick until its     *)
(* page has read, or is gone, and the send fails.                          *)
(***************************************************************************)
Deliver(p) ==
  /\ unread[p] < Room
  /\ unread' = [unread EXCEPT ![p] = @ + 1]
  /\ IF sending[1] = "line"
       THEN lines' = [lines EXCEPT ![p] = Append(@, printedLines)] /\ UNCHANGED seen
       ELSE seen' = [seen EXCEPT ![p] = hostFrame] /\ UNCHANGED lines

\* (bug) The walk ends at the first slot without a client.
SlotAfter_UntilAGap(s) == IF clients[s] = Nobody THEN HostSlots + 1 ELSE s + 1

SlotAfter(s) == s + 1

SendToEveryClient ==
  /\ tick[1] = "sending"
  /\ IF tick[2] > HostSlots
       THEN /\ tick' = << sending[2], 1 >>
            /\ sending' = << >>
            /\ UNCHANGED << unread, lines, seen >>
       ELSE /\ LET p == clients[tick[2]]
               IN IF p = Nobody \/ p \in gone THEN UNCHANGED << unread, lines, seen >> ELSE Deliver(p)
            /\ tick' = << "sending", SlotAfter(tick[2]) >>
            /\ UNCHANGED sending
  /\ UNCHANGED << connection, stream, gone, listening, backlog, socketVars, sendBuffer, frontVars,
                  hostDisplay, answered, injected, printedLines, from, events >>

\* The window is closed: every socket is, and the ones the system held for accept().
HostEnd ==
  /\ tick[1] = "between"
  /\ listening
  /\ listening' = FALSE
  /\ connection' = [p \in Pages |-> IF connection[p] = "away" THEN "away" ELSE "closed"]
  /\ backlog' = << >>
  /\ clients' = [s \in ClientSlots |-> Nobody]
  /\ pending' = [s \in ClientSlots |-> << >>]
  /\ tick' = << "ended", 1 >>
  /\ UNCHANGED << stream, unread, gone, received, sendBuffer, frontVars, hostDisplay, sending,
                  shownVars, events >>

HostTick == BeginTick \/ AcceptClients \/ ReadClient \/ FirmwareTask \/ BroadcastHostFrame \/ SendToEveryClient

\* Nothing is left to do once the window is closed.
HostEnded == tick[1] = "ended" /\ UNCHANGED hostVars

HostNext == Browsers \/ HostTick \/ SendInput \/ HostEnd \/ HostEnded

(***************************************************************************)
(* Properties.                                                             *)
(***************************************************************************)
\* However the packets of its frames were cut, the host has injected of a page what it would have
\* had they come at once (ReadClient, DecodeFrame): every text once, whole and in order.
TextsArriveWhole == \A p \in Pages : injected[p] = Texts(SubSeq(stream[p], 1, received[p]))

\* A page is sent every line that is printed while it is open, and in order, beside pages that
\* come and go (SendToEveryClient, OnClientOpened).
PagesReadEveryLine ==
  \A p \in Connected : p \notin gone /\ tick[1] # "sending" =>
    lines[p] = [i \in 1 .. printedLines - from[p] |-> from[p] + i]

\* A document arrives whole, and in no empty chunk, which would end it early on the clock
\* (ChunkWriter, WebResponseBody::Write).
DocumentsAreWhole ==
  \A p \in Pages : answered[p][1] = "document" =>
    /\ << >> \notin {answered[p][2][i] : i \in DOMAIN answered[p][2]}
    /\ FlattenSeq(answered[p][2]) \in Documents

\* Both ways, what one end was given to send the other has got, however it was cut.
MessagesArriveWhole == TextsArriveWhole /\ DocumentsAreWhole

\* Between two ticks every page has been shown the frame that was sent last, the ones that were
\* opened since the display last changed as well (OnClientOpened, BroadcastFrame): no page waits
\* for a change to be shown anything.
PagesShowOneFrame ==
  tick[1] = "between" => \A p \in Connected \ gone : seen[p] = hostFrame
=============================================================================
