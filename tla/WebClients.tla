----------------------------- MODULE WebClients -----------------------------
(***************************************************************************)
(* Who watches the clock in a browser, and what it is sent: the server's   *)
(* task opens and closes sockets and keeps the table of the consoles; the  *)
(* firmware's tick reads that table slot by slot while it broadcasts the   *)
(* display.  Both print, and a printed line goes to the consoles too.      *)
(*                                                                         *)
(* A send to an open socket arrives.  A line is abstracted to who wrote    *)
(* it, a frame to the display it shows.                                    *)
(***************************************************************************)
EXTENDS Naturals, FiniteSets

CONSTANTS
  Descriptors,  \* what the system numbers sockets with
  None,         \* kNoClient
  MaxClients,   \* WEB_INTERFACE_MAX_CLIENTS
  Interval,     \* WEB_FRONTEND_FRAME_INTERVAL_TICKS
  Displays,     \* what the display may show; 0 is the buffer before its first frame
  MaxOpens,     \* bound: sockets opened in a behaviour
  MaxChanges,   \* bound: changes of the display
  MaxAnswers,   \* bound: answers printed by the firmware
  Prints        \* calls of print() that an answer makes before the one that ends its line

ASSUME WebClientsAssumption ==
  /\ None \notin Descriptors
  /\ MaxClients \in Nat \ {0}
  /\ Interval \in Nat \ {0}
  /\ 0 \in Displays
  /\ {MaxOpens, MaxChanges, MaxAnswers, Prints} \subseteq Nat

TableSlots == 1 .. MaxClients

VARIABLES
  \* the server's task
  clientSlots, \* ClientTable().slots
  opening,     \* the socket OnClientOpened() is about to find a slot for, or None
  open,        \* sockets the server has not closed
  \* both
  force,       \* WebFrontend.force_frame_
  lineBuffer,  \* who wrote what is in WordclockSerial.line_buffer_
  \* the firmware's tick
  display,     \* the pixel buffer
  at,          \* where BroadcastFrame() is
  cursor,      \* the slot it looks at next
  forced,      \* its copy of force
  countdown,   \* frame_countdown_
  lastFrame,   \* last_frame_
  printed,     \* calls of print() the answer under way has made
  \* what only bounds and properties read
  shown,       \* what each socket was sent last; None since it was opened
  handed,      \* who wrote the line the sink was given last
  opens, changes, answersEnded

serverVars == << clientSlots, opening, open, opens >>
frameVars  == << at, cursor, forced, countdown, lastFrame, shown >>
lineVars   == << lineBuffer, printed, handed, answersEnded >>

clientsVars == << serverVars, frameVars, lineVars, force, display, changes >>

Writers == {"firmware", "server"}

ClientsTypeOK ==
  /\ clientSlots \in [TableSlots -> Descriptors \union {None}]
  /\ opening \in Descriptors \union {None}
  /\ open \subseteq Descriptors
  /\ force \in BOOLEAN
  /\ lineBuffer \subseteq Writers
  /\ display \in Displays
  /\ at \in {"away", "looking", "comparing", "sending"}
  /\ cursor \in 1 .. MaxClients + 1
  /\ forced \in BOOLEAN
  /\ countdown \in 0 .. Interval - 1
  /\ lastFrame \in Displays
  /\ printed \in 0 .. Prints
  /\ shown \in [Descriptors -> Displays \union {None}]
  /\ handed \subseteq Writers
  /\ opens \in 0 .. MaxOpens
  /\ changes \in 0 .. MaxChanges
  /\ answersEnded \in 0 .. MaxAnswers

ClientsInit ==
  /\ clientSlots = [s \in TableSlots |-> None]
  /\ opening = None
  /\ open = {}
  /\ force = FALSE
  /\ lineBuffer = {}
  /\ display = 0
  /\ at = "away"
  /\ cursor = 1
  /\ forced = FALSE
  /\ countdown = 0
  /\ lastFrame = 0
  /\ printed = 0
  /\ shown = [d \in Descriptors |-> None]
  /\ handed = {}
  /\ opens = 0
  /\ changes = 0
  /\ answersEnded = 0

Table == {clientSlots[s] : s \in TableSlots} \ {None}

-----------------------------------------------------------------------------
(* The server's task *)

\* A handshake: OnClientOpened() first has a frame forced ...
ClientOpens ==
  /\ opening = None
  /\ opens < MaxOpens
  /\ opens' = opens + 1
  /\ \E d \in Descriptors \ open :
       /\ opening' = d
       /\ open' = open \union {d}
       /\ shown' = [shown EXCEPT ![d] = None]
  /\ force' = TRUE
  /\ UNCHANGED << clientSlots, at, cursor, forced, countdown, lastFrame, lineVars, display,
                  changes >>

\* The first slot without a console, and the last one where there is none.
FreeSlot == CHOOSE s \in TableSlots :
              /\ clientSlots[s] = None
              /\ \A t \in 1 .. s - 1 : clientSlots[t] # None

IsFull == \A s \in TableSlots : clientSlots[s] # None

\* A number that is in the table already keeps its slot.
Stored(d) == IF d \in Table \/ IsFull THEN clientSlots ELSE [clientSlots EXCEPT ![FreeSlot] = d]

\* ... and then finds it a slot, or says on the console that there is none.
ClientStored ==
  /\ opening # None
  /\ opening' = None
  /\ clientSlots' = Stored(opening)
  /\ IF opening \notin Table /\ IsFull
       THEN lineBuffer' = {} /\ handed' = lineBuffer \union {"server"}
       ELSE UNCHANGED << lineBuffer, handed >>
  /\ UNCHANGED << open, opens, frameVars, printed, answersEnded, force, display, changes >>

FirstSlotOf(d) == CHOOSE s \in TableSlots :
                    /\ clientSlots[s] = d
                    /\ \A t \in 1 .. s - 1 : clientSlots[t] # d

\* OnClientClosed(): the first slot that holds the number.
SlotCleared(d) == IF d \in Table THEN [clientSlots EXCEPT ![FirstSlotOf(d)] = None] ELSE clientSlots

\* A browser says goodbye, or is gone and the server closes its socket.
ClientLeaves ==
  /\ opening = None
  /\ \E d \in open :
       /\ clientSlots' = SlotCleared(d)
       /\ open' \in {open, open \ {d}}
       /\ clientSlots' # clientSlots \/ open' # open
  /\ UNCHANGED << opening, opens, frameVars, lineVars, force, display, changes >>

-----------------------------------------------------------------------------
(* The firmware's tick: what goes before the broadcast *)

DisplayChanges ==
  /\ at = "away" /\ printed = 0
  /\ changes < MaxChanges
  /\ changes' = changes + 1
  /\ display' \in Displays \ {display}
  /\ UNCHANGED << serverVars, frameVars, lineVars, force >>

\* An answer is put together by several calls; each holds the lock while it prints.
AnswerPrints ==
  /\ at = "away"
  /\ printed < Prints
  /\ answersEnded < MaxAnswers
  /\ printed' = printed + 1
  /\ lineBuffer' = lineBuffer \union {"firmware"}
  /\ UNCHANGED << handed, answersEnded, serverVars, frameVars, force, display, changes >>

AnswerEnds ==
  /\ at = "away"
  /\ printed = Prints
  /\ answersEnded < MaxAnswers
  /\ printed' = 0
  /\ answersEnded' = answersEnded + 1
  /\ handed' = IF lineBuffer = {} THEN handed ELSE lineBuffer
  /\ lineBuffer' = {}
  /\ UNCHANGED << serverVars, frameVars, force, display, changes >>

-----------------------------------------------------------------------------
(* The firmware's tick: BroadcastFrame() *)

\* A tick that the interval lets pass.
FrameNotDue ==
  /\ at = "away" /\ printed = 0
  /\ ~force /\ countdown > 0
  /\ countdown' = countdown - 1
  /\ forced' = FALSE
  /\ UNCHANGED << serverVars, at, cursor, lastFrame, shown, lineVars, force, display, changes >>

Reload == Interval - 1

\* The flag is taken, and the interval starts over, whoever is there to be sent a frame.
FrameDue ==
  /\ at = "away" /\ printed = 0
  /\ force \/ countdown = 0
  /\ forced' = force
  /\ force' = FALSE
  /\ countdown' = Reload
  /\ at' = "looking"
  /\ cursor' = 1
  /\ UNCHANGED << serverVars, lastFrame, shown, lineVars, display, changes >>

\* HasClients(), one slot after another, until one is taken.
HasClientsLooks ==
  /\ at = "looking"
  /\ CASE cursor > MaxClients -> at' = "away" /\ UNCHANGED cursor
       [] cursor <= MaxClients /\ clientSlots[cursor] # None ->
            at' = "comparing" /\ cursor' = 1
       [] cursor <= MaxClients /\ clientSlots[cursor] = None ->
            cursor' = cursor + 1 /\ UNCHANGED at
  /\ UNCHANGED << serverVars, forced, countdown, lastFrame, shown, lineVars, force,
                  display, changes >>

IsUnchanged == ~forced /\ lastFrame = display

FrameIsCompared ==
  /\ at = "comparing"
  /\ at' = IF IsUnchanged THEN "away" ELSE "sending"
  /\ lastFrame' = display
  /\ UNCHANGED << serverVars, cursor, forced, countdown, shown, lineVars, force, display,
                  changes >>

\* A walk that ends at the first slot without a console.
NextSlot_UntilAGap == IF clientSlots[cursor] = None THEN MaxClients + 1 ELSE cursor + 1

NextSlot == cursor + 1

\* SendToEveryClient(), one slot after another.
FrameIsSent ==
  /\ at = "sending"
  /\ IF cursor <= MaxClients
       THEN /\ shown' = IF clientSlots[cursor] \in open
                          THEN [shown EXCEPT ![clientSlots[cursor]] = lastFrame] ELSE shown
            /\ cursor' = NextSlot
            /\ UNCHANGED at
       ELSE at' = "away" /\ UNCHANGED << shown, cursor >>
  /\ UNCHANGED << serverVars, forced, countdown, lastFrame, lineVars, force, display,
                  changes >>

BroadcastFrame ==
  FrameNotDue \/ FrameDue \/ HasClientsLooks \/ FrameIsCompared \/ FrameIsSent

Answers == AnswerPrints \/ AnswerEnds

ClientsNext ==
  ClientOpens \/ ClientStored \/ ClientLeaves \/ DisplayChanges \/ Answers \/ BroadcastFrame

-----------------------------------------------------------------------------
(* Properties *)

\* No console is sent anything twice: a socket holds one slot, and a slot that is held is
\* an open socket's (WebInterface::OnClientOpened(), OnClientClosed()).
OneSlotPerConsole ==
  /\ \A s, t \in TableSlots : clientSlots[s] = clientSlots[t] /\ clientSlots[s] # None => s = t
  /\ Table \subseteq open

\* A full table drops the newcomer: whoever has a slot keeps it until its own socket goes.
ConsoleKeepsItsSlot ==
  [][\A s \in TableSlots :
       clientSlots[s] # None /\ clientSlots'[s] # clientSlots[s] =>
         opening = None /\ clientSlots'[s] = None]_clientsVars

\* What a console that keeps its slot is waiting for.
IsShownOrGone(d) == shown[d] = display \/ d \notin Table

\* A console that has been shown the display once is shown every display that stays; and so is a
\* newcomer that has its slot before its forced frame is due (WebFrontend::OnClientOpened()).
ChangeReachesConsoles ==
  \A d \in Descriptors : (d \in Table /\ (shown[d] # None \/ force)) ~> IsShownOrGone(d)

\* The table is the open consoles, however they come and go while the tick walks it: no slot is
\* held twice, none is left behind, and what changes meanwhile still reaches them all.
ConsolesKeepUp == []OneSlotPerConsole /\ ConsoleKeepsItsSlot /\ ChangeReachesConsoles

=============================================================================
