------------------------------- MODULE Console -------------------------------
(***************************************************************************)
(* How a line becomes a command: a browser's frame is injected by the web  *)
(* server's task one character at a time, a terminal types on the port,    *)
(* and Communication, in the tick, reads both into one line and has it     *)
(* parsed once it has ended.  The web task and the port act at any moment  *)
(* of that.                                                                *)
(***************************************************************************)
EXTENDS InjectRing, SequencesExt, FiniteSets

CONSTANTS
  End,             \* kEndOfMessageChar
  Frames,          \* the texts a browser may send
  Typed,           \* what is typed on the port, the port's own buffer being large enough
  LineLength,      \* MESSAGE_LENGTH - 1
  MaxFrameLength,  \* WEB_FRONTEND_MAX_FRAME_LENGTH
  MaxFrames        \* bound: frames in a behaviour

ASSUME ConsoleAssumption ==
  /\ End \in Char
  /\ Frames \subseteq Seq(Char)
  /\ Typed \in Seq(Char)
  /\ LineLength \in Nat
  /\ MaxFrameLength \in Nat
  /\ MaxFrames \in Nat

VARIABLES
  \* the web server's task
  todo,      \* the calls of Inject() its frame still needs
  \* the core's port
  typed,     \* characters typed so far
  port,      \* the ones that wait
  \* Communication
  line,      \* incoming_message_
  tooLong,   \* is_message_too_long_
  complete,  \* state_ is kMessageComplete
  reading,   \* its task is in AddMessagePart()'s loop
  \* what only bounds and properties read
  answers,   \* the lines parsed, or refused, so far
  frames,    \* frames taken so far
  sent,      \* the characters these have to reach the parser as
  heard,     \* every character read() returned
  dropped    \* a call of Inject() found no room

consoleVars == << todo, typed, port, line, tooLong, complete, reading, answers, frames, sent,
                  heard, dropped >>

vars == << ringVars, consoleVars >>

\* The answer to a line: a line that did not fit is refused whole.
Answer(text) ==
  IF Len(text) > LineLength THEN [ok |-> FALSE, text |-> << >>] ELSE [ok |-> TRUE, text |-> text]

TypeOK ==
  /\ RingTypeOK
  /\ todo \in Seq(Seq(Char)) /\ Len(todo) <= 2
  /\ typed \in 0 .. Len(Typed)
  /\ port \in Seq(Char)
  /\ line \in Seq(Char) /\ Len(line) <= LineLength
  /\ tooLong \in BOOLEAN
  /\ complete \in BOOLEAN
  /\ reading \in BOOLEAN
  /\ answers \in Seq([ok: BOOLEAN, text: Seq(Char)])
  /\ frames \in 0 .. MaxFrames
  /\ sent \in Seq(Char)
  /\ heard \in Seq(Char)
  /\ dropped \in BOOLEAN

Init ==
  /\ RingInit
  /\ todo = << >>
  /\ typed = 0
  /\ port = << >>
  /\ line = << >>
  /\ tooLong = FALSE
  /\ complete = FALSE
  /\ reading = FALSE
  /\ answers = << >>
  /\ frames = 0
  /\ sent = << >>
  /\ heard = << >>
  /\ dropped = FALSE

-----------------------------------------------------------------------------
(* The web server's task *)

\* InjectCommand(): the text, and the end of the line where the browser sent none.
Calls(frame) == IF Last(frame) = End THEN << frame >> ELSE << frame, << End >> >>

\* A frame as it has to reach the parser.
Ended(frame) == IF Last(frame) = End THEN frame ELSE Append(frame, End)

\* What is left once the first character of the first call is in.
Rest(calls) ==
  IF Len(Head(calls)) = 1 THEN Tail(calls) ELSE << Tail(Head(calls)) >> \o Tail(calls)

FrameArrives ==
  /\ todo = << >>
  /\ frames < MaxFrames
  /\ frames' = frames + 1
  /\ \E frame \in Frames :
       /\ Len(frame) \in 1 .. MaxFrameLength
       /\ todo' = Calls(frame)
       /\ sent' = sent \o Ended(frame)
  /\ UNCHANGED << ringVars, typed, port, line, tooLong, complete, reading, answers, heard,
                  dropped >>

InjectWrites ==
  /\ todo # << >>
  /\ Write(Head(Head(todo)))
  /\ UNCHANGED consoleVars

InjectPublishes ==
  /\ Publish
  /\ todo' = Rest(todo)
  /\ UNCHANGED << typed, port, line, tooLong, complete, reading, answers, frames, sent, heard,
                  dropped >>

\* A full buffer drops the rest of the call; what it answers is not checked.
InjectDrops ==
  /\ todo # << >>
  /\ ~written
  /\ ~HasRoom
  /\ todo' = Tail(todo)
  /\ dropped' = TRUE
  /\ UNCHANGED << ringVars, typed, port, line, tooLong, complete, reading, answers, frames,
                  sent, heard >>

WebTask == InjectWrites \/ InjectPublishes \/ InjectDrops

-----------------------------------------------------------------------------
(* The port *)

KeyTyped ==
  /\ typed < Len(Typed)
  /\ typed' = typed + 1
  /\ port' = Append(port, Typed[typed + 1])
  /\ UNCHANGED << ringVars, todo, line, tooLong, complete, reading, answers, frames, sent,
                  heard, dropped >>

-----------------------------------------------------------------------------
(* Communication *)

\* A message whose mark that it did not fit stays for the next line.
Cleared_NotTheMark ==
  /\ line' = << >>
  /\ complete' = FALSE
  /\ tooLong' = tooLong

\* The message emptied for the next line.
Cleared ==
  /\ line' = << >>
  /\ complete' = FALSE
  /\ tooLong' = FALSE

\* A call with a complete line parses it, or refuses one that did not fit, and reads nothing.
TaskParses ==
  /\ ~reading
  /\ complete
  /\ answers' = Append(answers, [ok |-> ~tooLong, text |-> IF tooLong THEN << >> ELSE line])
  /\ Cleared
  /\ UNCHANGED << ringVars, todo, typed, port, reading, frames, sent, heard, dropped >>

TaskReads ==
  /\ ~reading
  /\ ~complete
  /\ reading' = TRUE
  /\ UNCHANGED << ringVars, todo, typed, port, line, tooLong, complete, answers, frames, sent,
                  heard,
                  dropped >>

\* An available() that asks the port only.
NothingAvailable_OnThePort ==
  /\ reading
  /\ ~taken
  /\ port = << >>
  /\ reading' = FALSE
  /\ UNCHANGED << ringVars, todo, typed, port, line, tooLong, complete, answers, frames, sent,
                  heard,
                  dropped >>

\* available() finds neither a typed character nor an injected one.
NothingAvailable ==
  /\ reading
  /\ port = << >>
  /\ IsInjectEmpty
  /\ reading' = FALSE
  /\ UNCHANGED << ringVars, todo, typed, port, line, tooLong, complete, answers, frames, sent,
                  heard,
                  dropped >>

AddChar(c) == IF Len(line) < LineLength THEN Append(line, c) ELSE line

\* A character that is read and does not end the line goes into it, while there is room.
Add(c) ==
  /\ heard' = Append(heard, c)
  /\ complete' = (c = End)
  /\ reading' = (c # End)
  /\ line' = IF c = End THEN line ELSE AddChar(c)
  /\ tooLong' = (tooLong \/ (c # End /\ Len(line) >= LineLength))

ReadPort ==
  /\ reading
  /\ ~taken
  /\ port # << >>
  /\ port' = Tail(port)
  /\ Add(Head(port))
  /\ UNCHANGED << ringVars, todo, typed, answers, frames, sent, dropped >>

\* The port comes first; once the injected character is chosen it stays chosen.
ReadInjected ==
  /\ reading
  /\ port = << >>
  /\ ReadSlot
  /\ UNCHANGED consoleVars

ReleaseInjected ==
  /\ Release
  /\ Add(held)
  /\ UNCHANGED << todo, typed, port, answers, frames, sent, dropped >>

Communication ==
  \/ TaskParses \/ TaskReads \/ NothingAvailable
  \/ ReadPort \/ ReadInjected \/ ReleaseInjected

Next == FrameArrives \/ WebTask \/ KeyTyped \/ Communication

Spec == Init /\ [][Next]_vars

\* The main loop and the server's task run for ever; nobody has to send or type anything.
FairSpec == Spec /\ WF_vars(Communication) /\ WF_vars(WebTask)

-----------------------------------------------------------------------------
(* Properties *)

\* Where lines end in a stream of characters.
Ends(stream) == {i \in DOMAIN stream : stream[i] = End}

\* The last end before a place of it, 0 if there is none.
EndBefore(stream, place) == Max({0} \union {i \in Ends(stream) : i < place})

\* What stands between that end and the place.
LineUpTo(stream, place) == SubSeq(stream, EndBefore(stream, place) + 1, place - 1)

\* The ends that Communication has seen, and is through with.
Parsed == Ends(heard) \ (IF complete THEN {Len(heard)} ELSE {})

\* Every line that ends is answered once, in order and whole: a line that did not fit is
\* refused and never cut short, and its mark does not reach the next one
\* (Communication::Task(), AddMessagePart()).
EveryLineIsAnsweredOnce ==
  /\ Len(answers) = Cardinality(Parsed)
  /\ \A end \in Parsed :
       answers[Cardinality({i \in Parsed : i <= end})] = Answer(LineUpTo(heard, end))

\* With room for it and nobody typing, a browser's command reaches the parser as it was
\* sent and on a line of its own (WebFrontend::InjectCommand(), WordclockSerial::Inject()).
CommandsArriveWhole == (~dropped /\ typed = 0) => IsPrefix(heard, sent)

\* What reaches the parser, whoever wrote it at whatever moment, and what it is answered.
EveryLineArrives == EveryLineIsAnsweredOnce /\ CommandsArriveWhole

\* So a browser's command is answered.
CommandsAreAnswered ==
  \A n \in 1 .. MaxFrames :
    (frames = n /\ ~dropped /\ typed = 0) ~> (Len(answers) >= n \/ dropped \/ typed > 0)
=============================================================================
