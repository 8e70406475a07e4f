------------------------------ MODULE ClockFace ------------------------------
(***************************************************************************)
(* What is on the display: DisplayManager arbitrates between the clock     *)
(* face, the animation that carries a word change and an overlay that      *)
(* takes the display over; Overlays starts, times and ends the overlays;   *)
(* Text draws the letters of the one that shows.  Their tasks run one      *)
(* after another in every tick, a command of a hand comes between them,    *)
(* and the time passes whenever it likes.                                  *)
(*                                                                         *)
(* The words are abstracted to the minute they tell (another wording is a  *)
(* change of them like the time's), a frame of an animation and the        *)
(* letters of a text to one picture each.  The overlays have no date set.  *)
(***************************************************************************)
EXTENDS Naturals, Sequences, Functions

CONSTANTS
  Order,             \* the overlays that are built in, in the order their tasks run
  Endurance,         \* endurance_in_seconds_ of each of them
  Period,            \* period_in_minutes_ of each of them
  ShowSecond,        \* kSecondToStartShow
  SecondsPerMinute,  \* bound: seconds in a minute
  Minutes,           \* bound: minutes, one set of words each
  MaxCommands        \* bound: commands of a hand in a behaviour

Overlays == Range(Order)

ASSUME ClockFaceAssumption ==
  /\ Order \in Seq(STRING)
  /\ Endurance \in [Overlays -> Nat \ {0}]
  /\ Period \in [Overlays -> Nat \ {0}]
  /\ SecondsPerMinute \in Nat \ {0}
  /\ Minutes \in Nat \ {0}
  /\ ShowSecond \in 0 .. SecondsPerMinute - 1
  /\ MaxCommands \in Nat

VARIABLES
  \* the program
  f,         \* DisplayManager, Animations, Overlays, Text and the pixel buffer
  second, minute,  \* RealTimeClock.date_time_
  ready,     \* whether Temperature has a reading
  phase,     \* which task of the tick is next
  \* what only bounds and properties read
  commands,  \* commands so far
  seen,      \* seconds the show that runs has been through, up to the longest endurance
  disturbed  \* a picture was left that stays until the words change

vars == << f, phase, second, minute, ready, commands, seen, disturbed >>

OverlayStates == {"disabled", "idle", "show"}

Animations == {"none", "animation"}

\* What the buffer holds: the face of a minute, or one of the pictures below.
Face(words) == [of |-> "clock", words |-> words]
Frame       == [of |-> "animation", words |-> 0]
Letters     == [of |-> "text", words |-> 0]
Foreign     == [of |-> "hand", words |-> 0]

Pictures == {Face(m) : m \in 0 .. Minutes - 1} \union {Frame, Letters, Foreign}

\* No words drawn yet: clock_words_initialized_ is false.
NoWords == Minutes

\* The seconds of a show.
Shows == {0} \union UNION {0 .. Endurance[o] : o \in Overlays}

FaceStates ==
  [ state: [Overlays -> OverlayStates],  \* Overlay.state_
    timer: Shows,                        \* Overlays.show_timer_in_seconds_
    lastSecond: 0 .. SecondsPerMinute,   \* Overlays.last_second_; the bound stands for none
    text: {"idle", "shift"},             \* Text.state_
    selected: Animations,                \* Animations.animation_id_
    current: Animations,                 \* Animations.current_animation_id_
    mode: {"fixed", "sequence"},         \* Animations.mode_
    running: BOOLEAN,                    \* the current animation is not idle
    target: 0 .. Minutes - 1,            \* the time the current animation ends on
    words: 0 .. Minutes,                 \* DisplayManager.last_clock_words_
    wasShowing: BOOLEAN,                 \* DisplayManager.overlay_was_showing_
    picture: Pictures ]                  \* the pixel buffer

-----------------------------------------------------------------------------
(* Animations *)

\* Init() of the current animation: idle, whatever it had drawn stays.
InitCurrentAnimation(c) == [c EXCEPT !.running = FALSE]

SwitchCurrentAnimation(c, id) == [InitCurrentAnimation(c) EXCEPT !.current = id]

SetAnimation(c, id) == SwitchCurrentAnimation([c EXCEPT !.selected = id], id)

SetMode(c, mode) ==
  LET set == [c EXCEPT !.mode = mode]
  IN  IF mode = "fixed" THEN SwitchCurrentAnimation(set, set.selected) ELSE set

\* At least one animation is always a favourite, so a selecting mode finds one.
SelectForRun(c) ==
  IF c.mode = "fixed" THEN InitCurrentAnimation(c) ELSE SwitchCurrentAnimation(c, "animation")

\* With no animation current the words are lit over what is lit already.
SetTime(c, words) ==
  LET s == IF c.running THEN c ELSE SelectForRun(c)
  IN  IF s.current # "none"
        THEN [s EXCEPT !.running = TRUE, !.target = words]
        ELSE [s EXCEPT !.picture = IF @ = Face(words) THEN @ ELSE Foreign]

AnimationsReset(c) == SetMode(SetAnimation(c, "none"), "fixed")

-----------------------------------------------------------------------------
(* One overlay *)

SetStateToIdle(c, o) == [c EXCEPT !.state[o] = "idle", !.text = "idle"]

SetStateToShow(c, o) ==
  [c EXCEPT !.state[o] = "show", !.text = "shift", !.timer = Endurance[o]]

\* The former order: asked before it counted, a show ran a second longer.
ShowTask_AsksFirst(c, o) ==
  IF c.timer = 0 THEN SetStateToIdle(c, o) ELSE [c EXCEPT !.timer = @ - 1]

ShowTask(c, o) ==
  LET left    == IF c.timer > 0 THEN c.timer - 1 ELSE 0
      counted == [c EXCEPT !.text = "shift", !.timer = left]
  IN  IF left = 0 THEN SetStateToIdle(counted, o) ELSE counted

\* A start asks for something to show, the period's minute and second 30.
IsDueNow(o, hasText, s, m) == hasText /\ s = ShowSecond /\ m % Period[o] = 0

SetIsActive(c, o, isActive) ==
  LET ended == IF ~isActive /\ c.state[o] = "show" THEN SetStateToIdle(c, o) ELSE c
  IN  [ended EXCEPT !.state[o] =
         IF ~isActive THEN "disabled" ELSE IF @ = "disabled" THEN "idle" ELSE @]

-----------------------------------------------------------------------------
(* Overlays *)

IsShow(c) == \E o \in Overlays : c.state[o] = "show"

AbortAnimation(c) == InitCurrentAnimation(c)

\* What Temperature alone may lack.
CanShow(o, isReady) == o = "temperature" => isReady

\* The places in the order of the overlays that start if no timer keeps them away.
Due(c, isReady, s, m) ==
  {i \in DOMAIN Order :
     c.state[Order[i]] = "idle" /\ IsDueNow(Order[i], CanShow(Order[i], isReady), s, m)}

\* The first overlay that is due starts; the timer it sets keeps the others away.
TaskIdle(c, isReady, s, m) ==
  LET due == Due(c, isReady, s, m)
  IN  IF c.timer > 0 \/ due = {} THEN c
      ELSE SetStateToShow(c, Order[CHOOSE first \in due : \A i \in due : first <= i])

\* Of the overlays only one ever shows.
TaskShow(c) == ShowTask(c, CHOOSE o \in Overlays : c.state[o] = "show")

\* Without the zeroing: a show that was cut short leaves its timer standing.
OverlaysTask_TimerStays(c, isReady, s, m) ==
  CASE c.lastSecond = s -> c
    [] c.lastSecond # s /\ IsShow(c) -> TaskShow([c EXCEPT !.lastSecond = s])
    [] c.lastSecond # s /\ ~IsShow(c) ->
         LET d == TaskIdle([c EXCEPT !.lastSecond = s], isReady, s, m)
         IN  IF IsShow(d) THEN AbortAnimation(d) ELSE d

OverlaysTask(c, isReady, s, m) ==
  CASE c.lastSecond = s -> c
    [] c.lastSecond # s /\ IsShow(c) -> TaskShow([c EXCEPT !.lastSecond = s])
    [] c.lastSecond # s /\ ~IsShow(c) ->
         LET d == TaskIdle([c EXCEPT !.lastSecond = s, !.timer = 0], isReady, s, m)
         IN  IF IsShow(d) THEN AbortAnimation(d) ELSE d

ShowNow(c, o, isReady) ==
  IF c.state[o] # "disabled" /\ CanShow(o, isReady) /\ ~IsShow(c)
    THEN AbortAnimation(SetStateToShow(c, o))
    ELSE c

Abort(c) ==
  IF ~IsShow(c) THEN c
  ELSE [c EXCEPT !.state = [o \in Overlays |-> IF c.state[o] = "show" THEN "idle" ELSE c.state[o]],
                 !.text = "idle", !.timer = 0]

\* Every overlay switched off as SetIsActive() does it.
OverlaysReset(c) ==
  [c EXCEPT !.state = [o \in Overlays |-> "disabled"], !.text = IF IsShow(c) THEN "idle" ELSE @]

-----------------------------------------------------------------------------
(* DisplayManager *)

ShowClock(c, m) == [c EXCEPT !.picture = Face(m)]

TaskClockWordsChange(c, m) ==
  IF c.mode = "fixed" /\ c.selected = "none" THEN ShowClock(c, m) ELSE SetTime(c, m)

\* A task that forgets the overlay it has seen.
DisplayManagerTask_NoReturn(c, m) ==
  CASE IsShow(c)                   -> c
    [] ~IsShow(c) /\ c.words # m   -> TaskClockWordsChange([c EXCEPT !.words = m], m)
    [] ~IsShow(c) /\ c.words = m   -> c

DisplayManagerTask(c, m) ==
  CASE IsShow(c)                   -> [c EXCEPT !.wasShowing = TRUE]
    [] ~IsShow(c) /\ c.wasShowing  ->
         ShowClock([c EXCEPT !.wasShowing = FALSE, !.words = m], m)
    [] ~IsShow(c) /\ ~c.wasShowing ->
         IF c.words # m THEN TaskClockWordsChange([c EXCEPT !.words = m], m) ELSE c

RefreshClock(c, m) == IF IsShow(c) THEN c ELSE ShowClock([c EXCEPT !.words = m], m)

StartAnimation(c, m) == IF IsShow(c) THEN c ELSE SetTime(c, m)

AbortRunning(c, m) == RefreshClock(InitCurrentAnimation(c), m)

-----------------------------------------------------------------------------
(* The tasks of a tick *)

Seconds == 0 .. SecondsPerMinute - 1

TypeOK ==
  /\ f \in FaceStates
  /\ second \in Seconds
  /\ minute \in 0 .. Minutes - 1
  /\ ready \in BOOLEAN
  /\ phase \in {"time", "display", "animations", "command", "overlays", "text"}
  /\ commands \in 0 .. MaxCommands
  /\ seen \in Shows
  /\ disturbed \in BOOLEAN

Init ==
  /\ \E animation \in Animations, mode \in {"fixed", "sequence"}, active \in BOOLEAN :
       f = [ state      |-> [o \in Overlays |-> IF active THEN "idle" ELSE "disabled"],
             timer      |-> 0,
             lastSecond |-> SecondsPerMinute,
             text       |-> "idle",
             selected   |-> animation,
             current    |-> animation,
             mode       |-> mode,
             running    |-> FALSE,
             target     |-> 0,
             words      |-> NoWords,
             wasShowing |-> FALSE,
             picture    |-> Foreign ]
  /\ second = 0
  /\ minute = 0
  /\ ready = FALSE
  /\ phase = "time"
  /\ commands = 0
  /\ seen = 0
  /\ disturbed = FALSE

Step(from, to) == phase = from /\ phase' = to

\* The clock is left as `after`.
Becomes(after) ==
  /\ f' = after
  /\ disturbed' = (disturbed /\ after.picture # Face(minute))

\* RealTimeClock.Task() and Temperature.Task(): 10 ms later, or in the next second.
SameSecond ==
  /\ Step("time", "display")
  /\ ready' \in BOOLEAN
  /\ UNCHANGED << f, second, minute, commands, seen, disturbed >>

NextSecond ==
  /\ Step("time", "display")
  /\ second' = (second + 1) % SecondsPerMinute
  /\ minute' = IF second' = 0 THEN (minute + 1) % Minutes ELSE minute
  /\ UNCHANGED << f, ready, commands, seen, disturbed >>

DisplayManagerStep ==
  /\ Step("display", "animations")
  /\ Becomes(DisplayManagerTask(f, minute))
  /\ UNCHANGED << second, minute, ready, commands, seen >>

\* Nothing runs, or the animation's own speed lets this tick pass.
NoAnimationStep ==
  /\ Step("animations", "command")
  /\ UNCHANGED << f, second, minute, ready, commands, seen, disturbed >>

AnimationDraws ==
  /\ Step("animations", "command")
  /\ f.running
  /\ Becomes([f EXCEPT !.picture = Frame])
  /\ UNCHANGED << second, minute, ready, commands, seen >>

\* Its last step clears the display and draws the words it was given.
AnimationEnds ==
  /\ Step("animations", "command")
  /\ f.running
  /\ Becomes([f EXCEPT !.running = FALSE, !.picture = Face(f.target)])
  /\ UNCHANGED << second, minute, ready, commands, seen >>

NoCommand ==
  /\ Step("command", "overlays")
  /\ UNCHANGED << f, second, minute, ready, commands, seen, disturbed >>

\* A show of a second that a hand began can run out before DisplayManager looked: whatever it
\* had cut short stays on the display.
OverlaysStep ==
  /\ Step("overlays", "text")
  /\ f' = OverlaysTask(f, ready, second, minute)
  /\ disturbed' = \/ disturbed
                  \/ IsShow(f) /\ ~IsShow(f') /\ ~f.wasShowing /\ f.picture # Face(f.words)
  /\ seen' = IF ~IsShow(f) \/ ~IsShow(f') THEN 0
             ELSE IF f.lastSecond # second /\ seen + 1 \in Shows THEN seen + 1 ELSE seen
  /\ UNCHANGED << second, minute, ready, commands >>

NoTextStep ==
  /\ Step("text", "time")
  /\ UNCHANGED << f, second, minute, ready, commands, seen, disturbed >>

\* The next column, which may be the last of the text.
TextDraws ==
  /\ Step("text", "time")
  /\ f.text = "shift"
  /\ \E text \in {"shift", "idle"} : f' = [f EXCEPT !.picture = Letters, !.text = text]
  /\ UNCHANGED << second, minute, ready, commands, seen, disturbed >>

-----------------------------------------------------------------------------
(* The commands, at most one in a tick *)

\* A picture stays where a hand drew one or took a half-drawn one from its animation.
Commanded(after) ==
  /\ Step("command", "overlays")
  /\ commands < MaxCommands
  /\ commands' = commands + 1
  /\ f' = after
  /\ seen' = IF IsShow(f) /\ IsShow(after) THEN seen ELSE 0
  /\ disturbed' = /\ after.picture # Face(minute)
                  /\ \/ disturbed
                     \/ after.picture = Foreign
                     \/ f.running /\ ~after.running /\ ~IsShow(after)

\* The time, and with it or without it the words it is told in.
SetTheTime ==
  /\ \E s \in Seconds, m \in 0 .. Minutes - 1 : second' = s /\ minute' = m
  /\ Commanded(f)
  /\ UNCHANGED ready

Obeyed(after) == Commanded(after) /\ UNCHANGED << second, minute, ready >>

ClockRefresh == Obeyed(RefreshClock(f, minute))

AnimationStart == Obeyed(StartAnimation(f, minute))

AnimationAbort == Obeyed(AbortRunning(f, minute))

AnimationSelect == \E id \in Animations : Obeyed(SetAnimation(f, id))

AnimationMode == \E mode \in {"fixed", "sequence"} : Obeyed(SetMode(f, mode))

OverlayShow == \E o \in Overlays : Obeyed(ShowNow(f, o, ready))

OverlayAbort == Obeyed(Abort(f))

OverlayActive == \E o \in Overlays, isActive \in BOOLEAN : Obeyed(SetIsActive(f, o, isActive))

\* DISPLAY_CLEAR, DISPLAY_TEST and the pixel command.
DrawByHand == Obeyed([f EXCEPT !.picture = Foreign])

SettingsReset == Obeyed(OverlaysReset(AnimationsReset(f)))

Command ==
  \/ SetTheTime \/ ClockRefresh
  \/ AnimationStart \/ AnimationAbort \/ AnimationSelect \/ AnimationMode
  \/ OverlayShow \/ OverlayAbort \/ OverlayActive
  \/ DrawByHand \/ SettingsReset

Time == SameSecond \/ NextSecond

AnimationsStep == NoAnimationStep \/ AnimationDraws \/ AnimationEnds

TextStep == NoTextStep \/ TextDraws

Tick == Time \/ DisplayManagerStep \/ AnimationsStep \/ NoCommand \/ OverlaysStep \/ TextStep

Next == Tick \/ Command

Spec == Init /\ [][Next]_vars

\* The main loop runs for ever and the time goes on.
FairSpec == Spec /\ WF_vars(Tick) /\ SF_vars(NextSecond)

-----------------------------------------------------------------------------
(* Properties *)

\* One overlay holds the display, because there is one show timer and one Text for
\* all of them (Overlays::ShowNow(), TaskIdle()).
OneOverlayHoldsTheDisplay ==
  \A o, p \in Overlays : f.state[o] = "show" /\ f.state[p] = "show" => o = p

\* An animation and an overlay draw on the same display: from its start to its end an
\* overlay has no animation beside it (Overlays::AbortAnimation()).
NoAnimationUnderAnOverlay == IsShow(f) => ~f.running

\* Letters scroll only for an overlay that shows, however the last show ended
\* (Overlay::EndShowIfShowing()).
LettersOnlyForAShow == f.text = "shift" => IsShow(f)

\* The clock comes back: past DisplayManager's task the display holds the words of the time,
\* unless an overlay or an animation has it, or it was left otherwise since the words changed:
\* by a command, or by a show that ran out before DisplayManager's task had seen it.
FaceComesBack ==
  (phase \in {"animations", "command"} /\ ~IsShow(f) /\ ~f.running /\ ~disturbed)
    => f.picture = Face(minute)

\* An animation ends on the time there is, not on the one it was started with
\* (Animations::SetTime(), DisplayManager::Task()).
AnimationEndsOnTheTime ==
  (phase \in {"animations", "command"} /\ f.running) => f.target = minute

\* Overlays, animations and DisplayManager hand one display to one another: each has it to itself,
\* draws what is due, and gives it back (Overlays::ShowNow(), DisplayManager::Task()).
DisplayHasOneOwner ==
  /\ OneOverlayHoldsTheDisplay
  /\ NoAnimationUnderAnOverlay
  /\ LettersOnlyForAShow
  /\ AnimationEndsOnTheTime
  /\ FaceComesBack

\* What Overlays.cpp says of an animation an overlay aborted: once the overlay ends,
\* DisplayManager draws the time anew.  It does so for a show it has seen (was_showing); a show of
\* one second that ShowNow() began in the tick its second passed, it has not.
TimeIsDrawnAfterAShow ==
  [][IsShow(f) /\ ~IsShow(f') => f'.wasShowing \/ f'.picture = Face(f'.words)]_vars

\* A show that runs out has been through the seconds of its endurance, no more and no less
\* (Overlay::ShowTask()).
ShowRunsOutWhenDue ==
  [][\A o \in Overlays :
       (phase = "overlays" /\ f.state[o] = "show" /\ f'.state[o] # "show")
         => seen + 1 = Endurance[o]]_vars

\* Left alone, a show lasts the seconds of its endurance; and whatever hands do to it and to the
\* time, it ends (Overlay::ShowTask(), Overlays::Task()).
ShowLastsItsEndurance ==
  /\ ShowRunsOutWhenDue
  /\ IsShow(f) ~> ~IsShow(f)

\* An overlay whose second has come shows, if none does, whatever ended the one before
\* (Overlays::Task() zeroes the timer).
DueOverlayStarts ==
  [][(/\ phase = "overlays" /\ f.lastSecond # second /\ ~IsShow(f)
      /\ \E o \in Overlays :
           f.state[o] = "idle" /\ IsDueNow(o, CanShow(o, ready), second, minute))
       => IsShow(f')]_vars

=============================================================================
