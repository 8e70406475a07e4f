------------------------------ MODULE Animations ------------------------------
(***************************************************************************)
(* The animation of a word change, letter by letter: Animations chooses    *)
(* which one runs, gives it the time and one step a task, and leaves it    *)
(* for another one.  The words change, a hand selects, aborts and switches *)
(* the display off between any two steps.                                  *)
(***************************************************************************)
EXTENDS Animation

CONSTANTS
  Order,          \* AnimationIdType, without kNone
  FavouriteSets,  \* bound: the favourites a selecting clock starts with
  Selectable,     \* bound: the animations a hand selects among
  StartsFrom,     \* bound: what a clock may start from: "face", "dark", "full"
  MaxEvents       \* bound: word changes and commands in a behaviour

\* Every animation there is to build in.
Animated ==
  {"Cursor", "Teletype", "Drop", "Shift", "Fade", "Snake", "Wipe", "Cube", "Flicker", "Squeeze",
   "ExplodePixels", "ExplodeWords", "Matrix", "Roll", "Collapse"}

AnimationIds == {Order[p] : p \in DOMAIN Order}

NoAnimation == "None"

ASSUME AnimationsAssumption ==
  /\ Order \in Seq(Animated) /\ Order # << >>
  /\ \A s \in FavouriteSets : s # {} /\ s \subseteq AnimationIds
  /\ Selectable \subseteq AnimationIds \union {NoAnimation}
  /\ StartsFrom \subseteq {"face", "dark", "full"}
  /\ MaxEvents \in Nat

Modes == {"fixed", "random", "sequence"}

VARIABLES
  \* the program
  frame,       \* the animation that runs, and the display
  current,     \* current_animation_id_
  selected,    \* animation_id_
  mode,        \* mode_
  favourites,  \* favourites_
  \* what only bounds and properties read
  asked,       \* the newest time given to the display
  settled,     \* nobody left a picture behind that is not a face
  clean,       \* the run began on a face or a dark display, and nothing came between
  hand,        \* how a hand left the display: "on", "off", or "torn" from a flicker
  events       \* events so far

vars == << frame, current, selected, mode, favourites, asked, settled, clean, hand, events >>

-----------------------------------------------------------------------------
(* The current animation *)

ResetOf(id, f) ==
  CASE id = NoAnimation     -> f
    [] id = "Cursor"        -> CursorReset(f)
    [] id = "Teletype"      -> TeletypeReset(f)
    [] id = "Drop"          -> DropReset(f)
    [] id = "Shift"         -> ShiftReset(f)
    [] id = "Fade"          -> FadeReset(f)
    [] id = "Snake"         -> SnakeReset(f)
    [] id = "Wipe"          -> WipeReset(f)
    [] id = "Cube"          -> CubeReset(f)
    [] id = "Flicker"       -> FlickerReset(f)
    [] id = "Squeeze"       -> SqueezeReset(f)
    [] id = "ExplodePixels" -> ExplodePixelsReset(f)
    [] id = "ExplodeWords"  -> ExplodeWordsReset(f)
    [] id = "Matrix"        -> MatrixReset(f)
    [] id = "Roll"          -> RollReset(f)
    [] id = "Collapse"      -> CollapseReset(f)

\* What SetTime() of an idle animation does, with its table filled.
StartOf(id, f, t) ==
  CASE id = "Cursor"        -> CursorStart(f, t)
    [] id = "Teletype"      -> TeletypeStart(f, t)
    [] id = "Drop"          -> DropStart(f, t)
    [] id = "Shift"         -> ShiftStart(f, t)
    [] id = "Fade"          -> FadeStart(f, t)
    [] id = "Snake"         -> SnakeStart(f, t)
    [] id = "Wipe"          -> WipeStart(f, t)
    [] id = "Cube"          -> CubeStart(f, t)
    [] id = "Flicker"       -> FlickerStart(f, t)
    [] id = "Squeeze"       -> SqueezeStart(f, t)
    [] id = "ExplodePixels" -> ExplodePixelsStart(f, t)
    [] id = "ExplodeWords"  -> ExplodeWordsStart(f, t)
    [] id = "Matrix"        -> MatrixStart(f, t)
    [] id = "Roll"          -> RollStart(f, t)
    [] id = "Collapse"      -> CollapseStart(f, t)

TaskOf(id, f) ==
  CASE id = "Cursor"        -> CursorTask(f)
    [] id = "Teletype"      -> TeletypeTask(f)
    [] id = "Drop"          -> DropTask(f)
    [] id = "Shift"         -> ShiftTask(f)
    [] id = "Fade"          -> FadeTask(f)
    [] id = "Snake"         -> SnakeTask(f)
    [] id = "Wipe"          -> WipeTask(f)
    [] id = "Cube"          -> CubeTask(f)
    [] id = "Flicker"       -> FlickerTask(f)
    [] id = "Squeeze"       -> SqueezeTask(f)
    [] id = "ExplodePixels" -> ExplodePixelsTask(f)
    [] id = "ExplodeWords"  -> ExplodeWordsTask(f)
    [] id = "Matrix"        -> MatrixTask(f)
    [] id = "Roll"          -> RollTask(f)
    [] id = "Collapse"      -> CollapseTask(f)

\* Mutant: a run that goes on does not hear of the newer time.
TimeSet_StartsOnly(id, f, t) ==
  CASE id = NoAnimation -> [f EXCEPT !.display = SetClockWords(@, WordsListOf(t), 0)]
    [] id # NoAnimation -> IF f.state = "idle" THEN StartOf(id, TakeWords(f, t), t) ELSE f

\* The SetTime() of an animation: a run that goes on takes the newer time.
TimeSet(id, f, t) ==
  CASE id = NoAnimation -> [f EXCEPT !.display = SetClockWords(@, WordsListOf(t), 0)]
    [] id = "Fade" /\ f.state # "idle" -> FadeRevise(f, t)
    [] id = "Flicker" /\ f.state # "idle" -> FlickerRevise(f, t)
    [] id \in {"Fade", "Flicker"} /\ f.state = "idle" -> StartOf(id, f, t)
    [] id \in AnimationIds \ {"Fade", "Flicker"} ->
         IF f.state = "idle" THEN StartOf(id, TakeWords(f, t), t) ELSE TakeWords(f, t)

\* SwitchCurrentAnimation(): the old one is initialised before it is left.
Switched(f, from, to) == ResetOf(to, ResetOf(from, f))

-----------------------------------------------------------------------------
(* The choice of a mode *)

PositionOf(id) == IF id = NoAnimation THEN 0 ELSE CHOOSE p \in DOMAIN Order : Order[p] = id

\* CalcNextAnimation(): the favourite that comes next, the first one after the last.
CalcNextAnimation ==
  LET way(id) == (PositionOf(id) + Len(Order) - PositionOf(current) - 1) % Len(Order)
  IN  CHOOSE id \in favourites : \A other \in favourites : way(id) <= way(other)

\* SelectAnimationOfMode(); a draw may fall on any favourite.
ChoicesOfMode ==
  CASE mode = "fixed"    -> {current}
    [] mode = "random"   -> favourites
    [] mode = "sequence" -> {CalcNextAnimation}

Idles   == frame.state = "idle"
Pending == frame.state \in {"clear", "set"}

IsFaceOrDark(lit) == lit = {} \/ \E t \in Times : lit = FaceOf(t)

\* Animations::SetTime(): an idle animation is initialised, or another one chosen, and started.
SetTime(t) ==
  \E id \in IF Idles THEN ChoicesOfMode ELSE {current} :
    /\ current' = id
    /\ frame' = TimeSet(id, CASE ~ Idles                   -> frame
                              [] Idles /\ mode = "fixed" -> ResetOf(id, frame)
                              [] Idles /\ mode # "fixed" -> Switched(frame, current, id), t)
    /\ clean' = (Idles /\ IsFaceOrDark(frame.display))

\* DisplayManager::ShowClock()
ShowClock(f, t) == [f EXCEPT !.display = FaceOf(t)]

-----------------------------------------------------------------------------
(* Actions *)

Event == events < MaxEvents /\ events' = events + 1

\* Of the face and of everything it may have been before.
Init ==
  /\ asked \in Times
  /\ selected \in AnimationIds \union {NoAnimation}
  /\ mode \in Modes
  /\ favourites \in IF mode = "fixed" THEN {AnimationIds} ELSE FavouriteSets
  /\ mode # "fixed" => selected = NoAnimation
  /\ current = selected
  /\ \E from \in StartsFrom :
       /\ settled = (from = "face")
       /\ frame = ResetOf(current, AFrame(CASE from = "face" -> FaceOf(asked)
                                            [] from = "dark" -> {}
                                            [] from = "full" -> Pixels, <<>>))
  /\ clean = FALSE
  /\ hand = "on"
  /\ events = 0

\* DisplayManager::TaskClockWordsChange()
WordChange(t) ==
  /\ Event
  /\ t # asked /\ asked' = t
  /\ IF mode = "fixed" /\ selected = NoAnimation
       THEN frame' = ShowClock(frame, t) /\ settled' = TRUE /\ UNCHANGED << current, clean >>
       ELSE SetTime(t) /\ UNCHANGED settled
  /\ frame.state # "spin"
  /\ UNCHANGED << selected, mode, favourites, hand >>

\* DisplayManager::StartAnimation()
StartAnimation ==
  /\ Event
  /\ frame.state # "spin"
  /\ SetTime(asked)
  /\ UNCHANGED << selected, mode, favourites, asked, settled, hand >>

\* DisplayManager::AbortAnimation()
AbortAnimation ==
  /\ Event
  /\ frame.state # "spin"
  /\ frame' = ShowClock(ResetOf(current, frame), asked)
  /\ settled' = TRUE /\ clean' = FALSE
  /\ UNCHANGED << current, selected, mode, favourites, asked, hand >>

\* DisplayManager::RefreshClock(), while an animation runs as well
RefreshClock ==
  /\ Event
  /\ frame.state # "spin"
  /\ frame' = ShowClock(frame, asked)
  /\ settled' = TRUE /\ clean' = FALSE
  /\ UNCHANGED << current, selected, mode, favourites, asked, hand >>

\* What SetAnimation(), SetMode() and ResetToDefaults() leave of a run.
Leave(id) ==
  /\ current' = id
  /\ frame' = Switched(frame, current, id)
  /\ settled' = (settled /\ Idles) /\ clean' = FALSE

SetAnimation(id) ==
  /\ Event
  /\ frame.state # "spin"
  /\ Leave(id) /\ selected' = id
  /\ UNCHANGED << mode, favourites, asked, hand >>

SetMode(m) ==
  /\ Event
  /\ frame.state # "spin"
  /\ m # mode /\ mode' = m
  /\ IF m = "fixed" THEN Leave(selected) ELSE UNCHANGED << current, frame, settled, clean >>
  /\ UNCHANGED << selected, favourites, asked, hand >>

\* SetFavourite(), which refuses to drop the last one
SetFavourite(id) ==
  /\ Event
  /\ frame.state # "spin"
  /\ favourites' = (favourites \ {id}) \union ({id} \ favourites)
  /\ favourites' # {}
  /\ UNCHANGED << frame, current, selected, mode, asked, settled, clean, hand >>

ResetToDefaults ==
  /\ Event
  /\ frame.state # "spin"
  /\ Leave(NoAnimation) /\ selected' = NoAnimation
  /\ mode' = "fixed" /\ favourites' = AnimationIds
  /\ UNCHANGED << asked, hand >>

\* DISPLAY_ENABLE and DISPLAY_DISABLE
SwitchDisplay(on) ==
  /\ Event
  /\ frame.state # "spin"
  /\ frame' = [frame EXCEPT !.enabled = on]
  /\ hand' = IF Pending /\ current = "Flicker" THEN "torn" ELSE IF on THEN "on" ELSE "off"
  /\ UNCHANGED << current, selected, mode, favourites, asked, settled, clean >>

\* Animations::Task()
Task ==
  /\ Pending
  /\ frame' = TaskOf(current, frame)
  /\ settled' = (settled \/ frame'.state = "idle")
  /\ UNCHANGED << current, selected, mode, favourites, asked, clean, hand, events >>

Next ==
  \/ \E t \in Times : WordChange(t)
  \/ StartAnimation
  \/ AbortAnimation
  \/ RefreshClock
  \/ \E id \in Selectable : SetAnimation(id)
  \/ \E m \in Modes : SetMode(m)
  \/ \E id \in Selectable \ {NoAnimation} : SetFavourite(id)
  \/ ResetToDefaults
  \/ \E on \in BOOLEAN : SwitchDisplay(on)
  \/ Task

Spec == Init /\ [][Next]_vars /\ WF_vars(Task)

-----------------------------------------------------------------------------
(* Properties *)

\* The types.
TypeOK ==
  /\ frame.display \subseteq Pixels
  /\ frame.enabled \in BOOLEAN /\ frame.dark \in BOOLEAN
  /\ frame.fade \in 0 .. Full
  /\ frame.state \in {"idle", "clear", "set", "spin"}
  /\ frame.words \in [Places -> DOMAIN Words \union {None}]
  /\ current \in AnimationIds \union {NoAnimation}
  /\ selected \in AnimationIds \union {NoAnimation}
  /\ mode \in Modes
  /\ favourites \in SUBSET AnimationIds \ {{}}
  /\ asked \in Times
  /\ settled \in BOOLEAN /\ clean \in BOOLEAN
  /\ hand \in {"on", "off", "torn"}
  /\ events \in 0 .. MaxEvents

\* A display that no run is using is never left faded or darkened, however the run ended:
\* through its last step, an abort, another selection or another mode.
DimmedOnlyByARun == frame.fade # Full \/ frame.dark => Pending

\* Apart from a flicker, a display is switched as a hand left it.
SwitchIsTheHands ==
  /\ hand = "on" => frame.enabled \/ frame.dark
  /\ hand = "off" => ~ frame.enabled

\* A clock whose animation is done shows the newest time it was given, given before the run or
\* in the middle of it, and nothing else, as bright and as a hand switched it.
RestsOnTheNewestTime ==
  /\ Idles /\ settled => frame.display = FaceOf(asked)
  /\ DimmedOnlyByARun
  /\ SwitchIsTheHands

\* No run inherits anything of an earlier run, its own or that of another animation with
\* which it shares its memory: it begins as the first run of a clock on this display would.
RunsStartFresh ==
  [][Idles /\ frame'.state \in {"clear", "set"} =>
       LET first == TimeSet(current', ResetOf(current', [AFrame(frame.display, <<>>) EXCEPT
                                                           !.enabled = frame.enabled]), asked')
       IN  /\ frame'.state = first.state
           /\ frame'.own = first.own
           /\ frame'.words = first.words
           /\ frame'.display = first.display]_vars

\* Each animation that draws finds its own way to the new words: after a run that nobody
\* disturbed, the redraw at its end takes away no letter and adds none.
LandsItself == AnimationIds \ {"Teletype", "Flicker", "Fade", "ExplodePixels"}
LastFrameIsTheFace ==
  [][Pending /\ clean /\ current \in LandsItself /\ frame'.state = "idle" /\ events' = events =>
       frame'.swept = FaceOf(asked)]_vars

\* So a run owes nothing to the one before it, and is whole to its last step.
RunsAreWhole == RunsStartFresh /\ LastFrameIsTheFace

\* Every run ends, under the scheduler's next task; one of Explode words if it began on a face
\* or on a dark display.
RunsEnd == (Pending /\ (clean \/ current # "ExplodeWords")) ~> Idles

=============================================================================
