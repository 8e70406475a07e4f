-------------------------- MODULE ClockFace_proofs --------------------------
(***************************************************************************)
(* Overlays, animations and DisplayManager hand one display to one another *)
(* for any set of overlays, any length of a minute and any commands: each  *)
(* has the display to itself and gives it back, an overlay that is due     *)
(* starts, and a show that runs out has lasted its endurance.              *)
(*                                                                         *)
(* What is in the buffer follows from who held the display last, so the    *)
(* invariant says of every place of the tick who that can be.              *)
(***************************************************************************)
EXTENDS ClockFace, WellFoundedInduction, TLAPS

-----------------------------------------------------------------------------
(* The inductive invariant *)

\* The clock as every call leaves it, wherever in the tick it is made.
OneShows(c) == \A o, p \in Overlays : c.state[o] = "show" /\ c.state[p] = "show" => o = p
NothingRunsUnderAShow(c) == IsShow(c) => ~c.running
OnlyAShowScrolls(c) == c.text = "shift" => IsShow(c)
FixedIsTheSelected(c) == c.mode = "fixed" => c.current = c.selected
SomethingRuns(c) == c.running => c.current # "none"
RunsToTheWords(c) == c.running => c.target = c.words
NothingRunsAfterAShow(c) == c.wasShowing => ~c.running

Kept(c) ==
  /\ c \in FaceStates
  /\ OneShows(c)
  /\ NothingRunsUnderAShow(c)
  /\ OnlyAShowScrolls(c)
  /\ FixedIsTheSelected(c)
  /\ SomethingRuns(c)
  /\ RunsToTheWords(c)
  /\ NothingRunsAfterAShow(c)

\* DisplayManager has looked in this tick: it knows of the show, and drew the words of the time
\* or set them off.
DisplayManagerKnows ==
  phase \in {"animations", "command"} =>
    /\ f.wasShowing <=> IsShow(f)
    /\ ~IsShow(f) => f.words = minute

\* The timer and the seconds that are over make up the endurance of the show.
TimerCountsTheShow ==
  \A o \in Overlays : f.state[o] = "show" => f.timer > 0 /\ f.timer + seen = Endurance[o]

\* The face stands where nobody has the display, no show has just ended and no hand drew.
FaceStands ==
  ~IsShow(f) /\ ~f.wasShowing /\ ~f.running /\ ~disturbed /\ f.words # NoWords
    => f.picture = Face(f.words)

FaceInv == TypeOK /\ Kept(f) /\ DisplayManagerKnows /\ TimerCountsTheShow

-----------------------------------------------------------------------------
(* Animations *)

\* A call leaves the overlays as they are, and the words and the picture.
SameOverlays(c, d) ==
  d.state = c.state /\ d.text = c.text /\ d.timer = c.timer /\ d.wasShowing = c.wasShowing

SameFace(c, d) == d.words = c.words /\ d.picture = c.picture

LEMMA FaceFields ==
  ASSUME NEW c \in FaceStates
  PROVE  /\ c.state \in [Overlays -> OverlayStates] /\ c.timer \in Shows
         /\ c.lastSecond \in 0 .. SecondsPerMinute /\ c.text \in {"idle", "shift"}
         /\ c.selected \in Animations /\ c.current \in Animations
         /\ c.mode \in {"fixed", "sequence"} /\ c.running \in BOOLEAN
         /\ c.target \in 0 .. Minutes - 1 /\ c.words \in 0 .. Minutes
         /\ c.wasShowing \in BOOLEAN /\ c.picture \in Pictures
BY DEF FaceStates

LEMMA SameShows ==
  ASSUME NEW c, NEW d, SameOverlays(c, d)
  PROVE  IsShow(d) <=> IsShow(c)
BY DEF SameOverlays, IsShow

LEMMA SwitchKeeps ==
  ASSUME NEW c, Kept(c), NEW id \in Animations, c.mode = "fixed" => id = c.selected
  PROVE  LET d == SwitchCurrentAnimation(c, id)
         IN  /\ Kept(d) /\ SameOverlays(c, d) /\ SameFace(c, d)
             /\ ~d.running /\ d.current = id /\ d.mode = c.mode /\ d.selected = c.selected
<1> DEFINE d == SwitchCurrentAnimation(c, id)
<1>1. c \in FaceStates
  BY DEF Kept
<1>2. d = [c EXCEPT !.running = FALSE, !.current = id]
  BY <1>1 DEF SwitchCurrentAnimation, InitCurrentAnimation, FaceStates
<1>3. d \in FaceStates
  BY <1>1, <1>2 DEF FaceStates
<1>4. SameOverlays(c, d) /\ SameFace(c, d) /\ ~d.running /\ d.current = id
      /\ d.mode = c.mode /\ d.selected = c.selected
  BY <1>1, <1>2 DEF FaceStates, SameOverlays, SameFace
<1> HIDE DEF d
<1>5. Kept(d)
  BY <1>3, <1>4, SameShows DEF Kept, OneShows, NothingRunsUnderAShow, OnlyAShowScrolls, SameOverlays,
     FixedIsTheSelected, SomethingRuns, RunsToTheWords, NothingRunsAfterAShow
<1> QED BY <1>4, <1>5 DEF d

LEMMA InitKeeps ==
  ASSUME NEW c, Kept(c)
  PROVE  LET d == InitCurrentAnimation(c)
         IN  /\ Kept(d) /\ SameOverlays(c, d) /\ SameFace(c, d)
             /\ ~d.running /\ d.current = c.current /\ d.mode = c.mode /\ d.selected = c.selected
<1>1. c \in FaceStates /\ c.current \in Animations
  BY FaceFields DEF Kept
<1>2. c.mode = "fixed" => c.current = c.selected
  BY DEF Kept, FixedIsTheSelected
<1>3. SwitchCurrentAnimation(c, c.current) = InitCurrentAnimation(c)
  BY <1>1 DEF SwitchCurrentAnimation, InitCurrentAnimation, FaceStates
<1> QED BY <1>1, <1>2, <1>3, SwitchKeeps

LEMMA SetAnimationKeeps ==
  ASSUME NEW c, Kept(c), NEW id \in Animations
  PROVE  LET d == SetAnimation(c, id)
         IN  Kept(d) /\ SameOverlays(c, d) /\ SameFace(c, d) /\ ~d.running /\ d.mode = c.mode
<1> DEFINE d == SetAnimation(c, id)
<1>1. c \in FaceStates
  BY DEF Kept
<1>2. d = [c EXCEPT !.selected = id, !.running = FALSE, !.current = id]
  BY <1>1 DEF SetAnimation, SwitchCurrentAnimation, InitCurrentAnimation, FaceStates
<1>3. d \in FaceStates
  BY <1>1, <1>2 DEF FaceStates
<1>4. /\ SameOverlays(c, d) /\ SameFace(c, d) /\ ~d.running /\ d.current = id /\ d.selected = id
      /\ d.mode = c.mode
  BY <1>1, <1>2 DEF FaceStates, SameOverlays, SameFace
<1> HIDE DEF d
<1>5. Kept(d)
  BY <1>3, <1>4, SameShows DEF Kept, OneShows, NothingRunsUnderAShow, OnlyAShowScrolls, SameOverlays,
     FixedIsTheSelected, SomethingRuns, RunsToTheWords, NothingRunsAfterAShow
<1> QED BY <1>4, <1>5 DEF d

LEMMA SetModeKeeps ==
  ASSUME NEW c, Kept(c), NEW mode \in {"fixed", "sequence"}
  PROVE  LET d == SetMode(c, mode)
         IN  Kept(d) /\ SameOverlays(c, d) /\ SameFace(c, d) /\ (d.running => c.running)
<1> DEFINE set == [c EXCEPT !.mode = mode]
           d   == SetMode(c, mode)
<1>1. c \in FaceStates
  BY DEF Kept
<1>2. CASE mode = "fixed"
  <2> DEFINE e == [c EXCEPT !.mode = mode, !.running = FALSE, !.current = c.selected]
  <2>1. c.selected \in Animations
    BY <1>1, FaceFields
  <2>2. d = e
    BY <1>1, <1>2 DEF SetMode, SwitchCurrentAnimation, InitCurrentAnimation, FaceStates
  <2>3. e \in FaceStates
    BY <1>1, <2>1 DEF FaceStates
  <2>4. /\ SameOverlays(c, e) /\ SameFace(c, e) /\ ~e.running /\ e.current = c.selected
        /\ e.selected = c.selected
    BY <1>1 DEF FaceStates, SameOverlays, SameFace
  <2> HIDE DEF e
  <2>5. Kept(e)
    BY <2>3, <2>4, SameShows DEF Kept, OneShows, NothingRunsUnderAShow, OnlyAShowScrolls, SameOverlays,
       FixedIsTheSelected, SomethingRuns, RunsToTheWords, NothingRunsAfterAShow
  <2> QED BY <2>2, <2>4, <2>5
<1>3. CASE mode = "sequence"
  <2>1. d = set
    BY <1>3 DEF SetMode
  <2>2. set \in FaceStates
    BY <1>1 DEF FaceStates
  <2>3. /\ SameOverlays(c, set) /\ SameFace(c, set) /\ set.running = c.running /\ set.mode = "sequence"
        /\ set.target = c.target /\ set.current = c.current
    BY <1>1, <1>3 DEF FaceStates, SameOverlays, SameFace
  <2> HIDE DEF set
  <2>4. Kept(set)
    BY <2>2, <2>3, SameShows DEF Kept, OneShows, NothingRunsUnderAShow, OnlyAShowScrolls, SameOverlays,
       FixedIsTheSelected, SomethingRuns, RunsToTheWords, NothingRunsAfterAShow, SameFace
  <2> QED BY <2>1, <2>3, <2>4
<1> QED BY <1>2, <1>3

\* The words are set off: something runs to them, or they are lit over what is lit.
LEMMA SetTimeKeeps ==
  ASSUME NEW c, Kept(c), ~IsShow(c), ~c.wasShowing, NEW words \in 0 .. Minutes - 1
  PROVE  LET d == SetTime([c EXCEPT !.words = words], words)
         IN  /\ Kept(d) /\ SameOverlays(c, d) /\ d.words = words
             /\ d.running \/ d.picture \in {Face(words), Foreign}
             /\ c.mode = "sequence" \/ c.selected # "none" => d.running
<1> DEFINE told == [c EXCEPT !.words = words]
           s    == IF told.running THEN told ELSE SelectForRun(told)
           d    == SetTime(told, words)
<1>1. c \in FaceStates
  BY DEF Kept
<1>2. words \in 0 .. Minutes
  BY ClockFaceAssumption DEF ClockFaceAssumption
<1>3. told \in FaceStates
  BY <1>1, <1>2 DEF FaceStates
<1>4. /\ SameOverlays(c, told) /\ told.words = words /\ told.picture = c.picture
      /\ told.running = c.running /\ told.mode = c.mode /\ told.selected = c.selected
      /\ told.current = c.current
  BY <1>1 DEF FaceStates, SameOverlays
<1> HIDE DEF told
<1>5. /\ s \in FaceStates /\ SameOverlays(c, s) /\ s.words = words
      /\ s.mode = c.mode /\ s.selected = c.selected
      /\ s.current = "none" => c.mode = "fixed" /\ c.selected = "none" /\ ~s.running
      /\ s.mode = "fixed" => s.current = s.selected
  <2>1. CASE c.running
    BY <1>3, <1>4, <2>1 DEF Kept, SomethingRuns, FixedIsTheSelected
  <2>2. CASE ~c.running /\ c.mode = "fixed"
    <3>1. s = [told EXCEPT !.running = FALSE]
      BY <1>4, <2>2 DEF SelectForRun, InitCurrentAnimation
    <3>2. s \in FaceStates /\ SameOverlays(told, s) /\ s.words = told.words /\ s.mode = told.mode
          /\ s.selected = told.selected /\ s.current = told.current /\ ~s.running
      BY <1>3, <3>1 DEF FaceStates, SameOverlays
    <3>3. c.current = c.selected
      BY <2>2 DEF Kept, FixedIsTheSelected
    <3> QED BY <1>4, <2>2, <3>2, <3>3 DEF SameOverlays
  <2>3. CASE ~c.running /\ c.mode = "sequence"
    <3>1. s = [told EXCEPT !.running = FALSE, !.current = "animation"]
      BY <1>3, <1>4, <2>3 DEF SelectForRun, SwitchCurrentAnimation, InitCurrentAnimation, FaceStates
    <3>2. s \in FaceStates /\ SameOverlays(told, s) /\ s.words = told.words /\ s.mode = told.mode
          /\ s.selected = told.selected /\ s.current = "animation"
      BY <1>3, <3>1 DEF FaceStates, SameOverlays, Animations
    <3> QED BY <1>4, <2>3, <3>2 DEF SameOverlays
  <2> QED BY <1>1, <2>1, <2>2, <2>3, FaceFields
<1> HIDE DEF s
<1>6. CASE s.current # "none"
  <2> DEFINE e == [s EXCEPT !.running = TRUE, !.target = words]
  <2>1. d = e
    BY <1>6 DEF SetTime, s
  <2>2. /\ e \in FaceStates /\ SameOverlays(s, e) /\ e.words = s.words /\ e.running /\ e.target = words
        /\ e.mode = s.mode /\ e.selected = s.selected /\ e.current = s.current
    BY <1>5 DEF FaceStates, SameOverlays
  <2> HIDE DEF e
  <2>3. SameOverlays(c, e) /\ e.words = words
    BY <1>5, <2>2 DEF SameOverlays
  <2>4. Kept(e)
    BY <1>5, <1>6, <2>2, <2>3, SameShows DEF Kept, OneShows, NothingRunsUnderAShow, OnlyAShowScrolls,
       SameOverlays, FixedIsTheSelected, SomethingRuns, RunsToTheWords, NothingRunsAfterAShow
  <2> QED BY <2>1, <2>2, <2>3, <2>4 DEF told
<1>7. CASE s.current = "none"
  <2> DEFINE e == [s EXCEPT !.picture = IF @ = Face(words) THEN @ ELSE Foreign]
  <2>1. d = e
    BY <1>7 DEF SetTime, s
  <2>2. Face(words) \in Pictures /\ Foreign \in Pictures
    BY DEF Pictures
  <2>3. /\ e \in FaceStates /\ SameOverlays(s, e) /\ e.words = s.words /\ e.running = s.running
        /\ e.mode = s.mode /\ e.selected = s.selected /\ e.current = s.current
        /\ e.picture \in {Face(words), Foreign}
    BY <1>5, <2>2 DEF FaceStates, SameOverlays
  <2> HIDE DEF e
  <2>4. SameOverlays(c, e) /\ e.words = words /\ ~e.running
    BY <1>5, <1>7, <2>3 DEF SameOverlays
  <2>5. Kept(e)
    BY <1>5, <2>3, <2>4, SameShows DEF Kept, OneShows, NothingRunsUnderAShow, OnlyAShowScrolls,
       SameOverlays, FixedIsTheSelected, SomethingRuns, RunsToTheWords, NothingRunsAfterAShow
  <2>6. c.mode = "fixed" /\ c.selected = "none"
    BY <1>5, <1>7
  <2> QED BY <2>1, <2>3, <2>4, <2>5, <2>6 DEF told
<1> QED BY <1>6, <1>7

-----------------------------------------------------------------------------
(* Overlays *)

\* A call leaves the animations as they are, and the words and the picture.
SameAnimation(c, d) ==
  /\ d.selected = c.selected /\ d.current = c.current /\ d.mode = c.mode /\ d.running = c.running
  /\ d.target = c.target /\ d.wasShowing = c.wasShowing
  /\ SameFace(c, d)

\* Of the overlays that are due one comes first.
LEMMA SomeFirst ==
  ASSUME NEW due, due \subseteq Nat, due # {}
  PROVE  \E first \in due : \A i \in due : first <= i
<1>1. IsWellFoundedOn(OpToRel(<, Nat), Nat)
  BY NatLessThanWellFounded
<1>2. PICK first \in due : \A i \in due : << i, first >> \notin OpToRel(<, Nat)
  BY <1>1, WFMin
<1>3. ASSUME NEW i \in due PROVE first <= i
  <2>1. ~(i < first)
    BY <1>2 DEF OpToRel
  <2> QED BY <2>1
<1> QED BY <1>3

\* An overlay that shows is one of those that are built in.
LEMMA OrderIsOfOverlays ==
  /\ DOMAIN Order \subseteq Nat
  /\ \A i \in DOMAIN Order : Order[i] \in Overlays
  /\ \A o \in Overlays : \E i \in DOMAIN Order : Order[i] = o
BY ClockFaceAssumption DEF ClockFaceAssumption, Overlays, Range

LEMMA EnduranceIsALength ==
  ASSUME NEW o \in Overlays
  PROVE  Endurance[o] \in Nat \ {0} /\ Endurance[o] \in Shows
BY ClockFaceAssumption DEF ClockFaceAssumption, Shows

LEMMA ShowsAreShorter ==
  ASSUME NEW n \in Shows
  PROVE  n \in Nat /\ (n > 0 => n - 1 \in Shows) /\ 0 \in Shows
BY ClockFaceAssumption DEF ClockFaceAssumption, Shows

\* A call that moves only the overlays keeps the clock, if none shows that did not before and
\* the letters stop with the last show.
LEMMA MovedKeeps ==
  ASSUME NEW c, Kept(c), NEW d \in FaceStates, SameAnimation(c, d), OneShows(d), OnlyAShowScrolls(d),
         IsShow(d) => IsShow(c)
  PROVE  Kept(d)
BY DEF Kept, SameAnimation, SameFace, NothingRunsUnderAShow, FixedIsTheSelected, SomethingRuns,
       RunsToTheWords, NothingRunsAfterAShow

LEMMA StartKeeps ==
  ASSUME NEW c, Kept(c), ~IsShow(c), NEW o \in Overlays
  PROVE  LET d == AbortAnimation(SetStateToShow(c, o))
         IN  /\ Kept(d) /\ SameFace(c, d) /\ d.wasShowing = c.wasShowing /\ IsShow(d)
             /\ d.state[o] = "show" /\ d.timer = Endurance[o]
             /\ \A p \in Overlays : d.state[p] = "show" => p = o
<1> DEFINE d == [c EXCEPT !.state[o] = "show", !.text = "shift", !.timer = Endurance[o],
                          !.running = FALSE]
<1>1. c \in FaceStates /\ c.state \in [Overlays -> OverlayStates]
  BY FaceFields DEF Kept
<1>2. AbortAnimation(SetStateToShow(c, o)) = d
  BY <1>1 DEF AbortAnimation, InitCurrentAnimation, SetStateToShow, FaceStates
<1>3. d \in FaceStates
  BY <1>1, EnduranceIsALength DEF FaceStates, OverlayStates
<1>4. /\ d.state = [c.state EXCEPT ![o] = "show"] /\ ~d.running /\ SameFace(c, d)
      /\ d.wasShowing = c.wasShowing /\ d.timer = Endurance[o]
      /\ d.selected = c.selected /\ d.current = c.current /\ d.mode = c.mode
  BY <1>1 DEF FaceStates, SameFace
<1> HIDE DEF d
<1>5. /\ d.state[o] = "show"
      /\ \A p \in Overlays : d.state[p] = "show" => p = o
  BY <1>1, <1>4 DEF IsShow
<1>6. IsShow(d)
  BY <1>5 DEF IsShow
<1>7. Kept(d)
  BY <1>3, <1>4, <1>5, <1>6 DEF Kept, OneShows, NothingRunsUnderAShow, OnlyAShowScrolls,
     FixedIsTheSelected, SomethingRuns, RunsToTheWords, NothingRunsAfterAShow
<1> QED BY <1>2, <1>4, <1>5, <1>6, <1>7

\* A call that ends a show and starts none.
Ends(c, d) ==
  /\ Kept(d) /\ SameAnimation(c, d)
  /\ \A o \in Overlays : d.state[o] = "show" => c.state[o] = "show" /\ d.timer = c.timer

LEMMA SetIsActiveKeeps ==
  ASSUME NEW c, Kept(c), NEW o \in Overlays, NEW isActive \in BOOLEAN
  PROVE  Ends(c, SetIsActive(c, o, isActive))
<1> DEFINE text  == IF ~isActive /\ c.state[o] = "show" THEN "idle" ELSE c.text
           state == IF ~isActive THEN "disabled" ELSE IF c.state[o] = "disabled" THEN "idle" ELSE c.state[o]
           d     == [c EXCEPT !.state[o] = state, !.text = text]
<1>1. c \in FaceStates /\ c.state \in [Overlays -> OverlayStates] /\ c.text \in {"idle", "shift"}
  BY FaceFields DEF Kept
<1>2. SetIsActive(c, o, isActive) = d
  BY <1>1 DEF SetIsActive, SetStateToIdle, FaceStates
<1>3. state \in OverlayStates /\ text \in {"idle", "shift"}
  BY <1>1 DEF OverlayStates
<1>4. d \in FaceStates
  BY <1>1, <1>3 DEF FaceStates
<1>5. d.state = [c.state EXCEPT ![o] = state] /\ d.text = text /\ d.timer = c.timer /\ SameAnimation(c, d)
  BY <1>1 DEF FaceStates, SameAnimation, SameFace
<1> HIDE DEF d
<1>6. \A p \in Overlays : d.state[p] = IF p = o THEN state ELSE c.state[p]
  BY <1>1, <1>5
<1>7. /\ \A p \in Overlays : d.state[p] = "show" => c.state[p] = "show"
      /\ c.state[o] = "show" /\ isActive => state = "show"
  BY <1>6
<1>8. OneShows(d) /\ (IsShow(d) => IsShow(c))
  BY <1>7 DEF Kept, OneShows, IsShow
<1>9. OnlyAShowScrolls(d)
  <2> SUFFICES ASSUME d.text = "shift" PROVE IsShow(d)
    BY DEF OnlyAShowScrolls
  <2>1. c.text = "shift" /\ (isActive \/ c.state[o] # "show")
    BY <1>5
  <2>2. PICK p \in Overlays : c.state[p] = "show"
    BY <2>1 DEF Kept, OnlyAShowScrolls, IsShow
  <2>3. d.state[p] = "show"
    BY <1>6, <1>7, <2>1, <2>2
  <2> QED BY <2>3 DEF IsShow
<1>10. Kept(d)
  BY <1>4, <1>5, <1>8, <1>9, MovedKeeps
<1> QED BY <1>2, <1>5, <1>7, <1>10 DEF Ends

\* Once nothing shows and nothing scrolls a call has ended the show.
LEMMA AllEndedKeeps ==
  ASSUME NEW c, Kept(c), NEW d \in FaceStates, SameAnimation(c, d), d.text = "idle" \/ d.text = c.text,
         IsShow(c) => d.text = "idle",
         \A o \in Overlays : d.state[o] # "show"
  PROVE  Ends(c, d) /\ ~IsShow(d)
<1>1. ~IsShow(d) /\ OneShows(d) /\ d.text # "shift"
  BY DEF IsShow, OneShows, Kept, OnlyAShowScrolls
<1>2. Kept(d)
  BY <1>1, MovedKeeps DEF OnlyAShowScrolls
<1> QED BY <1>1, <1>2 DEF Ends

LEMMA NothingEnds == ASSUME NEW c, Kept(c) PROVE Ends(c, c)
BY DEF Ends, SameAnimation, SameFace

LEMMA AbortKeeps ==
  ASSUME NEW c, Kept(c)
  PROVE  Ends(c, Abort(c))
<1> DEFINE state == [o \in Overlays |-> IF c.state[o] = "show" THEN "idle" ELSE c.state[o]]
           d     == [c EXCEPT !.state = state, !.text = "idle", !.timer = 0]
<1>1. c \in FaceStates /\ c.state \in [Overlays -> OverlayStates] /\ c.timer \in Shows
  BY FaceFields DEF Kept
<1>2. CASE ~IsShow(c)
  BY <1>2, NothingEnds DEF Abort
<1>3. CASE IsShow(c)
  <2>1. Abort(c) = d
    BY <1>3 DEF Abort
  <2>2. state \in [Overlays -> OverlayStates] /\ \A o \in Overlays : state[o] # "show"
    BY <1>1 DEF OverlayStates
  <2>3. 0 \in Shows
    BY <1>1, ShowsAreShorter
  <2> HIDE DEF state
  <2>4. d \in FaceStates /\ d.state = state /\ d.text = "idle" /\ SameAnimation(c, d)
    BY <1>1, <2>2, <2>3 DEF FaceStates, SameAnimation, SameFace
  <2> QED BY <2>1, <2>2, <2>4, AllEndedKeeps
<1> QED BY <1>2, <1>3

LEMMA ResetKeeps ==
  ASSUME NEW c, Kept(c)
  PROVE  Ends(c, OverlaysReset(c)) /\ ~IsShow(OverlaysReset(c))
<1> DEFINE state == [o \in Overlays |-> "disabled"]
           text  == IF IsShow(c) THEN "idle" ELSE c.text
           d     == [c EXCEPT !.state = state, !.text = text]
<1>1. c \in FaceStates /\ c.state \in [Overlays -> OverlayStates] /\ c.text \in {"idle", "shift"}
  BY FaceFields DEF Kept
<1>2. OverlaysReset(c) = d
  BY <1>1 DEF OverlaysReset, FaceStates
<1>3. /\ state \in [Overlays -> OverlayStates] /\ \A o \in Overlays : state[o] # "show"
      /\ text \in {"idle", "shift"} /\ (IsShow(c) => text = "idle") /\ text \in {"idle", c.text}
  BY <1>1 DEF OverlayStates
<1> HIDE DEF state, text
<1>4. d \in FaceStates /\ d.state = state /\ d.text = text /\ SameAnimation(c, d)
  BY <1>1, <1>3 DEF FaceStates, SameAnimation, SameFace
<1> QED BY <1>2, <1>3, <1>4, AllEndedKeeps

-----------------------------------------------------------------------------
(* A second of the overlays *)

\* The show that runs goes on, a second shorter, or is over.
LEMMA TaskShowKeeps ==
  ASSUME NEW c, Kept(c), IsShow(c), c.timer > 0
  PROVE  LET d == TaskShow(c)
         IN  /\ Kept(d) /\ SameAnimation(c, d)
             /\ IF c.timer = 1 THEN ~IsShow(d) ELSE d.state = c.state /\ d.timer = c.timer - 1
<1> DEFINE o == CHOOSE p \in Overlays : c.state[p] = "show"
           d == TaskShow(c)
<1>1. c \in FaceStates /\ c.state \in [Overlays -> OverlayStates] /\ c.timer \in Shows
  BY FaceFields DEF Kept
<1>2. o \in Overlays /\ c.state[o] = "show"
  BY DEF IsShow
<1>3. \A p \in Overlays : c.state[p] = "show" => p = o
  BY <1>2 DEF Kept, OneShows
<1> HIDE DEF o
<1>4. /\ c.timer \in Nat /\ c.timer - 1 \in Shows /\ c.timer - 1 \in Nat
      /\ (c.timer - 1 = 0 <=> c.timer = 1)
  BY <1>1, ShowsAreShorter
<1>5. d = ShowTask(c, o)
  BY DEF TaskShow, o
<1> HIDE DEF d
<1>6. PICK left \in Shows : left = c.timer - 1
  BY <1>4
<1>7. CASE c.timer = 1
  <2> DEFINE state == [c.state EXCEPT ![o] = "idle"]
             e     == [c EXCEPT !.state = state, !.text = "idle", !.timer = left]
  <2>1. left = 0
    BY <1>6, <1>7
  <2>2. d = e
    BY <1>1, <1>5, <1>6, <1>7, <2>1 DEF ShowTask, SetStateToIdle, FaceStates
  <2>3. state \in [Overlays -> OverlayStates] /\ \A p \in Overlays : state[p] # "show"
    BY <1>1, <1>2, <1>3 DEF OverlayStates
  <2> HIDE DEF state
  <2>4. e \in FaceStates /\ e.state = state /\ e.text = "idle" /\ SameAnimation(c, e)
    BY <1>1, <2>3 DEF FaceStates, SameAnimation, SameFace
  <2> HIDE DEF e
  <2>5. Ends(c, e) /\ ~IsShow(e)
    BY <2>3, <2>4, AllEndedKeeps
  <2> QED BY <1>7, <2>2, <2>5 DEF Ends, d
<1>8. CASE c.timer # 1
  <2> DEFINE e == [c EXCEPT !.text = "shift", !.timer = left]
  <2>1. left # 0
    BY <1>4, <1>6, <1>8
  <2>2. d = e
    BY <1>5, <1>6, <2>1 DEF ShowTask
  <2>3. e \in FaceStates /\ e.state = c.state /\ e.timer = left /\ SameAnimation(c, e)
    BY <1>1 DEF FaceStates, SameAnimation, SameFace
  <2> HIDE DEF e
  <2>4. OneShows(e) /\ IsShow(e)
    BY <2>3 DEF Kept, OneShows, IsShow
  <2>5. Kept(e)
    BY <2>3, <2>4, MovedKeeps DEF OnlyAShowScrolls
  <2> QED BY <1>6, <1>8, <2>2, <2>3, <2>5 DEF d
<1> QED BY <1>7, <1>8

\* None shows: either the timer is put back and nothing else, as none is due, or one starts.
LEMMA OverlaysStart ==
  ASSUME NEW c, Kept(c), ~IsShow(c), NEW isReady, NEW s \in Seconds, NEW m, c.lastSecond # s
  PROVE  LET d == OverlaysTask(c, isReady, s, m)
         IN  /\ Kept(d) /\ SameFace(c, d) /\ d.wasShowing = c.wasShowing
             /\ IF Due(c, isReady, s, m) = {} THEN ~IsShow(d) /\ SameAnimation(c, d)
                ELSE IsShow(d) /\ \A o \in Overlays : d.state[o] = "show" => d.timer = Endurance[o]
<1> DEFINE rested == [c EXCEPT !.lastSecond = s, !.timer = 0]
           due == Due(c, isReady, s, m)
           first == CHOOSE i \in due : \A j \in due : i <= j
           d == OverlaysTask(c, isReady, s, m)
<1>1. c \in FaceStates /\ c.state \in [Overlays -> OverlayStates] /\ 0 \in Shows
  BY FaceFields, ShowsAreShorter DEF Kept
<1>2. s \in 0 .. SecondsPerMinute
  BY ClockFaceAssumption DEF Seconds, ClockFaceAssumption
<1>3. rested \in FaceStates
  BY <1>1, <1>2 DEF FaceStates
<1>4. SameAnimation(c, rested) /\ rested.state = c.state /\ rested.text = c.text /\ rested.timer = 0
  BY <1>1 DEF FaceStates, SameAnimation, SameFace
<1>5. d = LET e == TaskIdle(rested, isReady, s, m) IN IF IsShow(e) THEN AbortAnimation(e) ELSE e
  BY DEF OverlaysTask
<1> HIDE DEF rested, d
<1>6. ~IsShow(rested) /\ OneShows(rested) /\ (OnlyAShowScrolls(c) => OnlyAShowScrolls(rested))
  BY <1>4 DEF IsShow, OneShows, OnlyAShowScrolls
<1>7. Kept(rested)
  BY <1>3, <1>4, <1>6, MovedKeeps DEF Kept
<1>8. Due(rested, isReady, s, m) = due
  BY <1>4 DEF Due
<1> HIDE DEF due
<1>9. CASE due = {}
  <2>1. TaskIdle(rested, isReady, s, m) = rested
    BY <1>8, <1>9 DEF TaskIdle
  <2> QED BY <1>4, <1>5, <1>6, <1>7, <1>9, <2>1 DEF SameAnimation, due, d
<1>10. CASE due # {}
  <2>1. due \subseteq DOMAIN Order
    BY DEF due, Due
  <2>2. first \in due
    BY <1>10, <2>1, OrderIsOfOverlays, SomeFirst
  <2>3. Order[first] \in Overlays
    BY <2>1, <2>2, OrderIsOfOverlays
  <2>4. TaskIdle(rested, isReady, s, m) = SetStateToShow(rested, Order[first])
    BY <1>4, <1>8, <1>10 DEF TaskIdle
  <2> HIDE DEF first
  <2> DEFINE e == SetStateToShow(rested, Order[first])
  <2>5. /\ Kept(AbortAnimation(e)) /\ SameFace(rested, AbortAnimation(e))
        /\ AbortAnimation(e).wasShowing = rested.wasShowing /\ IsShow(AbortAnimation(e))
        /\ AbortAnimation(e).state[Order[first]] = "show"
        /\ AbortAnimation(e).timer = Endurance[Order[first]]
        /\ \A p \in Overlays : AbortAnimation(e).state[p] = "show" => p = Order[first]
    BY <1>6, <1>7, <2>3, StartKeeps
  <2>6. e.state[Order[first]] = "show"
    BY <1>3, <2>3 DEF SetStateToShow, FaceStates
  <2>7. IsShow(e)
    BY <2>3, <2>6 DEF IsShow
  <2>8. d = AbortAnimation(e)
    BY <1>5, <2>4, <2>7
  <2> HIDE DEF e
  <2>9. SameFace(c, d) /\ d.wasShowing = c.wasShowing
    BY <1>4, <2>5, <2>8 DEF SameAnimation, SameFace
  <2>10. \A p \in Overlays : d.state[p] = "show" => d.timer = Endurance[p]
    BY <2>5, <2>8
  <2> QED BY <1>10, <2>5, <2>8, <2>9, <2>10 DEF due, d
<1> QED BY <1>9, <1>10

-----------------------------------------------------------------------------
(* DisplayManager *)

\* The words of the time are drawn at once; what runs, runs to them.
LEMMA ShowClockKeeps ==
  ASSUME NEW c, Kept(c), NEW m \in 0 .. Minutes - 1, ~c.running \/ c.words = m
  PROVE  LET d == ShowClock([c EXCEPT !.words = m], m)
         IN  /\ Kept(d) /\ SameOverlays(c, d) /\ d.running = c.running /\ d.words = m /\ d.picture = Face(m)
<1> DEFINE d == [c EXCEPT !.words = m, !.picture = Face(m)]
<1>1. c \in FaceStates /\ m \in 0 .. Minutes /\ Face(m) \in Pictures
  BY ClockFaceAssumption DEF Kept, ClockFaceAssumption, Pictures
<1>2. ShowClock([c EXCEPT !.words = m], m) = d
  BY <1>1 DEF ShowClock, FaceStates
<1>3. /\ d \in FaceStates /\ SameOverlays(c, d) /\ d.running = c.running /\ d.words = m
      /\ d.picture = Face(m) /\ d.selected = c.selected /\ d.current = c.current /\ d.mode = c.mode
      /\ d.target = c.target
  BY <1>1 DEF FaceStates, SameOverlays
<1> HIDE DEF d
<1>4. Kept(d)
  BY <1>3, SameShows DEF Kept, OneShows, NothingRunsUnderAShow, OnlyAShowScrolls, SameOverlays,
     FixedIsTheSelected, SomethingRuns, RunsToTheWords, NothingRunsAfterAShow
<1> QED BY <1>2, <1>3, <1>4

\* After its task DisplayManager knows of a show, and the words of the time stand, run or stay
\* what a hand left.
LEMMA DisplayManagerKeeps ==
  ASSUME NEW c, Kept(c), NEW m \in 0 .. Minutes - 1
  PROVE  LET d == DisplayManagerTask(c, m)
         IN  /\ Kept(d) /\ d.state = c.state /\ d.timer = c.timer
             /\ d.wasShowing <=> IsShow(d)
             /\ ~IsShow(d) => d.words = m
             /\ ~IsShow(d) /\ ~d.running =>
                  \/ d.picture = Face(m)
                  \/ c.words = m /\ ~c.running /\ ~c.wasShowing /\ d.picture = c.picture
<1> DEFINE d == DisplayManagerTask(c, m)
<1>0. c \in FaceStates /\ c.running \in BOOLEAN /\ c.wasShowing \in BOOLEAN
      /\ c.mode \in {"fixed", "sequence"}
  BY FaceFields DEF Kept
<1>1. CASE IsShow(c)
  <2> DEFINE e == [c EXCEPT !.wasShowing = TRUE]
  <2>1. d = e
    BY <1>1 DEF DisplayManagerTask
  <2>2. /\ e \in FaceStates /\ e.state = c.state /\ e.timer = c.timer /\ e.wasShowing
        /\ e.running = c.running /\ e.text = c.text /\ e.target = c.target /\ e.words = c.words
        /\ e.selected = c.selected /\ e.current = c.current /\ e.mode = c.mode
    BY <1>0 DEF FaceStates
  <2> HIDE DEF e
  <2>3. IsShow(e)
    BY <1>1, <2>2 DEF IsShow
  <2>4. Kept(e)
    BY <1>1, <2>2, <2>3 DEF Kept, OneShows, NothingRunsUnderAShow, OnlyAShowScrolls,
       FixedIsTheSelected, SomethingRuns, RunsToTheWords, NothingRunsAfterAShow
  <2> QED BY <2>1, <2>2, <2>3, <2>4
<1>2. CASE ~IsShow(c) /\ c.wasShowing
  <2> DEFINE seenOff == [c EXCEPT !.wasShowing = FALSE]
             e       == ShowClock([seenOff EXCEPT !.words = m], m)
  <2>1. d = e
    BY <1>0, <1>2 DEF DisplayManagerTask, FaceStates
  <2>2. /\ seenOff \in FaceStates
        /\ seenOff.state = c.state /\ seenOff.timer = c.timer /\ ~seenOff.wasShowing
        /\ seenOff.running = c.running /\ seenOff.text = c.text /\ seenOff.target = c.target
        /\ seenOff.words = c.words /\ seenOff.selected = c.selected /\ seenOff.current = c.current
        /\ seenOff.mode = c.mode
    BY <1>0 DEF FaceStates
  <2> HIDE DEF seenOff
  <2>3. ~seenOff.running /\ ~IsShow(seenOff)
    BY <1>2, <2>2 DEF Kept, NothingRunsAfterAShow, IsShow
  <2>4. Kept(seenOff)
    BY <1>2, <2>2, <2>3 DEF Kept, OneShows, NothingRunsUnderAShow, OnlyAShowScrolls, IsShow,
       FixedIsTheSelected, SomethingRuns, RunsToTheWords, NothingRunsAfterAShow
  <2>5. Kept(e) /\ SameOverlays(seenOff, e) /\ e.words = m /\ e.picture = Face(m)
    BY <2>3, <2>4, ShowClockKeeps
  <2> HIDE DEF e
  <2>6. ~IsShow(e) /\ e.state = c.state /\ e.timer = c.timer /\ ~e.wasShowing
    BY <2>2, <2>3, <2>5, SameShows DEF SameOverlays
  <2> QED BY <2>1, <2>5, <2>6
<1>3. CASE ~IsShow(c) /\ ~c.wasShowing /\ c.words = m
  <2>1. d = c
    BY <1>3 DEF DisplayManagerTask
  <2> QED BY <1>3, <2>1
<1>4. CASE ~IsShow(c) /\ ~c.wasShowing /\ c.words # m
  <2> DEFINE told == [c EXCEPT !.words = m]
  <2>1. d = TaskClockWordsChange(told, m)
    BY <1>4 DEF DisplayManagerTask
  <2>2. told.mode = c.mode /\ told.selected = c.selected
    BY <1>0 DEF FaceStates
  <2>3. CASE c.mode = "fixed" /\ c.selected = "none"
    <3>1. d = ShowClock(told, m)
      BY <2>1, <2>2, <2>3 DEF TaskClockWordsChange
    <3>2. ~c.running
      BY <2>3 DEF Kept, FixedIsTheSelected, SomethingRuns
    <3>3. Kept(d) /\ SameOverlays(c, d) /\ ~d.running /\ d.words = m /\ d.picture = Face(m)
      BY <3>1, <3>2, ShowClockKeeps
    <3> HIDE DEF d
    <3> QED BY <1>0, <1>4, <3>3, SameShows DEF SameOverlays, d
  <2>4. CASE ~(c.mode = "fixed" /\ c.selected = "none")
    <3>1. d = SetTime(told, m)
      BY <2>1, <2>2, <2>4 DEF TaskClockWordsChange
    <3>2. Kept(d) /\ SameOverlays(c, d) /\ d.words = m /\ d.running
      BY <1>0, <1>4, <2>4, <3>1, SetTimeKeeps
    <3> HIDE DEF d
    <3> QED BY <1>0, <1>4, <3>2, SameShows DEF SameOverlays, d
  <2> QED BY <2>3, <2>4
<1> QED BY <1>1, <1>2, <1>3, <1>4

-----------------------------------------------------------------------------
(* The commands *)

\* What no command does, whichever it is: start a show beside another, or one the timer is not
\* set for; change the words; or leave a picture that is neither the one before nor the face,
\* and not a hand's either.
Obeys(c, d) ==
  /\ Kept(d) /\ d.wasShowing = c.wasShowing /\ d.words = c.words
  /\ \A o \in Overlays : d.state[o] = "show" =>
       \/ c.state[o] = "show" /\ d.timer = c.timer
       \/ ~IsShow(c) /\ d.timer = Endurance[o]
  /\ ~IsShow(c) /\ ~IsShow(d) => d.picture \in {c.picture, Face(minute), Foreign}

LEMMA EndsObeys ==
  ASSUME NEW c, NEW d, Ends(c, d)
  PROVE  Obeys(c, d)
BY DEF Ends, Obeys, SameAnimation, SameFace

LEMMA SameOverlaysObeys ==
  ASSUME NEW c, NEW d, Kept(d), SameOverlays(c, d), d.words = c.words,
         IsShow(c) \/ d.picture \in {c.picture, Face(minute), Foreign}
  PROVE  Obeys(c, d)
BY DEF SameOverlays, Obeys

LEMMA RefreshObeys ==
  ASSUME NEW c, Kept(c), minute \in 0 .. Minutes - 1, IsShow(c) \/ c.words = minute
  PROVE  Obeys(c, RefreshClock(c, minute))
<1>1. CASE IsShow(c)
  BY <1>1, NothingEnds, EndsObeys DEF RefreshClock
<1>2. CASE ~IsShow(c)
  <2> DEFINE d == RefreshClock(c, minute)
  <2>1. d = ShowClock([c EXCEPT !.words = minute], minute)
    BY <1>2 DEF RefreshClock
  <2>2. Kept(d) /\ SameOverlays(c, d) /\ d.words = minute /\ d.picture = Face(minute)
    BY <1>2, <2>1, ShowClockKeeps
  <2> HIDE DEF d
  <2> QED BY <1>2, <2>2, SameOverlaysObeys DEF d
<1> QED BY <1>1, <1>2

LEMMA StartAnimationObeys ==
  ASSUME NEW c, Kept(c), minute \in 0 .. Minutes - 1, IsShow(c) \/ c.words = minute,
         ~IsShow(c) => ~c.wasShowing
  PROVE  Obeys(c, StartAnimation(c, minute))
<1>1. CASE IsShow(c)
  BY <1>1, NothingEnds, EndsObeys DEF StartAnimation
<1>2. CASE ~IsShow(c)
  <2> DEFINE d == StartAnimation(c, minute)
  <2>1. c = [c EXCEPT !.words = minute]
    BY <1>2 DEF Kept, FaceStates
  <2>2. d = SetTime([c EXCEPT !.words = minute], minute)
    BY <1>2, <2>1 DEF StartAnimation
  <2>3. Kept(d) /\ SameOverlays(c, d) /\ d.words = minute
    BY <1>2, <2>2, SetTimeKeeps
  <2>4. d.picture \in {c.picture, Face(minute), Foreign}
    BY <1>2, <2>1 DEF StartAnimation, SetTime, SelectForRun, SwitchCurrentAnimation,
       InitCurrentAnimation, Kept, FaceStates
  <2> HIDE DEF d
  <2> QED BY <1>2, <2>3, <2>4, SameOverlaysObeys DEF d
<1> QED BY <1>1, <1>2

LEMMA AbortRunningObeys ==
  ASSUME NEW c, Kept(c), minute \in 0 .. Minutes - 1, IsShow(c) \/ c.words = minute
  PROVE  Obeys(c, AbortRunning(c, minute))
<1> DEFINE e == InitCurrentAnimation(c)
           d == RefreshClock(e, minute)
<1>1. Kept(e) /\ SameOverlays(c, e) /\ SameFace(c, e)
  BY InitKeeps
<1> HIDE DEF e
<1>2. IsShow(e) <=> IsShow(c)
  BY <1>1, SameShows
<1>3. Obeys(e, d)
  BY <1>1, <1>2, RefreshObeys DEF SameFace
<1> HIDE DEF d
<1>4. Obeys(c, d)
  BY <1>1, <1>2, <1>3 DEF Obeys, SameOverlays, SameFace
<1> QED BY <1>4 DEF AbortRunning, d, e

LEMMA ShowNowObeys ==
  ASSUME NEW c, Kept(c), NEW o \in Overlays
  PROVE  Obeys(c, ShowNow(c, o, ready))
<1> DEFINE d == AbortAnimation(SetStateToShow(c, o))
<1>1. CASE ShowNow(c, o, ready) = c
  BY <1>1, NothingEnds, EndsObeys
<1>2. CASE ShowNow(c, o, ready) # c
  <2>1. ShowNow(c, o, ready) = d /\ ~IsShow(c)
    BY <1>2 DEF ShowNow
  <2>2. /\ Kept(d) /\ SameFace(c, d) /\ d.wasShowing = c.wasShowing /\ IsShow(d)
        /\ d.timer = Endurance[o]
        /\ \A p \in Overlays : d.state[p] = "show" => p = o
    BY <2>1, StartKeeps
  <2> HIDE DEF d
  <2> QED BY <2>1, <2>2 DEF Obeys, SameFace
<1> QED BY <1>1, <1>2

LEMMA SettingsResetObeys ==
  ASSUME NEW c, Kept(c)
  PROVE  Obeys(c, OverlaysReset(AnimationsReset(c)))
<1> DEFINE id == SetAnimation(c, "none")
           a  == SetMode(id, "fixed")
           d  == OverlaysReset(a)
<1>1. Kept(id) /\ SameOverlays(c, id) /\ SameFace(c, id)
  BY SetAnimationKeeps DEF Animations
<1> HIDE DEF id
<1>2. Kept(a) /\ SameOverlays(id, a) /\ SameFace(id, a)
  BY <1>1, SetModeKeeps
<1> HIDE DEF a
<1>3. Ends(a, d) /\ ~IsShow(d)
  BY <1>2, ResetKeeps
<1> HIDE DEF d
<1>4. Obeys(c, d)
  BY <1>1, <1>2, <1>3 DEF Ends, Obeys, SameOverlays, SameFace, SameAnimation, IsShow
<1> QED BY <1>4 DEF d, a, id, AnimationsReset

LEMMA DrawnObeys ==
  ASSUME NEW c, Kept(c)
  PROVE  Obeys(c, [c EXCEPT !.picture = Foreign])
<1> DEFINE d == [c EXCEPT !.picture = Foreign]
<1>1. c \in FaceStates
  BY DEF Kept
<1>2. /\ d \in FaceStates /\ SameOverlays(c, d) /\ d.words = c.words /\ d.picture = Foreign
      /\ d.running = c.running /\ d.selected = c.selected /\ d.current = c.current /\ d.mode = c.mode
      /\ d.target = c.target
  BY <1>1 DEF FaceStates, SameOverlays, Pictures
<1> HIDE DEF d
<1>3. Kept(d)
  BY <1>2, SameShows DEF Kept, OneShows, NothingRunsUnderAShow, OnlyAShowScrolls, SameOverlays,
     FixedIsTheSelected, SomethingRuns, RunsToTheWords, NothingRunsAfterAShow
<1> QED BY <1>2, <1>3, SameOverlaysObeys DEF d

\* A command comes between the animations and the overlays of a tick.
LEMMA CommandIsInItsPlace == Command => phase = "command" /\ phase' = "overlays"
BY DEF Command, SetTheTime, Obeyed, Commanded, Step, ClockRefresh, AnimationStart, AnimationAbort,
   AnimationSelect, AnimationMode, OverlayShow, OverlayAbort, OverlayActive, DrawByHand, SettingsReset

\* What a command leaves, and the clock and the readings beside it.
LEMMA CommandObeys ==
  ASSUME FaceInv, Command
  PROVE  /\ \E after : Commanded(after) /\ Obeys(f, after)
         /\ second' \in Seconds /\ minute' \in 0 .. Minutes - 1 /\ ready' \in BOOLEAN
<1>1. /\ Kept(f) /\ second \in Seconds /\ minute \in 0 .. Minutes - 1 /\ ready \in BOOLEAN
  BY DEF FaceInv, TypeOK
<1>2. phase = "command"
  BY CommandIsInItsPlace
<1>3. (IsShow(f) \/ f.words = minute) /\ (~IsShow(f) => ~f.wasShowing)
  BY <1>2 DEF FaceInv, DisplayManagerKnows
<1>4. CASE SetTheTime
  <2>1. Obeys(f, f)
    BY <1>1, NothingEnds, EndsObeys
  <2> QED BY <1>1, <1>4, <2>1 DEF SetTheTime
<1>5. CASE \E after : Obeyed(after) /\ Obeys(f, after)
  BY <1>1, <1>5 DEF Obeyed
<1>6. CASE ClockRefresh
  BY <1>1, <1>3, <1>5, <1>6, RefreshObeys DEF ClockRefresh
<1>7. CASE AnimationStart
  BY <1>1, <1>3, <1>5, <1>7, StartAnimationObeys DEF AnimationStart
<1>8. CASE AnimationAbort
  BY <1>1, <1>3, <1>5, <1>8, AbortRunningObeys DEF AnimationAbort
<1>9. CASE AnimationSelect
  <2>1. PICK id \in Animations : Obeyed(SetAnimation(f, id))
    BY <1>9 DEF AnimationSelect
  <2>2. Obeys(f, SetAnimation(f, id))
    BY <1>1, SetAnimationKeeps, SameOverlaysObeys DEF SameFace
  <2> QED BY <1>5, <2>1, <2>2
<1>10. CASE AnimationMode
  <2>1. PICK mode \in {"fixed", "sequence"} : Obeyed(SetMode(f, mode))
    BY <1>10 DEF AnimationMode
  <2>2. Obeys(f, SetMode(f, mode))
    BY <1>1, SetModeKeeps, SameOverlaysObeys DEF SameFace
  <2> QED BY <1>5, <2>1, <2>2
<1>11. CASE OverlayShow
  BY <1>1, <1>5, <1>11, ShowNowObeys DEF OverlayShow
<1>12. CASE OverlayAbort
  BY <1>1, <1>5, <1>12, AbortKeeps, EndsObeys DEF OverlayAbort
<1>13. CASE OverlayActive
  BY <1>1, <1>5, <1>13, SetIsActiveKeeps, EndsObeys DEF OverlayActive
<1>14. CASE DrawByHand
  BY <1>1, <1>5, <1>14, DrawnObeys DEF DrawByHand
<1>15. CASE SettingsReset
  BY <1>1, <1>5, <1>15, SettingsResetObeys DEF SettingsReset
<1> QED BY <1>4, <1>6, <1>7, <1>8, <1>9, <1>10, <1>11, <1>12, <1>13, <1>14, <1>15 DEF Command

-----------------------------------------------------------------------------
(* The steps *)

LEMMA MinuteIsNoWords == minute \in 0 .. Minutes - 1 => minute # NoWords /\ minute \in 0 .. Minutes
BY ClockFaceAssumption DEF ClockFaceAssumption, NoWords

LEMMA InitFaceInv == Init => FaceInv /\ FaceStands
<1> SUFFICES ASSUME Init PROVE FaceInv /\ FaceStands
  OBVIOUS
<1>1. PICK animation \in Animations, mode \in {"fixed", "sequence"}, active \in BOOLEAN :
        f = [ state |-> [o \in Overlays |-> IF active THEN "idle" ELSE "disabled"], timer |-> 0,
              lastSecond |-> SecondsPerMinute, text |-> "idle", selected |-> animation,
              current |-> animation, mode |-> mode, running |-> FALSE, target |-> 0,
              words |-> NoWords, wasShowing |-> FALSE, picture |-> Foreign ]
  BY DEF Init
<1>2. /\ [o \in Overlays |-> IF active THEN "idle" ELSE "disabled"] \in [Overlays -> OverlayStates]
      /\ 0 \in Shows /\ SecondsPerMinute \in 0 .. SecondsPerMinute /\ 0 \in 0 .. Minutes - 1
      /\ NoWords \in 0 .. Minutes /\ Foreign \in Pictures /\ 0 \in Seconds /\ 0 \in 0 .. MaxCommands
  BY ClockFaceAssumption DEF ClockFaceAssumption, OverlayStates, Shows, NoWords, Pictures, Seconds
<1>3. f \in FaceStates
  BY <1>1, <1>2 DEF FaceStates
<1>4. \A o \in Overlays : f.state[o] # "show"
  BY <1>1
<1>5. TypeOK
  BY <1>2, <1>3 DEF Init, TypeOK
<1>6. Kept(f)
  BY <1>1, <1>3, <1>4 DEF Kept, OneShows, NothingRunsUnderAShow, OnlyAShowScrolls, IsShow,
     FixedIsTheSelected, SomethingRuns, RunsToTheWords, NothingRunsAfterAShow
<1>7. f.words = NoWords /\ phase = "time"
  BY <1>1 DEF Init
<1> QED BY <1>4, <1>5, <1>6, <1>7 DEF FaceInv, DisplayManagerKnows, TimerCountsTheShow, FaceStands

\* A command in its place of the tick.
LEMMA CommandKeepsInv ==
  ASSUME FaceInv, Command
  PROVE  FaceInv' /\ (FaceStands => FaceStands')
<1>1. PICK after : Commanded(after) /\ Obeys(f, after)
  BY CommandObeys
<1>2. /\ phase = "command" /\ phase' = "overlays" /\ f' = after /\ Kept(after)
      /\ commands < MaxCommands /\ commands' = commands + 1
      /\ seen' = IF IsShow(f) /\ IsShow(after) THEN seen ELSE 0
  BY <1>1 DEF Commanded, Step, Obeys
<1>3. /\ second' \in Seconds /\ minute' \in 0 .. Minutes - 1 /\ ready' \in BOOLEAN
      /\ disturbed' \in BOOLEAN
  BY <1>1, CommandObeys DEF Commanded
<1>4. seen' \in Shows /\ commands' \in 0 .. MaxCommands
  BY <1>2, ClockFaceAssumption DEF FaceInv, TypeOK, Shows, ClockFaceAssumption
<1>5. TypeOK'
  BY <1>2, <1>3, <1>4 DEF TypeOK, Kept
<1>6. TimerCountsTheShow'
  <2> SUFFICES ASSUME NEW o \in Overlays, after.state[o] = "show"
               PROVE  after.timer > 0 /\ after.timer + seen' = Endurance[o]
    BY <1>2 DEF TimerCountsTheShow
  <2>1. IsShow(after)
    BY DEF IsShow
  <2>2. CASE f.state[o] = "show" /\ after.timer = f.timer
    <3>1. IsShow(f)
      BY <2>2 DEF IsShow
    <3> QED BY <1>2, <2>1, <2>2, <3>1 DEF FaceInv, TimerCountsTheShow
  <2>3. CASE ~IsShow(f) /\ after.timer = Endurance[o]
    BY <1>2, <2>3, EnduranceIsALength
  <2> QED BY <1>1, <2>2, <2>3 DEF Obeys
<1>7. FaceInv'
  BY <1>2, <1>5, <1>6 DEF FaceInv, DisplayManagerKnows
<1>8. ASSUME FaceStands PROVE FaceStands'
  <2>1. f.wasShowing <=> IsShow(f)
    BY <1>2 DEF FaceInv, DisplayManagerKnows
  <2>2. ~IsShow(f) => f.words = minute
    BY <1>2 DEF FaceInv, DisplayManagerKnows
  <2>3. after.wasShowing = f.wasShowing /\ after.words = f.words
    BY <1>1 DEF Obeys
  <2> SUFFICES ASSUME ~IsShow(after), ~after.wasShowing, ~after.running, ~disturbed'
               PROVE  after.picture = Face(after.words)
    BY <1>2 DEF FaceStands
  <2>4. ~IsShow(f) /\ ~f.wasShowing /\ f.words = minute /\ after.words = minute
    BY <2>1, <2>2, <2>3
  <2>5. CASE after.picture = Face(minute)
    BY <2>4, <2>5
  <2>6. CASE after.picture # Face(minute)
    <3>1. ~disturbed /\ after.picture # Foreign /\ ~f.running
      BY <1>1, <2>6 DEF Commanded
    <3>2. after.picture = f.picture
      BY <1>1, <2>4, <2>6, <3>1 DEF Obeys
    <3>3. f.words # NoWords
      BY <2>4, MinuteIsNoWords DEF FaceInv, TypeOK
    <3> QED BY <1>8, <2>4, <3>1, <3>2, <3>3 DEF FaceStands
  <2> QED BY <2>5, <2>6
<1> QED BY <1>7, <1>8

\* A step that leaves the clock alone.
LEMMA IdleKeepsInv ==
  ASSUME FaceInv, UNCHANGED << f, commands, seen, disturbed >>,
         second' \in Seconds, minute' \in 0 .. Minutes - 1, ready' \in BOOLEAN,
         phase' \in {"time", "display", "animations", "command", "overlays", "text"},
         phase' \in {"animations", "command"} => phase \in {"animations", "command"} /\ UNCHANGED minute,
         phase' = "overlays" => phase \in {"command", "overlays"}
  PROVE  FaceInv' /\ (FaceStands => FaceStands')
<1>1. TypeOK'
  BY DEF FaceInv, TypeOK
<1>2. DisplayManagerKnows' /\ TimerCountsTheShow' /\ Kept(f)'
  BY DEF FaceInv, DisplayManagerKnows, TimerCountsTheShow
<1>3. FaceStands => FaceStands'
  BY DEF FaceStands
<1> QED BY <1>1, <1>2, <1>3 DEF FaceInv

LEMMA DisplayManagerKeepsInv ==
  ASSUME FaceInv, DisplayManagerStep
  PROVE  FaceInv' /\ (FaceStands => FaceStands')
<1> DEFINE d == DisplayManagerTask(f, minute)
<1>1. /\ phase' = "animations" /\ f' = d /\ disturbed' = (disturbed /\ d.picture # Face(minute))
      /\ UNCHANGED << second, minute, ready, commands, seen >>
  BY DEF DisplayManagerStep, Step, Becomes
<1>2. Kept(f) /\ minute \in 0 .. Minutes - 1
  BY DEF FaceInv, TypeOK
<1>3. /\ Kept(d) /\ d.state = f.state /\ d.timer = f.timer /\ (d.wasShowing <=> IsShow(d))
      /\ (~IsShow(d) => d.words = minute)
      /\ ~IsShow(d) /\ ~d.running =>
           \/ d.picture = Face(minute)
           \/ f.words = minute /\ ~f.running /\ ~f.wasShowing /\ d.picture = f.picture
  BY <1>2, DisplayManagerKeeps
<1> HIDE DEF d
<1>4. IsShow(d) <=> IsShow(f)
  BY <1>3 DEF IsShow
<1>5. TypeOK' /\ DisplayManagerKnows' /\ TimerCountsTheShow'
  BY <1>1, <1>3 DEF FaceInv, TypeOK, Kept, DisplayManagerKnows, TimerCountsTheShow
<1>6. ASSUME FaceStands PROVE FaceStands'
  <2> SUFFICES ASSUME ~IsShow(d), ~d.running, ~disturbed' PROVE d.picture = Face(d.words)
    BY <1>1 DEF FaceStands
  <2>1. CASE d.picture = Face(minute)
    BY <1>3, <2>1
  <2>2. CASE d.picture # Face(minute)
    <3>1. f.words = minute /\ ~f.running /\ ~f.wasShowing /\ d.picture = f.picture /\ ~disturbed
      BY <1>1, <1>3, <2>2
    <3>2. f.words # NoWords
      BY <1>2, <3>1, MinuteIsNoWords
    <3> QED BY <1>4, <1>6, <2>2, <3>1, <3>2 DEF FaceStands
  <2> QED BY <2>1, <2>2
<1> QED BY <1>1, <1>3, <1>5, <1>6 DEF FaceInv

\* A frame, or the letters of a show: the picture alone.
LEMMA AnimationsKeepInv ==
  ASSUME FaceInv, AnimationDraws \/ AnimationEnds
  PROVE  FaceInv' /\ (FaceStands => FaceStands')
<1>1. /\ phase = "animations" /\ phase' = "command" /\ f.running
      /\ UNCHANGED << second, minute, ready, commands, seen >>
      /\ disturbed' = (disturbed /\ f'.picture # Face(minute))
  BY DEF AnimationDraws, AnimationEnds, Step, Becomes
<1>2. f \in FaceStates /\ f.running \in BOOLEAN /\ f.target \in 0 .. Minutes - 1 /\ Kept(f)
  BY FaceFields DEF FaceInv, Kept
<1>3. ~IsShow(f) /\ ~f.wasShowing /\ f.target = f.words /\ f.words = minute
  BY <1>1, <1>2 DEF FaceInv, DisplayManagerKnows, Kept, NothingRunsUnderAShow, RunsToTheWords
<1>4. PICK going \in BOOLEAN, picture \in Pictures :
        /\ f' = [f EXCEPT !.running = going, !.picture = picture]
        /\ ~going => picture = Face(f.words)
  <2>1. CASE AnimationDraws
    <3>1. f' = [f EXCEPT !.running = TRUE, !.picture = Frame]
      BY <1>1, <1>2, <2>1 DEF AnimationDraws, Becomes, FaceStates
    <3> QED BY <3>1 DEF Pictures
  <2>2. CASE AnimationEnds
    <3>1. f' = [f EXCEPT !.running = FALSE, !.picture = Face(f.target)]
      BY <2>2 DEF AnimationEnds, Becomes
    <3> QED BY <1>2, <1>3, <3>1 DEF Pictures
  <2> QED BY <2>1, <2>2
<1>5. /\ f' \in FaceStates /\ SameOverlays(f, f') /\ f'.words = f.words /\ f'.picture = picture
      /\ f'.running = going /\ f'.selected = f.selected /\ f'.current = f.current /\ f'.mode = f.mode
      /\ f'.target = f.target
  BY <1>2, <1>4 DEF FaceStates, SameOverlays
<1>6. ~IsShow(f')
  BY <1>3, <1>5, SameShows
<1>7. Kept(f')
  BY <1>1, <1>2, <1>3, <1>5, <1>6 DEF Kept, OneShows, NothingRunsUnderAShow, OnlyAShowScrolls,
     SameOverlays, FixedIsTheSelected, SomethingRuns, RunsToTheWords, NothingRunsAfterAShow
<1>8. TypeOK' /\ DisplayManagerKnows' /\ TimerCountsTheShow'
  BY <1>1, <1>3, <1>5, <1>6 DEF FaceInv, TypeOK, DisplayManagerKnows, TimerCountsTheShow, SameOverlays, IsShow
<1>9. FaceStands'
  BY <1>1, <1>4, <1>5, <1>6 DEF FaceStands
<1> QED BY <1>7, <1>8, <1>9 DEF FaceInv

LEMMA TextKeepsInv ==
  ASSUME FaceInv, TextDraws
  PROVE  FaceInv' /\ (FaceStands => FaceStands')
<1>1. /\ phase' = "time" /\ f.text = "shift" /\ UNCHANGED << second, minute, ready, commands, seen, disturbed >>
      /\ \E text \in {"shift", "idle"} : f' = [f EXCEPT !.picture = Letters, !.text = text]
  BY DEF TextDraws, Step
<1>2. PICK text \in {"shift", "idle"} : f' = [f EXCEPT !.picture = Letters, !.text = text]
  BY <1>1
<1>3. f \in FaceStates /\ Letters \in Pictures /\ Kept(f)
  BY DEF FaceInv, Kept, Pictures
<1>4. f' \in FaceStates /\ f'.state = f.state 
      /\ f'.timer = f.timer /\ f'.running = f.running /\ f'.selected = f.selected
      /\ f'.current = f.current /\ f'.mode = f.mode /\ f'.target = f.target /\ f'.words = f.words
      /\ f'.wasShowing = f.wasShowing
  BY <1>2, <1>3 DEF FaceStates
<1>5. IsShow(f) /\ (IsShow(f') <=> IsShow(f))
  BY <1>1, <1>3, <1>4 DEF Kept, OnlyAShowScrolls, IsShow
<1>6. Kept(f')
  BY <1>3, <1>4, <1>5 DEF Kept, OneShows, NothingRunsUnderAShow, OnlyAShowScrolls,
     FixedIsTheSelected, SomethingRuns, RunsToTheWords, NothingRunsAfterAShow
<1>7. TypeOK' /\ DisplayManagerKnows' /\ TimerCountsTheShow'
  BY <1>1, <1>4 DEF FaceInv, TypeOK, DisplayManagerKnows, TimerCountsTheShow
<1>8. FaceStands'
  BY <1>1, <1>4, <1>5 DEF FaceStands
<1> QED BY <1>6, <1>7, <1>8 DEF FaceInv

\* What a step of the overlays does to a show: it goes on, a second shorter or in the same one,
\* it runs out, or one begins that none showed before.
LEMMA OverlaysMove ==
  ASSUME FaceInv, OverlaysStep
  PROVE  /\ Kept(f') /\ SameFace(f, f') /\ f'.wasShowing = f.wasShowing
         /\ \/ f.lastSecond = second /\ f' = f
            \/ IsShow(f) /\ f.lastSecond # second /\ f.timer = 1 /\ ~IsShow(f')
            \/ /\ IsShow(f) /\ f.lastSecond # second /\ f.timer > 1
               /\ f'.state = f.state /\ f'.timer = f.timer - 1
            \/ /\ ~IsShow(f) /\ Due(f, ready, second, minute) = {}
               /\ ~IsShow(f') /\ SameAnimation(f, f')
            \/ ~IsShow(f) /\ IsShow(f') /\ \A o \in Overlays : f'.state[o] = "show" => f'.timer = Endurance[o]
<1>1. Kept(f) /\ f \in FaceStates /\ second \in Seconds /\ f' = OverlaysTask(f, ready, second, minute)
  BY DEF FaceInv, Kept, TypeOK, OverlaysStep
<1>2. CASE f.lastSecond = second
  BY <1>1, <1>2 DEF OverlaysTask, SameFace
<1>3. CASE f.lastSecond # second /\ IsShow(f)
  <2> DEFINE c == [f EXCEPT !.lastSecond = second]
  <2>1. f' = TaskShow(c)
    BY <1>1, <1>3 DEF OverlaysTask
  <2>2. f.timer > 0 /\ f.timer \in Nat
    BY <1>1, <1>3, FaceFields, ShowsAreShorter DEF FaceInv, TimerCountsTheShow, IsShow
  <2>3. second \in 0 .. SecondsPerMinute
    BY <1>1, ClockFaceAssumption DEF Seconds, ClockFaceAssumption
  <2>4. /\ c \in FaceStates /\ SameAnimation(f, c) /\ c.state = f.state /\ c.timer = f.timer
        /\ c.text = f.text
    BY <1>1, <2>3 DEF FaceStates, SameAnimation, SameFace
  <2> HIDE DEF c
  <2>5. IsShow(c) /\ OneShows(c) /\ OnlyAShowScrolls(c)
    BY <1>1, <1>3, <2>4 DEF Kept, OneShows, OnlyAShowScrolls, IsShow
  <2>6. Kept(c)
    BY <1>1, <1>3, <2>4, <2>5, MovedKeeps
  <2>7. /\ Kept(f') /\ SameAnimation(c, f')
        /\ IF c.timer = 1 THEN ~IsShow(f') ELSE f'.state = c.state /\ f'.timer = c.timer - 1
    BY <2>1, <2>2, <2>4, <2>5, <2>6, TaskShowKeeps
  <2>8. SameFace(f, f') /\ f'.wasShowing = f.wasShowing
    BY <2>4, <2>7 DEF SameAnimation, SameFace
  <2>9. CASE f.timer = 1
    BY <1>3, <2>4, <2>7, <2>8, <2>9
  <2>10. CASE f.timer # 1
    <3>1. f.timer > 1
      BY <2>2, <2>10
    <3> QED BY <1>3, <2>4, <2>7, <2>8, <2>10, <3>1
  <2> QED BY <2>9, <2>10
<1>4. CASE f.lastSecond # second /\ ~IsShow(f)
  <2>1. /\ Kept(f') /\ SameFace(f, f') /\ f'.wasShowing = f.wasShowing
        /\ IF Due(f, ready, second, minute) = {} THEN ~IsShow(f') /\ SameAnimation(f, f')
           ELSE IsShow(f') /\ \A o \in Overlays : f'.state[o] = "show" => f'.timer = Endurance[o]
    BY <1>1, <1>4, OverlaysStart
  <2> QED BY <1>4, <2>1
<1> QED BY <1>2, <1>3, <1>4

LEMMA OverlaysKeepInv ==
  ASSUME FaceInv, OverlaysStep
  PROVE  FaceInv' /\ (FaceStands => FaceStands')
<1>1. /\ phase = "overlays" /\ phase' = "text" /\ UNCHANGED << second, minute, ready, commands >>
      /\ disturbed' = \/ disturbed
                      \/ IsShow(f) /\ ~IsShow(f') /\ ~f.wasShowing /\ f.picture # Face(f.words)
      /\ seen' = IF ~IsShow(f) \/ ~IsShow(f') THEN 0
                 ELSE IF f.lastSecond # second /\ seen + 1 \in Shows THEN seen + 1 ELSE seen
  BY DEF OverlaysStep, Step
<1>2. /\ Kept(f) /\ Kept(f') /\ SameFace(f, f') /\ f'.wasShowing = f.wasShowing /\ seen \in Shows
      /\ f.timer \in Shows
  BY OverlaysMove, FaceFields DEF FaceInv, TypeOK, Kept
<1>3. seen' \in Shows /\ 0 \in Shows /\ seen \in Nat /\ f.timer \in Nat
  BY <1>1, <1>2, ShowsAreShorter
<1>4. TypeOK' /\ DisplayManagerKnows'
  BY <1>1, <1>2, <1>3 DEF FaceInv, TypeOK, DisplayManagerKnows, Kept
<1>5. TimerCountsTheShow'
  <2> SUFFICES ASSUME NEW o \in Overlays, f'.state[o] = "show"
               PROVE  f'.timer > 0 /\ f'.timer + seen' = Endurance[o]
    BY DEF TimerCountsTheShow
  <2>0. IsShow(f')
    BY DEF IsShow
  <2>1. CASE f.lastSecond = second /\ f' = f
    BY <1>1, <2>0, <2>1 DEF FaceInv, TimerCountsTheShow
  <2>2. CASE /\ IsShow(f) /\ f.lastSecond # second /\ f.timer > 1
             /\ f'.state = f.state /\ f'.timer = f.timer - 1
    <3>1. f.timer + seen = Endurance[o] /\ Endurance[o] \in Nat
      BY <2>2, EnduranceIsALength DEF FaceInv, TimerCountsTheShow
    <3>2. seen + 1 \in 0 .. Endurance[o]
      BY <1>3, <2>2, <3>1
    <3>3. seen + 1 \in Shows
      BY <3>2 DEF Shows
    <3>4. seen' = seen + 1
      BY <1>1, <2>0, <2>2, <3>3
    <3> QED BY <1>3, <2>2, <3>1, <3>4
  <2>3. CASE ~IsShow(f) /\ \A p \in Overlays : f'.state[p] = "show" => f'.timer = Endurance[p]
    BY <1>1, <2>3, EnduranceIsALength
  <2> QED BY <2>0, <2>1, <2>2, <2>3, OverlaysMove
<1>6. ASSUME FaceStands PROVE FaceStands'
  <2> SUFFICES ASSUME ~IsShow(f'), ~f'.wasShowing, ~f'.running, ~disturbed', f'.words # NoWords
               PROVE  f'.picture = Face(f'.words)
    BY <1>1 DEF FaceStands
  <2>1. CASE ~IsShow(f)
    <3>1. SameAnimation(f, f')
      BY <2>1, OverlaysMove DEF SameAnimation, SameFace
    <3> QED BY <1>1, <1>6, <2>1, <3>1 DEF FaceStands, SameAnimation, SameFace
  <2>2. CASE IsShow(f)
    BY <1>1, <1>2, <2>2 DEF SameFace
  <2> QED BY <2>1, <2>2
<1> QED BY <1>2, <1>4, <1>5, <1>6 DEF FaceInv

LEMMA StepKeepsInv ==
  ASSUME FaceInv, [Next]_vars
  PROVE  FaceInv' /\ (FaceStands => FaceStands')
<1>0. TypeOK
  BY DEF FaceInv
<1>1. CASE Time
  <2>1. second' \in Seconds /\ minute' \in 0 .. Minutes - 1
    BY <1>0, <1>1, ClockFaceAssumption DEF Time, SameSecond, NextSecond, TypeOK, Seconds, ClockFaceAssumption
  <2>2. ready' \in BOOLEAN /\ phase' = "display" /\ UNCHANGED << f, commands, seen, disturbed >>
    BY <1>0, <1>1 DEF Time, SameSecond, NextSecond, Step, TypeOK
  <2> QED BY <2>1, <2>2, IdleKeepsInv
<1>2. CASE DisplayManagerStep
  BY <1>2, DisplayManagerKeepsInv
<1>3. CASE NoAnimationStep
  BY <1>0, <1>3, IdleKeepsInv DEF NoAnimationStep, Step, TypeOK
<1>4. CASE AnimationDraws \/ AnimationEnds
  BY <1>4, AnimationsKeepInv
<1>5. CASE NoCommand
  BY <1>0, <1>5, IdleKeepsInv DEF NoCommand, Step, TypeOK
<1>6. CASE OverlaysStep
  BY <1>6, OverlaysKeepInv
<1>7. CASE NoTextStep
  BY <1>0, <1>7, IdleKeepsInv DEF NoTextStep, Step, TypeOK
<1>8. CASE TextDraws
  BY <1>8, TextKeepsInv
<1>9. CASE Command
  BY <1>9, CommandKeepsInv
<1>10. CASE UNCHANGED vars
  <2>1. UNCHANGED << f, commands, seen, disturbed, second, minute, ready, phase >>
    BY <1>10 DEF vars
  <2> QED BY <1>0, <2>1, IdleKeepsInv DEF TypeOK
<1> QED BY <1>1, <1>2, <1>3, <1>4, <1>5, <1>6, <1>7, <1>8, <1>9, <1>10 DEF Next, Tick, AnimationsStep, TextStep

-----------------------------------------------------------------------------
(* What follows *)

LEMMA InvMeansOneOwner == FaceInv /\ FaceStands => DisplayHasOneOwner
<1> SUFFICES ASSUME FaceInv, FaceStands PROVE DisplayHasOneOwner
  OBVIOUS
<1>1. OneOverlayHoldsTheDisplay /\ NoAnimationUnderAnOverlay /\ LettersOnlyForAShow
  BY DEF FaceInv, Kept, OneOverlayHoldsTheDisplay, OneShows, NoAnimationUnderAnOverlay,
     NothingRunsUnderAShow, LettersOnlyForAShow, OnlyAShowScrolls
<1>2. AnimationEndsOnTheTime
  BY DEF FaceInv, Kept, NothingRunsUnderAShow, RunsToTheWords, DisplayManagerKnows, AnimationEndsOnTheTime
<1>3. FaceComesBack
  BY MinuteIsNoWords DEF FaceInv, TypeOK, FaceStands, DisplayManagerKnows, FaceComesBack
<1> QED BY <1>1, <1>2, <1>3 DEF DisplayHasOneOwner

\* The display is one's only and is given back, for any overlays of any endurance, a second
\* included: the face of the time stands when nobody has the display, unless a command left
\* another picture since the words changed, or a show that was over before DisplayManager's task
\* had seen it (Overlays::ShowNow(), TaskIdle(), AbortAnimation(), DisplayManager::Task()).
THEOREM DisplayIsGivenBack == Spec => []DisplayHasOneOwner
<1>1. Init => FaceInv /\ FaceStands
  BY InitFaceInv
<1>2. FaceInv /\ FaceStands /\ [Next]_vars => FaceInv' /\ FaceStands'
  BY StepKeepsInv
<1>3. FaceInv /\ FaceStands => DisplayHasOneOwner
  BY InvMeansOneOwner
<1> QED BY <1>1, <1>2, <1>3, PTL DEF Spec

\* An overlay that is due starts whatever ended the show before (Overlays::Task() zeroes the timer).
THEOREM DueOverlayAlwaysStarts == Spec => DueOverlayStarts
<1> DEFINE Starts ==
      (/\ phase = "overlays" /\ f.lastSecond # second /\ ~IsShow(f)
       /\ \E o \in Overlays :
            f.state[o] = "idle" /\ IsDueNow(o, CanShow(o, ready), second, minute))
        => IsShow(f')
<1>1. Init => FaceInv
  BY InitFaceInv
<1>2. FaceInv /\ [Next]_vars => FaceInv'
  BY StepKeepsInv
<1>3. FaceInv /\ [Next]_vars => [Starts]_vars
  <2> SUFFICES ASSUME FaceInv, Next, phase = "overlays", f.lastSecond # second, ~IsShow(f),
                      NEW o \in Overlays, f.state[o] = "idle",
                      IsDueNow(o, CanShow(o, ready), second, minute)
               PROVE  IsShow(f')
    OBVIOUS
  <2>1. OverlaysStep
    BY CommandIsInItsPlace DEF Next, Tick, Time, SameSecond, NextSecond, DisplayManagerStep,
       AnimationsStep, NoAnimationStep, AnimationDraws, AnimationEnds, NoCommand, TextStep, NoTextStep,
       TextDraws, Step
  <2>2. PICK i \in DOMAIN Order : Order[i] = o
    BY OrderIsOfOverlays
  <2>3. i \in Due(f, ready, second, minute)
    BY <2>2 DEF Due
  <2>4. Kept(f) /\ second \in Seconds /\ f' = OverlaysTask(f, ready, second, minute)
    BY <2>1 DEF FaceInv, TypeOK, OverlaysStep
  <2> QED BY <2>3, <2>4, OverlaysStart
<1> QED BY <1>1, <1>2, <1>3, PTL DEF Spec, DueOverlayStarts

\* A show that runs out has lasted its endurance, whatever hands did meanwhile (Overlay::ShowTask(),
\* Overlays::TaskShow()).
THEOREM ShowsRunOutWhenDue == Spec => ShowRunsOutWhenDue
<1> DEFINE RunsOut ==
      \A o \in Overlays :
        (phase = "overlays" /\ f.state[o] = "show" /\ f'.state[o] # "show") => seen + 1 = Endurance[o]
<1>1. Init => FaceInv
  BY InitFaceInv
<1>2. FaceInv /\ [Next]_vars => FaceInv'
  BY StepKeepsInv
<1>3. FaceInv /\ [Next]_vars => [RunsOut]_vars
  <2> SUFFICES ASSUME FaceInv, Next, NEW o \in Overlays, phase = "overlays", f.state[o] = "show",
                      f'.state[o] # "show"
               PROVE  seen + 1 = Endurance[o]
    OBVIOUS
  <2>1. OverlaysStep
    BY CommandIsInItsPlace DEF Next, Tick, Time, SameSecond, NextSecond, DisplayManagerStep,
       AnimationsStep, NoAnimationStep, AnimationDraws, AnimationEnds, NoCommand, TextStep, NoTextStep,
       TextDraws, Step
  <2>2. IsShow(f) /\ f' # f /\ f'.state # f.state
    BY DEF IsShow
  <2>3. f.timer = 1
    BY <2>1, <2>2, OverlaysMove
  <2>4. seen \in Nat /\ f.timer + seen = Endurance[o]
    BY ShowsAreShorter DEF FaceInv, TypeOK, TimerCountsTheShow
  <2> QED BY <2>3, <2>4
<1> QED BY <1>1, <1>2, <1>3, PTL DEF Spec, ShowRunsOutWhenDue
=============================================================================
