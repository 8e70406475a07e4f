--------------------------- MODULE Commands_proofs ---------------------------
(***************************************************************************)
(* Facts about the light, for every set of LEDs, every supply, every set   *)
(* of lines and every order of the tasks: a display that is off stays      *)
(* dark, the letters that stand wear the colour that is to be shown, and   *)
(* however dim the light is made it keeps the face, and however bright the *)
(* supply's budget.                                                        *)
(***************************************************************************)
EXTENDS Commands, SequenceTheorems, FiniteSetTheorems, WellFoundedInduction, TLAPS

Fields == {"color", "cycling", "cycleColor", "dimmed", "brightness", "automatic", "gamma", "night",
           "fade", "enabled", "applied", "limit", "master", "pixels"}

\* A record of the display, whatever its values.
IsDisplay(d) == /\ d = [field \in Fields |-> d[field]]
                /\ d.pixels = [led \in Leds |-> d.pixels[led]]

Dark(d) == ~d.enabled => d.master = 0
Wears(d) == /\ d.dimmed = Dimmed(d)
            /\ \A led \in Leds : IsLit(d.pixels[led]) => d.pixels[led] \in Worn(d)
Good(d) == IsDisplay(d) /\ Dark(d) /\ Wears(d)

USE DEF Fields

\* What a letter may wear follows from the dimmed colour alone.
LEMMA WornFollows ==
  ASSUME NEW d, NEW e, e.dimmed = d.dimmed
  PROVE  Worn(e) = Worn(d) /\ d.dimmed \in Worn(e)
  BY DEF Worn, TrailColour, GetColorDimmed

\* A display that differs in nothing the invariants read is as good.
LEMMA AlikeIsGood ==
  ASSUME NEW d, NEW e, Good(d), IsDisplay(e), Dark(e), e.dimmed = d.dimmed, e.pixels = d.pixels,
         Dimmed(e) = Dimmed(d)
  PROVE  Good(e)
  BY WornFollows DEF Good, Wears

\* Fields that neither invariant reads may take any value.
LEMMA OtherFields ==
  ASSUME NEW d, Good(d), NEW field \in {"brightness", "automatic", "gamma", "night", "fade"}, NEW value
  PROVE  Good([d EXCEPT ![field] = value])
  <1>1. PICK e : e = [d EXCEPT ![field] = value]
    OBVIOUS
  <1>2. IsDisplay(e) /\ Dark(e) /\ e.dimmed = d.dimmed /\ e.pixels = d.pixels
        /\ e.applied = d.applied /\ e.cycling = d.cycling /\ e.cycleColor = d.cycleColor /\ e.color = d.color
    BY <1>1 DEF Good, IsDisplay, Dark
  <1>3. Dimmed(e) = Dimmed(d)
    BY <1>2 DEF Dimmed, GetColorToShow
  <1> QED
    BY <1>1, <1>2, <1>3, AlikeIsGood

LEMMA LimitKeepsGood ==
  ASSUME NEW d, Good(d) PROVE Good(ApplyCurrentLimit(d))
  <1>1. PICK e : e = ApplyCurrentLimit(d)
    OBVIOUS
  <1>2. IsDisplay(e) /\ Dark(e) /\ e.dimmed = d.dimmed /\ e.pixels = d.pixels
        /\ e.applied = d.applied /\ e.cycling = d.cycling /\ e.cycleColor = d.cycleColor /\ e.color = d.color
    BY <1>1 DEF Good, IsDisplay, Dark, ApplyCurrentLimit
  <1>3. Dimmed(e) = Dimmed(d)
    BY <1>2 DEF Dimmed, GetColorToShow
  <1> QED
    BY <1>1, <1>2, <1>3, AlikeIsGood

\* Whatever the letters wore before, after this they wear the colour that is to be shown.
LEMMA ColorMakesGood ==
  ASSUME NEW d, IsDisplay(d), Dark(d) PROVE Good(ApplyColor(d))
  <1> DEFINE e == ApplyColor(d)
  <1>1. IsDisplay(e) /\ Dark(e) /\ e.dimmed = Dimmed(d)
        /\ e.pixels = [led \in Leds |-> IF IsLit(d.pixels[led]) THEN Dimmed(d) ELSE d.pixels[led]]
    BY DEF IsDisplay, Dark, ApplyColor
  <1>2. Dimmed(e) = Dimmed(d)
    BY DEF IsDisplay, ApplyColor, Dimmed, GetColorToShow
  <1> HIDE DEF e
  <1>3. \A led \in Leds : IsLit(e.pixels[led]) => e.pixels[led] = e.dimmed
    BY <1>1
  <1> QED
    BY <1>1, <1>2, <1>3, WornFollows DEF Good, Wears, e

\* What ApplyBrightness() needs is only that the letters wear the colour now.
LEMMA BrightnessKeepsGood ==
  ASSUME NEW d, NEW read, Good(d) PROVE Good(ApplyBrightness(d, read))
  <1> DEFINE limited == ApplyCurrentLimit(d)
             other == [limited EXCEPT !.applied = CalcBrightness(d, read)]
  <1>1. Good(limited)
    BY LimitKeepsGood
  <1>2. IsDisplay(other) /\ Dark(other)
    BY <1>1 DEF Good, IsDisplay, Dark
  <1>3. Good(ApplyColor(other))
    BY <1>2, ColorMakesGood
  <1> QED
    BY <1>1, <1>3 DEF ApplyBrightness

\* After a colour was set, the letters follow and then the limit.
LEMMA ColorAndLimitMakesGood ==
  ASSUME NEW d, IsDisplay(d), Dark(d) PROVE Good(ApplyColorAndCurrentLimit(d))
  BY ColorMakesGood, LimitKeepsGood DEF ApplyColorAndCurrentLimit

LEMMA SettersKeepGood ==
  ASSUME NEW d, NEW read, Good(d), NEW value
  PROVE  /\ Good(SetBrightness(d, read, value))
         /\ Good(SetUseAutomatic(d, read, value))
         /\ Good(SetUseGammaCorrection(d, read, value))
         /\ Good(SetNightLevel(d, read, value))
         /\ Good(SetFadeLevel(d, read, value))
  <1>1. /\ Good([d EXCEPT !.brightness = value])
        /\ Good([d EXCEPT !.automatic = value])
        /\ Good([d EXCEPT !.gamma = value])
        /\ Good([d EXCEPT !.night = value])
        /\ Good([d EXCEPT !.fade = value])
    BY OtherFields
  <1> QED
    BY <1>1, BrightnessKeepsGood
    DEF SetBrightness, SetUseAutomatic, SetUseGammaCorrection, SetNightLevel, SetFadeLevel

LEMMA ColoursKeepGood ==
  ASSUME NEW d, Good(d), NEW channel, NEW value
  PROVE  /\ Good(SetColorChannel(d, channel, value))
         /\ Good(StepColor(d, channel, value))
         /\ Good(ResetColor(d))
         /\ Good(SetColorCycle(d, value))
         /\ Good(ClearColorCycle(d))
  <1> DEFINE Keeps(e) == IsDisplay(e) /\ Dark(e)
  <1>1. /\ Keeps([d EXCEPT !.color[channel] = value])
        /\ Keeps([d EXCEPT !.color = White])
        /\ Keeps([d EXCEPT !.cycleColor = value, !.cycling = TRUE])
        /\ Keeps([d EXCEPT !.cycling = FALSE])
    BY DEF Good, IsDisplay, Dark
  <1> QED
    BY <1>1, ColorMakesGood, ColorAndLimitMakesGood
    DEF SetColorChannel, StepColor, ResetColor, SetColorCycle, ClearColorCycle

LEMMA SwitchesKeepGood ==
  ASSUME NEW d, Good(d)
  PROVE  Good(Enable(d)) /\ Good(Disable(d)) /\ Good(Toggle(d))
  <1>1. ASSUME NEW e, e = Enable(d) \/ e = Disable(d) PROVE Good(e)
    <2>1. IsDisplay(e) /\ Dark(e) /\ e.dimmed = d.dimmed /\ e.pixels = d.pixels
          /\ e.applied = d.applied /\ e.cycling = d.cycling /\ e.cycleColor = d.cycleColor /\ e.color = d.color
      BY <1>1 DEF Enable, Disable, Good, IsDisplay, Dark
    <2>2. Dimmed(e) = Dimmed(d)
      BY <2>1 DEF Dimmed, GetColorToShow
    <2> QED
      BY <2>1, <2>2, AlikeIsGood
  <1> QED
    BY <1>1 DEF Toggle

\* Pixels that are unlit or wear what a letter may wear are as good as the ones before.
LEMMA PixelsKeepGood ==
  ASSUME NEW d, Good(d), NEW pixels, pixels = [at \in Leds |-> pixels[at]],
         \A at \in Leds : IsLit(pixels[at]) => pixels[at] \in Worn(d)
  PROVE  Good([d EXCEPT !.pixels = pixels])
  <1>1. PICK e : e = [d EXCEPT !.pixels = pixels]
    OBVIOUS
  <1>2. IsDisplay(e) /\ Dark(e) /\ e.dimmed = d.dimmed /\ e.pixels = pixels
        /\ e.applied = d.applied /\ e.cycling = d.cycling /\ e.cycleColor = d.cycleColor /\ e.color = d.color
    BY <1>1 DEF Good, IsDisplay, Dark
  <1>3. Dimmed(e) = Dimmed(d) /\ Worn(e) = Worn(d)
    BY <1>2, WornFollows DEF Dimmed, GetColorToShow
  <1> QED
    BY <1>1, <1>2, <1>3 DEF Good, Wears

\* A pixel that is written is either unlit or carries the dimmed colour.
LEMMA WritersKeepGood ==
  ASSUME NEW d, Good(d), NEW led, NEW lit
  PROVE  Good(Clear(d)) /\ Good(Test(d)) /\ Good(WritePixel(d, led, lit))
  <1> DEFINE Over(pixels) == [d EXCEPT !.pixels = pixels]
             Fits(pixels) == /\ pixels = [at \in Leds |-> pixels[at]]
                             /\ \A at \in Leds : IsLit(pixels[at]) => pixels[at] \in Worn(d)
  <1>1. ASSUME NEW pixels, Fits(pixels) PROVE Good(Over(pixels))
    BY <1>1, PixelsKeepGood
  <1>2. d.dimmed \in Worn(d) /\ \A at \in Leds : IsLit(d.pixels[at]) => d.pixels[at] \in Worn(d)
    BY DEF Worn, Good, Wears
  <1>3. Good(Clear(d))
    <2>1. Fits([at \in Leds |-> Black])
      BY DEF IsLit
    <2> HIDE DEF Fits
    <2> QED
      BY <1>1, <2>1 DEF Clear
  <1>4. Good(Test(d))
    <2>1. Fits([at \in Leds |-> d.dimmed])
      BY <1>2
    <2> HIDE DEF Fits
    <2> QED
      BY <1>1, <2>1, LimitKeepsGood DEF Test
  <1>5. Good(WritePixel(d, led, lit))
    <2> DEFINE pixels == [d.pixels EXCEPT ![led] = IF lit THEN d.dimmed ELSE Black]
    <2>1. pixels = [at \in Leds |-> pixels[at]] /\ \A at \in Leds : pixels[at] \in {d.pixels[at], d.dimmed, Black}
      BY DEF Good, IsDisplay
    <2>2. WritePixel(d, led, lit) = Over(pixels)
      BY DEF WritePixel, Good, IsDisplay
    <2> HIDE DEF pixels
    <2>3. Fits(pixels)
      BY <2>1, <1>2 DEF IsLit
    <2> HIDE DEF Fits
    <2> QED
      BY <1>1, <2>2, <2>3
  <1> QED
    BY <1>3, <1>4, <1>5

\* Every pixel of a trail has one of the fade steps.
FadesInSteps(trail) ==
  \A led \in Leds : led \in DOMAIN trail => trail[led] \in 1 .. kTrailFadeSteps

\* A frame that is drawn is unlit, at the colour, or at a step of the trail.
LEMMA DrawingKeepsGood ==
  ASSUME NEW d, Good(d), NEW letters, NEW trail, FadesInSteps(trail)
  PROVE  Good(Draw(d, letters, trail))
  <1> DEFINE pixels == [at \in Leds |->
               IF at \in letters THEN d.dimmed
               ELSE IF at \in DOMAIN trail THEN TrailColour(d, trail[at]) ELSE Black]
  <1>1. ASSUME NEW at \in Leds, IsLit(pixels[at]) PROVE pixels[at] \in Worn(d)
    BY <1>1 DEF IsLit, FadesInSteps, Worn
  <1>2. pixels = [at \in Leds |-> pixels[at]]
    OBVIOUS
  <1>3. Draw(d, letters, trail) = [d EXCEPT !.pixels = pixels]
    BY DEF Draw
  <1> HIDE DEF pixels
  <1> QED
    BY <1>1, <1>2, <1>3, PixelsKeepGood

LEMMA LimitKeepsShape ==
  ASSUME NEW d, IsDisplay(d), Dark(d)
  PROVE  IsDisplay(ApplyCurrentLimit(d)) /\ Dark(ApplyCurrentLimit(d))
  BY DEF IsDisplay, Dark, ApplyCurrentLimit

LEMMA ResetMakesGood ==
  ASSUME NEW d, NEW read, Good(d) PROVE Good(ResetToDefaults(d, read))
  <1> DEFINE other == [d EXCEPT !.color = White, !.brightness = 255, !.automatic = FALSE,
                                !.gamma = FALSE, !.night = 255]
             limited == ApplyCurrentLimit(other)
  <1>1. IsDisplay(other) /\ Dark(other)
    <2> DEFINE first == [d EXCEPT !.color = White, !.brightness = 255]
               second == [first EXCEPT !.automatic = FALSE, !.gamma = FALSE]
    <2>1. IsDisplay(first)
      <3>1. d = [field \in Fields |-> d[field]] /\ d.pixels = [led \in Leds |-> d.pixels[led]]
        BY DEF Good, IsDisplay
      <3>2. first = [field \in Fields |-> first[field]] /\ first.pixels = d.pixels
        BY <3>1
      <3> QED
        BY <3>1, <3>2 DEF IsDisplay
    <2>0. Dark(first)
      <3>1. IsDisplay(d) /\ Dark(d)
        BY DEF Good
      <3>2. first.enabled = d.enabled /\ first.master = d.master
        BY <3>1 DEF IsDisplay
      <3> QED
        BY <3>1, <3>2 DEF Dark
    <2>2. IsDisplay(second) /\ Dark(second)
      <3> HIDE DEF first
      <3> QED
        BY <2>1, <2>0 DEF IsDisplay, Dark
    <2>3. IsDisplay([second EXCEPT !.night = 255]) /\ Dark([second EXCEPT !.night = 255])
      <3> HIDE DEF second
      <3> QED
        BY <2>2 DEF IsDisplay, Dark
    <2>4. other = [second EXCEPT !.night = 255]
      OBVIOUS
    <2> QED
      BY <2>3, <2>4
  <1>2. IsDisplay(limited) /\ Dark(limited)
    <2> HIDE DEF other
    <2> QED
      BY <1>1, LimitKeepsShape
  <1>3. IsDisplay([limited EXCEPT !.applied = CalcBrightness(other, read)])
        /\ Dark([limited EXCEPT !.applied = CalcBrightness(other, read)])
    BY <1>2 DEF IsDisplay, Dark
  <1>4. IsDisplay(ApplyBrightness(other, read)) /\ Dark(ApplyBrightness(other, read))
    BY <1>2, <1>3, ColorMakesGood DEF ApplyBrightness, Good
  <1> QED
    BY <1>4, ColorMakesGood DEF ResetToDefaults
IInv == Good(display)

\* The display has been through its first task: the brightness was applied to what was made.
LEMMA InitGood == Init => IInv /\ scenario \in DOMAIN Scenarios
  <1> SUFFICES ASSUME Init PROVE Good(ApplyBrightness(Constructed, SilentSensor))
    BY DEF Init, IInv
  <1> DEFINE limited == ApplyCurrentLimit(Constructed)
             other == [limited EXCEPT !.applied = CalcBrightness(Constructed, SilentSensor)]
  <1>1. IsDisplay(Constructed) /\ Dark(Constructed)
    BY DEF IsDisplay, Dark, Constructed
  <1>2. IsDisplay(limited) /\ Dark(limited)
    BY <1>1, LimitKeepsShape
  <1>3. IsDisplay(other) /\ Dark(other)
    <2> HIDE DEF limited
    <2> QED
      BY <1>2 DEF IsDisplay, Dark
  <1>4. CalcBrightness(Constructed, SilentSensor) # Constructed.applied
    <2>1. CalcConfiguredBrightness(Constructed, SilentSensor) = 255
      BY DEF CalcConfiguredBrightness, Constructed
    <2>2. ScaleByLevel(255, 255) = 255
      BY DEF ScaleByLevel
    <2>3. Constructed.night = 255 /\ Constructed.fade = 255 /\ Constructed.applied = 0
      BY DEF Constructed
    <2> QED
      BY <2>1, <2>2, <2>3 DEF CalcBrightness
  <1>5. ApplyBrightness(Constructed, SilentSensor) = ApplyColor(other)
    BY <1>4 DEF ApplyBrightness
  <1> QED
    BY <1>3, <1>5, ColorMakesGood

LEMMA OptionGood == IInv /\ HandleOption => IInv'
  <1> SUFFICES ASSUME IInv, HandleOption PROVE Good(display')
    BY DEF IInv
  <1> USE DEF IInv
  <1>1. CASE RefuseOption
    BY <1>1 DEF RefuseOption
  <1> DEFINE option == Head(line.todo).option
             value == Head(line.todo).value
  <1>2. CASE DisplayColorOption(option, value)
    BY <1>2, ColoursKeepGood DEF DisplayColorOption
  <1>3. CASE DisplayBrightnessOption(option, value)
    <2>1. PICK wanted : display' \in {SetBrightness(display, sensor, value),
                                     SetUseAutomatic(display, sensor, wanted),
                                     SetUseGammaCorrection(display, sensor, wanted)}
      BY <1>3 DEF DisplayBrightnessOption
    <2> QED
      BY <2>1, SettersKeepGood
  <1>4. CASE UNCHANGED display
    BY <1>4
  <1>5. ASSUME NEW command, \/ SetOption(command, option, value)
                            \/ CollectOption(command, option, value)
                            \/ SetOverlayOption(command, option, value)
                            \/ IgnoreText(command, value)
        PROVE  UNCHANGED display
    BY <1>5 DEF SetOption, CollectOption, SetOverlayOption, IgnoreText
  <1>6. CASE \/ DisplayPixelOption(option, value)
             \/ OverlayDateOption(option, value)
             \/ OverlayTemperatureOption(option, value)
             \/ OverlayTextOption(option, value)
             \/ ClockModeOption(option, value)
             \/ AnimationOption(option, value)
             \/ DateTimeOption(line.command, option, value)
             \/ NightSwitchOption(option, value)
             \/ ColorCycleOption(option, value)
             \/ NetworkOption(option, value)
             \/ ConsoleOption(option, value)
             \/ ProcedureOption(option, value)
    BY <1>4, <1>5, <1>6 DEF DisplayPixelOption, OverlayDateOption, OverlayTemperatureOption,
       OverlayTextOption, ClockModeOption, AnimationOption,
       DateTimeOption, NightSwitchOption, ColorCycleOption, NetworkOption, ConsoleOption, ProcedureOption
  <1> QED
    BY <1>1, <1>2, <1>3, <1>6 DEF HandleOption

LEMMA ProcedureGood ==
  ASSUME Good(display), NEW id \in DisplayProcedures PROVE Good(DisplayAfter(id))
  <1>1. CASE id \in {3, 4, 5, 37}
    BY <1>1, SwitchesKeepGood DEF DisplayAfter
  <1>2. CASE id \in {6, 7}
    BY <1>2, WritersKeepGood DEF DisplayAfter
  <1>3. CASE id \in 8 .. 10 \cup 11 .. 13 \cup {40}
    BY <1>3, ColoursKeepGood DEF DisplayAfter
  <1>4. CASE id \in {14, 15, 38, 39}
    BY <1>4, SettersKeepGood DEF DisplayAfter
  <1>5. CASE id \in 16 .. 19
    BY <1>5, OtherFields DEF DisplayAfter
  <1> QED
    BY <1>1, <1>2, <1>3, <1>4, <1>5 DEF DisplayProcedures

LEMMA ProcessGood == IInv /\ Process => IInv'
  <1> SUFFICES ASSUME IInv, Process PROVE Good(display')
    BY DEF IInv
  <1> USE DEF IInv
  <1>1. CASE ProcessPixel
    BY <1>1, WritersKeepGood DEF ProcessPixel
  <1>2. CASE ProcessColorCycle
    BY <1>2, ColoursKeepGood DEF ProcessColorCycle, SetIsActive
  <1>3. CASE ProcessDisplayProcedure
    BY <1>3, ProcedureGood DEF ProcessDisplayProcedure, GivenOr, DisplayProcedures
  <1>4. CASE ProcessReset
    BY <1>4, ResetMakesGood, ColoursKeepGood DEF ProcessReset
  <1>5. CASE \/ ProcessNothing \/ ProcessAnimation \/ ProcessDateTime \/ ProcessNightSwitch
             \/ ProcessNetwork \/ ProcessConsole \/ ProcessCalibration \/ ProcessStep \/ ProcessNoProcedure
    BY <1>5 DEF ProcessNothing, ProcessAnimation, ProcessDateTime, ProcessNightSwitch,
       ProcessNetwork, ProcessConsole, ProcessCalibration, ProcessStep, ProcessNoProcedure
  <1> QED
    BY <1>1, <1>2, <1>3, <1>4, <1>5 DEF Process

\* Nothing changes the scenario.
LEMMA OptionKeepsScenario == HandleOption => UNCHANGED scenario
  <1> DEFINE option == Head(line.todo).option
             value == Head(line.todo).value
  <1> SUFFICES ASSUME HandleOption PROVE UNCHANGED scenario
    OBVIOUS
  <1>1. CASE RefuseOption \/ DisplayColorOption(option, value) \/ DisplayBrightnessOption(option, value)
             \/ DisplayPixelOption(option, value)
    BY <1>1 DEF RefuseOption, DisplayColorOption, DisplayBrightnessOption, DisplayPixelOption
  <1>2. ASSUME NEW command, \/ SetOption(command, option, value)
                            \/ CollectOption(command, option, value)
                            \/ SetOverlayOption(command, option, value)
                            \/ IgnoreText(command, value)
                            \/ DateTimeOption(command, option, value)
        PROVE  UNCHANGED scenario
    BY <1>2 DEF SetOption, CollectOption, SetOverlayOption, IgnoreText, DateTimeOption
  <1>3. CASE \/ OverlayDateOption(option, value)
             \/ OverlayTemperatureOption(option, value)
             \/ OverlayTextOption(option, value)
             \/ ClockModeOption(option, value)
             \/ AnimationOption(option, value)
             \/ DateTimeOption(line.command, option, value)
             \/ NightSwitchOption(option, value)
             \/ ColorCycleOption(option, value)
             \/ NetworkOption(option, value)
             \/ ConsoleOption(option, value)
             \/ ProcedureOption(option, value)
    BY <1>2, <1>3 DEF OverlayDateOption, OverlayTemperatureOption,
       OverlayTextOption, ClockModeOption, AnimationOption,
       NightSwitchOption, ColorCycleOption, NetworkOption, ConsoleOption, ProcedureOption
  <1> QED
    BY <1>1, <1>3 DEF HandleOption

LEMMA ScenarioStays == [Next]_vars => UNCHANGED scenario
  <1> SUFFICES ASSUME [Next]_vars PROVE UNCHANGED scenario
    OBVIOUS
  <1>1. CASE Process
    BY <1>1 DEF Process, ProcessNothing, ProcessPixel, ProcessAnimation, ProcessDateTime, ProcessNightSwitch,
       ProcessColorCycle, ProcessNetwork, ProcessConsole, ProcessDisplayProcedure, ProcessCalibration,
       ProcessReset, ProcessStep, ProcessNoProcedure
  <1>2. CASE \/ Receive \/ BrightnessTask \/ DrawLetters \/ TakeNightLevel \/ TakeFadeLevel
             \/ CycleTask \/ SensorTask
    BY <1>2 DEF Receive, BrightnessTask, DrawLetters, TakeNightLevel, TakeFadeLevel, CycleTask, SensorTask
  <1>3. CASE UNCHANGED vars
    BY <1>3 DEF vars
  <1> QED
    BY <1>1, <1>2, <1>3, OptionKeepsScenario DEF Next

\* The inductive invariant of the letters: the display is good, and its frames come from a scenario.
LitInv == IInv /\ scenario \in DOMAIN Scenarios

LEMMA StepGood == LitInv /\ [Next]_vars => LitInv'
  <1> SUFFICES ASSUME IInv, scenario \in DOMAIN Scenarios, [Next]_vars PROVE IInv'
    BY ScenarioStays DEF LitInv
  <1>1. CASE Receive
    BY <1>1 DEF Receive, IInv
  <1>2. CASE HandleOption
    BY <1>2, OptionGood
  <1>3. CASE Process
    BY <1>3, ProcessGood
  <1>4. CASE BrightnessTask
    BY <1>4, BrightnessKeepsGood DEF BrightnessTask, IInv
  <1>5. CASE DrawLetters
    <2>1. PICK letters \in Scenarios[scenario].faces, trail \in Scenarios[scenario].trails :
            display' = Draw(display, letters, trail)
      BY <1>5 DEF DrawLetters
    <2>2. FadesInSteps(trail)
      BY <2>1, ScenarioAssumption DEF FadesInSteps
    <2> QED
      BY <2>1, <2>2, DrawingKeepsGood DEF IInv
  <1>6. CASE TakeNightLevel \/ TakeFadeLevel
    BY <1>6, SettersKeepGood DEF TakeNightLevel, TakeFadeLevel, IInv
  <1>7. CASE CycleTask
    BY <1>7, ColoursKeepGood DEF CycleTask, IInv
  <1>8. CASE SensorTask
    BY <1>8 DEF SensorTask, IInv
  <1>9. CASE UNCHANGED vars
    BY <1>9 DEF vars, IInv
  <1> QED
    BY <1>1, <1>2, <1>3, <1>4, <1>5, <1>6, <1>7, <1>8, <1>9 DEF Next

\* Disable() writes nothing to the strip's master, and no colour, brightness, hue, test or reset
\* puts anything there before Enable() does: NightSwitch and a phone can rely on it.
THEOREM OffStaysDarkAlways == Spec => []OffStaysDark
  <1>1. LitInv => OffStaysDark
    BY DEF LitInv, IInv, Good, Dark, OffStaysDark
  <1>2. Init => LitInv
    BY InitGood DEF LitInv
  <1> QED
    BY <1>2, StepGood, <1>1, PTL DEF Spec

\* The pixel buffer is the only memory of the face, and every letter in it follows the colour and
\* the brightness that were applied last, whole or, behind a drop of the matrix animation, at one
\* of the six steps of its trail.
THEOREM LettersAlwaysWearTheColour == Spec => []LettersWearTheColour
  <1>1. LitInv => LettersWearTheColour
    BY DEF LitInv, IInv, Good, Wears, Lit, LettersWearTheColour
  <1>2. Init => LitInv
    BY InitGood DEF LitInv
  <1> QED
    BY <1>2, StepGood, <1>1, PTL DEF Spec
-----------------------------------------------------------------------------

(* What a recursive definition computes is proved over sets of numbers, as *)
(* the theorems of the library that take a predicate cannot be cited.      *)

\* A set that holds nothing, and the next one of each of its numbers, holds every number.
LEMMA EveryNumber ==
  ASSUME NEW T, 0 \in T, \A n \in Nat : n \in T => n + 1 \in T PROVE Nat \subseteq T
  <1> DEFINE S == Nat \ T
  <1> SUFFICES ASSUME S # {} PROVE FALSE
    OBVIOUS
  <1>1. PICK u \in S : \A v \in S : << v, u >> \notin OpToRel(<, Nat)
    BY NatLessThanWellFounded, WFMin
  <1>2. u \in Nat /\ u # 0
    OBVIOUS
  <1>3. u - 1 \in Nat /\ u - 1 < u /\ (u - 1) + 1 = u
    BY <1>2
  <1>4. << u - 1, u >> \in OpToRel(<, Nat)
    BY <1>2, <1>3 DEF OpToRel
  <1>5. u - 1 \in T
    BY <1>1, <1>3, <1>4
  <1> QED
    BY <1>3, <1>5, <1>2

(* The sum over a set, as the folds of the library work it out. *)
Summed(f, summand, S) ==
  f = [s \in SUBSET S |-> IF s = {} THEN 0
                          ELSE summand[CHOOSE x \in s : TRUE] + f[s \ {CHOOSE x \in s : TRUE}]]

\* Up to a number of elements.
SummedUpTo(f, summand, S, n) ==
  f = [s \in {t \in SUBSET S : Cardinality(t) <= n} |->
         IF s = {} THEN 0 ELSE summand[CHOOSE x \in s : TRUE] + f[s \ {CHOOSE x \in s : TRUE}]]

\* Taking the chosen element from a finite set leaves one that is smaller by one.
LEMMA OneLess ==
  ASSUME NEW S, IsFiniteSet(S), NEW s \in SUBSET S, s # {}
  PROVE  LET x == CHOOSE x \in s : TRUE
         IN /\ x \in s /\ s \ {x} \in SUBSET S
            /\ Cardinality(s) \in Nat /\ Cardinality(s \ {x}) \in Nat
            /\ Cardinality(s \ {x}) = Cardinality(s) - 1
  <1> DEFINE x == CHOOSE x \in s : TRUE
  <1>1. x \in s
    OBVIOUS
  <1>2. IsFiniteSet(s)
    BY FS_Subset
  <1> HIDE DEF x
  <1>3. Cardinality(s \ {x}) = Cardinality(s) - 1 /\ IsFiniteSet(s \ {x})
    BY <1>1, <1>2, FS_RemoveElement
  <1> QED
    BY <1>1, <1>2, <1>3, FS_CardinalityType DEF x

\* There is a function that sums over every subset of a finite set.
LEMMA SumsExist ==
  ASSUME NEW S, IsFiniteSet(S), NEW summand PROVE \E f : Summed(f, summand, S)
  <1> DEFINE T == {n \in Nat : \E f : SummedUpTo(f, summand, S, n)}
             Below(n) == {t \in SUBSET S : Cardinality(t) <= n}
             Body(f, s) == IF s = {} THEN 0
                           ELSE summand[CHOOSE x \in s : TRUE] + f[s \ {CHOOSE x \in s : TRUE}]
  <1>1. 0 \in T
    <2> DEFINE f == [s \in Below(0) |-> 0]
    <2>1. \A s \in Below(0) : s = {}
      <3> TAKE s \in Below(0)
      <3>1. IsFiniteSet(s)
        BY FS_Subset
      <3> QED
        BY <3>1, FS_EmptySet, FS_CardinalityType
    <2>2. f = [s \in Below(0) |-> Body(f, s)]
      BY <2>1
    <2>3. SummedUpTo(f, summand, S, 0)
      BY <2>2 DEF SummedUpTo
    <2> QED
      BY <2>3
  <1>2. ASSUME NEW n \in Nat, n \in T PROVE n + 1 \in T
    <2>1. PICK f : SummedUpTo(f, summand, S, n)
      BY <1>2
    <2> DEFINE g == [s \in Below(n + 1) |-> Body(f, s)]
    <2>2. \A s \in Below(n) : f[s] = Body(f, s) /\ s \in Below(n + 1)
      <3> TAKE s \in Below(n)
      <3>1. f[s] = Body(f, s)
        BY <2>1 DEF SummedUpTo
      <3>2. IsFiniteSet(s)
        BY FS_Subset
      <3> QED
        BY <3>1, <3>2, FS_CardinalityType
    <2>3. ASSUME NEW s \in Below(n + 1) PROVE Body(f, s) = Body(g, s)
      <3>1. CASE s = {}
        BY <3>1
      <3>2. CASE s # {}
        <4> DEFINE x == CHOOSE x \in s : TRUE
        <4>1. s \ {x} \in Below(n)
          BY <3>2, OneLess
        <4>2. f[s \ {x}] = g[s \ {x}]
          <5> HIDE DEF x
          <5>1. f[s \ {x}] = Body(f, s \ {x}) /\ s \ {x} \in Below(n + 1)
            BY <4>1, <2>2
          <5> HIDE DEF Body
          <5> QED
            BY <5>1
        <4> QED
          BY <4>2
      <3> QED
        BY <3>1, <3>2
    <2>4. g = [s \in Below(n + 1) |-> Body(g, s)]
      <3> HIDE DEF Body
      <3> QED
        BY <2>3
    <2>5. SummedUpTo(g, summand, S, n + 1)
      BY <2>4 DEF SummedUpTo
    <2> QED
      BY <2>5
  <1>3. Cardinality(S) \in T
    <2>1. Nat \subseteq T
      <3> HIDE DEF T
      <3> QED
        BY <1>1, <1>2, EveryNumber
    <2> QED
      BY <2>1, FS_CardinalityType
  <1>4. Below(Cardinality(S)) = SUBSET S
    BY FS_Subset
  <1> QED
    BY <1>3, <1>4 DEF SummedUpTo, Summed

\* No more than there are of the ones that weigh anything, times the most that one of them weighs.
LEMMA SumOfShares ==
  ASSUME NEW S, IsFiniteSet(S), NEW some, some \subseteq S, NEW share \in Nat, NEW summand,
         \A x \in S : summand[x] \in Nat /\ summand[x] <= share /\ (x \notin some => summand[x] = 0),
         NEW f, Summed(f, summand, S)
  PROVE  f[S] \in Nat /\ f[S] <= Cardinality(some) * share
  <1> DEFINE Right(s) == f[s] \in Nat /\ f[s] <= Cardinality(s \cap some) * share
             T == {n \in Nat : \A s \in SUBSET S : Cardinality(s) = n => Right(s)}
  <1>0. ASSUME NEW s \in SUBSET S
        PROVE  f[s] = IF s = {} THEN 0
                      ELSE summand[CHOOSE x \in s : TRUE] + f[s \ {CHOOSE x \in s : TRUE}]
    BY DEF Summed
  <1>1. 0 \in T
    <2> SUFFICES ASSUME NEW s \in SUBSET S, Cardinality(s) = 0 PROVE Right(s)
      OBVIOUS
    <2>1. s = {}
      BY FS_Subset, FS_EmptySet
    <2>2. Cardinality(s \cap some) = 0 /\ 0 * share = 0
      BY <2>1, FS_EmptySet
    <2>3. f[s] = 0
      BY <2>1, <1>0
    <2> QED
      BY <2>2, <2>3
  <1>2. ASSUME NEW n \in Nat, n \in T PROVE n + 1 \in T
    <2> SUFFICES ASSUME NEW s \in SUBSET S, Cardinality(s) = n + 1 PROVE Right(s)
      OBVIOUS
    <2>0. s # {}
      BY FS_EmptySet
    <2>1. PICK x : x = CHOOSE y \in s : TRUE
      OBVIOUS
    <2>2. /\ x \in s /\ s \ {x} \in SUBSET S
          /\ Cardinality(s \ {x}) = n
      BY <2>0, <2>1, OneLess
    <2>3. f[s \ {x}] \in Nat /\ f[s \ {x}] <= Cardinality((s \ {x}) \cap some) * share
      BY <1>2, <2>2
    <2>4. f[s] = summand[x] + f[s \ {x}]
      BY <1>0, <2>0, <2>1
    <2>5. IsFiniteSet(s \cap some) /\ Cardinality(s \cap some) \in Nat
          /\ Cardinality((s \ {x}) \cap some) \in Nat
      BY FS_Subset, FS_CardinalityType
    <2>6. CASE x \in some
      <3>1. (s \ {x}) \cap some = (s \cap some) \ {x}
        OBVIOUS
      <3>2. Cardinality((s \ {x}) \cap some) = Cardinality(s \cap some) - 1
        BY <3>1, <2>5, <2>6, <2>2, FS_RemoveElement
      <3>3. summand[x] \in Nat /\ summand[x] <= share
        BY <2>2
      <3>4. ASSUME NEW k \in Nat, NEW m \in Nat, k = m - 1, NEW a \in Nat, a <= share, NEW b \in Nat, b <= k * share
            PROVE  a + b <= m * share
        <4>1. m * share = k * share + share /\ k * share \in Nat
          BY <3>4
        <4> QED
          BY <4>1, <3>4
      <3> QED
        BY <3>2, <3>3, <2>3, <2>4, <2>5, <3>4
    <2>7. CASE x \notin some
      <3>1. (s \ {x}) \cap some = s \cap some
        BY <2>7
      <3>2. summand[x] = 0
        BY <2>7, <2>2
      <3>3. f[s] = f[s \ {x}]
        BY <3>2, <2>3, <2>4
      <3> QED
        BY <3>1, <3>3, <2>3
    <2> QED
      BY <2>6, <2>7
  <1>3. Nat \subseteq T
    <2> HIDE DEF T
    <2> QED
      BY <1>1, <1>2, EveryNumber
  <1>4. Cardinality(S) \in T
    BY <1>3, FS_CardinalityType
  <1>5. S \cap some = some
    OBVIOUS
  <1> QED
    BY <1>4, <1>5


\* What all the LEDs draw is a sum of this kind.
LEMMA DrawnIsSummed ==
  ASSUME NEW d, NEW summand, \A led \in Leds : summand[led] = ChannelSum(GetOutputPixel(d, led))
  PROVE  \E f : Summed(f, summand, Leds) /\ CurrentDrawn(d) = IdleCurrent + (f[Leds] * 20000) \div 255
  <1> DEFINE Right(f) ==
        f = [s \in SUBSET Leds |->
               IF s = {} THEN 0
               ELSE ChannelSum(GetOutputPixel(d, CHOOSE x \in s : TRUE)) + f[s \ {CHOOSE x \in s : TRUE}]]
  <1>1. ASSUME NEW f PROVE Right(f) <=> Summed(f, summand, Leds)
    <2>1. ASSUME NEW s \in SUBSET Leds, s # {}
          PROVE  summand[CHOOSE x \in s : TRUE] = ChannelSum(GetOutputPixel(d, CHOOSE x \in s : TRUE))
      <3>1. PICK x : x = CHOOSE y \in s : TRUE
        OBVIOUS
      <3>2. x \in s
        BY <2>1, <3>1
      <3>3. summand[x] = ChannelSum(GetOutputPixel(d, x))
        BY <3>2
      <3> QED
        BY <3>1, <3>3
    <2> DEFINE Left(s) ==
                 IF s = {} THEN 0
                 ELSE summand[CHOOSE x \in s : TRUE] + f[s \ {CHOOSE x \in s : TRUE}]
               Other(s) == IF s = {} THEN 0
                           ELSE ChannelSum(GetOutputPixel(d, CHOOSE x \in s : TRUE)) + f[s \ {CHOOSE x \in s : TRUE}]
    <2>2. \A s \in SUBSET Leds : Left(s) = Other(s)
      BY <2>1
    <2>3. [s \in SUBSET Leds |-> Left(s)] = [s \in SUBSET Leds |-> Other(s)]
      <3> HIDE DEF Left, Other
      <3> QED
        BY <2>2
    <2> QED
      BY <2>3 DEF Summed
  <1> DEFINE total == CHOOSE f : Right(f)
  <1>2. \E f : Right(f)
    <2>1. PICK f : Summed(f, summand, Leds)
      BY SumsExist, LightAssumption
    <2> HIDE DEF Right
    <2> QED
      BY <1>1, <2>1
  <1>3. Right(total)
    <2> HIDE DEF Right
    <2> QED
      BY <1>2
  <1>4. Summed(total, summand, Leds)
    <2> HIDE DEF Right, total
    <2> QED
      BY <1>1, <1>3
  <1>5. CurrentDrawn(d) = IdleCurrent + (total[Leds] * 20000) \div 255
    BY DEF CurrentDrawn, MapThenSumSet, MapThenFoldSet
  <1> HIDE DEF total
  <1> QED
    BY <1>4, <1>5
-----------------------------------------------------------------------------

(* The arithmetic of the dimming and of the current limit. *)

\* A colour that is dimmed loses none of its channels and gains nothing.
LEMMA DimmedIsBetween ==
  ASSUME NEW value \in Byte, NEW brightness \in Byte
  PROVE  /\ DimmColor(value, brightness) \in 0 .. value
         /\ DimmColor(value, brightness) = 0 <=> value = 0
  <1>1. value * brightness \in Nat /\ value * brightness <= 255 * value
    BY DEF Byte
  <1>2. CASE value = 0
    BY <1>2 DEF DimmColor
  <1>3. CASE value # 0 /\ value * brightness < 256
    BY <1>3 DEF DimmColor, Byte
  <1>4. CASE value # 0 /\ ~(value * brightness < 256)
    <2> DEFINE product == value * brightness
    <2>1. product \in Nat /\ product <= 255 * value /\ product >= 256
      BY <1>1, <1>4
    <2>2. DimmColor(value, brightness) = product \div 256
      BY <1>4 DEF DimmColor
    <2> HIDE DEF product
    <2>3. product \div 256 \in 1 .. value
      BY <2>1 DEF Byte
    <2> QED
      BY <2>2, <2>3
  <1> QED
    BY <1>2, <1>3, <1>4

\* What a level leaves of a value.
LEMMA ScaledIsBetween ==
  ASSUME NEW value \in Byte, NEW level \in Byte
  PROVE  /\ ScaleByLevel(value, level) \in 0 .. value
         /\ 256 * ScaleByLevel(value, level) <= value * (level + 1)
         /\ level = 255 => ScaleByLevel(value, level) = value
         /\ level = 0 => ScaleByLevel(value, level) = 0
  <1> DEFINE product == value * (level + 1)
  <1>1. product \in Nat /\ product <= 256 * value
    BY DEF Byte
  <1>2. level = 255 => product = 256 * value
    BY DEF Byte
  <1>3. level = 0 => product = value
    BY DEF Byte
  <1>4. ScaleByLevel(value, level) = product \div 256
    BY DEF ScaleByLevel
  <1> HIDE DEF product
  <1>5. /\ product \div 256 \in 0 .. value
        /\ 256 * (product \div 256) <= product
        /\ level = 255 => product \div 256 = value
        /\ level = 0 => product \div 256 = 0
    BY <1>1, <1>2, <1>3 DEF Byte
  <1> QED
    BY <1>4, <1>5 DEF product

\* The limit's arithmetic: what the letters draw at full, what they draw at the master it gives,
\* and what is left for them.
LEMMA LimitKeepsBudget ==
  ASSUME NEW lit \in Nat, NEW sum \in Nat, NEW share \in Nat, NEW master \in Nat,
         256 * share <= sum * (master + 1), share <= sum,
         master = ToBrightnessLimit(lit, sum) \/ master = 0, master = 0 => share = 0,
         Available \in Nat
  PROVE  (lit * share * 20000) \div 255 <= Available + LitCurrentAtFull(lit, sum) \div 256 + 1
  <1> DEFINE full == lit * sum * 20000
             part == lit * share * 20000
             most == full \div 255
  <1>1. full \in Nat /\ part \in Nat
    BY DEF Byte
  <1>2. LitCurrentAtFull(lit, sum) = most /\ most \in Nat /\ 255 * most <= full /\ full < 255 * most + 255
    <2> HIDE DEF full
    <2>1. LitCurrentAtFull(lit, sum) = most
      BY DEF LitCurrentAtFull, full
    <2> QED
      BY <2>1, <1>1
  <1>3. part <= full
    <2>1. lit * share <= lit * sum /\ lit * share \in Nat /\ lit * sum \in Nat
      BY SMT
    <2> QED
      BY <2>1
  <1>4. 256 * part <= full * (master + 1)
    <2>1. 256 * part = lit * 20000 * (256 * share)
      OBVIOUS
    <2>2. full * (master + 1) = lit * 20000 * (sum * (master + 1))
      OBVIOUS
    <2>3. \A a, b, c \in Nat : b <= c => a * b <= a * c
      OBVIOUS
    <2>4. lit * 20000 \in Nat /\ 256 * share \in Nat /\ sum * (master + 1) \in Nat
      OBVIOUS
    <2> QED
      BY <2>1, <2>2, <2>3, <2>4
  <1> HIDE DEF full, most
  <1>5. CASE master = 0
    <2>1. part = 0
      BY <1>5
    <2> HIDE DEF part
    <2> QED
      BY <2>1, <1>2 DEF part
  <1>6. CASE master # 0 /\ most <= Available
    <2> HIDE DEF part
    <2>1. part \div 255 <= most
      BY <1>1, <1>2, <1>3
    <2> QED
      BY <2>1, <1>1, <1>2, <1>6 DEF part
  <1>7. CASE master # 0 /\ most > Available
    <2> HIDE DEF part
    <2>1. Available # 0 /\ master = (Available * 256) \div most
      BY <1>2, <1>7 DEF ToBrightnessLimit
    <2>2. master * most <= 256 * Available
      <3> DEFINE top == Available * 256
      <3>1. top \in Nat /\ most \in Nat \ {0} /\ master = top \div most
        BY <1>2, <1>7, <2>1
      <3> HIDE DEF top
      <3>2. master * most <= top
        BY <3>1
      <3> QED
        BY <3>2 DEF top
    <2>3. master <= 255
      <3>1. ASSUME master >= 256 PROVE FALSE
        <4>1. 256 * most <= master * most
          BY <3>1, <1>2
        <4> QED
          BY <4>1, <2>2, <1>2, <1>7
      <3> QED
        BY <3>1
    <2>4. full * (master + 1) <= (255 * most + 254) * (master + 1)
      BY <1>1, <1>2
    <2>5. (255 * most + 254) * (master + 1) = 255 * (master * most) + 255 * most + 254 * master + 254
      BY <1>2
    <2>6. 256 * part <= 255 * (256 * Available) + 255 * most + 254 * 256
      <3> DEFINE product == master * most
                 right == full * (master + 1)
                 mid == (255 * most + 254) * (master + 1)
      <3>1. product \in Nat /\ right \in Int /\ mid \in Int
        BY <1>1, <1>2
      <3>2. /\ 256 * part <= right /\ right <= mid
            /\ mid = 255 * product + 255 * most + 254 * master + 254
            /\ product <= 256 * Available
        BY <1>4, <2>2, <2>4, <2>5
      <3> HIDE DEF product, right, mid
      <3> QED
        BY <3>1, <3>2, <2>3, <1>1, <1>2
    <2>7. part \div 255 <= Available + most \div 256 + 1
      BY <2>6, <1>1, <1>2
    <2> QED
      BY <2>7, <1>2 DEF part
  <1> QED
    BY <1>5, <1>6, <1>7, <1>2

Colours == [Channels -> Byte]

\* What the display's fields hold, and that a display that is on is driven by the limit alone.
Typed(d) ==
  /\ d.color \in Colours /\ d.cycleColor \in Colours
  /\ d.brightness \in Byte /\ d.night \in Byte /\ d.fade \in Byte /\ d.applied \in Byte
  /\ d.enabled => d.master = d.limit
Sound(d) == Good(d) /\ Typed(d)

Readable == [ready : BOOLEAN, lux : Nat, failures : Nat, bright : Nat, dark : Nat]

\* The light in the room takes of a value only.
LEMMA IlluminanceIsBetween ==
  ASSUME NEW read \in Readable, NEW value \in Byte
  PROVE  /\ ToIlluminance(read, value) \in 0 .. value
         /\ read.lux >= read.bright /\ read.bright > read.dark => ToIlluminance(read, value) = value
  <1>0. read.lux \in Nat /\ read.bright \in Nat /\ read.dark \in Nat
    BY DEF Readable
  <1>1. CASE read.bright <= read.dark
    BY <1>0, <1>1 DEF ToIlluminance, Byte
  <1>2. CASE read.bright > read.dark /\ (read.lux <= read.dark \/ read.lux >= read.bright)
    BY <1>0, <1>2 DEF ToIlluminance, Byte
  <1>3. CASE read.bright > read.dark /\ read.lux > read.dark /\ read.lux < read.bright
    <2> DEFINE above == read.lux - read.dark
               span == read.bright - read.dark
               product == value * above
    <2>1. above \in Nat /\ span \in Nat \ {0} /\ above < span
      BY <1>0, <1>3
    <2>2. ToIlluminance(read, value) = product \div span
      BY <1>0, <1>3 DEF ToIlluminance
    <2> HIDE DEF above, span
    <2>3. product \in Nat /\ product <= value * span
      BY <2>1 DEF Byte
    <2> HIDE DEF product
    <2>4. product \div span \in 0 .. value
      BY <2>1, <2>3 DEF Byte
    <2> QED
      BY <2>2, <2>4, <1>0, <1>3
  <1> QED
    BY <1>0, <1>1, <1>2, <1>3

\* The gamma correction stays within a byte.
LEMMA CorrectedIsByte == ASSUME NEW value \in Byte PROVE CalcCorrectedValue(value) \in Byte
  <1> DEFINE at == (value \div 2) % 16
             less == value \div 32
             top == TopDoubling[at + 1]
  <1>1. at \in 0 .. 15 /\ less \in 0 .. 7
    BY DEF Byte
  <1> HIDE DEF at, less
  <1>2. top \in Byte
    BY <1>1 DEF TopDoubling, Byte
  <1> HIDE DEF top
  <1>3. ASSUME NEW by \in {1, 2, 4, 8, 16, 32, 64, 128} PROVE top \div by \in Byte
    BY <1>2, <1>3 DEF Byte
  <1>4. 2 ^ (7 - less) \in {1, 2, 4, 8, 16, 32, 64, 128}
    <2>1. 2 ^ 0 = 1 /\ 2 ^ 1 = 2 /\ 2 ^ 2 = 4 /\ 2 ^ 3 = 8
      BY SMT
    <2>2. 2 ^ 4 = 16 /\ 2 ^ 5 = 32 /\ 2 ^ 6 = 64 /\ 2 ^ 7 = 128
      BY SMT
    <2>3. PICK e \in {0, 1, 2, 3, 4, 5, 6, 7} : 7 - less = e
      BY <1>1
    <2>4. 2 ^ e \in {1, 2, 4, 8, 16, 32, 64, 128}
      <3> DEFINE Doubled(x) == 2 ^ x
                 Powers == {1, 2, 4, 8, 16, 32, 64, 128}
      <3>1. Doubled(0) \in Powers /\ Doubled(1) \in Powers /\ Doubled(2) \in Powers /\ Doubled(3) \in Powers
        BY <2>1
      <3>2. Doubled(4) \in Powers /\ Doubled(5) \in Powers /\ Doubled(6) \in Powers /\ Doubled(7) \in Powers
        BY <2>2
      <3> HIDE DEF Doubled, Powers
      <3>3. Doubled(e) \in Powers
        BY <3>1, <3>2
      <3> QED
        BY <3>3 DEF Doubled, Powers
    <2> QED
      BY <2>3, <2>4
  <1>5. CalcCorrectedValue(value) \in {0, top \div 2 ^ (7 - less)}
    BY DEF CalcCorrectedValue, top, at, less
  <1>6. 0 \in Byte
    BY DEF Byte
  <1> QED
    BY <1>3, <1>4, <1>5, <1>6

Asked(d) == IF d.gamma THEN CalcCorrectedValue(d.brightness) ELSE d.brightness

\* The automatic dims and never brightens, and what asks for less than the floor is left alone.
LEMMA ConfiguredIsByte ==
  ASSUME NEW d, Typed(d), NEW read \in Readable
  PROVE  /\ Asked(d) \in Byte
         /\ CalcConfiguredBrightness(d, read) =
              IF d.automatic THEN CalcBrightnessAutomatic(read, Asked(d)) ELSE Asked(d)
         /\ CalcBrightnessAutomatic(read, Asked(d)) \in 0 .. Asked(d)
         /\ Asked(d) < AutomaticFloor => CalcBrightnessAutomatic(read, Asked(d)) = Asked(d)
         /\ Asked(d) >= AutomaticFloor => CalcBrightnessAutomatic(read, Asked(d)) >= AutomaticFloor
         /\ read.lux >= read.bright /\ read.bright > read.dark => CalcBrightnessAutomatic(read, Asked(d)) = Asked(d)
         /\ CalcBrightness(d, read) \in Byte
         /\ d.night = 255 /\ d.fade = 255 => CalcBrightness(d, read) = CalcConfiguredBrightness(d, read)
  <1>1. Asked(d) \in Byte
    BY CorrectedIsByte DEF Asked, Typed
  <1>2. CalcConfiguredBrightness(d, read) =
          IF d.automatic THEN CalcBrightnessAutomatic(read, Asked(d)) ELSE Asked(d)
    BY DEF CalcConfiguredBrightness, Asked
  <1> DEFINE asked == Asked(d)
             lit == ToIlluminance(read, asked)
  <1>3. lit \in 0 .. asked /\ (read.lux >= read.bright /\ read.bright > read.dark => lit = asked)
    BY <1>1, IlluminanceIsBetween
  <1>4. /\ CalcBrightnessAutomatic(read, asked) \in 0 .. asked
        /\ asked < AutomaticFloor => CalcBrightnessAutomatic(read, asked) = asked
        /\ asked >= AutomaticFloor => CalcBrightnessAutomatic(read, asked) >= AutomaticFloor
        /\ read.lux >= read.bright /\ read.bright > read.dark => CalcBrightnessAutomatic(read, asked) = asked
    <2> HIDE DEF asked
    <2> QED
      BY <1>1, <1>3 DEF CalcBrightnessAutomatic, AutomaticFloor, Byte, asked
  <1>5. CalcConfiguredBrightness(d, read) \in Byte
    BY <1>1, <1>2, <1>4 DEF Byte
  <1>6. CalcBrightness(d, read) = ScaleByLevel(ScaleByLevel(CalcConfiguredBrightness(d, read), d.night), d.fade)
    BY DEF CalcBrightness
  <1>7. ASSUME NEW v \in Byte, NEW l \in Byte, NEW m \in Byte
        PROVE  ScaleByLevel(ScaleByLevel(v, l), m) \in Byte
               /\ (l = 255 /\ m = 255 => ScaleByLevel(ScaleByLevel(v, l), m) = v)
    <2>0. ScaleByLevel(v, l) \in 0 .. v /\ (l = 255 => ScaleByLevel(v, l) = v)
      BY ScaledIsBetween
    <2>1. ScaleByLevel(v, l) \in Byte
      BY <2>0 DEF Byte
    <2>2. ScaleByLevel(ScaleByLevel(v, l), m) \in 0 .. ScaleByLevel(v, l)
      BY <2>1, ScaledIsBetween
    <2>3. m = 255 => ScaleByLevel(ScaleByLevel(v, l), m) = ScaleByLevel(v, l)
      BY <2>1, ScaledIsBetween
    <2> QED
      BY <2>0, <2>1, <2>2, <2>3 DEF Byte
  <1>8. d.night \in Byte /\ d.fade \in Byte
    BY DEF Typed
  <1> QED
    BY <1>1, <1>2, <1>4, <1>5, <1>6, <1>7, <1>8

\* A colour is black once dimmed only if it was black.
LEMMA DimmedKeepsBlack ==
  ASSUME NEW d, Typed(d)
  PROVE  /\ GetColorToShow(d) \in Colours /\ Dimmed(d) \in Colours
         /\ \A c \in Channels : Dimmed(d)[c] \in 0 .. GetColorToShow(d)[c]
         /\ Dimmed(d) = Black <=> GetColorToShow(d) = Black
  <1>1. GetColorToShow(d) \in Colours
    BY DEF Typed, GetColorToShow
  <1>2. ASSUME NEW c \in Channels
        PROVE  /\ Dimmed(d)[c] \in 0 .. GetColorToShow(d)[c]
               /\ Dimmed(d)[c] = 0 <=> GetColorToShow(d)[c] = 0
               /\ Dimmed(d)[c] \in Byte
    <2>1. GetColorToShow(d)[c] \in Byte /\ d.applied \in Byte
      BY <1>1 DEF Typed, Colours
    <2>2. Dimmed(d)[c] = DimmColor(GetColorToShow(d)[c], d.applied)
      BY DEF Dimmed
    <2>3. /\ Dimmed(d)[c] \in 0 .. GetColorToShow(d)[c]
          /\ Dimmed(d)[c] = 0 <=> GetColorToShow(d)[c] = 0
      BY <2>1, <2>2, DimmedIsBetween
    <2> QED
      BY <2>1, <2>3 DEF Byte
  <1>3. Dimmed(d) \in Colours
    <2>1. Dimmed(d) = [c \in Channels |-> Dimmed(d)[c]]
      BY DEF Dimmed
    <2> QED
      BY <2>1, <1>2 DEF Colours
  <1>4. \A colour \in Colours : colour = Black <=> \A c \in Channels : colour[c] = 0
    BY DEF Colours, Black
  <1> QED
    BY <1>1, <1>2, <1>3, <1>4

\* Whatever a letter wears is a colour that outshines the dimmed one in no channel.
LEMMA WornIsBetween ==
  ASSUME NEW d, d.dimmed \in Colours, NEW pixel \in Worn(d)
  PROVE  /\ pixel \in Colours
         /\ \A c \in Channels : pixel[c] \in 0 .. d.dimmed[c]
  <1>0. \A c \in Channels : d.dimmed[c] \in Byte
    BY DEF Colours
  <1>1. CASE pixel = d.dimmed
    BY <1>0, <1>1 DEF Byte
  <1>2. ASSUME NEW step \in 1 .. kTrailFadeSteps, pixel = TrailColour(d, step)
        PROVE  /\ pixel \in Colours
               /\ \A c \in Channels : pixel[c] \in 0 .. d.dimmed[c]
    <2> DEFINE level == kTrailBrightness \div step
    <2>1. level \in Byte
      BY <1>2 DEF kTrailBrightness, kTrailFadeSteps, Byte
    <2>2. pixel = [c \in Channels |-> DimmColor(d.dimmed[c], level)]
      BY <1>2 DEF TrailColour, GetColorDimmed
    <2> HIDE DEF level
    <2>3. \A c \in Channels : pixel[c] \in 0 .. d.dimmed[c]
      BY <1>0, <2>1, <2>2, DimmedIsBetween
    <2>4. \A c \in Channels : pixel[c] \in Byte
      BY <1>0, <2>3 DEF Byte
    <2> QED
      BY <2>2, <2>3, <2>4 DEF Colours
  <1> QED
    BY <1>1, <1>2 DEF Worn

\* A level leaves no more of less.
LEMMA ScaleGrows ==
  ASSUME NEW larger \in Byte, NEW smaller \in 0 .. larger, NEW level \in Byte
  PROVE  /\ ScaleByLevel(smaller, level) \in Nat
         /\ ScaleByLevel(smaller, level) <= ScaleByLevel(larger, level)
  <1> DEFINE p == smaller * (level + 1)
             q == larger * (level + 1)
  <1>1. p \in Nat /\ q \in Nat /\ p <= q
    BY DEF Byte
  <1>2. ScaleByLevel(smaller, level) = p \div 256 /\ ScaleByLevel(larger, level) = q \div 256
    BY DEF ScaleByLevel
  <1> HIDE DEF p, q
  <1> QED
    BY <1>1, <1>2

\* What the letters draw at the master the limit gave stays within the supply.
Budget(d) == CurrentDrawn(d) <=
  Max({BudgetMilliAmps * 1000, IdleCurrent})
  + LitCurrentAtFull(Cardinality(Lit(d)), ChannelSum(GetColorToShow(d))) \div 256 + 1

\* The limit on the brightness is a byte, and what the idle LEDs leave of the budget is a number.
LEMMA LimitIsByte ==
  ASSUME NEW lit \in Nat, NEW sum \in Nat
  PROVE  ToBrightnessLimit(lit, sum) \in Byte /\ Available \in Nat
         /\ IdleCurrent + Available = Max({BudgetMilliAmps * 1000, IdleCurrent})
  <1>1. IdleCurrent \in Nat /\ BudgetMilliAmps * 1000 \in Nat
    BY LightAssumption, FS_CardinalityType DEF IdleCurrent
  <1>2. Available \in Nat
    BY <1>1 DEF Available
  <1>3. IdleCurrent + Available = Max({BudgetMilliAmps * 1000, IdleCurrent})
    <2>1. ASSUME NEW a \in Nat, NEW b \in Nat PROVE Max({a, b}) = IF a > b THEN a ELSE b
      BY DEF Max
    <2> QED
      BY <2>1, <1>1 DEF Available
  <1> DEFINE product == lit * sum * 20000
             full == LitCurrentAtFull(lit, sum)
  <1>4. full \in Nat
    <2>1. product \in Nat
      BY SMT
    <2>2. full = product \div 255
      BY DEF LitCurrentAtFull
    <2> HIDE DEF product, full
    <2> QED
      BY <2>1, <2>2
  <1> HIDE DEF product
  <1>5. ASSUME Available = 0 \/ full <= Available PROVE ToBrightnessLimit(lit, sum) \in Byte
    <2>1. ToBrightnessLimit(lit, sum) \in {0, 255}
      BY <1>5 DEF ToBrightnessLimit
    <2> QED
      BY <2>1 DEF Byte
  <1>6. ASSUME Available # 0, full > Available PROVE ToBrightnessLimit(lit, sum) \in Byte
    <2>1. ToBrightnessLimit(lit, sum) = (Available * 256) \div full
      BY <1>6, <1>2, <1>4 DEF ToBrightnessLimit
    <2> HIDE DEF full
    <2> DEFINE top == Available * 256
    <2>2. top \in Nat /\ top < 256 * full
      BY <1>2, <1>4, <1>6
    <2> HIDE DEF top
    <2>3. full \in Nat \ {0}
      BY <1>2, <1>4, <1>6
    <2>4. top \div full \in Byte
      BY <2>2, <2>3 DEF Byte
    <2> QED
      BY <2>1, <2>4 DEF top
  <1>7. ToBrightnessLimit(lit, sum) \in Byte
    <2> HIDE DEF full
    <2> QED
      BY <1>2, <1>4, <1>5, <1>6
  <1> QED
    BY <1>2, <1>3, <1>7

\* A display whose limit is up to date draws no more than the budget and one step of the master.
LEMMA LimitedFits ==
  ASSUME NEW d, Sound(d), d.enabled => d.limit = CurrentLimit(d) PROVE Budget(d)
  <1> DEFINE shown == GetColorToShow(d)
             sum == ChannelSum(shown)
             lit == Cardinality(Lit(d))
             out == [c \in Channels |-> ScaleByLevel(d.dimmed[c], d.master)]
             share == ChannelSum(out)
             summand == [led \in Leds |-> ChannelSum(GetOutputPixel(d, led))]
  <1>1. shown \in Colours /\ d.dimmed \in Colours /\ (\A c \in Channels : d.dimmed[c] \in 0 .. shown[c])
    BY DimmedKeepsBlack DEF Sound, Good, Wears
  <1>2. Lit(d) \subseteq Leds /\ lit \in Nat
    BY LightAssumption, FS_Subset, FS_CardinalityType DEF Lit
  <1>3. sum \in Nat
    <2>1. \A c \in Channels : shown[c] \in Nat
      BY <1>1 DEF Colours, Byte
    <2>2. shown["R"] \in Nat /\ shown["G"] \in Nat /\ shown["B"] \in Nat
      BY <2>1 DEF Channels
    <2> HIDE DEF shown
    <2> QED
      BY <2>2 DEF ChannelSum
  <1>4. d.master \in Byte /\ (d.master = ToBrightnessLimit(lit, sum) \/ d.master = 0)
    <2>1. d.enabled => d.master = ToBrightnessLimit(lit, sum)
      BY DEF Sound, Typed, CurrentLimit
    <2>2. ~d.enabled => d.master = 0
      BY DEF Sound, Good, Dark
    <2>3. ToBrightnessLimit(lit, sum) \in Byte
      <3> HIDE DEF lit, sum
      <3> QED
        BY <1>2, <1>3, LimitIsByte
    <2>4. 0 \in Byte
      BY DEF Byte
    <2> QED
      BY <2>1, <2>2, <2>3, <2>4
  <1>5. ASSUME NEW c \in Channels
        PROVE  /\ out[c] \in 0 .. shown[c]
               /\ 256 * out[c] <= shown[c] * (d.master + 1)
               /\ d.master = 0 => out[c] = 0
    <2>1. d.dimmed[c] \in Byte /\ shown[c] \in Byte /\ d.dimmed[c] <= shown[c]
      BY <1>1 DEF Colours, Byte
    <2>2. /\ out[c] \in 0 .. d.dimmed[c] /\ 256 * out[c] <= d.dimmed[c] * (d.master + 1)
          /\ d.master = 0 => out[c] = 0
      BY <2>1, <1>4, ScaledIsBetween
    <2> HIDE DEF out, shown
    <2>3. ASSUME NEW a \in Byte, NEW b \in Byte, NEW m \in Byte, NEW o, a <= b, o \in 0 .. a,
                 256 * o <= a * (m + 1)
          PROVE  o \in 0 .. b /\ 256 * o <= b * (m + 1)
      <3>1. a * (m + 1) <= b * (m + 1) /\ a * (m + 1) \in Int /\ b * (m + 1) \in Int
        BY <2>3 DEF Byte
      <3> QED
        BY <3>1, <2>3 DEF Byte
    <2> QED
      BY <2>1, <2>2, <2>3, <1>4
  <1>6. /\ share \in Nat /\ share <= sum /\ 256 * share <= sum * (d.master + 1)
        /\ d.master = 0 => share = 0
    <2>1. share = out["R"] + out["G"] + out["B"] /\ sum = shown["R"] + shown["G"] + shown["B"]
      BY DEF ChannelSum
    <2>2. \A c \in Channels : shown[c] \in Nat
      BY <1>1 DEF Colours, Byte
    <2>3. "R" \in Channels /\ "G" \in Channels /\ "B" \in Channels
      BY DEF Channels
    <2> HIDE DEF out, shown, share, sum
    <2> DEFINE m == d.master + 1
    <2>4. m \in Nat
      BY <1>4 DEF Byte
    <2>5. sum * m = shown["R"] * m + shown["G"] * m + shown["B"] * m
      BY <2>1, <2>2, <2>3, <2>4
    <2>6. shown["R"] * m \in Nat /\ shown["G"] * m \in Nat /\ shown["B"] * m \in Nat
      BY <2>2, <2>3, <2>4
    <2>7. /\ out["R"] \in 0 .. shown["R"] /\ out["G"] \in 0 .. shown["G"] /\ out["B"] \in 0 .. shown["B"]
          /\ 256 * out["R"] <= shown["R"] * m /\ 256 * out["G"] <= shown["G"] * m
          /\ 256 * out["B"] <= shown["B"] * m
          /\ d.master = 0 => out["R"] = 0 /\ out["G"] = 0 /\ out["B"] = 0
      BY <1>5, <2>3
    <2> QED
      <3>1. 256 * share <= sum * m
        <4> HIDE DEF m
        <4> QED
          BY <2>1, <2>2, <2>3, <2>5, <2>6, <2>7
      <3>2. share \in Nat /\ share <= sum /\ (d.master = 0 => share = 0)
        <4> HIDE DEF m
        <4>1. shown["R"] \in Nat /\ shown["G"] \in Nat /\ shown["B"] \in Nat
          BY <2>2, <2>3
        <4> QED
          BY <2>1, <2>7, <4>1
      <3> QED
        BY <3>1, <3>2
  <1>7. ASSUME NEW led \in Leds
        PROVE  summand[led] \in Nat /\ summand[led] <= share /\ (led \notin Lit(d) => summand[led] = 0)
    <2>1. \A c \in Channels : d.dimmed[c] \in Byte
      BY <1>1 DEF Colours
    <2>2. \A c \in Channels : d.pixels[led][c] \in 0 .. d.dimmed[c]
      <3>1. CASE led \in Lit(d)
        <4>1. d.pixels[led] \in Worn(d)
          BY <3>1 DEF Lit, Sound, Good, Wears
        <4> QED
          BY <4>1, <1>1, WornIsBetween
      <3>2. CASE led \notin Lit(d)
        <4>1. \A c \in Channels : d.pixels[led][c] = 0
          BY <3>2 DEF Lit, IsLit, Black
        <4> QED
          BY <4>1, <2>1 DEF Byte
      <3> QED
        BY <3>1, <3>2
    <2> DEFINE drawn == GetOutputPixel(d, led)
    <2>3. \A c \in Channels : drawn[c] = ScaleByLevel(d.pixels[led][c], d.master)
      BY DEF GetOutputPixel
    <2>4. \A c \in Channels : drawn[c] \in Nat /\ drawn[c] <= out[c]
      <3> HIDE DEF drawn, share, sum, lit, shown
      <3> QED
        BY <2>1, <2>2, <2>3, <1>4, ScaleGrows
    <2>5. ASSUME led \notin Lit(d) PROVE \A c \in Channels : drawn[c] = 0
      <3>1. \A c \in Channels : d.pixels[led][c] = 0
        BY <2>5 DEF Lit, IsLit, Black
      <3>2. ScaleByLevel(0, d.master) = 0
        <4>1. 0 \in Byte
          BY DEF Byte
        <4>2. ScaleByLevel(0, d.master) \in 0 .. 0
          BY <4>1, <1>4, ScaledIsBetween
        <4> QED
          BY <4>2
      <3> QED
        BY <3>1, <3>2, <2>3
    <2>6. summand[led] = drawn["R"] + drawn["G"] + drawn["B"] /\ share = out["R"] + out["G"] + out["B"]
      BY DEF ChannelSum
    <2>7. out["R"] \in Nat /\ out["G"] \in Nat /\ out["B"] \in Nat
      <3>1. \A c \in Channels : shown[c] \in Byte
        BY <1>1 DEF Colours
      <3> HIDE DEF out, shown
      <3> QED
        BY <1>5, <3>1 DEF Channels, Byte
    <2> HIDE DEF drawn, out, share, sum, lit, shown, summand
    <2> QED
      BY <2>4, <2>5, <2>6, <2>7 DEF Channels
  <1> HIDE DEF share, sum, lit, out, shown
  <1>8. CurrentDrawn(d) \in Int /\ CurrentDrawn(d) <= IdleCurrent + (lit * share * 20000) \div 255
    <2>1. PICK f : Summed(f, summand, Leds) /\ CurrentDrawn(d) = IdleCurrent + (f[Leds] * 20000) \div 255
      BY DrawnIsSummed
    <2> HIDE DEF summand
    <2>2. f[Leds] \in Nat /\ f[Leds] <= lit * share
      BY <2>1, <1>2, <1>6, <1>7, SumOfShares, LightAssumption DEF lit
    <2> DEFINE most == lit * share
    <2>3. most \in Nat
      BY <1>2, <1>6
    <2>4. lit * share * 20000 = most * 20000
      OBVIOUS
    <2>5. IdleCurrent \in Nat
      BY LightAssumption, FS_CardinalityType DEF IdleCurrent
    <2>6. ASSUME NEW a \in Nat, NEW b \in Nat, a <= b
          PROVE  (a * 20000) \div 255 \in Nat /\ (a * 20000) \div 255 <= (b * 20000) \div 255
      BY <2>6
    <2>7. f[Leds] <= most
      BY <2>2
    <2> HIDE DEF most
    <2>8. (f[Leds] * 20000) \div 255 \in Nat /\ (f[Leds] * 20000) \div 255 <= (most * 20000) \div 255
      BY <2>2, <2>3, <2>6, <2>7
    <2>9. (most * 20000) \div 255 \in Nat
      BY <2>3
    <2> QED
      BY <2>1, <2>4, <2>5, <2>8, <2>9
  <1>9. (lit * share * 20000) \div 255 <= Available + LitCurrentAtFull(lit, sum) \div 256 + 1
    <2>1. Available \in Nat
      BY <1>2, <1>3, LimitIsByte
    <2>2. d.master \in Nat
      BY <1>4 DEF Byte
    <2>3. PICK master : master = d.master
      OBVIOUS
    <2>4. /\ master \in Nat /\ lit \in Nat /\ sum \in Nat /\ share \in Nat
          /\ 256 * share <= sum * (master + 1) /\ share <= sum
          /\ master = ToBrightnessLimit(lit, sum) \/ master = 0
          /\ master = 0 => share = 0
      BY <2>2, <2>3, <1>2, <1>3, <1>4, <1>6, Zenon
    <2> HIDE DEF summand
    <2> QED
      BY <2>1, <2>4, LimitKeepsBudget
  <1>10. Budget(d)
    <2> DEFINE drawn == (lit * share * 20000) \div 255
               slack == LitCurrentAtFull(lit, sum) \div 256
    <2>1. IdleCurrent \in Nat /\ Available \in Nat
      BY <1>2, <1>3, LimitIsByte, LightAssumption, FS_CardinalityType DEF IdleCurrent
    <2>2. drawn \in Int /\ slack \in Int
      <3> DEFINE a == lit * share * 20000
                 b == lit * sum * 20000
      <3>1. a \in Nat /\ b \in Nat
        BY <1>2, <1>3, <1>6
      <3>2. drawn = a \div 255 /\ slack = (b \div 255) \div 256
        BY DEF LitCurrentAtFull
      <3> HIDE DEF a, b, drawn, slack
      <3> QED
        BY <3>1, <3>2
    <2>3. Max({BudgetMilliAmps * 1000, IdleCurrent}) = IdleCurrent + Available
      BY <1>2, <1>3, LimitIsByte
    <2>4. drawn <= Available + slack + 1
      BY <1>9
    <2>5. CurrentDrawn(d) \in Int /\ CurrentDrawn(d) <= IdleCurrent + drawn
      BY <1>8
    <2>6. Budget(d) <=> CurrentDrawn(d) <= Max({BudgetMilliAmps * 1000, IdleCurrent}) + slack + 1
      BY DEF Budget, lit, sum, shown
    <2> HIDE DEF drawn, slack
    <2> QED
      BY <2>1, <2>2, <2>3, <2>4, <2>5, <2>6
  <1> QED
    BY <1>10
-----------------------------------------------------------------------------

(* What each operation of the display leaves of the light. *)

\* A display that is on is driven by what the limit gives for what it shows now.
Capped(d) == d.enabled => d.limit = CurrentLimit(d)

\* The fields that neither the limit nor the colour touches.
SameSettings(d, e) ==
  /\ e.color = d.color /\ e.cycling = d.cycling /\ e.cycleColor = d.cycleColor
  /\ e.brightness = d.brightness /\ e.night = d.night /\ e.fade = d.fade
  /\ e.enabled = d.enabled /\ e.automatic = d.automatic /\ e.gamma = d.gamma

\* Applying the current limit brings it up to date and touches neither settings nor letters.
LEMMA LimitCaps ==
  ASSUME NEW d, IsDisplay(d), Typed(d)
  PROVE  LET e == ApplyCurrentLimit(d)
         IN /\ SameSettings(d, e) /\ e.applied = d.applied /\ e.pixels = d.pixels /\ e.dimmed = d.dimmed
            /\ IsDisplay(e) /\ Typed(e) /\ Capped(e) /\ Lit(e) = Lit(d)
  <1> DEFINE e == ApplyCurrentLimit(d)
  <1>1. e = d \/ e = [d EXCEPT !.limit = CurrentLimit(d), !.master = CurrentLimit(d)]
    BY DEF ApplyCurrentLimit
  <1>2. /\ SameSettings(d, e) /\ e.applied = d.applied /\ e.pixels = d.pixels /\ e.dimmed = d.dimmed
        /\ IsDisplay(e)
    <2>1. IsDisplay(e)
      BY DEF IsDisplay, ApplyCurrentLimit
    <2>2. \A field \in Fields \ {"limit", "master"} : e[field] = d[field]
      BY <1>1 DEF IsDisplay
    <2> HIDE DEF e
    <2> QED
      BY <2>1, <2>2 DEF SameSettings
  <1>3. Lit(e) = Lit(d) /\ CurrentLimit(e) = CurrentLimit(d)
    <2> HIDE DEF e
    <2> QED
      BY <1>2 DEF CurrentLimit, Lit, GetColorToShow, SameSettings
  <1>4. e.enabled => e.limit = CurrentLimit(d) /\ e.master = e.limit
    BY DEF ApplyCurrentLimit, Typed, IsDisplay
  <1>5. Typed(e) /\ Capped(e)
    <2> HIDE DEF e
    <2> QED
      BY <1>2, <1>3, <1>4 DEF Typed, SameSettings, Capped
  <1> QED
    BY <1>2, <1>3, <1>5

\* The letters follow, and none of them is lost unless the colour is black.
LEMMA ColorKeepsFace ==
  ASSUME NEW d, IsDisplay(d), Typed(d)
  PROVE  LET e == ApplyColor(d)
         IN /\ SameSettings(d, e) /\ e.applied = d.applied /\ e.limit = d.limit /\ e.master = d.master
            /\ IsDisplay(e) /\ Typed(e)
            /\ Dimmed(d) # Black \/ Lit(d) = {} => Lit(e) = Lit(d)
  <1> DEFINE e == ApplyColor(d)
  <1>1. /\ SameSettings(d, e) /\ e.applied = d.applied /\ e.limit = d.limit /\ e.master = d.master
        /\ e.pixels = [led \in Leds |-> IF IsLit(d.pixels[led]) THEN Dimmed(d) ELSE d.pixels[led]]
        /\ IsDisplay(e)
    <2>1. IsDisplay(e)
      BY DEF IsDisplay, ApplyColor
    <2>2. /\ \A field \in Fields \ {"dimmed", "pixels"} : e[field] = d[field]
          /\ e.pixels = [led \in Leds |-> IF IsLit(d.pixels[led]) THEN Dimmed(d) ELSE d.pixels[led]]
      BY DEF IsDisplay, ApplyColor
    <2> HIDE DEF e
    <2> QED
      BY <2>1, <2>2 DEF SameSettings
  <1> HIDE DEF e
  <1>2. Typed(e)
    BY <1>1 DEF Typed, SameSettings
  <1>3. ASSUME Dimmed(d) # Black \/ Lit(d) = {}, NEW led \in Leds
        PROVE  IsLit(e.pixels[led]) <=> IsLit(d.pixels[led])
    BY <1>1, <1>3 DEF Lit, IsLit
  <1>4. Dimmed(d) # Black \/ Lit(d) = {} => Lit(e) = Lit(d)
    BY <1>3 DEF Lit
  <1> QED
    BY <1>1, <1>2, <1>4 DEF e

\* Where black is to be shown, no letter stands.
LEMMA SoundLosesNothing ==
  ASSUME NEW d, Sound(d) PROVE GetColorToShow(d) # Black \/ Lit(d) = {}
  <1> SUFFICES ASSUME GetColorToShow(d) = Black, NEW led \in Lit(d) PROVE FALSE
    OBVIOUS
  <1>1. d.dimmed = Black /\ d.dimmed \in Colours
    BY DimmedKeepsBlack DEF Sound, Good, Wears
  <1>2. d.pixels[led] \in Worn(d) /\ d.pixels[led] # Black
    BY DEF Sound, Good, Wears, Lit, IsLit
  <1>3. d.pixels[led] \in Colours /\ \A c \in Channels : d.pixels[led][c] \in 0 .. d.dimmed[c]
    BY <1>1, <1>2, WornIsBetween
  <1>4. \A c \in Channels : d.pixels[led][c] = 0
    BY <1>1, <1>3 DEF Black
  <1> QED
    BY <1>2, <1>3, <1>4 DEF Colours, Black

\* The brightness that is worked out is applied, and the letters stand as they stood.
LEMMA BrightnessKeepsFace ==
  ASSUME NEW d, Sound(d), NEW read \in Readable
  PROVE  LET e == ApplyBrightness(d, read)
         IN /\ Sound(e) /\ Capped(e) /\ Lit(e) = Lit(d) /\ SameSettings(d, e)
            /\ e.applied = CalcBrightness(d, read)
  <1> DEFINE limited == ApplyCurrentLimit(d)
             other == [limited EXCEPT !.applied = CalcBrightness(d, read)]
             e == ApplyBrightness(d, read)
  <1>0. IsDisplay(d) /\ Typed(d) /\ Good(e)
    BY BrightnessKeepsGood DEF Sound, Good
  <1>1. /\ SameSettings(d, limited) /\ limited.applied = d.applied /\ limited.pixels = d.pixels
        /\ IsDisplay(limited) /\ Typed(limited) /\ Capped(limited) /\ Lit(limited) = Lit(d)
    BY <1>0, LimitCaps
  <1>2. CASE CalcBrightness(d, read) = d.applied
    <2>1. e = limited
      BY <1>2 DEF ApplyBrightness
    <2> HIDE DEF limited, e
    <2> QED
      BY <2>1, <1>0, <1>1, <1>2 DEF Sound, e
  <1>3. CASE CalcBrightness(d, read) # d.applied
    <2>1. e = ApplyColor(other)
      BY <1>3 DEF ApplyBrightness
    <2> HIDE DEF limited, e
    <2>2. CalcBrightness(d, read) \in Byte
      BY <1>0, ConfiguredIsByte
    <2>3. /\ SameSettings(limited, other) /\ other.pixels = limited.pixels
          /\ other.limit = limited.limit /\ other.master = limited.master
          /\ other.applied = CalcBrightness(d, read)
          /\ IsDisplay(other)
      BY <1>1 DEF IsDisplay, SameSettings
    <2> HIDE DEF other
    <2>4. Typed(other)
      BY <1>1, <2>2, <2>3 DEF Typed, SameSettings
    <2>5. Lit(other) = Lit(d) /\ GetColorToShow(other) = GetColorToShow(d)
      BY <1>1, <2>3 DEF Lit, GetColorToShow, SameSettings
    <2>6. Dimmed(other) # Black \/ Lit(other) = {}
      BY <2>4, <2>5, SoundLosesNothing, DimmedKeepsBlack
    <2>7. /\ SameSettings(other, e) /\ e.applied = other.applied /\ e.limit = other.limit
          /\ Typed(e) /\ Lit(e) = Lit(other)
      BY <2>1, <2>3, <2>4, <2>6, ColorKeepsFace
    <2>8. SameSettings(d, e)
      BY <1>1, <2>3, <2>7 DEF SameSettings
    <2>9. CurrentLimit(e) = CurrentLimit(limited) /\ e.limit = limited.limit /\ e.enabled = limited.enabled
      BY <1>1, <2>3, <2>5, <2>7, <2>8 DEF CurrentLimit, GetColorToShow, SameSettings
    <2>10. Capped(e)
      BY <2>9, <1>1 DEF Capped
    <2> QED
      BY <1>0, <2>3, <2>5, <2>7, <2>8, <2>10 DEF Sound, e
  <1> QED
    BY <1>2, <1>3

\* After a colour was set, the letters follow and then the limit.
LEMMA ColorAndLimitCaps ==
  ASSUME NEW d, IsDisplay(d), Dark(d), Typed(d)
  PROVE  LET e == ApplyColorAndCurrentLimit(d)
         IN /\ Sound(e) /\ Capped(e) /\ SameSettings(d, e)
            /\ GetColorToShow(d) # Black \/ Lit(d) = {} => Lit(e) = Lit(d)
  <1> DEFINE coloured == ApplyColor(d)
             e == ApplyCurrentLimit(coloured)
  <1>0. e = ApplyColorAndCurrentLimit(d)
    BY DEF ApplyColorAndCurrentLimit
  <1>1. /\ SameSettings(d, coloured) /\ IsDisplay(coloured) /\ Typed(coloured)
        /\ Dimmed(d) # Black \/ Lit(d) = {} => Lit(coloured) = Lit(d)
    BY ColorKeepsFace
  <1>2. Good(e)
    BY <1>0, ColorAndLimitMakesGood
  <1> HIDE DEF coloured
  <1>3. SameSettings(coloured, e) /\ Typed(e) /\ Capped(e) /\ Lit(e) = Lit(coloured)
    BY <1>1, LimitCaps
  <1>4. GetColorToShow(d) # Black => Dimmed(d) # Black
    BY DimmedKeepsBlack
  <1>5. SameSettings(d, e)
    BY <1>1, <1>3 DEF SameSettings
  <1> HIDE DEF e
  <1> QED
    BY <1>0, <1>1, <1>2, <1>3, <1>4, <1>5 DEF Sound

\* However the brightness is set, the letters stand as they stood and the limit is up to date.
LEMMA SettersKeepFace ==
  ASSUME NEW d, Sound(d), NEW read \in Readable, NEW value \in Byte, NEW use
  PROVE  \A e \in {SetBrightness(d, read, value), SetUseAutomatic(d, read, use),
                   SetUseGammaCorrection(d, read, use), SetNightLevel(d, read, value),
                   SetFadeLevel(d, read, value)} :
           Sound(e) /\ Capped(e) /\ Lit(e) = Lit(d)
  <1> DEFINE Still(e) == Sound(e) /\ Lit(e) = Lit(d)
  <1>0. Good(d) /\ Typed(d) /\ IsDisplay(d)
    BY DEF Sound, Good
  <1>1. /\ Good([d EXCEPT !.brightness = value]) /\ Good([d EXCEPT !.automatic = use])
        /\ Good([d EXCEPT !.gamma = use]) /\ Good([d EXCEPT !.night = value])
        /\ Good([d EXCEPT !.fade = value])
    BY <1>0, OtherFields
  <1>2. /\ Typed([d EXCEPT !.brightness = value]) /\ Typed([d EXCEPT !.automatic = use])
        /\ Typed([d EXCEPT !.gamma = use]) /\ Typed([d EXCEPT !.night = value])
        /\ Typed([d EXCEPT !.fade = value])
    BY <1>0 DEF Typed, IsDisplay
  <1>3. /\ Lit([d EXCEPT !.brightness = value]) = Lit(d) /\ Lit([d EXCEPT !.automatic = use]) = Lit(d)
        /\ Lit([d EXCEPT !.gamma = use]) = Lit(d) /\ Lit([d EXCEPT !.night = value]) = Lit(d)
        /\ Lit([d EXCEPT !.fade = value]) = Lit(d)
    BY <1>0 DEF Lit, IsDisplay
  <1>4. ASSUME NEW other, Still(other)
        PROVE  LET e == ApplyBrightness(other, read) IN Sound(e) /\ Capped(e) /\ Lit(e) = Lit(d)
    BY <1>4, BrightnessKeepsFace
  <1> QED
    <2>1. /\ Still([d EXCEPT !.brightness = value]) /\ Still([d EXCEPT !.automatic = use])
          /\ Still([d EXCEPT !.gamma = use]) /\ Still([d EXCEPT !.night = value])
          /\ Still([d EXCEPT !.fade = value])
      BY <1>1, <1>2, <1>3 DEF Sound
    <2> HIDE DEF Still
    <2> QED
      BY <2>1, <1>4 DEF SetBrightness, SetUseAutomatic, SetUseGammaCorrection, SetNightLevel, SetFadeLevel
-----------------------------------------------------------------------------

(* What a line of numbers is parsed to. *)

\* What a number of an option is read as.
Reading == [option : STRING, result : {"ok", "unknown", "noValue", "overflow"}, value : Byte]

OnlyBytes(types) == \A option \in DOMAIN types : types[option] = "uint8"

\* Of the numbers that are due one comes first.
LEMMA SmallestOf ==
  ASSUME NEW T, T \subseteq Nat, T # {}
  PROVE  \E first \in T : \A n \in Nat : n < first => n \notin T
  <1>1. PICK first \in T : \A n \in T : << n, first >> \notin OpToRel(<, Nat)
    BY NatLessThanWellFounded, WFMin
  <1>2. ASSUME NEW n \in Nat, n < first, n \in T PROVE FALSE
    <2>1. << n, first >> \in OpToRel(<, Nat)
      BY <1>2 DEF OpToRel
    <2> QED
      BY <1>1, <1>2, <2>1
  <1> QED
    BY <1>2

\* Skipping blanks ends at a token or behind the last one.
LEMMA BlanksEnd ==
  ASSUME NEW tokens \in Seq(STRING), NEW at \in 1 .. Len(tokens) + 1
  PROVE  SkipBlanks(tokens, at) \in at .. Len(tokens) + 1
  <1> DEFINE T == {found \in at .. Len(tokens) + 1 : TokenAt(tokens, found) # Blank}
  <1>0. Len(tokens) \in Nat
    OBVIOUS
  <1>1. Len(tokens) + 1 \in T
    <2>1. TokenAt(tokens, Len(tokens) + 1) = ""
      <3>1. ~(Len(tokens) + 1 <= Len(tokens))
        BY <1>0
      <3> QED
        BY <3>1, Zenon DEF TokenAt
    <2>2. "" # Blank
      BY DEF Blank
    <2>3. Len(tokens) + 1 \in at .. Len(tokens) + 1
      BY <1>0
    <2> QED
      BY <2>1, <2>2, <2>3
  <1>2. T \subseteq Nat /\ T # {}
    BY <1>0, <1>1
  <1>3. PICK found \in T : \A n \in Nat : n < found => n \notin T
    <2> HIDE DEF T
    <2> QED
      BY <1>2, SmallestOf
  <1>4. /\ found \in at .. Len(tokens) + 1 /\ TokenAt(tokens, found) # Blank
        /\ \A between \in at .. found - 1 : TokenAt(tokens, between) = Blank
    <2>1. ASSUME NEW between \in at .. found - 1 PROVE TokenAt(tokens, between) = Blank
      <3>1. between \in Nat /\ between < found /\ between \in at .. Len(tokens) + 1
        BY <1>0
      <3> QED
        BY <3>1, <1>3
    <2> QED
      BY <2>1
  <1> QED
    BY <1>4 DEF SkipBlanks

\* A number that is read is a byte, and what it was read from ends with the line.
LEMMA NumberIsByte ==
  ASSUME NEW tokens \in Seq(STRING), NEW at \in 1 .. Len(tokens) + 1
  PROVE  LET read == StringTo("uint8", tokens, at)
         IN /\ read.used \in Nat /\ at + read.used <= Len(tokens) + 1
            /\ read.result \in {"ok", "noValue", "overflow"} /\ read.value \in Byte
  <1> DEFINE found == SkipBlanks(tokens, at)
             read == StringTo("uint8", tokens, at)
  <1>0. Len(tokens) \in Nat /\ found \in at .. Len(tokens) + 1 /\ found \in Nat
    BY BlanksEnd
  <1>1. \A i \in Nat : TokenAt(tokens, i) # "" => i <= Len(tokens)
    BY DEF TokenAt
  <1>2. \A token \in Numerals : token # "" /\ token # Start /\ ValueOf[token] \in Nat
    BY NumeralAssumption
  <1>3. Limits["uint8"] = 255 /\ 0 \in Byte /\ \A v \in Nat : v <= 255 => v \in Byte
    BY DEF Limits, Byte
  <1> DEFINE token == TokenAt(tokens, found)
             next == TokenAt(tokens, found + 1)
  <1>4. CASE token \in Numerals
    <2>1. found <= Len(tokens) /\ token # Start
      BY <1>0, <1>1, <1>2, <1>4
    <2>2. read = IF ValueOf[token] <= Limits["uint8"]
                 THEN [used |-> found + 1 - at, result |-> "ok", value |-> ValueOf[token]]
                 ELSE [used |-> found + 1 - at, result |-> "overflow", value |-> 0]
      BY <1>4, <2>1 DEF StringTo
    <2> HIDE DEF found, read, token
    <2> QED
      <3>0. ValueOf[token] \in Nat
        BY <1>2, <1>4, Zenon
      <3>1. found + 1 - at \in Nat /\ at + (found + 1 - at) <= Len(tokens) + 1
        BY <2>1, <1>0
      <3>2. read.used = found + 1 - at /\ read.result \in {"ok", "overflow"} /\ read.value \in Byte
        BY <2>2, <3>0, <3>1, <1>3
      <3> QED
        BY <3>1, <3>2 DEF read
  <1>5. CASE token \notin Numerals /\ token = Start /\ next \in Numerals
    <2>1. found + 1 <= Len(tokens)
      <3>0. next # ""
        BY <1>2, <1>5, Zenon
      <3>1. found + 1 \in Nat
        BY <1>0
      <3> HIDE DEF found
      <3> QED
        BY <3>0, <3>1, <1>1
    <2>2. read = IF ValueOf[next] = 0
                 THEN [used |-> found + 2 - at, result |-> "ok", value |-> 0]
                 ELSE [used |-> found + 2 - at, result |-> "overflow", value |-> 0]
      BY <1>5 DEF StringTo
    <2> HIDE DEF found, read, token, next
    <2> QED
      <3>1. read.used = found + 2 - at /\ read.result \in {"ok", "overflow"} /\ read.value = 0
        BY <2>2
      <3> QED
        BY <2>1, <3>1, <1>0, <1>3 DEF read
  <1>6. CASE token \notin Numerals /\ ~(token = Start /\ next \in Numerals)
    <2>1. read = [used |-> 0, result |-> "noValue", value |-> 0]
      BY <1>6 DEF StringTo
    <2> HIDE DEF found, read, token, next
    <2> QED
      BY <2>1, <1>0, <1>3 DEF read
  <1> QED
    BY <1>4, <1>5, <1>6

\* One option of a line is read within the line, and its value is of its type.
LEMMA OptionIsReading ==
  ASSUME NEW types, OnlyBytes(types), NEW tokens \in Seq(STRING), NEW at \in 1 .. Len(tokens) - 1
  PROVE  LET read == ParseOption(types, tokens[at + 1], tokens, at + 2)
         IN /\ at + 2 + read.used \in at + 2 .. Len(tokens) + 1
            /\ [option |-> tokens[at + 1], result |-> read.result, value |-> read.value] \in Reading
  <1> DEFINE option == tokens[at + 1]
             read == ParseOption(types, option, tokens, at + 2)
  <1>0. Len(tokens) \in Nat /\ at + 2 \in 1 .. Len(tokens) + 1 /\ option \in STRING /\ 0 \in Byte
    BY DEF Byte
  <1>1. CASE option \notin DOMAIN types
    <2>1. read = [used |-> 0, result |-> "unknown", value |-> 0]
      BY <1>1 DEF ParseOption
    <2> HIDE DEF read, option
    <2> QED
      BY <2>1, <1>0 DEF Reading, read, option
  <1>2. CASE option \in DOMAIN types
    <2>1. read = StringTo("uint8", tokens, at + 2)
      BY <1>2 DEF ParseOption, OnlyBytes
    <2>2. PICK from : from = at + 2
      OBVIOUS
    <2> HIDE DEF read, option
    <2>3. /\ read.used \in Nat /\ from + read.used <= Len(tokens) + 1
          /\ read.result \in {"ok", "noValue", "overflow"} /\ read.value \in Byte
      BY <2>1, <2>2, <1>0, NumberIsByte
    <2> QED
      BY <2>2, <2>3, <1>0 DEF Reading, read, option
  <1> QED
    BY <1>1, <1>2

\* The options from a token on, given those behind it.
ParsedAt(types, tokens, parsed, at) ==
  IF at >= Len(tokens) THEN <<>>
  ELSE IF tokens[at] # Start THEN parsed[at + 1]
  ELSE LET read == ParseOption(types, tokens[at + 1], tokens, at + 2)
       IN <<[option |-> tokens[at + 1], result |-> read.result, value |-> read.value]>>
          \o parsed[at + 2 + read.used]
ParsedFrom(types, tokens, parsed, from) ==
  parsed = [at \in from .. Len(tokens) + 1 |-> ParsedAt(types, tokens, parsed, at)]

\* Only what is behind a token counts.
LEMMA BehindCounts ==
  ASSUME NEW types, OnlyBytes(types), NEW tokens \in Seq(STRING),
         NEW at \in 1 .. Len(tokens) + 1, NEW f, NEW g,
         \A behind \in at + 1 .. Len(tokens) + 1 : f[behind] = g[behind]
  PROVE  ParsedAt(types, tokens, f, at) = ParsedAt(types, tokens, g, at)
  <1>0. Len(tokens) \in Nat
    OBVIOUS
  <1>1. CASE at >= Len(tokens)
    BY <1>1 DEF ParsedAt
  <1>2. CASE at < Len(tokens) /\ tokens[at] # Start
    <2>1. f[at + 1] = g[at + 1]
      BY <1>0, <1>2
    <2> QED
      BY <2>1, <1>0, <1>2 DEF ParsedAt
  <1>3. CASE at < Len(tokens) /\ tokens[at] = Start
    <2>1. PICK next : next = at + 2 + ParseOption(types, tokens[at + 1], tokens, at + 2).used
      OBVIOUS
    <2>2. next \in at + 1 .. Len(tokens) + 1
      <3>1. at \in 1 .. Len(tokens) - 1
        BY <1>0, <1>3
      <3>2. next \in at + 2 .. Len(tokens) + 1
        BY <3>1, <2>1, OptionIsReading
      <3> QED
        BY <3>2
    <2>3. f[next] = g[next]
      BY <2>2
    <2> QED
      BY <2>1, <2>3, <1>0, <1>3 DEF ParsedAt
  <1> QED
    BY <1>0, <1>1, <1>2, <1>3

\* Every line has a parse.
LEMMA ParsesExist ==
  ASSUME NEW types, OnlyBytes(types), NEW tokens \in Seq(STRING) PROVE \E f : ParsedFrom(types, tokens, f, 1)
  <1> DEFINE end == Len(tokens) + 1
             T == {n \in Nat : n < end => \E f : ParsedFrom(types, tokens, f, end - n)}
  <1>0. end \in Nat /\ Len(tokens) \in Nat /\ Len(tokens) = end - 1
    OBVIOUS
  <1>1. 0 \in T
    <2> DEFINE f == [at \in end .. end |-> <<>>]
    <2>1. \A at \in end .. end : ParsedAt(types, tokens, f, at) = <<>>
      BY <1>0 DEF ParsedAt
    <2>2. ParsedFrom(types, tokens, f, end)
      BY <2>1, <1>0 DEF ParsedFrom
    <2> QED
      BY <2>2, <1>0
  <1>2. ASSUME NEW n \in Nat, n \in T PROVE n + 1 \in T
    <2> SUFFICES ASSUME n + 1 < end PROVE \E g : ParsedFrom(types, tokens, g, end - (n + 1))
      OBVIOUS
    <2>1. PICK f : ParsedFrom(types, tokens, f, end - n)
      BY <1>2, <1>0
    <2>2. PICK from : from = end - (n + 1)
      OBVIOUS
    <2>3. from \in 1 .. end /\ end - n = from + 1
      BY <1>0, <2>2
    <2> DEFINE g == [at \in from .. end |-> ParsedAt(types, tokens, f, at)]
    <2> HIDE DEF end
    <2>4. \A at \in from + 1 .. end : f[at] = ParsedAt(types, tokens, f, at) /\ g[at] = f[at]
      BY <2>1, <2>3, <1>0 DEF ParsedFrom, end
    <2>5. ASSUME NEW at \in from .. end PROVE ParsedAt(types, tokens, f, at) = ParsedAt(types, tokens, g, at)
      <3>1. at \in 1 .. Len(tokens) + 1
        BY <2>3, <1>0
      <3>2. \A behind \in at + 1 .. Len(tokens) + 1 : f[behind] = g[behind]
        <4> TAKE behind \in at + 1 .. Len(tokens) + 1
        <4>1. behind \in from + 1 .. end
          BY <2>3, <1>0 DEF end
        <4> HIDE DEF g
        <4> QED
          BY <4>1, <2>4
      <3> HIDE DEF g
      <3> QED
        BY <3>1, <3>2, BehindCounts
    <2>6. g = [at \in from .. end |-> ParsedAt(types, tokens, g, at)]
      BY <2>5
    <2>7. ParsedFrom(types, tokens, g, from)
      BY <2>6 DEF ParsedFrom, end
    <2> QED
      BY <2>7, <2>2
  <1>3. Nat \subseteq T
    <2> HIDE DEF T
    <2> QED
      BY <1>1, <1>2, EveryNumber
  <1>4. end - 1 \in T /\ end - 1 < end /\ end - (end - 1) = 1
    BY <1>0, <1>3
  <1> QED
    BY <1>4

\* A parse of a line is a sequence of readings.
LEMMA ParsesAreReadings ==
  ASSUME NEW types, OnlyBytes(types), NEW tokens \in Seq(STRING), NEW f, ParsedFrom(types, tokens, f, 1)
  PROVE  f[1] \in Seq(Reading)
  <1> DEFINE end == Len(tokens) + 1
             T == {n \in Nat : \A at \in 1 .. end : end - n <= at => f[at] \in Seq(Reading)}
  <1>0. end \in Nat /\ end >= 1 /\ Len(tokens) = end - 1
    OBVIOUS
  <1>1. \A at \in 1 .. end : f[at] = ParsedAt(types, tokens, f, at)
    BY DEF ParsedFrom
  <1>2. 0 \in T
    <2>1. ASSUME NEW at \in 1 .. end, end - 0 <= at PROVE f[at] \in Seq(Reading)
      <3>1. at = end
        BY <2>1, <1>0
      <3>2. f[at] = <<>>
        <4>1. at >= Len(tokens)
          BY <1>0, <3>1
        <4>2. f[at] = ParsedAt(types, tokens, f, at)
          BY <1>1
        <4> HIDE DEF end
        <4> QED
          BY <4>1, <4>2, Zenon DEF ParsedAt
      <3> QED
        BY <3>2
    <2> QED
      BY <2>1
  <1>3. ASSUME NEW n \in Nat, n \in T PROVE n + 1 \in T
    <2> SUFFICES ASSUME NEW at \in 1 .. end, end - (n + 1) <= at PROVE f[at] \in Seq(Reading)
      OBVIOUS
    <2>0. f[at] = ParsedAt(types, tokens, f, at)
      BY <1>1
    <2>1. \A behind \in at + 1 .. end : f[behind] \in Seq(Reading)
      <3> TAKE behind \in at + 1 .. end
      <3>1. behind \in 1 .. end /\ end - n <= behind
        BY <1>0
      <3> QED
        BY <3>1, <1>3
    <2>2. CASE at >= Len(tokens)
      <3>1. f[at] = <<>>
        <4> HIDE DEF end
        <4>1. ParsedAt(types, tokens, f, at) = <<>>
          BY <2>2, Zenon DEF ParsedAt
        <4> QED
          BY <2>0, <4>1
      <3> QED
        BY <3>1
    <2>3. CASE at < Len(tokens) /\ tokens[at] # Start
      <3>1. f[at] = f[at + 1]
        <4>1. ~(at >= Len(tokens))
          BY <2>3, <1>0
        <4> QED
          BY <2>0, <2>3, <4>1 DEF ParsedAt
      <3> QED
        BY <3>1, <2>1, <2>3, <1>0
    <2>4. CASE at < Len(tokens) /\ tokens[at] = Start
      <3> DEFINE read == ParseOption(types, tokens[at + 1], tokens, at + 2)
      <3>1. PICK one, next : one = [option |-> tokens[at + 1], result |-> read.result, value |-> read.value]
                             /\ next = at + 2 + read.used
        OBVIOUS
      <3>2. at \in 1 .. Len(tokens) - 1
        BY <2>4, <1>0
      <3>3. one \in Reading /\ next \in at + 2 .. Len(tokens) + 1
        BY <3>1, <3>2, OptionIsReading
      <3>4. f[at] = <<one>> \o f[next]
        <4>1. ~(at >= Len(tokens))
          BY <2>4, <1>0
        <4> HIDE DEF end
        <4> QED
          BY <2>0, <2>4, <4>1, <3>1 DEF ParsedAt
      <3>5. f[next] \in Seq(Reading)
        BY <2>1, <3>3, <1>0
      <3> QED
        BY <3>3, <3>4, <3>5
    <2> QED
      BY <2>2, <2>3, <2>4, <1>0
  <1>4. Nat \subseteq T
    <2> HIDE DEF T
    <2> QED
      BY <1>2, <1>3, EveryNumber
  <1>5. end \in T
    BY <1>0, <1>4
  <1> QED
    BY <1>0, <1>5

\* Whatever is on the line, what it is parsed to is readings.
LEMMA ParseReads ==
  ASSUME NEW types, OnlyBytes(types), NEW tokens \in Seq(STRING) PROVE Parse(types, tokens) \in Seq(Reading)
  <1> DEFINE Right(f) == f = [at \in 1 .. Len(tokens) + 1 |-> ParsedAt(types, tokens, f, at)]
             parsed == CHOOSE f : Right(f)
  <1>1. Right(parsed)
    BY ParsesExist DEF ParsedFrom
  <1>2. Parse(types, tokens) = parsed[1]
    BY DEF Parse, ParsedAt
  <1>3. ParsedFrom(types, tokens, parsed, 1)
    BY <1>1 DEF ParsedFrom
  <1> HIDE DEF parsed
  <1> QED
    BY <1>2, <1>3, ParsesAreReadings

\* A hue of the colour wheel is a colour, and never black.
LEMMA HuesAreColours ==
  ASSUME NEW hue \in Byte PROVE ToColour(hue) \in Colours /\ ToColour(hue) # Black
  <1> DEFINE at == (hue * 6) \div 256
             rising == (hue * 6) % 256
             Part(channel, red, green, blue) ==
               CASE channel = "R" -> red [] channel = "G" -> green [] channel = "B" -> blue
             Edge(red, green, blue) == [channel \in Channels |-> Part(channel, red, green, blue)]
  <1>1. at \in {0, 1, 2, 3, 4, 5} /\ rising \in Byte /\ 255 - rising \in Byte /\ 255 \in Byte /\ 0 \in Byte
    BY DEF Byte
  <1>2. ASSUME NEW red \in Byte, NEW green \in Byte, NEW blue \in Byte, red = 255 \/ green = 255 \/ blue = 255
        PROVE  Edge(red, green, blue) \in Colours /\ Edge(red, green, blue) # Black
    <2>1. /\ Edge(red, green, blue)["R"] = red /\ Edge(red, green, blue)["G"] = green
          /\ Edge(red, green, blue)["B"] = blue
      BY DEF Channels
    <2>2. Black["R"] = 0 /\ Black["G"] = 0 /\ Black["B"] = 0
      BY DEF Black, Channels
    <2>3. Edge(red, green, blue) \in Colours
      <3>1. ASSUME NEW channel \in Channels PROVE Edge(red, green, blue)[channel] \in Byte
        BY <2>1 DEF Channels
      <3>2. Edge(red, green, blue) = [channel \in Channels |-> Edge(red, green, blue)[channel]]
        <4> HIDE DEF Part
        <4> QED
          OBVIOUS
      <3> HIDE DEF Edge
      <3> QED
        BY <3>1, <3>2 DEF Colours
    <2> HIDE DEF Edge
    <2> QED
      BY <1>2, <2>1, <2>2, <2>3
  <1>3. \/ at = 0 /\ ToColour(hue) = Edge(255, rising, 0)
        \/ at = 1 /\ ToColour(hue) = Edge(255 - rising, 255, 0)
        \/ at = 2 /\ ToColour(hue) = Edge(0, 255, rising)
        \/ at = 3 /\ ToColour(hue) = Edge(0, 255 - rising, 255)
        \/ at = 4 /\ ToColour(hue) = Edge(rising, 0, 255)
        \/ at = 5 /\ ToColour(hue) = Edge(255, 0, 255 - rising)
    <2>1. ToColour(hue) =
            CASE at = 0 -> Edge(255, rising, 0) [] at = 1 -> Edge(255 - rising, 255, 0)
              [] at = 2 -> Edge(0, 255, rising) [] at = 3 -> Edge(0, 255 - rising, 255)
              [] at = 4 -> Edge(rising, 0, 255) [] OTHER -> Edge(255, 0, 255 - rising)
      BY Zenon DEF ToColour
    <2> HIDE DEF at, rising, Edge
    <2> QED
      BY <2>1, <1>1
  <1> HIDE DEF Edge, at, rising, Part
  <1> QED
    BY <1>1, <1>2, <1>3

\* A display with another colour to show, before the letters follow it.
Recoloured(d, e) == IsDisplay(e) /\ Dark(e) /\ Typed(e) /\ Lit(e) = Lit(d)

\* A channel, a colour or a cycled hue that is set leaves the rest of the display as it is.
LEMMA ColourSet ==
  ASSUME NEW d, Sound(d), NEW colour \in Colours, NEW channel, NEW value \in Byte, NEW cycling
  PROVE  /\ Recoloured(d, [d EXCEPT !.color[channel] = value])
         /\ Recoloured(d, [d EXCEPT !.color = colour])
         /\ Recoloured(d, [d EXCEPT !.cycleColor = colour, !.cycling = cycling])
         /\ Recoloured(d, [d EXCEPT !.cycling = cycling])
  <1>0. IsDisplay(d) /\ Dark(d) /\ Typed(d)
    BY DEF Sound, Good
  <1>1. [d.color EXCEPT ![channel] = value] \in Colours
    BY <1>0 DEF Typed, Colours
  <1>2. ASSUME NEW to \in Colours, NEW e \in {[d EXCEPT !.color = to], [d EXCEPT !.cycling = cycling]}
        PROVE  Recoloured(d, e)
    BY <1>0 DEF Recoloured, IsDisplay, Dark, Typed, Lit
  <1>3. [d EXCEPT !.color[channel] = value] = [d EXCEPT !.color = [d.color EXCEPT ![channel] = value]]
    BY <1>0 DEF IsDisplay
  <1>4. ASSUME NEW e, e = [d EXCEPT !.cycleColor = colour, !.cycling = cycling]
        PROVE  Recoloured(d, e)
    <2>1. PICK f : f = [d EXCEPT !.cycleColor = colour]
      OBVIOUS
    <2>2. Recoloured(d, f)
      BY <1>0, <2>1 DEF Recoloured, IsDisplay, Dark, Typed, Lit
    <2>3. e = [f EXCEPT !.cycling = cycling]
      BY <1>4, <2>1
    <2> QED
      BY <2>2, <2>3 DEF Recoloured, IsDisplay, Dark, Typed, Lit
  <1> QED
    BY <1>1, <1>2, <1>3, <1>4

\* Setting colours leaves a sound display, and a hue of the wheel keeps the letters standing.
LEMMA ColoursKeepSound ==
  ASSUME NEW d, Sound(d), NEW channel, NEW value \in Byte, NEW hue \in Colours
  PROVE  /\ Sound(SetColorChannel(d, channel, value)) /\ Capped(SetColorChannel(d, channel, value))
         /\ Sound(StepColor(d, channel, value)) /\ Sound(ResetColor(d))
         /\ Sound(SetColorCycle(d, hue)) /\ Capped(SetColorCycle(d, hue))
         /\ hue # Black => Lit(SetColorCycle(d, hue)) = Lit(d)
         /\ Sound(ClearColorCycle(d)) /\ Capped(ClearColorCycle(d))
         /\ GetColorToShow(ClearColorCycle(d)) # Black => Lit(ClearColorCycle(d)) = Lit(d)
  <1> DEFINE channelSet == [d EXCEPT !.color[channel] = value]
             whiteSet   == [d EXCEPT !.color = White]
             hueSet     == [d EXCEPT !.cycleColor = hue, !.cycling = TRUE]
             cleared    == [d EXCEPT !.cycling = FALSE]
             Keeps(e)   == Recoloured(d, e)
  <1>0. White \in Colours /\ IsDisplay(d) /\ Typed(d)
    BY DEF White, Colours, Byte, Sound, Good
  <1>1. Keeps(channelSet) /\ Keeps(whiteSet) /\ Keeps(hueSet) /\ Keeps(cleared)
    BY <1>0, ColourSet
  <1>2. GetColorToShow(hueSet) = hue
    BY <1>0 DEF GetColorToShow, IsDisplay
  <1>3. ASSUME NEW e, Keeps(e) PROVE Sound(ApplyColor(e))
    BY <1>3, ColorMakesGood, ColorKeepsFace DEF Recoloured, Sound
  <1>4. ASSUME NEW e, Keeps(e)
        PROVE  /\ Sound(ApplyColorAndCurrentLimit(e)) /\ Capped(ApplyColorAndCurrentLimit(e))
               /\ GetColorToShow(e) # Black => Lit(ApplyColorAndCurrentLimit(e)) = Lit(d)
               /\ SameSettings(e, ApplyColorAndCurrentLimit(e))
    BY <1>4, ColorAndLimitCaps DEF Recoloured
  <1>5. /\ SetColorChannel(d, channel, value) = ApplyColorAndCurrentLimit(channelSet)
        /\ StepColor(d, channel, value) = ApplyColor(channelSet)
        /\ ResetColor(d) = ApplyColor(whiteSet)
        /\ SetColorCycle(d, hue) = ApplyColorAndCurrentLimit(hueSet)
        /\ ClearColorCycle(d) = ApplyColorAndCurrentLimit(cleared)
    BY DEF SetColorChannel, StepColor, ResetColor, SetColorCycle, ClearColorCycle
  <1> HIDE DEF channelSet, whiteSet, hueSet, cleared, Keeps
  <1>6. GetColorToShow(ClearColorCycle(d)) = GetColorToShow(cleared)
    BY <1>1, <1>4, <1>5 DEF SameSettings, GetColorToShow
  <1> QED
    BY <1>1, <1>2, <1>3, <1>4, <1>5, <1>6

\* Switching the display on and off leaves it sound.
LEMMA SwitchesKeepSound ==
  ASSUME NEW d, Sound(d)
  PROVE  Sound(Enable(d)) /\ Sound(Disable(d)) /\ Sound(Toggle(d))
  <1>1. IsDisplay(d) /\ Typed(d) /\ Good(Enable(d)) /\ Good(Disable(d))
    BY SwitchesKeepGood DEF Sound, Good
  <1>2. Typed(Enable(d))
    BY <1>1 DEF Enable, Typed, IsDisplay
  <1>3. Typed(Disable(d))
    BY <1>1 DEF Disable, Typed, IsDisplay
  <1> QED
    BY <1>1, <1>2, <1>3 DEF Sound, Toggle

\* Whoever writes pixels leaves a sound display.
LEMMA WritersKeepSound ==
  ASSUME NEW d, Sound(d), NEW led, NEW lit
  PROVE  Sound(Clear(d)) /\ Sound(Test(d)) /\ Sound(WritePixel(d, led, lit))
  <1>0. IsDisplay(d) /\ Typed(d)
    BY DEF Sound, Good
  <1>1. ASSUME NEW pixels PROVE Typed([d EXCEPT !.pixels = pixels])
    BY <1>0 DEF Typed, IsDisplay
  <1>2. Typed(Clear(d))
    BY <1>1 DEF Clear
  <1>3. Typed(WritePixel(d, led, lit))
    <2>1. WritePixel(d, led, lit) = [d EXCEPT !.pixels = [d.pixels EXCEPT ![led] = IF lit THEN d.dimmed ELSE Black]]
      BY <1>0 DEF WritePixel, IsDisplay
    <2> QED
      BY <2>1, <1>1
  <1>4. Typed(Test(d))
    <2>1. PICK e : e = [d EXCEPT !.pixels = [at \in Leds |-> d.dimmed]]
      OBVIOUS
    <2>2. IsDisplay(e) /\ Typed(e)
      BY <2>1, <1>0, <1>1 DEF IsDisplay
    <2> QED
      BY <2>1, <2>2, LimitCaps DEF Test
  <1> QED
    BY <1>2, <1>3, <1>4, WritersKeepGood DEF Sound

LEMMA DrawingKeepsSound ==
  ASSUME NEW d, Sound(d), NEW letters, NEW trail, FadesInSteps(trail)
  PROVE  Sound(Draw(d, letters, trail))
  <1>1. ASSUME NEW pixels PROVE Typed([d EXCEPT !.pixels = pixels])
    BY DEF Typed, IsDisplay, Sound, Good
  <1>2. Typed(Draw(d, letters, trail))
    BY <1>1 DEF Draw
  <1> QED
    BY <1>2, DrawingKeepsGood DEF Sound

\* The factory settings leave a sound display.
LEMMA ResetKeepsSound ==
  ASSUME NEW d, NEW read \in Readable, Sound(d) PROVE Sound(ResetToDefaults(d, read))
  <1> DEFINE other == [d EXCEPT !.color = White, !.brightness = 255, !.automatic = FALSE,
                                !.gamma = FALSE, !.night = 255]
             limited == ApplyCurrentLimit(other)
             applied == [limited EXCEPT !.applied = CalcBrightness(other, read)]
             Shaped(e) == IsDisplay(e) /\ Typed(e)
  <1>0. 255 \in Byte /\ White \in Colours
    BY DEF Byte, White, Colours
  <1>1. Shaped(other)
    <2> DEFINE first == [d EXCEPT !.color = White]
               second == [first EXCEPT !.brightness = 255]
               third == [second EXCEPT !.automatic = FALSE]
               fourth == [third EXCEPT !.gamma = FALSE]
    <2>1. Shaped(d)
      BY DEF Sound, Good
    <2>2. Shaped(first)
      BY <2>1, <1>0 DEF IsDisplay, Typed
    <2> HIDE DEF first
    <2>3. Shaped(second)
      BY <2>2, <1>0 DEF IsDisplay, Typed
    <2> HIDE DEF second
    <2>4. Shaped(third)
      BY <2>3 DEF IsDisplay, Typed
    <2> HIDE DEF third
    <2>5. Shaped(fourth)
      BY <2>4 DEF IsDisplay, Typed
    <2> HIDE DEF fourth
    <2>6. Shaped([fourth EXCEPT !.night = 255])
      BY <2>5, <1>0 DEF IsDisplay, Typed
    <2>7. other = [fourth EXCEPT !.night = 255]
      BY DEF first, second, third, fourth
    <2> QED
      BY <2>6, <2>7
  <1> HIDE DEF other
  <1>2. Shaped(limited)
    BY <1>1, LimitCaps
  <1> HIDE DEF limited
  <1>3. Shaped(applied)
    <2>1. CalcBrightness(other, read) \in Byte
      BY <1>1, ConfiguredIsByte
    <2> QED
      BY <1>2, <2>1 DEF IsDisplay, Typed
  <1> HIDE DEF applied
  <1>4. Shaped(ApplyColor(applied))
    BY <1>3, ColorKeepsFace
  <1>5. Shaped(ApplyBrightness(other, read))
    <2>1. ApplyBrightness(other, read) \in {limited, ApplyColor(applied)}
      BY DEF ApplyBrightness, limited, applied
    <2> HIDE DEF Shaped
    <2> QED
      BY <2>1, <1>2, <1>4
  <1>6. Shaped(ApplyColor(ApplyBrightness(other, read)))
    BY <1>5, ColorKeepsFace
  <1>7. ResetToDefaults(d, read) = ApplyColor(ApplyBrightness(other, read))
    BY DEF ResetToDefaults, other
  <1>8. Good(ResetToDefaults(d, read))
    BY ResetMakesGood DEF Sound
  <1> QED
    BY <1>6, <1>7, <1>8 DEF Sound

\* Every remote procedure of the display leaves it sound.
LEMMA ProceduresKeepSound ==
  ASSUME Sound(display), sensor \in Readable, NEW id \in DisplayProcedures PROVE Sound(DisplayAfter(id))
  <1>0. /\ display.brightness \in Byte /\ \A c \in Channels : display.color[c] \in Byte
        /\ Good(display) /\ Typed(display) /\ IsDisplay(display)
    BY DEF Sound, Good, Typed, Colours
  <1>1. \A v \in Byte : StepUp(v) \in Byte /\ StepDown(v) \in Byte
    BY DEF StepUp, StepDown, Byte
  <1>2. CASE id \in {3, 4, 5, 37}
    BY <1>2, SwitchesKeepSound DEF DisplayAfter
  <1>3. CASE id \in {6, 7}
    BY <1>3, WritersKeepSound DEF DisplayAfter
  <1>4. CASE id \in 8 .. 10 \cup 11 .. 13
    <2>1. \A n \in {1, 2, 3} : ChannelOf[n] \in Channels
      BY DEF ChannelOf, Channels
    <2>2. PICK channel \in Channels :
            DisplayAfter(id) \in {StepColor(display, channel, StepUp(display.color[channel])),
                                  StepColor(display, channel, StepDown(display.color[channel]))}
      <3>1. CASE id \in 8 .. 10
        <4>1. DisplayAfter(id) = StepColor(display, ChannelOf[id - 7], StepUp(display.color[ChannelOf[id - 7]]))
          BY <3>1 DEF DisplayAfter
        <4>2. ChannelOf[id - 7] \in Channels
          BY <3>1, <2>1
        <4> QED
          BY <4>1, <4>2
      <3>2. CASE id \in 11 .. 13
        <4>1. DisplayAfter(id) = StepColor(display, ChannelOf[id - 10], StepDown(display.color[ChannelOf[id - 10]]))
          BY <3>2 DEF DisplayAfter
        <4>2. ChannelOf[id - 10] \in Channels
          BY <3>2, <2>1
        <4> QED
          BY <4>1, <4>2
      <3> QED
        BY <1>4, <3>1, <3>2
    <2>3. PICK hue \in Colours : TRUE
      BY <1>0 DEF Typed
    <2> QED
      BY <2>2, <2>3, <1>0, <1>1, ColoursKeepSound
  <1>5. CASE id = 40
    <2>1. PICK hue \in Colours, value \in Byte : TRUE
      BY <1>0 DEF Typed
    <2>2. Sound(ResetColor(display))
      BY ColoursKeepSound
    <2> QED
      BY <2>2, <1>5 DEF DisplayAfter
  <1>6. CASE id \in {14, 15, 38, 39}
    <2>1. PICK value, use :
            /\ value \in Byte
            /\ DisplayAfter(id) \in {SetBrightness(display, sensor, value),
                                     SetUseAutomatic(display, sensor, use),
                                     SetUseGammaCorrection(display, sensor, use)}
      <3>1. CASE id \in {14, 15}
        BY <3>1, <1>0, <1>1 DEF DisplayAfter
      <3>2. CASE id \in {38, 39}
        BY <3>2, <1>0 DEF DisplayAfter
      <3> QED
        BY <1>6, <3>1, <3>2
    <2> QED
      BY <2>1, SettersKeepFace
  <1>7. CASE id \in 16 .. 19
    <2>1. PICK field \in {"automatic", "gamma"}, value \in BOOLEAN :
            DisplayAfter(id) = [display EXCEPT ![field] = value]
      <3>1. CASE id \in {16, 17}
        <4>1. DisplayAfter(id) = [display EXCEPT !["automatic"] = id = 16]
          BY <3>1 DEF DisplayAfter
        <4> QED
          BY <4>1
      <3>2. CASE id \in {18, 19}
        <4>1. DisplayAfter(id) = [display EXCEPT !["gamma"] = id = 18]
          BY <3>2 DEF DisplayAfter
        <4> QED
          BY <4>1
      <3> QED
        BY <1>7, <3>1, <3>2
    <2>2. Good([display EXCEPT ![field] = value])
      BY <1>0, OtherFields
    <2>3. Typed([display EXCEPT ![field] = value])
      BY <1>0 DEF Typed, IsDisplay
    <2> QED
      BY <2>1, <2>2, <2>3 DEF Sound
  <1> QED
    BY <1>2, <1>3, <1>4, <1>5, <1>6, <1>7 DEF DisplayProcedures
-----------------------------------------------------------------------------

(* The steps. *)

LineFields == {"phase", "command", "options", "before", "lit", "todo", "given", "refused", "result"}
IsLine(l) == l = [field \in LineFields |-> l[field]]

\* The commands of which the display takes the numbers themselves.
TakesBytes == {"DisplayColor", "DisplayBrightness"}

LineTyped ==
  line.phase = "options" =>
    /\ IsLine(line)
    /\ line.command \in TakesBytes => line.todo \in Seq(Reading)

LightInv ==
  /\ Sound(display)
  /\ sensor \in Readable
  /\ wheel \in [active : BOOLEAN, hue : Byte]
  /\ scenario \in DOMAIN Scenarios
  /\ LineTyped

\* Whether it answers or not, the sensor stays readable, and so it does while it is calibrated.
LEMMA SensorKeepsReadable ==
  ASSUME NEW read \in Readable, NEW answers \in BOOLEAN, NEW lux \in Nat, NEW bound \in {"bright", "dark"}
  PROVE  /\ SensorAfterTask(read, answers, lux) \in Readable
         /\ StartCalibration(read, bound, answers, lux) \in Readable
  <1>1. CountReadFailure(read) \in Readable
    <2>1. [read EXCEPT !.failures = @ + 1] \in Readable
      BY DEF Readable
    <2>2. [read EXCEPT !.failures = 0, !.ready = FALSE] \in Readable
      BY DEF Readable
    <2> QED
      BY <2>1, <2>2 DEF CountReadFailure
  <1>2. SensorAfterTask(read, answers, lux) \in Readable
    <2>1. CASE ~read.ready
      BY <2>1 DEF SensorAfterTask, Readable
    <2>2. CASE read.ready /\ answers
      BY <2>2 DEF SensorAfterTask, Readable
    <2>3. CASE read.ready /\ ~answers
      BY <2>3, <1>1 DEF SensorAfterTask
    <2> QED
      BY <2>1, <2>2, <2>3
  <1>3. \A other \in Readable : [other EXCEPT ![bound] = other.lux] \in Readable
    BY DEF Readable
  <1> QED
    BY <1>2, <1>3 DEF StartCalibration

\* After the start the display is sound, and no line has been read.
LEMMA InitLight == Init => LightInv
  <1> SUFFICES ASSUME Init PROVE LightInv
    OBVIOUS
  <1> DEFINE limited == ApplyCurrentLimit(Constructed)
             other == [limited EXCEPT !.applied = CalcBrightness(Constructed, SilentSensor)]
  <1>0. 255 \in Byte /\ 0 \in Byte /\ White \in Colours
    BY DEF Byte, White, Colours
  <1>1. SilentSensor \in Readable /\ [active |-> FALSE, hue |-> 0] \in [active : BOOLEAN, hue : Byte]
    BY <1>0 DEF SilentSensor, Readable
  <1>2. IsDisplay(Constructed) /\ Typed(Constructed)
    BY <1>0 DEF Constructed, IsDisplay, Typed
  <1>3. IsDisplay(limited) /\ Typed(limited)
    BY <1>2, LimitCaps
  <1>4. CalcBrightness(Constructed, SilentSensor) \in Byte
    BY <1>1, <1>2, ConfiguredIsByte
  <1>5. IsDisplay(other) /\ Typed(other)
    <2> HIDE DEF limited
    <2> QED
      BY <1>3, <1>4 DEF IsDisplay, Typed
  <1>6. Typed(ApplyColor(other))
    BY <1>5, ColorKeepsFace
  <1>7. Typed(ApplyBrightness(Constructed, SilentSensor))
    <2>1. ApplyBrightness(Constructed, SilentSensor) \in {limited, ApplyColor(other)}
      BY DEF ApplyBrightness
    <2> HIDE DEF limited, other
    <2> QED
      BY <2>1, <1>3, <1>6
  <1>8. Sound(display)
    BY <1>7, InitGood DEF Init, IInv, Sound
  <1>9. LineTyped
    BY DEF Init, NoLine, LineTyped
  <1> QED
    BY <1>1, <1>8, <1>9 DEF Init, LightInv

\* One option less, whatever its handler made of it.
LEMMA LineStepsOn ==
  ASSUME LineTyped, line.phase = "options", line.todo # << >>,
         \E given, refused : line' = [[[line EXCEPT !.todo = Tail(@)] EXCEPT !.refused = refused] EXCEPT !.given = given]
  PROVE  LineTyped'
  <1>0. IsLine(line)
    BY DEF LineTyped
  <1>1. PICK given, refused :
          line' = [[[line EXCEPT !.todo = Tail(@)] EXCEPT !.refused = refused] EXCEPT !.given = given]
    OBVIOUS
  <1>2. IsLine(line') /\ line'.phase = "options" /\ line'.command = line.command /\ line'.todo = Tail(line.todo)
    BY <1>0, <1>1 DEF IsLine, LineFields
  <1>3. line.todo \in Seq(Reading) => Tail(line.todo) \in Seq(Reading)
    OBVIOUS
  <1> QED
    BY <1>2, <1>3 DEF LineTyped

\* Handling an option takes it from the line and touches nothing else of what was read.
LEMMA ConsumedStepsOn ==
  ASSUME LineTyped, line.phase = "options", line.todo # << >>,
         \/ line' = Consumed
         \/ \E option, error : line' = Refused(option, error)
         \/ \E option, value : line' = Collected(option, value)
         \/ \E option, value, given : line' = [Collected(option, value) EXCEPT !.given = given]
  PROVE  LineTyped'
  <1>0. IsLine(line)
    BY DEF LineTyped
  <1>1. \E given, refused : line' = [[[line EXCEPT !.todo = Tail(@)] EXCEPT !.refused = refused] EXCEPT !.given = given]
    <2> DEFINE Next2(given, refused) ==
          [[[line EXCEPT !.todo = Tail(@)] EXCEPT !.refused = refused] EXCEPT !.given = given]
    <2>1. CASE line' = Consumed
      <3>1. line' = Next2(line.given, line.refused)
        BY <2>1, <1>0 DEF Consumed, IsLine, LineFields
      <3> QED
        BY <3>1
    <2>2. ASSUME NEW option, NEW error, line' = Refused(option, error)
          PROVE  \E given, refused : line' = Next2(given, refused)
      <3>1. line' = Next2(line.given, line.refused \cup {<< option, error >>})
        BY <2>2, <1>0 DEF Refused, Consumed, IsLine, LineFields
      <3> QED
        BY <3>1
    <2>3. ASSUME NEW option, NEW value, line' = Collected(option, value)
          PROVE  \E given, refused : line' = Next2(given, refused)
      <3>1. line' = Next2((option :> AsKept(line.command, option, value)) @@ line.given, line.refused)
        BY <2>3, <1>0 DEF Collected, Consumed, IsLine, LineFields
      <3> QED
        BY <3>1
    <2>4. ASSUME NEW option, NEW value, NEW given, line' = [Collected(option, value) EXCEPT !.given = given]
          PROVE  \E gave, refused : line' = Next2(gave, refused)
      <3>1. line' = Next2(given, line.refused)
        BY <2>4, <1>0 DEF Collected, Consumed, IsLine, LineFields
      <3> QED
        BY <3>1
    <2> QED
      BY <2>1, <2>2, <2>3, <2>4
  <1> QED
    BY <1>1, LineStepsOn

\* A line that is received is parsed to readings of the command's own options.
LEMMA ReceiveKeepsLight == LightInv /\ Receive => LightInv'
  <1> SUFFICES ASSUME LightInv, Receive PROVE LightInv'
    OBVIOUS
  <1>1. PICK message \in Scenarios[scenario].lines :
          line' = [phase   |-> "options",
                   command |-> message.command,
                   options |-> message.options,
                   before  |-> StoredSettings(message.command),
                   lit     |-> Lit(display),
                   todo    |-> Parse(ParameterTable(message.command), message.tokens),
                   given   |-> IF message.command \in {"Time", "Date"}
                               THEN settings[message.command] ELSE << >>,
                   refused |-> {},
                   result  |-> "ok"]
    BY DEF Receive
  <1>2. message.tokens \in Seq(STRING)
    BY ScenarioAssumption DEF LightInv
  <1>3. IsLine(line') /\ line'.command = message.command
        /\ line'.todo = Parse(ParameterTable(message.command), message.tokens)
    BY <1>1 DEF IsLine, LineFields
  <1>4. message.command \in TakesBytes => OnlyBytes(ParameterTable(message.command))
    <2>1. message.command = "DisplayColor" => ParameterTable(message.command) = Numbers({"R", "G", "B"})
      BY DEF ParameterTable, Overlays
    <2>2. message.command = "DisplayBrightness" => ParameterTable(message.command) = Numbers({"B", "A", "G"})
      BY DEF ParameterTable, Overlays
    <2>3. \A letters : OnlyBytes(Numbers(letters))
      BY DEF OnlyBytes, Numbers
    <2> QED
      BY <2>1, <2>2, <2>3 DEF TakesBytes
  <1>5. LineTyped'
    BY <1>2, <1>3, <1>4, ParseReads DEF LineTyped
  <1> QED
    BY <1>5 DEF Receive, LightInv

\* The number an option hands to the display is a byte.
LEMMA HeadIsByte ==
  ASSUME LineTyped, NEW command \in TakesBytes, NEW option, NEW value, Option(command, option, value)
  PROVE  value \in Byte
  <1>1. line.todo \in Seq(Reading) /\ line.todo # << >>
    BY DEF Option, LineTyped
  <1>2. Head(line.todo) \in Reading
    BY <1>1
  <1>3. Head(line.todo).value = value
    BY DEF Option
  <1> QED
    BY <1>2, <1>3 DEF Reading

\* Handling an option keeps the inductive invariant.
LEMMA HandleKeepsLight == LightInv /\ HandleOption => LightInv'
  <1> SUFFICES ASSUME LightInv, HandleOption PROVE LightInv'
    OBVIOUS
  <1> DEFINE option == Head(line.todo).option
             value == Head(line.todo).value
  <1>0. LineTyped /\ Sound(display) /\ sensor \in Readable
    BY DEF LightInv
  <1>1. ASSUME LineTyped', Sound(display'), UNCHANGED << scenario, wheel, sensor >> PROVE LightInv'
    BY <1>1 DEF LightInv
  <1>2. CASE RefuseOption
    <2>1. LineTyped'
      <3>1. \E opt, error : line' = Refused(opt, error)
        BY <1>2 DEF RefuseOption
      <3> QED
        BY <1>0, <1>2, <3>1, ConsumedStepsOn DEF RefuseOption
    <2> QED
      BY <1>0, <1>1, <1>2, <2>1 DEF RefuseOption
  <1>3. CASE DisplayColorOption(option, value)
    <2>1. value \in Byte
      BY <1>0, <1>3, HeadIsByte DEF DisplayColorOption, TakesBytes
    <2>2. PICK hue \in Colours : TRUE
      BY <1>0 DEF Sound, Typed
    <2>3. Sound(SetColorChannel(display, option, value))
      BY <1>0, <2>1, <2>2, ColoursKeepSound
    <2>4. line.phase = "options" /\ line.todo # << >> /\ line' = Consumed /\ display' = SetColorChannel(display, option, value)
          /\ UNCHANGED << scenario, wheel, sensor >>
      BY <1>3 DEF DisplayColorOption, Option
    <2>5. LineTyped'
      BY <1>0, <2>4, ConsumedStepsOn
    <2> QED
      BY <1>1, <2>3, <2>4, <2>5
  <1>4. CASE DisplayBrightnessOption(option, value)
    <2>1. value \in Byte
      BY <1>0, <1>4, HeadIsByte DEF DisplayBrightnessOption, TakesBytes
    <2>2. display' \in {SetBrightness(display, sensor, value), SetUseAutomatic(display, sensor, value # 0),
                        SetUseGammaCorrection(display, sensor, value # 0)}
      BY <1>4 DEF DisplayBrightnessOption
    <2>3. Sound(display')
      BY <1>0, <2>1, <2>2, SettersKeepFace
    <2>4. line.phase = "options" /\ line.todo # << >> /\ line' = Consumed /\ UNCHANGED << scenario, wheel, sensor >>
      BY <1>4 DEF DisplayBrightnessOption, Option
    <2>5. LineTyped'
      BY <1>0, <2>4, ConsumedStepsOn
    <2> QED
      BY <1>1, <2>3, <2>4, <2>5
  <1>5. ASSUME UNCHANGED << scenario, display, wheel, sensor >>, line.phase = "options", line.todo # << >>,
               \/ line' = Consumed
               \/ \E opt, error : line' = Refused(opt, error)
               \/ \E opt, val : line' = Collected(opt, val)
               \/ \E opt, val, given : line' = [Collected(opt, val) EXCEPT !.given = given]
        PROVE  LightInv'
    BY <1>0, <1>1, <1>5, ConsumedStepsOn
  <1>6. ASSUME NEW command, \/ SetOption(command, option, value)
                            \/ CollectOption(command, option, value)
                            \/ SetOverlayOption(command, option, value)
                            \/ IgnoreText(command, value)
        PROVE  LightInv'
    <2>1. CASE SetOption(command, option, value)
      BY <2>1, <1>5 DEF SetOption, Option
    <2>2. CASE CollectOption(command, option, value)
      BY <2>2, <1>5 DEF CollectOption, Option
    <2>3. CASE SetOverlayOption(command, option, value)
      BY <2>3, <1>5 DEF SetOverlayOption, Option
    <2>4. CASE IgnoreText(command, value)
      BY <2>4, <1>5 DEF IgnoreText, Option
    <2> QED
      BY <1>6, <2>1, <2>2, <2>3, <2>4
  <1>7. CASE DisplayPixelOption(option, value)
    <2>1. \/ \E opt, val : line' = Collected(opt, val)
          \/ \E opt, val, given : line' = [Collected(opt, val) EXCEPT !.given = given]
      <3>1. CASE option = "S"
        BY <1>7, <3>1 DEF DisplayPixelOption
      <3>2. CASE option # "S" /\ option = "I" /\ ("S" \in DOMAIN line.given \/ PixelState(value) = -1)
        BY <1>7, <3>2 DEF DisplayPixelOption
      <3>3. CASE option # "S" /\ ~(option = "I" /\ ("S" \in DOMAIN line.given \/ PixelState(value) = -1))
        <4>1. line' = [Collected("I", value) EXCEPT !.given = ("S" :> PixelState(value)) @@ @]
          BY <1>7, <3>3 DEF DisplayPixelOption
        <4>2. line' = [Collected("I", value) EXCEPT !.given = ("S" :> PixelState(value)) @@ Collected("I", value).given]
          BY <4>1
        <4> QED
          BY <4>2
      <3> QED
        BY <3>1, <3>2, <3>3
    <2> QED
      BY <1>5, <1>7, <2>1 DEF DisplayPixelOption, Option
  <1>8. CASE DateTimeOption(line.command, option, value)
    <2>1. \/ \E opt, error : line' = Refused(opt, error)
          \/ \E opt, val : line' = Collected(opt, val)
      BY <1>8 DEF DateTimeOption
    <2> QED
      BY <1>5, <1>8, <2>1 DEF DateTimeOption, Option
  <1>9. CASE \/ OverlayDateOption(option, value)
             \/ OverlayTemperatureOption(option, value)
             \/ OverlayTextOption(option, value)
             \/ ClockModeOption(option, value)
             \/ AnimationOption(option, value)
             \/ NightSwitchOption(option, value)
             \/ ColorCycleOption(option, value)
             \/ NetworkOption(option, value)
             \/ ConsoleOption(option, value)
             \/ ProcedureOption(option, value)
    BY <1>6, <1>9 DEF OverlayDateOption, OverlayTemperatureOption, OverlayTextOption, ClockModeOption,
       AnimationOption, NightSwitchOption, ColorCycleOption, NetworkOption, ConsoleOption, ProcedureOption
  <1> QED
    BY <1>2, <1>3, <1>4, <1>7, <1>8, <1>9 DEF HandleOption

\* Once a line is answered it has no options left to handle.
LEMMA AnswersAreTyped ==
  ASSUME LineTyped, AllRead,
         \/ \E result : line' = Answered(result)
         \/ \E result, options : line' = AndRefused(Answered(result), options)
  PROVE  LineTyped'
  <1>1. IsLine(line)
    BY DEF LineTyped, AllRead
  <1>2. ASSUME NEW result, line' = Answered(result) PROVE LineTyped'
    <2>1. line'.phase = "answered"
      BY <1>1, <1>2 DEF Answered, IsLine, LineFields
    <2> QED
      BY <2>1 DEF LineTyped
  <1>3. ASSUME NEW result, NEW options, line' = AndRefused(Answered(result), options) PROVE LineTyped'
    <2>1. line'.phase = "answered"
      BY <1>1, <1>3 DEF AndRefused, Answered, IsLine, LineFields
    <2> QED
      BY <2>1 DEF LineTyped
  <1> QED
    BY <1>2, <1>3

\* Processing a line keeps the inductive invariant.
LEMMA ProcessKeepsLight == LightInv /\ Process => LightInv'
  <1> SUFFICES ASSUME LightInv, Process PROVE LightInv'
    OBVIOUS
  <1>0. LineTyped /\ Sound(display) /\ sensor \in Readable /\ wheel \in [active : BOOLEAN, hue : Byte]
    BY DEF LightInv
  <1> DEFINE AnsweredSo == \/ \E result : line' = Answered(result)
                           \/ \E result, options : line' = AndRefused(Answered(result), options)
  <1>1. ASSUME AllRead, AnsweredSo, Sound(display'), sensor' \in Readable, UNCHANGED scenario,
               wheel' \in [active : BOOLEAN, hue : Byte]
        PROVE  LightInv'
    BY <1>0, <1>1, AnswersAreTyped DEF LightInv
  <1>2. CASE ProcessPixel
    <2>1. AnsweredSo /\ AllRead
      BY <1>2 DEF ProcessPixel
    <2>2. Sound(display')
      BY <1>0, <1>2, WritersKeepSound DEF ProcessPixel
    <2> QED
      BY <1>0, <1>1, <1>2, <2>1, <2>2 DEF ProcessPixel
  <1>3. CASE ProcessColorCycle
    <2>1. AnsweredSo /\ AllRead
      BY <1>3 DEF ProcessColorCycle
    <2>2. 0 \in Byte
      BY DEF Byte
    <2>3. ToColour(wheel.hue) \in Colours
      BY <1>0, HuesAreColours
    <2>4. Sound(display')
      BY <1>0, <1>3, <2>2, <2>3, ColoursKeepSound DEF ProcessColorCycle, SetIsActive
    <2>5. wheel' \in [active : BOOLEAN, hue : Byte]
      <3>1. \A active \in BOOLEAN : [wheel EXCEPT !.active = active] \in [active : BOOLEAN, hue : Byte]
        BY <1>0
      <3>2. (line.given["A"] = 1) \in BOOLEAN
        OBVIOUS
      <3> QED
        BY <1>0, <1>3, <3>1, <3>2 DEF ProcessColorCycle, SetIsActive
    <2> QED
      BY <1>0, <1>1, <1>3, <2>1, <2>4, <2>5 DEF ProcessColorCycle
  <1>4. CASE ProcessDisplayProcedure
    <2>1. AnsweredSo /\ AllRead
      BY <1>4 DEF ProcessDisplayProcedure
    <2>2. line.given["P"] \in DisplayProcedures
      BY <1>4 DEF ProcessDisplayProcedure, GivenOr, DisplayProcedures
    <2>3. Sound(display')
      BY <1>0, <1>4, <2>2, ProceduresKeepSound DEF ProcessDisplayProcedure
    <2> QED
      BY <1>0, <1>1, <1>4, <2>1, <2>3 DEF ProcessDisplayProcedure
  <1>5. CASE ProcessReset
    <2>1. AnsweredSo /\ AllRead
      BY <1>5 DEF ProcessReset
    <2>2. 0 \in Byte
      BY DEF Byte
    <2>3. PICK hue \in Colours : TRUE
      BY <1>0 DEF Sound, Typed
    <2>4. Sound(ResetToDefaults(display, sensor))
      BY <1>0, ResetKeepsSound
    <2>5. Sound(display')
      BY <1>5, <2>2, <2>3, <2>4, ColoursKeepSound DEF ProcessReset
    <2>6. wheel' \in [active : BOOLEAN, hue : Byte]
      BY <1>5, <2>2 DEF ProcessReset
    <2>7. sensor' \in Readable
      <3>1. SilentSensor.bright \in Nat /\ SilentSensor.dark \in Nat
        BY DEF SilentSensor
      <3>2. \A b, d \in Nat : [sensor EXCEPT !.bright = b, !.dark = d] \in Readable
        BY <1>0 DEF Readable
      <3> QED
        BY <1>5, <3>1, <3>2 DEF ProcessReset
    <2> QED
      BY <1>1, <1>5, <2>1, <2>5, <2>6, <2>7 DEF ProcessReset
  <1>6. CASE ProcessCalibration
    <2>1. AnsweredSo /\ AllRead
      BY <1>6 DEF ProcessCalibration
    <2>2. Scenarios[scenario].lux \subseteq Nat
      BY ScenarioAssumption DEF LightInv
    <2>3. sensor' \in Readable
      BY <1>0, <1>6, <2>2, SensorKeepsReadable DEF ProcessCalibration
    <2> QED
      BY <1>0, <1>1, <1>6, <2>1, <2>3 DEF ProcessCalibration
  <1>7. CASE \/ ProcessNothing \/ ProcessAnimation \/ ProcessDateTime \/ ProcessNightSwitch
             \/ ProcessNetwork \/ ProcessConsole \/ ProcessStep \/ ProcessNoProcedure
    <2>1. AllRead /\ UNCHANGED << scenario, display, wheel, sensor >>
      BY <1>7 DEF ProcessNothing, ProcessAnimation, ProcessDateTime, ProcessNightSwitch,
         ProcessNetwork, ProcessConsole, ProcessStep, ProcessNoProcedure
    <2>2. AnsweredSo
      <3>1. CASE ProcessNetwork
        BY <3>1 DEF ProcessNetwork
      <3>2. CASE ProcessAnimation
        BY <3>2 DEF ProcessAnimation
      <3>3. CASE \/ ProcessNothing \/ ProcessDateTime \/ ProcessNightSwitch
                 \/ ProcessConsole \/ ProcessStep \/ ProcessNoProcedure
        BY <3>3 DEF ProcessNothing, ProcessDateTime, ProcessNightSwitch, ProcessConsole,
                    ProcessStep, ProcessNoProcedure
      <3> QED
        BY <1>7, <3>1, <3>2, <3>3
    <2> QED
      BY <1>0, <1>1, <2>1, <2>2
  <1> QED
    BY <1>2, <1>3, <1>4, <1>5, <1>6, <1>7 DEF Process

\* The tasks of the display, the sensor and the colour cycle keep the inductive invariant.
LEMMA TasksKeepLight ==
  ASSUME LightInv, BrightnessTask \/ DrawLetters \/ TakeNightLevel \/ TakeFadeLevel \/ CycleTask \/ SensorTask
  PROVE  LightInv'
  <1>0. LineTyped /\ Sound(display) /\ sensor \in Readable /\ wheel \in [active : BOOLEAN, hue : Byte]
    BY DEF LightInv
  <1>1. /\ Scenarios[scenario].nights \subseteq Byte /\ Scenarios[scenario].fades \subseteq Byte
        /\ Scenarios[scenario].lux \subseteq Nat
    BY ScenarioAssumption DEF LightInv
  <1>2. ASSUME Sound(display'), UNCHANGED << scenario, wheel, sensor, line >> PROVE LightInv'
    BY <1>2 DEF LightInv, LineTyped
  <1>3. CASE BrightnessTask
    <2>1. Sound(display')
      BY <1>0, <1>3, BrightnessKeepsFace DEF BrightnessTask
    <2> QED
      BY <1>2, <1>3, <2>1 DEF BrightnessTask
  <1>4. CASE DrawLetters
    <2>1. PICK letters \in Scenarios[scenario].faces, trail \in Scenarios[scenario].trails :
            display' = Draw(display, letters, trail)
      BY <1>4 DEF DrawLetters
    <2>2. FadesInSteps(trail)
      BY <2>1, ScenarioAssumption DEF FadesInSteps, LightInv
    <2>3. Sound(display')
      BY <1>0, <2>1, <2>2, DrawingKeepsSound
    <2> QED
      BY <1>2, <1>4, <2>3 DEF DrawLetters
  <1>5. CASE TakeNightLevel
    <2>1. Sound(display')
      BY <1>0, <1>1, <1>5, SettersKeepFace DEF TakeNightLevel
    <2> QED
      BY <1>2, <1>5, <2>1 DEF TakeNightLevel
  <1>6. CASE TakeFadeLevel
    <2>1. Sound(display')
      BY <1>0, <1>1, <1>6, SettersKeepFace DEF TakeFadeLevel
    <2> QED
      BY <1>2, <1>6, <2>1 DEF TakeFadeLevel
  <1>7. CASE CycleTask
    <2>1. (wheel.hue + 1) % 256 \in Byte
      BY <1>0 DEF Byte
    <2>2. Sound(display')
      BY <1>0, <1>7, <2>1, HuesAreColours, ColoursKeepSound DEF CycleTask
    <2>3. wheel' \in [active : BOOLEAN, hue : Byte]
      BY <1>0, <1>7, <2>1 DEF CycleTask
    <2> QED
      BY <1>0, <1>7, <2>2, <2>3 DEF CycleTask, LightInv, LineTyped
  <1>8. CASE SensorTask
    <2>1. sensor' \in Readable
      BY <1>0, <1>1, <1>8, SensorKeepsReadable DEF SensorTask
    <2> QED
      BY <1>0, <1>8, <2>1 DEF SensorTask, LightInv, LineTyped
  <1> QED
    BY <1>3, <1>4, <1>5, <1>6, <1>7, <1>8

\* LightInv is inductive.
LEMMA StepKeepsLight == LightInv /\ [Next]_vars => LightInv'
  <1> SUFFICES ASSUME LightInv, [Next]_vars PROVE LightInv'
    OBVIOUS
  <1>1. CASE UNCHANGED vars
    BY <1>1 DEF vars, LightInv, LineTyped
  <1> QED
    BY <1>1, ReceiveKeepsLight, HandleKeepsLight, ProcessKeepsLight, TasksKeepLight DEF Next

\* While a line is handed on, only its own command moves the display.
LEMMA LineMovesDisplay ==
  ASSUME LightInv, Next, line.phase = "options", line.command \in {"DisplayColor", "DisplayBrightness", "ColorCycle"}
  PROVE  \/ display' = display
         \/ /\ line.command = "DisplayColor"
            /\ \E value \in Byte : \E channel : display' = SetColorChannel(display, channel, value)
         \/ line.command = "DisplayBrightness" /\ Sound(display') /\ Lit(display') = Lit(display)
         \/ /\ line.command = "ColorCycle"
            /\ display' \in {SetColorCycle(display, ToColour(wheel.hue)), ClearColorCycle(display)}
  <1>0. LineTyped /\ Sound(display) /\ sensor \in Readable
    BY DEF LightInv
  <1>1. HandleOption \/ Process
    BY DEF Next, Receive, BrightnessTask, DrawLetters, TakeNightLevel, TakeFadeLevel, CycleTask,
           SensorTask, Between
  <1> DEFINE option == Head(line.todo).option
             value == Head(line.todo).value
  <1>2. CASE DisplayColorOption(option, value)
    <2>1. value \in Byte
      BY <1>0, <1>2, HeadIsByte DEF DisplayColorOption, TakesBytes
    <2>2. line.command = "DisplayColor" /\ display' = SetColorChannel(display, option, value)
      BY <1>2 DEF DisplayColorOption, Option
    <2> QED
      BY <2>1, <2>2
  <1>3. CASE DisplayBrightnessOption(option, value)
    <2>1. value \in Byte
      BY <1>0, <1>3, HeadIsByte DEF DisplayBrightnessOption, TakesBytes
    <2>2. display' \in {SetBrightness(display, sensor, value), SetUseAutomatic(display, sensor, value # 0),
                        SetUseGammaCorrection(display, sensor, value # 0)}
      BY <1>3 DEF DisplayBrightnessOption
    <2>3. Sound(display') /\ Lit(display') = Lit(display)
      BY <1>0, <2>1, <2>2, SettersKeepFace
    <2> QED
      BY <1>3, <2>3 DEF DisplayBrightnessOption, Option
  <1>4. CASE ProcessColorCycle
    BY <1>4 DEF ProcessColorCycle, SetIsActive
  <1>5. ASSUME NEW command, \/ SetOption(command, option, value)
                            \/ CollectOption(command, option, value)
                            \/ SetOverlayOption(command, option, value)
                            \/ IgnoreText(command, value)
        PROVE  display' = display
    BY <1>5 DEF SetOption, CollectOption, SetOverlayOption, IgnoreText
  <1>6. CASE \/ RefuseOption
             \/ DisplayPixelOption(option, value)
             \/ OverlayDateOption(option, value)
             \/ OverlayTemperatureOption(option, value)
             \/ OverlayTextOption(option, value)
             \/ ClockModeOption(option, value)
             \/ AnimationOption(option, value)
             \/ DateTimeOption(line.command, option, value)
             \/ NightSwitchOption(option, value)
             \/ ColorCycleOption(option, value)
             \/ NetworkOption(option, value)
             \/ ConsoleOption(option, value)
             \/ ProcedureOption(option, value)
    BY <1>5, <1>6 DEF RefuseOption, DisplayPixelOption, OverlayDateOption, OverlayTemperatureOption,
       OverlayTextOption, ClockModeOption, AnimationOption,
       DateTimeOption, NightSwitchOption, ColorCycleOption, NetworkOption, ConsoleOption, ProcedureOption
  <1>7. CASE \/ ProcessNothing \/ ProcessAnimation \/ ProcessDateTime \/ ProcessNightSwitch
             \/ ProcessNetwork \/ ProcessConsole \/ ProcessCalibration \/ ProcessStep \/ ProcessNoProcedure
    BY <1>7 DEF ProcessNothing, ProcessAnimation, ProcessDateTime, ProcessNightSwitch,
       ProcessNetwork, ProcessConsole, ProcessCalibration, ProcessStep, ProcessNoProcedure
  <1>8. ~ProcessPixel /\ ~ProcessDisplayProcedure /\ ~ProcessReset
    BY DEF ProcessPixel, ProcessDisplayProcedure, ProcessReset
  <1> QED
    BY <1>1, <1>2, <1>3, <1>4, <1>6, <1>7, <1>8 DEF HandleOption, Process

\* A step of the wheel shows another hue, and no letter goes with it.
LEMMA WheelKeepsFace ==
  ASSUME LightInv, CycleTask
  PROVE  Sound(display') /\ Capped(display') /\ Lit(display') = Lit(display)
  <1>1. Sound(display) /\ wheel \in [active : BOOLEAN, hue : Byte]
    BY DEF LightInv
  <1>2. PICK hue : hue = ToColour((wheel.hue + 1) % 256)
    OBVIOUS
  <1>3. (wheel.hue + 1) % 256 \in Byte
    BY <1>1 DEF Byte
  <1>4. hue \in Colours /\ hue # Black
    BY <1>2, <1>3, HuesAreColours
  <1>5. display' = SetColorCycle(display, hue)
    BY <1>2 DEF CycleTask
  <1>6. 0 \in Byte
    BY DEF Byte
  <1> QED
    BY <1>1, <1>4, <1>5, <1>6, ColoursKeepSound

\* A cycled colour that is not black keeps the letters standing.
LEMMA CyclingKeepsFace ==
  ASSUME LightInv, display' \in {SetColorCycle(display, ToColour(wheel.hue)), ClearColorCycle(display)}
  PROVE  /\ Sound(display') /\ Capped(display')
         /\ GetColorToShow(display') # Black => Lit(display') = Lit(display)
  <1>1. Sound(display) /\ wheel \in [active : BOOLEAN, hue : Byte] /\ 0 \in Byte
    BY DEF LightInv, Byte
  <1>2. PICK hue \in Colours : hue = ToColour(wheel.hue) /\ hue # Black
    BY <1>1, HuesAreColours
  <1> QED
    BY <1>1, <1>2, ColoursKeepSound

\* Every step that works the limit out again leaves the current within the supply's budget.
LEMMA BudgetIsKept ==
  LightInv /\ [Next]_vars =>
    [ \/ BrightnessTask \/ CycleTask
      \/ line.phase = "options" /\ line.command \in {"DisplayColor", "ColorCycle"} /\ display' # display
      => CurrentDrawn(display') <=
           Max({BudgetMilliAmps * 1000, IdleCurrent})
           + LitCurrentAtFull(Cardinality(Lit(display')), ChannelSum(GetColorToShow(display'))) \div 256 + 1 ]_vars
  <1> SUFFICES ASSUME LightInv, Next,
                      \/ BrightnessTask \/ CycleTask
                      \/ line.phase = "options" /\ line.command \in {"DisplayColor", "ColorCycle"} /\ display' # display
               PROVE  Budget(display')
    BY DEF Budget
  <1>0. Sound(display) /\ sensor \in Readable
    BY DEF LightInv
  <1>1. Sound(display') /\ Capped(display')
    <2>1. CASE BrightnessTask
      BY <2>1, <1>0, BrightnessKeepsFace DEF BrightnessTask
    <2>2. CASE CycleTask
      BY <2>2, WheelKeepsFace
    <2>3. CASE line.phase = "options" /\ line.command \in {"DisplayColor", "ColorCycle"} /\ display' # display
      <3>1. CASE line.command = "DisplayColor"
        <4>1. PICK value \in Byte : \E channel : display' = SetColorChannel(display, channel, value)
          BY <2>3, <3>1, LineMovesDisplay
        <4>2. PICK hue \in Colours : TRUE
          BY <1>0 DEF Sound, Typed
        <4> QED
          BY <1>0, <4>1, <4>2, ColoursKeepSound
      <3>2. CASE line.command = "ColorCycle"
        BY <2>3, <3>2, LineMovesDisplay, CyclingKeepsFace
      <3> QED
        BY <2>3, <3>1, <3>2
    <2> QED
      BY <2>1, <2>2, <2>3
  <1>2. PICK d : d = display'
    OBVIOUS
  <1>3. Budget(d)
    BY <1>1, <1>2, LimitedFits DEF Capped
  <1> QED
    BY <1>2, <1>3

\* The automatic never goes above what is asked for, nor below its floor.
LEMMA AutomaticIsBounded ==
  LightInv /\ [Next]_vars =>
    [ BrightnessTask /\ display.automatic /\ display.night = 255 /\ display.fade = 255 =>
        LET asked == IF display.gamma THEN CalcCorrectedValue(display.brightness) ELSE display.brightness
        IN /\ display'.applied <= asked
           /\ display'.applied >= Min({AutomaticFloor, asked})
           /\ sensor.lux >= sensor.bright /\ sensor.bright > sensor.dark => display'.applied = asked ]_vars
  <1> SUFFICES ASSUME LightInv, BrightnessTask, display.automatic, display.night = 255, display.fade = 255
               PROVE  /\ display'.applied <= Asked(display)
                      /\ display'.applied >= Min({AutomaticFloor, Asked(display)})
                      /\ sensor.lux >= sensor.bright /\ sensor.bright > sensor.dark => display'.applied = Asked(display)
    BY DEF Asked
  <1>0. Sound(display) /\ Typed(display) /\ sensor \in Readable
    BY DEF LightInv, Sound
  <1>1. display'.applied = CalcBrightness(display, sensor)
    BY <1>0, BrightnessKeepsFace DEF BrightnessTask
  <1>2. PICK asked, applied : asked = Asked(display) /\ applied = CalcBrightnessAutomatic(sensor, Asked(display))
    OBVIOUS
  <1>3. /\ asked \in Byte /\ applied \in 0 .. asked /\ display'.applied = applied
        /\ asked < AutomaticFloor => applied = asked
        /\ asked >= AutomaticFloor => applied >= AutomaticFloor
        /\ sensor.lux >= sensor.bright /\ sensor.bright > sensor.dark => applied = asked
    BY <1>0, <1>1, <1>2, ConfiguredIsByte
  <1>4. asked \in Nat /\ AutomaticFloor = 8
    BY <1>3 DEF Byte, AutomaticFloor
  <1>5. Min({AutomaticFloor, asked}) = IF asked < AutomaticFloor THEN asked ELSE AutomaticFloor
    BY <1>4 DEF Min
  <1> QED
    BY <1>2, <1>3, <1>4, <1>5

\* No dimming takes a letter from the face, or puts one there.
LEMMA FaceIsKept ==
  LightInv /\ [Next]_vars =>
    [ \/ BrightnessTask \/ TakeNightLevel \/ TakeFadeLevel \/ CycleTask
      \/ /\ line.phase = "options"
         /\ \/ line.command = "DisplayBrightness"
            \/ line.command = "ColorCycle" /\ GetColorToShow(display') # Black
      => Lit(display') = Lit(display) ]_vars
  <1> SUFFICES ASSUME LightInv, Next,
                      \/ BrightnessTask \/ TakeNightLevel \/ TakeFadeLevel \/ CycleTask
                      \/ /\ line.phase = "options"
                         /\ \/ line.command = "DisplayBrightness"
                            \/ line.command = "ColorCycle" /\ GetColorToShow(display') # Black
               PROVE  Lit(display') = Lit(display)
    OBVIOUS
  <1>0. Sound(display) /\ sensor \in Readable
        /\ Scenarios[scenario].nights \subseteq Byte /\ Scenarios[scenario].fades \subseteq Byte
    BY ScenarioAssumption DEF LightInv
  <1>1. CASE BrightnessTask
    BY <1>0, <1>1, BrightnessKeepsFace DEF BrightnessTask
  <1>2. CASE TakeNightLevel
    BY <1>0, <1>2, SettersKeepFace DEF TakeNightLevel
  <1>3. CASE TakeFadeLevel
    BY <1>0, <1>3, SettersKeepFace DEF TakeFadeLevel
  <1>4. CASE CycleTask
    BY <1>4, WheelKeepsFace
  <1>5. CASE line.phase = "options" /\ line.command = "DisplayBrightness"
    <2>1. display' = display \/ Lit(display') = Lit(display)
      BY <1>5, LineMovesDisplay
    <2> QED
      BY <2>1
  <1>6. CASE line.phase = "options" /\ line.command = "ColorCycle" /\ GetColorToShow(display') # Black
    <2>1. CASE display' = display
      BY <2>1
    <2>2. CASE display' # display
      BY <1>6, <2>2, LineMovesDisplay, CyclingKeepsFace
    <2> QED
      BY <2>1, <2>2
  <1> QED
    BY <1>1, <1>2, <1>3, <1>4, <1>5, <1>6

(***************************************************************************)
(* Whatever lines arrive and whichever task runs next: the current the     *)
(* display draws fits the supply it was limited for, the automatic dims    *)
(* between its floor and what is asked for, and no change of brightness    *)
(* ever takes a letter from the face (ApplyBrightness, ApplyCurrentLimit   *)
(* and the tasks that call them).                                          *)
(***************************************************************************)
THEOREM LightAlwaysKeepsItsBounds == Spec => LightKeepsItsBounds
  <1>1. Spec => FitsTheBudget
    BY InitLight, StepKeepsLight, BudgetIsKept, PTL DEF Spec, FitsTheBudget
  <1>2. Spec => AutomaticKeepsItsBounds
    BY InitLight, StepKeepsLight, AutomaticIsBounded, PTL DEF Spec, AutomaticKeepsItsBounds
  <1>3. Spec => DimmingKeepsTheFace
    BY InitLight, StepKeepsLight, FaceIsKept, PTL DEF Spec, DimmingKeepsTheFace
  <1> QED
    BY <1>1, <1>2, <1>3 DEF LightKeepsItsBounds
=============================================================================
