------------------------------ MODULE Commands ------------------------------
(***************************************************************************)
(* The commands of the serial interface, from the line that arrives to the *)
(* state it leaves: each option handed to its handler as it is read, then  *)
(* Process().  A handler sets at once, or keeps the value for Process();   *)
(* which of the two an option does is part of what the command promises.   *)
(*                                                                         *)
(* The display, the colour wheel and the light sensor have tasks of their  *)
(* own, which run between two lines and never inside one.                  *)
(***************************************************************************)
EXTENDS CommandOptions, DisplayLight, TLC

CONSTANT Scenarios    \* bound: which lines arrive, on which settings, and what else happens

\* The levels are bytes, what the sensor reads is no less than nothing, a trail has six steps,
\* and a line is its tokens.
ASSUME ScenarioAssumption ==
  \A scene \in DOMAIN Scenarios :
    /\ Scenarios[scene].nights \subseteq Byte
    /\ Scenarios[scene].fades \subseteq Byte
    /\ Scenarios[scene].lux \subseteq Nat
    /\ \A trail \in Scenarios[scene].trails, led \in Leds :
         led \in DOMAIN trail => trail[led] \in 1 .. kTrailFadeSteps
    /\ \A message \in Scenarios[scene].lines : message.tokens \in Seq(STRING)

VARIABLES
  scenario,   \* chosen at the start
  display,    \* the Display with its colour, brightness and pixels
  wheel,      \* ColorCycle: is_active_ and hue_
  sensor,     \* BH1750
  settings,   \* what the other commands set, by command and option
  line,       \* the parser of the line that arrived last
  sent        \* how many lines have arrived

vars == << scenario, display, wheel, sensor, settings, line, sent >>

NoLine == [phase |-> "none"]

\* ColorCycle: one hue at full saturation: six segments, in each of which one channel moves.
ToColour(hue) ==
  LET rising == (hue * 6) % 256
      Edge(red, green, blue) == [channel \in Channels |->
        CASE channel = "R" -> red [] channel = "G" -> green [] channel = "B" -> blue]
  IN CASE (hue * 6) \div 256 = 0 -> Edge(255, rising, 0)
       [] (hue * 6) \div 256 = 1 -> Edge(255 - rising, 255, 0)
       [] (hue * 6) \div 256 = 2 -> Edge(0, 255, rising)
       [] (hue * 6) \div 256 = 3 -> Edge(0, 255 - rising, 255)
       [] (hue * 6) \div 256 = 4 -> Edge(rising, 0, 255)
       [] OTHER                  -> Edge(255, 0, 255 - rising)

(* Overlays: each of the three has settings, getters and setters of its own. *)
GetOverlay(overlay) == settings[overlay]
SetOverlay(overlay, option, value) ==
  [settings EXCEPT ![overlay][option] = AsKept(overlay, option, value)]

(* What a command reads back, whoever keeps it. *)
StoredSettings(command) ==
  CASE command = "DisplayColor" -> display.color
    [] command = "DisplayBrightness" ->
         [B |-> display.brightness, A |-> IF display.automatic THEN 1 ELSE 0,
          G |-> IF display.gamma THEN 1 ELSE 0]
    [] command = "ColorCycle" ->
         [A |-> IF wheel.active THEN 1 ELSE 0, S |-> settings["ColorCycle"]["S"]]
    [] command \in Overlays -> GetOverlay(command)
    [] command \in DOMAIN settings \ (Overlays \cup {"ColorCycle"}) -> settings[command]
    [] OTHER -> << >>

(* A line arrives, is parsed, and its parser is made. *)
Receive ==
  /\ line.phase # "options"
  /\ sent < Scenarios[scenario].count
  /\ \E message \in Scenarios[scenario].lines :
       line' = [phase   |-> "options",
                command |-> message.command,
                options |-> message.options,
                before  |-> StoredSettings(message.command),
                lit     |-> Lit(display),
                todo    |-> Parse(ParameterTable(message.command), message.tokens),
                given   |-> IF message.command \in {"Time", "Date"}
                            THEN settings[message.command] ELSE << >>,
                refused |-> {},
                result  |-> "ok"]
  /\ sent' = sent + 1
  /\ UNCHANGED << scenario, display, wheel, sensor, settings >>

(* One option is handed on.  What its handler does to the parser is one of these. *)
Consumed == [line EXCEPT !.todo = Tail(@)]
Refused(option, error) == [Consumed EXCEPT !.refused = @ \cup {<< option, error >>}]
Collected(option, value) ==
  [Consumed EXCEPT !.given = (option :> AsKept(line.command, option, value)) @@ @]

Option(command, option, value) ==
  /\ line.phase = "options"
  /\ line.command = command
  /\ line.todo # << >>
  /\ Head(line.todo) = [option |-> option, result |-> "ok", value |-> value]

Reads == {"unknown", "noValue", "overflow"}
ErrorOf(read) ==
  CASE read = "unknown"  -> "ParameterUnknown"
    [] read = "noValue"  -> "NoValueGiven"
    [] read = "overflow" -> "ValueOutOfBounds"

\* The table does not know the option, or its argument could not be read.
RefuseOption ==
  /\ line.phase = "options"
  /\ line.todo # << >>
  /\ Head(line.todo).result \in Reads
  /\ line' = Refused(Head(line.todo).option, ErrorOf(Head(line.todo).result))
  /\ UNCHANGED << scenario, display, wheel, sensor, settings, sent >>

\* Set where it arrives, or refused by the setter.
SetOption(command, option, value) ==
  /\ Option(command, option, value)
  /\ IF Accepts(command, option, value)
     THEN /\ line' = Consumed
          /\ settings' = [settings EXCEPT ![command][option] = AsKept(command, option, value)]
     ELSE /\ line' = Refused(option, "ValueOutOfBounds")
          /\ UNCHANGED settings
  /\ UNCHANGED << scenario, display, wheel, sensor, sent >>

\* Kept for Process().
CollectOption(command, option, value) ==
  /\ Option(command, option, value)
  /\ line' = Collected(option, value)
  /\ UNCHANGED << scenario, display, wheel, sensor, settings, sent >>

DisplayColorOption(option, value) ==
  /\ Option("DisplayColor", option, value)
  /\ display' = SetColorChannel(display, option, value)
  /\ line' = Consumed
  /\ UNCHANGED << scenario, wheel, sensor, settings, sent >>

DisplayBrightnessOption(option, value) ==
  /\ Option("DisplayBrightness", option, value)
  /\ option \in {"B", "A", "G"}
  /\ display' = CASE option = "B" -> SetBrightness(display, sensor, value)
                  [] option = "A" -> SetUseAutomatic(display, sensor, value # 0)
                  [] option = "G" -> SetUseGammaCorrection(display, sensor, value # 0)
  /\ line' = Consumed
  /\ UNCHANGED << scenario, wheel, sensor, settings, sent >>

\* -I also reads the state of its pixel, where no -S has given one; an index that is not on
\* the display has none.
PixelState(index) == IF index \in Leds THEN IF IsLit(display.pixels[index]) THEN 1 ELSE 0 ELSE -1
DisplayPixelOption(option, value) ==
  /\ Option("DisplayPixel", option, value)
  /\ line' = CASE option = "S" -> Collected("S", IF value = 0 THEN 0 ELSE 1)
               [] option = "I" /\ ("S" \in DOMAIN line.given \/ PixelState(value) = -1) ->
                    Collected("I", value)
               [] OTHER -> [Collected("I", value) EXCEPT !.given = ("S" :> PixelState(value)) @@ @]
  /\ UNCHANGED << scenario, display, wheel, sensor, settings, sent >>

\* HandleParameter() of every overlay's parser, on the overlay that its command is for.
SetOverlayOption(command, option, value) ==
  /\ Option(command, option, value)
  /\ IF Accepts(command, option, value)
     THEN line' = Consumed /\ settings' = SetOverlay(command, option, value)
     ELSE line' = Refused(option, "ValueOutOfBounds") /\ UNCHANGED settings
  /\ UNCHANGED << scenario, display, wheel, sensor, sent >>

\* The text is a text overlay's; the others take it and keep nothing.
IgnoreText(command, value) ==
  /\ Option(command, "T", value)
  /\ line' = Consumed
  /\ UNCHANGED << scenario, display, wheel, sensor, settings, sent >>

OverlayDateOption(option, value) ==
  IF option = "T" THEN IgnoreText("OverlayDate", value)
  ELSE SetOverlayOption("OverlayDate", option, value)

OverlayTemperatureOption(option, value) ==
  IF option = "T" THEN IgnoreText("OverlayTemperature", value)
  ELSE SetOverlayOption("OverlayTemperature", option, value)

OverlayTextOption(option, value) == SetOverlayOption("OverlayText", option, value)

ClockModeOption(option, value) == SetOption("ClockMode", option, value)

AnimationOption(option, value) == CollectOption("Animation", option, value)

\* On the copy the parser took, where the setter takes it.
DateTimeOption(command, option, value) ==
  /\ command \in {"Time", "Date"}
  /\ Option(command, option, value)
  /\ line' = IF Accepts(command, option, value) THEN Collected(option, value)
             ELSE Refused(option, "ValueOutOfBounds")
  /\ UNCHANGED << scenario, display, wheel, sensor, settings, sent >>

NightSwitchOption(option, value) ==
  IF option = "A" THEN CollectOption("NightSwitch", option, value)
  ELSE SetOption("NightSwitch", option, value)

ColorCycleOption(option, value) ==
  IF option = "A" THEN CollectOption("ColorCycle", option, value)
  ELSE SetOption("ColorCycle", option, value)

NetworkOption(option, value) == CollectOption("Network", option, value)
ConsoleOption(option, value) == CollectOption("Console", option, value)
ProcedureOption(option, value) == CollectOption("RemoteProcedureCall", option, value)

HandleOption ==
  \/ RefuseOption
  \/ /\ line.phase = "options"
     /\ line.todo # << >>
     /\ LET option == Head(line.todo).option
            value  == Head(line.todo).value
        IN \/ DisplayColorOption(option, value)
           \/ DisplayBrightnessOption(option, value)
           \/ DisplayPixelOption(option, value)
           \/ OverlayDateOption(option, value)
           \/ OverlayTemperatureOption(option, value)
           \/ OverlayTextOption(option, value)
           \/ ClockModeOption(option, value)
           \/ AnimationOption(option, value)
           \/ DateTimeOption(line.command, option, value)
           \/ NightSwitchOption(option, value)
           \/ ColorCycleOption(option, value)
           \/ NetworkOption(option, value)
           \/ ConsoleOption(option, value)
           \/ ProcedureOption(option, value)

(* Process(), once every option has been handed on. *)
AllRead == line.phase = "options" /\ line.todo = << >>
Answered(result) == [line EXCEPT !.phase = "answered", !.result = result]
Given(option) == option \in DOMAIN line.given
AndRefused(answered, options) ==
  [answered EXCEPT !.refused = @ \cup {<< option, "ValueOutOfBounds" >> : option \in options}]

\* Color, brightness, overlays, clock mode and status have nothing left to do but to show.
ProcessNothing ==
  /\ AllRead
  /\ line.command \in Overlays \cup {"DisplayColor", "DisplayBrightness", "ClockMode", "Status"}
  /\ line' = Answered("ok")
  /\ UNCHANGED << scenario, display, wheel, sensor, settings, sent >>

\* Without an -I the index is the first pixel's, which is on the display, and nothing is set.
ProcessPixel ==
  /\ AllRead
  /\ line.command = "DisplayPixel"
  /\ IF Given("I") /\ line.given["I"] \notin Leds
     THEN /\ line' = AndRefused(Answered("ok"), {"I"})
          /\ UNCHANGED display
     ELSE /\ line' = Answered("ok")
          /\ display' = IF Given("I") /\ Given("S")
                        THEN WritePixel(display, line.given["I"], line.given["S"] = 1) ELSE display
  /\ UNCHANGED << scenario, wheel, sensor, settings, sent >>

SetAnimation(animations, animation) ==
  IF IsAnimationValid(animation) THEN [animations EXCEPT !["A"] = animation] ELSE animations
SetMode(animations, mode) ==
  IF IsAnimationModeValid(mode) THEN [animations EXCEPT !["M"] = mode] ELSE animations

\* The last favourite stays, as the modes that select would have nothing to pick from.
TakesFavourite(animations, animation, favourite) ==
  /\ animation \in 1 .. 15
  /\ ~ (favourite = 0 /\ animations["F"] = {animation})
SetFavourite(animations, animation, favourite) ==
  CASE ~ TakesFavourite(animations, animation, favourite) -> animations
    [] favourite = 0 -> [animations EXCEPT !["F"] = @ \ {animation}]
    [] OTHER -> [animations EXCEPT !["F"] = @ \cup {animation}]
SetTaskCycle(animations, animation, cycle) ==
  IF IsAnimationValid(animation) THEN [animations EXCEPT !["S"][animation] = cycle] ELSE animations

\* The animation, the mode, the favourite and the speed, in this order and where given.
GivenOr(option, otherwise) == IF Given(option) THEN line.given[option] ELSE otherwise
AfterFavourite(animations, animation) ==
  IF Given("F") THEN SetFavourite(animations, animation, line.given["F"]) ELSE animations
AfterSpeed(animations, animation) ==
  IF Given("S") THEN SetTaskCycle(animations, animation, ConvertSpeedToTaskCycle(line.given["S"]))
  ELSE animations
AfterSelection(animations) ==
  LET selected == IF Given("A") THEN SetAnimation(animations, line.given["A"]) ELSE animations
  IN IF Given("M") THEN SetMode(selected, line.given["M"]) ELSE selected

\* The favourite and the speed go to the animation that was selected before.
AnimationsAfter_AddressTheOldOne(animations) ==
  AfterSpeed(AfterFavourite(AfterSelection(animations), animations["A"]), animations["A"])
AnimationsAfter(animations) ==
  LET addressed == GivenOr("A", animations["A"])
  IN AfterSpeed(AfterFavourite(AfterSelection(animations), addressed), addressed)

ProcessAnimation ==
  /\ AllRead
  /\ line.command = "Animation"
  /\ LET animations == settings["Animation"]
         addressed  == GivenOr("A", animations["A"])
         refused    ==
           {option \in DOMAIN line.given :
              \/ option \in {"A", "S"} /\ ~IsAnimationValid(addressed)
              \/ option = "M" /\ ~IsAnimationModeValid(line.given["M"])
              \/ option = "F" /\ ~TakesFavourite(animations, addressed, line.given["F"])}
     IN /\ settings' = [settings EXCEPT !["Animation"] = AnimationsAfter(animations)]
        /\ line' = AndRefused(Answered("ok"), refused)
  /\ UNCHANGED << scenario, display, wheel, sensor, sent >>

\* The copy is written back whole.
ProcessDateTime ==
  /\ AllRead
  /\ line.command \in {"Time", "Date"}
  /\ settings' = [settings EXCEPT ![line.command] = line.given]
  /\ line' = Answered("ok")
  /\ UNCHANGED << scenario, display, wheel, sensor, sent >>

ProcessNightSwitch ==
  /\ AllRead
  /\ line.command = "NightSwitch"
  /\ settings' = IF Given("A") THEN [settings EXCEPT !["NightSwitch"]["A"] = line.given["A"]]
                 ELSE settings
  /\ line' = Answered("ok")
  /\ UNCHANGED << scenario, display, wheel, sensor, sent >>

SetIsActive(active) ==
  /\ wheel' = [wheel EXCEPT !.active = active]
  /\ display' = IF active THEN SetColorCycle(display, ToColour(wheel.hue)) ELSE ClearColorCycle(display)

ProcessColorCycle ==
  /\ AllRead
  /\ line.command = "ColorCycle"
  /\ IF Given("A") THEN SetIsActive(line.given["A"] = 1) ELSE UNCHANGED << display, wheel >>
  /\ line' = Answered("ok")
  /\ UNCHANGED << scenario, sensor, settings, sent >>

\* Both or neither; an empty name forgets the network, and otherwise the name is written
\* first, so that a write that fails can leave it with the pass phrase of the one before.
ProcessNetwork ==
  /\ AllRead
  /\ line.command = "Network"
  /\ CASE Given("S") /\ Given("P") /\ line.given["S"] = << >> ->
            /\ settings' = [settings EXCEPT !["Network"] = [S |-> << >>, P |-> << >>]]
            /\ line' = Answered("ok")
       [] Given("S") /\ Given("P") /\ line.given["S"] # << >> ->
            \E written \in {{}, {"S"}, {"S", "P"}} :
              /\ settings' = [settings EXCEPT !["Network"] =
                   [option \in {"S", "P"} |-> IF option \in written THEN line.given[option] ELSE @[option]]]
              /\ line' = Answered(IF written = {"S", "P"} THEN "ok" ELSE "NotOk")
       [] ~Given("S") /\ ~Given("P") -> line' = Answered("ok") /\ UNCHANGED settings
       [] OTHER -> line' = Answered("NotOk") /\ UNCHANGED settings
  /\ UNCHANGED << scenario, display, wheel, sensor, sent >>

\* An empty password is kept as none.  A store that does not take it leaves the one before,
\* and says so to the parser, which does not answer it.
ProcessConsole ==
  /\ AllRead
  /\ line.command = "Console"
  /\ \/ /\ settings' = IF Given("P") THEN [settings EXCEPT !["Console"]["P"] = line.given["P"]] ELSE settings
        /\ line' = Answered("ok")
     \/ /\ Given("P")
        /\ line' = Answered("NotOk")
        /\ UNCHANGED settings
  /\ UNCHANGED << scenario, display, wheel, sensor, sent >>

(* The remote procedures that act on the display and on the sensor, by their id. *)
ChannelOf == << "R", "G", "B" >>
StepUp(value) == IF value < 255 THEN value + 1 ELSE value
StepDown(value) == IF value > 0 THEN value - 1 ELSE value
DisplayProcedures == 3 .. 19 \cup 37 .. 40
CalibrationProcedures == {1, 2}
kSettingsReset == 30
Procedures == 1 .. 40

DisplayAfter(id) ==
  CASE id = 3 -> Enable(display)
    [] id = 4 -> Disable(display)
    [] id = 5 -> display
    [] id = 6 -> Clear(display)
    [] id = 7 -> Test(display)
    [] id \in 8 .. 10 -> StepColor(display, ChannelOf[id - 7], StepUp(display.color[ChannelOf[id - 7]]))
    [] id \in 11 .. 13 -> StepColor(display, ChannelOf[id - 10], StepDown(display.color[ChannelOf[id - 10]]))
    [] id = 14 -> SetBrightness(display, sensor, StepUp(display.brightness))
    [] id = 15 -> SetBrightness(display, sensor, StepDown(display.brightness))
    [] id \in {16, 17} -> [display EXCEPT !.automatic = id = 16]
    [] id \in {18, 19} -> [display EXCEPT !.gamma = id = 18]
    [] id = 37 -> Toggle(display)
    [] id = 38 -> SetUseAutomatic(display, sensor, ~display.automatic)
    [] id = 39 -> SetUseGammaCorrection(display, sensor, ~display.gamma)
    [] id = 40 -> ResetColor(display)

ProcessDisplayProcedure ==
  /\ AllRead
  /\ line.command = "RemoteProcedureCall"
  /\ GivenOr("P", 0) \in DisplayProcedures
  /\ display' = DisplayAfter(line.given["P"])
  /\ line' = Answered("ok")
  /\ UNCHANGED << scenario, wheel, sensor, settings, sent >>

ProcessCalibration ==
  /\ AllRead
  /\ line.command = "RemoteProcedureCall"
  /\ GivenOr("P", 0) \in CalibrationProcedures
  /\ \E answers \in BOOLEAN, lux \in Scenarios[scenario].lux :
       sensor' = StartCalibration(sensor, IF line.given["P"] = 1 THEN "bright" ELSE "dark", answers, lux)
  /\ line' = Answered(IF sensor.ready THEN "ok" ELSE "NotOk")
  /\ UNCHANGED << scenario, display, wheel, settings, sent >>

\* Persistence::Reset(): the display, the sensor's bounds and the settings, and the wheel last.
ProcessReset ==
  /\ AllRead
  /\ line.command = "RemoteProcedureCall"
  /\ GivenOr("P", 0) = kSettingsReset
  /\ display' = ClearColorCycle(ResetToDefaults(display, sensor))
  /\ wheel' = [active |-> FALSE, hue |-> 0]
  /\ sensor' = [sensor EXCEPT !.bright = SilentSensor.bright, !.dark = SilentSensor.dark]
  /\ settings' = [command \in DOMAIN settings |->
       IF command \in {"Time", "Date", "Network", "Console"} THEN settings[command]
       ELSE Scenarios[scenario].settings[command]]
  /\ line' = Answered("ok")
  /\ UNCHANGED << scenario, sent >>

\* The round a knob walks: every animation, favourite or not, and every wording of the clock.
ToNextAnimation(animation) == (animation + 1) % 16
ToPreviousAnimation(animation) == (animation + 15) % 16
ToNextMode(mode) == (mode + 1) % 4
SteppingProcedures == 34 .. 36
SettingsAfter(id) ==
  CASE id = 34 -> [settings EXCEPT !["Animation"]["A"] = ToNextAnimation(@)]
    [] id = 35 -> [settings EXCEPT !["Animation"]["A"] = ToPreviousAnimation(@)]
    [] id = 36 -> [settings EXCEPT !["ClockMode"]["M"] = ToNextMode(@)]

ProcessStep ==
  /\ AllRead
  /\ line.command = "RemoteProcedureCall"
  /\ GivenOr("P", 0) \in SteppingProcedures
  /\ settings' = SettingsAfter(line.given["P"])
  /\ line' = Answered("ok")
  /\ UNCHANGED << scenario, display, wheel, sensor, sent >>

ProcessNoProcedure ==
  /\ AllRead
  /\ line.command = "RemoteProcedureCall"
  /\ GivenOr("P", 0) \notin Procedures
  /\ line' = Answered("RpcIdUnknown")
  /\ UNCHANGED << scenario, display, wheel, sensor, settings, sent >>

Process ==
  \/ ProcessNothing \/ ProcessPixel \/ ProcessAnimation \/ ProcessDateTime \/ ProcessNightSwitch
  \/ ProcessColorCycle \/ ProcessNetwork \/ ProcessConsole
  \/ ProcessDisplayProcedure \/ ProcessCalibration \/ ProcessReset
  \/ ProcessStep \/ ProcessNoProcedure

(* What runs between two lines. *)
Between == line.phase # "options"

\* The DisplayManager's task, before anything else it does.
BrightnessTask ==
  /\ Between
  /\ display' = ApplyBrightness(display, sensor)
  /\ UNCHANGED << scenario, wheel, sensor, settings, line, sent >>

\* The clock, an overlay or an animation puts letters up, the matrix with a trail behind a drop.
DrawLetters ==
  /\ Between
  /\ \E letters \in Scenarios[scenario].faces, trail \in Scenarios[scenario].trails :
       display' = Draw(display, letters, trail)
  /\ UNCHANGED << scenario, wheel, sensor, settings, line, sent >>

\* NightSwitch and an animation that fades.
TakeNightLevel ==
  /\ Between
  /\ \E level \in Scenarios[scenario].nights : display' = SetNightLevel(display, sensor, level)
  /\ UNCHANGED << scenario, wheel, sensor, settings, line, sent >>

TakeFadeLevel ==
  /\ Between
  /\ \E level \in Scenarios[scenario].fades : display' = SetFadeLevel(display, sensor, level)
  /\ UNCHANGED << scenario, wheel, sensor, settings, line, sent >>

\* A display that is off has nothing to cycle.
CycleTask ==
  /\ Between
  /\ wheel.active /\ display.enabled
  /\ wheel.hue \in Scenarios[scenario].hues
  /\ wheel' = [wheel EXCEPT !.hue = (@ + 1) % 256]
  /\ display' = SetColorCycle(display, ToColour((wheel.hue + 1) % 256))
  /\ UNCHANGED << scenario, sensor, settings, line, sent >>

SensorTask ==
  /\ Between
  /\ \E answers \in BOOLEAN, lux \in Scenarios[scenario].lux : sensor' = SensorAfterTask(sensor, answers, lux)
  /\ UNCHANGED << scenario, display, wheel, settings, line, sent >>

Init ==
  /\ scenario \in DOMAIN Scenarios
  /\ display = ApplyBrightness(Constructed, SilentSensor)
  /\ wheel = [active |-> FALSE, hue |-> 0]
  /\ sensor = SilentSensor
  /\ settings = Scenarios[scenario].settings
  /\ line = NoLine
  /\ sent = 0

Next ==
  \/ Receive \/ HandleOption \/ Process
  \/ BrightnessTask \/ DrawLetters \/ TakeNightLevel \/ TakeFadeLevel
  \/ CycleTask \/ SensorTask

Spec == Init /\ [][Next]_vars

\* What a line refused it has answered, option by option, and nothing else.
RefusalsAreAnswered ==
  line.phase = "answered" /\ line.command # "DisplayPixel" =>
    {refusal[1] : refusal \in line.refused} =
      RefusedInLine(line.command, line.options, line.before)

\* A line answered without an error on the line itself has left every setting of its command
\* as the options say, read on their own: the last value of each that its setter takes, and
\* what was stored before where there is none; the animation's favourite and speed with the
\* animation the line names; a network's name and pass phrase together or not at all.
LineMeansItsOptions ==
  /\ line.phase = "answered" /\ line.result = "ok" =>
       Comparable(line.command, StoredSettings(line.command)) =
         Comparable(line.command, Meaning(line.command, line.options, line.before))
  /\ RefusalsAreAnswered

\* While the display is off its master is nothing, whatever the colour, the brightness, the
\* current limit, the wheel or a test would have it.
OffStaysDark == ~display.enabled => display.master = 0

\* The letters that stand carry the colour that is to be shown, at the brightness that was
\* applied, or a sixth and more of it in the trail of a drop: they are the only memory of the
\* face, and nothing redraws it between two minutes.
LettersWearTheColour ==
  /\ display.dimmed = Dimmed(display)
  /\ \A led \in Lit(display) : display.pixels[led] \in Worn(display)

\* Once the brightness has been applied, what the strip draws stays within the supply, up to
\* one step of the master, rounded up; likewise after a colour and a step of the wheel.
FitsTheBudget ==
  [][ \/ BrightnessTask \/ CycleTask
      \/ line.phase = "options" /\ line.command \in {"DisplayColor", "ColorCycle"} /\ display' # display
      => CurrentDrawn(display') <=
           Max({BudgetMilliAmps * 1000, IdleCurrent})
           + LitCurrentAtFull(Cardinality(Lit(display')), ChannelSum(GetColorToShow(display'))) \div 256 + 1 ]_vars

\* The automatic never shines brighter than the setting, never below its floor or a setting
\* that is itself below it, and all of the setting in a room as bright as the bright bound.
AutomaticKeepsItsBounds ==
  [][ BrightnessTask /\ display.automatic /\ display.night = 255 /\ display.fade = 255 =>
        LET asked == IF display.gamma THEN CalcCorrectedValue(display.brightness) ELSE display.brightness
        IN /\ display'.applied <= asked
           /\ display'.applied >= Min({AutomaticFloor, asked})
           /\ sensor.lux >= sensor.bright /\ sensor.bright > sensor.dark => display'.applied = asked ]_vars

\* No brightness, however low, no night, no fade and no hue takes a letter away or puts one up:
\* what is dimmed to nothing could not be told from what was never lit.  Only the end of a cycle
\* over a colour that is itself black leaves none.
DimmingKeepsTheFace ==
  [][ \/ BrightnessTask \/ TakeNightLevel \/ TakeFadeLevel \/ CycleTask
      \/ /\ line.phase = "options"
         /\ \/ line.command = "DisplayBrightness"
            \/ line.command = "ColorCycle" /\ GetColorToShow(display') # Black
      => Lit(display') = Lit(display) ]_vars

\* However dim the light is made it keeps the face, and however bright the supply's budget.
LightKeepsItsBounds == FitsTheBudget /\ AutomaticKeepsItsBounds /\ DimmingKeepsTheFace
=============================================================================
