--------------------------- MODULE DisplayLight ---------------------------
(***************************************************************************)
(* What the display sends to the strip: the colour and the brightness that *)
(* were asked for, the levels the night, a fade and the colour cycle put   *)
(* above them, the pixel buffer that carries the dimmed colour and the     *)
(* strip's master, which the current limit holds down.  Operators on one   *)
(* record, the Display with its DisplayColor, its DisplayBrightness and    *)
(* the pixels; the build is the default one, where the colour does the     *)
(* dimming and the master only limits.  A pixel that is black is unlit:    *)
(* the buffer is the only memory of which letters stand.                   *)
(***************************************************************************)
EXTENDS Integers, FiniteSets, FiniteSetsExt

CONSTANTS Leds,              \* the LEDs of the strip
          BudgetMilliAmps    \* what its supply can deliver

ASSUME LightAssumption == /\ IsFiniteSet(Leds)
                          /\ BudgetMilliAmps \in Nat

Byte == 0 .. 255
Channels == {"R", "G", "B"}
Black == [channel \in Channels |-> 0]
White == [channel \in Channels |-> 255]
ChannelSum(colour) == colour["R"] + colour["G"] + colour["B"]

\* The light sensor as the automatic reads it: the last lux and the two bounds.
\* Bounds out of order, which a calibration can store, switch the automatic's effect off.
ToIlluminance(sensor, value) ==
  CASE sensor.bright <= sensor.dark -> value
    [] sensor.bright > sensor.dark /\ sensor.lux <= sensor.dark -> 0
    [] sensor.bright > sensor.dark /\ sensor.lux >= sensor.bright -> value
    [] OTHER -> (value * (sensor.lux - sensor.dark)) \div (sensor.bright - sensor.dark)

AutomaticFloor == 8

\* The floor lifts a setting that is itself below it.
CalcBrightnessAutomatic_FloorForAll(sensor, value) ==
  IF ToIlluminance(sensor, value) < AutomaticFloor THEN AutomaticFloor ELSE ToIlluminance(sensor, value)

CalcBrightnessAutomatic(sensor, value) ==
  IF value < AutomaticFloor THEN value
  ELSE IF ToIlluminance(sensor, value) < AutomaticFloor THEN AutomaticFloor
  ELSE ToIlluminance(sensor, value)

\* The stored doubling of the gamma curve, one bit less for each doubling below it.
TopDoubling == <<133, 139, 145, 151, 158, 165, 172, 180, 188, 196, 205, 214, 224, 234, 244, 255>>
CalcCorrectedValue(value) ==
  IF value = 0 THEN 0
  ELSE TopDoubling[((value \div 2) % 16) + 1] \div 2 ^ (7 - (value \div 32))

\* 255 leaves a value alone, and a level below it scales the value by (level + 1) / 256.
ScaleByLevel(value, level) == (value * (level + 1)) \div 256

CalcConfiguredBrightness(d, sensor) ==
  LET corrected == IF d.gamma THEN CalcCorrectedValue(d.brightness) ELSE d.brightness
  IN IF d.automatic THEN CalcBrightnessAutomatic(sensor, corrected) ELSE corrected

CalcBrightness(d, sensor) == ScaleByLevel(ScaleByLevel(CalcConfiguredBrightness(d, sensor), d.night), d.fade)

DimmColor(value, brightness) ==
  IF value = 0 THEN 0 ELSE IF value * brightness < 256 THEN 1 ELSE (value * brightness) \div 256

GetColorToShow(d) == IF d.cycling THEN d.cycleColor ELSE d.color
Dimmed(d) == [channel \in Channels |-> DimmColor(GetColorToShow(d)[channel], d.applied)]

\* The trail of a drop of the matrix animation is dimmed once more, with 1 / step of the brightness.
kTrailBrightness == 255
kTrailFadeSteps == 6
GetColorDimmed(d, brightness) ==
  [channel \in Channels |-> DimmColor(d.dimmed[channel], brightness)]
TrailColour(d, step) == GetColorDimmed(d, kTrailBrightness \div step)
Worn(d) == {d.dimmed} \cup {TrailColour(d, step) : step \in 1 .. kTrailFadeSteps}

IsLit(colour) == colour # Black
Lit(d) == {led \in Leds : IsLit(d.pixels[led])}

(* The current limit: the master that keeps the lit letters inside the supply. *)
IdleCurrent == Cardinality(Leds) * 1000
LitCurrentAtFull(lit, sum) == (lit * sum * 20000) \div 255
Available == IF BudgetMilliAmps * 1000 > IdleCurrent THEN BudgetMilliAmps * 1000 - IdleCurrent ELSE 0

ToBrightnessLimit(lit, sum) ==
  CASE Available = 0 -> 0
    [] Available # 0 /\ LitCurrentAtFull(lit, sum) <= Available -> 255
    [] OTHER -> (Available * 256) \div LitCurrentAtFull(lit, sum)

CurrentLimit(d) == ToBrightnessLimit(Cardinality(Lit(d)), ChannelSum(GetColorToShow(d)))

\* Off stays off: the master is also what Disable() writes.
ApplyCurrentLimit(d) ==
  IF ~d.enabled \/ CurrentLimit(d) = d.limit THEN d
  ELSE [d EXCEPT !.limit = CurrentLimit(d), !.master = CurrentLimit(d)]

\* What the letters carry follows the colour and the applied brightness.
ApplyColor(d) ==
  [d EXCEPT !.dimmed = Dimmed(d),
            !.pixels = [led \in Leds |-> IF IsLit(d.pixels[led]) THEN Dimmed(d) ELSE d.pixels[led]]]

ApplyColorAndCurrentLimit(d) == ApplyCurrentLimit(ApplyColor(d))

\* The first line of the DisplayManager's task, and the end of every brightness setter.
ApplyBrightness(d, sensor) ==
  LET limited == ApplyCurrentLimit(d)
  IN IF CalcBrightness(d, sensor) = d.applied THEN limited
     ELSE ApplyColor([limited EXCEPT !.applied = CalcBrightness(d, sensor)])

(* The operations of the Display. *)
SetColorChannel(d, channel, value) == ApplyColorAndCurrentLimit([d EXCEPT !.color[channel] = value])
\* The steps and the reset of the colour leave the limit to the next task.
StepColor(d, channel, value) == ApplyColor([d EXCEPT !.color[channel] = value])
ResetColor(d) == ApplyColor([d EXCEPT !.color = White])
SetColorCycle(d, colour) == ApplyColorAndCurrentLimit([d EXCEPT !.cycleColor = colour, !.cycling = TRUE])
\* Only the limit follows, and the letters keep the last hue.
ClearColorCycle_LimitOnly(d) == ApplyCurrentLimit([d EXCEPT !.cycling = FALSE])
ClearColorCycle(d) == ApplyColorAndCurrentLimit([d EXCEPT !.cycling = FALSE])
SetBrightness(d, sensor, value) == ApplyBrightness([d EXCEPT !.brightness = value], sensor)
SetUseAutomatic(d, sensor, use) == ApplyBrightness([d EXCEPT !.automatic = use], sensor)
SetUseGammaCorrection(d, sensor, use) == ApplyBrightness([d EXCEPT !.gamma = use], sensor)
SetNightLevel(d, sensor, level) == ApplyBrightness([d EXCEPT !.night = level], sensor)
SetFadeLevel(d, sensor, level) == ApplyBrightness([d EXCEPT !.fade = level], sensor)

Enable(d) == [d EXCEPT !.enabled = TRUE, !.limit = CurrentLimit(d), !.master = CurrentLimit(d)]
Disable(d) == [d EXCEPT !.enabled = FALSE, !.master = 0]
Toggle(d) == IF d.enabled THEN Disable(d) ELSE Enable(d)

Clear(d) == [d EXCEPT !.pixels = [led \in Leds |-> Black]]
Test(d) == ApplyCurrentLimit([d EXCEPT !.pixels = [led \in Leds |-> d.dimmed]])
WritePixel(d, led, lit) == [d EXCEPT !.pixels[led] = IF lit THEN d.dimmed ELSE Black]
\* A face, or a frame of an animation: letters at the colour, a trail each at its fade step.
Draw(d, letters, trail) ==
  [d EXCEPT !.pixels = [led \in Leds |->
     IF led \in letters THEN d.dimmed ELSE IF led \in DOMAIN trail THEN TrailColour(d, trail[led]) ELSE Black]]

\* The reset leaves a running fade its level, and the colour follows where the brightness stays.
ResetToDefaults(d, sensor) ==
  ApplyColor(ApplyBrightness([d EXCEPT !.color = White, !.brightness = 255, !.automatic = FALSE,
                                       !.gamma = FALSE, !.night = 255], sensor))

\* The constructor, Init() and the first task.
Constructed ==
  [color |-> White, cycling |-> FALSE, cycleColor |-> White, dimmed |-> White,
   brightness |-> 255, automatic |-> FALSE, gamma |-> FALSE, night |-> 255, fade |-> 255,
   enabled |-> TRUE, applied |-> 0, limit |-> 255, master |-> 255, pixels |-> [led \in Leds |-> Black]]

(* What leaves on the wire, and what the LEDs draw of it. *)
GetOutputPixel(d, led) == [channel \in Channels |-> ScaleByLevel(d.pixels[led][channel], d.master)]
CurrentDrawn(d) ==
  IdleCurrent + (MapThenSumSet(LAMBDA led : ChannelSum(GetOutputPixel(d, led)), Leds) * 20000) \div 255

(***************************************************************************)
(* The BH1750 the automatic brightness listens to: set up from its own     *)
(* task and again when it has gone silent, its last reading kept while it  *)
(* does not answer, and its two calibrated bounds.  Operators on the       *)
(* driver's record; whether a transfer is answered, and what the register  *)
(* then holds, is given.                                                   *)
(***************************************************************************)

kReadFailuresBeforeReinit == 5

\* Nothing set up, nothing read, and the bounds a new clock has.
SilentSensor == [ready |-> FALSE, lux |-> 0, failures |-> 0, bright |-> 1000, dark |-> 1]

\* Enough failures in a row drop the mode, which is what IsReady() reads.
CountReadFailure(sensor) ==
  IF sensor.failures + 1 < kReadFailuresBeforeReinit
  THEN [sensor EXCEPT !.failures = @ + 1]
  ELSE [sensor EXCEPT !.failures = 0, !.ready = FALSE]

\* The run that sets the sensor up reads nothing.
SensorAfterTask(sensor, answers, reading) ==
  CASE ~sensor.ready -> [sensor EXCEPT !.ready = answers]
    [] sensor.ready /\ answers -> [sensor EXCEPT !.lux = reading, !.failures = 0]
    [] OTHER -> CountReadFailure(sensor)

\* A calibration stores what the driver holds, whether the task it runs read anything or not.
StartCalibration(sensor, bound, answers, reading) ==
  LET asked == SensorAfterTask(sensor, answers, reading)
  IN IF sensor.ready THEN [asked EXCEPT ![bound] = asked.lux] ELSE sensor
===========================================================================
