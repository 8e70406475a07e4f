----------------------------- MODULE NightSupply -----------------------------
(***************************************************************************)
(* One tick of the clock as far as the strip's supply is concerned: what   *)
(* draws, a command of a hand, the night switch, the colour cycle, Power   *)
(* and the render that follows them, with the frame leaving the wire       *)
(* whenever the peripheral is done with it.  The steps of a tick run one   *)
(* after another in the Scheduler's order; only the wire runs beside them. *)
(***************************************************************************)
EXTENDS Supply, Naturals

(***************************************************************************)
(* How the Scheduler times one module's task: the ticks that remain until  *)
(* its next run, and the cycle of ticks it is reloaded with.  A cycle of 0 *)
(* switches the task off and forgets what was left of its period.          *)
(***************************************************************************)

\* The task runs on this tick.
IsDue(remaining, cycle) == cycle # 0 /\ remaining <= 1

\* What remains after this tick.
Counted(remaining, cycle) ==
  CASE cycle = 0                             -> 0
    [] cycle # 0 /\ IsDue(remaining, cycle)  -> cycle
    [] cycle # 0 /\ ~IsDue(remaining, cycle) -> remaining - 1

(***************************************************************************)
(* The tick.                                                               *)
(***************************************************************************)

CONSTANTS
  NightCycle,    \* NIGHT_SWITCH_TASK_CYCLE: ticks between two runs of the night switch
  MaxBusyTicks,  \* bound: passes in which something draws, from one command to the next
  MaxCommands    \* bound: commands of a hand in a behaviour

ASSUME NightSupplyAssumption ==
  /\ NightCycle \in Nat \ {0}
  /\ MaxBusyTicks \in Nat
  /\ MaxCommands \in Nat

VARIABLES
  \* the program
  clock,     \* Display, Pixels, PowerSwitch, Power, NightSwitch and ColorCycle
  nightIn,   \* Scheduler: the night switch's remaining ticks
  phase,     \* which step of the tick is next
  \* the hardware
  wire,      \* "idle", or what the frame on the data line shows
  held,      \* what the strip's LEDs hold; "dark" without a rail
  isNight,   \* whether the time the night switch last read lay in its window
  \* what only bounds and properties read
  busy,      \* passes in which something drew since the last command
  commands,  \* commands so far
  lost,      \* the last frame handed to the driver was refused
  rearmed    \* the night switch was switched on again over a running night

vars == << clock, nightIn, phase, wire, held, isNight, busy, commands, lost, rearmed >>

Phases == {"draw", "command", "text", "night", "colour", "power", "render"}

ClockStates ==
  [ state: PowerStates,       \* Power.state_
    rail: BOOLEAN,            \* PowerSwitch.supply_on_
    suspended: BOOLEAN,       \* Pixels.output_suspended_
    dirty: BOOLEAN,           \* Pixels.dirty_
    enabled: BOOLEAN,         \* Display.enabled_
    master: Masters,          \* Pixels.brightness_
    active: BOOLEAN,          \* NightSwitch.is_active_
    wasNight: BOOLEAN,        \* NightSwitch.was_night_
    cutForNight: BOOLEAN,     \* NightSwitch.supply_cut_for_night_
    off: BOOLEAN,             \* NightSwitch.night_brightness_ is 0
    dimmed: BOOLEAN,          \* DisplayBrightness.night_level_ is not full
    cycling: BOOLEAN ]        \* ColorCycle.is_active_

\* A controller out of reset, with the settings Persistence put back.
Booted(active, off, cycling) ==
  [ state |-> "on", rail |-> TRUE, suspended |-> FALSE, dirty |-> TRUE,
    enabled |-> TRUE, master |-> "lit", active |-> active, wasNight |-> FALSE,
    cutForNight |-> FALSE, off |-> off, dimmed |-> FALSE, cycling |-> cycling ]

TypeOK ==
  /\ clock \in ClockStates
  /\ nightIn \in 0 .. NightCycle
  /\ phase \in Phases
  /\ wire \in Masters \union {"idle"}
  /\ held \in Masters
  /\ isNight \in BOOLEAN
  /\ busy \in 0 .. MaxBusyTicks
  /\ commands \in 0 .. MaxCommands
  /\ lost \in BOOLEAN
  /\ rearmed \in BOOLEAN

Init ==
  /\ clock = Booted(FALSE, TRUE, FALSE)
  /\ nightIn = 0
  /\ phase = "draw"
  /\ wire = "idle"
  /\ held = "dark"
  /\ isNight = FALSE
  /\ busy = 0
  /\ commands = 0
  /\ lost = FALSE
  /\ rearmed = FALSE

-----------------------------------------------------------------------------
(* NightSwitch *)

CutSupplyForTheNight(c) ==
  IF Fitted THEN [SwitchSupplyOff(c) EXCEPT !.cutForNight = TRUE] ELSE Disable(c)

RestoreSupplyAfterTheNight(c) ==
  IF c.cutForNight THEN [SwitchSupplyOn(c) EXCEPT !.cutForNight = FALSE] ELSE c

ApplyNight(c) ==
  IF c.off THEN CutSupplyForTheNight(c) ELSE [Draw(c) EXCEPT !.dimmed = TRUE]

\* A morning that undoes only what the setting of the moment stands for.
ApplyDay_OneOfTwo(c) ==
  Enable(IF c.off THEN RestoreSupplyAfterTheNight(c) ELSE [Draw(c) EXCEPT !.dimmed = FALSE])

ApplyDay(c) == Enable(RestoreSupplyAfterTheNight([Draw(c) EXCEPT !.dimmed = FALSE]))

FollowTheDisplayBackOn(c) ==
  IF c.cutForNight /\ c.enabled THEN RestoreSupplyAfterTheNight(c) ELSE c

SetIsActive(c, isActive) ==
  LET set == [c EXCEPT !.active = isActive]
  IN  [(IF isActive THEN set ELSE ApplyDay(set)) EXCEPT !.wasNight = FALSE]

ResetToDefaults(c) == [SetIsActive(c, FALSE) EXCEPT !.off = TRUE]

NightSwitchTask(c, now) ==
  LET seen == [c EXCEPT !.wasNight = now]
  IN  CASE ~c.active                           -> c
        [] c.active /\ now = c.wasNight        -> FollowTheDisplayBackOn(c)
        [] c.active /\ now /\ ~c.wasNight      -> ApplyNight(seen)
        [] c.active /\ ~now /\ c.wasNight      -> ApplyDay(seen)

-----------------------------------------------------------------------------
(* ColorCycle *)

SetCycling(c, isActive) == [Draw(c) EXCEPT !.cycling = isActive]

\* A cycle that steps for a display that is off.
ColorCycleTask_Always(c) == IF c.cycling THEN Draw(c) ELSE c

ColorCycleTask(c) == IF c.cycling /\ c.enabled THEN Draw(c) ELSE c

-----------------------------------------------------------------------------
(* The steps of a tick *)

Step(from, to) == phase = from /\ phase' = to

\* A task that writes pixels runs and does, or does not.  No animation and no
\* text draws for ever: MaxBusyTicks.
Drawing(from, to) ==
  /\ Step(from, to)
  /\ \/ /\ busy < MaxBusyTicks
        /\ busy' = busy + 1
        /\ clock' = Draw(clock)
     \/ UNCHANGED << clock, busy >>
  /\ UNCHANGED << nightIn, wire, held, isNight, commands, lost, rearmed >>

\* DisplayManager and Animations: the brightness, the clock face.
ClockFaceStep == Drawing("draw", "command")

\* Overlays and Text, after the command of the same tick.
TextStep == Drawing("text", "night")

NoCommand ==
  /\ Step("command", "text")
  /\ UNCHANGED << clock, nightIn, wire, held, isNight, busy, commands, lost, rearmed >>

\* A command of a hand leaves the clock as `after`.
Commanded(after) ==
  /\ Step("command", "text")
  /\ commands < MaxCommands
  /\ commands' = commands + 1
  /\ clock' = after
  /\ busy' = 0
  /\ UNCHANGED << nightIn, wire, held, isNight, lost >>

PowerOn == Commanded(SwitchSupplyOn(clock)) /\ UNCHANGED rearmed

PowerOff == Commanded(SwitchSupplyOff(clock)) /\ UNCHANGED rearmed

DisplayEnable == Commanded(Enable(clock)) /\ UNCHANGED rearmed

DisplayDisable == Commanded(Disable(clock)) /\ UNCHANGED rearmed

DisplayToggle == Commanded(Toggle(clock)) /\ UNCHANGED rearmed

NightSwitchOn ==
  /\ Commanded(SetIsActive(clock, TRUE))
  /\ rearmed' = (rearmed \/ clock.cutForNight \/ clock.dimmed)

NightSwitchOff == Commanded(SetIsActive(clock, FALSE)) /\ rearmed' = FALSE

SetNightBrightness ==
  \E off \in BOOLEAN \ {clock.off} :
    Commanded([clock EXCEPT !.off = off]) /\ UNCHANGED rearmed

ColorCycleSet == Commanded(SetCycling(clock, ~clock.cycling)) /\ UNCHANGED rearmed

\* SETTINGS_RESET, as far as the modules modelled here go.
SettingsReset == Commanded(SetCycling(ResetToDefaults(clock), FALSE)) /\ rearmed' = FALSE

NightSwitchNotDue ==
  /\ Step("night", "colour")
  /\ ~IsDue(nightIn, NightCycle)
  /\ nightIn' = Counted(nightIn, NightCycle)
  /\ UNCHANGED << clock, wire, held, isNight, busy, commands, lost, rearmed >>

NightSwitchDue ==
  /\ Step("night", "colour")
  /\ IsDue(nightIn, NightCycle)
  /\ nightIn' = Counted(nightIn, NightCycle)
  /\ \E now \in BOOLEAN :
       /\ isNight' = IF clock.active THEN now ELSE isNight
       /\ clock' = NightSwitchTask(clock, now)
       /\ rearmed' = (rearmed /\ ~(clock.active /\ now # clock.wasNight))
  /\ UNCHANGED << wire, held, busy, commands, lost >>

ColorCycleStep ==
  /\ Step("colour", "power")
  /\ clock' = ColorCycleTask(clock)
  /\ UNCHANGED << nightIn, wire, held, isNight, busy, commands, lost, rearmed >>

PowerStep ==
  /\ Step("power", "render")
  /\ clock' = PowerTask(clock, wire # "idle")
  /\ held' = IF clock'.rail THEN held ELSE "dark"
  /\ UNCHANGED << nightIn, wire, isNight, busy, commands, lost, rearmed >>

\* Pixels::Render() has nothing to send, or must not send it.
RenderNothing ==
  /\ Step("render", "draw")
  /\ clock.suspended \/ ~clock.dirty
  /\ UNCHANGED << clock, nightIn, wire, held, isNight, busy, commands, lost, rearmed >>

\* The frame is handed to the driver, once the one before it has left.
RenderFrame ==
  /\ Step("render", "draw")
  /\ ~clock.suspended /\ clock.dirty
  /\ wire = "idle"
  /\ wire' = clock.master
  /\ clock' = [clock EXCEPT !.dirty = FALSE]
  /\ lost' = FALSE
  /\ UNCHANGED << nightIn, held, isNight, busy, commands, rearmed >>

\* The frame before it is still going out after 50 ms, or the driver refuses:
\* the mark is cleared all the same.
RenderFails ==
  /\ Step("render", "draw")
  /\ ~clock.suspended /\ clock.dirty
  /\ clock' = [clock EXCEPT !.dirty = FALSE]
  /\ lost' = TRUE
  /\ UNCHANGED << nightIn, wire, held, isNight, busy, commands, rearmed >>

Render == RenderNothing \/ RenderFrame \/ RenderFails

\* The peripheral has sent the last bit; the LEDs latch the frame.
FrameLeaves ==
  /\ wire # "idle"
  /\ held' = wire
  /\ wire' = "idle"
  /\ UNCHANGED << clock, nightIn, phase, isNight, busy, commands, lost, rearmed >>

\* System.PerformPendingRestart() after the render, or a reset from outside.
Restart ==
  /\ commands < MaxCommands
  /\ commands' = commands + 1
  /\ clock' = Booted(clock.active, clock.off, clock.cycling)
  /\ nightIn' = 0
  /\ phase' = "draw"
  /\ wire' = "idle"
  /\ held' = "dark"
  /\ lost' = FALSE
  /\ rearmed' = FALSE
  /\ UNCHANGED << isNight, busy >>

Command ==
  \/ PowerOn \/ PowerOff
  \/ DisplayEnable \/ DisplayDisable \/ DisplayToggle
  \/ NightSwitchOn \/ NightSwitchOff \/ SetNightBrightness
  \/ ColorCycleSet \/ SettingsReset

\* The tick never stops: every step of it that is not a hand's.
Tick ==
  \/ ClockFaceStep \/ NoCommand \/ TextStep
  \/ NightSwitchNotDue \/ NightSwitchDue
  \/ ColorCycleStep \/ PowerStep \/ Render

Next == Tick \/ Command \/ FrameLeaves \/ Restart

\* The main loop runs for ever and the peripheral finishes every frame.
Fairness == WF_vars(Tick) /\ WF_vars(FrameLeaves)

Spec == Init /\ [][Next]_vars

FairSpec == Spec /\ Fairness

-----------------------------------------------------------------------------
(* Safety *)

\* No frame is on the data line while the strip has no supply: it would push
\* current into a dead rail.  Power::CutSupply() gates before it drops the port,
\* and waits for the wire; Pixels::Render() keeps to the gate.
NoFrameIntoDeadRail == ~clock.rail => wire = "idle"

\* Off stays off: whatever draws, cycles or moves the cap while the display is
\* disabled leaves the strip's master at 0 (Display::ApplyCurrentLimit()).
DisabledStaysDark == ~clock.enabled => clock.master = "dark"

\* Once nothing is owed and nothing is on its way, the LEDs hold what the buffer
\* says - also after a supply that took their registers with it.  Only a frame
\* the driver refused is not made good (Pixels::Render() clears its mark).
StripShowsTheBuffer ==
  (~clock.suspended /\ ~clock.dirty /\ wire = "idle" /\ ~lost) => held = clock.master

\* The rail of a disabled display goes down only after the strip has latched the
\* blanked frame (Power::Task() waits for the mark and for the wire).
BlankedBeforeCut ==
  [][(clock.rail /\ ~clock'.rail /\ ~clock.enabled /\ ~lost) => held = "dark"]_vars

\* Whatever the evening did is undone once the night switch has seen the day, or
\* was switched off, even where the night brightness was changed in between.  The
\* exception is a night switch switched on again over a running night.
NightLeavesNothing ==
  (~clock.wasNight /\ ~rearmed) => (~clock.cutForNight /\ ~clock.dimmed)

-----------------------------------------------------------------------------
(* Liveness, each until another command intervenes *)

\* A supply asked off goes off: no colour cycle and no drawing holds the wait for
\* a settled buffer open, as long as the display stays disabled.  Commands are bounded, so no
\* hand holds it open for ever.
BlankingEnds ==
  (clock.state = "blanking" /\ ~clock.enabled) ~> (clock.state # "blanking" \/ clock.enabled)

\* A hand that switches the display on while the night has its supply cut gets a
\* lit strip, not a gated data line (NightSwitch::FollowTheDisplayBackOn()).
HandLightsAtNight ==
  \A n \in 0 .. MaxCommands :
    (clock.cutForNight /\ clock.enabled /\ commands = n)
      ~> (held = "lit" \/ ~clock.enabled \/ lost \/ commands # n)

\* So what was asked of the supply happens, by the hand that comes at night as well.
SwitchingEnds == BlankingEnds /\ HandLightsAtNight

-----------------------------------------------------------------------------
(* What the tick implements: the strip's side of the supply *)

R == INSTANCE Rail WITH
       rail <- IF clock.rail THEN "up" ELSE "down",
       gate <- IF clock.suspended THEN "closed" ELSE "open",
       line <- IF wire = "idle" THEN "idle" ELSE "busy"

\* Every tick, command and reset is a step of Rail or none at all.
KeepsTheRailContract == R!RailSpec
==============================================================================
