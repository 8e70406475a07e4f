------------------------- MODULE Peripherals_proofs -------------------------
(***************************************************************************)
(* Proofs about the supply, the strip's transmitter and the console port,  *)
(* for every night cycle, every frame and every size of the queues.        *)
(*                                                                         *)
(* Supply: every call of the firmware but Power's own task is "gentle" to  *)
(* the strip: it leaves the output gate alone, marks the buffer when it    *)
(* moves the master, and drops the rail only behind a closed gate.  The    *)
(* lemmas show this call by call; the invariant then needs one argument    *)
(* for all gentle steps and one each for Power's task, the render and the  *)
(* wire.                                                                   *)
(* Strip: what has left the buffer leads what the buffer holds, so a frame *)
(* that ends is one picture and, with nothing drawn since, the newest.     *)
(* Port: what is in a queue is what was put in and not yet taken out; a    *)
(* step of the program or a handler is one put, one take or neither.       *)
(***************************************************************************)
EXTENDS Peripherals, SequenceTheorems, TLAPS

-----------------------------------------------------------------------------
(* The inductive invariant *)

\* What holds of the clock's own state between two calls.
ClockInv(c) ==
  /\ c \in ClockStates
  /\ c.suspended <=> c.state \in {"off", "settling"}
  /\ ~c.rail <=> c.state = "off"
  /\ c.master = IF c.enabled THEN "lit" ELSE "dark"

\* What holds between the clock and the strip.
StripInv ==
  /\ clock.suspended => wire = "idle" /\ held = "dark"
  /\ (wire # "idle" /\ ~clock.dirty /\ ~lost) => wire = clock.master
  /\ StripShowsTheBuffer

IInv == TypeOK /\ ClockInv(clock) /\ StripInv

\* What a call may do to the strip's supply.
Gentle(c, d) ==
  /\ d.suspended = c.suspended
  /\ ~d.dirty => ~c.dirty /\ d.master = c.master
  /\ c.rail /\ ~d.rail => c.suspended

Keeps(c, d) == ClockInv(d) /\ Gentle(c, d)

-----------------------------------------------------------------------------
(* The calls, from the innermost out *)

LEMMA GentleTransitive ==
  ASSUME NEW c, NEW d, NEW e, Gentle(c, d), Gentle(d, e), ClockInv(d)
  PROVE  Gentle(c, e)
  BY DEF Gentle, ClockInv, ClockStates

LEMMA MarkKeeps ==
  ASSUME NEW c, ClockInv(c)
  PROVE  Keeps(c, MarkDirty(c))
  BY DEF Keeps, Gentle, ClockInv, ClockStates, MarkDirty, Masters, PowerStates

LEMMA DrawKeeps ==
  ASSUME NEW c, ClockInv(c)
  PROVE  Keeps(c, Draw(c))
  BY DEF Keeps, Gentle, ClockInv, ClockStates, Draw, ApplyCurrentLimit, SetMaster,
         MarkDirty, Masters, PowerStates

LEMMA EnableKeeps ==
  ASSUME NEW c, ClockInv(c)
  PROVE  Keeps(c, Enable(c))
  BY DEF Keeps, Gentle, ClockInv, ClockStates, Enable, SetMaster, Masters, PowerStates

LEMMA DisableKeeps ==
  ASSUME NEW c, ClockInv(c)
  PROVE  Keeps(c, Disable(c))
  BY DEF Keeps, Gentle, ClockInv, ClockStates, Disable, SetMaster, Masters, PowerStates

LEMMA SwitchOnKeeps ==
  ASSUME NEW c, ClockInv(c)
  PROVE  Keeps(c, SwitchSupplyOn(c))
  BY FittedAssumption
  DEF Keeps, Gentle, ClockInv, ClockStates, SwitchSupplyOn, ReleaseSupply, ResumeOutput,
      RaiseRail, Enable, SetMaster, Masters, PowerStates

LEMMA SwitchOffKeeps ==
  ASSUME NEW c, ClockInv(c)
  PROVE  Keeps(c, SwitchSupplyOff(c))
  BY FittedAssumption
  DEF Keeps, Gentle, ClockInv, ClockStates, SwitchSupplyOff, DropRail,
      Disable, SetMaster, Masters, PowerStates


-----------------------------------------------------------------------------
(* The calls of the night switch and the colour cycle *)

\* A field no invariant above speaks of may be set at will.
LEMMA NightFieldsFree ==
  ASSUME NEW c, ClockInv(c), NEW b \in BOOLEAN
  PROVE  /\ Keeps(c, [c EXCEPT !.cutForNight = b])
         /\ Keeps(c, [c EXCEPT !.dimmed = b])
         /\ Keeps(c, [c EXCEPT !.wasNight = b])
         /\ Keeps(c, [c EXCEPT !.active = b])
         /\ Keeps(c, [c EXCEPT !.off = b])
         /\ Keeps(c, [c EXCEPT !.cycling = b])
  BY DEF Keeps, Gentle, ClockInv, ClockStates, Masters, PowerStates

LEMMA KeepsChain ==
  ASSUME NEW c, NEW d, NEW e, Keeps(c, d), Keeps(d, e)
  PROVE  Keeps(c, e)
  BY GentleTransitive DEF Keeps

LEMMA NothingKeeps ==
  ASSUME NEW c, ClockInv(c)
  PROVE  Keeps(c, c)
  BY DEF Keeps, Gentle, ClockInv, ClockStates

LEMMA CutForNightKeeps ==
  ASSUME NEW c, ClockInv(c)
  PROVE  Keeps(c, CutSupplyForTheNight(c))
  <1>1. CASE Fitted
    <2>1. Keeps(c, SwitchSupplyOff(c))
      BY SwitchOffKeeps
    <2>2. Keeps(SwitchSupplyOff(c), [SwitchSupplyOff(c) EXCEPT !.cutForNight = TRUE])
      BY <2>1, NightFieldsFree DEF Keeps
    <2> QED
      BY <1>1, <2>1, <2>2, KeepsChain DEF CutSupplyForTheNight
  <1>2. CASE ~Fitted
    BY <1>2, DisableKeeps DEF CutSupplyForTheNight
  <1> QED
    BY <1>1, <1>2

LEMMA RestoreKeeps ==
  ASSUME NEW c, ClockInv(c)
  PROVE  Keeps(c, RestoreSupplyAfterTheNight(c))
  <1>1. Keeps(c, SwitchSupplyOn(c))
    BY SwitchOnKeeps
  <1>2. Keeps(SwitchSupplyOn(c), [SwitchSupplyOn(c) EXCEPT !.cutForNight = FALSE])
    BY <1>1, NightFieldsFree DEF Keeps
  <1> QED
    BY <1>1, <1>2, KeepsChain, NothingKeeps DEF RestoreSupplyAfterTheNight

LEMMA NightKeeps ==
  ASSUME NEW c, ClockInv(c)
  PROVE  Keeps(c, ApplyNight(c))
  <1>1. Keeps(c, Draw(c))
    BY DrawKeeps
  <1>2. Keeps(Draw(c), [Draw(c) EXCEPT !.dimmed = TRUE])
    BY <1>1, NightFieldsFree DEF Keeps
  <1> QED
    BY <1>1, <1>2, KeepsChain, CutForNightKeeps DEF ApplyNight

LEMMA DayKeeps ==
  ASSUME NEW c, ClockInv(c)
  PROVE  Keeps(c, ApplyDay(c))
  <1> DEFINE undimmed == [Draw(c) EXCEPT !.dimmed = FALSE]
             restored == RestoreSupplyAfterTheNight(undimmed)
  <1>1. Keeps(c, Draw(c))
    BY DrawKeeps
  <1>2. Keeps(Draw(c), undimmed)
    BY <1>1, NightFieldsFree DEF Keeps
  <1>3. Keeps(undimmed, restored)
    BY <1>2, RestoreKeeps DEF Keeps
  <1>4. Keeps(restored, Enable(restored))
    BY <1>3, EnableKeeps DEF Keeps
  <1>5. Keeps(c, Enable(restored))
    <2> HIDE DEF undimmed, restored
    <2> QED
      BY <1>1, <1>2, <1>3, <1>4, KeepsChain
  <1> QED
    BY <1>5 DEF ApplyDay

LEMMA FollowKeeps ==
  ASSUME NEW c, ClockInv(c)
  PROVE  Keeps(c, FollowTheDisplayBackOn(c))
  BY RestoreKeeps, NothingKeeps DEF FollowTheDisplayBackOn

LEMMA SetIsActiveKeeps ==
  ASSUME NEW c, ClockInv(c), NEW isActive \in BOOLEAN
  PROVE  Keeps(c, SetIsActive(c, isActive))
  <1> DEFINE set   == [c EXCEPT !.active = isActive]
             after == IF isActive THEN set ELSE ApplyDay(set)
  <1>1. Keeps(c, set)
    BY NightFieldsFree
  <1>2. Keeps(set, after)
    BY <1>1, DayKeeps, NothingKeeps DEF Keeps
  <1>3. Keeps(after, [after EXCEPT !.wasNight = FALSE])
    BY <1>2, NightFieldsFree DEF Keeps
  <1>4. Keeps(c, [after EXCEPT !.wasNight = FALSE])
    <2> HIDE DEF set, after
    <2> QED
      BY <1>1, <1>2, <1>3, KeepsChain
  <1> QED
    BY <1>4 DEF SetIsActive

LEMMA ResetKeeps ==
  ASSUME NEW c, ClockInv(c)
  PROVE  Keeps(c, ResetToDefaults(c))
  <1>1. Keeps(c, SetIsActive(c, FALSE))
    BY SetIsActiveKeeps
  <1>2. Keeps(SetIsActive(c, FALSE), [SetIsActive(c, FALSE) EXCEPT !.off = TRUE])
    BY <1>1, NightFieldsFree DEF Keeps
  <1> QED
    BY <1>1, <1>2, KeepsChain DEF ResetToDefaults

LEMMA NightTaskKeeps ==
  ASSUME NEW c, ClockInv(c), NEW now \in BOOLEAN
  PROVE  Keeps(c, NightSwitchTask(c, now))
  <1> DEFINE noted == [c EXCEPT !.wasNight = now]
  <1>1. c.active \in BOOLEAN /\ c.wasNight \in BOOLEAN
    BY DEF ClockInv, ClockStates
  <1>2. Keeps(c, noted)
    BY NightFieldsFree
  <1>3. Keeps(c, ApplyNight(noted))
    BY <1>2, NightKeeps, KeepsChain DEF Keeps
  <1>4. Keeps(c, ApplyDay(noted))
    BY <1>2, DayKeeps, KeepsChain DEF Keeps
  <1>5. Keeps(c, FollowTheDisplayBackOn(c)) /\ Keeps(c, c)
    BY FollowKeeps, NothingKeeps
  <1>6. NightSwitchTask(c, now) \in
          {c, FollowTheDisplayBackOn(c), ApplyNight(noted), ApplyDay(noted)}
    BY <1>1 DEF NightSwitchTask
  <1> QED
    BY <1>3, <1>4, <1>5, <1>6

LEMMA CyclingKeeps ==
  ASSUME NEW c, ClockInv(c), NEW b \in BOOLEAN
  PROVE  Keeps(c, SetCycling(c, b)) /\ Keeps(c, ColorCycleTask(c))
  <1>1. Keeps(c, Draw(c)) /\ Keeps(c, c)
    BY DrawKeeps, NothingKeeps
  <1>2. Keeps(Draw(c), [Draw(c) EXCEPT !.cycling = b])
    BY <1>1, NightFieldsFree DEF Keeps
  <1>3. Keeps(c, SetCycling(c, b))
    BY <1>1, <1>2, KeepsChain DEF SetCycling
  <1> QED
    BY <1>1, <1>3 DEF ColorCycleTask

-----------------------------------------------------------------------------
(* The invariant, step by step *)

LEMMA InitInv ==
  ASSUME Init
  PROVE  IInv
  <1>1. ClockInv(clock) /\ clock.dirty /\ ~clock.suspended
    BY DEF Init, ClockInv, ClockStates, Booted, Masters, PowerStates
  <1>2. TypeOK
    <2>1. nightIn \in 0 .. NightCycle /\ busy \in 0 .. MaxBusyTicks
            /\ commands \in 0 .. MaxCommands
      BY NightSupplyAssumption DEF Init
    <2> QED
      BY <1>1, <2>1 DEF Init, TypeOK, ClockInv, Phases, Masters
  <1>3. StripInv
    BY <1>1 DEF Init, StripInv, StripShowsTheBuffer
  <1> QED
    BY <1>1, <1>2, <1>3 DEF IInv

\* A gentle call that leaves the strip alone keeps what relates the two.
LEMMA GentleStep ==
  ASSUME IInv, Keeps(clock, clock'), UNCHANGED << wire, held, lost >>
  PROVE  ClockInv(clock)' /\ StripInv'
  BY DEF IInv, ClockInv, ClockStates, StripInv, StripShowsTheBuffer, Keeps, Gentle,
         Masters, PowerStates

LEMMA CommandKeeps ==
  ASSUME IInv, Command
  PROVE  Keeps(clock, clock')
  <1> USE DEF IInv
  <1>1. CASE PowerOn \/ PowerOff
    BY <1>1, SwitchOnKeeps, SwitchOffKeeps DEF PowerOn, PowerOff, Commanded
  <1>2. CASE DisplayEnable \/ DisplayDisable \/ DisplayToggle
    BY <1>2, EnableKeeps, DisableKeeps
    DEF DisplayEnable, DisplayDisable, DisplayToggle, Toggle, Commanded
  <1>3. CASE NightSwitchOn \/ NightSwitchOff
    BY <1>3, SetIsActiveKeeps DEF NightSwitchOn, NightSwitchOff, Commanded
  <1>4. CASE SetNightBrightness
    <2>1. PICK off \in BOOLEAN : Commanded([clock EXCEPT !.off = off])
      BY <1>4 DEF SetNightBrightness
    <2> QED
      BY <2>1, NightFieldsFree DEF Commanded
  <1>5. CASE ColorCycleSet
    <2>1. (~clock.cycling) \in BOOLEAN
      OBVIOUS
    <2> QED
      BY <1>5, <2>1, CyclingKeeps DEF ColorCycleSet, Commanded
  <1>6. CASE SettingsReset
    <2>1. Keeps(clock, ResetToDefaults(clock))
      BY ResetKeeps
    <2>2. Keeps(ResetToDefaults(clock), SetCycling(ResetToDefaults(clock), FALSE))
      BY <2>1, CyclingKeeps DEF Keeps
    <2> QED
      BY <1>6, <2>1, <2>2, KeepsChain DEF SettingsReset, Commanded
  <1> QED
    BY <1>1, <1>2, <1>3, <1>4, <1>5, <1>6 DEF Command

LEMMA PowerStepInv ==
  ASSUME IInv, PowerStep
  PROVE  ClockInv(clock)' /\ StripInv'
  <1> USE DEF IInv, ClockInv, ClockStates, StripInv, StripShowsTheBuffer, Masters, PowerStates
  <1>1. CASE clock.state \in {"on", "off"}
    BY <1>1 DEF PowerStep, PowerTask
  <1>2. CASE clock.state = "settling"
    BY <1>2 DEF PowerStep, PowerTask, ReleaseSupply, ResumeOutput, Enable, SetMaster
  <1>3. CASE clock.state = "blanking" /\ ~IsStripDarkAndIdle(clock, wire # "idle")
    BY <1>3 DEF PowerStep, PowerTask
  <1>4. CASE clock.state = "blanking" /\ IsStripDarkAndIdle(clock, wire # "idle")
    BY <1>4 DEF PowerStep, PowerTask, IsStripDarkAndIdle, CutSupply, SuspendOutput, DropRail
  <1> QED
    BY <1>1, <1>2, <1>3, <1>4

LEMMA RenderInv ==
  ASSUME IInv, Render \/ FrameLeaves
  PROVE  ClockInv(clock)' /\ StripInv'
  BY DEF IInv, ClockInv, ClockStates, StripInv, StripShowsTheBuffer, Masters, PowerStates,
         Render, RenderNothing, RenderFrame, RenderFails, FrameLeaves

LEMMA RestartInv ==
  ASSUME IInv, Restart
  PROVE  ClockInv(clock)' /\ StripInv'
  BY DEF IInv, TypeOK, ClockInv, ClockStates, StripInv, StripShowsTheBuffer, Masters,
         PowerStates, Restart, Booted

LEMMA TickKeeps ==
  ASSUME IInv,
         ClockFaceStep \/ TextStep \/ NoCommand \/ NightSwitchNotDue \/ NightSwitchDue
           \/ ColorCycleStep
  PROVE  Keeps(clock, clock')
  <1> USE DEF IInv
  <1>1. CASE ClockFaceStep \/ TextStep
    BY <1>1, DrawKeeps, NothingKeeps DEF ClockFaceStep, TextStep, Drawing
  <1>2. CASE NoCommand \/ NightSwitchNotDue
    BY <1>2, NothingKeeps DEF NoCommand, NightSwitchNotDue
  <1>3. CASE NightSwitchDue
    BY <1>3, NightTaskKeeps DEF NightSwitchDue
  <1>4. CASE ColorCycleStep
    BY <1>4, CyclingKeeps DEF ColorCycleStep
  <1> QED
    BY <1>1, <1>2, <1>3, <1>4

\* The bounds and the observers keep their types.
LEMMA TypeStep ==
  ASSUME IInv, [Next]_vars, ClockInv(clock)', StripInv'
  PROVE  TypeOK'
  <1>1. clock' \in ClockStates
    BY DEF ClockInv
  <1> USE NightSupplyAssumption DEF IInv, TypeOK
  <1>2. CASE UNCHANGED vars
    BY <1>1, <1>2 DEF vars
  <1>3. CASE ClockFaceStep \/ TextStep \/ NoCommand
    BY <1>1, <1>3 DEF ClockFaceStep, TextStep, NoCommand, Drawing, Step, Phases
  <1>4. CASE NightSwitchNotDue \/ NightSwitchDue
    <2>1. nightIn' \in 0 .. NightCycle
      BY <1>4 DEF NightSwitchNotDue, NightSwitchDue, IsDue, Counted
    <2>2. isNight' \in BOOLEAN /\ rearmed' \in BOOLEAN
      BY <1>4 DEF NightSwitchNotDue, NightSwitchDue
    <2> QED
      BY <1>1, <1>4, <2>1, <2>2 DEF NightSwitchNotDue, NightSwitchDue, Step, Phases
  <1>5. CASE ColorCycleStep \/ PowerStep
    BY <1>1, <1>5 DEF ColorCycleStep, PowerStep, Step, Phases, Masters
  <1>6. CASE Render \/ FrameLeaves
    <2>1. clock.master \in Masters /\ wire' \in Masters \union {"idle"} /\ held' \in Masters
      BY <1>6 DEF Render, RenderNothing, RenderFrame, RenderFails, FrameLeaves, ClockStates
    <2> QED
      BY <1>1, <1>6, <2>1 DEF Render, RenderNothing, RenderFrame, RenderFails, FrameLeaves,
         Step, Phases
  <1>7. CASE Restart
    <2>1. nightIn' \in 0 .. NightCycle /\ commands' \in 0 .. MaxCommands
      BY <1>7 DEF Restart
    <2> QED
      BY <1>1, <1>7, <2>1 DEF Restart, Phases, Masters
  <1>8. CASE Command
    <2>1. \E after : Commanded(after) /\ rearmed' \in BOOLEAN
      <3>1. clock.cutForNight \in BOOLEAN /\ clock.dimmed \in BOOLEAN
        BY DEF ClockStates
      <3> QED
        BY <1>8, <3>1 DEF Command, PowerOn, PowerOff, DisplayEnable, DisplayDisable,
           DisplayToggle, NightSwitchOn, NightSwitchOff, SetNightBrightness, ColorCycleSet,
           SettingsReset
    <2> QED
      BY <1>1, <2>1 DEF Commanded, Step, Phases
  <1> QED
    BY <1>2, <1>3, <1>4, <1>5, <1>6, <1>7, <1>8 DEF Next, Tick

LEMMA NextInv ==
  ASSUME IInv, [Next]_vars
  PROVE  IInv'
  <1>1. ClockInv(clock)' /\ StripInv'
    <2>1. CASE UNCHANGED vars
      BY <2>1 DEF vars, IInv, ClockInv, StripInv, StripShowsTheBuffer
    <2>2. CASE Command
      BY <2>2, CommandKeeps, GentleStep
      DEF Command, Commanded, PowerOn, PowerOff, DisplayEnable, DisplayDisable,
          DisplayToggle, NightSwitchOn, NightSwitchOff, SetNightBrightness, ColorCycleSet,
          SettingsReset
    <2>3. CASE ClockFaceStep \/ TextStep \/ NoCommand \/ NightSwitchNotDue \/ NightSwitchDue
                 \/ ColorCycleStep
      BY <2>3, TickKeeps, GentleStep
      DEF ClockFaceStep, TextStep, NoCommand, NightSwitchNotDue, NightSwitchDue,
          ColorCycleStep, Drawing
    <2>4. CASE PowerStep
      BY <2>4, PowerStepInv
    <2>5. CASE Render \/ FrameLeaves
      BY <2>5, RenderInv
    <2>6. CASE Restart
      BY <2>6, RestartInv
    <2> QED
      BY <2>1, <2>2, <2>3, <2>4, <2>5, <2>6 DEF Next, Tick
  <1> QED
    BY <1>1, TypeStep DEF IInv

-----------------------------------------------------------------------------
(* What follows *)

\* The invariant holds in every behaviour of the clock.
THEOREM Invariance == Spec => []IInv
  BY InitInv, NextInv, PTL DEF Spec

\* The state of the tick, the clock, the wire and the strip keeps to its types.
THEOREM TypeCorrect == Spec => []TypeOK
  <1>1. IInv => TypeOK
    BY DEF IInv
  <1> QED
    BY Invariance, <1>1, PTL

\* No frame is on the data line while Power has the strip's rail down.
THEOREM NeverIntoDeadRail == Spec => []NoFrameIntoDeadRail
  <1>1. IInv => NoFrameIntoDeadRail
    BY DEF IInv, ClockInv, ClockStates, PowerStates, StripInv, NoFrameIntoDeadRail
  <1> QED
    BY Invariance, <1>1, PTL

\* Display's off is a master of 0 through every draw, colour step and cap.
THEOREM OffStaysDark == Spec => []DisabledStaysDark
  <1>1. IInv => DisabledStaysDark
    BY DEF IInv, ClockInv, DisabledStaysDark
  <1> QED
    BY Invariance, <1>1, PTL

\* Once nothing is owed and nothing is on its way, the LEDs hold the buffer.
THEOREM StripIsTheBuffer == Spec => []StripShowsTheBuffer
  <1>1. IInv => StripShowsTheBuffer
    BY DEF IInv, StripInv
  <1> QED
    BY Invariance, <1>1, PTL

-----------------------------------------------------------------------------
(* What the night leaves behind *)

\* A call that leaves the night switch's notes as they were.
SameNotes(c, d) ==
  d.wasNight = c.wasNight /\ d.cutForNight = c.cutForNight /\ d.dimmed = c.dimmed

\* The notes of a night that is undone.
Undone(c) == ~c.cutForNight /\ ~c.dimmed

\* The calls on the supply, the display and the buffer write none of the notes.
LEMMA SupplyCallsKeepNotes ==
  ASSUME NEW c, ClockInv(c), NEW b \in BOOLEAN
  PROVE  /\ SameNotes(c, Draw(c)) /\ SameNotes(c, Enable(c)) /\ SameNotes(c, Disable(c))
         /\ SameNotes(c, SwitchSupplyOn(c)) /\ SameNotes(c, SwitchSupplyOff(c))
         /\ SameNotes(c, PowerTask(c, b))
         /\ SameNotes(c, SetCycling(c, b)) /\ SameNotes(c, ColorCycleTask(c))
  <1> USE FittedAssumption
      DEF SameNotes, ClockInv, ClockStates, PowerStates, Draw, ApplyCurrentLimit, SetMaster,
          MarkDirty, Enable, Disable
  <1>1. SameNotes(c, Draw(c)) /\ SameNotes(c, Enable(c)) /\ SameNotes(c, Disable(c))
    OBVIOUS
  <1>2. SameNotes(c, SwitchSupplyOn(c))
    BY DEF SwitchSupplyOn, ReleaseSupply, ResumeOutput, RaiseRail
  <1>3. SameNotes(c, SwitchSupplyOff(c))
    BY DEF SwitchSupplyOff, DropRail
  <1>4. SameNotes(c, PowerTask(c, b))
    BY DEF PowerTask, CutSupply, SuspendOutput, DropRail, ReleaseSupply, ResumeOutput
  <1>5. SameNotes(c, SetCycling(c, b)) /\ SameNotes(c, ColorCycleTask(c))
    BY DEF SetCycling, ColorCycleTask
  <1> QED
    BY <1>1, <1>2, <1>3, <1>4, <1>5

\* The morning undoes both of what an evening may have done, whatever the night
\* brightness says by then.
LEMMA DayUndoes ==
  ASSUME NEW c, ClockInv(c)
  PROVE  Undone(ApplyDay(c)) /\ ApplyDay(c).wasNight = c.wasNight
  <1> DEFINE undimmed == [Draw(c) EXCEPT !.dimmed = FALSE]
             restored == RestoreSupplyAfterTheNight(undimmed)
  <1>1. Keeps(c, Draw(c)) /\ SameNotes(c, Draw(c))
    BY DrawKeeps, SupplyCallsKeepNotes
  <1>2. ClockInv(undimmed) /\ ~undimmed.dimmed /\ undimmed.wasNight = c.wasNight
    <2>1. ClockInv(Draw(c)) /\ Draw(c) \in ClockStates
      BY <1>1 DEF Keeps, ClockInv
    <2>2. ClockInv(undimmed)
      BY <2>1, NightFieldsFree DEF Keeps
    <2> QED
      BY <1>1, <2>1, <2>2 DEF SameNotes, ClockStates
  <1>3. ClockInv(SwitchSupplyOn(undimmed)) /\ SameNotes(undimmed, SwitchSupplyOn(undimmed))
    BY <1>2, SwitchOnKeeps, SupplyCallsKeepNotes DEF Keeps
  <1>4. ClockInv(restored)
    BY <1>2, RestoreKeeps DEF Keeps
  <1>5. Undone(restored) /\ restored.wasNight = c.wasNight
    <2> HIDE DEF undimmed
    <2>1. SwitchSupplyOn(undimmed) \in ClockStates
      BY <1>3 DEF ClockInv
    <2> QED
      BY <1>2, <1>3, <2>1 DEF RestoreSupplyAfterTheNight, SameNotes, Undone, ClockStates
  <1>6. SameNotes(restored, Enable(restored))
    BY <1>4, SupplyCallsKeepNotes
  <1> HIDE DEF restored
  <1>7. Undone(Enable(restored)) /\ Enable(restored).wasNight = c.wasNight
    BY <1>5, <1>6 DEF SameNotes, Undone
  <1> QED
    BY <1>7 DEF restored, ApplyDay

\* Following the display back on takes a note away and never adds one.
LEMMA FollowNotes ==
  ASSUME NEW c, ClockInv(c)
  PROVE  /\ FollowTheDisplayBackOn(c).wasNight = c.wasNight
         /\ FollowTheDisplayBackOn(c).dimmed = c.dimmed
         /\ FollowTheDisplayBackOn(c).cutForNight => c.cutForNight
  <1>1. SwitchSupplyOn(c) \in ClockStates /\ SameNotes(c, SwitchSupplyOn(c))
    BY SwitchOnKeeps, SupplyCallsKeepNotes DEF Keeps, ClockInv
  <1> QED
    BY <1>1 DEF FollowTheDisplayBackOn, RestoreSupplyAfterTheNight, SameNotes, ClockStates

\* Switching the night switch forgets what it saw, and undoes it when it is
\* switched off.
LEMMA SetIsActiveNotes ==
  ASSUME NEW c, ClockInv(c), NEW isActive \in BOOLEAN
  PROVE  /\ ~SetIsActive(c, isActive).wasNight
         /\ isActive => /\ SetIsActive(c, isActive).cutForNight = c.cutForNight
                        /\ SetIsActive(c, isActive).dimmed = c.dimmed
         /\ ~isActive => Undone(SetIsActive(c, isActive))
  <1> DEFINE set == [c EXCEPT !.active = isActive]
  <1>1. ClockInv(set) /\ SameNotes(c, set)
    BY NightFieldsFree DEF Keeps, SameNotes, ClockInv, ClockStates
  <1>2. ApplyDay(set) \in ClockStates /\ Undone(ApplyDay(set))
    BY <1>1, DayKeeps, DayUndoes DEF Keeps, ClockInv
  <1>3. set \in ClockStates
    BY <1>1 DEF ClockInv
  <1> HIDE DEF set
  <1>4. SetIsActive(c, isActive)
          = [(IF isActive THEN set ELSE ApplyDay(set)) EXCEPT !.wasNight = FALSE]
    BY DEF SetIsActive, set
  <1> QED
    BY <1>1, <1>2, <1>3, <1>4 DEF SameNotes, Undone, ClockStates

\* A step that keeps the notes, or takes them away, keeps the night undone.
LEMMA NotesKeepTheNight ==
  ASSUME NightLeavesNothing,
         clock'.wasNight = clock.wasNight, clock'.dimmed = clock.dimmed,
         clock'.cutForNight => clock.cutForNight, ~rearmed' => ~rearmed
  PROVE  NightLeavesNothing'
  BY DEF NightLeavesNothing

LEMMA NightTaskLeavesNothing ==
  ASSUME IInv, NightLeavesNothing, NightSwitchDue
  PROVE  NightLeavesNothing'
  <1> USE DEF IInv
  <1>1. PICK now \in BOOLEAN :
          /\ clock' = NightSwitchTask(clock, now)
          /\ rearmed' = (rearmed /\ ~(clock.active /\ now # clock.wasNight))
    BY DEF NightSwitchDue
  <1> DEFINE noted == [clock EXCEPT !.wasNight = now]
  <1>2. ClockInv(noted) /\ noted.wasNight = now
    BY NightFieldsFree DEF Keeps, ClockInv, ClockStates
  <1>3. clock.active \in BOOLEAN /\ clock.wasNight \in BOOLEAN /\ rearmed \in BOOLEAN
    BY DEF TypeOK, ClockStates
  <1>4. CASE ~clock.active
    BY <1>1, <1>3, <1>4, NotesKeepTheNight DEF NightSwitchTask
  <1>5. CASE clock.active /\ now = clock.wasNight
    <2>1. clock' = FollowTheDisplayBackOn(clock)
      BY <1>1, <1>3, <1>5 DEF NightSwitchTask
    <2> QED
      BY <1>1, <1>3, <1>5, <2>1, FollowNotes, NotesKeepTheNight
  <1>6. CASE clock.active /\ now /\ ~clock.wasNight
    <2>1. clock' = ApplyNight(noted)
      BY <1>1, <1>3, <1>6 DEF NightSwitchTask
    <2>2. Draw(noted) \in ClockStates /\ SameNotes(noted, Draw(noted))
      BY <1>2, DrawKeeps, SupplyCallsKeepNotes DEF Keeps, ClockInv
    <2>3. SwitchSupplyOff(noted) \in ClockStates /\ SameNotes(noted, SwitchSupplyOff(noted))
            /\ SameNotes(noted, Disable(noted))
      BY <1>2, SwitchOffKeeps, SupplyCallsKeepNotes DEF Keeps, ClockInv
    <2> HIDE DEF noted
    <2>4. ApplyNight(noted).wasNight
      BY <1>2, <1>6, <2>2, <2>3 DEF ApplyNight, CutSupplyForTheNight, SameNotes, ClockStates
    <2> QED
      BY <2>1, <2>4 DEF NightLeavesNothing
  <1>7. CASE clock.active /\ ~now /\ clock.wasNight
    <2>1. clock' = ApplyDay(noted)
      BY <1>1, <1>3, <1>7 DEF NightSwitchTask
    <2> QED
      BY <1>2, <2>1, DayUndoes DEF NightLeavesNothing, Undone
  <1> QED
    BY <1>3, <1>4, <1>5, <1>6, <1>7

LEMMA CommandLeavesNothing ==
  ASSUME IInv, NightLeavesNothing, Command
  PROVE  NightLeavesNothing'
  <1> USE DEF IInv
  <1>1. CASE PowerOn \/ PowerOff \/ DisplayEnable \/ DisplayDisable \/ DisplayToggle
               \/ ColorCycleSet
    <2>1. (~clock.cycling) \in BOOLEAN
      OBVIOUS
    <2>2. SameNotes(clock, clock') /\ rearmed' = rearmed
      BY <1>1, <2>1, SupplyCallsKeepNotes
      DEF PowerOn, PowerOff, DisplayEnable, DisplayDisable, DisplayToggle, Toggle,
          ColorCycleSet, Commanded
    <2> QED
      BY <2>2, NotesKeepTheNight DEF SameNotes
  <1>2. CASE NightSwitchOn
    BY <1>2, SetIsActiveNotes DEF NightSwitchOn, Commanded, NightLeavesNothing
  <1>3. CASE NightSwitchOff
    BY <1>3, SetIsActiveNotes DEF NightSwitchOff, Commanded, NightLeavesNothing, Undone
  <1>4. CASE SetNightBrightness
    <2>1. PICK off \in BOOLEAN : clock' = [clock EXCEPT !.off = off] /\ rearmed' = rearmed
      BY <1>4 DEF SetNightBrightness, Commanded
    <2>2. SameNotes(clock, clock')
      BY <2>1 DEF SameNotes, ClockInv, ClockStates
    <2> QED
      BY <2>1, <2>2, NotesKeepTheNight DEF SameNotes
  <1>5. CASE SettingsReset
    <2>1. ClockInv(ResetToDefaults(clock))
      BY ResetKeeps DEF Keeps
    <2>2. SetIsActive(clock, FALSE) \in ClockStates /\ Undone(SetIsActive(clock, FALSE))
      BY SetIsActiveKeeps, SetIsActiveNotes DEF Keeps, ClockInv
    <2>3. Undone(ResetToDefaults(clock))
      BY <2>2 DEF ResetToDefaults, Undone, ClockStates
    <2>4. SameNotes(ResetToDefaults(clock), SetCycling(ResetToDefaults(clock), FALSE))
      BY <2>1, SupplyCallsKeepNotes
    <2> QED
      BY <1>5, <2>3, <2>4 DEF SettingsReset, Commanded, NightLeavesNothing, Undone, SameNotes
  <1> QED
    BY <1>1, <1>2, <1>3, <1>4, <1>5 DEF Command

LEMMA NothingIsLeft ==
  ASSUME IInv, NightLeavesNothing, [Next]_vars
  PROVE  NightLeavesNothing'
  <1> USE DEF IInv
  <1>1. CASE UNCHANGED vars
    BY <1>1 DEF vars, NightLeavesNothing
  <1>2. CASE ClockFaceStep \/ TextStep \/ NoCommand \/ NightSwitchNotDue
    <2>1. SameNotes(clock, clock') /\ rearmed' = rearmed
      BY <1>2, SupplyCallsKeepNotes
      DEF ClockFaceStep, TextStep, Drawing, NoCommand, NightSwitchNotDue, SameNotes
    <2> QED
      BY <2>1, NotesKeepTheNight DEF SameNotes
  <1>7. CASE ColorCycleStep \/ PowerStep
    <2>1. (wire # "idle") \in BOOLEAN /\ TRUE \in BOOLEAN
      OBVIOUS
    <2>2. SameNotes(clock, PowerTask(clock, wire # "idle"))
            /\ SameNotes(clock, ColorCycleTask(clock))
      BY <2>1, SupplyCallsKeepNotes
    <2> QED
      BY <1>7, <2>2, NotesKeepTheNight DEF ColorCycleStep, PowerStep, SameNotes
  <1>3. CASE NightSwitchDue
    BY <1>3, NightTaskLeavesNothing
  <1>4. CASE Command
    BY <1>4, CommandLeavesNothing
  <1>5. CASE Render \/ FrameLeaves
    BY <1>5, NotesKeepTheNight
    DEF Render, RenderNothing, RenderFrame, RenderFails, FrameLeaves, ClockInv, ClockStates
  <1>6. CASE Restart
    BY <1>6 DEF Restart, Booted, NightLeavesNothing
  <1> QED
    BY <1>1, <1>2, <1>3, <1>4, <1>5, <1>6, <1>7 DEF Next, Tick

\* Whatever the evening did - the supply cut, the display dimmed - is undone once
\* the night switch has noted the day or was switched off, through any change of the
\* night brightness in between, unless it was switched on again over a night.
THEOREM NightIsUndone == Spec => []NightLeavesNothing
  <1>1. Init => NightLeavesNothing
    BY DEF Init, Booted, NightLeavesNothing
  <1> QED
    BY Invariance, <1>1, NothingIsLeft, PTL DEF Spec

-----------------------------------------------------------------------------
(* What no step does *)

\* The steps of Next, sorted by what they may do to the supply.
LEMMA StepKinds ==
  ASSUME IInv, [Next]_vars
  PROVE  \/ UNCHANGED << clock, wire, held >>
         \/ Keeps(clock, clock') /\ UNCHANGED << wire, held >>
         \/ PowerStep
         \/ Render \/ FrameLeaves
         \/ Restart
  <1>1. CASE UNCHANGED vars
    BY <1>1 DEF vars
  <1>2. CASE Command
    BY <1>2, CommandKeeps
    DEF Command, Commanded, PowerOn, PowerOff, DisplayEnable, DisplayDisable,
        DisplayToggle, NightSwitchOn, NightSwitchOff, SetNightBrightness, ColorCycleSet,
        SettingsReset
  <1>3. CASE ClockFaceStep \/ TextStep \/ NoCommand \/ NightSwitchNotDue \/ NightSwitchDue
               \/ ColorCycleStep
    BY <1>3, TickKeeps
    DEF ClockFaceStep, TextStep, NoCommand, NightSwitchNotDue, NightSwitchDue,
        ColorCycleStep, Drawing
  <1> QED
    BY <1>1, <1>2, <1>3 DEF Next, Tick

LEMMA CutStep ==
  ASSUME IInv, [Next]_vars, clock.rail, ~clock'.rail, ~clock.enabled, ~lost
  PROVE  held = "dark"
  <1>1. CASE UNCHANGED << clock, wire, held >>
    BY <1>1
  <1>2. CASE Keeps(clock, clock')
    BY <1>2 DEF Keeps, Gentle, IInv, StripInv
  <1>3. CASE PowerStep
    <2>1. clock.state = "blanking" /\ ~clock.dirty /\ wire = "idle"
      BY <1>3 DEF PowerStep, PowerTask, IsStripDarkAndIdle, ReleaseSupply, ResumeOutput,
         Enable, SetMaster, IInv, ClockInv, ClockStates, PowerStates
    <2> QED
      BY <2>1 DEF IInv, ClockInv, StripInv, StripShowsTheBuffer
  <1>4. CASE Render \/ FrameLeaves \/ Restart
    BY <1>4 DEF Render, RenderNothing, RenderFrame, RenderFails, FrameLeaves, Restart,
       Booted, IInv, ClockInv, ClockStates
  <1> QED
    BY <1>1, <1>2, <1>3, <1>4, StepKinds

\* A disabled display's rail never drops before the strip has latched the blanked
\* frame, whoever asked for the cut and in whichever state Power was.
THEOREM CutFindsADarkStrip == Spec => BlankedBeforeCut
  <1>1. IInv /\ [Next]_vars =>
          [(clock.rail /\ ~clock'.rail /\ ~clock.enabled /\ ~lost) => held = "dark"]_vars
    BY CutStep
  <1> QED
    BY Invariance, <1>1, PTL DEF Spec, BlankedBeforeCut

-----------------------------------------------------------------------------
(* The clock implements the rail's contract *)

LEMMA GentleImplements ==
  ASSUME IInv, Keeps(clock, clock'), wire' = wire
  PROVE  [R!RailNext]_R!railVars
  <1> USE DEF IInv, Keeps, Gentle, ClockInv, ClockStates, StripInv
  <1>1. CASE clock'.rail = clock.rail
    BY <1>1 DEF R!railVars
  <1>2. CASE clock.rail /\ ~clock'.rail
    BY <1>2 DEF R!RailNext, R!Cut
  <1>3. CASE ~clock.rail /\ clock'.rail
    BY <1>3 DEF R!RailNext, R!Raise
  <1> QED
    BY <1>1, <1>2, <1>3

LEMMA PowerImplements ==
  ASSUME IInv, PowerStep
  PROVE  [R!RailNext]_R!railVars
  <1> USE DEF IInv, ClockInv, ClockStates, PowerStates, PowerStep, PowerTask
  <1>1. CASE clock.state \in {"on", "off"}
    BY <1>1 DEF R!railVars
  <1>2. CASE clock.state = "settling"
    BY <1>2 DEF ReleaseSupply, ResumeOutput, Enable, SetMaster, R!RailNext, R!OpenGate
  <1>3. CASE clock.state = "blanking" /\ ~IsStripDarkAndIdle(clock, wire # "idle")
    BY <1>3 DEF R!railVars
  <1>4. CASE clock.state = "blanking" /\ IsStripDarkAndIdle(clock, wire # "idle")
    BY <1>4 DEF IsStripDarkAndIdle, CutSupply, SuspendOutput, DropRail, R!RailNext, R!Cut
  <1> QED
    BY <1>1, <1>2, <1>3, <1>4

LEMMA WireImplements ==
  ASSUME IInv, Render \/ FrameLeaves \/ Restart
  PROVE  [R!RailNext]_R!railVars
  <1> USE DEF IInv, ClockInv, ClockStates, PowerStates
  <1>1. CASE RenderNothing \/ RenderFails
    BY <1>1 DEF RenderNothing, RenderFails, R!railVars
  <1>2. CASE RenderFrame
    BY <1>2 DEF RenderFrame, R!RailNext, R!StartFrame, Masters
  <1>3. CASE FrameLeaves
    BY <1>3 DEF FrameLeaves, R!RailNext, R!EndFrame
  <1>4. CASE Restart
    BY <1>4 DEF Restart, Booted, R!RailNext, R!Reset
  <1> QED
    BY <1>1, <1>2, <1>3, <1>4 DEF Render

\* Every tick, command, frame and restart is a step of the rail's contract: data
\* only into a live rail behind an open gate, the cut only between two frames.
THEOREM ImplementsRail == Spec => KeepsTheRailContract
  <1>1. Init => R!RailInit
    BY DEF Init, Booted, R!RailInit
  <1>2. IInv /\ [Next]_vars => [R!RailNext]_R!railVars
    <2> SUFFICES ASSUME IInv, [Next]_vars
                 PROVE  [R!RailNext]_R!railVars
      OBVIOUS
    <2>1. CASE UNCHANGED << clock, wire, held >>
      BY <2>1 DEF R!railVars
    <2> QED
      BY <2>1, StepKinds, GentleImplements, PowerImplements, WireImplements
  <1> QED
    BY Invariance, <1>1, <1>2, PTL DEF Spec, KeepsTheRailContract, R!RailSpec

-----------------------------------------------------------------------------
(* The strip *)

StripShape ==
  /\ build \in {"AVR-Dx", "RP2350"}
  /\ picture \in Drawn
  /\ dirty \in BOOLEAN /\ suspended \in BOOLEAN /\ txcif \in BOOLEAN /\ apart \in BOOLEAN
  /\ step \in Steps
  /\ frame \in [1 .. FrameSize -> Drawn]
  /\ length \in {0, FrameSize}
  /\ position \in 0 .. length
  /\ line \in Seq(Drawn)
  /\ taken \in Seq(Drawn) /\ Len(taken) <= FrameSize

\* What the flag and a length of zero say, whichever half of a position was read first.
LineIsAtRest ==
  /\ length = 0 => line = << >> /\ taken = << >>
  /\ build = "AVR-Dx" /\ txcif => line = << >> /\ position = length

\* A strip without its supply holds nothing, and is sent nothing more.
StripIsCut ==
  /\ suspended =>
       /\ step = "tick" /\ position = length
       /\ taken = << >> /\ shown = << >>
       /\ build = "AVR-Dx" => line = << >>

\* How much of what is under way has left the buffer.
Sent == Len(taken) + Len(line)

\* The strip takes one whole picture p, whatever comes behind it.
Leads(p) ==
  /\ \A i \in 1 .. Len(taken) : taken[i] = p
  /\ \A i \in 1 .. Len(line) : Len(taken) + i <= FrameSize => line[i] = p
  /\ Sent < FrameSize /\ position < length => frame = FillFrameBuffer(p)

OnePictureLeads ==
  ~suspended =>
    /\ \E p \in Drawn : Leads(p)
    /\ taken # << >> \/ line # << >> \/ position < length =>
         Sent + (length - position) >= FrameSize

\* After the last drawing nothing but its picture is under way, or the strip shows it.
NewestIsUnderWay ==
  ~dirty /\ ~suspended /\ apart =>
    /\ frame = FillFrameBuffer(picture)
    /\ \A i \in 1 .. Len(taken) : taken[i] = picture
    /\ \A i \in 1 .. Len(line) : line[i] = picture
    /\ taken = << >> /\ line = << >> /\ position = length => shown = FillFrameBuffer(picture)

FrameInv ==
  /\ StripShape /\ LineIsAtRest /\ StripIsCut /\ OnePictureLeads /\ NewestIsUnderWay
  /\ WholePictures

LEMMA InitFrame == StripInit => FrameInv
<1>. SUFFICES ASSUME StripInit PROVE FrameInv
  OBVIOUS
<1>. USE StripAssumption DEF StripInit
<1>1. StripShape
  <2>1. frame \in [1 .. FrameSize -> Drawn]
    BY DEF FillFrameBuffer, Drawn
  <2>2. line \in Seq(Drawn) /\ taken \in Seq(Drawn) /\ Len(taken) = 0
    BY EmptySeq
  <2>3. picture \in Drawn /\ step \in Steps
    BY DEF Drawn, Steps
  <2>4. position \in 0 .. length /\ length \in {0, FrameSize} /\ 0 <= FrameSize
    OBVIOUS
  <2>. QED  BY <2>1, <2>2, <2>3, <2>4 DEF StripShape
<1>2. LineIsAtRest /\ StripIsCut /\ NewestIsUnderWay /\ WholePictures
  BY DEF LineIsAtRest, StripIsCut, NewestIsUnderWay, WholePictures
<1>3. Unlit \in Drawn /\ Leads(Unlit)
  BY DEF Drawn, Leads
<1>4. OnePictureLeads
  BY <1>3 DEF OnePictureLeads
<1>. QED  BY <1>1, <1>2, <1>4 DEF FrameInv

\* A feeder that is found idle has fed all of its frame, on the AVR to the last byte.
LEMMA IdleIsAtRest ==
  ASSUME FrameInv, NEW read \in PositionsRead, ~IsBusy(read)
  PROVE  position = length /\ (build = "AVR-Dx" => line = << >>)
<1>1. CASE build = "AVR-Dx"
  <2>1. length = 0 \/ txcif
    BY <1>1 DEF IsBusy
  <2>2. line = << >> /\ position = length
    BY <1>1, <2>1 DEF FrameInv, LineIsAtRest, StripShape
  <2>. QED  BY <2>2
<1>2. CASE build # "AVR-Dx"
  <2>1. read = position /\ ~(read < length)
    BY <1>2 DEF PositionsRead, IsBusy, IsFeeding
  <2>. QED  BY <1>2, <2>1, StripAssumption DEF FrameInv, StripShape
<1>. QED  BY <1>1, <1>2

\* The steps of the tick that touch neither the frame nor the line.
LEMMA TickKeepsTheFrame ==
  ASSUME FrameInv,
         UNCHANGED << build, frame, length, position, line, txcif, taken, shown, suspended >>,
         picture' \in Drawn, dirty' \in BOOLEAN, apart' \in BOOLEAN, step' \in Steps,
         suspended => step' = "tick",
         ~dirty' /\ apart' => ~dirty /\ apart /\ picture' = picture
  PROVE  FrameInv'
<1>1. StripShape'
  BY DEF FrameInv, StripShape
<1>2. LineIsAtRest' /\ StripIsCut' /\ WholePictures'
  BY DEF FrameInv, LineIsAtRest, StripIsCut, WholePictures
<1>3. OnePictureLeads'
  BY DEF FrameInv, OnePictureLeads, Leads, Sent
<1>4. NewestIsUnderWay'
  BY DEF FrameInv, NewestIsUnderWay
<1>. QED  BY <1>1, <1>2, <1>3, <1>4 DEF FrameInv

\* A frame sets out behind what is left of the one before, which leads on if it has not all arrived.
LEMMA SendKeepsTheFrame ==
  ASSUME FrameInv, SendFrame
  PROVE  FrameInv'
<1>. USE StripAssumption
<1>1. PICK read \in PositionsRead : ~IsBusy(read)
  BY DEF SendFrame
<1>2. position = length /\ (build = "AVR-Dx" => line = << >>) /\ ~suspended
  BY <1>1, IdleIsAtRest DEF SendFrame, FrameInv, StripIsCut
<1>3. StripShape'
  <2>1. frame' \in [1 .. FrameSize -> Drawn]
    BY DEF FrameInv, StripShape, SendFrame, Transmit, FillFrameBuffer
  <2>2. apart' \in BOOLEAN
    BY DEF SendFrame
  <2>3. step' \in Steps /\ length' = FrameSize /\ position' \in 0 .. FrameSize
    BY DEF SendFrame, Transmit, Steps
  <2>. QED  BY <2>1, <2>2, <2>3 DEF FrameInv, StripShape, SendFrame
<1>4. LineIsAtRest' /\ StripIsCut' /\ WholePictures'
  BY <1>2 DEF FrameInv, LineIsAtRest, StripIsCut, WholePictures, SendFrame, Transmit
<1>5. Len(taken) \in Nat /\ Len(line) \in Nat /\ Sent \in Nat /\ Sent' = Sent
  BY DEF FrameInv, StripShape, Sent, SendFrame
<1>6. OnePictureLeads'
  <2>1. CASE taken = << >> /\ line = << >>
    <3>1. Leads(picture)' /\ picture' \in Drawn
      BY <2>1 DEF Leads, SendFrame, Transmit, FrameInv, StripShape
    <3>2. Sent' + (length' - position') >= FrameSize
      BY <1>5 DEF SendFrame, Transmit
    <3>. QED  BY <3>1, <3>2 DEF OnePictureLeads
  <2>2. CASE taken # << >> \/ line # << >>
    <3>1. Sent >= FrameSize
      BY <1>2, <1>5, <2>2 DEF FrameInv, OnePictureLeads, StripShape
    <3>2. PICK p \in Drawn : Leads(p)
      BY <1>2 DEF FrameInv, OnePictureLeads
    <3>3. Leads(p)'
      BY <1>5, <3>1, <3>2 DEF Leads, SendFrame
    <3>4. Sent' + (length' - position') >= FrameSize
      BY <1>5, <3>1 DEF SendFrame, Transmit
    <3>. QED  BY <3>3, <3>4 DEF OnePictureLeads
  <2>. QED  BY <2>1, <2>2
<1>7. NewestIsUnderWay'
  <2>1. position' # length'
    BY DEF SendFrame, Transmit
  <2>2. apart' => \A q \in {taken', line'} : Len(q) = 0
    BY Len(<< >>) = 0 DEF SendFrame
  <2>. QED  BY <2>1, <2>2 DEF NewestIsUnderWay, SendFrame, Transmit, FillFrameBuffer
<1>. QED  BY <1>3, <1>4, <1>6, <1>7 DEF FrameInv

LEMMA CutKeepsTheFrame ==
  ASSUME FrameInv, CutSupplyOff
  PROVE  FrameInv'
<1>1. PICK read \in PositionsRead : ~IsBusy(read)
  BY DEF CutSupplyOff
<1>2. position = length /\ (build = "AVR-Dx" => line = << >>)
  BY <1>1, IdleIsAtRest
<1>3. StripShape'
  BY StripAssumption DEF FrameInv, StripShape, CutSupplyOff, Steps
<1>. QED
  BY <1>2, <1>3 DEF FrameInv, CutSupplyOff, LineIsAtRest, StripIsCut, OnePictureLeads, NewestIsUnderWay,
                    WholePictures

LEMMA ResumeKeepsTheFrame ==
  ASSUME FrameInv, ResumeStrip
  PROVE  FrameInv'
<1>1. position = length /\ line = << >> /\ taken = << >> /\ shown = << >>
  BY DEF FrameInv, StripIsCut, ResumeStrip
<1>2. StripShape'
  BY DEF FrameInv, StripShape, ResumeStrip, wireVars, Steps
<1>3. LineIsAtRest' /\ StripIsCut' /\ NewestIsUnderWay' /\ WholePictures'
  BY <1>1 DEF FrameInv, LineIsAtRest, StripIsCut, NewestIsUnderWay, WholePictures, ResumeStrip, wireVars
<1>4. OnePictureLeads'
  <2>1. Leads(Unlit)' /\ Unlit \in Drawn
    BY <1>1, <1>2 DEF Leads, ResumeStrip, wireVars, Drawn, StripShape
  <2>2. ~(taken # << >> \/ line # << >> \/ position < length)'
    BY <1>1, StripAssumption DEF ResumeStrip, wireVars, FrameInv, StripShape
  <2>. QED  BY <2>1, <2>2 DEF OnePictureLeads
<1>. QED  BY <1>2, <1>3, <1>4 DEF FrameInv

LEMMA FeedKeepsTheFrame ==
  ASSUME FrameInv, FeedStrip
  PROVE  FrameInv'
<1>. USE StripAssumption
<1>1. ~suspended /\ length = FrameSize /\ position \in 0 .. FrameSize - 1
  BY DEF FrameInv, StripIsCut, StripShape, FeedStrip
<1>2. /\ Len(taken) \in Nat /\ Len(line) \in Nat
      /\ Len(line') = Len(line) + 1
      /\ \A i \in 1 .. Len(line) : line'[i] = line[i]
      /\ line'[Len(line) + 1] = frame[position + 1]
      /\ line' # << >>
  BY DEF FrameInv, StripShape, FeedStrip
<1>. USE DEF FeedStrip, mainVars
<1>3. Sent \in Nat /\ Sent' = Sent + 1
  BY <1>2 DEF Sent
<1>4. PICK p \in Drawn : Leads(p)
  BY <1>1 DEF FrameInv, OnePictureLeads
<1>5. Leads(p)'
  <2>1. ASSUME NEW i \in 1 .. Len(line'), Len(taken) + i <= FrameSize  PROVE line'[i] = p
    <3>1. CASE i <= Len(line)
      BY <1>2, <1>4, <2>1, <3>1 DEF Leads
    <3>2. CASE i = Len(line) + 1
      <4>1. Sent < FrameSize
        BY <1>2, <2>1, <3>2 DEF Sent
      <4>2. frame[position + 1] = p
        BY <1>1, <1>4, <4>1 DEF Leads, FillFrameBuffer
      <4>. QED  BY <1>2, <3>2, <4>2
    <3>. QED  BY <1>2, <2>1, <3>1, <3>2
  <2>2. (Sent < FrameSize /\ position < length)' => frame' = FillFrameBuffer(p)
    BY <1>1, <1>3, <1>4 DEF Leads
  <2>3. \A i \in 1 .. Len(taken') : taken'[i] = p
    BY <1>4 DEF Leads
  <2>. QED  BY <2>1, <2>2, <2>3 DEF Leads
<1>6. OnePictureLeads'
  BY <1>1, <1>3, <1>5 DEF FrameInv, OnePictureLeads
<1>7. StripShape'
  <2>1. line' \in Seq(Drawn)
    <3>1. frame[position + 1] \in Drawn
      BY <1>1 DEF FrameInv, StripShape
    <3>. QED  BY <3>1 DEF FrameInv, StripShape
  <2>. QED  BY <1>1, <2>1 DEF FrameInv, StripShape
<1>8. LineIsAtRest' /\ StripIsCut' /\ WholePictures'
  BY <1>1, <1>2 DEF FrameInv, LineIsAtRest, StripIsCut, WholePictures
<1>9. NewestIsUnderWay'
  BY <1>1, <1>2 DEF FrameInv, NewestIsUnderWay, FillFrameBuffer
<1>. QED  BY <1>6, <1>7, <1>8, <1>9 DEF FrameInv

LEMMA ShiftKeepsTheFrame ==
  ASSUME FrameInv, ShiftToStrip
  PROVE  FrameInv'
<1>. USE StripAssumption
<1>1. /\ Len(taken) \in 0 .. FrameSize /\ Len(line) \in Nat \ {0}
      /\ Head(line) = line[1] /\ Head(line) \in Drawn
      /\ Tail(line) \in Seq(Drawn) /\ Len(Tail(line)) = Len(line) - 1
      /\ \A i \in 1 .. Len(line) - 1 : Tail(line)[i] = line[i + 1]
  BY DEF FrameInv, StripShape, ShiftToStrip
<1>2. /\ Append(taken, Head(line)) \in Seq(Drawn)
      /\ Len(Append(taken, Head(line))) = Len(taken) + 1
      /\ \A i \in 1 .. Len(taken) : Append(taken, Head(line))[i] = taken[i]
      /\ Append(taken, Head(line))[Len(taken) + 1] = line[1]
  BY <1>1 DEF FrameInv, StripShape
<1>3. StripShape'
  <2>1. txcif' \in BOOLEAN /\ line' \in Seq(Drawn) /\ taken' \in Seq(Drawn) /\ Len(taken') <= FrameSize
    BY <1>1, <1>2 DEF FrameInv, StripShape, ShiftToStrip
  <2>. QED  BY <2>1 DEF FrameInv, StripShape, ShiftToStrip, mainVars
<1>4. LineIsAtRest'
  <2>1. (build = "AVR-Dx" /\ txcif)' => line' = << >> /\ position' = length'
    <3>1. Len(line) = 1 => Tail(line) = << >>
      <4>1. \A seq \in Seq(Drawn) : seq # << >> => Len(seq) # 0
        BY EmptySeq
      <4>2. Len(line) = 1 => Len(Tail(line)) = 0
        BY <1>1
      <4>. QED  BY <1>1, <4>1, <4>2, Zenon
    <3>2. ~(build = "AVR-Dx" /\ txcif) /\ line # << >>
      BY DEF FrameInv, LineIsAtRest, ShiftToStrip
    <3>3. (build = "AVR-Dx" /\ txcif)' => Len(line) = 1
      BY <3>2, Zenon DEF ShiftToStrip, mainVars
    <3>4. Len(line) = 1 => line' = << >> /\ position' = length'
      BY <3>1 DEF ShiftToStrip, mainVars
    <3>. QED  BY <3>3, <3>4
  <2>2. length' # 0
    BY <1>1 DEF FrameInv, LineIsAtRest, ShiftToStrip, mainVars
  <2>. QED  BY <2>1, <2>2 DEF LineIsAtRest
<1>5. StripIsCut' /\ WholePictures'
  BY <1>1 DEF FrameInv, StripIsCut, WholePictures, ShiftToStrip, mainVars
<1>6. CASE suspended
  BY <1>3, <1>4, <1>5, <1>6 DEF FrameInv, OnePictureLeads, NewestIsUnderWay, ShiftToStrip, mainVars
<1>7. CASE ~suspended /\ Len(taken) = FrameSize
  <2>1. taken' = taken /\ line' = Tail(line) /\ taken # << >>
    BY <1>7 DEF ShiftToStrip, FrameInv, StripShape
  <2>2. Sent' \in Nat /\ Sent' >= FrameSize
    BY <1>1, <1>7, <2>1 DEF Sent
  <2>3. PICK p \in Drawn : Leads(p)
    BY <1>7 DEF FrameInv, OnePictureLeads
  <2>4. Leads(p)'
    BY <1>1, <1>7, <2>1, <2>2, <2>3 DEF Leads
  <2>5. OnePictureLeads'
    BY <1>3, <2>2, <2>4 DEF OnePictureLeads, StripShape
  <2>6. NewestIsUnderWay'
    BY <1>1, <2>1 DEF FrameInv, NewestIsUnderWay, ShiftToStrip, mainVars
  <2>. QED  BY <1>3, <1>4, <1>5, <2>5, <2>6 DEF FrameInv
<1>8. CASE ~suspended /\ Len(taken) # FrameSize
  <2>1. taken' = Append(taken, Head(line)) /\ line' = Tail(line)
    BY <1>8 DEF ShiftToStrip
  <2>2. Sent' \in Nat /\ Sent' = Sent /\ Len(taken') = Len(taken) + 1 /\ Len(line') = Len(line) - 1
    BY <1>1, <1>2, <2>1 DEF Sent
  <2>3. PICK p \in Drawn : Leads(p)
    BY <1>8 DEF FrameInv, OnePictureLeads
  <2>4. Leads(p)'
    <3>1. \A i \in 1 .. Len(taken') : taken'[i] = p
      BY <1>1, <1>2, <1>8, <2>1, <2>2, <2>3 DEF Leads
    <3>2. ASSUME NEW i \in 1 .. Len(line'), Len(taken') + i <= FrameSize  PROVE line'[i] = p
      <4>1. i + 1 \in 1 .. Len(line) /\ Len(taken) + (i + 1) <= FrameSize
        BY <1>1, <2>2, <3>2
      <4>2. i \in 1 .. Len(line) - 1
        BY <1>1, <2>2
      <4>. QED  BY <1>1, <2>1, <2>3, <4>1, <4>2 DEF Leads
    <3>3. (Sent < FrameSize /\ position < length)' => frame' = FillFrameBuffer(p)
      BY <2>2, <2>3 DEF Leads, ShiftToStrip, mainVars
    <3>. QED  BY <3>1, <3>2, <3>3 DEF Leads
  <2>5. OnePictureLeads'
    BY <1>1, <1>8, <2>2, <2>4 DEF FrameInv, OnePictureLeads, ShiftToStrip, mainVars
  <2>6. NewestIsUnderWay'
    <3>1. taken' # << >>
      BY <2>1, <2>2, <1>1
    <3>2. SUFFICES ASSUME ~dirty, apart
                   PROVE  /\ \A i \in 1 .. Len(taken') : taken'[i] = picture
                          /\ \A i \in 1 .. Len(line') : line'[i] = picture
      BY <1>8, <3>1 DEF FrameInv, NewestIsUnderWay, ShiftToStrip, mainVars
    <3>3. /\ \A i \in 1 .. Len(taken) : taken[i] = picture
          /\ \A i \in 1 .. Len(line) : line[i] = picture
      BY <1>8, <3>2 DEF FrameInv, NewestIsUnderWay
    <3>4. \A i \in 1 .. Len(taken') : taken'[i] = picture
      BY <1>1, <1>2, <2>1, <2>2, <3>3
    <3>5. ASSUME NEW i \in 1 .. Len(line')  PROVE line'[i] = picture
      <4>1. i + 1 \in 1 .. Len(line) /\ i \in 1 .. Len(line) - 1
        BY <1>1, <2>2
      <4>. QED  BY <1>1, <2>1, <3>3, <4>1
    <3>. QED  BY <3>4, <3>5
  <2>. QED  BY <1>3, <1>4, <1>5, <2>5, <2>6 DEF FrameInv
<1>. QED  BY <1>6, <1>7, <1>8

\* At rest, what the strip has taken is the picture that led, whole.
LEMMA LatchKeepsTheFrame ==
  ASSUME FrameInv, Latch
  PROVE  FrameInv'
<1>. USE StripAssumption
<1>1. ~suspended
  BY DEF FrameInv, StripIsCut, Latch
<1>2. PICK p \in Drawn : Leads(p)
  BY <1>1 DEF FrameInv, OnePictureLeads
<1>3. Len(taken) = FrameSize
  BY <1>1 DEF FrameInv, OnePictureLeads, Latch, StripShape, Sent
<1>4. \A q \in Drawn : (\A i \in 1 .. Len(taken) : taken[i] = q) => taken = FillFrameBuffer(q)
  BY <1>3 DEF FrameInv, StripShape, FillFrameBuffer
<1>5. StripShape' /\ LineIsAtRest' /\ StripIsCut'
  BY <1>1, <1>3 DEF FrameInv, StripShape, LineIsAtRest, StripIsCut, Latch, mainVars
<1>6. WholePictures'
  BY <1>2, <1>4 DEF Leads, WholePictures, Latch
<1>7. OnePictureLeads'
  <2>1. Leads(p)'
    BY <1>2, <1>5 DEF Leads, Latch, mainVars, FrameInv, StripShape
  <2>2. ~(taken # << >> \/ line # << >> \/ position < length)'
    BY DEF Latch, mainVars, FrameInv, StripShape
  <2>. QED  BY <2>1, <2>2 DEF OnePictureLeads
<1>8. NewestIsUnderWay'
  BY <1>1, <1>4 DEF FrameInv, NewestIsUnderWay, StripShape, Latch, mainVars
<1>. QED  BY <1>5, <1>6, <1>7, <1>8 DEF FrameInv

LEMMA StepKeepsTheFrame ==
  ASSUME FrameInv, [StripNext]_stripVars
  PROVE  FrameInv'
<1>. USE DEF FrameInv, StripShape, StripIsCut, Steps
<1>1. ASSUME NEW p \in Picture, DrawPicture(p)  PROVE FrameInv'
  <2>1. p \in Drawn
    BY DEF Drawn
  <2>. HIDE DEF FrameInv
  <2>. QED  BY <1>1, <2>1, TickKeepsTheFrame DEF DrawPicture, wireVars, FrameInv
<1>2. CASE BeginRender
  BY <1>2, TickKeepsTheFrame DEF BeginRender, wireVars
<1>3. CASE RefuseFrame
  BY <1>3, TickKeepsTheFrame DEF RefuseFrame, wireVars, Kept
<1>4. CASE SendFrame
  BY <1>4, SendKeepsTheFrame
<1>5. CASE BeginCut
  BY <1>5, TickKeepsTheFrame DEF BeginCut, wireVars
<1>6. CASE WaitForTheLine
  BY <1>6, TickKeepsTheFrame DEF WaitForTheLine, wireVars
<1>7. CASE CutSupplyOff
  BY <1>7, CutKeepsTheFrame
<1>8. CASE ResumeStrip
  BY <1>8, ResumeKeepsTheFrame
<1>9. CASE FeedStrip
  BY <1>9, FeedKeepsTheFrame
<1>10. CASE ShiftToStrip
  BY <1>10, ShiftKeepsTheFrame
<1>11. CASE Latch
  BY <1>11, LatchKeepsTheFrame
<1>12. CASE UNCHANGED stripVars
  BY <1>12, TickKeepsTheFrame DEF stripVars
<1>. QED
  BY <1>1, <1>2, <1>3, <1>4, <1>5, <1>6, <1>7, <1>8, <1>9, <1>10, <1>11, <1>12
     DEF StripNext, StripTick, StripWire

LEMMA FrameMeansPictures == FrameInv => PicturesArrive
<1>. SUFFICES ASSUME FrameInv PROVE PicturesArrive
  OBVIOUS
<1>1. WholePictures
  BY DEF FrameInv
<1>2. LastPictureReachesTheStrip
  BY DEF FrameInv, NewestIsUnderWay, LastPictureReachesTheStrip
<1>3. DeadLineIsQuiet
  BY DEF FrameInv, StripIsCut, DeadLineIsQuiet
<1>. QED  BY <1>1, <1>2, <1>3 DEF PicturesArrive

-----------------------------------------------------------------------------
(* A queue of slots *)

\* The place behind a place of n, how many there are from t up to h, and what they hold.
PlaceAfter(n, i) == IF i = n - 1 THEN 0 ELSE i + 1
Waiting(n, h, t) == IF t <= h THEN h - t ELSE h + n - t
Place(n, t, i) == IF t + i < n THEN t + i ELSE t + i - n
Held(s, n, h, t) == [i \in 1 .. Waiting(n, h, t) |-> s[Place(n, t, i - 1)]]

\* A queue with one more at its end.
IsLonger(longer, q, c) == longer = Append(q, c)

LEMMA PlaceAfterIsModulo ==
  ASSUME NEW n \in Nat \ {0, 1}, NEW i \in 0 .. n - 1
  PROVE  (i + 1) % n = PlaceAfter(n, i)
  BY DEF PlaceAfter

LEMMA WaitingFacts ==
  ASSUME NEW n \in Nat \ {0, 1}, NEW h \in 0 .. n - 1, NEW t \in 0 .. n - 1
  PROVE  /\ Waiting(n, h, t) \in 0 .. n - 1
         /\ Waiting(n, h, t) = 0 <=> h = t
         /\ Place(n, t, 0) = t
         /\ Place(n, t, Waiting(n, h, t)) = h
         /\ \A i \in 0 .. Waiting(n, h, t) : Place(n, t, i) \in 0 .. n - 1
         /\ \A i \in 0 .. Waiting(n, h, t) - 1 : Place(n, t, i) # h
  BY DEF Waiting, Place

LEMMA HeldType ==
  ASSUME NEW n \in Nat \ {0, 1}, NEW h \in 0 .. n - 1, NEW t \in 0 .. n - 1,
         NEW C, NEW s \in [0 .. n - 1 -> C]
  PROVE  Held(s, n, h, t) \in Seq(C) /\ Len(Held(s, n, h, t)) = Waiting(n, h, t)
<1>1. Waiting(n, h, t) \in Nat /\ \A i \in 1 .. Waiting(n, h, t) : i - 1 \in 0 .. Waiting(n, h, t)
  BY WaitingFacts
<1>2. \A i \in 1 .. Waiting(n, h, t) : s[Place(n, t, i - 1)] \in C
  BY <1>1, WaitingFacts
<1>. DEFINE w == Waiting(n, h, t)
<1>3. Held(s, n, h, t) \in [1 .. w -> C]
  BY <1>2 DEF Held
<1>4. w \in Nat
  BY <1>1
<1>. HIDE DEF w
<1>5. Held(s, n, h, t) \in Seq(C)
  BY <1>3, <1>4
<1>. QED  BY <1>3, <1>4, <1>5 DEF w

\* A character in the slot at the head, and then the head behind it: the queue is longer by that.
LEMMA QueuePuts ==
  ASSUME NEW n \in Nat \ {0, 1}, NEW h \in 0 .. n - 1, NEW t \in 0 .. n - 1,
         NEW C, NEW s \in [0 .. n - 1 -> C], NEW c \in C, PlaceAfter(n, h) # t,
         NEW new, new = [s EXCEPT ![h] = c],
         NEW q, q = Held(s, n, h, t),
         NEW longer, longer = Held(new, n, PlaceAfter(n, h), t)
  PROVE  Len(q) < n - 1 /\ IsLonger(longer, q, c)
<1>. DEFINE w == Waiting(n, h, t)
<1>1. w \in Nat /\ w < n - 1 /\ Waiting(n, PlaceAfter(n, h), t) = w + 1
  BY DEF Waiting, PlaceAfter
<1>2. new[Place(n, t, w)] = c
  BY WaitingFacts
<1>3. \A i \in 0 .. w - 1 : new[Place(n, t, i)] = s[Place(n, t, i)]
  BY <1>1, WaitingFacts
<1>4. Held(new, n, PlaceAfter(n, h), t) = [i \in 1 .. w + 1 |-> new[Place(n, t, i - 1)]]
  BY <1>1 DEF Held
<1>5. Append(Held(s, n, h, t), c)
        = [i \in 1 .. w + 1 |-> IF i = w + 1 THEN c ELSE Held(s, n, h, t)[i]]
  <2>1. Held(s, n, h, t) \in Seq(C) /\ Len(Held(s, n, h, t)) = w
    BY HeldType
  <2>2. \A u \in Seq(C) :
          Append(u, c) = [i \in 1 .. Len(u) + 1 |-> IF i = Len(u) + 1 THEN c ELSE u[i]]
    <3>. TAKE u \in Seq(C)
    <3>1. /\ Append(u, c) \in Seq(C) /\ Len(u) \in Nat /\ Len(Append(u, c)) = Len(u) + 1
          /\ \A i \in 1 .. Len(u) : Append(u, c)[i] = u[i]
          /\ Append(u, c)[Len(u) + 1] = c
      BY AppendProperties, LenProperties
    <3>2. Append(u, c) \in [1 .. Len(u) + 1 -> C]
      BY <3>1, LenProperties
    <3>3. \A i \in 1 .. Len(u) + 1 : i # Len(u) + 1 => i \in 1 .. Len(u)
      BY <3>1
    <3>. QED  BY <3>1, <3>2, <3>3
  <2>. HIDE DEF w
  <2>. QED  BY <2>1, <2>2
<1>6. ASSUME NEW i \in 1 .. w + 1
      PROVE  new[Place(n, t, i - 1)] = IF i = w + 1 THEN c ELSE Held(s, n, h, t)[i]
  <2>1. CASE i = w + 1
    <3>1. i - 1 = w
      BY <1>1, <2>1
    <3>. QED  BY <1>2, <2>1, <3>1
  <2>2. CASE i # w + 1
    <3>1. i - 1 \in 0 .. w - 1 /\ i \in 1 .. w
      BY <1>1, <2>2
    <3>. QED  BY <1>3, <2>2, <3>1 DEF Held
  <2>. QED  BY <2>1, <2>2
<1>7. Held(new, n, PlaceAfter(n, h), t) = Append(Held(s, n, h, t), c)
  BY ONLY <1>4, <1>5, <1>6
<1>8. IsLonger(longer, q, c)
  BY ONLY <1>7, q = Held(s, n, h, t), longer = Held(new, n, PlaceAfter(n, h), t), Zenon DEF IsLonger
<1>. QED  BY <1>1, <1>8, HeldType

\* And the tail behind its slot: the oldest is out.
LEMMA QueueTakes ==
  ASSUME NEW n \in Nat \ {0, 1}, NEW h \in 0 .. n - 1, NEW t \in 0 .. n - 1,
         NEW C, NEW s \in [0 .. n - 1 -> C], h # t
  PROVE  /\ Held(s, n, h, t) # << >> /\ Head(Held(s, n, h, t)) = s[t]
         /\ Held(s, n, h, PlaceAfter(n, t)) = Tail(Held(s, n, h, t))
<1>. DEFINE w == Waiting(n, h, t)
            q == Held(s, n, h, t)
<1>1. w \in Nat \ {0} /\ Waiting(n, h, PlaceAfter(n, t)) = w - 1
  BY DEF Waiting, PlaceAfter
<1>2. \A i \in 0 .. w - 2 : Place(n, PlaceAfter(n, t), i) = Place(n, t, i + 1)
  BY DEF Waiting, Place, PlaceAfter
<1>3. q \in Seq(C) /\ Len(q) = w
  BY HeldType
<1>4. q[1] = s[t]
  BY <1>1, WaitingFacts DEF Held
<1>5. \A i \in 1 .. w : q[i] = s[Place(n, t, i - 1)]
  BY DEF Held
<1>6. Held(s, n, h, PlaceAfter(n, t)) = [i \in 1 .. w - 1 |-> s[Place(n, PlaceAfter(n, t), i - 1)]]
  BY <1>1 DEF Held
<1>7. ASSUME NEW i \in 1 .. w - 1
      PROVE  s[Place(n, PlaceAfter(n, t), i - 1)] = q[i + 1]
  <2>1. i - 1 \in 0 .. w - 2 /\ (i - 1) + 1 = i /\ i + 1 \in 1 .. w /\ (i + 1) - 1 = i
    BY <1>1
  <2>. QED  BY <1>2, <1>5, <2>1
<1>. HIDE DEF q
<1>8. q # << >> /\ Head(q) = q[1]
  BY <1>1, <1>3
<1>9. Tail(q) = [i \in 1 .. w - 1 |-> q[i + 1]]
  <2>1. /\ Len(Tail(q)) = w - 1
        /\ Tail(q) \in [1 .. Len(Tail(q)) -> C]
        /\ \A i \in 1 .. Len(Tail(q)) : Tail(q)[i] = q[i + 1]
    BY <1>1, <1>3, <1>8, HeadTailProperties, LenProperties
  <2>. QED  BY <2>1
<1>. QED  BY <1>4, <1>6, <1>7, <1>8, <1>9 DEF q

-----------------------------------------------------------------------------
(* The console's port *)

RingOf(d) ==
  [slots : [0 .. Size[d] - 1 -> Char \union {Nul}], head : 0 .. Size[d] - 1, tail : 0 .. Size[d] - 1]

PortShape ==
  /\ ring = [d \in Directions |-> ring[d]]
  /\ \A d \in Directions : ring[d] \in RingOf(d)
  /\ complete \in BOOLEAN /\ started \in BOOLEAN
  /\ doing \in [at : Doing, char : Char \union {Nul}]

\* What the firmware has in hand is still what the queue asks for, or gives.
InHand ==
  /\ doing.at = "queueing" => doing.char \in Char
  /\ doing.at = "releasing" => ~IsEmpty("in") /\ doing.char = ring["in"].slots[ring["in"].tail]

\* TXCIF stands for both registers, or for one of them if they ran empty under the handler; and
\* what was never started has left nothing in them.
RegistersAreEmpty == data = Nul /\ shift = Nul

FlagsTellTheRegisters ==
  /\ complete => IF ranDry THEN Nul \in {data, shift} ELSE RegistersAreEmpty
  /\ ~started => RegistersAreEmpty
  /\ doing.at = "draining" => IsEmpty("out")

\* Between its two writes the handler has a character to write and a register to write it to;
\* whatever sets TXCIF then has left the shift register empty as well.
HandlerHoldsTheWire ==
  feeding =>
    /\ Powered /\ data = Nul /\ ~IsEmpty("out")
    /\ complete => ranDry
    /\ ranDry => shift = Nul

PortInv ==
  PortShape /\ InHand /\ FlagsTellTheRegisters /\ HandlerHoldsTheWire /\ OnlyTheLastIsCutOff

LEMMA SizeFacts ==
  /\ \A d \in Directions : Size[d] \in Nat \ {0, 1}
  /\ Size["out"] = TransmitSize /\ Size["in"] = ReceiveSize
  BY SerialPortAssumption DEF Size, Directions

LEMMA AfterFacts ==
  ASSUME NEW d \in Directions, NEW i \in 0 .. Size[d] - 1
  PROVE  After(d, i) = PlaceAfter(Size[d], i) /\ After(d, i) \in 0 .. Size[d] - 1
<1>1. Size[d] \in Nat \ {0, 1}
  BY SizeFacts
<1>2. (i + 1) % Size[d] = PlaceAfter(Size[d], i)
  BY <1>1, PlaceAfterIsModulo
<1>3. PlaceAfter(Size[d], i) \in 0 .. Size[d] - 1
  BY <1>1 DEF PlaceAfter
<1>. QED  BY <1>2, <1>3 DEF After

LEMMA RingFacts ==
  ASSUME PortShape, NEW d \in Directions
  PROVE  /\ ring[d].slots \in [0 .. Size[d] - 1 -> Char \union {Nul}]
         /\ ring[d].head \in 0 .. Size[d] - 1 /\ ring[d].tail \in 0 .. Size[d] - 1
         /\ Unread(d) = Held(ring[d].slots, Size[d], ring[d].head, ring[d].tail)
  BY DEF PortShape, RingOf, Unread, Count, At, Held, Waiting, Place

LEMMA UnreadIsHeld ==
  ASSUME NEW d \in Directions
  PROVE  /\ Unread(d) = Held(ring[d].slots, Size[d], ring[d].head, ring[d].tail)
         /\ Unread(d)' = Held(ring'[d].slots, Size[d], ring'[d].head, ring'[d].tail)
  BY DEF Unread, Count, At, Held, Waiting, Place

LEMMA RingPuts ==
  ASSUME PortShape, NEW d \in Directions, NEW c \in Char, HasRoom(d),
         ring' = [ring EXCEPT ![d] = [slots |-> [ring[d].slots EXCEPT ![ring[d].head] = c],
                                      head |-> After(d, ring[d].head), tail |-> ring[d].tail]]
  PROVE  /\ ring' = [e \in Directions |-> ring'[e]] /\ \A e \in Directions : ring'[e] \in RingOf(e)
         /\ Len(Unread(d)) < Size[d] - 1 /\ Unread(d)' = Append(Unread(d), c)
         /\ \A e \in Directions : e # d => ring'[e] = ring[e]
         /\ ~IsEmpty(d) => /\ ~IsEmpty(d)' /\ ring'[d].tail = ring[d].tail
                           /\ ring'[d].slots[ring[d].tail] = ring[d].slots[ring[d].tail]
<1>. DEFINE n == Size[d]
            r == ring[d]
<1>1. /\ n \in Nat \ {0, 1}
      /\ r.slots \in [0 .. n - 1 -> Char \union {Nul}] /\ r.head \in 0 .. n - 1 /\ r.tail \in 0 .. n - 1
  BY SizeFacts, RingFacts
<1>2. After(d, r.head) = PlaceAfter(n, r.head) /\ After(d, r.head) \in 0 .. n - 1
  BY <1>1, AfterFacts
<1>3. ring'[d] = [slots |-> [r.slots EXCEPT ![r.head] = c], head |-> After(d, r.head), tail |-> r.tail]
  BY DEF PortShape
<1>4. \A e \in Directions : e # d => ring'[e] = ring[e]
  BY DEF PortShape
<1>5. ring' = [e \in Directions |-> ring'[e]]
  BY DEF PortShape
<1>6. \A e \in Directions : ring'[e] \in RingOf(e)
  <2>1. ring'[d] \in RingOf(d)
    BY <1>1, <1>2, <1>3 DEF RingOf
  <2>. QED  BY <1>4, <2>1 DEF PortShape
<1>7. PlaceAfter(n, r.head) # r.tail
  BY <1>2 DEF HasRoom
<1>8. /\ Len(Held(r.slots, n, r.head, r.tail)) < n - 1
      /\ Held([r.slots EXCEPT ![r.head] = c], n, PlaceAfter(n, r.head), r.tail)
           = Append(Held(r.slots, n, r.head, r.tail), c)
  <2>. DEFINE C == Char \union {Nul}
  <2>1. /\ n \in Nat \ {0, 1} /\ r.head \in 0 .. n - 1 /\ r.tail \in 0 .. n - 1
        /\ r.slots \in [0 .. n - 1 -> C] /\ c \in C
    BY <1>1
  <2>. HIDE DEF r, n, C
  <2>2. PICK new : new = [r.slots EXCEPT ![r.head] = c]
    OBVIOUS
  <2>3. Len(Held(r.slots, n, r.head, r.tail)) < n - 1
    BY <1>7, <2>1, <2>2, QueuePuts
  <2>4. PICK q, longer : /\ q = Held(r.slots, n, r.head, r.tail)
                         /\ longer = Held(new, n, PlaceAfter(n, r.head), r.tail)
    OBVIOUS
  <2>5. IsLonger(longer, q, c)
    BY ONLY <1>7, <2>1, <2>2, <2>4, QueuePuts
  <2>. QED  BY <2>2, <2>3, <2>4, <2>5, Zenon DEF IsLonger
<1>9. Len(Unread(d)) < n - 1 /\ Unread(d)' = Append(Unread(d), c)
  BY <1>2, <1>3, <1>8, UnreadIsHeld
<1>10. ~IsEmpty(d) => /\ ~IsEmpty(d)' /\ ring'[d].tail = r.tail
                     /\ ring'[d].slots[r.tail] = r.slots[r.tail]
  <2>1. ring'[d].tail = r.tail /\ ring'[d].head # r.tail
    BY <1>2, <1>3, <1>7
  <2>2. r.head # r.tail => ring'[d].slots[r.tail] = r.slots[r.tail]
    BY <1>1, <1>3
  <2>. QED  BY <2>1, <2>2 DEF IsEmpty
<1>. QED  BY <1>4, <1>5, <1>6, <1>9, <1>10

LEMMA RingTakes ==
  ASSUME PortShape, NEW d \in Directions, ~IsEmpty(d),
         ring' = [ring EXCEPT ![d] = [slots |-> ring[d].slots,
                                      head |-> ring[d].head, tail |-> After(d, ring[d].tail)]]
  PROVE  /\ ring' = [e \in Directions |-> ring'[e]] /\ \A e \in Directions : ring'[e] \in RingOf(e)
         /\ Unread(d) # << >> /\ Head(Unread(d)) = ring[d].slots[ring[d].tail]
         /\ Unread(d)' = Tail(Unread(d))
         /\ \A e \in Directions : e # d => ring'[e] = ring[e]
<1>. DEFINE n == Size[d]
            r == ring[d]
<1>1. /\ n \in Nat \ {0, 1}
      /\ r.slots \in [0 .. n - 1 -> Char \union {Nul}] /\ r.head \in 0 .. n - 1 /\ r.tail \in 0 .. n - 1
      /\ r.head # r.tail
  BY SizeFacts, RingFacts DEF IsEmpty
<1>2. After(d, r.tail) = PlaceAfter(n, r.tail) /\ After(d, r.tail) \in 0 .. n - 1
  BY <1>1, AfterFacts
<1>3. ring'[d] = [slots |-> r.slots, head |-> r.head, tail |-> After(d, r.tail)]
  BY DEF PortShape
<1>4. \A e \in Directions : e # d => ring'[e] = ring[e]
  BY DEF PortShape
<1>5. ring' = [e \in Directions |-> ring'[e]]
  BY DEF PortShape
<1>6. \A e \in Directions : ring'[e] \in RingOf(e)
  <2>1. ring'[d] \in RingOf(d)
    BY <1>1, <1>2, <1>3 DEF RingOf
  <2>. QED  BY <1>4, <2>1 DEF PortShape
<1>7. /\ Held(r.slots, n, r.head, r.tail) # << >>
      /\ Head(Held(r.slots, n, r.head, r.tail)) = r.slots[r.tail]
      /\ Held(r.slots, n, r.head, PlaceAfter(n, r.tail)) = Tail(Held(r.slots, n, r.head, r.tail))
  <2>. HIDE DEF r, n
  <2>. QED  BY <1>1, QueueTakes
<1>8. /\ Unread(d) # << >> /\ Head(Unread(d)) = r.slots[r.tail]
      /\ Unread(d)' = Tail(Unread(d))
  BY <1>2, <1>3, <1>7, UnreadIsHeld
<1>. QED  BY <1>4, <1>5, <1>6, <1>8

LEMMA InitPort == SerialInit => PortInv
<1>. SUFFICES ASSUME SerialInit PROVE PortInv
  OBVIOUS
<1>1. \A d \in Directions : Size[d] \in Nat \ {0, 1}
  BY SizeFacts
<1>2. \A d \in Directions : ring[d] \in RingOf(d)
  BY <1>1 DEF SerialInit, RingOf
<1>3. PortShape
  BY <1>2 DEF SerialInit, PortShape, Doing
<1>. QED  BY <1>3 DEF SerialInit, PortInv, InHand, FlagsTellTheRegisters, RegistersAreEmpty,
      HandlerHoldsTheWire, Powered, OnlyTheLastIsCutOff

\* What is printed goes to the queue's end.
LEMMA QueueIsAPut ==
  ASSUME PortInv, Queue
  PROVE  PortInv' /\ Transmitted!Put(doing.char) /\ UNCHANGED << Unread("in"), got >>
<1>1. PortShape /\ doing.char \in Char /\ HasRoom("out")
  BY DEF PortInv, InHand, Queue
<1>2. ring' = [ring EXCEPT !["out"] = [slots |-> [ring["out"].slots EXCEPT ![ring["out"].head] = doing.char],
                                       head |-> After("out", ring["out"].head), tail |-> ring["out"].tail]]
  BY DEF Queue, Added
<1>3. "out" \in Directions /\ "in" \in Directions /\ Size["out"] = TransmitSize
  BY SizeFacts DEF Directions
<1>4. /\ ring' = [e \in Directions |-> ring'[e]] /\ \A e \in Directions : ring'[e] \in RingOf(e)
      /\ Len(Unread("out")) < TransmitSize - 1 /\ Unread("out")' = Append(Unread("out"), doing.char)
      /\ ring'["in"] = ring["in"]
  <2>. DEFINE c == doing.char
  <2>1. PICK k \in Char : k = doing.char
    BY <1>1
  <2>2. ring' = [ring EXCEPT !["out"] = [slots |-> [ring["out"].slots EXCEPT ![ring["out"].head] = k],
                                         head |-> After("out", ring["out"].head), tail |-> ring["out"].tail]]
    BY <1>2, <2>1
  <2>. QED  BY <1>1, <1>3, <2>1, <2>2, RingPuts
<1>5. doing' = [at |-> "arming", char |-> Nul]
  BY DEF Queue, Does
<1>6. PortShape'
  BY <1>1, <1>4, <1>5 DEF PortShape, Queue, Doing, usart
<1>7. PortInv'
  BY <1>5, <1>6 DEF PortInv, InHand, FlagsTellTheRegisters, RegistersAreEmpty,
      HandlerHoldsTheWire, Powered, OnlyTheLastIsCutOff, Queue, Runs, usart
<1>8. Unread("in")' = Unread("in")
  BY <1>3, <1>4, UnreadIsHeld
<1>. QED  BY <1>4, <1>7, <1>8 DEF Transmitted!Put, Queue, usart

\* The handler takes the oldest.
LEMMA FeedIsATake ==
  ASSUME PortInv, FeedWire
  PROVE  PortInv' /\ Transmitted!Take /\ UNCHANGED << Unread("in"), got >>
<1>1. PortShape /\ ~IsEmpty("out")
  BY DEF PortInv, HandlerHoldsTheWire, FeedWire
<1>2. ring' = [ring EXCEPT !["out"] = [slots |-> ring["out"].slots,
                                       head |-> ring["out"].head, tail |-> After("out", ring["out"].tail)]]
  BY <1>1 DEF FeedWire, PortShape, RingOf, Directions
<1>3. "out" \in Directions /\ "in" \in Directions
  BY DEF Directions
<1>4. /\ ring' = [e \in Directions |-> ring'[e]] /\ \A e \in Directions : ring'[e] \in RingOf(e)
      /\ Unread("out") # << >> /\ Head(Unread("out")) = ring["out"].slots[ring["out"].tail]
      /\ Unread("out")' = Tail(Unread("out"))
      /\ ring'["in"] = ring["in"]
  BY <1>1, <1>2, <1>3, RingTakes
<1>5. PortShape'
  BY <1>1, <1>4 DEF PortShape, FeedWire
<1>6. InHand'
  BY <1>4 DEF PortInv, InHand, IsEmpty, FeedWire
<1>7. FlagsTellTheRegisters' /\ HandlerHoldsTheWire' /\ OnlyTheLastIsCutOff'
  BY <1>1 DEF PortInv, FlagsTellTheRegisters, RegistersAreEmpty, HandlerHoldsTheWire,
              OnlyTheLastIsCutOff, FeedWire, Powered
<1>8. Unread("in")' = Unread("in")
  BY <1>3, <1>4, UnreadIsHeld
<1>. QED  BY <1>4, <1>5, <1>6, <1>7, <1>8 DEF Transmitted!Take, FeedWire, PortInv

\* What is received goes to the other queue's end, or is dropped.
LEMMA ReceiveIsAPut ==
  ASSUME PortInv, NEW c \in Char, Receive(c)
  PROVE  /\ PortInv'
         /\ Typed!Put(c) \/ UNCHANGED << Unread("in"), got >>
         /\ UNCHANGED << Unread("out"), sent >>
<1>. USE DEF Receive, Runs, usart
<1>1. PortShape
  BY DEF PortInv
<1>2. CASE ~HasRoom("in")
  <2>1. ring' = ring
    BY <1>2
  <2>. QED
    BY <2>1 DEF PortInv, PortShape, InHand, FlagsTellTheRegisters, RegistersAreEmpty,
      HandlerHoldsTheWire, Powered, OnlyTheLastIsCutOff,
                IsEmpty, Unread, Count, At
<1>3. CASE HasRoom("in")
  <2>1. ring' = [ring EXCEPT !["in"] = [slots |-> [ring["in"].slots EXCEPT ![ring["in"].head] = c],
                                        head |-> After("in", ring["in"].head), tail |-> ring["in"].tail]]
    BY <1>3 DEF Receive, Added
  <2>2. "out" \in Directions /\ "in" \in Directions /\ Size["in"] = ReceiveSize
    BY SizeFacts DEF Directions
  <2>3. /\ ring' = [e \in Directions |-> ring'[e]] /\ \A e \in Directions : ring'[e] \in RingOf(e)
        /\ Len(Unread("in")) < ReceiveSize - 1 /\ Unread("in")' = Append(Unread("in"), c)
        /\ ring'["out"] = ring["out"]
        /\ ~IsEmpty("in") => /\ ~IsEmpty("in")' /\ ring'["in"].tail = ring["in"].tail
                             /\ ring'["in"].slots[ring["in"].tail] = ring["in"].slots[ring["in"].tail]
    BY <1>1, <1>3, <2>1, <2>2, RingPuts
  <2>4. PortShape'
    BY <1>1, <2>3 DEF PortShape
  <2>5. InHand'
    BY <2>3 DEF PortInv, InHand
  <2>6. FlagsTellTheRegisters' /\ HandlerHoldsTheWire' /\ OnlyTheLastIsCutOff'
    BY <2>3 DEF PortInv, FlagsTellTheRegisters, RegistersAreEmpty,
      HandlerHoldsTheWire, Powered, OnlyTheLastIsCutOff, IsEmpty
  <2>7. Unread("out")' = Unread("out")
    BY <2>2, <2>3, UnreadIsHeld
  <2>. QED  BY <2>3, <2>4, <2>5, <2>6, <2>7 DEF Typed!Put, PortInv
<1>. QED  BY <1>2, <1>3

\* read() hands out the oldest.
LEMMA ReleaseIsATake ==
  ASSUME PortInv, Release
  PROVE  PortInv' /\ Typed!Take /\ UNCHANGED << Unread("out"), sent >>
<1>1. PortShape /\ ~IsEmpty("in") /\ doing.char = ring["in"].slots[ring["in"].tail]
  BY DEF PortInv, InHand, Release
<1>2. ring' = [ring EXCEPT !["in"] = [slots |-> ring["in"].slots,
                                      head |-> ring["in"].head, tail |-> After("in", ring["in"].tail)]]
  BY <1>1 DEF Release, PortShape, RingOf, Directions
<1>3. "out" \in Directions /\ "in" \in Directions
  BY DEF Directions
<1>4. /\ ring' = [e \in Directions |-> ring'[e]] /\ \A e \in Directions : ring'[e] \in RingOf(e)
      /\ Unread("in") # << >> /\ Head(Unread("in")) = ring["in"].slots[ring["in"].tail]
      /\ Unread("in")' = Tail(Unread("in"))
      /\ ring'["out"] = ring["out"]
  BY <1>1, <1>2, <1>3, RingTakes
<1>5. doing' = [at |-> "tick", char |-> Nul]
  BY DEF Release, Does
<1>6. PortShape'
  BY <1>1, <1>4, <1>5 DEF PortShape, Release, Doing, usart
<1>7. InHand' /\ FlagsTellTheRegisters' /\ HandlerHoldsTheWire' /\ OnlyTheLastIsCutOff'
  BY <1>4, <1>5 DEF PortInv, InHand, FlagsTellTheRegisters, RegistersAreEmpty,
      HandlerHoldsTheWire, Powered, 
      OnlyTheLastIsCutOff, Release, IsEmpty, Runs, usart
<1>8. Unread("out")' = Unread("out")
  BY <1>3, <1>4, UnreadIsHeld
<1>. QED  BY <1>1, <1>4, <1>6, <1>7, <1>8 DEF Typed!Take, Release, PortInv

\* Every other step leaves both queues alone.
OtherSteps ==
  \/ Arm \/ Read \/ RestartPending \/ Emptied \/ Drained
  \/ ClearComplete \/ Disarm \/ Load \/ ShiftOut \/ Stopped

LEMMA OthersKeepThePort ==
  ASSUME PortInv, OtherSteps \/ (\E c \in Char : PrintChar(c)) \/ UNCHANGED serialVars
  PROVE  PortInv' /\ UNCHANGED << ring, sent, got >>
<1>. USE DEF PortInv, InHand, FlagsTellTheRegisters, RegistersAreEmpty,
      HandlerHoldsTheWire, Powered, OnlyTheLastIsCutOff, IsEmpty, PortShape,
             Doing, Runs, usart
<1>1. ASSUME NEW c \in Char, PrintChar(c)  PROVE PortInv' /\ UNCHANGED << ring, sent, got >>
  BY <1>1 DEF PrintChar
<1>2. CASE Arm
  BY <1>2 DEF Arm, Does
<1>3. CASE Read
  <2>1. doing'.char \in Char \union {Nul}
    BY <1>3, RingFacts DEF Read, Directions
  <2>. QED  BY <1>3, <2>1 DEF Read
<1>4. CASE RestartPending
  BY <1>4 DEF RestartPending, Does
<1>5. CASE Emptied
  BY <1>5 DEF Emptied, Does
<1>6. CASE Drained
  BY <1>6 DEF Drained, Does
<1>11. CASE ClearComplete
  BY <1>11 DEF ClearComplete
<1>7. CASE Disarm
  BY <1>7 DEF Disarm
<1>8. CASE Load
  BY <1>8 DEF Load
<1>9. CASE ShiftOut
  BY <1>9 DEF ShiftOut
<1>10. CASE Stopped \/ UNCHANGED serialVars
  BY <1>10 DEF Stopped, serialVars
<1>. QED
  BY <1>1, <1>2, <1>3, <1>4, <1>5, <1>6, <1>7, <1>8, <1>9, <1>10, <1>11
  DEF OtherSteps

LEMMA StepKeepsThePort ==
  ASSUME PortInv, [SerialNext]_serialVars
  PROVE  /\ PortInv'
         /\ [Transmitted!InboxNext]_Transmitted!inboxVars
         /\ [Typed!InboxNext]_Typed!inboxVars
<1>. USE DEF Transmitted!InboxNext, Transmitted!inboxVars, Typed!InboxNext, Typed!inboxVars
<1>1. CASE Queue
  <2>1. doing.char \in Char /\ UNCHANGED sent
    BY <1>1 DEF PortInv, InHand, Queue
  <2>. QED  BY <1>1, <2>1, QueueIsAPut
<1>2. CASE FeedWire
  BY <1>2, FeedIsATake
<1>3. ASSUME NEW c \in Char, Receive(c)
      PROVE  /\ PortInv'
             /\ [Transmitted!InboxNext]_Transmitted!inboxVars
             /\ [Typed!InboxNext]_Typed!inboxVars
  BY <1>3, ReceiveIsAPut
<1>4. CASE Release
  BY <1>4, ReleaseIsATake
<1>5. CASE OtherSteps \/ (\E c \in Char : PrintChar(c)) \/ UNCHANGED serialVars
  <2>1. PortInv' /\ UNCHANGED << ring, sent, got >>
    BY <1>5, OthersKeepThePort
  <2>2. UNCHANGED << Unread("out"), Unread("in") >>
    BY <2>1 DEF Unread, Count, At
  <2>. QED  BY <2>1, <2>2
<1>. QED
  BY <1>1, <1>2, <1>3, <1>4, <1>5 DEF SerialNext, Firmware, Wire, OtherSteps

LEMMA InitIsEmpty == SerialInit => Transmitted!InboxInit /\ Typed!InboxInit
<1>. SUFFICES ASSUME SerialInit PROVE Transmitted!InboxInit /\ Typed!InboxInit
  OBVIOUS
<1>1. \A d \in Directions : Len(Unread(d)) = 0 /\ Unread(d) \in Seq(Char \union {Nul})
  <2>. SUFFICES ASSUME NEW d \in Directions PROVE Len(Unread(d)) = 0 /\ Unread(d) \in Seq(Char \union {Nul})
    OBVIOUS
  <2>1. PortShape
    BY InitPort DEF PortInv
  <2>2. ring[d].head = 0 /\ ring[d].tail = 0 /\ Size[d] \in Nat \ {0, 1}
    BY SizeFacts DEF SerialInit
  <2>3. Waiting(Size[d], 0, 0) = 0
    BY <2>2 DEF Waiting
  <2>. QED  BY <2>1, <2>2, <2>3, RingFacts, HeldType
<1>2. Unread("out") = << >> /\ Unread("in") = << >>
  <2>1. \A u \in Seq(Char \union {Nul}) : u # << >> => Len(u) # 0
    BY EmptySeq
  <2>. QED  BY <1>1, <2>1, Zenon DEF Directions
<1>. QED  BY <1>2 DEF SerialInit, Transmitted!InboxInit, Typed!InboxInit

\* Every step is one of the inboxes of what is printed and what is typed, or neither's.
LEMMA PortLosesNothing == SerialInit /\ [][SerialNext]_serialVars => ConsoleLosesNothing
<1>1. SerialInit => PortInv /\ Transmitted!InboxInit /\ Typed!InboxInit
  BY InitPort, InitIsEmpty
<1>2. PortInv /\ [SerialNext]_serialVars
        => PortInv' /\ [Transmitted!InboxNext]_Transmitted!inboxVars /\ [Typed!InboxNext]_Typed!inboxVars
  BY StepKeepsThePort
<1>3. PortInv => OnlyTheLastIsCutOff
  BY DEF PortInv
<1>. QED
  BY <1>1, <1>2, <1>3, PTL
     DEF ConsoleLosesNothing, QueuesKeepTheInbox, Transmitted!InboxSpec, Typed!InboxSpec

-----------------------------------------------------------------------------
(* The peripherals together *)

LEMMA EachKeepsToItsOwn ==
  ASSUME [PeripheralsNext]_peripheralVars
  PROVE  [Next]_vars /\ [StripNext]_stripVars /\ [SerialNext]_serialVars
<1>1. CASE OnSupply(Next)
  BY <1>1 DEF OnSupply
<1>2. CASE OnStrip(StripNext)
  BY <1>2 DEF OnStrip
<1>3. CASE OnSerial(SerialNext)
  BY <1>3 DEF OnSerial
<1>4. CASE UNCHANGED peripheralVars
  BY <1>4 DEF peripheralVars
<1>. QED  BY <1>1, <1>2, <1>3, <1>4 DEF PeripheralsNext

\* What runs beside it leaves the supply as proved above: with nothing owed the LEDs hold the
\* buffer, a night is undone by the day, and every step is one of the rail's contract
\* (Power::Task(), NightSwitch::Task(), Pixels::Render()).
THEOREM SupplyBesideTheOthers ==
  PeripheralsSpec => []StripShowsTheBuffer /\ []NightLeavesNothing /\ KeepsTheRailContract
<1>1. PeripheralsInit => Init
  BY DEF PeripheralsInit
<1>2. [PeripheralsNext]_peripheralVars => [Next]_vars
  BY EachKeepsToItsOwn
<1>3. PeripheralsSpec => Spec
  BY <1>1, <1>2, PTL DEF PeripheralsSpec, Spec
<1>. QED  BY <1>3, StripIsTheBuffer, NightIsUndone, ImplementsRail, PTL

\* Whatever is drawn and whenever, every frame the strip latches is one whole picture, the
\* newest picture is on its way as long as the buffer is not marked, and a dead line is quiet
\* (WS2812::Tick(), SuspendOutput(), USART0_TXC_vect).
THEOREM PicturesAlwaysArrive == PeripheralsSpec => []PicturesArrive
<1>1. PeripheralsInit => FrameInv
  BY InitFrame DEF PeripheralsInit
<1>2. FrameInv /\ [PeripheralsNext]_peripheralVars => FrameInv'
  BY EachKeepsToItsOwn, StepKeepsTheFrame
<1>. QED  BY <1>1, <1>2, FrameMeansPictures, PTL DEF PeripheralsSpec

\* The console port delivers what was printed and what was typed, in order and nothing twice,
\* as long as a queue has room; and a restart waits for the last character, unless TXCIF was set
\* between the two writes that handed that one over (write(), read(), flush(), USART1_DRE_vect,
\* USART1_RXC_vect).
THEOREM PortAlwaysDelivers == PeripheralsSpec => ConsoleLosesNothing
<1>1. PeripheralsInit => SerialInit
  BY DEF PeripheralsInit
<1>2. [PeripheralsNext]_peripheralVars => [SerialNext]_serialVars
  BY EachKeepsToItsOwn
<1>. QED  BY <1>1, <1>2, PortLosesNothing, PTL DEF PeripheralsSpec
=============================================================================
