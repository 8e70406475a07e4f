----------------------------- MODULE ChipClock -----------------------------
(***************************************************************************)
(* The time of either kind of clock: one with a system clock of its own    *)
(* beside the DS3231, which is RealTimeClock's, or the AVR, which has      *)
(* nothing but the chip.  There the time shown stands still between two    *)
(* reads, the chip keeps local time, and its registers are written by a    *)
(* bus that may give a transfer up between any two of its bytes.           *)
(***************************************************************************)
EXTENDS RealTimeClock

VARIABLES
  platform,  \* which of the two the clock is
  age        \* of the AVR: how long ago the time shown was read or set

clockVars == << vars, platform, age >>

Never == -1  \* neither read nor set since the start

-----------------------------------------------------------------------------
(* Twi and the DS3231 on it. *)

\* Twi::Read() of the seven registers: all of them, or the transfer was given up.
ReadRegisters(registers) == {registers, Nothing}

\* HasOscillatorStopped(): a status that cannot be read counts as one that says so.
HasOscillatorStopped(c) == {c.stopped, TRUE}

\* GetDateTime(): the time, or Nothing.
GetDateTime(c) ==
  UNION {IF stopped THEN {Nothing} ELSE ReadRegisters(c.time) : stopped \in HasOscillatorStopped(c)}

\* WriteRegisters() over Twi::Write(), which may give up between any two bytes: the registers
\* it leaves, and whether all of them count as written.
WriteRegisters(old, new) ==
  {[time |-> new, done |-> TRUE]} \union {[time |-> t, done |-> FALSE] : t \in PartlyWritten(old, new)}

\* ClearOscillatorStopped(): read, changed and written back, unless a transfer fails.
ClearOscillatorStopped(stopped) == {stopped, FALSE}

\* DS3231::SetDateTime(): the mark is cleared only over registers that are all written.
WriteChip(c, local) ==
  UNION {{[chip |-> [time |-> w.time, stopped |-> stopped], done |-> w.done] :
            stopped \in IF w.done THEN ClearOscillatorStopped(c.stopped) ELSE {c.stopped}} :
         w \in WriteRegisters(c.time, local)}

-----------------------------------------------------------------------------
(* RealTimeClock of the AVR. *)

Aged(units) == IF age = Never THEN Never ELSE (age + units) % Calendar

\* Task(): counts down, and reads the chip when it is through; what the chip refuses is
\* left alone.
AvrTask(units) ==
  /\ readCountdown' = CountedDown
  /\ chip' = Counting(units)
  /\ meant' = Later(meant, units)
  /\ kept' = Later(kept, units)
  /\ \/ /\ readCountdown > 0
        /\ age' = Aged(units)
        /\ UNCHANGED dateTime
     \/ /\ readCountdown = 0
        /\ \E read \in GetDateTime(chip') :
             /\ dateTime' = IF read = Nothing THEN dateTime ELSE read
             /\ age' = IF read = Nothing THEN Aged(units) ELSE 0
  /\ UNCHANGED << system, hourWritten, events >>

\* Gives the chip what the clock showed before.
AvrSetDateTime_WritesFirst(local) ==
  \E written \in WriteChip(chip, dateTime) :
    /\ chip' = written.chip
    /\ kept' = (IF written.done THEN local ELSE IF chip' = chip THEN kept ELSE Nothing)
    /\ dateTime' = local
    /\ readCountdown' = ReadInterval

\* SetDateTime(), SetTime() and SetDate(): kept at once and written to the chip, whose
\* answer is dropped; the next read waits a whole interval.
AvrSetDateTime(local) ==
  \E written \in WriteChip(chip, local) :
    /\ chip' = written.chip
    /\ kept' = (IF written.done THEN local ELSE IF chip' = chip THEN kept ELSE Nothing)
    /\ dateTime' = local
    /\ readCountdown' = ReadInterval

AvrSetBy(local) ==
  /\ Counts
  /\ AvrSetDateTime(local)
  /\ meant' = local
  /\ age' = 0
  /\ UNCHANGED << system, hourWritten >>

\* TIME and DATE, as on the other platforms; without an option they set what is shown.
AvrSetTime == \E timeOfDay \in 0 .. DayLength - 1 :
  AvrSetBy((dateTime \div DayLength) * DayLength + timeOfDay)

AvrSetDate == \E day \in 0 .. Days - 1 :
  AvrSetBy(day * DayLength + (dateTime % DayLength))

AvrPowerCut == PowerCut /\ age' = Never

AvrTick == \E units \in {0, 1} : AvrTask(units)

AvrNext == AvrTick \/ AvrSetTime \/ AvrSetDate \/ AvrPowerCut

-----------------------------------------------------------------------------

On(name, action) == platform = name /\ action /\ UNCHANGED platform

OnSystemClock(action) == On("SystemClock", action /\ UNCHANGED age)

ClockInit ==
  /\ Init
  /\ platform \in {"SystemClock", "AVR-Dx"}
  /\ age = Never

ClockNext == OnSystemClock(Next) \/ On("AVR-Dx", AvrNext)

\* The loops run and time passes; a transfer does not fail every time it is tried.
ClockSpec ==
  /\ ClockInit
  /\ [][ClockNext]_clockVars
  /\ WF_clockVars(OnSystemClock(Task(1)))
  /\ SF_clockVars(OnSystemClock(TaskReads(0) \/ TaskReads(1)))
  /\ SF_clockVars(OnSystemClock((TaskWrites(0) \/ TaskWrites(1)) /\ chip'.time = system' /\ ~chip'.stopped))
  /\ WF_clockVars(On("AVR-Dx", AvrTask(1)))
  /\ SF_clockVars(On("AVR-Dx", AvrTick /\ readCountdown = 0 /\ age' = 0))

-----------------------------------------------------------------------------
(* Properties *)

\* Either clock shows the time it was given, by hand or by the chip.  The AVR shows it as of
\* when it last read or set it, if the chip has taken what it was given last: over every
\* transfer given up between two bytes, whatever the chip told before
\* (RealTimeClock::Task(), ReadChip(), WriteChip()).
ShowsTheTimeItWasGiven ==
  IF platform = "AVR-Dx"
    THEN age # Never /\ kept # Nothing /\ kept = meant => Later(dateTime, age) = meant
    ELSE TellsTheTimeItWasGiven

HasTheTime == IF platform = "AVR-Dx" THEN age # Never ELSE system # Unset

\* A chip that can be believed gives a clock that has just started its time back, though it
\* may not answer at first (ReadChip() and its countdown).
TimeComesBack == (~HasTheTime /\ ~chip.stopped) ~> (HasTheTime \/ chip.stopped)
=============================================================================
