----------------------------- MODULE Time_proofs -----------------------------
(***************************************************************************)
(* What the clocks and the calendar promise: the time that is told is the  *)
(* time that was given, and what the firmware makes of a date and a time   *)
(* of day is what there is to tell.                                        *)
(***************************************************************************)
EXTENDS ChipClock, Almanac, TLAPS

(***************************************************************************)
(* For any calendar, any zone rule, any outage and any run of transfers    *)
(* that fail, wherever they were given up: the clock tells what it was last*)
(* told.  The argument is that a chip that can be believed holds the last  *)
(* time its registers were given, unless a write left half of it there, and*)
(* that an empty system clock is meant to tell just that.                  *)
(***************************************************************************)

\* The two clocks and the ghost times are times of the calendar, or none.
TimesOK ==
  /\ system \in Times \union {Unset}
  /\ chip \in [time: Times, stopped: BOOLEAN]
  /\ dateTime \in Times
  /\ kept \in Times \union {Nothing}
  /\ meant \in Times \union {Nothing}

\* What a chip that can be believed tells is the last time it was given, if it was given a
\* whole one.
ChipTellsWhatItWasGiven == IsBelievable(chip) /\ kept # Nothing => kept = chip.time

\* Nobody means an empty clock to tell anything but what the chip was given.
EmptyClockWaitsForTheChip == system = Unset => meant = kept

IInv ==
  /\ TimesOK
  /\ TellsTheTimeItWasGiven
  /\ ChipTellsWhatItWasGiven
  /\ EmptyClockWaitsForTheChip

-----------------------------------------------------------------------------
(* Lemmas about the calendar *)

\* The calendar has a last unit.
LEMMA CalendarIsFinite == Calendar \in Nat \ {0}
<1>1. DayLength \in Nat \ {0}
  BY RealTimeClockAssumption DEF DayLength
<1>. QED  BY <1>1, RealTimeClockAssumption DEF Calendar

\* A number reduced to the calendar is a time of it, so never one that is unset.
LEMMA ReducedIsATime ==
  ASSUME NEW n \in Int
  PROVE  n % Calendar \in Times
<1>. DEFINE C == Calendar
<1>1. C \in Nat \ {0}
  BY CalendarIsFinite
<1>. HIDE DEF C
<1>2. n % C \in 0 .. C - 1
  BY <1>1
<1>. QED  BY <1>2 DEF C, Times

\* A time that runs on stays a time.
LEMMA LaterIsATime ==
  ASSUME NEW t \in Times, NEW units \in Int
  PROVE  Later(t, units) \in Times
<1>1. t \in Int /\ t # Unset
  BY CalendarIsFinite DEF Times, Unset
<1>2. t + units \in Int
  BY <1>1
<1>. QED  BY <1>1, <1>2, ReducedIsATime DEF Later

\* The zone rule moves a time by whole units.
LEMMA ZoneIsWhole ==
  ASSUME NEW hours \in {WinterHours, SummerHours}
  PROVE  UnitsPerHour * hours \in Int
BY RealTimeClockAssumption

\* What is shown of a time is a time.
LEMMA LocalTimeIsATime ==
  ASSUME NEW t \in Times
  PROVE  LocalTime(t) \in Times
<1>1. HoursAhead(t) \in {WinterHours, SummerHours}
  BY DEF HoursAhead
<1>. QED  BY <1>1, ZoneIsWhole, LaterIsATime DEF LocalTime

\* Whatever a hand asks for, the system clock gets a time.
LEMMA MktimeGivesATime ==
  ASSUME NEW local \in Times
  PROVE  Mktime[local] \subseteq Times
<1>. DEFINE toldSo == {t \in Times : LocalTime(t) = local}
            folded == {(local - UnitsPerHour * hours) % Calendar : hours \in {WinterHours, SummerHours}}
<1>1. Mktime[local] = IF toldSo # {} THEN toldSo ELSE folded
  BY DEF Mktime
<1>2. folded \subseteq Times
  <2>. SUFFICES ASSUME NEW hours \in {WinterHours, SummerHours}
                PROVE  (local - UnitsPerHour * hours) % Calendar \in Times
    OBVIOUS
  <2>1. local \in Int
    BY CalendarIsFinite DEF Times
  <2>2. local - UnitsPerHour * hours \in Int
    BY <2>1, ZoneIsWhole
  <2>. QED  BY <2>2, ReducedIsATime
<1>. QED  BY <1>1, <1>2

\* A time is none of the marks.
LEMMA TimesAreNoMarks == Unset \notin Times /\ Times \subseteq 0 .. Calendar /\ 0 \in Times
BY CalendarIsFinite DEF Times, Unset

\* Neither does a mark become a time nor a time a mark while the clocks run.
LEMMA LaterKeepsMarks ==
  ASSUME NEW t \in Times \union {Nothing}, NEW units \in Int
  PROVE  /\ Later(t, units) \in Times \union {Nothing}
         /\ Later(t, units) = Nothing <=> t = Nothing
<1>1. Nothing = Unset /\ Nothing \notin Times
  BY TimesAreNoMarks DEF Nothing, Unset
<1>2. CASE t = Nothing
  BY <1>1, <1>2 DEF Later
<1>3. CASE t \in Times
  BY <1>1, <1>3, LaterIsATime
<1>. QED  BY <1>2, <1>3

\* A day has its units, and they are all of the calendar.
LEMMA DaysAreTimes ==
  ASSUME NEW day \in 0 .. Days - 1, NEW timeOfDay \in 0 .. DayLength - 1
  PROVE  day * DayLength + timeOfDay \in Times
<1>. DEFINE L == DayLength
<1>1. L \in Nat \ {0} /\ Days \in Nat \ {0}
  BY RealTimeClockAssumption DEF DayLength
<1>2. Calendar = L * Days
  BY DEF Calendar
<1>. HIDE DEF L
<1>3. day \in Nat /\ day + 1 <= Days
  BY <1>1
<1>4. (day + 1) * L <= Days * L /\ (day + 1) * L = day * L + L /\ Days * L = L * Days
  BY <1>1, <1>3
<1>5. timeOfDay \in 0 .. L - 1
  BY DEF L
<1>6. day * L \in Nat
  BY <1>1, <1>3
<1>7. day * L + timeOfDay \in 0 .. L * Days - 1
  BY <1>1, <1>4, <1>5, <1>6
<1>. QED  BY <1>2, <1>7 DEF Times, L

\* The date and the time of day a time is made of.
LEMMA PartsOfATime ==
  ASSUME NEW t \in Times
  PROVE  /\ t \div DayLength \in 0 .. Days - 1
         /\ t % DayLength \in 0 .. DayLength - 1
<1>. DEFINE L == DayLength
<1>1. L \in Nat \ {0} /\ Days \in Nat \ {0}
  BY RealTimeClockAssumption DEF DayLength
<1>2. t \in Nat /\ t < L * Days
  BY <1>1 DEF Times, Calendar, L
<1>. HIDE DEF L
<1>3. t % L \in 0 .. L - 1 /\ t \div L \in Nat
  BY <1>1, <1>2
<1>4. t \div L < Days
  BY <1>1, <1>2
<1>. QED  BY <1>3, <1>4, <1>1 DEF L

\* Half a time and half another are a time of the calendar, wherever the transfer stopped.
LEMMA DayAndTimeAreATime ==
  ASSUME NEW s \in Times, NEW t \in Times
  PROVE  /\ (s \div DayLength) * DayLength + (t % DayLength) \in Times
         /\ (s \div UnitsPerHour) * UnitsPerHour + (t % UnitsPerHour) \in Times
<1>1. (s \div DayLength) * DayLength + (t % DayLength) \in Times
  BY PartsOfATime, DaysAreTimes
<1>2. (s \div UnitsPerHour) * UnitsPerHour + (t % UnitsPerHour) \in Times
  <2>. DEFINE U == UnitsPerHour
              H == HoursPerDay * Days
              h == s \div U
  <2>1. U \in Nat \ {0} /\ H \in Nat \ {0}
    BY RealTimeClockAssumption
  <2>2. Calendar = U * H
    <3>1. UnitsPerHour \in Int /\ HoursPerDay \in Int /\ Days \in Int
      BY RealTimeClockAssumption
    <3>. QED  BY <3>1 DEF Calendar, DayLength
  <2>. HIDE DEF U, H
  <2>3. s \in Nat /\ s < U * H /\ t \in Nat
    BY <2>1, <2>2, CalendarIsFinite DEF Times
  <2>4. h \in Nat /\ t % U \in 0 .. U - 1 /\ h < H
    BY <2>1, <2>3
  <2>. HIDE DEF h
  <2>5. (h + 1) * U <= H * U /\ (h + 1) * U = h * U + U /\ H * U = U * H /\ h * U \in Nat
    BY <2>1, <2>4
  <2>6. h * U + (t % U) \in 0 .. U * H - 1
    BY <2>1, <2>4, <2>5
  <2>. QED  BY <2>2, <2>6 DEF Times, h, U
<1>. QED  BY <1>1, <1>2

LEMMA PartlyWrittenIsATime ==
  ASSUME NEW old \in Times, NEW new \in Times
  PROVE  PartlyWritten(old, new) \subseteq Times
BY DayAndTimeAreATime DEF PartlyWritten

\* The chip counts on, and with it what it was given.
LEMMA ChipCountsOn ==
  ASSUME TimesOK, ChipTellsWhatItWasGiven, NEW units \in Int
  PROVE  /\ Counting(units) \in [time: Times, stopped: BOOLEAN]
         /\ Counting(units).stopped = chip.stopped
         /\ Counting(units).time = Later(chip.time, units)
         /\ Later(kept, units) \in Times \union {Nothing}
         /\ Later(meant, units) \in Times \union {Nothing}
         /\ Later(kept, units) # Nothing => kept # Nothing
         /\ Later(meant, units) # Nothing => meant # Nothing
         /\ IsBelievable(chip) /\ kept # Nothing => Counting(units).time = Later(kept, units)
<1>1. Later(chip.time, units) \in Times
  BY LaterIsATime DEF TimesOK
<1>2. kept \in Times \union {Nothing} /\ meant \in Times \union {Nothing}
  BY DEF TimesOK
<1>3. /\ Later(kept, units) \in Times \union {Nothing}
      /\ Later(meant, units) \in Times \union {Nothing}
      /\ Later(kept, units) # Nothing => kept # Nothing
      /\ Later(meant, units) # Nothing => meant # Nothing
  BY ONLY <1>2, LaterKeepsMarks, units \in Int, Zenon
<1>. QED  BY <1>1, <1>3 DEF Counting, TimesOK, ChipTellsWhatItWasGiven, IsBelievable

-----------------------------------------------------------------------------
(* The invariant *)

\* A clock that starts has an empty system clock.
LEMMA InitInvariant == Init => IInv
<1>. SUFFICES ASSUME Init PROVE IInv
  OBVIOUS
<1>1. 0 \in Times
  BY CalendarIsFinite DEF Times
<1>. QED  BY <1>1 DEF Init, IInv, TimesOK, TellsTheTimeItWasGiven, ChipTellsWhatItWasGiven,
                      EmptyClockWaitsForTheChip, IsBelievable

\* A write leaves in the chip what it was given, or counts as nothing given.
LEMMA WriteKeepsTheChip ==
  ASSUME TimesOK, ChipTellsWhatItWasGiven, NEW units \in Int, NEW utc \in Times,
         Writes(utc, units), meant' \in {utc, Nothing}
  PROVE  /\ ChipTellsWhatItWasGiven' /\ chip' \in [time: Times, stopped: BOOLEAN]
         /\ kept' \in Times \union {Nothing}
<1>. DEFINE c == Counting(units)
<1>1. PICK written \in ChipAfterWrite(c, utc) :
        /\ chip' = written
        /\ kept' = IF written.time = utc THEN meant'
                   ELSE IF written = c THEN Later(kept, units) ELSE Nothing
  BY DEF Writes
<1>2. c \in [time: Times, stopped: BOOLEAN] /\ c.stopped = chip.stopped
  BY ChipCountsOn
<1>3. /\ Later(kept, units) \in Times \union {Nothing}
      /\ Later(kept, units) # Nothing => kept # Nothing
      /\ IsBelievable(chip) /\ kept # Nothing => c.time = Later(kept, units)
  BY ChipCountsOn
<1>. HIDE DEF c
<1>4. written \in [time: Times, stopped: BOOLEAN]
  <2>1. PartlyWritten(c.time, utc) \subseteq Times
    BY <1>2, PartlyWrittenIsATime
  <2>2. written = [time |-> utc, stopped |-> FALSE]
          \/ \E t \in PartlyWritten(c.time, utc) : written = [c EXCEPT !.time = t]
    BY <1>1 DEF ChipAfterWrite
  <2>3. CASE written = [time |-> utc, stopped |-> FALSE]
    BY <2>3
  <2>4. ASSUME NEW t \in PartlyWritten(c.time, utc), written = [c EXCEPT !.time = t]
        PROVE  written \in [time: Times, stopped: BOOLEAN]
    <3>1. t \in Times
      BY <2>1
    <3>. QED  BY <1>2, <2>4, <3>1
  <2>. QED  BY <2>2, <2>3, <2>4
<1>5. CASE written.time = utc
  <2>1. kept' = meant'
    BY <1>1, <1>5
  <2>. QED  BY <1>1, <1>4, <1>5, <2>1 DEF ChipTellsWhatItWasGiven, IsBelievable
<1>6. CASE written.time # utc /\ written = c
  <2>1. kept' = Later(kept, units) /\ chip' = c
    BY <1>1, <1>6
  <2>. QED  BY <1>2, <1>3, <2>1 DEF ChipTellsWhatItWasGiven, IsBelievable
<1>7. CASE written.time # utc /\ written # c
  <2>1. kept' = Nothing
    BY <1>1, <1>7
  <2>. QED  BY <1>1, <1>4, <2>1 DEF ChipTellsWhatItWasGiven
<1>. QED  BY <1>5, <1>6, <1>7

\* A task keeps the invariant.
LEMMA TaskInvariant ==
  ASSUME IInv, NEW units \in {0, 1}, Task(units)
  PROVE  IInv'
<1>. USE DEF IInv
<1>0. units \in Int
  OBVIOUS
<1>1. /\ meant' = Later(meant, units) /\ meant' \in Times \union {Nothing}
      /\ meant' # Nothing => meant # Nothing
  <2>1. meant' = Later(meant, units)
    BY DEF Task, TaskKeepsHour, TaskWrites, TaskWaits, TaskReads
  <2>. QED  BY <1>0, <2>1, ChipCountsOn
<1>2. system # Unset => system \in Times /\ Later(system, units) \in Times /\ LocalTime(Later(system, units)) \in Times
  BY <1>0, LaterIsATime, LocalTimeIsATime DEF TimesOK
<1>3. ASSUME system # Unset, system' = Later(system, units)
      PROVE  system' # Unset /\ (meant' # Nothing => system' = meant')
  BY <1>1, <1>2, <1>3, TimesAreNoMarks DEF TellsTheTimeItWasGiven
<1>4. ASSUME chip' = Counting(units), kept' = Later(kept, units)
      PROVE  /\ ChipTellsWhatItWasGiven' /\ chip' \in [time: Times, stopped: BOOLEAN]
             /\ kept' \in Times \union {Nothing}
  BY <1>0, <1>4, ChipCountsOn DEF ChipTellsWhatItWasGiven, IsBelievable
<1>5. CASE TaskKeepsHour(units)
  <2>1. /\ system # Unset /\ system' = Later(system, units) /\ dateTime' = LocalTime(Later(system, units))
        /\ chip' = Counting(units) /\ kept' = Later(kept, units)
    BY <1>5 DEF TaskKeepsHour
  <2>. QED  BY <1>1, <1>2, <1>3, <1>4, <2>1 DEF TimesOK, TellsTheTimeItWasGiven, EmptyClockWaitsForTheChip
<1>6. CASE TaskWrites(units)
  <2>1. /\ system # Unset /\ system' = Later(system, units) /\ dateTime' = LocalTime(Later(system, units))
        /\ Writes(system', units)
    BY <1>6 DEF TaskWrites
  <2>2. meant' \in {system', Nothing} /\ system' \in Times
    BY <1>2, <1>3, <2>1
  <2>3. /\ ChipTellsWhatItWasGiven' /\ chip' \in [time: Times, stopped: BOOLEAN]
        /\ kept' \in Times \union {Nothing}
    BY <1>0, <2>1, <2>2, WriteKeepsTheChip
  <2>. QED  BY <1>1, <1>2, <1>3, <2>1, <2>3 DEF TimesOK, TellsTheTimeItWasGiven, EmptyClockWaitsForTheChip
<1>7. CASE TaskWaits(units)
  <2>1. chip' = Counting(units) /\ kept' = Later(kept, units) /\ system = Unset /\ UNCHANGED << system, dateTime >>
    BY <1>7 DEF TaskWaits
  <2>. QED  BY <1>1, <1>4, <2>1 DEF TimesOK, TellsTheTimeItWasGiven, EmptyClockWaitsForTheChip
<1>8. CASE TaskReads(units)
  <2>1. /\ system = Unset /\ IsBelievable(chip) /\ chip' = Counting(units)
        /\ kept' = Later(kept, units) /\ system' = chip'.time /\ dateTime' = dateTime
    BY <1>8 DEF TaskReads
  <2>2. system' \in Times /\ system' # Unset
    BY <1>4, <2>1, TimesAreNoMarks
  <2>3. meant = kept
    BY <2>1 DEF EmptyClockWaitsForTheChip
  <2>4. meant' # Nothing => system' = meant'
    BY <1>0, <1>1, <2>1, <2>3, ChipCountsOn
  <2>. QED  BY <1>1, <1>4, <2>1, <2>2, <2>4
              DEF TimesOK, TellsTheTimeItWasGiven, EmptyClockWaitsForTheChip
<1>. QED  BY <1>5, <1>6, <1>7, <1>8 DEF Task

\* A time that somebody sets is what the clock is meant to tell.
LEMMA SetInvariant ==
  ASSUME IInv, system' \in Times, meant' = system', dateTime' \in Times,
         UNCHANGED << chip, kept >>
  PROVE  IInv'
<1>1. system' # Unset
  BY CalendarIsFinite DEF Times, Unset
<1>. QED  BY <1>1 DEF IInv, TimesOK, TellsTheTimeItWasGiven, ChipTellsWhatItWasGiven,
                      EmptyClockWaitsForTheChip, IsBelievable

\* A command sets the whole date and time, whichever part of it an option replaced.
LEMMA SetByInvariant ==
  ASSUME IInv, NEW local \in Times, SetBy(local)
  PROVE  IInv'
<1>1. system' \in Times /\ dateTime' \in Times
  BY MktimeGivesATime DEF SetBy, SetDateTime
<1>. QED  BY <1>1, SetInvariant DEF SetBy

\* Every step keeps the invariant.
LEMMA StepInvariant == IInv /\ [Next]_vars => IInv'
<1>. SUFFICES ASSUME IInv, [Next]_vars
              PROVE  IInv'
  OBVIOUS
<1>0. dateTime \in Times
  BY DEF IInv, TimesOK
<1>1. CASE Tick
  BY <1>1, TaskInvariant DEF Tick
<1>2. CASE SntpAnswer
  BY <1>0, <1>2, SetInvariant DEF SntpAnswer
<1>3. CASE SetTime
  <2>1. PICK timeOfDay \in 0 .. DayLength - 1 :
          SetBy((dateTime \div DayLength) * DayLength + timeOfDay)
    BY <1>3 DEF SetTime
  <2>. QED  BY <1>0, <2>1, PartsOfATime, DaysAreTimes, SetByInvariant
<1>4. CASE SetDate
  <2>1. PICK day \in 0 .. Days - 1 : SetBy(day * DayLength + (dateTime % DayLength))
    BY <1>4 DEF SetDate
  <2>. QED  BY <1>0, <2>1, PartsOfATime, DaysAreTimes, SetByInvariant
<1>5. CASE Query
  BY <1>0, <1>5, SetByInvariant DEF Query
<1>6. CASE PowerCut
  <2>1. PICK units \in Outages :
          \/ chip' = Counting(units) /\ kept' = Later(kept, units)
          \/ chip' = [time |-> units, stopped |-> TRUE] /\ kept' = Nothing
    BY <1>6 DEF PowerCut
  <2>2. units \in Times /\ units \in Int /\ 0 \in Times
    BY RealTimeClockAssumption, CalendarIsFinite DEF Times
  <2>. DEFINE Right == /\ ChipTellsWhatItWasGiven' /\ chip' \in [time: Times, stopped: BOOLEAN]
                       /\ kept' \in Times \union {Nothing}
  <2>3. ASSUME chip' = Counting(units) /\ kept' = Later(kept, units)
        PROVE  Right
    BY <2>2, <2>3, ChipCountsOn DEF IInv, ChipTellsWhatItWasGiven, IsBelievable
  <2>4. ASSUME chip' = [time |-> units, stopped |-> TRUE] /\ kept' = Nothing
        PROVE  Right
    BY <2>2, <2>4 DEF ChipTellsWhatItWasGiven, IsBelievable
  <2>5. Right
    BY <2>1, <2>3, <2>4
  <2>. QED  BY <1>6, <2>2, <2>5 DEF PowerCut, Started, IInv, TimesOK, TellsTheTimeItWasGiven,
                                  EmptyClockWaitsForTheChip
<1>7. CASE UNCHANGED vars
  BY <1>7 DEF vars, IInv, TimesOK, TellsTheTimeItWasGiven, ChipTellsWhatItWasGiven,
              EmptyClockWaitsForTheChip, IsBelievable
<1>. QED  BY <1>1, <1>2, <1>3, <1>4, <1>5, <1>6, <1>7 DEF Next

\* The clock tells what it was last told, for every calendar, zone rule and outage, over any
\* run of transfers given up between any two of their bytes and a dead battery, unless a power
\* cut found the chip half written (RealTimeClock::ReadChip(), WriteChip()).
THEOREM ClockTellsTheTimeItWasGiven == Spec => []TellsTheTimeItWasGiven
<1>1. IInv => TellsTheTimeItWasGiven
  BY DEF IInv
<1>. QED  BY <1>1, InitInvariant, StepInvariant, PTL DEF Spec

\* A chip whose oscillator is not marked as stopped holds the last time it was given, unless a
\* write given up midway left half of one over registers that were believed already: the mark
\* is cleared over a whole time alone (DS3231::SetDateTime()).
THEOREM BelievableChipIsRight == Spec => []ChipTellsWhatItWasGiven
<1>1. IInv => ChipTellsWhatItWasGiven
  BY DEF IInv
<1>. QED  BY <1>1, InitInvariant, StepInvariant, PTL DEF Spec
-----------------------------------------------------------------------------
(* The clock of the AVR *)

\* What holds of it: as far as anything counts as given to the chip, a chip that can be
\* believed tells it, and what is shown is as old as it is said to be.
ChipTellsWhatItTook == IsBelievable(chip) /\ kept # Nothing => kept = chip.time

ShownAsOfThen == age # Never /\ kept # Nothing /\ kept = meant => Later(dateTime, age) = meant

AvrTimesOK ==
  /\ chip \in [time: Times, stopped: BOOLEAN]
  /\ dateTime \in Times
  /\ age \in Times \union {Never}
  /\ {kept, meant} \subseteq Times \union {Nothing}

AvrInv ==
  /\ system = Unset
  /\ AvrTimesOK
  /\ ChipTellsWhatItTook
  /\ ShownAsOfThen

\* Less than two calendars are folded by taking one away.
Folded(n) == IF n < Calendar THEN n ELSE n - Calendar

LEMMA ModuloOfASum ==
  ASSUME NEW C \in Nat \ {0}, NEW a \in 0 .. C - 1, NEW b \in 0 .. C
  PROVE  (a + b) % C = IF a + b < C THEN a + b ELSE a + b - C
<1>1. \A n \in 0 .. C - 1 : n % C = n
  OBVIOUS
<1>2. \A n \in C .. 2 * C - 1 : n % C = n - C
  OBVIOUS
<1>. QED  BY <1>1, <1>2

LEMMA FoldedOnce ==
  ASSUME NEW a \in Times, NEW b \in 0 .. Calendar
  PROVE  (a + b) % Calendar = Folded(a + b)
<1>1. Calendar \in Nat \ {0} /\ a \in 0 .. Calendar - 1 /\ b \in 0 .. Calendar
  BY CalendarIsFinite DEF Times
<1>2. (a + b) % Calendar = IF a + b < Calendar THEN a + b ELSE a + b - Calendar
  BY ONLY <1>1, ModuloOfASum, Zenon
<1>. QED  BY ONLY <1>1, <1>2 DEF Folded

\* A unit or none is no more than a calendar.
LEMMA UnitsFit ==
  ASSUME NEW units \in {0, 1}
  PROVE  units \in 0 .. Calendar
BY CalendarIsFinite

\* A time told a while ago and a little more has run on by both.
LEMMA LaterAdds ==
  ASSUME NEW t \in Times, NEW a \in Times, NEW units \in {0, 1}
  PROVE  Later(t, (a + units) % Calendar) = Later(Later(t, a), units)
<1>1. units \in 0 .. Calendar /\ a \in 0 .. Calendar
  BY UnitsFit, TimesAreNoMarks
<1>2. (a + units) % Calendar = Folded(a + units) /\ (t + a) % Calendar = Folded(t + a)
  BY <1>1, FoldedOnce, Zenon
<1>3. Folded(a + units) \in 0 .. Calendar /\ Folded(t + a) \in Times
  BY <1>1, CalendarIsFinite DEF Times, Folded
<1>4. Later(t, Folded(a + units)) = Folded(t + Folded(a + units))
  <2>1. (t + Folded(a + units)) % Calendar = Folded(t + Folded(a + units))
    BY <1>3, FoldedOnce, Zenon
  <2>. QED  BY <2>1, TimesAreNoMarks DEF Later
<1>5. Later(t, a) = Folded(t + a)
  BY <1>2, TimesAreNoMarks DEF Later
<1>6. Later(Folded(t + a), units) = Folded(Folded(t + a) + units)
  <2>1. (Folded(t + a) + units) % Calendar = Folded(Folded(t + a) + units)
    BY <1>1, <1>3, FoldedOnce, Zenon
  <2>. QED  BY <1>3, <2>1, TimesAreNoMarks DEF Later
<1>7. Folded(t + Folded(a + units)) = Folded(Folded(t + a) + units)
  <2>1. Calendar \in Nat \ {0} /\ t \in 0 .. Calendar - 1 /\ a \in 0 .. Calendar - 1
    BY CalendarIsFinite DEF Times
  <2>. QED  BY <2>1 DEF Folded
<1>. QED  BY <1>2, <1>4, <1>5, <1>6, <1>7

\* Two times that run on alike are the same if they are the same then.
LEMMA LaterIsInjective ==
  ASSUME NEW s \in Times, NEW t \in Times, NEW units \in {0, 1}, Later(s, units) = Later(t, units)
  PROVE  s = t
<1>1. units \in 0 .. Calendar
  BY UnitsFit
<1>2. (s + units) % Calendar = (t + units) % Calendar
  BY TimesAreNoMarks DEF Later
<1>3. Calendar \in Nat \ {0} /\ s \in 0 .. Calendar - 1 /\ t \in 0 .. Calendar - 1
  BY CalendarIsFinite DEF Times
<1>. QED  BY <1>1, <1>2, <1>3, FoldedOnce DEF Folded

LEMMA LaterByNothing ==
  ASSUME NEW t \in Times
  PROVE  Later(t, 0) = t
<1>1. 0 \in 0 .. Calendar
  BY CalendarIsFinite
<1>2. Calendar \in Nat \ {0} /\ t \in 0 .. Calendar - 1
  BY CalendarIsFinite DEF Times
<1>. QED  BY <1>1, <1>2, FoldedOnce, TimesAreNoMarks DEF Later, Folded

\* The chip counts on, and with it what it was given.
LEMMA AvrChipCountsOn ==
  ASSUME AvrTimesOK, ChipTellsWhatItTook, NEW units \in Int,
         chip' = Counting(units), kept' = Later(kept, units)
  PROVE  ChipTellsWhatItTook' /\ chip' \in [time: Times, stopped: BOOLEAN]
<1>1. chip' \in [time: Times, stopped: BOOLEAN] /\ chip'.stopped = chip.stopped
        /\ chip'.time = Later(chip.time, units)
  BY LaterIsATime DEF AvrTimesOK, Counting
<1>2. kept' # Nothing => kept # Nothing
  BY LaterKeepsMarks DEF AvrTimesOK
<1>. QED  BY <1>1, <1>2 DEF ChipTellsWhatItTook, IsBelievable

LEMMA AvrTaskInvariant ==
  ASSUME AvrInv, NEW units \in {0, 1}, AvrTask(units)
  PROVE  AvrInv'
<1>. USE DEF AvrInv
<1>1. units \in Int
  OBVIOUS
<1>2. ChipTellsWhatItTook' /\ chip' \in [time: Times, stopped: BOOLEAN]
  BY <1>1, AvrChipCountsOn DEF AvrTask
<1>3. /\ {kept', meant'} \subseteq Times \union {Nothing}
      /\ kept' # Nothing => kept # Nothing
      /\ meant' # Nothing => meant # Nothing
  <2>1. kept \in Times \union {Nothing} /\ meant \in Times \union {Nothing}
    BY DEF AvrTimesOK
  <2>2. kept' = Later(kept, units) /\ meant' = Later(meant, units)
    BY DEF AvrTask
  <2>3. /\ kept' \in Times \union {Nothing} /\ meant' \in Times \union {Nothing}
        /\ kept' = Nothing <=> kept = Nothing
        /\ meant' = Nothing <=> meant = Nothing
    BY <1>1, <2>1, <2>2, LaterKeepsMarks, Zenon
  <2>. QED  BY <2>3
<1>4. Aged(units) \in Times \union {Never} /\ (Aged(units) # Never => age \in Times)
  <2>1. age \in Times => (age + units) % Calendar \in Times
    <3>1. age \in Times => age \in Int
      BY CalendarIsFinite DEF Times
    <3>. QED  BY <1>1, <3>1, ReducedIsATime
  <2>. QED  BY <2>1 DEF Aged, AvrTimesOK
<1>5. CASE dateTime' = dateTime /\ age' = Aged(units)
  <2>1. ShownAsOfThen'
    <3>. SUFFICES ASSUME age' # Never, kept' # Nothing, kept' = meant'
                  PROVE  Later(dateTime', age') = meant'
      BY DEF ShownAsOfThen
    <3>1. age \in Times /\ age # Never
      BY <1>4, <1>5, TimesAreNoMarks DEF Never, Unset
    <3>2. kept \in Times /\ meant \in Times
      BY <1>3 DEF AvrTimesOK
    <3>3. kept = meant
      BY <3>2, LaterIsInjective DEF AvrTask
    <3>4. Later(dateTime, age) = meant
      BY <3>1, <3>3, <1>3 DEF ShownAsOfThen
    <3>5. age' = (age + units) % Calendar
      BY <1>5, <3>1 DEF Aged
    <3>6. Later(dateTime, (age + units) % Calendar) = Later(Later(dateTime, age), units)
      BY <3>1, LaterAdds DEF AvrTimesOK
    <3>. QED  BY <1>5, <3>4, <3>5, <3>6 DEF AvrTask
  <2>. QED  BY <1>2, <1>3, <1>4, <1>5, <2>1 DEF AvrTask, AvrTimesOK
<1>6. CASE IsBelievable(chip') /\ dateTime' = chip'.time /\ age' = 0
  <2>1. dateTime' \in Times /\ 0 \in Times
    BY <1>2, <1>6, TimesAreNoMarks
  <2>2. Later(dateTime', age') = dateTime'
    BY <1>6, <2>1, LaterByNothing
  <2>3. ShownAsOfThen'
    BY <1>2, <1>6, <2>2 DEF ShownAsOfThen, ChipTellsWhatItTook
  <2>. QED  BY <1>2, <1>3, <1>6, <2>1, <2>3 DEF AvrTask, AvrTimesOK
<1>7. ASSUME NEW read \in GetDateTime(chip')
      PROVE  read = Nothing \/ (IsBelievable(chip') /\ read = chip'.time)
  <2>1. PICK stopped \in {chip'.stopped, TRUE} :
          read \in IF stopped THEN {Nothing} ELSE {chip'.time, Nothing}
    BY <1>7 DEF GetDateTime, HasOscillatorStopped, ReadRegisters
  <2>. QED  BY <2>1 DEF IsBelievable
<1>. QED  BY <1>5, <1>6, <1>7 DEF AvrTask

\* What is left in the chip by a write, done or given up: the time it was given if it is done,
\* and a time of the calendar wherever the transfer stopped.
LEMMA WrittenIsATime ==
  ASSUME NEW c \in [time: Times, stopped: BOOLEAN], NEW local \in Times,
         NEW written \in WriteChip(c, local)
  PROVE  /\ written.chip \in [time: Times, stopped: BOOLEAN]
         /\ written.done => written.chip.time = local
<1>1. PICK w \in WriteRegisters(c.time, local) :
        written \in {[chip |-> [time |-> w.time, stopped |-> stopped], done |-> w.done] :
                       stopped \in IF w.done THEN ClearOscillatorStopped(c.stopped) ELSE {c.stopped}}
  BY DEF WriteChip
<1>2. PICK stopped \in BOOLEAN :
        written = [chip |-> [time |-> w.time, stopped |-> stopped], done |-> w.done]
  BY <1>1 DEF ClearOscillatorStopped
<1>3. w = [time |-> local, done |-> TRUE]
        \/ \E t \in PartlyWritten(c.time, local) : w = [time |-> t, done |-> FALSE]
  BY <1>1 DEF WriteRegisters
<1>4. PartlyWritten(c.time, local) \subseteq Times
  BY PartlyWrittenIsATime
<1>5. w.time \in Times /\ (w.done => w.time = local)
  BY <1>3, <1>4
<1>. QED  BY <1>2, <1>5

\* A time set by hand is shown at once, and believed of the chip only once it is all written.
LEMMA AvrSetInvariant ==
  ASSUME AvrInv, NEW local \in Times, AvrSetBy(local)
  PROVE  AvrInv'
<1>. USE DEF AvrInv
<1>1. PICK written \in WriteChip(chip, local) :
        /\ chip' = written.chip
        /\ kept' = (IF written.done THEN local ELSE IF chip' = chip THEN kept ELSE Nothing)
        /\ dateTime' = local
  BY DEF AvrSetBy, AvrSetDateTime
<1>2. chip' \in [time: Times, stopped: BOOLEAN] /\ (written.done => chip'.time = local)
  BY <1>1, WrittenIsATime DEF AvrTimesOK
<1>3. ChipTellsWhatItTook'
  BY <1>1, <1>2 DEF ChipTellsWhatItTook, IsBelievable
<1>4. meant' = local /\ age' = 0 /\ system' = Unset
  BY DEF AvrSetBy
<1>5. Later(local, 0) = local /\ 0 \in Times
  BY LaterByNothing, TimesAreNoMarks
<1>. QED  BY <1>1, <1>2, <1>3, <1>4, <1>5 DEF AvrTimesOK, ShownAsOfThen

LEMMA AvrPowerCutInvariant ==
  ASSUME AvrInv, AvrPowerCut
  PROVE  AvrInv'
<1>. USE DEF AvrInv
<1>1. PICK units \in Outages :
        \/ chip' = Counting(units) /\ kept' = Later(kept, units)
        \/ chip' = [time |-> units, stopped |-> TRUE] /\ kept' = Nothing
  BY DEF AvrPowerCut, PowerCut
<1>2. units \in Times /\ units \in Int
  BY RealTimeClockAssumption, CalendarIsFinite DEF Times
<1>3. /\ ChipTellsWhatItTook' /\ chip' \in [time: Times, stopped: BOOLEAN]
      /\ kept' \in Times \union {Nothing}
  <2>1. CASE chip' = Counting(units) /\ kept' = Later(kept, units)
    BY <1>2, <2>1, AvrChipCountsOn, LaterKeepsMarks DEF AvrTimesOK
  <2>2. CASE chip' = [time |-> units, stopped |-> TRUE] /\ kept' = Nothing
    BY <1>2, <2>2 DEF ChipTellsWhatItTook, IsBelievable
  <2>. QED  BY <1>1, <2>1, <2>2
<1>4. system' = Unset /\ dateTime' = 0 /\ age' = Never /\ meant' = kept'
  BY DEF AvrPowerCut, PowerCut, Started
<1>. QED  BY <1>3, <1>4, TimesAreNoMarks DEF AvrTimesOK, ShownAsOfThen

LEMMA AvrStepInvariant ==
  ASSUME AvrInv, AvrNext
  PROVE  AvrInv'
<1>0. dateTime \in Times
  BY DEF AvrInv, AvrTimesOK
<1>1. CASE AvrTick
  BY <1>1, AvrTaskInvariant DEF AvrTick
<1>2. CASE AvrSetTime
  <2>1. PICK timeOfDay \in 0 .. DayLength - 1 :
          AvrSetBy((dateTime \div DayLength) * DayLength + timeOfDay)
    BY <1>2 DEF AvrSetTime
  <2>. QED  BY <1>0, <2>1, PartsOfATime, DaysAreTimes, AvrSetInvariant
<1>3. CASE AvrSetDate
  <2>1. PICK day \in 0 .. Days - 1 : AvrSetBy(day * DayLength + (dateTime % DayLength))
    BY <1>3 DEF AvrSetDate
  <2>. QED  BY <1>0, <2>1, PartsOfATime, DaysAreTimes, AvrSetInvariant
<1>4. CASE AvrPowerCut
  BY <1>4, AvrPowerCutInvariant
<1>. QED  BY <1>1, <1>2, <1>3, <1>4 DEF AvrNext

-----------------------------------------------------------------------------
(* Either kind of clock *)

ClockInv ==
  \/ platform = "SystemClock" /\ IInv
  \/ platform = "AVR-Dx" /\ AvrInv

LEMMA ClockInitInvariant == ClockInit => ClockInv
<1>. SUFFICES ASSUME ClockInit PROVE ClockInv
  OBVIOUS
<1>1. IInv
  BY InitInvariant DEF ClockInit
<1>2. AvrInv
  <2>1. /\ system = Unset /\ dateTime = 0 /\ age = Never /\ kept = meant
        /\ chip.time = 0 /\ meant = (IF chip.stopped THEN Nothing ELSE chip.time)
    BY DEF ClockInit, Init
  <2>2. chip \in [time: Times, stopped: BOOLEAN]
    BY <1>1 DEF IInv, TimesOK
  <2>. QED  BY <2>1, <2>2, TimesAreNoMarks
              DEF AvrInv, AvrTimesOK, ChipTellsWhatItTook, IsBelievable, ShownAsOfThen
<1>. QED  BY <1>1, <1>2 DEF ClockInit, ClockInv

LEMMA ClockStepInvariant == ClockInv /\ [ClockNext]_clockVars => ClockInv'
<1>. SUFFICES ASSUME ClockInv, [ClockNext]_clockVars PROVE ClockInv'
  OBVIOUS
<1>1. CASE OnSystemClock(Next)
  BY <1>1, StepInvariant DEF OnSystemClock, On, ClockInv
<1>2. CASE On("AVR-Dx", AvrNext)
  BY <1>2, AvrStepInvariant DEF On, ClockInv
<1>3. CASE UNCHANGED clockVars
  <2>1. IInv => IInv'
    BY <1>3, StepInvariant DEF clockVars
  <2>2. AvrInv => AvrInv'
    BY <1>3 DEF clockVars, vars, AvrInv, AvrTimesOK, ChipTellsWhatItTook, IsBelievable, ShownAsOfThen
  <2>. QED  BY <1>3, <2>1, <2>2 DEF clockVars, ClockInv
<1>. QED  BY <1>1, <1>2, <1>3 DEF ClockNext

\* Whichever of its clocks the firmware runs on, and however many of its transfers are given up
\* between any two of their bytes: the system clock tells the time it was given, and the AVR
\* shows the time it was given, as of when it last read or set it, wherever the chip has taken
\* what it was given last (RealTimeClock::Task(), SetDateTime(), DS3231::SetDateTime()).
THEOREM EitherClockTellsTheTimeItWasGiven ==
  ClockSpec => []ShowsTheTimeItWasGiven
<1>1. ClockInv => ShowsTheTimeItWasGiven
  BY DEF ClockInv, IInv, AvrInv, ShowsTheTimeItWasGiven, ShownAsOfThen
<1>. QED  BY <1>1, ClockInitInvariant, ClockStepInvariant, PTL DEF ClockSpec

\* A chip that can be believed is right on every board: what it tells is what it was given, or
\* half a time after a write that was given up over a chip that was running.
THEOREM EveryBelievableChipIsRight ==
  ClockSpec => [](IsBelievable(chip) /\ kept # Nothing => kept = chip.time)
<1>1. ClockInv => (IsBelievable(chip) /\ kept # Nothing => kept = chip.time)
  BY DEF ClockInv, IInv, AvrInv, ChipTellsWhatItWasGiven, ChipTellsWhatItTook
<1>. QED  BY <1>1, ClockInitInvariant, ClockStepInvariant, PTL DEF ClockSpec

(***************************************************************************)
(* What Almanac promises of every window, every overlay and every day of   *)
(* the century: the calendar on the wall moves each of the firmware's      *)
(* counts of days by one, the night is one span of the day, and an         *)
(* overlay is shown on the days that follow its date.                      *)
(***************************************************************************)

RataOf(d) == GetRataDieDay(d.year, d.month, d.day)

MinutesOfDay == 0 .. 1439

\* A calendar day, and a record of nothing else.
Century == 2000 .. 2099
Months == 1 .. 12
MonthDays == 1 .. 31

DateShape(d) ==
  \E y \in Century, m \in Months, dd \in MonthDays :
    dd <= GetDaysOfMonth(m, y) /\ d = [year |-> y, month |-> m, day |-> dd]

-----------------------------------------------------------------------------
(* The night *)

\* Two minutes of a day that are told apart by a window's ends and by the span between them
\* give the same night (NightSwitch::IsWithinWindow()).
LEMMA NightIsOneSpan ==
  ASSUME NEW now \in MinutesOfDay, NEW start \in MinutesOfDay, NEW end \in MinutesOfDay
  PROVE IsWithinWindow(now, start, end) <=> IsInTheSpan(now, start, end)
<1>. USE DEF MinutesOfDay
<1>1. MinutesPerDay = 1440
  BY DEF MinutesPerDay
<1>2. \A n \in -1439 .. 1439 : n % 1440 = IF n >= 0 THEN n ELSE n + 1440
  OBVIOUS
<1>3. now - start \in -1439 .. 1439 /\ end - start \in -1439 .. 1439
  BY SMTT(30)
<1>. QED BY <1>1, <1>2, <1>3 DEF IsWithinWindow, IsInTheSpan

-----------------------------------------------------------------------------
(* The calendar *)

\* Within a month the number of the day follows the day.
LEMMA RataIsLinear ==
  ASSUME NEW y \in Int, NEW m \in Int, NEW d \in Int
  PROVE GetRataDieDay(y, m, d + 1) = GetRataDieDay(y, m, d) + 1
<1>. DEFINE yy == IF m < 3 THEN y - 1 ELSE y
            mm == IF m < 3 THEN m + 12 ELSE m
<1>1. PICK c \in Int : c = 365 * yy + yy \div 4 - yy \div 100 + yy \div 400 + (153 * mm - 457) \div 5
  OBVIOUS
<1>2. \A e \in Int : GetRataDieDay(y, m, e) = c + e - 306
  BY <1>1 DEF GetRataDieDay
<1>. QED BY <1>2

\* A year, a month and one of its days are a date.
LEMMA DateOfNumbers ==
  ASSUME NEW y \in Century, NEW m \in Months, NEW dd \in MonthDays, dd <= GetDaysOfMonth(m, y)
  PROVE DateShape([year |-> y, month |-> m, day |-> dd])
BY Zenon DEF DateShape

\* The next day of the calendar is a date and has the next number in GetRataDieDay().
LEMMA RataStep ==
  ASSUME NEW d, DateShape(d), NextDate(d).year \in Century
  PROVE RataOf(NextDate(d)) = RataOf(d) + 1 /\ DateShape(NextDate(d))
<1>0. PICK y \in Century, m \in Months, dd \in MonthDays :
        dd <= GetDaysOfMonth(m, y) /\ d = [year |-> y, month |-> m, day |-> dd]
  BY ONLY DateShape(d), Zenon DEF DateShape
<1>1. /\ y \in 2000 .. 2099 /\ m \in 1 .. 12 /\ dd \in 1 .. 31
      /\ dd <= GetDaysOfMonth(m, y)
      /\ d = [year |-> y, month |-> m, day |-> dd]
  BY <1>0 DEF Century, Months, MonthDays
<1>2. CASE dd < GetDaysOfMonth(m, y)
  <2>1. NextDate(d) = [year |-> y, month |-> m, day |-> dd + 1]
    BY <1>1, <1>2 DEF NextDate
  <2>2. dd \in Int /\ dd >= 1 /\ dd + 1 <= GetDaysOfMonth(m, y) /\ GetDaysOfMonth(m, y) \in Int
    BY <1>1, <1>2 DEF GetDaysOfMonth
  <2>3. DateShape(NextDate(d))
    <3>1. dd + 1 \in MonthDays
      BY <2>2, <1>1, <1>2 DEF MonthDays, GetDaysOfMonth
    <3>2. dd + 1 <= GetDaysOfMonth(m, y)
      BY <2>2
    <3>3. DateShape([year |-> y, month |-> m, day |-> dd + 1])
      BY ONLY <1>0, <3>1, <3>2, DateOfNumbers, Zenon
    <3>. QED BY <2>1, <3>3
  <2>4. GetRataDieDay(y, m, dd + 1) = GetRataDieDay(y, m, dd) + 1
    BY <1>1, RataIsLinear
  <2>. QED BY <1>1, <2>1, <2>3, <2>4 DEF RataOf
<1>3. CASE dd = GetDaysOfMonth(m, y) /\ m < 12
  <2>1. NextDate(d) = [year |-> y, month |-> m + 1, day |-> 1]
    <3>1. ~(dd < GetDaysOfMonth(m, y))
      BY <1>3, <1>1 DEF GetDaysOfMonth
    <3>. QED BY <1>1, <1>3, <3>1 DEF NextDate
  <2>2. DateShape(NextDate(d))
    <3>1. m + 1 \in Months /\ 1 \in MonthDays /\ 1 <= GetDaysOfMonth(m + 1, y)
      BY <1>1, <1>3, SMTT(30) DEF Century, Months, MonthDays, GetDaysOfMonth
    <3>2. DateShape([year |-> y, month |-> m + 1, day |-> 1])
      BY ONLY <1>0, <3>1, DateOfNumbers, Zenon
    <3>. QED BY <2>1, <3>2
  <2>3. GetRataDieDay(y, m + 1, 1) = GetRataDieDay(y, m, dd) + 1
    <3>1. CASE m = 1
      BY <1>1, <1>3, <3>1 DEF GetRataDieDay, GetDaysOfMonth
    <3>2. CASE m = 2
      BY <1>1, <1>3, <3>2 DEF GetRataDieDay, GetDaysOfMonth
    <3>3. CASE m \in 3 .. 7
      BY <1>1, <1>3, <3>3 DEF GetRataDieDay, GetDaysOfMonth
    <3>4. CASE m \in 8 .. 11
      BY <1>1, <1>3, <3>4 DEF GetRataDieDay, GetDaysOfMonth
    <3>. QED BY <3>1, <3>2, <3>3, <3>4, <1>1, <1>3
  <2>. QED BY <1>1, <2>1, <2>2, <2>3 DEF RataOf
<1>4. CASE dd = GetDaysOfMonth(m, y) /\ m = 12
  <2>1. dd = 31
    BY <1>4 DEF GetDaysOfMonth
  <2>2. NextDate(d) = [year |-> y + 1, month |-> 1, day |-> 1]
    BY <1>1, <1>4, <2>1 DEF NextDate
  <2>3. DateShape(NextDate(d))
    <3>1. y + 1 \in Century /\ 1 \in Months /\ 1 \in MonthDays /\ 1 <= GetDaysOfMonth(1, y + 1)
      BY <2>2, <1>1 DEF Century, Months, MonthDays, GetDaysOfMonth
    <3>2. DateShape([year |-> y + 1, month |-> 1, day |-> 1])
      BY ONLY <3>1, DateOfNumbers, Zenon
    <3>. QED BY <2>2, <3>2
  <2>4. GetRataDieDay(y + 1, 1, 1) = GetRataDieDay(y, 12, 31) + 1
    BY <1>1 DEF GetRataDieDay
  <2>. QED BY <1>1, <2>1, <2>2, <2>3, <2>4, <1>4 DEF RataOf
<1>. QED BY <1>1, <1>2, <1>3, <1>4 DEF GetDaysOfMonth

\* What the chip keeps of a date is that date (ToBcd(), FromBcd()).
LEMMA ChipKeepsTheDate ==
  ASSUME NEW d, DateShape(d)
  PROVE DateOf(Registers(d)) = d
<1>0. PICK y \in Century, m \in Months, dd \in MonthDays :
        d = [year |-> y, month |-> m, day |-> dd]
  BY ONLY DateShape(d), Zenon DEF DateShape
<1>1. /\ y \in 2000 .. 2099 /\ m \in 1 .. 12 /\ dd \in 1 .. 31
      /\ d = [year |-> y, month |-> m, day |-> dd]
  BY <1>0 DEF Century, Months, MonthDays
<1>2. \A n \in 0 .. 99 : FromBcd(ToBcd(n)) = n
  BY DEF FromBcd, ToBcd
<1>3. ToBcd(m) % 32 = ToBcd(m)
  BY <1>1 DEF ToBcd
<1>4. y - 2000 \in 0 .. 99 /\ 2000 + (y - 2000) = y
  BY <1>1
<1>5. DateOf(Registers(d))
        = [year |-> 2000 + FromBcd(ToBcd(y - 2000)), month |-> FromBcd(ToBcd(m)),
           day |-> FromBcd(ToBcd(dd))]
  BY <1>1, <1>3 DEF DateOf, Registers, Masked
<1>. QED BY <1>1, <1>2, <1>4, <1>5

\* Whole weeks leave the day of the week as it is.
LEMMA WholeWeeks ==
  ASSUME NEW n \in Int, NEW k \in Int
  PROVE (n + 7 * k) % 7 = n % 7
OBVIOUS

\* The weekday formula, of the sum of the day and the year and of the year that is counted.
WeekSum(m, day, year, counted) ==
  ((23 * m) \div 9 + (day + year) + 4 + counted \div 4 - counted \div 100 + counted \div 400) % 7

EarlyWeekday(y, m, day) == WeekSum(m, day, y, y - 1)
RataWeekday(y, m, day) == GetRataDieDay(y, m, day) % 7
LateWeekday(y, m, day) == WeekSum(m, day, y - 2, y)

\* From March to December the weekday formula and the number of the day differ by whole weeks.
LEMMA WeeksFromMarch ==
  \A y \in 2000 .. 2099, m \in 3 .. 12, day \in 1 .. 31 :
    RataWeekday(y, m, day) = LateWeekday(y, m, day)
<1>. TAKE y \in 2000 .. 2099, m \in 3 .. 12, day \in 1 .. 31
<1>. DEFINE j == ((153 * m - 457) \div 5 - 308 - (23 * m) \div 9) \div 7
<1>1. j \in Int /\ (153 * m - 457) \div 5 - 308 - (23 * m) \div 9 = 7 * j
  OBVIOUS
<1>2. PICK a \in Int, b \in Int, c \in Int : a = y \div 4 /\ b = y \div 100 /\ c = y \div 400
  OBVIOUS
<1>3. PICK f \in Int, g \in Int : f = (153 * m - 457) \div 5 /\ g = (23 * m) \div 9
  OBVIOUS
<1>4. GetRataDieDay(y, m, day) = 365 * y + a - b + c + f + day - 306
  BY <1>2, <1>3 DEF GetRataDieDay
<1>5. f = 308 + g + 7 * j
  BY <1>1, <1>3
<1>. HIDE DEF j
<1>6. GetRataDieDay(y, m, day) = (g + (day + (y - 2)) + 4 + a - b + c) + 7 * (52 * y + j)
  BY <1>1, <1>2, <1>3, <1>4, <1>5
<1>7. (g + (day + (y - 2)) + 4 + a - b + c) \in Int /\ 52 * y + j \in Int
  BY <1>1, <1>2, <1>3
<1>. QED BY <1>2, <1>3, <1>6, <1>7, WholeWeeks DEF RataWeekday, WeekSum, EarlyWeekday, LateWeekday

\* So they do in January and February, which the formulas count to the year before.
LEMMA WeeksToMarch ==
  ASSUME NEW y \in 2000 .. 2099, NEW m \in 1 .. 2, NEW day \in 1 .. 31
  PROVE RataWeekday(y, m, day) = EarlyWeekday(y, m, day)
<1>. DEFINE j == ((153 * (m + 12) - 457) \div 5 - 675 - (23 * m) \div 9) \div 7
<1>1. j \in Int /\ (153 * (m + 12) - 457) \div 5 - 675 - (23 * m) \div 9 = 7 * j
  OBVIOUS
<1>2. PICK a \in Int, b \in Int, c \in Int :
        a = (y - 1) \div 4 /\ b = (y - 1) \div 100 /\ c = (y - 1) \div 400
  OBVIOUS
<1>3. PICK f \in Int, g \in Int : f = (153 * (m + 12) - 457) \div 5 /\ g = (23 * m) \div 9
  OBVIOUS
<1>4. GetRataDieDay(y, m, day) = 365 * (y - 1) + a - b + c + f + day - 306
  BY <1>2, <1>3 DEF GetRataDieDay
<1>5. f = 675 + g + 7 * j
  BY <1>1, <1>3
<1>. HIDE DEF j
<1>6. GetRataDieDay(y, m, day) = (g + (day + y) + 4 + a - b + c) + 7 * (52 * y + j)
  BY <1>1, <1>2, <1>3, <1>4, <1>5
<1>7. (g + (day + y) + 4 + a - b + c) \in Int /\ 52 * y + j \in Int
  BY <1>1, <1>2, <1>3
<1>. QED BY <1>2, <1>3, <1>6, <1>7, WholeWeeks DEF RataWeekday, WeekSum, EarlyWeekday, LateWeekday

\* The weekday follows the number of the day (ClockDate::GetWeekday()).
LEMMA WeekdayIsTheDay ==
  ASSUME NEW d, DateShape(d)
  PROVE GetWeekday(d) = RataOf(d) % 7
<1>0. PICK y \in Century, m \in Months, dd \in MonthDays :
        d = [year |-> y, month |-> m, day |-> dd]
  BY ONLY DateShape(d), Zenon DEF DateShape
<1>1. /\ y \in 2000 .. 2099 /\ m \in 1 .. 12 /\ dd \in 1 .. 31
      /\ d = [year |-> y, month |-> m, day |-> dd]
  BY <1>0 DEF Century, Months, MonthDays
<1>2. \A n \in 0 .. 2200 : n % 65536 = n
  BY SMTT(30)
<1>3. RataOf(d) % 7 = RataWeekday(y, m, dd)
  BY <1>1 DEF RataOf, RataWeekday
<1>4. CASE m < 3
  <2>1. m \in 1 .. 2
    BY <1>1, <1>4
  <2>2. DayAndYear(d) = dd + y
    BY <1>1, <1>4 DEF DayAndYear
  <2>3. DayAndYear(d) % Word = dd + y
    BY <1>1, <1>2, <2>2 DEF Word
  <2>4. GetWeekday(d) = EarlyWeekday(y, m, dd)
    BY <1>1, <1>4, <2>3 DEF GetWeekday, WeekdayOf, WeekSum, EarlyWeekday
  <2>5. RataWeekday(y, m, dd) = EarlyWeekday(y, m, dd)
    BY <1>1, <2>1, WeeksToMarch, SMTT(30)
  <2>. QED BY <1>3, <2>4, <2>5
<1>5. CASE ~(m < 3)
  <2>1. m \in 3 .. 12
    BY <1>1, <1>5
  <2>2. DayAndYear(d) = dd + (y - 2)
    BY <1>1, <1>5 DEF DayAndYear
  <2>3. DayAndYear(d) % Word = dd + (y - 2)
    BY <1>1, <1>2, <2>2 DEF Word
  <2>4. GetWeekday(d) = LateWeekday(y, m, dd)
    BY <1>1, <1>5, <2>3 DEF GetWeekday, WeekdayOf, WeekSum, LateWeekday
  <2>5. RataWeekday(y, m, dd) = LateWeekday(y, m, dd)
    <3>1. y \in 2000 .. 2099 /\ dd \in 1 .. 31
      BY <1>1
    <3>. QED BY ONLY <3>1, <2>1, WeeksFromMarch, SMTT(60)
  <2>. QED BY <1>3, <2>4, <2>5
<1>. QED BY <1>4, <1>5
-----------------------------------------------------------------------------
(* The theorems of the specification *)

\* The inductive invariant: the clock tells a date of the calendar and a minute of the day.
AlmanacInv == DateShape(date) /\ minute \in 0 .. 1439

LEMMA InitHolds == AlmanacInit => AlmanacInv
<1>. SUFFICES ASSUME AlmanacInit PROVE AlmanacInv
  OBVIOUS
<1>1. PICK y \in Years : date = [year |-> y, month |-> 1, day |-> 1]
  BY DEF AlmanacInit
<1>2. y \in Century /\ 1 \in Months /\ 1 \in MonthDays /\ 1 <= GetDaysOfMonth(1, y)
  BY AlmanacAssumption DEF Century, Months, MonthDays, GetDaysOfMonth
<1>3. DateShape([year |-> y, month |-> 1, day |-> 1])
  BY ONLY <1>2, DateOfNumbers, Zenon
<1>. QED BY <1>1, <1>3 DEF AlmanacInit, AlmanacInv

\* A midnight moves the date to the next date of the calendar, and its number by one.
LEMMA MidnightIsADay ==
  ASSUME AlmanacInv, DayPasses
  PROVE DateShape(date') /\ RataOf(date') = RataOf(date) + 1
<1>1. NextDate(date).year \in Century /\ date' = NextDate(date)
  <2>1. Years \subseteq Century
    BY AlmanacAssumption DEF Century
  <2>2. NextDate(date).year \in Years /\ date' = NextDate(date)
    BY DEF DayPasses
  <2>. QED BY ONLY <2>1, <2>2, Zenon
<1>2. DateShape(date)
  BY DEF AlmanacInv
<1>. QED BY <1>1, <1>2, RataStep

LEMMA StepHolds == AlmanacInv /\ [AlmanacNext]_almanacVars => AlmanacInv'
<1>. SUFFICES ASSUME AlmanacInv, [AlmanacNext]_almanacVars PROVE AlmanacInv'
  OBVIOUS
<1>1. CASE MinutePasses
  <2>1. minute' \in 0 .. 1439
    BY <1>1 DEF MinutePasses, MinutesPerDay, AlmanacInv
  <2>. QED BY <1>1, <2>1 DEF MinutePasses, AlmanacInv
<1>2. CASE Midnight
  BY <1>2, MidnightIsADay DEF Midnight, DayPasses, AlmanacInv
<1>3. CASE ChangeMode \/ ChangeItIs \/ UNCHANGED almanacVars
  BY <1>3 DEF ChangeMode, ChangeItIs, almanacVars, AlmanacInv
<1>. QED BY <1>1, <1>2, <1>3 DEF AlmanacNext

\* The clock never tells a date that is none, nor a minute past the day's.
THEOREM ClockTellsADate == AlmanacSpec => []AlmanacInv
<1>1. AlmanacInit => AlmanacInv
  BY InitHolds
<1>2. AlmanacInv /\ [AlmanacNext]_almanacVars => AlmanacInv'
  BY StepHolds
<1>. QED BY <1>1, <1>2, PTL DEF AlmanacSpec

\* Whatever windows are set, a minute is in the night exactly if the window has opened and
\* is not over, over midnight or not (NightSwitch::IsWithinWindow()).
THEOREM NightIsAlwaysTheSpan == AlmanacSpec => []NightIsTheSpan
<1>1. AlmanacInv => NightIsTheSpan
  <2>. SUFFICES ASSUME AlmanacInv, NEW w \in Windows
                PROVE IsWithinWindow(minute, w[1], w[2]) <=> IsInTheSpan(minute, w[1], w[2])
    BY DEF NightIsTheSpan
  <2>1. w[1] \in MinutesOfDay /\ w[2] \in MinutesOfDay
    BY AlmanacAssumption, SMTT(30) DEF MinutesPerDay, MinutesOfDay
  <2>2. minute \in MinutesOfDay
    BY DEF AlmanacInv, MinutesOfDay
  <2>. QED BY ONLY <2>1, <2>2, NightIsOneSpan, Zenon
<1>. QED BY <1>1, ClockTellsADate, PTL

\* The day the system clock gets from what the chip kept of a date is the number of that day.
LEMMA SystemDayIsTheDay ==
  ASSUME NEW d, DateShape(d)
  PROVE SystemDay(Registers(d)) = RataOf(d) - 719163
<1>1. PICK y \in Century, m \in Months, dd \in MonthDays :
        d = [year |-> y, month |-> m, day |-> dd]
  BY ONLY DateShape(d), Zenon DEF DateShape
<1>2. y \in 1999 .. 2099 /\ m \in 1 .. 12 /\ dd \in 1 .. 31
  BY <1>1 DEF Century, Months, MonthDays
<1>3. SystemDay(Registers(d)) = DaysFromCivil(d.year, d.month, d.day)
  BY ChipKeepsTheDate DEF SystemDay
\* The day the C library counts from 1970 and the one ClockDate counts from the year 1.
<1>4. DaysFromCivil(y, m, dd) = GetRataDieDay(y, m, dd) - 719163
  BY ONLY <1>2, SMTT(30) DEF DaysFromCivil, GetRataDieDay
<1>5. d.year = y /\ d.month = m /\ d.day = dd
  BY <1>1
<1>. QED BY <1>3, <1>4, <1>5 DEF RataOf

\* A date's number is one.
LEMMA RataIsInt ==
  ASSUME NEW d, DateShape(d)
  PROVE RataOf(d) \in Int
<1>1. PICK y \in Century, m \in Months, dd \in MonthDays :
        d = [year |-> y, month |-> m, day |-> dd]
  BY ONLY DateShape(d), Zenon DEF DateShape
<1>2. y \in Int /\ m \in Int /\ dd \in Int
  BY <1>1 DEF Century, Months, MonthDays
<1>. QED BY <1>1, <1>2 DEF RataOf, GetRataDieDay

\* From each midnight of the century to the next every count of days of the firmware counts
\* one day: the weekday, the days of an overlay, and those the chip gives the system clock.
THEOREM EveryDayOfTheCenturyCounts == AlmanacSpec => EveryDayCounts
<1>. DEFINE CountsOn ==
       Midnight =>
         /\ GetWeekday(date') = (GetWeekday(date) + 1) % 7
         /\ GetRataDieDay(date'.year, date'.month, date'.day)
              = GetRataDieDay(date.year, date.month, date.day) + 1
         /\ SystemDay(Registers(date')) = SystemDay(Registers(date)) + 1
<1>1. AlmanacInv /\ [AlmanacNext]_almanacVars => [CountsOn]_almanacVars
  <2>. SUFFICES ASSUME AlmanacInv, Midnight PROVE CountsOn
    OBVIOUS
  <2>1. DateShape(date) /\ DateShape(date') /\ RataOf(date') = RataOf(date) + 1
    BY MidnightIsADay DEF Midnight, AlmanacInv
  <2>2. RataOf(date) \in Int /\ RataOf(date') \in Int
    BY <2>1, RataIsInt
  <2>3. GetWeekday(date') = (GetWeekday(date) + 1) % 7
    <3>1. GetWeekday(date) = RataOf(date) % 7 /\ GetWeekday(date') = RataOf(date') % 7
      BY <2>1, WeekdayIsTheDay
    <3>2. \A n \in Int : (n + 1) % 7 = ((n % 7) + 1) % 7
      OBVIOUS
    <3>. QED BY <2>1, <2>2, <3>1, <3>2
  <2>4. SystemDay(Registers(date')) = SystemDay(Registers(date)) + 1
    <3>1. /\ SystemDay(Registers(date)) = RataOf(date) - 719163
          /\ SystemDay(Registers(date')) = RataOf(date') - 719163
      BY <2>1, SystemDayIsTheDay
    <3>. QED BY <2>1, <2>2, <3>1
  <2>. QED BY <2>1, <2>3, <2>4 DEF RataOf
<1>. QED BY <1>1, ClockTellsADate, PTL DEF AlmanacSpec, EveryDayCounts

-----------------------------------------------------------------------------
(* The time since the start, and the temperature *)

\* From any count whatever a second counted is a second more, until the days stop at the last
\* that a word holds (Uptime::Task()).
LEMMA EverySecondCounts ==
  ASSUME NEW s \in 0 .. 59, NEW m \in 0 .. 59, NEW h \in 0 .. 23, NEW d \in 0 .. kDaysMaximum
  PROVE CountsASecond([seconds |-> s, minutes |-> m, hours |-> h, days |-> d])
<1>. DEFINE s2 == Carry(s, 60)
            m2 == IF s2 = 0 THEN Carry(m, 60) ELSE m
            h2 == IF s2 = 0 /\ m2 = 0 THEN Carry(h, 24) ELSE h
            d2 == IF (s2 = 0 /\ m2 = 0 /\ h2 = 0) /\ d < kDaysMaximum THEN d + 1 ELSE d
            u  == [seconds |-> s, minutes |-> m, hours |-> h, days |-> d]
            v  == [seconds |-> s2, minutes |-> m2, hours |-> h2, days |-> d2]
<1>1. UptimeTask(u) = v
  BY Zenon DEF UptimeTask, kSecondsPerMinute, kMinutesPerHour, kHoursPerDay
<1>2. \/ (((d2 - d) * 24 + (h2 - h)) * 60 + (m2 - m)) * 60 + (s2 - s) = 1
      \/ d = kDaysMaximum /\ s2 = 0 /\ m2 = 0 /\ h2 = 0 /\ d2 = kDaysMaximum
  <2>1. kDaysMaximum = 65535
    BY DEF kDaysMaximum, Word
  <2>2. s2 = IF s < 59 THEN s + 1 ELSE 0
    BY DEF Carry
  <2>3. m2 = IF s < 59 THEN m ELSE IF m < 59 THEN m + 1 ELSE 0
    BY <2>2 DEF Carry
  <2>4. h2 = IF s < 59 \/ m < 59 THEN h ELSE IF h < 23 THEN h + 1 ELSE 0
    BY <2>2, <2>3 DEF Carry
  <2>5. d2 = IF s < 59 \/ m < 59 \/ h < 23 \/ d = 65535 THEN d ELSE d + 1
    BY <2>1, <2>2, <2>3, <2>4
  <2>. HIDE DEF s2, m2, h2, d2
  \* the four places a second can stop at
  <2>6. \/ d2 - d = 0 /\ h2 - h = 0 /\ m2 - m = 0 /\ s2 - s = 1
        \/ d2 - d = 0 /\ h2 - h = 0 /\ m2 - m = 1 /\ s2 - s = -59
        \/ d2 - d = 0 /\ h2 - h = 1 /\ m2 - m = -59 /\ s2 - s = -59
        \/ d2 - d = 1 /\ h2 - h = -23 /\ m2 - m = -59 /\ s2 - s = -59
        \/ d = 65535 /\ s2 = 0 /\ m2 = 0 /\ h2 = 0 /\ d2 = 65535
    <3>1. s \in 0 .. 59 /\ m \in 0 .. 59 /\ h \in 0 .. 23 /\ d \in Nat /\ d <= 65535
      <4>1. d \in Nat /\ d <= kDaysMaximum
        OBVIOUS
      <4>2. s \in 0 .. 59 /\ m \in 0 .. 59 /\ h \in 0 .. 23
        OBVIOUS
      <4>. QED BY ONLY <2>1, <4>1, <4>2, SMTT(30)
    <3>2. CASE s < 59
      <4>1. s2 = s + 1 /\ m2 = m /\ h2 = h /\ d2 = d
        BY ONLY <2>2, <2>3, <2>4, <2>5, <3>2
      <4>. QED BY ONLY <3>1, <4>1
    <3>3. CASE s = 59 /\ m < 59
      <4>1. s2 = 0 /\ m2 = m + 1 /\ h2 = h /\ d2 = d
        BY ONLY <2>2, <2>3, <2>4, <2>5, <3>3
      <4>. QED BY ONLY <3>1, <3>3, <4>1
    <3>4. CASE s = 59 /\ m = 59 /\ h < 23
      <4>1. s2 = 0 /\ m2 = 0 /\ h2 = h + 1 /\ d2 = d
        BY ONLY <2>2, <2>3, <2>4, <2>5, <3>4
      <4>. QED BY ONLY <3>1, <3>4, <4>1
    <3>5. CASE s = 59 /\ m = 59 /\ h = 23
      <4>1. s2 = 0 /\ m2 = 0 /\ h2 = 0 /\ d2 = IF d = 65535 THEN d ELSE d + 1
        BY ONLY <2>2, <2>3, <2>4, <2>5, <3>5
      <4>. QED BY ONLY <3>1, <3>5, <4>1
    <3>. QED BY ONLY <3>1, <3>2, <3>3, <3>4, <3>5
  <2>7. /\ ((0 * 24 + 0) * 60 + 0) * 60 + 1 = 1
        /\ ((0 * 24 + 0) * 60 + 1) * 60 + (-59) = 1
        /\ ((0 * 24 + 1) * 60 + (-59)) * 60 + (-59) = 1
        /\ ((1 * 24 + (-23)) * 60 + (-59)) * 60 + (-59) = 1
    BY ONLY SMT
  <2>. QED BY ONLY <2>1, <2>6, <2>7, SMTT(30)
<1>. HIDE DEF s2, m2, h2, d2
<1>3. SecondsFrom(u, v) = (((d2 - d) * 24 + (h2 - h)) * 60 + (m2 - m)) * 60 + (s2 - s)
  BY Zenon DEF SecondsFrom
<1>4. CASE d = kDaysMaximum /\ s2 = 0 /\ m2 = 0 /\ h2 = 0 /\ d2 = kDaysMaximum
  <2>1. v = [seconds |-> 0, minutes |-> 0, hours |-> 0, days |-> kDaysMaximum]
    BY <1>4, Zenon
  <2>2. u.days = kDaysMaximum
    BY <1>4, Zenon
  <2>. QED BY <1>1, <2>1, <2>2, Zenon DEF CountsASecond
<1>. QED BY <1>1, <1>2, <1>3, <1>4, Zenon DEF CountsASecond

\* Whatever the clock tells, of every count it can have and every temperature it can measure, in
\* every state: the time since the start moves by the second, and the temperature is the chip's.
THEOREM UptimeAndTemperatureAreTrue == AlmanacSpec => [](UptimeCountsSeconds /\ TemperatureIsTold)
<1>1. UptimeCountsSeconds
  <2>. SUFFICES ASSUME NEW u \in Uptimes PROVE CountsASecond(u)
    BY DEF UptimeCountsSeconds
  <2>1. u \in [seconds: 0 .. 59, minutes: 0 .. 59, hours: 0 .. 23, days: 0 .. kDaysMaximum]
    BY AlmanacAssumption
  <2>2. /\ u = [seconds |-> u.seconds, minutes |-> u.minutes, hours |-> u.hours, days |-> u.days]
        /\ u.seconds \in 0 .. 59 /\ u.minutes \in 0 .. 59
        /\ u.hours \in 0 .. 23 /\ u.days \in 0 .. kDaysMaximum
    BY <2>1, Zenon
  <2>. QED BY <2>2, EverySecondCounts, Zenon
<1>2. TemperatureIsTold
  <2>. SUFFICES ASSUME NEW degrees \in -40 .. 85, NEW fraction \in 0 .. 3
                PROVE  LET reading  == AppendReading(ToTenths(degrees, fraction))
                           told     == 10 * reading.whole + reading.tenth
                           measured == 4 * degrees + fraction
                       IN  /\ Absolute(10 * measured - 4 * (IF reading.minus THEN -told ELSE told)) < 4
                           /\ reading.minus <=> measured < 0
                           /\ reading.tenth \in 0 .. 9
                           /\ LengthOfReading(reading) < kStringLength
    BY DEF TemperatureIsTold
  <2>. DEFINE measured == 4 * degrees + fraction
              size     == Absolute(measured)
              tenths   == (size * 10) \div 4
              reading  == AppendReading(ToTenths(degrees, fraction))
  <2>1. measured \in -160 .. 343 /\ size \in 0 .. 343 /\ (measured < 0 => size <= 160)
    BY DEF Absolute
  <2>2. tenths \in 0 .. 857 /\ 4 * tenths <= 10 * size /\ 10 * size < 4 * tenths + 4
        /\ (measured < 0 => tenths \in 2 .. 400)
    BY <2>1 DEF Absolute
  <2>3. ToTenths(degrees, fraction) = IF measured < 0 THEN -tenths ELSE tenths
    BY DEF ToTenths, kQuartersPerDegree, kTenthsPerDegree, Absolute
  <2>4. reading = [minus |-> measured < 0, whole |-> tenths \div 10, tenth |-> tenths % 10]
    BY <2>2, <2>3 DEF AppendReading, Absolute, kTenthsPerDegree
  <2>5. /\ 10 * (tenths \div 10) + (tenths % 10) = tenths
        /\ tenths % 10 \in 0 .. 9
        /\ tenths \div 10 \in 0 .. 85
        /\ measured < 0 => tenths \div 10 \in 0 .. 40
    BY <2>2
  <2>6. LengthOfReading(reading) < kStringLength
    BY <2>4, <2>5 DEF LengthOfReading, DigitsOfNumber, kStringLength
  <2>7. Absolute(10 * measured - 4 * (IF measured < 0 THEN -tenths ELSE tenths)) < 4
    BY <2>1, <2>2 DEF Absolute
  <2>. HIDE DEF measured, tenths, size
  <2>. HIDE DEF reading
  <2>8. (reading.minus <=> measured < 0) /\ reading.whole = tenths \div 10 /\ reading.tenth = tenths % 10
    BY ONLY <2>4
  <2>9. 10 * reading.whole + reading.tenth = tenths
    BY ONLY <2>2, <2>5, <2>8
  <2>10. measured = 4 * degrees + fraction
    BY DEF measured
  <2>11. /\ Absolute(10 * measured - 4 * (IF reading.minus THEN -(10 * reading.whole + reading.tenth)
                                         ELSE 10 * reading.whole + reading.tenth)) < 4
         /\ reading.minus <=> measured < 0
         /\ reading.tenth \in 0 .. 9
         /\ LengthOfReading(reading) < kStringLength
    BY <2>5, <2>6, <2>7, <2>8, <2>9, Zenon
  <2>. QED BY <2>10, <2>11, Zenon DEF reading
<1>. QED BY <1>1, <1>2, PTL
-----------------------------------------------------------------------------
(* The days of an overlay *)

\* An overlay with a whole date; one that is valid for its day alone has a day of every year.
WholeDate(o) ==
  /\ o.month \in 1 .. 12 /\ o.day \in 1 .. 31 /\ o.validInDays \in 0 .. 255
  /\ o.day <= GetDaysOfMonth(o.month, IF o.validInDays = 0 THEN 2023 ELSE 2024)

Matches(d, o) == d.month = o.month /\ d.day = o.day

\* The number of the day on which the overlay's date last was.
LastTime(d, o) == GetRataDieDay(YearOfDate(d, o), o.month, o.day)

LEMMA OverlaysHaveWholeDates ==
  ASSUME NEW o \in Overlays
  PROVE WholeDate(o)
BY AlmanacAssumption DEF WholeDate

\* A day that an overlay's date comes with is that date, or the first of March for a
\* twenty-ninth of February that the year does not have; a day that it does not come with
\* is another one, and the date's last time stays what it was.
LEMMA OverlayStep ==
  ASSUME NEW d, DateShape(d), NextDate(d).year \in Century, NEW o, WholeDate(o)
  PROVE /\ Comes(o, d, NextDate(d)) =>
             /\ RataOf(NextDate(d)) = LastTime(NextDate(d), o)
             /\ o.validInDays = 0 => Matches(NextDate(d), o)
        /\ ~Comes(o, d, NextDate(d)) =>
             YearOfDate(NextDate(d), o) = YearOfDate(d, o) /\ ~Matches(NextDate(d), o)
<1>0. PICK y \in Century, m \in Months, dd \in MonthDays :
        dd <= GetDaysOfMonth(m, y) /\ d = [year |-> y, month |-> m, day |-> dd]
  BY ONLY DateShape(d), Zenon DEF DateShape
<1>1. /\ y \in 2000 .. 2099 /\ m \in 1 .. 12 /\ dd \in 1 .. 31
      /\ dd <= GetDaysOfMonth(m, y)
      /\ d = [year |-> y, month |-> m, day |-> dd]
  BY <1>0 DEF Century, Months, MonthDays
<1>. DEFINE om == o.month
            od == o.day
            ov == o.validInDays
<1>2. /\ om \in 1 .. 12 /\ od \in 1 .. 31 /\ ov \in 0 .. 255
      /\ om = o.month /\ od = o.day /\ ov = o.validInDays
      /\ od <= GetDaysOfMonth(om, IF ov = 0 THEN 2023 ELSE 2024)
  BY DEF WholeDate
<1>. HIDE DEF om, od, ov
<1>3. CASE dd < GetDaysOfMonth(m, y)
  <2>1. NextDate(d) = [year |-> y, month |-> m, day |-> dd + 1]
    BY <1>1, <1>3 DEF NextDate
  <2>2. Comes(o, d, NextDate(d)) <=> m = om /\ dd + 1 = od
    BY <1>1, <1>2, <2>1 DEF Comes, IsBeforeInYear
  <2>3. CASE m = om /\ dd + 1 = od
    <3>1. NextDate(d) = [year |-> y, month |-> om, day |-> od]
      BY <2>1, <2>3
    <3>2. YearOfDate(NextDate(d), o) = y
      BY <1>1, <1>2, <3>1 DEF YearOfDate, IsBeforeInYear
    <3>3. RataOf(NextDate(d)) = LastTime(NextDate(d), o) /\ Matches(NextDate(d), o)
      BY <1>2, <3>1, <3>2 DEF LastTime, RataOf, Matches
    <3>. QED BY ONLY <2>2, <2>3, <3>3, Zenon
  <2>4. CASE ~(m = om /\ dd + 1 = od)
    <3>1. ~Matches(NextDate(d), o)
      BY <1>2, <2>1, <2>4 DEF Matches
    <3>2. IsBeforeInYear(NextDate(d), o) <=> IsBeforeInYear(d, o)
      BY <1>1, <1>2, <2>1, <2>4 DEF IsBeforeInYear
    <3>. QED BY <1>1, <2>1, <2>2, <2>4, <3>1, <3>2 DEF YearOfDate
  <2>. QED BY <2>3, <2>4
<1>4. CASE dd = GetDaysOfMonth(m, y) /\ m < 12
  <2>1. NextDate(d) = [year |-> y, month |-> m + 1, day |-> 1]
    <3>1. ~(dd < GetDaysOfMonth(m, y))
      BY <1>4, <1>1 DEF GetDaysOfMonth
    <3>. QED BY <1>1, <1>4, <3>1 DEF NextDate
  <2>2. Comes(o, d, NextDate(d)) <=> (m < om \/ (m = om /\ dd < od)) /\ ~(m + 1 < om \/ (m + 1 = om /\ 1 < od))
    BY <1>1, <1>2, <2>1 DEF Comes, IsBeforeInYear
  <2>3. CASE Comes(o, d, NextDate(d))
    <3>1. \/ om = m + 1 /\ od = 1
          \/ om = m /\ dd < od
      BY <1>1, <1>2, <2>2, <2>3
    <3>2. CASE om = m + 1 /\ od = 1
      <4>1. NextDate(d) = [year |-> y, month |-> om, day |-> od]
        BY <2>1, <3>2
      <4>2. YearOfDate(NextDate(d), o) = y
        BY <1>1, <1>2, <4>1 DEF YearOfDate, IsBeforeInYear
      <4>3. RataOf(NextDate(d)) = LastTime(NextDate(d), o) /\ Matches(NextDate(d), o)
        BY <1>2, <4>1, <4>2 DEF LastTime, RataOf, Matches
      <4>. QED BY ONLY <2>3, <4>3, Zenon
    <3>3. CASE om = m /\ dd < od
      <4>1. m = 2 /\ dd = 28 /\ od = 29 /\ ov # 0
        BY <1>1, <1>2, <1>4, <3>3 DEF GetDaysOfMonth
      <4>2. NextDate(d) = [year |-> y, month |-> 3, day |-> 1] /\ om = 2
        BY <2>1, <3>3, <4>1
      <4>3. YearOfDate(NextDate(d), o) = y
        BY <1>2, <4>1, <4>2 DEF YearOfDate, IsBeforeInYear
      <4>4. y % 4 # 0
        BY <1>1, <1>4, <4>1 DEF GetDaysOfMonth
      <4>5. GetRataDieDay(y, 3, 1) = GetRataDieDay(y, 2, 29)
        BY <1>1, <4>4 DEF GetRataDieDay
      <4>. QED BY <1>2, <2>3, <4>1, <4>2, <4>3, <4>5 DEF LastTime, RataOf
    <3>. QED BY <3>1, <3>2, <3>3, <2>3
  <2>4. CASE ~Comes(o, d, NextDate(d))
    BY <1>1, <1>2, <2>1, <2>2, <2>4 DEF IsBeforeInYear, YearOfDate, Matches
  <2>. QED BY <2>3, <2>4
<1>5. CASE dd = GetDaysOfMonth(m, y) /\ m = 12
  <2>1. dd = 31
    BY <1>5 DEF GetDaysOfMonth
  <2>2. NextDate(d) = [year |-> y + 1, month |-> 1, day |-> 1]
    BY <1>1, <1>5, <2>1 DEF NextDate
  <2>3. ~IsBeforeInYear(d, o)
    BY <1>1, <1>2, <1>5, <2>1 DEF IsBeforeInYear
  <2>4. IsBeforeInYear(NextDate(d), o) <=> ~(om = 1 /\ od = 1)
    BY <1>2, <2>2 DEF IsBeforeInYear
  <2>5. Comes(o, d, NextDate(d)) <=> om = 1 /\ od = 1
    BY <1>1, <2>2, <2>3, <2>4 DEF Comes
  <2>6. YearOfDate(d, o) = y /\ YearOfDate(NextDate(d), o) = IF om = 1 /\ od = 1 THEN y + 1 ELSE y
    BY <1>1, <2>2, <2>3, <2>4 DEF YearOfDate
  <2>. QED BY <1>2, <2>2, <2>5, <2>6 DEF LastTime, RataOf, Matches
<1>. QED BY <1>1, <1>3, <1>4, <1>5 DEF GetDaysOfMonth

\* What is counted of an overlay is the number of days since its date last was; it is none
\* on the date itself and on no other day.
CountsTheDays(o) ==
  since[o] # NotYet =>
    /\ since[o] \in Nat
    /\ since[o] = RataOf(date) - LastTime(date, o)
    /\ o.validInDays = 0 => (since[o] = 0 <=> Matches(date, o))

CountInv == since \in [Overlays -> Int] /\ \A o \in Overlays : CountsTheDays(o)

LEMMA LastTimeIsInt ==
  ASSUME NEW d, DateShape(d), NEW o, WholeDate(o)
  PROVE LastTime(d, o) \in Int
<1>1. YearOfDate(d, o) \in Int
  BY DEF DateShape, YearOfDate, Century
<1>2. o.month \in Int /\ o.day \in Int
  BY DEF WholeDate
<1>. QED BY <1>1, <1>2 DEF LastTime, GetRataDieDay

LEMMA MidnightCounts ==
  ASSUME AlmanacInv, CountInv, DayPasses
  PROVE CountInv'
<1>1. Years \subseteq Century
  BY AlmanacAssumption DEF Century
<1>2. DateShape(date) /\ date' = NextDate(date) /\ NextDate(date).year \in Century
  <2>1. NextDate(date).year \in Years /\ date' = NextDate(date)
    BY DEF DayPasses
  <2>. QED BY ONLY <1>1, <2>1, AlmanacInv, Zenon DEF AlmanacInv
<1>3. DateShape(date') /\ RataOf(date') = RataOf(date) + 1
  BY MidnightIsADay
<1>4. RataOf(date) \in Int /\ RataOf(date') \in Int
  BY <1>2, <1>3, RataIsInt
<1>5. since' = [o \in Overlays |->
        IF Comes(o, date, date') THEN 0
        ELSE IF since[o] = NotYet THEN NotYet ELSE since[o] + 1]
  BY DEF DayPasses
<1>6. since' \in [Overlays -> Int]
  BY <1>5 DEF CountInv, NotYet
<1>7. ASSUME NEW o \in Overlays
      PROVE  CountsTheDays(o)'
  <2>1. WholeDate(o)
    BY OverlaysHaveWholeDates
  <2>2. LastTime(date, o) \in Int /\ LastTime(date', o) \in Int
    BY <1>2, <1>3, <2>1, LastTimeIsInt
  <2>3. CASE Comes(o, date, date')
    <3>1. since'[o] = 0
      BY <1>5, <2>3
    <3>2. RataOf(date') = LastTime(date', o) /\ (o.validInDays = 0 => Matches(date', o))
      BY <1>2, <2>1, <2>3, OverlayStep
    <3>. QED BY <1>4, <2>2, <3>1, <3>2 DEF CountsTheDays
  <2>4. CASE ~Comes(o, date, date')
    <3>1. since'[o] = IF since[o] = NotYet THEN NotYet ELSE since[o] + 1
      BY <1>5, <2>4
    <3>2. YearOfDate(date', o) = YearOfDate(date, o) /\ ~Matches(date', o)
      BY <1>2, <2>1, <2>4, OverlayStep
    <3>3. LastTime(date', o) = LastTime(date, o)
      BY <3>2 DEF LastTime
    <3>4. CASE since[o] = NotYet
      BY <3>1, <3>4 DEF CountsTheDays
    <3>5. CASE since[o] # NotYet
      <4>1. since[o] \in Nat /\ since[o] = RataOf(date) - LastTime(date, o)
        BY <3>5 DEF CountInv, CountsTheDays
      <4>. QED BY <1>3, <1>4, <2>2, <3>1, <3>2, <3>3, <3>5, <4>1 DEF CountsTheDays
    <3>. QED BY <3>4, <3>5
  <2>. QED BY <2>3, <2>4
<1>. QED BY <1>6, <1>7 DEF CountInv

LEMMA CountStep == AlmanacInv /\ CountInv /\ [AlmanacNext]_almanacVars => CountInv'
<1>. SUFFICES ASSUME AlmanacInv, CountInv, [AlmanacNext]_almanacVars PROVE CountInv'
  OBVIOUS
<1>1. CASE Midnight
  BY <1>1, MidnightCounts DEF Midnight
<1>2. CASE UNCHANGED << date, since >>
  BY <1>2 DEF CountInv, CountsTheDays
<1>. QED BY <1>1, <1>2 DEF AlmanacNext, MinutePasses, ChangeMode, ChangeItIs, almanacVars

\* An overlay is shown on its date and on as many days after it as it is valid for, over every
\* end of a month and of a year of the century, whatever its date and however long it is valid
\* (Overlay::IsDateValid(), IsDateMatching()).
THEOREM OverlaysLastTheirDays == AlmanacSpec => []OverlayDaysAreCounted
<1>1. AlmanacInit => CountInv
  <2>1. NotYet \in Int
    BY DEF NotYet
  <2>. QED BY <2>1 DEF AlmanacInit, CountInv, CountsTheDays
<1>2. AlmanacInv /\ CountInv /\ [AlmanacNext]_almanacVars => CountInv'
  BY CountStep
<1>3. AlmanacInv /\ CountInv => OverlayDaysAreCounted
  <2>. SUFFICES ASSUME AlmanacInv, CountInv, NEW o \in Overlays, since[o] # NotYet
                PROVE IsDayOfOverlay(date, o) <=> since[o] <= o.validInDays
    BY DEF OverlayDaysAreCounted
  <2>1. WholeDate(o)
    BY OverlaysHaveWholeDates
  <2>2. o.month \in 1 .. 12 /\ o.day \in 1 .. 31 /\ o.validInDays \in 0 .. 255
    BY <2>1 DEF WholeDate
  <2>3. IsDateSet(o)
    BY <2>2 DEF IsDateSet
  <2>4. since[o] \in Nat /\ since[o] = RataOf(date) - LastTime(date, o)
          /\ (o.validInDays = 0 => (since[o] = 0 <=> Matches(date, o)))
    BY DEF CountInv, CountsTheDays
  <2>5. CASE o.validInDays = 0
    <3>1. IsDayOfOverlay(date, o) <=> Matches(date, o)
      BY <2>2, <2>3, <2>5 DEF IsDayOfOverlay, IsDateMatching, Matches
    <3>. QED BY <2>4, <2>5, <3>1
  <2>6. CASE o.validInDays # 0
    <3>1. IsDayOfOverlay(date, o) <=> IsDateValid(date, o)
      BY <2>2, <2>3, <2>6 DEF IsDayOfOverlay
    <3>2. RataOf(date) \in Int /\ LastTime(date, o) \in Int
      BY <2>1, RataIsInt, LastTimeIsInt DEF AlmanacInv
    <3>3. GetPassedDays(date, YearOfDate(date, o), o.month, o.day) = since[o]
      BY <2>4, <3>2 DEF GetPassedDays, RataOf, LastTime
    <3>. QED BY <3>1, <3>3 DEF IsDateValid
  <2>. QED BY <2>5, <2>6
<1>. QED BY <1>1, <1>2, <1>3, ClockTellsADate, PTL DEF AlmanacSpec
==============================================================================
