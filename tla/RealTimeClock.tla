--------------------------- MODULE RealTimeClock ---------------------------
(***************************************************************************)
(* The time of a clock that has both a system clock, which a power cut     *)
(* empties and SNTP sets, and a DS3231 on a battery, which keeps UTC:      *)
(* RealTimeClock of the esp32 and, line for line, of the rp2350.           *)
(*                                                                         *)
(* Time is counted in units, some of which make an hour, in a calendar of a*)
(* few days that begins again after its last: the year 2000, in which the  *)
(* firmware starts and into which it folds a UTC time of the year before.  *)
(***************************************************************************)
EXTENDS Integers

CONSTANTS
  UnitsPerHour, HoursPerDay, Days,   \* bound: the calendar
  WinterHours, SummerHours,          \* the zone rule: how far local time is ahead of UTC
  SummerBegins, SummerEnds,          \* and when, in UTC, the one gives way to the other
  ReadInterval,                      \* kChipReadInterval: ticks from one attempt to the next
  Outages,                           \* bound: how long the power may be gone, in units
  MaxEvents                          \* bound: power cuts, SNTP answers and commands

DayLength == UnitsPerHour * HoursPerDay
Calendar == DayLength * Days
Times == 0 .. Calendar - 1

ASSUME RealTimeClockAssumption ==
  /\ {UnitsPerHour, HoursPerDay, Days} \subseteq Nat \ {0}
  /\ {WinterHours, SummerHours} \subseteq 0 .. HoursPerDay
  /\ {SummerBegins, SummerEnds} \subseteq Times
  /\ Outages \subseteq Times
  /\ {ReadInterval, MaxEvents} \subseteq Nat

Unset == -1            \* 1970, which ClockDate refuses
NoHourWritten == -1    \* kNoHourWritten
Nothing == -1          \* no time the clock could be meant to tell

VARIABLES
  system,         \* the system clock, UTC
  chip,           \* the time in the chip's registers, and whether its oscillator had stopped
  dateTime,       \* date_time_, local
  hourWritten,    \* hour_written_to_chip_
  readCountdown,  \* chip_read_countdown_
  \* what only bounds and properties read
  events,         \* events so far
  meant,          \* the time that whoever set the clock last meant it to tell by now, UTC
  kept            \* the time the chip's registers were last given, by now, or Nothing once a
                  \* write of them was given up midway or the battery ran out

vars == << system, chip, dateTime, hourWritten, readCountdown, events, meant, kept >>

-----------------------------------------------------------------------------
(* The C library's conversions under the zone rule. *)

Later(t, units) == IF t = Unset THEN Unset ELSE (t + units) % Calendar

HoursAhead(t) == IF t \in SummerBegins .. SummerEnds - 1 THEN SummerHours ELSE WinterHours

\* localtime_r().
LocalTime(t) == Later(t, UnitsPerHour * HoursAhead(t))

\* mktime() with tm_isdst unknown: of an hour told twice it takes either, of one left out
\* either of the two the rule would have for it.
Mktime == [local \in Times |->
  LET toldSo == {t \in Times : LocalTime(t) = local}
  IN  IF toldSo # {} THEN toldSo
      ELSE {(local - UnitsPerHour * hours) % Calendar : hours \in {WinterHours, SummerHours}}]

HourOf(t) == (t % DayLength) \div UnitsPerHour

-----------------------------------------------------------------------------
(* DS3231: each of its transfers may go unanswered, or be given up between two bytes. *)

Counting(units) == [chip EXCEPT !.time = Later(@, units)]

\* A write of the seven registers given up: those before the byte that failed are written,
\* and they are the seconds, the minutes, the hours and then the date.
PartlyWritten(old, new) ==
  LET Hour(t) == t \div UnitsPerHour
      Day(t)  == t \div DayLength
  IN  {old, Hour(old) * UnitsPerHour + (new % UnitsPerHour),
       Day(old) * DayLength + (new % DayLength), new}

\* DS3231::SetDateTime(): as many of the registers as the chip takes, and the flag only over
\* all of them.
ChipAfterWrite(c, utc) ==
  {[c EXCEPT !.time = t] : t \in PartlyWritten(c.time, utc)}
    \union {[time |-> utc, stopped |-> FALSE]}

\* GetDateTime() hands over a time only of an oscillator that never stopped.
IsBelievable(c) == ~c.stopped

-----------------------------------------------------------------------------

TypeOK ==
  /\ {system, meant, kept} \subseteq Times \union {Unset}
  /\ chip \in [time: Times, stopped: BOOLEAN]
  /\ dateTime \in Times
  /\ hourWritten \in 0 .. HoursPerDay - 1 \union {NoHourWritten}
  /\ readCountdown \in 0 .. ReadInterval
  /\ events \in 0 .. MaxEvents

\* A start, over a chip that went on counting or is new.
Started ==
  /\ system' = Unset
  /\ dateTime' = 0
  /\ hourWritten' = NoHourWritten
  /\ readCountdown' = 0

Init ==
  /\ system = Unset
  /\ chip \in [time: {0}, stopped: BOOLEAN]
  /\ dateTime = 0
  /\ hourWritten = NoHourWritten
  /\ readCountdown = 0
  /\ events = 0
  /\ meant = (IF chip.stopped THEN Nothing ELSE chip.time)
  /\ kept = meant

Counts == events < MaxEvents /\ events' = events + 1

\* The chip takes a new time, all of it, its registers alone, the first of them, or none.
Writes(utc, units) ==
  \E written \in ChipAfterWrite(Counting(units), utc) :
    /\ chip' = written
    /\ kept' = IF written.time = utc THEN meant'
               ELSE IF written = Counting(units) THEN Later(kept, units) ELSE Nothing

\* Takes the first write for the last one owed.
IsHourWritten_Once(now) == hourWritten # NoHourWritten

\* WriteChip() is through at once in an hour that it has written.
IsHourWritten(now) == HourOf(LocalTime(now)) = hourWritten

\* Task() with a system clock that is set, `units` after the last: its hour is written.
TaskKeepsHour(units) ==
  LET now == Later(system, units) IN
  /\ system # Unset
  /\ IsHourWritten(now)
  /\ system' = now
  /\ dateTime' = LocalTime(now)
  /\ chip' = Counting(units)
  /\ meant' = Later(meant, units)
  /\ kept' = Later(kept, units)
  /\ UNCHANGED << hourWritten, readCountdown, events >>

\* In any other the hour counts as written whether or not the chip takes it.
TaskWrites(units) ==
  LET now == Later(system, units) IN
  /\ system # Unset
  /\ ~IsHourWritten(now)
  /\ system' = now
  /\ dateTime' = LocalTime(now)
  /\ meant' = Later(meant, units)
  /\ Writes(now, units)
  /\ hourWritten' = HourOf(LocalTime(now))
  /\ UNCHANGED << readCountdown, events >>

\* Begins anew a tick before it is through.
CountedDown_TooSoon == IF readCountdown > 1 THEN readCountdown - 1 ELSE ReadInterval

\* chip_read_countdown_, one tick on.
CountedDown == IF readCountdown > 0 THEN readCountdown - 1 ELSE ReadInterval

\* Task() with one that is not: ReadChip() waits, or asks in vain.
TaskWaits(units) ==
  /\ system = Unset
  /\ readCountdown' = CountedDown
  /\ chip' = Counting(units)
  /\ meant' = Later(meant, units)
  /\ kept' = Later(kept, units)
  /\ UNCHANGED << system, dateTime, hourWritten, events >>

\* ReadChip(): what is read is shown from the next Task() on.
TaskReads(units) ==
  /\ system = Unset
  /\ readCountdown = 0
  /\ readCountdown' = CountedDown
  /\ IsBelievable(chip)
  /\ chip' = Counting(units)
  /\ system' = chip'.time
  /\ hourWritten' = HourOf(chip'.time)
  /\ meant' = Later(meant, units)
  /\ kept' = Later(kept, units)
  /\ UNCHANGED << dateTime, events >>

Task(units) == TaskKeepsHour(units) \/ TaskWrites(units) \/ TaskWaits(units) \/ TaskReads(units)

\* Between two tasks the clocks count a unit, or have not come to its end.
Tick == \E units \in {0, 1} : Task(units)

\* SNTP sets the system clock behind the firmware's back.
SntpAnswer ==
  /\ Counts
  /\ system' \in Times
  /\ meant' = system'
  /\ UNCHANGED << chip, dateTime, hourWritten, readCountdown, kept >>

\* RealTimeClock::SetDateTime(): the chip is written on the next Task().
SetDateTime(local) ==
  /\ dateTime' = local
  /\ system' \in Mktime[local]
  /\ hourWritten' = NoHourWritten

SetBy(local) ==
  /\ Counts
  /\ SetDateTime(local)
  /\ meant' = system'
  /\ UNCHANGED << chip, readCountdown, kept >>

\* TIME: its options replace parts of the time of day, and the whole is set.
SetTime == \E timeOfDay \in 0 .. DayLength - 1 :
  SetBy((dateTime \div DayLength) * DayLength + timeOfDay)

\* DATE: likewise of the date.
SetDate == \E day \in 0 .. Days - 1 :
  SetBy(day * DayLength + (dateTime % DayLength))

\* TIME or DATE without an option.
Query == SetBy(dateTime)

\* The plug is pulled and put back later; the battery lasts, or does not.
PowerCut ==
  /\ Counts
  /\ Started
  /\ \E units \in Outages :
       \/ chip' = Counting(units) /\ kept' = Later(kept, units)
       \/ chip' = [time |-> units, stopped |-> TRUE] /\ kept' = Nothing
  /\ meant' = kept'

Next == Tick \/ SntpAnswer \/ SetTime \/ SetDate \/ Query \/ PowerCut

Spec == Init /\ [][Next]_vars

\* The loop runs and time passes; a transfer does not fail every time it is tried.
FairSpec ==
  /\ Spec
  /\ WF_vars(Task(1))
  /\ SF_vars(TaskReads(0) \/ TaskReads(1))
  /\ SF_vars((TaskWrites(0) \/ TaskWrites(1)) /\ chip'.time = system' /\ ~chip'.stopped)

-----------------------------------------------------------------------------
(* Properties *)

\* The clock tells what it was last told, by SNTP, by hand or, after a power cut, by the
\* chip, which had kept what it was told: over both conversions, any run of failed
\* transfers and a dead battery (RealTimeClock::ReadChip(), DS3231::SetDateTime()).  The
\* power cut that finds the chip half written takes the time with it: what comes back is
\* nobody's, and is shown until somebody sets the clock.
TellsTheTimeItWasGiven == system # Unset /\ meant # Nothing => system = meant

\* However the clock was set, the chip ends up telling the same time, and with its
\* oscillator's mark cleared: what a power cut from then on brings back (WriteChip()).
ChipCatchesUp == <>[](system # Unset => chip = [time |-> system, stopped |-> FALSE])

=============================================================================
