------------------------------ MODULE Almanac ------------------------------
(***************************************************************************)
(* A wall clock that runs through days and years, and everything that the  *)
(* firmware derives from a date and a time of day: the words, the night,   *)
(* the days of an overlay, and the day counts of its calendars.            *)
(*                                                                         *)
(* The minutes pass one by one on one day that is watched; on the others   *)
(* the clock leaps from midnight to midnight.                              *)
(***************************************************************************)
EXTENDS ClockDate, ClockWords

CONSTANTS
  Years,        \* bound: the years that pass, each from its first day
  WatchedDate,  \* bound: the date whose every minute passes
  Windows,      \* bound: the windows asked for, pairs of minutes of the day
  Overlays,     \* bound: overlays with a whole date, and for how many days they are valid
  Uptimes       \* bound: counts of the time since the start that another second is added to

ASSUME AlmanacAssumption ==
  /\ Years \subseteq 2000 .. 2099
  /\ Windows \subseteq (0 .. MinutesPerDay - 1) \X (0 .. MinutesPerDay - 1)
  /\ Uptimes \subseteq [seconds: 0 .. 59, minutes: 0 .. 59, hours: 0 .. 23, days: 0 .. kDaysMaximum]
  /\ Overlays \subseteq [month: 1 .. 12, day: 1 .. 31, validInDays: 0 .. 255]
  /\ \A o \in Overlays : o.day <= GetDaysOfMonth(o.month, IF o.validInDays = 0 THEN 2023 ELSE 2024)

VARIABLES
  date,      \* the date of date_time_
  minute,    \* its time of day
  mode,      \* Clock::mode_
  showItIs,  \* show_it_is_permanently_
  since      \* days since each overlay's date last was, or that it has not been yet

almanacVars == << date, minute, mode, showItIs, since >>

NotYet == -1

\* The chip and the C library count days as the calendar on the wall does.
NextDate(d) ==
  IF d.day < GetDaysOfMonth(d.month, d.year)
    THEN [year |-> d.year, month |-> d.month, day |-> d.day + 1]
  ELSE IF d.month < 12 THEN [year |-> d.year, month |-> d.month + 1, day |-> 1]
  ELSE [year |-> d.year + 1, month |-> 1, day |-> 1]

\* From one day to the next an overlay's date was, or begins today.
Comes(o, d, e) ==
  \/ IsBeforeInYear(d, o) /\ ~IsBeforeInYear(e, o)
  \/ d.year # e.year /\ (IsBeforeInYear(d, o) \/ ~IsBeforeInYear(e, o))

DayPasses ==
  /\ NextDate(date).year \in Years
  /\ date' = NextDate(date)
  /\ minute' = 0
  /\ since' = [o \in Overlays |->
       IF Comes(o, date, date') THEN 0
       ELSE IF since[o] = NotYet THEN NotYet ELSE since[o] + 1]
  /\ UNCHANGED << mode, showItIs >>

AlmanacInit ==
  /\ date \in {[year |-> y, month |-> 1, day |-> 1] : y \in Years}
  /\ minute = 0
  /\ mode = 1
  /\ showItIs = TRUE
  /\ since = [o \in Overlays |-> NotYet]

MinutePasses ==
  /\ date = WatchedDate
  /\ minute < MinutesPerDay - 1
  /\ minute' = minute + 1
  /\ UNCHANGED << date, mode, showItIs, since >>

Midnight == (date = WatchedDate => minute = MinutesPerDay - 1) /\ DayPasses

\* CLOCK_MODE, and the button of that name.
ChangeMode == date = WatchedDate /\ mode' = NextMode(mode) /\ UNCHANGED << date, minute, showItIs, since >>

\* CLOCK_MODE -I.
ChangeItIs == date = WatchedDate /\ showItIs' = ~showItIs /\ UNCHANGED << date, minute, mode, since >>

AlmanacNext == MinutePasses \/ Midnight \/ ChangeMode \/ ChangeItIs

AlmanacSpec == AlmanacInit /\ [][AlmanacNext]_almanacVars

-----------------------------------------------------------------------------
(* Properties *)

AlmanacTypeOK ==
  /\ IsDate(date)
  /\ minute \in 0 .. MinutesPerDay - 1
  /\ mode \in 1 .. Len(Modes)
  /\ showItIs \in BOOLEAN

ClockList == GetWordsList(minute \div 60, minute % 60, mode, showItIs)

\* In every region and at every minute the words, read aloud, are the time, to the five
\* minutes the face can tell, and none is needed twice (Clock::GetClockWords()).
WordsTellTheTime ==
  /\ TimeRead(ClockList) = (5 * (minute \div 5)) % 720
  /\ IsInjective(ClockList)

\* The window of the night is one span: from its start to its end, over midnight or not,
\* and none if they are the same minute (NightSwitch::IsWithinWindow()).
NightIsTheSpan ==
  \A w \in Windows : IsWithinWindow(minute, w[1], w[2]) <=> IsInTheSpan(minute, w[1], w[2])

\* From one count of the time since the start to another.
SecondsFrom(u, v) ==
  (((v.days - u.days) * 24 + (v.hours - u.hours)) * 60 + (v.minutes - u.minutes)) * 60
    + (v.seconds - u.seconds)

\* A second counted is a second more, whichever places it rolls over, and the days never go
\* back: at their last one the hours begin again and the days stay (Uptime::Task()).
CountsASecond(u) ==
  \/ SecondsFrom(u, UptimeTask(u)) = 1
  \/ u.days = kDaysMaximum /\ UptimeTask(u) = [seconds |-> 0, minutes |-> 0, hours |-> 0, days |-> kDaysMaximum]

UptimeCountsSeconds == \A u \in Uptimes : CountsASecond(u)

\* What is written of a temperature, read aloud, is what the chip measured, less than a tenth
\* off; a minus stands only before what lies below zero, the tenth is one digit, and the text
\* fits its buffer at every temperature the chip can measure (Temperature::AppendReading()).
TemperatureIsTold ==
  \A degrees \in -40 .. 85, fraction \in 0 .. 3 :
    LET reading  == AppendReading(ToTenths(degrees, fraction))
        told     == 10 * reading.whole + reading.tenth
        measured == 4 * degrees + fraction
    IN  /\ Absolute(10 * measured - 4 * (IF reading.minus THEN -told ELSE told)) < 4
        /\ reading.minus <=> measured < 0
        /\ reading.tenth \in 0 .. 9
        /\ LengthOfReading(reading) < kStringLength

\* What the clock tells is what there is to tell: the minute in words, the night, the time
\* since the start and the temperature.
WhatIsToldIsTrue ==
  /\ WordsTellTheTime
  /\ NightIsTheSpan
  /\ UptimeCountsSeconds
  /\ TemperatureIsTold

\* An overlay is shown on its date and on as many days after it as it is valid for, counted
\* one by one over the ends of months and years (Overlay::IsDateValid()).
OverlayDaysAreCounted ==
  \A o \in Overlays : since[o] # NotYet => (IsDayOfOverlay(date, o) <=> since[o] <= o.validInDays)

\* From one midnight to the next every count of days counts one: the weekday, the days an
\* overlay's window is measured in, and the day the system clock gets from what the chip
\* kept of the date (ClockDate::GetWeekday(), GetRataDieDay(), DaysFromCivil(), the BCD).
EveryDayCounts ==
  [][Midnight =>
      /\ GetWeekday(date') = (GetWeekday(date) + 1) % 7
      /\ GetRataDieDay(date'.year, date'.month, date'.day)
           = GetRataDieDay(date.year, date.month, date.day) + 1
      /\ SystemDay(Registers(date')) = SystemDay(Registers(date)) + 1]_almanacVars
=============================================================================
