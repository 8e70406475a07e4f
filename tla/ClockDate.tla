----------------------------- MODULE ClockDate -----------------------------
(***************************************************************************)
(* Dates as the firmware counts them: the weekday, the days between two    *)
(* dates, the days since the system clock's epoch, and the registers of a  *)
(* chip that keeps a date in binary-coded decimals.                        *)
(***************************************************************************)
EXTENDS Integers, Sequences

\* A byte and a YearType: what the weekday is summed in.
Byte == 256
Word == 65536

IsYearValid(year) == year \in 2000 .. 2099
IsMonthValid(month) == month \in 1 .. 12
IsDayValid(day) == day \in 1 .. 31

\* GetDaysOfMonth(): every fourth year of the century that ClockDate covers is a leap year.
GetDaysOfMonth(month, year) ==
  CASE month \in {4, 6, 9, 11}            -> 30
    [] month = 2 /\ year % 4 = 0          -> 29
    [] month = 2 /\ year % 4 # 0          -> 28
    [] month \in {1, 3, 5, 7, 8, 10, 12}  -> 31
    [] OTHER                              -> 0

\* A date of the calendar.
IsDate(d) == IsYearValid(d.year) /\ IsMonthValid(d.month) /\ d.day \in 1 .. GetDaysOfMonth(d.month, d.year)

\* The sum that Keith and Craver's formula takes modulo 7, `dayAndYear` being the sum of the
\* day and the year, or of the day and the year before last.
WeekdayOf(date, dayAndYear) ==
  LET counted == IF date.month < 3 THEN date.year - 1 ELSE date.year
  IN  ((23 * date.month) \div 9 + dayAndYear + 4
         + counted \div 4 - counted \div 100 + counted \div 400) % 7

DayAndYear(date) == date.day + (IF date.month < 3 THEN date.year ELSE date.year - 2)

\* The day and the year added in the day's own byte.
GetWeekday_InAByte(date) == WeekdayOf(date, DayAndYear(date) % Byte)

GetWeekday(date) == WeekdayOf(date, DayAndYear(date) % Word)

\* GetRataDieDay(): January and February are the last months of the year before.
GetRataDieDay(year, month, day) ==
  LET y == IF month < 3 THEN year - 1 ELSE year
      m == IF month < 3 THEN month + 12 ELSE month
  IN  365 * y + y \div 4 - y \div 100 + y \div 400 + (153 * m - 457) \div 5 + day - 306

\* GetPassedDays(): in either direction.
GetPassedDays(date, year, month, day) ==
  LET requested == GetRataDieDay(year, month, day)
      current == GetRataDieDay(date.year, date.month, date.day)
  IN  IF requested >= current THEN requested - current ELSE current - requested

\* DaysFromCivil(), for the years from 1 on.
DaysFromCivil(year, month, day) ==
  LET y == IF month <= 2 THEN year - 1 ELSE year
      era == y \div 400
      yearOfEra == y - era * 400
      dayOfYear == (153 * (month + (IF month > 2 THEN -3 ELSE 9)) + 2) \div 5 + day - 1
      dayOfEra == yearOfEra * 365 + yearOfEra \div 4 - yearOfEra \div 100 + dayOfYear
  IN  era * 146097 + dayOfEra - 719468

-----------------------------------------------------------------------------
(* The registers of the DS3231. *)

ToBcd(value) == (value \div 10) * 16 + (value % 10)
FromBcd(value) == (value \div 16) * 10 + (value % 16)

\* The bits a register holds beside its value are masked off on the way in.
Masked(value, limit) == value % limit

\* DS3231::SetDateTime(), of the date.
Registers(date) ==
  [ day |-> ToBcd(date.day), month |-> ToBcd(date.month), year |-> ToBcd(date.year - 2000) ]

\* DS3231::GetDateTime(): a day, month or year the setters refuse is a chip that has none.
DateOf(registers) ==
  [ year  |-> 2000 + FromBcd(registers.year),
    month |-> FromBcd(Masked(registers.month, 32)),
    day   |-> FromBcd(registers.day) ]

\* The day the system clock is set to by a chip that kept the date: ToSecondsUtc().
SystemDay(registers) ==
  LET d == DateOf(registers) IN DaysFromCivil(d.year, d.month, d.day)

(***************************************************************************)
(* The two windows of time that settings describe: the part of the day the *)
(* night switch calls night, and the days of the year an overlay is shown  *)
(* on.                                                                     *)
(***************************************************************************)

MinutesPerDay == 24 * 60

\* NightSwitch::IsWithinWindow(): an empty window is none, and one whose start is the later
\* of its ends crosses midnight.
IsWithinWindow(now, start, end) ==
  /\ start # end
  /\ IF start > end THEN now >= start \/ now < end ELSE now >= start /\ now < end

\* The same night told without its two cases: the window has opened and is not over.
IsInTheSpan(now, start, end) ==
  (now - start) % MinutesPerDay < (end - start) % MinutesPerDay

-----------------------------------------------------------------------------
(* An overlay's date: a month, a day, and for how many days it is valid; 0 is none. *)

IsDateSet(o) == o.month # 0 \/ o.day # 0

IsBeforeInYear(date, o) ==
  date.month < o.month \/ (date.month = o.month /\ date.day < o.day)

\* The year in which the date last was, of a date that a year begins with.
YearOfDate_ThisYear(date, o) == date.year

\* IsDateValid() asks for the date's last time on or before today.
YearOfDate(date, o) == IF IsBeforeInYear(date, o) THEN date.year - 1 ELSE date.year

IsDateValid(date, o) ==
  GetPassedDays(date, YearOfDate(date, o), o.month, o.day) <= o.validInDays

\* IsDateMatching(): only what is set has to match.
IsDateMatching(date, o) ==
  /\ IsDateSet(o)
  /\ o.month # 0 => date.month = o.month
  /\ o.day # 0 => date.day = o.day

\* IdleTask() and CheckDateAndSetStateToShow(), past the time of day.
IsDayOfOverlay(date, o) ==
  IF ~IsDateSet(o) THEN TRUE
  ELSE IF o.validInDays # 0 /\ o.day # 0 /\ o.month # 0 THEN IsDateValid(date, o)
  ELSE IsDateMatching(date, o)

-----------------------------------------------------------------------------
(* Uptime: places that carry into each other, and days that stop at what a word holds. *)

kSecondsPerMinute == 60
kMinutesPerHour == 60
kHoursPerDay == 24
kDaysMaximum == Word - 1

\* A place that has rolled over is at zero.
Carry(value, limit) == IF value + 1 < limit THEN value + 1 ELSE 0

\* Task(), once a second.
UptimeTask(uptime) ==
  LET seconds == Carry(uptime.seconds, kSecondsPerMinute)
      minutes == IF seconds = 0 THEN Carry(uptime.minutes, kMinutesPerHour) ELSE uptime.minutes
      toHours == seconds = 0 /\ minutes = 0
      hours   == IF toHours THEN Carry(uptime.hours, kHoursPerDay) ELSE uptime.hours
      toDays  == toHours /\ hours = 0
  IN  [seconds |-> seconds, minutes |-> minutes, hours |-> hours,
       days |-> IF toDays /\ uptime.days < kDaysMaximum THEN uptime.days + 1 ELSE uptime.days]

-----------------------------------------------------------------------------
(* The chip's thermometer, and how a reading is written. *)

kTenthsPerDegree == 10
kQuartersPerDegree == 4
kStringLength == 7    \* of the buffer, its terminator included

Absolute(value) == IF value < 0 THEN -value ELSE value

\* The degrees and the quarters are added first, and the scaling divides towards zero.
ToTenths(degrees, fraction) ==
  LET quarters == degrees * kQuartersPerDegree + fraction
      tenths   == (Absolute(quarters) * kTenthsPerDegree) \div kQuartersPerDegree
  IN  IF quarters < 0 THEN -tenths ELSE tenths

\* AppendReading(): sign, whole part and tenth, taken apart so that the digits are those of a
\* number that is not negative.
AppendReading(tenths) ==
  [minus |-> tenths < 0,
   whole |-> Absolute(tenths) \div kTenthsPerDegree,
   tenth |-> Absolute(tenths) % kTenthsPerDegree]

DigitsOfNumber(value) == CASE value < 10 -> 1 [] value \in 10 .. 99 -> 2 [] OTHER -> 3

\* With its point, its tenth and the unit, but without the terminator.
LengthOfReading(reading) == (IF reading.minus THEN 1 ELSE 0) + DigitsOfNumber(reading.whole) + 3
=============================================================================
