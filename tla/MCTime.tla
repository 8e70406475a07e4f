------------------------------- MODULE MCTime -------------------------------
(***************************************************************************)
(* Time, as the chip keeps it and as the calendar tells it: where the      *)
(* clock's time comes from (ChipClock), and what the firmware derives from *)
(* a date and a time of day (Almanac).  The two share no state: the        *)
(* sources count in a small calendar of their own, the almanac in the real *)
(* one, so that a behaviour is of one of them.                             *)
(***************************************************************************)
EXTENDS ChipClock, Almanac

VARIABLE part

timeVars == << clockVars, almanacVars, part >>

OnSources(action)  == part = "sources" /\ action /\ UNCHANGED << almanacVars, part >>
OnCalendar(action) == part = "calendar" /\ action /\ UNCHANGED << clockVars, part >>

\* Where the other part starts makes no difference.
TimeInit ==
  /\ part \in {"sources", "calendar"}
  /\ ClockInit /\ AlmanacInit
  /\ part = "sources" => \A y \in Years : date.year <= y
  /\ part = "calendar" => platform = "SystemClock" /\ chip.stopped

TimeNext == OnSources(ClockNext) \/ OnCalendar(AlmanacNext)

\* The fairness of ClockSpec; of the calendar nothing is asked that must happen.
TimeSpec ==
  /\ TimeInit
  /\ [][TimeNext]_timeVars
  /\ WF_timeVars(OnSources(OnSystemClock(Task(1))))
  /\ SF_timeVars(OnSources(OnSystemClock(TaskReads(0) \/ TaskReads(1))))
  /\ SF_timeVars(OnSources(OnSystemClock((TaskWrites(0) \/ TaskWrites(1))
                                           /\ chip'.time = system' /\ ~chip'.stopped)))
  /\ WF_timeVars(OnSources(On("AVR-Dx", AvrTask(1))))
  /\ SF_timeVars(OnSources(On("AVR-Dx", AvrTick /\ readCountdown = 0 /\ age' = 0)))

-----------------------------------------------------------------------------
(* The calendar *)

\* Both ends of the century, and years around a leap year.
SomeYears == {2000, 2001, 2023, 2024, 2025, 2026, 2098, 2099}

ADayInMay == [year |-> 2026, month |-> 5, day |-> 4]

\* Windows within a day and over midnight, of every length there is an edge in.
SomeWindows ==
  LET ends == {0, 1, 359, 360, 720, 1380, 1439} IN ends \X ends

\* Dates at the ends of months and of the year, valid for a day, over a month's end, over a
\* year's, and for as many days as a byte holds.
SomeOverlays ==
  {o \in [month: {1, 2, 12}, day: {1, 28, 29, 31}, validInDays: {0, 1, 30, 70, 255}] :
     o.day <= GetDaysOfMonth(o.month, IF o.validInDays = 0 THEN 2023 ELSE 2024)}

\* Around every place that rolls over, and at the last day.
SomeUptimes ==
  [seconds: {0, 57, 58, 59}, minutes: {0, 58, 59}, hours: {0, 22, 23},
   days: {0, 7, kDaysMaximum - 1, kDaysMaximum}]
=============================================================================
