SPECIFICATION TimeSpec
CONSTANTS
  UnitsPerHour = 2
  HoursPerDay = 3
  Days = 2
  WinterHours = 1
  SummerHours = 2
  SummerBegins = 3
  SummerEnds = 8
  ReadInterval = 2
  Outages = {1, 7}
  MaxEvents = 3
  Years <- SomeYears
  WatchedDate <- ADayInMay
  Windows <- SomeWindows
  Overlays <- SomeOverlays
  Uptimes <- SomeUptimes
INVARIANTS
  ShowsTheTimeItWasGiven
  WhatIsToldIsTrue
  OverlayDaysAreCounted
PROPERTIES
  ChipCatchesUp
  TimeComesBack
  EveryDayCounts
\* The calendar ends with the last of the years.
CHECK_DEADLOCK FALSE
