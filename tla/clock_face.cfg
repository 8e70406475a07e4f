SPECIFICATION FairSpec
CONSTANTS
  Order <- TwoOverlays
  Endurance <- SomeSeconds
  Period <- DifferentMinutes
  ShowSecond = 1
  SecondsPerMinute = 3
  Minutes = 2
  MaxCommands = 2
INVARIANT
  DisplayHasOneOwner
PROPERTIES
  ShowLastsItsEndurance
  DueOverlayStarts
