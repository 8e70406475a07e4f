\* Two uploads of two chunks; three commands, uploads, losses of power or changes of the link in
\* every order, beside every failure of the filesystem.  Nothing is compiled in.
SPECIFICATION BoardsFairSpec
CONSTANTS
  Texts = {"a"}
  Empty = ""
  Torn = "torn"
  CompiledIn <- MCCompiledIn
  Posts = 2
  Chunks = 2
  None = None
  MaxEvents = 3
  Resolution = 4
  Prescalers <- MCPrescalers
  CyclesPerHalf = 1
  Periods = {0, 1, 6}
  NumberOfChannels = 1
  DutyRange = 2
  Callbacks = {callback}
  Nothing = nothing
INVARIANTS
  UndisturbedImageIsWhole
  StoreIsWhatWasEntered
  PartitionIsFreeAgain
  CounterStaysBelowTop
PROPERTIES
  AnswersAreTrue
  JoinedClockAsksTheTime
