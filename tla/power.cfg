\* Four commands of a hand, as many as it takes to switch the supply off and on twice; a night
\* switch every third tick; a strip of three bytes, three drawings; a console of one-character
\* queues, three characters each way.
SPECIFICATION PeripheralsSpec
CONSTANTS
  Fitted = TRUE
  NightCycle = 3
  MaxBusyTicks = 1
  MaxCommands = 4
  FrameSize = 3
  Base = 2
  FifoSize = 2
  Picture = {p, q}
  Unlit = unlit
  MaxDrawings = 3
  TransmitSize = 2
  ReceiveSize = 2
  Char = {a, b}
  Nul = nul
  MaxChars = 3
INVARIANTS
  StripShowsTheBuffer
  NightLeavesNothing
  PicturesArrive
PROPERTIES
  WaitsEnd
  KeepsTheRailContract
  ConsoleLosesNothing
