\* On the clock: three sockets for a table of two.  In the simulator: three connections for two
\* slots, frames of two packets, and four events in every order.
SPECIFICATION WebSpec
CONSTANTS
  Descriptors = {d1, d2, d3}
  None = none
  MaxClients = 2
  Interval = 2
  Displays = {0, 1}
  MaxOpens = 3
  MaxChanges = 1
  MaxAnswers = 1
  Prints = 1
  MaxPages = 3
  Nobody = nobody
  HostSlots = 2
  Requests = {"socket", "document", "image", "nothing"}
  FrameKinds = {"command", "long", "close"}
  Parts = 2
  PacketsPerRead = 2
  Room = 1
  FrameInterval = 2
  ChunkLength = 2
  Documents <- MCDocuments
  MaxEvents = 4
INVARIANTS
  MessagesArriveWhole
  PagesReadEveryLine
  PagesShowOneFrame
PROPERTY
  ConsolesKeepUp
