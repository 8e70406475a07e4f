SPECIFICATION FairSpec
CONSTANTS
  Size = 4
  Char <- Letters
  Nul = "nul"
  End <- Newline
  Frames <- SomeFrames
  Typed <- OneLineTyped
  LineLength = 2
  MaxFrameLength = 3
  MaxFrames = 3
INVARIANTS
  EveryLineArrives
PROPERTIES
  CommandsAreAnswered
  KeepsTheInbox
