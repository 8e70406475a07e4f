SPECIFICATION SerialSpec
CONSTANTS
  TransmitSize = 2
  ReceiveSize = 2
  Char = {a, b}
  Nul = nul
  MaxChars = 3
INVARIANT
  NothingIsCutOff
