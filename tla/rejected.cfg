SPECIFICATION FairStoreSpec
CONSTANTS
  NumberOfFields = 3
  MaxValue = 2
  Accepted <- AllButTheLast
  Width = 256
  InPlace = FALSE
  MaxCommands = 5
PROPERTY
  RejectedIsCorrected
