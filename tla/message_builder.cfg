\* Every command with all its options; two rows at a time hold something.
SPECIFICATION Spec
CONSTANTS
  ValueOf <- MCValueOf
  Words <- MCWords
  MaxTouched = 2
INVARIANTS
  DialogMeansItsLine
  WhatWasTickedIsReadBack
