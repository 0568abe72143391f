SPECIFICATION StringsSpec
CONSTANTS
  Digits = 4
  Words = {0, 1, 48879, 57005, 65535}
  MaxFill = 8
  MaxFormat = 0
  MaxArgs = 0
  Characters = {}
  Texts = {}
INVARIANTS
  HexFilledWithZeros
CHECK_DEADLOCK FALSE
